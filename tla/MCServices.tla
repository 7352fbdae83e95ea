------------------------------ MODULE MCServices ------------------------------
(***************************************************************************)
(* The services that share the database but not each other's tables: the   *)
(* arming of entries with the risk ledger, the evaluation of one attempt   *)
(* and the paper decisions.  A behaviour follows one of them, the focus;   *)
(* the others stand still.  left bounds what disturbs the focus.           *)
(***************************************************************************)
EXTENDS PaperDecisions, EntryArming, AttemptEvaluation, TLC

VARIABLES focus, left

Free(A) == A /\ UNCHANGED left
Costly(A) == left > 0 /\ A /\ left' = left - 1

-----------------------------------------------------------------------------
(* Arming: an operator who intervenes once, provider work that is counted  *)
(* while a snapshot is taken, or a sequence of faults and successes.       *)
ArmingOnly == UNCHANGED <<control, envelopes, targets, consent, daemon>>

ArmingStory ==
  \/ Free(DaemonStep \/ ExecutorStep \/ (\E i \in Targets : RequestBuy(i)) \/ createEnvelope)
  \/ envelopes = << >> /\ Free(Authorize("ENVELOPE"))
  \/ Free(RiskTick \/ CommitOperation) /\ ArmingOnly

OperatorStory ==
  \/ ArmingStory
  \/ Free(resume \/ armCanary)
  \/ control # "RUNNING" /\ Free(Authorize("RESUME"))
  \/ Costly(OperatorStep \/ TickFails \/ Restart)

UsageStory ==
  \/ ArmingStory
  \/ Costly(BeginOperation \/ AbortOperation \/ recordRateLimit) /\ ArmingOnly

FaultStory ==
  /\ \/ RiskTick
     \/ \E id \in FaultIds, at \in Times, technical \in BOOLEAN, kind \in FaultKinds :
           /\ kind.side = "SELL" /\ kind.stage \in {"SIMULATION", "SUBMISSION"} /\ kind.class = "TRANSIENT"
           /\ recordFault(id, at, technical, kind)
     \/ \E at \in Times : recordReconciledSuccess(at)
  /\ ArmingOnly /\ UNCHANGED left

-----------------------------------------------------------------------------
(* Paper decisions for one mint: failing are crashes, lost leases, lost     *)
(* readiness and bad quotes; turns are events orphaned or finalized and    *)
(* the kill switch; the crew is the number of workers that are busy at the *)
(* same time; later says that the trades happen after the entry.           *)
Scenario(crew, trades, later, failing, turns) ==
  [crew |-> crew, trades |-> trades, later |-> later, failing |-> failing, turns |-> turns]

Scenarios == {Scenario(2, 1, FALSE, 1, 0), Scenario(1, 1, FALSE, 0, 1),
              Scenario(1, 3, TRUE, 0, 0), Scenario(2, 2, TRUE, 0, 0),
              Scenario(1, 2, TRUE, 0, 1)}

Use(kind) == left[kind] > 0 /\ left' = [left EXCEPT ![kind] = @ - 1]

Busy == {w \in Workers : worker[w] # Idle}

PaperChain ==
  /\ Chain
  /\ Cardinality(Known') <= left.trades
  /\ left.later /\ Known' # Known => (\E r \in DOMAIN sess : sess[r].pos)
  /\ UNCHANGED left

PaperPoll == Cardinality(Busy) < left.crew /\ (\E w \in Workers : Poll(w)) /\ UNCHANGED left

(* The lease of a job that nobody works on any more runs out by itself.    *)
PaperLease ==
  /\ \E j \in DOMAIN job : LeaseExpires(j) /\ \A w \in Busy : worker[w].job # j
  /\ UNCHANGED left

PaperTurn == (Reorg \/ EngageKillSwitch) /\ Use("turns")

PaperFault ==
  /\ \/ \E w \in Workers : BadNews(w) \/ Crash(w) \/ ReadinessLost(w)
     \/ \E j \in DOMAIN job : LeaseExpires(j)
  /\ Use("failing")

PaperStory == PaperChain \/ PaperPoll \/ Free(\E w \in Workers : Work(w))
              \/ PaperLease \/ PaperTurn \/ PaperFault

CrewSymmetry == Permutations(Workers)

-----------------------------------------------------------------------------
Foci == ({"operator", "usage"} \X {1}) \cup ({"faults", "evaluation"} \X {0}) \cup ({"paper"} \X Scenarios)

MCInit ==
  /\ \E f \in Foci : focus = f[1] /\ left = f[2]
  /\ ArmingInit /\ Init
  /\ IF focus = "evaluation" THEN EvaluationInit
     ELSE session = SessionInit /\ attempt = NewAttempt("BUY", FALSE, 1)

MCNext ==
  /\ UNCHANGED focus
  /\ \/ focus = "operator" /\ OperatorStory /\ UNCHANGED <<vars, evaluationVars>>
     \/ focus = "usage" /\ UsageStory /\ UNCHANGED <<vars, evaluationVars>>
     \/ focus = "faults" /\ FaultStory /\ UNCHANGED <<vars, evaluationVars>>
     \/ focus = "evaluation" /\ Free(EvaluationNext) /\ UNCHANGED <<vars, armingVars>>
     \/ focus = "paper" /\ PaperStory /\ UNCHANGED <<armingVars, evaluationVars>>

MCSpec == MCInit /\ [][MCNext]_<<vars, armingVars, evaluationVars, focus, left>>
===============================================================================
