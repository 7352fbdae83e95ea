------------------------------ MODULE PaperLedger ------------------------------
(***************************************************************************)
(* The durable side of paper trading for one mint: the chain events the    *)
(* decisions rest on, the qualification reports, and the rows of           *)
(* paper_decision_jobs, trading_candidates, paper_strategy_sessions,       *)
(* paper_positions, paper_external_buy_events and execution_intents, with  *)
(* the statements of PostgresPaperDecisionRepository and of the paper      *)
(* trading engine as operators over them.                                  *)
(*                                                                         *)
(* The chain events are numbered in cursor order: 0 is the launch, the     *)
(* others are trades.  A trade belongs to CreatorSells when the creator    *)
(* sells; otherwise it is a buy of a wallet of its own, large enough to    *)
(* count.  A candidate, its session and its position are identified by the *)
(* qualification report they derive from.                                  *)
(***************************************************************************)
EXTENDS Integers, Sequences, FiniteSets, FiniteSetsExt, Functions

CONSTANTS NTrades, CreatorSells,
          Target,       \* externalBuyTarget
          MaxAttempts   \* max_attempts of a job

ASSUME PaperLedgerAssumption ==
  /\ NTrades \in Nat /\ CreatorSells \subseteq 1..NTrades
  /\ Target \in Nat \ {0} /\ MaxAttempts \in Nat \ {0}

Launch == 0
Events == 0..NTrades
Buyers == (1..NTrades) \ CreatorSells

VARIABLES
  chain,      \* [Events -> status, replayed?, observed_at]
  report,     \* the qualification reports that a worker asked for, in order
  cur,        \* the report that is not superseded
  job,        \* paper_decision_jobs, by identity
  cand,       \* trading_candidates, by report
  sess,       \* paper_strategy_sessions, by report
  posn,       \* paper_positions, by report
  trace,      \* PaperStrategySessionUpdated events: <<report, source>>
  proof,      \* paper_external_buy_events: <<report, trade>>
  intent,     \* the intents emitted: <<action, report>>
  quotes,     \* how many pairs of entry quotes were read so far
  stamps       \* the number of timestamps written to sessions and positions

facts == <<chain, report, cur, quotes>>
decisions == <<job, cand, sess, trace, proof, intent>>
store == <<facts, decisions, posn, stamps>>

None == "none"
Refused == -1    \* an orphaned event as the trigger of a close
Now == stamps + 1

-----------------------------------------------------------------------------
(***************************************************************************)
(* What the transaction pipeline leaves in the database.                   *)
(***************************************************************************)
Canonical(e) == chain[e].status \in {"confirmed", "finalized"}

(* assertPaperFinalityReplayCurrent: every known event of the mint at or   *)
(* before the source is replayed at its own status.                        *)
ReplayCurrent(e) ==
  /\ chain[e].status # "absent"
  /\ \A x \in 0..e : chain[x].status # "absent" => chain[x].replayed

(* The latest canonical event of the mint.                                 *)
Latest == Max({e \in Events : Canonical(e)})

(* A projection of the qualification from the latest event.  id is the     *)
(* position in report of one that a worker asked for, and 0 for those of   *)
(* the pipeline; one with quotes keeps when they were read and the trades  *)
(* that precede them.                                                      *)
Projected(id, at, before) ==
  [id |-> id, src |-> Latest, status |-> chain[Latest].status, at |-> at, before |-> before]

Dissolved == [id |-> 0]

(* loadQualification(current): the report nobody superseded, as long as    *)
(* its source still has the status it was built from.                      *)
Qualified ==
  cur # Dissolved /\ Canonical(cur.src) /\ chain[cur.src].status = cur.status

IsCurrent(r) == Qualified /\ cur.id = r

Known == {t \in 1..NTrades : chain[t].status # "absent"}

(* requireCurrentQualification, inside the transaction of open.            *)
RequireCurrent(r) == IsCurrent(r) /\ ReplayCurrent(report[r].src)

-----------------------------------------------------------------------------
(***************************************************************************)
(* Sessions.                                                               *)
(***************************************************************************)
TerminalStates == {"PAPER_CLOSED", "PAPER_RETRACTED", "MANUAL_REVIEW"}
OpenStates == {"BUY_PENDING", "WAITING_EXTERNAL_BUYS", "EXIT_PENDING_QUOTE"}

(* CreationEntryV1Strategy.prepare                                         *)
Prepared(j) ==
  [st |-> "BUY_PENDING", at |-> Now, count |-> {}, pos |-> FALSE, pend |-> None,
   profit |-> FALSE, why |-> "QUALIFIED_ENTRY", src |-> j.src]

(* Faulty variant: a terminal row may be reopened by a newer one. *)
AcceptedReopening(r, s, orphaned) ==
  \/ r \notin DOMAIN sess
  \/ sess[r].at < s.at
  \/ sess[r].at = s.at /\ (Cardinality(s.count) >= Cardinality(sess[r].count) \/ orphaned)

(* upsertSession: a newer row replaces the stored one, an equally old one  *)
(* only when it counts as many buys or comes from an orphaned source, and  *)
(* a terminal row never goes back.                                         *)
Accepted(r, s, orphaned) ==
  \/ r \notin DOMAIN sess
  \/ /\ \/ sess[r].at < s.at
        \/ sess[r].at = s.at
           /\ (Cardinality(s.count) >= Cardinality(sess[r].count) \/ orphaned)
     /\ sess[r].st \in TerminalStates => s.st \in TerminalStates

Put(f, x, v) == [y \in DOMAIN f \cup {x} |-> IF y = x THEN v ELSE f[y]]

(* The row that upsertSession leaves; the source event is only inserted.   *)
Upsert(r, s, orphaned) ==
  IF ~Accepted(r, s, orphaned) THEN sess
  ELSE Put(sess, r, IF r \in DOMAIN sess THEN [s EXCEPT !.src = sess[r].src] ELSE s)

(* The unique index on the sessions with an exposure to settle.            *)
OneOpenSession(rows) ==
  LET exposed == {r \in DOMAIN rows : rows[r].st \in OpenStates \cup {"MANUAL_REVIEW"}}
  IN  \A a, b \in exposed : a = b

(* retractUnopenedCreationSession over the rows of sessions after the      *)
(* decision was written: reservations without a position are given up.     *)
Unopened(rows, r) ==
  /\ rows[r].st = "BUY_PENDING" /\ ~rows[r].pos
  /\ r \notin DOMAIN posn
  /\ \A p \in DOMAIN posn : posn[p].st # "PAPER_HOLDING"

GiveUp(rows, among) ==
  [r \in DOMAIN rows |->
     IF r \in among /\ Unopened(rows, r)
     THEN [rows[r] EXCEPT !.st = "PAPER_RETRACTED", !.why = "CREATION_ENTRY_REJECTED",
                          !.at = IF Now > @ THEN Now ELSE @]
     ELSE rows[r]]

-----------------------------------------------------------------------------
(***************************************************************************)
(* writeDecision.  A result is the report it derives from, the session to  *)
(* store (NoSession when there is none), the buys it counts and the action it   *)
(* asks for.                                                               *)
(***************************************************************************)
NoSession == [st |-> "NONE"]

Result(r, s, buys, act) == [r |-> r, s |-> s, buys |-> buys, act |-> act]

(* qualificationFromRow of a report that is not asked to be the current    *)
(* one: its event keeps the status the report was built from, and the row  *)
(* is refused when the source event has another status by now.             *)
Loadable(r) == chain[report[r].src].status = report[r].status

(* assertPersistedQualification: a new candidate needs the current report. *)
Persisted(r) == IF r \in DOMAIN cand THEN Loadable(r) ELSE IsCurrent(r)

(* hasCompleteCreationEvidence *)
CompleteEvidence(res) == res.s # NoSession /\ res.buys = res.s.count

CanWrite(j, res) ==
  /\ ReplayCurrent(j.src)
  /\ Persisted(res.r)
  /\ res.s # NoSession => OneOpenSession(Upsert(res.r, res.s, j.status = "orphaned"))
  /\ \A t \in res.buys : Canonical(t)

CandidatesAfter(j, res) ==
  IF res.r \in DOMAIN cand THEN cand
  ELSE Put([r \in DOMAIN cand |-> [cand[r] EXCEPT !.superseded = TRUE]], res.r,
           [src |-> j.src, superseded |-> FALSE])

SessionsAfter(j, res) ==
  IF res.s = NoSession THEN sess ELSE Upsert(res.r, res.s, j.status = "orphaned")

(* The session that the payload of the job's row names.                    *)
StagedBy(res) == IF res.s = NoSession THEN 0 ELSE res.r

WriteAccepted(j, res) == res.s # NoSession /\ Accepted(res.r, res.s, j.status = "orphaned")

(* The evidence rows: a reconciliation of an orphaned event replaces them, *)
(* unless its session write came too late; any other result adds its own.  *)
ProofAfter(j, res, terminal) ==
  LET replaces == terminal /\ j.status = "orphaned" /\ CompleteEvidence(res)
      ok       == WriteAccepted(j, res)
      added    == {<<res.r, t>> : t \in res.buys}
  IN  IF replaces
      THEN IF ok THEN {x \in proof : x[1] # res.r} \cup added ELSE proof
      ELSE proof \cup added

-----------------------------------------------------------------------------
(***************************************************************************)
(* The paper trading engine.                                               *)
(***************************************************************************)
Held == {r \in DOMAIN posn : posn[r].st = "PAPER_HOLDING"}

(* reconcileOpenReplay: only the job that opened a position gets it back.  *)
OwnPosition(r, j) == r \in DOMAIN posn /\ posn[r].job = j

(* validateOpenCommand: the job must not be younger than the quotes.       *)
CommandValid(r, j) == job[j].created < report[r].at

NewPosition(j) ==
  [st |-> "PAPER_HOLDING", job |-> j, openedAt |-> Now, closedAt |-> 0, trig |-> Refused,
   profit |-> FALSE]

ClosedPosition(r, trig, profit) ==
  [posn[r] EXCEPT !.st = "PAPER_CLOSED", !.closedAt = Now, !.trig = trig, !.profit = profit]

RetractedPosition(r) ==
  [posn[r] EXCEPT !.st = "PAPER_RETRACTED", !.closedAt = IF @ = 0 THEN Now ELSE @]

-----------------------------------------------------------------------------
(***************************************************************************)
(* Jobs.                                                                   *)
(***************************************************************************)
NewJob ==
  [st |-> "PENDING", tries |-> 0, late |-> FALSE, exhausted |-> FALSE, staged |-> 0,
   created |-> quotes]

(* enqueue: ON CONFLICT DO NOTHING *)
Enqueue(j) == IF j \in DOMAIN job THEN job ELSE Put(job, j, NewJob)

(* assertLeaseRow: the lease token of a claim is its number.  Whether the  *)
(* lease has run out is not looked at.                                     *)
HoldsLease(j, tries) == job[j].st = "PROCESSING" /\ job[j].tries = tries

Settled(j) == job[j].st \in {"COMPLETED", "CANCELLED"}
================================================================================
