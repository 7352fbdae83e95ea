-------------------------- MODULE ExecutionIntents --------------------------
(***************************************************************************)
(* The intents that only simulation and dry-run workers touch: creation    *)
(* from a draft, claims, the simulation worker's pass up to its artifact,  *)
(* the dry-run worker's pass up to its assessment, the expiration sweep    *)
(* and retention with its tombstones.                                      *)
(*                                                                         *)
(* An intent identity is a number; identities are numbered in the order of *)
(* requested_at, the order in which claim looks at them.  LogicalOrder     *)
(* gives the logical order key of an identity, and a draft is an identity  *)
(* with the content of its other immutable columns.                        *)
(***************************************************************************)
EXTENDS IntentLedger, FiniteSets

CONSTANTS Ids, LogicalOrder, Contents, Simulators, DryRunners, NoIntent, NoClaim,
          MaxTokens  \* bound on the number of claims

ASSUME ExecutionIntentsAssumption ==
  /\ Ids \subseteq Nat
  /\ MaxTokens \in Nat
  /\ Simulators \cap DryRunners = {}
  /\ NoIntent \notin Contents

Workers == Simulators \cup DryRunners

(* A simulation artifact of an attempt, or the dry-run assessment of an    *)
(* intent; both are the draft of a worker before they are stored.          *)
Outcomes == {"SUCCESS", "FAILURE"}
Draft == [id: Ids, attempt: Nat, revision: Nat, kind: Outcomes \cup {"ASSESSMENT"}]

VARIABLES
  intents,      \* execution_intents
  content,      \* their immutable columns, NoIntent where there is no row
  journal,      \* execution_intent_transitions: the statuses entered, in order
  artifacts,    \* execution_simulation_artifacts, execution_dry_run_assessments
  tombstones,   \* execution_intent_tombstones
  tokens,       \* lease tokens drawn so far
  worker,       \* what each worker is doing
  inFlight,     \* completion statements whose connection was lost
  reported      \* what a worker has announced as recorded

vars == <<intents, content, journal, artifacts, tombstones, tokens, worker, inFlight, reported>>

Idle == [pc |-> "IDLE", id |-> 0, claim |-> NoClaim, draft |-> NoClaim]

Present(i) == content[i] # NoIntent

Init ==
  /\ intents = [i \in Ids |-> NewIntent]
  /\ content = [i \in Ids |-> NoIntent]
  /\ journal = [i \in Ids |-> <<>>]
  /\ artifacts = {} /\ tombstones = {}
  /\ tokens = 0
  /\ worker = [w \in Workers |-> Idle]
  /\ inFlight = {}
  /\ reported = {}

-----------------------------------------------------------------------------
(***************************************************************************)
(* createExecutionIntentInTransaction.  A draft whose identity or order    *)
(* key is stored or retired creates nothing: it is a replay when the very  *)
(* same draft is stored and a duplicate error otherwise.                   *)
(***************************************************************************)
Occupied(i) == \E j \in Ids : Present(j) /\ LogicalOrder[j] = LogicalOrder[i]

Creatable(i) ==
  /\ ~Occupied(i)
  /\ ~\E j \in tombstones : LogicalOrder[j] = LogicalOrder[i]

Create(i, c) ==
  /\ Creatable(i)
  /\ content' = [content EXCEPT ![i] = c]
  /\ intents' = [intents EXCEPT ![i] = NewIntent]
  /\ UNCHANGED <<journal, artifacts, tombstones, tokens,
                 worker, inFlight, reported>>

-----------------------------------------------------------------------------
(* claim: the oldest candidate gets a fresh token. *)
ExecuteCandidates ==
  {i \in Ids : /\ Present(i)
               /\ intents[i].status \in {"PENDING", "RETRY_READY", "PROCESSING"}
               /\ ~intents[i].expired
               /\ LeaseIsFree(intents[i])}

DryRunCandidates ==
  {i \in Ids : /\ Present(i)
               /\ intents[i].status \in {"PENDING", "RETRY_READY"}
               /\ ~intents[i].expired
               /\ LeaseIsFree(intents[i])
               /\ ~\E a \in artifacts : a.id = i /\ a.kind = "ASSESSMENT"}

Claim(w, candidates) ==
  /\ worker[w] = Idle
  /\ tokens < MaxTokens
  /\ \E i \in candidates :
       LET r == Leased(intents[i], tokens + 1)
       IN /\ \A j \in candidates : i <= j
          /\ intents' = [intents EXCEPT ![i] = r]
          /\ worker' = [worker EXCEPT ![w] =
               [Idle EXCEPT !.pc = "CLAIMED", !.id = i, !.claim = ClaimOf(r)]]
  /\ tokens' = tokens + 1
  /\ UNCHANGED <<content, journal, artifacts, tombstones, inFlight, reported>>

(* A repository call refused by the fence ends the pass. *)
HoldsFence(w) ==
  /\ Present(worker[w].id)
  /\ Fenced(intents[worker[w].id], worker[w].claim)

EndPass(w) ==
  /\ worker' = [worker EXCEPT ![w] = Idle]
  /\ UNCHANGED <<intents, content, journal, artifacts, tombstones, tokens,
                 inFlight, reported>>

LoseFence(w) ==
  /\ worker[w].pc \in {"CLAIMED", "STARTED", "EVALUATING"}
  /\ ~HoldsFence(w)
  /\ EndPass(w)

(***************************************************************************)
(* The simulation worker's pass: transition to PROCESSING unless it takes  *)
(* over an intent already there, beginAttempt, the evaluation with its     *)
(* renewals, complete.                                                     *)
(***************************************************************************)
StartProcessing(w) ==
  LET i == worker[w].id
      r == Moved(intents[i], "PROCESSING")
  IN /\ worker[w].pc = "CLAIMED"
     /\ HoldsFence(w)
     /\ worker[w].claim.status = "PENDING"
     /\ AttemptCount(intents[i]) = 0
     /\ intents' = [intents EXCEPT ![i] = r]
     /\ journal' = [journal EXCEPT ![i] = Append(@, "PROCESSING")]
     /\ worker' = [worker EXCEPT ![w].pc = "STARTED", ![w].claim = ClaimOf(r)]
     /\ UNCHANGED <<content, artifacts, tombstones, tokens,
                    inFlight, reported>>

BeginAttempt(w) ==
  LET i == worker[w].id
      r == Begun(intents[i])
  IN /\ \/ worker[w].pc = "STARTED"
        \/ worker[w].pc = "CLAIMED" /\ worker[w].claim.status = "PROCESSING"
     /\ HoldsFence(w)
     /\ LedgerIsConsistent(intents[i])
     /\ intents' = [intents EXCEPT ![i] = r]
     /\ worker' = [worker EXCEPT ![w].pc = "EVALUATING", ![w].claim = ClaimOf(r)]
     /\ UNCHANGED <<content, journal, artifacts, tombstones, tokens,
                    inFlight, reported>>

DraftOf(w, kind) ==
  [id |-> worker[w].id, attempt |-> worker[w].claim.attemptCount,
   revision |-> worker[w].claim.revision, kind |-> kind]

(* The evaluation and the last renewal of the lease, BEFORE_COMMIT. *)
Evaluate(w, kind) ==
  /\ worker[w].pc = "EVALUATING"
  /\ HoldsFence(w)
  /\ worker' = [worker EXCEPT ![w].pc = "DRAFTED", ![w].draft = DraftOf(w, kind)]
  /\ UNCHANGED <<intents, content, journal, artifacts, tombstones, tokens, inFlight, reported>>

(* The dry-run worker assesses the claimed intent itself. *)
Assess(w) ==
  /\ w \in DryRunners
  /\ worker[w].pc = "CLAIMED"
  /\ worker' = [worker EXCEPT ![w].pc = "DRAFTED", ![w].draft = DraftOf(w, "ASSESSMENT")]
  /\ UNCHANGED <<intents, content, journal, artifacts, tombstones, tokens, inFlight, reported>>

(***************************************************************************)
(* COMPLETE_SQL of the simulation and of the dry-run repository, each one  *)
(* statement: the fence, then the artifact and the intent together.        *)
(***************************************************************************)
Simulated(r, d) ==
  /\ r.status = "PROCESSING"
  /\ AttemptCount(r) = d.attempt
  /\ HasStarted(r)
  /\ ~\E a \in artifacts : a.id = d.id /\ a.attempt = d.attempt

Assessed(r, d) ==
  /\ r.status \in {"PENDING", "RETRY_READY"}
  /\ ~\E a \in artifacts : a.id = d.id /\ a.kind = "ASSESSMENT"

(* Faulty variant: the statement trusts the attempt instead of the lease. *)
CompletableLate(c, d) ==
  LET r == intents[d.id]
  IN /\ Present(d.id)
     /\ IF d.kind = "ASSESSMENT" THEN Fenced(r, c) /\ Assessed(r, d)
        ELSE AttemptCount(r) = d.attempt /\ r.status # "SUCCEEDED"

Completable(c, d) ==
  LET r == intents[d.id]
  IN /\ Present(d.id)
     /\ Fenced(r, c)
     /\ ~r.expired
     /\ IF d.kind = "ASSESSMENT" THEN Assessed(r, d) ELSE Simulated(r, d)

CompletedRow(r, d) ==
  IF d.kind = "SUCCESS"
  THEN Moved(Moved(AttemptEnded(r, "COMPLETED"), "SIMULATED"), "SUCCEEDED")
  ELSE IF d.kind = "FAILURE" THEN Moved(AttemptEnded(r, "ABANDONED"), "FAILED")
  ELSE Released(r)

CompletedPath(d) ==
  IF d.kind = "SUCCESS" THEN <<"SIMULATED", "SUCCEEDED">>
  ELSE IF d.kind = "FAILURE" THEN <<"FAILED">> ELSE <<>>

RunComplete(d) ==
  /\ intents' = [intents EXCEPT ![d.id] = CompletedRow(@, d)]
  /\ journal' = [journal EXCEPT ![d.id] = @ \o CompletedPath(d)]
  /\ artifacts' = artifacts \cup {d}

Complete(w) ==
  LET d == worker[w].draft
  IN /\ worker[w].pc = "DRAFTED"
     /\ IF Completable(worker[w].claim, d)
        THEN RunComplete(d) /\ reported' = reported \cup {d}
        ELSE UNCHANGED <<intents, journal, artifacts, reported>>
     /\ worker' = [worker EXCEPT ![w] = Idle]
     /\ UNCHANGED <<content, tombstones, tokens, inFlight>>

(***************************************************************************)
(* COMMIT_OUTCOME_UNKNOWN: the connection is lost.  The statement has run, *)
(* or runs later, or never; findExact then looks for the exact artifact.   *)
(***************************************************************************)
LoseCommit(w) ==
  /\ worker[w].pc = "DRAFTED"
  /\ worker' = [worker EXCEPT ![w].pc = "UNKNOWN"]
  /\ inFlight' = inFlight \cup {<<worker[w].claim, worker[w].draft>>}
  /\ UNCHANGED <<intents, content, journal, artifacts, tombstones, tokens, reported>>

LateComplete(f) ==
  /\ f \in inFlight
  /\ IF Completable(f[1], f[2]) THEN RunComplete(f[2])
     ELSE UNCHANGED <<intents, journal, artifacts>>
  /\ inFlight' = inFlight \ {f}
  /\ UNCHANGED <<content, tombstones, tokens, worker, reported>>

DropComplete(f) ==
  /\ f \in inFlight
  /\ inFlight' = inFlight \ {f}
  /\ UNCHANGED <<intents, content, journal, artifacts, tombstones, tokens, worker, reported>>

Found(d) == d \in artifacts

FindExact(w) ==
  /\ worker[w].pc = "UNKNOWN"
  /\ reported' = IF Found(worker[w].draft) THEN reported \cup {worker[w].draft} ELSE reported
  /\ worker' = [worker EXCEPT ![w] = Idle]
  /\ UNCHANGED <<intents, content, journal, artifacts, tombstones, tokens, inFlight>>

-----------------------------------------------------------------------------
(* Retention: the expiration sweep, and the purge of terminal intents. *)
Expire(i) ==
  /\ Present(i)
  /\ Expirable(intents[i])
  /\ intents' = [intents EXCEPT ![i] = ExpiredRow(@)]
  /\ journal' = [journal EXCEPT ![i] = Append(@, "EXPIRED")]
  /\ UNCHANGED <<content, artifacts, tombstones, tokens, worker,
                 inFlight, reported>>

Purge(i) ==
  /\ Present(i)
  /\ IsFinal(intents[i])
  /\ content' = [content EXCEPT ![i] = NoIntent]
  /\ intents' = [intents EXCEPT ![i] = NewIntent]
  /\ journal' = [journal EXCEPT ![i] = <<>>]
  /\ artifacts' = {a \in artifacts : a.id # i}
  /\ tombstones' = tombstones \cup {i}
  /\ UNCHANGED <<tokens, worker, inFlight, reported>>

(* The clock: a lease lapses, an intent passes its expires_at. *)
LeaseLapses(i) ==
  /\ Present(i)
  /\ intents[i].token # 0 /\ ~intents[i].lapsed
  /\ intents' = [intents EXCEPT ![i].lapsed = TRUE]
  /\ UNCHANGED <<content, journal, artifacts, tombstones, tokens,
                 worker, inFlight, reported>>

IntentExpires(i) ==
  /\ Present(i)
  /\ ~intents[i].expired
  /\ ~IsFinal(intents[i])
  /\ intents' = [intents EXCEPT ![i].expired = TRUE]
  /\ UNCHANGED <<content, journal, artifacts, tombstones, tokens,
                 worker, inFlight, reported>>

(* A worker process dies or is told to stop: the pass is forgotten. *)
Crash(w) ==
  /\ worker[w] # Idle
  /\ EndPass(w)

-----------------------------------------------------------------------------
Pass(w) ==
  \/ w \in Simulators /\ Claim(w, ExecuteCandidates)
  \/ w \in DryRunners /\ Claim(w, DryRunCandidates)
  \/ w \in Simulators /\ (LoseFence(w) \/ StartProcessing(w) \/ BeginAttempt(w))
  \/ \E k \in Outcomes : Evaluate(w, k)
  \/ Complete(w)
  \/ LoseCommit(w)
  \/ FindExact(w)
  \/ Assess(w)
  \/ Crash(w)

Next ==
  \/ \E i \in Ids, c \in Contents : Create(i, c)
  \/ \E w \in Workers : Pass(w)
  \/ \E f \in inFlight : LateComplete(f) \/ DropComplete(f)
  \/ \E i \in Ids : Expire(i) \/ Purge(i) \/ LeaseLapses(i) \/ IntentExpires(i)

Spec == Init /\ [][Next]_vars

-----------------------------------------------------------------------------
TypeOK ==
  /\ intents \in [Ids -> IntentRow]
  /\ content \in [Ids -> Contents \cup {NoIntent}]
  /\ journal \in [Ids -> Seq(Statuses)]
  /\ artifacts \subseteq Draft
  /\ tombstones \subseteq Ids
  /\ tokens \in 0..MaxTokens
  /\ worker \in [Workers ->
       [pc: {"IDLE", "CLAIMED", "STARTED", "EVALUATING", "DRAFTED", "UNKNOWN"},
        id: Ids \cup {0}, claim: ClaimRow \cup {NoClaim}, draft: Draft \cup {NoClaim}]]
  /\ inFlight \subseteq (ClaimRow \X Draft)
  /\ reported \subseteq Draft

(* An intent SUCCEEDED or FAILED exactly when its last attempt has the     *)
(* artifact that says so; no attempt has two artifacts, and no intent two  *)
(* assessments.                                                            *)
ArtifactDecidesIntent ==
  /\ \A a, b \in artifacts : a.id = b.id /\ a.attempt = b.attempt => a = b
  /\ \A i \in Ids : Present(i) =>
       LET r == intents[i]
           last(kind) == \E a \in artifacts :
                           a.id = i /\ a.attempt = AttemptCount(r) /\ a.kind = kind
       IN /\ (r.status = "SUCCEEDED") <=> last("SUCCESS")
          /\ (r.status = "FAILED") <=> last("FAILURE")

(* No intent stays unsettled: the workers settle it, or else its expiry    *)
(* passes, the last lease lapses and the sweep expires it.                 *)
IntentSettles ==
  \A i \in Ids : Present(i) ~> (~Present(i) \/ IsFinal(intents[i]))

=============================================================================
