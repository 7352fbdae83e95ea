---------------------------- MODULE CatchUpStore ----------------------------
(***************************************************************************)
(* The durable state of strict catch-up: per checkpoint key the processing *)
(* checkpoint, the resumable runs and the window failures, with the        *)
(* repository transactions that write them.  Each transaction takes the    *)
(* advisory lock of its key, so it is one step; when it cannot apply it    *)
(* throws TransactionInboxConflictError and writes nothing, and the caller *)
(* tests for that with the operator named Can...                           *)
(*                                                                         *)
(* A chain position 1..MaxHead stands for a (slot, signature) pair, in the *)
(* order in which providers list them; 0 is NULL.  Timestamps are left     *)
(* out: they only add refusals, which a scan meets as failures.            *)
(***************************************************************************)
EXTENDS Integers, FiniteSets, Sequences

CONSTANTS Keys,       \* checkpoint keys: launchpad, market
          Providers,  \* configured RPC providers
          MaxHead,    \* number of chain positions
          SlotOf,     \* slot of a position
          NoRun

ASSUME ChainAssumption ==
  /\ MaxHead \in Nat \ {0}
  /\ Providers # {}
  /\ SlotOf \in [1..MaxHead -> Nat]
  /\ \A i, j \in 1..MaxHead : i <= j => SlotOf[i] <= SlotOf[j]

VARIABLES checkpoint,  \* processing_checkpoints
          runs,        \* listener_strict_catch_up_runs
          failures     \* listener_strict_catch_up_failures

storeVars == <<checkpoint, runs, failures>>

Positions == 1..MaxHead
MaybePositions == 0..MaxHead
RunStates == {"ACTIVE", "COMPLETED", "FAILED", "SUPERSEDED"}

(* The run id is a digest of key, previous and provider. *)
RunType ==
  [key: Keys, previous: Positions, provider: Providers, head: Positions,
   before: Positions, revision: Nat, state: RunStates]

(* The failure id is a digest of everything but resolved; headSlot -1 is NULL. *)
FailureType ==
  [key: Keys, previous: MaybePositions, provider: Providers,
   headSlot: Nat \cup {-1}, resolved: BOOLEAN]

ASSUME NoRunAssumption == NoRun \notin RunType

StoreInit ==
  /\ checkpoint = [k \in Keys |-> 0]
  /\ runs = {}
  /\ failures = {}

-----------------------------------------------------------------------------
SameRunId(x, y) == x.key = y.key /\ x.previous = y.previous /\ x.provider = y.provider

ActiveRuns(k) == {x \in runs : x.key = k /\ x.state = "ACTIVE"}

(* readActiveStrictCatchUpRun and readStrictCatchUpRun: the one row found. *)
TheRun(found) == IF found = {} THEN NoRun ELSE CHOOSE x \in found : TRUE

ReadActiveStrictCatchUpRun(k) == TheRun(ActiveRuns(k))

ReadStrictCatchUpRun(k, previous, p) ==
  TheRun({x \in runs : x.key = k /\ x.previous = previous /\ x.provider = p})

Terminalized(x, state) == [x EXCEPT !.state = state, !.revision = @ + 1]

(* resolveStrictCatchUpFailuresAt: every open failure at that boundary. *)
ResolvedAt(k, previous) ==
  {IF f.key = k /\ f.previous = previous THEN [f EXCEPT !.resolved = TRUE] ELSE f : f \in failures}

-----------------------------------------------------------------------------
IsCheckpointRegression(expected, next) == expected # 0 /\ SlotOf[next] < SlotOf[expected]

CanSwapCheckpoint(k, expected, next) ==
  checkpoint[k] = expected /\ ~IsCheckpointRegression(expected, next)

CompareAndSwapCheckpoint(k, expected, next) ==
  /\ CanSwapCheckpoint(k, expected, next)
  /\ checkpoint' = [checkpoint EXCEPT ![k] = next]
  /\ failures' = ResolvedAt(k, expected)
  /\ UNCHANGED runs

ResolveStrictCatchUpFailures(k, previous) ==
  /\ failures' = ResolvedAt(k, previous)
  /\ UNCHANGED <<checkpoint, runs>>

(* A failure already stored keeps its resolution; one of a boundary that is *)
(* no longer the checkpoint is resolved at once.                            *)
RecordStrictCatchUpFailure(k, previous, p, headSlot) ==
  LET id == [key |-> k, previous |-> previous, provider |-> p, headSlot |-> headSlot,
             resolved |-> FALSE]
      closed == [id EXCEPT !.resolved = TRUE]
      stale == checkpoint[k] # previous
  IN /\ failures' = IF closed \in failures THEN failures
                    ELSE IF stale THEN (failures \ {id}) \cup {closed}
                    ELSE failures \cup {id}
     /\ UNCHANGED <<checkpoint, runs>>

(* The stored run is returned when it equals the new one. *)
CanCreateRun(x) ==
  /\ checkpoint[x.key] = x.previous
  /\ \/ x \in runs
     \/ ~(\E y \in runs : SameRunId(x, y)) /\ ActiveRuns(x.key) = {}

CreateStrictCatchUpRun(x) ==
  /\ CanCreateRun(x)
  /\ runs' = runs \cup {x}
  /\ UNCHANGED <<checkpoint, failures>>

CanAdvanceRun(x) == checkpoint[x.key] = x.previous /\ x \in runs

AdvanceStrictCatchUpRun(x, next) ==
  /\ CanAdvanceRun(x)
  /\ runs' = (runs \ {x}) \cup {next}
  /\ UNCHANGED <<checkpoint, failures>>

(* The checkpoint moves to the frozen head, the run ends and the failures  *)
(* at its boundary are resolved, in one transaction.                       *)
CompleteStrictCatchUpRun(x) ==
  /\ checkpoint[x.key] = x.previous /\ x \in runs
  /\ checkpoint' = [checkpoint EXCEPT ![x.key] = x.head]
  /\ runs' = (runs \ {x}) \cup {Terminalized(x, "COMPLETED")}
  /\ failures' = ResolvedAt(x.key, x.previous)

FailStrictCatchUpRun(x) ==
  /\ checkpoint[x.key] = x.previous /\ x \in runs
  /\ runs' = (runs \ {x}) \cup {Terminalized(x, "FAILED")}
  /\ UNCHANGED <<checkpoint, failures>>

CanSupersedeRun(x) ==
  /\ checkpoint[x.key] # x.previous
  /\ x \in runs \/ Terminalized(x, "SUPERSEDED") \in runs

SupersedeStaleStrictCatchUpRun(x) ==
  /\ CanSupersedeRun(x)
  /\ runs' = (runs \ {x}) \cup {Terminalized(x, "SUPERSEDED")}
  /\ UNCHANGED <<checkpoint, failures>>

(* Retention, four hours after a run ended or a failure was resolved. *)
PurgeCatchUpEvidence ==
  /\ \/ \E x \in runs : x.state # "ACTIVE" /\ runs' = runs \ {x} /\ UNCHANGED failures
     \/ \E f \in failures : f.resolved /\ failures' = failures \ {f} /\ UNCHANGED runs
  /\ UNCHANGED checkpoint

=============================================================================
