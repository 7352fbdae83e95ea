------------------------------- MODULE Preflight -------------------------------
(***************************************************************************)
(* The preflight of a canary: a one-shot process prepares a pair of        *)
(* intents, the target that may be armed and the probe that is only        *)
(* simulated, and publishes a manifest; the operator exports the prepared  *)
(* source, drafts and signs a bundle from it and arms the target.          *)
(*                                                                         *)
(* A step of a preparer is what runOnce does up to its next await.  Each   *)
(* transaction is atomic.  A lease token is named by the preparer that     *)
(* drew it: a preparer that stops forgets its claim.                       *)
(***************************************************************************)
EXTENDS Integers, FiniteSets

CONSTANTS
  Preparers,      \* processes that may prepare at the same time
  Runs,           \* rows of execution_preflight_intent_preparation_runs, 1..n
  Pairs,          \* pairs a strategy may decide
  Window,         \* selectionWindowMs
  PrepLease,      \* preparationLeaseMs
  IntentLease,    \* leaseMs of the executor
  Reserve,        \* HANDOFF_RESERVE_MS
  Freshness,      \* age an artifact may have
  PairTtl,        \* from the creation of a pair to its expiry
  EvidenceTtl,    \* how long a qualification and the snapshots stand
  Renewals,       \* renewals around an evaluation (four in the code)
  LastTime        \* bound of the clock

VARIABLES
  prepTime,
  runs,           \* the preparation runs
  pairs,          \* the pairs with their two intents and the evidence on them
  preparer,       \* by process: its step, its claim and what it holds
  output,         \* the file at the output path
  collected,      \* manifests the operator has taken from there
  books,          \* when the current wallet and provider snapshots were taken
  package,        \* the operator's source, draft or bundle
  armed           \* targets armed: pair, run, time

preflightVars == <<prepTime, runs, pairs, preparer, output, collected, books, package, armed>>

Nothing == "none"
ActiveRun(r) == runs[r].state \in {"WAITING", "PREPARING"}

NoRun == [state |-> "absent", rev |-> 0, watermark |-> 0, deadline |-> 0, token |-> Nothing, end |-> 0,
          pair |-> Nothing, assessed |-> FALSE, artifact |-> FALSE, manifest |-> 0, failure |-> Nothing,
          updated |-> 0]

Member == [status |-> "PENDING", attempts |-> 0, token |-> Nothing, end |-> 0, reserved |-> FALSE]
NoPair == [created |-> -1, current |-> TRUE, target |-> Member, probe |-> Member,
           assessed |-> FALSE, artifact |-> -1]

Resigned == [step |-> "idle", run |-> 0, claim |-> NoRun, code |-> Nothing, rounds |-> 0]
NoManifest == [run |-> 0, preparedAt |-> 0]
NoPackage == [stage |-> Nothing, run |-> 0, captured |-> 0, expires |-> 0, books |-> 0]

PreflightInit ==
  /\ prepTime = 0 /\ books = 0
  /\ runs = [r \in Runs |-> NoRun]
  /\ pairs = [p \in Pairs |-> NoPair]
  /\ preparer = [w \in Preparers |-> Resigned]
  /\ output = NoManifest /\ collected = {}
  /\ package = NoPackage /\ armed = {}

Sooner(a, b) == IF a < b THEN a ELSE b

-----------------------------------------------------------------------------
(* What the rows say *)

PairExpires(p) == pairs[p].created + PairTtl

pristineIntent(i) ==
  /\ i.status = "PENDING" /\ i.attempts = 0 /\ i.token = Nothing /\ ~i.reserved

InWindow(r, p) ==
  /\ pairs[p].created > runs[r].watermark
  /\ pairs[p].created < runs[r].deadline - Reserve

PairOutlivesHandoff(p) == PairExpires(p) > prepTime + Reserve

(* The rows a decision depends on are canonical and current. *)
pairLineageIsCurrent(p) == pairs[p].current

SameClaim(w) ==
  LET c == preparer[w].claim r == preparer[w].run
  IN /\ runs[r].state = c.state /\ runs[r].rev = c.rev
     /\ runs[r].token = c.token /\ runs[r].end = c.end

(* A bind or a completion that may have been committed before: one         *)
(* revision more than the claim says.                                      *)
SameOrNext(w) ==
  LET c == preparer[w].claim r == preparer[w].run
  IN /\ runs[r].rev \in {c.rev, c.rev + 1}
     /\ runs[r].token = c.token /\ runs[r].end = c.end

LeaseLives(r) == runs[r].end > prepTime
BeforeHandoff(r) == runs[r].deadline > prepTime + Reserve

(* The guard of the table: every update adds one to the revision and       *)
(* stamps the time, and a final state drops the lease.                     *)
Updated(r, row) == [row EXCEPT !.rev = runs[r].rev + 1, !.updated = prepTime]
Ended(r, row) == [Updated(r, row) EXCEPT !.token = Nothing, !.end = 0]
Failed(r, code) == Ended(r, [runs[r] EXCEPT !.state = "FAILED", !.failure = code])
LeaseUntil(r) == Sooner(prepTime + PrepLease, runs[r].deadline - Reserve)

-----------------------------------------------------------------------------
(* Steps of a preparer *)

Proceed(w, step) == preparer' = [preparer EXCEPT ![w].step = step]
Resign(w) == preparer' = [preparer EXCEPT ![w] = Resigned]
failTerminal(w, code) == preparer' = [preparer EXCEPT ![w].step = "fail", ![w].code = code]
Stored(r, row) == runs' = [runs EXCEPT ![r] = row]
Holds(w, step, r, row) == preparer' = [preparer EXCEPT ![w].step = step, ![w].run = r, ![w].claim = row]
Doing(w, step) == preparer[w].step = step
Run(w) == preparer[w].run
PairOf(w) == preparer[w].claim.pair

OnlyPreparing == UNCHANGED <<prepTime, output, collected, books, package, armed>>

(* The active run, if there is one, is taken over when its lease is over,  *)
(* and closed when its deadline is too near; otherwise a run is inserted.  *)
StartOrResume(w) ==
  /\ Doing(w, "idle")
  /\ \/ \E r \in Runs :
          /\ ActiveRun(r) /\ ~LeaseLives(r)
          /\ IF prepTime + Reserve >= runs[r].deadline
             THEN /\ Stored(r, Failed(r, "PREFLIGHT_PREPARATION_DEADLINE_EXCEEDED"))
                  /\ UNCHANGED preparer
             ELSE LET row == Updated(r, [runs[r] EXCEPT !.token = w, !.end = LeaseUntil(r)])
                  IN Stored(r, row) /\ Holds(w, "select", r, row)
     \/ /\ \A r \in Runs : ~ActiveRun(r)
        /\ \E r \in Runs :
             /\ runs[r].state = "absent" /\ \A q \in Runs : q < r => runs[q].state # "absent"
             /\ LET row == [NoRun EXCEPT !.state = "WAITING", !.watermark = prepTime,
                              !.deadline = prepTime + Window, !.token = w,
                              !.end = prepTime + PrepLease, !.updated = prepTime]
                IN Stored(r, row) /\ Holds(w, "select", r, row)
  /\ UNCHANGED pairs /\ OnlyPreparing

FirstInWindow(r) ==
  {p \in Pairs : /\ pairs[p].created >= 0 /\ InWindow(r, p)
                 /\ \A q \in Pairs : pairs[q].created >= 0 /\ InWindow(r, q)
                                       => pairs[p].created <= pairs[q].created}

Untouched(p) ==
  /\ PairOutlivesHandoff(p)
  /\ pristineIntent(pairs[p].target) /\ pristineIntent(pairs[p].probe)
  /\ ~pairs[p].assessed /\ pairs[p].artifact = -1

(* A run that has its pair reads it again; one that waits takes the first  *)
(* of its window.  A pair that is not untouched, or whose lineage is no    *)
(* longer current, ends the run.                                           *)
SelectFirstPair(w) ==
  /\ Doing(w, "select")
  /\ LET r == Run(w)
     IN IF ~(SameClaim(w) /\ LeaseLives(r) /\ BeforeHandoff(r)) THEN Resign(w) /\ UNCHANGED runs
        ELSE IF runs[r].state = "PREPARING"
        THEN IF pairLineageIsCurrent(runs[r].pair) THEN Proceed(w, "renewPair") /\ UNCHANGED runs
             ELSE Stored(r, Failed(r, "PREFLIGHT_PAIR_LINEAGE_INVALID")) /\ Resign(w)
        ELSE IF FirstInWindow(r) = {} THEN Proceed(w, "expire") /\ UNCHANGED runs
        ELSE \E p \in FirstInWindow(r) :
               IF ~Untouched(p) THEN Stored(r, Failed(r, "PREFLIGHT_PAIR_CONFLICT")) /\ Resign(w)
               ELSE IF ~pairLineageIsCurrent(p)
               THEN /\ Stored(r, [Failed(r, "PREFLIGHT_PAIR_LINEAGE_INVALID") EXCEPT !.pair = p])
                    /\ Resign(w)
               ELSE LET row == Updated(r, [runs[r] EXCEPT !.state = "PREPARING", !.pair = p])
                    IN Stored(r, row) /\ Holds(w, "renewPair", r, row)
  /\ UNCHANGED pairs /\ OnlyPreparing

(* Before and after the delay between two polls, which takes a unit of     *)
(* time.                                                                   *)
ExpireWaitingWithoutPair(w) ==
  /\ preparer[w].step \in {"expire", "delayed"}
  /\ Doing(w, "delayed") => prepTime > preparer[w].claim.updated
  /\ LET r == Run(w)
     IN IF ~SameClaim(w) THEN Resign(w) /\ UNCHANGED runs
        ELSE IF prepTime + Reserve < runs[r].deadline
        THEN Proceed(w, IF Doing(w, "expire") THEN "delayed" ELSE "renewWait") /\ UNCHANGED runs
        ELSE Stored(r, Failed(r, "PREFLIGHT_PAIR_NOT_FOUND")) /\ Resign(w)
  /\ UNCHANGED pairs /\ OnlyPreparing

(* renew, and the step that follows it. *)
RenewedThen(w, step) ==
  LET r == Run(w)
      row == Updated(r, [runs[r] EXCEPT !.end = LeaseUntil(r)])
  IN IF SameClaim(w) /\ LeaseLives(r) /\ BeforeHandoff(r)
     THEN Stored(r, row) /\ Holds(w, step, r, row)
     ELSE Resign(w) /\ UNCHANGED runs

NextEvidence(claim) ==
  IF ~claim.assessed THEN "target" ELSE IF ~claim.artifact THEN "probe" ELSE "manifest"

RenewPreparation(w) ==
  /\ \/ Doing(w, "renewWait") /\ RenewedThen(w, "select")
     \/ Doing(w, "renewPair") /\ RenewedThen(w, NextEvidence(preparer[w].claim))
  /\ UNCHANGED pairs /\ OnlyPreparing

FailRun(w) ==
  /\ Doing(w, "fail")
  /\ IF SameClaim(w) /\ LeaseLives(Run(w)) THEN Stored(Run(w), Failed(Run(w), preparer[w].code)) ELSE UNCHANGED runs
  /\ Resign(w) /\ UNCHANGED pairs /\ OnlyPreparing

-----------------------------------------------------------------------------
(* The exact claim of a member of the pair *)

(* The preparation is this one's and its lease covers the lease the member *)
(* is to have.                                                             *)
Covers(w, lease) ==
  LET r == Run(w)
  IN /\ runs[r].state = "PREPARING" /\ runs[r].token = w /\ runs[r].pair = PairOf(w)
     /\ LeaseLives(r) /\ runs[r].end >= prepTime + lease
     /\ BeforeHandoff(r) /\ runs[r].deadline >= prepTime + lease + Reserve

claimExactPreflightIntent(w, i) ==
  /\ Covers(w, IntentLease)
  /\ i.end <= prepTime /\ ~i.reserved
  /\ PairExpires(PairOf(w)) > prepTime + IntentLease

Leased(w, i) == [i EXCEPT !.token = w, !.end = prepTime + IntentLease]
Released(i) == [i EXCEPT !.token = Nothing, !.end = 0]
HeldBy(w, i) == i.token = w /\ i.end > prepTime

ClaimTarget(w) ==
  /\ Doing(w, "target")
  /\ LET p == PairOf(w) IN
     IF /\ claimExactPreflightIntent(w, pairs[p].target)
        /\ pairs[p].target.status = "PENDING" /\ ~pairs[p].assessed
     THEN /\ pairs' = [pairs EXCEPT ![p].target = Leased(w, @)]
          /\ Proceed(w, "assess")
     ELSE failTerminal(w, "PREFLIGHT_TARGET_FENCE_LOST") /\ UNCHANGED pairs
  /\ UNCHANGED runs /\ OnlyPreparing

(* The assessment is inserted and the lease released in one statement. *)
CompleteAssessment(w) ==
  /\ Doing(w, "assess")
  /\ LET p == PairOf(w) IN
     IF HeldBy(w, pairs[p].target) /\ PairExpires(p) > prepTime /\ ~pairs[p].assessed
     THEN /\ pairs' = [pairs EXCEPT ![p].target = Released(@), ![p].assessed = TRUE]
          /\ Proceed(w, "bindTarget")
     ELSE Resign(w) /\ UNCHANGED pairs
  /\ UNCHANGED runs /\ OnlyPreparing

Binding(w) ==
  LET r == Run(w)
  IN /\ runs[r].state = "PREPARING" /\ SameOrNext(w) /\ LeaseLives(r) /\ BeforeHandoff(r)
     /\ InWindow(r, PairOf(w)) /\ PairOutlivesHandoff(PairOf(w))
     /\ pristineIntent(pairs[PairOf(w)].target) /\ pairs[PairOf(w)].assessed

Bound(w, row, step) ==
  LET r == Run(w)
  IN IF runs[r].rev = preparer[w].claim.rev
     THEN Stored(r, Updated(r, row)) /\ Holds(w, step, r, Updated(r, row))
     ELSE Holds(w, step, r, runs[r]) /\ UNCHANGED runs

BindTargetAssessment(w) ==
  /\ Doing(w, "bindTarget")
  /\ IF Binding(w)
     THEN Bound(w, [runs[Run(w)] EXCEPT !.assessed = TRUE], "probe")
     ELSE failTerminal(w, "PREFLIGHT_ASSESSMENT_INVALID") /\ UNCHANGED runs
  /\ UNCHANGED pairs /\ OnlyPreparing

(* The probe is claimed as it was created, or as one whose only attempt    *)
(* was started and left.                                                   *)
ClaimProbe(w) ==
  /\ Doing(w, "probe")
  /\ LET p == PairOf(w) i == pairs[p].probe IN
     IF /\ claimExactPreflightIntent(w, i) /\ pairs[p].artifact = -1
        /\ <<i.status, i.attempts>> \in {<<"PENDING", 0>>, <<"PROCESSING", 1>>}
     THEN /\ pairs' = [pairs EXCEPT ![p].probe = Leased(w, @)]
          /\ Proceed(w, IF i.status = "PENDING" THEN "transition" ELSE "begin")
     ELSE failTerminal(w, "PREFLIGHT_SIMULATION_FAILED") /\ UNCHANGED pairs
  /\ UNCHANGED runs /\ OnlyPreparing

(* lockExactSimulationMutationFence, and the claim on the probe. *)
Fenced(w, lease) == Covers(w, lease) /\ HeldBy(w, pairs[PairOf(w)].probe)

TransitionProbe(w) ==
  /\ Doing(w, "transition")
  /\ IF Fenced(w, 0)
     THEN /\ pairs' = [pairs EXCEPT ![PairOf(w)].probe.status = "PROCESSING"]
          /\ Proceed(w, "begin")
     ELSE Resign(w) /\ UNCHANGED pairs
  /\ UNCHANGED runs /\ OnlyPreparing

BeginProbeAttempt(w) ==
  /\ Doing(w, "begin")
  /\ IF Fenced(w, 0)
     THEN /\ pairs' = [pairs EXCEPT ![PairOf(w)].probe.attempts = 1]
          /\ preparer' = [preparer EXCEPT ![w].step = "renewFirst", ![w].rounds = Renewals]
     ELSE Resign(w) /\ UNCHANGED pairs
  /\ UNCHANGED runs /\ OnlyPreparing

(* A renewal of the probe: the preparation first, the intent afterwards. *)
RenewForProbe(w) ==
  /\ Doing(w, "renewFirst") /\ RenewedThen(w, "renewIntent")
  /\ UNCHANGED pairs /\ OnlyPreparing

RenewProbe(w) ==
  /\ Doing(w, "renewIntent")
  /\ IF Fenced(w, IntentLease)
     THEN /\ pairs' = [pairs EXCEPT ![PairOf(w)].probe = Leased(w, @)]
          /\ preparer' = [preparer EXCEPT ![w].rounds = @ - 1,
                            ![w].step = IF preparer[w].rounds = 1 THEN "record" ELSE "renewFirst"]
     ELSE Resign(w) /\ UNCHANGED pairs
  /\ UNCHANGED runs /\ OnlyPreparing

(* The artifact is recorded with the end of the attempt and of the intent; *)
(* the evaluation succeeded or failed.                                     *)
CompleteProbe(w) ==
  /\ Doing(w, "record")
  /\ LET p == PairOf(w) IN
     IF ~HeldBy(w, pairs[p].probe) THEN Resign(w) /\ UNCHANGED pairs
     ELSE \E status \in {"SUCCEEDED", "FAILED"} :
            /\ pairs' = [pairs EXCEPT ![p].probe = [Released(@) EXCEPT !.status = status],
                                      ![p].artifact = prepTime]
            /\ IF status = "SUCCEEDED" THEN Proceed(w, "bindProbe")
               ELSE failTerminal(w, "PREFLIGHT_SIMULATION_FAILED")
  /\ UNCHANGED runs /\ OnlyPreparing

ProbeProves(p) ==
  /\ pairs[p].probe.status = "SUCCEEDED" /\ pairs[p].probe.attempts = 1
  /\ pairs[p].probe.token = Nothing /\ pairs[p].artifact >= 0

FreshArtifact(p) == pairs[p].artifact >= prepTime - Freshness

BindSimulationArtifact(w) ==
  /\ Doing(w, "bindProbe")
  /\ LET p == PairOf(w) IN
     IF /\ Binding(w) /\ runs[Run(w)].assessed /\ ProbeProves(p) /\ FreshArtifact(p)
        /\ pairs[p].artifact < runs[Run(w)].deadline
     THEN Bound(w, [runs[Run(w)] EXCEPT !.artifact = TRUE], "manifest")
     ELSE failTerminal(w, "PREFLIGHT_SIMULATION_FAILED") /\ UNCHANGED runs
  /\ UNCHANGED pairs /\ OnlyPreparing

-----------------------------------------------------------------------------
(* The manifest and the end of a run *)

Manifest(w) == [run |-> Run(w), preparedAt |-> preparer[w].claim.updated]
ManifestExpires(w) == Sooner(preparer[w].claim.deadline, PairExpires(PairOf(w)))

(* Faulty variant: any manifest of this run at the path is taken for a replay. *)
PublishableOnceMore(w) ==
  /\ ManifestExpires(w) > preparer[w].claim.updated
  /\ output.run \in {0, Run(w)}

(* replayExact, publishExclusive: a file that is there already must be the *)
(* same to the byte.                                                       *)
Publishable(w) ==
  /\ ManifestExpires(w) > preparer[w].claim.updated
  /\ output \in {NoManifest, Manifest(w)}

WriteManifest(w) ==
  /\ Doing(w, "manifest")
  /\ IF Publishable(w)
     THEN /\ output' = IF output = NoManifest THEN Manifest(w) ELSE output
          /\ Proceed(w, "mark")
     ELSE failTerminal(w, "PREFLIGHT_PREPARATION_EXPORT_FAILED") /\ UNCHANGED output
  /\ UNCHANGED <<prepTime, runs, pairs, collected, books, package, armed>>

Eligible(w) ==
  LET r == Run(w) p == PairOf(w)
  IN /\ runs[r].assessed /\ runs[r].artifact
     /\ pristineIntent(pairs[p].target) /\ ProbeProves(p) /\ pairs[p].artifact < runs[r].deadline
     /\ SameClaim(w) /\ LeaseLives(r) /\ BeforeHandoff(r)
     /\ PairOutlivesHandoff(p) /\ FreshArtifact(p)

(* A completion that is refused leaves the run to its deadline, unless its *)
(* lineage is broken.                                                      *)
MarkPrepared(w) ==
  /\ Doing(w, "mark")
  /\ LET r == Run(w) p == PairOf(w)
     IN IF runs[r].state # "PREPARING" \/ ~SameOrNext(w) THEN UNCHANGED runs
        ELSE IF ~pairLineageIsCurrent(p) THEN Stored(r, Failed(r, "PREFLIGHT_PAIR_LINEAGE_INVALID"))
        ELSE IF Eligible(w)
        THEN Stored(r, Ended(r, [runs[r] EXCEPT !.state = "PREPARED", !.manifest = preparer[w].claim.updated]))
        ELSE UNCHANGED runs
  /\ Resign(w) /\ UNCHANGED pairs /\ OnlyPreparing

-----------------------------------------------------------------------------
(* The operator: export, draft, bundle, arm *)

OnlyOperator == UNCHANGED <<prepTime, runs, pairs, preparer, output, collected, books>>

SourceExpires(r) == Sooner(Sooner(runs[r].deadline, PairExpires(runs[r].pair)), books + EvidenceTtl)

(* Read in one snapshot: a prepared run that is still open, its pair, its  *)
(* lineage, the target as it was created, and the books of the moment.     *)
Export(r) ==
  /\ runs[r].state = "PREPARED"
  /\ LET p == runs[r].pair IN
     /\ runs[r].deadline > prepTime /\ PairExpires(p) > prepTime
     /\ pairLineageIsCurrent(p) /\ pristineIntent(pairs[p].target) /\ ProbeProves(p)
     /\ FreshArtifact(p) /\ SourceExpires(r) >= prepTime + Reserve
     /\ package' = [stage |-> "source", run |-> r, captured |-> prepTime,
                    expires |-> SourceExpires(r), books |-> books]
  /\ UNCHANGED armed /\ OnlyOperator

(* The draft expires with the first of its parts and has a margin left. *)
DraftBundle ==
  /\ package.stage = "source"
  /\ LET expires == Sooner(package.expires, package.captured + EvidenceTtl) IN
     /\ expires >= package.captured + Reserve
     /\ package' = [package EXCEPT !.stage = "draft", !.expires = expires]
  /\ UNCHANGED armed /\ OnlyOperator

(* Signing: everything in the draft must be fresh for a margin more. *)
SignBundle ==
  /\ package.stage = "draft" /\ package.expires >= prepTime + Reserve
  /\ package' = [package EXCEPT !.stage = "bundle"]
  /\ UNCHANGED armed /\ OnlyOperator

(* The request rests on the exported source: the pair and the run it names *)
(* are read again, locked, with the evidence and the lineage.              *)
PairedPreflight(r) ==
  LET p == runs[r].pair
  IN /\ PairExpires(p) > prepTime /\ PairExpires(p) >= package.expires
     /\ package.captured <= prepTime /\ package.expires > prepTime
     /\ runs[r].state = "PREPARED" /\ runs[r].deadline > prepTime /\ runs[r].deadline >= package.expires

PairedEvidence(p) ==
  /\ pairs[p].assessed /\ ProbeProves(p) /\ FreshArtifact(p) /\ ~pairs[p].probe.reserved

ArmPaired ==
  /\ package.stage = "bundle"
  /\ LET r == package.run p == runs[r].pair IN
     /\ PairedPreflight(r) /\ PairedEvidence(p) /\ pairLineageIsCurrent(p)
     /\ pristineIntent(pairs[p].target) /\ package.books = books
     /\ pairs' = [pairs EXCEPT ![p].target.reserved = TRUE]
     /\ armed' = armed \cup {[pair |-> p, run |-> r, at |-> prepTime, books |-> books]}
  /\ package' = NoPackage
  /\ UNCHANGED <<prepTime, runs, preparer, output, collected, books>>

-----------------------------------------------------------------------------
(* The surroundings *)

PrepTick ==
  /\ prepTime < LastTime /\ prepTime' = prepTime + 1
  /\ UNCHANGED <<runs, pairs, preparer, output, collected, books, package, armed>>

(* The decision that creates both intents and the pair in one transaction. *)
CreatePair(p) ==
  /\ pairs[p].created = -1 /\ pairs' = [pairs EXCEPT ![p].created = prepTime]
  /\ UNCHANGED <<prepTime, runs, preparer, output, collected, books, package, armed>>

LineageBreaks(p) ==
  /\ pairs[p].created >= 0 /\ pairs[p].current /\ pairs' = [pairs EXCEPT ![p].current = FALSE]
  /\ UNCHANGED <<prepTime, runs, preparer, output, collected, books, package, armed>>

(* The process stops between two steps; what it committed stays. *)
PreparerStops(w) ==
  /\ ~Doing(w, "idle") /\ Resign(w)
  /\ UNCHANGED <<prepTime, runs, pairs, output, collected, books, package, armed>>

(* The operator takes the file away before another run is prepared. *)
CollectOutput ==
  /\ output # NoManifest /\ output' = NoManifest /\ collected' = collected \cup {output}
  /\ UNCHANGED <<prepTime, runs, pairs, preparer, books, package, armed>>

RefreshBooks ==
  /\ books < prepTime /\ books' = prepTime
  /\ UNCHANGED <<prepTime, runs, pairs, preparer, output, collected, package, armed>>

PreparerStep(w) ==
  \/ StartOrResume(w) \/ SelectFirstPair(w) \/ ExpireWaitingWithoutPair(w) \/ RenewPreparation(w)
  \/ FailRun(w) \/ ClaimTarget(w) \/ CompleteAssessment(w) \/ BindTargetAssessment(w)
  \/ ClaimProbe(w) \/ TransitionProbe(w) \/ BeginProbeAttempt(w) \/ RenewForProbe(w) \/ RenewProbe(w)
  \/ CompleteProbe(w) \/ BindSimulationArtifact(w) \/ WriteManifest(w) \/ MarkPrepared(w)

OperatorExports == (\E r \in Runs : Export(r)) \/ DraftBundle \/ SignBundle \/ ArmPaired

-----------------------------------------------------------------------------
(* A run that says PREPARED has its own pair, whose probe succeeded in its *)
(* only attempt not long before, and the manifest it names is the one that *)
(* was published; what is armed rests on such a run before its deadline.   *)
PreparedIsProven ==
  /\ \A r \in Runs : runs[r].state = "PREPARED" =>
       /\ pairs[runs[r].pair].assessed /\ ProbeProves(runs[r].pair)
       /\ runs[r].updated <= pairs[runs[r].pair].artifact + Freshness
       /\ [run |-> r, preparedAt |-> runs[r].manifest] \in collected \cup {output}
       /\ \A q \in Runs \ {r} : runs[q].pair # runs[r].pair
  /\ \A a \in armed : /\ runs[a.run].state = "PREPARED" /\ runs[a.run].pair = a.pair
                      /\ a.at < runs[a.run].deadline
                      /\ \A b \in armed \ {a} : b.pair # a.pair

===============================================================================
