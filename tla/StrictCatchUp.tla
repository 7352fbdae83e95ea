---------------------------- MODULE StrictCatchUp ----------------------------
(***************************************************************************)
(* Strict catch-up: scanners walk a provider's signature history from its  *)
(* head down to the processing checkpoint, admit every signature to the    *)
(* inbox, and only then move the checkpoint to the head they started from. *)
(* A walk longer than MaxPages pauses and leaves a durable run behind.     *)
(*                                                                         *)
(* A scanner is one call of StrictCatchUpScanner.scan; every await of the  *)
(* code is a step.  Several may be under way at once: an aborted periodic  *)
(* scan still performs the operation it was waiting for while the next     *)
(* recovery already runs, and so does a process that is being replaced.    *)
(*                                                                         *)
(* Providers (external) list the signatures of a program newest first, in  *)
(* chain order and without holes; they may lag behind each other and       *)
(* forget old history, a slot at a time.                                   *)
(***************************************************************************)
EXTENDS CatchUpStore, FiniteSetsExt

CONSTANTS Programs,  \* the checkpoint keys in the order they are scanned
          Touches,   \* positions a key's program takes part in
          Scanners, PageSize, MaxPages,
          Retained,  \* slots at or above this one are never forgotten
          Aging      \* whether the four hours of retention may pass

ASSUME ScannerAssumption ==
  /\ Programs \in Seq(Keys) \ {<<>>}
  /\ Keys = {Programs[i] : i \in 1..Len(Programs)}
  /\ Touches \in [Keys -> SUBSET Positions]
  /\ PageSize \in Nat \ {0}
  /\ MaxPages \in Nat \ {0}
  /\ Aging \in BOOLEAN

VARIABLES scan,      \* the scanners
          view,      \* newest slot a provider lists
          floor,     \* oldest slot a provider still lists
          admitted,  \* positions ever admitted to the inbox for a key
          base       \* the key's first checkpoint

catchUpVars == <<storeVars, scan, view, floor, admitted, base>>
chainVars == <<view, floor>>

Slots == {SlotOf[i] : i \in Positions}
Stages == {"idle", "checkpoints", "runs", "supersede", "history", "list",
           "admit", "persist", "settle", "record", "fail"}
Policies == {"strict", "live-edge"}
Results == {"none", "done", "refresh", "paused", "window", "affinity", "failed",
            "interrupted"}

Item == [kind: {"active", "fresh", "stale"}, key: Keys, run: RunType \cup {NoRun}]

(* since is the newest slot the provider listed when the scan began. *)
ScanType ==
  [stage: Stages, provider: Providers, policy: Policies, since: Nat, n: Nat,
   seen: [Keys -> MaybePositions], todo: Seq(Item), stale: Seq(Item), resuming: BOOLEAN,
   run: RunType \cup {NoRun}, head: MaybePositions, resumed: BOOLEAN, pages: Nat,
   rows: SUBSET Positions, found: BOOLEAN, last: BOOLEAN, result: Results]

Ended(r, result) ==
  [stage |-> "idle", provider |-> CHOOSE p \in Providers : TRUE, policy |-> "strict", n |-> 1,
   since |-> IF result = "done" THEN r.since ELSE 0,
   seen |-> [k \in Keys |-> 0], todo |-> <<>>, stale |-> <<>>, resuming |-> FALSE,
   run |-> NoRun, head |-> 0, resumed |-> FALSE, pages |-> 0,
   rows |-> {}, found |-> FALSE, last |-> FALSE, result |-> result]

CatchUpInit ==
  /\ StoreInit
  /\ scan = [s \in Scanners |-> Ended([since |-> 0], "none")]
  /\ view = [p \in Providers |-> Min(Slots)]
  /\ floor = [p \in Providers |-> 0]
  /\ admitted = [k \in Keys |-> {}]
  /\ base = [k \in Keys |-> 0]

-----------------------------------------------------------------------------
(* The history of key k at provider p, and one page of it below before. *)
Listed(p, k) == {i \in Touches[k] : floor[p] <= SlotOf[i] /\ SlotOf[i] <= view[p]}

List(p, k, before) ==
  LET below == {i \in Listed(p, k) : before = 0 \/ i < before}
  IN {i \in below : Cardinality({j \in below : i < j}) < PageSize}

Grow ==
  \E p \in Providers : \E v \in Slots :
    /\ v > view[p] /\ \A w \in Slots : w > view[p] => v <= w
    /\ view' = [view EXCEPT ![p] = v]
    /\ UNCHANGED <<storeVars, scan, floor, admitted, base>>

Forget ==
  \E p \in Providers :
    /\ floor[p] < Retained /\ floor[p] < view[p]
    /\ floor' = [floor EXCEPT ![p] = @ + 1]
    /\ UNCHANGED <<storeVars, scan, view, admitted, base>>

-----------------------------------------------------------------------------
Key(r) == Head(r.todo).key
Expected(r) == r.seen[Key(r)]

(* Faulty variant: a resumed walk starts over at the head. *)
RunBegunAfresh(r, x) ==
  [r EXCEPT !.stage = "list", !.run = NoRun, !.resumed = (x # NoRun), !.pages = 0, !.head = 0]

(* scanProgram for the first item of todo. *)
RunBegun(r, x) ==
  [r EXCEPT !.stage = "list", !.run = x, !.resumed = (x # NoRun), !.pages = 0,
            !.head = IF x = NoRun THEN 0 ELSE x.head]

(* Active programs come first, then stale runs, and only when no run was   *)
(* resumed the programs are scanned afresh.                                *)
Turn(r) ==
  IF r.todo = <<>> THEN Ended(r, IF r.resuming THEN "refresh" ELSE "done")
  ELSE LET item == Head(r.todo)
       IN IF item.kind = "stale" THEN [r EXCEPT !.stage = "supersede"]
          ELSE IF item.kind = "active" THEN RunBegun(r, item.run)
          ELSE IF r.seen[item.key] = 0 THEN RunBegun(r, NoRun)
          ELSE [r EXCEPT !.stage = "history"]

(* Faulty variant: a resumed run counts as a complete scan. *)
FinishedWithoutRefresh(r) ==
  Turn([r EXCEPT !.todo = Tail(@), !.run = NoRun, !.head = 0, !.resumed = FALSE, !.resuming = FALSE,
                 !.pages = 0, !.rows = {}, !.found = FALSE, !.last = FALSE])

(* A scanProgram that resumed a run read late ends the scan as well. *)
Finished(r) ==
  IF Head(r.todo).kind = "fresh" /\ r.resumed THEN Ended(r, "refresh")
  ELSE Turn([r EXCEPT !.todo = Tail(@), !.run = NoRun, !.head = 0, !.resumed = FALSE,
                      !.pages = 0, !.rows = {}, !.found = FALSE, !.last = FALSE])

(* Faulty variant: an exhausted page budget is a window failure. *)
PagedOrLost(r) ==
  IF Expected(r) = 0 \/ r.found THEN [r EXCEPT !.stage = "settle"]
  ELSE IF r.last \/ r.pages = MaxPages THEN [r EXCEPT !.stage = "record"]
  ELSE [r EXCEPT !.stage = "list", !.rows = {}]

(* After a page has been admitted and its cursor persisted. *)
Paged(r) ==
  IF Expected(r) = 0 \/ r.found THEN [r EXCEPT !.stage = "settle"]
  ELSE IF r.last THEN [r EXCEPT !.stage = "record"]
  ELSE IF r.pages = MaxPages THEN Ended(r, "paused")
  ELSE [r EXCEPT !.stage = "list", !.rows = {}]

(* A cursor is kept unless the boundary is on the first page. *)
Admitted(r) ==
  IF Expected(r) # 0 /\ (~r.found \/ r.run # NoRun) /\ r.rows # {}
  THEN [r EXCEPT !.stage = "persist"]
  ELSE Paged(r)

LiveEdgeBootstrap(r) == r.policy = "live-edge" /\ Expected(r) = 0 /\ r.run = NoRun

(* Rows are taken newest first until the boundary, or a row of an older    *)
(* slot, which proves that the boundary is missing.                        *)
WithPage(r, page) ==
  LET e == Expected(r)
      stop == {i \in page : e # 0 /\ (i = e \/ SlotOf[i] < SlotOf[e])}
      rows == {i \in page : \A j \in stop : j < i}
      read == [r EXCEPT !.pages = @ + 1, !.rows = rows, !.found = (e # 0 /\ e \in page),
                        !.last = (stop # {} \/ Cardinality(page) < PageSize),
                        !.head = IF @ # 0 \/ rows = {} THEN @ ELSE Max(rows)]
  IN IF rows = {} \/ LiveEdgeBootstrap(r) THEN Admitted(read) ELSE [read EXCEPT !.stage = "admit"]

NextRun(r) ==
  IF r.run = NoRun
  THEN [key |-> Key(r), previous |-> Expected(r), provider |-> r.provider, head |-> r.head,
        before |-> Min(r.rows), revision |-> 0, state |-> "ACTIVE"]
  ELSE [r.run EXCEPT !.before = Min(r.rows), !.revision = @ + 1]

-----------------------------------------------------------------------------
At(s, stage) == scan[s].stage = stage
Goes(s, r) == scan' = [scan EXCEPT ![s] = r]
Fails(s) == Goes(s, Ended(scan[s], "failed")) /\ UNCHANGED <<storeVars, base>>

(* readPinnedProviderId, then a scan with the pinned provider or, without  *)
(* one, any.  Only prepareInitialFrontier uses the live-edge policy, which *)
(* matters as long as some key has no checkpoint.                          *)
Pins == {x.provider : x \in {y \in runs : y.state = "ACTIVE"}}

Start(s, p, policy) ==
  /\ At(s, "idle")
  /\ Pins \subseteq {p}
  /\ policy = "live-edge" => \E k \in Keys : checkpoint[k] = 0
  /\ Goes(s, [scan[s] EXCEPT !.stage = "checkpoints", !.provider = p, !.policy = policy,
                             !.since = view[p], !.result = "none"])
  /\ UNCHANGED <<storeVars, chainVars, admitted, base>>

ReadCheckpoint(s) ==
  LET r == scan[s]
      k == Programs[r.n]
      read == [r EXCEPT !.seen[k] = checkpoint[k], !.n = @ + 1]
  IN /\ At(s, "checkpoints")
     /\ Goes(s, IF r.n < Len(Programs) THEN read ELSE [read EXCEPT !.stage = "runs", !.n = 1])
     /\ UNCHANGED <<storeVars, chainVars, admitted, base>>

(* activePrograms gathers in todo, staleRuns in stale. *)
AddRun(r, k, x) ==
  IF x = NoRun THEN r
  ELSE IF x.previous = r.seen[k]
  THEN [r EXCEPT !.resuming = TRUE,
                 !.todo = Append(@, [kind |-> "active", key |-> k, run |-> x])]
  ELSE [r EXCEPT !.stale = Append(@, [kind |-> "stale", key |-> k, run |-> x])]

FreshItems == [i \in 1..Len(Programs) |-> [kind |-> "fresh", key |-> Programs[i], run |-> NoRun]]

ReadActiveRun(s) ==
  LET r == scan[s]
      k == Programs[r.n]
      x == ReadActiveStrictCatchUpRun(k)
      read == [AddRun(r, k, x) EXCEPT !.n = @ + 1]
      fresh == IF read.resuming THEN <<>> ELSE FreshItems
      ready == [read EXCEPT !.n = 1, !.todo = @ \o read.stale \o fresh, !.stale = <<>>]
  IN /\ At(s, "runs")
     /\ Goes(s, IF x # NoRun /\ x.previous = r.seen[k] /\ x.provider # r.provider
                THEN Ended(r, "affinity")
                ELSE IF r.n < Len(Programs) THEN read ELSE Turn(ready))
     /\ UNCHANGED <<storeVars, chainVars, admitted, base>>

SupersedeRun(s) ==
  LET x == Head(scan[s].todo).run
  IN /\ At(s, "supersede")
     /\ SupersedeStaleStrictCatchUpRun(x)
     /\ Goes(s, Finished(scan[s]))
     /\ UNCHANGED <<chainVars, admitted, base>>

(* Another scanner has moved the run meanwhile. *)
SupersedeRefused(s) ==
  /\ At(s, "supersede")
  /\ ~CanSupersedeRun(Head(scan[s].todo).run)
  /\ Fails(s)
  /\ UNCHANGED <<chainVars, admitted>>

(* A retained FAILED run is final without asking the provider again; a     *)
(* run that ended otherwise cannot still start at the checkpoint.          *)
ReadHistoricalRun(s) ==
  LET r == scan[s]
      x == ReadStrictCatchUpRun(Key(r), Expected(r), r.provider)
  IN /\ At(s, "history")
     /\ Goes(s, IF x = NoRun THEN RunBegun(r, NoRun)
                ELSE IF x.state = "ACTIVE" THEN RunBegun(r, x)
                ELSE Ended(r, IF x.state = "FAILED" THEN "window" ELSE "failed"))
     /\ UNCHANGED <<storeVars, chainVars, admitted, base>>

ReadPage(s) ==
  LET r == scan[s]
      before == IF r.run = NoRun THEN 0 ELSE r.run.before
  IN /\ At(s, "list")
     /\ Goes(s, WithPage(r, List(r.provider, Key(r), before)))
     /\ UNCHANGED <<storeVars, chainVars, admitted, base>>

(* Faulty variant: the page's oldest row is taken for the boundary. *)
AdmitPageShort(s) ==
  LET r == scan[s]
  IN /\ At(s, "admit")
     /\ admitted' = [admitted EXCEPT ![Key(r)] = @ \cup (r.rows \ {Min(r.rows)})]
     /\ Goes(s, Admitted(r))
     /\ UNCHANGED <<storeVars, chainVars, base>>

(* enqueue row by row, or the admission of the whole page ... *)
AdmitPage(s) ==
  LET r == scan[s]
  IN /\ At(s, "admit")
     /\ admitted' = [admitted EXCEPT ![Key(r)] = @ \cup r.rows]
     /\ Goes(s, Admitted(r))
     /\ UNCHANGED <<storeVars, chainVars, base>>

(* ... which may fail half way, after the rows newer than some row i. *)
AdmitPartly(s) ==
  LET r == scan[s]
  IN /\ At(s, "admit")
     /\ \E i \in r.rows :
          admitted' = [admitted EXCEPT ![Key(r)] = @ \cup {j \in r.rows : j > i}]
     /\ Goes(s, Ended(r, "interrupted"))
     /\ UNCHANGED <<storeVars, chainVars, base>>

(* run-create or run-progress. *)
PersistProgress(s) ==
  LET r == scan[s]
      next == NextRun(r)
      kept == Paged([r EXCEPT !.run = next])
      can == IF r.run = NoRun THEN CanCreateRun(next) ELSE CanAdvanceRun(r.run)
  IN /\ At(s, "persist")
     /\ \/ /\ IF r.run = NoRun THEN CreateStrictCatchUpRun(next)
              ELSE AdvanceStrictCatchUpRun(r.run, next)
           /\ Goes(s, kept)
           /\ UNCHANGED base
        \/ ~can /\ Fails(s)
     /\ UNCHANGED <<chainVars, admitted>>

(* The walk reached the boundary (or there is none yet). *)
Settle(s) ==
  LET r == scan[s]
      k == Key(r)
      e == Expected(r)
  IN /\ At(s, "settle")
     /\ \/ /\ r.head = 0
           /\ ResolveStrictCatchUpFailures(k, e)
           /\ Goes(s, Finished(r)) /\ UNCHANGED base
        \/ /\ r.head # 0 /\ r.run = NoRun
           /\ \/ /\ CompareAndSwapCheckpoint(k, e, r.head)
                 /\ base' = [base EXCEPT ![k] = IF e = 0 THEN r.head ELSE @]
                 /\ Goes(s, Finished(r))
              \/ ~CanSwapCheckpoint(k, e, r.head) /\ Fails(s)
        \/ /\ r.head # 0 /\ r.run # NoRun
           /\ \/ CompleteStrictCatchUpRun(r.run) /\ Goes(s, Finished(r)) /\ UNCHANGED base
              \/ ~CanAdvanceRun(r.run) /\ Fails(s)
     /\ UNCHANGED <<chainVars, admitted>>

(* recordWindowFailure, then failStrictCatchUpRun if there is a run. *)
RecordWindowFailure(s) ==
  LET r == scan[s]
  IN /\ At(s, "record")
     /\ RecordStrictCatchUpFailure(Key(r), Expected(r), r.provider,
                                   IF r.head = 0 THEN -1 ELSE SlotOf[r.head])
     /\ Goes(s, IF r.run = NoRun THEN Ended(r, "window") ELSE [r EXCEPT !.stage = "fail"])
     /\ UNCHANGED <<chainVars, admitted, base>>

FailRun(s) ==
  LET r == scan[s]
  IN /\ At(s, "fail")
     /\ FailStrictCatchUpRun(r.run)
     /\ Goes(s, Ended(r, "window"))
     /\ UNCHANGED <<chainVars, admitted, base>>

FailRefused(s) ==
  /\ At(s, "fail")
  /\ ~CanAdvanceRun(scan[s].run)
  /\ Fails(s)
  /\ UNCHANGED <<chainVars, admitted>>

(* An abort between two awaits, a failed call, or the end of the process. *)
Interrupt(s) ==
  /\ ~At(s, "idle")
  /\ Goes(s, Ended(scan[s], "interrupted"))
  /\ UNCHANGED <<storeVars, chainVars, admitted, base>>

PurgeEvidence ==
  /\ Aging
  /\ PurgeCatchUpEvidence
  /\ UNCHANGED <<scan, chainVars, admitted, base>>

SoloStep(s) ==
  \/ ReadCheckpoint(s) \/ ReadActiveRun(s) \/ ReadHistoricalRun(s)
  \/ ReadPage(s) \/ AdmitPage(s) \/ PersistProgress(s) \/ Settle(s)
  \/ RecordWindowFailure(s)

(* A stale run, a run whose boundary the provider forgot half way, and a   *)
(* run another scanner moved meanwhile come on top.                        *)
ScanStep(s) ==
  \/ SoloStep(s)
  \/ SupersedeRun(s) \/ SupersedeRefused(s)
  \/ FailRun(s) \/ FailRefused(s)

CatchUpNext ==
  \/ \E s \in Scanners : \E p \in Providers, policy \in Policies : Start(s, p, policy)
  \/ \E s \in Scanners : ScanStep(s) \/ AdmitPartly(s) \/ Interrupt(s)
  \/ PurgeEvidence \/ Grow \/ Forget

CatchUpSpec == CatchUpInit /\ [][CatchUpNext]_catchUpVars

-----------------------------------------------------------------------------
(* What strict catch-up promises.                                          *)

CatchUpTypeOK ==
  /\ checkpoint \in [Keys -> MaybePositions]
  /\ runs \subseteq RunType
  /\ failures \subseteq FailureType
  /\ scan \in [Scanners -> ScanType]
  /\ view \in [Providers -> Nat] /\ floor \in [Providers -> Nat]
  /\ admitted \in [Keys -> SUBSET Positions]
  /\ base \in [Keys -> MaybePositions]

(* The checkpoint never passes a signature that was not admitted: whatever *)
(* was paused, resumed, superseded or interrupted half way, everything     *)
(* between the first checkpoint and the current one is in the inbox.       *)
CheckpointCoversHistory ==
  \A k \in Keys : \A i \in Touches[k] : base[k] < i /\ i <= checkpoint[k] => i \in admitted[k]

(* A run ends as FAILED only for history its provider no longer has, never *)
(* because the provider lags or another scan moved the checkpoint.         *)
FailedRunProvesLoss ==
  \A x \in runs : x.state = "FAILED" => SlotOf[x.previous] < floor[x.provider]

(* A scan that succeeds, which is what lets the supervisor promote a       *)
(* session, has bridged the live head: all that its provider listed when   *)
(* it began is admitted, even if part of the walk was an older run's.      *)
ScanBridgesHead ==
  \A s \in Scanners : scan[s].result = "done" =>
    \A k \in Keys : \A i \in Touches[k] :
      base[k] # 0 /\ base[k] < i /\ SlotOf[i] <= scan[s].since => i \in admitted[k]

(* With history retained and interruptions coming to an end, every key's   *)
(* checkpoint reaches the head, however many pauses it takes.              *)
CatchUpConverges == \A k \in Keys : <>(checkpoint[k] = Max(Touches[k]))

=============================================================================
