---------------------------- MODULE TrackedPools ----------------------------
(***************************************************************************)
(* The poller of tracked pools and bonding curves: every cycle sweeps the  *)
(* finalized history of each tracked address from its newest signature     *)
(* down to the stored checkpoint, enqueues what it read and moves the      *)
(* checkpoint.  A node that answers may lag behind, a sweep has a budget   *)
(* of pages, and a sweep that times out goes on in the background until it *)
(* notices.                                                                *)
(*                                                                         *)
(* One address: its signatures are 1..tip, oldest first, 1 being the       *)
(* activation.  Rows read by a sweep are always consecutive: they are the  *)
(* signatures oldest..newest.                                              *)
(***************************************************************************)
EXTENDS Naturals, FiniteSets

CONSTANTS
  SlotOfSignature, \* the slot of each signature
  FailedOnChain,   \* signatures of failed transactions
  PageSize,        \* PAGE_SIZE, 1000 in the code
  MaxPages         \* MAX_PAGES, 5 in the code

Signatures == DOMAIN SlotOfSignature

VARIABLES
  tip,       \* the finalized history of the address
  tracked,   \* is the address among the tracked ones?
  swept,     \* its checkpoint row: a signature, 0: no row
  delivered, \* signatures handed to the durable inbox
  skipped,   \* signatures given up by a sweep that ran out of pages
  poller,    \* currentState, closed, timer and inFlight
  sweep      \* the running sweep, and one that has timed out

poolVars == <<tip, tracked, swept, delivered, skipped, poller, sweep>>

PollerStates == {"STOPPED", "STARTING", "RUNNING", "DEGRADED"}
Sweeps == {"current", "expired"}
NoSweep == [at |-> "none", mark |-> 0, newest |-> 0, oldest |-> 0, pages |-> 0,
            ended |-> FALSE, confirmed |-> FALSE]

PoolsTypeOK ==
  /\ tip \in Signatures /\ tracked \in BOOLEAN
  /\ swept \in 0..tip /\ delivered \subseteq Signatures /\ skipped \subseteq Signatures
  /\ poller \in [state: PollerStates, closed: BOOLEAN, timer: BOOLEAN, cycle: {"none", "listing", "sweeping"},
                 closing: BOOLEAN]
  /\ DOMAIN sweep = Sweeps
  /\ \A s \in Sweeps :
       sweep[s] \in [at: {"none", "seeding", "page", "probe", "enqueue", "store"}, mark: 0..tip,
                     newest: 0..tip, oldest: 0..tip, pages: 0..MaxPages,
                     ended: BOOLEAN, confirmed: BOOLEAN]

Stopped == [state |-> "STOPPED", closed |-> FALSE, timer |-> FALSE, cycle |-> "none", closing |-> FALSE]

PoolsInit ==
  /\ tip = 1 /\ tracked = TRUE /\ swept = 0 /\ delivered = {} /\ skipped = {}
  /\ poller = Stopped
  /\ sweep = [s \in Sweeps |-> NoSweep]

-----------------------------------------------------------------------------
(***************************************************************************)
(* What a node answers.  It knows the history up to its view; signatures   *)
(* named by before and until may be unknown to it.                         *)
(***************************************************************************)
(* getSignaturesForAddress, newest first; 0 stands for an absent option. *)
Answer(view, before, until, limit) ==
  LET top == IF before = 0 THEN view ELSE before - 1
      bottom == IF until \in 1..view THEN until + 1 ELSE 1
  IN IF before > view THEN {}
     ELSE {i \in bottom..top : i + limit > top}

Lowest(rows) == CHOOSE i \in rows : \A j \in rows : i <= j
Highest(rows) == CHOOSE i \in rows : \A j \in rows : i >= j

-----------------------------------------------------------------------------
(***************************************************************************)
(* A sweep, one step per awaited call.  It stops when its deadline has     *)
(* expired, which it looks at before each call.                            *)
(***************************************************************************)
Expired(s) == s = "expired"

(* pollWithTimeout and cycle: the sweep of the cycle settles, the cycle    *)
(* and its timer follow (there is one address).                            *)
CycleEnds(outcome) ==
  [poller EXCEPT !.cycle = "none",
                 !.state = IF poller.closed THEN @ ELSE outcome,
                 !.timer = ~poller.closed]

Settles(s) ==
  /\ sweep' = [sweep EXCEPT ![s] = NoSweep]
  /\ poller' = IF Expired(s) THEN poller ELSE CycleEnds("RUNNING")

GoesOn(s, next) ==
  /\ sweep' = [sweep EXCEPT ![s] = next]
  /\ UNCHANGED poller

(* pollPool up to its first page. *)
ReadCheckpoint ==
  /\ sweep["current"].at = "none" /\ poller.cycle = "sweeping"
  /\ GoesOn("current", IF swept = 0 THEN [NoSweep EXCEPT !.at = "seeding", !.mark = 1]
                       ELSE [NoSweep EXCEPT !.at = "page", !.mark = swept])
  /\ UNCHANGED <<tip, tracked, swept, delivered, skipped>>

(* seedCheckpoint leaves a row that is there alone. *)
SeedCheckpoint(s) ==
  /\ sweep[s].at = "seeding"
  /\ swept' = IF swept = 0 THEN sweep[s].mark ELSE swept
  /\ IF Expired(s) THEN Settles(s) ELSE GoesOn(s, [sweep[s] EXCEPT !.at = "page"])
  /\ UNCHANGED <<tip, tracked, delivered, skipped>>

(* The checks on a page: no slot below the checkpoint, nothing twice. *)
Consistent(q, rows) ==
  \A i \in rows : SlotOfSignature[i] >= SlotOfSignature[q.mark] /\ i # q.mark

PageRead(q, rows) ==
  LET full == Cardinality(rows) = PageSize
      read == [q EXCEPT !.pages = @ + 1, !.ended = ~full,
                        !.newest = IF @ = 0 /\ rows # {} THEN Highest(rows) ELSE @,
                        !.oldest = IF rows # {} THEN Lowest(rows) ELSE @]
  IN IF full /\ read.pages < MaxPages THEN read ELSE [read EXCEPT !.at = "probe"]

ReadPage(s) ==
  /\ sweep[s].at = "page"
  /\ \E view \in 0..tip :
       LET q == sweep[s]
           rows == Answer(view, q.oldest, q.mark, PageSize)
       IN IF ~Consistent(q, rows) \/ Expired(s)
          THEN Settles(s)
          ELSE GoesOn(s, PageRead(q, rows))
  /\ UNCHANGED <<tip, tracked, swept, delivered, skipped>>

(* Faulty variant: the boundary is taken to be confirmed by any answer. *)
ConfirmedByAny(q, rows) == rows # {}

(* The signature below the oldest row must be the checkpoint. *)
Confirmed(q, rows) == rows = {q.mark}

(* An unconfirmed boundary waits after a short page; after a full budget   *)
(* the gap is given up.                                                    *)
Probe(s) ==
  /\ sweep[s].at = "probe"
  /\ \E view \in 0..tip :
       LET q == sweep[s]
           confirmed == Confirmed(q, Answer(view, q.oldest, 0, 1))
       IN IF (~confirmed /\ q.ended) \/ Expired(s)
          THEN Settles(s)
          ELSE GoesOn(s, [q EXCEPT !.at = IF q.newest = 0 THEN "store" ELSE "enqueue",
                                   !.confirmed = confirmed])
  /\ UNCHANGED <<tip, tracked, swept, delivered, skipped>>

Rows(q) == IF q.newest = 0 THEN {} ELSE q.oldest..q.newest
Unsent(q) == {i \in Rows(q) : i \notin FailedOnChain /\ i \notin delivered}

(* Newest first; a row that is already there is left alone by the inbox,   *)
(* and so are failed transactions.                                         *)
Enqueue(s) ==
  /\ sweep[s].at = "enqueue"
  /\ LET q == sweep[s]
         missing == Unsent(q)
     IN /\ delivered' = IF missing = {} THEN delivered ELSE delivered \cup {Highest(missing)}
        /\ IF Expired(s) THEN Settles(s)
           ELSE GoesOn(s, IF Cardinality(missing) <= 1 THEN [q EXCEPT !.at = "store"] ELSE q)
  /\ UNCHANGED <<tip, tracked, swept, skipped>>

(* storeCheckpoint: never to an earlier slot.  What lies between the       *)
(* checkpoint the sweep began from and its oldest row is skipped when the  *)
(* boundary is not confirmed.                                              *)
StoreCheckpoint(s) ==
  /\ sweep[s].at = "store"
  /\ LET q == sweep[s]
         stored == q.newest # 0 /\ SlotOfSignature[swept] <= SlotOfSignature[q.newest]
     IN /\ swept' = IF stored THEN q.newest ELSE swept
        /\ skipped' = IF stored /\ ~q.confirmed
                      THEN skipped \cup {i \in Signatures : q.mark < i /\ i < q.oldest}
                      ELSE skipped
  /\ Settles(s)
  /\ UNCHANGED <<tip, tracked, delivered>>

(* A call of the sweep fails. *)
SweepFails(s) ==
  /\ sweep[s].at # "none"
  /\ Settles(s)
  /\ UNCHANGED <<tip, tracked, swept, delivered, skipped>>

(* SWEEP_TIMEOUT_MS: the cycle goes on without the sweep. *)
SweepTimesOut ==
  /\ sweep["current"].at # "none" /\ sweep["expired"] = NoSweep
  /\ sweep' = [current |-> NoSweep, expired |-> sweep["current"]]
  /\ poller' = CycleEnds("RUNNING")
  /\ UNCHANGED <<tip, tracked, swept, delivered, skipped>>

-----------------------------------------------------------------------------
(***************************************************************************)
(* The poller.                                                             *)
(***************************************************************************)
StartPoller ==
  /\ poller = Stopped
  /\ poller' = [poller EXCEPT !.state = "STARTING", !.cycle = "listing"]
  /\ UNCHANGED <<tip, tracked, swept, delivered, skipped, sweep>>

TimerFires ==
  /\ poller.timer
  /\ poller' = [poller EXCEPT !.timer = FALSE, !.cycle = "listing"]
  /\ UNCHANGED <<tip, tracked, swept, delivered, skipped, sweep>>

(* listTrackedPools *)
ListTrackedPools ==
  /\ poller.cycle = "listing"
  /\ poller' = IF tracked /\ ~poller.closed THEN [poller EXCEPT !.cycle = "sweeping"]
               ELSE CycleEnds("RUNNING")
  /\ UNCHANGED <<tip, tracked, swept, delivered, skipped, sweep>>

ListingFails ==
  /\ poller.cycle = "listing"
  /\ poller' = CycleEnds("DEGRADED")
  /\ UNCHANGED <<tip, tracked, swept, delivered, skipped, sweep>>

ClosePoller ==
  /\ ~poller.closed
  /\ poller' = [poller EXCEPT !.closed = TRUE, !.timer = FALSE, !.closing = TRUE]
  /\ UNCHANGED <<tip, tracked, swept, delivered, skipped, sweep>>

(* performClose waits for the cycle, up to a timeout. *)
PollerCloses ==
  /\ poller.closing
  /\ \E timedOut \in BOOLEAN :
       /\ timedOut <=> poller.cycle # "none"
       /\ poller' = [poller EXCEPT !.closing = FALSE,
                                   !.state = IF timedOut THEN "DEGRADED" ELSE "STOPPED"]
  /\ UNCHANGED <<tip, tracked, swept, delivered, skipped, sweep>>

(* The process stops and is started again. *)
PollerProcessStops ==
  /\ poller # Stopped
  /\ poller' = Stopped
  /\ sweep' = [s \in Sweeps |-> NoSweep]
  /\ UNCHANGED <<tip, tracked, swept, delivered, skipped>>

(* A transaction of the address is finalized. *)
HistoryGrows ==
  /\ tip + 1 \in Signatures
  /\ tip' = tip + 1
  /\ UNCHANGED <<tracked, swept, delivered, skipped, poller, sweep>>

(* The mint enters or leaves the tracking window, a pool is activated. *)
TrackingChanges ==
  /\ tracked' = ~tracked
  /\ UNCHANGED <<tip, swept, delivered, skipped, poller, sweep>>

SweepStep(s) ==
  \/ SeedCheckpoint(s) \/ ReadPage(s) \/ Probe(s) \/ Enqueue(s) \/ StoreCheckpoint(s)

PoolsNext ==
  \/ ReadCheckpoint \/ (\E s \in Sweeps : SweepStep(s))
  \/ StartPoller \/ TimerFires \/ ListTrackedPools \/ PollerCloses \/ HistoryGrows

PoolsDisturbed ==
  \/ (\E s \in Sweeps : SweepFails(s)) \/ SweepTimesOut \/ ListingFails
  \/ ClosePoller \/ PollerProcessStops \/ TrackingChanges

-----------------------------------------------------------------------------
(* The checkpoint never claims more than was read: every transaction that  *)
(* succeeded between the activation of the pool and its checkpoint is in   *)
(* the inbox or in a gap that a sweep gave up after a full page budget,    *)
(* however the nodes lag behind each other, and whichever sweep that timed *)
(* out still enqueues or stores.                                           *)
PoolHistoryIsCovered ==
  \A i \in Signatures : 1 < i /\ i <= swept => i \in delivered \cup skipped \cup FailedOnChain

=============================================================================
