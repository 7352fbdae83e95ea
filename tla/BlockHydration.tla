---------------------------- MODULE BlockHydration ----------------------------
(***************************************************************************)
(* Hydration of transactions from whole blocks, with provider affinity:    *)
(* ProviderAffineCatchUpHydration (the permit that scans and workers take  *)
(* turns for, and the route it binds), HydrationGroupAdmission (one block  *)
(* group, or one worker that does not know its block yet, at a time) and   *)
(* CachedSolanaBlockTransactionLocator (the shared block cache, its        *)
(* flights and the pump that paces them).                                  *)
(*                                                                         *)
(* Three kinds of callers: claimants (inbox workers, which reserve before  *)
(* they claim a row), scans (runStrictScan) and readers (the locate calls  *)
(* of the classifier inside a scan).  A step is what runs between two      *)
(* awaits.  hy is the memory of the three objects and their callers.       *)
(***************************************************************************)
EXTENDS Integers, FiniteSets, Sequences, SequencesExt, FiniteSetsExt

CONSTANTS Claimants, Scans, Readers, Blocks, RpcNames, NoName, MaxEntries, MaxRevision, MaxScans

VARIABLE hy

NoOne == "no one"
NoContext == [provider |-> NoName, by |-> "none", n |-> 0]
NoScan == [id |-> NoOne, context |-> NoContext, pins |-> {}, calls |-> {}, revision |-> 0,
           revoked |-> FALSE, accepting |-> FALSE]
NoGroup == [key |-> <<NoContext, NoOne>>, refs |-> {}]
NoTarget == [block |-> NoOne, signature |-> "x"]

(* The transactions of a block that a response carries; the payload of a   *)
(* spoiled one could not be normalized, which keeps the block out of the   *)
(* cache, as its size may.                                                 *)
Signatures == {"x", "y"}
BlockAnswers == {[has |-> {"x", "y"}, spoiled |-> {}], [has |-> {"x"}, spoiled |-> {}],
              [has |-> {"x", "y"}, spoiled |-> {"y"}]}
Lookups == [block : Blocks, signature : Signatures]
NoSnapshot == [has |-> {}, spoiled |-> {}]
NoAnswer == [outcome |-> "none", from |-> NoName]
NoFlight == [block |-> NoOne, epoch |-> 0, generation |-> 0, state |-> "none", from |-> NoName,
             snapshot |-> NoSnapshot]

Caller == [pc |-> "idle", selected |-> [provider |-> NoName, revision |-> 0], generation |-> 0,
           shares |-> FALSE, owns |-> FALSE, target |-> NoTarget, flight |-> 0, aborted |-> FALSE,
           answer |-> NoAnswer]

(* mixed remembers that a caller was given a block of another provider than *)
(* the one it was admitted for.                                             *)

(* Every flight has a caller that waits for it. *)
Flights == 1..(Cardinality(Claimants) + Cardinality(Readers))

HydrationInit ==
  hy = [closed |-> FALSE, selection |-> [provider |-> NoName, revision |-> 0],
        epoch |-> 0, active |-> NoContext, scans |-> 0, scan |-> NoScan, permit |-> "none", queue |-> <<>>,
        workerWaiters |-> <<>>, classifierWaiters |-> <<>>, unbound |-> NoOne, group |-> NoGroup,
        turn |-> "worker",
        cacheEpoch |-> 0, generation |-> 0, entries |-> <<>>, inFlight |-> [b \in Blocks |-> 0],
        admissions |-> <<>>, pump |-> "idle", mixed |-> FALSE, flights |-> [f \in Flights |-> NoFlight],
        claimant |-> [c \in Claimants |-> Caller], reader |-> [r \in Readers |-> Caller],
        scanner |-> [s \in Scans |-> [pc |-> "idle", provider |-> NoName, aborted |-> FALSE]]]

-----------------------------------------------------------------------------
(* The cache.  clear forgets the values, detaches the flights and rejects  *)
(* the ones that have not started.                                         *)
ClearedCache(h) ==
  [h EXCEPT !.generation = @ + 1, !.entries = <<>>, !.inFlight = [b \in Blocks |-> 0],
            !.admissions = <<>>,
            !.flights = [i \in DOMAIN @ |-> IF @[i].state = "queued" THEN [@[i] EXCEPT !.state = "failed"] ELSE @[i]]]

synchronizeEpoch(h) ==
  IF h.cacheEpoch = h.epoch THEN h ELSE ClearedCache([h EXCEPT !.cacheEpoch = h.epoch])

(* advanceEpoch and the read of the metrics that follows it everywhere. *)
advanceEpoch(h) == synchronizeEpoch([h EXCEPT !.epoch = @ + 1])

Without(entries, block) == SelectSeq(entries, LAMBDA e : e.block # block)

CachedBlock(h, block) == {i \in DOMAIN h.entries : h.entries[i].block = block}

retain(h, block, flight) ==
  LET s == synchronizeEpoch(h)
      kept == Append(Without(s.entries, block), [block |-> block, from |-> flight.from, snapshot |-> flight.snapshot])
  IN IF \/ s.closed \/ flight.snapshot.spoiled # {}
        \/ flight.epoch # s.cacheEpoch \/ flight.generation # s.generation
     THEN s
     ELSE [s EXCEPT !.entries = IF Len(kept) > MaxEntries THEN Tail(kept) ELSE kept]

(* What locate returns for a signature of a block that it holds. *)
Answered(snapshot, signature) ==
  IF signature \notin snapshot.has THEN "missing"
  ELSE IF signature \in snapshot.spoiled THEN "unreadable" ELSE "found"

-----------------------------------------------------------------------------
(* The route.  selection() notices that the promoted provider has changed. *)
IsAborted(h, s) == h.closed \/ (s \in Scans /\ h.scanner[s].aborted)

noticeSelection(h) ==
  IF /\ ~h.closed /\ h.scan.id = NoOne /\ h.active.by = "worker"
     /\ <<h.selection.provider, h.selection.revision>> # <<h.active.provider, h.active.n>>
  THEN advanceEpoch([h EXCEPT !.active = NoContext])
  ELSE h

(* Faulty variant: binding another route keeps the epoch of the cache. *)
bindKeepingEpoch(h, context) == [h EXCEPT !.active = context]

bind(h, context) == IF h.active = context THEN h ELSE advanceEpoch([h EXCEPT !.active = context])

revokeWorkerSharing(h) == IF h.scan.revoked THEN h ELSE advanceEpoch([h EXCEPT !.scan.revoked = TRUE])

ScanQueued(h) == \E i \in DOMAIN h.queue : h.queue[i].kind = "SCAN"

Shareable(h) ==
  /\ h.scan.id # NoOne /\ h.scan.accepting /\ ~IsAborted(h, h.scan.id)
  /\ h.scan.context.provider = h.selection.provider /\ h.active = h.scan.context
  /\ ~h.scan.revoked /\ ~ScanQueued(h)

(* sharedScanPermit: a scan is shared only under the selection it began    *)
(* with; a newer one revokes the sharing for good.                         *)
sharedScanPermit(h) ==
  IF Shareable(h) /\ h.scan.revision # h.selection.revision THEN revokeWorkerSharing(h) ELSE h

SharesScan(h) == Shareable(h) /\ h.scan.revision = h.selection.revision

-----------------------------------------------------------------------------
(* The permit: one scan, or one worker, at a time. *)
drain(h) ==
  IF h.closed \/ h.permit # "none" \/ h.queue = <<>> THEN h
  ELSE LET next == Head(h.queue)
           g == [h EXCEPT !.queue = Tail(@), !.permit = next.kind]
       IN IF next.kind = "SCAN" THEN [g EXCEPT !.scanner[next.who].pc = "granted"]
          ELSE [g EXCEPT !.claimant[next.who].pc = "routed"]

acquirePermit(h, who, kind) == drain([h EXCEPT !.queue = Append(@, [who |-> who, kind |-> kind])])

releasePermit(h) == drain([h EXCEPT !.permit = "none"])

(* Group admission.  The classifier's waiters all ask for one group. *)
KeyOf(h, r) == <<h.scan.context, h.reader[r].target.block>>

grantWorker(h, c) ==
  [h EXCEPT !.workerWaiters = SelectSeq(@, LAMBDA x : x # c), !.unbound = c,
            !.claimant[c].pc = "ticketed"]

grantClassifiers(h) ==
  LET granted == ToSet(h.classifierWaiters)
  IN [h EXCEPT !.classifierWaiters = <<>>,
               !.group = [key |-> KeyOf(h, Head(h.classifierWaiters)), refs |-> @.refs \cup granted],
               !.reader = [r \in Readers |-> IF r \in granted THEN [@[r] EXCEPT !.pc = "ticketed"] ELSE @[r]]]

dispatchGroups(h) ==
  LET worker == h.workerWaiters # <<>>
      classifier == h.classifierWaiters # <<>>
      other == IF h.turn = "worker" THEN "classifier" ELSE "worker"
  IN IF h.closed \/ h.unbound # NoOne THEN h
     ELSE IF h.group # NoGroup
          THEN IF classifier /\ KeyOf(h, Head(h.classifierWaiters)) = h.group.key THEN grantClassifiers(h) ELSE h
     ELSE IF worker /\ classifier
          THEN IF h.turn = "worker" THEN grantWorker([h EXCEPT !.turn = other], Head(h.workerWaiters))
               ELSE grantClassifiers([h EXCEPT !.turn = other])
     ELSE IF worker THEN grantWorker(h, Head(h.workerWaiters))
     ELSE IF classifier THEN grantClassifiers(h) ELSE h

(* A claimant learns its block: the reservation becomes a group, which the *)
(* classifier may join when it waits for the same one.                     *)
bindGroup(h, c, key) == dispatchGroups([h EXCEPT !.unbound = NoOne, !.group = [key |-> key, refs |-> {c}]])

(* Faulty variant: the released group wakes nobody. *)
releaseTicketSilently(h, who) ==
  LET refs == h.group.refs \ {who}
  IN IF h.unbound = who THEN [h EXCEPT !.unbound = NoOne]
     ELSE IF who \in h.group.refs THEN [h EXCEPT !.group = IF refs = {} THEN NoGroup ELSE [@ EXCEPT !.refs = refs]]
     ELSE h

releaseTicket(h, who) ==
  LET refs == h.group.refs \ {who}
  IN IF h.unbound = who THEN dispatchGroups([h EXCEPT !.unbound = NoOne])
     ELSE IF who \in h.group.refs
          THEN dispatchGroups([h EXCEPT !.group = IF refs = {} THEN NoGroup ELSE [@ EXCEPT !.refs = refs]])
     ELSE h

-----------------------------------------------------------------------------
(* Flights.  One that is settled and awaited by nobody is forgotten. *)
AllCallers == Claimants \cup Readers
CallerOf(h, who) == IF who \in Claimants THEN h.claimant[who] ELSE h.reader[who]
WithCaller(h, who, caller) ==
  IF who \in Claimants THEN [h EXCEPT !.claimant[who] = caller] ELSE [h EXCEPT !.reader[who] = caller]

Awaited(h) == {CallerOf(h, who).flight : who \in AllCallers}

Swept(h) ==
  [h EXCEPT !.flights = [f \in Flights |-> IF @[f].state \in {"ok", "failed"} /\ f \notin Awaited(h) THEN NoFlight
                                            ELSE @[f]]]

FlightFails(h, f) == [h EXCEPT !.flights[f].state = "failed", !.pump = "next",
                           !.inFlight = [b \in Blocks |-> IF @[b] = f THEN 0 ELSE @[b]]]

(* A caller of the scan still wants the block: the pace of the cache can   *)
(* outlive the caller that asked.  The signal of a caller in scan.calls is *)
(* that of the scan, which startFetch tests.                               *)
WantedByScan(h, block) == \E who \in h.scan.calls : CallerOf(h, who).target.block = block

(* The head of the queue: admission.start, fetchSnapshot and, inside it,   *)
(* getBlockTransactions of the route that is bound now.                    *)
startFetch(h) ==
  LET f == Head(h.admissions)
      flight == h.flights[f]
      g == [h EXCEPT !.admissions = Tail(@)]
      n == noticeSelection(g)
      worker == [provider |-> n.selection.provider, by |-> "worker", n |-> n.selection.revision]
      refused == IF h.scan.id # NoOne THEN IsAborted(h, h.scan.id) \/ ~WantedByScan(h, flight.block)
                 ELSE n.selection.provider = NoName \/ n.active # worker
  IN IF flight.epoch # h.epoch \/ flight.generation # h.generation THEN FlightFails(g, f)
     ELSE IF h.closed \/ refused THEN FlightFails(n, f)
     ELSE [n EXCEPT !.flights[f].state = "started", !.flights[f].from = n.active.provider, !.pump = "busy"]

(* One turn of the pump: it ends, waits for the interval between two       *)
(* fetches, or starts the next one.                                        *)
pumpTurns(h) ==
  LET s == synchronizeEpoch(h)
  IN IF h.closed \/ s.admissions = <<>> THEN {[s EXCEPT !.pump = "idle"]}
     ELSE {[s EXCEPT !.pump = "paced"], startFetch(s)}

fetch(h, who, block) ==
  LET joined == h.inFlight[block]
      f == IF joined # 0 THEN joined ELSE CHOOSE x \in Flights : h.flights[x] = NoFlight
      g == WithCaller(h, who, [CallerOf(h, who) EXCEPT !.pc = "locating", !.flight = f])
      n == [g EXCEPT !.flights[f] = [NoFlight EXCEPT !.block = block, !.epoch = h.epoch,
                                       !.generation = h.generation, !.state = "queued"],
                     !.inFlight[block] = f, !.admissions = Append(@, f)]
  IN IF joined # 0 THEN {g} ELSE IF h.pump = "idle" THEN pumpTurns(n) ELSE {n}

(* locate of the cache up to its await: a hit, or a fetch.  A block that   *)
(* is cached without the signature is fetched again.                       *)
locate(h, who) ==
  LET s == synchronizeEpoch(h)
      target == CallerOf(h, who).target
      cached == CachedBlock(s, target.block)
      entry == s.entries[CHOOSE i \in cached : TRUE]
      fresh == [s EXCEPT !.entries = Without(@, target.block)]
      answer == [outcome |-> "found", from |-> entry.from]
  IN IF s.closed THEN {WithCaller(s, who, [CallerOf(s, who) EXCEPT !.pc = "answered",
                                             !.answer = [NoAnswer EXCEPT !.outcome = "retry"]])}
     ELSE IF cached # {} /\ target.signature \in entry.snapshot.has
          THEN {WithCaller([s EXCEPT !.entries = Append(Without(@, target.block), entry)], who,
                           [CallerOf(s, who) EXCEPT !.pc = "answered", !.answer = answer])}
     ELSE fetch(fresh, who, target.block)

(* locate after its await. *)
Hydrated(h, who) ==
  LET caller == CallerOf(h, who)
      flight == h.flights[caller.flight]
      outcome == IF flight.state = "failed" THEN "retry" ELSE Answered(flight.snapshot, caller.target.signature)
      done == [caller EXCEPT !.pc = "answered", !.flight = 0,
                             !.answer = [outcome |-> outcome, from |-> flight.from]]
      g == WithCaller(h, who, done)
  IN IF caller.pc = "answered" THEN h
     ELSE IF outcome = "found" THEN retain(g, caller.target.block, flight) ELSE g

handed(h, answer, wanted) == [h EXCEPT !.mixed = @ \/ (answer.outcome = "found" /\ answer.from # wanted)]

CallSettled(caller, h) ==
  caller.pc = "answered" \/ (caller.pc = "locating" /\ h.flights[caller.flight].state \in {"ok", "failed"})

PumpWakes == hy.pump = "paced" /\ hy' \in {Swept(h) : h \in pumpTurns(hy)}
PumpContinues == hy.pump = "next" /\ hy' \in {Swept(h) : h \in pumpTurns(hy)}

(* The provider answers, fails or times out. *)
FetchSettles ==
  \E f \in Flights :
    /\ hy.flights[f].state = "started"
    /\ \/ hy' = Swept(FlightFails(hy, f))
       \/ \E snapshot \in BlockAnswers :
             hy' = Swept([FlightFails(hy, f) EXCEPT !.flights[f].state = "ok", !.flights[f].snapshot = snapshot])

EntryExpires == \E i \in DOMAIN hy.entries : hy' = [hy EXCEPT !.entries = Without(@, @[i].block)]

-----------------------------------------------------------------------------
(* Claimants.  validate: what must still hold after every await. *)
StillOpen(h, c) ==
  LET w == h.claimant[c]
  IN /\ ~h.closed /\ ~(w.aborted /\ w.pc \in {"routed", "ticketed"})
     /\ w.shares => ~IsAborted(h, h.scan.id)

validated(h, c) ==
  LET w == h.claimant[c]
      n == noticeSelection(h)
  IN IF ~StillOpen(h, c) THEN h
     ELSE IF w.shares /\ n.selection # w.selected /\ n.scan.id # NoOne THEN revokeWorkerSharing(n) ELSE n

Validates(h, c) ==
  LET w == h.claimant[c]
  IN /\ StillOpen(h, c) /\ h.selection = w.selected /\ h.scans = w.generation
     /\ w.shares => h.scan.id # NoOne /\ h.active = h.scan.context /\ ~h.scan.revoked

(* cleanup: the ticket, the pin and the route go back together. *)
cleanup(h, c) ==
  LET t == releaseTicket(h, c)
      w == h.claimant[c]
      p == [t EXCEPT !.scan.pins = @ \ {c}, !.scan.calls = @ \ {c},
                     !.claimant[c] = [Caller EXCEPT !.aborted = w.aborted]]
  IN IF h.claimant[c].owns THEN releasePermit(p) ELSE p

(* Cancelled waiters of the admission, and reservations that an aborted    *)
(* signal releases.                                                        *)
cancelled(h, waiting) ==
  dispatchGroups([h EXCEPT !.workerWaiters = SelectSeq(@, LAMBDA x : x \notin waiting),
                     !.classifierWaiters = SelectSeq(@, LAMBDA x : x \notin waiting),
                     !.claimant = [c \in Claimants |-> IF c \in waiting THEN [@[c] EXCEPT !.pc = "refused"] ELSE @[c]],
                     !.reader = [r \in Readers |-> IF r \in waiting THEN [@[r] EXCEPT !.pc = "refused"] ELSE @[r]]])

cleanedUp(h, reserved) == FoldSet(LAMBDA c, g : cleanup(g, c), h, reserved)

requestTicket(h, c) ==
  dispatchGroups([h EXCEPT !.workerWaiters = Append(@, c), !.claimant[c].pc = "waiting"])

(* acquire of a claim admission: the route of the running scan when it may *)
(* be shared, the permit otherwise.                                        *)
AcquireAdmission(c) ==
  LET n == noticeSelection(hy)
      s == sharedScanPermit(n)
      fresh == [Caller EXCEPT !.selected = s.selection, !.generation = s.scans]
  IN /\ hy.claimant[c].pc = "idle" /\ ~hy.claimant[c].aborted
     /\ ~hy.closed /\ hy.selection.provider # NoName
     /\ hy' = IF SharesScan(s)
              THEN requestTicket([s EXCEPT !.claimant[c] = [fresh EXCEPT !.shares = TRUE],
                                           !.scan.pins = @ \cup {c}], c)
              ELSE acquirePermit([s EXCEPT !.claimant[c] = [fresh EXCEPT !.pc = "queued"]], c, "WORKER")

RouteGranted(c) ==
  LET owned == [hy EXCEPT !.claimant[c].owns = TRUE]
      v == validated(owned, c)
      worker == [provider |-> hy.selection.provider, by |-> "worker", n |-> hy.selection.revision]
  IN /\ hy.claimant[c].pc = "routed"
     /\ hy' = Swept(IF Validates(owned, c) THEN requestTicket(bind(v, worker), c) ELSE cleanup(v, c))

TicketGranted(c) ==
  /\ hy.claimant[c].pc = "ticketed"
  /\ hy' = Swept(IF Validates(hy, c) THEN [validated(hy, c) EXCEPT !.claimant[c].pc = "reserved"]
                 ELSE cleanup(validated(hy, c), c))

(* The waiter was cancelled: no reservation. *)
AdmissionRefused(c) == hy.claimant[c].pc = "refused" /\ hy' = Swept(cleanup(hy, c))

(* No row to claim. *)
ReleaseUnused(c) == hy.claimant[c].pc = "reserved" /\ hy' = Swept(cleanup(hy, c))

(* The claimed row names its block: the reservation is bound to the group  *)
(* and the block is looked up.  A reservation that is no longer valid is   *)
(* given back, and the row is retried.                                     *)
LocateReserved(c) ==
  \E target \in Lookups :
    LET v == validated(hy, c)
        aimed == [v EXCEPT !.claimant[c].target = target,
                           !.scan.calls = IF v.claimant[c].shares THEN @ \cup {c} ELSE @]
        bound == bindGroup(aimed, c, <<hy.active, target.block>>)
    IN /\ hy.claimant[c].pc = "reserved"
       /\ IF Validates(hy, c) THEN hy' \in {Swept(h) : h \in locate(bound, c)}
          ELSE hy' = Swept(cleanup(v, c))

(* The lookup returns; what it found counts only when the reservation is   *)
(* still valid.                                                            *)
LocateReturns(c) ==
  LET g == Hydrated(hy, c)
      d == [g EXCEPT !.scan.calls = @ \ {c}]
      v == validated(d, c)
  IN /\ CallSettled(hy.claimant[c], hy)
     /\ hy' = Swept(cleanup(IF Validates(d, c) THEN handed(v, v.claimant[c].answer, v.claimant[c].selected.provider)
                            ELSE v, c))

(* The worker closes: only a pending acquisition is cancelled. *)
ClaimantCloses(c) ==
  LET w == hy.claimant[c]
      closing == [hy EXCEPT !.claimant[c].aborted = TRUE]
  IN /\ ~w.aborted
     /\ hy' = IF w.pc = "queued" THEN [closing EXCEPT !.queue = SelectSeq(@, LAMBDA x : x.who # c),
                                                      !.claimant[c].pc = "refused"]
              ELSE IF w.pc = "waiting" THEN cancelled(closing, {c})
              ELSE closing

-----------------------------------------------------------------------------
(* Readers: the classifier hydrates one block group at a time, the         *)
(* signatures of the group together.                                       *)
Reading(h) == {r \in Readers : h.reader[r].pc # "idle"}

readerDone(h, r) ==
  LET t == releaseTicket(h, r)
  IN [t EXCEPT !.scan.pins = @ \ {r}, !.scan.calls = @ \ {r}, !.reader[r] = Caller]

AcquireClassifier(r) ==
  \E target \in Lookups :
    LET asked == [hy EXCEPT !.reader[r] = [Caller EXCEPT !.pc = "waiting", !.target = target],
                            !.scan.pins = @ \cup {r}, !.classifierWaiters = Append(@, r)]
    IN /\ hy.scan.id # NoOne /\ hy.scan.accepting /\ ~IsAborted(hy, hy.scan.id)
       /\ hy.reader[r].pc = "idle"
       /\ \A other \in Reading(hy) : hy.reader[other].target.block = target.block
       /\ hy' = dispatchGroups(asked)

ClassifierGranted(r) ==
  LET called == [hy EXCEPT !.scan.calls = @ \cup {r}]
  IN /\ hy.reader[r].pc = "ticketed"
     /\ IF IsAborted(hy, hy.scan.id) \/ hy.active # hy.scan.context THEN hy' = Swept(readerDone(hy, r))
        ELSE hy' \in {Swept(h) : h \in locate(called, r)}

ClassifierRefused(r) == hy.reader[r].pc = "refused" /\ hy' = Swept(readerDone(hy, r))

ClassifierReturns(r) ==
  LET g == Hydrated(hy, r)
      kept == ~IsAborted(hy, hy.scan.id) /\ g.active = g.scan.context
  IN /\ CallSettled(hy.reader[r], hy)
     /\ hy' = Swept(readerDone(IF kept THEN handed(g, g.reader[r].answer, g.scan.context.provider) ELSE g, r))

-----------------------------------------------------------------------------
RequestScan(s) ==
  /\ hy.scanner[s].pc = "idle" /\ ~hy.closed
  /\ hy.scans + Cardinality({x \in Scans : hy.scanner[x].pc \in {"queued", "granted"}}) < MaxScans
  /\ \E provider \in RpcNames :
        hy' = acquirePermit([hy EXCEPT !.scanner[s] = [pc |-> "queued", provider |-> provider, aborted |-> FALSE]],
                            s, "SCAN")

BeginScan(s) ==
  LET n == noticeSelection(hy)
      provider == hy.scanner[s].provider
      context == [provider |-> provider, by |-> "scan", n |-> n.scans + 1]
      begun == [n EXCEPT !.scans = @ + 1, !.scanner[s].pc = "running",
                         !.scan = [NoScan EXCEPT !.id = s, !.context = context, !.accepting = TRUE,
                                     !.revision = IF n.selection.provider = provider THEN n.selection.revision ELSE 0]]
  IN /\ hy.scanner[s].pc = "granted"
     /\ hy' = Swept(IF IsAborted(hy, s) THEN releasePermit([hy EXCEPT !.scanner[s].pc = "idle"])
                    ELSE bind(begun, context))

(* The scan returns or throws once its own readers have. *)
ScanReturns(s) ==
  /\ hy.scanner[s].pc = "running" /\ Reading(hy) = {}
  /\ hy' = [hy EXCEPT !.scanner[s].pc = "settling", !.scan.accepting = FALSE]

(* The affinity is released when everything pinned to the scan has settled. *)
ScanSettles(s) ==
  LET over == [hy EXCEPT !.scan = NoScan, !.scanner[s].pc = "idle"]
      spoiled == IF hy.scanner[s].aborted /\ ~hy.closed THEN advanceEpoch([over EXCEPT !.active = NoContext])
                 ELSE over
  IN /\ hy.scanner[s].pc = "settling" /\ hy.scan.pins = {}
     /\ hy' = Swept(releasePermit(spoiled))

(* Those that wait for or hold a reservation under the signal of the scan. *)
Sharing(h) == {c \in Claimants : h.claimant[c].shares}

AbortScan(s) ==
  LET aborted == [hy EXCEPT !.scanner[s].aborted = TRUE]
      waiting == {c \in Sharing(hy) : hy.claimant[c].pc = "waiting"} \cup {r \in Readers : hy.reader[r].pc = "waiting"}
      reserved == {c \in Sharing(hy) : hy.claimant[c].pc = "reserved"}
  IN /\ hy.scanner[s].pc \in {"queued", "granted", "running", "settling"} /\ ~hy.scanner[s].aborted
     /\ hy' = IF hy.scanner[s].pc = "queued"
              THEN [aborted EXCEPT !.queue = SelectSeq(@, LAMBDA x : x.who # s), !.scanner[s].pc = "idle"]
              ELSE IF hy.scan.id = s THEN cleanedUp(cancelled(aborted, waiting), reserved)
              ELSE aborted

-----------------------------------------------------------------------------
(* The promoted provider changes; a heartbeat reads the metrics. *)
Promote ==
  /\ hy.selection.revision < MaxRevision
  /\ \E provider \in (RpcNames \cup {NoName}) \ {hy.selection.provider} :
        hy' = [hy EXCEPT !.selection = [provider |-> provider, revision |-> @.revision + 1]]

ReadMetrics == ~hy.closed /\ noticeSelection(hy) # hy /\ hy' = Swept(noticeSelection(hy))

(* close: the queue is rejected, every signal aborts, the admission and    *)
(* the cache close.                                                        *)
CloseHydration ==
  LET waiting == {c \in Claimants : hy.claimant[c].pc = "waiting"} \cup {r \in Readers : hy.reader[r].pc = "waiting"}
      reserved == {c \in Claimants : hy.claimant[c].pc = "reserved"}
      shut == [hy EXCEPT !.closed = TRUE, !.queue = <<>>,
                         !.claimant = [c \in Claimants |-> IF @[c].pc = "queued" THEN [@[c] EXCEPT !.pc = "refused"] ELSE @[c]],
                         !.scanner = [s \in Scans |-> IF @[s].pc = "queued" THEN [@[s] EXCEPT !.pc = "idle"] ELSE @[s]]]
  IN /\ ~hy.closed
     /\ hy' = Swept(ClearedCache(cleanedUp(cancelled(shut, waiting), reserved)))

HydrationNext ==
  \/ \E c \in Claimants :
        \/ AcquireAdmission(c) \/ RouteGranted(c) \/ TicketGranted(c) \/ AdmissionRefused(c) \/ ReleaseUnused(c)
        \/ LocateReserved(c) \/ LocateReturns(c)
  \/ \E r \in Readers : AcquireClassifier(r) \/ ClassifierGranted(r) \/ ClassifierRefused(r) \/ ClassifierReturns(r)
  \/ \E s \in Scans : RequestScan(s) \/ BeginScan(s) \/ ScanReturns(s) \/ ScanSettles(s)
  \/ PumpWakes \/ PumpContinues \/ FetchSettles \/ Promote \/ ReadMetrics

HydrationDisturbed ==
  \/ \E c \in Claimants : ClaimantCloses(c)
  \/ \E s \in Scans : AbortScan(s)
  \/ EntryExpires \/ CloseHydration

-----------------------------------------------------------------------------
(* A transaction that is handed to a caller was fetched from the provider  *)
(* that the caller was admitted for, whatever was promoted, scanned,       *)
(* cancelled or cached meanwhile: the shared cache never leaks a block of  *)
(* one provider into the route of another.                                 *)
AnswersAreAffine == ~hy.mixed

(* No wake-up is lost: whoever waits for the permit, for the admission,    *)
(* for a flight or for the end of a scan's pins, waits for a caller that   *)
(* is still under way.                                                     *)
NobodyIsForgotten ==
  LET busy == {who \in AllCallers : CallerOf(hy, who).pc \in {"ticketed", "reserved", "locating", "answered"}}
      owners == {c \in Claimants : hy.claimant[c].pc # "idle" /\ (hy.claimant[c].owns \/ hy.claimant[c].pc = "routed")}
      scanners == {s \in Scans : hy.scanner[s].pc \in {"granted", "running", "settling"}}
  IN /\ hy.queue # <<>> => hy.permit # "none"
     /\ hy.permit = "SCAN" <=> Cardinality(scanners) = 1
     /\ hy.permit = "WORKER" <=> Cardinality(owners) = 1
     /\ hy.workerWaiters \o hy.classifierWaiters # <<>> => hy.unbound # NoOne \/ hy.group # NoGroup
     /\ (hy.group.refs \cup {hy.unbound}) \ {NoOne} = busy
     /\ hy.admissions # <<>> => hy.pump # "idle"
     /\ \A who \in AllCallers :
           CallerOf(hy, who).pc = "locating" => hy.flights[CallerOf(hy, who).flight].state # "none"
     /\ hy.scan.pins = {c \in Sharing(hy) : hy.claimant[c].pc # "idle"} \cup Reading(hy)
=============================================================================
