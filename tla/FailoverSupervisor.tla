------------------------- MODULE FailoverSupervisor -------------------------
(***************************************************************************)
(* The WebSocket failover supervisor at work: its tasks, the health        *)
(* reporter that writes its transitions to listener_websocket_health, the  *)
(* sessions, and shutdown.  Between two awaits of a task any other task,   *)
(* session, timer or caller may run.                                       *)
(*                                                                         *)
(* chain is a history variable: missed says that some transaction is       *)
(* neither in the inbox nor behind the checkpoint of a strict scan, late   *)
(* that one was missed after the scan of the candidate began.  A scan that *)
(* succeeds covers everything before its start (module StrictCatchUp).     *)
(***************************************************************************)
EXTENDS FailoverDomain

VARIABLES m,         \* the supervisor
          health,    \* the row of listener_websocket_health
          reporter,  \* PersistentWebSocketHealthReporter
          closer,    \* close(): "no", "starting", "stopping", "closed"
          chain

vars == <<m, health, reporter, closer, chain>>

Init ==
  /\ m = NewSupervisor
  /\ health = [phase |-> "STOPPED", active |-> 0, candidate |-> 0, foreign |-> FALSE]
  /\ reporter = [degraded |-> FALSE, closed |-> FALSE, sending |-> FALSE, stop |-> "no",
                 ok |-> TRUE, resources |-> TRUE, fenced |-> {}, waits |-> {}]
  /\ closer = "no"
  /\ chain = [missed |-> TRUE, late |-> FALSE]

-----------------------------------------------------------------------------
(* Records that something still refers to. *)
Referenced(x, h, r) ==
  {x.candidate, x.incumbent, x.loop.rec, x.loop.prev, x.failure.rec, x.periodic.rec,
   x.periodicTimer, x.waiting, h.active, h.candidate} \cup r.fenced
  \cup UNION {{x.queue[i].active, x.queue[i].candidate} : i \in DOMAIN x.queue}

(* What no step of a closed supervisor reads. *)
ForgetClosed(x) ==
  IF ~x.closed THEN x
  ELSE [x EXCEPT !.lastPromoted = NoProvider, !.localRetry = NoProvider, !.waiting = 0,
                 !.observed = FALSE, !.requested = FALSE, !.prepared = FALSE,
                 !.loop.provider = NoProvider, !.loop.attempted = {}, !.loop.windows = {},
                 !.loop.pinned = FALSE, !.loop.pinnedCycle = FALSE]

(* A dead session that nothing refers to leaves its number for another. *)
Forget(x, h, r) ==
  LET y == ForgetClosed(x)
  IN [y EXCEPT !.threw = {},
        !.sessions = [s \in Records |->
          IF /\ s \notin Referenced(y, h, r)
             /\ @[s].status # "open" /\ @[s].closing # "closing"
          THEN Unused ELSE @[s]]]

(* The system moves to memory x, row h and reporter r.  When the mutex is  *)
(* granted, #transition and reporter.transition check for closure once.    *)
Moves(x, h, r, granted) ==
  /\ m' = Forget(x, h, r)
  /\ health' = h
  /\ reporter' =
       [r EXCEPT !.sending = /\ x.queue # <<>>
                             /\ IF granted THEN ~m.closed /\ ~reporter.closed ELSE @,
                 !.degraded = @ /\ ~x.closed,
                 !.waits = {t \in @ : x[t].pc # "idle"},
                 !.ok = @ /\ r.waits \cap x.threw = {}]

Runs(x) == Moves(x, health, reporter, m.queue = <<>>) /\ UNCHANGED closer

(* reporter.stop, at most once. *)
StopReporter(r, resources, fenced) ==
  IF r.closed THEN r
  ELSE [r EXCEPT !.closed = TRUE, !.stop = "drain", !.resources = resources, !.fenced = fenced]

ReporterStopped == reporter.stop \in {"stopped", "failed"}

-----------------------------------------------------------------------------
(***************************************************************************)
(* start: beginOwner, startTouch, WAITING_FOR_ACKS, the first recovery.    *)
(***************************************************************************)
Start ==
  /\ m.start = "new" /\ ~m.closed
  /\ Runs([m EXCEPT !.start = "owner"])
  /\ UNCHANGED chain

FailStart(x) == [x EXCEPT !.start = "failed", !.state = IF x.closed THEN @ ELSE "DEGRADED"]

OwnerBegun ==
  /\ m.start = "owner"
  /\ LET s == UnusedRecord(m)
         x == [m EXCEPT !.start = "waiting",
                        !.sessions[s] = [Unused EXCEPT !.provider = ProviderIds[1],
                                                       !.status = "reserved"]]
         h == [phase |-> "CONNECTING", active |-> 0, candidate |-> s, foreign |-> FALSE]
     IN IF m.closed
        THEN Moves([x EXCEPT !.start = "stop"], h, StopReporter(reporter, TRUE, {}), TRUE)
        ELSE Moves(x, h, reporter, TRUE)
  /\ UNCHANGED <<closer, chain>>

OwnerRefused ==
  /\ m.start = "owner"
  /\ Runs([FailStart(m) EXCEPT !.start = "refused"])
  /\ UNCHANGED chain

InitialTransition ==
  /\ m.start = "waiting"
  /\ LET x == [m EXCEPT !.waiting = health.candidate]
         h == [health EXCEPT !.phase = "WAITING_FOR_ACKS"]
     IN IF m.closed
        THEN Moves([x EXCEPT !.start = "stop"], h, StopReporter(reporter, TRUE, {}), TRUE)
        ELSE Moves(ScheduleRecovery([x EXCEPT !.start = "done", !.state = "STARTING"]),
                   h, reporter, TRUE)
  /\ UNCHANGED <<closer, chain>>

InitialTransitionFails ==
  /\ m.start = "waiting"
  /\ Moves([m EXCEPT !.start = "stop", !.waiting = 0], health,
           StopReporter([reporter EXCEPT !.degraded = TRUE], TRUE, {}), TRUE)
  /\ UNCHANGED <<closer, chain>>

StartAbandoned ==
  /\ m.start = "stop" /\ ReporterStopped
  /\ Runs(FailStart(m))
  /\ UNCHANGED chain

-----------------------------------------------------------------------------
(***************************************************************************)
(* WebSocketHealthRepository.transition as the only owner sees it: the     *)
(* owner and the revision match unless a commit was not acknowledged or    *)
(* another process took over, the active session is the stored active or   *)
(* candidate one, and the candidate is the stored one or a fresh one.      *)
(***************************************************************************)
Accepted(q) ==
  /\ ~health.foreign
  /\ q.active \in {0, health.active, health.candidate}
  /\ q.candidate \in {0, health.candidate} \/ q.fresh

(* A row at a revision the process does not know: it never matches again. *)
ForeignRow == [phase |-> "FOREIGN", active |-> 0, candidate |-> 0, foreign |-> TRUE]

Written(q) == [health EXCEPT !.phase = q.phase, !.active = q.active, !.candidate = q.candidate]

(***************************************************************************)
(* What the task that asked for a transition does with the outcome.        *)
(***************************************************************************)
Abandon(x, t, pc) ==
  BeginClose([ClearPromotedRecord(x, x[t].rec) EXCEPT ![t].pc = pc], x[t].rec)

DegradationWritten(x, t) ==
  LET s == x[t].rec
      y == IF x.closed \/ x.incumbent # s THEN x
           ELSE RequestRecovery(ClearPromotedRecord(x, s))
  IN IF t = "loop" THEN AfterAttempt(y, "promoted")
     ELSE IF t = "failure" THEN [y EXCEPT !.failure = Idle]
     ELSE PeriodicEnds(y)

CandidateWritten(x, ok, next) ==
  IF ok /\ StillCandidate(x) THEN next ELSE CleanupCandidate(x, "transient")

LoopResumes(x, ok) ==
  LET pc == x.loop.pc
      observed == [x EXCEPT !.observed = FALSE]
      recovered == RequestRecovery(ClearPromotedRecord(x, x.loop.rec))
      degraded == [x EXCEPT !.state = "DEGRADED"]
  IN CASE pc = "connect" -> IF ~ok \/ x.closed THEN AfterAttempt(x, "transient")
                            ELSE SubmitCandidate(x, "wait", "WAITING_FOR_ACKS")
       [] pc = "wait" -> IF ~ok \/ x.closed THEN AfterAttempt(x, "transient")
                         ELSE [x EXCEPT !.loop.pc = "preflight"]
       [] pc = "ack" -> CandidateWritten(x, ok, SubmitCandidate(x, "recover", "RECOVERING"))
       [] pc = "recover" -> CandidateWritten(x, ok, [x EXCEPT !.loop.pc = "scan"])
       [] pc = "run" -> IF ~ok THEN CleanupCandidate(degraded, "transient")
                        ELSE CandidateWritten(observed, ok, Promote(observed))
       [] pc = "queued" -> IF ok THEN ClosePrevious(recovered) ELSE Abandon(x, "loop", "abandon")
       [] pc = "degrade" -> IF ok THEN DegradationWritten(x, "loop")
                            ELSE Abandon([x EXCEPT !.loop.prev = 0], "loop", "abandon")
       [] pc = "cycle" -> IF ok THEN FinishRecovery(ScheduleRecovery(degraded), FALSE)
                          ELSE FinishRecovery(x, TRUE)
       [] pc = "terminal" -> IF ok THEN FinishRecovery(degraded, FALSE)
                             ELSE FinishRecovery([x EXCEPT !.unrecoverable = FALSE], TRUE)

PeriodicResumes(x, ok) ==
  LET pc == x.periodic.pc
      s == x.periodic.rec
      degraded == RetryUnlessScheduled([x EXCEPT !.state = "DEGRADED"])
      detached == [x EXCEPT !.incumbent = IF @ = s THEN 0 ELSE @]
  IN CASE pc = "degrade" -> IF ok THEN DegradationWritten(x, "periodic")
                            ELSE Abandon(x, "periodic", "abandon")
       [] pc = "pause" -> IF ok THEN PeriodicEnds(degraded)
                          ELSE Abandon(detached, "periodic", "pauseClose")
       [] pc = "reset" -> IF ok THEN PeriodicEnds(degraded)
                          ELSE PeriodicThrows(RetryUnlessScheduled(x))

Resumes(x, t, ok) ==
  IF t = "loop" THEN LoopResumes(x, ok)
  ELSE IF t = "periodic" THEN PeriodicResumes(x, ok)
  ELSE IF ok THEN DegradationWritten(x, t)
  ELSE Abandon(x, t, "abandon")

(* The mutex passes to the next waiter before the task resumes. *)
Released == [m EXCEPT !.queue = Tail(@)]

TransitionCommits ==
  /\ reporter.sending /\ Accepted(Head(m.queue))
  /\ LET q == Head(m.queue)
         rest == Tail(m.queue)
         x == [Released EXCEPT
                 !.queue = [i \in DOMAIN rest |-> [rest[i] EXCEPT !.fresh = FALSE]],
                 !.waiting = IF q.phase = "WAITING_FOR_ACKS" THEN q.candidate ELSE 0]
     IN Moves(Resumes(x, q.by, TRUE), Written(q),
              [reporter EXCEPT !.degraded = IF reporter.closed THEN @ ELSE FALSE], TRUE)
  /\ UNCHANGED <<closer, chain>>

TransitionRejected(h) ==
  /\ Moves(Resumes(Released, Head(m.queue).by, FALSE), h,
           [reporter EXCEPT !.degraded = @ \/ reporter.sending], TRUE)
  /\ UNCHANGED <<closer, chain>>

(* Closure stopped it before it was sent. *)
TransitionFenced ==
  /\ m.queue # <<>> /\ ~reporter.sending
  /\ TransitionRejected(health)

(* The update matches no row. *)
TransitionRefused ==
  /\ reporter.sending /\ ~Accepted(Head(m.queue))
  /\ TransitionRejected(health)

(* The database fails, before or after the commit. *)
TransitionBreaks ==
  /\ reporter.sending
  /\ \/ TransitionRejected(health)
     \/ /\ Accepted(Head(m.queue))
        /\ TransitionRejected(ForeignRow)

-----------------------------------------------------------------------------
(***************************************************************************)
(* The recovery cycle.  Failures of the network, of the RPC providers and  *)
(* of the scan are chosen freely: "local" is a local budget refusal,       *)
(* "paused" and "window" are the strict scanner's typed errors ("window"   *)
(* for the frontier the other providers of the cycle reported), and        *)
(* everything else is "transient".                                         *)
(***************************************************************************)
RecoveryTimer ==
  /\ m.loopTimer
  /\ Runs(IF m.closed \/ m.unrecoverable \/ m.loop.pc # "idle"
          THEN [m EXCEPT !.loopTimer = FALSE] ELSE StartCycle(m))
  /\ UNCHANGED chain

ReadRecoveryPin(pin) ==
  /\ m.loop.pc = "pin"
  /\ Runs(BeginAttempt(m, pin))
  /\ UNCHANGED chain

RecoveryPinFails ==
  /\ m.loop.pc = "pin"
  /\ Runs(EndCycle(m))
  /\ UNCHANGED chain

Preflight ==
  /\ m.loop.pc = "preflight"
  /\ Runs(IF m.closed THEN AfterAttempt(m, "aborted")
          ELSE [m EXCEPT !.prepared = TRUE, !.loop.pc = "open"])
  /\ UNCHANGED chain

PreflightFails(kind) ==
  /\ m.loop.pc = "preflight"
  /\ m.prepared => kind \in {"transient", "local"}
  /\ Runs(AfterAttempt(m, kind))
  /\ UNCHANGED chain

OpenSession ==
  /\ m.loop.pc = "open"
  /\ Runs(SessionOpened(m))
  /\ UNCHANGED chain

OpenFails ==
  /\ m.loop.pc = "open"
  /\ Runs(AfterAttempt(m, "transient"))
  /\ UNCHANGED chain

StrictScan ==
  /\ m.loop.pc = "scan"
  /\ Runs(Scanned(m))
  /\ chain' = [missed |-> chain.late, late |-> FALSE]

ScanFails(kind) ==
  /\ m.loop.pc = "scan"
  /\ Runs(ScanFailed(m, kind))
  /\ chain' = [chain EXCEPT !.late = FALSE]

CleanupSettles ==
  /\ m.loop.pc = "cleanup" /\ CloseSettled(m, m.loop.rec)
  /\ Runs(CandidateCleaned(m))
  /\ UNCHANGED chain

PreviousSettles ==
  /\ m.loop.pc = "closePrev" /\ CloseSettled(m, m.loop.prev)
  /\ Runs(PreviousClosed(m))
  /\ UNCHANGED chain

FailureSettles ==
  /\ m.loop.pc = "settleFailure" /\ ~ActiveFailure(m)
  /\ Runs(IF m.closed THEN FinishRecovery(m, FALSE) ELSE RetireIncumbent(m))
  /\ UNCHANGED chain

IncumbentRetired ==
  /\ m.loop.pc = "retire" /\ CloseSettled(m, m.loop.rec)
  /\ LET x == [m EXCEPT !.resourceFailed = @ \/ CloseFailed(m, m.loop.rec), !.loop.rec = 0]
     IN Runs(IF m.closed THEN FinishRecovery(x, FALSE)
             ELSE Submit(x, "loop", "terminal", "UNRECOVERABLE", ActiveTransitionFields(x), 0))
  /\ UNCHANGED chain

-----------------------------------------------------------------------------
(***************************************************************************)
(* A degradation that could not be written: close the session, stop the    *)
(* reporter, rethrow.                                                      *)
(***************************************************************************)
Rethrow(x, t) ==
  IF t = "failure" THEN [x EXCEPT !.failure = Idle, !.threw = {t}]
  ELSE IF t = "periodic" THEN PeriodicThrows(x)
  ELSE ClosePrevious([x EXCEPT !.loop.kind = "threw"])

AbandonedCloses(t) ==
  /\ m[t].pc = "abandon" /\ CloseSettled(m, m[t].rec)
  /\ IF m.closed THEN Runs(Rethrow(m, t))
     ELSE /\ Moves([m EXCEPT ![t].pc = "stop"], health, StopReporter(reporter, TRUE, {}),
                   m.queue = <<>>)
          /\ UNCHANGED closer
  /\ UNCHANGED chain

ReporterGone(t) ==
  /\ m[t].pc = "stop" /\ ReporterStopped
  /\ Runs(Rethrow(m, t))
  /\ UNCHANGED chain

-----------------------------------------------------------------------------
(***************************************************************************)
(* The periodic frontier scan of the incumbent.                            *)
(***************************************************************************)
CanScanPeriodic(s) ==
  /\ ~m.closed /\ ~m.aborted
  /\ m.incumbent = s /\ m.selected = ProviderOf(m, s) /\ m.state = "RUNNING"

(* The timer takes 30 s and the close of the previous incumbent at most 5. *)
PeriodicTimer ==
  /\ m.periodicTimer # 0 /\ m.loop.pc # "closePrev"
  /\ LET s == m.periodicTimer
         x == [m EXCEPT !.periodicTimer = 0]
     IN Runs(IF /\ ~m.closed /\ m.periodic.pc = "idle" /\ m.incumbent = s
                /\ m.selected = ProviderOf(m, s) /\ m.state = "RUNNING"
             THEN [x EXCEPT !.periodic = [pc |-> "pin", rec |-> s], !.aborted = FALSE]
             ELSE x)
  /\ UNCHANGED chain

PausePeriodicRecovery(x) ==
  LET y == CancelPeriodicFrontier([x EXCEPT !.state = "DEGRADED"])
  IN Submit(y, "periodic", "pause", "DEGRADED", ActiveTransitionFields(y), 0)

ResetPeriodicRecovery(x) ==
  LET s == x.periodic.rec
      y == ClearPromotedRecord(CancelPeriodicFrontier(x), s)
  IN BeginClose([y EXCEPT !.incumbent = IF @ = s THEN 0 ELSE @, !.periodic.pc = "resetClose"], s)

PeriodicFails(recovery) ==
  LET s == m.periodic.rec
  IN IF m.closed \/ m.aborted \/ m.incumbent # s \/ m.state # "RUNNING" THEN PeriodicEnds(m)
     ELSE IF ActiveFailure(m) THEN [m EXCEPT !.periodic.pc = "await"]
     ELSE IF recovery = "pause" THEN PausePeriodicRecovery(m)
     ELSE IF recovery = "reset" THEN ResetPeriodicRecovery(m)
     ELSE DegradeActiveIncumbent(m, "periodic", s)

ReadPeriodicPin ==
  /\ m.periodic.pc = "pin"
  /\ Runs(IF CanScanPeriodic(m.periodic.rec) THEN [m EXCEPT !.periodic.pc = "scan"]
          ELSE PeriodicEnds(m))
  /\ UNCHANGED chain

(* The pin names the other provider or cannot be read. *)
PeriodicPinFails ==
  /\ m.periodic.pc = "pin"
  /\ Runs(PeriodicFails("reset"))
  /\ UNCHANGED chain

(* The scan succeeds, or a local budget refuses it. *)
PeriodicScan ==
  /\ m.periodic.pc \in {"pin", "scan"}
  /\ Runs(PeriodicEnds(m))
  /\ UNCHANGED chain

(* A direct page-budget pause keeps the incumbent, one after the inline    *)
(* refresh resets it; anything else degrades it.                           *)
PeriodicScanFails ==
  /\ m.periodic.pc = "scan"
  /\ \E recovery \in {"pause", "reset", "degrade"} : Runs(PeriodicFails(recovery))
  /\ UNCHANGED chain

PeriodicAwaits ==
  /\ m.periodic.pc = "await" /\ m.failure.pc = "idle"
  /\ Runs(PeriodicEnds(m))
  /\ UNCHANGED chain

ResetCloses ==
  /\ m.periodic.pc = "resetClose" /\ CloseSettled(m, m.periodic.rec)
  /\ LET failed == CloseFailed(m, m.periodic.rec)
     IN Runs(IF m.closed THEN PeriodicEnds([m EXCEPT !.resourceFailed = @ \/ failed])
             ELSE Submit(m, "periodic", "reset", "DEGRADED", ActiveTransitionFields(m), 0))
  /\ UNCHANGED chain

PauseCloses ==
  /\ m.periodic.pc = "pauseClose" /\ CloseSettled(m, m.periodic.rec)
  /\ LET x == [m EXCEPT !.resourceFailed = @ \/ CloseFailed(m, m.periodic.rec)]
     IN IF m.closed THEN Runs(PeriodicThrows(x))
        ELSE /\ Moves([x EXCEPT !.periodic.pc = "pauseStop"], health,
                      StopReporter(reporter, FALSE, {}), m.queue = <<>>)
             /\ UNCHANGED closer
  /\ UNCHANGED chain

PauseAbandoned ==
  /\ m.periodic.pc = "pauseStop" /\ ReporterStopped
  /\ Runs(PeriodicThrows(RetryUnlessScheduled(m)))
  /\ UNCHANGED chain

-----------------------------------------------------------------------------
(***************************************************************************)
(* Sessions and observations.                                              *)
(***************************************************************************)
(* Faulty variant: notifications of the candidate are dropped. *)
IncumbentAccepting(s) ==
  /\ s = m.incumbent /\ ~m.closed /\ ~m.unrecoverable
  /\ m.sessions[s].status = "open" /\ m.sessions[s].closing = "no"

Accepting(s) ==
  /\ s \in {m.candidate, m.incumbent} /\ ~m.closed /\ ~m.unrecoverable
  /\ m.sessions[s].status = "open" /\ m.sessions[s].closing = "no"

(* The socket closes or fails, or the peer breaks the protocol. *)
SessionEnds(s) ==
  /\ m.sessions[s].status = "open"
  /\ Runs(CompleteSession(m, s))
  /\ UNCHANGED chain

(* session.close settles; the session has completed by then. *)
SessionCloses(s, outcome) ==
  /\ m.sessions[s].closing = "closing"
  /\ LET x == [m EXCEPT !.sessions[s].closing = outcome]
     IN Runs(IF m.sessions[s].status = "open" THEN CompleteSession(x, s) ELSE x)
  /\ UNCHANGED chain

Missed(accepted) ==
  chain' = [missed |-> chain.missed \/ ~accepted,
            late |-> chain.late \/ (~accepted /\ m.loop.pc = "scan")]

(* inbox.enqueue or recordObservation fails: the session fails with it. *)
ObservationFails(s) ==
  /\ s # 0 /\ Accepting(s)
  /\ Moves(CompleteSession(m, s), health, [reporter EXCEPT !.degraded = TRUE], m.queue = <<>>)
  /\ Missed(\E r \in Records \ {s} : Accepting(r))
  /\ UNCHANGED closer

(* The chain is busy: while nobody listens something is missed at once. *)
Unheard ==
  /\ ~m.closed /\ \A s \in Records : ~Accepting(s)
  /\ ~chain.missed \/ (m.loop.pc = "scan" /\ ~chain.late)

TransactionMissed ==
  /\ Unheard
  /\ Missed(FALSE)
  /\ UNCHANGED <<m, health, reporter, closer>>

TouchFails ==
  /\ m.start = "done" /\ ~reporter.closed
  /\ reporter' = [reporter EXCEPT !.degraded = TRUE]
  /\ UNCHANGED <<m, health, closer, chain>>

(* beginOwner of another process, once the heartbeat is stale. *)
OwnerLost ==
  /\ m.start = "done" /\ ~health.foreign
  /\ health' = ForeignRow
  /\ UNCHANGED <<m, reporter, closer, chain>>

(* state() and activeProviderId() call #reconcileReporterFailure. *)
ReadState ==
  /\ ~m.closed /\ m.state # "STOPPED"
  /\ LET y == [CancelPeriodicFrontier(m) EXCEPT !.selected = NoProvider, !.state = "DEGRADED",
                                                !.observed = TRUE]
     IN Runs(IF ~reporter.degraded THEN [m EXCEPT !.observed = FALSE]
             ELSE IF m.observed THEN y ELSE RequestRecovery(y))
  /\ UNCHANGED chain

-----------------------------------------------------------------------------
(***************************************************************************)
(* close, and reporter.stop with the shutdown of the supervisor's          *)
(* resources as its cleanup.                                               *)
(***************************************************************************)
Close ==
  /\ closer = "no"
  /\ closer' = "starting"
  /\ Moves([m EXCEPT !.closed = TRUE, !.state = "STOPPING", !.loopTimer = FALSE,
                     !.periodicTimer = 0, !.aborted = m.periodic.pc # "idle",
                     !.selected = NoProvider],
           health,
           [reporter EXCEPT !.fenced = IF reporter.closed THEN @
                                       ELSE {m.candidate, m.incumbent} \ {0}],
           FALSE)
  /\ UNCHANGED chain

StartSettled == m.start \in {"new", "refused", "failed", "done"}

CloseStopsReporter ==
  /\ closer = "starting" /\ StartSettled
  /\ closer' = "stopping"
  /\ Moves(m, health,
           IF m.start \in {"new", "refused"} THEN [reporter EXCEPT !.stop = "stopped"]
           ELSE StopReporter(reporter, TRUE, reporter.fenced), FALSE)
  /\ UNCHANGED chain

CloseSettles ==
  /\ closer = "stopping" /\ ReporterStopped
  /\ closer' = "closed"
  /\ LET stopped == [m EXCEPT !.state = "STOPPED", !.candidate = 0, !.incumbent = 0]
     IN Moves(IF reporter.stop = "stopped" /\ ~m.resourceFailed THEN stopped
              ELSE [m EXCEPT !.state = "DEGRADED"], health, reporter, FALSE)
  /\ UNCHANGED chain

(* Reporter r goes on with memory x and row h. *)
Stops(x, h, r) == Moves(x, h, r, m.queue = <<>>) /\ UNCHANGED <<closer, chain>>

(* Wait for the transition in flight, at most shutdownTimeoutMs. *)
StopDrained ==
  /\ reporter.stop = "drain" /\ ~reporter.sending
  /\ Stops(m, health, [reporter EXCEPT !.stop = "stopping"])

DrainTimesOut ==
  /\ reporter.stop = "drain" /\ reporter.sending
  /\ Stops(m, health, [reporter EXCEPT !.stop = "settle", !.ok = FALSE])

StopTransition ==
  /\ reporter.stop = "stopping"
  /\ \/ /\ ~health.foreign
        /\ Stops(m, [health EXCEPT !.phase = "STOPPING"], [reporter EXCEPT !.stop = "settle"])
     \/ Stops(m, health, [reporter EXCEPT !.stop = "settle", !.ok = FALSE])

BeginCloseAll(x, records) ==
  [x EXCEPT !.sessions = [s \in Records |->
     IF s \in records /\ @[s].closing = "no" THEN [@[s] EXCEPT !.closing = "closing"] ELSE @[s]]]

HeldRecords == {m.candidate, m.incumbent} \ {0}

(* #settleShutdownResources. *)
SettleBegins ==
  /\ reporter.stop = "settle"
  /\ LET records == reporter.fenced \cup HeldRecords
     IN IF reporter.resources
        THEN Stops(BeginCloseAll(m, records), health,
                   [reporter EXCEPT !.stop = "settling", !.fenced = records,
                                    !.waits = {t \in Tasks : m[t].pc # "idle"}])
        ELSE Stops(m, health, [reporter EXCEPT !.stop = "finish"])

AllClosed(records) == \A s \in records : CloseSettled(m, s)
NoneFailed(records) == \A s \in records : ~CloseFailed(m, s)

SettleEnds ==
  /\ reporter.stop = "settling" /\ reporter.waits = {} /\ AllClosed(reporter.fenced)
  /\ LET late == HeldRecords \ reporter.fenced
     IN Stops(BeginCloseAll(m, late), health,
              [reporter EXCEPT !.stop = "late", !.fenced = late,
                               !.ok = @ /\ NoneFailed(reporter.fenced)])

LateEnds ==
  /\ reporter.stop = "late" /\ AllClosed(reporter.fenced)
  /\ Stops(m, health, [reporter EXCEPT !.stop = "finish", !.fenced = {},
                                       !.ok = @ /\ NoneFailed(reporter.fenced)])

(* Faulty variant: the first round of closes is awaited without a bound. *)
LateTimesOut ==
  /\ reporter.stop = "late"
  /\ Stops(m, health, [reporter EXCEPT !.stop = "finish", !.ok = FALSE,
                                       !.fenced = {}, !.waits = {}])

SettleTimesOut ==
  /\ reporter.stop \in {"settling", "late"}
  /\ Stops(m, health, [reporter EXCEPT !.stop = "finish", !.ok = FALSE,
                                       !.fenced = {}, !.waits = {}])

(* STOPPED after a clean shutdown; otherwise the failure is written when   *)
(* STOPPING was, and stop rejects.                                         *)
StopFinishes ==
  /\ reporter.stop = "finish"
  /\ \/ /\ reporter.ok /\ ~health.foreign
        /\ Stops(m, [health EXCEPT !.phase = "STOPPED", !.active = 0, !.candidate = 0],
                 [reporter EXCEPT !.stop = "stopped", !.degraded = FALSE])
     \/ \E h \in {health} \cup (IF health.phase = "STOPPING" /\ ~health.foreign
                                THEN {[health EXCEPT !.phase = "DEGRADED"]} ELSE {}) :
          Stops(m, h, [reporter EXCEPT !.stop = "failed", !.degraded = TRUE])

-----------------------------------------------------------------------------
(***************************************************************************)
(* A promise that has settled resumes its waiters before the next timer,   *)
(* socket or database event: JavaScript drains its microtasks first.       *)
(***************************************************************************)
Microtasks ==
  \/ CleanupSettles \/ PreviousSettles \/ FailureSettles \/ IncumbentRetired
  \/ \E t \in Tasks : AbandonedCloses(t) \/ ReporterGone(t)
  \/ PeriodicAwaits \/ ResetCloses \/ PauseCloses \/ PauseAbandoned
  \/ TransitionFenced \/ StartAbandoned
  \/ StopDrained \/ SettleBegins \/ SettleEnds \/ LateEnds
  \/ CloseStopsReporter \/ CloseSettles \/ TransactionMissed

(* The calls and timeouts that start and stop wait for. *)
Settling ==
  \/ OwnerBegun \/ InitialTransition
  \/ DrainTimesOut \/ StopTransition \/ SettleTimesOut \/ StopFinishes

(* What the timers, the providers and the database answer when all is      *)
(* well, and the window failure that follows that of another provider.     *)
Working ==
  \/ m.loop.windows # {} /\ ScanFails("window")
  \/ RecoveryTimer \/ ReadRecoveryPin(NoProvider) \/ Preflight \/ OpenSession \/ StrictScan
  \/ PeriodicTimer \/ ReadPeriodicPin \/ PeriodicScan
  \/ TransitionCommits \/ TransitionRefused
  \/ \E s \in Records : SessionCloses(s, "closed")

Calls == Start \/ ReadState

(* What may go wrong, a scan that is pinned to its provider, and a close. *)
Disturbances ==
  \/ Close
  \/ OwnerRefused \/ InitialTransitionFails \/ TransitionBreaks
  \/ RecoveryPinFails \/ OpenFails \/ PeriodicPinFails \/ PeriodicScanFails
  \/ \E kind \in {"transient", "local", "paused", "window"} : PreflightFails(kind) \/ ScanFails(kind)
  \/ \E s \in Records : SessionEnds(s) \/ SessionCloses(s, "failed") \/ ObservationFails(s)
  \/ \E pin \in Providers : ReadRecoveryPin(pin)
  \/ TouchFails \/ OwnerLost

(* No microtask is enabled. *)
Calm ==
  /\ ~Unheard
  /\ m.loop.pc \in {"cleanup", "retire"} => ~CloseSettled(m, m.loop.rec)
  /\ m.loop.pc = "closePrev" => ~CloseSettled(m, m.loop.prev)
  /\ m.loop.pc = "settleFailure" => ActiveFailure(m)
  /\ m.periodic.pc \in {"resetClose", "pauseClose"} => ~CloseSettled(m, m.periodic.rec)
  /\ m.periodic.pc = "await" => m.failure.pc # "idle"
  /\ \A t \in Tasks : m[t].pc = "abandon" => ~CloseSettled(m, m[t].rec)
  /\ ReporterStopped => /\ m.start # "stop" /\ closer # "stopping"
                        /\ \A t \in Tasks : m[t].pc \notin {"stop", "pauseStop"}
  /\ m.queue # <<>> => reporter.sending
  /\ reporter.stop = "drain" => reporter.sending
  /\ reporter.stop # "settle"
  /\ reporter.stop = "settling" => reporter.waits # {} \/ ~AllClosed(reporter.fenced)
  /\ reporter.stop = "late" => ~AllClosed(reporter.fenced)
  /\ closer = "starting" => ~StartSettled

Next == Microtasks \/ (Calm /\ (Settling \/ Working \/ Calls \/ Disturbances))

(* The event loop drains its microtasks; and while close waits, the        *)
(* database calls that start and reporter.stop await settle, and the       *)
(* timeouts of reporter.stop fire.                                         *)
Fairness ==
  /\ []<>Calm
  /\ WF_vars(closer \in {"starting", "stopping"} /\ Settling)

Spec == Init /\ [][Next]_vars /\ Fairness

-----------------------------------------------------------------------------
(* What the failover supervisor promises.                                  *)

(* The session is up and nobody has begun to close it. *)
Live(s) == s # 0 /\ m.sessions[s].status = "open" /\ m.sessions[s].closing = "no"

(* While the supervisor reports RUNNING over a live session, no            *)
(* transaction is missing: between the scan that #attemptProvider runs     *)
(* before it promotes a candidate and any later instant, some session was  *)
(* accepting notifications, whatever failed, completed or was replaced.    *)
RunningMissesNothing ==
  m.state = "RUNNING" /\ Live(m.incumbent) => ~chain.missed

(* Started, not closed, not given up, and still able to write its health. *)
Serving == m.start = "done" /\ ~m.closed /\ ~m.unrecoverable /\ ~reporter.closed

(* A supervisor that hears nothing is doing something about it: if no      *)
(* session accepts notifications then a recovery is scheduled or one of    *)
(* its tasks is at work.  #scheduleRecovery, #requestRecovery,             *)
(* #finishRecovery and the finally blocks of the periodic recovery leave   *)
(* the retry to each other, and no order of their steps drops it.          *)
DeafnessIsRepaired ==
  Serving =>
    \/ \E s \in Records : Accepting(s)
    \/ m.loopTimer \/ \E t \in Tasks : m[t].pc # "idle"

(* No session leaks.  A live session is the candidate, the incumbent or    *)
(* the previous incumbent that #attemptProvider is about to close, so      *)
(* whoever replaces, abandons or shuts down reaches it; and when close     *)
(* reports STOPPED after the supervisor's own cleanup ran, every session   *)
(* has ended and every task is idle.                                       *)
SessionsAreOwned ==
  /\ closer # "closed" =>
       \A s \in Records : Live(s) => s \in {m.candidate, m.incumbent, m.loop.prev}
  /\ closer = "closed" /\ m.state = "STOPPED" /\ reporter.resources =>
       /\ \A s \in Records : m.sessions[s].status # "open"
       /\ \A t \in Tasks : m[t].pc = "idle"

(* close() always settles, whatever start, the recovery cycle, the         *)
(* periodic scan and an earlier stop of the reporter are waiting for: they *)
(* never wait for each other in a circle, and a session or transition that *)
(* never answers is given up at the shutdown timeout.                      *)
CloseTerminates == closer = "starting" ~> closer = "closed"

=============================================================================
