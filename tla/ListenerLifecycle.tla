-------------------------- MODULE ListenerLifecycle --------------------------
(***************************************************************************)
(* The life of the listener process: the application starts the runtime,   *)
(* opens its API, waits for a signal and closes everything; the runtime    *)
(* starts its components in one order and closes them in another, under a  *)
(* deadline; the recurring finality reconciler and the persisted heartbeat *)
(* work on timers in between.                                              *)
(*                                                                         *)
(* Supervisor, inbox workers and paper worker are known here by their life *)
(* only.  A component that is late keeps closing in the background.        *)
(***************************************************************************)
EXTENDS Naturals, Sequences, FiniteSets

CONSTANTS
  Endpoints,     \* providers that may be promoted
  NoEndpoint,
  MaxRevision,   \* bound on promotions
  Cadence,       \* failures per summary: 12 in the code
  Saturation     \* where counters stop: the largest safe integer in the code

VARIABLES
  app,       \* runApplication
  runtime,   \* SolanaListenerRuntime
  closes,    \* closingResources and their results
  part,      \* supervisor, inbox workers and paper worker
  rec,       \* RecurringFinalityReconciler
  incident,  \* its diagnostic tracker
  hb,        \* PersistentListenerHeartbeat
  beat,      \* the heartbeat row: the runtime state it tells
  selected,  \* the promoted provider
  proven     \* revisions of the selection under which a whole pass succeeded

lifecycleVars == <<app, runtime, closes, part, rec, incident, hb, beat, selected, proven>>

StartOrder == <<"supervisor", "worker", "reconciler", "paperWorker", "heartbeat">>
CleanupOrder == <<"supervisor", "paperWorker", "reconciler", "worker", "heartbeat">>
Resources == {StartOrder[i] : i \in DOMAIN StartOrder}
Parts == {"supervisor", "worker", "paperWorker"}
Done == Len(CleanupOrder) + 1

Selection == [provider: Endpoints \cup {NoEndpoint}, revision: 0..MaxRevision]
NoSelection == [provider |-> NoEndpoint, revision |-> 0]
NoIncident == [failures |-> 0, suppressed |-> 0, cadence |-> 0]

LifecycleInit ==
  /\ app = [phase |-> "down", failed |-> FALSE]
  /\ runtime = [state |-> "STOPPED", started |-> FALSE, closed |-> FALSE, active |-> {},
                starting |-> 0, awaited |-> "ok", undo |-> 0, shut |-> 0,
                late |-> {}, failed |-> {}, closing |-> "none"]
  /\ closes = [r \in Resources |-> "none"]
  /\ part = [p \in Parts |-> "idle"]
  /\ rec = [state |-> "STOPPED", closed |-> FALSE, timer |-> FALSE, pass |-> "none", initial |-> FALSE,
            under |-> NoSelection, whole |-> TRUE, ready |-> NoSelection]
  /\ incident = NoIncident
  /\ hb = [state |-> "STOPPED", closed |-> FALSE, timer |-> FALSE, run |-> "none", initial |-> FALSE,
           broken |-> FALSE, rejected |-> FALSE, stop |-> "none", behind |-> FALSE]
  /\ beat = "none"
  /\ selected = NoSelection
  /\ proven = {}

-----------------------------------------------------------------------------
(***************************************************************************)
(* The finality reconciler on its timer.                                   *)
(***************************************************************************)
(* runCurrentPass up to runOnce. *)
PassBegun(initial) ==
  [rec EXCEPT !.pass = "running", !.initial = initial, !.timer = FALSE, !.under = selected, !.whole = TRUE,
              !.ready = NoSelection, !.state = IF initial THEN "STARTING" ELSE @]

(* Faulty variant: selections are compared by their provider. *)
SameProvider(left, right) == left.provider = right.provider

sameProviderSelection(left, right) == left = right

isReadyFor(selection) ==
  /\ rec.state = "RUNNING"
  /\ rec.ready # NoSelection
  /\ sameProviderSelection(rec.ready, selected) /\ sameProviderSelection(rec.ready, selection)

(* coherentIncidentCounters: what the tracker accepts as its own state. *)
Baseline == Saturation - 1 - (Saturation \div Cadence)

CoherentWhenSaturated(i) ==
  LET base == Saturation % Cadence
      offset == (i.cadence + Cadence - base) % Cadence
      crossed == (base + offset) \div Cadence
  IN \/ i.suppressed = Saturation
     \/ /\ i.suppressed >= Baseline + offset - crossed
        /\ (i.suppressed - Baseline - (offset - crossed)) % (Cadence - 1) = 0

coherentIncidentCounters(i) ==
  IF i.failures = Saturation THEN CoherentWhenSaturated(i)
  ELSE /\ i.cadence = i.failures % Cadence
       /\ i.suppressed + 1 + (i.failures \div Cadence) = i.failures

Coherent(i) == i = NoIncident \/ (i.failures > 0 /\ coherentIncidentCounters(i))

Saturating(n) == IF n = Saturation THEN n ELSE n + 1

(* recordFinalityDiagnosticFailure; a state it does not accept is kept. *)
FailureRecorded(i) ==
  LET cadence == (i.cadence + 1) % Cadence
  IN IF ~Coherent(i) THEN i
     ELSE IF i = NoIncident THEN [failures |-> 1, suppressed |-> 0, cadence |-> 1]
     ELSE [failures |-> Saturating(i.failures),
           suppressed |-> IF cadence = 0 THEN i.suppressed ELSE Saturating(i.suppressed),
           cadence |-> cadence]

(* recordFinalityDiagnosticRecovery *)
RecoveryRecorded(i) == IF Coherent(i) THEN NoIncident ELSE i

(* start and the callbacks of schedule: a pass that ran under one          *)
(* selection from its beginning to its end makes the reconciler ready.     *)
PassSettled(succeeded) ==
  LET settled == [rec EXCEPT !.pass = "none", !.initial = FALSE]
  IN IF rec.closed THEN [settled EXCEPT !.ready = NoSelection]
     ELSE [settled EXCEPT !.timer = TRUE, !.state = IF succeeded THEN "RUNNING" ELSE "DEGRADED",
                          !.ready = IF succeeded THEN rec.under ELSE NoSelection]

StartSettles(result) == [runtime EXCEPT !.awaited = result]

PassEnds(ran) ==
  /\ rec.pass = "running"
  /\ rec.under.provider = NoEndpoint => ~ran
  /\ LET succeeded == ran /\ sameProviderSelection(selected, rec.under)
     IN /\ rec' = PassSettled(succeeded)
        /\ incident' = IF rec.closed THEN incident
                       ELSE IF succeeded THEN RecoveryRecorded(incident) ELSE FailureRecorded(incident)
        /\ proven' = IF ran /\ rec.whole THEN proven \cup {rec.under.revision} ELSE proven
  /\ runtime' = IF rec.initial THEN StartSettles("ok") ELSE runtime
  /\ UNCHANGED <<app, closes, part, hb, beat, selected>>

PassTimer ==
  /\ rec.timer
  /\ rec' = PassBegun(FALSE)
  /\ UNCHANGED <<app, runtime, closes, part, incident, hb, beat, selected, proven>>

(* promote and clear of the provider selection. *)
SelectionChanges ==
  /\ selected.revision < MaxRevision
  /\ \E p \in Endpoints \cup {NoEndpoint} :
       selected' = [provider |-> p, revision |-> selected.revision + 1]
  /\ rec' = [rec EXCEPT !.whole = FALSE]
  /\ UNCHANGED <<app, runtime, closes, part, incident, hb, beat, proven>>

-----------------------------------------------------------------------------
(***************************************************************************)
(* The heartbeat on its timer.                                             *)
(***************************************************************************)
(* firstProcessingCanaryCohortStartedAtMs, awaited by start and by every   *)
(* write: it is read once, and a read that failed fails them all.          *)
CohortRead(ok) ==
  /\ hb.run = "cohort"
  /\ LET goesOn == ok /\ ~hb.closed
     IN /\ hb' = [hb EXCEPT !.run = IF goesOn THEN "writing" ELSE "none",
                            !.broken = ~ok, !.rejected = ~ok, !.initial = goesOn]
        /\ runtime' = IF goesOn THEN runtime ELSE StartSettles(IF ok THEN "ok" ELSE "failed")
  /\ UNCHANGED <<app, closes, part, rec, incident, beat, selected, proven>>

(* write('RUNNING') and what follows it in start and in schedule. *)
BeatWritten(ok) ==
  /\ hb.run = "writing"
  /\ beat' = IF ok THEN "RUNNING" ELSE beat
  /\ hb' = [hb EXCEPT !.run = "none", !.initial = FALSE, !.broken = ~ok,
                      !.timer = ~hb.closed /\ (ok \/ ~hb.initial),
                      !.state = IF hb.closed \/ hb.initial THEN @ ELSE IF ok THEN "RUNNING" ELSE "DEGRADED"]
  /\ runtime' = IF hb.initial THEN StartSettles(IF ok THEN "ok" ELSE "failed") ELSE runtime
  /\ UNCHANGED <<app, closes, part, rec, incident, selected, proven>>

BeatTimer ==
  /\ hb.timer
  /\ hb' = [hb EXCEPT !.timer = FALSE, !.run = "writing"]
  /\ UNCHANGED <<app, runtime, closes, part, rec, incident, beat, selected, proven>>

CloseSettles(r, result) ==
  /\ closes' = [closes EXCEPT ![r] = result]
  /\ runtime' = [runtime EXCEPT !.active = IF result = "done" THEN @ \ {r} ELSE @]

(* performStop: the write in flight is awaited, then STOPPED is written. *)
StopWaited ==
  /\ hb.stop = "waiting" /\ hb.run = "none"
  /\ hb' = [hb EXCEPT !.stop = "writing", !.behind = hb.broken]
  /\ UNCHANGED <<app, runtime, closes, part, rec, incident, beat, selected, proven>>

StoppedWritten(ok) ==
  /\ hb.stop = "writing" /\ hb.run # "cohort"
  /\ hb.rejected => ~ok
  /\ LET done == ok /\ ~hb.behind
     IN /\ hb' = [hb EXCEPT !.stop = "settled", !.state = IF done THEN "STOPPED" ELSE "DEGRADED"]
        /\ CloseSettles("heartbeat", IF done THEN "done" ELSE "failed")
  /\ beat' = IF ok THEN "STOPPED" ELSE beat
  /\ UNCHANGED <<app, part, rec, incident, selected, proven>>

(* settleController: the stop fails, what it waited for goes on. *)
StopTimesOut ==
  /\ hb.stop \in {"waiting", "writing"}
  /\ hb' = [hb EXCEPT !.stop = IF hb.stop = "waiting" THEN "settled" ELSE "behind", !.state = "DEGRADED"]
  /\ CloseSettles("heartbeat", "failed")
  /\ UNCHANGED <<app, part, rec, incident, beat, selected, proven>>

LateStopped ==
  /\ hb.stop = "behind" /\ hb.run # "cohort" /\ ~hb.rejected
  /\ hb' = [hb EXCEPT !.stop = "settled"]
  /\ beat' = "STOPPED"
  /\ UNCHANGED <<app, runtime, closes, part, rec, incident, selected, proven>>

-----------------------------------------------------------------------------
(***************************************************************************)
(* Starting.                                                               *)
(***************************************************************************)
(* startComponent, up to the await, with runtime r. *)
ComponentStarts(r, index) ==
  LET resource == StartOrder[index]
  IN /\ runtime' = [r EXCEPT !.starting = index, !.active = @ \cup {resource},
                             !.awaited = IF \/ resource = "reconciler" /\ rec.closed
                                            \/ resource = "heartbeat" /\ hb.closed
                                         THEN "ok" ELSE "pending"]
     /\ part' = IF resource \in Parts THEN [part EXCEPT ![resource] = "starting"] ELSE part
     /\ rec' = IF resource = "reconciler" /\ ~rec.closed THEN PassBegun(TRUE) ELSE rec
     /\ hb' = IF resource = "heartbeat" /\ ~hb.closed
              THEN [hb EXCEPT !.state = "RUNNING", !.run = "cohort"] ELSE hb

Boot ==
  /\ app.phase = "down"
  /\ app' = [app EXCEPT !.phase = "starting"]
  /\ ComponentStarts([runtime EXCEPT !.state = "STARTING"], 1)
  /\ UNCHANGED <<closes, incident, beat, selected, proven>>

(* The start of a component settles, also when it is being closed. *)
PartStarted(ok) ==
  /\ runtime.starting # 0 /\ StartOrder[runtime.starting] \in Parts /\ runtime.awaited = "pending"
  /\ LET p == StartOrder[runtime.starting]
     IN part' = [part EXCEPT ![p] = IF @ # "starting" THEN @ ELSE IF ok THEN "running" ELSE "broken"]
  /\ runtime' = StartSettles(IF ok THEN "ok" ELSE "failed")
  /\ UNCHANGED <<app, closes, rec, incident, hb, beat, selected, proven>>

StartAdvances ==
  /\ runtime.starting \in 1..4 /\ runtime.undo = 0
  /\ runtime.awaited = "ok" /\ ~runtime.closed
  /\ ComponentStarts(runtime, runtime.starting + 1)
  /\ UNCHANGED <<app, closes, incident, beat, selected, proven>>

StartSucceeds ==
  /\ runtime.starting = 5 /\ runtime.undo = 0
  /\ runtime.awaited = "ok" /\ ~runtime.closed
  /\ runtime' = [runtime EXCEPT !.starting = 0, !.started = TRUE, !.state = "RUNNING"]
  /\ UNCHANGED <<app, closes, part, rec, incident, hb, beat, selected, proven>>

(* The catch of performStart: it cleans up unless a close does. *)
StartFails ==
  /\ runtime.starting # 0 /\ runtime.undo = 0
  /\ runtime.awaited = "failed" \/ (runtime.awaited = "ok" /\ runtime.closed)
  /\ runtime' = [runtime EXCEPT !.undo = IF runtime.closed THEN Done ELSE 1]
  /\ UNCHANGED <<app, closes, part, rec, incident, hb, beat, selected, proven>>

StartRejected ==
  /\ runtime.undo = Done
  /\ runtime' = [runtime EXCEPT !.starting = 0, !.undo = 0, !.started = FALSE, !.state = "DEGRADED"]
  /\ UNCHANGED <<app, closes, part, rec, incident, hb, beat, selected, proven>>

-----------------------------------------------------------------------------
(***************************************************************************)
(* Closing.  by is "undo", the cleanup of a failed start, or "shut", the   *)
(* cleanup of close.                                                       *)
(***************************************************************************)
(* closeAttempt calls the close of a component once. *)
ComponentCloses(r) ==
  /\ part' = IF r \in Parts THEN [part EXCEPT ![r] = "closing"] ELSE part
  /\ rec' = IF r = "reconciler"
            THEN [rec EXCEPT !.closed = TRUE, !.timer = FALSE, !.ready = NoSelection] ELSE rec
  /\ hb' = IF r = "heartbeat"
           THEN [hb EXCEPT !.closed = TRUE, !.timer = FALSE,
                           !.stop = IF hb.run = "writing" THEN "waiting" ELSE "writing"]
           ELSE hb

CleanupCalls(by) ==
  /\ runtime[by] \in DOMAIN CleanupOrder
  /\ LET r == CleanupOrder[runtime[by]]
     IN /\ r \in runtime.active /\ closes[r] = "none"
        /\ closes' = [closes EXCEPT ![r] = "pending"]
        /\ ComponentCloses(r)
  /\ UNCHANGED <<app, runtime, incident, beat, selected, proven>>

(* settleUntil: done, failed, or pending past the deadline. *)
CleanupMovesOn(by) ==
  /\ runtime[by] \in DOMAIN CleanupOrder
  /\ LET r == CleanupOrder[runtime[by]]
         stays == r \in runtime.active
     IN /\ stays => closes[r] = "failed" \/ (closes[r] = "pending" /\ by \in runtime.late)
        /\ runtime' = [runtime EXCEPT ![by] = @ + 1, !.failed = IF stays THEN @ \cup {by} ELSE @]
  /\ UNCHANGED <<app, closes, part, rec, incident, hb, beat, selected, proven>>

DeadlinePasses(by) ==
  /\ runtime[by] # 0 /\ by \notin runtime.late
  /\ runtime' = [runtime EXCEPT !.late = @ \cup {by}]
  /\ UNCHANGED <<app, closes, part, rec, incident, hb, beat, selected, proven>>

PartClosed(p, ok) ==
  /\ part[p] = "closing"
  /\ part' = [part EXCEPT ![p] = IF ok THEN "stopped" ELSE "broken"]
  /\ CloseSettles(p, IF ok THEN "done" ELSE "failed")
  /\ UNCHANGED <<app, rec, incident, hb, beat, selected, proven>>

(* Faulty variant: close does not wait for the pass that is under way. *)
ReconcilerClosedAtOnce(timedOut) ==
  /\ closes["reconciler"] = "pending" /\ ~timedOut
  /\ rec' = [rec EXCEPT !.state = "STOPPED"]
  /\ CloseSettles("reconciler", "done")
  /\ UNCHANGED <<app, part, incident, hb, beat, selected, proven>>

(* performClose of the reconciler waits for its pass, up to a timeout. *)
ReconcilerClosed(timedOut) ==
  /\ closes["reconciler"] = "pending"
  /\ timedOut <=> rec.pass # "none"
  /\ rec' = [rec EXCEPT !.state = IF timedOut THEN "DEGRADED" ELSE "STOPPED"]
  /\ CloseSettles("reconciler", IF timedOut THEN "failed" ELSE "done")
  /\ UNCHANGED <<app, part, incident, hb, beat, selected, proven>>

CloseSettled ==
  /\ runtime.shut = Done
  /\ runtime.starting = 0 \/ "shut" \in runtime.late

CloseReturns ==
  /\ CloseSettled
  /\ LET failed == runtime.starting # 0 \/ "shut" \in runtime.failed
     IN runtime' = [runtime EXCEPT !.shut = 0, !.started = FALSE,
                                   !.closing = IF failed THEN "failed" ELSE "done",
                                   !.state = IF failed THEN "DEGRADED" ELSE "STOPPED"]
  /\ UNCHANGED <<app, closes, part, rec, incident, hb, beat, selected, proven>>

CloseCalled == [runtime EXCEPT !.closed = TRUE, !.state = "STOPPING", !.shut = 1, !.closing = "pending"]

(* close of the runtime while it is starting. *)
CloseEarly ==
  /\ app.phase = "starting" /\ runtime.closing = "none"
  /\ runtime' = CloseCalled
  /\ app' = [app EXCEPT !.phase = "closing listener"]
  /\ UNCHANGED <<closes, part, rec, incident, hb, beat, selected, proven>>

-----------------------------------------------------------------------------
(***************************************************************************)
(* runApplication.                                                         *)
(***************************************************************************)
(* The API is opened once the listener has started. *)
OpenApi(ok) ==
  /\ app.phase = "starting" /\ runtime.started
  /\ app' = [phase |-> IF ok THEN "serving" ELSE "closing", failed |-> ~ok]
  /\ UNCHANGED <<runtime, closes, part, rec, incident, hb, beat, selected, proven>>

StartupFailed ==
  /\ app.phase = "starting" /\ runtime.starting = 0 /\ ~runtime.started
  /\ app' = [phase |-> "closing", failed |-> TRUE]
  /\ UNCHANGED <<runtime, closes, part, rec, incident, hb, beat, selected, proven>>

ShutdownSignal ==
  /\ app.phase = "serving"
  /\ app' = [app EXCEPT !.phase = "closing"]
  /\ UNCHANGED <<runtime, closes, part, rec, incident, hb, beat, selected, proven>>

(* The pollers are closed first, whatever comes of it. *)
CloseListener(ok) ==
  /\ app.phase = "closing"
  /\ app' = [phase |-> "closing listener", failed |-> app.failed \/ ~ok]
  /\ runtime' = CloseCalled
  /\ UNCHANGED <<closes, part, rec, incident, hb, beat, selected, proven>>

(* The server and the database are closed after it, then the process ends. *)
Exit ==
  /\ app.phase = "closing listener"
  /\ runtime.closing \in {"done", "failed"}
  /\ app' = [phase |-> "exited", failed |-> app.failed \/ runtime.closing = "failed"]
  /\ UNCHANGED <<runtime, closes, part, rec, incident, hb, beat, selected, proven>>

LifecycleNext ==
  \/ Boot \/ PartStarted(TRUE) \/ StartAdvances \/ StartSucceeds \/ StartFails \/ StartRejected
  \/ PassEnds(TRUE) \/ PassTimer \/ CohortRead(TRUE) \/ BeatWritten(TRUE) \/ BeatTimer
  \/ StopWaited \/ StoppedWritten(~hb.rejected) \/ LateStopped
  \/ (\E by \in {"undo", "shut"} : CleanupCalls(by) \/ CleanupMovesOn(by))
  \/ (\E p \in Parts : PartClosed(p, TRUE)) \/ ReconcilerClosed(FALSE) \/ CloseReturns
  \/ OpenApi(TRUE) \/ StartupFailed \/ ShutdownSignal \/ CloseListener(TRUE) \/ Exit

LifecycleDisturbed ==
  \/ PartStarted(FALSE) \/ PassEnds(FALSE) \/ SelectionChanges
  \/ CohortRead(FALSE) \/ BeatWritten(FALSE) \/ StoppedWritten(FALSE) \/ StopTimesOut
  \/ (\E by \in {"undo", "shut"} : DeadlinePasses(by))
  \/ (\E p \in Parts : PartClosed(p, FALSE)) \/ ReconcilerClosed(TRUE)
  \/ CloseEarly \/ OpenApi(FALSE) \/ CloseListener(FALSE)

-----------------------------------------------------------------------------
Terminal == runtime.closing = "done"

(* When close has succeeded nothing is left behind: no component, timer,   *)
(* pass, write or start is under way, and the last heartbeat does not say  *)
(* RUNNING, wherever close met the start of the runtime or a heartbeat     *)
(* that was being written.                                                 *)
ClosedIsQuiet ==
  Terminal =>
    /\ runtime.active = {} /\ runtime.starting = 0
    /\ \A p \in Parts : part[p] \in {"idle", "stopped"}
    /\ ~rec.timer /\ rec.pass = "none"
    /\ ~hb.timer /\ hb.run = "none" /\ beat # "RUNNING"

(* What the reconciler tells is true: it is ready for the promoted         *)
(* provider only if a whole pass succeeded under exactly that promotion,   *)
(* and the tracker of its failures accepts every state it produces, up to  *)
(* the saturation of its counters, so that no incident is lost silently.   *)
ReconcilerTellsTruth ==
  /\ isReadyFor(selected) => selected.revision \in proven
  /\ Coherent(incident)

=============================================================================
