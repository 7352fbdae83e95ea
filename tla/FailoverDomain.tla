--------------------------- MODULE FailoverDomain ---------------------------
(***************************************************************************)
(* The memory of the WebSocket failover supervisor as one record x, and    *)
(* its synchronous methods as operators from memory to memory.  JavaScript *)
(* runs a method to its next await without interruption, so a step of the  *)
(* system applies one composition of these operators.                      *)
(*                                                                         *)
(* Three tasks may be suspended at an await at the same time: "loop" (the  *)
(* recovery cycle), "failure" (the degradation started by the completion   *)
(* of the incumbent's session) and "periodic" (the periodic frontier       *)
(* scan).  x[t].pc names the await, x[t].rec the session record it is      *)
(* about.  Their durable transitions queue on one mutex: x.queue, whose    *)
(* head holds it.                                                          *)
(*                                                                         *)
(* A session record is a number, also standing for its generation; 0 is    *)
(* null.  Numbers that nothing refers to any more are reused.  Backoff     *)
(* delays, reasons and metrics are left out.                               *)
(***************************************************************************)
EXTENDS Naturals, Sequences, FiniteSets

CONSTANTS ProviderIds,  \* the provider catalog, in rotation order
          NoProvider,
          MaxRecords    \* records alive at once; checked to suffice

ASSUME FailoverAssumption ==
  /\ ProviderIds # <<>>
  /\ \A i \in DOMAIN ProviderIds : ProviderIds[i] # NoProvider
  /\ MaxRecords \in Nat

Providers == {ProviderIds[i] : i \in DOMAIN ProviderIds}
Records == 1..MaxRecords
Tasks == {"loop", "failure", "periodic"}
Unused == [provider |-> NoProvider, status |-> "unused", closing |-> "no",
           fenced |-> FALSE, queued |-> FALSE]

Idle == [pc |-> "idle", rec |-> 0]

IdleLoop ==
  [pc |-> "idle", rec |-> 0, prev |-> 0, kind |-> "none", provider |-> NoProvider,
   attempted |-> {}, windows |-> {}, pinned |-> FALSE, pinnedCycle |-> FALSE]

NewSupervisor ==
  [state |-> "STOPPED", selected |-> NoProvider, sessions |-> [s \in Records |-> Unused],
   candidate |-> 0, incumbent |-> 0,
   loop |-> IdleLoop, failure |-> Idle, periodic |-> Idle,
   loopTimer |-> FALSE, periodicTimer |-> 0, aborted |-> FALSE,
   requested |-> FALSE, observed |-> FALSE, unrecoverable |-> FALSE,
   closed |-> FALSE, resourceFailed |-> FALSE, prepared |-> FALSE,
   queue |-> <<>>, waiting |-> 0,
   lastPromoted |-> NoProvider, localRetry |-> NoProvider,
   start |-> "new", threw |-> {}]

-----------------------------------------------------------------------------
ProviderOf(x, s) == x.sessions[s].provider

(* The periodic task owns #activeFailurePromise while it is at one of these. *)
PeriodicFailureSteps ==
  {"degrade", "abandon", "stop", "pause", "pauseClose", "pauseStop", "resetClose", "reset"}

ActiveFailure(x) == x.failure.pc # "idle" \/ x.periodic.pc \in PeriodicFailureSteps

LoopFree(x) == ~x.loopTimer /\ x.loop.pc = "idle"

(* #activeTransitionFields: the incumbent, unless its session completed. *)
ActiveTransitionFields(x) ==
  IF x.incumbent # 0 /\ x.sessions[x.incumbent].status = "open" THEN x.incumbent ELSE 0

(* A call of #transition: the input is fixed now, the write happens when   *)
(* the mutex is granted.  fresh says that the candidate generation is the  *)
(* successor of the stored revision.                                       *)
Submit(x, t, pc, phase, active, candidate) ==
  [x EXCEPT ![t].pc = pc,
            !.queue = Append(@, [by |-> t, phase |-> phase, active |-> active,
                                 candidate |-> candidate, fresh |-> phase = "CONNECTING"])]

(* #closeSession starts at most one close per record. *)
BeginClose(x, s) ==
  [x EXCEPT !.sessions[s].closing = IF @ = "no" THEN "closing" ELSE @]

CloseSettled(x, s) == x.sessions[s].closing \in {"closed", "failed"}
CloseFailed(x, s) == x.sessions[s].closing = "failed"

ScheduleRecovery(x) == [x EXCEPT !.loopTimer = ~x.closed]

(* Faulty variant: left to the end of a cycle that may not be running. *)
NoteRecovery(x) ==
  IF x.closed \/ x.unrecoverable THEN x
  ELSE [x EXCEPT !.requested = TRUE, !.state = "DEGRADED"]

RequestRecovery(x) ==
  IF x.closed \/ x.unrecoverable THEN x
  ELSE [x EXCEPT !.requested = TRUE, !.state = "DEGRADED",
                 !.loopTimer = @ \/ x.loop.pc = "idle"]

CancelPeriodicFrontier(x) ==
  [x EXCEPT !.aborted = x.periodic.pc # "idle", !.periodicTimer = 0]

ArmPeriodicFrontier(x) ==
  IF /\ ~x.closed /\ x.state = "RUNNING"
     /\ x.incumbent # 0 /\ x.sessions[x.incumbent].status = "open"
     /\ x.selected = ProviderOf(x, x.incumbent)
     /\ x.periodicTimer = 0 /\ x.periodic.pc = "idle"
  THEN [x EXCEPT !.periodicTimer = x.incumbent]
  ELSE x

(* #clearPromotedRecord, also the synchronous part of #abandonPromotedSession. *)
ClearPromotedRecord(x, s) ==
  [x EXCEPT !.selected = IF @ = ProviderOf(x, s) THEN NoProvider ELSE @,
            !.state = IF x.closed THEN @ ELSE "DEGRADED"]

DegradeActiveIncumbent(x, t, s) ==
  LET y == CancelPeriodicFrontier(x)
  IN Submit([y EXCEPT ![t].rec = s], t, "degrade", "DEGRADED", s, y.candidate)

(* #completeSession: the completion of a session reaches the supervisor. *)
CompleteSession(x, s) ==
  LET done == [x EXCEPT !.sessions[s].status = "completed"]
      degraded == [done EXCEPT !.state = "DEGRADED"]
  IN IF x.closed THEN done
     ELSE IF x.candidate = s THEN
       [done EXCEPT !.sessions[s].queued = TRUE,
                    !.candidate = IF x.sessions[s].fenced THEN @ ELSE 0]
     ELSE IF x.incumbent # s \/ x.unrecoverable THEN done
     ELSE IF ActiveFailure(x) THEN degraded
     ELSE DegradeActiveIncumbent(degraded, "failure", s)

-----------------------------------------------------------------------------
(***************************************************************************)
(* The end of a task.  #finishRecovery runs in the same turn as the end of *)
(* the cycle; a rejected task is remembered in threw for one step.         *)
(***************************************************************************)
FinishRecovery(x, failed) ==
  LET y == [x EXCEPT !.loop = IdleLoop, !.threw = IF failed THEN {"loop"} ELSE @]
  IN IF y.closed THEN y
     ELSE IF failed THEN
       [y EXCEPT !.state = "DEGRADED", !.loopTimer = @ \/ ~y.unrecoverable]
     ELSE [y EXCEPT !.loopTimer = @ \/ (y.requested /\ ~y.unrecoverable)]

PeriodicEnds(x) == ArmPeriodicFrontier([x EXCEPT !.periodic = Idle, !.aborted = FALSE])

PeriodicThrows(x) ==
  [x EXCEPT !.periodic = Idle, !.aborted = FALSE, !.threw = {"periodic"}]

(* The finally blocks of #pausePeriodicRecovery and #resetPeriodicRecovery. *)
RetryUnlessScheduled(x) == IF LoopFree(x) THEN ScheduleRecovery(x) ELSE x

-----------------------------------------------------------------------------
(***************************************************************************)
(* #runRecoveryCycle between two attempts.                                 *)
(***************************************************************************)
ProviderCycleOrder(x) ==
  LET n == Len(ProviderIds)
      last == IF x.lastPromoted = NoProvider THEN 0
              ELSE CHOOSE i \in 1..n : ProviderIds[i] = x.lastPromoted
  IN [i \in 1..n |-> ProviderIds[((last + i - 1) % n) + 1]]

FirstUntried(x) ==
  LET order == ProviderCycleOrder(x)
      untried == {i \in DOMAIN order : order[i] \notin x.loop.attempted}
  IN order[CHOOSE i \in untried : \A j \in untried : i <= j]

StartCycle(x) ==
  [x EXCEPT !.loopTimer = FALSE, !.requested = FALSE,
            !.loop = [IdleLoop EXCEPT !.pc = "pin"]]

(* #becomeUnrecoverable after the pending degradation has settled. *)
RetireIncumbent(x) ==
  LET y == [x EXCEPT !.selected = NoProvider]
      s == x.incumbent
  IN IF s = 0 THEN Submit(y, "loop", "terminal", "UNRECOVERABLE", 0, 0)
     ELSE BeginClose([y EXCEPT !.incumbent = 0, !.loop.rec = s, !.loop.pc = "retire"], s)

BecomeUnrecoverable(x) ==
  LET y == CancelPeriodicFrontier([x EXCEPT !.unrecoverable = TRUE])
  IN IF ActiveFailure(y) THEN [y EXCEPT !.loop.pc = "settleFailure"]
     ELSE RetireIncumbent(y)

EndCycle(x) ==
  IF x.closed THEN FinishRecovery(x, FALSE)
  ELSE IF ~x.loop.pinnedCycle /\ x.loop.windows = Providers THEN BecomeUnrecoverable(x)
  ELSE Submit(x, "loop", "cycle", "DEGRADED", ActiveTransitionFields(x), 0)

AfterAttempt(x, kind) ==
  LET y == [x EXCEPT !.loop.rec = 0, !.loop.prev = 0,
                     !.loop.windows = IF kind = "window" THEN @ \cup {x.loop.provider} ELSE @]
  IN IF kind \in {"promoted", "aborted"} \/ x.closed THEN FinishRecovery(y, FALSE)
     ELSE IF kind = "local" THEN
       FinishRecovery(ScheduleRecovery([y EXCEPT !.localRetry = x.loop.provider]), FALSE)
     ELSE IF kind = "paused" \/ x.loop.pinned \/ x.loop.attempted = Providers THEN EndCycle(y)
     ELSE [y EXCEPT !.loop.pc = "pin"]

(* #cleanupCandidate, and the close of a session that opened too late. *)
CleanupCandidate(x, kind) ==
  BeginClose([x EXCEPT !.candidate = IF @ = x.loop.rec THEN 0 ELSE @,
                       !.loop.kind = kind, !.loop.pc = "cleanup"], x.loop.rec)

CandidateCleaned(x) ==
  LET failed == CloseFailed(x, x.loop.rec)
      y == [x EXCEPT !.resourceFailed = @ \/ (x.closed /\ failed)]
  IN AfterAttempt(y, IF failed /\ x.loop.kind # "paused" THEN "transient" ELSE x.loop.kind)

StillCandidate(x) == x.candidate = x.loop.rec /\ ~x.closed

-----------------------------------------------------------------------------
(***************************************************************************)
(* #attemptProvider: what follows each of its awaits.                      *)
(***************************************************************************)
UnusedRecord(x) ==
  CHOOSE s \in Records : /\ x.sessions[s] = Unused
                         /\ \A r \in Records : x.sessions[r] = Unused => s <= r

Reserve(x, s, p) ==
  [x EXCEPT !.sessions[s] = [Unused EXCEPT !.provider = p, !.status = "reserved"],
            !.loop.rec = s]

PrepareCandidate(x, p) ==
  IF x.waiting # 0 /\ ProviderOf(x, x.waiting) = p
   THEN [Reserve(x, x.waiting, p) EXCEPT !.loop.pc = "preflight"]
   ELSE LET s == UnusedRecord(x)
        IN Submit(Reserve(x, s, p), "loop", "connect", "CONNECTING",
                  ActiveTransitionFields(x), s)

(* The pin has been read: choose the provider and prepare its candidate. *)
BeginAttempt(x, pin) ==
  LET p == IF pin # NoProvider THEN pin
           ELSE IF x.localRetry # NoProvider THEN x.localRetry
           ELSE FirstUntried(x)
      y == [x EXCEPT !.loop.pinned = pin # NoProvider,
                     !.loop.pinnedCycle = @ \/ pin # NoProvider]
  IN IF x.closed THEN FinishRecovery(x, FALSE)
     ELSE IF p \in x.loop.attempted THEN EndCycle(y)
     ELSE PrepareCandidate([y EXCEPT !.localRetry = NoProvider, !.loop.provider = p,
                                     !.loop.attempted = @ \cup {p}], p)

SubmitCandidate(x, pc, phase) ==
  Submit(x, "loop", pc, phase, ActiveTransitionFields(x), x.loop.rec)

SessionOpened(x) ==
  LET s == x.loop.rec
      y == [x EXCEPT !.sessions[s].status = "open"]
  IN IF x.closed THEN CleanupCandidate(y, "aborted")
     ELSE SubmitCandidate([y EXCEPT !.candidate = s], "ack", "ACKNOWLEDGED")

(* The candidate is fenced before its promotion is written. *)
Scanned(x) ==
  LET s == x.loop.rec
  IN IF StillCandidate(x)
     THEN Submit([x EXCEPT !.sessions[s].fenced = TRUE], "loop", "run", "RUNNING", s, 0)
     ELSE CleanupCandidate(x, "transient")

ScanFailed(x, kind) ==
  CleanupCandidate(x, IF x.sessions[x.loop.rec].status = "completed" THEN "transient" ELSE kind)

Promoted(x) == AfterAttempt(ArmPeriodicFrontier(x), "promoted")

(* Faulty variant: the replaced session is left open. *)
ForgetPrevious(x) ==
  IF x.loop.kind = "threw" THEN CleanupCandidate(x, "transient")
  ELSE IF x.loop.kind = "queued" THEN AfterAttempt(x, "promoted")
  ELSE Promoted(x)

ClosePrevious(x) ==
  LET s == x.loop.prev
  IN IF s # 0 THEN BeginClose([x EXCEPT !.loop.pc = "closePrev"], s)
     ELSE IF x.loop.kind = "threw" THEN CleanupCandidate(x, "transient")
     ELSE IF x.loop.kind = "queued" THEN AfterAttempt(x, "promoted")
     ELSE Promoted(x)

PreviousClosed(x) ==
  LET s == x.loop.rec
  IN IF x.loop.kind = "threw" THEN CleanupCandidate(x, "transient")
     ELSE IF CloseFailed(x, x.loop.prev) THEN DegradeActiveIncumbent(x, "loop", s)
     ELSE IF x.loop.kind = "queued" THEN AfterAttempt(x, "promoted")
     ELSE Promoted(x)

Promote(x) ==
  LET s == x.loop.rec
      queued == x.sessions[s].queued
      y == [x EXCEPT !.incumbent = s, !.candidate = 0, !.loop.prev = x.incumbent,
                     !.selected = x.loop.provider, !.state = "RUNNING",
                     !.lastPromoted = x.loop.provider, !.requested = FALSE,
                     !.sessions[s].queued = FALSE,
                     !.loop.kind = IF queued THEN "queued" ELSE "none"]
  IN IF queued THEN Submit(y, "loop", "queued", "DEGRADED", s, 0)
     ELSE ClosePrevious(y)

=============================================================================
