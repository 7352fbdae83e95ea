---------------------------- MODULE IntentLedger ----------------------------
(***************************************************************************)
(* The execution intent ledger: the lifecycle of an intent row, its lease  *)
(* and its attempts.  These are the row updates that the intent repository *)
(* and the repositories that terminate an intent in their own transaction  *)
(* share.                                                                  *)
(*                                                                         *)
(* A lease is its token (0 is NULL) and whether lease_expires_at has       *)
(* passed; expired says whether expires_at has passed.  execution_attempts *)
(* is the sequence of attempt statuses, so attempt_count is its length.    *)
(***************************************************************************)
EXTENDS Naturals, Sequences

Statuses ==
  {"PENDING", "RETRY_READY", "PROCESSING", "SIMULATED", "SIGNED_NOT_SUBMITTED",
   "SUBMITTED", "CONFIRMED", "RECONCILING", "UNKNOWN_REQUIRES_RECONCILIATION",
   "SUCCEEDED", "FAILED", "EXPIRED", "CANCELLED"}

TerminalStatuses == {"SUCCEEDED", "FAILED", "EXPIRED", "CANCELLED"}

PreSubmissionStatuses == {"PENDING", "RETRY_READY", "PROCESSING", "SIMULATED"}

AttemptStatuses == {"STARTED", "COMPLETED", "ABANDONED"}

IntentRow ==
  [status: Statuses, revision: Nat, attempts: Seq(AttemptStatuses),
   token: Nat, lapsed: BOOLEAN, expired: BOOLEAN]

(* What a worker remembers of a claimed intent (ClaimedExecutionIntent). *)
ClaimRow == [status: Statuses, revision: Nat, attemptCount: Nat, token: Nat]

NewIntent ==
  [status |-> "PENDING", revision |-> 0, attempts |-> <<>>,
   token |-> 0, lapsed |-> FALSE, expired |-> FALSE]

IsFinal(r) == r.status \in TerminalStatuses

AttemptCount(r) == Len(r.attempts)

HasStarted(r) == r.attempts # <<>> /\ r.attempts[Len(r.attempts)] = "STARTED"

(* What lockAttemptLedger and the expiration sweep demand of the attempts. *)
LedgerIsConsistent(r) ==
  \A n \in 1..(Len(r.attempts) - 1) : r.attempts[n] # "STARTED"

LeaseIsFree(r) == r.token = 0 \/ r.lapsed

Leased(r, token) == [r EXCEPT !.token = token, !.lapsed = FALSE]

ClaimOf(r) ==
  [status |-> r.status, revision |-> r.revision, attemptCount |-> AttemptCount(r),
   token |-> r.token]

(* lockClaimedIntent: the claim is still the current lease of the row.     *)
(* A claim always carries a token, so a released row matches none.         *)
Fenced(r, c) ==
  /\ r.status = c.status
  /\ r.token = c.token
  /\ r.revision = c.revision
  /\ ~r.lapsed

Released(r) == [r EXCEPT !.token = 0, !.lapsed = FALSE]

(* One journalled transition; a terminal status gives the lease up. *)
Moved(r, next) ==
  LET moved == [r EXCEPT !.status = next, !.revision = @ + 1]
  IN IF next \in TerminalStatuses THEN Released(moved) ELSE moved

(* beginAttempt resumes the started attempt, or opens the next one. *)
Begun(r) ==
  IF HasStarted(r) THEN r ELSE [r EXCEPT !.attempts = Append(@, "STARTED")]

(* The latest attempt ends; an attempt that has ended stays as it is. *)
AttemptEnded(r, outcome) ==
  IF HasStarted(r) THEN [r EXCEPT !.attempts[Len(r.attempts)] = outcome] ELSE r

(* Faulty variant: a lapsed lease still protects the intent. *)
ExpirableUnleased(r) ==
  /\ r.status \in PreSubmissionStatuses
  /\ r.expired
  /\ r.token = 0

(* expireExecutionIntentsPreSubmissionInTransaction. *)
Expirable(r) ==
  /\ r.status \in PreSubmissionStatuses
  /\ r.expired
  /\ LeaseIsFree(r)
  /\ LedgerIsConsistent(r)

ExpiredRow(r) == Moved(AttemptEnded(r, "ABANDONED"), "EXPIRED")

=============================================================================
