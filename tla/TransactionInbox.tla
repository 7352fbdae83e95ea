--------------------------- MODULE TransactionInbox ---------------------------
(***************************************************************************)
(* The durable transaction inbox (chain_transaction_inbox, its terminal    *)
(* replay receipts, its decoder recovery receipts and its claim scheduler) *)
(* under the most general client: any process may call any repository      *)
(* operation at any time.  One action is one committed transaction; a call *)
(* that throws or returns early commits nothing and is not a step.         *)
(*                                                                         *)
(* The CHECK constraints of InboxSchema are invariants of what the code    *)
(* writes.  Two of them enqueue and recordCatchUpClassification can run    *)
(* into (Storable): the database then refuses the row, the call throws and *)
(* nothing is committed.  The row that such a call submits has a name of   *)
(* its own, so that the properties can say which rows are refused.         *)
(***************************************************************************)
EXTENDS InboxSchema

CONSTANTS Notifications, Classifications,   \* what the callers submit
          LockedSets,       \* rows SKIP LOCKED may find locked by others
          NoReceipt,
          MaxClaims         \* bound on the claims of a behaviour

ASSUME InputAssumption ==
  /\ Notifications \subseteq NotificationType
  /\ Classifications \subseteq ClassificationType
  /\ LockedSets \subseteq SUBSET Signatures

ASSUME ClaimsAssumption == MaxClaims \in Nat

VARIABLES
  inbox,             \* chain_transaction_inbox: a row or NoRow
  receipts,          \* chain_transaction_finality_replay_receipts
  decoderReceipts,   \* signatures in transaction_inbox_decoder_recoveries
  claims,            \* lease tokens issued so far
  urgent,            \* consecutive_urgent_claims
  launch,            \* launch_claims_since_tracked
  enabled,           \* workerAdmissionPolicy.enabled of the running process
  launches,          \* mints with a live token_launches row
  authority          \* mints with worker tracking authority

tracking == <<enabled, launches, authority>>
scheduler == <<urgent, launch>>
inboxVars == <<inbox, receipts, decoderReceipts, claims, urgent, launch>>
vars == <<inbox, receipts, decoderReceipts, claims, urgent, launch,
          enabled, launches, authority>>

Receipt == [slot: Slots, target: TerminalConfirmations, version: 0..MaxVersion,
            snapshot: Fingerprints, processedAt: Nat]

ASSUME NoReceiptAssumption == NoReceipt \notin Receipt

ReceiptOf(r) == [slot |-> r.slot, target |-> r.target, version |-> r.version,
                 snapshot |-> r.snapshot, processedAt |-> r.processedAt]

Present(s) == inbox[s] # NoRow
IsTerminal(r) == r.target \in TerminalConfirmations

Tracked(hint, mint) ==
  hint = "PUMPFUN_TRADE" /\ mint \in (IF enabled THEN authority ELSE launches)

Admits(status, priority) ==
  status = "PENDING" /\ (enabled => priority # "NORMAL")

Init ==
  /\ inbox = [s \in Signatures |-> NoRow]
  /\ receipts = [s \in Signatures |-> NoReceipt]
  /\ decoderReceipts = {}
  /\ claims = 0 /\ urgent = 0 /\ launch = 0
  /\ enabled \in BOOLEAN
  /\ launches = {} /\ authority = {}

(* A row with nothing but its identity and its ingestion decision. *)
FreshRow(slot, source, programs, confirmation, d) ==
  [slot |-> slot, sources |-> {source}, programs |-> programs,
   target |-> confirmation, status |-> d.status,
   priority |-> d.priority, hint |-> d.hint, mint |-> d.mint,
   admitted |-> Admits(d.status, d.priority), attempted |-> FALSE, cycle |-> 0,
   leaseToken |-> 0, leaseExpired |-> FALSE,
   error |-> "NONE", next |-> "NONE", exhausted |-> FALSE,
   snapshot |-> NoSnapshot, processedAt |-> 0,
   purge |-> IF d.status = "PENDING" THEN "NONE" ELSE "PENDING",
   missing |-> 0, provider |-> NoProvider, version |-> 0,
   recovered |-> FALSE, decoderEligible |-> FALSE, decoderUsed |-> FALSE,
   classification |-> NoClassification, catchUpPriority |-> "NOT_ENQUEUED"]

WithLease(r, token) == [r EXCEPT !.leaseToken = token, !.leaseExpired = FALSE]
WithoutError(r) == [r EXCEPT !.next = "NONE", !.error = "NONE"]
WithoutMissing(r) == [r EXCEPT !.missing = 0, !.provider = NoProvider]

(* A row that starts a new cycle of attempts. *)
NewCycle(r) ==
  [r EXCEPT !.cycle = 0, !.exhausted = FALSE, !.processedAt = 0, !.purge = "NONE"]

(* What every reopening of a completed row for replay has in common. *)
Reopened(r, target) ==
  [NewCycle(WithoutMissing(r)) EXCEPT !.target = target, !.status = "PENDING"]

Ingested(r, d) ==
  [r EXCEPT !.priority = d.priority, !.hint = d.hint, !.mint = d.mint]

Seen(r, source, programs) ==
  [r EXCEPT !.sources = @ \cup {source}, !.programs = @ \cup programs]

(* An ingestion write.  The database stores the row or refuses it.         *)
Storable(r) == DeferredCheck(r) /\ CatchUpClassificationCheck(r)

Write(s, r) == Storable(r) /\ inbox' = [inbox EXCEPT ![s] = r]

-----------------------------------------------------------------------------
(***************************************************************************)
(* enqueue                                                                 *)
(***************************************************************************)
Unknown(s) == ~Present(s) /\ receipts[s] = NoReceipt

AnnouncedRow(n) ==
  FreshRow(n.slot, n.source, n.programs, n.confirmation,
           FirstDecision(n, Tracked(n.hint, n.mint), n.programs))

EnqueueInsert(n) == Unknown(n.signature) /\ Write(n.signature, AnnouncedRow(n))

(* IGNORED and QUARANTINED rows, and DEFERRED ones under the admission     *)
(* policy, keep their catch-up decision.                                   *)
HoldsTerminalClassification(r) ==
  /\ r.classification # NoClassification
  /\ \/ r.classification.disposition \in {"IGNORED", "QUARANTINED"}
     \/ enabled /\ r.classification.disposition = "DEFERRED"

ParkedByClassification(r) ==
  HoldsTerminalClassification(r) /\ r.status = r.classification.disposition

ParkedRow(r, n) ==
  [Seen(r, n.source, n.programs) EXCEPT !.target = Reconciled(@, n.confirmation)]

Repeatable(n) ==
  LET r == inbox[n.signature]
  IN /\ Present(n.signature)
     /\ ParkedByClassification(r)
     /\ ~(n.source = "WEBSOCKET" /\ r.classification.failedTransaction)
     /\ r.slot = n.slot
     /\ Reconcilable(r.target, n.confirmation)

EnqueueParked(n) ==
  Repeatable(n) /\ Write(n.signature, ParkedRow(inbox[n.signature], n))

IngestionDecision(r, n) ==
  IF HoldsTerminalClassification(r) THEN StoredDecision(r)
  ELSE ConvergeIngestion(r, n, Tracked(n.hint, n.mint), r.programs \cup n.programs)

(* A completed finalized row is only annotated, against its exact receipt. *)
AnnotatedRow(r, n) == Ingested(Seen(r, n.source, n.programs), IngestionDecision(r, n))

Sealed(n) ==
  LET r == inbox[n.signature]
  IN /\ Present(n.signature)
     /\ ~ParkedByClassification(r)
     /\ r.slot = n.slot
     /\ r.target = "finalized" /\ r.status = "PROCESSED"
     /\ receipts[n.signature] = ReceiptOf(r)

EnqueueSealed(n) ==
  Sealed(n) /\ Write(n.signature, AnnotatedRow(inbox[n.signature], n))

(* Every other stored row: a completed row whose status advances is        *)
(* reopened, any other one keeps running with the new target.              *)
EnqueuedRow(r, n) ==
  LET d == IngestionDecision(r, n)
      next == Reconciled(r.target, n.confirmation)
      replay == r.status = "PROCESSED" /\ next # r.target
      seen == Ingested(Seen(r, n.source, n.programs), d)
      base == IF replay THEN Reopened(seen, next)
              ELSE [WithoutMissing(seen) EXCEPT
                      !.target = next, !.status = d.status,
                      !.purge = IF d.status = "DEFERRED"
                                THEN IF @ = "NONE" THEN "PENDING" ELSE @
                                ELSE IF r.status = "DEFERRED" THEN "NONE" ELSE @]
      keepsVersionZero == \/ d.status = "DEFERRED"
                          \/ enabled /\ ~r.admitted /\ d.priority = "NORMAL"
  IN [base EXCEPT
        !.version = IF keepsVersionZero THEN 0 ELSE @ + 1,
        !.admitted = @ \/ Admits(base.status, d.priority)]

Mergeable(n) ==
  LET r == inbox[n.signature]
  IN /\ Present(n.signature)
     /\ ~ParkedByClassification(r)
     /\ r.slot = n.slot
     /\ ~(r.target = "finalized" /\ r.status = "PROCESSED")
     /\ Reconcilable(r.target, n.confirmation)
     /\ IngestionDecision(r, n).status # "DEFERRED" => r.version < MaxVersion
     /\ r.status = "PROCESSED" /\ Advances(r.target, n.confirmation)
          => r.snapshot # NoSnapshot

EnqueueMerge(n) ==
  Mergeable(n) /\ Write(n.signature, EnqueuedRow(inbox[n.signature], n))

Enqueue(n) ==
  /\ \/ EnqueueInsert(n)
     \/ EnqueueParked(n)
     \/ EnqueueSealed(n)
     \/ EnqueueMerge(n)
  /\ UNCHANGED <<receipts, decoderReceipts, claims, scheduler, tracking>>

-----------------------------------------------------------------------------
(***************************************************************************)
(* recordCatchUpClassification                                             *)
(***************************************************************************)
CatchUpDecision(c, programs) ==
  ClassificationDecision(c, Tracked(c.hint, c.mint), programs)

(* A failed transaction contradicts a WebSocket observation of it.  A      *)
(* signature whose row was purged behind a receipt is already admitted:    *)
(* nothing is written.                                                     *)
ClassificationAdmissible(c) ==
  LET r == inbox[c.signature]
  IN c.failedTransaction =>
       /\ receipts[c.signature] = NoReceipt
       /\ Present(c.signature) => "WEBSOCKET" \notin r.sources

RecordedRow(c) ==
  LET d == CatchUpDecision(c, c.programs)
  IN [FreshRow(c.slot, "CATCH_UP", c.programs, c.confirmation, d) EXCEPT
        !.classification = ClassificationKey(c),
        !.catchUpPriority = IF Admits(d.status, d.priority) THEN d.priority ELSE @]

Recordable(c) ==
  /\ Unknown(c.signature)
  /\ ~(enabled /\ c.disposition = "ACTIONABLE" /\ CatchUpDecision(c, c.programs).priority = "NORMAL")

ClassificationInsert(c) == Recordable(c) /\ Write(c.signature, RecordedRow(c))

(* Shared by the two updates: a completed row whose status advances is     *)
(* reopened with a new evidence version.                                   *)
ClassificationReplays(r, c) ==
  r.status = "PROCESSED" /\ Reconciled(r.target, c.confirmation) # r.target

ClassificationMerges(r, c) ==
  /\ r.slot = c.slot
  /\ Reconcilable(r.target, c.confirmation)
  /\ ClassificationReplays(r, c) => r.snapshot # NoSnapshot /\ r.version < MaxVersion

(* The same classification again: a pristine row follows the decision of   *)
(* the moment, any other one keeps its own.                                *)
ReplayedRow(r, c) ==
  LET pristine == IsPristineInbox(r)
      d == IF pristine THEN CatchUpDecision(c, r.programs \cup c.programs)
           ELSE StoredDecision(r)
      next == Reconciled(r.target, c.confirmation)
      seen == Ingested(Seen(r, "CATCH_UP", c.programs), d)
      base == IF ClassificationReplays(r, c)
              THEN [Reopened(seen, next) EXCEPT !.version = @ + 1]
              ELSE [seen EXCEPT
                      !.target = next, !.status = d.status,
                      !.purge = IF d.status = "PENDING" THEN "NONE"
                                ELSE IF @ = "NONE" /\ pristine /\ d.status = "DEFERRED"
                                THEN "PENDING" ELSE @]
      newlyAdmitted == /\ enabled /\ r.catchUpPriority = "NOT_ENQUEUED" /\ ~r.admitted
                       /\ d.status = "PENDING" /\ d.priority # "NORMAL"
  IN [base EXCEPT
        !.admitted = @ \/ Admits(base.status, d.priority),
        !.catchUpPriority = IF newlyAdmitted THEN d.priority ELSE @]

Repeats(c) ==
  LET r == inbox[c.signature]
  IN /\ Present(c.signature)
     /\ r.classification = ClassificationKey(c)
     /\ ClassificationMerges(r, c)

ClassificationReplay(c) ==
  Repeats(c) /\ Write(c.signature, ReplayedRow(inbox[c.signature], c))

(* First classification of a row that only a WebSocket announced. *)
ClassifiedRow(r, c) ==
  LET pristine == IsPristineInbox(r)
      d == CatchUpDecision(c, r.programs \cup c.programs)
      next == Reconciled(r.target, c.confirmation)
      replays == ClassificationReplays(r, c)
      seen == Ingested(Seen(r, "CATCH_UP", c.programs), d)
      base == IF replays
              THEN [Reopened(seen, next) EXCEPT !.version = @ + 1]
              ELSE [seen EXCEPT
                      !.target = next,
                      !.status = IF pristine THEN d.status ELSE @,
                      !.purge = IF ~pristine THEN @
                                ELSE IF d.status = "PENDING" THEN "NONE" ELSE "PENDING"]
      enqueued == IF enabled
                  THEN ~r.admitted /\ Admits(base.status, d.priority)
                  ELSE r.status = "DEFERRED" /\ d.status = "PENDING"
  IN [base EXCEPT
        !.admitted = @ \/ Admits(base.status, d.priority),
        !.classification = ClassificationKey(c),
        !.catchUpPriority = IF enqueued THEN d.priority ELSE "NOT_ENQUEUED"]

Attaches(c) ==
  LET r == inbox[c.signature]
  IN /\ Present(c.signature)
     /\ r.classification = NoClassification
     /\ "WEBSOCKET" \in r.sources
     /\ ClassificationMerges(r, c)

ClassificationMerge(c) ==
  Attaches(c) /\ Write(c.signature, ClassifiedRow(inbox[c.signature], c))

RecordCatchUpClassification(c) ==
  /\ ClassificationAdmissible(c)
  /\ \/ ClassificationInsert(c)
     \/ ClassificationReplay(c)
     \/ ClassificationMerge(c)
  /\ UNCHANGED <<receipts, decoderReceipts, claims, scheduler, tracking>>

-----------------------------------------------------------------------------
(***************************************************************************)
(* syncTrackedMint: every waiting trade row of the mint follows the        *)
(* tracking decision read in the same statement.                           *)
(***************************************************************************)
FollowsTracking(r, m, active) ==
  /\ r.hint = "PUMPFUN_TRADE" /\ r.mint = m
  /\ \/ r.status \in {"DEFERRED", "PENDING"} /\ Cardinality(r.programs) > 1
     \/ r.status = "DEFERRED" /\ active
     \/ r.status = "PENDING" /\ ~active /\ IsPristineInbox(r)

SyncedRow(r, active) ==
  IF Cardinality(r.programs) > 1
  THEN [r EXCEPT !.status = "PENDING", !.priority = "NORMAL", !.hint = "NONE",
                 !.mint = NoMint, !.purge = "NONE", !.admitted = TRUE]
  ELSE [WithoutMissing(r) EXCEPT
          !.status = IF active THEN "PENDING" ELSE "DEFERRED",
          !.priority = IF active THEN "TRACKED_TRADE" ELSE "NORMAL",
          !.purge = IF active THEN "NONE" ELSE "PENDING",
          !.version = 0, !.admitted = @ \/ active]

SyncTrackedMint(m) ==
  LET active == Tracked("PUMPFUN_TRADE", m)
  IN /\ inbox' = [s \in Signatures |->
                    IF Present(s) /\ FollowsTracking(inbox[s], m, active)
                    THEN SyncedRow(inbox[s], active) ELSE inbox[s]]
     /\ UNCHANGED <<receipts, decoderReceipts, claims, scheduler, tracking>>

-----------------------------------------------------------------------------
(* Faulty variant: an expired last lease is never closed. *)
ExhaustibleFailure(r) ==
  r.cycle >= MaxAttempts /\ ~r.exhausted /\ r.status = "FAILED" /\ r.error = "RETRYABLE"

(***************************************************************************)
(* claim: one transaction that closes exhausted rows, demotes pristine     *)
(* trades that lost their tracking authority (policy enabled), chooses a   *)
(* priority class and leases the oldest row of that class.                 *)
(***************************************************************************)
Exhaustible(r) ==
  /\ r.cycle >= MaxAttempts /\ ~r.exhausted
  /\ \/ r.status = "FAILED" /\ r.error = "RETRYABLE"
     \/ r.status = "PROCESSING" /\ r.leaseExpired

ExhaustedRow(r) ==
  [WithLease(r, 0) EXCEPT !.status = "FAILED", !.next = "NONE", !.error = "RETRYABLE",
                          !.exhausted = TRUE, !.purge = "PENDING"]

(* A claimable-looking trade no worker has touched yet. *)
DemotionPristine(r) ==
  /\ r.status = "PENDING" /\ r.priority = "TRACKED_TRADE" /\ r.hint = "PUMPFUN_TRADE"
  /\ r.admitted /\ IsPristineInbox(r)
  /\ r.error = "NONE" /\ r.next = "NONE" /\ ~r.exhausted
  /\ r.missing = 0 /\ r.provider = NoProvider /\ r.version = 0
  /\ ~r.decoderEligible /\ ~r.decoderUsed

Demotable(r) == enabled /\ DemotionPristine(r) /\ r.mint \notin authority

DemotedRow(r) == [r EXCEPT !.status = "DEFERRED", !.priority = "NORMAL", !.purge = "PENDING"]

Swept(r) ==
  IF Exhaustible(r) THEN ExhaustedRow(r) ELSE IF Demotable(r) THEN DemotedRow(r) ELSE r

Claimable(r) ==
  /\ r.cycle < MaxAttempts
  /\ \/ r.status = "PENDING"
     \/ r.status = "FAILED" /\ r.error = "RETRYABLE" /\ ~r.exhausted /\ r.next = "PASSED"
     \/ r.status = "PROCESSING" /\ r.leaseExpired
  /\ enabled => /\ r.admitted
                /\ DemotionPristine(r) => r.mint \in authority

Preempts(r, q) ==   \* ORDER BY of the claim: poller hints last, then the oldest slot
  LET rank(x) == CASE x.hint = "PUMPSWAP_POOL_TRADE" -> 2
                   [] x.hint = "PUMPFUN_CURVE_TRADE" -> 1
                   [] OTHER -> 0
  IN \/ rank(r) < rank(q)
     \/ rank(r) = rank(q) /\ r.slot < q.slot

Candidates(rows, locked, priority) ==
  {s \in Signatures \ locked :
     rows[s] # NoRow /\ rows[s].priority = priority /\ Claimable(rows[s])}

LeasedRow(r, token) ==
  [WithLease(WithoutError(r), token) EXCEPT
     !.status = "PROCESSING", !.attempted = TRUE, !.cycle = @ + 1,
     !.admitted = @ \/ (~enabled /\ r.status = "PENDING")]

SweptInbox(locked) ==
  [s \in Signatures |-> IF Present(s) /\ s \notin locked THEN Swept(inbox[s]) ELSE inbox[s]]

Claim(s, locked, token) ==
  LET rows == SweptInbox(locked)
      waiting == {p \in Priorities : Candidates(rows, locked, p) # {}}
      class == ScheduledPriority(urgent, launch, waiting)
  IN /\ waiting # {}
     /\ s \in Candidates(rows, locked, class)
     /\ \A q \in Candidates(rows, locked, class) : ~Preempts(rows[q], rows[s])
     /\ inbox' = [rows EXCEPT ![s] = LeasedRow(rows[s], token)]
     /\ urgent' = UrgentAfter(urgent, class)
     /\ launch' = LaunchAfter(launch, class)
     /\ UNCHANGED <<receipts, decoderReceipts, tracking>>

(* Lease tokens are random: here, never used before. *)
ClaimNext(s, locked) ==
  /\ claims < MaxClaims
  /\ claims' = claims + 1
  /\ Claim(s, locked, claims + 1)

(* claim found nothing to lease; what it swept stays swept. *)
ClaimNothing(locked) ==
  LET rows == SweptInbox(locked)
  IN /\ \A p \in Priorities : Candidates(rows, locked, p) = {}
     /\ inbox' = rows
     /\ UNCHANGED <<receipts, decoderReceipts, claims, scheduler, tracking>>

-----------------------------------------------------------------------------
(***************************************************************************)
(* Operations fenced by the lease token.                                   *)
(***************************************************************************)
Leased(s, token) ==
  Present(s) /\ inbox[s].status = "PROCESSING" /\ inbox[s].leaseToken = token

RenewLease(s, token) ==
  /\ Leased(s, token)
  /\ inbox' = [inbox EXCEPT ![s].leaseExpired = FALSE]
  /\ UNCHANGED <<receipts, decoderReceipts, claims, scheduler, tracking>>

SaveSnapshot(s, token, fingerprint) ==
  /\ Leased(s, token)
  /\ inbox[s].snapshot \in {NoSnapshot, fingerprint}
  /\ inbox' = [inbox EXCEPT ![s].snapshot = fingerprint]
  /\ UNCHANGED <<receipts, decoderReceipts, claims, scheduler, tracking>>

ProcessedRow(r, confirmation) ==
  LET next == Reconciled(r.target, confirmation)
      done == [WithLease(WithoutError(r), 0) EXCEPT
                 !.target = next, !.status = "PROCESSED",
                 !.processedAt = r.leaseToken, !.purge = "NONE"]
  IN IF next \in TerminalConfirmations
     THEN [WithoutMissing(done) EXCEPT
             !.purge = "PENDING", !.version = IF @ < MaxVersion THEN @ + 1 ELSE @]
     ELSE done

(* Faulty variant: the receipt is not written. *)
MarkProcessedWithoutReceipt(s, token, confirmation) ==
  /\ Leased(s, token)
  /\ inbox[s].snapshot # NoSnapshot
  /\ Reconcilable(inbox[s].target, confirmation)
  /\ inbox' = [inbox EXCEPT ![s] = ProcessedRow(inbox[s], confirmation)]
  /\ UNCHANGED <<receipts, decoderReceipts, claims, scheduler, tracking>>

(* A terminal completion commits with its receipt; a receipt of another    *)
(* completion makes the whole transaction fail.                            *)
MarkProcessed(s, token, confirmation) ==
  LET done == ProcessedRow(inbox[s], confirmation)
  IN /\ Leased(s, token)
     /\ inbox[s].snapshot # NoSnapshot
     /\ Reconcilable(inbox[s].target, confirmation)
     /\ IsTerminal(done) => receipts[s] \in {NoReceipt, ReceiptOf(done)}
     /\ inbox' = [inbox EXCEPT ![s] = done]
     /\ receipts' = IF IsTerminal(done)
                    THEN [receipts EXCEPT ![s] = ReceiptOf(done)] ELSE receipts
     /\ UNCHANGED <<decoderReceipts, claims, scheduler, tracking>>

FailedRow(r, error, decoderReceipt) ==
  LET exhausted == error = "RETRYABLE" /\ r.cycle >= MaxAttempts
      terminal == error # "RETRYABLE" \/ exhausted
  IN [WithLease(r, 0) EXCEPT
        !.status = "FAILED", !.error = error,
        !.next = IF terminal THEN "NONE" ELSE "PENDING",
        !.exhausted = exhausted,
        !.purge = IF terminal THEN "PENDING" ELSE "NONE",
        !.decoderEligible = /\ error = "DECODER" /\ r.snapshot # NoSnapshot
                            /\ ~r.decoderUsed /\ ~decoderReceipt]

MarkFailed(s, token, error) ==
  /\ Leased(s, token)
  /\ inbox' = [inbox EXCEPT ![s] = FailedRow(inbox[s], error, s \in decoderReceipts)]
  /\ UNCHANGED <<receipts, decoderReceipts, claims, scheduler, tracking>>

-----------------------------------------------------------------------------
(* Faulty variant: the purge deadline is not cleared. *)
RecoveredRowKeepsPurge(r) ==
  [WithLease(WithoutError(r), 0) EXCEPT
     !.status = "PENDING", !.cycle = 0, !.exhausted = FALSE, !.processedAt = 0, !.recovered = TRUE]

(***************************************************************************)
(* Manual recovery from the command line.                                  *)
(***************************************************************************)
RecoveredRow(r) ==
  [NewCycle(WithLease(WithoutError(r), 0)) EXCEPT !.status = "PENDING", !.recovered = TRUE]

RecoverExhausted(s) ==
  LET r == inbox[s]
  IN /\ Present(s)
     /\ r.status = "FAILED" /\ r.error = "RETRYABLE" /\ r.exhausted
     /\ r.purge = "PENDING"
     /\ inbox' = [inbox EXCEPT ![s] = RecoveredRow(r)]
     /\ UNCHANGED <<receipts, decoderReceipts, claims, scheduler, tracking>>

RecoverDecoderQuarantine(s) ==
  LET r == inbox[s]
  IN /\ Present(s)
     /\ ~r.decoderUsed
     /\ r.status = "FAILED" /\ r.error = "DECODER"
     /\ s \notin decoderReceipts
     /\ ~r.exhausted /\ r.processedAt = 0 /\ r.leaseToken = 0 /\ r.next = "NONE"
     /\ r.purge = "PENDING"
     /\ r.decoderEligible
     /\ r.snapshot # NoSnapshot
     /\ inbox' = [inbox EXCEPT ![s] =
          [RecoveredRow(r) EXCEPT !.decoderEligible = FALSE, !.decoderUsed = TRUE]]
     /\ decoderReceipts' = decoderReceipts \cup {s}
     /\ UNCHANGED <<receipts, claims, scheduler, tracking>>

-----------------------------------------------------------------------------
(***************************************************************************)
(* Finality evidence.  Evidence is what listForFinality hands out and what *)
(* a poll or an orphan revision must still find unchanged.                 *)
(***************************************************************************)
Evidence(r) ==
  [target |-> r.target, missing |-> r.missing, provider |-> r.provider, version |-> r.version]

ListedForFinality(s) ==
  Present(s) /\ inbox[s].status = "PROCESSED" /\ ~IsTerminal(inbox[s])

(* answer is the polled status, or "missing" when the provider has none. *)
PolledRow(r, provider, answer) ==
  IF answer = "missing"
  THEN [r EXCEPT !.missing = IF r.provider = provider THEN @ + 1 ELSE 1,
                 !.provider = provider, !.version = @ + 1]
  ELSE [WithoutMissing(r) EXCEPT !.target = Reconciled(@, answer), !.version = @ + 1]

RecordFinalityPoll(s, expected, provider, answer) ==
  /\ ListedForFinality(s)
  /\ Evidence(inbox[s]).missing = expected.missing
  /\ Evidence(inbox[s]).provider = expected.provider
  /\ Evidence(inbox[s]).version = expected.version
  /\ inbox[s].version < MaxVersion
  /\ inbox' = [inbox EXCEPT ![s] = PolledRow(inbox[s], provider, answer)]
  /\ UNCHANGED <<receipts, decoderReceipts, claims, scheduler, tracking>>

(* enqueueRevision: a finalized revision saturates the evidence version    *)
(* instead of refusing it, an orphaned one is compared and swapped.        *)
EnqueueFinalizedRevision(s) ==
  LET r == inbox[s]
  IN /\ Present(s) /\ r.snapshot # NoSnapshot
     /\ Advances(r.target, "finalized")
     /\ r.status = "PROCESSED"
     /\ inbox' = [inbox EXCEPT ![s] =
          [Reopened(r, "finalized") EXCEPT !.version = IF @ < MaxVersion THEN @ + 1 ELSE @]]
     /\ UNCHANGED <<receipts, decoderReceipts, claims, scheduler, tracking>>

(* Faulty variant: the evidence is not compared again. *)
OrphanedRevisionUnfenced(s, expected) ==
  LET r == inbox[s]
  IN /\ Present(s) /\ r.snapshot # NoSnapshot
     /\ Advances(r.target, "orphaned")
     /\ r.status = "PROCESSED" /\ r.version < MaxVersion
     /\ inbox' = [inbox EXCEPT ![s] = [Reopened(r, "orphaned") EXCEPT !.version = @ + 1]]
     /\ UNCHANGED <<receipts, decoderReceipts, claims, scheduler, tracking>>

EnqueueOrphanedRevision(s, expected) ==
  LET r == inbox[s]
  IN /\ Present(s) /\ r.snapshot # NoSnapshot
     /\ Advances(r.target, "orphaned")
     /\ r.status = "PROCESSED"
     /\ Evidence(r) = expected
     /\ expected.provider # NoProvider
     /\ r.version < MaxVersion
     /\ inbox' = [inbox EXCEPT ![s] = [Reopened(r, "orphaned") EXCEPT !.version = @ + 1]]
     /\ UNCHANGED <<receipts, decoderReceipts, claims, scheduler, tracking>>

-----------------------------------------------------------------------------
(***************************************************************************)
(* Retention: purge of rows, receipts and decoder receipts.  rawEvents     *)
(* tells whether raw_chain_events still has a row of the signature.        *)
(***************************************************************************)
Purgeable(s) ==
  LET r == inbox[s]
  IN /\ Present(s)
     /\ r.purge = "PASSED"
     /\ ~(r.status = "DEFERRED" /\ r.hint = "PUMPFUN_TRADE" /\ r.mint \in launches)
     /\ r.status = "PROCESSED" /\ IsTerminal(r) => receipts[s] = ReceiptOf(r)

PurgeRow(s) ==
  /\ Purgeable(s)
  /\ inbox' = [inbox EXCEPT ![s] = NoRow]
  /\ UNCHANGED <<receipts, decoderReceipts, claims, scheduler, tracking>>

PurgeReceipt(s, rawEvents) ==
  /\ ~Present(s) /\ ~rawEvents
  /\ receipts[s] # NoReceipt
  /\ receipts' = [receipts EXCEPT ![s] = NoReceipt]
  /\ UNCHANGED <<inbox, decoderReceipts, claims, scheduler, tracking>>

PurgeDecoderReceipt(s) ==
  /\ s \in decoderReceipts
  /\ decoderReceipts' = decoderReceipts \ {s}
  /\ UNCHANGED <<inbox, receipts, claims, scheduler, tracking>>

-----------------------------------------------------------------------------
(***************************************************************************)
(* Time, tracking and restarts.  Deadlines pass whenever they like: the    *)
(* code compares instants of different hosts.                              *)
(***************************************************************************)
LeaseExpires(s) ==
  /\ Present(s) /\ inbox[s].status = "PROCESSING" /\ ~inbox[s].leaseExpired
  /\ inbox' = [inbox EXCEPT ![s].leaseExpired = TRUE]
  /\ UNCHANGED <<receipts, decoderReceipts, claims, scheduler, tracking>>

RetryBecomesDue(s) ==
  /\ Present(s) /\ inbox[s].next = "PENDING"
  /\ inbox' = [inbox EXCEPT ![s].next = "PASSED"]
  /\ UNCHANGED <<receipts, decoderReceipts, claims, scheduler, tracking>>

RetentionPasses(s) ==
  /\ Present(s) /\ inbox[s].purge = "PENDING"
  /\ inbox' = [inbox EXCEPT ![s].purge = "PASSED"]
  /\ UNCHANGED <<receipts, decoderReceipts, claims, scheduler, tracking>>

TrackingChanges ==
  /\ launches' \in SUBSET Mints
  /\ authority' \in SUBSET Mints
  /\ <<launches', authority'>> # <<launches, authority>>
  /\ UNCHANGED <<inboxVars, enabled>>

RestartWithPolicy ==
  /\ enabled' = ~enabled
  /\ UNCHANGED <<inboxVars, launches, authority>>

Next ==
  \/ \E n \in Notifications : Enqueue(n)
  \/ \E c \in Classifications : RecordCatchUpClassification(c)
  \/ \E m \in Mints : SyncTrackedMint(m)
  \/ \E locked \in LockedSets : ClaimNothing(locked)
  \/ TrackingChanges
  \/ RestartWithPolicy
  \/ \E s \in Signatures :
       \/ \E locked \in LockedSets : ClaimNext(s, locked)
       \/ \E token \in 1..claims :
            \/ RenewLease(s, token)
            \/ \E f \in Fingerprints : SaveSnapshot(s, token, f)
            \/ \E st \in Confirmations : MarkProcessed(s, token, st)
            \/ \E e \in Errors \ {"NONE"} : MarkFailed(s, token, e)
       \/ RecoverExhausted(s)
       \/ RecoverDecoderQuarantine(s)
       \/ \E p \in Providers, a \in {"missing", "processed", "confirmed"} :
            RecordFinalityPoll(s, Evidence(inbox[s]), p, a)
       \/ EnqueueFinalizedRevision(s)
       \/ EnqueueOrphanedRevision(s, Evidence(inbox[s]))
       \/ PurgeRow(s)
       \/ PurgeReceipt(s, FALSE)
       \/ PurgeDecoderReceipt(s)
       \/ LeaseExpires(s) \/ RetryBecomesDue(s) \/ RetentionPasses(s)

Spec == Init /\ [][Next]_vars

-----------------------------------------------------------------------------
TypeOK ==
  /\ inbox \in [Signatures -> Row \cup {NoRow}]
  /\ receipts \in [Signatures -> Receipt \cup {NoReceipt}]
  /\ decoderReceipts \subseteq Signatures
  /\ claims \in Nat
  /\ urgent \in 0..MaxUrgent
  /\ launch \in 0..MaxLaunch
  /\ enabled \in BOOLEAN
  /\ launches \subseteq Mints
  /\ authority \subseteq Mints

=============================================================================
