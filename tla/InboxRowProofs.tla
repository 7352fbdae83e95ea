---------------------------- MODULE InboxRowProofs ----------------------------
(***************************************************************************)
(* Two results about the durable inbox, for every number of signatures,    *)
(* mints, programs, providers, attempts and versions:                      *)
(*                                                                         *)
(*   - every stored row satisfies the CHECK constraints of                 *)
(*     chain_transaction_inbox, and what ingestion submits is refused in   *)
(*     two named cases only (SchemaIsKept);                                *)
(*   - the inbox implements its contract (InboxImplementsContract): what   *)
(*     is sealed stays sealed, and what is live is never forgotten.        *)
(*                                                                         *)
(* The constraints alone are not inductive: RowInv adds what they leave    *)
(* out.  XRowKeeps says that an UPDATE keeps RowInv, XWrites that an       *)
(* action writes only such rows and XRowIsStored that the database accepts *)
(* the row that ingestion submits for one.                                 *)
(***************************************************************************)
EXTENDS TransactionInboxProofs

(* The statuses in which the catch-up parks a transaction. *)
Parked == {"IGNORED", "QUARANTINED"}

(* What the constraints leave out: only a claim leads to work, only        *)
(* completion dates a row and only worked rows are polled ...              *)
Worked(r) ==
  /\ r.status \in {"PROCESSING", "FAILED", "PROCESSED"} => r.attempted
  /\ r.status = "PROCESSING" => r.cycle > 0
  /\ r.status # "PROCESSED" => r.processedAt = 0
  /\ ~r.attempted => r.missing = 0

(* ... and a row is parked by its classification, as long as no worker has *)
(* touched it.                                                             *)
ParkedAsClassified(r) ==
  /\ r.status \in Parked =>
       r.classification # NoClassification /\ r.classification.disposition = r.status
  /\ r.classification # NoClassification /\ r.classification.disposition \in Parked
       /\ IsPristineInbox(r) => r.status = r.classification.disposition

RowInv(r) ==
  /\ LifecycleChecks(r) /\ IngestionChecks(r) /\ DeferredCheck(r)
  /\ Worked(r) /\ ParkedAsClassified(r)

(* Two rows agree on what ingestion decided ... *)
SameIngestion(q, r) ==
  /\ q.sources = r.sources /\ q.programs = r.programs
  /\ q.priority = r.priority /\ q.hint = r.hint /\ q.mint = r.mint
  /\ q.classification = r.classification /\ q.catchUpPriority = r.catchUpPriority

(* ... on the work that was done for them ... *)
SameWork(q, r) ==
  /\ q.attempted = r.attempted /\ q.snapshot = r.snapshot /\ q.recovered = r.recovered

(* ... on the evidence of their finality ... *)
SameEvidence(q, r) ==
  /\ q.missing = r.missing /\ q.provider = r.provider /\ q.version = r.version

(* ... and on the recovery from a decoder failure. *)
SameDecoder(q, r) ==
  q.decoderEligible = r.decoderEligible /\ q.decoderUsed = r.decoderUsed

(* Work on a row leaves the constraints on its ingestion alone. *)
LEMMA IngestionKept ==
  ASSUME NEW r \in Row, RowInv(r), NEW q, SameIngestion(q, r),
         q.status \notin Parked \cup {"DEFERRED"}, r.status \notin Parked
  PROVE  IngestionChecks(q) /\ DeferredCheck(q)
BY DEF RowInv, SameIngestion, IngestionChecks, IngestionHintCheck, PriorityMatchesHint,
   CatchUpClassificationCheck, CatchUpTerminalCheck, HintNamesMint, DeferredCheck, Parked

(* claim() fails an expired lease whose attempts are used up. *)
LEMMA ExhaustedRowKeeps ==
  ASSUME NEW r \in Row, RowInv(r), Exhaustible(r)
  PROVE  RowInv(ExhaustedRow(r))
<1> DEFINE q == ExhaustedRow(r)
<1>1. /\ q.status = "FAILED" /\ q.next = "NONE" /\ q.error = "RETRYABLE" /\ q.exhausted
      /\ q.purge = "PENDING" /\ q.leaseToken = 0
  BY DEF ExhaustedRow, WithLease, Row
<1>2. /\ SameIngestion(q, r) /\ SameWork(q, r) /\ SameEvidence(q, r) /\ SameDecoder(q, r)
      /\ q.target = r.target /\ q.admitted = r.admitted /\ q.cycle = r.cycle
      /\ q.processedAt = r.processedAt
  BY DEF ExhaustedRow, WithLease, Row, SameIngestion, SameWork, SameEvidence, SameDecoder
<1> HIDE DEF q
<1>3. LifecycleChecks(q)
  BY <1>1, <1>2, BoundsAssumption DEF SameWork, SameEvidence, SameDecoder, RowInv,
     LifecycleChecks, LeaseCheck, ErrorCheck, RetryCheck, ProcessedCheck, TerminalCheck,
     TerminalCompletionCheck, RetryPolicyCheck, MissingFinalityProviderCheck,
     DecoderEligibilityCheck, WorkerAdmissionCheck, Exhaustible
<1>4. IngestionChecks(q) /\ DeferredCheck(q)
  BY <1>1, <1>2, IngestionKept DEF Exhaustible, Parked
<1>5. Worked(q) /\ ParkedAsClassified(q)
  BY <1>1, <1>2 DEF SameEvidence, SameIngestion, SameWork, Worked, ParkedAsClassified, Exhaustible, RowInv,
     IsPristineInbox, Parked
<1> QED
  BY <1>3, <1>4, <1>5 DEF RowInv, q

(* claim() defers a pending trade whose mint is no longer tracked. *)
LEMMA DemotedRowKeeps ==
  ASSUME NEW r \in Row, RowInv(r), DemotionPristine(r)
  PROVE  RowInv(DemotedRow(r))
<1> DEFINE q == DemotedRow(r)
<1>1. q.status = "DEFERRED" /\ q.priority = "NORMAL" /\ q.purge = "PENDING"
  BY DEF DemotedRow, Row
<1>2. /\ SameWork(q, r) /\ SameEvidence(q, r) /\ SameDecoder(q, r)
      /\ q.target = r.target /\ q.admitted = r.admitted /\ q.cycle = r.cycle
      /\ q.processedAt = r.processedAt /\ q.leaseToken = r.leaseToken
      /\ q.next = r.next /\ q.error = r.error /\ q.exhausted = r.exhausted
      /\ q.sources = r.sources /\ q.programs = r.programs
      /\ q.hint = r.hint /\ q.mint = r.mint
      /\ q.classification = r.classification /\ q.catchUpPriority = r.catchUpPriority
  BY DEF DemotedRow, Row, SameWork, SameEvidence, SameDecoder
<1> HIDE DEF q
<1>3. LifecycleChecks(q)
  BY <1>1, <1>2, BoundsAssumption DEF SameWork, SameEvidence, SameDecoder, RowInv,
     LifecycleChecks, LeaseCheck, ErrorCheck, RetryCheck, ProcessedCheck, TerminalCheck,
     TerminalCompletionCheck, RetryPolicyCheck, MissingFinalityProviderCheck,
     DecoderEligibilityCheck, WorkerAdmissionCheck, DemotionPristine
<1>4. DeferredCheck(q)
  BY <1>1, <1>2 DEF DeferredCheck, Unclaimed, DemotionPristine, IsPristineInbox,
     SameWork, SameEvidence, SameDecoder
<1>5. IngestionChecks(q)
  BY <1>1, <1>2 DEF RowInv, IngestionChecks, IngestionHintCheck, PriorityMatchesHint,
     CatchUpClassificationCheck, CatchUpTerminalCheck, HintNamesMint, DemotionPristine, Worked, Parked
<1>6. Worked(q) /\ ParkedAsClassified(q)
  BY <1>1, <1>2 DEF SameEvidence, SameWork, Worked, ParkedAsClassified, DemotionPristine, RowInv,
     IsPristineInbox, Parked
<1> QED
  BY <1>3, <1>4, <1>5, <1>6 DEF RowInv, q

(* claim() leases a row. *)
LEMMA LeasedRowKeeps ==
  ASSUME NEW r \in Row, RowInv(r), Claimable(r), NEW token \in Nat \ {0}
  PROVE  RowInv(LeasedRow(r, token))
<1> DEFINE q == LeasedRow(r, token)
<1>1. /\ q.status = "PROCESSING" /\ q.attempted /\ q.cycle = r.cycle + 1
      /\ q.leaseToken = token /\ q.next = "NONE" /\ q.error = "NONE"
      /\ q.admitted = (r.admitted \/ (~enabled /\ r.status = "PENDING"))
  BY DEF LeasedRow, WithLease, WithoutError, Row
<1>2. /\ SameIngestion(q, r) /\ SameEvidence(q, r) /\ SameDecoder(q, r)
      /\ q.target = r.target /\ q.processedAt = r.processedAt
      /\ q.exhausted = r.exhausted /\ q.purge = r.purge
      /\ q.snapshot = r.snapshot /\ q.recovered = r.recovered
  BY DEF LeasedRow, WithLease, WithoutError, Row, SameIngestion, SameEvidence, SameDecoder
<1> HIDE DEF q
<1>3. r.cycle \in Nat
  BY DEF Row
<1>4. r.status \in {"PENDING", "FAILED", "PROCESSING"} /\ ~r.exhausted /\ r.purge = "NONE"
      /\ ~r.decoderEligible
  BY DEF Claimable, RowInv, LifecycleChecks, RetryCheck, TerminalCheck, DecoderEligibilityCheck
<1>5. q.admitted
  BY Zenon, <1>1 DEF Claimable, RowInv, LifecycleChecks, WorkerAdmissionCheck
<1>6. LifecycleChecks(q)
  BY <1>1, <1>2, <1>3, <1>4, <1>5, BoundsAssumption DEF SameEvidence, SameDecoder, RowInv,
     LifecycleChecks, LeaseCheck, ErrorCheck, RetryCheck, ProcessedCheck, TerminalCheck,
     TerminalCompletionCheck, RetryPolicyCheck, MissingFinalityProviderCheck,
     DecoderEligibilityCheck, WorkerAdmissionCheck, Claimable
<1>7. IngestionChecks(q) /\ DeferredCheck(q)
  BY <1>1, <1>2, <1>4, IngestionKept DEF Parked
<1>8. Worked(q) /\ ParkedAsClassified(q)
  BY <1>1, <1>2, <1>3, <1>4 DEF SameEvidence, SameIngestion, Worked, ParkedAsClassified, RowInv,
     IsPristineInbox, Parked
<1> QED
  BY <1>6, <1>7, <1>8 DEF RowInv, q

(* markFailed() books a failure, retryable or not. *)
LEMMA FailedRowKeeps ==
  ASSUME NEW r \in Row, RowInv(r), r.status = "PROCESSING",
         NEW error \in Errors \ {"NONE"}, NEW receipt \in BOOLEAN
  PROVE  RowInv(FailedRow(r, error, receipt))
<1> DEFINE q == FailedRow(r, error, receipt)
           exhausted == error = "RETRYABLE" /\ r.cycle >= MaxAttempts
           terminal == error # "RETRYABLE" \/ exhausted
<1>1. /\ q.status = "FAILED" /\ q.error = error /\ q.leaseToken = 0
      /\ q.next = (IF terminal THEN "NONE" ELSE "PENDING")
      /\ q.purge = (IF terminal THEN "PENDING" ELSE "NONE")
      /\ q.exhausted = exhausted
      /\ q.decoderEligible = (/\ error = "DECODER" /\ r.snapshot # NoSnapshot
                              /\ ~r.decoderUsed /\ ~receipt)
  BY DEF FailedRow, WithLease, Row
<1>2. /\ SameIngestion(q, r) /\ SameWork(q, r) /\ SameEvidence(q, r)
      /\ q.decoderUsed = r.decoderUsed /\ q.cycle = r.cycle
      /\ q.target = r.target /\ q.admitted = r.admitted /\ q.processedAt = r.processedAt
  BY DEF FailedRow, WithLease, Row, SameIngestion, SameWork, SameEvidence
<1> HIDE DEF q
<1>3. /\ r.attempted /\ r.cycle > 0 /\ r.processedAt = 0 /\ r.admitted
  BY DEF RowInv, Worked, LifecycleChecks, WorkerAdmissionCheck
<1>4. LifecycleChecks(q)
  BY ZenonT(40), <1>1, <1>2, <1>3, BoundsAssumption DEF SameWork, SameEvidence, RowInv,
     LifecycleChecks, LeaseCheck, ErrorCheck, RetryCheck, ProcessedCheck, TerminalCheck,
     TerminalCompletionCheck, RetryPolicyCheck, MissingFinalityProviderCheck,
     DecoderEligibilityCheck, WorkerAdmissionCheck
<1>5. IngestionChecks(q) /\ DeferredCheck(q)
  BY <1>1, <1>2, IngestionKept DEF Parked
<1>6. Worked(q) /\ ParkedAsClassified(q)
  BY <1>1, <1>2, <1>3 DEF SameEvidence, SameIngestion, SameWork, Worked, ParkedAsClassified, RowInv,
     IsPristineInbox, Parked
<1> QED
  BY <1>4, <1>5, <1>6 DEF RowInv, q

(* markProcessed() completes a row. *)
LEMMA ProcessedRowKeeps ==
  ASSUME NEW r \in Row, RowInv(r), r.status = "PROCESSING", r.snapshot # NoSnapshot,
         NEW confirmation \in Confirmations
  PROVE  RowInv(ProcessedRow(r, confirmation))
<1> DEFINE q == ProcessedRow(r, confirmation)
           next == Reconciled(r.target, confirmation)
           terminal == next \in TerminalConfirmations
<1> HIDE DEF next
<1>1. /\ q.status = "PROCESSED" /\ q.error = "NONE" /\ q.next = "NONE" /\ q.leaseToken = 0
      /\ q.target = next /\ q.processedAt = r.leaseToken
      /\ q.purge = (IF terminal THEN "PENDING" ELSE "NONE")
      /\ q.missing = (IF terminal THEN 0 ELSE r.missing)
      /\ q.provider = (IF terminal THEN NoProvider ELSE r.provider)
  BY DEF ProcessedRow, WithoutMissing, WithLease, WithoutError, Row, next
<1>2. /\ SameIngestion(q, r) /\ SameWork(q, r) /\ SameDecoder(q, r)
      /\ q.exhausted = r.exhausted /\ q.admitted = r.admitted /\ q.cycle = r.cycle
  BY DEF ProcessedRow, WithoutMissing, WithLease, WithoutError, Row, SameIngestion, SameWork,
     SameDecoder
<1> HIDE DEF q
<1>3. LifecycleChecks(q)
  BY <1>1, <1>2, BoundsAssumption DEF SameWork, SameDecoder, RowInv,
     LifecycleChecks, LeaseCheck, ErrorCheck, RetryCheck, ProcessedCheck, TerminalCheck,
     TerminalCompletionCheck, RetryPolicyCheck, MissingFinalityProviderCheck,
     DecoderEligibilityCheck, WorkerAdmissionCheck
<1>4. IngestionChecks(q) /\ DeferredCheck(q)
  BY <1>1, <1>2, IngestionKept DEF Parked
<1>5. Worked(q) /\ ParkedAsClassified(q)
  BY <1>1, <1>2 DEF SameEvidence, SameIngestion, SameWork, Worked, ParkedAsClassified, RowInv,
     IsPristineInbox, Parked
<1> QED
  BY <1>3, <1>4, <1>5 DEF RowInv, q

(* A failed row that is recovered, without a decoder failure or with its   *)
(* one recovery used.                                                      *)
LEMMA RecoveredRowKeeps ==
  ASSUME NEW r \in Row, RowInv(r), r.status = "FAILED"
  PROVE  /\ ~r.decoderEligible => RowInv(RecoveredRow(r))
         /\ RowInv([RecoveredRow(r) EXCEPT !.decoderEligible = FALSE, !.decoderUsed = TRUE])
<1>1. ASSUME NEW q,
             q.status = "PENDING", q.recovered, q.next = "NONE", q.error = "NONE",
             q.leaseToken = 0, q.cycle = 0, ~q.exhausted, q.processedAt = 0, q.purge = "NONE",
             SameIngestion(q, r), SameEvidence(q, r), ~q.decoderEligible,
             q.attempted = r.attempted, q.snapshot = r.snapshot, q.admitted = r.admitted
      PROVE  RowInv(q)
  <2>1. LifecycleChecks(q)
    BY <1>1, BoundsAssumption DEF SameEvidence, RowInv,
       LifecycleChecks, LeaseCheck, ErrorCheck, RetryCheck, ProcessedCheck, TerminalCheck,
     TerminalCompletionCheck, RetryPolicyCheck, MissingFinalityProviderCheck,
     DecoderEligibilityCheck, WorkerAdmissionCheck
  <2>2. IngestionChecks(q) /\ DeferredCheck(q)
    BY <1>1, IngestionKept DEF Parked
  <2>3. Worked(q) /\ ParkedAsClassified(q)
    BY <1>1 DEF SameEvidence, SameIngestion, Worked, ParkedAsClassified, RowInv, IsPristineInbox, Parked
  <2> QED
    BY <2>1, <2>2, <2>3 DEF RowInv
<1> DEFINE w == RecoveredRow(r)
           u == [w EXCEPT !.decoderEligible = FALSE, !.decoderUsed = TRUE]
<1>2. /\ w.status = "PENDING" /\ w.recovered /\ w.next = "NONE" /\ w.error = "NONE"
      /\ w.leaseToken = 0 /\ w.cycle = 0 /\ ~w.exhausted /\ w.processedAt = 0
      /\ w.purge = "NONE"
  BY DEF RecoveredRow, NewCycle, WithLease, WithoutError, Row
<1>3. /\ SameIngestion(w, r) /\ SameEvidence(w, r) /\ SameDecoder(w, r)
      /\ w.attempted = r.attempted /\ w.snapshot = r.snapshot /\ w.admitted = r.admitted
  BY DEF RecoveredRow, NewCycle, WithLease, WithoutError, Row, SameIngestion, SameEvidence,
     SameDecoder
<1>4. w \in Row
  BY Zenon, RecoveredRowType
<1> HIDE DEF w
<1>5. ~r.decoderEligible => RowInv(w)
  BY <1>1, <1>2, <1>3 DEF SameDecoder
<1>6. RowInv(u)
  <2>1. /\ u.status = w.status /\ u.recovered = w.recovered /\ u.next = w.next
        /\ u.error = w.error /\ u.leaseToken = w.leaseToken /\ u.cycle = w.cycle
        /\ u.exhausted = w.exhausted /\ u.processedAt = w.processedAt /\ u.purge = w.purge
        /\ SameIngestion(u, w) /\ SameEvidence(u, w) /\ ~u.decoderEligible
        /\ u.attempted = w.attempted /\ u.snapshot = w.snapshot /\ u.admitted = w.admitted
    BY <1>4 DEF Row, SameIngestion, SameEvidence
  <2> HIDE DEF u
  <2>2. SameIngestion(u, r) /\ SameEvidence(u, r)
    BY <1>3, <2>1 DEF SameIngestion, SameEvidence
  <2> QED
    BY Zenon, <1>1, <1>2, <1>3, <2>1, <2>2
<1> QED
  BY <1>5, <1>6 DEF w

(* recordFinalityPoll() counts an answer about a completed row. *)
LEMMA PolledRowKeeps ==
  ASSUME NEW r \in Row, RowInv(r), r.status = "PROCESSED", ~IsTerminal(r),
         NEW provider \in Providers, NEW answer \in {"missing", "processed", "confirmed"}
  PROVE  RowInv(PolledRow(r, provider, answer))
<1> DEFINE q == PolledRow(r, provider, answer)
<1>1. /\ SameIngestion(q, r) /\ SameWork(q, r) /\ SameDecoder(q, r)
      /\ q.status = r.status /\ q.leaseToken = r.leaseToken /\ q.error = r.error
      /\ q.next = r.next /\ q.exhausted = r.exhausted /\ q.purge = r.purge
      /\ q.admitted = r.admitted /\ q.cycle = r.cycle /\ q.processedAt = r.processedAt
  BY DEF PolledRow, WithoutMissing, Row, SameIngestion, SameWork, SameDecoder
<1>2. (q.missing = 0) <=> (q.provider = NoProvider)
  BY NullAssumption DEF PolledRow, WithoutMissing, Row
<1>3. q.target \notin TerminalConfirmations
  BY DEF PolledRow, WithoutMissing, Row, Reconciled, IsTerminal, TerminalConfirmations
<1> HIDE DEF q
<1>4. LifecycleChecks(q)
  BY <1>1, <1>2, <1>3, BoundsAssumption DEF SameWork, SameDecoder, RowInv, IsTerminal,
     LifecycleChecks, LeaseCheck, ErrorCheck, RetryCheck, ProcessedCheck, TerminalCheck,
     TerminalCompletionCheck, RetryPolicyCheck, MissingFinalityProviderCheck,
     DecoderEligibilityCheck, WorkerAdmissionCheck
<1>5. IngestionChecks(q) /\ DeferredCheck(q)
  BY <1>1, IngestionKept DEF Parked
<1>6. Worked(q) /\ ParkedAsClassified(q)
  BY <1>1 DEF SameEvidence, SameIngestion, SameWork, Worked, ParkedAsClassified, RowInv, IsPristineInbox,
     Parked
<1> QED
  BY <1>4, <1>5, <1>6 DEF RowInv, q

(***************************************************************************)
(* A completed row that is reopened starts over, with whatever ingestion   *)
(* has learnt in the meantime.                                             *)
(***************************************************************************)
Restarts(q, r) ==
  /\ q.status = "PENDING" /\ q.cycle = 0 /\ ~q.exhausted /\ q.processedAt = 0
  /\ q.purge = "NONE" /\ q.missing = 0 /\ q.provider = NoProvider
  /\ SameWork(q, r) /\ SameDecoder(q, r)
  /\ q.next = r.next /\ q.error = r.error /\ q.leaseToken = r.leaseToken

(* A row that starts a new cycle of work satisfies the constraints. *)
LEMMA RestartKeeps ==
  ASSUME NEW r \in Row, RowInv(r), r.status = "PROCESSED",
         NEW q, Restarts(q, r), q.admitted, IngestionChecks(q)
  PROVE  RowInv(q)
<1>1. LifecycleChecks(q)
  BY BoundsAssumption DEF Restarts, SameWork, SameDecoder, RowInv,
     LifecycleChecks, LeaseCheck, ErrorCheck, RetryCheck, ProcessedCheck, TerminalCheck,
     TerminalCompletionCheck, RetryPolicyCheck, MissingFinalityProviderCheck,
     DecoderEligibilityCheck, WorkerAdmissionCheck
<1>2. Worked(q) /\ ParkedAsClassified(q)
  BY DEF SameEvidence, Restarts, SameWork, Worked, ParkedAsClassified, RowInv, IsPristineInbox, Parked
<1> QED
  BY <1>1, <1>2 DEF RowInv, DeferredCheck, Restarts

(* Reopening is such a start. *)
LEMMA ReopenedRestarts ==
  ASSUME NEW r \in Row, NEW target, NEW version
  PROVE  LET q == [Reopened(r, target) EXCEPT !.version = version]
         IN  /\ Restarts(q, r) /\ SameIngestion(q, r) /\ q.admitted = r.admitted
             /\ q.target = target
BY DEF Reopened, NewCycle, WithoutMissing, Row, Restarts, SameWork, SameDecoder, SameIngestion

(* A completed row is reopened for a finality revision. *)
LEMMA RevisedRowKeeps ==
  ASSUME NEW r \in Row, RowInv(r), r.status = "PROCESSED", NEW target, NEW version
  PROVE  RowInv([Reopened(r, target) EXCEPT !.version = version])
<1> DEFINE q == [Reopened(r, target) EXCEPT !.version = version]
<1>1. Restarts(q, r) /\ SameIngestion(q, r) /\ q.admitted = r.admitted
  BY ReopenedRestarts
<1> HIDE DEF q
<1>2. r.admitted
  BY DEF RowInv, LifecycleChecks, WorkerAdmissionCheck
<1>3. IngestionChecks(q)
  BY <1>1, IngestionKept DEF Restarts, Parked
<1> QED
  BY Zenon, <1>1, <1>2, <1>3, RestartKeeps DEF q

(***************************************************************************)
(* Any other merge leaves the work of the row alone and at most moves a    *)
(* waiting row between the waiting statuses.                               *)
(***************************************************************************)
Waiting == {"PENDING", "DEFERRED"} \cup Parked

Continues(q, r) ==
  /\ SameWork(q, r) /\ SameDecoder(q, r)
  /\ q.cycle = r.cycle /\ q.processedAt = r.processedAt /\ q.leaseToken = r.leaseToken
  /\ q.next = r.next /\ q.error = r.error /\ q.exhausted = r.exhausted
  /\ q.status = r.status \/ {q.status, r.status} \subseteq Waiting
  /\ q.status = "PENDING" => q.purge = "NONE" /\ r.status \notin Parked
  /\ q.status \notin Waiting => q.purge = r.purge
  /\ q.status = "PROCESSED" => q.target = r.target
  /\ (q.missing = 0) <=> (q.provider = NoProvider)
  /\ ~q.admitted => ~r.admitted /\ q.version = 0 /\ q.missing = 0
  /\ q.missing = 0 \/ q.missing = r.missing

(* A row whose work goes on under a new announcement satisfies the constraints. *)
LEMMA ContinueKeeps ==
  ASSUME NEW r \in Row, RowInv(r), NEW q, Continues(q, r)
  PROVE  LifecycleChecks(q) /\ Worked(q)
<1> USE DEF Continues, SameWork, SameDecoder, Waiting, Parked
<1>1. r.status = "DEFERRED" => r.cycle = 0
  BY DEF RowInv, DeferredCheck, Unclaimed
<1>2. LeaseCheck(q) /\ ErrorCheck(q) /\ RetryCheck(q) /\ ProcessedCheck(q)
  BY ZenonT(40) DEF RowInv, LifecycleChecks, LeaseCheck, ErrorCheck, RetryCheck, ProcessedCheck
<1>3. /\ TerminalCheck(q) /\ TerminalCompletionCheck(q) /\ RetryPolicyCheck(q)
      /\ MissingFinalityProviderCheck(q) /\ DecoderEligibilityCheck(q)
  BY <1>1, BoundsAssumption DEF RowInv, LifecycleChecks, TerminalCheck, TerminalCompletionCheck,
     RetryPolicyCheck, MissingFinalityProviderCheck, DecoderEligibilityCheck
<1>4. WorkerAdmissionCheck(q)
  BY DEF RowInv, LifecycleChecks, WorkerAdmissionCheck, Unclaimed
<1>5. Worked(q)
  BY DEF Worked, RowInv
<1> QED
  BY <1>2, <1>3, <1>4, <1>5 DEF LifecycleChecks

(***************************************************************************)
(* What ingestion decides agrees with itself.                              *)
(***************************************************************************)
Agrees(d) == HintNamesMint(d) /\ PriorityMatchesHint(d)

(* The first decision of ingestion names a mint exactly when its hint does. *)
LEMMA FirstDecisionAgrees ==
  ASSUME NEW n \in NotificationType, NEW tracked, NEW programs
  PROVE  Agrees(FirstDecision(n, tracked, programs))
BY Zenon DEF Agrees, HintNamesMint, PriorityMatchesHint, FirstDecision, Conservative,
   NotificationType, TradeHints, PollerHints, Hints

(* So does the decision of the catch-up, which parks what it classifies so. *)
LEMMA CatchUpDecisionAgrees ==
  ASSUME NEW c \in ClassificationType, NEW programs
  PROVE  LET d == CatchUpDecision(c, programs)
         IN  /\ Agrees(d)
             /\ d.status \in Waiting
             /\ c.disposition \in Parked => d.status = c.disposition
             /\ c.disposition \notin Parked => d.status \notin Parked
             /\ d.status \in Parked => d.priority = "NORMAL" /\ d.hint = "NONE"
BY Zenon DEF Agrees, HintNamesMint, PriorityMatchesHint, CatchUpDecision, ClassificationDecision,
   Conservative, Undeferred, ClassificationType, Dispositions, TradeHints, PollerHints, Waiting, Parked

(* So does the convergence of a new announcement with a stored row. *)
LEMMA IngestionDecisionAgrees ==
  ASSUME NEW r \in Row, RowInv(r), NEW n \in NotificationType
  PROVE  LET d == IngestionDecision(r, n)
         IN  /\ Agrees(d)
             /\ \/ d.status = r.status
                \/ r.status = "DEFERRED" /\ d.status = "PENDING"
                \/ r.status = "PENDING" /\ IsPristineInbox(r) /\ d.status = "DEFERRED"
<1>1. Agrees(StoredDecision(r)) /\ StoredDecision(r).status = r.status
  BY DEF Agrees, HintNamesMint, PriorityMatchesHint, StoredDecision, RowInv, IngestionChecks,
     IngestionHintCheck
<1>2. ASSUME NEW tracked, NEW programs
      PROVE  LET d == ConvergeIngestion(r, n, tracked, programs)
             IN  /\ Agrees(d)
                 /\ \/ d.status = r.status
                    \/ r.status = "DEFERRED" /\ d.status = "PENDING"
                    \/ r.status = "PENDING" /\ IsPristineInbox(r) /\ d.status = "DEFERRED"
  BY ZenonT(40), <1>1 DEF Agrees, HintNamesMint, PriorityMatchesHint, ConvergeIngestion,
     Conservative,
     StoredDecision, Undeferred, RowInv, IngestionChecks, IngestionHintCheck,
     NotificationType, TradeHints, PollerHints, Hints, Row
<1> QED
  BY <1>1, <1>2 DEF IngestionDecision

(***************************************************************************)
(* The rows that ingestion writes.                                         *)
(***************************************************************************)
(* The first announcement of a signature. *)
LEMMA FreshRowKeeps ==
  ASSUME NEW slot, NEW source \in Sources, NEW programs, NEW confirmation,
         NEW d \in Decision, Agrees(d), d.status \in {"PENDING", "DEFERRED"},
         NEW q, q = FreshRow(slot, source, programs, confirmation, d), Storable(q)
  PROVE  RowInv(q)
<1>1. /\ q.status = d.status /\ q.priority = d.priority /\ q.hint = d.hint /\ q.mint = d.mint
      /\ ~q.attempted /\ q.cycle = 0 /\ q.leaseToken = 0 /\ q.snapshot = NoSnapshot
      /\ q.error = "NONE" /\ q.processedAt = 0 /\ q.next = "NONE" /\ ~q.exhausted
      /\ q.missing = 0 /\ q.provider = NoProvider /\ q.version = 0 /\ ~q.recovered
      /\ ~q.decoderEligible /\ ~q.decoderUsed /\ q.classification = NoClassification
      /\ q.purge = IF d.status = "PENDING" THEN "NONE" ELSE "PENDING"
  BY DEF FreshRow
<1>2. LifecycleChecks(q)
  BY <1>1, BoundsAssumption DEF LifecycleChecks, LeaseCheck, ErrorCheck, RetryCheck,
     ProcessedCheck, TerminalCheck, TerminalCompletionCheck, RetryPolicyCheck,
     MissingFinalityProviderCheck, DecoderEligibilityCheck, WorkerAdmissionCheck, Unclaimed
<1>3. IngestionChecks(q)
  BY Zenon, <1>1 DEF IngestionChecks, IngestionHintCheck, PriorityMatchesHint, HintNamesMint, Agrees,
     Storable, CatchUpTerminalCheck
<1>4. Worked(q) /\ ParkedAsClassified(q)
  BY <1>1 DEF SameEvidence, Worked, ParkedAsClassified, Parked
<1> QED
  BY <1>2, <1>3, <1>4 DEF RowInv, Storable

(* A classification is never mistaken for none. *)
LEMMA KeyIsKnown ==
  ASSUME NEW c \in ClassificationType
  PROVE  /\ ClassificationKey(c) # NoClassification
         /\ ClassificationKey(c).disposition = c.disposition
BY NullAssumption DEF ClassificationKey, ClassificationKeys, ClassificationType, Hints,
   TradeHints

(* The first classification of an unknown signature. *)
LEMMA ClassifiedFreshRowKeeps ==
  ASSUME NEW c \in ClassificationType,
         NEW q, q = [FreshRow(c.slot, "CATCH_UP", c.programs, c.confirmation,
                              CatchUpDecision(c, c.programs)) EXCEPT
                       !.classification = ClassificationKey(c),
                       !.catchUpPriority = IF Admits(CatchUpDecision(c, c.programs).status,
                                                     CatchUpDecision(c, c.programs).priority)
                                           THEN CatchUpDecision(c, c.programs).priority ELSE @],
         Storable(q)
  PROVE  RowInv(q)
<1> DEFINE d == CatchUpDecision(c, c.programs)
<1>1. /\ q.status = d.status /\ q.priority = d.priority /\ q.hint = d.hint /\ q.mint = d.mint
      /\ ~q.attempted /\ q.cycle = 0 /\ q.leaseToken = 0 /\ q.snapshot = NoSnapshot
      /\ q.error = "NONE" /\ q.processedAt = 0 /\ q.next = "NONE" /\ ~q.exhausted
      /\ q.missing = 0 /\ q.provider = NoProvider /\ q.version = 0 /\ ~q.recovered
      /\ ~q.decoderEligible /\ ~q.decoderUsed /\ q.classification = ClassificationKey(c)
      /\ q.purge = (IF d.status = "PENDING" THEN "NONE" ELSE "PENDING")
      /\ q.catchUpPriority =
           (IF Admits(d.status, d.priority) THEN d.priority ELSE "NOT_ENQUEUED")
  BY DEF FreshRow
<1>2. /\ ClassificationKey(c) # NoClassification
      /\ ClassificationKey(c).disposition = c.disposition
  BY Zenon, KeyIsKnown
<1>3. /\ Agrees(d) /\ d.status \in Waiting
      /\ c.disposition \in Parked => d.status = c.disposition
      /\ c.disposition \notin Parked => d.status \notin Parked
      /\ d.status \in Parked => d.priority = "NORMAL" /\ d.hint = "NONE"
  BY ZenonT(40), CatchUpDecisionAgrees
<1> HIDE DEF d
<1>4. LifecycleChecks(q)
  BY SMTT(30), <1>1, <1>3, BoundsAssumption DEF LifecycleChecks, LeaseCheck, ErrorCheck,
     RetryCheck,
     ProcessedCheck, TerminalCheck, TerminalCompletionCheck, RetryPolicyCheck,
     MissingFinalityProviderCheck, DecoderEligibilityCheck, WorkerAdmissionCheck, Unclaimed,
     Waiting, Parked
<1>5. IngestionChecks(q)
  BY <1>1, <1>2, <1>3 DEF IngestionChecks, IngestionHintCheck, PriorityMatchesHint,
     HintNamesMint, Agrees, Storable, CatchUpTerminalCheck, Parked, Unclaimed, Admits
<1>6. Worked(q) /\ ParkedAsClassified(q)
  BY <1>1, <1>2, <1>3 DEF SameEvidence, Worked, ParkedAsClassified, Waiting, Parked
<1> QED
  BY <1>4, <1>5, <1>6 DEF RowInv, Storable

(* What the notification of a known signature does to its row. *)
LEMMA ParkedRowKeeps ==
  ASSUME NEW r \in Row, RowInv(r), ParkedByClassification(r), NEW source, NEW programs,
         NEW target, NEW q, q = [Seen(r, source, programs) EXCEPT !.target = target],
         Storable(q)
  PROVE  RowInv(q)
<1>1. /\ SameWork(q, r) /\ SameDecoder(q, r) /\ SameEvidence(q, r)
      /\ q.cycle = r.cycle /\ q.processedAt = r.processedAt /\ q.leaseToken = r.leaseToken
      /\ q.next = r.next /\ q.error = r.error /\ q.exhausted = r.exhausted
      /\ q.status = r.status /\ q.purge = r.purge /\ q.admitted = r.admitted
      /\ q.priority = r.priority /\ q.hint = r.hint /\ q.mint = r.mint
      /\ q.classification = r.classification /\ q.catchUpPriority = r.catchUpPriority
      /\ q.sources = r.sources \cup {source}
  BY DEF Seen, Row, SameWork, SameDecoder, SameEvidence
<1>2. r.status \in Parked \cup {"DEFERRED"}
  BY DEF ParkedByClassification, HoldsTerminalClassification, Parked
<1>3. Continues(q, r)
  BY <1>1, <1>2 DEF Continues, SameEvidence, Waiting, Parked, RowInv, LifecycleChecks,
     MissingFinalityProviderCheck, WorkerAdmissionCheck, Unclaimed
<1>4. IngestionChecks(q)
  BY <1>1 DEF RowInv, IngestionChecks, IngestionHintCheck, PriorityMatchesHint, HintNamesMint,
     Storable, CatchUpTerminalCheck, Unclaimed, SameWork, SameEvidence
<1>5. ParkedAsClassified(q)
  BY Zenon, <1>1 DEF RowInv, ParkedAsClassified, IsPristineInbox, SameWork
<1> QED
  BY <1>3, <1>4, <1>5, ContinueKeeps DEF RowInv, Storable

(* An announcement changes at most the decision and the sources of a row   *)
(* that ingestion has not parked.                                          *)
LEMMA AnnouncedIngestion ==
  ASSUME NEW r \in Row, RowInv(r), r.status \notin Parked,
         NEW d, Agrees(d), NEW q, q.status \notin Parked,
         q.priority = d.priority, q.hint = d.hint, q.mint = d.mint,
         r.sources \subseteq q.sources,
         q.classification = r.classification, q.catchUpPriority = r.catchUpPriority,
         Storable(q)
  PROVE  IngestionChecks(q) /\ DeferredCheck(q)
BY DEF RowInv, IngestionChecks, IngestionHintCheck, PriorityMatchesHint, HintNamesMint, Agrees,
   Storable, CatchUpTerminalCheck, ParkedAsClassified, Parked

(* The announcement of a status that does not advance the stored one. *)
LEMMA AnnotatedRowKeeps ==
  ASSUME NEW r \in Row, RowInv(r), r.status = "PROCESSED", NEW n \in NotificationType,
         Storable(AnnotatedRow(r, n))
  PROVE  RowInv(AnnotatedRow(r, n))
<1> DEFINE d == IngestionDecision(r, n)
           q == AnnotatedRow(r, n)
<1>1. Agrees(d)
  BY IngestionDecisionAgrees
<1> HIDE DEF d
<1>2. /\ SameWork(q, r) /\ SameDecoder(q, r) /\ SameEvidence(q, r)
      /\ q.cycle = r.cycle /\ q.processedAt = r.processedAt /\ q.leaseToken = r.leaseToken
      /\ q.next = r.next /\ q.error = r.error /\ q.exhausted = r.exhausted
      /\ q.status = r.status /\ q.purge = r.purge /\ q.admitted = r.admitted
      /\ q.target = r.target
  BY DEF AnnotatedRow, Ingested, Seen, Row, SameWork, SameDecoder, SameEvidence
<1>3. /\ q.priority = d.priority /\ q.hint = d.hint /\ q.mint = d.mint
      /\ r.sources \subseteq q.sources
      /\ q.classification = r.classification /\ q.catchUpPriority = r.catchUpPriority
  BY Zenon DEF AnnotatedRow, Ingested, Seen, Row, d
<1> HIDE DEF q
<1>4. Continues(q, r)
  BY Zenon, <1>2 DEF Continues, SameEvidence, Waiting, Parked, RowInv, LifecycleChecks,
     MissingFinalityProviderCheck, WorkerAdmissionCheck
<1>5. IngestionChecks(q) /\ DeferredCheck(q)
  BY Zenon, <1>1, <1>2, <1>3, AnnouncedIngestion DEF Parked, q
<1>6. ParkedAsClassified(q)
  BY ZenonT(40), <1>2, <1>3 DEF RowInv, ParkedAsClassified, IsPristineInbox, SameWork, Parked
<1> QED
  BY <1>4, <1>5, <1>6, ContinueKeeps DEF RowInv, q

(* Row q is row r after one more source announced it and ingestion decided *)
(* d.                                                                      *)
Learns(q, r, source, d) ==
  /\ q.priority = d.priority /\ q.hint = d.hint /\ q.mint = d.mint
  /\ q.sources = r.sources \cup {source}
  /\ q.classification = r.classification /\ q.catchUpPriority = r.catchUpPriority
  /\ SameWork(q, r) /\ SameDecoder(q, r) /\ SameEvidence(q, r)
  /\ q.next = r.next /\ q.error = r.error /\ q.leaseToken = r.leaseToken
  /\ q.cycle = r.cycle /\ q.exhausted = r.exhausted
  /\ q.processedAt = r.processedAt /\ q.status = r.status /\ q.purge = r.purge
  /\ q.admitted = r.admitted

(* An announcement adds its source and its programs, and stores its decision. *)
LEMMA SeenIngestedLearns ==
  ASSUME NEW r \in Row, NEW source \in Sources, NEW programs \in SUBSET Programs,
         NEW d \in Decision
  PROVE  /\ Ingested(Seen(r, source, programs), d) \in Row
         /\ Learns(Ingested(Seen(r, source, programs), d), r, source, d)
<1> DEFINE q == Ingested(Seen(r, source, programs), d)
<1>1. q \in Row
  BY SeenIngestedType
<1>2. /\ q.priority = d.priority /\ q.hint = d.hint /\ q.mint = d.mint
      /\ q.sources = r.sources \cup {source}
      /\ q.classification = r.classification /\ q.catchUpPriority = r.catchUpPriority
  BY DEF Ingested, Seen, Row
<1>3. SameWork(q, r) /\ SameDecoder(q, r) /\ SameEvidence(q, r)
  BY DEF Ingested, Seen, Row, SameWork, SameDecoder, SameEvidence
<1>4. /\ q.next = r.next /\ q.error = r.error /\ q.leaseToken = r.leaseToken
      /\ q.cycle = r.cycle /\ q.exhausted = r.exhausted
      /\ q.processedAt = r.processedAt /\ q.status = r.status /\ q.purge = r.purge
      /\ q.admitted = r.admitted
  BY DEF Ingested, Seen, Row
<1> HIDE DEF q
<1> QED
  BY <1>1, <1>2, <1>3, <1>4 DEF q, Learns

(* enqueue() of a known signature: the row is reopened or goes on. *)
LEMMA EnqueuedRowKeeps ==
  ASSUME NEW r \in Row, RowInv(r), ~ParkedByClassification(r), NEW n \in NotificationType,
         Storable(EnqueuedRow(r, n))
  PROVE  RowInv(EnqueuedRow(r, n))
<1> DEFINE d == IngestionDecision(r, n)
           next == Reconciled(r.target, n.confirmation)
           replay == r.status = "PROCESSED" /\ next # r.target
           seen == Ingested(Seen(r, n.source, n.programs), d)
           zero == \/ d.status = "DEFERRED"
                   \/ enabled /\ ~r.admitted /\ d.priority = "NORMAL"
           q == EnqueuedRow(r, n)
<1>1. /\ Agrees(d)
      /\ \/ d.status = r.status
         \/ r.status = "DEFERRED" /\ d.status = "PENDING"
         \/ r.status = "PENDING" /\ IsPristineInbox(r) /\ d.status = "DEFERRED"
  BY IngestionDecisionAgrees
<1>2. r.status \notin Parked
  BY DEF RowInv, ParkedAsClassified, ParkedByClassification, HoldsTerminalClassification, Parked
<1>3. seen \in Row /\ Learns(seen, r, n.source, d)
  <2>1. n.source \in Sources /\ n.programs \in SUBSET Programs /\ d \in Decision
    BY IngestionDecisionType DEF NotificationType
  <2> QED
    BY Zenon, <2>1, SeenIngestedLearns
<1> DEFINE purge == IF d.status = "DEFERRED"
                    THEN IF seen.purge = "NONE" THEN "PENDING" ELSE seen.purge
                    ELSE IF r.status = "DEFERRED" THEN "NONE" ELSE seen.purge
           running == [WithoutMissing(seen) EXCEPT
                         !.target = next, !.status = d.status, !.purge = purge]
           base == IF r.status = "PROCESSED" /\ next # r.target
                   THEN Reopened(seen, next) ELSE running
           version == IF zero THEN 0 ELSE base.version + 1
           admitted == base.admitted \/ Admits(base.status, d.priority)
<1> HIDE DEF d, next, seen
<1>4. WithoutMissing(seen).purge = seen.purge
  BY <1>3 DEF WithoutMissing, Row
<1>5. q = [base EXCEPT !.version = version, !.admitted = admitted]
  BY <1>4 DEF EnqueuedRow, d, next, seen
<1>6. Storable(q)
  OBVIOUS
<1> HIDE DEF purge, zero, running, base, version, admitted, q
<1>7. CASE replay
  <2>1. base = Reopened(seen, next)
    BY <1>7 DEF base
  <2>2. /\ Restarts(q, seen) /\ SameIngestion(q, seen) /\ q.admitted = admitted
    BY ZenonT(40), <1>3, <1>5, <2>1 DEF Reopened, NewCycle, WithoutMissing, Row, Restarts, SameWork,
       SameDecoder, SameIngestion
  <2>3. admitted = (seen.admitted \/ Admits(base.status, d.priority))
    BY <1>3, <2>1 DEF Reopened, NewCycle, WithoutMissing, Row, admitted
  <2>4. Restarts(q, r) /\ q.admitted
    BY ZenonT(40), <1>3, <1>7, <2>2, <2>3 DEF Restarts, SameWork, SameDecoder, RowInv,
       LifecycleChecks,
       WorkerAdmissionCheck, Learns
  <2>5. /\ q.status \notin Parked
        /\ q.priority = d.priority /\ q.hint = d.hint /\ q.mint = d.mint
        /\ r.sources \subseteq q.sources
        /\ q.classification = r.classification /\ q.catchUpPriority = r.catchUpPriority
    BY Zenon, <1>3, <2>2, <2>4 DEF Learns, SameIngestion, Restarts, Parked
  <2>6. IngestionChecks(q)
    BY Zenon, <1>1, <1>2, <1>6, <2>5, AnnouncedIngestion
  <2> QED
    BY <1>7, <2>4, <2>6, RestartKeeps DEF q
<1>8. CASE ~replay
  <2>1. base = running
    BY <1>8 DEF base
  <2>2. /\ q.status = d.status /\ q.target = next /\ q.purge = purge
        /\ q.admitted = admitted /\ q.version = version
    BY Zenon, <1>3, <1>5, <2>1 DEF running, WithoutMissing, Row
  <2>3. /\ SameIngestion(q, seen) /\ SameWork(q, seen) /\ SameDecoder(q, seen)
        /\ q.missing = 0 /\ q.provider = NoProvider
        /\ q.next = seen.next /\ q.error = seen.error /\ q.leaseToken = seen.leaseToken
        /\ q.cycle = seen.cycle /\ q.exhausted = seen.exhausted
        /\ q.processedAt = seen.processedAt
    BY Zenon, <1>3, <1>5, <2>1 DEF running, WithoutMissing, Row, SameWork, SameDecoder, SameIngestion
  <2>4. admitted = (seen.admitted \/ Admits(d.status, d.priority))
    BY Zenon, <1>3, <2>1 DEF running, WithoutMissing, Row, admitted
  <2>5. r.status \in InboxStatuses /\ r.admitted \in BOOLEAN
    BY DEF Row
  <2>6. r.status = "PENDING" => r.purge = "NONE"
    BY DEF RowInv, LifecycleChecks, TerminalCheck
  <2>7. ~q.admitted => ~r.admitted /\ q.version = 0
    <3>1. ~q.admitted => ~r.admitted /\ ~Admits(d.status, d.priority)
      BY Zenon, <1>3, <2>2, <2>4, <2>5 DEF Learns
    <3>2. ~r.admitted => r.status \in {"PENDING", "DEFERRED"}
      BY <1>2, <2>5 DEF RowInv, LifecycleChecks, WorkerAdmissionCheck, InboxStatuses, Parked
    <3>3. ~r.admitted => d.status \in {"PENDING", "DEFERRED"}
      BY <1>1, <3>2
    <3> QED
      BY <2>2, <3>1, <3>3 DEF Admits, zero, version
  <2>8. Continues(q, r)
    BY ZenonT(40), <1>1, <1>2, <1>3, <1>8, <2>2, <2>3, <2>5, <2>6, <2>7
       DEF Continues, Waiting, Parked, InboxStatuses, purge, Learns, SameWork, SameDecoder
  <2>9. /\ q.status \notin Parked
        /\ q.priority = d.priority /\ q.hint = d.hint /\ q.mint = d.mint
        /\ r.sources \subseteq q.sources
        /\ q.classification = r.classification /\ q.catchUpPriority = r.catchUpPriority
    BY Zenon, <1>1, <1>2, <1>3, <2>2, <2>3 DEF Learns, SameIngestion, Parked
  <2>10. IngestionChecks(q) /\ DeferredCheck(q)
    BY <1>1, <1>2, <1>6, <2>9, AnnouncedIngestion
  <2>11. ParkedAsClassified(q)
    BY ZenonT(40), <1>1, <1>2, <1>3, <2>2, <2>3 DEF RowInv, ParkedAsClassified, IsPristineInbox,
       SameWork,
       SameIngestion, Learns, Parked
  <2> QED
    BY Zenon, <2>8, <2>10, <2>11, ContinueKeeps DEF RowInv, q
<1> QED
  BY <1>7, <1>8

(***************************************************************************)
(* The rows that catch-up writes.                                          *)
(***************************************************************************)

(* The same classification again. *)
LEMMA ReplayedRowKeeps ==
  ASSUME NEW r \in Row, RowInv(r), NEW c \in ClassificationType,
         r.classification = ClassificationKey(c), Storable(ReplayedRow(r, c))
  PROVE  RowInv(ReplayedRow(r, c))
<1> DEFINE pristine == IsPristineInbox(r)
           d == IF pristine THEN CatchUpDecision(c, r.programs \cup c.programs)
                ELSE StoredDecision(r)
           next == Reconciled(r.target, c.confirmation)
           seen == Ingested(Seen(r, "CATCH_UP", c.programs), d)
           purge == IF d.status = "PENDING" THEN "NONE"
                    ELSE IF seen.purge = "NONE" /\ pristine /\ d.status = "DEFERRED"
                    THEN "PENDING" ELSE seen.purge
           reopened == [Reopened(seen, next) EXCEPT !.version = Reopened(seen, next).version + 1]
           running == [seen EXCEPT !.target = next, !.status = d.status, !.purge = purge]
           base == IF ClassificationReplays(r, c) THEN reopened ELSE running
           newlyAdmitted == /\ enabled /\ r.catchUpPriority = "NOT_ENQUEUED" /\ ~r.admitted
                            /\ d.status = "PENDING" /\ d.priority # "NORMAL"
           admitted == base.admitted \/ Admits(base.status, d.priority)
           catchUpPriority == IF newlyAdmitted THEN d.priority ELSE base.catchUpPriority
           q == ReplayedRow(r, c)
<1>1. /\ ClassificationKey(c) # NoClassification
      /\ ClassificationKey(c).disposition = c.disposition
  BY Zenon, KeyIsKnown
<1>2. /\ Agrees(d)
      /\ ~pristine => d.status = r.status
      /\ pristine => /\ d.status \in Waiting
                     /\ c.disposition \in Parked => d.status = c.disposition
                     /\ c.disposition \notin Parked => d.status \notin Parked
                     /\ d.status \in Parked => d.priority = "NORMAL" /\ d.hint = "NONE"
  <2>1. Agrees(StoredDecision(r)) /\ StoredDecision(r).status = r.status
    BY DEF Agrees, HintNamesMint, PriorityMatchesHint, StoredDecision, RowInv, IngestionChecks,
       IngestionHintCheck
  <2> QED
    BY Zenon, <2>1, CatchUpDecisionAgrees
<1>3. seen \in Row /\ Learns(seen, r, "CATCH_UP", d)
  <2>1. c.programs \in SUBSET Programs /\ d \in Decision /\ "CATCH_UP" \in Sources
    BY CatchUpDecisionType, StoredDecisionType, ClassificationKeyType DEF Sources
  <2> HIDE DEF d
  <2> QED
    BY ZenonT(40), <2>1, SeenIngestedLearns
<1>4. q = [base EXCEPT !.admitted = admitted, !.catchUpPriority = catchUpPriority]
  BY DEF ReplayedRow
<1>5. Storable(q)
  OBVIOUS
<1>6. r.admitted \in BOOLEAN /\ r.status \in InboxStatuses
  BY DEF Row
<1>7. ~r.admitted => pristine
  BY DEF RowInv, LifecycleChecks, WorkerAdmissionCheck, Unclaimed, IsPristineInbox
<1>8. pristine => r.status \in Waiting
  BY Zenon, <1>6 DEF RowInv, Worked, IsPristineInbox, InboxStatuses, Waiting, Parked
<1>9. ~pristine => d.priority = r.priority /\ d.hint = r.hint /\ d.mint = r.mint
  BY DEF StoredDecision
<1> HIDE DEF d, next, seen, purge, reopened, running, base, newlyAdmitted, admitted,
        catchUpPriority, q, pristine
<1>10. CASE ClassificationReplays(r, c)
  <2>1. r.status = "PROCESSED" /\ r.admitted /\ ~pristine /\ base = reopened
    BY <1>8, <1>10 DEF ClassificationReplays, base, RowInv, LifecycleChecks,
       WorkerAdmissionCheck, Waiting, Parked
  <2>2. ~newlyAdmitted
    BY <2>1 DEF newlyAdmitted
  <2>3. /\ Restarts(reopened, seen) /\ SameIngestion(reopened, seen)
        /\ reopened.admitted = seen.admitted
    BY <1>3, ReopenedRestarts DEF reopened
  <2>4. Restarts(q, seen) /\ SameIngestion(q, seen) /\ q.admitted
    <3>1. admitted /\ catchUpPriority = seen.catchUpPriority
      BY <1>3, <2>1, <2>2, <2>3 DEF admitted, catchUpPriority, SameIngestion, Learns
    <3>2. [reopened EXCEPT !.admitted = TRUE, !.catchUpPriority = seen.catchUpPriority] = q
      BY ZenonT(40), <1>4, <1>6, <2>1, <3>1, <1>3 DEF admitted, Learns
    <3> QED
      BY ZenonT(40), <1>3, <3>2 DEF reopened, Reopened, NewCycle, WithoutMissing, Row,
         Restarts, SameWork,
         SameDecoder, SameIngestion
  <2>5. Restarts(q, r)
    BY ZenonT(40), <1>3, <2>4 DEF Restarts, SameWork, SameDecoder, Learns
  <2>6. /\ q.status \notin Parked /\ r.status \notin Parked
        /\ q.priority = d.priority /\ q.hint = d.hint /\ q.mint = d.mint
        /\ r.sources \subseteq q.sources
        /\ q.classification = r.classification /\ q.catchUpPriority = r.catchUpPriority
    BY <1>3, <2>1, <2>4 DEF Learns, SameIngestion, Restarts, Parked
  <2>7. IngestionChecks(q)
    BY Zenon, <1>2, <1>5, <2>6, AnnouncedIngestion
  <2> QED
    BY Zenon, <2>1, <2>4, <2>5, <2>7, RestartKeeps DEF q
<1>11. CASE ~ClassificationReplays(r, c)
  <2>1. base = running
    BY <1>11 DEF base
  <2>2. /\ q.status = d.status /\ q.target = next /\ q.purge = purge
        /\ q.admitted = admitted /\ q.catchUpPriority = catchUpPriority
    BY Zenon, <1>3, <1>4, <2>1 DEF running, Row
  <2>3. /\ SameWork(q, seen) /\ SameDecoder(q, seen) /\ SameEvidence(q, seen)
        /\ q.priority = seen.priority /\ q.hint = seen.hint /\ q.mint = seen.mint
        /\ q.sources = seen.sources /\ q.classification = seen.classification
        /\ q.next = seen.next /\ q.error = seen.error /\ q.leaseToken = seen.leaseToken
        /\ q.cycle = seen.cycle /\ q.exhausted = seen.exhausted
        /\ q.processedAt = seen.processedAt
    BY Zenon, <1>3, <1>4, <2>1 DEF running, Row, SameWork, SameDecoder, SameEvidence
  <2>4. /\ admitted = (seen.admitted \/ Admits(d.status, d.priority))
        /\ base.catchUpPriority = seen.catchUpPriority
    BY ZenonT(40), <1>3, <2>1 DEF running, Row, admitted
  <2>5. /\ ~q.admitted => ~r.admitted
        /\ q.catchUpPriority = (IF newlyAdmitted THEN d.priority ELSE r.catchUpPriority)
    BY <1>3, <1>6, <2>2, <2>4 DEF Learns, catchUpPriority
  <2>6. /\ r.status = "PENDING" => r.purge = "NONE"
        /\ r.status \in Parked => c.disposition = r.status
        /\ pristine /\ c.disposition \in Parked => r.status = c.disposition
        /\ ~r.admitted => r.version = 0 /\ r.missing = 0
        /\ (r.missing = 0) <=> (r.provider = NoProvider)
    BY Zenon, <1>1 DEF RowInv, LifecycleChecks, TerminalCheck, ParkedAsClassified, pristine,
       WorkerAdmissionCheck, Unclaimed, MissingFinalityProviderCheck
  <2>7. Continues(q, r)
    <3>1. r.status = "PROCESSED" => next = r.target
      BY <1>11 DEF ClassificationReplays, next
    <3>2. q.status = r.status \/ {q.status, r.status} \subseteq Waiting
      BY <1>2, <1>8, <2>2
    <3>3. q.status = "PENDING" => q.purge = "NONE" /\ r.status \notin Parked
      BY Zenon, <1>2, <2>2, <2>6 DEF purge, Parked
    <3>4. q.status \notin Waiting => q.purge = r.purge
      BY Zenon, <1>2, <1>3, <2>2 DEF purge, Waiting, Learns
    <3>5. q.status = "PROCESSED" => q.target = r.target
      BY <1>2, <2>2, <3>1 DEF Waiting, Parked
    <3>6. ~q.admitted => ~r.admitted /\ q.version = 0 /\ q.missing = 0
      BY ZenonT(40), <1>3, <2>3, <2>5, <2>6 DEF SameEvidence, Learns
    <3> QED
      BY ZenonT(40), <1>3, <2>3, <2>6, <3>2, <3>3, <3>4, <3>5, <3>6
         DEF Continues, SameWork, SameDecoder, SameEvidence, Learns
  <2>8. IngestionHintCheck(q) /\ PriorityMatchesHint(q)
    BY Zenon, <1>2, <1>3, <2>3 DEF Agrees, IngestionHintCheck, HintNamesMint, PriorityMatchesHint,
       Learns
  <2>9. CatchUpTerminalCheck(q)
    <3>1. q.classification = r.classification
      BY Zenon, <1>3, <2>3 DEF Learns
    <3>2. CASE c.disposition \notin Parked
      <4>1. d.status \notin Parked
        BY <1>2, <2>6, <3>2
      <4> QED
        BY Zenon, <1>1, <2>2, <3>1, <3>2, <4>1 DEF CatchUpTerminalCheck, Parked
    <3>3. CASE c.disposition \in Parked
      <4>1. ~newlyAdmitted
        BY Zenon, <1>2, <1>7, <3>3 DEF newlyAdmitted, Parked
      <4>2. q.catchUpPriority = r.catchUpPriority /\ r.sources \subseteq q.sources
        BY Zenon, <1>3, <2>3, <2>5, <4>1 DEF Learns
      <4>3. d.status = r.status
        BY <1>2, <2>6, <3>3
      <4>4. Unclaimed(r) => Unclaimed(q)
        BY Zenon, <1>3, <2>3 DEF Unclaimed, SameWork, SameEvidence, Learns
      <4>5. r.status \in Parked =>
              /\ q.purge = r.purge
              /\ \/ q.priority = r.priority /\ q.hint = r.hint
                 \/ q.priority = "NORMAL" /\ q.hint = "NONE"
        BY Zenon, <1>2, <1>3, <1>9, <2>2, <2>3, <4>3 DEF Learns, purge, Parked
      <4> QED
        BY ZenonT(40), <1>1, <2>2, <3>1, <3>3, <4>2, <4>3, <4>4, <4>5
           DEF RowInv, IngestionChecks, CatchUpTerminalCheck, Parked
    <3> QED
      BY Zenon, <3>2, <3>3
  <2>10. ParkedAsClassified(q)
    BY ZenonT(40), <1>1, <1>2, <1>3, <2>2, <2>3, <2>6 DEF ParkedAsClassified, pristine,
       IsPristineInbox,
       SameWork, Learns, Parked
  <2> QED
    BY Zenon, <1>5, <2>7, <2>8, <2>9, <2>10, ContinueKeeps DEF RowInv, IngestionChecks, Storable, q
<1> QED
  BY <1>10, <1>11

(* The first classification of a row that a WebSocket announced. *)
LEMMA ClassifiedRowKeeps ==
  ASSUME NEW r \in Row, RowInv(r), NEW c \in ClassificationType,
         r.classification = NoClassification, "WEBSOCKET" \in r.sources,
         Storable(ClassifiedRow(r, c))
  PROVE  RowInv(ClassifiedRow(r, c))
<1> DEFINE pristine == IsPristineInbox(r)
           d == CatchUpDecision(c, r.programs \cup c.programs)
           next == Reconciled(r.target, c.confirmation)
           replays == ClassificationReplays(r, c)
           seen == Ingested(Seen(r, "CATCH_UP", c.programs), d)
           status == IF pristine THEN d.status ELSE seen.status
           purge == IF ~pristine THEN seen.purge
                    ELSE IF d.status = "PENDING" THEN "NONE" ELSE "PENDING"
           reopened == [Reopened(seen, next) EXCEPT !.version = Reopened(seen, next).version + 1]
           running == [seen EXCEPT !.target = next, !.status = status, !.purge = purge]
           base == IF replays THEN reopened ELSE running
           admitted == base.admitted \/ Admits(base.status, d.priority)
           enqueued == IF enabled THEN ~r.admitted /\ Admits(base.status, d.priority)
                       ELSE r.status = "DEFERRED" /\ d.status = "PENDING"
           catchUpPriority == IF enqueued THEN d.priority ELSE "NOT_ENQUEUED"
           q == ClassifiedRow(r, c)
<1>1. /\ ClassificationKey(c) # NoClassification
      /\ ClassificationKey(c).disposition = c.disposition
  BY Zenon, KeyIsKnown
<1>2. /\ Agrees(d) /\ d.status \in Waiting
      /\ c.disposition \in Parked => d.status = c.disposition
      /\ c.disposition \notin Parked => d.status \notin Parked
      /\ d.status \in Parked => d.priority = "NORMAL" /\ d.hint = "NONE"
  BY CatchUpDecisionAgrees
<1>3. seen \in Row /\ Learns(seen, r, "CATCH_UP", d)
  <2>1. c.programs \in SUBSET Programs /\ d \in Decision /\ "CATCH_UP" \in Sources
    BY CatchUpDecisionType, ClassificationKeyType DEF Sources
  <2> HIDE DEF d
  <2> QED
    BY Zenon, <2>1, SeenIngestedLearns
<1>4. q = [base EXCEPT !.admitted = admitted, !.classification = ClassificationKey(c),
                       !.catchUpPriority = catchUpPriority]
  BY Zenon DEF ClassifiedRow
<1>5. Storable(q)
  OBVIOUS
<1>6. r.admitted \in BOOLEAN /\ r.status \in InboxStatuses /\ r.status \notin Parked
  BY Zenon DEF Row, RowInv, ParkedAsClassified
<1>7. pristine => r.status \in Waiting
  BY ZenonT(40), <1>6 DEF RowInv, Worked, IsPristineInbox, InboxStatuses, Waiting, Parked
<1> HIDE DEF d, next, seen, status, purge, reopened, running, base, admitted, enqueued,
        catchUpPriority, q, pristine
<1>8. CASE replays
  <2>1. r.status = "PROCESSED" /\ r.admitted /\ ~pristine /\ base = reopened
    BY Zenon, <1>7, <1>8 DEF ClassificationReplays, base, RowInv, LifecycleChecks,
       WorkerAdmissionCheck, Waiting, Parked
  <2>2. catchUpPriority = "NOT_ENQUEUED"
    BY <2>1 DEF enqueued, catchUpPriority
  <2>3. /\ Restarts(q, seen) /\ q.admitted = admitted
        /\ q.classification = ClassificationKey(c) /\ q.catchUpPriority = catchUpPriority
        /\ q.priority = seen.priority /\ q.hint = seen.hint /\ q.mint = seen.mint
        /\ q.sources = seen.sources /\ reopened.admitted = seen.admitted
    BY <1>3, <1>4, <2>1 DEF reopened, Reopened, NewCycle, WithoutMissing, Row, Restarts,
       SameWork, SameDecoder
  <2>4. Restarts(q, r) /\ q.admitted
    BY ZenonT(40), <1>3, <2>1, <2>3 DEF Restarts, SameWork, SameDecoder, Learns, admitted
  <2>5. IngestionChecks(q)
    BY ZenonT(40), <1>2, <1>3, <1>5, <2>2, <2>3, <2>4 DEF IngestionChecks, IngestionHintCheck,
       PriorityMatchesHint, HintNamesMint, Agrees, Storable, CatchUpTerminalCheck, Restarts,
       Learns
  <2> QED
    BY <2>1, <2>4, <2>5, RestartKeeps DEF q
<1>9. CASE ~replays
  <2>1. base = running
    BY Zenon, <1>9 DEF base
  <2>2. /\ q.status = status /\ q.target = next /\ q.purge = purge
        /\ q.admitted = admitted /\ q.catchUpPriority = catchUpPriority
        /\ q.classification = ClassificationKey(c)
    BY ZenonT(40), <1>3, <1>4, <2>1 DEF running, Row
  <2>3. /\ SameWork(q, seen) /\ SameDecoder(q, seen) /\ SameEvidence(q, seen)
        /\ q.priority = seen.priority /\ q.hint = seen.hint /\ q.mint = seen.mint
        /\ q.sources = seen.sources
        /\ q.next = seen.next /\ q.error = seen.error /\ q.leaseToken = seen.leaseToken
        /\ q.cycle = seen.cycle /\ q.exhausted = seen.exhausted
        /\ q.processedAt = seen.processedAt
    BY <1>3, <1>4, <2>1 DEF running, Row, SameWork, SameDecoder, SameEvidence
  <2>4. /\ admitted = (seen.admitted \/ Admits(status, d.priority))
        /\ base.status = status
    BY Zenon, <1>3, <2>1 DEF running, Row, admitted
  <2>5. ~q.admitted => ~r.admitted
    BY Zenon, <1>3, <1>6, <2>2, <2>4 DEF Learns
  <2>6. /\ r.status = "PENDING" => r.purge = "NONE"
        /\ ~r.admitted => r.version = 0 /\ r.missing = 0
        /\ (r.missing = 0) <=> (r.provider = NoProvider)
    BY Zenon DEF RowInv, LifecycleChecks, TerminalCheck, WorkerAdmissionCheck, Unclaimed,
       MissingFinalityProviderCheck
  <2>7. status = IF pristine THEN d.status ELSE r.status
    BY Zenon, <1>3 DEF status, Learns
  <2>8. Continues(q, r)
    <3>1. r.status = "PROCESSED" => next = r.target
      BY Zenon, <1>9 DEF ClassificationReplays, next
    <3>2. q.status = r.status \/ {q.status, r.status} \subseteq Waiting
      BY Zenon, <1>2, <1>7, <2>2, <2>7
    <3>3. q.status = "PENDING" => q.purge = "NONE" /\ r.status \notin Parked
      BY ZenonT(40), <1>3, <1>6, <2>2, <2>6, <2>7 DEF purge, Learns
    <3>4. q.status \notin Waiting => q.purge = r.purge
      BY Zenon, <1>2, <1>3, <2>2, <2>7 DEF purge, Learns
    <3>5. q.status = "PROCESSED" => q.target = r.target
      BY Zenon, <1>2, <2>2, <2>7, <3>1 DEF Waiting, Parked
    <3>6. q.version = r.version /\ q.missing = r.missing
      BY Zenon, <1>3, <2>3 DEF SameEvidence, Learns
    <3>7. ~q.admitted => ~r.admitted /\ q.version = 0 /\ q.missing = 0
      BY ONLY Zenon, <2>5, <2>6, <3>6
    <3> QED
      BY ZenonT(40), <1>3, <2>3, <2>6, <3>2, <3>3, <3>4, <3>5, <3>7
         DEF Continues, SameWork, SameDecoder, SameEvidence, Learns
  <2>9. IngestionHintCheck(q) /\ PriorityMatchesHint(q)
    BY Zenon, <1>2, <1>3, <2>3 DEF Agrees, IngestionHintCheck, HintNamesMint, PriorityMatchesHint,
       Learns
  <2>10. CatchUpTerminalCheck(q)
    <3>1. CASE c.disposition \notin Parked
      <4>1. q.status \notin Parked
        BY Zenon, <1>2, <1>6, <2>2, <2>7, <3>1
      <4> QED
        BY Zenon, <1>1, <2>2, <3>1, <4>1 DEF CatchUpTerminalCheck, Parked
    <3>2. CASE c.disposition \in Parked
      <4>1. catchUpPriority = "NOT_ENQUEUED"
        BY ZenonT(40), <1>2, <3>2 DEF catchUpPriority, enqueued, Admits, Parked
      <4>2. "WEBSOCKET" \in q.sources
        BY <1>3, <2>3 DEF Learns
      <4> QED
        BY Zenon, <1>1, <2>2, <3>2, <4>1, <4>2 DEF CatchUpTerminalCheck, Parked
    <3> QED
      BY Zenon, <3>1, <3>2
  <2>11. ParkedAsClassified(q)
    BY ZenonT(40), <1>1, <1>2, <1>3, <1>6, <2>2, <2>3, <2>7 DEF ParkedAsClassified, pristine,
       IsPristineInbox, SameWork, Learns
  <2> QED
    BY Zenon, <1>5, <2>8, <2>9, <2>10, <2>11, ContinueKeeps DEF RowInv, IngestionChecks,
       Storable, q
<1> QED
  BY <1>8, <1>9

(***************************************************************************)
(* A trade that follows the tracking of its mint.                          *)
(***************************************************************************)
LEMMA SyncedRowKeeps ==
  ASSUME NEW r \in Row, RowInv(r), NEW m, NEW active \in BOOLEAN, FollowsTracking(r, m, active)
  PROVE  RowInv(SyncedRow(r, active))
<1> DEFINE q == SyncedRow(r, active)
<1>1. /\ r.hint = "PUMPFUN_TRADE" /\ r.status \in {"PENDING", "DEFERRED"}
      /\ r.mint # NoMint
  BY Zenon DEF FollowsTracking, RowInv, IngestionChecks, IngestionHintCheck, HintNamesMint, TradeHints
<1>2. r.classification # NoClassification =>
        /\ r.classification.disposition \notin Parked
        /\ r.classification.disposition = "ACTIONABLE" => r.classification.hint = "PUMPFUN_TRADE"
  BY Zenon, <1>1 DEF RowInv, IngestionChecks, CatchUpClassificationCheck, Parked
<1>3. CASE Cardinality(r.programs) > 1
  <2>1. /\ q.status = "PENDING" /\ q.priority = "NORMAL" /\ q.hint = "NONE"
        /\ q.mint = NoMint /\ q.purge = "NONE" /\ q.admitted
    BY <1>3 DEF SyncedRow, Row
  <2>2. /\ SameWork(q, r) /\ SameDecoder(q, r) /\ SameEvidence(q, r)
        /\ q.sources = r.sources /\ q.classification = r.classification
        /\ q.catchUpPriority = r.catchUpPriority
        /\ q.next = r.next /\ q.error = r.error /\ q.leaseToken = r.leaseToken
        /\ q.cycle = r.cycle /\ q.exhausted = r.exhausted /\ q.processedAt = r.processedAt
    BY <1>3 DEF SyncedRow, Row, SameWork, SameDecoder, SameEvidence
  <2> HIDE DEF q
  <2>3. Continues(q, r)
    BY Zenon, <1>1, <2>1, <2>2 DEF Continues, SameEvidence, Waiting, Parked, RowInv,
       LifecycleChecks,
       MissingFinalityProviderCheck
  <2>4. IngestionChecks(q)
    BY ZenonT(40), <1>1, <1>2, <2>1, <2>2 DEF RowInv, IngestionChecks, IngestionHintCheck,
       PriorityMatchesHint, HintNamesMint, CatchUpClassificationCheck, CatchUpTerminalCheck,
       Parked, TradeHints, PollerHints
  <2>5. ParkedAsClassified(q) /\ DeferredCheck(q)
    BY Zenon, <1>2, <2>1, <2>2 DEF ParkedAsClassified, DeferredCheck, Parked
  <2> QED
    BY Zenon, <2>3, <2>4, <2>5, ContinueKeeps DEF RowInv, q
<1>4. CASE ~(Cardinality(r.programs) > 1)
  <2>1. /\ q.status = (IF active THEN "PENDING" ELSE "DEFERRED")
        /\ q.priority = (IF active THEN "TRACKED_TRADE" ELSE "NORMAL")
        /\ q.purge = (IF active THEN "NONE" ELSE "PENDING")
        /\ q.version = 0 /\ q.admitted = (r.admitted \/ active)
        /\ q.missing = 0 /\ q.provider = NoProvider
    BY Zenon, <1>4 DEF SyncedRow, WithoutMissing, Row
  <2>2. /\ SameWork(q, r) /\ SameDecoder(q, r)
        /\ q.sources = r.sources /\ q.classification = r.classification
        /\ q.catchUpPriority = r.catchUpPriority /\ q.hint = r.hint /\ q.mint = r.mint
        /\ q.next = r.next /\ q.error = r.error /\ q.leaseToken = r.leaseToken
        /\ q.cycle = r.cycle /\ q.exhausted = r.exhausted /\ q.processedAt = r.processedAt
    BY Zenon, <1>4 DEF SyncedRow, WithoutMissing, Row, SameWork, SameDecoder
  <2> HIDE DEF q
  <2>3. r.admitted \in BOOLEAN
    BY DEF Row
  <2>4. Continues(q, r)
    BY Zenon, <1>1, <2>1, <2>2, <2>3 DEF Continues, Waiting, Parked
  <2>5. IngestionChecks(q)
    BY Zenon, <1>1, <1>2, <2>1, <2>2 DEF RowInv, IngestionChecks, IngestionHintCheck,
       PriorityMatchesHint, HintNamesMint, CatchUpClassificationCheck, CatchUpTerminalCheck,
       Parked, TradeHints, PollerHints
  <2>6. DeferredCheck(q)
    <3>1. ~active => r.status = "PENDING" /\ IsPristineInbox(r)
      BY Zenon, <1>4 DEF FollowsTracking
    <3>2. r.status = "PENDING" => r.error = "NONE" /\ r.next = "NONE" /\ ~r.exhausted
      BY ZenonT(40) DEF RowInv, LifecycleChecks, ErrorCheck, RetryCheck
    <3> QED
      BY Zenon, <1>1, <2>1, <2>2, <3>1, <3>2 DEF DeferredCheck, Unclaimed, IsPristineInbox,
         SameWork
  <2>7. ParkedAsClassified(q)
    BY <1>2, <2>1, <2>2 DEF ParkedAsClassified, Parked
  <2> QED
    BY Zenon, <2>4, <2>5, <2>6, <2>7, ContinueKeeps DEF RowInv, q
<1> QED
  BY <1>3, <1>4

(***************************************************************************)
(* Leases, snapshots and deadlines.                                        *)
(***************************************************************************)
(* A lease expires or is renewed. *)
LEMMA LeaseClockKeeps ==
  ASSUME NEW r \in Row, RowInv(r), NEW expired
  PROVE  RowInv([r EXCEPT !.leaseExpired = expired])
<1> DEFINE q == [r EXCEPT !.leaseExpired = expired]
<1>1. /\ SameWork(q, r) /\ SameDecoder(q, r) /\ SameEvidence(q, r) /\ SameIngestion(q, r)
      /\ q.next = r.next /\ q.error = r.error /\ q.leaseToken = r.leaseToken
      /\ q.cycle = r.cycle /\ q.exhausted = r.exhausted /\ q.processedAt = r.processedAt
      /\ q.status = r.status /\ q.purge = r.purge /\ q.admitted = r.admitted
      /\ q.target = r.target
  BY DEF Row, SameWork, SameDecoder, SameEvidence, SameIngestion
<1> HIDE DEF q
<1>2. LifecycleChecks(q)
  BY ZenonT(40), <1>1 DEF SameWork, SameEvidence, SameDecoder, RowInv, Unclaimed,
     LifecycleChecks, LeaseCheck, ErrorCheck, RetryCheck, ProcessedCheck, TerminalCheck,
     TerminalCompletionCheck, RetryPolicyCheck, MissingFinalityProviderCheck,
     DecoderEligibilityCheck, WorkerAdmissionCheck
<1>3. IngestionChecks(q) /\ DeferredCheck(q)
  BY ZenonT(40), <1>1 DEF RowInv, SameIngestion, SameWork, SameEvidence, IngestionChecks,
     IngestionHintCheck, PriorityMatchesHint, HintNamesMint, CatchUpClassificationCheck,
     CatchUpTerminalCheck, DeferredCheck, Unclaimed
<1>4. Worked(q) /\ ParkedAsClassified(q)
  BY Zenon, <1>1 DEF SameEvidence, RowInv, SameIngestion, SameWork, Worked, ParkedAsClassified,
     IsPristineInbox
<1> QED
  BY <1>2, <1>3, <1>4 DEF RowInv, q

(* A worker saves the snapshot of its transaction. *)
LEMMA SnapshotKeeps ==
  ASSUME NEW r \in Row, RowInv(r), r.status = "PROCESSING", NEW f \in Fingerprints
  PROVE  RowInv([r EXCEPT !.snapshot = f])
<1> DEFINE q == [r EXCEPT !.snapshot = f]
<1>1. /\ q.snapshot = f /\ q.attempted = r.attempted /\ q.recovered = r.recovered
      /\ SameDecoder(q, r) /\ SameEvidence(q, r) /\ SameIngestion(q, r)
      /\ q.next = r.next /\ q.error = r.error /\ q.leaseToken = r.leaseToken
      /\ q.cycle = r.cycle /\ q.exhausted = r.exhausted /\ q.processedAt = r.processedAt
      /\ q.status = r.status /\ q.purge = r.purge /\ q.admitted = r.admitted
      /\ q.target = r.target
  BY DEF Row, SameDecoder, SameEvidence, SameIngestion
<1> HIDE DEF q
<1>2. LifecycleChecks(q)
  BY ZenonT(40), <1>1, NullAssumption DEF SameEvidence, SameDecoder, RowInv,
     LifecycleChecks, LeaseCheck, ErrorCheck, RetryCheck, ProcessedCheck, TerminalCheck,
     TerminalCompletionCheck, RetryPolicyCheck, MissingFinalityProviderCheck,
     DecoderEligibilityCheck, WorkerAdmissionCheck
<1>3. IngestionChecks(q) /\ DeferredCheck(q)
  BY Zenon, <1>1, IngestionKept DEF Parked
<1>4. Worked(q) /\ ParkedAsClassified(q)
  BY Zenon, <1>1 DEF SameEvidence, RowInv, SameIngestion, Worked, ParkedAsClassified, IsPristineInbox, Parked
<1> QED
  BY <1>2, <1>3, <1>4 DEF RowInv, q

(* A deadline passes. *)
LEMMA DeadlineKeeps ==
  ASSUME NEW r \in Row, RowInv(r)
  PROVE  /\ r.next = "PENDING" => RowInv([r EXCEPT !.next = "PASSED"])
         /\ r.purge = "PENDING" => RowInv([r EXCEPT !.purge = "PASSED"])
<1>1. ASSUME NEW q,
             SameWork(q, r), SameDecoder(q, r), SameEvidence(q, r), SameIngestion(q, r),
             q.error = r.error, q.leaseToken = r.leaseToken,
             q.cycle = r.cycle, q.exhausted = r.exhausted, q.processedAt = r.processedAt,
             q.status = r.status, q.admitted = r.admitted, q.target = r.target,
             (q.next = "NONE") <=> (r.next = "NONE"), (q.purge = "NONE") <=> (r.purge = "NONE")
      PROVE  RowInv(q)
  <2>1. LifecycleChecks(q)
    BY ZenonT(40), <1>1 DEF SameWork, SameEvidence, SameDecoder, RowInv, Unclaimed,
       LifecycleChecks, LeaseCheck, ErrorCheck, RetryCheck, ProcessedCheck, TerminalCheck,
       TerminalCompletionCheck, RetryPolicyCheck, MissingFinalityProviderCheck,
       DecoderEligibilityCheck, WorkerAdmissionCheck
  <2>2. IngestionChecks(q) /\ DeferredCheck(q)
    BY ZenonT(40), <1>1 DEF RowInv, SameIngestion, SameWork, SameEvidence, IngestionChecks,
       IngestionHintCheck, PriorityMatchesHint, HintNamesMint, CatchUpClassificationCheck,
       CatchUpTerminalCheck, DeferredCheck, Unclaimed
  <2>3. Worked(q) /\ ParkedAsClassified(q)
    BY Zenon, <1>1 DEF SameEvidence, RowInv, SameIngestion, SameWork, Worked, ParkedAsClassified,
       IsPristineInbox
  <2> QED
    BY <2>1, <2>2, <2>3 DEF RowInv
<1>2. ASSUME r.next = "PENDING" PROVE RowInv([r EXCEPT !.next = "PASSED"])
  BY <1>1, <1>2 DEF Row, SameWork, SameDecoder, SameEvidence, SameIngestion
<1>3. ASSUME r.purge = "PENDING" PROVE RowInv([r EXCEPT !.purge = "PASSED"])
  BY Zenon, <1>1, <1>3 DEF Row, SameWork, SameDecoder, SameEvidence, SameIngestion
<1> QED
  BY <1>2, <1>3

-----------------------------------------------------------------------------
(***************************************************************************)
(* Every step leaves a row alone, writes a row that satisfies RowInv, or   *)
(* purges it.                                                              *)
(***************************************************************************)
RowsInv == \A s \in Signatures : Present(s) => RowInv(inbox[s])

Written ==
  \A t \in Signatures :
    \/ inbox'[t] = inbox[t]
    \/ inbox'[t] \in Row /\ RowInv(inbox'[t])
    \/ Purgeable(t) /\ inbox'[t] = NoRow

(* A stored row is typed and keeps the invariant. *)
LEMMA StoredRow ==
  ASSUME InboxInv, RowsInv, NEW s \in Signatures, Present(s)
  PROVE  inbox[s] \in Row /\ RowInv(inbox[s])
BY RowOf DEF RowsInv

(* A statement that writes one good row writes only good rows. *)
LEMMA OneRowWritten ==
  ASSUME InboxInv, NEW s \in Signatures, NEW q \in Row, RowInv(q),
         inbox' = [inbox EXCEPT ![s] = q]
  PROVE  Written
BY DEF InboxInv, TypeOK, Written

(* enqueue(). *)
LEMMA EnqueueWrites ==
  ASSUME InboxInv, RowsInv, NEW n \in Notifications, Enqueue(n)
  PROVE  Written
<1> DEFINE s == n.signature
           r == inbox[s]
<1>1. /\ n \in NotificationType /\ s \in Signatures /\ n.slot \in Slots /\ n.source \in Sources
      /\ n.programs \in SUBSET Programs /\ n.confirmation \in Confirmations \ {"orphaned"}
  BY InputAssumption DEF NotificationType
<1>2. CASE EnqueueInsert(n)
  <2> DEFINE d == FirstDecision(n, Tracked(n.hint, n.mint), n.programs)
             q == FreshRow(n.slot, n.source, n.programs, n.confirmation, d)
  <2>1. d \in Decision /\ Agrees(d) /\ d.status \in {"PENDING", "DEFERRED"}
    <3>1. d \in Decision /\ Agrees(d)
      BY Zenon, <1>1, FirstDecisionType, FirstDecisionAgrees
    <3>2. d.status \in {"PENDING", "DEFERRED"}
      BY Zenon DEF FirstDecision, Conservative, Undeferred
    <3> QED
      BY Zenon, <3>1, <3>2
  <2>2. inbox' = [inbox EXCEPT ![s] = q] /\ Storable(q)
    BY Zenon, <1>2 DEF EnqueueInsert, Unknown, AnnouncedRow, Write
  <2> HIDE DEF d
  <2>3. q \in Row
    BY Zenon, <1>1, <2>1, FreshRowType
  <2>4. RowInv(q)
    BY ZenonT(40), <1>1, <2>1, <2>2, FreshRowKeeps
  <2> HIDE DEF q
  <2> QED
    BY Zenon, <1>1, <2>2, <2>3, <2>4, OneRowWritten
<1>3. CASE EnqueueParked(n)
  <2> DEFINE seen == Seen(r, n.source, n.programs)
             target == Reconciled(seen.target, n.confirmation)
             q == [seen EXCEPT !.target = target]
  <2>1. r \in Row /\ RowInv(r) /\ ParkedByClassification(r)
    BY Zenon, <1>1, <1>3, StoredRow DEF EnqueueParked, Repeatable, ParkedRow
  <2>2. seen \in Row
    BY Zenon, <1>1, <2>1, StoredDecisionType, SeenIngestedType
  <2>3. inbox' = [inbox EXCEPT ![s] = q] /\ Storable(q)
    BY <1>3 DEF EnqueueParked, Repeatable, ParkedRow, Write
  <2>4. target \in Confirmations
    <3> HIDE DEF seen
    <3> QED
      BY Zenon, <1>1, <2>2, ReconciledType DEF Row
  <2>5. q \in Row
    <3> HIDE DEF seen, target
    <3> QED
      BY <2>2, <2>4, RowUpdates
  <2>6. RowInv(q)
    <3> HIDE DEF target
    <3> QED
      BY Zenon, <2>1, <2>3, ParkedRowKeeps
  <2> HIDE DEF q
  <2> QED
    BY Zenon, <1>1, <2>3, <2>5, <2>6, OneRowWritten
<1>4. CASE EnqueueSealed(n)
  <2>1. r \in Row /\ RowInv(r) /\ r.status = "PROCESSED"
    BY ZenonT(40), <1>1, <1>4, StoredRow DEF EnqueueSealed, Sealed
  <2>2. AnnotatedRow(r, n) \in Row
    BY <1>1, <2>1, IngestionDecisionType, SeenIngestedType DEF AnnotatedRow
  <2>3. inbox' = [inbox EXCEPT ![s] = AnnotatedRow(r, n)] /\ Storable(AnnotatedRow(r, n))
    BY <1>4 DEF EnqueueSealed, Write
  <2>4. RowInv(AnnotatedRow(r, n))
    BY ZenonT(40), <1>1, <2>1, <2>3, AnnotatedRowKeeps
  <2> QED
    BY ZenonT(40), <1>1, <2>2, <2>3, <2>4, OneRowWritten
<1>5. CASE EnqueueMerge(n)
  <2>1. r \in Row /\ RowInv(r) /\ ~ParkedByClassification(r)
    BY Zenon, <1>1, <1>5, StoredRow DEF EnqueueMerge, Mergeable
  <2>2. EnqueuedRow(r, n) \in Row
    BY Zenon, <1>1, <1>5, <2>1, EnqueuedRowType DEF EnqueueMerge, Mergeable
  <2>3. inbox' = [inbox EXCEPT ![s] = EnqueuedRow(r, n)] /\ Storable(EnqueuedRow(r, n))
    BY <1>5 DEF EnqueueMerge, Write
  <2>4. RowInv(EnqueuedRow(r, n))
    BY Zenon, <1>1, <2>1, <2>3, EnqueuedRowKeeps
  <2> QED
    BY Zenon, <1>1, <2>2, <2>3, <2>4, OneRowWritten
<1> QED
  BY Zenon, <1>2, <1>3, <1>4, <1>5 DEF Enqueue

(* recordCatchUpClassification(). *)
LEMMA ClassificationWrites ==
  ASSUME InboxInv, RowsInv, NEW c \in Classifications, RecordCatchUpClassification(c)
  PROVE  Written
<1> DEFINE s == c.signature
           r == inbox[s]
<1>1. c \in ClassificationType /\ s \in Signatures
  BY InputAssumption, ClassificationKeyType
<1>2. CASE ClassificationInsert(c)
  <2> DEFINE d == CatchUpDecision(c, c.programs)
             fresh == FreshRow(c.slot, "CATCH_UP", c.programs, c.confirmation, d)
             priority == IF Admits(d.status, d.priority) THEN d.priority
                         ELSE fresh.catchUpPriority
             q == [fresh EXCEPT !.classification = ClassificationKey(c),
                                !.catchUpPriority = priority]
  <2>1. d \in Decision
    BY <1>1, CatchUpDecisionType
  <2>2. fresh \in Row
    BY ZenonT(40), <1>1, <2>1, FreshRowType, ClassificationKeyType DEF Sources
  <2>3. priority \in Priorities \cup {"NOT_ENQUEUED"}
    BY <2>1, <2>2 DEF Decision, Row
  <2>4. inbox' = [inbox EXCEPT ![s] = q] /\ Storable(q)
    BY <1>2 DEF ClassificationInsert, Recordable, RecordedRow, Unknown, Write
  <2>5. RowInv(q)
    BY Zenon, <1>1, <2>4, ClassifiedFreshRowKeeps
  <2> HIDE DEF fresh, priority
  <2>6. q \in Row
    BY Zenon, <1>1, <2>2, <2>3, ClassificationKeyType, RowUpdates
  <2> HIDE DEF q
  <2> QED
    BY Zenon, <1>1, <2>4, <2>5, <2>6, OneRowWritten
<1>3. CASE ClassificationReplay(c)
  <2>1. /\ r \in Row /\ RowInv(r) /\ r.classification = ClassificationKey(c)
        /\ ClassificationMerges(r, c)
    BY ZenonT(40), <1>1, <1>3, StoredRow DEF ClassificationReplay, Repeats
  <2>2. ReplayedRow(r, c) \in Row
    BY <1>1, <2>1, ReplayedRowType
  <2>3. inbox' = [inbox EXCEPT ![s] = ReplayedRow(r, c)] /\ Storable(ReplayedRow(r, c))
    BY <1>3 DEF ClassificationReplay, Write
  <2>4. RowInv(ReplayedRow(r, c))
    BY ZenonT(40), <1>1, <2>1, <2>3, ReplayedRowKeeps
  <2> QED
    BY ZenonT(40), <1>1, <2>2, <2>3, <2>4, OneRowWritten
<1>4. CASE ClassificationMerge(c)
  <2>1. /\ r \in Row /\ RowInv(r) /\ r.classification = NoClassification
        /\ "WEBSOCKET" \in r.sources /\ ClassificationMerges(r, c)
    BY Zenon, <1>1, <1>4, StoredRow DEF ClassificationMerge, Attaches
  <2>2. ClassifiedRow(r, c) \in Row
    BY <1>1, <2>1, ClassifiedRowType
  <2>3. inbox' = [inbox EXCEPT ![s] = ClassifiedRow(r, c)] /\ Storable(ClassifiedRow(r, c))
    BY <1>4 DEF ClassificationMerge, Write
  <2>4. RowInv(ClassifiedRow(r, c))
    BY Zenon, <1>1, <2>1, <2>3, ClassifiedRowKeeps
  <2> QED
    BY Zenon, <1>1, <2>2, <2>3, <2>4, OneRowWritten
<1> QED
  BY Zenon, <1>2, <1>3, <1>4 DEF RecordCatchUpClassification

(* syncTrackedMint(). *)
LEMMA SyncWrites ==
  ASSUME InboxInv, RowsInv, NEW m \in Mints, SyncTrackedMint(m)
  PROVE  Written
<1> DEFINE active == Tracked("PUMPFUN_TRADE", m)
<1>1. inbox' = [s \in Signatures |->
                  IF Present(s) /\ FollowsTracking(inbox[s], m, active)
                  THEN SyncedRow(inbox[s], active) ELSE inbox[s]]
  BY DEF SyncTrackedMint
<1>2. active \in BOOLEAN
  BY DEF Tracked
<1> HIDE DEF active
<1>3. ASSUME NEW s \in Signatures, Present(s), FollowsTracking(inbox[s], m, active)
      PROVE  SyncedRow(inbox[s], active) \in Row /\ RowInv(SyncedRow(inbox[s], active))
  BY Zenon, <1>2, <1>3, StoredRow, SyncedRowType, SyncedRowKeeps
<1> QED
  BY <1>1, <1>3 DEF Written

(* What the sweep of claim leaves behind. *)
LEMMA SweepWrites ==
  ASSUME InboxInv, RowsInv, NEW locked, NEW s \in Signatures
  PROVE  \/ SweptInbox(locked)[s] = inbox[s]
         \/ SweptInbox(locked)[s] \in Row /\ RowInv(SweptInbox(locked)[s])
<1>1. CASE Present(s) /\ s \notin locked
  <2>1. SweptInbox(locked)[s] = Swept(inbox[s])
    BY <1>1 DEF SweptInbox
  <2>2. inbox[s] \in Row /\ RowInv(inbox[s])
    BY <1>1, StoredRow
  <2>3. Swept(inbox[s]) \in Row
    BY <2>2, SweptType
  <2>4. RowInv(Swept(inbox[s]))
    BY <2>2, ExhaustedRowKeeps, DemotedRowKeeps DEF Swept, Demotable
  <2> QED
    BY <2>1, <2>3, <2>4
<1>2. CASE ~(Present(s) /\ s \notin locked)
  BY <1>2 DEF SweptInbox
<1> QED
  BY Zenon, <1>1, <1>2

(* claim() that leases a row. *)
LEMMA ClaimWrites ==
  ASSUME InboxInv, RowsInv, NEW s \in Signatures, NEW locked, ClaimNext(s, locked)
  PROVE  Written
<1> DEFINE rows == SweptInbox(locked)
           leased == LeasedRow(rows[s], claims + 1)
<1>1. /\ rows[s] # NoRow /\ Claimable(rows[s])
      /\ inbox' = [rows EXCEPT ![s] = leased]
  BY Zenon DEF ClaimNext, Claim, Candidates
<1>2. claims + 1 \in Nat \ {0}
  BY SMTT(30) DEF InboxInv, TypeOK
<1>3. /\ rows \in [Signatures -> Row \cup {NoRow}]
      /\ rows[s] \in Row /\ Present(s)
  BY <1>1, SweptInboxFacts
<1>4. RowInv(rows[s])
  BY <1>3, SweepWrites, StoredRow
<1> HIDE DEF rows
<1>5. leased \in Row /\ RowInv(leased)
  BY ZenonT(40), <1>1, <1>2, <1>3, <1>4, LeasedRowType, LeasedRowKeeps
<1> HIDE DEF leased
<1>6. \A t \in Signatures : rows[t] = inbox[t] \/ (rows[t] \in Row /\ RowInv(rows[t]))
  BY Zenon, SweepWrites DEF rows
<1> QED
  BY <1>1, <1>3, <1>5, <1>6 DEF Written

(* claim() that finds nothing to lease. *)
LEMMA ClaimNothingWrites ==
  ASSUME InboxInv, RowsInv, NEW locked, ClaimNothing(locked)
  PROVE  Written
BY Zenon, SweepWrites DEF ClaimNothing, Written

(* What the holder of a lease does: renew, save, complete, fail. *)
LEMMA LeaseOpsWrite ==
  ASSUME InboxInv, RowsInv, NEW s \in Signatures, NEW token,
         \/ RenewLease(s, token)
         \/ \E f \in Fingerprints : SaveSnapshot(s, token, f)
         \/ \E st \in Confirmations : MarkProcessed(s, token, st)
         \/ \E e \in Errors \ {"NONE"} : MarkFailed(s, token, e)
  PROVE  Written
<1> DEFINE r == inbox[s]
<1>1. Present(s) /\ r.status = "PROCESSING"
  BY Zenon DEF RenewLease, SaveSnapshot, MarkFailed, MarkProcessed, Leased
<1>2. r \in Row /\ RowInv(r)
  BY <1>1, StoredRow
<1>3. CASE RenewLease(s, token)
  <2>1. [r EXCEPT !.leaseExpired = FALSE] \in Row
    BY Zenon, <1>2, RowUpdates
  <2>2. inbox' = [inbox EXCEPT ![s] = [r EXCEPT !.leaseExpired = FALSE]]
    BY <1>3 DEF RenewLease
  <2> QED
    BY Zenon, <1>2, <2>1, <2>2, LeaseClockKeeps, OneRowWritten
<1>4. ASSUME NEW f \in Fingerprints, SaveSnapshot(s, token, f)
      PROVE  Written
  <2>1. [r EXCEPT !.snapshot = f] \in Row
    BY <1>2, RowUpdates
  <2>2. inbox' = [inbox EXCEPT ![s] = [r EXCEPT !.snapshot = f]]
    BY <1>4 DEF SaveSnapshot
  <2> QED
    BY Zenon, <1>1, <1>2, <2>1, <2>2, SnapshotKeeps, OneRowWritten
<1>5. ASSUME NEW st \in Confirmations, MarkProcessed(s, token, st)
      PROVE  Written
  <2>1. r.snapshot # NoSnapshot /\ inbox' = [inbox EXCEPT ![s] = ProcessedRow(r, st)]
    BY <1>5 DEF MarkProcessed
  <2>2. ProcessedRow(r, st) \in Row
    BY <1>2, ProcessedRowType
  <2> QED
    BY ZenonT(40), <1>1, <1>2, <2>1, <2>2, ProcessedRowKeeps, OneRowWritten
<1>6. ASSUME NEW e \in Errors \ {"NONE"}, MarkFailed(s, token, e)
      PROVE  Written
  <2> DEFINE receipt == s \in decoderReceipts
  <2>1. inbox' = [inbox EXCEPT ![s] = FailedRow(r, e, receipt)]
    BY <1>6 DEF MarkFailed
  <2>2. FailedRow(r, e, receipt) \in Row
    BY <1>2, FailedRowType
  <2>3. receipt \in BOOLEAN
    OBVIOUS
  <2> HIDE DEF receipt
  <2> QED
    BY ZenonT(40), <1>1, <1>2, <2>1, <2>2, <2>3, FailedRowKeeps, OneRowWritten
<1> QED
  BY <1>3, <1>4, <1>5, <1>6

(* The two recoveries of an operator. *)
LEMMA RecoveryWrites ==
  ASSUME InboxInv, RowsInv, NEW s \in Signatures,
         RecoverExhausted(s) \/ RecoverDecoderQuarantine(s)
  PROVE  Written
<1> DEFINE r == inbox[s]
           u == [RecoveredRow(r) EXCEPT !.decoderEligible = FALSE, !.decoderUsed = TRUE]
<1>1. Present(s) /\ r.status = "FAILED"
  BY DEF RecoverExhausted, RecoverDecoderQuarantine
<1>2. r \in Row /\ RowInv(r)
  BY <1>1, StoredRow
<1>3. RecoveredRow(r) \in Row /\ u \in Row
  BY Zenon, <1>2, RecoveredRowType
<1>4. CASE RecoverExhausted(s)
  <2>1. ~r.decoderEligible /\ inbox' = [inbox EXCEPT ![s] = RecoveredRow(r)]
    BY <1>2, <1>4 DEF RecoverExhausted, RowInv, LifecycleChecks, DecoderEligibilityCheck
  <2> QED
    BY ZenonT(40), <1>1, <1>2, <1>3, <2>1, RecoveredRowKeeps, OneRowWritten
<1>5. CASE RecoverDecoderQuarantine(s)
  <2>1. inbox' = [inbox EXCEPT ![s] = u]
    BY Zenon, <1>5 DEF RecoverDecoderQuarantine
  <2> QED
    BY Zenon, <1>1, <1>2, <1>3, <2>1, RecoveredRowKeeps, OneRowWritten
<1> QED
  BY <1>4, <1>5

(* The finality reconciler. *)
LEMMA FinalityWrites ==
  ASSUME InboxInv, RowsInv, NEW s \in Signatures,
         \/ \E p \in Providers, a \in {"missing", "processed", "confirmed"} :
              RecordFinalityPoll(s, Evidence(inbox[s]), p, a)
         \/ EnqueueFinalizedRevision(s)
         \/ EnqueueOrphanedRevision(s, Evidence(inbox[s]))
  PROVE  Written
<1> DEFINE r == inbox[s]
<1>1. Present(s) /\ r.status = "PROCESSED"
  BY Zenon DEF RecordFinalityPoll, ListedForFinality, EnqueueFinalizedRevision,
     EnqueueOrphanedRevision
<1>2. r \in Row /\ RowInv(r)
  BY <1>1, StoredRow
<1>3. ASSUME NEW p \in Providers, NEW a \in {"missing", "processed", "confirmed"},
             RecordFinalityPoll(s, Evidence(inbox[s]), p, a)
      PROVE  Written
  <2>1. ~IsTerminal(r) /\ r.version < MaxVersion /\ inbox' = [inbox EXCEPT ![s] = PolledRow(r, p, a)]
    BY <1>3 DEF RecordFinalityPoll, ListedForFinality
  <2>2. PolledRow(r, p, a) \in Row
    BY Zenon, <1>2, <2>1, PolledRowType
  <2> QED
    BY ZenonT(40), <1>1, <1>2, <2>1, <2>2, PolledRowKeeps, OneRowWritten
<1>4. CASE EnqueueFinalizedRevision(s)
  <2> DEFINE w == Reopened(r, "finalized")
             v == IF w.version < MaxVersion THEN w.version + 1 ELSE w.version
             q == [w EXCEPT !.version = v]
  <2>1. w \in Row
    BY ZenonT(40), <1>2, Values, ReopenedType
  <2>2. v \in 0..MaxVersion
    BY <2>1, BoundsAssumption DEF Row
  <2>3. inbox' = [inbox EXCEPT ![s] = q]
    BY <1>4 DEF EnqueueFinalizedRevision
  <2> HIDE DEF v
  <2>4. RowInv(q)
    BY Zenon, <1>1, <1>2, RevisedRowKeeps
  <2> HIDE DEF w
  <2>5. q \in Row
    BY <2>1, <2>2, RowUpdates
  <2> HIDE DEF q
  <2> QED
    BY Zenon, <2>3, <2>4, <2>5, OneRowWritten
<1>5. CASE EnqueueOrphanedRevision(s, Evidence(inbox[s]))
  <2> DEFINE v == Reopened(r, "orphaned").version + 1
             q == [Reopened(r, "orphaned") EXCEPT !.version = v]
  <2>1. q \in Row
    BY <1>2, <1>5, Values, ReplayingType DEF EnqueueOrphanedRevision
  <2>2. inbox' = [inbox EXCEPT ![s] = q]
    BY <1>5 DEF EnqueueOrphanedRevision
  <2> HIDE DEF v
  <2>3. RowInv(q)
    BY Zenon, <1>1, <1>2, RevisedRowKeeps
  <2> HIDE DEF q
  <2> QED
    BY Zenon, <2>1, <2>2, <2>3, OneRowWritten
<1> QED
  BY <1>3, <1>4, <1>5

(* Time. *)
LEMMA ClockWrites ==
  ASSUME InboxInv, RowsInv, NEW s \in Signatures,
         LeaseExpires(s) \/ RetryBecomesDue(s) \/ RetentionPasses(s)
  PROVE  Written
<1> DEFINE r == inbox[s]
<1>1. r \in Row /\ RowInv(r)
  BY StoredRow DEF LeaseExpires, RetryBecomesDue, RetentionPasses
<1>2. CASE LeaseExpires(s)
  <2>1. inbox' = [inbox EXCEPT ![s] = [r EXCEPT !.leaseExpired = TRUE]]
    BY <1>2 DEF LeaseExpires
  <2>2. [r EXCEPT !.leaseExpired = TRUE] \in Row
    BY Zenon, <1>1, RowUpdates
  <2> QED
    BY Zenon, <1>1, <2>1, <2>2, LeaseClockKeeps, OneRowWritten
<1>3. CASE RetryBecomesDue(s)
  <2>1. r.next = "PENDING" /\ inbox' = [inbox EXCEPT ![s] = [r EXCEPT !.next = "PASSED"]]
    BY <1>3 DEF RetryBecomesDue
  <2>2. [r EXCEPT !.next = "PASSED"] \in Row
    BY <1>1, RowUpdates, Values
  <2> QED
    BY Zenon, <1>1, <2>1, <2>2, DeadlineKeeps, OneRowWritten
<1>4. CASE RetentionPasses(s)
  <2>1. r.purge = "PENDING" /\ inbox' = [inbox EXCEPT ![s] = [r EXCEPT !.purge = "PASSED"]]
    BY <1>4 DEF RetentionPasses
  <2>2. [r EXCEPT !.purge = "PASSED"] \in Row
    BY <1>1, RowUpdates, Values
  <2> QED
    BY Zenon, <1>1, <2>1, <2>2, DeadlineKeeps, OneRowWritten
<1> QED
  BY <1>2, <1>3, <1>4

(* Every step. *)
LEMMA NextWrites ==
  ASSUME InboxInv, RowsInv, [Next]_vars
  PROVE  Written
<1>1. ASSUME NEW s \in Signatures, PurgeRow(s)
      PROVE  Written
  BY <1>1 DEF PurgeRow, Written, InboxInv, TypeOK
<1>2. ASSUME inbox' = inbox
      PROVE  Written
  BY <1>2 DEF Written
<1>3. ASSUME NEW s \in Signatures,
             PurgeReceipt(s, FALSE) \/ PurgeDecoderReceipt(s) \/ TrackingChanges
               \/ RestartWithPolicy \/ UNCHANGED vars
      PROVE  inbox' = inbox
  BY <1>3 DEF PurgeReceipt, PurgeDecoderReceipt, TrackingChanges, RestartWithPolicy, vars,
     inboxVars
<1>4. TrackingChanges \/ RestartWithPolicy \/ UNCHANGED vars => inbox' = inbox
  BY DEF TrackingChanges, RestartWithPolicy, vars, inboxVars
<1> QED
  BY ZenonT(40), <1>1, <1>2, <1>3, <1>4, EnqueueWrites, ClassificationWrites, SyncWrites,
     ClaimWrites,
     ClaimNothingWrites, LeaseOpsWrite, RecoveryWrites, FinalityWrites, ClockWrites DEF Next

-----------------------------------------------------------------------------
(***************************************************************************)
(* Which rows of ingestion the database accepts (Storable).                *)
(***************************************************************************)
(* Only a trade is deferred. *)
DefersTrade(d) == d.status = "DEFERRED" => d.hint = "PUMPFUN_TRADE" /\ d.priority = "NORMAL"

(* Decision d names what classification k did, or nothing. *)
Names(d, k) == (d.hint = k.hint /\ d.mint = k.mint) \/ (d.hint = "NONE" /\ d.mint = NoMint)

(* What the announcement of a known signature decides: only trades are     *)
(* deferred, and a classified row keeps a hint its classification allows,  *)
(* unless the announcement contradicts it.                                 *)
LEMMA IngestionDecisionFits ==
  ASSUME NEW r \in Row, RowInv(r), NEW n \in NotificationType
  PROVE  LET d == IngestionDecision(r, n)
         IN  /\ DefersTrade(d)
             /\ r.classification # NoClassification /\ ~Contradicts(n, r) =>
                  \/ d.hint = r.hint /\ d.mint = r.mint
                  \/ /\ r.hint # "PUMPFUN_CREATE" /\ ~HoldsTerminalClassification(r)
                     /\ Names(d, r.classification)
<1>1. DefersTrade(StoredDecision(r))
  BY Zenon DEF DefersTrade, StoredDecision, RowInv, DeferredCheck
<1>2. ASSUME NEW tracked, NEW programs
      PROVE  LET d == ConvergeIngestion(r, n, tracked, programs)
             IN  /\ DefersTrade(d)
                 /\ r.hint = "PUMPFUN_CREATE" => d.hint = r.hint /\ d.mint = r.mint
                 /\ \/ d.hint = r.hint /\ d.mint = r.mint
                    \/ d.hint = "NONE" /\ d.mint = NoMint
                    \/ n.hint # "NONE" /\ d.hint = n.hint /\ d.mint = n.mint
  <2>1. DefersTrade(ConvergeIngestion(r, n, tracked, programs))
    BY ZenonT(40), <1>1 DEF DefersTrade, ConvergeIngestion, Conservative, StoredDecision,
       Undeferred, RowInv, DeferredCheck, NotificationType, Hints, TradeHints, PollerHints
  <2>2. LET d == ConvergeIngestion(r, n, tracked, programs)
        IN  /\ r.hint = "PUMPFUN_CREATE" => d.hint = r.hint /\ d.mint = r.mint
            /\ \/ d.hint = r.hint /\ d.mint = r.mint
               \/ d.hint = "NONE" /\ d.mint = NoMint
               \/ n.hint # "NONE" /\ d.hint = n.hint /\ d.mint = n.mint
    BY ZenonT(40) DEF ConvergeIngestion, Conservative, StoredDecision
  <2> QED
    BY Zenon, <2>1, <2>2
<1>3. CASE HoldsTerminalClassification(r)
  BY Zenon, <1>1, <1>3 DEF IngestionDecision, StoredDecision
<1>4. CASE ~HoldsTerminalClassification(r)
  <2> DEFINE d == IngestionDecision(r, n)
  <2>1. /\ DefersTrade(d)
        /\ r.hint = "PUMPFUN_CREATE" => d.hint = r.hint /\ d.mint = r.mint
        /\ \/ d.hint = r.hint /\ d.mint = r.mint
           \/ d.hint = "NONE" /\ d.mint = NoMint
           \/ n.hint # "NONE" /\ d.hint = n.hint /\ d.mint = n.mint
    BY Zenon, <1>2, <1>4 DEF IngestionDecision
  <2> HIDE DEF d
  <2>2. r.classification # NoClassification /\ ~Contradicts(n, r) =>
          \/ d.hint = r.hint /\ d.mint = r.mint
          \/ r.hint # "PUMPFUN_CREATE" /\ Names(d, r.classification)
    BY Zenon, <1>4, <2>1 DEF Contradicts, Names
  <2> QED
    BY Zenon, <1>4, <2>1, <2>2 DEF d
<1> QED
  BY Zenon, <1>3, <1>4

(* A row that keeps its classification, and a hint that fits it, is        *)
(* accepted by the constraint on classified rows.                          *)
LEMMA FittingHintIsStored ==
  ASSUME NEW r \in Row, RowInv(r), NEW q, r.sources \subseteq q.sources,
         q.classification = r.classification, q.catchUpPriority = r.catchUpPriority,
         r.classification # NoClassification =>
           \/ q.hint = r.hint /\ q.mint = r.mint
           \/ /\ r.hint # "PUMPFUN_CREATE" /\ ~HoldsTerminalClassification(r)
              /\ Names(q, r.classification)
  PROVE  CatchUpClassificationCheck(q)
<1> DEFINE k == r.classification
<1>1. CASE k # NoClassification
  <2>1. k.disposition \in Dispositions /\ k.hint \in {"NONE", "PUMPFUN_CREATE", "PUMPFUN_TRADE"}
    BY <1>1 DEF Row, ClassificationKeys
  <2>2. /\ "CATCH_UP" \in r.sources
        /\ r.hint = "NONE" => r.mint = NoMint
    BY Zenon, <1>1 DEF RowInv, IngestionChecks, CatchUpClassificationCheck, IngestionHintCheck,
       HintNamesMint, TradeHints, PollerHints
  <2>3. CASE k.disposition = "ACTIONABLE"
    BY ZenonT(40), <1>1, <2>1, <2>2, <2>3 DEF RowInv, IngestionChecks,
       CatchUpClassificationCheck, Names
  <2>4. CASE k.disposition = "DEFERRED"
    BY ZenonT(40), <1>1, <2>2, <2>4 DEF RowInv, IngestionChecks, CatchUpClassificationCheck,
       Names
  <2>5. CASE k.disposition \in {"IGNORED", "QUARANTINED"}
    BY ZenonT(40), <1>1, <2>2, <2>5 DEF RowInv, IngestionChecks, CatchUpClassificationCheck,
       HoldsTerminalClassification
  <2> QED
    BY Zenon, <2>1, <2>3, <2>4, <2>5 DEF Dispositions
<1>2. CASE k = NoClassification
  BY Zenon, <1>2 DEF CatchUpClassificationCheck
<1> QED
  BY Zenon, <1>1, <1>2

(* A row that no worker has touched is unclaimed, but for its version. *)
LEMMA PristineIsUnclaimed ==
  ASSUME NEW r \in Row, RowInv(r), IsPristineInbox(r)
  PROVE  /\ r.status \in Waiting
         /\ r.version = 0 => Unclaimed(r)
<1>1. r.status \in Waiting
  BY Zenon DEF Row, RowInv, Worked, IsPristineInbox, InboxStatuses, Waiting, Parked
<1>2. r.missing = 0 /\ r.provider = NoProvider
  BY Zenon DEF RowInv, Worked, IsPristineInbox, LifecycleChecks, MissingFinalityProviderCheck
<1>3. r.error = "NONE" /\ r.next = "NONE" /\ ~r.exhausted
  BY ZenonT(40), <1>1 DEF RowInv, LifecycleChecks, ErrorCheck, RetryCheck, Waiting, Parked
<1> QED
  BY Zenon, <1>1, <1>2, <1>3 DEF Unclaimed, IsPristineInbox

(* The first announcement of a signature is accepted. *)
LEMMA AnnouncedRowIsStored ==
  ASSUME NEW n \in NotificationType
  PROVE  Storable(AnnouncedRow(n))
<1> DEFINE d == FirstDecision(n, Tracked(n.hint, n.mint), n.programs)
           q == AnnouncedRow(n)
<1>1. DefersTrade(d)
  BY ZenonT(40) DEF DefersTrade, FirstDecision, Conservative, Undeferred, TradeHints, PollerHints
<1> HIDE DEF d
<1>2. /\ q.status = d.status /\ q.priority = d.priority /\ q.hint = d.hint
      /\ q.purge = (IF d.status = "PENDING" THEN "NONE" ELSE "PENDING")
      /\ Unclaimed(q) /\ q.classification = NoClassification
  BY DEF AnnouncedRow, FreshRow, Unclaimed, d
<1> HIDE DEF q
<1>3. DeferredCheck(q) /\ CatchUpClassificationCheck(q)
  BY Zenon, <1>1, <1>2 DEF DefersTrade, DeferredCheck, CatchUpClassificationCheck
<1> QED
  BY Zenon, <1>3 DEF Storable, q

(* So is an announcement of a row that its classification has parked. *)
LEMMA ParkedRowIsStored ==
  ASSUME NEW r \in Row, RowInv(r), NEW n \in NotificationType
  PROVE  Storable(ParkedRow(r, n))
<1> DEFINE q == ParkedRow(r, n)
<1>1. /\ SameWork(q, r) /\ SameEvidence(q, r)
      /\ q.cycle = r.cycle /\ q.processedAt = r.processedAt /\ q.leaseToken = r.leaseToken
      /\ q.next = r.next /\ q.error = r.error /\ q.exhausted = r.exhausted
      /\ q.status = r.status /\ q.purge = r.purge
      /\ q.priority = r.priority /\ q.hint = r.hint /\ q.mint = r.mint
      /\ q.classification = r.classification /\ q.catchUpPriority = r.catchUpPriority
      /\ r.sources \subseteq q.sources
  BY DEF ParkedRow, Seen, Row, SameWork, SameEvidence
<1> HIDE DEF q
<1>2. DeferredCheck(q)
  BY Zenon, <1>1 DEF RowInv, DeferredCheck, Unclaimed, SameWork, SameEvidence
<1>3. CatchUpClassificationCheck(q)
  BY Zenon, <1>1, FittingHintIsStored
<1> QED
  BY Zenon, <1>2, <1>3 DEF Storable, q

(* So is the annotation of a sealed row. *)
LEMMA AnnotatedRowIsStored ==
  ASSUME NEW r \in Row, RowInv(r), r.status = "PROCESSED", NEW n \in NotificationType,
         ~Contradicts(n, r)
  PROVE  Storable(AnnotatedRow(r, n))
<1> DEFINE d == IngestionDecision(r, n)
           q == AnnotatedRow(r, n)
<1>1. r.classification # NoClassification =>
        \/ d.hint = r.hint /\ d.mint = r.mint
        \/ /\ r.hint # "PUMPFUN_CREATE" /\ ~HoldsTerminalClassification(r)
           /\ Names(d, r.classification)
  BY Zenon, IngestionDecisionFits
<1> HIDE DEF d
<1>2. /\ q.status = r.status /\ q.hint = d.hint /\ q.mint = d.mint
      /\ r.sources \subseteq q.sources
      /\ q.classification = r.classification /\ q.catchUpPriority = r.catchUpPriority
  BY Zenon DEF AnnotatedRow, Ingested, Seen, Row, d
<1> HIDE DEF q
<1>3. CatchUpClassificationCheck(q)
  BY Zenon, <1>1, <1>2, FittingHintIsStored DEF Names
<1> QED
  BY Zenon, <1>2, <1>3 DEF Storable, DeferredCheck, q

(* So is the announcement of any other known row. *)
LEMMA EnqueuedRowIsStored ==
  ASSUME NEW r \in Row, RowInv(r), NEW n \in NotificationType, ~Contradicts(n, r)
  PROVE  Storable(EnqueuedRow(r, n))
<1> DEFINE d == IngestionDecision(r, n)
           next == Reconciled(r.target, n.confirmation)
           seen == Ingested(Seen(r, n.source, n.programs), d)
           purge == IF d.status = "DEFERRED"
                    THEN IF seen.purge = "NONE" THEN "PENDING" ELSE seen.purge
                    ELSE IF r.status = "DEFERRED" THEN "NONE" ELSE seen.purge
           running == [WithoutMissing(seen) EXCEPT
                         !.target = next, !.status = d.status, !.purge = purge]
           base == IF r.status = "PROCESSED" /\ next # r.target
                   THEN Reopened(seen, next) ELSE running
           version == IF \/ d.status = "DEFERRED"
                         \/ enabled /\ ~r.admitted /\ d.priority = "NORMAL"
                      THEN 0 ELSE base.version + 1
           admitted == base.admitted \/ Admits(base.status, d.priority)
           q == EnqueuedRow(r, n)
<1>1. /\ DefersTrade(d)
      /\ r.classification # NoClassification =>
           \/ d.hint = r.hint /\ d.mint = r.mint
           \/ /\ r.hint # "PUMPFUN_CREATE" /\ ~HoldsTerminalClassification(r)
              /\ Names(d, r.classification)
  BY Zenon, IngestionDecisionFits
<1>2. \/ d.status = r.status
      \/ r.status = "DEFERRED" /\ d.status = "PENDING"
      \/ r.status = "PENDING" /\ IsPristineInbox(r) /\ d.status = "DEFERRED"
  BY Zenon, IngestionDecisionAgrees
<1>3. seen \in Row /\ Learns(seen, r, n.source, d)
  <2>1. n.source \in Sources /\ n.programs \in SUBSET Programs /\ d \in Decision
    BY IngestionDecisionType DEF NotificationType
  <2> QED
    BY Zenon, <2>1, SeenIngestedLearns
<1> HIDE DEF d, next, seen
<1>4. WithoutMissing(seen).purge = seen.purge
  BY <1>3 DEF WithoutMissing, Row
<1>5. q = [base EXCEPT !.version = version, !.admitted = admitted]
  BY <1>4 DEF EnqueuedRow, d, next, seen
<1> HIDE DEF purge, running, base, version, admitted, q
<1>6. SameIngestion(q, seen)
  BY ZenonT(40), <1>3, <1>5 DEF base, running, Reopened, NewCycle, WithoutMissing, Row,
     SameIngestion
<1>7. CatchUpClassificationCheck(q)
  <2>1. /\ q.hint = d.hint /\ q.mint = d.mint /\ r.sources \subseteq q.sources
        /\ q.classification = r.classification /\ q.catchUpPriority = r.catchUpPriority
    BY Zenon, <1>3, <1>6 DEF SameIngestion, Learns
  <2> QED
    BY Zenon, <1>1, <2>1, FittingHintIsStored DEF Names
<1>8. DeferredCheck(q)
  <2> SUFFICES ASSUME q.status = "DEFERRED" PROVE DeferredCheck(q)
    BY Zenon DEF DeferredCheck
  <2>1. base = running
    <3>1. Reopened(seen, next).status = "PENDING"
      BY <1>3 DEF Reopened, NewCycle, WithoutMissing, Row
    <3> QED
      BY Zenon, <1>3, <1>5, <3>1 DEF base, Reopened, NewCycle, WithoutMissing, Row
  <2>2. /\ q.status = d.status /\ q.purge = purge /\ q.version = version
    BY Zenon, <1>3, <1>5, <2>1 DEF running, WithoutMissing, Row
  <2>3. /\ SameWork(q, seen) /\ q.missing = 0 /\ q.provider = NoProvider
        /\ q.next = seen.next /\ q.error = seen.error /\ q.leaseToken = seen.leaseToken
        /\ q.cycle = seen.cycle /\ q.exhausted = seen.exhausted
        /\ q.processedAt = seen.processedAt
    BY Zenon, <1>3, <1>5, <2>1 DEF running, WithoutMissing, Row, SameWork
  <2>4. IsPristineInbox(r)
    BY Zenon, <1>2, <2>2 DEF RowInv, DeferredCheck, Unclaimed, IsPristineInbox
  <2>5. r.error = "NONE" /\ r.next = "NONE" /\ ~r.exhausted
    BY ZenonT(40), <2>4, PristineIsUnclaimed DEF RowInv, LifecycleChecks, ErrorCheck, RetryCheck,
       Waiting, Parked
  <2>6. Unclaimed(q)
    BY Zenon, <1>3, <2>2, <2>3, <2>4, <2>5 DEF Unclaimed, IsPristineInbox, SameWork, Learns, version
  <2>7. q.hint = "PUMPFUN_TRADE" /\ q.priority = "NORMAL"
    BY Zenon, <1>1, <1>3, <1>6, <2>2 DEF DefersTrade, SameIngestion, Learns
  <2>8. q.purge # "NONE"
    BY Zenon, <2>2 DEF purge
  <2> QED
    BY Zenon, <2>6, <2>7, <2>8 DEF DeferredCheck
<1> QED
  BY Zenon, <1>7, <1>8 DEF Storable, q

(* Decision d fits classification c. *)
Fits(d, c) ==
  /\ DefersTrade(d)
  /\ d.status = "DEFERRED" => c.disposition = "DEFERRED"
  /\ c.disposition = "ACTIONABLE" => d.status = "PENDING"
  /\ \/ d.hint = c.hint /\ d.mint = c.mint
     \/ c.hint = "PUMPFUN_TRADE" /\ d.hint = "NONE" /\ d.mint = NoMint
  /\ c.disposition \in Parked =>
       d.status \in Parked /\ d.priority = "NORMAL" /\ d.hint = "NONE" /\ d.mint = NoMint

(* What catch-up decides fits the classification it decides for. *)
LEMMA CatchUpDecisionFits ==
  ASSUME NEW c \in ClassificationType, NEW programs
  PROVE  Fits(CatchUpDecision(c, programs), c)
<1> DEFINE d == CatchUpDecision(c, programs)
<1>1. c.hint \notin TradeHints => c.mint = NoMint
  BY DEF ClassificationType, HintNamesMint
<1>2. /\ c.disposition \in Dispositions /\ c.hint \in {"NONE", "PUMPFUN_CREATE", "PUMPFUN_TRADE"}
      /\ c.disposition = "DEFERRED" => c.hint = "PUMPFUN_TRADE"
      /\ c.disposition \in Parked => c.hint = "NONE"
  BY DEF ClassificationType, Parked
<1>3. CASE c.disposition \in Parked
  BY Zenon, <1>1, <1>2, <1>3 DEF Fits, DefersTrade, CatchUpDecision, ClassificationDecision,
     Parked, TradeHints, PollerHints
<1>4. CASE c.disposition \notin Parked
  BY ZenonT(40), <1>1, <1>2, <1>4 DEF Fits, DefersTrade, CatchUpDecision, ClassificationDecision,
     Conservative, Undeferred, Dispositions, Parked, TradeHints, PollerHints
<1> QED
  BY Zenon, <1>3, <1>4

(* A row that carries classification c and a fitting decision is accepted  *)
(* by the constraint on classified rows, when its sources and its catch-up *)
(* priority are.                                                           *)
LEMMA FittingDecisionIsStored ==
  ASSUME NEW c \in ClassificationType, NEW d, Fits(d, c),
         NEW q, q.classification = ClassificationKey(c), q.hint = d.hint, q.mint = d.mint,
         "CATCH_UP" \in q.sources,
         c.disposition = "ACTIONABLE" =>
           q.catchUpPriority # "NOT_ENQUEUED" \/ "WEBSOCKET" \in q.sources,
         c.disposition \in Parked => q.catchUpPriority = "NOT_ENQUEUED"
  PROVE  CatchUpClassificationCheck(q)
<1>1. /\ q.classification.disposition = c.disposition
      /\ q.classification.hint = c.hint /\ q.classification.mint = c.mint
      /\ c.disposition \in Dispositions
  BY DEF ClassificationKey, ClassificationType
<1> QED
  BY ZenonT(40), <1>1 DEF CatchUpClassificationCheck, Fits, Parked, Dispositions

(* The classification of an unknown signature is accepted. *)
LEMMA RecordedRowIsStored ==
  ASSUME NEW c \in ClassificationType, Recordable(c)
  PROVE  Storable(RecordedRow(c))
<1> DEFINE d == CatchUpDecision(c, c.programs)
           q == RecordedRow(c)
<1>1. Fits(d, c)
  BY Zenon, CatchUpDecisionFits
<1>2. enabled /\ c.disposition = "ACTIONABLE" => d.priority # "NORMAL"
  BY Zenon DEF Recordable
<1>3. /\ q.status = d.status /\ q.priority = d.priority /\ q.hint = d.hint /\ q.mint = d.mint
      /\ q.purge = (IF d.status = "PENDING" THEN "NONE" ELSE "PENDING")
      /\ Unclaimed(q) /\ q.sources = {"CATCH_UP"} /\ q.classification = ClassificationKey(c)
      /\ q.catchUpPriority = (IF Admits(d.status, d.priority) THEN d.priority
                              ELSE "NOT_ENQUEUED")
  BY DEF RecordedRow, FreshRow, Unclaimed
<1>4. d.priority # "NOT_ENQUEUED"
  BY CatchUpDecisionType DEF Decision, Priorities
<1> HIDE DEF d, q
<1>5. CatchUpClassificationCheck(q)
  <2>1. c.disposition = "ACTIONABLE" => q.catchUpPriority # "NOT_ENQUEUED"
    BY Zenon, <1>1, <1>2, <1>3, <1>4 DEF Fits, Admits
  <2>2. c.disposition \in Parked => q.catchUpPriority = "NOT_ENQUEUED"
    BY Zenon, <1>1, <1>3 DEF Fits, Admits, Parked
  <2> QED
    BY Zenon, <1>1, <1>3, <2>1, <2>2, FittingDecisionIsStored
<1>6. DeferredCheck(q)
  BY Zenon, <1>1, <1>3 DEF DeferredCheck, Fits, DefersTrade
<1> QED
  BY Zenon, <1>5, <1>6 DEF Storable, q

(* A row that continues r with decision d is accepted by the constraint on *)
(* deferred rows, unless that defers a row whose version has moved.        *)
LEMMA DeferralIsStored ==
  ASSUME NEW r \in Row, RowInv(r), NEW d, DefersTrade(d), NEW q,
         q.status = "DEFERRED" =>
           /\ IsPristineInbox(r) /\ r.version = 0
           /\ d.status = "DEFERRED" /\ q.hint = d.hint /\ q.priority = d.priority
           /\ q.purge # "NONE" /\ SameWork(q, r) /\ SameEvidence(q, r)
           /\ q.next = r.next /\ q.error = r.error /\ q.leaseToken = r.leaseToken
           /\ q.cycle = r.cycle /\ q.exhausted = r.exhausted /\ q.processedAt = r.processedAt
  PROVE  DeferredCheck(q)
<1> SUFFICES ASSUME q.status = "DEFERRED" PROVE DeferredCheck(q)
  BY Zenon DEF DeferredCheck
<1>1. Unclaimed(r)
  BY Zenon, PristineIsUnclaimed
<1> QED
  BY Zenon, <1>1 DEF DeferredCheck, Unclaimed, SameWork, SameEvidence, DefersTrade

(* A repeated classification is accepted. *)
LEMMA ReplayedRowIsStored ==
  ASSUME NEW r \in Row, RowInv(r), NEW c \in ClassificationType,
         r.classification = ClassificationKey(c), ~DefersRevised(c, r)
  PROVE  Storable(ReplayedRow(r, c))
<1> DEFINE pristine == IsPristineInbox(r)
           d == IF pristine THEN CatchUpDecision(c, r.programs \cup c.programs)
                ELSE StoredDecision(r)
           next == Reconciled(r.target, c.confirmation)
           seen == Ingested(Seen(r, "CATCH_UP", c.programs), d)
           purge == IF d.status = "PENDING" THEN "NONE"
                    ELSE IF seen.purge = "NONE" /\ pristine /\ d.status = "DEFERRED"
                    THEN "PENDING" ELSE seen.purge
           reopened == [Reopened(seen, next) EXCEPT !.version = Reopened(seen, next).version + 1]
           running == [seen EXCEPT !.target = next, !.status = d.status, !.purge = purge]
           base == IF ClassificationReplays(r, c) THEN reopened ELSE running
           newlyAdmitted == /\ enabled /\ r.catchUpPriority = "NOT_ENQUEUED" /\ ~r.admitted
                            /\ d.status = "PENDING" /\ d.priority # "NORMAL"
           admitted == base.admitted \/ Admits(base.status, d.priority)
           catchUpPriority == IF newlyAdmitted THEN d.priority ELSE base.catchUpPriority
           q == ReplayedRow(r, c)
<1>1. /\ ClassificationKey(c) # NoClassification
      /\ r.classification.disposition = c.disposition
  BY Zenon, KeyIsKnown
<1>2. /\ pristine => Fits(d, c)
      /\ ~pristine => d.status = r.status /\ d.hint = r.hint /\ d.mint = r.mint
  BY Zenon, CatchUpDecisionFits DEF StoredDecision
<1>3. seen \in Row /\ Learns(seen, r, "CATCH_UP", d)
  <2>1. c.programs \in SUBSET Programs /\ d \in Decision /\ "CATCH_UP" \in Sources
    BY CatchUpDecisionType, StoredDecisionType, ClassificationKeyType DEF Sources
  <2> HIDE DEF d
  <2> QED
    BY ZenonT(40), <2>1, SeenIngestedLearns
<1>4. d.priority # "NOT_ENQUEUED"
  BY CatchUpDecisionType, StoredDecisionType DEF Decision, Priorities
<1>5. q = [base EXCEPT !.admitted = admitted, !.catchUpPriority = catchUpPriority]
  BY DEF ReplayedRow
<1>6. ~r.admitted => pristine
  BY DEF RowInv, LifecycleChecks, WorkerAdmissionCheck, Unclaimed, IsPristineInbox
<1>7. r.status = "DEFERRED" => pristine
  BY Zenon DEF RowInv, DeferredCheck, Unclaimed, IsPristineInbox
<1> HIDE DEF d, next, seen, purge, reopened, running, base, newlyAdmitted, admitted,
        catchUpPriority, q, pristine
<1>8. /\ q.priority = d.priority /\ q.hint = d.hint /\ q.mint = d.mint
      /\ q.sources = r.sources \cup {"CATCH_UP"} /\ q.classification = r.classification
      /\ q.catchUpPriority = (IF newlyAdmitted THEN d.priority ELSE r.catchUpPriority)
  <2>1. SameIngestion(base, seen) /\ DOMAIN base = DOMAIN seen
    BY ZenonT(40), <1>3 DEF base, running, reopened, Reopened, NewCycle, WithoutMissing, Row,
       SameIngestion
  <2>2. /\ q.priority = base.priority /\ q.hint = base.hint /\ q.mint = base.mint
        /\ q.sources = base.sources /\ q.classification = base.classification
        /\ q.catchUpPriority = catchUpPriority
    BY <1>3, <1>5, <2>1 DEF Row
  <2> QED
    BY Zenon, <1>3, <2>1, <2>2 DEF SameIngestion, Learns, catchUpPriority
<1>9. CatchUpClassificationCheck(q)
  <2>1. CASE pristine
    <3>1. c.disposition = "ACTIONABLE" =>
            q.catchUpPriority # "NOT_ENQUEUED" \/ "WEBSOCKET" \in q.sources
      BY Zenon, <1>1, <1>4, <1>8 DEF RowInv, IngestionChecks, CatchUpClassificationCheck
    <3>2. c.disposition \in Parked => q.catchUpPriority = "NOT_ENQUEUED"
      BY ZenonT(40), <1>1, <1>2, <1>8, <2>1 DEF RowInv, IngestionChecks,
         CatchUpClassificationCheck, Fits, newlyAdmitted, Parked
    <3> QED
      BY Zenon, <1>2, <1>8, <2>1, <3>1, <3>2, FittingDecisionIsStored
  <2>2. CASE ~pristine
    <3>1. q.hint = r.hint /\ q.mint = r.mint /\ q.catchUpPriority = r.catchUpPriority
      BY Zenon, <1>2, <1>6, <1>8, <2>2 DEF newlyAdmitted
    <3> QED
      BY Zenon, <1>8, <3>1, FittingHintIsStored
  <2> QED
    BY Zenon, <2>1, <2>2
<1>10. DeferredCheck(q)
  <2>1. CASE ClassificationReplays(r, c)
    <3>1. q.status = "PENDING"
      BY <1>3, <1>5, <2>1 DEF base, reopened, Reopened, NewCycle, WithoutMissing, Row
    <3> QED
      BY Zenon, <3>1 DEF DeferredCheck
  <2>2. CASE ~ClassificationReplays(r, c)
    <3>1. q = [running EXCEPT !.admitted = admitted, !.catchUpPriority = catchUpPriority]
      BY Zenon, <1>5, <2>2 DEF base
    <3>2. q.status = d.status /\ q.purge = purge
      BY Zenon, <1>3, <3>1 DEF running, Row
    <3>3. /\ SameWork(q, seen) /\ SameEvidence(q, seen)
          /\ q.next = seen.next /\ q.error = seen.error /\ q.leaseToken = seen.leaseToken
          /\ q.cycle = seen.cycle /\ q.exhausted = seen.exhausted
          /\ q.processedAt = seen.processedAt
      BY Zenon, <1>3, <3>1 DEF running, Row, SameWork, SameEvidence
    <3>4. q.status = "DEFERRED" => pristine
      BY Zenon, <1>2, <1>7, <3>2
    <3>5. q.status = "DEFERRED" => r.version = 0 /\ DefersTrade(d) /\ q.purge # "NONE"
      BY Zenon, <1>2, <3>2, <3>4 DEF Fits, DefersRevised, pristine, purge
    <3>6. CASE q.status = "DEFERRED"
      <4>1. /\ SameWork(q, r) /\ SameEvidence(q, r)
            /\ q.next = r.next /\ q.error = r.error /\ q.leaseToken = r.leaseToken
            /\ q.cycle = r.cycle /\ q.exhausted = r.exhausted /\ q.processedAt = r.processedAt
        BY Zenon, <1>3, <3>3 DEF SameWork, SameEvidence, Learns
      <4>2. IsPristineInbox(r)
        BY Zenon, <3>4, <3>6 DEF pristine
      <4> QED
        BY Zenon, <1>8, <3>2, <3>5, <3>6, <4>1, <4>2, DeferralIsStored
    <3> QED
      BY Zenon, <3>6 DEF DeferredCheck
  <2> QED
    BY Zenon, <2>1, <2>2
<1> QED
  BY Zenon, <1>9, <1>10 DEF Storable, q

(* So is the first classification of an announced row. *)
LEMMA ClassifiedRowIsStored ==
  ASSUME NEW r \in Row, RowInv(r), NEW c \in ClassificationType,
         "WEBSOCKET" \in r.sources, ~DefersRevised(c, r)
  PROVE  Storable(ClassifiedRow(r, c))
<1> DEFINE pristine == IsPristineInbox(r)
           d == CatchUpDecision(c, r.programs \cup c.programs)
           next == Reconciled(r.target, c.confirmation)
           replays == ClassificationReplays(r, c)
           seen == Ingested(Seen(r, "CATCH_UP", c.programs), d)
           status == IF pristine THEN d.status ELSE seen.status
           purge == IF ~pristine THEN seen.purge
                    ELSE IF d.status = "PENDING" THEN "NONE" ELSE "PENDING"
           reopened == [Reopened(seen, next) EXCEPT !.version = Reopened(seen, next).version + 1]
           running == [seen EXCEPT !.target = next, !.status = status, !.purge = purge]
           base == IF replays THEN reopened ELSE running
           admitted == base.admitted \/ Admits(base.status, d.priority)
           enqueued == IF enabled THEN ~r.admitted /\ Admits(base.status, d.priority)
                       ELSE r.status = "DEFERRED" /\ d.status = "PENDING"
           catchUpPriority == IF enqueued THEN d.priority ELSE "NOT_ENQUEUED"
           q == ClassifiedRow(r, c)
<1>1. Fits(d, c)
  BY Zenon, CatchUpDecisionFits
<1>2. seen \in Row /\ Learns(seen, r, "CATCH_UP", d)
  <2>1. c.programs \in SUBSET Programs /\ d \in Decision /\ "CATCH_UP" \in Sources
    BY CatchUpDecisionType, ClassificationKeyType DEF Sources
  <2> HIDE DEF d
  <2> QED
    BY Zenon, <2>1, SeenIngestedLearns
<1>3. q = [base EXCEPT !.admitted = admitted, !.classification = ClassificationKey(c),
                       !.catchUpPriority = catchUpPriority]
  BY Zenon DEF ClassifiedRow
<1>4. r.status = "DEFERRED" => pristine
  BY Zenon DEF RowInv, DeferredCheck, Unclaimed, IsPristineInbox
<1> HIDE DEF d, next, seen, status, purge, reopened, running, base, admitted, enqueued,
        catchUpPriority, q, pristine
<1>5. /\ q.priority = d.priority /\ q.hint = d.hint /\ q.mint = d.mint
      /\ q.sources = r.sources \cup {"CATCH_UP"} /\ q.classification = ClassificationKey(c)
      /\ q.catchUpPriority = catchUpPriority
  <2>1. SameIngestion(base, seen) /\ DOMAIN base = DOMAIN seen
    BY ZenonT(40), <1>2 DEF base, running, reopened, Reopened, NewCycle, WithoutMissing, Row,
       SameIngestion
  <2>2. /\ q.priority = base.priority /\ q.hint = base.hint /\ q.mint = base.mint
        /\ q.sources = base.sources /\ q.classification = ClassificationKey(c)
        /\ q.catchUpPriority = catchUpPriority
    BY <1>2, <1>3, <2>1 DEF Row
  <2> QED
    BY Zenon, <1>2, <2>1, <2>2 DEF SameIngestion, Learns
<1>6. CatchUpClassificationCheck(q)
  <2>1. c.disposition \in Parked => q.catchUpPriority = "NOT_ENQUEUED"
    BY ZenonT(40), <1>1, <1>5 DEF Fits, catchUpPriority, enqueued, Admits, Parked
  <2> QED
    BY Zenon, <1>1, <1>5, <2>1, FittingDecisionIsStored
<1>7. DeferredCheck(q)
  <2>1. CASE replays
    <3>1. q.status = "PENDING"
      BY <1>2, <1>3, <2>1 DEF base, reopened, Reopened, NewCycle, WithoutMissing, Row
    <3> QED
      BY Zenon, <3>1 DEF DeferredCheck
  <2>2. CASE ~replays
    <3>1. q = [running EXCEPT !.admitted = admitted, !.classification = ClassificationKey(c),
                              !.catchUpPriority = catchUpPriority]
      BY Zenon, <1>3, <2>2 DEF base
    <3>2. q.status = status /\ q.purge = purge
      BY Zenon, <1>2, <3>1 DEF running, Row
    <3>3. /\ SameWork(q, seen) /\ SameEvidence(q, seen)
          /\ q.next = seen.next /\ q.error = seen.error /\ q.leaseToken = seen.leaseToken
          /\ q.cycle = seen.cycle /\ q.exhausted = seen.exhausted
          /\ q.processedAt = seen.processedAt
      BY Zenon, <1>2, <3>1 DEF running, Row, SameWork, SameEvidence
    <3>4. CASE q.status = "DEFERRED"
      <4>1. pristine /\ d.status = "DEFERRED"
        BY Zenon, <1>2, <1>4, <3>2, <3>4 DEF status, Learns
      <4>2. r.version = 0 /\ DefersTrade(d) /\ q.purge # "NONE"
        BY Zenon, <1>1, <3>2, <4>1 DEF Fits, DefersRevised, pristine, purge
      <4>3. /\ SameWork(q, r) /\ SameEvidence(q, r)
            /\ q.next = r.next /\ q.error = r.error /\ q.leaseToken = r.leaseToken
            /\ q.cycle = r.cycle /\ q.exhausted = r.exhausted /\ q.processedAt = r.processedAt
        BY Zenon, <1>2, <3>3 DEF SameWork, SameEvidence, Learns
      <4>4. IsPristineInbox(r)
        BY Zenon, <4>1 DEF pristine
      <4> QED
        BY Zenon, <1>5, <4>1, <4>2, <4>3, <4>4, DeferralIsStored
    <3> QED
      BY Zenon, <3>4 DEF DeferredCheck
  <2> QED
    BY Zenon, <2>1, <2>2
<1> QED
  BY Zenon, <1>6, <1>7 DEF Storable, q

(* The inductive invariant: types, seals and rows. *)
SchemaInv == InboxInv /\ RowsInv

(* The invariant is inductive. *)
LEMMA SchemaInvariant == Spec => []SchemaInv
<1>1. Init => SchemaInv
  BY InitInbox DEF Init, SchemaInv, RowsInv, Present
<1>2. SchemaInv /\ [Next]_vars => SchemaInv'
  <2> SUFFICES ASSUME SchemaInv, [Next]_vars PROVE SchemaInv'
    OBVIOUS
  <2>1. InboxInv' /\ Written
    BY Zenon, NextPreserves, NextWrites DEF SchemaInv
  <2>2. RowsInv'
    BY <2>1 DEF SchemaInv, RowsInv, Written, Present
  <2> QED
    BY <2>1, <2>2 DEF SchemaInv
<1> QED
  BY <1>1, <1>2, PTL DEF Spec

(* What enqueue would write is accepted. *)
LEMMA EnqueueAccepted ==
  ASSUME SchemaInv, NEW n \in Notifications
  PROVE  EnqueueIsAccepted(n)
<1> DEFINE r == inbox[n.signature]
<1>1. n \in NotificationType /\ n.signature \in Signatures
  BY InputAssumption DEF NotificationType
<1>2. Repeatable(n) \/ Sealed(n) \/ Mergeable(n) => r \in Row /\ RowInv(r)
  BY Zenon, <1>1, StoredRow DEF SchemaInv, Repeatable, Sealed, Mergeable
<1>3. Unknown(n.signature) => Storable(AnnouncedRow(n))
  BY Zenon, <1>1, AnnouncedRowIsStored
<1>4. Repeatable(n) => Storable(ParkedRow(r, n))
  BY Zenon, <1>1, <1>2, ParkedRowIsStored
<1>5. Sealed(n) /\ ~Contradicts(n, r) => Storable(AnnotatedRow(r, n))
  <2>1. Sealed(n) => r.status = "PROCESSED"
    BY Zenon DEF Sealed
  <2> QED
    BY Zenon, <1>1, <1>2, <2>1, AnnotatedRowIsStored
<1>6. Mergeable(n) /\ ~Contradicts(n, r) => Storable(EnqueuedRow(r, n))
  BY Zenon, <1>1, <1>2, EnqueuedRowIsStored
<1> QED
  BY Zenon, <1>3, <1>4, <1>5, <1>6 DEF EnqueueIsAccepted

(* What recordCatchUpClassification would write is accepted. *)
LEMMA ClassificationAccepted ==
  ASSUME SchemaInv, NEW c \in Classifications
  PROVE  ClassificationIsAccepted(c)
<1> DEFINE r == inbox[c.signature]
<1>1. c \in ClassificationType /\ c.signature \in Signatures
  BY InputAssumption, ClassificationKeyType
<1>2. Repeats(c) \/ Attaches(c) => r \in Row /\ RowInv(r)
  BY Zenon, <1>1, StoredRow DEF SchemaInv, Repeats, Attaches
<1>3. Recordable(c) => Storable(RecordedRow(c))
  BY Zenon, <1>1, RecordedRowIsStored
<1>4. Repeats(c) /\ ~DefersRevised(c, r) => Storable(ReplayedRow(r, c))
  <2>1. Repeats(c) => r.classification = ClassificationKey(c)
    BY Zenon DEF Repeats
  <2> QED
    BY Zenon, <1>1, <1>2, <2>1, ReplayedRowIsStored
<1>5. Attaches(c) /\ ~DefersRevised(c, r) => Storable(ClassifiedRow(r, c))
  <2>1. Attaches(c) => "WEBSOCKET" \in r.sources
    BY Zenon DEF Attaches
  <2> QED
    BY Zenon, <1>1, <1>2, <2>1, ClassifiedRowIsStored
<1> QED
  BY Zenon, <1>3, <1>4, <1>5 DEF ClassificationIsAccepted

(***************************************************************************)
(* Every stored row satisfies every CHECK constraint, and a row that       *)
(* enqueue or recordCatchUpClassification submits is refused in the two    *)
(* cases Contradicts and DefersRevised only, for any number of signatures, *)
(* mints, programs, providers, attempts and claims.                        *)
(***************************************************************************)
THEOREM SchemaIsKept == Spec => []SchemaChecksHold
<1>1. SchemaInv => SchemaChecksHold
  <2> SUFFICES ASSUME SchemaInv PROVE SchemaChecksHold
    OBVIOUS
  <2>1. RowsSatisfyChecks
    BY DEF SchemaInv, RowsInv, RowInv, RowsSatisfyChecks, Rows
  <2> QED
    BY Zenon, <2>1, EnqueueAccepted, ClassificationAccepted DEF SchemaChecksHold
<1> QED
  BY <1>1, SchemaInvariant, PTL

-----------------------------------------------------------------------------
(* What retention purges is at rest or sealed. *)
LEMMA PurgedIsSettled ==
  ASSUME SchemaInv, NEW s \in Signatures, Purgeable(s)
  PROVE  Settled(s)
<1>1. inbox[s] \in Row /\ RowInv(inbox[s]) /\ inbox[s].purge = "PASSED"
  BY StoredRow DEF Purgeable, SchemaInv
<1> QED
  BY ZenonT(40), <1>1 DEF RowInv, LifecycleChecks, TerminalCheck, RetryCheck, Settled, Purgeable,
     IsTerminal

(* A receipt stays as it is until retention deletes it, after its row. *)
LEMMA ReceiptsAreFinal ==
  ASSUME InboxInv, [Next]_vars, NEW s \in Signatures, receipts[s] # NoReceipt
  PROVE  receipts'[s] = receipts[s] \/ (receipts'[s] = NoReceipt /\ inbox'[s] = NoRow)
<1>1. ASSUME NEW t \in Signatures, NEW token \in 1..claims, NEW st \in Confirmations,
             MarkProcessed(t, token, st)
      PROVE  receipts'[s] = receipts[s]
  <2>1. t # s
    BY <1>1, MarkProcessedPreserves
  <2> QED
    BY <1>1, <2>1 DEF MarkProcessed, InboxInv, TypeOK
<1>2. ASSUME NEW t \in Signatures, PurgeReceipt(t, FALSE)
      PROVE  receipts'[s] = receipts[s] \/ (receipts'[s] = NoReceipt /\ inbox'[s] = NoRow)
  BY <1>2 DEF PurgeReceipt, Present, InboxInv, TypeOK
<1> QED
  BY ZenonT(40), <1>1, <1>2 DEF Next, Enqueue, RecordCatchUpClassification, SyncTrackedMint,
     ClaimNext, Claim,
     ClaimNothing, RenewLease, SaveSnapshot, MarkFailed, RecoverExhausted,
     RecoverDecoderQuarantine, RecordFinalityPoll, EnqueueFinalizedRevision,
     EnqueueOrphanedRevision, PurgeRow, PurgeDecoderReceipt, LeaseExpires, RetryBecomesDue,
     RetentionPasses, TrackingChanges, RestartWithPolicy, vars, inboxVars

(***************************************************************************)
(* The inbox implements its contract.                                      *)
(***************************************************************************)
THEOREM InboxImplementsContract == Spec => InboxKeepsContract
<1>1. Init => Contract!Init
  BY Zenon DEF Init, Contract!Init, Phase
<1>2. SchemaInv /\ [Next]_vars => Contract!Next
  <2> SUFFICES ASSUME SchemaInv, [Next]_vars, NEW s \in Signatures
               PROVE  /\ Phase(s)' \in Contract!Successors(Phase(s))
                      /\ receipts'[s] \in {receipts[s], NoReceipt} \/ Phase(s) # "sealed"
    BY DEF Contract!Next
  <2>1. InboxInv /\ RowsInv
    BY DEF SchemaInv
  <2>2. Phase(s)' \in {"unknown", "live", "rest", "sealed"}
    BY Zenon DEF Phase
  <2>3. CASE receipts[s] # NoReceipt
    BY Zenon, <2>1, <2>3, ReceiptsAreFinal DEF Phase, Contract!Successors
  <2>4. CASE receipts[s] = NoReceipt /\ Phase(s) = "live"
    <3>1. Present(s) /\ ~Settled(s)
      BY Zenon, <2>4 DEF Phase, Present
    <3>2. inbox'[s] # NoRow
      BY ZenonT(40), <2>1, <3>1, NextWrites, PurgedIsSettled, NullAssumption DEF Written, Present
    <3> QED
      BY Zenon, <2>2, <2>4, <3>2 DEF Phase, Contract!Successors
  <2>5. CASE receipts[s] = NoReceipt /\ Phase(s) # "live"
    BY <2>2, <2>5 DEF Phase, Contract!Successors
  <2> QED
    BY ZenonT(40), <2>3, <2>4, <2>5
<1> QED
  BY <1>1, <1>2, SchemaInvariant, PTL DEF Spec, InboxKeepsContract, Contract!Spec

=============================================================================
