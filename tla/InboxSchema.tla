------------------------------ MODULE InboxSchema ------------------------------
(***************************************************************************)
(* The row CHECK constraints that the migrations install on                *)
(* chain_transaction_inbox, as predicates of a row.  The transaction that  *)
(* writes a row refused by one of them is rolled back, so a reachable row  *)
(* that violates one is a repository call that can only fail.              *)
(***************************************************************************)
EXTENDS InboxDomain

Unclaimed(r) ==
  /\ ~r.attempted /\ r.cycle = 0 /\ r.leaseToken = 0 /\ r.snapshot = NoSnapshot
  /\ r.error = "NONE" /\ r.processedAt = 0 /\ r.next = "NONE" /\ ~r.exhausted
  /\ r.missing = 0 /\ r.provider = NoProvider /\ r.version = 0 /\ ~r.recovered

LeaseCheck(r) == (r.status = "PROCESSING") <=> (r.leaseToken # 0)

ErrorCheck(r) == (r.status = "FAILED") <=> (r.error # "NONE")

RetryCheck(r) ==
  IF r.status = "FAILED" /\ r.error = "RETRYABLE" /\ ~r.exhausted
  THEN r.next # "NONE" /\ r.purge = "NONE"
  ELSE /\ r.next = "NONE"
       /\ r.status = "FAILED" => r.purge # "NONE"
       /\ r.exhausted => r.status = "FAILED" /\ r.error = "RETRYABLE"

ProcessedCheck(r) ==
  r.status = "PROCESSED" => r.processedAt # 0 /\ r.snapshot # NoSnapshot

TerminalCheck(r) ==
  r.purge # "NONE" =>
    \/ r.status = "PROCESSED" /\ r.target \in TerminalConfirmations /\ r.processedAt # 0
    \/ r.status \in {"FAILED", "DEFERRED", "IGNORED", "QUARANTINED"}

TerminalCompletionCheck(r) ==
  r.status = "PROCESSED" /\ r.target \in TerminalConfirmations => r.purge # "NONE"

RetryPolicyCheck(r) ==
  /\ r.cycle <= MaxAttempts
  /\ r.status = "PENDING" => r.cycle < MaxAttempts
  /\ r.cycle > 0 => r.attempted

MissingFinalityProviderCheck(r) == (r.missing = 0) <=> (r.provider = NoProvider)

IngestionHintCheck(r) == HintNamesMint(r)

DeferredCheck(r) ==
  r.status = "DEFERRED" =>
    /\ r.hint = "PUMPFUN_TRADE" /\ r.priority = "NORMAL"
    /\ Unclaimed(r) /\ r.purge # "NONE"

(* The hint a row may carry next to each stored classification. *)
CatchUpClassificationCheck(r) ==
  r.classification # NoClassification =>
    LET k == r.classification
        enqueued == r.catchUpPriority # "NOT_ENQUEUED"
        undifferentiated == r.hint = "NONE" /\ r.mint = NoMint
    IN /\ "CATCH_UP" \in r.sources
       /\ IF k.disposition = "ACTIONABLE"
          THEN /\ enqueued \/ "WEBSOCKET" \in r.sources
               /\ \/ r.hint = k.hint /\ r.mint = k.mint
                  \/ k.hint = "PUMPFUN_TRADE" /\ undifferentiated
          ELSE IF k.disposition = "DEFERRED"
          THEN \/ r.hint = k.hint /\ r.mint = k.mint
               \/ undifferentiated
          ELSE undifferentiated /\ ~enqueued

CatchUpTerminalCheck(r) ==
  LET parked == {"IGNORED", "QUARANTINED"}
      disposition == IF r.classification = NoClassification THEN "NONE"
                     ELSE r.classification.disposition
  IN \/ r.status \notin parked /\ disposition \notin parked
     \/ r.status = disposition /\ r.catchUpPriority = "NOT_ENQUEUED"
        /\ r.priority = "NORMAL" /\ r.hint = "NONE" /\ Unclaimed(r) /\ r.purge # "NONE"
     \/ disposition \in parked /\ r.catchUpPriority = "NOT_ENQUEUED"
        /\ "WEBSOCKET" \in r.sources

DecoderEligibilityCheck(r) ==
  /\ r.decoderUsed => r.recovered
  /\ r.decoderEligible =>
       /\ ~r.decoderUsed /\ r.status = "FAILED" /\ r.error = "DECODER"
       /\ ~r.exhausted /\ r.processedAt = 0 /\ r.leaseToken = 0 /\ r.next = "NONE"
       /\ r.purge # "NONE" /\ r.snapshot # NoSnapshot /\ r.attempted /\ r.cycle > 0

WorkerAdmissionCheck(r) ==
  ~r.admitted =>
    /\ r.status \notin {"PROCESSING", "PROCESSED", "FAILED"}
    /\ Unclaimed(r) /\ ~r.decoderEligible /\ ~r.decoderUsed

(* Read back by storedIngestionDecision, which throws on a contradiction. *)
PriorityMatchesHint(r) ==
  /\ (r.priority = "LAUNCH_CANDIDATE") <=> (r.hint = "PUMPFUN_CREATE")
  /\ r.priority = "TRACKED_TRADE" => r.hint \in TradeHints

(* The constraints on the lifecycle of a row ... *)
LifecycleChecks(r) ==
  /\ LeaseCheck(r) /\ ErrorCheck(r) /\ RetryCheck(r) /\ ProcessedCheck(r)
  /\ TerminalCheck(r) /\ TerminalCompletionCheck(r) /\ RetryPolicyCheck(r)
  /\ MissingFinalityProviderCheck(r) /\ DecoderEligibilityCheck(r)
  /\ WorkerAdmissionCheck(r)

(* ... and on what ingestion decided about it. *)
IngestionChecks(r) ==
  /\ IngestionHintCheck(r) /\ PriorityMatchesHint(r)
  /\ CatchUpClassificationCheck(r) /\ CatchUpTerminalCheck(r)

=============================================================================
