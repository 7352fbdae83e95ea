------------------------ MODULE TransactionInboxProofs ------------------------
(***************************************************************************)
(* The inbox keeps its types and its receipts keep agreeing with their     *)
(* rows, for every set of signatures, mints, providers and fingerprints,   *)
(* every input of the right type and every value of the limits.            *)
(*                                                                         *)
(* The proof goes from a column (RowUpdates) to a row (one lemma per row   *)
(* update of the repository: it gives a row, and it neither completes an   *)
(* open row nor changes a sealed one) to an action (one lemma per group of *)
(* operations) to the two theorems.  InboxInv is inductive as it stands:   *)
(* the seal needs the types (a receipt has a terminal status and a         *)
(* snapshot, so its row is neither advancing nor pristine), the types need *)
(* the seal nowhere.                                                       *)
(***************************************************************************)
EXTENDS InboxProperties, TLAPS

(* Setting one column of a row to a value of its type gives a row. *)
LEMMA RowUpdates ==
  ASSUME NEW r \in Row
  PROVE  /\ \A v \in SUBSET Sources : [r EXCEPT !.sources = v] \in Row
         /\ \A v \in SUBSET Programs : [r EXCEPT !.programs = v] \in Row
         /\ \A v \in Confirmations : [r EXCEPT !.target = v] \in Row
         /\ \A v \in InboxStatuses : [r EXCEPT !.status = v] \in Row
         /\ \A v \in Priorities : [r EXCEPT !.priority = v] \in Row
         /\ \A v \in Hints : [r EXCEPT !.hint = v] \in Row
         /\ \A v \in MaybeMints : [r EXCEPT !.mint = v] \in Row
         /\ \A v \in BOOLEAN : [r EXCEPT !.admitted = v] \in Row
         /\ \A v \in BOOLEAN : [r EXCEPT !.attempted = v] \in Row
         /\ \A v \in 0..MaxAttempts : [r EXCEPT !.cycle = v] \in Row
         /\ \A v \in Nat : [r EXCEPT !.leaseToken = v] \in Row
         /\ \A v \in BOOLEAN : [r EXCEPT !.leaseExpired = v] \in Row
         /\ \A v \in Errors : [r EXCEPT !.error = v] \in Row
         /\ \A v \in Deadlines : [r EXCEPT !.next = v] \in Row
         /\ \A v \in BOOLEAN : [r EXCEPT !.exhausted = v] \in Row
         /\ \A v \in Fingerprints \cup {NoSnapshot} : [r EXCEPT !.snapshot = v] \in Row
         /\ \A v \in Nat : [r EXCEPT !.processedAt = v] \in Row
         /\ \A v \in Deadlines : [r EXCEPT !.purge = v] \in Row
         /\ \A v \in Nat : [r EXCEPT !.missing = v] \in Row
         /\ \A v \in Providers \cup {NoProvider} : [r EXCEPT !.provider = v] \in Row
         /\ \A v \in 0..MaxVersion : [r EXCEPT !.version = v] \in Row
         /\ \A v \in BOOLEAN : [r EXCEPT !.recovered = v] \in Row
         /\ \A v \in BOOLEAN : [r EXCEPT !.decoderEligible = v] \in Row
         /\ \A v \in BOOLEAN : [r EXCEPT !.decoderUsed = v] \in Row
         /\ \A v \in ClassificationKeys \cup {NoClassification} : [r EXCEPT !.classification = v] \in Row
         /\ \A v \in Priorities \cup {"NOT_ENQUEUED"} : [r EXCEPT !.catchUpPriority = v] \in Row
<1>1. \A v \in SUBSET Sources : [r EXCEPT !.sources = v] \in Row
  BY DEF Row
<1>2. \A v \in SUBSET Programs : [r EXCEPT !.programs = v] \in Row
  BY DEF Row
<1>3. \A v \in Confirmations : [r EXCEPT !.target = v] \in Row
  BY DEF Row
<1>4. \A v \in InboxStatuses : [r EXCEPT !.status = v] \in Row
  BY DEF Row
<1>5. \A v \in Priorities : [r EXCEPT !.priority = v] \in Row
  BY DEF Row
<1>6. \A v \in Hints : [r EXCEPT !.hint = v] \in Row
  BY DEF Row
<1>7. \A v \in MaybeMints : [r EXCEPT !.mint = v] \in Row
  BY DEF Row
<1>8. \A v \in BOOLEAN : [r EXCEPT !.admitted = v] \in Row
  BY DEF Row
<1>9. \A v \in BOOLEAN : [r EXCEPT !.attempted = v] \in Row
  BY DEF Row
<1>10. \A v \in 0..MaxAttempts : [r EXCEPT !.cycle = v] \in Row
  BY DEF Row
<1>11. \A v \in Nat : [r EXCEPT !.leaseToken = v] \in Row
  BY DEF Row
<1>12. \A v \in BOOLEAN : [r EXCEPT !.leaseExpired = v] \in Row
  BY DEF Row
<1>13. \A v \in Errors : [r EXCEPT !.error = v] \in Row
  BY DEF Row
<1>14. \A v \in Deadlines : [r EXCEPT !.next = v] \in Row
  BY DEF Row
<1>15. \A v \in BOOLEAN : [r EXCEPT !.exhausted = v] \in Row
  BY DEF Row
<1>16. \A v \in Fingerprints \cup {NoSnapshot} : [r EXCEPT !.snapshot = v] \in Row
  BY DEF Row
<1>17. \A v \in Nat : [r EXCEPT !.processedAt = v] \in Row
  BY DEF Row
<1>18. \A v \in Deadlines : [r EXCEPT !.purge = v] \in Row
  BY DEF Row
<1>19. \A v \in Nat : [r EXCEPT !.missing = v] \in Row
  BY DEF Row
<1>20. \A v \in Providers \cup {NoProvider} : [r EXCEPT !.provider = v] \in Row
  BY DEF Row
<1>21. \A v \in 0..MaxVersion : [r EXCEPT !.version = v] \in Row
  BY DEF Row
<1>22. \A v \in BOOLEAN : [r EXCEPT !.recovered = v] \in Row
  BY DEF Row
<1>23. \A v \in BOOLEAN : [r EXCEPT !.decoderEligible = v] \in Row
  BY DEF Row
<1>24. \A v \in BOOLEAN : [r EXCEPT !.decoderUsed = v] \in Row
  BY DEF Row
<1>25. \A v \in ClassificationKeys \cup {NoClassification} : [r EXCEPT !.classification = v] \in Row
  BY DEF Row
<1>26. \A v \in Priorities \cup {"NOT_ENQUEUED"} : [r EXCEPT !.catchUpPriority = v] \in Row
  BY DEF Row
<1> QED
  BY Zenon, <1>1, <1>2, <1>3, <1>4, <1>5, <1>6, <1>7, <1>8, <1>9, <1>10, <1>11, <1>12, <1>13,
     <1>14, <1>15, <1>16, <1>17, <1>18, <1>19, <1>20, <1>21, <1>22, <1>23, <1>24, <1>25, <1>26

(* The constants the repository writes have the type of their column. *)
LEMMA Values ==
  /\ "PENDING" \in Deadlines /\ "PASSED" \in Deadlines /\ "NONE" \in Deadlines
  /\ "NONE" \in Errors /\ "RETRYABLE" \in Errors
  /\ "PENDING" \in InboxStatuses /\ "PROCESSING" \in InboxStatuses
  /\ "PROCESSED" \in InboxStatuses /\ "FAILED" \in InboxStatuses
  /\ "DEFERRED" \in InboxStatuses
  /\ "NORMAL" \in Priorities /\ "TRACKED_TRADE" \in Priorities
  /\ "NONE" \in Hints /\ NoMint \in MaybeMints
  /\ 0 \in Nat /\ 0 \in 0..MaxVersion /\ 0 \in 0..MaxAttempts
  /\ NoProvider \in Providers \cup {NoProvider}
  /\ "finalized" \in Confirmations /\ "orphaned" \in Confirmations
  /\ "NOT_ENQUEUED" \in Priorities \cup {"NOT_ENQUEUED"}
BY BoundsAssumption DEF Deadlines, Errors, InboxStatuses, Priorities, Hints, MaybeMints, Confirmations

(* The pure decisions return decisions. *)
LEMMA FirstDecisionType ==
  ASSUME NEW n \in NotificationType, NEW tracked, NEW programs
  PROVE  FirstDecision(n, tracked, programs) \in Decision
BY DEF FirstDecision, Decision, Conservative, Undeferred, NotificationType, HintNamesMint,
   TradeHints, PollerHints, Hints, Priorities, InboxStatuses, MaybeMints

LEMMA IngestionDecisionType ==
  ASSUME NEW r \in Row, NEW n \in NotificationType
  PROVE  IngestionDecision(r, n) \in Decision
<1>1. StoredDecision(r) \in Decision
  BY DEF StoredDecision, Decision, Row
<1>2. ASSUME NEW tracked, NEW programs
      PROVE  ConvergeIngestion(r, n, tracked, programs) \in Decision
  BY DEF ConvergeIngestion, Decision, Conservative, StoredDecision, Undeferred,
     NotificationType, HintNamesMint, TradeHints, PollerHints, Hints, Priorities,
     InboxStatuses, MaybeMints, Row
<1> QED
  BY <1>1, <1>2 DEF IngestionDecision

LEMMA CatchUpDecisionType ==
  ASSUME NEW c \in ClassificationType, NEW programs
  PROVE  CatchUpDecision(c, programs) \in Decision
BY DEF CatchUpDecision, ClassificationDecision, Decision, Conservative, Undeferred,
   ClassificationType, HintNamesMint, TradeHints, PollerHints, Hints, Priorities,
   InboxStatuses, MaybeMints, Dispositions

LEMMA ReconciledType ==
  ASSUME NEW a \in Confirmations, NEW b \in Confirmations
  PROVE  Reconciled(a, b) \in Confirmations
BY DEF Reconciled

LEMMA StoredDecisionType ==
  ASSUME NEW r \in Row
  PROVE  StoredDecision(r) \in Decision
BY DEF StoredDecision, Decision, Row

(* Every row update of the repository gives a row. *)
LEMMA FreshRowType ==
  ASSUME NEW slot \in Slots, NEW source \in Sources, NEW programs \in SUBSET Programs,
         NEW confirmation \in Confirmations, NEW d \in Decision
  PROVE  FreshRow(slot, source, programs, confirmation, d) \in Row
<1>1. Admits(d.status, d.priority) \in BOOLEAN
  BY DEF Admits
<1>2. {source} \in SUBSET Sources
  OBVIOUS
<1>3. (IF d.status = "PENDING" THEN "NONE" ELSE "PENDING") \in Deadlines
  BY DEF Deadlines
<1> QED
  BY <1>1, <1>2, <1>3, Values DEF FreshRow, Row, Decision

LEMMA SeenIngestedType ==
  ASSUME NEW r \in Row, NEW source \in Sources, NEW programs \in SUBSET Programs,
         NEW d \in Decision
  PROVE  /\ Seen(r, source, programs) \in Row
         /\ Ingested(Seen(r, source, programs), d) \in Row
<1>1. r.sources \cup {source} \in SUBSET Sources /\ r.programs \cup programs \in SUBSET Programs
  BY DEF Row
<1>2. Seen(r, source, programs) \in Row
  BY Zenon, <1>1, RowUpdates DEF Seen
<1>3. d.priority \in Priorities /\ d.hint \in Hints /\ d.mint \in MaybeMints
  BY DEF Decision
<1> QED
  BY Zenon, <1>2, <1>3, RowUpdates DEF Ingested

LEMMA ReopenedType ==
  ASSUME NEW r \in Row, NEW target \in Confirmations
  PROVE  /\ WithoutMissing(r) \in Row
         /\ Reopened(r, target) \in Row
BY ZenonT(40), RowUpdates, Values DEF Reopened, NewCycle, WithoutMissing

LEMMA SyncedRowType ==
  ASSUME NEW r \in Row, NEW active \in BOOLEAN
  PROVE  SyncedRow(r, active) \in Row
<1>1. /\ (IF active THEN "PENDING" ELSE "DEFERRED") \in InboxStatuses
      /\ (IF active THEN "TRACKED_TRADE" ELSE "NORMAL") \in Priorities
      /\ (IF active THEN "NONE" ELSE "PENDING") \in Deadlines
  BY Values
<1>2. \A b \in BOOLEAN : b \/ active \in BOOLEAN
  OBVIOUS
<1>3. CASE Cardinality(r.programs) > 1
  BY ZenonT(40), <1>3, RowUpdates, Values DEF SyncedRow
<1>4. CASE ~(Cardinality(r.programs) > 1)
  <2> DEFINE w == WithoutMissing(r)
  <2>1. w \in Row /\ w.admitted \in BOOLEAN
    BY ReopenedType DEF Row
  <2>2. w.admitted \/ active \in BOOLEAN
    OBVIOUS
  <2> HIDE DEF w
  <2>3. [w EXCEPT !.status = IF active THEN "PENDING" ELSE "DEFERRED",
                  !.priority = IF active THEN "TRACKED_TRADE" ELSE "NORMAL",
                  !.purge = IF active THEN "NONE" ELSE "PENDING",
                  !.version = 0] \in Row
    BY ZenonT(40), <1>1, <2>1, RowUpdates, Values
  <2> QED
    BY Zenon, <1>4, <2>2, <2>3, RowUpdates DEF SyncedRow, w
<1> QED
  BY <1>3, <1>4

LEMMA SweptType ==
  ASSUME NEW r \in Row
  PROVE  Swept(r) \in Row
BY ZenonT(40), RowUpdates, Values DEF Swept, ExhaustedRow, DemotedRow, WithLease

LEMMA LeasedRowType ==
  ASSUME NEW r \in Row, Claimable(r), NEW token \in Nat
  PROVE  LeasedRow(r, token) \in Row
<1>1. r.cycle + 1 \in 0..MaxAttempts
  BY BoundsAssumption DEF Claimable, Row
<1> DEFINE w == WithLease(WithoutError(r), token)
<1>2. w \in Row /\ w.cycle = r.cycle
  <2>1. w \in Row
    BY Zenon, RowUpdates, Values DEF WithLease, WithoutError
  <2> QED
    BY <2>1 DEF WithLease, WithoutError, Row
<1> HIDE DEF w
<1>3. [w EXCEPT !.status = "PROCESSING", !.attempted = TRUE, !.cycle = r.cycle + 1] \in Row
  BY Zenon, <1>1, <1>2, RowUpdates, Values
<1> QED
  BY Zenon, <1>2, <1>3, RowUpdates DEF LeasedRow, w

LEMMA ProcessedRowType ==
  ASSUME NEW r \in Row, NEW confirmation \in Confirmations
  PROVE  ProcessedRow(r, confirmation) \in Row
<1> DEFINE next == Reconciled(r.target, confirmation)
           done == [WithLease(WithoutError(r), 0) EXCEPT
                      !.target = next, !.status = "PROCESSED",
                      !.processedAt = r.leaseToken, !.purge = "NONE"]
<1>1. next \in Confirmations /\ r.leaseToken \in Nat
  BY ReconciledType DEF Row
<1> HIDE DEF next
<1>2. done \in Row
  BY ZenonT(40), <1>1, RowUpdates, Values DEF WithLease, WithoutError
<1> HIDE DEF done
<1>3. [WithoutMissing(done) EXCEPT !.purge = "PENDING"] \in Row
  BY Zenon, <1>2, RowUpdates, Values DEF WithoutMissing
<1>4. \A v \in 0..MaxVersion : (IF v < MaxVersion THEN v + 1 ELSE v) \in 0..MaxVersion
  BY BoundsAssumption
<1>5. WithoutMissing(done).version \in 0..MaxVersion
  BY Zenon, <1>2, ReopenedType DEF Row
<1> QED
  BY Zenon, <1>2, <1>3, <1>4, <1>5, RowUpdates DEF ProcessedRow, done, next

LEMMA FailedRowType ==
  ASSUME NEW r \in Row, NEW error \in Errors, NEW receipt
  PROVE  FailedRow(r, error, receipt) \in Row
<1> DEFINE exhausted == error = "RETRYABLE" /\ r.cycle >= MaxAttempts
           terminal == error # "RETRYABLE" \/ exhausted
           eligible == /\ error = "DECODER" /\ r.snapshot # NoSnapshot
                       /\ ~r.decoderUsed /\ ~receipt
<1>1. exhausted \in BOOLEAN /\ eligible \in BOOLEAN
  OBVIOUS
<1>2. /\ (IF terminal THEN "NONE" ELSE "PENDING") \in Deadlines
      /\ (IF terminal THEN "PENDING" ELSE "NONE") \in Deadlines
  BY Values
<1> HIDE DEF exhausted, terminal, eligible
<1> DEFINE w == [WithLease(r, 0) EXCEPT !.status = "FAILED", !.error = error,
                                         !.next = IF terminal THEN "NONE" ELSE "PENDING"]
           v == [w EXCEPT !.exhausted = exhausted,
                          !.purge = IF terminal THEN "PENDING" ELSE "NONE"]
<1>3. w \in Row
  BY Zenon, <1>2, RowUpdates, Values DEF WithLease
<1> HIDE DEF w
<1>4. v \in Row
  BY ONLY Zenon, <1>1, <1>2, <1>3, RowUpdates
<1> HIDE DEF v
<1>5. [v EXCEPT !.decoderEligible = eligible] \in Row
  BY ONLY Zenon, <1>1, <1>4, RowUpdates
<1> QED
  BY ONLY Zenon, <1>5 DEF FailedRow, v, w, exhausted, terminal, eligible

LEMMA RecoveredRowType ==
  ASSUME NEW r \in Row
  PROVE  /\ RecoveredRow(r) \in Row
         /\ [RecoveredRow(r) EXCEPT !.decoderEligible = FALSE, !.decoderUsed = TRUE] \in Row
<1>1. RecoveredRow(r) \in Row
  BY ZenonT(40), RowUpdates, Values DEF RecoveredRow, NewCycle, WithLease, WithoutError
<1> QED
  BY Zenon, <1>1, RowUpdates

LEMMA PolledRowType ==
  ASSUME NEW r \in Row, NEW provider \in Providers, r.version < MaxVersion,
         NEW answer \in {"missing", "processed", "confirmed"}
  PROVE  PolledRow(r, provider, answer) \in Row
<1>1. r.version + 1 \in 0..MaxVersion
  BY BoundsAssumption DEF Row
<1>2. (IF r.provider = provider THEN r.missing + 1 ELSE 1) \in Nat
  BY DEF Row
<1>3. CASE answer = "missing"
  BY Zenon, <1>1, <1>2, <1>3, RowUpdates DEF PolledRow
<1>4. CASE answer # "missing"
  <2> DEFINE w == WithoutMissing(r)
  <2>1. w \in Row /\ w.version = r.version /\ w.target = r.target
    <3>1. w \in Row
      BY Zenon, RowUpdates, Values DEF WithoutMissing
    <3> QED
      BY <3>1 DEF WithoutMissing, Row
  <2>2. Reconciled(r.target, answer) \in Confirmations
    BY <1>4, ReconciledType DEF Row, Confirmations
  <2> HIDE DEF w
  <2>3. [w EXCEPT !.target = Reconciled(r.target, answer), !.version = r.version + 1] \in Row
    BY Zenon, <1>1, <2>1, <2>2, RowUpdates
  <2> QED
    BY <1>4, <2>1, <2>3 DEF PolledRow, w
<1> QED
  BY <1>3, <1>4

LEMMA EnqueuedRowType ==
  ASSUME NEW r \in Row, NEW n \in NotificationType,
         IngestionDecision(r, n).status # "DEFERRED" => r.version < MaxVersion
  PROVE  /\ AnnotatedRow(r, n) \in Row
         /\ EnqueuedRow(r, n) \in Row
<1> DEFINE d == IngestionDecision(r, n)
           next == Reconciled(r.target, n.confirmation)
           seen == Ingested(Seen(r, n.source, n.programs), d)
           purge == IF d.status = "DEFERRED"
                    THEN IF seen.purge = "NONE" THEN "PENDING" ELSE seen.purge
                    ELSE IF r.status = "DEFERRED" THEN "NONE" ELSE seen.purge
           running == [WithoutMissing(seen) EXCEPT
                         !.target = next, !.status = d.status, !.purge = purge]
           base == IF r.status = "PROCESSED" /\ next # r.target
                   THEN Reopened(seen, next) ELSE running
           version == IF \/ d.status = "DEFERRED"
                         \/ enabled /\ ~r.admitted /\ d.priority = "NORMAL"
                      THEN 0 ELSE base.version + 1
           admitted == base.admitted \/ Admits(base.status, d.priority)
<1>1. d \in Decision
  BY IngestionDecisionType
<1>2. n.source \in Sources /\ n.programs \in SUBSET Programs /\ n.confirmation \in Confirmations
  BY DEF NotificationType
<1>3. next \in Confirmations
  BY <1>2, ReconciledType DEF Row
<1>4. seen \in Row /\ seen.version = r.version
  <2>1. seen \in Row
    BY <1>1, <1>2, SeenIngestedType
  <2> QED
    BY <2>1 DEF Ingested, Seen, Row
<1>5. AnnotatedRow(r, n) \in Row
  BY <1>4 DEF AnnotatedRow
<1> HIDE DEF d, next, seen
<1>6. WithoutMissing(seen).purge = seen.purge /\ seen.purge \in Deadlines
  BY <1>4 DEF WithoutMissing, Row
<1>7. purge \in Deadlines /\ d.status \in InboxStatuses
  BY <1>1, <1>6, Values DEF Decision
<1>8. running \in Row
  <2> HIDE DEF purge
  <2> QED
    BY Zenon, <1>3, <1>4, <1>7, ReopenedType, RowUpdates
<1>9. base \in Row /\ base.version = r.version
  <2>1. Reopened(seen, next) \in Row
    BY <1>3, <1>4, ReopenedType
  <2>2. Reopened(seen, next).version = r.version
    BY <1>3, <1>4, <2>1 DEF Reopened, NewCycle, WithoutMissing, Row
  <2>3. running.version = r.version
    BY <1>4, <1>8 DEF WithoutMissing, Row
  <2> HIDE DEF running
  <2> QED
    BY <1>8, <2>1, <2>2, <2>3
<1>10. base.version + 1 \in 0..MaxVersion \/ d.status = "DEFERRED"
  BY <1>9, BoundsAssumption DEF Row, d
<1> HIDE DEF base
<1>11. version \in 0..MaxVersion
  BY <1>10, Values
<1>12. admitted \in BOOLEAN
  BY <1>9 DEF Row, Admits
<1> HIDE DEF version, admitted
<1>13. [base EXCEPT !.version = version, !.admitted = admitted] \in Row
  BY Zenon, <1>9, <1>11, <1>12, RowUpdates
<1>14. EnqueuedRow(r, n) = [base EXCEPT !.version = version, !.admitted = admitted]
  BY <1>6 DEF EnqueuedRow, base, running, purge, version, admitted, d, next, seen
<1> QED
  BY <1>5, <1>13, <1>14

LEMMA ClassificationKeyType ==
  ASSUME NEW c \in ClassificationType
  PROVE  /\ ClassificationKey(c) \in ClassificationKeys \cup {NoClassification}
         /\ c.programs \in SUBSET Programs /\ c.confirmation \in Confirmations
         /\ c.slot \in Slots /\ c.signature \in Signatures
BY DEF ClassificationKey, ClassificationKeys, ClassificationType, Hints, TradeHints, PollerHints

(* A row whose completed status advances is reopened with the next version. *)
LEMMA ReplayingType ==
  ASSUME NEW r \in Row, NEW target \in Confirmations, r.version < MaxVersion
  PROVE  [Reopened(r, target) EXCEPT !.version = @ + 1] \in Row
<1>1. Reopened(r, target) \in Row
  BY ReopenedType
<1>2. Reopened(r, target).version = r.version
  BY <1>1 DEF Reopened, NewCycle, WithoutMissing, Row
<1>3. r.version + 1 \in 0..MaxVersion
  BY BoundsAssumption DEF Row
<1> QED
  BY <1>1, <1>2, <1>3, RowUpdates

LEMMA ReplayedRowType ==
  ASSUME NEW r \in Row, NEW c \in ClassificationType, ClassificationMerges(r, c)
  PROVE  ReplayedRow(r, c) \in Row
<1> DEFINE pristine == IsPristineInbox(r)
           d == IF pristine THEN CatchUpDecision(c, r.programs \cup c.programs)
                ELSE StoredDecision(r)
           next == Reconciled(r.target, c.confirmation)
           seen == Ingested(Seen(r, "CATCH_UP", c.programs), d)
           purge == IF d.status = "PENDING" THEN "NONE"
                    ELSE IF seen.purge = "NONE" /\ pristine /\ d.status = "DEFERRED"
                    THEN "PENDING" ELSE seen.purge
           running == [seen EXCEPT !.target = next, !.status = d.status, !.purge = purge]
           base == IF ClassificationReplays(r, c)
                   THEN [Reopened(seen, next) EXCEPT !.version = @ + 1] ELSE running
           newlyAdmitted == /\ enabled /\ r.catchUpPriority = "NOT_ENQUEUED" /\ ~r.admitted
                            /\ d.status = "PENDING" /\ d.priority # "NORMAL"
           admitted == base.admitted \/ Admits(base.status, d.priority)
           priority == IF newlyAdmitted THEN d.priority ELSE base.catchUpPriority
<1>1. d \in Decision
  BY CatchUpDecisionType, StoredDecisionType
<1>2. next \in Confirmations
  BY Zenon, ClassificationKeyType, ReconciledType DEF Row
<1>3. seen \in Row /\ seen.version = r.version /\ seen.purge \in Deadlines
  <2>1. seen \in Row
    BY <1>1, ClassificationKeyType, SeenIngestedType DEF Sources
  <2> QED
    BY ZenonT(40), <2>1 DEF Ingested, Seen, Row
<1> HIDE DEF d, next, seen
<1>4. purge \in Deadlines /\ d.status \in InboxStatuses /\ d.priority \in Priorities
  BY <1>1, <1>3, Values DEF Decision
<1>5. running \in Row
  <2> HIDE DEF purge
  <2> QED
    BY Zenon, <1>2, <1>3, <1>4, RowUpdates
<1>6. base \in Row
  <2>1. ClassificationReplays(r, c) => seen.version < MaxVersion
    BY <1>3 DEF ClassificationMerges
  <2> HIDE DEF running
  <2> QED
    BY <1>2, <1>3, <1>5, <2>1, ReplayingType
<1> HIDE DEF base
<1>7. admitted \in BOOLEAN /\ priority \in Priorities \cup {"NOT_ENQUEUED"}
  BY <1>4, <1>6 DEF Row, Admits
<1> HIDE DEF admitted, priority
<1>8. [base EXCEPT !.admitted = admitted, !.catchUpPriority = priority] \in Row
  BY Zenon, <1>6, <1>7, RowUpdates
<1>9. ReplayedRow(r, c) = [base EXCEPT !.admitted = admitted, !.catchUpPriority = priority]
  BY DEF ReplayedRow, base, running, purge, newlyAdmitted, admitted, priority, d, next, seen
<1> QED
  BY <1>8, <1>9

LEMMA ClassifiedRowType ==
  ASSUME NEW r \in Row, NEW c \in ClassificationType, ClassificationMerges(r, c)
  PROVE  ClassifiedRow(r, c) \in Row
<1> DEFINE pristine == IsPristineInbox(r)
           d == CatchUpDecision(c, r.programs \cup c.programs)
           next == Reconciled(r.target, c.confirmation)
           replays == ClassificationReplays(r, c)
           seen == Ingested(Seen(r, "CATCH_UP", c.programs), d)
           status == IF pristine THEN d.status ELSE seen.status
           purge == IF ~pristine THEN seen.purge
                    ELSE IF d.status = "PENDING" THEN "NONE" ELSE "PENDING"
           running == [seen EXCEPT !.target = next, !.status = status, !.purge = purge]
           base == IF replays THEN [Reopened(seen, next) EXCEPT !.version = @ + 1] ELSE running
           enqueued == IF enabled
                       THEN ~r.admitted /\ Admits(base.status, d.priority)
                       ELSE r.status = "DEFERRED" /\ d.status = "PENDING"
           admitted == base.admitted \/ Admits(base.status, d.priority)
           priority == IF enqueued THEN d.priority ELSE "NOT_ENQUEUED"
<1>1. d \in Decision
  BY Zenon, CatchUpDecisionType
<1>2. next \in Confirmations
  BY ClassificationKeyType, ReconciledType DEF Row
<1>3. seen \in Row /\ seen.version = r.version
      /\ seen.purge \in Deadlines /\ seen.status \in InboxStatuses
  <2>1. seen \in Row
    BY <1>1, ClassificationKeyType, SeenIngestedType DEF Sources
  <2> QED
    BY Zenon, <2>1 DEF Ingested, Seen, Row
<1> HIDE DEF d, next, seen
<1>4. purge \in Deadlines /\ status \in InboxStatuses /\ d.priority \in Priorities
  BY <1>1, <1>3, Values DEF Decision
<1>5. running \in Row
  <2> HIDE DEF purge, status
  <2> QED
    BY Zenon, <1>2, <1>3, <1>4, RowUpdates
<1>6. base \in Row
  <2>1. replays => seen.version < MaxVersion
    BY <1>3 DEF ClassificationMerges
  <2> HIDE DEF running, replays
  <2> QED
    BY <1>2, <1>3, <1>5, <2>1, ReplayingType
<1> HIDE DEF base
<1>7. admitted \in BOOLEAN
  BY <1>6 DEF Row, Admits
<1>8. priority \in Priorities \cup {"NOT_ENQUEUED"}
  BY <1>4
<1> HIDE DEF admitted, priority
<1>9. [base EXCEPT !.admitted = admitted, !.classification = ClassificationKey(c),
                   !.catchUpPriority = priority] \in Row
  BY ZenonT(40), <1>6, <1>7, <1>8, ClassificationKeyType, RowUpdates
<1>10. ClassifiedRow(r, c) =
         [base EXCEPT !.admitted = admitted, !.classification = ClassificationKey(c),
                      !.catchUpPriority = priority]
  BY DEF ClassifiedRow, base, running, status, purge, replays, enqueued, admitted, priority,
     d, next, seen
<1> QED
  BY <1>9, <1>10

-----------------------------------------------------------------------------
(***************************************************************************)
(* No update of a row that is not completed, or not terminally, completes  *)
(* it terminally, except markProcessed, and no update of a sealed row      *)
(* changes what its receipt says.                                          *)
(***************************************************************************)

(* A row that is not terminally completed has no receipt. *)
LEMMA UnsealedRow ==
  ASSUME NEW r \in Row, NEW x \in Receipt \cup {NoReceipt}, SealedBy(r, x),
         r.status # "PROCESSED" \/ ~IsTerminal(r)
  PROVE  x = NoReceipt
BY DEF SealedBy, ReceiptOf, Receipt, IsTerminal

(* A sealed row is terminal and not pristine. *)
LEMMA SealedRow ==
  ASSUME NEW r \in Row, NEW x \in Receipt \cup {NoReceipt}, SealedBy(r, x), x # NoReceipt
  PROVE  /\ r.status = "PROCESSED" /\ IsTerminal(r) /\ x = ReceiptOf(r)
         /\ ~IsPristineInbox(r)
BY NullAssumption DEF SealedBy, ReceiptOf, Receipt, IsTerminal, IsPristineInbox

(* An announcement or a classification completes nothing. *)
LEMMA DecisionsNeverComplete ==
  /\ \A n \in NotificationType : \A t, p : FirstDecision(n, t, p).status # "PROCESSED"
  /\ \A c \in ClassificationType : \A p : CatchUpDecision(c, p).status # "PROCESSED"
  /\ \A r \in Row : \A n \in NotificationType :
       IngestionDecision(r, n).status = "PROCESSED" => r.status = "PROCESSED"
<1>1. ASSUME NEW n \in NotificationType, NEW t, NEW p
      PROVE  FirstDecision(n, t, p).status # "PROCESSED"
  BY DEF FirstDecision, Conservative, Undeferred
<1>2. ASSUME NEW c \in ClassificationType, NEW p
      PROVE  CatchUpDecision(c, p).status # "PROCESSED"
  BY DEF CatchUpDecision, ClassificationDecision, Conservative, Undeferred
<1>3. ASSUME NEW r \in Row, NEW n \in NotificationType,
             IngestionDecision(r, n).status = "PROCESSED"
      PROVE  r.status = "PROCESSED"
  BY <1>3 DEF IngestionDecision, ConvergeIngestion, Conservative, StoredDecision, Undeferred
<1> QED
  BY <1>1, <1>2, <1>3

LEMMA AdvancesFacts ==
  /\ \A a, b : Advances(a, b) => a \notin TerminalConfirmations
  /\ \A a, b : Reconciled(a, b) # a => Advances(a, b)
  /\ \A a \in Confirmations : \A b \in Confirmations \ {"orphaned"} :
       a \in TerminalConfirmations /\ Reconcilable(a, b) => a = "finalized"
BY DEF Advances, Reconciled, Reconcilable, TerminalConfirmations

LEMMA EnqueuedRowUnsealed ==
  ASSUME NEW r \in Row, NEW n \in NotificationType,
         r.status # "PROCESSED" \/ ~IsTerminal(r)
  PROVE  LET q == EnqueuedRow(r, n) IN q.status # "PROCESSED" \/ ~IsTerminal(q)
<1> DEFINE d == IngestionDecision(r, n)
           next == Reconciled(r.target, n.confirmation)
           seen == Ingested(Seen(r, n.source, n.programs), d)
           q == EnqueuedRow(r, n)
<1>1. seen \in Row
  BY IngestionDecisionType, SeenIngestedType DEF NotificationType
<1>2. next \in Confirmations
  BY ReconciledType DEF Row, NotificationType
<1>3. CASE r.status = "PROCESSED" /\ next # r.target
  <2>1. q.status = Reopened(seen, next).status
    BY <1>1, <1>2, <1>3, ReopenedType DEF EnqueuedRow, Row
  <2>2. Reopened(seen, next).status = "PENDING"
    BY ZenonT(40), <1>1, <1>2, ReopenedType DEF Reopened, NewCycle, WithoutMissing, Row
  <2> QED
    BY <2>1, <2>2
<1>4. CASE ~(r.status = "PROCESSED" /\ next # r.target)
  <2>1. q.status = d.status /\ q.target = next
    BY <1>1, <1>4 DEF EnqueuedRow, WithoutMissing, Row
  <2>2. d.status = "PROCESSED" => r.status = "PROCESSED"
    BY DecisionsNeverComplete
  <2> QED
    BY <1>4, <2>1, <2>2 DEF IsTerminal
<1> QED
  BY <1>3, <1>4

(* AnnotatedRow changes nothing a receipt names. *)
LEMMA AnnotatedRowSealed ==
  ASSUME NEW r \in Row, NEW n \in NotificationType, NEW x, SealedBy(r, x)
  PROVE  SealedBy(AnnotatedRow(r, n), x)
<1> DEFINE q == AnnotatedRow(r, n)
<1>1. /\ q.slot = r.slot /\ q.target = r.target /\ q.version = r.version
      /\ q.snapshot = r.snapshot /\ q.processedAt = r.processedAt /\ q.status = r.status
  BY DEF AnnotatedRow, Ingested, Seen, Row
<1> QED
  BY <1>1 DEF SealedBy, ReceiptOf, IsTerminal

(* A classification leaves a sealed row sealed and completes no other one. *)
LEMMA ReplayedRowSealed ==
  ASSUME NEW r \in Row, NEW c \in ClassificationType, ClassificationMerges(r, c),
         NEW x \in Receipt \cup {NoReceipt}, SealedBy(r, x)
  PROVE  SealedBy(ReplayedRow(r, c), x)
<1> DEFINE d == IF IsPristineInbox(r) THEN CatchUpDecision(c, r.programs \cup c.programs)
                ELSE StoredDecision(r)
           next == Reconciled(r.target, c.confirmation)
           seen == Ingested(Seen(r, "CATCH_UP", c.programs), d)
           q == ReplayedRow(r, c)
<1>1. seen \in Row
  BY ZenonT(40), CatchUpDecisionType, StoredDecisionType, ClassificationKeyType, SeenIngestedType DEF Sources
<1>2. next \in Confirmations
  BY ClassificationKeyType, ReconciledType DEF Row
<1>3. CASE ClassificationReplays(r, c)
  <2>1. x = NoReceipt
    BY <1>3, AdvancesFacts, UnsealedRow DEF ClassificationReplays, IsTerminal
  <2>2. q.status = Reopened(seen, next).status
    BY <1>1, <1>2, <1>3, ReopenedType DEF ReplayedRow, Row
  <2>3. Reopened(seen, next).status = "PENDING"
    BY ZenonT(40), <1>1, <1>2, ReopenedType DEF Reopened, NewCycle, WithoutMissing, Row
  <2> QED
    BY <2>1, <2>2, <2>3 DEF SealedBy
<1>4. CASE ~ClassificationReplays(r, c)
  <2>1. /\ q.status = d.status /\ q.target = next /\ q.slot = r.slot
        /\ q.version = r.version /\ q.snapshot = r.snapshot /\ q.processedAt = r.processedAt
    <3>1. /\ seen.slot = r.slot /\ seen.version = r.version
          /\ seen.snapshot = r.snapshot /\ seen.processedAt = r.processedAt
      BY DEF Ingested, Seen, Row
    <3> HIDE DEF d, next
    <3>2. q.status = d.status /\ q.target = next
      BY <1>1, <1>4 DEF ReplayedRow, Row, d, next
    <3>3. /\ q.slot = seen.slot /\ q.version = seen.version
          /\ q.snapshot = seen.snapshot /\ q.processedAt = seen.processedAt
      BY Zenon, <1>1, <1>4 DEF ReplayedRow, Row, d, next
    <3> QED
      BY <3>1, <3>2, <3>3
  <2>2. d.status = "PROCESSED" => r.status = "PROCESSED" /\ ~IsPristineInbox(r)
    BY Zenon, DecisionsNeverComplete DEF StoredDecision
  <2>3. ~IsPristineInbox(r) => d.status = r.status
    BY DEF StoredDecision
  <2>4. r.status = "PROCESSED" => next = r.target
    BY <1>4 DEF ClassificationReplays
  <2> HIDE DEF d, next, q
  <2>5. CASE x = NoReceipt
    BY <2>1, <2>2, <2>4, <2>5 DEF SealedBy, IsTerminal, q
  <2>6. CASE x # NoReceipt
    BY Zenon, <2>1, <2>3, <2>4, <2>6, SealedRow DEF SealedBy, ReceiptOf, q
  <2> QED
    BY <2>5, <2>6
<1> QED
  BY <1>3, <1>4

LEMMA ClassifiedRowSealed ==
  ASSUME NEW r \in Row, NEW c \in ClassificationType, ClassificationMerges(r, c),
         NEW x \in Receipt \cup {NoReceipt}, SealedBy(r, x)
  PROVE  SealedBy(ClassifiedRow(r, c), x)
<1> DEFINE d == CatchUpDecision(c, r.programs \cup c.programs)
           next == Reconciled(r.target, c.confirmation)
           seen == Ingested(Seen(r, "CATCH_UP", c.programs), d)
           status == IF IsPristineInbox(r) THEN d.status ELSE r.status
           q == ClassifiedRow(r, c)
<1>1. seen \in Row
  BY ZenonT(40), CatchUpDecisionType, ClassificationKeyType, SeenIngestedType DEF Sources
<1>2. next \in Confirmations
  BY ClassificationKeyType, ReconciledType DEF Row
<1>3. CASE ClassificationReplays(r, c)
  <2>1. x = NoReceipt
    BY <1>3, AdvancesFacts, UnsealedRow DEF ClassificationReplays, IsTerminal
  <2>2. q.status = Reopened(seen, next).status
    BY <1>1, <1>2, <1>3, ReopenedType DEF ClassifiedRow, Row
  <2>3. Reopened(seen, next).status = "PENDING"
    BY ZenonT(40), <1>1, <1>2, ReopenedType DEF Reopened, NewCycle, WithoutMissing, Row
  <2> QED
    BY <2>1, <2>2, <2>3 DEF SealedBy
<1>4. CASE ~ClassificationReplays(r, c)
  <2>1. /\ q.status = status /\ q.target = next /\ q.slot = r.slot
        /\ q.version = r.version /\ q.snapshot = r.snapshot /\ q.processedAt = r.processedAt
    <3>1. /\ seen.slot = r.slot /\ seen.version = r.version /\ seen.status = r.status
          /\ seen.snapshot = r.snapshot /\ seen.processedAt = r.processedAt
      BY DEF Ingested, Seen, Row
    <3> HIDE DEF d, next
    <3>2. q.status = (IF IsPristineInbox(r) THEN d.status ELSE seen.status) /\ q.target = next
      BY <1>1, <1>4 DEF ClassifiedRow, Row, d, next
    <3>3. /\ q.slot = seen.slot /\ q.version = seen.version
          /\ q.snapshot = seen.snapshot /\ q.processedAt = seen.processedAt
      BY ZenonT(40), <1>1, <1>4 DEF ClassifiedRow, Row, d, next
    <3> QED
      BY <3>1, <3>2, <3>3
  <2>2. status = "PROCESSED" => r.status = "PROCESSED"
    BY DecisionsNeverComplete
  <2>3. r.status = "PROCESSED" => next = r.target
    BY <1>4 DEF ClassificationReplays
  <2>4. CASE x = NoReceipt
    <3> HIDE DEF status, next, q
    <3> QED
      BY <2>1, <2>2, <2>3, <2>4 DEF SealedBy, IsTerminal, q
  <2>5. CASE x # NoReceipt
    <3>1. r.status = "PROCESSED" /\ x = ReceiptOf(r) /\ status = r.status
      BY <2>5, SealedRow
    <3> HIDE DEF status, next, q
    <3> QED
      BY Zenon, <2>1, <2>3, <2>5, <3>1 DEF SealedBy, ReceiptOf, q
  <2> QED
    BY <2>4, <2>5
<1> QED
  BY <1>3, <1>4

(* Waiting, leased and failed rows are swept, synced and leased to rows    *)
(* that are not completed either.                                          *)
LEMMA OpenRowsStayOpen ==
  ASSUME NEW r \in Row
  PROVE  /\ \A m, active : FollowsTracking(r, m, active) =>
               r.status # "PROCESSED" /\ SyncedRow(r, active).status # "PROCESSED"
         /\ Swept(r) = r \/ (r.status # "PROCESSED" /\ Swept(r).status # "PROCESSED")
         /\ Claimable(r) => r.status # "PROCESSED"
         /\ \A token : LeasedRow(r, token).status # "PROCESSED"
         /\ \A error, receipt : FailedRow(r, error, receipt).status # "PROCESSED"
         /\ RecoveredRow(r).status # "PROCESSED"
         /\ \A target : Reopened(r, target).status # "PROCESSED"
<1>1. ASSUME NEW m, NEW active, FollowsTracking(r, m, active)
      PROVE  r.status # "PROCESSED" /\ SyncedRow(r, active).status # "PROCESSED"
  BY <1>1 DEF FollowsTracking, SyncedRow, WithoutMissing, Row
<1>2. Swept(r) = r \/ (r.status # "PROCESSED" /\ Swept(r).status # "PROCESSED")
  BY DEF Swept, Exhaustible, ExhaustedRow, Demotable, DemotionPristine, DemotedRow, WithLease, Row
<1>3. Claimable(r) => r.status # "PROCESSED"
  BY DEF Claimable
<1>4. \A token : LeasedRow(r, token).status # "PROCESSED"
  BY DEF LeasedRow, WithLease, WithoutError, Row
<1>5. \A error, receipt : FailedRow(r, error, receipt).status # "PROCESSED"
  BY DEF FailedRow, WithLease, Row
<1>6. RecoveredRow(r).status # "PROCESSED"
  BY DEF RecoveredRow, NewCycle, WithLease, WithoutError, Row
<1>7. \A target : Reopened(r, target).status # "PROCESSED"
  BY DEF Reopened, NewCycle, WithoutMissing, Row
<1> QED
  BY <1>1, <1>2, <1>3, <1>4, <1>5, <1>6, <1>7

(* A completion carries exactly what markProcessed writes to the receipt. *)
LEMMA ProcessedRowFacts ==
  ASSUME NEW r \in Row, NEW confirmation \in Confirmations, r.snapshot # NoSnapshot
  PROVE  LET q == ProcessedRow(r, confirmation)
         IN q.status = "PROCESSED" /\ (IsTerminal(q) => ReceiptOf(q) \in Receipt)
<1> DEFINE q == ProcessedRow(r, confirmation)
<1>1. q \in Row
  BY ProcessedRowType
<1>2. q.status = "PROCESSED" /\ q.snapshot = r.snapshot
  BY DEF ProcessedRow, WithoutMissing, WithLease, WithoutError, Row
<1>3. IsTerminal(q) => ReceiptOf(q) \in Receipt
  BY <1>1, <1>2 DEF ReceiptOf, Receipt, IsTerminal, Row
<1> QED
  BY <1>2, <1>3

-----------------------------------------------------------------------------
(***************************************************************************)
(* The inductive invariant: types and seals.                               *)
(***************************************************************************)
InboxInv == TypeOK /\ ReceiptSealsRow

LEMMA RowOf ==
  ASSUME InboxInv, NEW s \in Signatures, Present(s)
  PROVE  /\ inbox[s] \in Row
         /\ receipts[s] \in Receipt \cup {NoReceipt}
         /\ SealedBy(inbox[s], receipts[s])
BY DEF InboxInv, TypeOK, ReceiptSealsRow, Present

(* A step that writes one row, and nothing else, preserves the invariant   *)
(* when the new row is a row and agrees with the receipt.                  *)
LEMMA OneRowWrite ==
  ASSUME InboxInv, NEW s \in Signatures, NEW r \in Row, SealedBy(r, receipts[s]),
         inbox' = [inbox EXCEPT ![s] = r],
         UNCHANGED <<receipts, decoderReceipts, claims, scheduler, tracking>>
  PROVE  InboxInv'
<1>1. TypeOK'
  BY DEF InboxInv, TypeOK, scheduler, tracking
<1>2. ReceiptSealsRow'
  BY DEF InboxInv, TypeOK, ReceiptSealsRow, SealedBy, Present, IsTerminal, ReceiptOf
<1> QED
  BY <1>1, <1>2 DEF InboxInv

(* The same for an open row that stays open. *)
LEMMA OpenRowWrite ==
  ASSUME InboxInv, NEW s \in Signatures, Present(s), inbox[s].status # "PROCESSED",
         NEW r \in Row, r.status # "PROCESSED",
         inbox' = [inbox EXCEPT ![s] = r],
         UNCHANGED <<receipts, decoderReceipts, claims, scheduler, tracking>>
  PROVE  InboxInv'
<1>1. SealedBy(r, receipts[s])
  BY RowOf, UnsealedRow DEF SealedBy
<1> QED
  BY Zenon, <1>1, OneRowWrite

LEMMA EnqueuePreserves ==
  ASSUME InboxInv, NEW n \in Notifications, Enqueue(n)
  PROVE  InboxInv'
<1> DEFINE s == n.signature
           r == inbox[s]
<1>1. /\ n \in NotificationType /\ s \in Signatures /\ n.slot \in Slots /\ n.source \in Sources
      /\ n.programs \in SUBSET Programs /\ n.confirmation \in Confirmations \ {"orphaned"}
  BY InputAssumption DEF NotificationType
<1>2. UNCHANGED <<receipts, decoderReceipts, claims, scheduler, tracking>>
  BY DEF Enqueue
<1>3. CASE EnqueueInsert(n)
  <2> DEFINE d == FirstDecision(n, Tracked(n.hint, n.mint), n.programs)
             q == FreshRow(n.slot, n.source, n.programs, n.confirmation, d)
  <2>1. d \in Decision /\ d.status # "PROCESSED"
    BY <1>1, FirstDecisionType, DecisionsNeverComplete
  <2>2. q \in Row
    BY Zenon, <1>1, <2>1, FreshRowType
  <2>3. q.status # "PROCESSED"
    BY ZenonT(40), <2>1 DEF FreshRow
  <2>4. SealedBy(q, receipts[s])
    BY <1>3, <2>3 DEF EnqueueInsert, Unknown, AnnouncedRow, SealedBy
  <2>5. inbox' = [inbox EXCEPT ![s] = q]
    BY <1>3 DEF EnqueueInsert, Unknown, AnnouncedRow, Write
  <2> HIDE DEF q
  <2> QED
    BY ZenonT(40), <1>1, <1>2, <2>2, <2>4, <2>5, OneRowWrite
<1>4. CASE EnqueueParked(n)
  <2> DEFINE seen == Seen(r, n.source, n.programs)
             q == [seen EXCEPT !.target = Reconciled(seen.target, n.confirmation)]
  <2>1. r \in Row /\ Present(s) /\ ParkedByClassification(r)
    BY <1>1, <1>4, RowOf DEF EnqueueParked, Repeatable, ParkedRow
  <2>2. r.status # "PROCESSED"
    BY ZenonT(40), <2>1 DEF ParkedByClassification, HoldsTerminalClassification
  <2>3. seen \in Row /\ seen.status = r.status
    <3>1. seen \in Row
      BY ZenonT(40), <1>1, <2>1, StoredDecisionType, SeenIngestedType
    <3> QED
      BY <2>1, <3>1 DEF Seen, Row
  <2> HIDE DEF seen
  <2>4. Reconciled(seen.target, n.confirmation) \in Confirmations
    BY <1>1, <2>3, ReconciledType DEF Row
  <2>5. q \in Row
    BY <2>3, <2>4, RowUpdates
  <2>6. q.status # "PROCESSED"
    BY <2>2, <2>3 DEF Row
  <2>7. inbox' = [inbox EXCEPT ![s] = q]
    BY <1>4 DEF EnqueueParked, Repeatable, ParkedRow, Write, seen
  <2> HIDE DEF q
  <2> QED
    BY Zenon, <1>1, <1>2, <2>1, <2>2, <2>5, <2>6, <2>7, OpenRowWrite
<1>5. CASE EnqueueSealed(n)
  <2>1. r \in Row /\ SealedBy(r, receipts[s]) /\ r.status = "PROCESSED"
    BY Zenon, <1>1, <1>5, RowOf DEF EnqueueSealed, Sealed
  <2>2. AnnotatedRow(r, n) \in Row
    BY <1>1, <2>1, IngestionDecisionType, SeenIngestedType DEF AnnotatedRow
  <2>3. SealedBy(AnnotatedRow(r, n), receipts[s])
    BY <1>1, <2>1, AnnotatedRowSealed
  <2>4. inbox' = [inbox EXCEPT ![s] = AnnotatedRow(r, n)]
    BY Zenon, <1>5 DEF EnqueueSealed, Write
  <2> QED
    BY Zenon, <1>1, <1>2, <2>2, <2>3, <2>4, OneRowWrite
<1>6. CASE EnqueueMerge(n)
  <2>1. r \in Row /\ receipts[s] \in Receipt \cup {NoReceipt} /\ SealedBy(r, receipts[s])
    BY Zenon, <1>1, <1>6, RowOf DEF EnqueueMerge, Mergeable
  <2>2. r.status # "PROCESSED" \/ ~IsTerminal(r)
    BY Zenon, <1>1, <1>6, <2>1, AdvancesFacts DEF EnqueueMerge, Mergeable, IsTerminal, Row
  <2>3. receipts[s] = NoReceipt
    BY Zenon, <2>1, <2>2, UnsealedRow
  <2>4. EnqueuedRow(r, n) \in Row
    BY ZenonT(40), <1>1, <1>6, <2>1, EnqueuedRowType DEF EnqueueMerge, Mergeable
  <2>5. SealedBy(EnqueuedRow(r, n), receipts[s])
    BY <1>1, <2>1, <2>2, <2>3, EnqueuedRowUnsealed DEF SealedBy
  <2>6. inbox' = [inbox EXCEPT ![s] = EnqueuedRow(r, n)]
    BY <1>6 DEF EnqueueMerge, Write
  <2> QED
    BY Zenon, <1>1, <1>2, <2>4, <2>5, <2>6, OneRowWrite
<1> QED
  BY <1>3, <1>4, <1>5, <1>6 DEF Enqueue

LEMMA ClassificationPreserves ==
  ASSUME InboxInv, NEW c \in Classifications, RecordCatchUpClassification(c)
  PROVE  InboxInv'
<1> DEFINE s == c.signature
           r == inbox[s]
<1>1. c \in ClassificationType /\ s \in Signatures
  BY InputAssumption, ClassificationKeyType
<1>2. UNCHANGED <<receipts, decoderReceipts, claims, scheduler, tracking>>
  BY DEF RecordCatchUpClassification
<1>3. CASE ClassificationInsert(c)
  <2> DEFINE d == CatchUpDecision(c, c.programs)
             fresh == FreshRow(c.slot, "CATCH_UP", c.programs, c.confirmation, d)
             priority == IF Admits(d.status, d.priority) THEN d.priority
                         ELSE fresh.catchUpPriority
             q == [fresh EXCEPT !.classification = ClassificationKey(c),
                                !.catchUpPriority = priority]
  <2>1. d \in Decision /\ d.status # "PROCESSED"
    BY <1>1, CatchUpDecisionType, DecisionsNeverComplete
  <2>2. fresh \in Row
    BY ZenonT(40), <1>1, <2>1, FreshRowType, ClassificationKeyType DEF Sources
  <2>3. fresh.status # "PROCESSED"
    BY <2>1 DEF FreshRow
  <2>4. priority \in Priorities \cup {"NOT_ENQUEUED"}
    BY <2>1, <2>2 DEF Decision, Row
  <2> HIDE DEF fresh, priority
  <2>5. q \in Row
    BY Zenon, <1>1, <2>2, <2>4, ClassificationKeyType, RowUpdates
  <2>6. q.status # "PROCESSED"
    BY <2>2, <2>3 DEF Row
  <2>7. SealedBy(q, receipts[s])
    BY <1>3, <2>6 DEF ClassificationInsert, Recordable, RecordedRow, Unknown, SealedBy
  <2>8. inbox' = [inbox EXCEPT ![s] = q]
    BY <1>3 DEF ClassificationInsert, Recordable, RecordedRow, Unknown, Write, fresh, priority
  <2> HIDE DEF q
  <2> QED
    BY Zenon, <1>1, <1>2, <2>5, <2>7, <2>8, OneRowWrite
<1>4. CASE ClassificationReplay(c)
  <2>1. /\ r \in Row /\ receipts[s] \in Receipt \cup {NoReceipt} /\ SealedBy(r, receipts[s])
        /\ ClassificationMerges(r, c)
    BY Zenon, <1>1, <1>4, RowOf DEF ClassificationReplay, Repeats
  <2>2. ReplayedRow(r, c) \in Row /\ SealedBy(ReplayedRow(r, c), receipts[s])
    BY Zenon, <1>1, <2>1, ReplayedRowType, ReplayedRowSealed
  <2>3. inbox' = [inbox EXCEPT ![s] = ReplayedRow(r, c)]
    BY <1>4 DEF ClassificationReplay, Write
  <2> QED
    BY Zenon, <1>1, <1>2, <2>2, <2>3, OneRowWrite
<1>5. CASE ClassificationMerge(c)
  <2>1. /\ r \in Row /\ receipts[s] \in Receipt \cup {NoReceipt} /\ SealedBy(r, receipts[s])
        /\ ClassificationMerges(r, c)
    BY ZenonT(40), <1>1, <1>5, RowOf DEF ClassificationMerge, Attaches
  <2>2. ClassifiedRow(r, c) \in Row /\ SealedBy(ClassifiedRow(r, c), receipts[s])
    BY <1>1, <2>1, ClassifiedRowType, ClassifiedRowSealed
  <2>3. inbox' = [inbox EXCEPT ![s] = ClassifiedRow(r, c)]
    BY <1>5 DEF ClassificationMerge, Write
  <2> QED
    BY Zenon, <1>1, <1>2, <2>2, <2>3, OneRowWrite
<1> QED
  BY <1>3, <1>4, <1>5 DEF RecordCatchUpClassification

(* A step that writes any number of open rows, leaves the others alone,    *)
(* and neither adds nor removes one.                                       *)
LEMMA OpenRowsWrite ==
  ASSUME InboxInv, NEW rows \in [Signatures -> Row \cup {NoRow}],
         \A s \in Signatures : \/ rows[s] = inbox[s]
                               \/ /\ Present(s)
                                  /\ inbox[s].status # "PROCESSED"
                                  /\ rows[s].status # "PROCESSED",
         inbox' = rows, receipts' = receipts
  PROVE  ReceiptSealsRow'
<1> SUFFICES ASSUME NEW s \in Signatures, rows[s] # NoRow
             PROVE  SealedBy(rows[s], receipts[s])
  BY DEF ReceiptSealsRow, Present, SealedBy, IsTerminal, ReceiptOf
<1>1. CASE rows[s] = inbox[s]
  BY <1>1 DEF InboxInv, ReceiptSealsRow, Present
<1>2. CASE rows[s] # inbox[s]
  <2>1. receipts[s] = NoReceipt
    BY <1>2, RowOf, UnsealedRow
  <2> QED
    BY Zenon, <1>2, <2>1 DEF SealedBy
<1> QED
  BY ZenonT(40), <1>1, <1>2

LEMMA SyncPreserves ==
  ASSUME InboxInv, NEW m \in Mints, SyncTrackedMint(m)
  PROVE  InboxInv'
<1> DEFINE active == Tracked("PUMPFUN_TRADE", m)
           rows == [s \in Signatures |->
                      IF Present(s) /\ FollowsTracking(inbox[s], m, active)
                      THEN SyncedRow(inbox[s], active) ELSE inbox[s]]
<1>1. inbox' = rows /\ UNCHANGED <<receipts, decoderReceipts, claims, scheduler, tracking>>
  BY DEF SyncTrackedMint
<1>2. active \in BOOLEAN
  BY Zenon DEF Tracked
<1> HIDE DEF active
<1>3. ASSUME NEW s \in Signatures
      PROVE  /\ rows[s] \in Row \cup {NoRow}
             /\ \/ rows[s] = inbox[s]
                \/ /\ Present(s)
                   /\ inbox[s].status # "PROCESSED"
                   /\ rows[s].status # "PROCESSED"
  <2>1. CASE Present(s) /\ FollowsTracking(inbox[s], m, active)
    BY Zenon, <1>2, <2>1, RowOf, SyncedRowType, OpenRowsStayOpen
  <2>2. CASE ~(Present(s) /\ FollowsTracking(inbox[s], m, active))
    BY Zenon, <2>2 DEF InboxInv, TypeOK
  <2> QED
    BY Zenon, <2>1, <2>2
<1>4. rows \in [Signatures -> Row \cup {NoRow}]
  BY Zenon, <1>3
<1> HIDE DEF rows
<1>5. ReceiptSealsRow'
  BY Zenon, <1>1, <1>3, <1>4, OpenRowsWrite
<1> QED
  BY <1>1, <1>4, <1>5 DEF InboxInv, TypeOK, scheduler, tracking

(* What the sweep of claim leaves behind. *)
LEMMA SweptInboxFacts ==
  ASSUME InboxInv, NEW locked
  PROVE  /\ SweptInbox(locked) \in [Signatures -> Row \cup {NoRow}]
         /\ \A s \in Signatures :
              /\ SweptInbox(locked)[s] # NoRow => SweptInbox(locked)[s] \in Row
              /\ ~Present(s) => SweptInbox(locked)[s] = NoRow
              /\ \/ SweptInbox(locked)[s] = inbox[s]
                 \/ /\ Present(s)
                    /\ inbox[s].status # "PROCESSED"
                    /\ SweptInbox(locked)[s].status # "PROCESSED"
<1> DEFINE rows == SweptInbox(locked)
<1>1. ASSUME NEW s \in Signatures
      PROVE  /\ rows[s] \in Row \cup {NoRow}
             /\ ~Present(s) => rows[s] = NoRow
             /\ \/ rows[s] = inbox[s]
                \/ /\ Present(s)
                   /\ inbox[s].status # "PROCESSED"
                   /\ rows[s].status # "PROCESSED"
  <2>1. CASE Present(s) /\ s \notin locked
    <3>1. inbox[s] \in Row /\ rows[s] = Swept(inbox[s])
      BY <2>1, RowOf DEF SweptInbox
    <3> QED
      BY <2>1, <3>1, SweptType, OpenRowsStayOpen
  <2>2. CASE ~(Present(s) /\ s \notin locked)
    <3>1. rows[s] = inbox[s]
      BY <2>2 DEF SweptInbox
    <3> QED
      BY <3>1 DEF InboxInv, TypeOK, Present
  <2> QED
    BY ZenonT(40), <2>1, <2>2
<1> QED
  BY Zenon, <1>1 DEF SweptInbox

LEMMA ClaimPreserves ==
  ASSUME InboxInv, NEW s \in Signatures, NEW locked, ClaimNext(s, locked)
  PROVE  InboxInv'
<1> DEFINE rows == SweptInbox(locked)
           waiting == {p \in Priorities : Candidates(rows, locked, p) # {}}
           class == ScheduledPriority(urgent, launch, waiting)
           leased == LeasedRow(rows[s], claims + 1)
<1>1. /\ claims' = claims + 1
      /\ s \in Candidates(rows, locked, class)
      /\ inbox' = [rows EXCEPT ![s] = leased]
      /\ urgent' = UrgentAfter(urgent, class)
      /\ launch' = LaunchAfter(launch, class)
      /\ UNCHANGED <<receipts, decoderReceipts, tracking>>
  BY DEF ClaimNext, Claim
<1>2. claims \in Nat /\ urgent \in 0..MaxUrgent /\ launch \in 0..MaxLaunch
  BY DEF InboxInv, TypeOK
<1>3. urgent' \in 0..MaxUrgent /\ launch' \in 0..MaxLaunch
  <2> HIDE DEF class
  <2> QED
    BY <1>1, <1>2, RotationAssumption DEF UrgentAfter, LaunchAfter
<1>4. /\ rows[s] # NoRow /\ Claimable(rows[s])
  BY ZenonT(40), <1>1 DEF Candidates
<1> HIDE DEF rows, class
<1>5. /\ rows \in [Signatures -> Row \cup {NoRow}]
      /\ \A t \in Signatures :
           /\ rows[t] # NoRow => rows[t] \in Row
           /\ ~Present(t) => rows[t] = NoRow
           /\ \/ rows[t] = inbox[t]
              \/ /\ Present(t)
                 /\ inbox[t].status # "PROCESSED"
                 /\ rows[t].status # "PROCESSED"
  BY SweptInboxFacts DEF rows
<1>6. rows[s] \in Row /\ Present(s) /\ inbox[s].status # "PROCESSED"
  <2>1. rows[s] \in Row /\ Present(s)
    BY Zenon, <1>4, <1>5
  <2>2. rows[s].status # "PROCESSED"
    BY ZenonT(40), <1>4, <2>1, OpenRowsStayOpen
  <2> QED
    BY Zenon, <1>5, <2>1, <2>2
<1>7. leased \in Row /\ leased.status # "PROCESSED"
  BY <1>2, <1>4, <1>6, LeasedRowType, OpenRowsStayOpen
<1> HIDE DEF leased
<1>8. [rows EXCEPT ![s] = leased] \in [Signatures -> Row \cup {NoRow}]
  BY <1>5, <1>7
<1>9. \A t \in Signatures : \/ [rows EXCEPT ![s] = leased][t] = inbox[t]
                            \/ /\ Present(t)
                               /\ inbox[t].status # "PROCESSED"
                               /\ [rows EXCEPT ![s] = leased][t].status # "PROCESSED"
  BY <1>5, <1>6, <1>7
<1>10. ReceiptSealsRow'
  BY Zenon, <1>1, <1>8, <1>9, OpenRowsWrite
<1>11. TypeOK'
  BY <1>1, <1>2, <1>3, <1>8 DEF InboxInv, TypeOK, tracking
<1> QED
  BY Zenon, <1>10, <1>11 DEF InboxInv

LEMMA ClaimNothingPreserves ==
  ASSUME InboxInv, NEW locked, ClaimNothing(locked)
  PROVE  InboxInv'
<1>1. /\ inbox' = SweptInbox(locked)
      /\ UNCHANGED <<receipts, decoderReceipts, claims, scheduler, tracking>>
  BY Zenon DEF ClaimNothing
<1>2. ReceiptSealsRow'
  BY <1>1, SweptInboxFacts, OpenRowsWrite
<1> QED
  BY <1>1, <1>2, SweptInboxFacts DEF InboxInv, TypeOK, scheduler, tracking

LEMMA LeaseOpsPreserve ==
  ASSUME InboxInv, NEW s \in Signatures, NEW token,
         \/ RenewLease(s, token)
         \/ \E f \in Fingerprints : SaveSnapshot(s, token, f)
         \/ \E e \in Errors \ {"NONE"} : MarkFailed(s, token, e)
  PROVE  InboxInv'
<1> DEFINE r == inbox[s]
<1>1. /\ Present(s) /\ r.status = "PROCESSING"
      /\ UNCHANGED <<receipts, decoderReceipts, claims, scheduler, tracking>>
  BY Zenon DEF RenewLease, SaveSnapshot, MarkFailed, Leased
<1>2. r \in Row
  BY <1>1, RowOf
<1>3. CASE RenewLease(s, token)
  <2>1. [r EXCEPT !.leaseExpired = FALSE] \in Row
    BY Zenon, <1>2, RowUpdates
  <2>2. [r EXCEPT !.leaseExpired = FALSE].status # "PROCESSED"
    BY <1>1, <1>2 DEF Row
  <2>3. inbox' = [inbox EXCEPT ![s] = [r EXCEPT !.leaseExpired = FALSE]]
    BY <1>3 DEF RenewLease
  <2> QED
    BY Zenon, <1>1, <2>1, <2>2, <2>3, OpenRowWrite
<1>4. ASSUME NEW f \in Fingerprints, SaveSnapshot(s, token, f)
      PROVE  InboxInv'
  <2>1. [r EXCEPT !.snapshot = f] \in Row
    BY <1>2, RowUpdates
  <2>2. [r EXCEPT !.snapshot = f].status # "PROCESSED"
    BY <1>1, <1>2 DEF Row
  <2>3. inbox' = [inbox EXCEPT ![s] = [r EXCEPT !.snapshot = f]]
    BY <1>4 DEF SaveSnapshot
  <2> QED
    BY Zenon, <1>1, <2>1, <2>2, <2>3, OpenRowWrite
<1>5. ASSUME NEW e \in Errors \ {"NONE"}, MarkFailed(s, token, e)
      PROVE  InboxInv'
  <2>1. FailedRow(r, e, s \in decoderReceipts) \in Row
    BY ZenonT(40), <1>2, FailedRowType
  <2>2. FailedRow(r, e, s \in decoderReceipts).status # "PROCESSED"
    BY <1>2, OpenRowsStayOpen
  <2>3. inbox' = [inbox EXCEPT ![s] = FailedRow(r, e, s \in decoderReceipts)]
    BY Zenon, <1>5 DEF MarkFailed
  <2> QED
    BY Zenon, <1>1, <2>1, <2>2, <2>3, OpenRowWrite
<1> QED
  BY <1>3, <1>4, <1>5

(* The one action that seals: the leased row had no receipt, and the       *)
(* terminal completion is stored together with the receipt of it.          *)
LEMMA MarkProcessedPreserves ==
  ASSUME InboxInv, NEW s \in Signatures, NEW token,
         NEW confirmation \in Confirmations, MarkProcessed(s, token, confirmation)
  PROVE  InboxInv' /\ receipts[s] = NoReceipt
<1> DEFINE done == ProcessedRow(inbox[s], confirmation)
<1>1. /\ Present(s) /\ inbox[s].status = "PROCESSING" /\ inbox[s].snapshot # NoSnapshot
      /\ inbox' = [inbox EXCEPT ![s] = done]
      /\ receipts' = IF IsTerminal(done)
                     THEN [receipts EXCEPT ![s] = ReceiptOf(done)] ELSE receipts
      /\ UNCHANGED <<decoderReceipts, claims, scheduler, tracking>>
  BY DEF MarkProcessed, Leased
<1>2. inbox[s] \in Row /\ receipts[s] = NoReceipt
  BY <1>1, RowOf, UnsealedRow
<1>3. done \in Row /\ done.status = "PROCESSED" /\ (IsTerminal(done) => ReceiptOf(done) \in Receipt)
  BY Zenon, <1>1, <1>2, ProcessedRowType, ProcessedRowFacts
<1> HIDE DEF done
<1>4. TypeOK'
  BY Zenon, <1>1, <1>3 DEF InboxInv, TypeOK, scheduler, tracking
<1>5. ReceiptSealsRow'
  <2> SUFFICES ASSUME NEW t \in Signatures, inbox'[t] # NoRow
               PROVE  SealedBy(inbox'[t], receipts'[t])
    BY DEF ReceiptSealsRow, Present, SealedBy, IsTerminal, ReceiptOf
  <2>1. inbox \in [Signatures -> Row \cup {NoRow}]
        /\ receipts \in [Signatures -> Receipt \cup {NoReceipt}]
    BY DEF InboxInv, TypeOK
  <2>2. CASE t # s
    <3>1. inbox'[t] = inbox[t] /\ receipts'[t] = receipts[t]
      BY Zenon, <1>1, <2>1, <2>2
    <3> QED
      BY <3>1 DEF InboxInv, ReceiptSealsRow, Present
  <2>3. CASE t = s
    <3>1. inbox'[t] = done
      BY <1>1, <2>1, <2>3
    <3>2. CASE IsTerminal(done)
      <4>1. receipts'[t] = ReceiptOf(done)
        BY <1>1, <2>1, <2>3, <3>2
      <4> QED
        BY <1>3, <3>1, <3>2, <4>1, NoReceiptAssumption DEF SealedBy
    <3>3. CASE ~IsTerminal(done)
      BY <1>1, <1>2, <2>3, <3>1, <3>3 DEF SealedBy
    <3> QED
      BY <3>2, <3>3
  <2> QED
    BY ZenonT(40), <2>2, <2>3
<1> QED
  BY <1>2, <1>4, <1>5 DEF InboxInv

LEMMA RecoveryPreserves ==
  ASSUME InboxInv, NEW s \in Signatures,
         RecoverExhausted(s) \/ RecoverDecoderQuarantine(s)
  PROVE  InboxInv'
<1> DEFINE r == inbox[s]
<1>1. Present(s) /\ r.status = "FAILED" /\ r \in Row
  BY RowOf DEF RecoverExhausted, RecoverDecoderQuarantine
<1>2. CASE RecoverExhausted(s)
  <2>1. /\ inbox' = [inbox EXCEPT ![s] = RecoveredRow(r)]
        /\ UNCHANGED <<receipts, decoderReceipts, claims, scheduler, tracking>>
    BY <1>2 DEF RecoverExhausted
  <2> QED
    BY Zenon, <1>1, <2>1, RecoveredRowType, OpenRowsStayOpen, OpenRowWrite
<1>3. CASE RecoverDecoderQuarantine(s)
  <2> DEFINE q == [RecoveredRow(r) EXCEPT !.decoderEligible = FALSE, !.decoderUsed = TRUE]
  <2>1. /\ inbox' = [inbox EXCEPT ![s] = q]
        /\ decoderReceipts' = decoderReceipts \cup {s}
        /\ UNCHANGED <<receipts, claims, scheduler, tracking>>
    BY <1>3 DEF RecoverDecoderQuarantine
  <2>2. q \in Row
    BY Zenon, <1>1, RecoveredRowType
  <2>3. q.status # "PROCESSED"
    <3> DEFINE w == RecoveredRow(r)
    <3>1. w \in Row /\ w.status # "PROCESSED"
      BY Zenon, <1>1, RecoveredRowType, OpenRowsStayOpen
    <3> HIDE DEF w
    <3>2. [w EXCEPT !.decoderEligible = FALSE, !.decoderUsed = TRUE].status = w.status
      BY <3>1 DEF Row
    <3> QED
      BY <3>1, <3>2 DEF w
  <2> HIDE DEF q
  <2>4. inbox \in [Signatures -> Row \cup {NoRow}]
    BY DEF InboxInv, TypeOK
  <2>5. [inbox EXCEPT ![s] = q] \in [Signatures -> Row \cup {NoRow}]
    BY <2>2, <2>4
  <2>6. \A t \in Signatures : \/ [inbox EXCEPT ![s] = q][t] = inbox[t]
                              \/ /\ Present(t)
                                 /\ inbox[t].status # "PROCESSED"
                                 /\ [inbox EXCEPT ![s] = q][t].status # "PROCESSED"
    BY <1>1, <2>3, <2>4
  <2>7. ReceiptSealsRow'
    BY Zenon, <2>1, <2>5, <2>6, OpenRowsWrite
  <2> QED
    BY <2>1, <2>5, <2>7 DEF InboxInv, TypeOK, scheduler, tracking
<1> QED
  BY <1>2, <1>3

LEMMA FinalityPreserves ==
  ASSUME InboxInv, NEW s \in Signatures,
         \/ \E p \in Providers, a \in {"missing", "processed", "confirmed"} :
              RecordFinalityPoll(s, Evidence(inbox[s]), p, a)
         \/ EnqueueFinalizedRevision(s)
         \/ EnqueueOrphanedRevision(s, Evidence(inbox[s]))
  PROVE  InboxInv'
<1> DEFINE r == inbox[s]
<1>1. /\ Present(s) /\ ~IsTerminal(r)
      /\ UNCHANGED <<receipts, decoderReceipts, claims, scheduler, tracking>>
  BY ZenonT(40), AdvancesFacts DEF RecordFinalityPoll, ListedForFinality, EnqueueFinalizedRevision,
     EnqueueOrphanedRevision, IsTerminal
<1>2. r \in Row /\ receipts[s] = NoReceipt
  BY <1>1, RowOf, UnsealedRow
<1>3. ASSUME NEW p \in Providers, NEW a \in {"missing", "processed", "confirmed"},
             RecordFinalityPoll(s, Evidence(inbox[s]), p, a)
      PROVE  InboxInv'
  <2> DEFINE q == PolledRow(r, p, a)
  <2>1. q \in Row
    BY <1>2, <1>3, PolledRowType DEF RecordFinalityPoll
  <2>2. ~IsTerminal(q)
    <3>1. r.target \in {"processed", "confirmed"}
      BY <1>1, <1>2 DEF IsTerminal, TerminalConfirmations, Confirmations, Row
    <3>2. q.target \in {"processed", "confirmed"}
      BY Zenon, <1>2, <3>1 DEF PolledRow, WithoutMissing, Reconciled, Row
    <3> QED
      BY ZenonT(40), <3>2 DEF IsTerminal, TerminalConfirmations
  <2>3. inbox' = [inbox EXCEPT ![s] = q]
    BY Zenon, <1>3 DEF RecordFinalityPoll
  <2> HIDE DEF q
  <2>4. SealedBy(q, receipts[s])
    BY <1>2, <2>2 DEF SealedBy
  <2> QED
    BY ZenonT(40), <1>1, <2>1, <2>3, <2>4, OneRowWrite
<1>4. CASE EnqueueFinalizedRevision(s)
  <2> DEFINE w == Reopened(r, "finalized")
             v == IF w.version < MaxVersion THEN w.version + 1 ELSE w.version
             q == [w EXCEPT !.version = v]
  <2>1. w \in Row /\ w.status # "PROCESSED"
    BY Zenon, <1>2, Values, ReopenedType, OpenRowsStayOpen
  <2>2. v \in 0..MaxVersion
    BY <2>1, BoundsAssumption DEF Row
  <2>3. inbox' = [inbox EXCEPT ![s] = q]
    BY <1>4 DEF EnqueueFinalizedRevision
  <2> HIDE DEF v, w
  <2>4. q \in Row
    BY <2>1, <2>2, RowUpdates
  <2>5. q.status = w.status
    BY <2>1 DEF Row
  <2> HIDE DEF q
  <2>6. SealedBy(q, receipts[s])
    BY <1>2, <2>1, <2>5 DEF SealedBy
  <2> QED
    BY Zenon, <1>1, <2>3, <2>4, <2>6, OneRowWrite
<1>5. CASE EnqueueOrphanedRevision(s, Evidence(inbox[s]))
  <2> DEFINE q == [Reopened(r, "orphaned") EXCEPT !.version = @ + 1]
  <2>1. q \in Row
    BY <1>2, <1>5, Values, ReplayingType DEF EnqueueOrphanedRevision
  <2>2. q.status # "PROCESSED"
    BY <1>2, Values, ReopenedType, OpenRowsStayOpen DEF Row
  <2>3. inbox' = [inbox EXCEPT ![s] = q]
    BY <1>5 DEF EnqueueOrphanedRevision
  <2> HIDE DEF q
  <2>4. SealedBy(q, receipts[s])
    BY <1>2, <2>2 DEF SealedBy
  <2> QED
    BY Zenon, <1>1, <2>1, <2>3, <2>4, OneRowWrite
<1> QED
  BY <1>3, <1>4, <1>5

(* Deadlines, retention and the environment. *)
LEMMA ClockPreserves ==
  ASSUME InboxInv, NEW s \in Signatures,
         LeaseExpires(s) \/ RetryBecomesDue(s) \/ RetentionPasses(s)
  PROVE  InboxInv'
<1> DEFINE r == inbox[s]
<1>1. /\ Present(s)
      /\ UNCHANGED <<receipts, decoderReceipts, claims, scheduler, tracking>>
  BY Zenon DEF LeaseExpires, RetryBecomesDue, RetentionPasses
<1>2. r \in Row /\ SealedBy(r, receipts[s])
  BY <1>1, RowOf
<1>3. ASSUME NEW q \in Row, inbox' = [inbox EXCEPT ![s] = q],
             q.slot = r.slot, q.target = r.target, q.version = r.version,
             q.snapshot = r.snapshot, q.processedAt = r.processedAt, q.status = r.status
      PROVE  InboxInv'
  <2>1. SealedBy(q, receipts[s])
    BY <1>2, <1>3 DEF SealedBy, ReceiptOf, IsTerminal
  <2> QED
    BY ZenonT(40), <1>1, <1>3, <2>1, OneRowWrite
<1>4. CASE LeaseExpires(s)
  <2>1. inbox' = [inbox EXCEPT ![s] = [r EXCEPT !.leaseExpired = TRUE]]
    BY <1>4 DEF LeaseExpires
  <2>2. [r EXCEPT !.leaseExpired = TRUE] \in Row
    BY Zenon, <1>2, RowUpdates
  <2> QED
    BY Zenon, <1>2, <1>3, <2>1, <2>2 DEF Row
<1>5. CASE RetryBecomesDue(s)
  <2>1. inbox' = [inbox EXCEPT ![s] = [r EXCEPT !.next = "PASSED"]]
    BY <1>5 DEF RetryBecomesDue
  <2>2. [r EXCEPT !.next = "PASSED"] \in Row
    BY <1>2, RowUpdates, Values
  <2> QED
    BY Zenon, <1>2, <1>3, <2>1, <2>2 DEF Row
<1>6. CASE RetentionPasses(s)
  <2>1. inbox' = [inbox EXCEPT ![s] = [r EXCEPT !.purge = "PASSED"]]
    BY <1>6 DEF RetentionPasses
  <2>2. [r EXCEPT !.purge = "PASSED"] \in Row
    BY <1>2, RowUpdates, Values
  <2> QED
    BY Zenon, <1>2, <1>3, <2>1, <2>2 DEF Row
<1> QED
  BY <1>4, <1>5, <1>6

LEMMA RetentionPreserves ==
  ASSUME InboxInv, NEW s \in Signatures,
         PurgeRow(s) \/ PurgeReceipt(s, FALSE) \/ PurgeDecoderReceipt(s)
  PROVE  InboxInv'
<1>1. CASE PurgeRow(s)
  BY Zenon, <1>1 DEF PurgeRow, InboxInv, TypeOK, ReceiptSealsRow, SealedBy, Present, IsTerminal,
     ReceiptOf, scheduler, tracking
<1>2. CASE PurgeReceipt(s, FALSE)
  BY Zenon, <1>2 DEF PurgeReceipt, InboxInv, TypeOK, ReceiptSealsRow, SealedBy, Present, IsTerminal,
     ReceiptOf, scheduler, tracking
<1>3. CASE PurgeDecoderReceipt(s)
  BY ZenonT(40), <1>3 DEF PurgeDecoderReceipt, InboxInv, TypeOK, ReceiptSealsRow, SealedBy, Present,
     IsTerminal, ReceiptOf, scheduler, tracking
<1> QED
  BY Zenon, <1>1, <1>2, <1>3

LEMMA EnvironmentPreserves ==
  ASSUME InboxInv, TrackingChanges \/ RestartWithPolicy \/ UNCHANGED vars
  PROVE  InboxInv'
<1>1. /\ UNCHANGED <<inbox, receipts, decoderReceipts, claims, urgent, launch>>
      /\ enabled' \in BOOLEAN /\ launches' \subseteq Mints /\ authority' \subseteq Mints
  BY Zenon DEF TrackingChanges, RestartWithPolicy, vars, inboxVars, InboxInv, TypeOK
<1> QED
  BY <1>1 DEF InboxInv, TypeOK, ReceiptSealsRow, SealedBy, Present, IsTerminal, ReceiptOf

LEMMA NextPreserves ==
  ASSUME InboxInv, [Next]_vars
  PROVE  InboxInv'
<1>1. ASSUME NEW s \in Signatures, NEW token \in 1..claims, NEW st \in Confirmations,
             MarkProcessed(s, token, st)
      PROVE  InboxInv'
  BY <1>1, MarkProcessedPreserves
<1> QED
  BY Zenon, <1>1, EnqueuePreserves, ClassificationPreserves, SyncPreserves, ClaimPreserves,
     ClaimNothingPreserves, LeaseOpsPreserve, RecoveryPreserves, FinalityPreserves,
     ClockPreserves, RetentionPreserves, EnvironmentPreserves DEF Next

LEMMA InitInbox == Init => InboxInv
BY RotationAssumption DEF Init, InboxInv, TypeOK, ReceiptSealsRow, Present

(***************************************************************************)
(* The types hold and every receipt agrees with its row, whatever number   *)
(* of signatures, workers' claims, providers and versions there are.       *)
(***************************************************************************)
THEOREM InboxInvariant == Spec => [](TypeOK /\ ReceiptSealsRow)
<1>1. Init => InboxInv
  BY InitInbox
<1>2. InboxInv /\ [Next]_vars => InboxInv'
  BY NextPreserves
<1> QED
  BY <1>1, <1>2, PTL DEF Spec, InboxInv

(* Only a completion without receipt adds one, and a receipt goes only     *)
(* once its row is gone.                                                   *)
LEMMA ReceiptsAreKept ==
  ASSUME InboxInv, [Next]_vars, NEW s \in Signatures, receipts[s] # NoReceipt
  PROVE  receipts'[s] = receipts[s] \/ inbox'[s] = NoRow
<1>1. ASSUME NEW t \in Signatures, NEW token \in 1..claims, NEW st \in Confirmations,
             MarkProcessed(t, token, st)
      PROVE  receipts'[s] = receipts[s]
  <2>1. t # s
    BY <1>1, MarkProcessedPreserves
  <2> QED
    BY <1>1, <2>1 DEF MarkProcessed, InboxInv, TypeOK
<1>2. ASSUME NEW t \in Signatures, PurgeReceipt(t, FALSE)
      PROVE  receipts'[s] = receipts[s] \/ inbox'[s] = NoRow
  BY <1>2 DEF PurgeReceipt, Present, InboxInv, TypeOK
<1> QED
  BY ZenonT(40), <1>1, <1>2 DEF Next, Enqueue, RecordCatchUpClassification, SyncTrackedMint, ClaimNext, Claim,
     ClaimNothing, RenewLease, SaveSnapshot, MarkFailed, RecoverExhausted,
     RecoverDecoderQuarantine, RecordFinalityPoll, EnqueueFinalizedRevision,
     EnqueueOrphanedRevision, PurgeRow, PurgeDecoderReceipt, LeaseExpires, RetryBecomesDue,
     RetentionPasses, TrackingChanges, RestartWithPolicy, vars, inboxVars

(***************************************************************************)
(* The receipt is a tombstone: no announcement, classification, revision,  *)
(* recovery or worker reopens a signature that has one.                    *)
(***************************************************************************)
THEOREM SealedIsForever == Spec => SealedNeverReopens
<1> DEFINE Kept == \A s \in Signatures : receipts[s] # NoReceipt =>
                     \/ inbox'[s] = NoRow
                     \/ inbox'[s].status = "PROCESSED" /\ ReceiptOf(inbox'[s]) = receipts[s]
<1>1. InboxInv /\ InboxInv' /\ [Next]_vars => [Kept]_vars
  <2> SUFFICES ASSUME InboxInv, InboxInv', [Next]_vars,
                      NEW s \in Signatures, receipts[s] # NoReceipt, inbox'[s] # NoRow
               PROVE  inbox'[s].status = "PROCESSED" /\ ReceiptOf(inbox'[s]) = receipts[s]
    OBVIOUS
  <2>1. receipts'[s] = receipts[s]
    BY ReceiptsAreKept
  <2>2. SealedBy(inbox[s], receipts[s])'
    BY DEF InboxInv, ReceiptSealsRow, Present
  <2> QED
    BY <2>1, <2>2 DEF SealedBy, ReceiptOf
<1>2. Spec => []InboxInv
  BY InboxInvariant, PTL DEF InboxInv
<1> QED
  BY <1>1, <1>2, PTL DEF Spec, SealedNeverReopens

=============================================================================
