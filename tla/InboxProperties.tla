---------------------------- MODULE InboxProperties ----------------------------
(***************************************************************************)
(* What the transaction inbox promises.                                    *)
(***************************************************************************)
EXTENDS TransactionInbox

Rows == {inbox[s] : s \in {t \in Signatures : Present(t)}}

(* Every stored row satisfies the CHECK constraints of the migrations: no  *)
(* lease outside PROCESSING, no pending row out of attempts, no live row   *)
(* with a purge deadline, hint, priority and disposition that agree.       *)
RowsSatisfyChecks ==
  \A r \in Rows : LifecycleChecks(r) /\ IngestionChecks(r) /\ DeferredCheck(r)

(* The writes that the constraints do refuse.  An announcement names       *)
(* another action or mint than catch-up has classified the row for (the    *)
(* curve poller always does) and convergeIngestion follows it: migration   *)
(* 049 ties the hint to the classification.                                *)
Contradicts(n, r) ==
  /\ r.classification # NoClassification
  /\ ~HoldsTerminalClassification(r) /\ r.hint # "PUMPFUN_CREATE"
  /\ n.hint # "NONE"
  /\ n.hint # r.classification.hint \/ n.mint # r.classification.mint

(* A waiting row whose announcements have moved finality_evidence_version  *)
(* is classified DEFERRED: migration 047 wants version 0 there, and        *)
(* recordCatchUpClassification does not reset it.                          *)
DefersRevised(c, r) ==
  c.disposition = "DEFERRED" /\ IsPristineInbox(r) /\ r.version # 0

(* What enqueue would write now is accepted ... *)
EnqueueIsAccepted(n) ==
  LET r == inbox[n.signature]
  IN /\ Unknown(n.signature) => Storable(AnnouncedRow(n))
     /\ Repeatable(n) => Storable(ParkedRow(r, n))
     /\ Sealed(n) /\ ~Contradicts(n, r) => Storable(AnnotatedRow(r, n))
     /\ Mergeable(n) /\ ~Contradicts(n, r) => Storable(EnqueuedRow(r, n))

(* ... and so is what recordCatchUpClassification would write. *)
ClassificationIsAccepted(c) ==
  LET r == inbox[c.signature]
  IN /\ Recordable(c) => Storable(RecordedRow(c))
     /\ Repeats(c) /\ ~DefersRevised(c, r) => Storable(ReplayedRow(r, c))
     /\ Attaches(c) /\ ~DefersRevised(c, r) => Storable(ClassifiedRow(r, c))

(* The statements of the repository meet the CHECK constraints of the      *)
(* migrations.  What claim, syncTrackedMint, completion, recovery and      *)
(* finality write is never refused: no constraint is a guard of theirs and *)
(* every stored row satisfies all of them.  What enqueue and               *)
(* recordCatchUpClassification submit, in whatever state the row is, is    *)
(* refused in two cases only, Contradicts and DefersRevised.               *)
SchemaChecksHold ==
  /\ RowsSatisfyChecks
  /\ \A n \in Notifications : EnqueueIsAccepted(n)
  /\ \A c \in Classifications : ClassificationIsAccepted(c)

(* A receipt x and the row r of its signature agree. *)
SealedBy(r, x) ==
  /\ x # NoReceipt => r.status = "PROCESSED" /\ x = ReceiptOf(r)
  /\ r.status = "PROCESSED" /\ IsTerminal(r) => x # NoReceipt

(* markProcessed writes the terminal receipt with the terminal row, and    *)
(* nothing changes either afterwards: as long as both exist they agree on  *)
(* slot, status, evidence version, snapshot and completion, so retention   *)
(* can always drop the row and a later announcement is recognised.         *)
ReceiptSealsRow ==
  \A s \in Signatures : Present(s) => SealedBy(inbox[s], receipts[s])

(* A signature with a receipt is never worked on again: announcements,     *)
(* classifications, revisions and recoveries leave its row completed as    *)
(* the receipt says, or retention has dropped it and it does not come back *)
(* before the receipt goes too.                                            *)
SealedNeverReopens ==
  [][\A s \in Signatures : receipts[s] # NoReceipt =>
       \/ inbox'[s] = NoRow
       \/ inbox'[s].status = "PROCESSED" /\ ReceiptOf(inbox'[s]) = receipts[s]]_vars

Settled(s) ==
  LET r == inbox[s]
  IN \/ r.status = "FAILED" /\ (r.error # "RETRYABLE" \/ r.exhausted)
     \/ r.status \in {"DEFERRED", "IGNORED", "QUARANTINED"}
     \/ r.status = "PROCESSED" /\ IsTerminal(r) /\ receipts[s] = ReceiptOf(r)

Phase(s) ==
  IF receipts[s] # NoReceipt THEN "sealed"
  ELSE IF inbox[s] = NoRow THEN "unknown"
  ELSE IF Settled(s) THEN "rest" ELSE "live"

Contract == INSTANCE InboxContract
              WITH phase <- [s \in Signatures |-> Phase(s)],
                   seal <- receipts, NoSeal <- NoReceipt

(* The inbox implements its contract: retention deletes a row only when no *)
(* worker could claim it, no lease, retry or finality poll is pending, and *)
(* what a terminal receipt seals is never worked on or sealed differently  *)
(* before the receipt itself goes.                                         *)
InboxKeepsContract == Contract!Spec

=============================================================================
