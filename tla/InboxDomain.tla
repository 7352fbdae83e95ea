----------------------------- MODULE InboxDomain -----------------------------
(***************************************************************************)
(* Vocabulary and pure decisions of the durable transaction inbox: how two *)
(* confirmation statuses are reconciled, how a notification or a catch-up  *)
(* classification decides the status, priority and hint of an inbox row,   *)
(* and the shape of a row.                                                 *)
(*                                                                         *)
(* A row keeps one field per column of chain_transaction_inbox that the    *)
(* code branches on.  Instants are abstracted to what is compared: a       *)
(* deadline is "NONE" (NULL), pending, or passed; processed_at is the      *)
(* number of the claim that completed the row (0 is NULL), so two          *)
(* completions never share it; attempts and manual_recovery_count are kept *)
(* as "greater than zero".                                                 *)
(***************************************************************************)
EXTENDS Naturals, FiniteSets, ClaimRotation

CONSTANTS Signatures, Mints, Programs, Slots, Providers, Fingerprints,
          NoMint, NoProvider, NoSnapshot, NoClassification, NoRow,
          MaxAttempts,  \* retry_max_attempts
          MaxVersion    \* MAX_FINALITY_EVIDENCE_VERSION

ASSUME BoundsAssumption ==
  /\ MaxAttempts \in Nat \ {0}
  /\ MaxVersion \in Nat \ {0}

Confirmations == {"processed", "confirmed", "finalized", "orphaned"}
TerminalConfirmations == {"finalized", "orphaned"}
Sources == {"WEBSOCKET", "CATCH_UP"}
InboxStatuses == {"PENDING", "PROCESSING", "PROCESSED", "FAILED",
                  "DEFERRED", "IGNORED", "QUARANTINED"}
PollerHints == {"PUMPFUN_CURVE_TRADE", "PUMPSWAP_POOL_TRADE"}
TradeHints == {"PUMPFUN_TRADE"} \cup PollerHints
Hints == {"NONE", "PUMPFUN_CREATE"} \cup TradeHints
Dispositions == {"ACTIONABLE", "DEFERRED", "IGNORED", "QUARANTINED"}
Errors == {"NONE", "RETRYABLE", "PERMANENT", "DECODER"}
Deadlines == {"NONE", "PENDING", "PASSED"}
MaybeMints == Mints \cup {NoMint}

(***************************************************************************)
(* A notification as enqueue receives it, and a catch-up classification.   *)
(* The hint "NONE" is a null ingestionHint.                                *)
(***************************************************************************)
HintNamesMint(x) == (x.hint \in TradeHints) <=> (x.mint # NoMint)

NotificationType ==
  {n \in [signature: Signatures, slot: Slots, source: Sources,
          programs: (SUBSET Programs) \ {{}}, confirmation: Confirmations \ {"orphaned"},
          hint: Hints, mint: MaybeMints] :
     /\ HintNamesMint(n)
     /\ n.hint \in PollerHints => n.source = "CATCH_UP"
     /\ n.source = "CATCH_UP" => n.hint \in PollerHints \cup {"NONE"}}

ClassificationType ==
  {c \in [signature: Signatures, slot: Slots, programs: (SUBSET Programs) \ {{}},
          confirmation: Confirmations \ {"orphaned"}, disposition: Dispositions,
          failedTransaction: BOOLEAN, hint: {"NONE", "PUMPFUN_CREATE", "PUMPFUN_TRADE"},
          mint: MaybeMints] :
     /\ HintNamesMint(c)
     /\ c.disposition = "ACTIONABLE" => c.hint # "NONE"
     /\ c.disposition = "DEFERRED" => c.hint = "PUMPFUN_TRADE"
     /\ c.disposition \in {"IGNORED", "QUARANTINED"} => c.hint = "NONE"
     /\ c.failedTransaction => c.disposition = "IGNORED"}

(* What a row stores of its classification and what a replay must repeat. *)
ClassificationKeys ==
  [disposition: Dispositions, failedTransaction: BOOLEAN,
   hint: {"NONE", "PUMPFUN_CREATE", "PUMPFUN_TRADE"}, mint: MaybeMints]

Row ==
  [slot: Slots, sources: SUBSET Sources, programs: SUBSET Programs,
   target: Confirmations, status: InboxStatuses,
   priority: Priorities, hint: Hints, mint: MaybeMints,
   admitted: BOOLEAN, attempted: BOOLEAN, cycle: 0..MaxAttempts,
   leaseToken: Nat, leaseExpired: BOOLEAN,
   error: Errors, next: Deadlines, exhausted: BOOLEAN,
   snapshot: Fingerprints \cup {NoSnapshot}, processedAt: Nat,
   purge: Deadlines,
   missing: Nat, provider: Providers \cup {NoProvider}, version: 0..MaxVersion,
   recovered: BOOLEAN, decoderEligible: BOOLEAN, decoderUsed: BOOLEAN,
   classification: ClassificationKeys \cup {NoClassification},
   catchUpPriority: Priorities \cup {"NOT_ENQUEUED"}]

ASSUME NullAssumption ==
  /\ NoMint \notin Mints
  /\ NoProvider \notin Providers
  /\ NoSnapshot \notin Fingerprints
  /\ NoClassification \notin ClassificationKeys
  /\ NoRow \notin Row

Decision == [status: InboxStatuses, priority: Priorities,
             hint: Hints, mint: MaybeMints]

-----------------------------------------------------------------------------
(***************************************************************************)
(* reconcileConfirmationStatus.  An orphaned status accepts nothing else   *)
(* and a finalized one cannot be orphaned: the code throws.                *)
(***************************************************************************)
Reconcilable(current, incoming) ==
  \/ current = incoming
  \/ current # "orphaned" /\ ~(current = "finalized" /\ incoming = "orphaned")

Advances(current, incoming) ==
  \/ current = "processed" /\ incoming # "processed"
  \/ current = "confirmed" /\ incoming \in TerminalConfirmations

Reconciled(current, incoming) ==
  IF Advances(current, incoming) THEN incoming ELSE current

-----------------------------------------------------------------------------
IsPristineInbox(r) ==
  /\ ~r.attempted /\ r.cycle = 0
  /\ r.leaseToken = 0
  /\ r.snapshot = NoSnapshot
  /\ r.processedAt = 0
  /\ ~r.recovered

StoredDecision(r) ==
  [status |-> r.status, priority |-> r.priority, hint |-> r.hint, mint |-> r.mint]

(* Faulty variant: a deferred row stays deferred when its hint is dropped. *)
StillDeferred(status) == status

Undeferred(status) == IF status = "DEFERRED" THEN "PENDING" ELSE status

(* A multi-program or ambiguous signature is kept as undifferentiated work. *)
Conservative(status) ==
  [status |-> Undeferred(status), priority |-> "NORMAL", hint |-> "NONE", mint |-> NoMint]

(***************************************************************************)
(* convergeIngestion for a signature with no row (current is null) ...     *)
(***************************************************************************)
FirstDecision(n, tracked, programs) ==
  LET ambiguous == /\ n.hint # "PUMPFUN_CREATE"
                   /\ \/ Cardinality(programs) > 1
                      \/ n.source = "WEBSOCKET" /\ n.hint = "NONE"
      deferred == n.hint = "PUMPFUN_TRADE" /\ ~tracked
  IN IF ambiguous THEN Conservative("PENDING")
     ELSE [status   |-> IF deferred THEN "DEFERRED" ELSE "PENDING",
           priority |-> IF n.hint = "PUMPFUN_CREATE" THEN "LAUNCH_CANDIDATE"
                        ELSE IF n.hint \in TradeHints /\ ~deferred THEN "TRACKED_TRADE"
                        ELSE "NORMAL",
           hint     |-> n.hint,
           mint     |-> IF n.hint \in TradeHints THEN n.mint ELSE NoMint]

(* ... and for a stored row r. *)
ConvergeIngestion(r, n, tracked, programs) ==
  LET keep == r.hint = "PUMPFUN_CREATE" \/ n.hint = "NONE"
      hint == IF keep THEN r.hint ELSE n.hint
      mint == IF keep THEN r.mint ELSE n.mint
      ambiguous ==
        /\ hint # "PUMPFUN_CREATE"
        /\ \/ Cardinality(programs) > 1
           \/ n.source = "WEBSOCKET" /\ n.hint = "NONE"
           \/ r.hint = "NONE" /\ "WEBSOCKET" \in r.sources
           \/ hint = "PUMPFUN_TRADE" /\ r.hint = "PUMPFUN_TRADE" /\ r.mint # mint
      decide(status, priority) ==
        [status |-> status, priority |-> priority, hint |-> hint, mint |-> mint]
      trade == IF tracked THEN decide(Undeferred(r.status), "TRACKED_TRADE")
               ELSE IF r.status = "PENDING" /\ IsPristineInbox(r) THEN decide("DEFERRED", "NORMAL")
               ELSE decide(r.status, r.priority)
  IN IF ambiguous THEN Conservative(r.status)
     ELSE IF hint = "PUMPFUN_TRADE" THEN IF n.hint = hint THEN trade ELSE StoredDecision(r)
     ELSE IF hint = "PUMPFUN_CREATE" THEN decide(Undeferred(r.status), "LAUNCH_CANDIDATE")
     ELSE IF hint \in PollerHints THEN decide(Undeferred(r.status), "TRACKED_TRADE")
     ELSE decide(r.status, "NORMAL")

(***************************************************************************)
(* classificationDecision: what a catch-up classification c asks for.      *)
(***************************************************************************)
ClassificationDecision(c, tracked, programs) ==
  LET trade == c.hint = "PUMPFUN_TRADE"
      launched == [status |-> "PENDING", priority |-> "LAUNCH_CANDIDATE",
                   hint |-> c.hint, mint |-> NoMint]
      admitted == [status |-> "PENDING", priority |-> "TRACKED_TRADE",
                   hint |-> c.hint, mint |-> c.mint]
      deferred == [status |-> "DEFERRED", priority |-> "NORMAL",
                   hint |-> c.hint, mint |-> c.mint]
      parked == [status |-> c.disposition, priority |-> "NORMAL",
                 hint |-> "NONE", mint |-> NoMint]
  IN IF c.disposition \in {"IGNORED", "QUARANTINED"} THEN parked
     ELSE IF ~trade THEN launched
     ELSE IF Cardinality(programs) > 1 THEN Conservative("PENDING")
     ELSE IF c.disposition = "ACTIONABLE" \/ tracked THEN admitted ELSE deferred

ClassificationKey(c) ==
  [disposition |-> c.disposition, failedTransaction |-> c.failedTransaction,
   hint |-> c.hint, mint |-> c.mint]

=============================================================================
