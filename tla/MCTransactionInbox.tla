-------------------------- MODULE MCTransactionInbox --------------------------
(***************************************************************************)
(* Small instances of TransactionInbox, told as two stories, one per       *)
(* behaviour.                                                              *)
(***************************************************************************)
EXTENDS InboxProperties

CONSTANTS s1, s2, m1, pump, amm, primary, fallback, f1, f2

MCSlots == {1, 2}

VARIABLE part    \* the story: "lifecycle" or "ingestion"

Notice(s, slot, source, programs, confirmation, hint, mint) ==
  [signature |-> s, slot |-> slot, source |-> source, programs |-> programs,
   confirmation |-> confirmation, hint |-> hint, mint |-> mint]

Verdict(s, slot, programs, confirmation, disposition, failed, hint, mint) ==
  [signature |-> s, slot |-> slot, programs |-> programs, confirmation |-> confirmation,
   disposition |-> disposition, failedTransaction |-> failed, hint |-> hint, mint |-> mint]

(* Lifecycle: one token creation announced at every status, with or        *)
(* without its hint (truncated logs).                                      *)
LifecycleNotifications ==
  {Notice(s2, 1, "WEBSOCKET", {pump}, c, h, NoMint) :
     c \in {"processed", "confirmed"}, h \in {"NONE", "PUMPFUN_CREATE"}}
  \cup {Notice(s2, 1, "CATCH_UP", {pump}, "finalized", "NONE", NoMint)}

LifecycleClassifications ==
  {Verdict(s2, 1, {pump}, "finalized", "ACTIONABLE", FALSE, "PUMPFUN_CREATE", NoMint)}

(* Ingestion: one trade announced by the WebSocket (with truncated logs    *)
(* too), the plain catch-up and the two pollers, and classified in every   *)
(* way.  A poller lists the tracked mints before its sweep, so the mint of *)
(* an announcement may no longer be tracked when enqueue runs.             *)
IngestionNotifications ==
  {Notice(s1, 1, "WEBSOCKET", {pump}, "confirmed", "NONE", NoMint),
   Notice(s1, 1, "WEBSOCKET", {pump}, "confirmed", "PUMPFUN_TRADE", m1),
   Notice(s1, 1, "CATCH_UP", {pump}, "finalized", "NONE", NoMint),
   Notice(s1, 1, "CATCH_UP", {amm}, "finalized", "PUMPSWAP_POOL_TRADE", m1),
   Notice(s1, 1, "CATCH_UP", {pump}, "finalized", "PUMPFUN_CURVE_TRADE", m1)}

IngestionClassifications ==
  {Verdict(s1, 1, {pump}, "finalized", "ACTIONABLE", FALSE, "PUMPFUN_TRADE", m1),
   Verdict(s1, 1, {pump}, "finalized", "DEFERRED", FALSE, "PUMPFUN_TRADE", m1),
   Verdict(s1, 1, {pump}, "finalized", "QUARANTINED", FALSE, "NONE", NoMint),
   Verdict(s1, 1, {pump}, "confirmed", "IGNORED", TRUE, "NONE", NoMint)}

MCNotifications == LifecycleNotifications \cup IngestionNotifications
MCClassifications == LifecycleClassifications \cup IngestionClassifications

(* The bounds of each story: the lifecycle of the creation s2 tracks no    *)
(* mint; the ingestion of the trade s1 runs on one provider and one        *)
(* snapshot, with two claims and two versions.                             *)
WithinPart ==
  IF part = "lifecycle"
  THEN inbox[s1] = NoRow /\ launches = {} /\ authority = {}
  ELSE /\ inbox[s2] = NoRow /\ claims <= 2
       /\ \A r \in Rows : r.version <= 2 /\ r.provider # fallback /\ r.snapshot # f2

MCInit == Init /\ part \in {"lifecycle", "ingestion"}
MCNext == Next /\ UNCHANGED part /\ WithinPart'
MCSpec == MCInit /\ [][MCNext]_<<vars, part>>

=============================================================================
