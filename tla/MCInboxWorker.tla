----------------------------- MODULE MCInboxWorker -----------------------------
(***************************************************************************)
(* Small instances of InboxWorker: a token creation s1 and a trade s2 of   *)
(* the created mint.                                                       *)
(***************************************************************************)
EXTENDS InboxWorker

CONSTANTS s1, s2, m1, pump, primary, f1, f2

MCSlots == {1, 2}

Creation(source, confirmation, hint) ==
  [signature |-> s1, slot |-> 1, source |-> source, programs |-> {pump},
   confirmation |-> confirmation, hint |-> hint, mint |-> NoMint]

Trade(source, confirmation) ==
  [signature |-> s2, slot |-> 2, source |-> source, programs |-> {pump},
   confirmation |-> confirmation, hint |-> "PUMPFUN_TRADE", mint |-> m1]

MCCreatedMints == [s \in Signatures |-> IF s = s1 THEN {m1} ELSE {}]
MCTradedMints == [s \in Signatures |-> IF s = s1 THEN {} ELSE {m1}]

WatchedCreation == {Creation("WEBSOCKET", "confirmed", "PUMPFUN_CREATE")}

CaughtUpCreation == WatchedCreation \cup {Creation("CATCH_UP", "finalized", "NONE")}

CreationAndTrade == WatchedCreation \cup {Trade("WEBSOCKET", "confirmed")}

=============================================================================
