----------------------------- MODULE InboxContract -----------------------------
(***************************************************************************)
(* What the transaction inbox promises, whatever calls it receives.  A     *)
(* signature is unknown, live (some worker or reconciler still has work to *)
(* do for it), at rest, or sealed by the receipt of a terminal replay.     *)
(* Work is never forgotten: only a signature at rest or sealed becomes     *)
(* unknown again.  A seal is final: it is neither changed nor broken.      *)
(***************************************************************************)
CONSTANTS Signatures, NoSeal

VARIABLES phase, seal    \* functions on Signatures

Init == /\ phase = [s \in Signatures |-> "unknown"]
        /\ seal = [s \in Signatures |-> NoSeal]

Successors(p) ==
  IF p = "live" THEN {"live", "rest", "sealed"}
  ELSE IF p = "sealed" THEN {"sealed", "unknown"}
  ELSE {"unknown", "live", "rest", "sealed"}

Next == \A s \in Signatures :
          /\ phase'[s] \in Successors(phase[s])
          /\ seal'[s] \in {seal[s], NoSeal} \/ phase[s] # "sealed"

Spec == Init /\ [][Next]_<<phase, seal>>
================================================================================
