--------------------------- MODULE MCStrictCatchUp ---------------------------
(***************************************************************************)
(* Instances of strict catch-up.                                           *)
(***************************************************************************)
EXTENDS StrictCatchUp, TLC

OneKey == <<"launchpad">>
(* Two signatures share a slot. *)
MCSlotOf == <<1, 2, 2, 3>>
MCSlots3 == <<1, 2, 3>>
MCTouchesOne == [k \in {"launchpad"} |-> 1..4]
MCTouchesThree == [k \in {"launchpad"} |-> 1..3]
Symmetry == Permutations(Scanners)

(* One scanner that nobody overtakes, providers that keep their history. *)
SoloNext ==
  \/ \E s \in Scanners : \E p \in Providers, policy \in Policies : Start(s, p, policy)
  \/ \E s \in Scanners : SoloStep(s) \/ AdmitPartly(s) \/ Interrupt(s)
  \/ PurgeEvidence \/ Grow

Interrupted == \E s \in Scanners : AdmitPartly(s) \/ Interrupt(s)

=============================================================================
