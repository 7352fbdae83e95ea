------------------------------ MODULE MCSettling ------------------------------
(***************************************************************************)
(* What has to come to an end: the walk of strict catch-up to the live     *)
(* head, and every intent of one logical order.  A behaviour follows one   *)
(* of them, the focus.                                                     *)
(***************************************************************************)
EXTENDS MCStrictCatchUp, ExecutionIntents

VARIABLE focus

OneOrder == [i \in Ids |-> 1]

settlingVars == <<catchUpVars, vars, focus>>

SettlingInit == focus \in {"walk", "intents"} /\ CatchUpInit /\ Init

Walking(A) == focus = "walk" /\ A /\ UNCHANGED <<vars, focus>>
Settling(A) == focus = "intents" /\ A /\ UNCHANGED <<catchUpVars, focus>>

SettlingNext == Walking(SoloNext) \/ Settling(Next)

(* The supervisor retries for ever and tries every provider in turn, or    *)
(* the pinned one; scans run to their end once they are left alone.  The   *)
(* clock moves on and the retention runner keeps calling the sweep.        *)
SettlingFairness ==
  /\ \A s \in Scanners :
       /\ WF_settlingVars(Walking(SoloStep(s)))
       /\ \A p \in Providers : SF_settlingVars(Walking(Start(s, p, "strict")))
  /\ WF_settlingVars(Walking(Grow))
  /\ \A i \in Ids : /\ WF_settlingVars(Settling(LeaseLapses(i)))
                    /\ WF_settlingVars(Settling(IntentExpires(i)))
                    /\ WF_settlingVars(Settling(Expire(i)))

InterruptionsEnd == <>[][~Walking(Interrupted)]_settlingVars

SettlingSpec == SettlingInit /\ [][SettlingNext]_settlingVars /\ SettlingFairness /\ InterruptionsEnd

(* Under that fairness: with history retained and interruptions coming to  *)
(* an end, every key's checkpoint reaches the head.                        *)
WalkConverges == focus = "walk" => CatchUpConverges
===============================================================================
