------------------------------ MODULE MCRuntime ------------------------------
(***************************************************************************)
(* Parts of the listener process: strict catch-up raced by a second        *)
(* scanner, the hydration of blocks, and the public event stream.  A       *)
(* behaviour follows one of them, the focus; the others stand still.  left *)
(* bounds what disturbs it.                                                *)
(***************************************************************************)
EXTENDS MCStrictCatchUp, BlockHydration, ApiStream

VARIABLES focus, left

Free(A) == A /\ UNCHANGED left
Costly(A) == left > 0 /\ A /\ left' = left - 1

(* Nothing tells the scanners, the claimants or the providers apart. *)
RuntimeSymmetry == Permutations(Scanners) \cup Permutations(Claimants) \cup Permutations(RpcNames)

RuntimeInit ==
  /\ \E f \in {<<"race", 1>>, <<"hydration", 1>>, <<"stream", 3>>} : focus = f[1] /\ left = f[2]
  /\ CatchUpInit /\ HydrationInit /\ ApiInit

RuntimeNext ==
  /\ UNCHANGED focus
  /\ \/ focus = "race" /\ Free(CatchUpNext) /\ UNCHANGED <<hy, apiVars>>
     \/ focus = "hydration" /\ (Free(HydrationNext) \/ Costly(HydrationDisturbed)) /\ UNCHANGED <<catchUpVars, apiVars>>
     \/ focus = "stream" /\ (Free(ApiNext) \/ Costly(ApiDisturbed)) /\ UNCHANGED <<catchUpVars, hy>>

RuntimeSpec == RuntimeInit /\ [][RuntimeNext]_<<catchUpVars, hy, apiVars, focus, left>>
=============================================================================
