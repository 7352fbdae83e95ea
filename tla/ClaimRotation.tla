----------------------------- MODULE ClaimRotation -----------------------------
(***************************************************************************)
(* The rotation by which claim chooses the priority class it serves.  Two  *)
(* counters of chain_transaction_inbox_claim_scheduler drive it: urgent    *)
(* (consecutive_urgent_claims) and launch (launch_claims_since_tracked).   *)
(***************************************************************************)
EXTENDS Naturals

CONSTANTS MaxUrgent,   \* MAX_CONSECUTIVE_URGENT_CLAIMS
          MaxLaunch    \* MAX_LAUNCH_CLAIMS_BEFORE_TRACKED

ASSUME RotationAssumption ==
  /\ MaxUrgent \in Nat
  /\ MaxLaunch \in Nat \ {0}
  /\ MaxLaunch < MaxUrgent

Priorities == {"NORMAL", "LAUNCH_CANDIDATE", "TRACKED_TRADE"}

(* The class served among those that have a candidate (waiting # {}). *)
ScheduledPriority(urgent, launch, waiting) ==
  LET first == IF launch = MaxLaunch THEN "TRACKED_TRADE" ELSE "LAUNCH_CANDIDATE"
      second == IF launch = MaxLaunch THEN "LAUNCH_CANDIDATE" ELSE "TRACKED_TRADE"
  IN IF urgent = MaxUrgent /\ "NORMAL" \in waiting THEN "NORMAL"
     ELSE IF first \in waiting THEN first
     ELSE IF second \in waiting THEN second
     ELSE "NORMAL"

UrgentAfter(urgent, class) ==
  IF class = "NORMAL" THEN 0 ELSE IF urgent < MaxUrgent THEN urgent + 1 ELSE MaxUrgent

LaunchAfter(launch, class) ==
  IF class = "LAUNCH_CANDIDATE" THEN IF launch < MaxLaunch THEN launch + 1 ELSE MaxLaunch
  ELSE IF class = "TRACKED_TRADE" THEN 0 ELSE launch

=============================================================================
