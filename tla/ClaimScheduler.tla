---------------------------- MODULE ClaimScheduler ----------------------------
(***************************************************************************)
(* The claim scheduler under arbitrary arrivals: before every claim any    *)
(* non-empty set of classes may have a candidate that no other transaction *)
(* has locked.  passedOver[p] is a history variable: how many claims in a  *)
(* row found a candidate of class p and served another class.              *)
(***************************************************************************)
EXTENDS ClaimRotation, TLAPS

VARIABLES urgent, launch, passedOver

vars == <<urgent, launch, passedOver>>

Init ==
  /\ urgent = 0 /\ launch = 0
  /\ passedOver = [p \in Priorities |-> 0]

Claim(waiting) ==
  LET class == ScheduledPriority(urgent, launch, waiting)
  IN /\ urgent' = UrgentAfter(urgent, class)
     /\ launch' = LaunchAfter(launch, class)
     /\ passedOver' = [p \in Priorities |->
                         IF p \in waiting /\ p # class THEN passedOver[p] + 1 ELSE 0]

Next == \E waiting \in (SUBSET Priorities) \ {{}} : Claim(waiting)

Spec == Init /\ [][Next]_vars

(* The stored counters stay within the limits that claim itself enforces:  *)
(* outside them it throws and no row can be claimed any more.              *)
TypeOK ==
  /\ urgent \in 0..MaxUrgent
  /\ launch \in 0..MaxLaunch
  /\ passedOver \in [Priorities -> Nat]

(* NORMAL work that is claimable is served after at most MaxUrgent claims  *)
(* of the urgent classes, however many urgent rows keep arriving.          *)
NormalIsNotStarved == passedOver["NORMAL"] <= MaxUrgent

(* A tracked trade waits for at most MaxLaunch launch candidates and one   *)
(* NORMAL row that the urgent streak lets through.                         *)
TrackedIsNotStarved == passedOver["TRACKED_TRADE"] <= MaxLaunch + 1

(* A launch candidate is passed over at most twice: once for a tracked     *)
(* trade that is due, once for a NORMAL row that is due.                   *)
LaunchIsNotStarved == passedOver["LAUNCH_CANDIDATE"] <= 2

(* No priority class is starved by claim, whatever the others receive.     *)
NoClassIsStarved == NormalIsNotStarved /\ TrackedIsNotStarved /\ LaunchIsNotStarved

(* The facts on the counters that make the three bounds inductive.         *)
NormalStreak == passedOver["NORMAL"] <= urgent

TrackedStreak ==
  \/ passedOver["TRACKED_TRADE"] <= launch
  \/ passedOver["TRACKED_TRADE"] <= launch + 1 /\ urgent <= launch

LaunchStreak ==
  \/ passedOver["LAUNCH_CANDIDATE"] = 0
  \/ passedOver["LAUNCH_CANDIDATE"] = 1 /\ (launch = 0 \/ urgent = 0)
  \/ passedOver["LAUNCH_CANDIDATE"] = 2 /\ launch = 0 /\ urgent <= 1

(* The two durable counters bound how long each class has waited. *)
RotationInv == TypeOK /\ NormalStreak /\ TrackedStreak /\ LaunchStreak

-------------------------------------------------------------------------------
(* No priority class is starved by the claim scheduler, for every setting  *)
(* of the two limits.                                                      *)

(* The scheduler serves a class that has a candidate. *)
LEMMA ServedIsWaiting ==
  ASSUME NEW waiting \in (SUBSET Priorities) \ {{}}, NEW u, NEW l
  PROVE  ScheduledPriority(u, l, waiting) \in waiting
BY DEF ScheduledPriority, Priorities

LEMMA InitRotation == Init => RotationInv
BY RotationAssumption
DEF Init, RotationInv, TypeOK, NormalStreak, TrackedStreak, LaunchStreak, Priorities

(* Each claim preserves the invariant, whatever is waiting. *)
LEMMA ClaimPreservesRotation ==
  ASSUME RotationInv,
         NEW waiting \in (SUBSET Priorities) \ {{}},
         Claim(waiting)
  PROVE  RotationInv'
<1> DEFINE class == ScheduledPriority(urgent, launch, waiting)
<1>1. class \in waiting /\ class \in Priorities
  BY ServedIsWaiting
<1>2. /\ urgent' = UrgentAfter(urgent, class)
      /\ launch' = LaunchAfter(launch, class)
      /\ passedOver' = [p \in Priorities |->
                          IF p \in waiting /\ p # class THEN passedOver[p] + 1 ELSE 0]
  BY DEF Claim
<1>3. /\ urgent \in 0..MaxUrgent /\ launch \in 0..MaxLaunch
      /\ passedOver \in [Priorities -> Nat]
      /\ MaxUrgent \in Nat /\ MaxLaunch \in Nat \ {0} /\ MaxLaunch < MaxUrgent
  BY RotationAssumption DEF RotationInv, TypeOK
<1>4. \A p \in Priorities :
        passedOver'[p] = IF p \in waiting /\ p # class THEN passedOver[p] + 1 ELSE 0
  BY <1>2
<1>5. TypeOK'
  <2>1. urgent' \in 0..MaxUrgent
    BY <1>2, <1>3 DEF UrgentAfter
  <2>2. launch' \in 0..MaxLaunch
    BY <1>1, <1>2, <1>3 DEF LaunchAfter, Priorities
  <2>3. passedOver' \in [Priorities -> Nat]
    BY <1>2, <1>3
  <2> QED
    BY <2>1, <2>2, <2>3 DEF TypeOK
<1>6. /\ "NORMAL" \in Priorities /\ "TRACKED_TRADE" \in Priorities
      /\ "LAUNCH_CANDIDATE" \in Priorities
  BY DEF Priorities
<1>7. NormalStreak'
  <2>1. passedOver["NORMAL"] <= urgent
    BY DEF RotationInv, NormalStreak
  <2>2. CASE "NORMAL" \in waiting /\ class # "NORMAL"
    <3>1. urgent < MaxUrgent
      BY <2>2, <1>3 DEF ScheduledPriority
    <3>2. urgent' = urgent + 1
      BY <1>2, <2>2, <3>1 DEF UrgentAfter
    <3> QED
      BY <1>3, <1>4, <1>6, <2>1, <2>2, <3>2 DEF NormalStreak
  <2>3. CASE ~("NORMAL" \in waiting /\ class # "NORMAL")
    BY <1>4, <1>5, <1>6, <2>3 DEF NormalStreak, TypeOK
  <2> QED
    BY <2>2, <2>3
<1>8. TrackedStreak'
  <2>1. CASE "TRACKED_TRADE" \in waiting /\ class = "LAUNCH_CANDIDATE"
    <3>1. launch < MaxLaunch
      BY <2>1, <1>3 DEF ScheduledPriority
    <3>2. launch' = launch + 1
      BY <1>2, <2>1, <3>1 DEF LaunchAfter
    <3>3. urgent' <= urgent + 1
      BY <1>2, <1>3, <2>1 DEF UrgentAfter
    <3>4. passedOver'["TRACKED_TRADE"] = passedOver["TRACKED_TRADE"] + 1
      BY <1>4, <1>6, <2>1
    <3>5. TrackedStreak /\ urgent' \in Nat
      BY <1>3, <1>5 DEF RotationInv, TypeOK
    <3> QED
      BY <1>3, <1>6, <3>2, <3>3, <3>4, <3>5 DEF TrackedStreak
  <2>2. CASE "TRACKED_TRADE" \in waiting /\ class = "NORMAL"
    <3>1. urgent = MaxUrgent
      BY <2>2, <1>3 DEF ScheduledPriority
    <3>2. urgent' = 0 /\ launch' = launch
      BY <1>2, <2>2 DEF UrgentAfter, LaunchAfter
    <3>3. passedOver["TRACKED_TRADE"] <= launch
      BY <1>3, <3>1 DEF RotationInv, TrackedStreak
    <3> QED
      BY <1>3, <1>4, <1>6, <2>2, <3>2, <3>3 DEF TrackedStreak
  <2>3. CASE "TRACKED_TRADE" \notin waiting \/ class = "TRACKED_TRADE"
    BY <1>4, <1>5, <1>6, <2>3 DEF TrackedStreak, TypeOK
  <2> QED
    BY <1>1, <2>1, <2>2, <2>3 DEF Priorities
<1>9. LaunchStreak'
  <2>1. CASE "LAUNCH_CANDIDATE" \in waiting /\ class = "TRACKED_TRADE"
    <3>1. launch = MaxLaunch
      BY <2>1, <1>3 DEF ScheduledPriority
    <3>2. launch' = 0 /\ urgent' <= urgent + 1
      BY <1>2, <1>3, <2>1 DEF UrgentAfter, LaunchAfter
    <3>3. \/ passedOver["LAUNCH_CANDIDATE"] = 0
          \/ passedOver["LAUNCH_CANDIDATE"] = 1 /\ urgent = 0
      BY <1>3, <3>1 DEF RotationInv, LaunchStreak
    <3>4. passedOver'["LAUNCH_CANDIDATE"] = passedOver["LAUNCH_CANDIDATE"] + 1
      BY <1>4, <1>6, <2>1
    <3> QED
      BY <1>3, <1>6, <3>2, <3>3, <3>4 DEF LaunchStreak
  <2>2. CASE "LAUNCH_CANDIDATE" \in waiting /\ class = "NORMAL"
    <3>1. urgent = MaxUrgent
      BY <2>2, <1>3 DEF ScheduledPriority
    <3>2. urgent' = 0 /\ launch' = launch
      BY <1>2, <2>2 DEF UrgentAfter, LaunchAfter
    <3>3. \/ passedOver["LAUNCH_CANDIDATE"] = 0
          \/ passedOver["LAUNCH_CANDIDATE"] = 1 /\ launch = 0
      BY <1>3, <3>1 DEF RotationInv, LaunchStreak
    <3>4. passedOver'["LAUNCH_CANDIDATE"] = passedOver["LAUNCH_CANDIDATE"] + 1
      BY <1>4, <1>6, <2>2
    <3> QED
      BY <1>3, <1>6, <3>2, <3>3, <3>4 DEF LaunchStreak
  <2>3. CASE "LAUNCH_CANDIDATE" \notin waiting \/ class = "LAUNCH_CANDIDATE"
    BY <1>4, <1>6, <2>3 DEF LaunchStreak
  <2> QED
    BY <1>1, <2>1, <2>2, <2>3 DEF Priorities
<1> QED
  BY <1>5, <1>7, <1>8, <1>9 DEF RotationInv

(* The rotation invariant holds in every state of the scheduler. *)
THEOREM RotationIsInvariant == Spec => []RotationInv
<1>1. RotationInv /\ [Next]_vars => RotationInv'
  <2> SUFFICES ASSUME RotationInv, [Next]_vars PROVE RotationInv'
    OBVIOUS
  <2>1. CASE Next
    BY <2>1, ClaimPreservesRotation DEF Next
  <2>2. CASE UNCHANGED vars
    BY <2>2 DEF vars, RotationInv, TypeOK, NormalStreak, TrackedStreak, LaunchStreak
  <2> QED
    BY <2>1, <2>2
<1> QED
  BY InitRotation, <1>1, PTL DEF Spec

(* Claims never leave a class waiting beyond its bound: MaxUrgent claims   *)
(* for NORMAL rows, MaxLaunch launch candidates and one NORMAL row for     *)
(* tracked trades, two claims for launch candidates.                       *)
THEOREM WaitsAreBounded == Spec => []NoClassIsStarved
<1>1. RotationInv => NormalIsNotStarved
  BY RotationAssumption
  DEF RotationInv, TypeOK, NormalStreak, NormalIsNotStarved, Priorities
<1>2. RotationInv => TrackedIsNotStarved
  BY RotationAssumption
  DEF RotationInv, TypeOK, TrackedStreak, TrackedIsNotStarved, Priorities
<1>3. RotationInv => LaunchIsNotStarved
  BY DEF RotationInv, TypeOK, LaunchStreak, LaunchIsNotStarved
<1> QED
  BY RotationIsInvariant, <1>1, <1>2, <1>3, PTL DEF NoClassIsStarved

===============================================================================
