-------------------------- MODULE StrictCatchUpProofs --------------------------
(***************************************************************************)
(* Strict catch-up never skips a signature, for every chain, set of keys,  *)
(* providers and scanners: what a checkpoint claims to cover is admitted,  *)
(* a run that fails for a window too old has proved the loss, and a scan   *)
(* that completes has bridged the head it saw, when providers keep their   *)
(* history.  The invariant says of every run, stored or in a scanner's     *)
(* hands, that all of its key between cursor and head is admitted and that *)
(* its cursor lies above its boundary; and of every page that its rows are *)
(* the newest of what the walk has left.                                   *)
(***************************************************************************)
EXTENDS StrictCatchUp, FiniteSetTheorems, WellFoundedInduction, TLAPS

(* Numbers and empty lists. *)
LEMMA NextNat ==
  ASSUME NEW n \in Nat
  PROVE  n + 1 \in Nat
OBVIOUS

(* The empty list of items. *)
LEMMA NoItems ==
  /\ <<>> \in Seq(Item) /\ Len(<<>>) = 0 /\ 1 \in Nat /\ 0 \in Nat
  /\ \A i \in 1..Len(<<>>) : FALSE
OBVIOUS

(* Minima and maxima of sets of positions.                                 *)
LEMMA MinIsLeast ==
  ASSUME NEW S, S \subseteq Nat, S # {}
  PROVE  Min(S) \in S /\ \A y \in S : Min(S) <= y
<1> DEFINE R == {ss \in Nat \X Nat : ss[1] < ss[2]}
<1>1. R = OpToRel(<, Nat)
  BY Zenon DEF OpToRel
<1>2. IsWellFoundedOn(R, Nat)
  BY <1>1, NatLessThanWellFounded, Zenon
<1> HIDE DEF R
<1>3. PICK x \in S : \A y \in S : ~(<<y, x>> \in R)
  BY <1>2, WFMin, Zenon
<1>4. \A y \in S : x <= y
  <2> TAKE y \in S
  <2>1. x \in Nat /\ y \in Nat /\ ~(<<y, x>> \in R)
    BY Zenon, <1>3
  <2>2. ~(y < x)
    BY ONLY <2>1 DEF R
  <2> QED BY ONLY <2>1, <2>2
<1> QED BY Zenon, <1>4 DEF Min

(* The newest position of a set of positions. *)
LEMMA MaxIsGreatest ==
  ASSUME NEW S, S \subseteq Positions, S # {}
  PROVE  Max(S) \in S /\ \A y \in S : y <= Max(S)
<1> DEFINE D == {MaxHead - y : y \in S}
<1>1. \A y \in S : MaxHead - y \in Nat
  BY ChainAssumption DEF Positions
<1>2. D \subseteq Nat /\ D # {}
  BY <1>1, Zenon
<1>3. PICK d \in D : \A y \in D : d <= y
  BY Zenon, <1>2, MinIsLeast
<1>4. PICK x \in S : d = MaxHead - x
  BY Zenon
<1>5. \A y \in S : x >= y
  <2> TAKE y \in S
  <2>1. MaxHead - y \in D
    BY Zenon
  <2>2. d <= MaxHead - y
    BY Zenon, <2>1, <1>3
  <2>3. x \in Positions /\ y \in Positions
    BY Zenon
  <2> QED BY ONLY <2>2, <2>3, <1>4, ChainAssumption DEF Positions
<1> QED BY Zenon, <1>5, ChainAssumption DEF Max, Positions

(* The chain is finite, so pages can be counted. *)
LEMMA PositionsFinite ==
  ASSUME NEW S, S \subseteq Positions
  PROVE  IsFiniteSet(S) /\ Cardinality(S) \in Nat
<1>1. IsFiniteSet(Positions)
  BY ChainAssumption, FS_Interval DEF Positions
<1>2. IsFiniteSet(S)
  BY Zenon, <1>1, FS_Subset
<1> QED BY Zenon, <1>2, FS_CardinalityType

(* A page is the top of the history below the cursor; a short page is all  *)
(* of it.                                                                  *)
Below(p, k, before) == {i \in Listed(p, k) : before = 0 \/ i < before}

(* getSignaturesForAddress returns the newest signatures below the cursor. *)
LEMMA PageIsTop ==
  ASSUME NEW p, NEW k \in Keys, NEW before \in MaybePositions
  PROVE  /\ List(p, k, before) \subseteq Below(p, k, before)
         /\ \A i \in List(p, k, before), j \in Below(p, k, before) :
              i <= j => j \in List(p, k, before)
<1> DEFINE B == Below(p, k, before)
           L == List(p, k, before)
           Over(i) == {j \in B : i < j}
<1>1. B \subseteq Positions
  BY Zenon, ScannerAssumption DEF Below, Listed
<1>2. L = {i \in B : Cardinality(Over(i)) < PageSize}
  BY Zenon DEF List, Below
<1>3. ASSUME NEW i \in L, NEW j \in B, i <= j
      PROVE  j \in L
  <2>1. Over(j) \subseteq Over(i) /\ Over(i) \subseteq Positions
    BY <1>1, <1>2, <1>3 DEF Positions
  <2>2. Cardinality(Over(j)) <= Cardinality(Over(i))
    BY Zenon, <2>1, PositionsFinite, FS_Subset
  <2>3. Cardinality(Over(j)) \in Nat /\ Cardinality(Over(i)) \in Nat
    BY Zenon, <2>1, PositionsFinite
  <2> QED BY <1>2, <2>2, <2>3, ScannerAssumption
<1> QED BY Zenon, <1>2, <1>3

(* A page shorter than its limit is all the provider still lists. *)
LEMMA ShortPageIsAll ==
  ASSUME NEW p, NEW k \in Keys, NEW before \in MaybePositions,
         Cardinality(List(p, k, before)) < PageSize
  PROVE  List(p, k, before) = Below(p, k, before)
<1> DEFINE B == Below(p, k, before)
           L == List(p, k, before)
           Over(i) == {j \in B : i < j}
<1>1. B \subseteq Positions /\ L \subseteq B
  BY Zenon, ScannerAssumption, PageIsTop DEF Below, Listed
<1>2. L = {i \in B : Cardinality(Over(i)) < PageSize}
  BY Zenon DEF List, Below
<1>3. SUFFICES ASSUME B \ L # {} PROVE FALSE
  BY Zenon, <1>1
<1> DEFINE m == Max(B \ L)
<1>4. m \in B \ L /\ \A y \in B \ L : y <= m
  BY Zenon, <1>1, <1>3, MaxIsGreatest
<1> HIDE DEF m
<1>5. L = Over(m)
  BY <1>1, <1>4, PageIsTop DEF Positions
<1> QED BY Zenon, <1>1, <1>2, <1>4, <1>5

-----------------------------------------------------------------------------
(* The inductive invariant.  v, f and a stand for view, floor and admitted, *)
(* so that the same lemma speaks of a state and of the next one.            *)

World(v, f, a) ==
  /\ v \in [Providers -> Nat]
  /\ f \in [Providers -> Nat]
  /\ a \in [Keys -> SUBSET Positions]

(* What a run claims: its provider listed the cursor, which lies above the *)
(* boundary, and all it walked, from the cursor up to the head, is admitted. *)
GoodRun(x, v, a) ==
  /\ x \in RunType
  /\ x.head \in Touches[x.key] /\ x.previous \in Touches[x.key]
  /\ x.previous < x.before
  /\ SlotOf[x.before] <= v[x.provider]
  /\ \A i \in Touches[x.key] : x.before <= i /\ i <= x.head => i \in a[x.key]

(* The provider has forgotten the boundary. *)
Lost(e, p, f) == SlotOf[e] < f[p]

ItemInv(t, r, v, a) ==
  /\ t \in Item
  /\ t.kind # "fresh" => t.run # NoRun /\ GoodRun(t.run, v, a)
  /\ t.kind = "active" => /\ t.run.key = t.key
                          /\ t.run.previous = r.seen[t.key]
                          /\ t.run.provider = r.provider

(* The run a scanner walks is one for its key, boundary and provider. *)
RunInv(r, v, a) ==
  /\ r.head # 0 => r.head \in Touches[Key(r)]
  /\ r.run # NoRun => /\ GoodRun(r.run, v, a)
                      /\ r.run.key = Key(r)
                      /\ r.run.previous = Expected(r)
                      /\ r.run.provider = r.provider
                      /\ r.run.head = r.head

(* What is left of the walk: below the head and below the run's cursor. *)
Open(r, i) == i <= r.head /\ (r.run # NoRun => i < r.run.before)

(* The rows of a page are the top of what is left, down to the boundary    *)
(* when it was found; a last page without it proves that it was forgotten. *)
PageInv(r, v, f) ==
  /\ r.rows \subseteq Touches[Key(r)]
  /\ r.rows # {} => r.head # 0
  /\ r.rows = {} /\ r.run = NoRun => r.head = 0
  /\ \A m \in r.rows : SlotOf[m] <= v[r.provider] /\ Expected(r) < m
  /\ \A m \in r.rows, i \in Touches[Key(r)] : m <= i /\ Open(r, i) => i \in r.rows
  /\ r.found => \A i \in Touches[Key(r)] : Expected(r) < i /\ Open(r, i) => i \in r.rows
  /\ r.last /\ ~r.found /\ Expected(r) # 0 /\ (r.rows # {} \/ r.run # NoRun)
       => Lost(Expected(r), r.provider, f)

(* Everything between the boundary and the head is admitted. *)
Covered(r, a) ==
  Expected(r) # 0 =>
    \A i \in Touches[Key(r)] : Expected(r) < i /\ i <= r.head => i \in a[Key(r)]

Walking == {"list", "admit", "persist", "settle", "record", "fail"}

StageInv(r, v, f, a) ==
  /\ r.stage = "idle" => r.n = 1
  /\ r.stage \in {"idle", "checkpoints"} => r.todo = <<>> /\ r.stale = <<>>
  /\ r.stage \in {"checkpoints", "runs"} => r.n \in 1..Len(Programs)
  /\ r.stage \in Walking \cup {"supersede", "history"} => r.todo # <<>>
  /\ r.stage = "supersede" => Head(r.todo).kind = "stale"
  /\ r.stage = "history" => Expected(r) # 0
  /\ r.stage \in Walking => RunInv(r, v, a)
  /\ r.stage = "list" /\ r.run = NoRun => r.head = 0
  /\ r.stage \in {"admit", "persist"} => PageInv(r, v, f) /\ r.rows # {}
  /\ r.stage = "persist" => r.rows \subseteq a[Key(r)] /\ Expected(r) # 0
  /\ r.stage = "settle" => Covered(r, a)
  /\ r.stage \in {"record", "fail"} /\ r.run # NoRun => Lost(Expected(r), r.provider, f)
  /\ r.stage = "fail" => r.run # NoRun

SeenInv(r) == \A k \in Keys : r.seen[k] # 0 => r.seen[k] \in Touches[k]

ListInv(r, v, a) ==
  /\ r \in ScanType
  /\ SeenInv(r)
  /\ \A i \in 1..Len(r.todo) : ItemInv(r.todo[i], r, v, a)
  /\ \A i \in 1..Len(r.stale) : ItemInv(r.stale[i], r, v, a)

ScanInv(r, v, f, a) == ListInv(r, v, a) /\ StageInv(r, v, f, a)

RunsInv(x, v, f, a) ==
  GoodRun(x, v, a) /\ (x.state = "FAILED" => Lost(x.previous, x.provider, f))

Covers(k, lo, hi, a) == \A i \in Touches[k] : lo < i /\ i <= hi => i \in a[k]

KeyInv(k, c, b, a) ==
  /\ c # 0 => c \in Touches[k]
  /\ Covers(k, b, c, a)

CatchUpInv ==
  /\ World(view, floor, admitted)
  /\ checkpoint \in [Keys -> MaybePositions]
  /\ base \in [Keys -> MaybePositions]
  /\ \A k \in Keys : KeyInv(k, checkpoint[k], base[k], admitted)
  /\ \A x \in runs : RunsInv(x, view, floor, admitted)
  /\ scan \in [Scanners -> ScanType]
  /\ \A s \in Scanners : ScanInv(scan[s], view, floor, admitted)

-----------------------------------------------------------------------------
(* What holds of a run or of a scanner goes on to hold while views and     *)
(* floors rise and signatures are admitted.                                *)

Later(v, f, a, w, g, b) ==
  /\ World(v, f, a) /\ World(w, g, b)
  /\ \A p \in Providers : v[p] <= w[p] /\ f[p] <= g[p]
  /\ \A k \in Keys : a[k] \subseteq b[k]

(* A run stays good. *)
LEMMA RunLater ==
  ASSUME NEW v, NEW f, NEW a, NEW w, NEW g, NEW b, Later(v, f, a, w, g, b),
         NEW x, GoodRun(x, v, a)
  PROVE  GoodRun(x, w, b)
<1>1. x.provider \in Providers /\ x.key \in Keys /\ x.before \in Positions
  BY Zenon DEF GoodRun, RunType
<1>2. SlotOf[x.before] \in Nat /\ v[x.provider] \in Nat /\ w[x.provider] \in Nat
  BY Zenon, <1>1, ChainAssumption DEF Later, World, Positions
<1> QED BY <1>1, <1>2 DEF GoodRun, Later

(* What a provider has forgotten stays forgotten. *)
LEMMA LostLater ==
  ASSUME NEW v, NEW f, NEW a, NEW w, NEW g, NEW b, Later(v, f, a, w, g, b),
         NEW e \in Positions, NEW p \in Providers, Lost(e, p, f)
  PROVE  Lost(e, p, g)
<1>1. SlotOf[e] \in Nat /\ f[p] \in Nat /\ g[p] \in Nat /\ f[p] <= g[p]
  BY Zenon, ChainAssumption DEF Later, World, Positions
<1> QED BY <1>1 DEF Lost

(* An item stays good. *)
LEMMA ItemLater ==
  ASSUME NEW v, NEW f, NEW a, NEW w, NEW g, NEW b, Later(v, f, a, w, g, b),
         NEW r, NEW t, ItemInv(t, r, v, a)
  PROVE  ItemInv(t, r, w, b)
BY Zenon, RunLater DEF ItemInv

(* An item depends on the checkpoints seen and on the provider only. *)
LEMMA SameItem ==
  ASSUME NEW v, NEW a, NEW r, NEW q, NEW t, ItemInv(t, r, v, a),
         q.seen = r.seen, q.provider = r.provider
  PROVE  ItemInv(t, q, v, a)
BY Zenon DEF ItemInv

(* The key a scanner walks, and the boundary it walks to. *)
LEMMA KeyFacts ==
  ASSUME NEW v, NEW a, NEW r, ListInv(r, v, a), r.todo # <<>>
  PROVE  /\ Head(r.todo) = r.todo[1] /\ 1 \in 1..Len(r.todo)
         /\ ItemInv(Head(r.todo), r, v, a)
         /\ Key(r) \in Keys
         /\ Expected(r) \in MaybePositions
         /\ Expected(r) # 0 => Expected(r) \in Touches[Key(r)]
         /\ Touches[Key(r)] \subseteq Positions
         /\ r.provider \in Providers
<1>1. r.todo \in Seq(Item) /\ r.provider \in Providers /\ r.seen \in [Keys -> MaybePositions]
  BY Zenon DEF ListInv, ScanType
<1>2. Head(r.todo) = r.todo[1] /\ 1 \in 1..Len(r.todo)
  BY <1>1
<1>3. ItemInv(Head(r.todo), r, v, a)
  BY Zenon, <1>2 DEF ListInv
<1>4. Key(r) \in Keys
  BY Zenon, <1>3 DEF ItemInv, Item, Key
<1> QED BY Zenon, <1>1, <1>2, <1>3, <1>4, ScannerAssumption DEF Expected, ListInv, SeenInv

(* A scanner stays good while the others work. *)
LEMMA ScanLater ==
  ASSUME NEW v, NEW f, NEW a, NEW w, NEW g, NEW b, Later(v, f, a, w, g, b),
         NEW r, ScanInv(r, v, f, a)
  PROVE  ScanInv(r, w, g, b)
<1>1. ListInv(r, w, b)
  BY ItemLater DEF ScanInv, ListInv
<1>2. CASE r.todo = <<>>
  BY Zenon, <1>1, <1>2 DEF ScanInv, StageInv, Walking
<1>3. CASE r.todo # <<>>
  <2>1. /\ Key(r) \in Keys /\ Expected(r) \in MaybePositions /\ r.provider \in Providers
        /\ Touches[Key(r)] \subseteq Positions
    BY Zenon, <1>3, KeyFacts DEF ScanInv
  <2>2. a[Key(r)] \subseteq b[Key(r)]
    BY Zenon, <2>1 DEF Later
  <2>3. RunInv(r, v, a) => RunInv(r, w, b)
    BY Zenon, RunLater DEF RunInv
  <2>4. \A e \in MaybePositions : e # 0 /\ Lost(e, r.provider, f) => Lost(e, r.provider, g)
    BY <2>1, LostLater DEF MaybePositions, Positions
  <2>5. PageInv(r, v, f) => PageInv(r, w, g)
    <3> SUFFICES ASSUME PageInv(r, v, f) PROVE PageInv(r, w, g)
      BY Zenon
    <3>1. ASSUME NEW m \in r.rows PROVE SlotOf[m] <= w[r.provider]
      <4>1. m \in Positions /\ SlotOf[m] <= v[r.provider]
        BY Zenon, <2>1 DEF PageInv
      <4>2. SlotOf[m] \in Nat /\ v[r.provider] \in Nat /\ w[r.provider] \in Nat /\ v[r.provider] <= w[r.provider]
        BY Zenon, <2>1, <4>1, ChainAssumption DEF Later, World, Positions
      <4> QED BY <4>1, <4>2
    <3>2. r.last /\ ~r.found /\ Expected(r) # 0 /\ (r.rows # {} \/ r.run # NoRun)
             => Lost(Expected(r), r.provider, g)
      BY Zenon, <2>1, <2>4 DEF PageInv
    <3> QED BY Zenon, <3>1, <3>2 DEF PageInv
  <2>6. Covered(r, a) => Covered(r, b)
    BY Zenon, <2>2 DEF Covered
  <2>7. r.stage \in {"record", "fail"} /\ r.run # NoRun => Expected(r) # 0
    <3> SUFFICES ASSUME r.stage \in {"record", "fail"}, r.run # NoRun PROVE Expected(r) # 0
      BY Zenon
    <3>1. RunInv(r, v, a)
      BY Zenon DEF ScanInv, StageInv, Walking
    <3>2. r.run.previous = Expected(r) /\ r.run \in RunType
      BY Zenon, <3>1 DEF RunInv, GoodRun
    <3> QED BY <3>2, ChainAssumption DEF RunType, Positions
  <2>8. StageInv(r, w, g, b)
    BY Zenon, <2>1, <2>2, <2>3, <2>4, <2>5, <2>6, <2>7 DEF ScanInv, StageInv
  <2> QED BY Zenon, <1>1, <2>8 DEF ScanInv
<1> QED BY Zenon, <1>2, <1>3

-----------------------------------------------------------------------------
(* The operators that say where a scanner goes next. *)

(* A scan that returns or throws leaves a scanner with nothing in hand. *)
LEMMA EndedInv ==
  ASSUME NEW v, NEW f, NEW a, NEW r, r.since \in Nat, NEW result \in Results
  PROVE  ScanInv(Ended(r, result), v, f, a)
<1> DEFINE q == Ended(r, result)
<1>1. (CHOOSE p \in Providers : TRUE) \in Providers
  BY Zenon, ChainAssumption
<1>2. q \in ScanType
  <2>1. /\ (IF result = "done" THEN r.since ELSE 0) \in Nat /\ 1 \in Nat /\ 0 \in Nat
        /\ 0 \in MaybePositions
    BY ChainAssumption DEF MaybePositions
  <2>2. <<>> \in Seq(Item)
    OBVIOUS
  <2> QED BY ZenonT(40), <1>1, <2>1, <2>2 DEF Ended, ScanType, Stages, Policies
<1>3. /\ q.stage = "idle" /\ q.n = 1 /\ q.todo = <<>> /\ q.stale = <<>>
      /\ q.seen = [k \in Keys |-> 0]
  BY Zenon DEF Ended
<1> HIDE DEF q
<1>4. ListInv(q, v, a)
  BY ONLY <1>2, <1>3 DEF ListInv, SeenInv
<1>5. StageInv(q, v, f, a)
  BY ONLY <1>3 DEF StageInv, Walking
<1> QED BY Zenon, <1>4, <1>5 DEF ScanInv, q

(* scanProgram begins, with the run it resumes or without one. *)
LEMMA BegunInv ==
  ASSUME NEW v, NEW f, NEW a, NEW r, ListInv(r, v, a), r.todo # <<>>,
         NEW x, \/ x = NoRun
                \/ /\ GoodRun(x, v, a) /\ x.key = Key(r)
                   /\ x.previous = Expected(r) /\ x.provider = r.provider
  PROVE  ScanInv(RunBegun(r, x), v, f, a)
<1> DEFINE q == RunBegun(r, x)
           h == IF x = NoRun THEN 0 ELSE x.head
<1>1. /\ x \in RunType \cup {NoRun} /\ h \in MaybePositions
      /\ x # NoRun => h = x.head /\ h \in Touches[x.key]
      /\ x = NoRun => h = 0
  BY ChainAssumption DEF GoodRun, RunType, MaybePositions, Positions
<1>2. r \in ScanType
  BY Zenon DEF ListInv
<1> HIDE DEF h
<1>3. q = [r EXCEPT !.stage = "list", !.run = x, !.resumed = (x # NoRun), !.pages = 0, !.head = h]
  BY Zenon DEF RunBegun, h
<1>4. /\ q \in ScanType
      /\ q.stage = "list" /\ q.run = x /\ q.head = h
      /\ q.todo = r.todo /\ q.stale = r.stale /\ q.seen = r.seen /\ q.provider = r.provider
  <2>1. (x # NoRun) \in BOOLEAN /\ 0 \in Nat /\ "list" \in Stages
    BY DEF Stages
  <2>2. q \in ScanType
    BY ZenonT(40), <1>1, <1>2, <1>3, <2>1 DEF ScanType
  <2> QED BY ZenonT(40), <1>2, <1>3, <2>2 DEF ScanType
<1> HIDE DEF q
<1>5. Key(q) = Key(r) /\ Expected(q) = Expected(r)
  BY Zenon, <1>4 DEF Key, Expected
<1>6. ListInv(q, v, a)
  BY ZenonT(40), <1>4, SameItem DEF ListInv, SeenInv
<1>7. RunInv(q, v, a)
  BY Zenon, <1>1, <1>4, <1>5 DEF RunInv
<1>8. StageInv(q, v, f, a)
  BY <1>1, <1>4, <1>6, <1>7 DEF StageInv, Walking
<1> QED BY Zenon, <1>6, <1>8 DEF ScanInv, q

(* nextItem: the scanner turns to the next key or run of its list.         *)
LEMMA TurnInv ==
  ASSUME NEW v, NEW f, NEW a, NEW r, ListInv(r, v, a)
  PROVE  ScanInv(Turn(r), v, f, a)
<1>1. r \in ScanType
  BY Zenon DEF ListInv
<1>2. CASE r.todo = <<>>
  <2>1. r.since \in Nat /\ (IF r.resuming THEN "refresh" ELSE "done") \in Results
    BY Zenon, <1>1 DEF ScanType, Results
  <2>2. Turn(r) = Ended(r, IF r.resuming THEN "refresh" ELSE "done")
    BY Zenon, <1>2 DEF Turn
  <2> QED BY Zenon, <2>1, <2>2, EndedInv
<1>3. CASE r.todo # <<>>
  <2> DEFINE item == Head(r.todo)
  <2>1. ItemInv(item, r, v, a) /\ Key(r) = item.key
    BY Zenon, <1>3, KeyFacts DEF Key
  <2>2. item.kind \in {"active", "fresh", "stale"}
    BY Zenon, <2>1 DEF ItemInv, Item
  <2>3. ASSUME NEW st \in {"supersede", "history"},
               st = "supersede" => item.kind = "stale",
               st = "history" => Expected(r) # 0
        PROVE  ScanInv([r EXCEPT !.stage = st], v, f, a)
    <3> DEFINE q == [r EXCEPT !.stage = st]
    <3>1. /\ q \in ScanType
          /\ q.stage = st
          /\ q.todo = r.todo /\ q.stale = r.stale /\ q.seen = r.seen /\ q.provider = r.provider
      BY Zenon, <1>1 DEF ScanType, Stages
    <3> HIDE DEF q
    <3>2. ListInv(q, v, a)
      BY ZenonT(40), <3>1, SameItem DEF ListInv, SeenInv
    <3>3. Expected(q) = Expected(r)
      BY Zenon, <3>1 DEF Key, Expected
    <3>4. StageInv(q, v, f, a)
      BY Zenon, <1>3, <2>3, <3>1, <3>3 DEF StageInv, Walking
    <3>5. ScanInv(q, v, f, a)
      BY Zenon, <3>2, <3>4 DEF ScanInv
    <3> QED BY Zenon, <3>5 DEF q
  <2>4. CASE item.kind = "stale"
    BY Zenon, <1>3, <2>3, <2>4 DEF Turn
  <2>5. CASE item.kind = "active"
    <3>1. Turn(r) = RunBegun(r, item.run)
      BY Zenon, <1>3, <2>5 DEF Turn
    <3>2. /\ GoodRun(item.run, v, a) /\ item.run.key = Key(r)
          /\ item.run.previous = Expected(r) /\ item.run.provider = r.provider
      BY Zenon, <2>1, <2>5 DEF ItemInv, Expected
    <3> QED BY Zenon, <1>3, <3>1, <3>2, BegunInv
  <2>6. CASE item.kind = "fresh"
    <3>1. CASE r.seen[item.key] = 0
      <4>1. Turn(r) = RunBegun(r, NoRun)
        BY Zenon, <1>3, <2>6, <3>1 DEF Turn
      <4> QED BY Zenon, <1>3, <4>1, BegunInv
    <3>2. CASE r.seen[item.key] # 0
      <4>1. Turn(r) = [r EXCEPT !.stage = "history"]
        BY Zenon, <1>3, <2>6, <3>2 DEF Turn
      <4> QED BY Zenon, <2>1, <2>3, <3>2, <4>1 DEF Expected
    <3> QED BY Zenon, <3>1, <3>2
  <2> QED BY Zenon, <2>2, <2>4, <2>5, <2>6
<1> QED BY Zenon, <1>2, <1>3

(* An item that is finished, with what its completion adds to the list.    *)
LEMMA FinishedInv ==
  ASSUME NEW v, NEW f, NEW a, NEW r, ListInv(r, v, a), r.todo # <<>>
  PROVE  ScanInv(Finished(r), v, f, a)
<1>1. r \in ScanType
  BY Zenon DEF ListInv
<1>2. CASE Head(r.todo).kind = "fresh" /\ r.resumed
  <2>1. r.since \in Nat /\ "refresh" \in Results
    BY Zenon, <1>1 DEF ScanType, Results
  <2>2. Finished(r) = Ended(r, "refresh")
    BY Zenon, <1>2 DEF Finished
  <2> QED BY Zenon, <2>1, <2>2, EndedInv
<1>3. CASE ~(Head(r.todo).kind = "fresh" /\ r.resumed)
  <2> DEFINE q == [r EXCEPT !.todo = Tail(r.todo), !.run = NoRun, !.head = 0, !.resumed = FALSE,
                            !.pages = 0, !.rows = {}, !.found = FALSE, !.last = FALSE]
  <2>1. Finished(r) = Turn(q)
    BY Zenon, <1>1, <1>3 DEF Finished, ScanType
  <2>2. r.todo \in Seq(Item)
    BY Zenon, <1>1 DEF ScanType
  <2>3. /\ Tail(r.todo) \in Seq(Item)
        /\ \A i \in 1..Len(Tail(r.todo)) : i + 1 \in 1..Len(r.todo) /\ Tail(r.todo)[i] = r.todo[i + 1]
    BY <2>2
  <2>4. /\ q \in ScanType
        /\ q.todo = Tail(r.todo) /\ q.stale = r.stale /\ q.seen = r.seen /\ q.provider = r.provider
    <3>1. 0 \in Nat /\ 0 \in MaybePositions /\ FALSE \in BOOLEAN
      BY ChainAssumption DEF MaybePositions
    <3>2. q \in ScanType
      BY ZenonT(40), <1>1, <2>3, <3>1 DEF ScanType
    <3> QED BY ZenonT(40), <1>1, <3>2 DEF ScanType
  <2> HIDE DEF q
  <2>5. ListInv(q, v, a)
    <3>1. \A i \in 1..Len(q.todo) : ItemInv(q.todo[i], r, v, a)
      BY Zenon, <2>3, <2>4 DEF ListInv
    <3> QED BY ZenonT(40), <2>4, <3>1, SameItem DEF ListInv, SeenInv
  <2> QED BY Zenon, <2>1, <2>5, TurnInv
<1> QED BY Zenon, <1>2, <1>3

(* A scanner that only changes stage keeps its lists. *)
LEMMA StageOnly ==
  ASSUME NEW v, NEW a, NEW r, ListInv(r, v, a), NEW st \in Stages
  PROVE  LET q == [r EXCEPT !.stage = st]
         IN /\ ListInv(q, v, a)
            /\ q.stage = st
            /\ q.todo = r.todo /\ q.run = r.run /\ q.head = r.head
            /\ q.rows = r.rows /\ q.found = r.found /\ q.last = r.last
            /\ q.provider = r.provider
            /\ Key(q) = Key(r) /\ Expected(q) = Expected(r)
<1> DEFINE q == [r EXCEPT !.stage = st]
<1>1. /\ q \in ScanType
      /\ q.stage = st
      /\ q.todo = r.todo /\ q.run = r.run /\ q.head = r.head
      /\ q.rows = r.rows /\ q.found = r.found /\ q.last = r.last
      /\ q.provider = r.provider
      /\ q.stale = r.stale /\ q.seen = r.seen
  BY Zenon DEF ListInv, ScanType
<1> HIDE DEF q
<1>2. Key(q) = Key(r) /\ Expected(q) = Expected(r)
  BY Zenon, <1>1 DEF Key, Expected
<1>3. ListInv(q, v, a)
  BY ZenonT(40), <1>1, SameItem DEF ListInv, SeenInv
<1> QED BY ZenonT(40), <1>1, <1>2, <1>3 DEF q

(* A page that has been read becomes the scanner's.                        *)
LEMMA PagedInv ==
  ASSUME NEW v, NEW f, NEW a, NEW r, ListInv(r, v, a), r.todo # <<>>,
         RunInv(r, v, a),
         r.found => Covered(r, a),
         r.last /\ ~r.found /\ Expected(r) # 0 /\ r.run # NoRun => Lost(Expected(r), r.provider, f),
         ~r.found /\ ~r.last /\ Expected(r) # 0 /\ r.run = NoRun => r.head = 0
  PROVE  ScanInv(Paged(r), v, f, a)
<1>1. r \in ScanType
  BY Zenon DEF ListInv
<1>2. CASE Expected(r) = 0 \/ r.found
  <2> DEFINE q == [r EXCEPT !.stage = "settle"]
  <2>1. Paged(r) = q
    BY Zenon, <1>2 DEF Paged
  <2>2. "settle" \in Stages
    BY Zenon DEF Stages
  <2>3. /\ ListInv(q, v, a) /\ q.stage = "settle"
        /\ q.todo = r.todo /\ q.run = r.run /\ q.head = r.head /\ q.provider = r.provider
        /\ Key(q) = Key(r) /\ Expected(q) = Expected(r)
    BY <2>2, StageOnly
  <2> HIDE DEF q
  <2>4. RunInv(q, v, a) /\ Covered(q, a)
    BY Zenon, <1>2, <2>3 DEF RunInv, Covered
  <2> QED BY Zenon, <2>1, <2>3, <2>4 DEF ScanInv, StageInv
<1>3. CASE ~(Expected(r) = 0 \/ r.found) /\ r.last
  <2> DEFINE q == [r EXCEPT !.stage = "record"]
  <2>1. Paged(r) = q
    BY Zenon, <1>3 DEF Paged
  <2>2. "record" \in Stages
    BY Zenon DEF Stages
  <2>3. /\ ListInv(q, v, a) /\ q.stage = "record"
        /\ q.todo = r.todo /\ q.run = r.run /\ q.head = r.head /\ q.provider = r.provider
        /\ Key(q) = Key(r) /\ Expected(q) = Expected(r)
    BY <2>2, StageOnly
  <2> HIDE DEF q
  <2>4. RunInv(q, v, a) /\ (q.run # NoRun => Lost(Expected(q), q.provider, f))
    BY Zenon, <1>3, <2>3 DEF RunInv
  <2> QED BY Zenon, <2>1, <2>3, <2>4 DEF ScanInv, StageInv
<1>4. CASE ~(Expected(r) = 0 \/ r.found) /\ ~r.last /\ r.pages = MaxPages
  <2>1. r.since \in Nat /\ "paused" \in Results
    BY Zenon, <1>1 DEF ScanType, Results
  <2>2. Paged(r) = Ended(r, "paused")
    BY Zenon, <1>4 DEF Paged
  <2> QED BY Zenon, <2>1, <2>2, EndedInv
<1>5. CASE ~(Expected(r) = 0 \/ r.found) /\ ~r.last /\ r.pages # MaxPages
  <2> DEFINE q == [r EXCEPT !.stage = "list", !.rows = {}]
  <2>1. Paged(r) = q
    BY Zenon, <1>5 DEF Paged
  <2>2. /\ q \in ScanType
        /\ q.stage = "list" /\ q.run = r.run /\ q.head = r.head
        /\ q.todo = r.todo /\ q.stale = r.stale /\ q.seen = r.seen /\ q.provider = r.provider
    BY Zenon, <1>1 DEF ScanType, Stages
  <2> HIDE DEF q
  <2>3. Key(q) = Key(r) /\ Expected(q) = Expected(r)
    BY Zenon, <2>2 DEF Key, Expected
  <2>4. ListInv(q, v, a)
    BY ZenonT(40), <2>2, SameItem DEF ListInv, SeenInv
  <2>5. RunInv(q, v, a)
    BY Zenon, <2>2, <2>3 DEF RunInv
  <2> QED BY ZenonT(40), <1>5, <2>1, <2>2, <2>4, <2>5 DEF ScanInv, StageInv
<1> QED BY ZenonT(40), <1>2, <1>3, <1>4, <1>5

(* The page and the run together cover what is above the boundary. *)
LEMMA FoundCovers ==
  ASSUME NEW v, NEW f, NEW a, NEW r, ListInv(r, v, a), r.todo # <<>>,
         RunInv(r, v, a), PageInv(r, v, f), r.found,
         Expected(r) # 0 => r.rows \subseteq a[Key(r)]
  PROVE  Covered(r, a)
<1> SUFFICES ASSUME Expected(r) # 0, NEW i \in Touches[Key(r)], Expected(r) < i, i <= r.head
             PROVE  i \in a[Key(r)]
  BY Zenon DEF Covered
<1>1. i \in Positions
  BY Zenon, KeyFacts
<1>2. CASE Open(r, i)
  BY Zenon, <1>2 DEF PageInv
<1>3. CASE ~Open(r, i)
  <2>1. r.run # NoRun /\ GoodRun(r.run, v, a) /\ r.run.key = Key(r) /\ r.run.head = r.head
    BY ZenonT(40), <1>3 DEF Open, RunInv
  <2>2. r.run.before <= i
    BY <1>1, <1>3, <2>1 DEF Open, GoodRun, RunType, Positions
  <2> QED BY Zenon, <2>1, <2>2 DEF GoodRun
<1> QED BY Zenon, <1>2, <1>3

(* A page that has been admitted.                                          *)
LEMMA AdmittedInv ==
  ASSUME NEW v, NEW f, NEW a, NEW r, ListInv(r, v, a), r.todo # <<>>,
         RunInv(r, v, a), PageInv(r, v, f),
         Expected(r) # 0 => r.rows \subseteq a[Key(r)]
  PROVE  ScanInv(Admitted(r), v, f, a)
<1>1. CASE Expected(r) # 0 /\ (~r.found \/ r.run # NoRun) /\ r.rows # {}
  <2> DEFINE q == [r EXCEPT !.stage = "persist"]
  <2>1. Admitted(r) = q
    BY Zenon, <1>1 DEF Admitted
  <2>2. "persist" \in Stages
    BY Zenon DEF Stages
  <2>3. /\ ListInv(q, v, a) /\ q.stage = "persist"
        /\ q.todo = r.todo /\ q.run = r.run /\ q.head = r.head /\ q.provider = r.provider
        /\ q.rows = r.rows /\ q.found = r.found /\ q.last = r.last
        /\ Key(q) = Key(r) /\ Expected(q) = Expected(r)
    BY <2>2, StageOnly
  <2> HIDE DEF q
  <2>4. RunInv(q, v, a)
    BY Zenon, <2>3 DEF RunInv
  <2>5. PageInv(q, v, f)
    BY Zenon, <2>3 DEF PageInv, Open
  <2> QED BY ZenonT(40), <1>1, <2>1, <2>3, <2>4, <2>5 DEF ScanInv, StageInv
<1>2. CASE ~(Expected(r) # 0 /\ (~r.found \/ r.run # NoRun) /\ r.rows # {})
  <2>1. Admitted(r) = Paged(r)
    BY Zenon, <1>2 DEF Admitted
  <2>2. r.found => Covered(r, a)
    BY Zenon, FoundCovers
  <2>3. r.last /\ ~r.found /\ Expected(r) # 0 /\ r.run # NoRun => Lost(Expected(r), r.provider, f)
    BY Zenon DEF PageInv
  <2>4. ~r.found /\ ~r.last /\ Expected(r) # 0 /\ r.run = NoRun => r.head = 0
    BY Zenon, <1>2 DEF PageInv
  <2> QED BY Zenon, <2>1, <2>2, <2>3, <2>4, PagedInv
<1> QED BY Zenon, <1>1, <1>2

(* Between two positions of the chain the slots lie between theirs. *)
LEMMA SlotsRise ==
  ASSUME NEW i \in Positions, NEW j \in Positions
  PROVE  /\ SlotOf[i] \in Nat /\ SlotOf[j] \in Nat
         /\ i <= j => SlotOf[i] <= SlotOf[j]
         /\ SlotOf[i] < SlotOf[j] => i < j
BY ChainAssumption DEF Positions

(* What WithPage reads into the scanner. *)
Before(r) == IF r.run = NoRun THEN 0 ELSE r.run.before
Stops(r, page) ==
  {i \in page : Expected(r) # 0 /\ (i = Expected(r) \/ SlotOf[i] < SlotOf[Expected(r)])}
Taken(r, page) == {i \in page : \A j \in Stops(r, page) : j < i}
HeadRead(r, page) == IF r.head # 0 \/ Taken(r, page) = {} THEN r.head ELSE Max(Taken(r, page))

PageContext(r, page) ==
  /\ World(view, floor, admitted)
  /\ ScanInv(r, view, floor, admitted)
  /\ r.stage = "list"
  /\ page = List(r.provider, Key(r), Before(r))

(* What a scanner that walks a key knows of it.                            *)
LEMMA ContextFacts ==
  ASSUME NEW r, NEW page, PageContext(r, page)
  PROVE  /\ ListInv(r, view, admitted) /\ r \in ScanType /\ r.todo # <<>>
         /\ RunInv(r, view, admitted)
         /\ Key(r) \in Keys /\ Expected(r) \in MaybePositions /\ r.provider \in Providers
         /\ Touches[Key(r)] \subseteq Positions
         /\ Expected(r) # 0 => Expected(r) \in Touches[Key(r)]
         /\ r.run = NoRun => r.head = 0
         /\ view[r.provider] \in Nat /\ floor[r.provider] \in Nat
         /\ Before(r) \in MaybePositions
<1>1. ListInv(r, view, admitted) /\ StageInv(r, view, floor, admitted) /\ r.stage = "list"
  BY Zenon DEF PageContext, ScanInv
<1>2. r.todo # <<>> /\ RunInv(r, view, admitted) /\ (r.run = NoRun => r.head = 0)
  BY Zenon, <1>1 DEF StageInv, Walking
<1>3. r \in ScanType
  BY Zenon, <1>1 DEF ListInv
<1>4. /\ Key(r) \in Keys /\ Expected(r) \in MaybePositions /\ r.provider \in Providers
      /\ Touches[Key(r)] \subseteq Positions
      /\ Expected(r) # 0 => Expected(r) \in Touches[Key(r)]
  BY ZenonT(40), <1>1, <1>2, KeyFacts
<1>5. view[r.provider] \in Nat /\ floor[r.provider] \in Nat
  BY Zenon, <1>4 DEF PageContext, World
<1>6. Before(r) \in MaybePositions
  BY <1>2, ChainAssumption DEF RunInv, GoodRun, RunType, Before, MaybePositions, Positions
<1> QED BY ZenonT(40), <1>1, <1>2, <1>3, <1>4, <1>5, <1>6

(* The part of the history the walk has left, seen from the page. *)
LEMMA WalkFacts ==
  ASSUME NEW r, NEW page, PageContext(r, page)
  PROVE  /\ page \subseteq Below(r.provider, Key(r), Before(r))
         /\ \A i \in page, j \in Below(r.provider, Key(r), Before(r)) : i <= j => j \in page
         /\ \A i \in page : /\ i \in Touches[Key(r)]
                            /\ floor[r.provider] <= SlotOf[i] /\ SlotOf[i] <= view[r.provider]
         /\ r.run # NoRun => \A i \in Touches[Key(r)] :
              i < Before(r) => SlotOf[i] <= view[r.provider]
         /\ r.run # NoRun => Expected(r) < Before(r)
         /\ \A i \in Touches[Key(r)] :
              /\ floor[r.provider] <= SlotOf[i] /\ SlotOf[i] <= view[r.provider]
              /\ r.run # NoRun => i < Before(r)
              => i \in Below(r.provider, Key(r), Before(r))
<1>1. /\ Key(r) \in Keys /\ r.provider \in Providers
      /\ Touches[Key(r)] \subseteq Positions
      /\ view[r.provider] \in Nat /\ Before(r) \in MaybePositions
      /\ RunInv(r, view, admitted)
  BY Zenon, ContextFacts
<1>2. page = List(r.provider, Key(r), Before(r))
  BY Zenon DEF PageContext
<1>3. /\ page \subseteq Below(r.provider, Key(r), Before(r))
      /\ \A i \in page, j \in Below(r.provider, Key(r), Before(r)) : i <= j => j \in page
  BY Zenon, <1>1, <1>2, PageIsTop
<1>4. \A i \in page : /\ i \in Touches[Key(r)]
                      /\ floor[r.provider] <= SlotOf[i] /\ SlotOf[i] <= view[r.provider]
  BY Zenon, <1>3 DEF Below, Listed
<1>5. ASSUME r.run # NoRun
      PROVE  /\ Before(r) \in Positions /\ Expected(r) < Before(r)
             /\ SlotOf[Before(r)] <= view[r.provider]
  BY ZenonT(40), <1>1, <1>5 DEF RunInv, GoodRun, RunType, Before
<1>6. ASSUME r.run # NoRun, NEW i \in Touches[Key(r)], i < Before(r)
      PROVE  SlotOf[i] <= view[r.provider]
  <2>1. i \in Positions /\ Before(r) \in Positions /\ SlotOf[Before(r)] <= view[r.provider]
    BY ZenonT(40), <1>1, <1>5, <1>6
  <2>2. SlotOf[i] <= SlotOf[Before(r)] /\ SlotOf[i] \in Nat /\ SlotOf[Before(r)] \in Nat
    BY <1>6, <2>1, SlotsRise DEF Positions
  <2> QED BY <1>1, <2>1, <2>2
<1>7. ASSUME NEW i \in Touches[Key(r)], floor[r.provider] <= SlotOf[i], SlotOf[i] <= view[r.provider],
             r.run # NoRun => i < Before(r)
      PROVE  i \in Below(r.provider, Key(r), Before(r))
  BY Zenon, <1>7 DEF Below, Listed, Before
<1> QED BY ZenonT(40), <1>3, <1>4, <1>5, <1>6, <1>7

(* The rows a scanner takes from a page lie above the boundary, and are    *)
(* the newest of what is left.                                             *)
LEMMA TakenAboveBoundary ==
  ASSUME NEW r, NEW page, PageContext(r, page), NEW m \in Taken(r, page)
  PROVE  Expected(r) < m
<1> DEFINE e == Expected(r)
<1>1. /\ e \in MaybePositions /\ (e # 0 => e \in Touches[Key(r)] /\ e \in Positions)
      /\ Touches[Key(r)] \subseteq Positions
  BY Zenon, ContextFacts
<1>2. /\ m \in page /\ m \in Touches[Key(r)] /\ m \in Positions
      /\ floor[r.provider] <= SlotOf[m] /\ SlotOf[m] <= view[r.provider]
      /\ \A j \in Stops(r, page) : j < m
  BY ZenonT(40), <1>1, WalkFacts DEF Taken
<1>3. CASE e = 0
  BY <1>2, <1>3 DEF Positions
<1>4. CASE e # 0 /\ e \in page
  BY Zenon, <1>2, <1>4 DEF Stops
<1>5. CASE e # 0 /\ e \notin page
  <2>1. SUFFICES ASSUME m <= e PROVE FALSE
    BY <1>1, <1>2 DEF MaybePositions, Positions
  <2>2. ~(SlotOf[m] < SlotOf[e])
    <3>1. SUFFICES ASSUME SlotOf[m] < SlotOf[e] PROVE FALSE
      BY Zenon
    <3>2. m \in Stops(r, page)
      BY ZenonT(40), <1>2, <1>5, <3>1 DEF Stops
    <3> QED BY <1>2, <3>2 DEF Positions
  <2>3. SlotOf[m] = SlotOf[e]
    BY SMTT(30), <1>1, <1>2, <1>5, <2>1, <2>2, SlotsRise
  <2>4. e \in Below(r.provider, Key(r), Before(r))
    BY ZenonT(40), <1>1, <1>2, <1>5, <2>3, WalkFacts
  <2> QED BY ZenonT(40), <1>2, <1>5, <2>1, <2>4, WalkFacts
<1> QED BY ZenonT(40), <1>3, <1>4, <1>5

(* A position that is left and not above the head is one the provider has  *)
(* not failed to list yet.                                                 *)
LEMMA OpenIsVisible ==
  ASSUME NEW r, NEW page, PageContext(r, page), NEW i \in Touches[Key(r)],
         i <= HeadRead(r, page), r.run # NoRun => i < Before(r)
  PROVE  SlotOf[i] <= view[r.provider]
<1>1. CASE r.run # NoRun
  BY Zenon, <1>1, WalkFacts
<1>2. CASE r.run = NoRun
  <2>1. r.head = 0 /\ i \in Positions /\ Touches[Key(r)] \subseteq Positions /\ view[r.provider] \in Nat
    BY Zenon, <1>2, ContextFacts
  <2>2. Taken(r, page) # {}
    BY <2>1 DEF HeadRead, Positions
  <2>3. HeadRead(r, page) = Max(Taken(r, page))
    BY Zenon, <2>1, <2>2 DEF HeadRead
  <2>4. Taken(r, page) \subseteq page /\ page \subseteq Touches[Key(r)]
    BY Zenon, WalkFacts DEF Taken
  <2>5. HeadRead(r, page) \in page
    BY ZenonT(40), <2>1, <2>2, <2>3, <2>4, MaxIsGreatest
  <2> DEFINE h == HeadRead(r, page)
  <2>6. h \in Positions /\ SlotOf[h] <= view[r.provider]
    BY Zenon, <2>1, <2>4, <2>5, WalkFacts
  <2> HIDE DEF h
  <2>7. i <= h
    BY Zenon DEF h
  <2>8. SlotOf[i] <= SlotOf[h] /\ SlotOf[i] \in Nat /\ SlotOf[h] \in Nat
    BY Zenon, <2>1, <2>6, <2>7, SlotsRise
  <2> QED BY <2>1, <2>6, <2>8
<1> QED BY Zenon, <1>1, <1>2

(* No position that is left was skipped above a row that is taken. *)
LEMMA TakenIsTop ==
  ASSUME NEW r, NEW page, PageContext(r, page), NEW m \in Taken(r, page),
         NEW i \in Touches[Key(r)], m <= i,
         i <= HeadRead(r, page), r.run # NoRun => i < Before(r)
  PROVE  i \in Taken(r, page)
<1>1. /\ m \in page /\ m \in Positions /\ i \in Positions
      /\ floor[r.provider] <= SlotOf[m]
      /\ \A j \in Stops(r, page) : j < m
      /\ Stops(r, page) \subseteq Positions
      /\ floor[r.provider] \in Nat
  BY Zenon, ContextFacts, WalkFacts DEF Taken, Stops
<1>2. floor[r.provider] <= SlotOf[i]
  BY <1>1, SlotsRise
<1>3. SlotOf[i] <= view[r.provider]
  BY Zenon, OpenIsVisible
<1>4. i \in page
  BY ZenonT(40), <1>1, <1>2, <1>3, WalkFacts
<1>5. \A j \in Stops(r, page) : j < i
  BY <1>1 DEF Positions
<1> QED BY Zenon, <1>4, <1>5 DEF Taken

(* A page that shows the boundary completes the walk; one that is short    *)
(* without showing it proves the boundary forgotten.                       *)
LEMMA FoundIsReached ==
  ASSUME NEW r, NEW page, PageContext(r, page), Expected(r) # 0, Expected(r) \in page,
         NEW i \in Touches[Key(r)], Expected(r) < i,
         i <= HeadRead(r, page), r.run # NoRun => i < Before(r)
  PROVE  i \in Taken(r, page)
<1> DEFINE e == Expected(r)
<1>1. /\ e \in Positions /\ i \in Positions
      /\ floor[r.provider] <= SlotOf[e]
      /\ Stops(r, page) \subseteq Positions
      /\ floor[r.provider] \in Nat
  BY Zenon, ContextFacts, WalkFacts DEF Stops
<1>2. floor[r.provider] <= SlotOf[i]
  BY <1>1, SlotsRise DEF Positions
<1>3. SlotOf[i] <= view[r.provider]
  BY Zenon, OpenIsVisible
<1>4. i \in page
  BY <1>1, <1>2, <1>3, WalkFacts DEF Positions
<1>5. ASSUME NEW j \in Stops(r, page) PROVE j < i
  <2>1. j = e \/ j < e
    BY Zenon, <1>1, SlotsRise DEF Stops
  <2> QED BY <1>1, <2>1 DEF Positions
<1> QED BY Zenon, <1>4, <1>5 DEF Taken

(* A short or overshot page without the boundary proves it forgotten. *)
LEMMA MissingIsLost ==
  ASSUME NEW r, NEW page, PageContext(r, page), Expected(r) # 0, Expected(r) \notin page,
         Taken(r, page) # {} \/ r.run # NoRun,
         Stops(r, page) # {} \/ Cardinality(page) < PageSize
  PROVE  Lost(Expected(r), r.provider, floor)
<1> DEFINE e == Expected(r)
<1>1. /\ e \in Positions /\ e \in Touches[Key(r)] /\ Key(r) \in Keys
      /\ Touches[Key(r)] \subseteq Positions
      /\ floor[r.provider] \in Nat /\ view[r.provider] \in Nat /\ SlotOf[e] \in Nat
      /\ Before(r) \in MaybePositions
  BY ZenonT(40), ContextFacts, SlotsRise
<1>2. SUFFICES ASSUME floor[r.provider] <= SlotOf[e] PROVE FALSE
  BY <1>1 DEF Lost
<1>3. SlotOf[e] <= view[r.provider]
  <2>1. CASE r.run # NoRun
    BY ZenonT(40), <1>1, <2>1, WalkFacts
  <2>2. CASE Taken(r, page) # {}
    <3>1. PICK m \in Taken(r, page) : TRUE
      BY Zenon, <2>2
    <3>2. m \in Positions /\ SlotOf[m] <= view[r.provider]
      BY Zenon, <1>1, WalkFacts DEF Taken
    <3>3. e < m
      BY Zenon, TakenAboveBoundary
    <3>4. SlotOf[e] <= SlotOf[m] /\ SlotOf[m] \in Nat
      BY <1>1, <3>2, <3>3, SlotsRise DEF Positions
    <3> QED BY <1>1, <3>2, <3>4
  <2> QED BY Zenon, <2>1, <2>2
<1>4. e \in Below(r.provider, Key(r), Before(r))
  BY ZenonT(40), <1>1, <1>2, <1>3, WalkFacts
<1>5. CASE Stops(r, page) # {}
  <2>1. PICK j \in Stops(r, page) : TRUE
    BY Zenon, <1>5
  <2>2. j \in page /\ j \in Positions /\ SlotOf[j] < SlotOf[e]
    BY Zenon, <1>1, WalkFacts DEF Stops
  <2>3. j <= e
    BY <1>1, <2>2, SlotsRise DEF Positions
  <2> QED BY Zenon, <1>4, <2>2, <2>3, WalkFacts
<1>6. CASE Cardinality(page) < PageSize
  BY Zenon, <1>1, <1>4, <1>6, ShortPageIsAll DEF PageContext
<1> QED BY Zenon, <1>5, <1>6

(* withPage: the page is cut at the boundary and handed to admission.      *)
LEMMA WithPageInv ==
  ASSUME NEW r, NEW page, PageContext(r, page)
  PROVE  ScanInv(WithPage(r, page), view, floor, admitted)
<1> DEFINE rows == Taken(r, page)
           h == HeadRead(r, page)
           found == (Expected(r) # 0 /\ Expected(r) \in page)
           last == (Stops(r, page) # {} \/ Cardinality(page) < PageSize)
           q == [r EXCEPT !.pages = r.pages + 1, !.rows = rows, !.found = found, !.last = last, !.head = h]
<1>1. /\ ListInv(r, view, admitted) /\ r \in ScanType /\ r.todo # <<>>
      /\ RunInv(r, view, admitted)
      /\ Touches[Key(r)] \subseteq Positions
      /\ r.run = NoRun => r.head = 0
  BY Zenon, ContextFacts
<1>2. WithPage(r, page) = IF rows = {} \/ LiveEdgeBootstrap(r) THEN Admitted(q)
                          ELSE [q EXCEPT !.stage = "admit"]
  BY Zenon, <1>1 DEF WithPage, Taken, Stops, HeadRead, ScanType
<1>3. rows \subseteq Touches[Key(r)] /\ rows \subseteq Positions
  BY Zenon, <1>1, WalkFacts DEF Taken
<1>4. /\ rows # {} /\ r.head = 0 => h \in rows
      /\ rows = {} \/ r.head # 0 => h = r.head
  BY ZenonT(40), <1>3, MaxIsGreatest DEF HeadRead
<1>5. h \in MaybePositions /\ (h # 0 => h = r.head \/ h \in rows) /\ (rows # {} => h # 0)
  BY <1>1, <1>3, <1>4 DEF ScanType, MaybePositions, Positions
<1> HIDE DEF rows, h, found, last
<1>6. found \in BOOLEAN /\ last \in BOOLEAN
  BY Zenon DEF found, last
<1>7. /\ q \in ScanType
      /\ q.rows = rows /\ q.head = h /\ q.found = found /\ q.last = last
      /\ q.run = r.run /\ q.todo = r.todo /\ q.stale = r.stale /\ q.seen = r.seen
      /\ q.provider = r.provider
  <2>1. r.pages + 1 \in Nat
    BY Zenon, <1>1, NextNat DEF ScanType
  <2>2. q \in ScanType
    BY ZenonT(40), <1>1, <1>3, <1>5, <1>6, <2>1 DEF ScanType
  <2> QED BY ZenonT(40), <1>1, <2>2 DEF ScanType
<1> HIDE DEF q
<1>8. Key(q) = Key(r) /\ Expected(q) = Expected(r)
  BY Zenon, <1>7 DEF Key, Expected
<1>9. ListInv(q, view, admitted)
  BY ZenonT(40), <1>1, <1>7, SameItem DEF ListInv, SeenInv
<1>10. RunInv(q, view, admitted)
  <2>1. r.run # NoRun => r.head # 0
    BY SMTT(30), <1>1, ChainAssumption DEF RunInv, GoodRun, RunType, Positions
  <2>2. h # 0 => h \in Touches[Key(r)]
    BY Zenon, <1>1, <1>3, <1>5 DEF RunInv
  <2> QED BY ZenonT(40), <1>1, <1>4, <1>7, <1>8, <2>1, <2>2 DEF RunInv
<1>11. PageInv(q, view, floor)
  <2>1. rows = {} /\ r.run = NoRun => h = 0
    BY ZenonT(40), <1>1, <1>4
  <2>2. \A m \in rows : SlotOf[m] <= view[r.provider] /\ Expected(r) < m
    BY ZenonT(40), TakenAboveBoundary, WalkFacts DEF rows, Taken
  <2>3. \A i : Open(q, i) => i <= h /\ (r.run # NoRun => i < Before(r))
    BY Zenon, <1>7 DEF Open, Before
  <2>4. \A m \in rows, i \in Touches[Key(r)] : m <= i /\ Open(q, i) => i \in rows
    BY ZenonT(40), <2>3, TakenIsTop DEF rows, h
  <2>5. found => \A i \in Touches[Key(r)] : Expected(r) < i /\ Open(q, i) => i \in rows
    BY Zenon, <2>3, FoundIsReached DEF rows, h, found
  <2>6. last /\ ~found /\ Expected(r) # 0 /\ (rows # {} \/ r.run # NoRun)
          => Lost(Expected(r), r.provider, floor)
    BY Zenon, MissingIsLost DEF rows, last, found
  <2> QED BY ZenonT(40), <1>3, <1>5, <1>7, <1>8, <2>1, <2>2, <2>4, <2>5, <2>6 DEF PageInv
<1>12. CASE rows = {} \/ LiveEdgeBootstrap(r)
  <2>1. Expected(q) # 0 => q.rows \subseteq admitted[Key(q)]
    BY ZenonT(40), <1>7, <1>8, <1>12 DEF LiveEdgeBootstrap
  <2>2. ScanInv(Admitted(q), view, floor, admitted)
    BY ZenonT(40), <1>1, <1>7, <1>9, <1>10, <1>11, <2>1, AdmittedInv
  <2> QED BY ZenonT(40), <1>2, <1>12, <2>2
<1>13. CASE ~(rows = {} \/ LiveEdgeBootstrap(r))
  <2> DEFINE z == [q EXCEPT !.stage = "admit"]
  <2>1. "admit" \in Stages
    BY Zenon DEF Stages
  <2>2. /\ ListInv(z, view, admitted) /\ z.stage = "admit"
        /\ z.todo = q.todo /\ z.run = q.run /\ z.head = q.head /\ z.provider = q.provider
        /\ z.rows = q.rows /\ z.found = q.found /\ z.last = q.last
        /\ Key(z) = Key(q) /\ Expected(z) = Expected(q)
    BY <1>9, <2>1, StageOnly
  <2>3. WithPage(r, page) = z
    BY ZenonT(40), <1>2, <1>13
  <2> HIDE DEF z
  <2>4. RunInv(z, view, admitted)
    BY Zenon, <1>10, <2>2 DEF RunInv
  <2>5. PageInv(z, view, floor)
    BY ZenonT(40), <1>11, <2>2 DEF PageInv, Open
  <2>6. z.todo # <<>> /\ z.rows # {}
    BY ZenonT(40), <1>1, <1>7, <1>13, <2>2
  <2> QED BY ZenonT(40), <2>2, <2>3, <2>4, <2>5, <2>6 DEF ScanInv, StageInv
<1> QED BY Zenon, <1>12, <1>13

-----------------------------------------------------------------------------
(* The steps.  A step of a scanner leaves views and floors alone. *)

(* What a step of a scanner has to show: its own next state, and the rows *)
(* it writes. *)
LEMMA ScannerMoves ==
  ASSUME CatchUpInv, NEW s \in Scanners, NEW q, Goes(s, q),
         UNCHANGED chainVars, admitted' \in [Keys -> SUBSET Positions],
         \A k \in Keys : admitted[k] \subseteq admitted'[k],
         ScanInv(q, view, floor, admitted'),
         \A x \in runs' : RunsInv(x, view, floor, admitted'),
         checkpoint' \in [Keys -> MaybePositions], base' \in [Keys -> MaybePositions],
         \A k \in Keys : KeyInv(k, checkpoint'[k], base'[k], admitted')
  PROVE  CatchUpInv'
<1>1. view' = view /\ floor' = floor
  BY Zenon DEF chainVars
<1>2. Later(view, floor, admitted, view, floor, admitted')
  BY DEF CatchUpInv, World, Later
<1>3. q \in ScanType
  BY Zenon DEF ScanInv, ListInv
<1>4. scan' \in [Scanners -> ScanType]
  BY Zenon, <1>3 DEF CatchUpInv, Goes
<1>5. ASSUME NEW t \in Scanners PROVE ScanInv(scan'[t], view, floor, admitted')
  <2>1. CASE t = s
    BY Zenon, <2>1 DEF CatchUpInv, Goes
  <2>2. CASE t # s
    <3>1. scan'[t] = scan[t] /\ ScanInv(scan[t], view, floor, admitted)
      BY Zenon, <2>2 DEF CatchUpInv, Goes
    <3>2. ScanInv(scan[t], view, floor, admitted')
      BY Zenon, <1>2, <3>1, ScanLater
    <3> QED BY Zenon, <3>1, <3>2
  <2> QED BY Zenon, <2>1, <2>2
<1> QED BY ZenonT(40), <1>1, <1>2, <1>4, <1>5 DEF CatchUpInv, Later

(* A step that writes nothing to the store. *)
LEMMA ScannerTurns ==
  ASSUME CatchUpInv, NEW s \in Scanners, NEW q, Goes(s, q),
         UNCHANGED <<storeVars, chainVars, admitted, base>>,
         ScanInv(q, view, floor, admitted)
  PROVE  CatchUpInv'
<1>1. /\ checkpoint' = checkpoint /\ runs' = runs /\ base' = base /\ admitted' = admitted
      /\ UNCHANGED chainVars
  BY Zenon DEF storeVars
<1>2. /\ admitted' \in [Keys -> SUBSET Positions]
      /\ \A k \in Keys : admitted[k] \subseteq admitted'[k]
      /\ \A x \in runs' : RunsInv(x, view, floor, admitted')
      /\ checkpoint' \in [Keys -> MaybePositions] /\ base' \in [Keys -> MaybePositions]
      /\ \A k \in Keys : KeyInv(k, checkpoint'[k], base'[k], admitted')
  BY Zenon, <1>1 DEF CatchUpInv, World
<1>3. ScanInv(q, view, floor, admitted')
  BY Zenon, <1>1
<1> QED BY ZenonT(40), <1>1, <1>2, <1>3, ScannerMoves

(* Any scanner may end. *)
LEMMA ScannerEnds ==
  ASSUME CatchUpInv, NEW s \in Scanners, NEW result \in Results
  PROVE  ScanInv(Ended(scan[s], result), view, floor, admitted)
<1>1. scan[s].since \in Nat
  BY Zenon DEF CatchUpInv, ScanType
<1> QED BY Zenon, <1>1, EndedInv

(* The invariant, for one scanner. *)
LEMMA ScannerFacts ==
  ASSUME CatchUpInv, NEW s \in Scanners
  PROVE  /\ ScanInv(scan[s], view, floor, admitted)
         /\ ListInv(scan[s], view, admitted)
         /\ StageInv(scan[s], view, floor, admitted)
         /\ scan[s] \in ScanType
BY Zenon DEF CatchUpInv, ScanInv, ListInv

(* One lemma for each step of scan and of the repository calls it makes.   *)
LEMMA FailsKeeps ==
  ASSUME CatchUpInv, NEW s \in Scanners, Fails(s), UNCHANGED <<chainVars, admitted>>
  PROVE  CatchUpInv'
<1>1. "failed" \in Results
  BY Zenon DEF Results
<1>2. ScanInv(Ended(scan[s], "failed"), view, floor, admitted)
  BY Zenon, <1>1, ScannerEnds
<1> QED BY Zenon, <1>2, ScannerTurns DEF Fails

(* scan begins under a policy of resume. *)
LEMMA StartKeeps ==
  ASSUME CatchUpInv, NEW s \in Scanners, NEW p \in Providers, NEW policy \in Policies,
         Start(s, p, policy)
  PROVE  CatchUpInv'
<1> DEFINE r == scan[s]
           q == [r EXCEPT !.stage = "checkpoints", !.provider = p, !.policy = policy,
                          !.since = view[p], !.result = "none"]
<1>1. /\ Goes(s, q) /\ r.stage = "idle"
      /\ UNCHANGED <<storeVars, chainVars, admitted, base>>
  BY Zenon DEF Start, At
<1>2. r \in ScanType /\ ListInv(r, view, admitted) /\ StageInv(r, view, floor, admitted)
  BY Zenon, ScannerFacts
<1>3. r.n = 1 /\ r.todo = <<>> /\ r.stale = <<>>
  BY Zenon, <1>1, <1>2 DEF StageInv
<1>4. view[p] \in Nat
  BY Zenon DEF CatchUpInv, World
<1>5. /\ q \in ScanType /\ q.stage = "checkpoints" /\ q.n = r.n
      /\ q.todo = r.todo /\ q.stale = r.stale /\ q.seen = r.seen
  BY ZenonT(40), <1>2, <1>4 DEF ScanType, Stages, Results
<1> HIDE DEF q
<1>6. ListInv(q, view, admitted)
  BY <1>2, <1>3, <1>5 DEF ListInv, SeenInv
<1>7. 1 \in 1..Len(Programs)
  BY ScannerAssumption
<1>8. ScanInv(q, view, floor, admitted)
  BY ZenonT(40), <1>3, <1>5, <1>6, <1>7 DEF ScanInv, StageInv, Walking
<1> QED BY Zenon, <1>1, <1>8, ScannerTurns

(* scan reads the checkpoint of one program. *)
LEMMA ReadCheckpointKeeps ==
  ASSUME CatchUpInv, NEW s \in Scanners, ReadCheckpoint(s)
  PROVE  CatchUpInv'
<1> DEFINE r == scan[s]
           k == Programs[r.n]
           read == [r EXCEPT !.seen[k] = checkpoint[k], !.n = r.n + 1]
           q == IF r.n < Len(Programs) THEN read ELSE [read EXCEPT !.stage = "runs", !.n = 1]
<1>1. r \in ScanType /\ ListInv(r, view, admitted) /\ StageInv(r, view, floor, admitted)
  BY ZenonT(40), ScannerFacts
<1>2. /\ Goes(s, q) /\ r.stage = "checkpoints"
      /\ UNCHANGED <<storeVars, chainVars, admitted, base>>
  BY ZenonT(40), <1>1 DEF ReadCheckpoint, At, ScanType
<1>3. r.n \in 1..Len(Programs) /\ Len(Programs) \in Nat /\ k \in Keys /\ r.n \in Nat
  <2>1. r.n \in 1..Len(Programs)
    BY ZenonT(40), <1>1, <1>2 DEF StageInv
  <2>2. Programs \in Seq(Keys)
    BY Zenon, ScannerAssumption
  <2> QED BY ONLY SMTT(30), <2>1, <2>2
<1>4. checkpoint[k] \in MaybePositions /\ (checkpoint[k] # 0 => checkpoint[k] \in Touches[k])
  BY Zenon, <1>3 DEF CatchUpInv, KeyInv
<1>5. r.todo = <<>> /\ r.stale = <<>>
  BY Zenon, <1>1, <1>2 DEF StageInv
<1>6. /\ read \in ScanType /\ read.stage = "checkpoints" /\ read.n = r.n + 1
      /\ read.todo = <<>> /\ read.stale = <<>>
      /\ read.seen = [r.seen EXCEPT ![k] = checkpoint[k]]
  <2>1. /\ r.n + 1 \in Nat /\ r.seen \in [Keys -> MaybePositions]
        /\ [r.seen EXCEPT ![k] = checkpoint[k]] \in [Keys -> MaybePositions]
    <3>1. r.seen \in [Keys -> MaybePositions]
      BY Zenon, <1>1 DEF ScanType
    <3>2. [r.seen EXCEPT ![k] = checkpoint[k]] \in [Keys -> MaybePositions]
      BY ZenonT(40), <1>3, <1>4, <3>1
    <3>3. r.n + 1 \in Nat
      BY ONLY <1>3
    <3> QED BY Zenon, <3>1, <3>2, <3>3
  <2>2. read = [r EXCEPT !.seen = [r.seen EXCEPT ![k] = checkpoint[k]], !.n = r.n + 1]
    BY ZenonT(40), <1>1, <1>3, <2>1 DEF ScanType
  <2>3. read \in ScanType
    BY ZenonT(40), <1>1, <2>1, <2>2 DEF ScanType
  <2> QED BY ZenonT(40), <1>1, <1>2, <1>5, <2>2, <2>3 DEF ScanType
<1> HIDE DEF read
<1>7. r.seen \in [Keys -> MaybePositions] /\ SeenInv(r)
  BY Zenon, <1>1 DEF ScanType, ListInv
<1>8. SeenInv(read)
  BY Zenon, <1>3, <1>4, <1>6, <1>7 DEF SeenInv
<1>9. CASE r.n < Len(Programs)
  <2>1. q = read /\ read.n \in 1..Len(Programs)
    BY <1>3, <1>6, <1>9
  <2>2. ScanInv(read, view, floor, admitted)
    BY <1>6, <1>8, <2>1 DEF ScanInv, ListInv, StageInv, Walking
  <2> QED BY ZenonT(40), <1>2, <2>1, <2>2, ScannerTurns
<1>10. CASE ~(r.n < Len(Programs))
  <2> DEFINE z == [read EXCEPT !.stage = "runs", !.n = 1]
  <2>1. q = z
    BY Zenon, <1>10
  <2>2. /\ z \in ScanType /\ z.stage = "runs" /\ z.n = 1
        /\ z.todo = <<>> /\ z.stale = <<>> /\ z.seen = read.seen
    BY ZenonT(40), <1>6 DEF ScanType, Stages
  <2> HIDE DEF z
  <2>3. ScanInv(z, view, floor, admitted)
    BY <1>3, <1>8, <2>2 DEF ScanInv, ListInv, StageInv, SeenInv, Walking
  <2> QED BY ZenonT(40), <1>2, <2>1, <2>3, ScannerTurns
<1> QED BY Zenon, <1>9, <1>10

(* The run a scanner finds, and the items it adds to its list.             *)
LEMMA TheRunFound ==
  ASSUME NEW found
  PROVE  TheRun(found) = NoRun \/ TheRun(found) \in found
<1>1. CASE found = {}
  BY Zenon, <1>1 DEF TheRun
<1>2. CASE found # {}
  <2>1. (CHOOSE x \in found : TRUE) \in found
    BY Zenon, <1>2
  <2> QED BY Zenon, <1>2, <2>1 DEF TheRun
<1> QED BY Zenon, <1>1, <1>2

(* readActiveStrictCatchUpRun returns a good run of the key. *)
LEMMA ActiveRunRead ==
  ASSUME CatchUpInv, NEW k \in Keys, ReadActiveStrictCatchUpRun(k) # NoRun
  PROVE  LET x == ReadActiveStrictCatchUpRun(k)
         IN GoodRun(x, view, admitted) /\ x.key = k
<1>1. ReadActiveStrictCatchUpRun(k) \in ActiveRuns(k)
  BY Zenon, TheRunFound DEF ReadActiveStrictCatchUpRun
<1> QED BY Zenon, <1>1 DEF ActiveRuns, CatchUpInv, RunsInv

(* One more item at the end of a list. *)
LEMMA AppendedItems ==
  ASSUME NEW r, NEW v, NEW a, NEW list \in Seq(Item), NEW t,
         \A i \in 1..Len(list) : ItemInv(list[i], r, v, a), ItemInv(t, r, v, a)
  PROVE  /\ Append(list, t) \in Seq(Item)
         /\ \A i \in 1..Len(Append(list, t)) : ItemInv(Append(list, t)[i], r, v, a)
<1>1. t \in Item
  BY Zenon DEF ItemInv
<1>2. Append(list, t) \in Seq(Item) /\ Len(Append(list, t)) = Len(list) + 1 /\ Len(list) \in Nat
  BY <1>1
<1>3. ASSUME NEW i \in 1..Len(Append(list, t)) PROVE ItemInv(Append(list, t)[i], r, v, a)
  <2>1. CASE i \in 1..Len(list)
    <3>1. Append(list, t)[i] = list[i]
      BY <1>1, <2>1
    <3> QED BY Zenon, <2>1, <3>1
  <2>2. CASE i = Len(list) + 1
    <3>1. Append(list, t)[i] = t
      BY <1>1, <2>2
    <3> QED BY Zenon, <3>1
  <2> QED BY <1>2, <1>3, <2>1, <2>2
<1> QED BY Zenon, <1>2, <1>3

(* Two lists of items. *)
LEMMA JoinedItems ==
  ASSUME NEW r, NEW v, NEW a, NEW list \in Seq(Item), NEW more \in Seq(Item),
         \A i \in 1..Len(list) : ItemInv(list[i], r, v, a),
         \A i \in 1..Len(more) : ItemInv(more[i], r, v, a)
  PROVE  /\ list \o more \in Seq(Item)
         /\ \A i \in 1..Len(list \o more) : ItemInv((list \o more)[i], r, v, a)
<1>1. /\ list \o more \in Seq(Item) /\ Len(list \o more) = Len(list) + Len(more)
      /\ Len(list) \in Nat /\ Len(more) \in Nat
  OBVIOUS
<1>2. ASSUME NEW i \in 1..Len(list \o more) PROVE ItemInv((list \o more)[i], r, v, a)
  <2>1. CASE i \in 1..Len(list)
    <3>1. (list \o more)[i] = list[i]
      BY <2>1
    <3> QED BY Zenon, <2>1, <3>1
  <2>2. CASE i \notin 1..Len(list)
    <3>1. i - Len(list) \in 1..Len(more) /\ (list \o more)[i] = more[i - Len(list)]
      BY SMTT(30), <1>1, <1>2, <2>2
    <3> QED BY Zenon, <3>1
  <2> QED BY Zenon, <2>1, <2>2
<1> QED BY Zenon, <1>1, <1>2



(* The programs to be walked afresh. *)
LEMMA FreshItemsInv ==
  ASSUME NEW r, NEW v, NEW a
  PROVE  FreshItems \in Seq(Item) /\ \A i \in 1..Len(FreshItems) : ItemInv(FreshItems[i], r, v, a)
<1>1. \A i \in 1..Len(Programs) : Programs[i] \in Keys
  BY ZenonT(40), ScannerAssumption
<1>2. Len(Programs) \in Nat
  BY ScannerAssumption
<1>3. ASSUME NEW i \in 1..Len(Programs)
      PROVE  LET t == [kind |-> "fresh", key |-> Programs[i], run |-> NoRun]
             IN t \in Item /\ ItemInv(t, r, v, a)
  BY Zenon, <1>1 DEF Item, ItemInv
<1>4. FreshItems \in Seq(Item) /\ Len(FreshItems) = Len(Programs)
  BY <1>2, <1>3 DEF FreshItems
<1> QED BY Zenon, <1>3, <1>4 DEF FreshItems

(* What makes a run read for a program safe to queue, and what queueing it *)
(* leaves as it was.                                                       *)
Addable(r, k, x, v, a) ==
  /\ k \in Keys
  /\ x # NoRun => GoodRun(x, v, a) /\ x.key = k
  /\ x # NoRun /\ x.previous = r.seen[k] => x.provider = r.provider

Extends(q, r, v, a) == ListInv(q, v, a) /\ q.stage = r.stage /\ q.n = r.n

(* The run found for a program is queued as active or as stale. *)
LEMMA AddRunInv ==
  ASSUME NEW v, NEW a, NEW r, NEW k, NEW x, ListInv(r, v, a), Addable(r, k, x, v, a)
  PROVE  Extends(AddRun(r, k, x), r, v, a)
<1> USE DEF Addable, Extends
<1>1. /\ r \in ScanType /\ r.todo \in Seq(Item) /\ r.stale \in Seq(Item)
      /\ \A i \in 1..Len(r.todo) : ItemInv(r.todo[i], r, v, a)
      /\ \A i \in 1..Len(r.stale) : ItemInv(r.stale[i], r, v, a)
  BY Zenon DEF ListInv, ScanType
<1>2. CASE x = NoRun
  BY Zenon, <1>2 DEF AddRun
<1>3. CASE x # NoRun /\ x.previous = r.seen[k]
  <2> DEFINE t == [kind |-> "active", key |-> k, run |-> x]
             list == Append(r.todo, t)
             q == [r EXCEPT !.resuming = TRUE, !.todo = list]
  <2>1. AddRun(r, k, x) = q
    BY Zenon, <1>1, <1>3 DEF AddRun, ScanType
  <2>2. t \in Item /\ ItemInv(t, r, v, a)
    BY Zenon, <1>3 DEF Item, ItemInv, GoodRun
  <2> HIDE DEF t
  <2>3. list \in Seq(Item) /\ \A i \in 1..Len(list) : ItemInv(list[i], r, v, a)
    BY Zenon, <1>1, <2>2, AppendedItems
  <2> HIDE DEF list
  <2>4. /\ q \in ScanType /\ q.todo = list /\ q.stale = r.stale /\ q.seen = r.seen
        /\ q.provider = r.provider /\ q.stage = r.stage /\ q.n = r.n
    BY ZenonT(40), <1>1, <2>3 DEF ScanType
  <2> HIDE DEF q
  <2>5. ListInv(q, v, a)
    BY ZenonT(40), <1>1, <2>3, <2>4, SameItem DEF ListInv, SeenInv
  <2> QED BY Zenon, <2>1, <2>4, <2>5
<1>4. CASE x # NoRun /\ x.previous # r.seen[k]
  <2> DEFINE t == [kind |-> "stale", key |-> k, run |-> x]
             list == Append(r.stale, t)
             q == [r EXCEPT !.stale = list]
  <2>1. AddRun(r, k, x) = q
    BY Zenon, <1>1, <1>4 DEF AddRun, ScanType
  <2>2. t \in Item /\ ItemInv(t, r, v, a)
    BY Zenon, <1>4 DEF Item, ItemInv, GoodRun
  <2> HIDE DEF t
  <2>3. list \in Seq(Item) /\ \A i \in 1..Len(list) : ItemInv(list[i], r, v, a)
    BY Zenon, <1>1, <2>2, AppendedItems
  <2> HIDE DEF list
  <2>4. /\ q \in ScanType /\ q.todo = r.todo /\ q.stale = list /\ q.seen = r.seen
        /\ q.provider = r.provider /\ q.stage = r.stage /\ q.n = r.n
    BY ZenonT(40), <1>1, <2>3 DEF ScanType
  <2> HIDE DEF q
  <2>5. ListInv(q, v, a)
    BY ZenonT(40), <1>1, <2>3, <2>4, SameItem DEF ListInv, SeenInv
  <2> QED BY Zenon, <2>1, <2>4, <2>5
<1> QED BY Zenon, <1>2, <1>3, <1>4

(* scan reads the active run of one program, and after the last one turns *)
(* to its list. *)
LEMMA ReadActiveRunKeeps ==
  ASSUME CatchUpInv, NEW s \in Scanners, ReadActiveRun(s)
  PROVE  CatchUpInv'
<1> DEFINE r == scan[s]
           k == Programs[r.n]
           x == ReadActiveStrictCatchUpRun(k)
           added == AddRun(r, k, x)
           read == [added EXCEPT !.n = added.n + 1]
           fresh == IF read.resuming THEN <<>> ELSE FreshItems
           all == read.todo \o read.stale \o fresh
           ready == [read EXCEPT !.n = 1, !.todo = all, !.stale = <<>>]
<1>1. r \in ScanType /\ ListInv(r, view, admitted) /\ StageInv(r, view, floor, admitted)
  BY Zenon, ScannerFacts
<1>2. r.stage = "runs" /\ UNCHANGED <<storeVars, chainVars, admitted, base>>
  BY ZenonT(40) DEF ReadActiveRun, At
<1>3. r.n \in 1..Len(Programs) /\ Len(Programs) \in Nat /\ k \in Keys /\ r.n \in Nat
  <2>1. r.n \in 1..Len(Programs)
    BY Zenon, <1>1, <1>2 DEF StageInv
  <2>2. Programs \in Seq(Keys)
    BY Zenon, ScannerAssumption
  <2> QED BY ONLY SMTT(30), <2>1, <2>2
<1>4. x # NoRun => GoodRun(x, view, admitted) /\ x.key = k
  BY Zenon, <1>3, ActiveRunRead
<1>5. CASE x # NoRun /\ x.previous = r.seen[k] /\ x.provider # r.provider
  <2>1. Goes(s, Ended(r, "affinity")) /\ "affinity" \in Results
    BY Zenon, <1>5 DEF ReadActiveRun, Results
  <2> QED BY Zenon, <1>2, <2>1, ScannerEnds, ScannerTurns
<1>6. CASE ~(x # NoRun /\ x.previous = r.seen[k] /\ x.provider # r.provider)
  <2>1. ListInv(added, view, admitted) /\ added.stage = "runs" /\ added.n = r.n
    <3>1. x # NoRun /\ x.previous = r.seen[k] => x.provider = r.provider
      BY Zenon, <1>6
    <3>2. ListInv(r, view, admitted) /\ k \in Keys
      BY Zenon, <1>1, <1>3
    <3> HIDE DEF x, k
    <3>3. Addable(r, k, x, view, admitted)
      BY Zenon, <1>4, <3>1, <3>2 DEF Addable
    <3>4. ListInv(added, view, admitted) /\ added.stage = r.stage /\ added.n = r.n
      <4>1. Extends(AddRun(r, k, x), r, view, admitted)
        BY Zenon, <3>2, <3>3, AddRunInv
      <4> QED BY Zenon, <4>1 DEF Extends
    <3> QED BY Zenon, <1>2, <3>4
  <2>2. added \in ScanType
    BY Zenon, <2>1 DEF ListInv
  <2>3. Goes(s, IF r.n < Len(Programs) THEN read ELSE Turn(ready))
    <3>1. [AddRun(r, k, x) EXCEPT !.n = @ + 1] = read
      BY ZenonT(40), <2>2 DEF ScanType
    <3>2. added.n + 1 \in Nat
      BY Zenon, <1>3, <2>1, NextNat
    <3>3. read \in ScanType
      BY ZenonT(40), <2>2, <3>2 DEF ScanType
    <3>4. [read EXCEPT !.n = 1, !.todo = @ \o read.stale \o fresh, !.stale = <<>>] = ready
      BY Zenon, <3>3 DEF ScanType
    <3> QED BY Zenon, <1>6, <3>1, <3>4 DEF ReadActiveRun
  <2> HIDE DEF added, x
  <2>4. /\ read \in ScanType /\ read.n = r.n + 1 /\ read.stage = "runs"
        /\ read.todo = added.todo /\ read.stale = added.stale /\ read.seen = added.seen
        /\ read.provider = added.provider
    <3>1. added.n + 1 \in Nat /\ added.n + 1 = r.n + 1
      BY Zenon, <1>3, <2>1, NextNat
    <3>2. read \in ScanType
      BY ZenonT(40), <2>2, <3>1 DEF ScanType
    <3> QED BY ZenonT(40), <2>1, <2>2, <3>1, <3>2 DEF ScanType
  <2> HIDE DEF read
  <2>5. ListInv(read, view, admitted)
    BY ZenonT(40), <2>1, <2>4, SameItem DEF ListInv, SeenInv
  <2>6. CASE r.n < Len(Programs)
    <3>1. ScanInv(read, view, floor, admitted)
      BY SMTT(30), <1>3, <2>4, <2>5, <2>6 DEF ScanInv, StageInv, Walking
    <3> QED BY ZenonT(40), <1>2, <2>3, <2>6, <3>1, ScannerTurns
  <2>7. CASE ~(r.n < Len(Programs))
    <3>1. /\ fresh \in Seq(Item)
          /\ \A i \in 1..Len(fresh) : ItemInv(fresh[i], read, view, admitted)
      BY Zenon, NoItems, FreshItemsInv
    <3> HIDE DEF fresh
    <3>2. /\ read.todo \in Seq(Item) /\ read.stale \in Seq(Item)
          /\ \A i \in 1..Len(read.todo) : ItemInv(read.todo[i], read, view, admitted)
          /\ \A i \in 1..Len(read.stale) : ItemInv(read.stale[i], read, view, admitted)
      BY Zenon, <2>4, <2>5 DEF ListInv, ScanType
    <3> DEFINE both == read.todo \o read.stale
    <3>3. both \in Seq(Item) /\ \A i \in 1..Len(both) : ItemInv(both[i], read, view, admitted)
      BY Zenon, <3>2, JoinedItems
    <3> HIDE DEF both
    <3>4. all = both \o fresh
      BY Zenon DEF both
    <3>5. all \in Seq(Item) /\ \A i \in 1..Len(all) : ItemInv(all[i], read, view, admitted)
      BY ZenonT(40), <3>1, <3>3, <3>4, JoinedItems
    <3> HIDE DEF all
    <3>6. /\ ready \in ScanType /\ ready.todo = all /\ ready.stale = <<>>
          /\ ready.seen = read.seen /\ ready.provider = read.provider
      <4>1. ready \in ScanType
        BY ZenonT(40), <2>4, <3>5, NoItems DEF ScanType
      <4> QED BY ZenonT(40), <2>4, <4>1 DEF ScanType
    <3> HIDE DEF ready
    <3>7. ListInv(ready, view, admitted)
      BY ZenonT(40), <2>5, <3>5, <3>6, NoItems, SameItem DEF ListInv, SeenInv
    <3>8. ScanInv(Turn(ready), view, floor, admitted)
      BY Zenon, <3>7, TurnInv
    <3> QED BY ZenonT(40), <1>2, <2>3, <2>7, <3>8, ScannerTurns
  <2> QED BY Zenon, <2>6, <2>7
<1> QED BY ZenonT(40), <1>5, <1>6

(* A step of a scanner that writes the runs and neither the checkpoints    *)
(* nor what is admitted.                                                   *)
LEMMA RunsMove ==
  ASSUME CatchUpInv, NEW s \in Scanners, NEW q, Goes(s, q),
         UNCHANGED <<chainVars, admitted, base, checkpoint>>,
         ScanInv(q, view, floor, admitted),
         \A x \in runs' : RunsInv(x, view, floor, admitted)
  PROVE  CatchUpInv'
<1>1. /\ admitted' \in [Keys -> SUBSET Positions]
      /\ \A k \in Keys : admitted[k] \subseteq admitted'[k]
      /\ checkpoint' \in [Keys -> MaybePositions] /\ base' \in [Keys -> MaybePositions]
      /\ \A k \in Keys : KeyInv(k, checkpoint'[k], base'[k], admitted')
  BY Zenon DEF CatchUpInv, World
<1>2. admitted' = admitted /\ UNCHANGED chainVars
  BY Zenon
<1> QED BY ZenonT(40), <1>1, <1>2, ScannerMoves

(* A run that is put to rest keeps what it claims. *)
LEMMA TerminalizedInv ==
  ASSUME NEW v, NEW f, NEW a, NEW x, GoodRun(x, v, a), NEW st \in RunStates,
         st = "FAILED" => Lost(x.previous, x.provider, f)
  PROVE  RunsInv(Terminalized(x, st), v, f, a)
<1> DEFINE y == Terminalized(x, st)
<1>1. x \in RunType
  BY Zenon DEF GoodRun
<1>2. /\ y \in RunType /\ y.state = st /\ y.key = x.key /\ y.previous = x.previous
      /\ y.provider = x.provider /\ y.head = x.head /\ y.before = x.before
  <2>1. x.revision + 1 \in Nat
    BY <1>1 DEF RunType
  <2>2. y = [x EXCEPT !.state = st, !.revision = x.revision + 1]
    BY Zenon, <1>1 DEF Terminalized, RunType
  <2>3. y \in RunType
    BY ZenonT(40), <1>1, <2>1, <2>2 DEF RunType
  <2> QED BY ZenonT(40), <1>1, <2>2, <2>3 DEF RunType
<1> HIDE DEF y
<1> QED BY Zenon, <1>2 DEF RunsInv, GoodRun, y

(* A run whose boundary is no longer the checkpoint is superseded. *)
LEMMA SupersedeRunKeeps ==
  ASSUME CatchUpInv, NEW s \in Scanners, SupersedeRun(s)
  PROVE  CatchUpInv'
<1> DEFINE r == scan[s]
           x == Head(r.todo).run
<1>1. ListInv(r, view, admitted) /\ StageInv(r, view, floor, admitted)
  BY Zenon, ScannerFacts
<1>2. /\ r.stage = "supersede" /\ Goes(s, Finished(r))
      /\ runs' = (runs \ {x}) \cup {Terminalized(x, "SUPERSEDED")}
      /\ UNCHANGED <<chainVars, admitted, base, checkpoint>>
  BY Zenon DEF SupersedeRun, At, SupersedeStaleStrictCatchUpRun
<1>3. r.todo # <<>> /\ Head(r.todo).kind = "stale"
  BY ZenonT(40), <1>1, <1>2 DEF StageInv
<1>4. GoodRun(x, view, admitted)
  BY Zenon, <1>1, <1>3, KeyFacts DEF ItemInv
<1>5. RunsInv(Terminalized(x, "SUPERSEDED"), view, floor, admitted)
  BY ZenonT(40), <1>4, TerminalizedInv DEF RunStates
<1>6. \A y \in runs' : RunsInv(y, view, floor, admitted)
  BY Zenon, <1>2, <1>5 DEF CatchUpInv
<1>7. ScanInv(Finished(r), view, floor, admitted)
  BY ZenonT(40), <1>1, <1>3, FinishedInv
<1> QED BY ZenonT(40), <1>2, <1>6, <1>7, RunsMove

(* readStrictCatchUpRun: a run of the same boundary and provider is resumed. *)
LEMMA ReadHistoricalRunKeeps ==
  ASSUME CatchUpInv, NEW s \in Scanners, ReadHistoricalRun(s)
  PROVE  CatchUpInv'
<1> DEFINE r == scan[s]
           found == {y \in runs : y.key = Key(r) /\ y.previous = Expected(r) /\ y.provider = r.provider}
           x == TheRun(found)
<1>1. ListInv(r, view, admitted) /\ StageInv(r, view, floor, admitted)
  BY Zenon, ScannerFacts
<1>2. /\ r.stage = "history"
      /\ Goes(s, IF x = NoRun THEN RunBegun(r, NoRun)
                 ELSE IF x.state = "ACTIVE" THEN RunBegun(r, x)
                 ELSE Ended(r, IF x.state = "FAILED" THEN "window" ELSE "failed"))
      /\ UNCHANGED <<storeVars, chainVars, admitted, base>>
  BY Zenon DEF ReadHistoricalRun, At, ReadStrictCatchUpRun
<1>3. r.todo # <<>>
  BY ZenonT(40), <1>1, <1>2 DEF StageInv
<1>4. CASE x = NoRun
  BY ZenonT(40), <1>1, <1>2, <1>3, <1>4, BegunInv, ScannerTurns
<1>5. CASE x # NoRun /\ x.state = "ACTIVE"
  <2>1. x \in found
    BY Zenon, <1>5, TheRunFound
  <2>2. /\ GoodRun(x, view, admitted) /\ x.key = Key(r)
        /\ x.previous = Expected(r) /\ x.provider = r.provider
    BY Zenon, <2>1 DEF CatchUpInv, RunsInv
  <2> HIDE DEF x
  <2>3. ScanInv(RunBegun(r, x), view, floor, admitted)
    BY ZenonT(40), <1>1, <1>3, <2>2, BegunInv
  <2> QED BY ZenonT(40), <1>2, <1>5, <2>3, ScannerTurns
<1>6. CASE x # NoRun /\ x.state # "ACTIVE"
  <2> DEFINE result == IF x.state = "FAILED" THEN "window" ELSE "failed"
  <2>1. result \in Results
    BY Zenon DEF Results
  <2> HIDE DEF x
  <2>2. Goes(s, Ended(r, result))
    BY Zenon, <1>2, <1>6
  <2> HIDE DEF result
  <2> QED BY ZenonT(40), <1>2, <2>1, <2>2, ScannerEnds, ScannerTurns
<1> QED BY ZenonT(40), <1>4, <1>5, <1>6

(* The next page is read from the provider. *)
LEMMA ReadPageKeeps ==
  ASSUME CatchUpInv, NEW s \in Scanners, ReadPage(s)
  PROVE  CatchUpInv'
<1> DEFINE r == scan[s]
           page == List(r.provider, Key(r), Before(r))
<1>1. ScanInv(r, view, floor, admitted)
  BY Zenon, ScannerFacts
<1>2. /\ r.stage = "list" /\ Goes(s, WithPage(r, page))
      /\ UNCHANGED <<storeVars, chainVars, admitted, base>>
  BY Zenon DEF ReadPage, At, Before
<1>3. PageContext(r, page)
  BY ZenonT(40), <1>1, <1>2 DEF PageContext, CatchUpInv
<1> HIDE DEF page
<1>4. ScanInv(WithPage(r, page), view, floor, admitted)
  BY ZenonT(40), <1>3, WithPageInv
<1> QED BY ZenonT(40), <1>2, <1>4, ScannerTurns

(* A step that admits rows of the scanner's key. *)
LEMMA AdmissionKeeps ==
  ASSUME CatchUpInv, NEW s \in Scanners, NEW rows \in SUBSET scan[s].rows,
         scan[s].stage = "admit", NEW q, Goes(s, q),
         admitted' = [admitted EXCEPT ![Key(scan[s])] = @ \cup rows],
         UNCHANGED <<storeVars, chainVars, base>>,
         ScanInv(q, view, floor, admitted')
  PROVE  CatchUpInv'
<1> DEFINE r == scan[s]
<1>1. ListInv(r, view, admitted) /\ StageInv(r, view, floor, admitted)
  BY Zenon, ScannerFacts
<1>2. r.todo # <<>> /\ PageInv(r, view, floor)
  BY Zenon, <1>1 DEF StageInv, Walking
<1>3. Key(r) \in Keys /\ rows \subseteq Positions
  BY ZenonT(40), <1>1, <1>2, KeyFacts DEF PageInv
<1>4. /\ admitted' \in [Keys -> SUBSET Positions]
      /\ \A k \in Keys : admitted[k] \subseteq admitted'[k]
  BY ZenonT(40), <1>3 DEF CatchUpInv, World
<1>5. Later(view, floor, admitted, view, floor, admitted')
  BY <1>4 DEF CatchUpInv, World, Later
<1>6. /\ checkpoint' = checkpoint /\ runs' = runs /\ base' = base /\ UNCHANGED chainVars
  BY Zenon DEF storeVars
<1>7. ASSUME NEW x \in runs' PROVE RunsInv(x, view, floor, admitted')
  <2>1. GoodRun(x, view, admitted) /\ (x.state = "FAILED" => Lost(x.previous, x.provider, floor))
    BY ZenonT(40), <1>6 DEF CatchUpInv, RunsInv
  <2>2. GoodRun(x, view, admitted')
    BY <1>5, <2>1, RunLater
  <2> QED BY Zenon, <2>1, <2>2 DEF RunsInv
<1>8. \A k \in Keys : KeyInv(k, checkpoint'[k], base'[k], admitted')
  BY ZenonT(40), <1>4, <1>6 DEF CatchUpInv, KeyInv, Covers
<1>9. checkpoint' \in [Keys -> MaybePositions] /\ base' \in [Keys -> MaybePositions]
  BY Zenon, <1>6 DEF CatchUpInv
<1> QED BY ZenonT(40), <1>4, <1>6, <1>7, <1>8, <1>9, ScannerMoves

(* The whole page is admitted to the inbox. *)
LEMMA AdmitPageKeeps ==
  ASSUME CatchUpInv, NEW s \in Scanners, AdmitPage(s)
  PROVE  CatchUpInv'
<1> DEFINE r == scan[s]
<1>1. ScanInv(r, view, floor, admitted) /\ ListInv(r, view, admitted) /\ StageInv(r, view, floor, admitted)
  BY Zenon, ScannerFacts
<1>2. /\ r.stage = "admit" /\ Goes(s, Admitted(r))
      /\ admitted' = [admitted EXCEPT ![Key(r)] = @ \cup r.rows]
      /\ UNCHANGED <<storeVars, chainVars, base>>
  BY Zenon DEF AdmitPage, At
<1>3. r.todo # <<>> /\ PageInv(r, view, floor)
  BY Zenon, <1>1, <1>2 DEF StageInv, Walking
<1>4. Key(r) \in Keys /\ r.rows \subseteq Positions
  BY ZenonT(40), <1>1, <1>3, KeyFacts DEF PageInv
<1>5. Later(view, floor, admitted, view, floor, admitted') /\ r.rows \subseteq admitted'[Key(r)]
  BY <1>2, <1>4 DEF CatchUpInv, World, Later
<1>6. ScanInv(r, view, floor, admitted')
  BY Zenon, <1>1, <1>5, ScanLater
<1>7. ListInv(r, view, admitted') /\ RunInv(r, view, admitted')
  BY Zenon, <1>2, <1>6 DEF ScanInv, StageInv, Walking
<1>8. ScanInv(Admitted(r), view, floor, admitted')
  BY Zenon, <1>3, <1>5, <1>7, AdmittedInv
<1>9. r.rows \in SUBSET scan[s].rows
  BY Zenon
<1> QED BY ZenonT(40), <1>2, <1>8, <1>9, AdmissionKeeps

(* Admission fails after some rows. *)
LEMMA AdmitPartlyKeeps ==
  ASSUME CatchUpInv, NEW s \in Scanners, AdmitPartly(s)
  PROVE  CatchUpInv'
<1> DEFINE r == scan[s]
<1>1. /\ r.stage = "admit" /\ Goes(s, Ended(r, "interrupted"))
      /\ UNCHANGED <<storeVars, chainVars, base>>
  BY Zenon DEF AdmitPartly, At
<1>2. PICK i \in r.rows : admitted' = [admitted EXCEPT ![Key(r)] = @ \cup {j \in r.rows : j > i}]
  BY Zenon DEF AdmitPartly
<1> DEFINE rows == {j \in r.rows : j > i}
<1>3. rows \in SUBSET scan[s].rows
  BY Zenon
<1>4. r.since \in Nat /\ "interrupted" \in Results
  BY Zenon DEF CatchUpInv, ScanType, Results
<1>5. ScanInv(Ended(r, "interrupted"), view, floor, admitted')
  BY Zenon, <1>4, EndedInv
<1> HIDE DEF rows
<1>6. admitted' = [admitted EXCEPT ![Key(r)] = @ \cup rows]
  BY Zenon, <1>2 DEF rows
<1> QED BY ZenonT(40), <1>1, <1>3, <1>5, <1>6, AdmissionKeeps

(* The run a persisted page leaves behind. *)
LEMMA NextRunGood ==
  ASSUME CatchUpInv, NEW s \in Scanners, scan[s].stage = "persist"
  PROVE  LET r == scan[s]
             next == NextRun(r)
         IN /\ GoodRun(next, view, admitted)
            /\ next.key = Key(r) /\ next.previous = Expected(r)
            /\ next.provider = r.provider /\ next.head = r.head
            /\ next # NoRun
            /\ next.state = IF r.run = NoRun THEN "ACTIVE" ELSE r.run.state
<1> DEFINE r == scan[s]
           next == NextRun(r)
           m == Min(r.rows)
<1>1. ListInv(r, view, admitted) /\ StageInv(r, view, floor, admitted)
  BY Zenon, ScannerFacts
<1>2. /\ r.todo # <<>> /\ RunInv(r, view, admitted) /\ PageInv(r, view, floor)
      /\ r.rows \subseteq admitted[Key(r)] /\ r.rows # {} /\ Expected(r) # 0
  BY Zenon, <1>1 DEF StageInv, Walking
<1>3. /\ Key(r) \in Keys /\ r.provider \in Providers
      /\ Touches[Key(r)] \subseteq Positions
      /\ Expected(r) \in Touches[Key(r)]
  BY ZenonT(40), <1>1, <1>2, KeyFacts
<1>4. /\ r.rows \subseteq Touches[Key(r)] /\ r.head # 0 /\ r.head \in Touches[Key(r)]
      /\ r.rows \subseteq Nat
  <2>1. Positions \subseteq Nat
    BY ONLY ChainAssumption DEF Positions
  <2> QED BY ZenonT(40), <1>2, <1>3, <2>1 DEF PageInv, RunInv
<1>5. m \in r.rows /\ \A y \in r.rows : m <= y
  BY ZenonT(40), <1>2, <1>4, MinIsLeast
<1> HIDE DEF m
<1>6. SlotOf[m] <= view[r.provider] /\ Expected(r) < m
  BY Zenon, <1>2, <1>5 DEF PageInv
<1>7. ASSUME NEW i \in Touches[Key(r)], m <= i, i <= r.head PROVE i \in admitted[Key(r)]
  <2>1. CASE Open(r, i)
    <3>1. i \in r.rows
      BY ZenonT(40), <1>2, <1>5, <1>7, <2>1 DEF PageInv
    <3> QED BY Zenon, <1>2, <3>1
  <2>2. CASE ~Open(r, i)
    <3>1. r.run # NoRun /\ GoodRun(r.run, view, admitted) /\ r.run.key = Key(r) /\ r.run.head = r.head
      BY ZenonT(40), <1>2, <1>7, <2>2 DEF Open, RunInv
    <3>2. r.run.before <= i
      BY <1>3, <1>7, <2>2, <3>1 DEF Open, GoodRun, RunType, Positions
    <3> QED BY ZenonT(40), <1>7, <3>1, <3>2 DEF GoodRun
  <2> QED BY Zenon, <2>1, <2>2
<1>8. /\ next \in RunType
      /\ next.key = Key(r) /\ next.previous = Expected(r) /\ next.provider = r.provider
      /\ next.head = r.head /\ next.before = m
      /\ next.state = IF r.run = NoRun THEN "ACTIVE" ELSE r.run.state
  <2>1. CASE r.run = NoRun
    BY ZenonT(40), <1>3, <1>4, <1>5, <2>1 DEF NextRun, RunType, RunStates, m
  <2>2. CASE r.run # NoRun
    <3>1. /\ r.run \in RunType /\ r.run.key = Key(r) /\ r.run.previous = Expected(r)
          /\ r.run.provider = r.provider /\ r.run.head = r.head
      BY Zenon, <1>2, <2>2 DEF RunInv, GoodRun
    <3>2. m \in Positions
      BY ZenonT(40), <1>3, <1>4, <1>5
    <3>3. r.run.revision + 1 \in Nat
      BY Zenon, <3>1, NextNat DEF RunType
    <3>4. next = [r.run EXCEPT !.before = m, !.revision = r.run.revision + 1]
      BY Zenon, <2>2, <3>1 DEF NextRun, RunType, m
    <3>5. next \in RunType
      BY ZenonT(40), <3>1, <3>2, <3>3, <3>4 DEF RunType
    <3> QED BY ZenonT(40), <2>2, <3>1, <3>4, <3>5 DEF RunType
  <2> QED BY ZenonT(40), <2>1, <2>2
<1> HIDE DEF next
<1>9. next # NoRun
  BY Zenon, <1>8, NoRunAssumption
<1>10. GoodRun(next, view, admitted)
  BY ZenonT(40), <1>3, <1>4, <1>6, <1>7, <1>8 DEF GoodRun
<1> QED BY Zenon, <1>8, <1>9, <1>10 DEF next

(* The run is created or its cursor advanced, under the revision it was *)
(* read at. *)
LEMMA PersistProgressKeeps ==
  ASSUME CatchUpInv, NEW s \in Scanners, PersistProgress(s)
  PROVE  CatchUpInv'
<1> DEFINE r == scan[s]
           next == NextRun(r)
           q == [r EXCEPT !.run = next]
<1>1. r \in ScanType /\ ListInv(r, view, admitted) /\ StageInv(r, view, floor, admitted)
  BY Zenon, ScannerFacts
<1>2. r.stage = "persist" /\ UNCHANGED <<chainVars, admitted>>
  BY Zenon DEF PersistProgress, At
<1>3. /\ r.todo # <<>> /\ RunInv(r, view, admitted) /\ PageInv(r, view, floor)
      /\ r.rows \subseteq admitted[Key(r)] /\ r.rows # {} /\ Expected(r) # 0
  BY ZenonT(40), <1>1, <1>2 DEF StageInv, Walking
<1>4. /\ GoodRun(next, view, admitted)
      /\ next.key = Key(r) /\ next.previous = Expected(r)
      /\ next.provider = r.provider /\ next.head = r.head
      /\ next # NoRun
      /\ next.state = IF r.run = NoRun THEN "ACTIVE" ELSE r.run.state
  BY ZenonT(40), <1>2, NextRunGood
<1>5. CASE Fails(s)
  BY ZenonT(40), <1>2, <1>5, FailsKeeps
<1>6. CASE ~Fails(s)
  <2>1. /\ IF r.run = NoRun THEN CreateStrictCatchUpRun(next)
           ELSE AdvanceStrictCatchUpRun(r.run, next)
        /\ Goes(s, Paged(q))
        /\ UNCHANGED base
    BY Zenon, <1>6 DEF PersistProgress
  <2> HIDE DEF next
  <2>2. /\ q \in ScanType /\ q.run = next
        /\ q.todo = r.todo /\ q.stale = r.stale /\ q.seen = r.seen /\ q.provider = r.provider
        /\ q.head = r.head /\ q.rows = r.rows /\ q.found = r.found /\ q.last = r.last
    BY Zenon, <1>1, <1>4 DEF ScanType, GoodRun
  <2> HIDE DEF q
  <2>3. Key(q) = Key(r) /\ Expected(q) = Expected(r)
    BY ZenonT(40), <2>2 DEF Key, Expected
  <2>4. ListInv(q, view, admitted)
    BY ZenonT(40), <1>1, <2>2, SameItem DEF ListInv, SeenInv
  <2>5. RunInv(q, view, admitted)
    BY ZenonT(40), <1>3, <1>4, <2>2, <2>3 DEF RunInv
  <2>6. q.found => Covered(q, admitted)
    <3>1. r.found => Covered(r, admitted)
      BY ZenonT(40), <1>1, <1>3, FoundCovers
    <3> QED BY ZenonT(40), <2>2, <2>3, <3>1 DEF Covered
  <2>7. q.last /\ ~q.found /\ Expected(q) # 0 /\ q.run # NoRun => Lost(Expected(q), q.provider, floor)
    BY ZenonT(40), <1>3, <2>2, <2>3 DEF PageInv
  <2>8. ScanInv(Paged(q), view, floor, admitted)
    BY ZenonT(40), <1>3, <1>4, <2>2, <2>4, <2>5, <2>6, <2>7, PagedInv
  <2>9. /\ \A x \in runs' : x = next \/ x \in runs
        /\ checkpoint' = checkpoint
        /\ r.run # NoRun => r.run \in runs
    BY <2>1 DEF CreateStrictCatchUpRun, AdvanceStrictCatchUpRun, CanAdvanceRun
  <2>10. RunsInv(next, view, floor, admitted)
    <3>1. CASE r.run = NoRun
      BY ZenonT(40), <1>4, <3>1 DEF RunsInv
    <3>2. CASE r.run # NoRun
      <4>1. /\ r.run.previous = Expected(r) /\ r.run.provider = r.provider
            /\ RunsInv(r.run, view, floor, admitted)
        BY Zenon, <1>3, <2>9, <3>2 DEF RunInv, CatchUpInv
      <4> QED BY Zenon, <1>4, <3>2, <4>1 DEF RunsInv
    <3> QED BY ZenonT(40), <3>1, <3>2
  <2>11. \A x \in runs' : RunsInv(x, view, floor, admitted)
    BY Zenon, <2>9, <2>10 DEF CatchUpInv
  <2> QED BY ZenonT(40), <1>2, <2>1, <2>8, <2>9, <2>11, RunsMove
<1> QED BY ZenonT(40), <1>5, <1>6

(* The checkpoint of a key moves from the boundary to the head. *)
LEMMA CheckpointMoves ==
  ASSUME CatchUpInv, NEW k \in Keys, NEW h \in Touches[k],
         checkpoint' = [checkpoint EXCEPT ![k] = h],
         \/ /\ checkpoint[k] = 0 /\ base' = [base EXCEPT ![k] = h]
         \/ /\ checkpoint[k] # 0 /\ base' = base
            /\ Covers(k, checkpoint[k], h, admitted)
  PROVE  /\ checkpoint' \in [Keys -> MaybePositions] /\ base' \in [Keys -> MaybePositions]
         /\ \A j \in Keys : KeyInv(j, checkpoint'[j], base'[j], admitted)
<1>1. /\ h \in Positions /\ h \in MaybePositions /\ Touches[k] \subseteq Positions
      /\ checkpoint \in [Keys -> MaybePositions] /\ base \in [Keys -> MaybePositions]
  BY SMTT(30), ScannerAssumption DEF CatchUpInv, Positions, MaybePositions
<1>2. checkpoint' \in [Keys -> MaybePositions] /\ base' \in [Keys -> MaybePositions]
  BY Zenon, <1>1
<1>3. ASSUME NEW j \in Keys PROVE KeyInv(j, checkpoint'[j], base'[j], admitted)
  <2>1. CASE j # k
    <3>1. checkpoint'[j] = checkpoint[j] /\ base'[j] = base[j]
      BY Zenon, <1>1, <2>1
    <3> QED BY Zenon, <3>1 DEF CatchUpInv
  <2>2. CASE j = k /\ checkpoint[k] = 0
    <3>1. checkpoint'[k] = h /\ base'[k] = h
      BY Zenon, <1>1, <2>2
    <3>2. Covers(k, h, h, admitted)
      BY <1>1 DEF Covers, Positions
    <3> QED BY Zenon, <2>2, <3>1, <3>2 DEF KeyInv
  <2>3. CASE j = k /\ checkpoint[k] # 0
    <3>1. checkpoint'[k] = h /\ base'[k] = base[k]
      BY Zenon, <1>1, <2>3
    <3>2. Covers(k, base[k], checkpoint[k], admitted) /\ Covers(k, checkpoint[k], h, admitted)
      BY Zenon, <2>3 DEF CatchUpInv, KeyInv
    <3>3. checkpoint[k] \in MaybePositions
      BY Zenon, <1>1
    <3>4. Covers(k, base[k], h, admitted)
      BY <1>1, <3>2, <3>3 DEF Covers, MaybePositions, Positions
    <3> QED BY ZenonT(40), <2>3, <3>1, <3>4 DEF KeyInv
  <2> QED BY Zenon, <2>1, <2>2, <2>3
<1> QED BY ZenonT(40), <1>2, <1>3

(* The walk is complete: the checkpoint moves to the head and the run is *)
(* completed. *)
LEMMA SettleKeeps ==
  ASSUME CatchUpInv, NEW s \in Scanners, Settle(s)
  PROVE  CatchUpInv'
<1> DEFINE r == scan[s]
           k == Key(r)
           e == Expected(r)
<1>1. ListInv(r, view, admitted) /\ StageInv(r, view, floor, admitted)
  BY Zenon, ScannerFacts
<1>2. r.stage = "settle" /\ UNCHANGED <<chainVars, admitted>>
  BY Zenon DEF Settle, At
<1>3. r.todo # <<>> /\ RunInv(r, view, admitted) /\ Covered(r, admitted)
  BY Zenon, <1>1, <1>2 DEF StageInv, Walking
<1>4. k \in Keys /\ e \in MaybePositions
  BY Zenon, <1>1, <1>3, KeyFacts
<1>5. ScanInv(Finished(r), view, floor, admitted)
  BY Zenon, <1>1, <1>3, FinishedInv
<1>6. /\ admitted' \in [Keys -> SUBSET Positions] /\ admitted' = admitted
      /\ UNCHANGED chainVars
      /\ \A j \in Keys : admitted[j] \subseteq admitted'[j]
  BY Zenon, <1>2 DEF CatchUpInv, World
<1>7. CASE Fails(s)
  BY Zenon, <1>2, <1>7, FailsKeeps
<1>8. CASE r.head = 0 /\ ~Fails(s)
  <2>1. Goes(s, Finished(r)) /\ UNCHANGED <<base, checkpoint>> /\ runs' = runs
    BY Zenon, <1>8 DEF Settle, ResolveStrictCatchUpFailures
  <2>2. \A x \in runs' : RunsInv(x, view, floor, admitted)
    BY Zenon, <2>1 DEF CatchUpInv
  <2> QED BY ZenonT(40), <1>2, <1>5, <2>1, <2>2, RunsMove
<1>9. CASE r.head # 0 /\ r.run = NoRun /\ ~Fails(s)
  <2>1. /\ CompareAndSwapCheckpoint(k, e, r.head)
        /\ base' = [base EXCEPT ![k] = IF e = 0 THEN r.head ELSE @]
        /\ Goes(s, Finished(r))
    BY Zenon, <1>9 DEF Settle
  <2>2. /\ checkpoint[k] = e /\ checkpoint' = [checkpoint EXCEPT ![k] = r.head] /\ runs' = runs
    BY Zenon, <2>1 DEF CompareAndSwapCheckpoint, CanSwapCheckpoint
  <2>3. r.head \in Touches[k]
    BY Zenon, <1>3, <1>9 DEF RunInv
  <2>4. \/ checkpoint[k] = 0 /\ base' = [base EXCEPT ![k] = r.head]
        \/ checkpoint[k] # 0 /\ base' = base /\ Covers(k, checkpoint[k], r.head, admitted)
    <3>1. CASE e = 0
      BY Zenon, <2>1, <2>2, <3>1
    <3>2. CASE e # 0
      <4>1. base' = base
        BY ZenonT(40), <2>1, <3>2, <1>4 DEF CatchUpInv
      <4>2. Covers(k, e, r.head, admitted)
        BY Zenon, <1>3, <3>2 DEF Covered, Covers
      <4> QED BY ZenonT(40), <2>2, <3>2, <4>1, <4>2
    <3> QED BY Zenon, <3>1, <3>2
  <2> HIDE DEF k, r
  <2>5. /\ checkpoint' \in [Keys -> MaybePositions] /\ base' \in [Keys -> MaybePositions]
        /\ \A j \in Keys : KeyInv(j, checkpoint'[j], base'[j], admitted)
    BY ZenonT(40), <1>4, <2>2, <2>3, <2>4, CheckpointMoves
  <2>6. \A x \in runs' : RunsInv(x, view, floor, admitted)
    BY Zenon, <2>2 DEF CatchUpInv
  <2> QED BY ZenonT(40), <1>5, <1>6, <2>1, <2>5, <2>6, ScannerMoves
<1>10. CASE r.head # 0 /\ r.run # NoRun /\ ~Fails(s)
  <2> DEFINE x == r.run
  <2>1. CompleteStrictCatchUpRun(x) /\ Goes(s, Finished(r)) /\ base' = base
    BY ZenonT(40), <1>10 DEF Settle
  <2>2. /\ GoodRun(x, view, admitted) /\ x.key = k /\ x.previous = e /\ x.head = r.head
        /\ e # 0 /\ r.head \in Touches[k]
    <3>1. /\ GoodRun(x, view, admitted) /\ x.key = k /\ x.previous = e /\ x.head = r.head
          /\ r.head \in Touches[k] /\ e \in Positions
      BY Zenon, <1>3, <1>10 DEF RunInv, GoodRun, RunType
    <3>2. 0 \notin Positions
      BY ONLY ChainAssumption DEF Positions
    <3> QED BY Zenon, <3>1, <3>2
  <2> HIDE DEF x
  <2>3. /\ checkpoint[k] = e /\ checkpoint' = [checkpoint EXCEPT ![k] = r.head]
        /\ runs' = (runs \ {x}) \cup {Terminalized(x, "COMPLETED")}
    BY Zenon, <2>1, <2>2 DEF CompleteStrictCatchUpRun
  <2>4. Covers(k, e, r.head, admitted)
    BY Zenon, <1>3, <2>2 DEF Covered, Covers
  <2>5. RunsInv(Terminalized(x, "COMPLETED"), view, floor, admitted)
    BY Zenon, <2>2, TerminalizedInv DEF RunStates
  <2> HIDE DEF k, r, e
  <2>6. /\ checkpoint' \in [Keys -> MaybePositions] /\ base' \in [Keys -> MaybePositions]
        /\ \A j \in Keys : KeyInv(j, checkpoint'[j], base'[j], admitted)
    BY ZenonT(40), <1>4, <2>1, <2>2, <2>3, <2>4, CheckpointMoves
  <2>7. \A y \in runs' : RunsInv(y, view, floor, admitted)
    BY Zenon, <2>3, <2>5 DEF CatchUpInv
  <2> QED BY ZenonT(40), <1>5, <1>6, <2>1, <2>6, <2>7, ScannerMoves
<1> QED BY ZenonT(40), <1>7, <1>8, <1>9, <1>10

(* The window is too old: the failure is recorded. *)
LEMMA RecordWindowFailureKeeps ==
  ASSUME CatchUpInv, NEW s \in Scanners, RecordWindowFailure(s)
  PROVE  CatchUpInv'
<1> DEFINE r == scan[s]
           q == [r EXCEPT !.stage = "fail"]
<1>1. ListInv(r, view, admitted) /\ StageInv(r, view, floor, admitted)
  BY Zenon, ScannerFacts
<1>2. /\ r.stage = "record"
      /\ Goes(s, IF r.run = NoRun THEN Ended(r, "window") ELSE q)
      /\ UNCHANGED <<chainVars, admitted, base, checkpoint>> /\ runs' = runs
  BY Zenon DEF RecordWindowFailure, At, RecordStrictCatchUpFailure
<1>3. \A x \in runs' : RunsInv(x, view, floor, admitted)
  BY Zenon, <1>2 DEF CatchUpInv
<1>4. CASE r.run = NoRun
  <2>1. Goes(s, Ended(r, "window")) /\ "window" \in Results
    BY Zenon, <1>2, <1>4 DEF Results
  <2> QED BY Zenon, <1>2, <1>3, <2>1, ScannerEnds, RunsMove
<1>5. CASE r.run # NoRun
  <2>1. /\ r.todo # <<>> /\ RunInv(r, view, admitted)
        /\ Lost(Expected(r), r.provider, floor)
    BY Zenon, <1>1, <1>2, <1>5 DEF StageInv, Walking
  <2>2. "fail" \in Stages
    BY Zenon DEF Stages
  <2>3. /\ ListInv(q, view, admitted) /\ q.stage = "fail"
        /\ q.todo = r.todo /\ q.run = r.run /\ q.head = r.head /\ q.provider = r.provider
        /\ Key(q) = Key(r) /\ Expected(q) = Expected(r)
    BY <1>1, <2>2, StageOnly
  <2>4. Goes(s, q)
    BY Zenon, <1>2, <1>5
  <2> HIDE DEF q
  <2>5. RunInv(q, view, admitted)
    BY Zenon, <2>1, <2>3 DEF RunInv
  <2>6. ScanInv(q, view, floor, admitted)
    BY Zenon, <1>5, <2>1, <2>3, <2>5 DEF ScanInv, StageInv
  <2> QED BY ZenonT(40), <1>2, <1>3, <2>4, <2>6, RunsMove
<1> QED BY Zenon, <1>4, <1>5

(* The run of a window too old fails. *)
LEMMA FailRunKeeps ==
  ASSUME CatchUpInv, NEW s \in Scanners, FailRun(s)
  PROVE  CatchUpInv'
<1> DEFINE r == scan[s]
           x == r.run
<1>1. ListInv(r, view, admitted) /\ StageInv(r, view, floor, admitted)
  BY Zenon, ScannerFacts
<1>2. /\ r.stage = "fail" /\ Goes(s, Ended(r, "window"))
      /\ runs' = (runs \ {x}) \cup {Terminalized(x, "FAILED")}
      /\ UNCHANGED <<chainVars, admitted, base, checkpoint>>
  BY Zenon DEF FailRun, At, FailStrictCatchUpRun
<1>3. /\ GoodRun(x, view, admitted) /\ x.previous = Expected(r) /\ x.provider = r.provider
      /\ Lost(Expected(r), r.provider, floor)
  BY Zenon, <1>1, <1>2 DEF StageInv, Walking, RunInv
<1>4. RunsInv(Terminalized(x, "FAILED"), view, floor, admitted)
  BY Zenon, <1>3, TerminalizedInv DEF RunStates
<1>5. \A y \in runs' : RunsInv(y, view, floor, admitted)
  BY Zenon, <1>2, <1>4 DEF CatchUpInv
<1>6. ScanInv(Ended(r, "window"), view, floor, admitted)
  BY Zenon, ScannerEnds DEF Results
<1> QED BY ZenonT(40), <1>2, <1>5, <1>6, RunsMove

(* A signal or a crash ends the scan between two calls. *)
LEMMA InterruptKeeps ==
  ASSUME CatchUpInv, NEW s \in Scanners, Interrupt(s)
  PROVE  CatchUpInv'
<1>1. ScanInv(Ended(scan[s], "interrupted"), view, floor, admitted)
  BY Zenon, ScannerEnds DEF Results
<1> QED BY Zenon, <1>1, ScannerTurns DEF Interrupt

(* Retention removes runs that are at rest, and old failures. *)
LEMMA PurgeEvidenceKeeps ==
  ASSUME CatchUpInv, PurgeEvidence
  PROVE  CatchUpInv'
<1>1. /\ \A x \in runs' : x \in runs
      /\ checkpoint' = checkpoint /\ base' = base /\ scan' = scan
      /\ view' = view /\ floor' = floor /\ admitted' = admitted
  BY Zenon DEF PurgeEvidence, PurgeCatchUpEvidence, chainVars
<1> QED BY Zenon, <1>1 DEF CatchUpInv

(* Views and floors rise; nothing else moves. *)
LEMMA ProvidersMove ==
  ASSUME CatchUpInv, UNCHANGED <<storeVars, scan, admitted, base>>,
         Later(view, floor, admitted, view', floor', admitted)
  PROVE  CatchUpInv'
<1>1. /\ checkpoint' = checkpoint /\ runs' = runs /\ base' = base
      /\ scan' = scan /\ admitted' = admitted
  BY Zenon DEF storeVars
<1>2. ASSUME NEW x \in runs' PROVE RunsInv(x, view', floor', admitted)
  <2>1. GoodRun(x, view, admitted) /\ (x.state = "FAILED" => Lost(x.previous, x.provider, floor))
    BY Zenon, <1>1 DEF CatchUpInv, RunsInv
  <2>2. GoodRun(x, view', admitted)
    BY Zenon, <2>1, RunLater
  <2>3. x.previous \in Positions /\ x.provider \in Providers
    BY Zenon, <2>1 DEF GoodRun, RunType
  <2>4. x.state = "FAILED" => Lost(x.previous, x.provider, floor')
    BY Zenon, <2>1, <2>3, LostLater
  <2> QED BY Zenon, <2>2, <2>4 DEF RunsInv
<1>3. ASSUME NEW s \in Scanners PROVE ScanInv(scan[s], view', floor', admitted)
  BY Zenon, ScannerFacts, ScanLater
<1> QED BY Zenon, <1>1, <1>2, <1>3 DEF CatchUpInv, Later

(* A provider sees more of the chain. *)
LEMMA GrowKeeps ==
  ASSUME CatchUpInv, Grow
  PROVE  CatchUpInv'
<1>1. PICK p \in Providers, v \in Slots :
        v > view[p] /\ view' = [view EXCEPT ![p] = v] /\ UNCHANGED <<storeVars, scan, floor, admitted, base>>
  BY Zenon DEF Grow
<1>2. v \in Nat
  BY Zenon, ChainAssumption DEF Slots, Positions
<1>3. World(view, floor, admitted)
  BY Zenon DEF CatchUpInv
<1>4. Later(view, floor, admitted, view', floor', admitted)
  BY <1>1, <1>2, <1>3 DEF World, Later
<1> QED BY Zenon, <1>1, <1>4, ProvidersMove

(* A provider forgets the oldest part of its history. *)
LEMMA ForgetKeeps ==
  ASSUME CatchUpInv, Forget
  PROVE  CatchUpInv'
<1>1. PICK p \in Providers :
        floor' = [floor EXCEPT ![p] = @ + 1] /\ UNCHANGED <<storeVars, scan, view, admitted, base>>
  BY Zenon DEF Forget
<1>2. World(view, floor, admitted)
  BY Zenon DEF CatchUpInv
<1>3. Later(view, floor, admitted, view', floor', admitted)
  BY <1>1, <1>2 DEF World, Later
<1> QED BY Zenon, <1>1, <1>3, ProvidersMove

-----------------------------------------------------------------------------
(* The invariant holds of a store without runs and of idle scanners. *)
LEMMA CatchUpInitially ==
  ASSUME CatchUpInit
  PROVE  CatchUpInv
<1>1. Slots \subseteq Nat /\ Slots # {}
  <2>1. 1 \in Positions
    BY ChainAssumption DEF Positions
  <2>2. SlotOf[1] \in Slots
    BY Zenon, <2>1 DEF Slots
  <2>3. \A i \in Positions : SlotOf[i] \in Nat
    BY Zenon, ChainAssumption DEF Positions
  <2> QED BY Zenon, <2>2, <2>3 DEF Slots
<1>2. Min(Slots) \in Nat
  BY Zenon, <1>1, MinIsLeast
<1>3. World(view, floor, admitted)
  BY Zenon, <1>2 DEF CatchUpInit, World
<1>4. /\ checkpoint \in [Keys -> MaybePositions] /\ base \in [Keys -> MaybePositions]
      /\ \A k \in Keys : KeyInv(k, checkpoint[k], base[k], admitted)
  <2>1. checkpoint = [k \in Keys |-> 0] /\ base = [k \in Keys |-> 0]
    BY Zenon DEF CatchUpInit, StoreInit
  <2>2. 0 \in MaybePositions
    BY ChainAssumption DEF MaybePositions
  <2>3. \A k \in Keys : Covers(k, 0, 0, admitted)
    BY SMTT(30), ScannerAssumption DEF Covers, Positions
  <2> QED BY Zenon, <2>1, <2>2, <2>3 DEF KeyInv
<1>5. \A x \in runs : RunsInv(x, view, floor, admitted)
  BY Zenon DEF CatchUpInit, StoreInit
<1>6. ScanInv(Ended([since |-> 0], "none"), view, floor, admitted)
  BY Zenon, EndedInv DEF Results
<1>7. Ended([since |-> 0], "none") \in ScanType
  BY Zenon, <1>6 DEF ScanInv, ListInv
<1>8. /\ scan \in [Scanners -> ScanType]
      /\ \A s \in Scanners : ScanInv(scan[s], view, floor, admitted)
  BY Zenon, <1>6, <1>7 DEF CatchUpInit
<1> QED BY Zenon, <1>3, <1>4, <1>5, <1>8 DEF CatchUpInv

(* Every step keeps the invariant. *)
LEMMA CatchUpStep ==
  ASSUME CatchUpInv, [CatchUpNext]_catchUpVars
  PROVE  CatchUpInv'
<1>1. CASE UNCHANGED catchUpVars
  BY Zenon, <1>1 DEF catchUpVars, storeVars, CatchUpInv
<1>2. ASSUME NEW s \in Scanners, NEW p \in Providers, NEW policy \in Policies, Start(s, p, policy)
      PROVE  CatchUpInv'
  BY Zenon, <1>2, StartKeeps
<1>3. ASSUME NEW s \in Scanners, SoloStep(s) PROVE CatchUpInv'
  <2>1. CASE ReadCheckpoint(s)      BY Zenon, <2>1, ReadCheckpointKeeps
  <2>2. CASE ReadActiveRun(s)       BY ZenonT(40), <2>2, ReadActiveRunKeeps
  <2>3. CASE ReadHistoricalRun(s)   BY Zenon, <2>3, ReadHistoricalRunKeeps
  <2>4. CASE ReadPage(s)            BY Zenon, <2>4, ReadPageKeeps
  <2>5. CASE AdmitPage(s)           BY Zenon, <2>5, AdmitPageKeeps
  <2>6. CASE PersistProgress(s)     BY Zenon, <2>6, PersistProgressKeeps
  <2>7. CASE Settle(s)              BY Zenon, <2>7, SettleKeeps
  <2>8. CASE RecordWindowFailure(s) BY Zenon, <2>8, RecordWindowFailureKeeps
  <2> QED BY ZenonT(40), <1>3, <2>1, <2>2, <2>3, <2>4, <2>5, <2>6, <2>7, <2>8 DEF SoloStep
<1>4. ASSUME NEW s \in Scanners, ScanStep(s) PROVE CatchUpInv'
  <2>1. CASE SupersedeRun(s)     BY Zenon, <2>1, SupersedeRunKeeps
  <2>2. CASE SupersedeRefused(s) BY Zenon, <2>2, FailsKeeps DEF SupersedeRefused
  <2>3. CASE FailRun(s)          BY Zenon, <2>3, FailRunKeeps
  <2>4. CASE FailRefused(s)      BY Zenon, <2>4, FailsKeeps DEF FailRefused
  <2> QED BY ZenonT(40), <1>3, <1>4, <2>1, <2>2, <2>3, <2>4 DEF ScanStep
<1>5. ASSUME NEW s \in Scanners, AdmitPartly(s) \/ Interrupt(s) PROVE CatchUpInv'
  BY Zenon, <1>5, AdmitPartlyKeeps, InterruptKeeps
<1>6. CASE PurgeEvidence \/ Grow \/ Forget
  BY Zenon, <1>6, PurgeEvidenceKeeps, GrowKeeps, ForgetKeeps
<1> QED BY Zenon, <1>1, <1>2, <1>4, <1>5, <1>6 DEF CatchUpNext

(* The inductive invariant: every step of every scanner, the growth of the *)
(* chain, the forgetting of history and the purge of evidence preserve it. *)
THEOREM CatchUpInvariant == CatchUpSpec => []CatchUpInv
<1>1. CatchUpInit => CatchUpInv
  BY Zenon, CatchUpInitially
<1>2. CatchUpInv /\ [CatchUpNext]_catchUpVars => CatchUpInv'
  BY Zenon, CatchUpStep
<1> QED BY <1>1, <1>2, PTL DEF CatchUpSpec

(* What CheckpointCoversHistory says of storeCheckpoint and completeRun:   *)
(* between the position a key was bootstrapped at and its checkpoint every *)
(* signature of the key has been admitted, whichever scanners raced.       *)
THEOREM CheckpointIsCovered == CatchUpSpec => []CheckpointCoversHistory
<1>1. CatchUpInv => CheckpointCoversHistory
  BY Zenon DEF CatchUpInv, KeyInv, Covers, CheckpointCoversHistory
<1> QED BY <1>1, CatchUpInvariant, PTL

(* What FailedRunProvesLoss says of failRun: a run ends FAILED only when   *)
(* its provider has really forgotten part of the window it had to walk.    *)
THEOREM LossIsProven == CatchUpSpec => []FailedRunProvesLoss
<1>1. CatchUpInv => FailedRunProvesLoss
  BY Zenon DEF CatchUpInv, RunsInv, Lost, FailedRunProvesLoss
<1> QED BY <1>1, CatchUpInvariant, PTL

-----------------------------------------------------------------------------
(* A completed scan bridges the head its provider had when it began.  b    *)
(* stands for base.                                                        *)

Bridged(k, since, a, b) ==
  \A i \in Touches[k] : SlotOf[i] <= since => b[k] # 0 /\ (i <= b[k] \/ i \in a[k])

(* The scan has still to walk the key afresh. *)
Ahead(r, k) == \E i \in 1..Len(r.todo) : r.todo[i].kind = "fresh" /\ r.todo[i].key = k

Fresh(r) == Head(r.todo).kind = "fresh" /\ ~r.resumed /\ ~r.resuming

(* Nothing the provider listed at the start lies above a position. *)
Tops(r, h) == \A i \in Touches[Key(r)] : SlotOf[i] <= r.since => i <= h

BridgeCore(r, v, a, b) ==
  /\ r.since <= v[r.provider]
  /\ \A k \in Keys : r.seen[k] # 0 => b[k] # 0 /\ Covers(k, b[k], r.seen[k], a)

BridgeWalk(r, a, b) ==
  /\ ~r.resuming => \A k \in Keys : Ahead(r, k) \/ Bridged(k, r.since, a, b)
  /\ Fresh(r) /\ r.stage \in Walking /\ r.head # 0 => Tops(r, r.head)
  /\ Fresh(r) /\ r.stage = "settle" /\ r.head = 0 => Tops(r, Expected(r))

BridgeScan(r, v, a, b) ==
  /\ r.stage # "idle" => BridgeCore(r, v, a, b)
  /\ r.stage = "idle" => \A k \in Keys : r.seen[k] = 0
  /\ r.stage \in Walking \cup {"supersede", "history"} => BridgeWalk(r, a, b)
  /\ r.result = "done" => r.stage = "idle" /\ \A k \in Keys : Bridged(k, r.since, a, b)

BridgeInv ==
  /\ \A p \in Providers : floor[p] = 0
  /\ \A k \in Keys : checkpoint[k] = 0 <=> base[k] = 0
  /\ \A s \in Scanners : BridgeScan(scan[s], view, admitted, base)

(* The second invariant goes on to hold, and the operators of the scanner  *)
(* keep it.                                                                *)
LEMMA BridgeLater ==
  ASSUME NEW v, NEW f, NEW a, NEW w, NEW g, NEW c, Later(v, f, a, w, g, c),
         NEW b, NEW d, \A k \in Keys : d[k] = b[k] \/ b[k] = 0,
         NEW r \in ScanType, BridgeScan(r, v, a, b)
  PROVE  BridgeScan(r, w, c, d)
<1>1. \A k \in Keys : \A n : Bridged(k, n, a, b) => Bridged(k, n, c, d)
  BY Zenon DEF Bridged, Later
<1>2. BridgeCore(r, v, a, b) => BridgeCore(r, w, c, d)
  <2> SUFFICES ASSUME BridgeCore(r, v, a, b) PROVE BridgeCore(r, w, c, d)
    BY Zenon
  <2>1. r.since \in Nat /\ r.provider \in Providers
    BY Zenon DEF ScanType
  <2>2. r.since <= w[r.provider]
    BY <2>1 DEF BridgeCore, Later, World
  <2>3. \A k \in Keys : r.seen[k] # 0 => d[k] # 0 /\ Covers(k, d[k], r.seen[k], c)
    BY Zenon DEF BridgeCore, Covers, Later
  <2> QED BY Zenon, <2>2, <2>3 DEF BridgeCore
<1>3. BridgeWalk(r, a, b) => BridgeWalk(r, c, d)
  BY Zenon, <1>1 DEF BridgeWalk
<1> QED BY Zenon, <1>1, <1>2, <1>3 DEF BridgeScan

(* A scan that did not complete claims nothing. *)
LEMMA BridgeEnded ==
  ASSUME NEW v, NEW a, NEW b, NEW r, NEW result, result # "done"
  PROVE  BridgeScan(Ended(r, result), v, a, b)
BY Zenon DEF BridgeScan, Ended, Walking

(* What is left to do for a scan with nothing but its lists. *)
BridgeLists(r, v, a, b) ==
  /\ BridgeCore(r, v, a, b)
  /\ ~r.resuming => \A k \in Keys : Ahead(r, k) \/ Bridged(k, r.since, a, b)
  /\ r.result # "done"

(* What a scan still has to bridge depends on its lists only. *)
LEMMA SameLists ==
  ASSUME NEW v, NEW a, NEW b, NEW r, NEW q, BridgeLists(r, v, a, b),
         q.since = r.since, q.provider = r.provider, q.seen = r.seen, q.todo = r.todo,
         q.resuming = r.resuming, q.result = r.result
  PROVE  /\ BridgeLists(q, v, a, b)
         /\ \A h : Tops(q, h) <=> Tops(r, h)
         /\ Key(q) = Key(r) /\ Expected(q) = Expected(r)
<1>1. Key(q) = Key(r) /\ Expected(q) = Expected(r)
  BY Zenon DEF Key, Expected
<1>2. BridgeCore(q, v, a, b)
  BY Zenon DEF BridgeLists, BridgeCore
<1>3. \A k : Ahead(q, k) <=> Ahead(r, k)
  BY Zenon DEF Ahead
<1> QED BY Zenon, <1>1, <1>2, <1>3 DEF BridgeLists, Tops

(* scanProgram begins. *)
LEMMA BridgeBegun ==
  ASSUME NEW v, NEW a, NEW b, NEW r \in ScanType, NEW x, BridgeLists(r, v, a, b)
  PROVE  BridgeScan(RunBegun(r, x), v, a, b)
<1> DEFINE q == RunBegun(r, x)
           h == IF x = NoRun THEN 0 ELSE x.head
<1>1. q = [r EXCEPT !.stage = "list", !.run = x, !.resumed = (x # NoRun), !.pages = 0, !.head = h]
  BY Zenon DEF RunBegun
<1>2. x = NoRun => h = 0
  BY Zenon
<1> HIDE DEF h
<1>3. /\ q.stage = "list" /\ q.head = h /\ q.resumed = (x # NoRun)
      /\ q.since = r.since /\ q.provider = r.provider /\ q.seen = r.seen /\ q.todo = r.todo
      /\ q.resuming = r.resuming /\ q.result = r.result
  BY <1>1 DEF ScanType
<1> HIDE DEF q
<1>4. BridgeLists(q, v, a, b)
  BY Zenon, <1>3, SameLists
<1>5. Fresh(q) => q.head = 0
  BY Zenon, <1>2, <1>3 DEF Fresh
<1>6. BridgeWalk(q, a, b)
  BY Zenon, <1>3, <1>4, <1>5 DEF BridgeWalk, BridgeLists
<1> QED BY Zenon, <1>3, <1>4, <1>6 DEF BridgeScan, BridgeLists, q

(* The scanner turns to the next item, or completes with every key *)
(* bridged. *)
LEMMA BridgeTurn ==
  ASSUME NEW v, NEW a, NEW b, NEW r, ListInv(r, v, a), BridgeLists(r, v, a, b)
  PROVE  BridgeScan(Turn(r), v, a, b)
<1>1. r \in ScanType
  BY Zenon DEF ListInv
<1>2. CASE r.todo = <<>>
  <2>1. CASE r.resuming
    <3>1. Turn(r) = Ended(r, "refresh")
      BY Zenon, <1>2, <2>1 DEF Turn
    <3> QED BY Zenon, <3>1, BridgeEnded
  <2>2. CASE ~r.resuming
    <3>1. Turn(r) = Ended(r, "done")
      BY Zenon, <1>2, <2>2 DEF Turn
    <3>2. \A k \in Keys : Bridged(k, r.since, a, b)
      BY SMTT(30), <1>2, <2>2 DEF BridgeLists, Ahead
    <3> DEFINE q == Ended(r, "done")
    <3>3. q.stage = "idle" /\ q.since = r.since /\ q.seen = [k \in Keys |-> 0]
      BY Zenon DEF Ended
    <3> HIDE DEF q
    <3>4. BridgeScan(q, v, a, b)
      BY Zenon, <3>2, <3>3 DEF BridgeScan, Walking
    <3> QED BY Zenon, <3>1, <3>4 DEF q
  <2> QED BY Zenon, <2>1, <2>2
<1>3. CASE r.todo # <<>>
  <2> DEFINE item == Head(r.todo)
  <2>1. ASSUME NEW st \in {"supersede", "history"}
        PROVE  BridgeScan([r EXCEPT !.stage = st], v, a, b)
    <3> DEFINE q == [r EXCEPT !.stage = st]
    <3>1. /\ q.stage = st
          /\ q.since = r.since /\ q.provider = r.provider /\ q.seen = r.seen /\ q.todo = r.todo
          /\ q.resuming = r.resuming /\ q.result = r.result
      BY Zenon, <1>1 DEF ScanType
    <3> HIDE DEF q
    <3>2. BridgeLists(q, v, a, b)
      BY Zenon, <3>1, SameLists
    <3>3. BridgeScan(q, v, a, b)
      BY Zenon, <3>1, <3>2 DEF BridgeScan, BridgeLists, BridgeWalk, Walking
    <3> QED BY Zenon, <3>3 DEF q
  <2>2. \/ Turn(r) = [r EXCEPT !.stage = "supersede"]
        \/ Turn(r) = [r EXCEPT !.stage = "history"]
        \/ Turn(r) = RunBegun(r, item.run)
        \/ Turn(r) = RunBegun(r, NoRun)
    BY Zenon, <1>3 DEF Turn
  <2> QED BY ZenonT(40), <1>1, <2>1, <2>2, BridgeBegun
<1> QED BY Zenon, <1>2, <1>3

(* A key walked afresh is bridged and leaves the list. *)
LEMMA BridgeFinished ==
  ASSUME NEW v, NEW a, NEW b, NEW r, ListInv(r, v, a), r.todo # <<>>,
         BridgeLists(r, v, a, b), Fresh(r) => Bridged(Key(r), r.since, a, b)
  PROVE  BridgeScan(Finished(r), v, a, b)
<1>1. r \in ScanType
  BY Zenon DEF ListInv
<1>2. CASE Head(r.todo).kind = "fresh" /\ r.resumed
  <2>1. Finished(r) = Ended(r, "refresh")
    BY Zenon, <1>2 DEF Finished
  <2> QED BY Zenon, <2>1, BridgeEnded
<1>3. CASE ~(Head(r.todo).kind = "fresh" /\ r.resumed)
  <2> DEFINE q == [r EXCEPT !.todo = Tail(r.todo), !.run = NoRun, !.head = 0, !.resumed = FALSE,
                            !.pages = 0, !.rows = {}, !.found = FALSE, !.last = FALSE]
  <2>1. Finished(r) = Turn(q)
    BY Zenon, <1>1, <1>3 DEF Finished, ScanType
  <2>2. r.todo \in Seq(Item)
    BY Zenon, <1>1 DEF ScanType
  <2>3. /\ Tail(r.todo) \in Seq(Item) /\ Len(r.todo) \in Nat /\ Len(Tail(r.todo)) = Len(r.todo) - 1
        /\ \A i \in 1..Len(Tail(r.todo)) : i + 1 \in 1..Len(r.todo) /\ Tail(r.todo)[i] = r.todo[i + 1]
        /\ Head(r.todo) = r.todo[1]
    BY <2>2
  <2>4. /\ q \in ScanType
        /\ q.todo = Tail(r.todo) /\ q.stale = r.stale /\ q.seen = r.seen /\ q.provider = r.provider
        /\ q.since = r.since /\ q.resuming = r.resuming /\ q.result = r.result
    <3>1. 0 \in Nat /\ 0 \in MaybePositions /\ FALSE \in BOOLEAN
      BY ChainAssumption DEF MaybePositions
    <3>2. q \in ScanType
      BY ZenonT(40), <1>1, <2>3, <3>1 DEF ScanType
    <3> QED BY ZenonT(40), <1>1, <3>2 DEF ScanType
  <2> HIDE DEF q
  <2>5. ListInv(q, v, a)
    <3>1. \A i \in 1..Len(q.todo) : ItemInv(q.todo[i], r, v, a)
      BY Zenon, <2>3, <2>4 DEF ListInv
    <3> QED BY ZenonT(40), <2>4, <3>1, SameItem DEF ListInv, SeenInv
  <2>6. ASSUME ~r.resuming, NEW k \in Keys PROVE Ahead(q, k) \/ Bridged(k, r.since, a, b)
    <3>1. SUFFICES ASSUME Ahead(r, k) PROVE Ahead(q, k) \/ Bridged(k, r.since, a, b)
      BY Zenon, <2>6 DEF BridgeLists
    <3>2. PICK i \in 1..Len(r.todo) : r.todo[i].kind = "fresh" /\ r.todo[i].key = k
      BY Zenon, <3>1 DEF Ahead
    <3>3. CASE i = 1
      BY ZenonT(40), <1>3, <2>3, <2>6, <3>2, <3>3 DEF Fresh, Key
    <3>4. CASE i # 1
      <4>1. i - 1 \in 1..Len(q.todo) /\ q.todo[i - 1] = r.todo[i]
        BY SMTT(30), <2>3, <2>4, <3>4
      <4> QED BY ZenonT(40), <3>2, <4>1 DEF Ahead
    <3> QED BY Zenon, <3>3, <3>4
  <2>7. BridgeLists(q, v, a, b)
    BY Zenon, <2>4, <2>6 DEF BridgeLists, BridgeCore
  <2> QED BY Zenon, <2>1, <2>5, <2>7, BridgeTurn
<1> QED BY Zenon, <1>2, <1>3

(* What a page leaves known about the head. *)
BridgePage(r, v, a, b) ==
  /\ BridgeLists(r, v, a, b)
  /\ Fresh(r) /\ r.head # 0 => Tops(r, r.head)
  /\ Fresh(r) /\ r.head = 0 /\ (Expected(r) = 0 \/ r.found) => Tops(r, Expected(r))

(* A page without rows to admit. *)
LEMMA BridgePaged ==
  ASSUME NEW v, NEW a, NEW b, NEW r \in ScanType, BridgePage(r, v, a, b)
  PROVE  BridgeScan(Paged(r), v, a, b)
<1>1. ASSUME NEW q, q.stage \in Walking, q.stage = "settle" => Expected(r) = 0 \/ r.found,
             q.head = r.head, q.resumed = r.resumed,
             q.since = r.since, q.provider = r.provider, q.seen = r.seen, q.todo = r.todo,
             q.resuming = r.resuming, q.result = r.result
      PROVE  BridgeScan(q, v, a, b)
  <2>1. /\ BridgeLists(q, v, a, b) /\ \A h : Tops(q, h) <=> Tops(r, h)
        /\ Expected(q) = Expected(r)
    BY <1>1, SameLists DEF BridgePage
  <2>2. Fresh(q) <=> Fresh(r)
    BY Zenon, <1>1 DEF Fresh
  <2>3. BridgeWalk(q, a, b)
    BY ZenonT(40), <1>1, <2>1, <2>2 DEF BridgeWalk, BridgePage, BridgeLists
  <2> QED BY ZenonT(40), <1>1, <2>1, <2>3 DEF BridgeScan, BridgeLists, Walking
<1>2. CASE Expected(r) = 0 \/ r.found
  <2> DEFINE q == [r EXCEPT !.stage = "settle"]
  <2>1. Paged(r) = q
    BY Zenon, <1>2 DEF Paged
  <2>2. /\ q.stage = "settle" /\ q.head = r.head /\ q.resumed = r.resumed
        /\ q.since = r.since /\ q.provider = r.provider /\ q.seen = r.seen /\ q.todo = r.todo
        /\ q.resuming = r.resuming /\ q.result = r.result
    BY Zenon DEF ScanType
  <2> HIDE DEF q
  <2> QED BY SMTT(30), <1>1, <1>2, <2>1, <2>2 DEF Walking
<1>3. CASE ~(Expected(r) = 0 \/ r.found) /\ r.last
  <2> DEFINE q == [r EXCEPT !.stage = "record"]
  <2>1. Paged(r) = q
    BY Zenon, <1>3 DEF Paged
  <2>2. /\ q.stage = "record" /\ q.head = r.head /\ q.resumed = r.resumed
        /\ q.since = r.since /\ q.provider = r.provider /\ q.seen = r.seen /\ q.todo = r.todo
        /\ q.resuming = r.resuming /\ q.result = r.result
    BY Zenon DEF ScanType
  <2> HIDE DEF q
  <2> QED BY SMTT(30), <1>1, <2>1, <2>2 DEF Walking
<1>4. CASE ~(Expected(r) = 0 \/ r.found) /\ ~r.last /\ r.pages = MaxPages
  <2>1. Paged(r) = Ended(r, "paused")
    BY ZenonT(40), <1>4 DEF Paged
  <2> QED BY Zenon, <2>1, BridgeEnded
<1>5. CASE ~(Expected(r) = 0 \/ r.found) /\ ~r.last /\ r.pages # MaxPages
  <2> DEFINE q == [r EXCEPT !.stage = "list", !.rows = {}]
  <2>1. Paged(r) = q
    BY Zenon, <1>5 DEF Paged
  <2>2. /\ q.stage = "list" /\ q.head = r.head /\ q.resumed = r.resumed
        /\ q.since = r.since /\ q.provider = r.provider /\ q.seen = r.seen /\ q.todo = r.todo
        /\ q.resuming = r.resuming /\ q.result = r.result
    BY Zenon DEF ScanType
  <2> HIDE DEF q
  <2> QED BY SMTT(30), <1>1, <2>1, <2>2 DEF Walking
<1> QED BY ZenonT(40), <1>2, <1>3, <1>4, <1>5

(* A page whose rows are admitted. *)
LEMMA BridgeAdmitted ==
  ASSUME NEW v, NEW a, NEW b, NEW r \in ScanType, BridgePage(r, v, a, b)
  PROVE  BridgeScan(Admitted(r), v, a, b)
<1>1. CASE Admitted(r) = Paged(r)
  BY Zenon, <1>1, BridgePaged
<1>2. CASE Admitted(r) # Paged(r)
  <2> DEFINE q == [r EXCEPT !.stage = "persist"]
  <2>1. Admitted(r) = q
    BY Zenon, <1>2 DEF Admitted
  <2>2. /\ q.stage = "persist" /\ q.head = r.head /\ q.resumed = r.resumed
        /\ q.since = r.since /\ q.provider = r.provider /\ q.seen = r.seen /\ q.todo = r.todo
        /\ q.resuming = r.resuming /\ q.result = r.result
    BY Zenon DEF ScanType
  <2> HIDE DEF q
  <2>3. /\ BridgeLists(q, v, a, b) /\ \A h : Tops(q, h) <=> Tops(r, h)
    BY Zenon, <2>2, SameLists DEF BridgePage
  <2>4. BridgeWalk(q, a, b)
    BY ZenonT(40), <2>2, <2>3 DEF BridgeWalk, BridgePage, BridgeLists, Fresh
  <2> QED BY ZenonT(40), <2>1, <2>2, <2>3, <2>4 DEF BridgeScan, BridgeLists
<1> QED BY Zenon, <1>1, <1>2

(* A provider that lists something returns a page with something. *)
LEMMA PageNotEmpty ==
  ASSUME NEW p, NEW k \in Keys, NEW before \in MaybePositions, Below(p, k, before) # {}
  PROVE  List(p, k, before) # {}
<1> DEFINE B == Below(p, k, before)
           m == Max(B)
<1>1. B \subseteq Positions
  BY Zenon, ScannerAssumption DEF Below, Listed
<1>2. m \in B /\ \A y \in B : y <= m
  BY ZenonT(40), <1>1, MaxIsGreatest
<1> HIDE DEF m
<1>3. {j \in B : m < j} = {}
  BY SMTT(30), <1>1, <1>2 DEF Positions
<1>4. Cardinality({j \in B : m < j}) < PageSize
  <2>1. Cardinality({j \in B : m < j}) = 0
    BY ZenonT(40), <1>3, FS_EmptySet
  <2> QED BY ONLY <2>1, ScannerAssumption
<1>5. List(p, k, before) = {i \in B : Cardinality({j \in B : i < j}) < PageSize}
  BY Zenon DEF List, Below
<1> QED BY ZenonT(40), <1>2, <1>4, <1>5

(* The first page of a fresh walk starts at the newest signature the       *)
(* provider lists.                                                         *)
LEMMA FirstPageTops ==
  ASSUME NEW r, NEW page, PageContext(r, page), r.head = 0,
         floor[r.provider] = 0, r.since <= view[r.provider]
  PROVE  /\ Taken(r, page) # {} => Tops(r, Max(Taken(r, page)))
         /\ Taken(r, page) = {} /\ (Expected(r) = 0 \/ Expected(r) \in page) => Tops(r, Expected(r))
<1> DEFINE e == Expected(r)
           B == Below(r.provider, Key(r), Before(r))
<1>1. /\ r \in ScanType /\ Key(r) \in Keys /\ Touches[Key(r)] \subseteq Positions
      /\ Before(r) \in MaybePositions /\ view[r.provider] \in Nat
      /\ RunInv(r, view, admitted) /\ e \in MaybePositions
      /\ e # 0 => e \in Positions
  BY ZenonT(40), ContextFacts
<1>2. r.run = NoRun
  BY <1>1, ChainAssumption DEF RunInv, GoodRun, RunType, Positions
<1>3. r.since \in Nat
  BY Zenon, <1>1 DEF ScanType
<1>4. ASSUME NEW i \in Touches[Key(r)], SlotOf[i] <= r.since PROVE i \in B
  <2>1. SlotOf[i] \in Nat
    BY ZenonT(40), <1>1, SlotsRise
  <2>2. floor[r.provider] <= SlotOf[i] /\ SlotOf[i] <= view[r.provider]
    BY SMTT(30), <1>1, <1>3, <1>4, <2>1
  <2> QED BY ZenonT(40), <1>2, <2>2, WalkFacts
<1>5. /\ page \subseteq B /\ page \subseteq Positions
      /\ \A i \in page, j \in B : i <= j => j \in page
      /\ page = List(r.provider, Key(r), Before(r))
      /\ Stops(r, page) \subseteq page
  BY <1>1, WalkFacts DEF PageContext, Stops
<1> HIDE DEF B
<1>6. ASSUME Taken(r, page) # {} PROVE Tops(r, Max(Taken(r, page)))
  <2> DEFINE h == Max(Taken(r, page))
  <2>1. Taken(r, page) \subseteq page
    BY Zenon DEF Taken
  <2>2. h \in Taken(r, page) /\ \A y \in Taken(r, page) : y <= h
    BY ZenonT(40), <1>5, <1>6, <2>1, MaxIsGreatest
  <2> HIDE DEF h
  <2>3. ASSUME NEW i \in Touches[Key(r)], SlotOf[i] <= r.since PROVE i <= h
    <3>1. SUFFICES ASSUME h < i PROVE FALSE
      BY SMTT(30), <1>1, <1>5, <2>1, <2>2 DEF Positions
    <3>2. i \in page /\ i \in Positions /\ h \in Positions
      BY SMTT(30), <1>1, <1>4, <1>5, <2>1, <2>2, <2>3, <3>1 DEF Positions
    <3>3. \A j \in Stops(r, page) : j < h
      BY ZenonT(40), <2>2 DEF Taken
    <3>4. \A j \in Stops(r, page) : j < i
      BY SMTT(30), <1>5, <3>1, <3>2, <3>3 DEF Positions
    <3>5. i \in Taken(r, page)
      BY ZenonT(40), <3>2, <3>4 DEF Taken
    <3> QED BY SMTT(30), <2>2, <3>1, <3>2, <3>5 DEF Positions
  <2> QED BY Zenon, <2>3 DEF Tops, h
<1>7. ASSUME Taken(r, page) = {}, e = 0 PROVE Tops(r, e)
  <2>1. page = {}
    BY ZenonT(40), <1>7 DEF Taken, Stops
  <2>2. B = {}
    BY ZenonT(40), <1>1, <1>5, <2>1, PageNotEmpty DEF B
  <2> QED BY ZenonT(40), <1>4, <2>2 DEF Tops
<1>8. ASSUME Taken(r, page) = {}, e # 0, e \in page PROVE Tops(r, e)
  <2> SUFFICES ASSUME NEW i \in Touches[Key(r)], SlotOf[i] <= r.since PROVE i <= e
    BY ZenonT(40) DEF Tops
  <2>1. SUFFICES ASSUME e < i PROVE FALSE
    BY SMTT(30), <1>1, <1>8 DEF Positions
  <2>2. i \in page /\ i \in Positions /\ e \in Positions
    BY SMTT(30), <1>1, <1>4, <1>5, <1>8, <2>1 DEF Positions
  <2>3. ASSUME NEW j \in Stops(r, page) PROVE j < i
    <3>1. j \in Positions /\ (j = e \/ SlotOf[j] < SlotOf[e])
      BY Zenon, <1>5 DEF Stops
    <3>2. j = e \/ j < e
      BY ZenonT(40), <2>2, <3>1, SlotsRise
    <3> QED BY SMTT(30), <2>1, <2>2, <3>1, <3>2 DEF Positions
  <2> QED BY ZenonT(40), <1>8, <2>2, <2>3 DEF Taken
<1> QED BY ZenonT(40), <1>6, <1>7, <1>8

(* The page read keeps the second invariant. *)
LEMMA BridgeWithPage ==
  ASSUME NEW r, NEW page, PageContext(r, page), floor[r.provider] = 0,
         BridgeLists(r, view, admitted, base), Fresh(r) /\ r.head # 0 => Tops(r, r.head)
  PROVE  BridgeScan(WithPage(r, page), view, admitted, base)
<1> DEFINE rows == Taken(r, page)
           h == HeadRead(r, page)
           found == (Expected(r) # 0 /\ Expected(r) \in page)
           last == (Stops(r, page) # {} \/ Cardinality(page) < PageSize)
           q == [r EXCEPT !.pages = r.pages + 1, !.rows = rows, !.found = found, !.last = last, !.head = h]
<1>1. r \in ScanType /\ Touches[Key(r)] \subseteq Positions
  BY ZenonT(40), ContextFacts
<1>2. WithPage(r, page) = IF rows = {} \/ LiveEdgeBootstrap(r) THEN Admitted(q)
                          ELSE [q EXCEPT !.stage = "admit"]
  BY ZenonT(40), <1>1 DEF WithPage, Taken, Stops, HeadRead, ScanType
<1>3. rows \subseteq Positions
  BY ZenonT(40), <1>1, WalkFacts DEF Taken
<1>4. /\ rows # {} /\ r.head = 0 => h = Max(rows)
      /\ rows # {} /\ r.head = 0 => h \in rows
      /\ rows = {} \/ r.head # 0 => h = r.head
  BY ZenonT(40), <1>3, MaxIsGreatest DEF HeadRead
<1>5. r.since <= view[r.provider]
  BY Zenon DEF BridgeLists, BridgeCore
<1>6. /\ r.head = 0 /\ rows # {} => Tops(r, h)
      /\ r.head = 0 /\ rows = {} /\ (Expected(r) = 0 \/ found) => Tops(r, Expected(r))
  BY ZenonT(40), <1>4, <1>5, FirstPageTops
<1> HIDE DEF rows, h
<1>7. found \in BOOLEAN /\ last \in BOOLEAN /\ h \in MaybePositions
  <2>1. r.head \in MaybePositions
    BY ZenonT(40), <1>1 DEF ScanType
  <2>2. Positions \subseteq MaybePositions
    BY ChainAssumption DEF MaybePositions, Positions
  <2>3. h \in MaybePositions
    BY ZenonT(40), <1>3, <1>4, <2>1, <2>2
  <2> QED BY Zenon, <2>3
<1> HIDE DEF found, last
<1>8. /\ q \in ScanType
      /\ q.found = found /\ q.head = h /\ q.resumed = r.resumed /\ q.stage = r.stage
      /\ q.since = r.since /\ q.provider = r.provider /\ q.seen = r.seen /\ q.todo = r.todo
      /\ q.resuming = r.resuming /\ q.result = r.result
  <2>1. r.pages + 1 \in Nat
    BY Zenon, <1>1, NextNat DEF ScanType
  <2>2. q \in ScanType
    BY ZenonT(40), <1>1, <1>3, <1>7, <2>1 DEF ScanType
  <2> QED BY ZenonT(40), <1>1, <2>2 DEF ScanType
<1> HIDE DEF q
<1>9. /\ BridgeLists(q, view, admitted, base) /\ \A t : Tops(q, t) <=> Tops(r, t)
      /\ Expected(q) = Expected(r)
  BY <1>8, SameLists
<1>10. Fresh(q) <=> Fresh(r)
  BY ZenonT(40), <1>8 DEF Fresh
<1>11. rows # {} => h # 0
  BY <1>3, <1>4 DEF Positions
<1>12. BridgePage(q, view, admitted, base)
  <2>1. Fresh(q) /\ q.head # 0 => Tops(q, q.head)
    BY ZenonT(40), <1>4, <1>6, <1>8, <1>9, <1>10
  <2>2. Fresh(q) /\ q.head = 0 /\ (Expected(q) = 0 \/ q.found) => Tops(q, Expected(q))
    BY ZenonT(40), <1>4, <1>6, <1>8, <1>9, <1>10, <1>11
  <2> QED BY ZenonT(40), <1>9, <2>1, <2>2 DEF BridgePage
<1>13. CASE rows = {} \/ LiveEdgeBootstrap(r)
  BY ZenonT(40), <1>2, <1>8, <1>12, <1>13, BridgeAdmitted
<1>14. CASE ~(rows = {} \/ LiveEdgeBootstrap(r))
  <2> DEFINE z == [q EXCEPT !.stage = "admit"]
  <2>1. WithPage(r, page) = z
    BY ZenonT(40), <1>2, <1>14
  <2>2. /\ z.stage = "admit" /\ z.head = q.head /\ z.resumed = q.resumed
        /\ z.since = q.since /\ z.provider = q.provider /\ z.seen = q.seen /\ z.todo = q.todo
        /\ z.resuming = q.resuming /\ z.result = q.result
    BY ZenonT(40), <1>8 DEF ScanType
  <2> HIDE DEF z
  <2>3. BridgeLists(z, view, admitted, base) /\ \A t : Tops(z, t) <=> Tops(q, t)
    BY ZenonT(40), <1>9, <2>2, SameLists
  <2>4. BridgeWalk(z, admitted, base)
    BY ZenonT(40), <1>12, <2>2, <2>3 DEF BridgeWalk, BridgePage, BridgeLists, Fresh
  <2> QED BY ZenonT(40), <2>1, <2>2, <2>3, <2>4 DEF BridgeScan, BridgeLists
<1> QED BY ZenonT(40), <1>13, <1>14

(* The steps again, for the second invariant.                              *)
LEMMA BridgeMoves ==
  ASSUME CatchUpInv, BridgeInv, NEW s \in Scanners, NEW q, Goes(s, q),
         UNCHANGED chainVars, admitted' \in [Keys -> SUBSET Positions],
         \A k \in Keys : admitted[k] \subseteq admitted'[k],
         \A k \in Keys : base'[k] = base[k] \/ base[k] = 0,
         \A k \in Keys : checkpoint'[k] = 0 <=> base'[k] = 0,
         BridgeScan(q, view, admitted', base')
  PROVE  BridgeInv'
<1>1. view' = view /\ floor' = floor
  BY ZenonT(40) DEF chainVars
<1>2. Later(view, floor, admitted, view, floor, admitted')
  BY DEF CatchUpInv, World, Later
<1>3. ASSUME NEW t \in Scanners PROVE BridgeScan(scan'[t], view, admitted', base')
  <2>1. CASE t = s
    BY ZenonT(40), <2>1 DEF CatchUpInv, Goes
  <2>2. CASE t # s
    <3>1. scan'[t] = scan[t] /\ BridgeScan(scan[t], view, admitted, base) /\ scan[t] \in ScanType
      BY ZenonT(40), <2>2 DEF CatchUpInv, BridgeInv, Goes
    <3>2. BridgeScan(scan[t], view, admitted', base')
      BY ZenonT(40), <1>2, <3>1, BridgeLater
    <3> QED BY ZenonT(40), <3>1, <3>2
  <2> QED BY ZenonT(40), <2>1, <2>2
<1> QED BY ZenonT(40), <1>1, <1>3 DEF BridgeInv

(* A step that neither admits nor moves a checkpoint. *)
LEMMA BridgeTurns ==
  ASSUME CatchUpInv, BridgeInv, NEW s \in Scanners, NEW q, Goes(s, q),
         UNCHANGED <<chainVars, admitted, base, checkpoint>>,
         BridgeScan(q, view, admitted, base)
  PROVE  BridgeInv'
<1>1. /\ admitted' \in [Keys -> SUBSET Positions]
      /\ \A k \in Keys : admitted[k] \subseteq admitted'[k]
      /\ \A k \in Keys : base'[k] = base[k] \/ base[k] = 0
      /\ \A k \in Keys : checkpoint'[k] = 0 <=> base'[k] = 0
      /\ UNCHANGED chainVars
  BY Zenon DEF CatchUpInv, BridgeInv, World
<1>2. BridgeScan(q, view, admitted', base')
  BY ZenonT(40)
<1> QED BY ZenonT(40), <1>1, <1>2, BridgeMoves

(* A scan that ends without completing. *)
LEMMA BridgeEnds ==
  ASSUME CatchUpInv, BridgeInv, NEW s \in Scanners, NEW result, result # "done",
         Goes(s, Ended(scan[s], result)), UNCHANGED <<chainVars, admitted, base, checkpoint>>
  PROVE  BridgeInv'
BY ZenonT(40), BridgeEnded, BridgeTurns

(* A repository call that throws. *)
LEMMA BridgeFails ==
  ASSUME CatchUpInv, BridgeInv, NEW s \in Scanners, Fails(s), UNCHANGED <<chainVars, admitted>>
  PROVE  BridgeInv'
<1>1. Goes(s, Ended(scan[s], "failed")) /\ UNCHANGED <<chainVars, admitted, base, checkpoint>>
  BY Zenon DEF Fails, storeVars
<1> QED BY ZenonT(40), <1>1, BridgeEnds

(* The second invariant, for one scanner. *)
LEMMA BridgeFacts ==
  ASSUME CatchUpInv, BridgeInv, NEW s \in Scanners
  PROVE  /\ BridgeScan(scan[s], view, admitted, base)
         /\ scan[s].stage # "idle" => /\ BridgeCore(scan[s], view, admitted, base)
                                      /\ scan[s].result # "done"
         /\ scan[s].stage \in Walking \cup {"supersede", "history"} =>
              /\ BridgeLists(scan[s], view, admitted, base)
              /\ BridgeWalk(scan[s], admitted, base)
         /\ scan[s].provider \in Providers
         /\ floor[scan[s].provider] = 0
<1>1. BridgeScan(scan[s], view, admitted, base) /\ scan[s] \in ScanType
  BY ZenonT(40) DEF CatchUpInv, BridgeInv
<1>2. scan[s].provider \in Providers
  BY ZenonT(40), <1>1 DEF ScanType
<1> QED BY ZenonT(40), <1>1, <1>2 DEF BridgeScan, BridgeLists, BridgeWalk, BridgeInv, Walking

(* scan begins and notes what its provider lists. *)
LEMMA BridgeStart ==
  ASSUME CatchUpInv, BridgeInv, NEW s \in Scanners, NEW p \in Providers, NEW policy \in Policies,
         Start(s, p, policy)
  PROVE  BridgeInv'
<1> DEFINE r == scan[s]
           q == [r EXCEPT !.stage = "checkpoints", !.provider = p, !.policy = policy,
                          !.since = view[p], !.result = "none"]
<1>1. /\ Goes(s, q) /\ r.stage = "idle"
      /\ UNCHANGED <<chainVars, admitted, base, checkpoint>>
  BY Zenon DEF Start, At, storeVars
<1>2. r \in ScanType /\ view[p] \in Nat
  BY ZenonT(40), ScannerFacts DEF CatchUpInv, World
<1>3. \A k \in Keys : r.seen[k] = 0
  BY ZenonT(40), <1>1, BridgeFacts DEF BridgeScan
<1>4. /\ q.stage = "checkpoints" /\ q.provider = p /\ q.since = view[p] /\ q.result = "none"
      /\ q.seen = r.seen
  BY ZenonT(40), <1>2 DEF ScanType
<1> HIDE DEF q
<1>5. BridgeScan(q, view, admitted, base)
  <2>1. view[p] <= view[p]
    BY ONLY <1>2
  <2>2. BridgeCore(q, view, admitted, base)
    BY ZenonT(40), <1>3, <1>4, <2>1 DEF BridgeCore
  <2> QED BY ZenonT(40), <1>3, <1>4, <2>2 DEF BridgeScan, Walking
<1> QED BY ZenonT(40), <1>1, <1>5, BridgeTurns

(* The checkpoint read is covered by what is admitted. *)
LEMMA BridgeReadCheckpoint ==
  ASSUME CatchUpInv, BridgeInv, NEW s \in Scanners, ReadCheckpoint(s)
  PROVE  BridgeInv'
<1> DEFINE r == scan[s]
           k == Programs[r.n]
           read == [r EXCEPT !.seen[k] = checkpoint[k], !.n = r.n + 1]
           q == IF r.n < Len(Programs) THEN read ELSE [read EXCEPT !.stage = "runs", !.n = 1]
<1>1. r \in ScanType /\ StageInv(r, view, floor, admitted)
  BY ZenonT(40), ScannerFacts
<1>2. /\ Goes(s, q) /\ r.stage = "checkpoints"
      /\ UNCHANGED <<chainVars, admitted, base, checkpoint>>
  BY ZenonT(40), <1>1 DEF ReadCheckpoint, At, ScanType, storeVars
<1>3. k \in Keys
  BY ZenonT(40), <1>1, <1>2, ScannerAssumption DEF StageInv
<1>4. r.seen \in [Keys -> MaybePositions]
  BY ZenonT(40), <1>1 DEF ScanType
<1>5. /\ q.stage \in {"checkpoints", "runs"} /\ q.provider = r.provider /\ q.since = r.since
      /\ q.result = r.result /\ q.seen = [r.seen EXCEPT ![k] = checkpoint[k]]
  BY ZenonT(40), <1>1, <1>2 DEF ScanType
<1> HIDE DEF q
<1>6. BridgeCore(r, view, admitted, base) /\ r.result # "done"
  BY ZenonT(40), <1>2, BridgeFacts
<1>7. checkpoint[k] # 0 => base[k] # 0 /\ Covers(k, base[k], checkpoint[k], admitted)
  BY Zenon, <1>3 DEF CatchUpInv, BridgeInv, KeyInv
<1>8. BridgeCore(q, view, admitted, base)
  BY ZenonT(40), <1>3, <1>4, <1>5, <1>6, <1>7 DEF BridgeCore
<1>9. BridgeScan(q, view, admitted, base)
  BY ZenonT(40), <1>5, <1>6, <1>8 DEF BridgeScan, Walking
<1> QED BY ZenonT(40), <1>2, <1>9, BridgeTurns

(* Every program not resumed is queued to be walked afresh. *)
LEMMA BridgeReadActiveRun ==
  ASSUME CatchUpInv, BridgeInv, NEW s \in Scanners, ReadActiveRun(s)
  PROVE  BridgeInv'
<1> DEFINE r == scan[s]
           k == Programs[r.n]
           x == ReadActiveStrictCatchUpRun(k)
           added == AddRun(r, k, x)
           read == [added EXCEPT !.n = added.n + 1]
           fresh == IF read.resuming THEN <<>> ELSE FreshItems
           all == read.todo \o read.stale \o fresh
           ready == [read EXCEPT !.n = 1, !.todo = all, !.stale = <<>>]
<1>1. r \in ScanType /\ ListInv(r, view, admitted) /\ StageInv(r, view, floor, admitted)
  BY ZenonT(40), ScannerFacts
<1>2. r.stage = "runs" /\ UNCHANGED <<chainVars, admitted, base, checkpoint>>
  BY ZenonT(40) DEF ReadActiveRun, At, storeVars
<1>3. r.n \in 1..Len(Programs) /\ Len(Programs) \in Nat /\ k \in Keys /\ r.n \in Nat
  <2>1. r.n \in 1..Len(Programs)
    BY ZenonT(40), <1>1, <1>2 DEF StageInv
  <2>2. Programs \in Seq(Keys)
    BY Zenon, ScannerAssumption
  <2> QED BY ONLY SMTT(30), <2>1, <2>2
<1>4. x # NoRun => GoodRun(x, view, admitted) /\ x.key = k
  BY ZenonT(40), <1>3, ActiveRunRead
<1>5. CASE x # NoRun /\ x.previous = r.seen[k] /\ x.provider # r.provider
  <2>1. Goes(s, Ended(r, "affinity"))
    BY ZenonT(40), <1>5 DEF ReadActiveRun
  <2> QED BY ZenonT(40), <1>2, <2>1, BridgeEnds
<1>6. CASE ~(x # NoRun /\ x.previous = r.seen[k] /\ x.provider # r.provider)
  <2>1. ListInv(added, view, admitted) /\ added.stage = "runs" /\ added.n = r.n
    <3>1. x # NoRun /\ x.previous = r.seen[k] => x.provider = r.provider
      BY ZenonT(40), <1>6
    <3>2. ListInv(r, view, admitted) /\ k \in Keys
      BY ZenonT(40), <1>1, <1>3
    <3> HIDE DEF x, k
    <3>3. Addable(r, k, x, view, admitted)
      BY ZenonT(40), <1>4, <3>1, <3>2 DEF Addable
    <3>4. ListInv(added, view, admitted) /\ added.stage = r.stage /\ added.n = r.n
      <4>1. Extends(AddRun(r, k, x), r, view, admitted)
        BY ZenonT(40), <3>2, <3>3, AddRunInv
      <4> QED BY Zenon, <4>1 DEF Extends
    <3> QED BY ZenonT(40), <1>2, <3>4
  <2>2. added \in ScanType
    BY Zenon, <2>1 DEF ListInv
  <2>3. Goes(s, IF r.n < Len(Programs) THEN read ELSE Turn(ready))
    <3>1. [AddRun(r, k, x) EXCEPT !.n = @ + 1] = read
      BY Zenon, <2>2 DEF ScanType
    <3>2. added.n + 1 \in Nat
      BY ZenonT(40), <1>3, <2>1, NextNat
    <3>3. read \in ScanType
      BY ZenonT(40), <2>2, <3>2 DEF ScanType
    <3>4. [read EXCEPT !.n = 1, !.todo = @ \o read.stale \o fresh, !.stale = <<>>] = ready
      BY ZenonT(40), <3>3 DEF ScanType
    <3> QED BY ZenonT(40), <1>6, <3>1, <3>4 DEF ReadActiveRun
  <2>4. /\ added.since = r.since /\ added.seen = r.seen /\ added.provider = r.provider
        /\ added.result = r.result
    BY ZenonT(40), <1>1 DEF AddRun, ScanType
  <2> HIDE DEF added, x
  <2>5. /\ read \in ScanType /\ read.n = r.n + 1 /\ read.stage = "runs"
        /\ read.todo = added.todo /\ read.stale = added.stale /\ read.seen = r.seen
        /\ read.provider = r.provider /\ read.since = r.since /\ read.result = r.result
    <3>1. added.n + 1 \in Nat /\ added.n + 1 = r.n + 1
      BY ZenonT(40), <1>3, <2>1, NextNat
    <3>2. read \in ScanType
      BY ZenonT(40), <2>2, <3>1 DEF ScanType
    <3> QED BY ZenonT(40), <2>1, <2>2, <2>4, <3>1, <3>2 DEF ScanType
  <2> HIDE DEF read
  <2>6. BridgeCore(read, view, admitted, base) /\ read.result # "done"
    BY ZenonT(40), <1>2, <2>5, BridgeFacts DEF BridgeCore
  <2>7. CASE r.n < Len(Programs)
    <3>1. BridgeScan(read, view, admitted, base)
      BY ZenonT(40), <2>5, <2>6 DEF BridgeScan, Walking
    <3> QED BY ZenonT(40), <1>2, <2>3, <2>7, <3>1, BridgeTurns
  <2>8. CASE ~(r.n < Len(Programs))
    <3>1. /\ fresh \in Seq(Item)
          /\ \A i \in 1..Len(fresh) : ItemInv(fresh[i], read, view, admitted)
      BY ZenonT(40), NoItems, FreshItemsInv
    <3>2. /\ read.todo \in Seq(Item) /\ read.stale \in Seq(Item)
          /\ \A i \in 1..Len(read.todo) : ItemInv(read.todo[i], read, view, admitted)
          /\ \A i \in 1..Len(read.stale) : ItemInv(read.stale[i], read, view, admitted)
      <4>1. read.provider = added.provider /\ read.seen = added.seen
        BY ZenonT(40), <2>4, <2>5
      <4>2. \A t : ItemInv(t, added, view, admitted) => ItemInv(t, read, view, admitted)
        BY Zenon, <4>1 DEF ItemInv
      <4> QED BY ZenonT(40), <2>1, <2>5, <4>2 DEF ListInv, ScanType
    <3> DEFINE both == read.todo \o read.stale
    <3>3. both \in Seq(Item) /\ \A i \in 1..Len(both) : ItemInv(both[i], read, view, admitted)
      BY ZenonT(40), <3>2, JoinedItems
    <3> HIDE DEF both
    <3>4. all = both \o fresh
      BY Zenon DEF both
    <3>5. ~read.resuming => \A j \in Keys : \E i \in 1..Len(all) : all[i].kind = "fresh" /\ all[i].key = j
      <4> SUFFICES ASSUME ~read.resuming, NEW j \in Keys
                   PROVE  \E i \in 1..Len(all) : all[i].kind = "fresh" /\ all[i].key = j
        BY Zenon
      <4>1. fresh = FreshItems
        BY Zenon
      <4>2. PICK n \in 1..Len(Programs) : Programs[n] = j
        BY ZenonT(40), ScannerAssumption
      <4>3. Len(fresh) = Len(Programs) /\ fresh[n].kind = "fresh" /\ fresh[n].key = j
        BY SMTT(30), <1>3, <4>1, <4>2 DEF FreshItems
      <4> HIDE DEF fresh
      <4>4. Len(both) + n \in 1..Len(all) /\ all[Len(both) + n] = fresh[n]
        BY SMTT(30), <1>3, <3>1, <3>3, <3>4, <4>2, <4>3
      <4> QED BY ZenonT(40), <4>3, <4>4
    <3> HIDE DEF fresh
    <3>6. all \in Seq(Item) /\ \A i \in 1..Len(all) : ItemInv(all[i], read, view, admitted)
      BY ZenonT(40), <3>1, <3>3, <3>4, JoinedItems
    <3> HIDE DEF all
    <3>7. /\ ready \in ScanType /\ ready.todo = all /\ ready.stale = <<>>
          /\ ready.seen = read.seen /\ ready.provider = read.provider
          /\ ready.since = read.since /\ ready.result = read.result /\ ready.resuming = read.resuming
      <4>1. ready \in ScanType
        BY ZenonT(40), <2>5, <3>6, NoItems DEF ScanType
      <4> QED BY ZenonT(40), <2>5, <4>1 DEF ScanType
    <3> HIDE DEF ready
    <3>8. ListInv(ready, view, admitted)
      <4>1. SeenInv(ready)
        BY ZenonT(40), <1>1, <2>5, <3>7 DEF ListInv, SeenInv
      <4> QED BY ZenonT(40), <3>6, <3>7, <4>1, NoItems, SameItem DEF ListInv
    <3>9. BridgeLists(ready, view, admitted, base)
      BY ZenonT(40), <2>6, <3>5, <3>7 DEF BridgeLists, BridgeCore, Ahead
    <3>10. BridgeScan(Turn(ready), view, admitted, base)
      BY ZenonT(40), <3>8, <3>9, BridgeTurn
    <3> QED BY ZenonT(40), <1>2, <2>3, <2>8, <3>10, BridgeTurns
  <2> QED BY ZenonT(40), <2>7, <2>8
<1> QED BY ZenonT(40), <1>5, <1>6

(* A stale run leaves the list. *)
LEMMA BridgeSupersedeRun ==
  ASSUME CatchUpInv, BridgeInv, NEW s \in Scanners, SupersedeRun(s)
  PROVE  BridgeInv'
<1> DEFINE r == scan[s]
<1>1. ListInv(r, view, admitted) /\ StageInv(r, view, floor, admitted)
  BY ZenonT(40), ScannerFacts
<1>2. /\ r.stage = "supersede" /\ Goes(s, Finished(r))
      /\ UNCHANGED <<chainVars, admitted, base, checkpoint>>
  BY Zenon DEF SupersedeRun, At, SupersedeStaleStrictCatchUpRun
<1>3. r.todo # <<>> /\ ~Fresh(r)
  BY ZenonT(40), <1>1, <1>2 DEF StageInv, Fresh
<1>4. BridgeLists(r, view, admitted, base)
  BY ZenonT(40), <1>2, BridgeFacts
<1>5. BridgeScan(Finished(r), view, admitted, base)
  BY ZenonT(40), <1>1, <1>3, <1>4, BridgeFinished
<1> QED BY ZenonT(40), <1>2, <1>5, BridgeTurns

(* The run found for the boundary is resumed; one at rest ends the scan. *)
LEMMA BridgeReadHistoricalRun ==
  ASSUME CatchUpInv, BridgeInv, NEW s \in Scanners, ReadHistoricalRun(s)
  PROVE  BridgeInv'
<1> DEFINE r == scan[s]
           x == ReadStrictCatchUpRun(Key(r), Expected(r), r.provider)
<1>1. /\ r.stage = "history" /\ r \in ScanType
      /\ Goes(s, IF x = NoRun THEN RunBegun(r, NoRun)
                 ELSE IF x.state = "ACTIVE" THEN RunBegun(r, x)
                 ELSE Ended(r, IF x.state = "FAILED" THEN "window" ELSE "failed"))
      /\ UNCHANGED <<chainVars, admitted, base, checkpoint>>
  BY ZenonT(40), ScannerFacts DEF ReadHistoricalRun, At, storeVars
<1>2. BridgeLists(r, view, admitted, base)
  BY ZenonT(40), <1>1, BridgeFacts
<1> HIDE DEF x
<1>3. CASE x = NoRun \/ x.state = "ACTIVE"
  <2>1. Goes(s, RunBegun(r, x))
    BY ZenonT(40), <1>1, <1>3
  <2> QED BY ZenonT(40), <1>1, <1>2, <2>1, BridgeBegun, BridgeTurns
<1>4. CASE ~(x = NoRun \/ x.state = "ACTIVE")
  <2> DEFINE result == IF x.state = "FAILED" THEN "window" ELSE "failed"
  <2>1. Goes(s, Ended(r, result)) /\ result # "done"
    BY ZenonT(40), <1>1, <1>4
  <2> HIDE DEF result
  <2> QED BY ZenonT(40), <1>1, <2>1, BridgeEnds
<1> QED BY ZenonT(40), <1>3, <1>4

(* The first page of a fresh walk sets the head. *)
LEMMA BridgeReadPage ==
  ASSUME CatchUpInv, BridgeInv, NEW s \in Scanners, ReadPage(s)
  PROVE  BridgeInv'
<1> DEFINE r == scan[s]
           page == List(r.provider, Key(r), Before(r))
<1>1. ScanInv(r, view, floor, admitted)
  BY ZenonT(40), ScannerFacts
<1>2. /\ r.stage = "list" /\ Goes(s, WithPage(r, page))
      /\ UNCHANGED <<chainVars, admitted, base, checkpoint>>
  BY Zenon DEF ReadPage, At, Before, storeVars
<1>3. PageContext(r, page)
  BY ZenonT(40), <1>1, <1>2 DEF PageContext, CatchUpInv
<1> HIDE DEF page
<1>4. /\ BridgeLists(r, view, admitted, base) /\ floor[r.provider] = 0
      /\ Fresh(r) /\ r.head # 0 => Tops(r, r.head)
  BY ZenonT(40), <1>2, BridgeFacts DEF BridgeWalk, Walking
<1>5. BridgeScan(WithPage(r, page), view, admitted, base)
  BY ZenonT(40), <1>3, <1>4, BridgeWithPage
<1> QED BY ZenonT(40), <1>2, <1>5, BridgeTurns

(* Admission only adds. *)
LEMMA BridgeAdmission ==
  ASSUME CatchUpInv, BridgeInv, NEW s \in Scanners, NEW rows \in SUBSET scan[s].rows,
         scan[s].stage = "admit", NEW q, Goes(s, q),
         admitted' = [admitted EXCEPT ![Key(scan[s])] = @ \cup rows],
         UNCHANGED <<storeVars, chainVars, base>>,
         BridgeScan(q, view, admitted', base)
  PROVE  BridgeInv'
<1> DEFINE r == scan[s]
<1>1. ListInv(r, view, admitted) /\ StageInv(r, view, floor, admitted)
  BY Zenon, ScannerFacts
<1>2. r.todo # <<>> /\ PageInv(r, view, floor)
  BY Zenon, <1>1 DEF StageInv, Walking
<1>3. Key(r) \in Keys /\ rows \subseteq Positions
  BY ZenonT(40), <1>1, <1>2, KeyFacts DEF PageInv
<1>4. /\ admitted' \in [Keys -> SUBSET Positions]
      /\ \A k \in Keys : admitted[k] \subseteq admitted'[k]
  BY ZenonT(40), <1>3 DEF CatchUpInv, World
<1>5. checkpoint' = checkpoint /\ base' = base /\ UNCHANGED chainVars
  BY Zenon DEF storeVars
<1>6. /\ \A k \in Keys : base'[k] = base[k] \/ base[k] = 0
      /\ \A k \in Keys : checkpoint'[k] = 0 <=> base'[k] = 0
      /\ BridgeScan(q, view, admitted', base')
  BY ZenonT(40), <1>5 DEF BridgeInv
<1> QED BY ZenonT(40), <1>4, <1>5, <1>6, BridgeMoves

(* The page is admitted. *)
LEMMA BridgeAdmitPage ==
  ASSUME CatchUpInv, BridgeInv, NEW s \in Scanners, AdmitPage(s)
  PROVE  BridgeInv'
<1> DEFINE r == scan[s]
<1>1. r \in ScanType /\ ListInv(r, view, admitted) /\ StageInv(r, view, floor, admitted)
  BY Zenon, ScannerFacts
<1>2. /\ r.stage = "admit" /\ Goes(s, Admitted(r))
      /\ admitted' = [admitted EXCEPT ![Key(r)] = @ \cup r.rows]
      /\ UNCHANGED <<storeVars, chainVars, base>>
  BY Zenon DEF AdmitPage, At
<1>3. r.todo # <<>> /\ PageInv(r, view, floor) /\ r.rows # {}
  BY ZenonT(40), <1>1, <1>2 DEF StageInv, Walking
<1>4. Key(r) \in Keys /\ r.rows \subseteq Positions /\ r.head # 0
  BY ZenonT(40), <1>1, <1>3, KeyFacts DEF PageInv
<1>5. Later(view, floor, admitted, view, floor, admitted')
  BY <1>2, <1>4 DEF CatchUpInv, World, Later
<1>6. BridgeScan(r, view, admitted', base)
  BY ZenonT(40), <1>1, <1>5, BridgeFacts, BridgeLater
<1>7. BridgePage(r, view, admitted', base)
  BY ZenonT(40), <1>2, <1>4, <1>6 DEF BridgeScan, BridgePage, BridgeLists, BridgeWalk, Walking
<1>8. BridgeScan(Admitted(r), view, admitted', base)
  BY ZenonT(40), <1>1, <1>7, BridgeAdmitted
<1>9. r.rows \in SUBSET scan[s].rows
  BY Zenon
<1> QED BY ZenonT(40), <1>2, <1>8, <1>9, BridgeAdmission

(* Part of the page is admitted and the scan ends. *)
LEMMA BridgeAdmitPartly ==
  ASSUME CatchUpInv, BridgeInv, NEW s \in Scanners, AdmitPartly(s)
  PROVE  BridgeInv'
<1> DEFINE r == scan[s]
<1>1. /\ r.stage = "admit" /\ Goes(s, Ended(r, "interrupted"))
      /\ UNCHANGED <<storeVars, chainVars, base>>
  BY Zenon DEF AdmitPartly, At
<1>2. PICK i \in r.rows : admitted' = [admitted EXCEPT ![Key(r)] = @ \cup {j \in r.rows : j > i}]
  BY Zenon DEF AdmitPartly
<1> DEFINE rows == {j \in r.rows : j > i}
<1>3. rows \in SUBSET scan[s].rows
  BY Zenon
<1>4. BridgeScan(Ended(r, "interrupted"), view, admitted', base)
  BY Zenon, BridgeEnded
<1> HIDE DEF rows
<1>5. admitted' = [admitted EXCEPT ![Key(r)] = @ \cup rows]
  BY Zenon, <1>2 DEF rows
<1> QED BY ZenonT(40), <1>1, <1>3, <1>4, <1>5, BridgeAdmission

(* A persisted page leaves the head where it was. *)
LEMMA BridgePersistProgress ==
  ASSUME CatchUpInv, BridgeInv, NEW s \in Scanners, PersistProgress(s)
  PROVE  BridgeInv'
<1> DEFINE r == scan[s]
           next == NextRun(r)
           q == [r EXCEPT !.run = next]
<1>1. r \in ScanType /\ StageInv(r, view, floor, admitted)
  BY Zenon, ScannerFacts
<1>2. r.stage = "persist" /\ UNCHANGED <<chainVars, admitted>>
  BY Zenon DEF PersistProgress, At
<1>3. r.head # 0
  BY ZenonT(40), <1>1, <1>2 DEF StageInv, PageInv
<1>4. next \in RunType
  BY ZenonT(40), <1>2, NextRunGood DEF GoodRun
<1>5. CASE Fails(s)
  BY ZenonT(40), <1>2, <1>5, BridgeFails
<1>6. CASE ~Fails(s)
  <2>1. /\ IF r.run = NoRun THEN CreateStrictCatchUpRun(next)
           ELSE AdvanceStrictCatchUpRun(r.run, next)
        /\ Goes(s, Paged(q))
        /\ UNCHANGED base
    BY ZenonT(40), <1>6 DEF PersistProgress
  <2>2. checkpoint' = checkpoint
    BY ZenonT(40), <2>1 DEF CreateStrictCatchUpRun, AdvanceStrictCatchUpRun
  <2> HIDE DEF next
  <2>3. /\ q \in ScanType /\ q.head = r.head /\ q.resumed = r.resumed
        /\ q.since = r.since /\ q.provider = r.provider /\ q.seen = r.seen /\ q.todo = r.todo
        /\ q.resuming = r.resuming /\ q.result = r.result
    BY ZenonT(40), <1>1, <1>4 DEF ScanType
  <2> HIDE DEF q
  <2>4. /\ BridgeLists(r, view, admitted, base)
        /\ Fresh(r) => Tops(r, r.head)
    BY ZenonT(40), <1>2, <1>3, BridgeFacts DEF BridgeWalk, Walking
  <2>5. BridgeLists(q, view, admitted, base) /\ \A t : Tops(q, t) <=> Tops(r, t)
    BY ZenonT(40), <2>3, <2>4, SameLists
  <2>6. Fresh(q) <=> Fresh(r)
    BY Zenon, <2>3 DEF Fresh
  <2>7. BridgePage(q, view, admitted, base)
    BY ZenonT(40), <1>3, <2>3, <2>4, <2>5, <2>6 DEF BridgePage
  <2>8. BridgeScan(Paged(q), view, admitted, base)
    BY ZenonT(40), <2>3, <2>7, BridgePaged
  <2> QED BY ZenonT(40), <1>2, <2>1, <2>2, <2>8, BridgeTurns
<1> QED BY ZenonT(40), <1>5, <1>6

(* The key a settled fresh walk leaves behind. *)
LEMMA SettledIsBridged ==
  ASSUME NEW r, NEW v, NEW a, NEW b, NEW c, ListInv(r, v, a), r.todo # <<>>,
         BridgeCore(r, v, a, b), Covered(r, a), b \in [Keys -> MaybePositions],
         \/ r.head = 0 /\ Tops(r, Expected(r)) /\ c = b
         \/ /\ r.head # 0 /\ r.head \in Touches[Key(r)] /\ Tops(r, r.head)
            /\ c = [b EXCEPT ![Key(r)] = IF Expected(r) = 0 THEN r.head ELSE @]
  PROVE  Bridged(Key(r), r.since, a, c)
<1> DEFINE k == Key(r)
           e == Expected(r)
<1>1. /\ k \in Keys /\ e \in MaybePositions /\ Touches[k] \subseteq Positions
      /\ e # 0 => b[k] # 0 /\ Covers(k, b[k], e, a)
  BY Zenon, KeyFacts DEF BridgeCore, Expected
<1>2. b[k] \in MaybePositions
  BY Zenon, <1>1
<1> SUFFICES ASSUME NEW i \in Touches[k], SlotOf[i] <= r.since
             PROVE  c[k] # 0 /\ (i <= c[k] \/ i \in a[k])
  BY Zenon DEF Bridged
<1>3. i \in Positions
  BY ZenonT(40), <1>1
<1>4. CASE r.head = 0 /\ Tops(r, e) /\ c = b
  <2>1. i <= e
    BY ZenonT(40), <1>4 DEF Tops
  <2>2. e # 0 /\ b[k] # 0 /\ Covers(k, b[k], e, a)
    BY <1>1, <1>3, <2>1 DEF Positions
  <2> QED BY <1>2, <1>3, <1>4, <2>1, <2>2 DEF Covers, Positions, MaybePositions
<1>5. CASE /\ r.head # 0 /\ r.head \in Touches[k] /\ Tops(r, r.head)
           /\ c = [b EXCEPT ![k] = IF e = 0 THEN r.head ELSE @]
  <2>1. i <= r.head
    BY ZenonT(40), <1>5 DEF Tops
  <2>2. CASE e = 0
    <3>1. c[k] = r.head
      BY ZenonT(40), <1>1, <1>5, <2>2
    <3> QED BY ZenonT(40), <1>5, <2>1, <3>1
  <2>3. CASE e # 0
    <3>1. c[k] = b[k]
      BY ZenonT(40), <1>1, <1>5, <2>3
    <3>2. b[k] # 0 /\ Covers(k, b[k], e, a)
      BY ZenonT(40), <1>1, <2>3
    <3>3. e < i => i \in a[k]
      BY ZenonT(40), <2>1, <2>3 DEF Covered
    <3>4. b[k] < i /\ i <= e => i \in a[k]
      BY Zenon, <3>2 DEF Covers
    <3> QED BY SMTT(30), <1>1, <1>2, <1>3, <3>1, <3>2, <3>3, <3>4 DEF Positions, MaybePositions
  <2> QED BY ZenonT(40), <2>2, <2>3
<1> QED BY ZenonT(40), <1>4, <1>5

(* A settled fresh walk has bridged its key. *)
LEMMA BridgeSettle ==
  ASSUME CatchUpInv, BridgeInv, NEW s \in Scanners, Settle(s)
  PROVE  BridgeInv'
<1> DEFINE r == scan[s]
           k == Key(r)
           e == Expected(r)
           c == [base EXCEPT ![k] = IF e = 0 THEN r.head ELSE @]
<1>1. r \in ScanType /\ ListInv(r, view, admitted) /\ StageInv(r, view, floor, admitted)
  BY Zenon, ScannerFacts
<1>2. r.stage = "settle" /\ UNCHANGED <<chainVars, admitted>>
  BY Zenon DEF Settle, At
<1>3. r.todo # <<>> /\ RunInv(r, view, admitted) /\ Covered(r, admitted)
  BY ZenonT(40), <1>1, <1>2 DEF StageInv, Walking
<1>4. k \in Keys /\ e \in MaybePositions
  BY ZenonT(40), <1>1, <1>3, KeyFacts
<1>5. /\ BridgeLists(r, view, admitted, base) /\ BridgeWalk(r, admitted, base)
      /\ BridgeScan(r, view, admitted, base) /\ BridgeCore(r, view, admitted, base)
  BY ZenonT(40), <1>2, BridgeFacts DEF Walking, BridgeLists
<1>6. /\ Fresh(r) /\ r.head # 0 => Tops(r, r.head)
      /\ Fresh(r) /\ r.head = 0 => Tops(r, e)
  BY ZenonT(40), <1>2, <1>5 DEF BridgeWalk, Walking
<1>7. base \in [Keys -> MaybePositions] /\ checkpoint \in [Keys -> MaybePositions]
  BY ZenonT(40) DEF CatchUpInv
<1>8. CASE Fails(s)
  BY ZenonT(40), <1>2, <1>8, BridgeFails
<1>9. CASE r.head = 0 /\ ~Fails(s)
  <2>1. Goes(s, Finished(r)) /\ UNCHANGED <<chainVars, admitted, base, checkpoint>>
    BY ZenonT(40), <1>2, <1>9 DEF Settle, ResolveStrictCatchUpFailures
  <2>2. Fresh(r) => Bridged(k, r.since, admitted, base)
    BY ZenonT(40), <1>1, <1>3, <1>5, <1>6, <1>7, <1>9, SettledIsBridged
  <2>3. BridgeScan(Finished(r), view, admitted, base)
    BY ZenonT(40), <1>1, <1>3, <1>5, <2>2, BridgeFinished
  <2> QED BY ZenonT(40), <2>1, <2>3, BridgeTurns
<1>10. CASE r.head # 0 /\ ~Fails(s)
  <2>1. /\ Goes(s, Finished(r)) /\ checkpoint[k] = e
        /\ checkpoint' = [checkpoint EXCEPT ![k] = r.head] /\ base' = c
    <3>1. CASE r.run = NoRun
      BY ZenonT(40), <1>10, <3>1 DEF Settle, CompareAndSwapCheckpoint, CanSwapCheckpoint
    <3>2. CASE r.run # NoRun
      <4>1. CompleteStrictCatchUpRun(r.run) /\ Goes(s, Finished(r)) /\ base' = base
        BY ZenonT(40), <1>10, <3>2 DEF Settle
      <4>2. r.run.key = k /\ r.run.previous = e /\ r.run.head = r.head /\ e # 0
        BY <1>3, <3>2, ChainAssumption DEF RunInv, GoodRun, RunType, Positions
      <4>3. c = base
        BY ZenonT(40), <1>4, <1>7, <4>2
      <4> HIDE DEF c, k, e
      <4> QED BY ZenonT(40), <4>1, <4>2, <4>3 DEF CompleteStrictCatchUpRun
    <3> QED BY ZenonT(40), <3>1, <3>2
  <2>2. r.head \in Touches[k]
    BY ZenonT(40), <1>3, <1>10 DEF RunInv
  <2>3. checkpoint[k] = 0 <=> base[k] = 0
    BY ZenonT(40), <1>4 DEF BridgeInv
  <2>4. \A j \in Keys : base'[j] = base[j] \/ base[j] = 0
    BY ZenonT(40), <1>4, <1>7, <2>1, <2>3
  <2>5. \A j \in Keys : checkpoint'[j] = 0 <=> base'[j] = 0
    BY ZenonT(40), <1>4, <1>7, <1>10, <2>1, <2>3 DEF BridgeInv
  <2>6. Fresh(r) => Bridged(k, r.since, admitted, c)
    BY ZenonT(40), <1>1, <1>3, <1>5, <1>6, <1>7, <1>10, <2>2, SettledIsBridged
  <2>7. Fresh(r) => Bridged(k, r.since, admitted, base')
    BY ZenonT(40), <2>1, <2>6
  <2> HIDE DEF c
  <2>8. Later(view, floor, admitted, view, floor, admitted)
    BY DEF CatchUpInv, World, Later
  <2>9. BridgeScan(r, view, admitted, base')
    BY ZenonT(40), <1>1, <1>5, <2>4, <2>8, BridgeLater
  <2>10. BridgeLists(r, view, admitted, base')
    BY ZenonT(40), <1>2, <1>5, <2>9 DEF BridgeScan, BridgeLists, BridgeWalk, Walking
  <2>11. BridgeScan(Finished(r), view, admitted, base')
    BY ZenonT(40), <1>1, <1>3, <2>7, <2>10, BridgeFinished
  <2>12. /\ admitted' = admitted /\ UNCHANGED chainVars
         /\ admitted' \in [Keys -> SUBSET Positions]
         /\ \A j \in Keys : admitted[j] \subseteq admitted'[j]
    BY ZenonT(40), <1>2 DEF CatchUpInv, World
  <2> QED BY ZenonT(40), <2>1, <2>4, <2>5, <2>11, <2>12, BridgeMoves
<1> QED BY ZenonT(40), <1>8, <1>9, <1>10

(* A window too old ends the scan, which then bridges nothing. *)
LEMMA BridgeRecordWindowFailure ==
  ASSUME CatchUpInv, BridgeInv, NEW s \in Scanners, RecordWindowFailure(s)
  PROVE  BridgeInv'
<1> DEFINE r == scan[s]
           q == [r EXCEPT !.stage = "fail"]
<1>1. /\ r.stage = "record" /\ r \in ScanType
      /\ Goes(s, IF r.run = NoRun THEN Ended(r, "window") ELSE q)
      /\ UNCHANGED <<chainVars, admitted, base, checkpoint>>
  BY ZenonT(40), ScannerFacts DEF RecordWindowFailure, At, RecordStrictCatchUpFailure
<1>2. CASE r.run = NoRun
  BY ZenonT(40), <1>1, <1>2, BridgeEnds
<1>3. CASE r.run # NoRun
  <2>1. /\ q.stage = "fail" /\ q.head = r.head /\ q.resumed = r.resumed
        /\ q.since = r.since /\ q.provider = r.provider /\ q.seen = r.seen /\ q.todo = r.todo
        /\ q.resuming = r.resuming /\ q.result = r.result
    BY ZenonT(40), <1>1 DEF ScanType
  <2>2. Goes(s, q)
    BY ZenonT(40), <1>1, <1>3
  <2> HIDE DEF q
  <2>3. BridgeLists(r, view, admitted, base) /\ BridgeWalk(r, admitted, base)
    BY ZenonT(40), <1>1, BridgeFacts DEF Walking
  <2>4. BridgeLists(q, view, admitted, base) /\ \A t : Tops(q, t) <=> Tops(r, t)
    BY ZenonT(40), <2>1, <2>3, SameLists
  <2>5. Fresh(q) <=> Fresh(r)
    BY ZenonT(40), <2>1 DEF Fresh
  <2>6. BridgeWalk(q, admitted, base)
    BY ZenonT(40), <1>1, <2>1, <2>3, <2>4, <2>5 DEF BridgeWalk, BridgeLists, Walking
  <2>7. BridgeScan(q, view, admitted, base)
    BY ZenonT(40), <2>1, <2>4, <2>6 DEF BridgeScan, BridgeLists
  <2> QED BY ZenonT(40), <1>1, <2>2, <2>7, BridgeTurns
<1> QED BY ZenonT(40), <1>2, <1>3

(* The chain grows after the scan noted its head. *)
LEMMA BridgeGrow ==
  ASSUME CatchUpInv, BridgeInv, Grow
  PROVE  BridgeInv'
<1>1. PICK p \in Providers, v \in Slots :
        v > view[p] /\ view' = [view EXCEPT ![p] = v] /\ UNCHANGED <<storeVars, scan, floor, admitted, base>>
  BY ZenonT(40) DEF Grow
<1>2. v \in Nat
  BY ZenonT(40), ChainAssumption DEF Slots, Positions
<1>3. World(view, floor, admitted)
  BY ZenonT(40) DEF CatchUpInv
<1>4. Later(view, floor, admitted, view', floor', admitted)
  BY SMTT(30), <1>1, <1>2, <1>3 DEF World, Later
<1>5. \A s \in Scanners : BridgeScan(scan[s], view', admitted, base)
  BY ZenonT(40), <1>4, BridgeLater DEF CatchUpInv, BridgeInv
<1> QED BY ZenonT(40), <1>1, <1>5 DEF BridgeInv, storeVars

(* Every step keeps the second invariant. *)
LEMMA BridgeStep ==
  ASSUME Retained = 0, CatchUpInv, BridgeInv, [CatchUpNext]_catchUpVars
  PROVE  BridgeInv'
<1>1. CASE UNCHANGED catchUpVars
  BY ZenonT(40), <1>1 DEF catchUpVars, storeVars, BridgeInv
<1>2. ASSUME NEW s \in Scanners, NEW p \in Providers, NEW policy \in Policies, Start(s, p, policy)
      PROVE  BridgeInv'
  BY ZenonT(40), <1>2, BridgeStart
<1>3. ASSUME NEW s \in Scanners, SoloStep(s) PROVE BridgeInv'
  <2>1. CASE ReadCheckpoint(s)      BY ZenonT(40), <2>1, BridgeReadCheckpoint
  <2>2. CASE ReadActiveRun(s)       BY ZenonT(40), <2>2, BridgeReadActiveRun
  <2>3. CASE ReadHistoricalRun(s)   BY Zenon, <2>3, BridgeReadHistoricalRun
  <2>4. CASE ReadPage(s)            BY Zenon, <2>4, BridgeReadPage
  <2>5. CASE AdmitPage(s)           BY Zenon, <2>5, BridgeAdmitPage
  <2>6. CASE PersistProgress(s)     BY Zenon, <2>6, BridgePersistProgress
  <2>7. CASE Settle(s)              BY Zenon, <2>7, BridgeSettle
  <2>8. CASE RecordWindowFailure(s) BY Zenon, <2>8, BridgeRecordWindowFailure
  <2> QED BY ZenonT(40), <1>3, <2>1, <2>2, <2>3, <2>4, <2>5, <2>6, <2>7, <2>8 DEF SoloStep
<1>4. ASSUME NEW s \in Scanners, ScanStep(s) PROVE BridgeInv'
  <2>1. CASE SupersedeRun(s)     BY Zenon, <2>1, BridgeSupersedeRun
  <2>2. CASE SupersedeRefused(s) BY ZenonT(40), <2>2, BridgeFails DEF SupersedeRefused
  <2>3. CASE FailRun(s)
    <3>1. /\ Goes(s, Ended(scan[s], "window"))
          /\ UNCHANGED <<chainVars, admitted, base, checkpoint>>
      BY ZenonT(40), <2>3 DEF FailRun, FailStrictCatchUpRun
    <3> QED BY ZenonT(40), <3>1, BridgeEnds
  <2>4. CASE FailRefused(s)      BY ZenonT(40), <2>4, BridgeFails DEF FailRefused
  <2> QED BY ZenonT(40), <1>3, <1>4, <2>1, <2>2, <2>3, <2>4 DEF ScanStep
<1>5. ASSUME NEW s \in Scanners, AdmitPartly(s) PROVE BridgeInv'
  BY Zenon, <1>5, BridgeAdmitPartly
<1>6. ASSUME NEW s \in Scanners, Interrupt(s) PROVE BridgeInv'
  <2>1. /\ Goes(s, Ended(scan[s], "interrupted"))
        /\ UNCHANGED <<chainVars, admitted, base, checkpoint>>
    BY Zenon, <1>6 DEF Interrupt, storeVars
  <2> QED BY ZenonT(40), <2>1, BridgeEnds
<1>7. CASE PurgeEvidence
  BY Zenon, <1>7 DEF PurgeEvidence, PurgeCatchUpEvidence, chainVars, BridgeInv
<1>8. CASE Grow
  BY ZenonT(40), <1>8, BridgeGrow
<1>9. CASE Forget
  BY <1>9 DEF Forget, BridgeInv
<1> QED BY ZenonT(40), <1>1, <1>2, <1>4, <1>5, <1>6, <1>7, <1>8, <1>9 DEF CatchUpNext

(* No scan has completed yet. *)
LEMMA BridgeInitially ==
  ASSUME CatchUpInit
  PROVE  BridgeInv
<1>1. BridgeScan(Ended([since |-> 0], "none"), view, admitted, base)
  BY ZenonT(40), BridgeEnded
<1> QED BY ZenonT(40), <1>1 DEF CatchUpInit, StoreInit, BridgeInv

(* What ScanBridgesHead says of scan: after a scan that reported success,  *)
(* every signature of its keys that its provider listed when the scan      *)
(* began is admitted or lies below the bootstrap. Retained = 0 says that   *)
(* providers keep their history; one that forgets may show nothing of a    *)
(* key that another scanner bootstraps meanwhile.                          *)
THEOREM HeadIsBridged == ASSUME Retained = 0 PROVE CatchUpSpec => []ScanBridgesHead
<1>1. CatchUpInit => BridgeInv
  BY ZenonT(40), BridgeInitially
<1>2. CatchUpInv /\ BridgeInv /\ [CatchUpNext]_catchUpVars => BridgeInv'
  BY ZenonT(40), BridgeStep
<1>3. CatchUpInv /\ BridgeInv => ScanBridgesHead
  <2> SUFFICES ASSUME CatchUpInv, BridgeInv, NEW s \in Scanners, scan[s].result = "done",
                      NEW k \in Keys, NEW i \in Touches[k],
                      base[k] < i, SlotOf[i] <= scan[s].since
               PROVE  i \in admitted[k]
    BY ZenonT(40) DEF ScanBridgesHead
  <2>1. Bridged(k, scan[s].since, admitted, base)
    BY ZenonT(40) DEF BridgeInv, BridgeScan
  <2>2. i \in Nat /\ base[k] \in Nat
    BY ScannerAssumption DEF CatchUpInv, Positions, MaybePositions
  <2> QED BY <2>1, <2>2 DEF Bridged
<1> QED BY <1>1, <1>2, <1>3, CatchUpInvariant, PTL DEF CatchUpSpec

===============================================================================
