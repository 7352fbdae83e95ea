------------------------- MODULE ExecutionLiveProofs -------------------------
EXTENDS ExecutionLiveExecutor, ExecutionLiveRecoverer, FiniteSetTheorems, TLAPS

(***************************************************************************)
(* The operator's steps keep LiveInv, every step of the protocol does, and *)
(* the safety properties of the live runs follow, for any number of BUYs,  *)
(* exits and workers.                                                      *)
(***************************************************************************)

(* The armed BUY, if there is one, is the one engaged entry. *)
LEMMA ArmedFacts ==
  ASSUME LiveInv, NEW b \in Armed
  PROVE  /\ b \in Buys /\ entry[b].armament = "ARMED" /\ entry[b].reservation = "RESERVED"
         /\ entry[b].lock = "NONE" /\ NoPosition(entry[b]) /\ Engaged(b)
         /\ <<b, 0>> \in live /\ artifacts[<<b, 0>>] = <<>>
         /\ intents[<<b, 0>>].status \notin Decisive /\ intents[<<b, 0>>].status # "RETRY_READY"
<1>1. b \in Buys /\ entry[b].armament = "ARMED" /\ LocalInv(b)
  BY ZenonT(40) DEF Armed, LiveInv, DatabaseInv
<1>2. /\ entry[b].reservation = "RESERVED" /\ entry[b].lock = "NONE" /\ NoPosition(entry[b])
  BY ZenonT(40), <1>1 DEF LocalInv, EntryShape, HasPosition
<1>3. Engaged(b)
  BY ZenonT(40), <1>2 DEF Engaged, IsReserved
<1>4. <<b, 0>> \in live
  BY ZenonT(40), <1>1 DEF LocalInv
<1>5. artifacts[<<b, 0>>] = <<>> /\ intents[<<b, 0>>].status # "RETRY_READY"
  BY ZenonT(40), <1>1, <1>2 DEF LocalInv, BuyFits
<1>6. Ledger(0 > 0, intents[<<b, 0>>].status, artifacts[<<b, 0>>])
  BY SMTT(30), <1>1, ExecutionLiveAssumption DEF LocalInv
<1>7. intents[<<b, 0>>].status \notin Decisive
  BY ZenonT(40), <1>5, <1>6 DEF Ledger
<1> QED
  BY ZenonT(40), <1>1, <1>2, <1>3, <1>4, <1>5, <1>7

(* At most one BUY is armed. *)
LEMMA ArmedAlone ==
  ASSUME LiveInv
  PROVE  \/ Armed = {} /\ Cardinality(Armed) = 0
         \/ \E b \in Buys : /\ Armed = {b} /\ Cardinality(Armed) = 1 /\ exposure = 1
                            /\ \A c \in Buys : Engaged(c) <=> c = b
<1>1. CASE Armed = {}
  BY ZenonT(40), <1>1, FS_EmptySet
<1>2. CASE Armed # {}
  <2>1. PICK b \in Armed : TRUE
    BY ZenonT(40), <1>2
  <2>2. b \in Buys /\ Engaged(b)
    BY ZenonT(40), <2>1, ArmedFacts
  <2>3. exposure = 1 /\ \A c \in Buys : Engaged(c) <=> c = b
    BY ZenonT(40), <2>2 DEF LiveInv, DatabaseInv, ExposureInv
  <2>4. \A c \in Armed : c = b
    BY ZenonT(40), <2>3, ArmedFacts
  <2>5. Armed = {b}
    BY ZenonT(40), <2>1, <2>4
  <2>6. Cardinality(Armed) = 1
    BY ZenonT(40), <2>5, FS_Singleton
  <2> QED
    BY ZenonT(40), <2>2, <2>3, <2>5, <2>6
<1> QED
  BY ZenonT(40), <1>1, <1>2

(* Ending an armament writes the armament and the reservation, and nothing *)
(* else.                                                                   *)
LEMMA TerminalizedFacts ==
  ASSUME LiveInv, NEW next \in {"REVOKED", "EXPIRED"}, NEW T, T = Terminalized(next)
  PROVE  /\ T \in [Buys -> EntryRow]
         /\ \A c \in Buys : c \notin Armed => T[c] = entry[c]
         /\ \A c \in Armed : /\ T[c].armament = next /\ T[c].reservation = "RELEASED"
                             /\ T[c].lock = entry[c].lock /\ T[c].exit = entry[c].exit
                             /\ T[c].position = entry[c].position /\ T[c].auth = entry[c].auth
<1>1. entry \in [Buys -> EntryRow] /\ Armed \subseteq Buys
  BY ZenonT(40) DEF LiveInv, TypeOK, Armed
<1>2. \A c \in Buys : T[c] = IF c \in Armed
                             THEN [entry[c] EXCEPT !.armament = next, !.reservation = "RELEASED"]
                             ELSE entry[c]
  BY ZenonT(40) DEF Terminalized
<1>3. ASSUME NEW c \in Buys
      PROVE  LET r == [entry[c] EXCEPT !.armament = next, !.reservation = "RELEASED"]
             IN /\ r \in EntryRow /\ r.armament = next /\ r.reservation = "RELEASED"
                /\ r.lock = entry[c].lock /\ r.exit = entry[c].exit
                /\ r.position = entry[c].position /\ r.auth = entry[c].auth
  <2>1. entry[c] \in EntryRow
    BY ZenonT(40), <1>1
  <2> QED
    BY ZenonT(40), <2>1 DEF EntryRow, ArmamentStates, ReservationStates
<1>4. \A c \in Buys : T[c] \in EntryRow
  BY ZenonT(40), <1>1, <1>2, <1>3
<1>5. T \in [Buys -> EntryRow]
  BY ZenonT(40), <1>4 DEF Terminalized
<1> QED
  BY ZenonT(40), <1>1, <1>2, <1>3, <1>5

(* An armament that is ended leaves nothing behind. *)
LEMMA ReleasedLocal ==
  ASSUME LiveInv, NEW b \in Armed, UNCHANGED <<intents, artifacts>>,
         \A n \in 0..MaxExits : <<b, n>> \in live' <=> <<b, n>> \in live,
         entry'[b].armament \in {"REVOKED", "EXPIRED"}, entry'[b].reservation = "RELEASED",
         entry'[b].lock = entry[b].lock, entry'[b].exit = entry[b].exit,
         entry'[b].position = entry[b].position, entry'[b].auth = entry[b].auth
  PROVE  LocalInv(b)' /\ ~Engaged(b)'
<1>1. /\ b \in Buys /\ entry[b].reservation = "RESERVED"
      /\ entry[b].lock = "NONE" /\ NoPosition(entry[b])
      /\ <<b, 0>> \in live /\ artifacts[<<b, 0>>] = <<>>
      /\ intents[<<b, 0>>].status \notin Decisive /\ intents[<<b, 0>>].status # "RETRY_READY"
  BY ZenonT(40), ArmedFacts
<1>2. LocalInv(b) /\ MaxExits \in Nat
  BY ZenonT(40), <1>1, ExecutionLiveAssumption DEF LiveInv, DatabaseInv
<1>3. EntryShape(entry'[b]) /\ NoPosition(entry'[b])
  BY ZenonT(40), <1>1 DEF EntryShape, NoPosition
<1>4. BuyFits(entry'[b], intents'[<<b, 0>>].status, artifacts'[<<b, 0>>])
  <2>1. Len(artifacts[<<b, 0>>]) <= 1
    BY ZenonT(40), <1>2 DEF LocalInv, BuyFits
  <2> QED
    BY ZenonT(40), <1>1, <2>1 DEF BuyFits, Decisive
<1>5. \A n \in 1..MaxExits :
        SellFits(entry'[b], n, intents'[<<b, n>>].status, artifacts'[<<b, n>>])
  <2>1. entry[b].exit = 0
    BY ZenonT(40), <1>1 DEF NoPosition
  <2> QED
    BY <1>2, <2>1 DEF LocalInv, SellFits
<1>6. LocalInv(b)'
  BY SMTT(30), <1>1, <1>2, <1>3, <1>4, <1>5 DEF LocalInv
<1>7. ~Engaged(b)'
  BY ZenonT(40), <1>3 DEF Engaged, IsReserved, IsOpen, NoPosition
<1> QED
  BY ZenonT(40), <1>6, <1>7

(* Every armament is ended, by the operator or by its deadline. *)
LEMMA ReleaseKeeps ==
  ASSUME LiveInv, NEW next \in {"REVOKED", "EXPIRED"}, entry' = Terminalized(next),
         exposure' = exposure - Cardinality(Armed), unknownBlock' = BlockedAfterRelease,
         control' \in ControlStates, UNCHANGED <<intents, live, artifacts, tokens, worker>>
  PROVE  LiveInv'
<1>1. /\ entry' \in [Buys -> EntryRow]
      /\ \A c \in Buys : c \notin Armed => entry'[c] = entry[c]
      /\ \A c \in Armed : /\ entry'[c].armament = next /\ entry'[c].reservation = "RELEASED"
                          /\ entry'[c].lock = entry[c].lock /\ entry'[c].exit = entry[c].exit
                          /\ entry'[c].position = entry[c].position /\ entry'[c].auth = entry[c].auth
  BY TerminalizedFacts
<1>2. \A c \in Armed : LocalInv(c)' /\ ~Engaged(c)'
  BY ZenonT(40), <1>1, ReleasedLocal
<1>3. \A c \in Buys : LocalInv(c)'
  <2> SUFFICES ASSUME NEW c \in Buys, c \notin Armed PROVE LocalInv(c)'
    BY ZenonT(40), <1>2
  <2>1. Same(c)
    BY ZenonT(40), <1>1 DEF Same
  <2> QED
    BY ZenonT(40), <2>1, LocalFrame DEF LiveInv, DatabaseInv
<1>4. \A c \in Buys : c \notin Armed => (Engaged(c)' <=> Engaged(c))
  BY ZenonT(40), <1>1 DEF Engaged, IsReserved, IsOpen
<1>5. exposure \in Nat /\ live \subseteq Ids /\ unknownBlock \in BOOLEAN
  BY ZenonT(40) DEF LiveInv, TypeOK
<1>6. unknownBlock' \in BOOLEAN
  BY ZenonT(40), <1>5 DEF BlockedAfterRelease, Held
<1>7. CASE Armed = {} /\ Cardinality(Armed) = 0
  <2>1. exposure' = exposure
    BY <1>5, <1>7
  <2>2. ExposureInv'
    BY ZenonT(40), <1>4, <1>7, <2>1, EngagementKept DEF LiveInv, DatabaseInv
  <2>3. unknownBlock' = unknownBlock
    BY ZenonT(40), <1>7 DEF BlockedAfterRelease
  <2>4. UnknownEffectBlocks'
    BY ZenonT(40), <1>1, <1>7, <2>3, BlockKept DEF LiveInv, DatabaseInv
  <2> QED
    BY ZenonT(40), <1>1, <1>3, <1>5, <1>6, <2>2, <2>4, OperatorStep
<1>8. ASSUME NEW b \in Buys, Armed = {b}, Cardinality(Armed) = 1, exposure = 1,
             \A c \in Buys : Engaged(c) <=> c = b
      PROVE  LiveInv'
  <2>1. \A c \in Buys : ~Engaged(c)'
    BY ZenonT(40), <1>2, <1>4, <1>8
  <2>2. exposure' = 0
    BY <1>8
  <2>3. ExposureInv'
    BY ZenonT(40), <2>1, <2>2 DEF ExposureInv
  <2>4. entry[b].reservation = "RESERVED" /\ NoPosition(entry[b])
    BY ZenonT(40), <1>8, ArmedFacts
  <2>5. ~Held(entry)'
    BY ZenonT(40), <2>1 DEF Held, Engaged, IsReserved
  <2>6. ~UnresolvedEvidence(artifacts)'
    <3> SUFFICES ASSUME NEW id \in Ids, NEW n \in 1..Len(artifacts[id]),
                        artifacts[id][n].evidence \in {"UNKNOWN", "MISMATCH"}
                 PROVE  FALSE
      BY ZenonT(40) DEF UnresolvedEvidence
    <3>1. /\ IsSell(id) => IsOpen(id[1])
          /\ ~IsSell(id) => entry[id[1]].reservation = "UNKNOWN_HELD"
      BY ZenonT(40), UnresolvedIsEngaged DEF LiveInv, DatabaseInv
    <3>2. id[1] \in Buys
      BY ZenonT(40), IdLocal
    <3>3. Engaged(id[1])
      BY ZenonT(40), <3>1 DEF Engaged, IsReserved
    <3>4. id[1] = b
      BY ZenonT(40), <1>8, <3>2, <3>3
    <3> QED
      BY ZenonT(40), <2>4, <3>1, <3>4 DEF IsOpen, NoPosition
  <2>7. UnknownEffectBlocks'
    BY ZenonT(40), <2>5, <2>6 DEF UnknownEffectBlocks
  <2> QED
    BY ZenonT(40), <1>1, <1>3, <1>5, <1>6, <2>3, <2>7, OperatorStep
<1> QED
  BY ZenonT(40), <1>7, <1>8, ArmedAlone

(* A BUY is armed: the exposure is reserved with it. *)
LEMMA ArmKeeps ==
  ASSUME LiveInv, NEW b \in Buys, Arm(b)
  PROVE  LiveInv'
<1> DEFINE T == Terminalized("EXPIRED")
           id == <<b, 0>>
<1>1. /\ intents[id].status = "PENDING" /\ id \notin live
      /\ \A c \in Buys : entry[c].armament # "LOCKED"
      /\ live' = live \cup {id}
      /\ entry' = [T EXCEPT ![b].armament = "ARMED", ![b].reservation = "RESERVED"]
      /\ exposure' = exposure - Cardinality(Armed) + 1
      /\ unknownBlock' = BlockedAfterRelease
      /\ UNCHANGED <<control, intents, artifacts, tokens, worker>>
  BY ZenonT(40) DEF Arm, Armable
<1>2. /\ T \in [Buys -> EntryRow]
      /\ \A c \in Buys : c \notin Armed => T[c] = entry[c]
      /\ \A c \in Armed : /\ T[c].armament = "EXPIRED" /\ T[c].reservation = "RELEASED"
                          /\ T[c].lock = entry[c].lock /\ T[c].exit = entry[c].exit
                          /\ T[c].position = entry[c].position /\ T[c].auth = entry[c].auth
  BY TerminalizedFacts
<1> HIDE DEF T
<1>3. LocalInv(b) /\ MaxExits \in Nat /\ \A c \in Buys : LocalInv(c)
  BY ZenonT(40), ExecutionLiveAssumption DEF LiveInv, DatabaseInv
<1>4. entry[b].armament = "NONE" /\ b \notin Armed
  BY ZenonT(40), <1>1, <1>3 DEF LocalInv, Armed
<1>5. /\ entry[b].reservation = "NONE" /\ entry[b].lock = "NONE" /\ NoPosition(entry[b])
  BY ZenonT(40), <1>3, <1>4 DEF LocalInv, EntryShape, HasPosition
<1>6. /\ entry' \in [Buys -> EntryRow] /\ \A c \in Buys : c # b => entry'[c] = T[c]
      /\ entry'[b].armament = "ARMED" /\ entry'[b].reservation = "RESERVED"
      /\ entry'[b].lock = entry[b].lock /\ entry'[b].exit = entry[b].exit
      /\ entry'[b].position = entry[b].position /\ entry'[b].auth = entry[b].auth
  <2>1. T \in [Buys -> EntryRow] /\ T[b] = entry[b]
    BY ZenonT(40), <1>2, <1>4
  <2>2. entry' = [T EXCEPT ![b].armament = "ARMED", ![b].reservation = "RESERVED"]
    BY ZenonT(40), <1>1
  <2>3. /\ entry'[b].armament = "ARMED" /\ entry'[b].reservation = "RESERVED"
        /\ entry'[b].lock = T[b].lock /\ entry'[b].exit = T[b].exit
        /\ entry'[b].position = T[b].position /\ entry'[b].auth = T[b].auth
    BY ZenonT(40), <2>1, <2>2 DEF EntryRow
  <2>4. entry'[b] \in EntryRow
    BY ZenonT(40), <2>1, <2>2 DEF EntryRow, ArmamentStates, ReservationStates
  <2>5. entry' \in [Buys -> EntryRow] /\ \A c \in Buys : c # b => entry'[c] = T[c]
    BY ZenonT(40), <2>1, <2>2, <2>4
  <2> QED
    BY ZenonT(40), <2>1, <2>3, <2>5
<1>7. LocalInv(b)'
  <2>1. EntryShape(entry'[b])
    BY ZenonT(40), <1>5, <1>6 DEF EntryShape, NoPosition
  <2>2. BuyFits(entry'[b], intents'[id].status, artifacts'[id])
    <3>1. Len(artifacts[id]) <= 1 /\ artifacts[id] = <<>>
      BY ZenonT(40), <1>3, <1>5 DEF LocalInv, BuyFits
    <3> QED
      BY ZenonT(40), <1>1, <1>5, <1>6, <3>1 DEF BuyFits, Pending
  <2>3. \A n \in 1..MaxExits :
          SellFits(entry'[b], n, intents'[<<b, n>>].status, artifacts'[<<b, n>>])
    <3>1. entry[b].exit = 0
      BY ZenonT(40), <1>5 DEF NoPosition
    <3> QED
      BY SMTT(30), <1>1, <1>3, <1>6, <3>1 DEF LocalInv, SellFits
  <2>4. id \in live' /\ \A n \in 1..MaxExits : <<b, n>> \in live' <=> n <= entry'[b].exit
    BY SMTT(30), <1>1, <1>3, <1>6 DEF LocalInv
  <2>5. \A n \in 0..MaxExits : Ledger(n > 0, intents'[<<b, n>>].status, artifacts'[<<b, n>>])
    BY ZenonT(40), <1>1, <1>3 DEF LocalInv
  <2> QED
    BY ZenonT(40), <2>1, <2>2, <2>3, <2>4, <2>5 DEF LocalInv
<1>8. ASSUME NEW c \in Buys, c # b PROVE LocalInv(c)' /\ ~Engaged(c)'
  <2>1. \A n \in 0..MaxExits : <<c, n>> \in live' <=> <<c, n>> \in live
    BY ZenonT(40), <1>1, <1>8
  <2>2. UNCHANGED <<intents, artifacts>>
    BY ZenonT(40), <1>1
  <2>3. CASE c \in Armed
    BY SMTT(30), <1>2, <1>6, <1>8, <2>1, <2>2, <2>3, ReleasedLocal
  <2>4. CASE c \notin Armed
    <3>1. entry'[c] = entry[c]
      BY ZenonT(40), <1>2, <1>6, <1>8, <2>4
    <3>2. Same(c)
      BY ZenonT(40), <2>1, <2>2, <3>1 DEF Same
    <3>3. entry[c].armament \notin {"LOCKED", "ARMED"}
      BY ZenonT(40), <1>1, <2>4 DEF Armed
    <3>4. ~Engaged(c)
      BY ZenonT(40), <1>3, <3>3 DEF LocalInv, EntryShape, HasPosition, NoPosition, Engaged, IsReserved, IsOpen
    <3>5. ~Engaged(c)'
      BY ZenonT(40), <3>1, <3>4 DEF Engaged, IsReserved, IsOpen
    <3> QED
      BY ZenonT(40), <1>3, <3>2, <3>5, LocalFrame
  <2> QED
    BY ZenonT(40), <2>3, <2>4
<1>9. ExposureInv'
  <2>1. exposure - Cardinality(Armed) = 0
    <3>1. CASE Armed = {} /\ Cardinality(Armed) = 0
      <4>1. \A c \in Buys : ~Engaged(c)
        <5> SUFFICES ASSUME NEW c \in Buys PROVE ~Engaged(c)
          BY ZenonT(40)
        <5>1. entry[c].armament \notin {"LOCKED", "ARMED"}
          BY ZenonT(40), <1>1, <3>1 DEF Armed
        <5> QED
          BY Zenon, <1>3, <5>1 DEF LocalInv, EntryShape, HasPosition, NoPosition, Engaged, IsReserved, IsOpen
      <4>2. exposure = 0
        BY ZenonT(40), <4>1 DEF LiveInv, DatabaseInv, ExposureInv
      <4> QED
        BY SMTT(30), <3>1, <4>2
    <3>2. CASE Cardinality(Armed) = 1 /\ exposure = 1
      BY <3>2
    <3> QED
      BY ZenonT(40), <3>1, <3>2, ArmedAlone
  <2>2. exposure' = 1
    BY SMTT(30), <1>1, <2>1
  <2>3. Engaged(b)'
    BY ZenonT(40), <1>6 DEF Engaged, IsReserved
  <2> QED
    BY ZenonT(40), <1>8, <2>2, <2>3 DEF ExposureInv
<1>10. UnknownEffectBlocks'
  <2>1. ~Held(entry)'
    BY ZenonT(40), <1>6, <1>8 DEF Held, Engaged, IsReserved
  <2>2. ~UnresolvedEvidence(artifacts)'
    <3> SUFFICES ASSUME NEW j \in Ids, NEW n \in 1..Len(artifacts[j]),
                        artifacts[j][n].evidence \in {"UNKNOWN", "MISMATCH"}
                 PROVE  FALSE
      BY ZenonT(40), <1>1 DEF UnresolvedEvidence
    <3>1. /\ IsSell(j) => IsOpen(j[1])
          /\ ~IsSell(j) => entry[j[1]].reservation = "UNKNOWN_HELD"
      BY ZenonT(40), UnresolvedIsEngaged DEF LiveInv, DatabaseInv
    <3>2. j[1] \in Buys
      BY ZenonT(40), IdLocal
    <3>3. entry[j[1]].armament = "LOCKED"
      BY ZenonT(40), <1>3, <3>1, <3>2 DEF LocalInv, EntryShape, HasPosition, NoPosition, IsOpen
    <3> QED
      BY ZenonT(40), <1>1, <3>2, <3>3
  <2> QED
    BY ZenonT(40), <2>1, <2>2 DEF UnknownEffectBlocks
<1>11. /\ control' \in ControlStates /\ unknownBlock' \in BOOLEAN
       /\ live \subseteq live' /\ live' \subseteq Ids
  <2>1. id \in Ids
    BY <1>3 DEF Ids
  <2> QED
    BY ZenonT(40), <1>1, <2>1 DEF LiveInv, TypeOK, BlockedAfterRelease, Held
<1>12. UNCHANGED <<intents, artifacts, tokens, worker>> /\ \A c \in Buys : LocalInv(c)'
  BY ZenonT(40), <1>1, <1>7, <1>8
<1> QED
  BY ZenonT(40), <1>6, <1>9, <1>10, <1>11, <1>12, OperatorStep

(* The other steps of the operator: a stop, a resumption, the end of the   *)
(* envelope.                                                               *)
LEMMA OperatorKeeps ==
  ASSUME LiveInv,
         \/ \E mode \in {"ENTRY_STOP", "HARD_STOP"} : SetStop(mode)
         \/ Resume
         \/ \E next \in {"REVOKED", "EXPIRED"} : RevokeEnvelope(next)
  PROVE  LiveInv'
<1>1. control \in ControlStates
  BY ZenonT(40) DEF LiveInv, TypeOK
<1>2. CASE \E mode \in {"ENTRY_STOP", "HARD_STOP"} : SetStop(mode)
  BY ZenonT(40), <1>2, ReleaseKeeps DEF SetStop, ControlStates
<1>3. CASE Resume
  BY ZenonT(40), <1>3, ReleaseKeeps DEF Resume, ControlStates
<1>4. CASE \E next \in {"REVOKED", "EXPIRED"} : RevokeEnvelope(next)
  BY ZenonT(40), <1>1, <1>4, ReleaseKeeps DEF RevokeEnvelope
<1> QED
  BY ZenonT(40), <1>2, <1>3, <1>4

(* The rows of the initial state. *)
LEMMA NewRows ==
  /\ NewIntent \in IntentRow /\ NewIntent.status = "PENDING" /\ NewIntent.attempts = <<>>
  /\ NewIntent.token = 0 /\ NewIntent.revision = 0
  /\ NewEntry \in EntryRow /\ EntryShape(NewEntry) /\ NewEntry.exit = 0
  /\ NewEntry.armament = "NONE" /\ NewEntry.reservation = "NONE" /\ NewEntry.lock = "NONE"
  /\ NewEntry.position = "NONE"
  /\ Idle \in WorkerRow /\ Idle.pc = "IDLE" /\ Idle.id = NoIntent
<1>1. <<>> \in Seq(AttemptStatuses)
  OBVIOUS
<1>2. /\ NewIntent \in IntentRow /\ NewIntent.status = "PENDING" /\ NewIntent.attempts = <<>>
      /\ NewIntent.token = 0 /\ NewIntent.revision = 0
  BY ZenonT(40), <1>1 DEF NewIntent, IntentRow, Statuses
<1>3. /\ NewEntry.exit = 0 /\ NewEntry.armament = "NONE" /\ NewEntry.reservation = "NONE"
      /\ NewEntry.lock = "NONE" /\ NewEntry.position = "NONE" /\ NewEntry.auth = "NONE"
  BY ZenonT(40) DEF NewEntry
<1>4. EntryShape(NewEntry)
  BY ZenonT(40), <1>3 DEF EntryShape, NoPosition
<1>5. NewEntry \in EntryRow
  BY ExecutionLiveAssumption
     DEF NewEntry, EntryRow, ArmamentStates, ReservationStates, LockStates, PositionStates,
         AuthorizationStates
<1>6. Idle \in WorkerRow /\ Idle.pc = "IDLE" /\ Idle.id = NoIntent
  BY ZenonT(40), ChainFacts DEF Idle, WorkerRow, WorkerPcs, Unsent
<1> QED
  BY ZenonT(40), <1>2, <1>3, <1>4, <1>5, <1>6

(* The initial state. *)
LEMMA LiveInit == Init => LiveInv
<1> SUFFICES ASSUME Init PROVE LiveInv
  BY ZenonT(40)
<1>1. /\ control = "RUNNING" /\ unknownBlock = FALSE /\ exposure = 0
      /\ intents = [id \in Ids |-> NewIntent] /\ live = {} /\ entry = [b \in Buys |-> NewEntry]
      /\ artifacts = [id \in Ids |-> <<>>] /\ tokens = 0 /\ worker = [w \in Workers |-> Idle]
  BY ZenonT(40) DEF Init
<1>2. MaxExits \in Nat /\ MaxTokens \in Nat
  BY ZenonT(40), ExecutionLiveAssumption
<1>3. TypeOK
  <2>1. artifacts \in [Ids -> Seq(ArtifactRow)]
    <3>1. <<>> \in Seq(ArtifactRow)
      OBVIOUS
    <3> QED
      BY ZenonT(40), <1>1, <3>1
  <2>2. intents \in [Ids -> IntentRow] /\ entry \in [Buys -> EntryRow]
    BY ZenonT(40), <1>1, NewRows
  <2>3. worker \in [Workers -> WorkerRow]
    BY ZenonT(40), <1>1, NewRows
  <2>4. control \in ControlStates /\ unknownBlock \in BOOLEAN /\ live \subseteq Ids
    BY ZenonT(40), <1>1 DEF ControlStates
  <2>5. exposure \in Nat
    BY ZenonT(40), <1>1
  <2>6. tokens \in 0..MaxTokens
    BY <1>1, <1>2
  <2> QED
    BY ZenonT(40), <2>1, <2>2, <2>3, <2>4, <2>5, <2>6 DEF TypeOK
<1>4. \A id \in Ids : intents[id] = NewIntent /\ artifacts[id] = <<>>
  BY ZenonT(40), <1>1
<1>5. \A b \in Buys : entry[b] = NewEntry
  BY ZenonT(40), <1>1
<1>6. ASSUME NEW b \in Buys PROVE LocalInv(b)
  <2>1. \A n \in 0..MaxExits : intents[<<b, n>>].status = "PENDING" /\ artifacts[<<b, n>>] = <<>>
    BY ZenonT(40), <1>4, NewRows DEF Ids
  <2>2. \A n \in 0..MaxExits : Ledger(n > 0, intents[<<b, n>>].status, artifacts[<<b, n>>])
    BY <2>1 DEF Ledger, Decisive, Pending
  <2>3. BuyFits(entry[b], intents[<<b, 0>>].status, artifacts[<<b, 0>>])
    <3>1. intents[<<b, 0>>].status = "PENDING" /\ artifacts[<<b, 0>>] = <<>>
      BY SMTT(30), <1>2, <2>1
    <3>2. Len(<<>>) <= 1
      OBVIOUS
    <3> QED
      BY ZenonT(40), <1>5, <3>1, <3>2, NewRows DEF BuyFits, Decisive, Pending
  <2>4. ASSUME NEW n \in 1..MaxExits
        PROVE  SellFits(entry[b], n, intents[<<b, n>>].status, artifacts[<<b, n>>])
    <3>1. n \in 0..MaxExits /\ n > 0
      BY SMTT(30), <1>2
    <3>2. intents[<<b, n>>].status = "PENDING" /\ artifacts[<<b, n>>] = <<>>
      BY ZenonT(40), <2>1, <3>1
    <3> QED
      BY SMTT(30), <1>5, <3>1, <3>2, NewRows DEF SellFits
  <2>5. \A n \in 1..MaxExits : <<b, n>> \in live <=> n <= entry[b].exit
    BY SMTT(30), <1>1, <1>2, <1>5, NewRows
  <2> QED
    BY ZenonT(40), <1>5, <2>2, <2>3, <2>4, <2>5, NewRows DEF LocalInv
<1>7. ExposureInv
  BY ZenonT(40), <1>1, <1>5, NewRows DEF ExposureInv, Engaged, IsReserved, IsOpen
<1>8. UnknownEffectBlocks
  <2>1. ~Held(entry)
    BY ZenonT(40), <1>5, NewRows DEF Held
  <2>2. ~UnresolvedEvidence(artifacts)
    BY <1>4 DEF UnresolvedEvidence
  <2> QED
    BY ZenonT(40), <2>1, <2>2 DEF UnknownEffectBlocks
<1>9. WorkersInv
  <2>1. \A w \in Workers : worker[w].pc = "IDLE" /\ worker[w].id = NoIntent
    BY ZenonT(40), <1>1, NewRows
  <2>2. \A w \in Workers : ~Engages(w)
    BY ZenonT(40), <2>1 DEF Engages
  <2>3. \A w \in Workers : WorkerInv(w) /\ MemoryInv(w)
    BY ZenonT(40), <2>1, <2>2 DEF WorkerInv, MemoryInv
  <2>4. \A id \in Ids : intents[id].token <= tokens /\ Counted(intents[id], artifacts[id])
    BY SMTT(30), <1>1, <1>4, NewRows DEF Counted, Pending, HasStarted
  <2> QED
    BY ZenonT(40), <2>2, <2>3, <2>4 DEF WorkersInv
<1> QED
  BY ZenonT(40), <1>3, <1>6, <1>7, <1>8, <1>9 DEF LiveInv, DatabaseInv

(* Every step of an executor. *)
LEMMA ExecutorKeeps ==
  ASSUME LiveInv, NEW w \in Workers, Executor(w)
  PROVE  LiveInv'
<1>1. CASE PrePass(w)
  BY ZenonT(40), <1>1, PrePassKeeps
<1>2. CASE RecoverStranded(w)
  BY ZenonT(40), <1>2, RecoverStrandedKeeps
<1>3. CASE ClaimExecution(w)
  BY ZenonT(40), <1>3, ClaimsKeep
<1>4. CASE StartProcessing(w)
  BY Zenon, <1>4, StartProcessingKeeps
<1>5. CASE BeginAttempt(w)
  BY Zenon, <1>5, BeginAttemptKeeps
<1>6. CASE EvaluationFails(w)
  BY Zenon, <1>6, EvaluationFailsKeeps
<1>7. CASE Authorize(w)
  BY Zenon, <1>7, AuthorizeKeeps
<1>8. CASE PersistSigned(w)
  BY Zenon, <1>8, PersistSignedKeeps
<1>9. CASE ResumePersisted(w)
  BY Zenon, <1>9, ResumePersistedKeeps
<1>10. CASE RecordSignedSimulation(w)
  BY Zenon, <1>10, RecordSignedSimulationKeeps
<1>11. CASE RevokeBeforeSubmission(w)
  BY Zenon, <1>11, RevokeBeforeSubmissionKeeps
<1>12. CASE BeginSubmission(w)
  BY Zenon, <1>12, BeginSubmissionKeeps
<1>13. CASE \E sent, accepted \in BOOLEAN : Send(w, sent, accepted)
  BY ZenonT(40), <1>13, SendKeeps
<1>14. CASE RecordSubmissionOutcome(w)
  BY Zenon, <1>14, RecordSubmissionOutcomeKeeps
<1> QED
  BY ZenonT(40), <1>1, <1>2, <1>3, <1>4, <1>5, <1>6, <1>7, <1>8, <1>9, <1>10, <1>11, <1>12, <1>13, <1>14
     DEF Executor

(* Every step of a recovery worker. *)
LEMMA RecovererKeeps ==
  ASSUME LiveInv, NEW w \in Workers, Recoverer(w)
  PROVE  LiveInv'
<1>1. CASE ClaimConfirmation(w) \/ ClaimReconciliation(w)
  BY ZenonT(40), <1>1, ClaimsKeep
<1>2. CASE ObserveSignature(w)
  BY Zenon, <1>2, ObserveSignatureKeeps
<1>3. CASE RecordConfirmation(w)
  BY Zenon, <1>3, RecordConfirmationKeeps
<1>4. CASE RecordConfirmationExpiry(w)
  BY Zenon, <1>4, RecordConfirmationExpiryKeeps
<1>5. CASE StartReads(w)
  BY Zenon, <1>5, StartReadsKeeps
<1>6. CASE EndReads(w)
  BY Zenon, <1>6, EndReadsKeeps
<1>7. CASE BuyMatched(w)
  BY Zenon, <1>7, BuyMatchedKeeps
<1>8. CASE BuyNoEffect(w)
  BY Zenon, <1>8, BuyNoEffectKeeps
<1>9. CASE BuyUnresolved(w)
  BY Zenon, <1>9, BuyUnresolvedKeeps
<1>10. CASE SellMatched(w)
  BY Zenon, <1>10, SellMatchedKeeps
<1>11. CASE SellNoEffect(w)
  BY Zenon, <1>11, SellNoEffectKeeps
<1>12. CASE SellUnresolved(w)
  BY Zenon, <1>12, SellUnresolvedKeeps
<1> QED
  BY ZenonT(40), <1>1, <1>2, <1>3, <1>4, <1>5, <1>6, <1>7, <1>8, <1>9, <1>10, <1>11, <1>12 DEF Recoverer

(* Every step of the protocol. *)
LEMMA LiveStep == LiveInv /\ [Next]_vars => LiveInv'
<1> SUFFICES ASSUME LiveInv, [Next]_vars PROVE LiveInv'
  BY ZenonT(40)
<1>1. Executors \subseteq Workers /\ Recoverers \subseteq Workers
  BY ZenonT(40) DEF Workers
<1>2. CASE \E w \in Executors : Executor(w)
  BY ZenonT(40), <1>1, <1>2, ExecutorKeeps
<1>3. CASE \E w \in Recoverers : Recoverer(w)
  BY ZenonT(40), <1>1, <1>3, RecovererKeeps
<1>4. CASE \E w \in Workers : Finish(w) \/ Crash(w)
  BY ZenonT(40), <1>4, FinishKeeps, CrashKeeps
<1>5. CASE \/ \E mode \in {"ENTRY_STOP", "HARD_STOP"} : SetStop(mode)
           \/ Resume
           \/ \E next \in {"REVOKED", "EXPIRED"} : RevokeEnvelope(next)
  BY ZenonT(40), <1>5, OperatorKeeps
<1>6. CASE \E b \in Buys : Arm(b) \/ CreateExit(b) \/ ReExit(b)
  BY ZenonT(40), <1>6, ArmKeeps, CreateExitKeeps, ReExitKeeps
<1>7. CASE \E id \in Ids : Expire(id) \/ LeaseLapses(id) \/ IntentExpires(id) \/ Chain(id)
  BY ZenonT(40), <1>7, ExpireKeeps, LeaseLapsesKeeps, IntentExpiresKeeps, ChainKeeps
<1>8. CASE UNCHANGED vars
  <2>1. /\ UNCHANGED <<intents, artifacts, tokens, worker, unknownBlock, exposure, live, entry>>
        /\ control' = control
    BY ZenonT(40), <1>8 DEF vars
  <2>2. DatabaseInv'
    BY ZenonT(40), <2>1, DatabaseFrame
  <2>3. control \in ControlStates /\ unknownBlock \in BOOLEAN /\ live \subseteq Ids
        /\ entry \in [Buys -> EntryRow]
    BY ZenonT(40) DEF LiveInv, TypeOK
  <2> QED
    BY ZenonT(40), <2>1, <2>2, <2>3, OperatorStep DEF DatabaseInv
<1> QED
  BY ZenonT(40), <1>2, <1>3, <1>4, <1>5, <1>6, <1>7, <1>8 DEF Next

(***************************************************************************)
(* LiveInv is an invariant: in every reachable state of executors,         *)
(* recovery workers, operator, network and time, each intent, its signed   *)
(* transactions, its entry and the worker that holds its lease agree       *)
(* (execution-live.repository.ts).                                         *)
(***************************************************************************)
THEOREM LiveInvariant == Spec => []LiveInv
<1> QED
  BY LiveInit, LiveStep, PTL DEF Spec

(* A signed transaction is either settled or the latest of an intent that  *)
(* its fate decides.                                                       *)
LEMMA SignedFacts ==
  ASSUME LiveInv, NEW t \in Transactions
  PROVE  /\ t[1] \in Ids /\ t[2] \in 1..Len(artifacts[t[1]]) /\ t = <<t[1], t[2]>>
         /\ Artifact(t) \in ArtifactRow
         /\ \/ Settled(IsSell(t[1]), Artifact(t))
            \/ /\ t[2] = Len(artifacts[t[1]]) /\ intents[t[1]].status \in Decisive
               /\ Fits(intents[t[1]].status, Artifact(t))
         /\ IsSell(t[1]) => t[1][2] <= entry[t[1][1]].exit
<1>1. PICK id \in Ids : \E n \in 1..Len(artifacts[id]) : t = <<id, n>>
  BY ZenonT(40) DEF Transactions
<1>2. PICK n \in 1..Len(artifacts[id]) : t = <<id, n>>
  BY ZenonT(40), <1>1
<1>3. t[1] = id /\ t[2] = n /\ Artifact(t) = artifacts[id][n]
  BY ZenonT(40), <1>2 DEF Artifact
<1>4. /\ artifacts[id] \in Seq(ArtifactRow) /\ Len(artifacts[id]) \in Nat
      /\ Ledger(IsSell(id), intents[id].status, artifacts[id])
      /\ IsSell(id) => SellFits(entry[id[1]], id[2], intents[id].status, artifacts[id])
      /\ id[2] \in 0..MaxExits /\ entry[id[1]] \in EntryRow
  BY ZenonT(40), IdLocal
<1>5. Artifact(t) \in ArtifactRow
  BY SMTT(30), <1>3, <1>4
<1>6. \/ Settled(IsSell(id), artifacts[id][n])
      \/ n = Len(artifacts[id]) /\ intents[id].status \in Decisive
  BY <1>4 DEF Ledger
<1>7. n = Len(artifacts[id]) /\ intents[id].status \in Decisive
        => Fits(intents[id].status, artifacts[id][n])
  BY ZenonT(40), <1>4 DEF Ledger
<1>8. IsSell(id) => id[2] <= entry[id[1]].exit
  <2>1. artifacts[id] # <<>>
    BY <1>4
  <2>2. MaxExits \in Nat
    BY ZenonT(40), ExecutionLiveAssumption
  <2> QED
    BY SMTT(30), <1>4, <2>1, <2>2 DEF SellFits, EntryRow
<1> QED
  BY ZenonT(40), <1>2, <1>3, <1>5, <1>6, <1>7, <1>8

(* An intent that a transaction decides and that has not succeeded engages *)
(* its entry, and is the only one that does.                               *)
LEMMA PendingEngages ==
  ASSUME LiveInv, NEW id \in Ids, intents[id].status \in Pending
  PROVE  /\ id[1] \in Buys /\ Engaged(id[1])
         /\ id = <<id[1], IF IsReserved(id[1]) THEN 0 ELSE entry[id[1]].exit>>
<1>1. /\ id[1] \in Buys /\ id[2] \in 0..MaxExits /\ id = <<id[1], id[2]>>
      /\ entry[id[1]] \in EntryRow /\ EntryShape(entry[id[1]])
      /\ ~IsSell(id) => /\ id = <<id[1], 0>>
                        /\ BuyFits(entry[id[1]], intents[id].status, artifacts[id])
      /\ IsSell(id) => SellFits(entry[id[1]], id[2], intents[id].status, artifacts[id])
  BY ZenonT(40), IdLocal
<1>2. CASE ~IsSell(id)
  <2>1. IsReserved(id[1])
    BY ZenonT(40), <1>1, <1>2 DEF BuyFits, IsReserved
  <2> QED
    BY ZenonT(40), <1>1, <1>2, <2>1 DEF Engaged
<1>3. CASE IsSell(id)
  <2>1. MaxExits \in Nat /\ entry[id[1]].exit \in 0..MaxExits
    BY ZenonT(40), <1>1, ExecutionLiveAssumption DEF EntryRow
  <2>2. id[2] = entry[id[1]].exit
    BY SMTT(30), <1>1, <1>3, <2>1 DEF SellFits, Pending
  <2>3. entry[id[1]].auth = "LOCKED"
    BY ZenonT(40), <1>1, <1>3, <2>1, <2>2 DEF SellFits
  <2>4. IsOpen(id[1]) /\ ~IsReserved(id[1])
    BY ZenonT(40), <1>1, <2>3 DEF EntryShape, NoPosition, HasPosition, IsOpen, IsReserved
  <2> QED
    BY ZenonT(40), <1>1, <2>2, <2>4 DEF Engaged
<1> QED
  BY ZenonT(40), <1>2, <1>3

(* At most one entry is reserved or open. *)
LEMMA EngagedAlone ==
  ASSUME LiveInv, NEW b \in Buys, NEW c \in Buys, Engaged(b), Engaged(c)
  PROVE  b = c
BY ZenonT(40) DEF LiveInv, DatabaseInv, ExposureInv

(* OneTransactionInFlight follows from LiveInv. *)
LEMMA OneInFlight ==
  ASSUME LiveInv, PromptReads
  PROVE  OneTransactionInFlight
<1>1. ASSUME NEW t \in Transactions, MayTakeEffect(Artifact(t))
      PROVE  intents[t[1]].status \in Pending /\ t[2] = Len(artifacts[t[1]])
             /\ t[1] \in Ids /\ t = <<t[1], t[2]>>
  <2>1. Artifact(t).chain \in {Unsent, Sent}
    BY ZenonT(40), <1>1 DEF MayTakeEffect, Unsent, Sent
  <2>2. ~Settled(IsSell(t[1]), Artifact(t))
    <3>1. Artifact(t).chain = Unsent =>
            Artifact(t).state \in {"PERSISTED", "SIGNED_SIMULATED", "SUBMISSION_STARTED"}
      BY ZenonT(40), <1>1, ChainFacts DEF MayTakeEffect, Unsent, Sent
    <3> QED
      BY ZenonT(40), <2>1, <3>1, ChainFacts DEF Settled
  <2>3. /\ t[2] = Len(artifacts[t[1]]) /\ intents[t[1]].status \in Decisive
        /\ Fits(intents[t[1]].status, Artifact(t)) /\ t[1] \in Ids /\ t = <<t[1], t[2]>>
    BY ZenonT(40), <2>2, SignedFacts
  <2>4. intents[t[1]].status # "SUCCEEDED"
    BY ZenonT(40), <2>1, <2>3, ChainFacts DEF Fits
  <2> QED
    BY ZenonT(40), <2>3, <2>4 DEF Decisive
<1>2. ASSUME NEW s \in Transactions, NEW t \in Transactions,
             MayTakeEffect(Artifact(s)), MayTakeEffect(Artifact(t))
      PROVE  s = t
  <2>1. /\ intents[s[1]].status \in Pending /\ s[2] = Len(artifacts[s[1]])
        /\ s[1] \in Ids /\ s = <<s[1], s[2]>>
    BY ZenonT(40), <1>1, <1>2
  <2>2. /\ intents[t[1]].status \in Pending /\ t[2] = Len(artifacts[t[1]])
        /\ t[1] \in Ids /\ t = <<t[1], t[2]>>
    BY ZenonT(40), <1>1, <1>2
  <2> DEFINE i == s[1]
             j == t[1]
  <2>3. /\ i[1] \in Buys /\ Engaged(i[1])
        /\ i = <<i[1], IF IsReserved(i[1]) THEN 0 ELSE entry[i[1]].exit>>
    BY ZenonT(40), <2>1, PendingEngages
  <2>4. /\ j[1] \in Buys /\ Engaged(j[1])
        /\ j = <<j[1], IF IsReserved(j[1]) THEN 0 ELSE entry[j[1]].exit>>
    BY ZenonT(40), <2>2, PendingEngages
  <2>5. i[1] = j[1]
    BY ZenonT(40), <2>3, <2>4, EngagedAlone
  <2>6. i = j
    BY SMTT(30), <2>3, <2>4, <2>5
  <2> QED
    BY ZenonT(40), <2>1, <2>2, <2>6
<1> QED
  BY ZenonT(40), <1>2 DEF OneTransactionInFlight

(* NeverSoldTwice follows from LiveInv. *)
LEMMA SoldOnce ==
  ASSUME LiveInv, PromptReads
  PROVE  NeverSoldTwice
<1> SUFFICES ASSUME NEW s \in Transactions, NEW t \in Transactions,
                    s[1][1] = t[1][1], IsSell(s[1]), IsSell(t[1]),
                    Artifact(s).chain \in {Landed("LANDED"), Finalized("LANDED")}
             PROVE  \/ t[1][2] < s[1][2]
                    \/ t[1][2] = s[1][2] /\ t[2] <= s[2]
  BY ZenonT(40) DEF NeverSoldTwice
<1> DEFINE i == s[1]
           j == t[1]
<1>1. ~Settled(IsSell(i), Artifact(s))
  BY ChainFacts DEF Settled
<1>2. /\ i \in Ids /\ s[2] = Len(artifacts[i]) /\ intents[i].status \in Decisive
  BY ZenonT(40), <1>1, SignedFacts
<1>3. /\ j \in Ids /\ t[2] \in 1..Len(artifacts[j]) /\ j[2] <= entry[j[1]].exit
  BY ZenonT(40), SignedFacts
<1>4. /\ i[1] \in Buys /\ i[2] \in 0..MaxExits /\ i = <<i[1], i[2]>> /\ entry[i[1]] \in EntryRow
      /\ SellFits(entry[i[1]], i[2], intents[i].status, artifacts[i])
      /\ Len(artifacts[i]) \in Nat
  BY ZenonT(40), <1>2, IdLocal
<1>5. j[2] \in 0..MaxExits /\ j = <<j[1], j[2]>>
  BY ZenonT(40), <1>3, IdLocal
<1>6. MaxExits \in Nat /\ entry[i[1]].exit \in 0..MaxExits
  BY ZenonT(40), <1>4, ExecutionLiveAssumption DEF EntryRow
<1>7. i[2] >= entry[i[1]].exit
  BY SMTT(30), <1>2, <1>4, <1>6 DEF SellFits, Decisive, Pending
<1>8. j[2] <= i[2]
  BY SMTT(30), <1>3, <1>4, <1>5, <1>6, <1>7
<1>9. CASE j[2] = i[2]
  <2>1. j = i
    BY ZenonT(40), <1>4, <1>5, <1>9
  <2> QED
    BY SMTT(30), <1>2, <1>3, <1>4, <1>9, <2>1
<1>10. CASE j[2] # i[2]
  BY SMTT(30), <1>4, <1>5, <1>6, <1>8, <1>10
<1> QED
  BY ZenonT(40), <1>9, <1>10

(* GivenUpNeverLands follows from LiveInv. *)
LEMMA GivenUp ==
  ASSUME LiveInv, PromptReads
  PROVE  GivenUpNeverLands
<1> SUFFICES ASSUME NEW t \in Transactions,
                    \/ Artifact(t).state = "REVOKED_NO_SEND"
                    \/ ~IsSell(t[1]) /\ entry[t[1][1]].reservation = "RELEASED"
             PROVE  Artifact(t).chain \in {Unsent, Dead}
  BY ZenonT(40) DEF GivenUpNeverLands, Unsent, Dead
<1>1. /\ t[1] \in Ids
      /\ \/ Settled(IsSell(t[1]), Artifact(t))
         \/ /\ t[2] = Len(artifacts[t[1]]) /\ intents[t[1]].status \in Decisive
            /\ Fits(intents[t[1]].status, Artifact(t))
  BY ZenonT(40), SignedFacts
<1>2. ~IsSell(t[1]) => BuyFits(entry[t[1][1]], intents[t[1]].status, artifacts[t[1]])
  BY ZenonT(40), <1>1, IdLocal
<1>3. CASE Artifact(t).state = "REVOKED_NO_SEND"
  BY ZenonT(40), <1>1, <1>3 DEF Settled, Fits, Early, Decisive, Pending
<1>4. CASE ~IsSell(t[1]) /\ entry[t[1][1]].reservation = "RELEASED"
  <2>1. intents[t[1]].status \notin Decisive
    BY ZenonT(40), <1>2, <1>4 DEF BuyFits, Decisive
  <2> QED
    BY ZenonT(40), <1>1, <1>4, <2>1 DEF Settled
<1> QED
  BY ZenonT(40), <1>3, <1>4

(* ExposureIsHeld follows from LiveInv. *)
LEMMA Counts ==
  ASSUME LiveInv
  PROVE  ExposureIsHeld
<1> DEFINE engaged == {b \in Buys : IsReserved(b) \/ IsOpen(b)}
<1>1. CASE exposure = 0 /\ \A b \in Buys : ~Engaged(b)
  <2>1. engaged = {}
    BY ZenonT(40), <1>1 DEF Engaged
  <2> HIDE DEF engaged
  <2>2. Cardinality(engaged) = 0
    BY ZenonT(40), <2>1, FS_EmptySet
  <2> QED
    BY SMTT(30), <1>1, <2>2 DEF ExposureIsHeld, engaged
<1>2. CASE exposure = 1 /\ \E b \in Buys : \A c \in Buys : Engaged(c) <=> c = b
  <2>1. PICK b \in Buys : \A c \in Buys : Engaged(c) <=> c = b
    BY ZenonT(40), <1>2
  <2>2. engaged = {b}
    BY ZenonT(40), <2>1 DEF Engaged
  <2> HIDE DEF engaged
  <2>3. Cardinality(engaged) = 1
    BY ZenonT(40), <2>2, FS_Singleton
  <2> QED
    BY <1>2, <2>3 DEF ExposureIsHeld, engaged
<1> QED
  BY ZenonT(40), <1>1, <1>2 DEF LiveInv, DatabaseInv, ExposureInv

(* DeadExitIsReplaceable follows from LiveInv. *)
LEMMA Replaceable ==
  ASSUME LiveInv
  PROVE  DeadExitIsReplaceable
<1> SUFFICES ASSUME NEW b \in Buys, IsOpen(b), entry[b].exit > 0, IsFinal(intents[CurrentExit(b)])
             PROVE  /\ entry[b].position = "EXIT_PENDING" /\ entry[b].auth = "ACTIVE"
                    /\ \A n \in 1..Len(artifacts[CurrentExit(b)]) :
                         artifacts[CurrentExit(b)][n].state \in {"RECONCILED", "REVOKED_NO_SEND"}
  BY ZenonT(40) DEF DeadExitIsReplaceable
<1> DEFINE k == entry[b].exit
           id == <<b, k>>
<1>1. CurrentExit(b) = id /\ intents[id].status \in TerminalStatuses
  BY ZenonT(40) DEF CurrentExit, IsFinal
<1>2. entry[b] \in EntryRow /\ MaxExits \in Nat /\ LocalInv(b)
  BY ZenonT(40), ExecutionLiveAssumption DEF LiveInv, TypeOK, DatabaseInv
<1>3. k \in 1..MaxExits
  BY SMTT(30), <1>2 DEF EntryRow
<1>4. /\ SellFits(entry[b], k, intents[id].status, artifacts[id]) /\ EntryShape(entry[b])
      /\ Ledger(k > 0, intents[id].status, artifacts[id])
  BY SMTT(30), <1>2, <1>3 DEF LocalInv
<1>5. intents[id].status \notin Decisive /\ entry[b].auth = "ACTIVE"
  <2>1. intents[id].status \notin Pending
    BY ZenonT(40), <1>1 DEF Pending, TerminalStatuses
  <2>2. intents[id].status # "SUCCEEDED"
    BY ZenonT(40), <1>4, <2>1 DEF SellFits, IsOpen
  <2> QED
    BY ZenonT(40), <1>4, <2>1, <2>2 DEF SellFits, Decisive
<1>6. entry[b].position = "EXIT_PENDING"
  BY SMTT(30), <1>3, <1>4, <1>5 DEF EntryShape, NoPosition, HasPosition
<1>7. \A n \in 1..Len(artifacts[id]) : artifacts[id][n].state \in {"RECONCILED", "REVOKED_NO_SEND"}
  BY ZenonT(40), <1>4, <1>5 DEF Ledger, Settled
<1> QED
  BY ZenonT(40), <1>1, <1>5, <1>6, <1>7

(***************************************************************************)
(* The exposure that execution-live.repository.ts keeps for the wallet is  *)
(* the number of entries reserved or open, in every interleaving of        *)
(* executors, recovery, operator and time.                                 *)
(***************************************************************************)
THEOREM ExposureIsCounted == Spec => []ExposureIsHeld
<1>1. LiveInv => ExposureIsHeld
  BY ZenonT(40), Counts
<1> QED
  BY <1>1, LiveInvariant, PTL

(***************************************************************************)
(* As long as a transaction has unresolved evidence or a reservation is    *)
(* held as unknown, the risk state has unknown_block set, so that no other *)
(* BUY can be armed.                                                       *)
(***************************************************************************)
THEOREM UnknownEffectsBlock == Spec => []UnknownEffectBlocks
<1>1. LiveInv => UnknownEffectBlocks
  BY ZenonT(40) DEF LiveInv, DatabaseInv
<1> QED
  BY <1>1, LiveInvariant, PTL

(***************************************************************************)
(* No step leaves an open position whose exit is dead in a state in which  *)
(* the recovery cannot create another exit.                                *)
(***************************************************************************)
THEOREM ExitsAreReplaceable == Spec => []DeadExitIsReplaceable
<1>1. LiveInv => DeadExitIsReplaceable
  BY Zenon, Replaceable
<1> QED
  BY <1>1, LiveInvariant, PTL

(***************************************************************************)
(* At most one transaction may still take effect at any time. The          *)
(* hypothesis is the timing assumption of the reconciliation               *)
(* (PromptReads): a transaction that its first read sees pending does not  *)
(* finalize before its last read.                                          *)
(***************************************************************************)
THEOREM TransactionsAreSingle ==
  ASSUME PromptReads
  PROVE  Spec => []OneTransactionInFlight
<1>1. LiveInv => OneTransactionInFlight
  BY ZenonT(40), OneInFlight
<1> QED
  BY <1>1, LiveInvariant, PTL

(***************************************************************************)
(* A transaction that a reconciliation recorded as NO_EFFECT, or that was  *)
(* revoked before its submission, never lands, when reconciliation reads   *)
(* are prompt.                                                             *)
(***************************************************************************)
THEOREM GivenUpIsDead ==
  ASSUME PromptReads
  PROVE  Spec => []GivenUpNeverLands
<1>1. LiveInv => GivenUpNeverLands
  BY ZenonT(40), GivenUp
<1> QED
  BY <1>1, LiveInvariant, PTL

(***************************************************************************)
(* No position is sold by two landed transactions, when reconciliation     *)
(* reads are prompt.                                                       *)
(***************************************************************************)
THEOREM PositionsAreSoldOnce ==
  ASSUME PromptReads
  PROVE  Spec => []NeverSoldTwice
<1>1. LiveInv => NeverSoldTwice
  BY Zenon, SoldOnce
<1> QED
  BY <1>1, LiveInvariant, PTL

=============================================================================
