------------------------ MODULE ExecutionLiveRecoverer ------------------------
EXTENDS ExecutionLiveInvariant, TLAPS

(***************************************************************************)
(* Every step of time, of confirmation, of reconciliation and of the       *)
(* creation of exits keeps LiveInv: one lemma per action of ExecutionLive  *)
(* that the lanes of executor-live-recovery take.                          *)
(***************************************************************************)

(* Time, expiration and claims. *)

(* A step of time writes one intent and takes its lease, or lets it lapse. *)
LEMMA TimeWrites ==
  ASSUME LiveInv, NEW id \in Ids, NEW q \in IntentRow,
         intents' = [intents EXCEPT ![id] = q],
         UNCHANGED <<control, unknownBlock, exposure, live, entry, artifacts, tokens, worker>>,
         q.revision >= intents[id].revision, Counted(q, artifacts[id]),
         \/ q.status = intents[id].status
         \/ /\ intents[id].status \in Unsigned /\ (id \in live \/ ~IsSell(id))
            /\ q.status \in {"PROCESSING", "FAILED", "EXPIRED"},
         \/ q.token = 0
         \/ /\ q.token = intents[id].token /\ q.status = intents[id].status
            /\ q.revision = intents[id].revision /\ (q.lapsed \/ q.lapsed = intents[id].lapsed)
  PROVE  LiveInv'
<1>1. intents'[id] = q /\ \A j \in Ids : j # id => intents'[j] = intents[j]
  BY ZenonT(40) DEF LiveInv, TypeOK
<1>2. TypeOK'
  BY Zenon DEF LiveInv, TypeOK
<1>3. DatabaseInv'
  BY ZenonT(40), <1>1, StatusWritten
<1>4. Advanced(id)
  BY Zenon, RowWritten
<1>5. TypeOK /\ (\A b \in Buys : LocalInv(b)) /\ WorkersInv
  BY Zenon DEF LiveInv, DatabaseInv
<1>6. \A v \in Workers : Steady(v)
  <2> SUFFICES ASSUME NEW v \in Workers, Engages(v), Owns(v)'
               PROVE  Owns(v) /\ Undisturbed(worker[v].id)
    BY Zenon DEF Steady
  <2>1. worker[v].id \in Ids /\ worker[v].claim.token # 0
    BY Zenon, OwnerFacts
  <2>2. Undisturbed(worker[v].id)
    BY Zenon DEF Undisturbed, Moves
  <2>3. Fenced(intents'[worker[v].id], worker[v].claim)
    BY Zenon DEF Owns, Row
  <2>4. Fenced(intents[worker[v].id], worker[v].claim)
    BY ZenonT(40), <1>1, <2>1, <2>3 DEF Fenced
  <2> QED
    BY ZenonT(40), <2>2, <2>4 DEF Owns, Row
<1>7. \A j \in Ids : Advanced(j)
  <2> SUFFICES ASSUME NEW j \in Ids, j # id PROVE Advanced(j)
    BY ZenonT(40), <1>4
  <2>1. intents[j].revision \in Nat /\ Len(artifacts[j]) \in Nat
    BY SMTT(30), <1>5 DEF TypeOK, IntentRow
  <2> QED
    BY <1>1, <2>1 DEF Advanced
<1>8. tokens \in Nat /\ tokens' = tokens
  BY <1>5 DEF TypeOK
<1>9. \A j \in Ids : intents'[j].token <= tokens' /\ Counted(intents'[j], artifacts'[j])
  BY <1>1, <1>5, <1>8 DEF WorkersInv
<1>10. WorkersInv'
  BY SMTT(30), <1>2, <1>5, <1>6, <1>7, <1>8, <1>9, WorkersKept
<1> QED
  BY ZenonT(40), <1>2, <1>3, <1>10 DEF LiveInv

(* An intent that may be expired has nothing pending. *)
LEMMA ExpiredRowFacts ==
  ASSUME LiveInv, NEW id \in Ids, Expirable(intents[id]), Exists(id)
  PROVE  LET q == ExpiredRow(intents[id])
         IN /\ q \in IntentRow /\ q.status = "EXPIRED" /\ q.token = 0
            /\ q.revision >= intents[id].revision /\ Counted(q, artifacts[id])
            /\ intents[id].status \in Unsigned /\ (id \in live \/ ~IsSell(id))
<1>1. intents[id] \in IntentRow /\ Ledger(IsSell(id), intents[id].status, artifacts[id])
  BY ZenonT(40), IdLocal
<1>2. intents[id].status \in Unsigned
  BY ZenonT(40), <1>1 DEF Expirable, PreSubmissionStatuses, Ledger, Unsigned
<1> QED
  BY ZenonT(40), <1>1, <1>2, EndedFacts DEF ExpiredRow, TerminalStatuses, Exists

(* An overdue intent without a pending transaction expires. *)
LEMMA ExpireKeeps ==
  ASSUME LiveInv, NEW id \in Ids, Expire(id)
  PROVE  LiveInv'
<1> DEFINE q == ExpiredRow(intents[id])
<1>1. /\ q \in IntentRow /\ q.status = "EXPIRED" /\ q.token = 0
      /\ q.revision >= intents[id].revision /\ Counted(q, artifacts[id])
      /\ intents[id].status \in Unsigned /\ (id \in live \/ ~IsSell(id))
  BY ZenonT(40), ExpiredRowFacts DEF Expire
<1>2. intents' = [intents EXCEPT ![id] = q]
  BY Zenon DEF Expire
<1> HIDE DEF q
<1> QED
  BY ZenonT(40), <1>1, <1>2, TimeWrites DEF Expire

(* A lease lapses while its holder goes on. *)
LEMMA LeaseLapsesKeeps ==
  ASSUME LiveInv, NEW id \in Ids, LeaseLapses(id)
  PROVE  LiveInv'
<1> DEFINE q == [intents[id] EXCEPT !.lapsed = TRUE]
<1>1. intents[id] \in IntentRow /\ Counted(intents[id], artifacts[id])
  BY Zenon, IdLocal
<1>2. /\ q \in IntentRow /\ q.status = intents[id].status /\ q.token = intents[id].token
      /\ q.revision = intents[id].revision /\ q.attempts = intents[id].attempts /\ q.lapsed
  BY ZenonT(40), <1>1 DEF IntentRow
<1>3. intents' = [intents EXCEPT ![id] = q]
  BY Zenon DEF LeaseLapses
<1> HIDE DEF q
<1>4. Counted(q, artifacts[id]) /\ q.revision >= intents[id].revision
  <2>1. HasStarted(q) <=> HasStarted(intents[id])
    BY ZenonT(40), <1>2 DEF HasStarted
  <2>2. Counted(q, artifacts[id])
    BY ZenonT(40), <1>1, <1>2, <2>1 DEF Counted
  <2>3. q.revision \in Nat
    BY ZenonT(40), <1>2 DEF IntentRow
  <2> QED
    BY <1>2, <2>2, <2>3
<1> QED
  BY ZenonT(40), <1>1, <1>2, <1>3, <1>4, TimeWrites DEF LeaseLapses

(* The deadline of an intent passes. *)
LEMMA IntentExpiresKeeps ==
  ASSUME LiveInv, NEW id \in Ids, IntentExpires(id)
  PROVE  LiveInv'
<1> DEFINE q == [intents[id] EXCEPT !.expired = TRUE]
<1>1. intents[id] \in IntentRow /\ Counted(intents[id], artifacts[id])
  BY Zenon, IdLocal
<1>2. /\ q \in IntentRow /\ q.status = intents[id].status /\ q.token = intents[id].token
      /\ q.revision = intents[id].revision /\ q.attempts = intents[id].attempts
      /\ q.lapsed = intents[id].lapsed
  BY ZenonT(40), <1>1 DEF IntentRow
<1>3. intents' = [intents EXCEPT ![id] = q]
  BY Zenon DEF IntentExpires
<1> HIDE DEF q
<1>4. Counted(q, artifacts[id]) /\ q.revision >= intents[id].revision
  <2>1. HasStarted(q) <=> HasStarted(intents[id])
    BY Zenon, <1>2 DEF HasStarted
  <2>2. Counted(q, artifacts[id])
    BY ZenonT(40), <1>1, <1>2, <2>1 DEF Counted
  <2>3. q.revision \in Nat
    BY ZenonT(40), <1>2 DEF IntentRow
  <2> QED
    BY <1>2, <2>2, <2>3
<1> QED
  BY ZenonT(40), <1>1, <1>2, <1>3, <1>4, TimeWrites DEF IntentExpires

(* The recovery process: reading. *)
LEMMA ObserveSignatureKeeps ==
  ASSUME LiveInv, NEW w \in Workers, ObserveSignature(w)
  PROVE  LiveInv'
<1> DEFINE found == IF IsLanded(Latest(worker[w].id).chain) THEN "PRESENT" ELSE "MISSING"
<1>1. Engages(w) /\ worker[w].pc = "CONFIRMING"
  BY Zenon DEF ObserveSignature, At, Engages
<1>2. /\ worker' = [worker EXCEPT ![w].pc = "OBSERVED", ![w].found = found]
      /\ UNCHANGED <<control, unknownBlock, exposure, intents, live, entry, artifacts, tokens>>
  BY Zenon DEF ObserveSignature
<1>3. Turned(w, "OBSERVED", worker[w].id, worker[w].claim)
  <2>1. found \in Results \cup {"LANDED_FAILURE", "NONE", "PRESENT", "MISSING"}
        /\ "OBSERVED" \in WorkerPcs
    BY Zenon DEF WorkerPcs
  <2> HIDE DEF found
  <2> QED
    BY ZenonT(40), <1>2, <2>1, FoundTurn DEF LiveInv
<1>4. ClaimStatus("OBSERVED", worker[w].claim.status)
  BY ZenonT(40), <1>1, OwnerFacts DEF ClaimStatus
<1>5. /\ WorkerInv(w)'
      /\ Engages(w)' => Engages(w) /\ worker'[w].claim.token = worker[w].claim.token
  BY ZenonT(40), <1>1, <1>2, <1>3, <1>4, ClaimStays DEF WorkerPcs
<1>6. MemoryInv(w)'
  BY ZenonT(40), <1>3 DEF MemoryInv, Turned
<1> QED
  BY ZenonT(40), <1>2, <1>3, <1>5, <1>6, QuietStep

(* The transaction a reconciliation is about. *)
LEMMA ReconcilingFacts ==
  ASSUME LiveInv, NEW w \in Workers, Owns(w),
         worker[w].pc \in {"RECONCILING", "READING", "DECIDED"}
  PROVE  /\ Engages(w) /\ worker[w].id \in Ids /\ worker[w].id \in live
         /\ intents[worker[w].id].status \in {"CONFIRMED", "UNKNOWN_REQUIRES_RECONCILIATION"}
         /\ intents[worker[w].id].status = worker[w].claim.status
         /\ intents[worker[w].id].status \in Pending
         /\ artifacts[worker[w].id] # <<>> /\ Latest(worker[w].id) \in ArtifactRow
         /\ Latest(worker[w].id).chain \in ChainStates
<1>1. Engages(w)
  BY Zenon DEF Engages
<1>2. /\ worker[w].id \in Ids /\ worker[w].id \in live
      /\ intents[worker[w].id].status \in {"CONFIRMED", "UNKNOWN_REQUIRES_RECONCILIATION"}
      /\ intents[worker[w].id].status = worker[w].claim.status
  BY ZenonT(40), <1>1, OwnerFacts DEF ClaimStatus
<1>3. intents[worker[w].id].status \in Pending
  BY ZenonT(40), <1>2 DEF Pending
<1>4. artifacts[worker[w].id] # <<>> /\ Latest(worker[w].id) \in ArtifactRow
  BY ZenonT(40), <1>2, <1>3, PendingFacts
<1> QED
  BY ZenonT(40), <1>1, <1>2, <1>3, <1>4 DEF ArtifactRow

(* A reconciliation begins to read the chain. *)
LEMMA StartReadsKeeps ==
  ASSUME LiveInv, NEW w \in Workers, StartReads(w)
  PROVE  LiveInv'
<1> DEFINE id == worker[w].id
<1>1. Owns(w) /\ worker[w].pc = "RECONCILING"
  BY Zenon DEF StartReads, At
<1>2. Engages(w) /\ id \in Ids /\ Latest(id).chain \in ChainStates
  BY ZenonT(40), <1>1, ReconcilingFacts
<1>3. /\ worker' = [worker EXCEPT ![w].pc = "READING", ![w].view = Latest(id).chain]
      /\ UNCHANGED <<control, unknownBlock, exposure, intents, live, entry, artifacts, tokens>>
  BY Zenon DEF StartReads
<1>4. Turned(w, "READING", id, worker[w].claim) /\ worker'[w].view = Latest(id).chain
  <2> DEFINE v == Latest(id).chain
  <2>1. "READING" \in WorkerPcs /\ v \in ChainStates /\ TypeOK
    BY Zenon, <1>2 DEF WorkerPcs, LiveInv
  <2>2. worker' = [worker EXCEPT ![w].pc = "READING", ![w].view = v]
    BY Zenon, <1>3
  <2> HIDE DEF v
  <2>3. Turned(w, "READING", worker[w].id, worker[w].claim) /\ worker'[w].view = v
    BY ZenonT(40), <2>1, <2>2, ViewTurn
  <2> QED
    BY Zenon, <2>3 DEF v
<1>5. ClaimStatus("READING", worker[w].claim.status)
  BY ZenonT(40), <1>1, <1>2, OwnerFacts DEF ClaimStatus
<1>6. /\ WorkerInv(w)'
      /\ Engages(w)' => Engages(w) /\ worker'[w].claim.token = worker[w].claim.token
  BY ZenonT(40), <1>2, <1>3, <1>4, <1>5, ClaimStays DEF WorkerPcs
<1>7. MemoryInv(w)'
  BY ZenonT(40), <1>3, <1>4 DEF MemoryInv, Turned, Latest, Moves
<1> QED
  BY ZenonT(40), <1>3, <1>4, <1>6, <1>7, QuietStep

(* A reconciliation has read the chain and reaches its result. *)
LEMMA EndReadsKeeps ==
  ASSUME LiveInv, NEW w \in Workers, EndReads(w)
  PROVE  LiveInv'
<1> DEFINE id == worker[w].id
           v == worker[w].view
           x == Latest(id).chain
<1>1. Owns(w) /\ worker[w].pc = "READING"
  BY Zenon DEF EndReads, At
<1>2. Engages(w) /\ id \in Ids /\ x \in ChainStates
  BY ZenonT(40), <1>1, ReconcilingFacts
<1>3. Moves(v, x) /\ v \in ChainStates
  BY ZenonT(40), <1>1 DEF LiveInv, WorkersInv, MemoryInv, TypeOK, WorkerRow
<1>4. PICK result \in Readings(w) : worker' = [worker EXCEPT ![w].pc = "DECIDED", ![w].found = result]
  BY Zenon DEF EndReads
<1>5. UNCHANGED <<control, unknownBlock, exposure, intents, live, entry, artifacts, tokens>>
  BY Zenon DEF EndReads
<1>6. PromptReads => v \notin {Unsent, Sent} \/ ~IsFinalized(x)
  BY Zenon DEF EndReads, Unsent, Sent
<1>7. PICK past \in HeightsPast(v) \cup HeightsPast(x), history \in Histories(v) \cup Histories(x),
           c \in {v, x} :
        result = Classify(IsSell(id), past, history, Transaction(c))
  BY DEF Readings
<1>8. IsSell(id) \in BOOLEAN
  BY DEF IsSell
<1> HIDE DEF x, v
<1>9. /\ result \in Results \cup {"LANDED_FAILURE"}
      /\ result = "MATCHED" => x = Finalized("LANDED")
      /\ result = "LANDED_FAILURE" => IsSell(id) /\ x = Finalized("FAILED")
      /\ result = "NO_EFFECT" /\ PromptReads => x = Dead
  BY SMTT(30), <1>2, <1>3, <1>6, <1>7, <1>8, ReadingIsSound
<1>10. Turned(w, "DECIDED", id, worker[w].claim) /\ worker'[w].found = result
  BY ZenonT(40), <1>4, <1>9, FoundTurn DEF WorkerPcs, LiveInv
<1>11. ClaimStatus("DECIDED", worker[w].claim.status)
  BY ZenonT(40), <1>1, <1>2, OwnerFacts DEF ClaimStatus
<1>12. /\ WorkerInv(w)'
       /\ Engages(w)' => Engages(w) /\ worker'[w].claim.token = worker[w].claim.token
  BY ZenonT(40), <1>2, <1>5, <1>10, <1>11, ClaimStays DEF WorkerPcs
<1>13. MemoryInv(w)'
  <2>1. worker'[w].pc = "DECIDED" /\ worker'[w].id = id
    BY ZenonT(40), <1>10 DEF Turned
  <2>2. Latest(id)'.chain = x
    BY ZenonT(40), <1>5, <2>1 DEF Latest, x
  <2> QED
    BY ZenonT(40), <1>9, <1>10, <2>1, <2>2 DEF MemoryInv
<1> QED
  BY ZenonT(40), <1>5, <1>10, <1>12, <1>13, QuietStep

(* The recovery process: confirming and reconciling. *)

(* A transition that also releases the lease. *)
LEMMA ReleasedMovedFacts ==
  ASSUME NEW r \in IntentRow, NEW next \in Statuses
  PROVE  LET q == Released(Moved(r, next))
         IN /\ q \in IntentRow /\ q.status = next /\ q.token = 0
            /\ q.revision >= r.revision /\ q.attempts = r.attempts
<1> DEFINE m == Moved(r, next)
<1>1. /\ m \in IntentRow /\ m.status = next /\ m.revision = r.revision + 1
      /\ m.attempts = r.attempts
  BY Zenon, MovedFacts
<1>2. r.revision \in Nat
  BY Zenon DEF IntentRow
<1> HIDE DEF m
<1>3. m.revision >= r.revision
  BY <1>1, <1>2
<1>4. LET q == Released(m)
      IN /\ q \in IntentRow /\ q.status = next /\ q.token = 0
         /\ q.revision >= r.revision /\ q.attempts = r.attempts
  BY ZenonT(40), <1>1, <1>3, ReleasedFacts
<1> QED
  BY ZenonT(40), <1>4 DEF m

(* An intent is left for another reconciliation. *)
LEMMA UnresolvedFacts ==
  ASSUME NEW r \in IntentRow
  PROVE  LET q == Unresolved(r)
         IN /\ q \in IntentRow /\ q.status = "UNKNOWN_REQUIRES_RECONCILIATION" /\ q.token = 0
            /\ q.revision >= r.revision /\ q.attempts = r.attempts
<1>1. CASE r.status = "UNKNOWN_REQUIRES_RECONCILIATION"
  <2>1. Unresolved(r) = Released(r)
    BY Zenon, <1>1 DEF Unresolved
  <2>2. r.revision >= r.revision
    BY DEF IntentRow
  <2> QED
    BY ZenonT(40), <1>1, <2>1, <2>2, ReleasedFacts
<1>2. CASE r.status # "UNKNOWN_REQUIRES_RECONCILIATION"
  <2>1. Unresolved(r) = Released(Moved(r, "UNKNOWN_REQUIRES_RECONCILIATION"))
    BY ZenonT(40), <1>2 DEF Unresolved
  <2>2. "UNKNOWN_REQUIRES_RECONCILIATION" \in Statuses
    BY Zenon DEF Statuses
  <2> QED
    BY <2>1, <2>2, ReleasedMovedFacts
<1> QED
  BY ZenonT(40), <1>1, <1>2

(* An intent succeeds. *)
LEMMA SucceededFacts ==
  ASSUME NEW r \in IntentRow
  PROVE  LET q == Succeeded(r)
         IN /\ q \in IntentRow /\ q.status = "SUCCEEDED" /\ q.token = 0
            /\ q.revision >= r.revision
<1> DEFINE m == IF r.status = "UNKNOWN_REQUIRES_RECONCILIATION" THEN Moved(r, "CONFIRMED") ELSE r
<1>1. /\ "CONFIRMED" \in Statuses /\ "SUCCEEDED" \in Statuses /\ "SUCCEEDED" \in TerminalStatuses
      /\ r.revision \in Nat
  BY ZenonT(40) DEF Statuses, TerminalStatuses, IntentRow
<1>2. m \in IntentRow /\ m.revision \in {r.revision, r.revision + 1}
  BY ZenonT(40), <1>1, MovedFacts
<1>3. Succeeded(r) = Moved(m, "SUCCEEDED")
  BY Zenon DEF Succeeded
<1> HIDE DEF m
<1>4. LET q == Moved(m, "SUCCEEDED")
      IN q \in IntentRow /\ q.status = "SUCCEEDED" /\ q.token = 0 /\ q.revision = m.revision + 1
  BY ZenonT(40), <1>1, <1>2, MovedFacts
<1> QED
  BY <1>1, <1>2, <1>3, <1>4

(* The two outcomes of a confirmation are the same kind of write. *)
LEMMA ConfirmationWrite ==
  ASSUME LiveInv, NEW w \in Workers, Owns(w), worker[w].pc = "OBSERVED",
         NEW next \in Statuses, NEW state \in ArtifactStates,
         \/ next = "CONFIRMED" /\ state = "CONFIRMED"
         \/ next = "UNKNOWN_REQUIRES_RECONCILIATION" /\ state = "AMBIGUOUS",
         artifacts' = WithArtifact(worker[w].id, state),
         intents' = [intents EXCEPT ![worker[w].id] = Released(Moved(@, next))],
         worker' = [worker EXCEPT ![w] = Idle],
         UNCHANGED <<control, unknownBlock, exposure, live, entry, tokens>>
  PROVE  LiveInv'
<1> DEFINE id == worker[w].id
           b == id[1]
           q == Released(Moved(intents[id], next))
<1>1. Engages(w)
  BY Zenon DEF Engages
<1>2. /\ id \in Ids /\ id \in live /\ intents[id] \in IntentRow
      /\ intents[id].status = "SUBMITTED" /\ intents[id].status \in Pending
  BY ZenonT(40), <1>1, OwnerFacts DEF ClaimStatus, Pending
<1>3. /\ q \in IntentRow /\ q.status = next /\ q.token = 0
      /\ q.revision >= intents[id].revision /\ q.attempts = intents[id].attempts
      /\ intents' = [intents EXCEPT ![id] = q]
  BY ZenonT(40), <1>2, ReleasedMovedFacts
<1> HIDE DEF q
<1>4. /\ artifacts[id] # <<>> /\ ArtifactsOK /\ Fits("SUBMITTED", Latest(id))
      /\ ~IsSell(id) => BuyAfter(entry[b], "SUBMITTED", Latest(id))
      /\ IsSell(id) => SellAfter(entry[b], "SUBMITTED")
  BY ZenonT(40), <1>2, PendingFacts
<1>5. PICK a \in ArtifactRow :
        /\ Rewritten(id, a)
        /\ a.state = state /\ a.evidence = Latest(id).evidence /\ a.chain = Latest(id).chain
  BY ZenonT(40), <1>2, <1>4, StateRewritten
<1>6. a.evidence = "NONE" /\ a.state \notin Untouchable
  BY ZenonT(40), <1>4, <1>5 DEF Fits, Untouchable, Early
<1>7. /\ q.status \in Pending /\ q.status \in Decisive /\ Fits(q.status, a)
      /\ q.status \notin {"SIMULATED", "RECONCILING", "CANCELLED"}
  BY ZenonT(40), <1>3, <1>5, <1>6 DEF Fits, Pending, Decisive
<1>8. Counted(q, artifacts[id])
  <2>1. Len(intents[id].attempts) = Len(artifacts[id])
    BY ZenonT(40), <1>2, IdLocal DEF Counted
  <2> QED
    BY ZenonT(40), <1>3, <1>7, <2>1 DEF Counted, Pending
<1>9. id = worker[w].id /\ b = id[1]
  BY Zenon DEF id, b
<1> HIDE DEF id, b
<1>10. ~IsSell(id) => BuyAfter(entry'[b], q.status, a)
  BY ZenonT(40), <1>3, <1>4, <1>6, <1>7 DEF BuyAfter, Pending, Decisive
<1>11. IsSell(id) => SellAfter(entry'[b], q.status)
  BY ZenonT(40), <1>4, <1>7 DEF SellAfter, Pending
<1>12. WritesRow(w, id, q)
  BY ZenonT(40), <1>3, <1>8 DEF WritesRow
<1>13. WritesTransaction(id, q.status, a)
  BY ZenonT(40), <1>5, <1>6, <1>7 DEF WritesTransaction
<1>14. WritesEntry(id, q.status, a)
  <2>1. entry' \in [Buys -> EntryRow] /\ EntryShape(entry'[b]) /\ entry' = entry
    BY ZenonT(40), <1>2, <1>9, IdLocal DEF LiveInv, TypeOK
  <2> QED
    BY ZenonT(40), <1>9, <1>10, <1>11, <2>1 DEF WritesEntry
<1>15. WritesRisk
  <2>1. ExposureInv'
    BY ZenonT(40), ExposureFrame DEF IsReserved, IsOpen
  <2>2. UnknownEffectBlocks'
    BY ZenonT(40), <1>2, <1>5, <1>6, BlockRewritten
  <2> QED
    BY ZenonT(40), <2>1, <2>2 DEF WritesRisk, LiveInv, TypeOK
<1>16. GoesOn(w)
  <2>1. Turned(w, "IDLE", NoIntent, NoClaim)
    BY ZenonT(40), IdleTurn DEF LiveInv
  <2> QED
    BY ZenonT(40), <2>1, IdleMeansNothing DEF GoesOn, Turned
<1> QED
  BY ZenonT(40), <1>1, <1>2, <1>3, <1>5, <1>9, <1>12, <1>13, <1>14, <1>15, <1>16, SignedWrite

(* recordConfirmation: the signature was seen. *)
LEMMA RecordConfirmationKeeps ==
  ASSUME LiveInv, NEW w \in Workers, RecordConfirmation(w)
  PROVE  LiveInv'
BY ZenonT(40), ConfirmationWrite DEF RecordConfirmation, At, Statuses, ArtifactStates

(* The confirmation was given up, and the intent must be reconciled. *)
LEMMA RecordConfirmationExpiryKeeps ==
  ASSUME LiveInv, NEW w \in Workers, RecordConfirmationExpiry(w)
  PROVE  LiveInv'
BY ZenonT(40), ConfirmationWrite DEF RecordConfirmationExpiry, At, Statuses, ArtifactStates

(* What is unresolved while a BUY is reserved is about that BUY. *)
LEMMA BuyAlone ==
  ASSUME LiveInv, NEW b \in Buys, IsReserved(b), NEW j \in Ids, NEW n \in 1..Len(artifacts[j]),
         artifacts[j][n].evidence \in {"UNKNOWN", "MISMATCH"}
  PROVE  j = <<b, 0>> /\ n = Len(artifacts[j])
<1>1. TypeOK /\ (\A c \in Buys : LocalInv(c)) /\ ExposureInv
  BY Zenon DEF LiveInv, DatabaseInv
<1>2. /\ n = Len(artifacts[j])
      /\ IsSell(j) => IsOpen(j[1])
      /\ ~IsSell(j) => entry[j[1]].reservation = "UNKNOWN_HELD"
  BY ZenonT(40), <1>1, UnresolvedIsEngaged
<1>3. j[1] \in Buys
  BY ZenonT(40), IdFacts
<1>4. ~IsSell(j)
  BY ZenonT(40), <1>1, <1>2, <1>3, ReservedExcludesOpen
<1>5. Engaged(j[1]) /\ Engaged(b)
  BY ZenonT(40), <1>2, <1>4 DEF Engaged, IsReserved
<1>6. j[1] = b
  BY ZenonT(40), <1>1, <1>3, <1>5 DEF ExposureInv
<1> QED
  BY ZenonT(40), <1>2, <1>4, <1>6, IdLocal

(* The reconciliation of a reserved BUY decides unknown_block. *)
LEMMA BuyBlocks ==
  ASSUME LiveInv, NEW id \in Ids, ~IsSell(id), IsReserved(id[1]), NEW a, Rewritten(id, a),
         unknownBlock' = Held(entry'),
         a.evidence \in {"UNKNOWN", "MISMATCH"} => entry'[id[1]].reservation = "UNKNOWN_HELD"
  PROVE  UnknownEffectBlocks'
<1> DEFINE b == id[1]
<1>1. b \in Buys /\ id = <<b, 0>>
  BY ZenonT(40), IdLocal
<1>2. ASSUME NEW j \in Ids, NEW n \in 1..Len(artifacts'[j]),
             artifacts'[j][n].evidence \in {"UNKNOWN", "MISMATCH"}
      PROVE  j = id /\ artifacts'[j][n] = a
  <2>1. CASE j # id
    <3>1. artifacts'[j] = artifacts[j]
      BY ZenonT(40), <2>1 DEF Rewritten
    <3>2. j = <<b, 0>>
      BY ZenonT(40), <1>1, <1>2, <3>1, BuyAlone
    <3> QED
      BY ZenonT(40), <1>1, <2>1, <3>2
  <2>2. CASE j = id
    <3>1. n \in 1..Len(artifacts[id])
      BY ZenonT(40), <1>2, <2>2 DEF Rewritten
    <3>2. CASE n # Len(artifacts[id])
      <4>1. artifacts[id][n].evidence \in {"UNKNOWN", "MISMATCH"}
        BY ZenonT(40), <1>2, <2>2, <3>1, <3>2 DEF Rewritten
      <4>2. n = Len(artifacts[id])
        BY ZenonT(40), <1>1, <3>1, <4>1, BuyAlone
      <4> QED
        BY ZenonT(40), <3>2, <4>2
    <3>3. CASE n = Len(artifacts[id])
      BY ZenonT(40), <2>2, <3>3 DEF Rewritten
    <3> QED
      BY ZenonT(40), <3>2, <3>3
  <2> QED
    BY ZenonT(40), <2>1, <2>2
<1>3. UnresolvedEvidence(artifacts') => Held(entry')
  BY ZenonT(40), <1>1, <1>2 DEF UnresolvedEvidence, Held
<1> QED
  BY ZenonT(40), <1>3 DEF UnknownEffectBlocks

(* What a worker that records the result of a reconciliation knows. *)
LEMMA ReconcilableFacts ==
  ASSUME LiveInv, NEW w \in Workers, Reconcilable(w), NEW id, id = worker[w].id
  PROVE  /\ Engages(w) /\ id \in Ids /\ id \in live /\ intents[id] \in IntentRow
         /\ intents[id].status \in Pending
         /\ artifacts[id] # <<>> /\ Latest(id) \in ArtifactRow /\ ArtifactsOK
         /\ Len(intents[id].attempts) = Len(artifacts[id])
         /\ Latest(id).state \notin Untouchable
         /\ entry \in [Buys -> EntryRow] /\ id[1] \in Buys /\ EntryShape(entry[id[1]])
         /\ control \in ControlStates /\ unknownBlock \in BOOLEAN
         /\ ~IsSell(id) => BuyAfter(entry[id[1]], intents[id].status, Latest(id))
         /\ IsSell(id) => /\ SellAfter(entry[id[1]], intents[id].status)
                          /\ id[2] = entry[id[1]].exit /\ id[2] \in 1..MaxExits
         /\ worker[w].found = "MATCHED" => Latest(id).chain = Finalized("LANDED")
         /\ worker[w].found = "LANDED_FAILURE" => IsSell(id) /\ Latest(id).chain = Finalized("FAILED")
         /\ worker[w].found = "NO_EFFECT" /\ PromptReads => Latest(id).chain = Dead
<1>1. Owns(w) /\ worker[w].pc = "DECIDED" /\ Latest(id).state \in {"ACCEPTED", "AMBIGUOUS", "CONFIRMED"}
  BY Zenon DEF Reconcilable, At
<1>2. /\ Engages(w) /\ id \in Ids /\ id \in live /\ intents[id].status \in Pending
      /\ artifacts[id] # <<>> /\ Latest(id) \in ArtifactRow
      /\ intents[id].status \in {"CONFIRMED", "UNKNOWN_REQUIRES_RECONCILIATION"}
  BY ZenonT(40), <1>1, ReconcilingFacts
<1>3. /\ worker[w].found = "MATCHED" => Latest(id).chain = Finalized("LANDED")
      /\ worker[w].found = "LANDED_FAILURE" => IsSell(id) /\ Latest(id).chain = Finalized("FAILED")
      /\ worker[w].found = "NO_EFFECT" /\ PromptReads => Latest(id).chain = Dead
  BY ZenonT(40), <1>1 DEF LiveInv, WorkersInv, MemoryInv
<1>4. /\ ArtifactsOK
      /\ ~IsSell(id) => BuyAfter(entry[id[1]], intents[id].status, Latest(id))
      /\ IsSell(id) => SellAfter(entry[id[1]], intents[id].status)
  BY ZenonT(40), <1>2, PendingFacts
<1>5. /\ intents[id] \in IntentRow /\ Len(intents[id].attempts) = Len(artifacts[id])
      /\ id[1] \in Buys /\ EntryShape(entry[id[1]])
      /\ IsSell(id) => id[2] \in 1..MaxExits
  BY ZenonT(40), <1>2, IdLocal DEF Counted
<1>6. IsSell(id) => id[2] = entry[id[1]].exit
  BY ZenonT(40), <1>2, ExitOfId
<1>7. Latest(id).state \notin Untouchable
  BY ZenonT(40), <1>1 DEF Untouchable, Early
<1>8. entry \in [Buys -> EntryRow] /\ control \in ControlStates /\ unknownBlock \in BOOLEAN
  BY Zenon DEF LiveInv, TypeOK
<1> QED
  BY ZenonT(40), <1>2, <1>3, <1>4, <1>5, <1>6, <1>7, <1>8

(* Each of the six results of a reconciliation is such a write, and makes  *)
(* the worker idle.                                                        *)
LEMMA Reconciles ==
  ASSUME LiveInv, NEW w \in Workers, Reconcilable(w), NEW id \in Ids, id = worker[w].id,
         worker' = [worker EXCEPT ![w] = Idle], UNCHANGED <<live, tokens>>,
         NEW q \in IntentRow, intents' = [intents EXCEPT ![id] = q], q.token = 0,
         q.revision >= intents[id].revision, Counted(q, artifacts[id]),
         NEW a \in ArtifactRow, WritesTransaction(id, q.status, a), WritesEntry(id, q.status, a),
         WritesRisk
  PROVE  LiveInv'
<1>1. Engages(w) /\ intents[id].status \in Pending
  BY Zenon, ReconcilableFacts
<1>2. WritesRow(w, id, q)
  BY ZenonT(40) DEF WritesRow
<1>3. GoesOn(w)
  <2>1. Turned(w, "IDLE", NoIntent, NoClaim)
    BY ZenonT(40), IdleTurn DEF LiveInv
  <2> QED
    BY ZenonT(40), <2>1, IdleMeansNothing DEF GoesOn, Turned
<1> QED
  BY ZenonT(40), <1>1, <1>2, <1>3, SignedWrite

(* The BUY has landed: the position is opened. *)
LEMMA BuyMatchedKeeps ==
  ASSUME LiveInv, NEW w \in Workers, BuyMatched(w)
  PROVE  LiveInv'
<1>1. Reconcilable(w)
  BY Zenon DEF BuyMatched, BuyReconciled
<1>2. PICK id \in Ids : id = worker[w].id
  BY ZenonT(40), <1>1, ReconcilableFacts
<1>3. PICK b \in Buys : b = id[1]
  BY ZenonT(40), <1>2, IdLocal
<1> DEFINE m == AttemptEnded(intents[id], "COMPLETED")
           q == Succeeded(m)
<1>4. /\ ~IsSell(id) /\ worker[w].found = "MATCHED"
      /\ entry[b].reservation \in {"RESERVED", "UNKNOWN_HELD"}
  BY ZenonT(40), <1>2, <1>3 DEF BuyMatched, BuyReconciled, Entry
<1>5. entry' = [entry EXCEPT ![b].reservation = "CONSUMED",
                              ![b].position = "OPEN", ![b].auth = "ACTIVE"]
  BY ZenonT(40), <1>2, <1>3 DEF BuyMatched
<1>6. /\ intents' = [intents EXCEPT ![id] = q]
      /\ worker' = [worker EXCEPT ![w] = Idle] /\ UNCHANGED <<live, tokens>>
      /\ artifacts' = Evidenced(id, "RECONCILED", "MATCHED")
  BY ZenonT(40), <1>2 DEF BuyMatched, BuyReconciled
<1>7. unknownBlock' = Held(entry') /\ control' = control /\ exposure' = exposure
  BY ZenonT(40), <1>2 DEF BuyMatched
<1>8. /\ intents[id] \in IntentRow /\ Len(intents[id].attempts) = Len(artifacts[id])
      /\ artifacts[id] # <<>> /\ ArtifactsOK /\ Latest(id).state \notin Untouchable
      /\ entry \in [Buys -> EntryRow] /\ EntryShape(entry[b]) /\ control \in ControlStates
      /\ BuyAfter(entry[b], intents[id].status, Latest(id))
      /\ Latest(id).chain = Finalized("LANDED")
  BY ZenonT(40), <1>1, <1>2, <1>3, <1>4, ReconcilableFacts
<1>9. q \in IntentRow /\ q.status = "SUCCEEDED" /\ q.token = 0 /\ q.revision >= intents[id].revision
  <2>1. m \in IntentRow /\ m.revision = intents[id].revision
    BY ZenonT(40), <1>8, AttemptEndedFacts
  <2> HIDE DEF m
  <2> QED
    BY ZenonT(40), <2>1, SucceededFacts
<1> HIDE DEF q
<1>10. PICK a \in ArtifactRow :
         /\ Rewritten(id, a)
         /\ a.state = "RECONCILED" /\ a.evidence = "MATCHED" /\ a.chain = Latest(id).chain
  <2>1. "RECONCILED" \in ArtifactStates /\ "MATCHED" \in Results
    BY ZenonT(40), <1>4 DEF ArtifactStates, Results
  <2> QED
    BY SMTT(30), <1>6, <1>8, <2>1, EvidenceRewritten
<1>11. /\ entry' \in [Buys -> EntryRow] /\ \A c \in Buys : c # b => entry'[c] = entry[c]
       /\ entry'[b].exit = entry[b].exit /\ entry'[b].lock = entry[b].lock /\ entry'[b].armament = entry[b].armament
       /\ entry'[b].position = "OPEN" /\ entry'[b].auth = "ACTIVE"
       /\ entry'[b].reservation = "CONSUMED"
  <2>1. entry \in [Buys -> EntryRow] /\ b \in Buys
    BY ZenonT(40), <1>3, <1>8
  <2>2. /\ entry'[b].exit = entry[b].exit /\ entry'[b].lock = entry[b].lock /\ entry'[b].armament = entry[b].armament
         /\ entry'[b].position = "OPEN" /\ entry'[b].auth = "ACTIVE"
         /\ entry'[b].reservation = "CONSUMED"
    BY ZenonT(40), <1>5, <2>1 DEF EntryRow
  <2>3. entry'[b] \in EntryRow
    BY ZenonT(40), <1>5, <2>1 DEF EntryRow, ReservationStates, PositionStates, AuthorizationStates
  <2>4. entry' \in [Buys -> EntryRow] /\ \A c \in Buys : c # b => entry'[c] = entry[c]
    BY Zenon, <1>5, <2>1, <2>3
  <2> QED
    BY ZenonT(40), <2>2, <2>4
<1>12. entry[b].lock = "SIGNED_PERSISTED" /\ entry[b].armament = "LOCKED" /\ NoPosition(entry[b])
  BY ZenonT(40), <1>4, <1>8 DEF BuyAfter, EntryShape
<1>13. EntryShape(entry'[b]) /\ BuyAfter(entry'[b], q.status, a)
  <2>1. EntryShape(entry'[b])
    BY ZenonT(40), <1>4, <1>11, <1>12 DEF EntryShape, NoPosition, HasPosition
  <2>2. BuyAfter(entry'[b], q.status, a)
    BY ZenonT(40), <1>9, <1>11, <1>12 DEF BuyAfter, Pending, Decisive
  <2> QED
    BY ZenonT(40), <2>1, <2>2
<1>14. WritesTransaction(id, q.status, a)
  <2>1. a.state \notin Untouchable
    BY ZenonT(40), <1>10 DEF Untouchable, Early
  <2>2. q.status \in Decisive /\ Fits(q.status, a) /\ q.status \notin {"SIMULATED", "RECONCILING", "CANCELLED"}
    BY ZenonT(40), <1>4, <1>8, <1>9, <1>10 DEF Decisive, Pending, Fits
  <2> QED
    BY ZenonT(40), <1>10, <2>1, <2>2 DEF WritesTransaction
<1>15. WritesEntry(id, q.status, a)
  BY ZenonT(40), <1>3, <1>4, <1>11, <1>13 DEF WritesEntry
<1>16. ExposureInv'
  <2>1. \A c \in Buys : Engaged(c)' <=> Engaged(c)
    BY ZenonT(40), <1>4, <1>11 DEF Engaged, IsReserved, IsOpen
  <2> QED
    BY ZenonT(40), <1>7, <2>1, EngagementKept DEF LiveInv, DatabaseInv
<1>17. WritesRisk
  <2>1. IsReserved(id[1])
    BY ZenonT(40), <1>3, <1>4 DEF IsReserved
  <2>2. a.evidence \notin {"UNKNOWN", "MISMATCH"}
    BY ZenonT(40), <1>10
  <2>3. UnknownEffectBlocks'
    BY ZenonT(40), <1>3, <1>4, <1>7, <1>10, <2>1, <2>2, BuyBlocks
  <2>4. unknownBlock' \in BOOLEAN /\ control' \in ControlStates
    BY ZenonT(40), <1>7, <1>8 DEF Held, Stopped, ControlStates
  <2> QED
    BY ZenonT(40), <1>16, <2>3, <2>4 DEF WritesRisk
<1>18. Counted(q, artifacts[id])
  BY ZenonT(40), <1>9 DEF Counted, Pending
<1> QED
  BY ZenonT(40), <1>1, <1>2, <1>6, <1>9, <1>10, <1>14, <1>15, <1>17, <1>18, Reconciles

(* The BUY is dead: the reservation is released. *)
LEMMA BuyNoEffectKeeps ==
  ASSUME LiveInv, NEW w \in Workers, BuyNoEffect(w)
  PROVE  LiveInv'
<1>1. Reconcilable(w)
  BY ZenonT(40) DEF BuyNoEffect, BuyReconciled
<1>2. PICK id \in Ids : id = worker[w].id
  BY Zenon, <1>1, ReconcilableFacts
<1>3. PICK b \in Buys : b = id[1]
  BY Zenon, <1>2, IdLocal
<1> DEFINE q == Moved(AttemptEnded(intents[id], "ABANDONED"), "FAILED")
<1>4. /\ ~IsSell(id) /\ worker[w].found = "NO_EFFECT"
      /\ entry[b].reservation \in {"RESERVED", "UNKNOWN_HELD"}
  BY ZenonT(40), <1>2, <1>3 DEF BuyNoEffect, BuyReconciled, Entry
<1>5. entry' = [entry EXCEPT ![b].reservation = "RELEASED", ![b].armament = "REVOKED"]
  BY ZenonT(40), <1>2, <1>3 DEF BuyNoEffect
<1>6. /\ intents' = [intents EXCEPT ![id] = q]
      /\ worker' = [worker EXCEPT ![w] = Idle] /\ UNCHANGED <<live, tokens>>
      /\ artifacts' = Evidenced(id, "RECONCILED", "NO_EFFECT")
  BY ZenonT(40), <1>2 DEF BuyNoEffect, BuyReconciled
<1>7. unknownBlock' = Held(entry') /\ control' = control /\ exposure' = exposure - 1
  BY ZenonT(40), <1>2 DEF BuyNoEffect
<1>8. /\ intents[id] \in IntentRow /\ Len(intents[id].attempts) = Len(artifacts[id])
      /\ artifacts[id] # <<>> /\ ArtifactsOK /\ Latest(id).state \notin Untouchable
      /\ entry \in [Buys -> EntryRow] /\ EntryShape(entry[b]) /\ control \in ControlStates
      /\ BuyAfter(entry[b], intents[id].status, Latest(id))
      /\ PromptReads => Latest(id).chain = Dead
  BY ZenonT(40), <1>1, <1>2, <1>3, <1>4, ReconcilableFacts
<1>9. q \in IntentRow /\ q.status = "FAILED" /\ q.token = 0 /\ q.revision >= intents[id].revision
  <2>1. "FAILED" \in TerminalStatuses
    BY Zenon DEF TerminalStatuses
  <2> QED
    BY ZenonT(40), <1>8, <2>1, EndedFacts
<1> HIDE DEF q
<1>10. PICK a \in ArtifactRow :
         /\ Rewritten(id, a)
         /\ a.state = "RECONCILED" /\ a.evidence = "NO_EFFECT" /\ a.chain = Latest(id).chain
  <2>1. "RECONCILED" \in ArtifactStates /\ "NO_EFFECT" \in Results
    BY ZenonT(40), <1>4 DEF ArtifactStates, Results
  <2> QED
    BY SMTT(30), <1>6, <1>8, <2>1, EvidenceRewritten
<1>11. /\ entry' \in [Buys -> EntryRow] /\ \A c \in Buys : c # b => entry'[c] = entry[c]
       /\ entry'[b].exit = entry[b].exit /\ entry'[b].lock = entry[b].lock /\ entry'[b].armament = "REVOKED"
       /\ entry'[b].position = entry[b].position /\ entry'[b].auth = entry[b].auth
       /\ entry'[b].reservation = "RELEASED"
  <2>1. entry \in [Buys -> EntryRow] /\ b \in Buys
    BY ZenonT(40), <1>3, <1>8
  <2>2. /\ entry'[b].exit = entry[b].exit /\ entry'[b].lock = entry[b].lock /\ entry'[b].armament = "REVOKED"
         /\ entry'[b].position = entry[b].position /\ entry'[b].auth = entry[b].auth
         /\ entry'[b].reservation = "RELEASED"
    BY ZenonT(40), <1>5, <2>1 DEF EntryRow
  <2>3. entry'[b] \in EntryRow
    BY ZenonT(40), <1>5, <2>1 DEF EntryRow, ReservationStates, ArmamentStates
  <2>4. entry' \in [Buys -> EntryRow] /\ \A c \in Buys : c # b => entry'[c] = entry[c]
    BY Zenon, <1>5, <2>1, <2>3
  <2> QED
    BY ZenonT(40), <2>2, <2>4
<1>12. entry[b].lock = "SIGNED_PERSISTED" /\ NoPosition(entry[b])
  BY ZenonT(40), <1>4, <1>8 DEF BuyAfter, EntryShape
<1>13. EntryShape(entry'[b]) /\ BuyAfter(entry'[b], q.status, a)
  <2>1. EntryShape(entry'[b])
    BY ZenonT(40), <1>4, <1>11, <1>12 DEF EntryShape, NoPosition
  <2>2. BuyAfter(entry'[b], q.status, a)
    BY ZenonT(40), <1>9, <1>11, <1>12 DEF BuyAfter, Pending, Decisive
  <2> QED
    BY Zenon, <2>1, <2>2
<1>14. WritesTransaction(id, q.status, a)
  <2>1. a.state \notin Untouchable
    BY Zenon, <1>10 DEF Untouchable, Early
  <2>2. /\ q.status \notin Decisive /\ Settled(IsSell(id), a)
        /\ q.status \notin {"SIMULATED", "RECONCILING", "CANCELLED"}
    BY ZenonT(40), <1>4, <1>8, <1>9, <1>10 DEF Decisive, Pending, Settled
  <2> QED
    BY ZenonT(40), <1>10, <2>1, <2>2 DEF WritesTransaction
<1>15. WritesEntry(id, q.status, a)
  BY ZenonT(40), <1>3, <1>4, <1>11, <1>13 DEF WritesEntry
<1>16. ExposureInv'
  <2>1. Engaged(b)
    BY ZenonT(40), <1>4 DEF Engaged, IsReserved
  <2>2. ~Engaged(b)'
    BY ZenonT(40), <1>11, <1>12 DEF Engaged, IsReserved, IsOpen, NoPosition
  <2>3. \A c \in Buys : c # b => (Engaged(c)' <=> Engaged(c))
    BY ZenonT(40), <1>11 DEF Engaged, IsReserved, IsOpen
  <2>4. ExposureInv /\ exposure' = exposure - 1
    BY ZenonT(40), <1>7 DEF LiveInv, DatabaseInv
  <2> QED
    BY ZenonT(40), <2>1, <2>2, <2>3, <2>4, EngagementEnds
<1>17. WritesRisk
  <2>1. IsReserved(id[1])
    BY ZenonT(40), <1>3, <1>4 DEF IsReserved
  <2>2. a.evidence \notin {"UNKNOWN", "MISMATCH"}
    BY ZenonT(40), <1>10
  <2>3. UnknownEffectBlocks'
    BY ZenonT(40), <1>3, <1>4, <1>7, <1>10, <2>1, <2>2, BuyBlocks
  <2>4. unknownBlock' \in BOOLEAN /\ control' \in ControlStates
    BY ZenonT(40), <1>7, <1>8 DEF Held, Stopped, ControlStates
  <2> QED
    BY Zenon, <1>16, <2>3, <2>4 DEF WritesRisk
<1>18. Counted(q, artifacts[id])
  BY ZenonT(40), <1>9 DEF Counted, Pending
<1> QED
  BY ZenonT(40), <1>1, <1>2, <1>6, <1>9, <1>10, <1>14, <1>15, <1>17, <1>18, Reconciles

(* The fate of the BUY is unknown: the reservation is held. *)
LEMMA BuyUnresolvedKeeps ==
  ASSUME LiveInv, NEW w \in Workers, BuyUnresolved(w)
  PROVE  LiveInv'
<1>1. Reconcilable(w)
  BY ZenonT(40) DEF BuyUnresolved, BuyReconciled
<1>2. PICK id \in Ids : id = worker[w].id
  BY Zenon, <1>1, ReconcilableFacts
<1>3. PICK b \in Buys : b = id[1]
  BY Zenon, <1>2, IdLocal
<1> DEFINE q == Unresolved(intents[id])
<1>4. /\ ~IsSell(id) /\ worker[w].found \in {"UNKNOWN", "MISMATCH"}
      /\ entry[b].reservation \in {"RESERVED", "UNKNOWN_HELD"}
  BY Zenon, <1>2, <1>3 DEF BuyUnresolved, BuyReconciled, Entry
<1>5. entry' = [entry EXCEPT ![b].reservation = "UNKNOWN_HELD"]
  BY Zenon, <1>2, <1>3 DEF BuyUnresolved
<1>6. /\ intents' = [intents EXCEPT ![id] = q]
      /\ worker' = [worker EXCEPT ![w] = Idle] /\ UNCHANGED <<live, tokens>>
      /\ artifacts' = Evidenced(id, "AMBIGUOUS", worker[w].found)
  BY Zenon, <1>2 DEF BuyUnresolved, BuyReconciled
<1>7. /\ unknownBlock' = Held(entry') /\ exposure' = exposure
      /\ control' \in {control, Stopped}
  BY Zenon, <1>2 DEF BuyUnresolved
<1>8. /\ intents[id] \in IntentRow /\ Len(intents[id].attempts) = Len(artifacts[id])
      /\ artifacts[id] # <<>> /\ ArtifactsOK /\ Latest(id).state \notin Untouchable
      /\ entry \in [Buys -> EntryRow] /\ EntryShape(entry[b]) /\ control \in ControlStates
      /\ BuyAfter(entry[b], intents[id].status, Latest(id))
  BY ZenonT(40), <1>1, <1>2, <1>3, <1>4, ReconcilableFacts
<1>9. /\ q \in IntentRow /\ q.status = "UNKNOWN_REQUIRES_RECONCILIATION" /\ q.token = 0
      /\ q.revision >= intents[id].revision /\ q.attempts = intents[id].attempts
  BY ZenonT(40), <1>8, UnresolvedFacts
<1> HIDE DEF q
<1>10. PICK a \in ArtifactRow :
         /\ Rewritten(id, a)
         /\ a.state = "AMBIGUOUS" /\ a.evidence = worker[w].found /\ a.chain = Latest(id).chain
  <2>1. "AMBIGUOUS" \in ArtifactStates /\ worker[w].found \in Results
    BY ZenonT(40), <1>4 DEF ArtifactStates, Results
  <2> QED
    BY SMTT(30), <1>6, <1>8, <2>1, EvidenceRewritten
<1>11. /\ entry' \in [Buys -> EntryRow] /\ \A c \in Buys : c # b => entry'[c] = entry[c]
       /\ entry'[b].exit = entry[b].exit /\ entry'[b].lock = entry[b].lock /\ entry'[b].armament = entry[b].armament
       /\ entry'[b].position = entry[b].position /\ entry'[b].auth = entry[b].auth
       /\ entry'[b].reservation = "UNKNOWN_HELD"
  <2>1. entry \in [Buys -> EntryRow] /\ b \in Buys
    BY ZenonT(40), <1>3, <1>8
  <2>2. /\ entry'[b].exit = entry[b].exit /\ entry'[b].lock = entry[b].lock /\ entry'[b].armament = entry[b].armament
         /\ entry'[b].position = entry[b].position /\ entry'[b].auth = entry[b].auth
         /\ entry'[b].reservation = "UNKNOWN_HELD"
    BY ZenonT(40), <1>5, <2>1 DEF EntryRow
  <2>3. entry'[b] \in EntryRow
    BY ZenonT(40), <1>5, <2>1 DEF EntryRow, ReservationStates
  <2>4. entry' \in [Buys -> EntryRow] /\ \A c \in Buys : c # b => entry'[c] = entry[c]
    BY ZenonT(40), <1>5, <2>1, <2>3
  <2> QED
    BY ZenonT(40), <2>2, <2>4
<1>12. entry[b].lock = "SIGNED_PERSISTED" /\ entry[b].armament = "LOCKED" /\ NoPosition(entry[b])
  BY ZenonT(40), <1>4, <1>8 DEF BuyAfter, EntryShape
<1>13. EntryShape(entry'[b]) /\ BuyAfter(entry'[b], q.status, a)
  <2>1. EntryShape(entry'[b])
    BY ZenonT(40), <1>4, <1>11, <1>12 DEF EntryShape, NoPosition
  <2>2. BuyAfter(entry'[b], q.status, a)
    BY ZenonT(40), <1>9, <1>11, <1>12 DEF BuyAfter, Pending, Decisive
  <2> QED
    BY Zenon, <2>1, <2>2
<1>14. WritesTransaction(id, q.status, a)
  <2>1. a.state \notin Untouchable
    BY ZenonT(40), <1>10 DEF Untouchable, Early
  <2>2. q.status \in Decisive /\ Fits(q.status, a) /\ q.status \notin {"SIMULATED", "RECONCILING", "CANCELLED"}
    BY ZenonT(40), <1>4, <1>8, <1>9, <1>10 DEF Decisive, Pending, Fits
  <2> QED
    BY ZenonT(40), <1>10, <2>1, <2>2 DEF WritesTransaction
<1>15. WritesEntry(id, q.status, a)
  BY ZenonT(40), <1>3, <1>4, <1>11, <1>13 DEF WritesEntry
<1>16. ExposureInv'
  <2>1. \A c \in Buys : Engaged(c)' <=> Engaged(c)
    BY ZenonT(40), <1>4, <1>11 DEF Engaged, IsReserved, IsOpen
  <2> QED
    BY ZenonT(40), <1>7, <2>1, EngagementKept DEF LiveInv, DatabaseInv
<1>17. WritesRisk
  <2>1. IsReserved(id[1])
    BY ZenonT(40), <1>3, <1>4 DEF IsReserved
  <2>2. entry'[id[1]].reservation = "UNKNOWN_HELD"
    BY ZenonT(40), <1>3, <1>11
  <2>3. UnknownEffectBlocks'
    BY ZenonT(40), <1>3, <1>4, <1>7, <1>10, <2>1, <2>2, BuyBlocks
  <2>4. unknownBlock' \in BOOLEAN /\ control' \in ControlStates
    BY Zenon, <1>7, <1>8 DEF Held, Stopped, ControlStates
  <2> QED
    BY Zenon, <1>16, <2>3, <2>4 DEF WritesRisk
<1>18. Counted(q, artifacts[id])
  BY ZenonT(40), <1>8, <1>9 DEF Counted, Pending
<1> QED
  BY ZenonT(40), <1>1, <1>2, <1>6, <1>9, <1>10, <1>14, <1>15, <1>17, <1>18, Reconciles

(* The SELL has landed: the position is closed. *)
LEMMA SellMatchedKeeps ==
  ASSUME LiveInv, NEW w \in Workers, SellMatched(w)
  PROVE  LiveInv'
<1>1. Reconcilable(w)
  BY ZenonT(40) DEF SellMatched, SellReconciled
<1>2. PICK id \in Ids : id = worker[w].id
  BY Zenon, <1>1, ReconcilableFacts
<1>3. PICK b \in Buys : b = id[1]
  BY Zenon, <1>2, IdLocal
<1> DEFINE m == AttemptEnded(intents[id], "COMPLETED")
           q == Succeeded(m)
<1>4. /\ IsSell(id) /\ worker[w].found = "MATCHED"
      /\ entry[b].auth = "LOCKED" /\ entry[b].armament = "LOCKED"
      /\ entry[b].position \in {"EXIT_PENDING", "UNKNOWN"}
  BY ZenonT(40), <1>2, <1>3 DEF SellMatched, SellReconciled, Entry
<1>5. entry' = [entry EXCEPT ![b].position = "CLOSED", ![b].auth = "CONSUMED",
                              ![b].armament = "CONSUMED"]
  BY ZenonT(40), <1>2, <1>3 DEF SellMatched
<1>6. /\ intents' = [intents EXCEPT ![id] = q]
      /\ worker' = [worker EXCEPT ![w] = Idle] /\ UNCHANGED <<live, tokens>>
      /\ artifacts' = Evidenced(id, "RECONCILED", "MATCHED")
  BY ZenonT(40), <1>2 DEF SellMatched, SellReconciled
<1>7. /\ unknownBlock' = (Held(entry') \/ UnresolvedEvidence(artifacts'))
      /\ control' = control /\ exposure' = exposure - 1
  BY ZenonT(40), <1>2 DEF SellMatched
<1>8. /\ intents[id] \in IntentRow /\ Len(intents[id].attempts) = Len(artifacts[id])
      /\ artifacts[id] # <<>> /\ ArtifactsOK /\ Latest(id).state \notin Untouchable
      /\ entry \in [Buys -> EntryRow] /\ EntryShape(entry[b]) /\ control \in ControlStates
      /\ Latest(id).chain = Finalized("LANDED")
  BY ZenonT(40), <1>1, <1>2, <1>3, <1>4, ReconcilableFacts
<1>9. q \in IntentRow /\ q.status = "SUCCEEDED" /\ q.token = 0 /\ q.revision >= intents[id].revision
  <2>1. m \in IntentRow /\ m.revision = intents[id].revision
    BY ZenonT(40), <1>8, AttemptEndedFacts
  <2> HIDE DEF m
  <2> QED
    BY Zenon, <2>1, SucceededFacts
<1> HIDE DEF q
<1>10. PICK a \in ArtifactRow :
         /\ Rewritten(id, a)
         /\ a.state = "RECONCILED" /\ a.evidence = "MATCHED" /\ a.chain = Latest(id).chain
  <2>1. "RECONCILED" \in ArtifactStates /\ "MATCHED" \in Results
    BY ZenonT(40), <1>4 DEF ArtifactStates, Results
  <2> QED
    BY <1>6, <1>8, <2>1, EvidenceRewritten
<1>11. /\ entry' \in [Buys -> EntryRow] /\ \A c \in Buys : c # b => entry'[c] = entry[c]
       /\ entry'[b].exit = entry[b].exit /\ entry'[b].lock = entry[b].lock /\ entry'[b].armament = "CONSUMED"
       /\ entry'[b].position = "CLOSED" /\ entry'[b].auth = "CONSUMED"
       /\ entry'[b].reservation = entry[b].reservation
  <2>1. entry \in [Buys -> EntryRow] /\ b \in Buys
    BY ZenonT(40), <1>3, <1>8
  <2>2. /\ entry'[b].exit = entry[b].exit /\ entry'[b].lock = entry[b].lock /\ entry'[b].armament = "CONSUMED"
         /\ entry'[b].position = "CLOSED" /\ entry'[b].auth = "CONSUMED"
         /\ entry'[b].reservation = entry[b].reservation
    BY ZenonT(40), <1>5, <2>1 DEF EntryRow
  <2>3. entry'[b] \in EntryRow
    BY ZenonT(40), <1>5, <2>1 DEF EntryRow, ArmamentStates, PositionStates, AuthorizationStates
  <2>4. entry' \in [Buys -> EntryRow] /\ \A c \in Buys : c # b => entry'[c] = entry[c]
    BY Zenon, <1>5, <2>1, <2>3
  <2> QED
    BY ZenonT(40), <2>2, <2>4
<1>12. entry[b].lock = "SIGNED_PERSISTED" /\ entry[b].reservation = "CONSUMED" /\ entry[b].exit > 0
  BY ZenonT(40), <1>4, <1>8 DEF EntryShape, NoPosition, HasPosition
<1>13. EntryShape(entry'[b]) /\ SellAfter(entry'[b], q.status)
  <2>1. EntryShape(entry'[b])
    BY ZenonT(40), <1>4, <1>11, <1>12 DEF EntryShape, HasPosition
  <2>2. SellAfter(entry'[b], q.status)
    BY ZenonT(40), <1>4, <1>9, <1>11 DEF SellAfter, Pending
  <2> QED
    BY ZenonT(40), <2>1, <2>2
<1>14. WritesTransaction(id, q.status, a)
  <2>1. a.state \notin Untouchable
    BY Zenon, <1>10 DEF Untouchable, Early
  <2>2. q.status \in Decisive /\ Fits(q.status, a) /\ q.status \notin {"SIMULATED", "RECONCILING", "CANCELLED"}
    BY ZenonT(40), <1>4, <1>8, <1>9, <1>10 DEF Decisive, Pending, Fits
  <2> QED
    BY Zenon, <1>10, <2>1, <2>2 DEF WritesTransaction
<1>15. WritesEntry(id, q.status, a)
  BY ZenonT(40), <1>3, <1>4, <1>11, <1>13 DEF WritesEntry
<1>16. ExposureInv'
  <2>1. Engaged(b)
    BY ZenonT(40), <1>4 DEF Engaged, IsOpen
  <2>2. ~Engaged(b)'
    BY ZenonT(40), <1>11, <1>12 DEF Engaged, IsReserved, IsOpen, NoPosition
  <2>3. \A c \in Buys : c # b => (Engaged(c)' <=> Engaged(c))
    BY ZenonT(40), <1>11 DEF Engaged, IsReserved, IsOpen
  <2>4. ExposureInv /\ exposure' = exposure - 1
    BY ZenonT(40), <1>7 DEF LiveInv, DatabaseInv
  <2> QED
    BY Zenon, <2>1, <2>2, <2>3, <2>4, EngagementEnds
<1>17. WritesRisk
  <2>1. UnknownEffectBlocks' /\ unknownBlock' \in BOOLEAN
    BY ZenonT(40), <1>7 DEF UnknownEffectBlocks, Held, UnresolvedEvidence
  <2>2. control' \in ControlStates
    BY ZenonT(40), <1>7, <1>8 DEF Stopped, ControlStates
  <2> QED
    BY ZenonT(40), <1>16, <2>1, <2>2 DEF WritesRisk
<1>18. Counted(q, artifacts[id])
  BY Zenon, <1>9 DEF Counted, Pending
<1> QED
  BY Zenon, <1>1, <1>2, <1>6, <1>9, <1>10, <1>14, <1>15, <1>17, <1>18, Reconciles

(* The SELL is dead or has failed: its authorization is given back. *)
LEMMA SellNoEffectKeeps ==
  ASSUME LiveInv, NEW w \in Workers, SellNoEffect(w)
  PROVE  LiveInv'
<1>1. Reconcilable(w)
  BY ZenonT(40) DEF SellNoEffect, SellReconciled
<1>2. PICK id \in Ids : id = worker[w].id
  BY Zenon, <1>1, ReconcilableFacts
<1>3. PICK b \in Buys : b = id[1]
  BY Zenon, <1>2, IdLocal
<1> DEFINE m == AttemptEnded(intents[id], "ABANDONED")
           u == Unresolved(m)
           q == AfterNoEffect(m, worker[w].found)
<1>4. /\ IsSell(id) /\ worker[w].found \in {"NO_EFFECT", "LANDED_FAILURE"}
      /\ entry[b].auth = "LOCKED" /\ entry[b].armament = "LOCKED"
      /\ entry[b].position \in {"EXIT_PENDING", "UNKNOWN"}
  BY ZenonT(40), <1>2, <1>3 DEF SellNoEffect, SellReconciled, Entry
<1>5. entry' = [entry EXCEPT ![b].position = "EXIT_PENDING", ![b].auth = "ACTIVE"]
  BY ZenonT(40), <1>2, <1>3 DEF SellNoEffect, Restored
<1>6. /\ intents' = [intents EXCEPT ![id] = q]
      /\ worker' = [worker EXCEPT ![w] = Idle] /\ UNCHANGED <<live, tokens>>
      /\ artifacts' = Evidenced(id, "RECONCILED", "NO_EFFECT")
  BY ZenonT(40), <1>2 DEF SellNoEffect, SellReconciled
<1>7. /\ unknownBlock' = (Held(entry') \/ UnresolvedEvidence(artifacts'))
      /\ control' = control /\ exposure' = exposure
  BY ZenonT(40), <1>2 DEF SellNoEffect
<1>8. /\ intents[id] \in IntentRow /\ Len(intents[id].attempts) = Len(artifacts[id])
      /\ artifacts[id] # <<>> /\ ArtifactsOK /\ Latest(id).state \notin Untouchable
      /\ entry \in [Buys -> EntryRow] /\ EntryShape(entry[b]) /\ control \in ControlStates
      /\ worker[w].found = "LANDED_FAILURE" => Latest(id).chain = Finalized("FAILED")
      /\ worker[w].found = "NO_EFFECT" /\ PromptReads => Latest(id).chain = Dead
  BY ZenonT(40), <1>1, <1>2, <1>3, <1>4, ReconcilableFacts
<1>9. /\ q \in IntentRow /\ q.status \in {"RETRY_READY", "FAILED"} /\ q.token = 0
      /\ q.revision >= intents[id].revision
      /\ ~HasStarted(q) /\ Len(q.attempts) = Len(intents[id].attempts)
  <2>1. /\ m \in IntentRow /\ m.revision = intents[id].revision
        /\ ~HasStarted(m) /\ Len(m.attempts) = Len(intents[id].attempts)
    BY ZenonT(40), <1>8, AttemptEndedFacts
  <2> HIDE DEF m
  <2>2. /\ u \in IntentRow /\ u.revision >= m.revision /\ u.attempts = m.attempts
    BY ZenonT(40), <2>1, UnresolvedFacts
  <2>3. q = IF worker[w].found = "LANDED_FAILURE" THEN Moved(u, "FAILED") ELSE Released(Moved(m, "RETRY_READY"))
    BY ZenonT(40) DEF AfterNoEffect
  <2> HIDE DEF u, q
  <2>4. "FAILED" \in Statuses /\ "FAILED" \in TerminalStatuses /\ "RETRY_READY" \in Statuses
    BY ZenonT(40) DEF Statuses, TerminalStatuses
  <2>5. /\ Moved(u, "FAILED") \in IntentRow /\ Moved(u, "FAILED").status = "FAILED"
        /\ Moved(u, "FAILED").token = 0 /\ Moved(u, "FAILED").revision = u.revision + 1
        /\ Moved(u, "FAILED").attempts = m.attempts
    BY ZenonT(40), <2>2, <2>4, MovedFacts
  <2>6. q \in IntentRow /\ q.status \in {"RETRY_READY", "FAILED"} /\ q.token = 0
        /\ q.attempts = m.attempts
    BY ZenonT(40), <2>1, <2>3, <2>4, <2>5, ReleasedMovedFacts
  <2>7. q.revision >= intents[id].revision
    BY SMTT(30), <1>8, <2>1, <2>2, <2>3, <2>4, <2>5, ReleasedMovedFacts DEF IntentRow
  <2> QED
    BY SMTT(30), <2>1, <2>6, <2>7 DEF HasStarted
<1> HIDE DEF q
<1>10. PICK a \in ArtifactRow :
         /\ Rewritten(id, a)
         /\ a.state = "RECONCILED" /\ a.evidence = "NO_EFFECT" /\ a.chain = Latest(id).chain
  <2>1. "RECONCILED" \in ArtifactStates /\ "NO_EFFECT" \in Results
    BY ZenonT(40), <1>4 DEF ArtifactStates, Results
  <2> QED
    BY <1>6, <1>8, <2>1, EvidenceRewritten
<1>11. /\ entry' \in [Buys -> EntryRow] /\ \A c \in Buys : c # b => entry'[c] = entry[c]
       /\ entry'[b].exit = entry[b].exit /\ entry'[b].lock = entry[b].lock /\ entry'[b].armament = entry[b].armament
       /\ entry'[b].position = "EXIT_PENDING" /\ entry'[b].auth = "ACTIVE"
       /\ entry'[b].reservation = entry[b].reservation
  <2>1. entry \in [Buys -> EntryRow] /\ b \in Buys
    BY ZenonT(40), <1>3, <1>8
  <2>2. /\ entry'[b].exit = entry[b].exit /\ entry'[b].lock = entry[b].lock /\ entry'[b].armament = entry[b].armament
         /\ entry'[b].position = "EXIT_PENDING" /\ entry'[b].auth = "ACTIVE"
         /\ entry'[b].reservation = entry[b].reservation
    BY ZenonT(40), <1>5, <2>1 DEF EntryRow
  <2>3. entry'[b] \in EntryRow
    BY ZenonT(40), <1>5, <2>1 DEF EntryRow, PositionStates, AuthorizationStates
  <2>4. entry' \in [Buys -> EntryRow] /\ \A c \in Buys : c # b => entry'[c] = entry[c]
    BY Zenon, <1>5, <2>1, <2>3
  <2> QED
    BY ZenonT(40), <2>2, <2>4
<1>12. entry[b].lock = "SIGNED_PERSISTED" /\ entry[b].reservation = "CONSUMED" /\ entry[b].exit > 0
  BY ZenonT(40), <1>4, <1>8 DEF EntryShape, NoPosition, HasPosition
<1>13. EntryShape(entry'[b]) /\ SellAfter(entry'[b], q.status)
  <2>1. EntryShape(entry'[b])
    BY ZenonT(40), <1>4, <1>11, <1>12 DEF EntryShape, HasPosition
  <2>2. SellAfter(entry'[b], q.status)
    BY ZenonT(40), <1>4, <1>9, <1>11 DEF SellAfter, Pending
  <2> QED
    BY Zenon, <2>1, <2>2
<1>14. WritesTransaction(id, q.status, a)
  <2>1. a.state \notin Untouchable
    BY Zenon, <1>10 DEF Untouchable, Early
  <2>2. /\ q.status \notin Decisive /\ Settled(IsSell(id), a)
        /\ q.status \notin {"SIMULATED", "RECONCILING", "CANCELLED"}
    BY ZenonT(40), <1>4, <1>8, <1>9, <1>10 DEF Decisive, Pending, Settled
  <2> QED
    BY Zenon, <1>10, <2>1, <2>2 DEF WritesTransaction
<1>15. WritesEntry(id, q.status, a)
  BY ZenonT(40), <1>3, <1>4, <1>11, <1>13 DEF WritesEntry
<1>16. ExposureInv'
  <2>1. \A c \in Buys : IsOpen(c)' <=> IsOpen(c)
    BY ZenonT(40), <1>4, <1>11 DEF IsOpen
  <2>2. \A c \in Buys : IsReserved(c)' <=> IsReserved(c)
    BY ZenonT(40), <1>11 DEF IsReserved
  <2> QED
    BY ZenonT(40), <1>7, <2>1, <2>2, ExposureFrame
<1>17. WritesRisk
  <2>1. UnknownEffectBlocks' /\ unknownBlock' \in BOOLEAN
    BY ZenonT(40), <1>7 DEF UnknownEffectBlocks, Held, UnresolvedEvidence
  <2>2. control' \in ControlStates
    BY ZenonT(40), <1>7, <1>8 DEF Stopped, ControlStates
  <2> QED
    BY Zenon, <1>16, <2>1, <2>2 DEF WritesRisk
<1>18. Counted(q, artifacts[id])
  BY ZenonT(40), <1>8, <1>9 DEF Counted, Pending
<1> QED
  BY ZenonT(40), <1>1, <1>2, <1>6, <1>9, <1>10, <1>14, <1>15, <1>17, <1>18, Reconciles

(* The fate of the SELL is unknown: the position is UNKNOWN. *)
LEMMA SellUnresolvedKeeps ==
  ASSUME LiveInv, NEW w \in Workers, SellUnresolved(w)
  PROVE  LiveInv'
<1>1. Reconcilable(w)
  BY ZenonT(40) DEF SellUnresolved, SellReconciled
<1>2. PICK id \in Ids : id = worker[w].id
  BY Zenon, <1>1, ReconcilableFacts
<1>3. PICK b \in Buys : b = id[1]
  BY Zenon, <1>2, IdLocal
<1> DEFINE q == Unresolved(intents[id])
<1>4. /\ IsSell(id) /\ worker[w].found \in {"UNKNOWN", "MISMATCH"}
      /\ entry[b].auth = "LOCKED" /\ entry[b].armament = "LOCKED"
      /\ entry[b].position \in {"EXIT_PENDING", "UNKNOWN"}
  BY ZenonT(40), <1>2, <1>3 DEF SellUnresolved, SellReconciled, Entry
<1>5. entry' = [entry EXCEPT ![b].position = "UNKNOWN"]
  BY ZenonT(40), <1>2, <1>3 DEF SellUnresolved
<1>6. /\ intents' = [intents EXCEPT ![id] = q]
      /\ worker' = [worker EXCEPT ![w] = Idle] /\ UNCHANGED <<live, tokens>>
      /\ artifacts' = Evidenced(id, "AMBIGUOUS", worker[w].found)
  BY ZenonT(40), <1>2 DEF SellUnresolved, SellReconciled
<1>7. unknownBlock' = TRUE /\ exposure' = exposure /\ control' \in {control, Stopped}
  BY ZenonT(40), <1>2 DEF SellUnresolved
<1>8. /\ intents[id] \in IntentRow /\ Len(intents[id].attempts) = Len(artifacts[id])
      /\ artifacts[id] # <<>> /\ ArtifactsOK /\ Latest(id).state \notin Untouchable
      /\ entry \in [Buys -> EntryRow] /\ EntryShape(entry[b]) /\ control \in ControlStates
  BY ZenonT(40), <1>1, <1>2, <1>3, <1>4, ReconcilableFacts
<1>9. /\ q \in IntentRow /\ q.status = "UNKNOWN_REQUIRES_RECONCILIATION" /\ q.token = 0
      /\ q.revision >= intents[id].revision /\ q.attempts = intents[id].attempts
  BY ZenonT(40), <1>8, UnresolvedFacts
<1> HIDE DEF q
<1>10. PICK a \in ArtifactRow :
         /\ Rewritten(id, a)
         /\ a.state = "AMBIGUOUS" /\ a.evidence = worker[w].found /\ a.chain = Latest(id).chain
  <2>1. "AMBIGUOUS" \in ArtifactStates /\ worker[w].found \in Results
    BY ZenonT(40), <1>4 DEF ArtifactStates, Results
  <2> QED
    BY SMTT(30), <1>6, <1>8, <2>1, EvidenceRewritten
<1>11. /\ entry' \in [Buys -> EntryRow] /\ \A c \in Buys : c # b => entry'[c] = entry[c]
       /\ entry'[b].exit = entry[b].exit /\ entry'[b].lock = entry[b].lock /\ entry'[b].armament = entry[b].armament
       /\ entry'[b].position = "UNKNOWN" /\ entry'[b].auth = entry[b].auth
       /\ entry'[b].reservation = entry[b].reservation
  <2>1. entry \in [Buys -> EntryRow] /\ b \in Buys
    BY ZenonT(40), <1>3, <1>8
  <2>2. /\ entry'[b].exit = entry[b].exit /\ entry'[b].lock = entry[b].lock /\ entry'[b].armament = entry[b].armament
         /\ entry'[b].position = "UNKNOWN" /\ entry'[b].auth = entry[b].auth
         /\ entry'[b].reservation = entry[b].reservation
    BY ZenonT(40), <1>5, <2>1 DEF EntryRow
  <2>3. entry'[b] \in EntryRow
    BY ZenonT(40), <1>5, <2>1 DEF EntryRow, PositionStates
  <2>4. entry' \in [Buys -> EntryRow] /\ \A c \in Buys : c # b => entry'[c] = entry[c]
    BY ZenonT(40), <1>5, <2>1, <2>3
  <2> QED
    BY ZenonT(40), <2>2, <2>4
<1>12. entry[b].lock = "SIGNED_PERSISTED" /\ entry[b].reservation = "CONSUMED" /\ entry[b].exit > 0
  BY ZenonT(40), <1>4, <1>8 DEF EntryShape, NoPosition, HasPosition
<1>13. EntryShape(entry'[b]) /\ SellAfter(entry'[b], q.status)
  <2>1. EntryShape(entry'[b])
    BY ZenonT(40), <1>4, <1>11, <1>12 DEF EntryShape, HasPosition
  <2>2. SellAfter(entry'[b], q.status)
    BY ZenonT(40), <1>4, <1>9, <1>11 DEF SellAfter, Pending
  <2> QED
    BY Zenon, <2>1, <2>2
<1>14. WritesTransaction(id, q.status, a)
  <2>1. a.state \notin Untouchable
    BY Zenon, <1>10 DEF Untouchable, Early
  <2>2. q.status \in Decisive /\ Fits(q.status, a) /\ q.status \notin {"SIMULATED", "RECONCILING", "CANCELLED"}
    BY ZenonT(40), <1>4, <1>8, <1>9, <1>10 DEF Decisive, Pending, Fits
  <2> QED
    BY Zenon, <1>10, <2>1, <2>2 DEF WritesTransaction
<1>15. WritesEntry(id, q.status, a)
  BY ZenonT(40), <1>3, <1>4, <1>11, <1>13 DEF WritesEntry
<1>16. ExposureInv'
  <2>1. \A c \in Buys : IsOpen(c)' <=> IsOpen(c)
    BY ZenonT(40), <1>4, <1>11 DEF IsOpen
  <2>2. \A c \in Buys : IsReserved(c)' <=> IsReserved(c)
    BY ZenonT(40), <1>11 DEF IsReserved
  <2> QED
    BY ZenonT(40), <1>7, <2>1, <2>2, ExposureFrame
<1>17. WritesRisk
  <2>1. UnknownEffectBlocks' /\ unknownBlock' \in BOOLEAN
    BY ZenonT(40), <1>7 DEF UnknownEffectBlocks, Held, UnresolvedEvidence
  <2>2. control' \in ControlStates
    BY ZenonT(40), <1>7, <1>8 DEF Stopped, ControlStates
  <2> QED
    BY Zenon, <1>16, <2>1, <2>2 DEF WritesRisk
<1>18. Counted(q, artifacts[id])
  BY ZenonT(40), <1>8, <1>9 DEF Counted, Pending
<1> QED
  BY Zenon, <1>1, <1>2, <1>6, <1>9, <1>10, <1>14, <1>15, <1>17, <1>18, Reconciles

(* A step that writes neither an intent nor a transaction nor a worker. *)
LEMMA OperatorStep ==
  ASSUME LiveInv, UNCHANGED <<intents, artifacts, tokens, worker>>,
         control' \in ControlStates, unknownBlock' \in BOOLEAN,
         live \subseteq live', live' \subseteq Ids, entry' \in [Buys -> EntryRow],
         \A c \in Buys : LocalInv(c)', ExposureInv', UnknownEffectBlocks'
  PROVE  LiveInv'
<1>1. TypeOK /\ (\A c \in Buys : LocalInv(c)) /\ WorkersInv
  BY ZenonT(40) DEF LiveInv, DatabaseInv
<1>2. TypeOK'
  <2>1. exposure' \in Nat
    BY DEF ExposureInv
  <2> QED
    BY ZenonT(40), <1>1, <2>1 DEF TypeOK
<1>3. WorkersInv'
  BY ZenonT(40), <1>1, <1>2, NothingWritten
<1> QED
  BY ZenonT(40), <1>2, <1>3 DEF LiveInv, DatabaseInv

(* A new exit of an open position whose earlier exits are dead. *)
LEMMA ExitAdded ==
  ASSUME LiveInv, NEW b \in Buys, NEW k \in Nat, k = entry[b].exit, k < MaxExits,
         entry[b].auth = "ACTIVE", entry[b].position \in {"OPEN", "EXIT_PENDING"},
         k > 0 => intents[<<b, k>>].status \in {"FAILED", "EXPIRED"},
         live' = live \cup {<<b, k + 1>>},
         entry' \in [Buys -> EntryRow], \A c \in Buys : c # b => entry'[c] = entry[c],
         entry'[b].exit = k + 1, entry'[b].position = "EXIT_PENDING",
         entry'[b].armament = entry[b].armament, entry'[b].reservation = entry[b].reservation,
         entry'[b].lock = entry[b].lock, entry'[b].auth = entry[b].auth,
         UNCHANGED <<control, unknownBlock, exposure, intents, artifacts, tokens, worker>>
  PROVE  LiveInv'
<1>1. MaxExits \in Nat
  BY ZenonT(40), ExecutionLiveAssumption
<1>2. \A c \in Buys : LocalInv(c)
  BY ZenonT(40) DEF LiveInv, DatabaseInv
<1>3. /\ entry[b].armament = "LOCKED" /\ entry[b].reservation = "CONSUMED"
      /\ entry[b].lock = "SIGNED_PERSISTED"
  BY ZenonT(40), <1>2 DEF LocalInv, EntryShape, HasPosition, NoPosition
<1>4. EntryShape(entry'[b])
  BY SMTT(30), <1>3 DEF EntryShape, HasPosition
<1>5. ASSUME NEW n \in 1..MaxExits
      PROVE  SellFits(entry'[b], n, intents'[<<b, n>>].status, artifacts'[<<b, n>>])
  <2>1. SellFits(entry[b], n, intents[<<b, n>>].status, artifacts[<<b, n>>])
    BY ZenonT(40), <1>2 DEF LocalInv
  <2>2. CASE n > k
    <3>1. intents[<<b, n>>].status = "PENDING" /\ artifacts[<<b, n>>] = <<>>
      BY ZenonT(40), <2>1, <2>2 DEF SellFits
    <3> QED
      BY <2>2, <3>1 DEF SellFits, Pending
  <2>3. CASE n <= k
    <3>1. intents[<<b, n>>].status \in {"FAILED", "EXPIRED"}
      BY SMTT(30), <2>1, <2>3 DEF SellFits
    <3> QED
      BY SMTT(30), <2>3, <3>1 DEF SellFits
  <2> QED
    BY SMTT(30), <2>2, <2>3
<1>6. \A n \in 1..MaxExits : <<b, n>> \in live' <=> n <= entry'[b].exit
  <2> SUFFICES ASSUME NEW n \in 1..MaxExits PROVE <<b, n>> \in live' <=> n <= k + 1
    BY ZenonT(40)
  <2>1. <<b, n>> \in live <=> n <= k
    BY ZenonT(40), <1>2 DEF LocalInv
  <2> QED
    BY <2>1
<1>7. BuyFits(entry'[b], intents'[<<b, 0>>].status, artifacts'[<<b, 0>>])
  BY ZenonT(40), <1>2 DEF LocalInv, BuyFits
<1>8. <<b, 0>> \in live' \/ entry'[b].armament = "NONE"
  BY ZenonT(40), <1>2 DEF LocalInv
<1>9. \A n \in 0..MaxExits : Ledger(n > 0, intents'[<<b, n>>].status, artifacts'[<<b, n>>])
  BY ZenonT(40), <1>2 DEF LocalInv
<1>10. LocalInv(b)'
  BY ZenonT(40), <1>4, <1>5, <1>6, <1>7, <1>8, <1>9 DEF LocalInv
<1>11. ASSUME NEW c \in Buys, c # b PROVE LocalInv(c)'
  <2>1. Same(c)
    BY ZenonT(40), <1>11 DEF Same
  <2> QED
    BY ZenonT(40), <1>2, <2>1, LocalFrame
<1>12. ExposureInv'
  <2>1. \A c \in Buys : IsReserved(c)' <=> IsReserved(c)
    BY ZenonT(40) DEF IsReserved
  <2>2. \A c \in Buys : IsOpen(c)' <=> IsOpen(c)
    BY ZenonT(40) DEF IsOpen
  <2> QED
    BY ZenonT(40), <2>1, <2>2, ExposureFrame
<1>13. UnknownEffectBlocks'
  <2>1. \A c \in Buys : entry'[c].reservation = entry[c].reservation
    BY ZenonT(40)
  <2>2. UnknownEffectBlocks
    BY ZenonT(40) DEF LiveInv, DatabaseInv
  <2> QED
    BY ZenonT(40), <2>1, <2>2, BlockKept
<1>14. <<b, k + 1>> \in Ids /\ live \subseteq Ids /\ control \in ControlStates /\ unknownBlock \in BOOLEAN
  BY <1>1 DEF Ids, LiveInv, TypeOK
<1> QED
  BY ZenonT(40), <1>10, <1>11, <1>12, <1>13, <1>14, OperatorStep

(* The first exit of a position is created. *)
LEMMA CreateExitKeeps ==
  ASSUME LiveInv, NEW b \in Buys, CreateExit(b)
  PROVE  LiveInv'
<1>1. /\ entry[b].position = "OPEN" /\ entry[b].exit = 0 /\ MaxExits > 0 /\ MaxExits \in Nat
      /\ live' = live \cup {<<b, 1>>}
      /\ entry' = [entry EXCEPT ![b].position = "EXIT_PENDING", ![b].exit = 1]
      /\ UNCHANGED <<control, unknownBlock, exposure, intents, artifacts, tokens, worker>>
  BY Zenon, ExecutionLiveAssumption DEF CreateExit
<1>2. entry \in [Buys -> EntryRow] /\ EntryShape(entry[b])
  BY ZenonT(40) DEF LiveInv, TypeOK, DatabaseInv, LocalInv
<1>3. entry[b].auth = "ACTIVE"
  BY ZenonT(40), <1>1, <1>2 DEF EntryShape, NoPosition, HasPosition
<1>4. 1 \in 0..MaxExits
  BY <1>1
<1>5. /\ entry' \in [Buys -> EntryRow] /\ \A c \in Buys : c # b => entry'[c] = entry[c]
      /\ entry'[b].exit = 1 /\ entry'[b].position = "EXIT_PENDING"
      /\ entry'[b].armament = entry[b].armament /\ entry'[b].reservation = entry[b].reservation
      /\ entry'[b].lock = entry[b].lock /\ entry'[b].auth = entry[b].auth
  BY <1>1, <1>2, <1>4 DEF EntryRow, PositionStates
<1>6. 0 \in Nat /\ 0 + 1 = 1 /\ ~(0 > 0)
  OBVIOUS
<1> QED
  BY ZenonT(40), <1>1, <1>3, <1>5, <1>6, ExitAdded

(* A dead exit is replaced. *)
LEMMA ReExitKeeps ==
  ASSUME LiveInv, NEW b \in Buys, ReExit(b)
  PROVE  LiveInv'
<1> DEFINE k == entry[b].exit
           id == <<b, k>>
<1>1. /\ entry[b].position = "EXIT_PENDING" /\ entry[b].auth = "ACTIVE" /\ k < MaxExits
      /\ \/ /\ Expirable(intents[id])
            /\ intents' = [intents EXCEPT ![id] = ExpiredRow(intents[id])]
            /\ UNCHANGED <<live, entry>>
         \/ /\ intents[id].status \in {"FAILED", "EXPIRED"}
            /\ live' = live \cup {<<b, k + 1>>}
            /\ entry' = [entry EXCEPT ![b].exit = k + 1]
            /\ UNCHANGED intents
      /\ UNCHANGED <<control, unknownBlock, exposure, artifacts, tokens, worker>>
  BY ZenonT(40) DEF ReExit, ReExitGuard, CurrentExit
<1>2. /\ entry \in [Buys -> EntryRow] /\ EntryShape(entry[b]) /\ LocalInv(b)
      /\ MaxExits \in Nat /\ k \in 0..MaxExits
  BY ZenonT(40), ExecutionLiveAssumption DEF LiveInv, TypeOK, DatabaseInv, LocalInv, EntryRow
<1>3. k \in 1..MaxExits
  BY <1>1, <1>2 DEF EntryShape, NoPosition, HasPosition
<1>4. id \in Ids /\ id \in live
  BY <1>2, <1>3 DEF Ids, LocalInv
<1>5. CASE Expirable(intents[id]) /\ intents' = [intents EXCEPT ![id] = ExpiredRow(intents[id])]
           /\ UNCHANGED <<live, entry>>
  <2> DEFINE q == ExpiredRow(intents[id])
  <2>1. /\ q \in IntentRow /\ q.status = "EXPIRED" /\ q.token = 0
        /\ q.revision >= intents[id].revision /\ Counted(q, artifacts[id])
        /\ intents[id].status \in Unsigned /\ (id \in live \/ ~IsSell(id))
    BY ZenonT(40), <1>4, <1>5, ExpiredRowFacts DEF Exists
  <2>2. intents' = [intents EXCEPT ![id] = q]
    BY ZenonT(40), <1>5
  <2> HIDE DEF q, id
  <2> QED
    BY ZenonT(40), <1>1, <1>4, <1>5, <2>1, <2>2, TimeWrites
<1>6. CASE /\ intents[id].status \in {"FAILED", "EXPIRED"}
           /\ live' = live \cup {<<b, k + 1>>}
           /\ entry' = [entry EXCEPT ![b].exit = k + 1]
           /\ UNCHANGED intents
  <2> DEFINE m == k + 1
  <2>1. k \in Nat /\ k < MaxExits /\ m \in 0..MaxExits
    BY <1>1, <1>2
  <2>2. entry' = [entry EXCEPT ![b].exit = m]
    BY ZenonT(40), <1>6
  <2>3. intents[<<b, k>>].status \in {"FAILED", "EXPIRED"} /\ live' = live \cup {<<b, m>>}
    BY ZenonT(40), <1>6
  <2> HIDE DEF m
  <2>4. /\ entry' \in [Buys -> EntryRow] /\ \A c \in Buys : c # b => entry'[c] = entry[c]
        /\ entry'[b].exit = m /\ entry'[b].position = entry[b].position
        /\ entry'[b].armament = entry[b].armament /\ entry'[b].reservation = entry[b].reservation
        /\ entry'[b].lock = entry[b].lock /\ entry'[b].auth = entry[b].auth
    BY ZenonT(40), <1>2, <2>1, <2>2 DEF EntryRow
  <2>5. k = entry[b].exit /\ m = k + 1
    BY Zenon DEF m
  <2> HIDE DEF k
  <2> QED
    BY SMTT(30), <1>1, <1>6, <2>1, <2>3, <2>4, <2>5, ExitAdded
<1> QED
  BY ZenonT(40), <1>1, <1>5, <1>6

=============================================================================
