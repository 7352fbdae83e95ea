------------------------ MODULE ExecutionLiveExecutor ------------------------
EXTENDS ExecutionLiveInvariant, TLAPS

(***************************************************************************)
(* Every step of the executor and every fate of a transaction on the chain *)
(* keep LiveInv: one lemma per action of ExecutionLive that execution-     *)
(* worker.ts, the submission gateway or the network takes.                 *)
(***************************************************************************)

(* startProcessing: the claimed intent becomes PROCESSING. *)
LEMMA StartProcessingKeeps ==
  ASSUME LiveInv, NEW w \in Workers, StartProcessing(w)
  PROVE  LiveInv'
<1> DEFINE id == worker[w].id
           r == IF Row(w).status = "PROCESSING" THEN Row(w) ELSE Moved(Row(w), "PROCESSING")
<1>1. Engages(w) /\ Owns(w) /\ worker[w].pc = "CLAIMED"
  BY Zenon DEF StartProcessing, At, Engages
<1>2. /\ id \in Ids /\ id \in live /\ Row(w) = intents[id] /\ Row(w) \in IntentRow
      /\ intents[id].status \in Unsigned /\ intents[id].token = worker[w].claim.token
  BY ZenonT(40), <1>1, OwnerFacts DEF ClaimStatus, Unsigned
<1>3. /\ r \in IntentRow /\ r.status = "PROCESSING" /\ r.token = Row(w).token
      /\ r.revision >= Row(w).revision /\ r.attempts = Row(w).attempts
  <2>1. "PROCESSING" \in Statuses /\ "PROCESSING" \notin TerminalStatuses
    BY ZenonT(40) DEF Statuses, TerminalStatuses
  <2>2. Row(w).revision \in Nat
    BY ZenonT(40), <1>2 DEF IntentRow
  <2> QED
    BY <1>2, <2>1, <2>2, MovedFacts
<1>4. intents' = [intents EXCEPT ![id] = r] /\ worker' = GoesHolding(w, "STARTED", r)
  BY Zenon DEF StartProcessing
<1> HIDE DEF r
<1>5. Turned(w, "STARTED", id, ClaimOf(r))
  BY ZenonT(40), <1>3, <1>4, GoesTurn DEF WorkerPcs, LiveInv
<1>6. Counted(r, artifacts[id])
  <2>1. Counted(intents[id], artifacts[id])
    BY ZenonT(40), <1>2, IdLocal
  <2>2. Len(r.attempts) = Len(intents[id].attempts) /\ (HasStarted(r) <=> HasStarted(intents[id]))
    BY ZenonT(40), <1>2, <1>3 DEF HasStarted
  <2>3. Len(artifacts[id]) \in Nat
    BY ZenonT(40), <1>2, IdLocal
  <2>4. HasStarted(r) => intents[id].status = "PROCESSING"
    BY ZenonT(40), <1>2, <2>1, <2>2 DEF Counted, Unsigned
  <2>5. Len(intents[id].attempts) = Len(artifacts[id]) + (IF HasStarted(r) THEN 1 ELSE 0)
    <3>1. CASE intents[id].status = "PROCESSING"
      BY ZenonT(40), <2>1, <2>2, <3>1 DEF Counted
    <3>2. CASE intents[id].status # "PROCESSING"
      <4>1. Len(intents[id].attempts) = Len(artifacts[id]) /\ ~HasStarted(r)
        BY ZenonT(40), <1>2, <2>1, <2>4, <3>2 DEF Counted, Unsigned
      <4> QED
        BY <2>3, <4>1
    <3> QED
      BY ZenonT(40), <3>1, <3>2
  <2> QED
    BY ZenonT(40), <1>3, <2>2, <2>5 DEF Counted, Pending
<1>7. /\ UNCHANGED <<unknownBlock, exposure, live, entry, artifacts, tokens>>
      /\ control' \in ControlStates /\ worker' \in [Workers -> WorkerRow]
  BY ZenonT(40), <1>5 DEF StartProcessing, LiveInv, TypeOK, Turned
<1> QED
  BY ZenonT(40), <1>1, <1>2, <1>3, <1>4, <1>5, <1>6, <1>7, UnsignedWrite

(* beginAttempt: the attempt is recorded. *)
LEMMA BeginAttemptKeeps ==
  ASSUME LiveInv, NEW w \in Workers, BeginAttempt(w)
  PROVE  LiveInv'
<1> DEFINE id == worker[w].id
           r == Begun(Row(w))
<1>1. Engages(w) /\ Owns(w) /\ worker[w].pc = "STARTED"
  BY Zenon DEF BeginAttempt, At, Engages
<1>2. /\ id \in Ids /\ id \in live /\ Row(w) = intents[id] /\ Row(w) \in IntentRow
      /\ intents[id].status = "PROCESSING" /\ intents[id].token = worker[w].claim.token
  BY Zenon, <1>1, OwnerFacts DEF ClaimStatus
<1>3. /\ r \in IntentRow /\ r.status = "PROCESSING" /\ r.token = Row(w).token
      /\ r.revision = Row(w).revision /\ HasStarted(r)
      /\ Len(r.attempts) = Len(Row(w).attempts) + (IF HasStarted(Row(w)) THEN 0 ELSE 1)
  <2> DEFINE y == Row(w)
  <2>1. y \in IntentRow /\ y.status = "PROCESSING"
    BY Zenon, <1>2
  <2> HIDE DEF y
  <2>2. LET p == Begun(y)
        IN /\ p \in IntentRow /\ p.status = y.status /\ p.revision = y.revision
           /\ p.token = y.token /\ HasStarted(p)
           /\ Len(p.attempts) = Len(y.attempts) + (IF HasStarted(y) THEN 0 ELSE 1)
    BY ZenonT(40), <2>1, BegunFacts
  <2> QED
    BY ZenonT(40), <2>1, <2>2 DEF y
<1>4. intents' = [intents EXCEPT ![id] = r] /\ worker' = GoesHolding(w, "EVALUATING", r)
  BY Zenon DEF BeginAttempt
<1> HIDE DEF r
<1>5. Turned(w, "EVALUATING", id, ClaimOf(r))
  BY ZenonT(40), <1>3, <1>4, GoesTurn DEF WorkerPcs, LiveInv
<1>6. Counted(r, artifacts[id])
  <2>1. Counted(intents[id], artifacts[id]) /\ Len(artifacts[id]) \in Nat
    BY ZenonT(40), <1>2, IdLocal
  <2>2. Len(r.attempts) = Len(artifacts[id]) + 1
    <3> DEFINE n == Len(intents[id].attempts)
               k == Len(artifacts[id])
               started == HasStarted(intents[id])
    <3>1. n = k + (IF started THEN 1 ELSE 0)
      BY ZenonT(40), <1>2, <2>1 DEF Counted
    <3>2. Len(r.attempts) = n + (IF started THEN 0 ELSE 1)
      BY ZenonT(40), <1>2, <1>3
    <3>3. k \in Nat
      BY ZenonT(40), <2>1
    <3> HIDE DEF n, k, started
    <3>4. Len(r.attempts) = k + 1
      BY <3>1, <3>2, <3>3
    <3> QED
      BY ZenonT(40), <3>4 DEF k
  <2> QED
    BY Zenon, <1>3, <2>2 DEF Counted, Pending
<1>7. /\ UNCHANGED <<unknownBlock, exposure, live, entry, artifacts, tokens>>
      /\ control' \in ControlStates /\ worker' \in [Workers -> WorkerRow]
  BY ZenonT(40), <1>5 DEF BeginAttempt, LiveInv, TypeOK, Turned
<1>8. r.revision >= intents[id].revision
  BY <1>2, <1>3 DEF IntentRow
<1> QED
  BY ZenonT(40), <1>1, <1>2, <1>3, <1>4, <1>5, <1>6, <1>7, <1>8, UnsignedWrite

(* The evaluation fails, and the intent with it. *)
LEMMA EvaluationFailsKeeps ==
  ASSUME LiveInv, NEW w \in Workers, EvaluationFails(w)
  PROVE  LiveInv'
<1> DEFINE id == worker[w].id
           q == Moved(AttemptEnded(intents[id], "ABANDONED"), "FAILED")
<1>1. Engages(w) /\ Owns(w) /\ worker[w].pc \in {"EVALUATING", "SIGNING"}
  BY Zenon DEF EvaluationFails, At, Engages
<1>2. /\ id \in Ids /\ id \in live /\ Row(w) = intents[id] /\ Row(w) \in IntentRow
      /\ intents[id].status \in Unsigned
  BY ZenonT(40), <1>1, OwnerFacts DEF ClaimStatus, Unsigned
<1>3. q \in IntentRow /\ q.status = "FAILED" /\ q.token = 0 /\ q.revision >= intents[id].revision
      /\ Counted(q, artifacts[id])
  BY <1>2, EndedFacts DEF TerminalStatuses
<1>4. intents' = [intents EXCEPT ![id] = q] /\ worker' = [worker EXCEPT ![w] = Idle]
  BY Zenon DEF EvaluationFails
<1>5. Turned(w, "IDLE", NoIntent, NoClaim)
  BY ZenonT(40), <1>4, IdleTurn DEF LiveInv
<1>6. /\ UNCHANGED <<unknownBlock, exposure, live, entry, artifacts, tokens>>
      /\ control' \in ControlStates /\ worker' \in [Workers -> WorkerRow]
  BY Zenon, <1>5 DEF EvaluationFails, LiveInv, TypeOK, Turned
<1> HIDE DEF q
<1> QED
  BY ZenonT(40), <1>2, <1>3, <1>4, <1>5, <1>6, UnsignedWrite

(* A worker dies and forgets; its lease stays. *)
LEMMA CrashKeeps ==
  ASSUME LiveInv, NEW w \in Workers, Crash(w)
  PROVE  LiveInv'
<1>1. Turned(w, "IDLE", NoIntent, NoClaim)
  BY Zenon, IdleTurn DEF LiveInv, Crash
<1> QED
  BY ZenonT(40), <1>1, IdleMeansNothing, QuietStep DEF Crash

(* The expiration pass before a claim has found nothing more to expire. *)
LEMMA PrePassKeeps ==
  ASSUME LiveInv, NEW w \in Workers, PrePass(w)
  PROVE  LiveInv'
<1>1. Turned(w, "READY", worker[w].id, worker[w].claim)
  BY ZenonT(40), PcTurn DEF LiveInv, PrePass, WorkerPcs
<1>2. worker[w].id = NoIntent
  BY Zenon DEF PrePass, LiveInv, WorkersInv, WorkerInv, Engages
<1> QED
  BY ZenonT(40), <1>1, <1>2, IdleMeansNothing, QuietStep DEF PrePass

(* A worker whose claim is over becomes idle. *)
LEMMA FinishKeeps ==
  ASSUME LiveInv, NEW w \in Workers, Finish(w)
  PROVE  LiveInv'
<1> DEFINE id == worker[w].id
           q == Released(intents[id])
<1>1. Turned(w, "IDLE", NoIntent, NoClaim)
  BY Zenon, IdleTurn DEF LiveInv, Finish
<1>2. CASE id # NoIntent /\ Fenced(Row(w), worker[w].held)
  <2>1. Engages(w)
    BY Zenon, <1>2 DEF LiveInv, WorkersInv, WorkerInv
  <2>2. id \in Ids /\ intents[id] \in IntentRow /\ Counted(intents[id], artifacts[id])
    BY ZenonT(40), <2>1, OwnerFacts, IdLocal
  <2>3. /\ q \in IntentRow /\ q.token = 0 /\ q.status = intents[id].status
        /\ q.revision = intents[id].revision /\ q.attempts = intents[id].attempts
    BY ZenonT(40), <2>2, ReleasedFacts
  <2>4. intents' = [intents EXCEPT ![id] = q]
    BY Zenon, <1>2 DEF Finish
  <2> HIDE DEF q
  <2>5. Counted(q, artifacts[id])
    BY ZenonT(40), <2>2, <2>3 DEF Counted, HasStarted
  <2>6. q.revision >= intents[id].revision
    BY <2>2, <2>3 DEF IntentRow
  <2>7. /\ UNCHANGED <<unknownBlock, exposure, live, entry, artifacts, tokens>>
        /\ control' \in ControlStates /\ worker' \in [Workers -> WorkerRow]
    BY Zenon, <1>1 DEF Finish, LiveInv, TypeOK, Turned
  <2> QED
    BY ZenonT(40), <1>1, <2>2, <2>3, <2>4, <2>5, <2>6, <2>7, UnsignedWrite
<1>3. CASE ~(id # NoIntent /\ Fenced(Row(w), worker[w].held))
  BY ZenonT(40), <1>1, <1>3, IdleMeansNothing, QuietStep DEF Finish
<1> QED
  BY Zenon, <1>2, <1>3

(* A claim: a new token, given to one worker and to no other. *)
LEMMA ClaimKeeps ==
  ASSUME LiveInv, NEW w \in Workers, ~Engages(w), NEW id \in live, NEW pc \in WorkerPcs,
         pc \in {"CLAIMED", "RECOVERING", "CONFIRMING", "RECONCILING"},
         ClaimStatus(pc, intents[id].status), Claimed(w, id, pc)
  PROVE  LiveInv'
<1> DEFINE q == Leased(intents[id], tokens + 1)
           c == ClaimOf(q)
           x == [Idle EXCEPT !.pc = pc, !.id = id, !.claim = c, !.held = c]
<1>1. id \in Ids /\ intents[id] \in IntentRow /\ tokens \in Nat /\ tokens < MaxTokens
      /\ intents \in [Ids -> IntentRow] /\ MaxTokens \in Nat
  BY ExecutionLiveAssumption DEF LiveInv, TypeOK, Claimed
<1>2. /\ q \in IntentRow /\ q.token = tokens + 1 /\ q.status = intents[id].status
      /\ q.revision = intents[id].revision /\ q.attempts = intents[id].attempts
  <2> DEFINE t == tokens + 1
  <2>1. t \in Nat
    BY <1>1
  <2> HIDE DEF t
  <2>2. LET p == Leased(intents[id], t)
        IN /\ p \in IntentRow /\ p.token = t /\ p.status = intents[id].status
           /\ p.revision = intents[id].revision /\ p.attempts = intents[id].attempts
    BY ZenonT(40), <1>1, <2>1, LeasedFacts
  <2> QED
    BY ZenonT(40), <2>2 DEF t
<1>3. /\ c \in ClaimRow /\ c.status = q.status /\ c.revision = q.revision
      /\ c.attemptCount = Len(q.attempts) /\ c.token = q.token
  BY ZenonT(40), <1>2, ClaimOfFacts
<1>4. intents' = [intents EXCEPT ![id] = q] /\ tokens' = tokens + 1
  BY Zenon DEF Claimed
<1> HIDE DEF q
<1>5. intents'[id] = q /\ \A j \in Ids : j # id => intents'[j] = intents[j]
  BY ZenonT(40), <1>1, <1>4
<1>6. worker' = [worker EXCEPT ![w] = x]
  BY Zenon, <1>5 DEF Claimed
<1> HIDE DEF c
<1>7. x \in WorkerRow /\ x.pc = pc /\ x.id = id /\ x.claim = c
  BY ZenonT(40), <1>1, <1>3, ChainFacts DEF Idle, WorkerRow, Unsent
<1> HIDE DEF x
<1>8. Turned(w, pc, id, c)
  BY ZenonT(40), <1>6, <1>7 DEF Turned, LiveInv, TypeOK
<1>9. UNCHANGED <<control, unknownBlock, exposure, live, entry, artifacts>>
  BY Zenon DEF Claimed
<1>10. TypeOK'
  <2>1. tokens' \in 0..MaxTokens
    BY <1>1, <1>4
  <2>2. intents' \in [Ids -> IntentRow]
    BY ZenonT(40), <1>1, <1>2, <1>4
  <2> QED
    BY ZenonT(40), <1>8, <1>9, <2>1, <2>2 DEF LiveInv, TypeOK, Turned
<1>11. DatabaseInv'
  BY ZenonT(40), <1>1, <1>2, <1>5, <1>9, StatusWritten
<1>12. TypeOK /\ (\A b \in Buys : LocalInv(b)) /\ WorkersInv
  BY Zenon DEF LiveInv, DatabaseInv
<1>13. \A v \in Workers : v # w => Steady(v)
  <2> SUFFICES ASSUME NEW v \in Workers, v # w PROVE Steady(v)
    BY Zenon
  <2>1. Engages(v) => worker[v].claim.token \in 1..tokens
    BY ZenonT(40), OwnerFacts
  <2>2. Engages(v) => intents'[id].token # worker[v].claim.token
    BY <1>1, <1>2, <1>5, <2>1
  <2>3. worker'[v] = worker[v]
    BY ZenonT(40), <1>8 DEF Turned
  <2> QED
    BY ZenonT(40), <1>1, <1>5, <1>9, <1>12, <2>2, <2>3, SteadyUnlessTaken
<1>14. \A j \in Ids : Advanced(j)
  <2> SUFFICES ASSUME NEW j \in Ids PROVE Advanced(j)
    BY Zenon
  <2>1. intents[j].revision \in Nat /\ Len(artifacts[j]) \in Nat
    BY <1>12 DEF TypeOK, IntentRow
  <2>2. intents'[j].revision = intents[j].revision
    BY ZenonT(40), <1>2, <1>5
  <2> QED
    BY <1>9, <2>1, <2>2 DEF Advanced
<1>15. \A j \in Ids : intents'[j].token <= tokens' /\ Counted(intents'[j], artifacts'[j])
  <2> SUFFICES ASSUME NEW j \in Ids
               PROVE  intents'[j].token <= tokens' /\ Counted(intents'[j], artifacts'[j])
    BY Zenon
  <2>1. intents[j].token <= tokens /\ intents[j].token \in Nat /\ Counted(intents[j], artifacts[j])
    BY ZenonT(40), <1>12 DEF WorkersInv, TypeOK, IntentRow
  <2>2. intents'[j].token <= tokens'
    BY <1>1, <1>2, <1>4, <1>5, <2>1
  <2>3. intents'[j].status = intents[j].status /\ intents'[j].attempts = intents[j].attempts
    BY ZenonT(40), <1>2, <1>5
  <2> QED
    BY ZenonT(40), <1>9, <2>1, <2>2, <2>3 DEF Counted, HasStarted
<1>16. WorkerInv(w)'
  <2>1. c.token \in 1..tokens' /\ c.revision <= intents'[id].revision
    BY SMTT(30), <1>1, <1>2, <1>3, <1>4, <1>5 DEF IntentRow
  <2> QED
    BY ZenonT(40), <1>2, <1>3, <1>8, <1>9, <2>1 DEF WorkerInv, Turned, Engages
<1>17. MemoryInv(w)'
  <2>1. pc = "RECOVERING" => c.attemptCount = Len(artifacts[id])
    BY ZenonT(40), <1>1, <1>2, <1>3, IdLocal DEF Counted, ClaimStatus, Pending
  <2>2. worker'[w].pc = pc /\ worker'[w].id = id /\ worker'[w].claim = c
    BY ZenonT(40), <1>8 DEF Turned
  <2> QED
    BY ZenonT(40), <1>9, <2>1, <2>2 DEF MemoryInv
<1>18. worker'[w].claim.token > tokens
  BY SMTT(30), <1>1, <1>2, <1>3, <1>8 DEF Turned
<1>19. WorkersInv'
  BY SMTT(30), <1>1, <1>4, <1>9, <1>10, <1>12, <1>13, <1>14, <1>15, <1>16, <1>17, <1>18, WorkerSteps
<1> QED
  BY ZenonT(40), <1>10, <1>11, <1>19 DEF LiveInv

(* A step that only rewrites the latest transaction of the worker's own    *)
(* intent before its submission is recorded.                               *)
LEMMA ArtifactOnly ==
  ASSUME LiveInv, NEW w \in Workers, Engages(w), Owns(w), NEW id \in Ids, id = worker[w].id,
         intents[id].status = "SIGNED_NOT_SUBMITTED",
         NEW state \in ArtifactStates, artifacts' = WithArtifact(id, state),
         state \in {"SIGNED_SIMULATED", "SUBMISSION_STARTED"},
         Latest(id).state \in Early,
         UNCHANGED <<control, unknownBlock, exposure, intents, live, entry, tokens>>,
         NEW pc, Turned(w, pc, id, worker[w].claim),
         pc \in {"SIMULATED", "SENDING"},
         worker[w].claim.status = "SIGNED_NOT_SUBMITTED",
         worker[w].claim.attemptCount = Len(artifacts[id]),
         pc = "SENDING" => state = "SUBMISSION_STARTED"
  PROVE  LiveInv'
<1>1. intents[id].status \in Pending
  BY Zenon DEF Pending
<1>2. /\ artifacts[id] # <<>> /\ Latest(id) \in ArtifactRow /\ ArtifactsOK
      /\ Fits("SIGNED_NOT_SUBMITTED", Latest(id))
      /\ ~IsSell(id) => BuyAfter(entry[id[1]], intents[id].status, Latest(id))
      /\ IsSell(id) /\ id \in live => SellAfter(entry[id[1]], intents[id].status)
  BY ZenonT(40), <1>1, PendingFacts
<1>3. PICK a \in ArtifactRow :
        /\ Rewritten(id, a)
        /\ a.state = state /\ a.evidence = Latest(id).evidence /\ a.chain = Latest(id).chain
  BY ZenonT(40), <1>2, StateRewritten
<1>4. Latest(id).evidence = "NONE" /\ Latest(id).chain \in {Unsent, Dead}
  BY ZenonT(40), <1>2 DEF Fits
<1>5. Fits("SIGNED_NOT_SUBMITTED", a)
  BY ZenonT(40), <1>3, <1>4 DEF Fits, Early
<1>6. ~IsSell(id) => BuyAfter(entry'[id[1]], intents[id].status, a)
  BY ZenonT(40), <1>2, <1>3, <1>4 DEF BuyAfter
<1>7. /\ id \in live /\ worker[w].claim \in ClaimRow /\ worker[w].claim.token \in 1..tokens
      /\ worker[w].claim.revision <= intents[id].revision
  BY ZenonT(40), OwnerFacts
<1>8. IsSell(id) => SellAfter(entry'[id[1]], intents[id].status)
  BY ZenonT(40), <1>2, <1>7
<1>9. ExposureInv'
  BY Zenon, ExposureFrame DEF IsReserved, IsOpen
<1>10. UnknownEffectBlocks'
  BY ZenonT(40), <1>3, <1>4, BlockRewritten
<1>11. worker'[w].pc = pc /\ worker'[w].id = id /\ worker'[w].claim = worker[w].claim
  BY Zenon DEF Turned
<1>12. WorkerInv(w)' /\ Engages(w)'
  <2>1. ClaimStatus(pc, worker[w].claim.status) /\ pc \notin {"IDLE", "READY"}
    BY Zenon DEF ClaimStatus
  <2> QED
    BY ZenonT(40), <1>7, <2>1, ClaimHeld
<1>13. Len(artifacts'[id]) = Len(artifacts[id]) /\ artifacts'[id][Len(artifacts[id])] = a
       /\ Len(artifacts[id]) \in Nat \ {0}
  BY ZenonT(40), <1>2, <1>3, LatestOK DEF Rewritten
<1>14. MemoryInv(w)'
  <2>1. pc = "SENDING" => a.state \notin Early \cup {"REVOKED_NO_SEND"}
    BY ZenonT(40), <1>3 DEF Early
  <2>2. Len(artifacts[id]) \in 1..Len(artifacts'[id])
    BY ONLY <1>13
  <2> QED
    BY ZenonT(40), <1>11, <1>13, <2>1, <2>2 DEF MemoryInv
<1>15. /\ entry \in [Buys -> EntryRow] /\ EntryShape(entry[id[1]]) /\ control \in ControlStates
       /\ unknownBlock \in BOOLEAN /\ intents[id] \in IntentRow
       /\ intents = [intents EXCEPT ![id] = intents[id]]
       /\ Counted(intents[id], artifacts[id])
  BY ZenonT(40), IdLocal DEF LiveInv, TypeOK
<1>16. WritesRow(w, id, intents[id])
  <2>1. intents[id].token \in {0, worker[w].claim.token} /\ intents[id].revision >= intents[id].revision
    BY ZenonT(40), <1>15, OwnerFacts DEF IntentRow
  <2> QED
    BY ZenonT(40), <1>15, <2>1 DEF WritesRow
<1>17. WritesTransaction(id, intents[id].status, a)
  <2>1. Latest(id).state \in Untouchable
    BY Zenon DEF Untouchable
  <2>2. "SIGNED_NOT_SUBMITTED" \in Decisive
    BY Zenon DEF Decisive, Pending
  <2> QED
    BY ZenonT(40), <1>3, <1>5, <2>1, <2>2 DEF WritesTransaction
<1>18. WritesEntry(id, intents[id].status, a)
  BY ZenonT(40), <1>6, <1>8, <1>15 DEF WritesEntry
<1>19. WritesRisk
  BY ZenonT(40), <1>9, <1>10, <1>15 DEF WritesRisk
<1>20. GoesOn(w)
  BY ZenonT(40), <1>11, <1>12, <1>14 DEF GoesOn, Turned
<1> QED
  BY ZenonT(40), <1>1, <1>3, <1>15, <1>16, <1>17, <1>18, <1>19, <1>20, SignedWrite

(* The signed bytes have been simulated. *)
LEMMA RecordSignedSimulationKeeps ==
  ASSUME LiveInv, NEW w \in Workers, RecordSignedSimulation(w)
  PROVE  LiveInv'
<1> DEFINE id == worker[w].id
<1>1. Engages(w) /\ Owns(w) /\ worker[w].pc = "PERSISTED"
  BY Zenon DEF RecordSignedSimulation, At, Engages
<1>2. id \in Ids /\ worker[w].claim.status = "SIGNED_NOT_SUBMITTED"
      /\ intents[id].status = "SIGNED_NOT_SUBMITTED"
  BY ZenonT(40), <1>1, OwnerFacts DEF ClaimStatus
<1>3. worker[w].claim.attemptCount = Len(artifacts[id])
  BY ZenonT(40), <1>1 DEF LiveInv, WorkersInv, MemoryInv
<1>4. Turned(w, "SIMULATED", id, worker[w].claim)
  BY ZenonT(40), PcTurn DEF LiveInv, RecordSignedSimulation, WorkerPcs
<1>5. Latest(id).state \in Early /\ artifacts' = WithArtifact(id, "SIGNED_SIMULATED")
  BY Zenon DEF RecordSignedSimulation, InState, Early
<1>6. UNCHANGED <<control, unknownBlock, exposure, intents, live, entry, tokens>>
  BY Zenon DEF RecordSignedSimulation
<1>7. "SIGNED_SIMULATED" \in ArtifactStates
  BY Zenon DEF ArtifactStates
<1> HIDE DEF id
<1>8. id = worker[w].id
  BY Zenon DEF id
<1> QED
  BY ZenonT(40), <1>1, <1>2, <1>3, <1>4, <1>5, <1>6, <1>7, <1>8, ArtifactOnly

(* beginSubmission: the database knows of the submission before the        *)
(* network does.                                                           *)
LEMMA BeginSubmissionKeeps ==
  ASSUME LiveInv, NEW w \in Workers, BeginSubmission(w)
  PROVE  LiveInv'
<1> DEFINE id == worker[w].id
<1>1. Engages(w) /\ Owns(w) /\ worker[w].pc = "SIMULATED"
  BY Zenon DEF BeginSubmission, At, Engages
<1>2. id \in Ids /\ worker[w].claim.status = "SIGNED_NOT_SUBMITTED"
      /\ intents[id].status = "SIGNED_NOT_SUBMITTED"
  BY ZenonT(40), <1>1, OwnerFacts DEF ClaimStatus
<1>3. worker[w].claim.attemptCount = Len(artifacts[id])
  BY ZenonT(40), <1>1 DEF LiveInv, WorkersInv, MemoryInv
<1>4. Turned(w, "SENDING", id, worker[w].claim)
  BY Zenon, PcTurn DEF LiveInv, BeginSubmission, WorkerPcs
<1>5. Latest(id).state \in Early /\ artifacts' = WithArtifact(id, "SUBMISSION_STARTED")
  BY Zenon DEF BeginSubmission, InState, Early
<1>6. UNCHANGED <<control, unknownBlock, exposure, intents, live, entry, tokens>>
  BY Zenon DEF BeginSubmission
<1>7. "SUBMISSION_STARTED" \in ArtifactStates
  BY ZenonT(40) DEF ArtifactStates
<1> HIDE DEF id
<1>8. id = worker[w].id
  BY Zenon DEF id
<1> QED
  BY ZenonT(40), <1>1, <1>2, <1>3, <1>4, <1>5, <1>6, <1>7, <1>8, ArtifactOnly

(* A signed intent is resumed from its persisted bytes. *)
LEMMA ResumePersistedKeeps ==
  ASSUME LiveInv, NEW w \in Workers, ResumePersisted(w)
  PROVE  LiveInv'
<1> DEFINE id == worker[w].id
           pc == IF InState(id, "PERSISTED") THEN "PERSISTED"
                 ELSE IF InState(id, "SIGNED_SIMULATED") THEN "SIMULATED" ELSE "SENT"
<1>1. Engages(w) /\ Owns(w) /\ worker[w].pc = "RECOVERING"
  BY Zenon DEF ResumePersisted, At, Engages
<1>2. pc \in WorkerPcs /\ pc \in {"PERSISTED", "SIMULATED", "SENT"}
  BY Zenon DEF WorkerPcs
<1>3. worker' = [worker EXCEPT ![w].pc = pc]
  BY Zenon DEF ResumePersisted
<1> HIDE DEF pc
<1>4. Turned(w, pc, id, worker[w].claim)
  BY ZenonT(40), <1>2, <1>3, PcTurn DEF LiveInv
<1>5. ClaimStatus(pc, worker[w].claim.status)
  BY ZenonT(40), <1>1, <1>2, OwnerFacts DEF ClaimStatus
<1>6. UNCHANGED <<control, unknownBlock, exposure, intents, live, entry, artifacts, tokens>>
  BY Zenon DEF ResumePersisted
<1>7. /\ WorkerInv(w)'
      /\ Engages(w)' => Engages(w) /\ worker'[w].claim.token = worker[w].claim.token
      /\ Owns(w)' <=> Owns(w)
  BY ZenonT(40), <1>1, <1>2, <1>4, <1>5, <1>6, ClaimStays
<1>8. worker[w].claim.attemptCount = Len(artifacts[id])
  BY ZenonT(40), <1>1 DEF LiveInv, WorkersInv, MemoryInv
<1>9. MemoryInv(w)'
  BY ZenonT(40), <1>2, <1>4, <1>6, <1>8 DEF MemoryInv, Turned
<1> QED
  BY ZenonT(40), <1>4, <1>6, <1>7, <1>9, QuietStep

(* The answer of the network is recorded, or its absence as ambiguous. *)
LEMMA RecordSubmissionOutcomeKeeps ==
  ASSUME LiveInv, NEW w \in Workers, RecordSubmissionOutcome(w)
  PROVE  LiveInv'
<1> DEFINE id == worker[w].id
           b == id[1]
           accepted == worker[w].found = "PRESENT"
           next == IF accepted THEN "SUBMITTED" ELSE "UNKNOWN_REQUIRES_RECONCILIATION"
           q == Moved(Row(w), next)
           state == IF accepted THEN "ACCEPTED" ELSE "AMBIGUOUS"
<1>1. Engages(w) /\ worker[w].pc = "SENT"
  BY Zenon DEF RecordSubmissionOutcome, At, Engages
<1>2. /\ id \in Ids /\ id \in live /\ Row(w) = intents[id] /\ Row(w) \in IntentRow
      /\ worker[w].claim.token \in 1..tokens /\ worker[w].claim \in ClaimRow
  BY ZenonT(40), <1>1, OwnerFacts
<1>3. /\ intents[id].token = worker[w].claim.token /\ Latest(id).state = "SUBMISSION_STARTED"
      /\ intents[id].status = "SIGNED_NOT_SUBMITTED" /\ artifacts[id] # <<>>
  BY Zenon DEF RecordSubmissionOutcome, OutcomeRecordable, InState
<1>4. intents[id].status \in Pending
  BY ZenonT(40), <1>3 DEF Pending
<1>5. /\ next \in Statuses /\ next \notin TerminalStatuses /\ next \in Pending
      /\ next \in Decisive /\ next \notin {"SIMULATED", "RECONCILING", "CANCELLED", "SUCCEEDED"}
  BY Zenon DEF Statuses, TerminalStatuses, Pending, Decisive
<1>6. /\ intents' = [intents EXCEPT ![id] = q] /\ worker' = GoesHolding(w, "DONE", q)
      /\ artifacts' = WithArtifact(id, state)
      /\ UNCHANGED <<exposure, live, tokens>>
      /\ accepted => UNCHANGED <<control, unknownBlock, entry>>
      /\ ~accepted => entry' = HeldAfterAmbiguity(id) /\ unknownBlock' = TRUE /\ control' = Stopped
  BY ZenonT(40) DEF RecordSubmissionOutcome, BlockedByAmbiguity
<1> HIDE DEF accepted
<1>7. /\ q \in IntentRow /\ q.status = next /\ q.revision = intents[id].revision + 1
      /\ q.token = worker[w].claim.token /\ q.attempts = intents[id].attempts
  <2> HIDE DEF next
  <2> QED
    BY SMTT(30), <1>2, <1>3, <1>5, MovedFacts
<1> HIDE DEF q
<1>8. q.revision >= intents[id].revision
  BY <1>2, <1>7 DEF IntentRow
<1>9. Counted(q, artifacts[id])
  <2>1. Len(intents[id].attempts) = Len(artifacts[id])
    BY ZenonT(40), <1>2, <1>4, IdLocal DEF Counted
  <2> QED
    BY ZenonT(40), <1>5, <1>7, <2>1 DEF Counted, Pending
<1>10. /\ Fits("SIGNED_NOT_SUBMITTED", Latest(id)) /\ ArtifactsOK
       /\ ~IsSell(id) => BuyAfter(entry[b], intents[id].status, Latest(id))
       /\ IsSell(id) => SellAfter(entry[b], intents[id].status)
  BY ZenonT(40), <1>2, <1>3, <1>4, PendingFacts
<1>11. state \in ArtifactStates
  BY Zenon DEF ArtifactStates
<1>12. PICK a \in ArtifactRow :
        /\ Rewritten(id, a)
        /\ a.state = state /\ a.evidence = Latest(id).evidence /\ a.chain = Latest(id).chain
  BY ZenonT(40), <1>2, <1>3, <1>6, <1>10, <1>11, StateRewritten
<1>13. a.evidence = "NONE"
  BY ZenonT(40), <1>10, <1>12 DEF Fits
<1>14. Fits(q.status, a) /\ a.state \notin Untouchable
  BY ZenonT(40), <1>7, <1>12, <1>13 DEF Fits, Untouchable, Early
<1>15. /\ entry \in [Buys -> EntryRow] /\ b \in Buys /\ EntryShape(entry[b])
       /\ control \in ControlStates /\ unknownBlock \in BOOLEAN
  BY ZenonT(40), <1>2, IdLocal DEF LiveInv, TypeOK
<1>16. \/ entry' = entry
       \/ ~accepted /\ ~IsSell(id) /\ entry' = [entry EXCEPT ![b].reservation = "UNKNOWN_HELD"]
  BY ZenonT(40), <1>6 DEF HeldAfterAmbiguity
<1>17. /\ entry' \in [Buys -> EntryRow] /\ \A c \in Buys : c # b => entry'[c] = entry[c]
       /\ entry'[b].exit = entry[b].exit /\ entry'[b].lock = entry[b].lock
       /\ entry'[b].armament = entry[b].armament /\ entry'[b].position = entry[b].position
       /\ entry'[b].auth = entry[b].auth
       /\ \/ entry'[b].reservation = entry[b].reservation
          \/ ~accepted /\ ~IsSell(id) /\ entry'[b].reservation = "UNKNOWN_HELD"
  BY SMTT(30), <1>15, <1>16 DEF EntryRow, ReservationStates
<1>18. /\ ~accepted /\ ~IsSell(id) => entry'[b].reservation = "UNKNOWN_HELD"
  BY SMTT(30), <1>6, <1>15 DEF HeldAfterAmbiguity, EntryRow
<1>19. IsSell(id) => entry'[b].reservation = entry[b].reservation
  BY ZenonT(40), <1>17
<1>20. ~IsSell(id) => /\ entry[b].reservation \in {"RESERVED", "UNKNOWN_HELD"}
                      /\ entry[b].lock = "SIGNED_PERSISTED" /\ entry[b].reservation # "CONSUMED"
                      /\ entry[b].reservation = "RESERVED"
  BY ZenonT(40), <1>3, <1>10 DEF BuyAfter, Pending
<1>21. EntryShape(entry'[b])
  BY ZenonT(40), <1>15, <1>17, <1>20 DEF EntryShape, NoPosition, HasPosition
<1>22. ~IsSell(id) => BuyAfter(entry'[b], q.status, a)
  BY ZenonT(40), <1>5, <1>7, <1>13, <1>17, <1>18, <1>20 DEF BuyAfter
<1>23. IsSell(id) => SellAfter(entry'[b], q.status)
  BY ZenonT(40), <1>3, <1>5, <1>7, <1>10, <1>17 DEF SellAfter, Pending
<1>24. ExposureInv'
  <2>1. \A c \in Buys : IsReserved(c)' <=> IsReserved(c)
    BY ZenonT(40), <1>15, <1>17, <1>19, <1>20 DEF IsReserved
  <2>2. \A c \in Buys : IsOpen(c)' <=> IsOpen(c)
    BY ZenonT(40), <1>15, <1>17 DEF IsOpen
  <2> QED
    BY ZenonT(40), <1>6, <2>1, <2>2, ExposureFrame
<1>25. UnknownEffectBlocks'
  <2>1. CASE accepted
    BY ZenonT(40), <1>2, <1>6, <1>12, <1>13, <2>1, BlockRewritten
  <2>2. CASE ~accepted
    BY ZenonT(40), <1>6, <2>2 DEF UnknownEffectBlocks
  <2> QED
    BY ZenonT(40), <2>1, <2>2
<1>26. control' \in ControlStates /\ unknownBlock' \in BOOLEAN
  BY ZenonT(40), <1>6, <1>15 DEF Stopped, ControlStates
<1>27. Turned(w, "DONE", id, ClaimOf(q))
  BY ZenonT(40), <1>6, <1>7, GoesTurn DEF WorkerPcs, LiveInv
<1>28. /\ worker'[w].pc = "DONE" /\ worker'[w].id = id /\ worker'[w].claim = ClaimOf(q)
  BY Zenon, <1>27 DEF Turned
<1>29. ClaimOf(q) \in ClaimRow /\ ClaimOf(q).token = q.token /\ ClaimOf(q).revision = q.revision
  BY ZenonT(40), <1>7, ClaimOfFacts
<1>30. intents'[id] = q
  BY ZenonT(40), <1>2, <1>6 DEF LiveInv, TypeOK
<1>31. WorkerInv(w)' /\ Engages(w)'
  <2>1. q.revision <= intents'[id].revision
    BY <1>7, <1>30 DEF IntentRow
  <2>2. ClaimStatus("DONE", ClaimOf(q).status)
    BY Zenon DEF ClaimStatus
  <2> HIDE DEF id, b, next
  <2> QED
    BY SMTT(30), <1>2, <1>6, <1>7, <1>27, <1>29, <2>1, <2>2, ClaimHeld
<1>32. MemoryInv(w)'
  BY Zenon, <1>28 DEF MemoryInv
<1> HIDE DEF id, b, next
<1>33. id = worker[w].id /\ b = id[1]
  BY Zenon DEF id, b
<1>34. WritesRow(w, id, q)
  BY ZenonT(40), <1>6, <1>7, <1>8, <1>9 DEF WritesRow
<1>35. WritesTransaction(id, q.status, a)
  BY ZenonT(40), <1>5, <1>7, <1>12, <1>14 DEF WritesTransaction
<1>36. WritesEntry(id, q.status, a)
  BY ZenonT(40), <1>17, <1>19, <1>21, <1>22, <1>23, <1>33 DEF WritesEntry
<1>37. WritesRisk
  BY ZenonT(40), <1>24, <1>25, <1>26 DEF WritesRisk
<1>38. GoesOn(w)
  BY ZenonT(40), <1>7, <1>27, <1>28, <1>29, <1>31, <1>32 DEF GoesOn, Turned
<1> QED
  BY ZenonT(40), <1>1, <1>2, <1>4, <1>7, <1>12, <1>33, <1>34, <1>35, <1>36, <1>37, <1>38, SignedWrite

(* A transaction whose submission has not begun is revoked, and the intent *)
(* fails.                                                                  *)
LEMMA RevokeBeforeSubmissionKeeps ==
  ASSUME LiveInv, NEW w \in Workers, RevokeBeforeSubmission(w)
  PROVE  LiveInv'
<1> DEFINE id == worker[w].id
           b == id[1]
           m == AttemptEnded(Row(w), "ABANDONED")
           q == IF IsSell(id) THEN Released(Moved(m, "RETRY_READY")) ELSE Moved(m, "FAILED")
<1>1. Engages(w) /\ Owns(w) /\ worker[w].pc \in {"PERSISTED", "SIMULATED"}
      /\ Latest(id).state \in Early
  BY Zenon DEF RevokeBeforeSubmission, Revocable, At, Engages, InState, Early
<1>2. /\ id \in Ids /\ id \in live /\ Row(w) = intents[id] /\ Row(w) \in IntentRow
      /\ intents[id].status = "SIGNED_NOT_SUBMITTED"
  BY ZenonT(40), <1>1, OwnerFacts DEF ClaimStatus
<1>3. intents[id].status \in Pending
  BY ZenonT(40), <1>2 DEF Pending
<1>4. /\ artifacts[id] # <<>> /\ Latest(id) \in ArtifactRow /\ ArtifactsOK
      /\ Fits("SIGNED_NOT_SUBMITTED", Latest(id))
      /\ ~IsSell(id) => BuyAfter(entry[b], intents[id].status, Latest(id))
      /\ IsSell(id) => SellAfter(entry[b], intents[id].status)
  BY ZenonT(40), <1>2, <1>3, PendingFacts
<1>5. /\ entry[b].armament = "LOCKED"
      /\ artifacts' = WithArtifact(id, "REVOKED_NO_SEND")
      /\ intents' = [intents EXCEPT ![id] = q]
      /\ IsSell(id) => /\ entry[b].auth = "LOCKED" /\ entry[b].position = "EXIT_PENDING"
                       /\ entry' = [entry EXCEPT ![b].auth = "ACTIVE"]
                       /\ exposure' = exposure
      /\ ~IsSell(id) => /\ entry[b].reservation = "RESERVED"
                        /\ entry' = [entry EXCEPT ![b].armament = "REVOKED",
                                                  ![b].reservation = "RELEASED"]
                        /\ exposure' = exposure - 1
      /\ worker' = [worker EXCEPT ![w] = Idle]
      /\ UNCHANGED <<control, unknownBlock, live, tokens>>
  BY ZenonT(40) DEF RevokeBeforeSubmission, Entry
<1>6. /\ m \in IntentRow /\ m.revision = intents[id].revision
      /\ ~HasStarted(m) /\ Len(m.attempts) = Len(intents[id].attempts)
  BY <1>2, AttemptEndedFacts
<1> HIDE DEF m
<1>7. /\ q \in IntentRow /\ q.token = 0 /\ q.revision = intents[id].revision + 1
      /\ q.status = IF IsSell(id) THEN "RETRY_READY" ELSE "FAILED"
      /\ q.attempts = m.attempts
  <2>1. "RETRY_READY" \in Statuses /\ "FAILED" \in Statuses /\ "FAILED" \in TerminalStatuses
    BY Zenon DEF Statuses, TerminalStatuses
  <2> DEFINE p == Moved(m, "RETRY_READY")
             f == Moved(m, "FAILED")
  <2>2. /\ p \in IntentRow /\ p.status = "RETRY_READY" /\ p.revision = m.revision + 1
        /\ p.attempts = m.attempts
    BY ZenonT(40), <1>6, <2>1, MovedFacts
  <2>3. /\ f \in IntentRow /\ f.status = "FAILED" /\ f.revision = m.revision + 1
        /\ f.attempts = m.attempts /\ f.token = 0
    BY ZenonT(40), <1>6, <2>1, MovedFacts
  <2> HIDE DEF p, f
  <2>4. q = IF IsSell(id) THEN Released(p) ELSE f
    BY Zenon DEF p, f
  <2> HIDE DEF q
  <2> QED
    BY ZenonT(40), <1>6, <2>2, <2>3, <2>4, ReleasedFacts
<1> HIDE DEF q
<1>8. id = worker[w].id /\ b = id[1]
  BY ZenonT(40) DEF id, b
<1> HIDE DEF id, b
<1>9. q.revision >= intents[id].revision
  BY <1>2, <1>7 DEF IntentRow
<1>10. Counted(q, artifacts[id])
  <2>1. Len(intents[id].attempts) = Len(artifacts[id])
    BY ZenonT(40), <1>2, <1>3, IdLocal DEF Counted
  <2>2. ~HasStarted(q) /\ Len(q.attempts) = Len(artifacts[id])
    BY ZenonT(40), <1>6, <1>7, <2>1 DEF HasStarted
  <2> QED
    BY ZenonT(40), <1>7, <2>2 DEF Counted, Pending
<1>11. PICK a \in ArtifactRow :
        /\ Rewritten(id, a) /\ a.state = "REVOKED_NO_SEND"
        /\ a.evidence = Latest(id).evidence /\ a.chain = Latest(id).chain
  <2>1. "REVOKED_NO_SEND" \in ArtifactStates
    BY Zenon DEF ArtifactStates
  <2> QED
    BY <1>2, <1>4, <1>5, <2>1, StateRewritten
<1>12. a.evidence = "NONE" /\ a.chain \in {Unsent, Dead}
  BY ZenonT(40), <1>1, <1>4, <1>11 DEF Fits
<1>13. Settled(IsSell(id), a)
  BY ZenonT(40), <1>11, <1>12 DEF Settled
<1>14. q.status \notin Decisive /\ q.status \notin {"SIMULATED", "RECONCILING", "CANCELLED"}
  BY Zenon, <1>7 DEF Decisive, Pending
<1>15. /\ entry \in [Buys -> EntryRow] /\ b \in Buys /\ EntryShape(entry[b])
       /\ control \in ControlStates /\ unknownBlock \in BOOLEAN
  BY ZenonT(40), <1>8, <1>2, IdLocal DEF LiveInv, TypeOK
<1>16. Turned(w, "IDLE", NoIntent, NoClaim)
  BY ZenonT(40), <1>5, IdleTurn DEF LiveInv
<1>17. WorkerInv(w)' /\ MemoryInv(w)' /\ ~Engages(w)'
  BY ZenonT(40), <1>16, IdleMeansNothing
<1>18. WritesRow(w, id, q)
  BY ZenonT(40), <1>5, <1>7, <1>9, <1>10 DEF WritesRow
<1>19. WritesTransaction(id, q.status, a)
  <2>1. a.state \notin Untouchable \/ Latest(id).state \in Untouchable
    BY Zenon, <1>1 DEF Untouchable
  <2> QED
    BY ZenonT(40), <1>11, <1>13, <1>14, <2>1 DEF WritesTransaction
<1>20. GoesOn(w)
  BY ZenonT(40), <1>16, <1>17 DEF GoesOn, Turned
<1>21. CASE IsSell(id)
  <2>1. /\ entry' \in [Buys -> EntryRow] /\ \A c \in Buys : c # b => entry'[c] = entry[c]
        /\ entry'[b].exit = entry[b].exit /\ entry'[b].lock = entry[b].lock
        /\ entry'[b].armament = entry[b].armament /\ entry'[b].position = entry[b].position
        /\ entry'[b].auth = "ACTIVE" /\ entry'[b].reservation = entry[b].reservation
    BY <1>5, <1>15, <1>21 DEF EntryRow, AuthorizationStates
  <2>2. EntryShape(entry'[b])
    BY ZenonT(40), <1>5, <1>15, <1>21, <2>1 DEF EntryShape, NoPosition, HasPosition
  <2>3. SellAfter(entry'[b], q.status)
    BY ZenonT(40), <1>14, <2>1 DEF SellAfter, Decisive
  <2>4. ExposureInv'
    BY ZenonT(40), <1>5, <1>15, <1>21, <2>1, ExposureFrame DEF IsReserved, IsOpen
  <2>5. \A c \in Buys : entry'[c].reservation = entry[c].reservation
    BY Zenon, <2>1
  <2>6. UnknownEffectBlocks'
    BY ZenonT(40), <1>2, <1>5, <1>11, <1>12, <2>5, BlockRewritten
  <2>7. WritesEntry(id, q.status, a)
    BY ZenonT(40), <1>8, <1>21, <2>1, <2>2, <2>3 DEF WritesEntry
  <2>8. WritesRisk
    BY ZenonT(40), <1>5, <1>15, <2>4, <2>6 DEF WritesRisk
  <2> QED
    BY ZenonT(40), <1>8, <1>1, <1>2, <1>3, <1>7, <1>11, <1>18, <1>19, <1>20, <2>7, <2>8, SignedWrite
<1>22. CASE ~IsSell(id)
  <2>1. /\ entry' \in [Buys -> EntryRow] /\ \A c \in Buys : c # b => entry'[c] = entry[c]
        /\ entry'[b].exit = entry[b].exit /\ entry'[b].lock = entry[b].lock
        /\ entry'[b].armament = "REVOKED" /\ entry'[b].position = entry[b].position
        /\ entry'[b].auth = entry[b].auth /\ entry'[b].reservation = "RELEASED"
    BY <1>5, <1>15, <1>22 DEF EntryRow, ArmamentStates, ReservationStates
  <2>2. NoPosition(entry[b]) /\ entry[b].lock = "SIGNED_PERSISTED"
    BY ZenonT(40), <1>3, <1>4, <1>5, <1>15, <1>22 DEF BuyAfter, EntryShape
  <2>3. EntryShape(entry'[b]) /\ NoPosition(entry'[b])
    BY ZenonT(40), <2>1, <2>2 DEF EntryShape, NoPosition
  <2>4. BuyAfter(entry'[b], q.status, a)
    BY ZenonT(40), <1>7, <1>22, <2>1, <2>2 DEF BuyAfter, Decisive, Pending
  <2>5. ExposureInv'
    <3>1. PICK c \in Buys : c = b
      BY Zenon, <1>15
    <3>2. Engaged(c)
      BY ZenonT(40), <1>5, <1>22, <3>1 DEF Engaged, IsReserved
    <3>3. entry'[c].position = "NONE" /\ entry'[c].reservation = "RELEASED"
      BY ZenonT(40), <2>1, <2>2, <3>1 DEF NoPosition
    <3>4. ~Engaged(c)'
      BY ZenonT(40), <3>3 DEF Engaged, IsReserved, IsOpen
    <3>5. \A d \in Buys : d # c => (Engaged(d)' <=> Engaged(d))
      BY ZenonT(40), <2>1, <3>1 DEF Engaged, IsReserved, IsOpen
    <3>6. ExposureInv /\ exposure' = exposure - 1
      BY ZenonT(40), <1>5, <1>22 DEF LiveInv, DatabaseInv
    <3> QED
      BY ZenonT(40), <3>2, <3>4, <3>5, <3>6, EngagementEnds
  <2>6. \A c \in Buys : entry'[c].reservation = "UNKNOWN_HELD"
                          => entry[c].reservation = "UNKNOWN_HELD"
    BY ZenonT(40), <2>1
  <2>7. UnknownEffectBlocks'
    BY ZenonT(40), <1>2, <1>5, <1>11, <1>12, <2>6, BlockRewritten
  <2>8. WritesEntry(id, q.status, a)
    BY ZenonT(40), <1>8, <1>22, <2>1, <2>3, <2>4 DEF WritesEntry
  <2>9. WritesRisk
    BY Zenon, <1>5, <1>15, <2>5, <2>7 DEF WritesRisk
  <2> QED
    BY Zenon, <1>8, <1>1, <1>2, <1>3, <1>7, <1>11, <1>18, <1>19, <1>20, <2>8, <2>9, SignedWrite
<1> QED
  BY ZenonT(40), <1>21, <1>22

(* persistSigned: the signed bytes are stored, and the entry is locked, in *)
(* one transaction.                                                        *)
LEMMA PersistSignedKeeps ==
  ASSUME LiveInv, NEW w \in Workers, PersistSigned(w)
  PROVE  LiveInv'
<1> DEFINE id == worker[w].id
           b == id[1]
           s == artifacts[id]
           t == Append(s, Signed)
           n == intents[id].revision + 2
           m == [intents[id] EXCEPT !.status = "SIGNED_NOT_SUBMITTED"]
           q == [m EXCEPT !.revision = n]
<1>1. Engages(w) /\ Owns(w) /\ worker[w].pc = "SIGNING"
  BY Zenon DEF PersistSigned, At, Engages
<1>2. /\ id \in Ids /\ id \in live /\ Row(w) = intents[id] /\ intents[id] \in IntentRow
      /\ intents[id].status = "PROCESSING" /\ intents[id].token = worker[w].claim.token
      /\ worker[w].claim.token \in 1..tokens
  BY ZenonT(40), <1>1, OwnerFacts DEF ClaimStatus
<1>3. /\ HasStarted(intents[id])
      /\ intents' = [intents EXCEPT ![id] = q]
      /\ artifacts' = [artifacts EXCEPT ![id] = t]
      /\ worker' = Goes(w, "PERSISTED", q)
      /\ UNCHANGED <<control, unknownBlock, exposure, live, tokens>>
  BY Zenon, <1>2 DEF PersistSigned
<1>4. IsSell(id) => /\ entry[b].position = "EXIT_PENDING"
                     /\ entry' = [entry EXCEPT ![b].auth = "LOCKED"]
  BY Zenon DEF PersistSigned, SignableSell, Entry
<1>5. ~IsSell(id) => /\ entry[b].lock = "AUTHORIZED" /\ entry[b].reservation = "RESERVED"
                      /\ entry[b].armament = "LOCKED"
                      /\ entry' = [entry EXCEPT ![b].lock = "SIGNED_PERSISTED"]
  BY Zenon DEF PersistSigned, SignableBuy, Entry
<1>6. id = worker[w].id /\ b = id[1] /\ s = artifacts[id] /\ t = Append(s, Signed)
  BY Zenon
<1> HIDE DEF id, b, s, t
<1>7. /\ q \in IntentRow /\ q.status = "SIGNED_NOT_SUBMITTED" /\ q.revision = n
      /\ q.token = intents[id].token /\ q.attempts = intents[id].attempts
      /\ n \in Nat /\ n >= intents[id].revision
  <2>1. n \in Nat /\ n >= intents[id].revision
    BY <1>2 DEF IntentRow
  <2> HIDE DEF n
  <2>2. /\ m \in IntentRow /\ m.status = "SIGNED_NOT_SUBMITTED"
        /\ m.token = intents[id].token /\ m.attempts = intents[id].attempts
    BY Zenon, <1>2 DEF IntentRow, Statuses
  <2> HIDE DEF m
  <2> QED
    BY ZenonT(40), <2>1, <2>2 DEF IntentRow
<1> HIDE DEF q, m, n
<1>8. /\ Ledger(IsSell(id), "PROCESSING", s) /\ Counted(intents[id], s) /\ s \in Seq(ArtifactRow)
      /\ Len(s) \in Nat /\ b \in Buys /\ entry[b] \in EntryRow /\ EntryShape(entry[b])
      /\ ~IsSell(id) => BuyFits(entry[b], "PROCESSING", s)
      /\ IsSell(id) => id[2] = entry[b].exit
      /\ ~IsSell(id) => entry[b].exit = 0
  <2>1. /\ id[2] = entry[id[1]].exit \/ ~IsSell(id)
        /\ entry[id[1]].exit = 0 \/ IsSell(id)
    BY Zenon, <1>2, ExitOfId DEF NoPosition
  <2> QED
    BY ZenonT(40), <1>2, <1>6, <2>1, IdLocal
<1>9. Signed \in ArtifactRow
  BY ZenonT(40), ChainFacts DEF Signed, ArtifactRow, ArtifactStates, Unsent
<1>10. /\ t \in Seq(ArtifactRow) /\ Len(t) = Len(s) + 1 /\ t # <<>> /\ t[Len(t)] = Signed
      /\ \A k \in 1..Len(s) : t[k] = s[k]
  BY SMTT(30), <1>8, <1>9, <1>6
<1>11. Fits("SIGNED_NOT_SUBMITTED", Signed)
  BY Zenon DEF Fits, Signed, Early, Unsent
<1>12. /\ artifacts'[id] = t /\ \A j \in Ids : j # id => artifacts'[j] = artifacts[j]
      /\ artifacts' \in [Ids -> Seq(ArtifactRow)]
      /\ intents'[id] = q /\ \A j \in Ids : j # id => intents'[j] = intents[j]
  BY ZenonT(40), <1>2, <1>3, <1>10 DEF LiveInv, TypeOK
<1>13. Ledger(IsSell(id), "SIGNED_NOT_SUBMITTED", t)
  <2>1. \A k \in 1..Len(s) : Settled(IsSell(id), s[k])
    BY Zenon, <1>8 DEF Ledger, Decisive, Pending
  <2> DEFINE l == Len(s)
  <2>2. l \in Nat /\ Len(t) = l + 1 /\ (\A k \in 1..l : t[k] = s[k] /\ Settled(IsSell(id), s[k]))
    BY ZenonT(40), <1>8, <1>10, <2>1
  <2> HIDE DEF l
  <2>3. \A k \in 1..Len(t) : k < Len(t) => Settled(IsSell(id), t[k])
    BY <2>2
  <2> QED
    BY ZenonT(40), <1>10, <1>11, <2>3 DEF Ledger, Decisive, Pending
<1>14. /\ entry' \in [Buys -> EntryRow] /\ \A c \in Buys : c # b => entry'[c] = entry[c]
       /\ entry'[b].exit = entry[b].exit /\ entry'[b].position = entry[b].position
       /\ entry'[b].reservation = entry[b].reservation
       /\ entry'[b].armament = entry[b].armament
       /\ IsSell(id) => entry'[b].auth = "LOCKED" /\ entry'[b].lock = entry[b].lock
       /\ ~IsSell(id) => entry'[b].auth = entry[b].auth /\ entry'[b].lock = "SIGNED_PERSISTED"
  <2>1. entry \in [Buys -> EntryRow]
    BY Zenon DEF LiveInv, TypeOK
  <2>2. CASE IsSell(id)
    <3>1. entry' = [entry EXCEPT ![b].auth = "LOCKED"] /\ b \in Buys
      BY ZenonT(40), <1>8, <1>4, <2>2
    <3> QED
      BY ZenonT(40), <2>1, <2>2, <3>1 DEF EntryRow, AuthorizationStates
  <2>3. CASE ~IsSell(id)
    <3>1. entry' = [entry EXCEPT ![b].lock = "SIGNED_PERSISTED"] /\ b \in Buys
      BY ZenonT(40), <1>8, <1>5, <2>3
    <3> QED
      BY ZenonT(40), <2>1, <2>3, <3>1 DEF EntryRow, LockStates
  <2> QED
    BY ZenonT(40), <2>2, <2>3
<1>15. EntryShape(entry'[b])
  <2>1. CASE IsSell(id)
    BY ZenonT(40), <1>8, <1>14, <1>4, <2>1 DEF EntryShape, NoPosition, HasPosition
  <2>2. CASE ~IsSell(id)
    <3>1. NoPosition(entry[b])
      BY ZenonT(40), <1>8, <1>5, <2>2 DEF EntryShape
    <3> QED
      BY ZenonT(40), <1>14, <1>5, <2>2, <3>1 DEF EntryShape, NoPosition
  <2> QED
    BY Zenon, <2>1, <2>2
<1>16. ~IsSell(id) => BuyFits(entry'[b], "SIGNED_NOT_SUBMITTED", t)
  <2> SUFFICES ASSUME ~IsSell(id) PROVE BuyFits(entry'[b], "SIGNED_NOT_SUBMITTED", t)
    BY ZenonT(40)
  <2>1. entry[b].lock = "AUTHORIZED" /\ entry[b].reservation = "RESERVED"
    BY ZenonT(40), <1>5
  <2>2. s = <<>>
    BY ZenonT(40), <1>8, <2>1 DEF BuyFits
  <2>3. Len(s) = 0
    BY ZenonT(40), <2>2
  <2>4. Len(t) = 1
    BY <1>10, <2>3
  <2>5. t[1] = Signed /\ t # <<>> /\ Len(t) <= 1
    BY <1>10, <2>4
  <2>6. t[1].evidence = "NONE"
    BY <2>5 DEF Signed
  <2>7. entry'[b].reservation = "RESERVED" /\ entry'[b].lock = "SIGNED_PERSISTED"
    BY ZenonT(40), <1>14, <2>1
  <2>8. "SIGNED_NOT_SUBMITTED" \in Decisive
    BY ZenonT(40) DEF Decisive, Pending
  <2> QED
    BY ZenonT(40), <2>5, <2>6, <2>7, <2>8 DEF BuyFits
<1>17. IsSell(id) => SellFits(entry'[b], id[2], "SIGNED_NOT_SUBMITTED", t)
  <2> SUFFICES ASSUME IsSell(id)
               PROVE  SellFits(entry'[b], id[2], "SIGNED_NOT_SUBMITTED", t)
    BY Zenon
  <2>1. id[2] = entry'[b].exit
    BY ZenonT(40), <1>8, <1>14
  <2>2. id[2] \in Nat
    BY <1>2, IdLocal, ExecutionLiveAssumption
  <2>3. entry'[b].auth = "LOCKED" /\ entry'[b].position = "EXIT_PENDING"
    BY ZenonT(40), <1>14, <1>4
  <2> QED
    BY <2>1, <2>3, <2>2 DEF SellFits, Pending
<1>18. \A c \in Buys : LocalInv(c)'
  <2>1. b = id[1]
    BY ZenonT(40), <1>6
  <2>2. \A j \in Ids : j # id => /\ intents'[j].status = intents[j].status
                                 /\ artifacts'[j] = artifacts[j]
    BY ZenonT(40), <1>12
  <2>3. live' = live
    BY ZenonT(40), <1>3
  <2>4. IsSell(id) => /\ entry'[b].lock = entry[b].lock
                      /\ entry'[b].reservation = entry[b].reservation
    BY ZenonT(40), <1>14
  <2>5. /\ Ledger(IsSell(id), intents'[id].status, artifacts'[id])
        /\ ~IsSell(id) => BuyFits(entry'[b], intents'[id].status, artifacts'[id])
        /\ IsSell(id) => SellFits(entry'[b], id[2], intents'[id].status, artifacts'[id])
    BY ZenonT(40), <1>7, <1>12, <1>13, <1>16, <1>17
  <2> QED
    BY ZenonT(40), <1>2, <1>8, <1>14, <1>15, <2>1, <2>2, <2>3, <2>4, <2>5, Wrote
<1>19. ExposureInv'
  BY ZenonT(40), <1>3, <1>8, <1>14, ExposureFrame DEF IsReserved, IsOpen
<1>20. UnknownEffectBlocks'
  <2>1. ASSUME NEW j \in Ids, NEW k \in 1..Len(artifacts'[j]),
               artifacts'[j][k].evidence \in {"UNKNOWN", "MISMATCH"}
        PROVE  /\ k \in 1..Len(artifacts[j])
               /\ artifacts[j][k].evidence \in {"UNKNOWN", "MISMATCH"}
    <3>1. CASE j # id
      BY ZenonT(40), <1>12, <2>1, <3>1
    <3>2. CASE j = id
      <4>1. k \in 1..Len(t) /\ t[k].evidence \in {"UNKNOWN", "MISMATCH"}
        BY ZenonT(40), <1>12, <2>1, <3>2
      <4>2. t[Len(t)].evidence = "NONE"
        BY <1>10 DEF Signed
      <4>3. k # Len(t)
        BY ZenonT(40), <4>1, <4>2
      <4>4. k \in 1..Len(s)
        <5> DEFINE l == Len(s)
        <5>1. l \in Nat /\ Len(t) = l + 1
          BY ZenonT(40), <1>8, <1>10
        <5> HIDE DEF l
        <5>2. k \in 1..l
          BY SMTT(30), <4>1, <4>3, <5>1
        <5> QED
          BY ZenonT(40), <5>2 DEF l
      <4> QED
        BY ZenonT(40), <1>10, <1>6, <3>2, <4>1, <4>4
    <3> QED
      BY ZenonT(40), <3>1, <3>2
  <2>2. \A c \in Buys : entry'[c].reservation = entry[c].reservation
    BY ZenonT(40), <1>14
  <2> QED
    BY ZenonT(40), <1>3, <2>1, <2>2, BlockKept DEF LiveInv, DatabaseInv
<1>21. Turned(w, "PERSISTED", id, ClaimOf(q))
  BY ZenonT(40), <1>3, <1>7, <1>6, GoesTurn DEF WorkerPcs, LiveInv
<1>22. TypeOK'
  <2>1. intents' \in [Ids -> IntentRow]
    BY ZenonT(40), <1>2, <1>3, <1>7 DEF LiveInv, TypeOK
  <2> QED
    BY ZenonT(40), <1>3, <1>12, <1>14, <1>21, <2>1 DEF LiveInv, TypeOK, Turned
<1>23. /\ worker'[w].pc = "PERSISTED" /\ worker'[w].id = id /\ worker'[w].claim = ClaimOf(q)
       /\ \A v \in Workers : v # w => worker'[v] = worker[v]
  BY ZenonT(40), <1>21 DEF Turned
<1>24. /\ ClaimOf(q) \in ClaimRow /\ ClaimOf(q).token = q.token /\ ClaimOf(q).revision = q.revision
       /\ ClaimOf(q).status = q.status /\ ClaimOf(q).attemptCount = Len(q.attempts)
  BY ZenonT(40), <1>7, ClaimOfFacts
<1>25. Len(q.attempts) = Len(t)
  <2>1. Len(intents[id].attempts) = Len(s) + 1
    BY ZenonT(40), <1>2, <1>3, <1>8 DEF Counted
  <2> QED
    BY ZenonT(40), <1>7, <1>10, <2>1
<1>26. WorkerInv(w)'
  <2>1. q.revision <= intents'[id].revision
    BY <1>7, <1>12 DEF IntentRow
  <2>2. ClaimStatus("PERSISTED", ClaimOf(q).status)
    BY ZenonT(40), <1>7, <1>24 DEF ClaimStatus
  <2>3. id \in live' /\ ClaimOf(q).token \in 1..tokens' /\ ClaimOf(q).revision <= intents'[id].revision
    BY ZenonT(40), <1>2, <1>3, <1>7, <1>24, <2>1
  <2> QED
    BY SMTT(30), <1>21, <1>24, <2>2, <2>3, ClaimHeld
<1>27. MemoryInv(w)'
  BY ZenonT(40), <1>12, <1>23, <1>24, <1>25 DEF MemoryInv
<1>28. Counted(q, t)
  BY ZenonT(40), <1>7, <1>25 DEF Counted, Pending
<1>29. Advanced(id)
  <2>1. Len(s) <= Len(t)
    BY SMTT(30), <1>8, <1>10
  <2>2. intents[id].revision <= intents'[id].revision
    BY ZenonT(40), <1>2, <1>7, <1>12 DEF IntentRow
  <2> QED
    BY ZenonT(40), <1>10, <1>12, <1>6, <2>1, <2>2 DEF Advanced
<1>30. WorkersInv'
  <2>1. TypeOK /\ (\A c \in Buys : LocalInv(c)) /\ WorkersInv
    BY ZenonT(40) DEF LiveInv, DatabaseInv
  <2>2. live \subseteq live' /\ tokens' = tokens /\ intents' = [intents EXCEPT ![id] = q]
    BY ZenonT(40), <1>3
  <2>3. Engages(w)' => Engages(w) /\ worker'[w].claim.token = worker[w].claim.token
    BY ZenonT(40), <1>1, <1>2, <1>7, <1>23, <1>24
  <2>4. Counted(q, artifacts'[id]) /\ q.token = worker[w].claim.token
    BY ZenonT(40), <1>2, <1>7, <1>12, <1>28
  <2>5. /\ q \in IntentRow /\ \A j \in Ids : j # id => artifacts'[j] = artifacts[j]
        /\ \A v \in Workers : v # w => worker'[v] = worker[v]
    BY ZenonT(40), <1>7, <1>12, <1>23
  <2> QED
    BY ZenonT(40), <1>1, <1>2, <1>22, <1>26, <1>27, <1>29, <2>1, <2>2, <2>3, <2>4, <2>5, IntentWritten
<1> QED
  BY ZenonT(40), <1>18, <1>19, <1>20, <1>22, <1>30 DEF LiveInv, DatabaseInv

(* The network moves a transaction on. *)
LEMMA ChainKeeps ==
  ASSUME LiveInv, NEW id \in Ids, Chain(id)
  PROVE  LiveInv'
<1>1. PICK n \in 1..Len(artifacts[id]) : \E fate \in Fates(artifacts[id][n].chain) :
        artifacts' = [artifacts EXCEPT ![id][n].chain = fate]
  BY ZenonT(40) DEF Chain
<1>2. PICK d \in Fates(artifacts[id][n].chain) : artifacts' = [artifacts EXCEPT ![id][n].chain = d]
  BY ZenonT(40), <1>1
<1>3. artifacts[id][n] \in ArtifactRow
  BY DEF LiveInv, TypeOK
<1>4. artifacts[id][n].chain \in ChainStates
  BY ZenonT(40), <1>3 DEF ArtifactRow
<1>5. d \in ChainStates /\ Moves(artifacts[id][n].chain, d)
  BY ZenonT(40), <1>4, FatesMove
<1>6. artifacts[id][n].chain = Unsent => d = Dead
  BY ChainFacts DEF Fates, Unsent, Dead
<1>7. UNCHANGED <<control, unknownBlock, exposure, intents, live, entry, tokens, worker>>
  BY Zenon DEF Chain
<1>8. /\ ArtifactsOK' /\ DatabaseInv' /\ \A j \in Ids : Advanced(j)
      /\ \A j \in Ids : intents'[j].token <= tokens' /\ Counted(intents'[j], artifacts'[j])
      /\ \A v \in Workers : worker'[v] = worker[v] => Steady(v)
  BY ZenonT(40), <1>2, <1>5, <1>6, <1>7, ChainWrite
<1>9. TypeOK'
  BY ZenonT(40), <1>7, <1>8 DEF LiveInv, TypeOK, ArtifactsOK
<1>10. TypeOK /\ (\A b \in Buys : LocalInv(b)) /\ WorkersInv /\ tokens <= tokens'
  BY <1>7 DEF LiveInv, DatabaseInv, TypeOK
<1>11. WorkersInv'
  BY ZenonT(40), <1>7, <1>8, <1>9, <1>10, WorkersKept
<1> QED
  BY ZenonT(40), <1>8, <1>9, <1>11 DEF LiveInv

(* The bytes are sent: the network may have them or not, whatever it       *)
(* answers.                                                                *)
LEMMA SendKeeps ==
  ASSUME LiveInv, NEW w \in Workers, NEW sent \in BOOLEAN, NEW accepted \in BOOLEAN,
         Send(w, sent, accepted)
  PROVE  LiveInv'
<1> DEFINE id == worker[w].id
           n == worker[w].claim.attemptCount
           found == IF accepted THEN "PRESENT" ELSE "NONE"
<1>1. Engages(w) /\ worker[w].pc = "SENDING"
  BY ZenonT(40) DEF Send, At, Engages
<1>2. id \in Ids /\ worker[w].claim.status = "SIGNED_NOT_SUBMITTED"
  BY ZenonT(40), <1>1, OwnerFacts DEF ClaimStatus
<1>3. n \in 1..Len(artifacts[id]) /\ artifacts[id][n].state \notin Untouchable
  BY ZenonT(40), <1>1 DEF LiveInv, WorkersInv, MemoryInv, Untouchable
<1>4. /\ artifacts' = IF sent /\ artifacts[id][n].chain = Unsent
                      THEN [artifacts EXCEPT ![id][n].chain = Sent] ELSE artifacts
      /\ worker' = [worker EXCEPT ![w].pc = "SENT", ![w].found = found]
      /\ UNCHANGED <<control, unknownBlock, exposure, intents, live, entry, tokens>>
  BY ZenonT(40) DEF Send, Unsent, Sent
<1>5. Turned(w, "SENT", id, worker[w].claim)
  <2>1. found \in Results \cup {"LANDED_FAILURE", "NONE", "PRESENT", "MISSING"} /\ "SENT" \in WorkerPcs
    BY ZenonT(40) DEF WorkerPcs
  <2> HIDE DEF found
  <2> QED
    BY ZenonT(40), <1>4, <2>1, FoundTurn DEF LiveInv
<1>6. /\ WorkerInv(w)'
      /\ Engages(w)' => Engages(w) /\ worker'[w].claim.token = worker[w].claim.token
  BY ZenonT(40), <1>1, <1>2, <1>4, <1>5, ClaimStays DEF WorkerPcs, ClaimStatus
<1>7. MemoryInv(w)'
  BY ZenonT(40), <1>5 DEF MemoryInv, Turned
<1>8. CASE sent /\ artifacts[id][n].chain = Unsent
  <2>1. artifacts' = [artifacts EXCEPT ![id][n].chain = Sent]
    BY ZenonT(40), <1>4, <1>8
  <2>2. Sent \in ChainStates /\ Moves(artifacts[id][n].chain, Sent)
    BY ZenonT(40), <1>8, ChainFacts DEF Moves
  <2> HIDE DEF id, n
  <2>3. /\ ArtifactsOK' /\ DatabaseInv' /\ \A j \in Ids : Advanced(j)
        /\ \A j \in Ids : intents'[j].token <= tokens' /\ Counted(intents'[j], artifacts'[j])
        /\ \A v \in Workers : worker'[v] = worker[v] => Steady(v)
    BY ZenonT(40), <1>2, <1>3, <1>4, <2>1, <2>2, ChainWrite
  <2>4. TypeOK'
    BY ZenonT(40), <1>4, <1>5, <2>3 DEF LiveInv, TypeOK, ArtifactsOK, Turned
  <2>5. TypeOK /\ (\A b \in Buys : LocalInv(b)) /\ WorkersInv /\ tokens <= tokens'
    BY <1>4 DEF LiveInv, DatabaseInv, TypeOK
  <2>6. \A v \in Workers : v # w => Steady(v)
    BY ZenonT(40), <1>5, <2>3 DEF Turned
  <2>7. WorkersInv'
    BY ZenonT(40), <1>4, <1>6, <1>7, <2>3, <2>4, <2>5, <2>6, WorkerSteps
  <2> QED
    BY ZenonT(40), <2>3, <2>4, <2>7 DEF LiveInv
<1>9. CASE ~(sent /\ artifacts[id][n].chain = Unsent)
  BY ZenonT(40), <1>4, <1>5, <1>6, <1>7, <1>9, QuietStep
<1> QED
  BY ZenonT(40), <1>8, <1>9

(* Authorization: the armament of a BUY, or the authorization of a SELL,   *)
(* is locked.                                                              *)
LEMMA AuthorizeKeeps ==
  ASSUME LiveInv, NEW w \in Workers, Authorize(w)
  PROVE  LiveInv'
<1> DEFINE id == worker[w].id
           b == id[1]
<1>1. Engages(w) /\ Owns(w) /\ worker[w].pc = "EVALUATING"
  BY Zenon DEF Authorize, At, Engages
<1>2. /\ id \in Ids /\ id \in live /\ worker[w].claim \in ClaimRow
      /\ worker[w].claim.status = "PROCESSING" /\ worker[w].claim.token \in 1..tokens
      /\ intents[id].status = "PROCESSING" /\ tokens \in Nat
      /\ worker[w].claim.revision <= intents[id].revision
  BY ZenonT(40), <1>1, OwnerFacts DEF ClaimStatus
<1>3. /\ worker' = [worker EXCEPT ![w].pc = "SIGNING"]
      /\ UNCHANGED <<control, unknownBlock, exposure, intents, live, artifacts, tokens>>
      /\ \/ /\ ~IsSell(id) /\ entry[b].lock = "NONE" /\ entry[b].armament = "ARMED"
            /\ entry[b].reservation = "RESERVED"
            /\ entry' = [entry EXCEPT ![b].lock = "AUTHORIZED",
                                      ![b].lockToken = worker[w].claim.token,
                                      ![b].armament = "LOCKED"]
         \/ IsSell(id) /\ entry' = entry
  BY ZenonT(40) DEF Authorize, Entry
<1>4. Turned(w, "SIGNING", id, worker[w].claim)
  BY ZenonT(40), <1>3, PcTurn DEF LiveInv, WorkerPcs
<1>5. /\ worker'[w].pc = "SIGNING" /\ worker'[w].id = id /\ worker'[w].claim = worker[w].claim
      /\ \A v \in Workers : v # w => worker'[v] = worker[v]
  BY ZenonT(40), <1>4 DEF Turned
<1>6. WorkerInv(w)' /\ MemoryInv(w)'
  <2>1. WorkerInv(w)'
    <3>1. ClaimStatus("SIGNING", worker[w].claim.status)
      BY ZenonT(40), <1>2 DEF ClaimStatus
    <3>2. id \in live' /\ worker[w].claim.token \in 1..tokens' /\ intents' = intents
      BY ZenonT(40), <1>2, <1>3
    <3> HIDE DEF id
    <3> QED
      BY <1>2, <1>4, <3>1, <3>2, ClaimHeld
  <2>2. MemoryInv(w)'
    BY ZenonT(40), <1>5 DEF MemoryInv
  <2> QED
    BY ZenonT(40), <2>1, <2>2
<1>7. CASE IsSell(id)
  BY ZenonT(40), <1>1, <1>3, <1>4, <1>5, <1>6, <1>7, QuietStep
<1>8. CASE ~IsSell(id)
  <2>1. /\ b \in Buys /\ entry[b] \in EntryRow /\ EntryShape(entry[b]) /\ id = <<b, 0>>
        /\ BuyFits(entry[b], intents[id].status, artifacts[id])
        /\ Ledger(IsSell(id), intents[id].status, artifacts[id])
    BY ZenonT(40), <1>2, <1>8, IdLocal
  <2>2. entry \in [Buys -> EntryRow] /\ worker[w].claim.token \in Nat
    BY <1>2 DEF LiveInv, TypeOK
  <2> DEFINE t == worker[w].claim.token
  <2>3. entry' = [entry EXCEPT ![b].lock = "AUTHORIZED", ![b].lockToken = t,
                               ![b].armament = "LOCKED"]
    BY ZenonT(40), <1>3, <1>8
  <2>4. t \in Nat
    BY ZenonT(40), <2>2
  <2> HIDE DEF t
  <2>5. /\ entry' \in [Buys -> EntryRow] /\ \A c \in Buys : c # b => entry'[c] = entry[c]
        /\ entry'[b].exit = entry[b].exit /\ entry'[b].lock = "AUTHORIZED"
        /\ entry'[b].reservation = entry[b].reservation /\ entry'[b].armament = "LOCKED"
        /\ entry'[b].position = entry[b].position /\ entry'[b].auth = entry[b].auth
    BY ZenonT(40), <2>1, <2>2, <2>3, <2>4 DEF EntryRow, ArmamentStates, LockStates
  <2>6. NoPosition(entry[b]) /\ entry[b].exit = 0 /\ entry[b].reservation = "RESERVED"
    BY ZenonT(40), <1>3, <1>8, <2>1 DEF EntryShape, NoPosition
  <2>7. EntryShape(entry'[b])
    BY ZenonT(40), <2>5, <2>6 DEF EntryShape, NoPosition
  <2>8. artifacts[id] = <<>>
    BY ZenonT(40), <1>3, <1>8, <2>1 DEF BuyFits
  <2>9. BuyFits(entry'[b], "PROCESSING", artifacts'[id])
    <3>1. Len(artifacts[id]) <= 1
      BY ZenonT(40), <2>1 DEF BuyFits
    <3> QED
      BY ZenonT(40), <1>3, <2>5, <2>6, <2>8, <3>1 DEF BuyFits, Pending
  <2>10. \A j \in Ids : intents'[j].status = intents[j].status /\ artifacts'[j] = artifacts[j]
    BY ZenonT(40), <1>3
  <2>11. Ledger(IsSell(id), intents'[id].status, artifacts'[id])
    BY ZenonT(40), <1>2, <2>1, <2>10
  <2>12. BuyFits(entry'[b], intents'[id].status, artifacts'[id])
    BY ZenonT(40), <1>2, <2>9, <2>10
  <2>13. live' = live
    BY ZenonT(40), <1>3
  <2> HIDE DEF id, b
  <2>14. id \in Ids /\ b = id[1]
    BY ZenonT(40), <1>2 DEF b
  <2>15. \A c \in Buys : LocalInv(c)'
    BY ZenonT(40), <1>2, <1>8, <2>5, <2>6, <2>7, <2>10, <2>11, <2>12, <2>13, <2>14, Wrote
  <2>16. ExposureInv'
    <3>1. \A c \in Buys : entry'[c].position = entry[c].position
                          /\ entry'[c].reservation = entry[c].reservation
      BY ZenonT(40), <2>5
    <3> QED
      BY ZenonT(40), <1>3, <3>1, ExposureFrame DEF IsReserved, IsOpen
  <2>17. UnknownEffectBlocks'
    <3>1. \A c \in Buys : entry'[c].reservation = entry[c].reservation
      BY ZenonT(40), <2>5
    <3>2. UnknownEffectBlocks
      BY ZenonT(40) DEF LiveInv, DatabaseInv
    <3> QED
      BY ZenonT(40), <1>3, <3>1, <3>2, BlockKept
  <2>18. TypeOK /\ (\A c \in Buys : LocalInv(c)) /\ WorkersInv
    BY Zenon DEF LiveInv, DatabaseInv
  <2>19. TypeOK'
    BY ZenonT(40), <1>3, <1>4, <2>5, <2>18 DEF TypeOK, Turned
  <2>20. WorkersInv'
    BY ZenonT(40), <1>1, <1>3, <1>5, <1>6, <2>18, <2>19, NothingWritten
  <2> QED
    BY Zenon, <2>15, <2>16, <2>17, <2>19, <2>20 DEF LiveInv, DatabaseInv
<1> QED
  BY ZenonT(40), <1>7, <1>8

(* A PROCESSING intent whose attempt was interrupted is taken up again. *)
LEMMA RecoverStrandedKeeps ==
  ASSUME LiveInv, NEW w \in Workers, RecoverStranded(w)
  PROVE  LiveInv'
<1>1. PICK b \in Authorized :
        /\ Recoverable(b)
        /\ intents' = [intents EXCEPT
                         ![<<b, 0>>] = Moved(AttemptEnded(intents[<<b, 0>>], "ABANDONED"), "FAILED")]
        /\ entry' = [entry EXCEPT ![b].armament = "REVOKED", ![b].reservation = "RELEASED",
                                  ![b].lock = "REVOKED"]
  BY Zenon DEF RecoverStranded
<1>2. /\ worker[w].pc = "IDLE" /\ worker' = [worker EXCEPT ![w].pc = "READY"]
      /\ exposure' = exposure - 1 /\ control' = Stopped
      /\ UNCHANGED <<unknownBlock, live, artifacts, tokens>>
  BY ZenonT(40) DEF RecoverStranded
<1> DEFINE id == <<b, 0>>
           q == Moved(AttemptEnded(intents[id], "ABANDONED"), "FAILED")
<1>3. b \in Buys /\ id \in Ids /\ ~IsSell(id) /\ id[1] = b /\ entry[b].lock = "AUTHORIZED"
  BY <1>1, ExecutionLiveAssumption DEF Authorized, Ids, IsSell
<1>4. /\ artifacts[id] = <<>> /\ intents[id].status = "PROCESSING"
  BY ZenonT(40), <1>1 DEF Recoverable
<1>5. /\ entry[b] \in EntryRow /\ EntryShape(entry[b]) /\ intents[id] \in IntentRow
      /\ id \in live \/ entry[b].armament = "NONE"
      /\ BuyFits(entry[b], intents[id].status, artifacts[id])
  BY ZenonT(40), <1>3, IdLocal
<1>6. entry[b].armament = "LOCKED" /\ entry[b].reservation = "RESERVED" /\ NoPosition(entry[b])
  BY ZenonT(40), <1>3, <1>5 DEF EntryShape
<1>7. /\ q \in IntentRow /\ q.status = "FAILED" /\ q.token = 0
      /\ q.revision >= intents[id].revision /\ Counted(q, artifacts[id])
  BY ZenonT(40), <1>5, EndedFacts DEF TerminalStatuses
<1>8. intents' = [intents EXCEPT ![id] = q]
  BY ZenonT(40), <1>1
<1> HIDE DEF q
<1>9. entry \in [Buys -> EntryRow] /\ intents \in [Ids -> IntentRow] /\ control \in ControlStates
  BY ZenonT(40) DEF LiveInv, TypeOK
<1>10. /\ entry' \in [Buys -> EntryRow] /\ \A c \in Buys : c # b => entry'[c] = entry[c]
       /\ entry'[b].exit = entry[b].exit /\ entry'[b].lock = "REVOKED"
       /\ entry'[b].reservation = "RELEASED" /\ entry'[b].armament = "REVOKED"
       /\ entry'[b].position = entry[b].position /\ entry'[b].auth = entry[b].auth
  BY <1>1, <1>3, <1>9 DEF EntryRow, ArmamentStates, LockStates, ReservationStates
<1>11. EntryShape(entry'[b]) /\ NoPosition(entry'[b]) /\ entry[b].exit = 0
  BY ZenonT(40), <1>6, <1>10 DEF EntryShape, NoPosition
<1>12. intents'[id] = q /\ \A j \in Ids : j # id => intents'[j] = intents[j]
  BY ZenonT(40), <1>3, <1>8, <1>9
<1>13. BuyFits(entry'[b], "FAILED", artifacts[id])
  <2>1. Len(artifacts[id]) <= 1
    BY ZenonT(40), <1>5 DEF BuyFits
  <2> QED
    BY ZenonT(40), <1>4, <1>10, <2>1 DEF BuyFits, Pending
<1>14. Ledger(FALSE, "FAILED", artifacts[id])
  BY <1>4 DEF Ledger, Decisive, Pending
<1>15. id \in live
  BY ZenonT(40), <1>5, <1>6
<1>16. \A c \in Buys : LocalInv(c)'
  <2>1. intents'[id].status = "FAILED" /\ artifacts'[id] = artifacts[id]
    BY ZenonT(40), <1>2, <1>7, <1>12
  <2>2. ~IsSell(id) /\ id[1] = b /\ id \in Ids /\ IsSell(id) = FALSE
    BY <1>3 DEF IsSell
  <2>3. Ledger(IsSell(id), intents'[id].status, artifacts'[id])
        /\ BuyFits(entry'[b], intents'[id].status, artifacts'[id])
    BY ZenonT(40), <1>13, <1>14, <2>1, <2>2
  <2>4. live' = live /\ \A j \in Ids : j # id => /\ intents'[j].status = intents[j].status
                                                 /\ artifacts'[j] = artifacts[j]
    BY ZenonT(40), <1>2, <1>12
  <2> HIDE DEF id
  <2> QED
    BY ZenonT(40), <1>10, <1>11, <1>15, <2>2, <2>3, <2>4, Wrote
<1>17. ExposureInv'
  <2>1. Engaged(b)
    BY ZenonT(40), <1>6 DEF Engaged, IsReserved
  <2>2. ~Engaged(b)'
    BY ZenonT(40), <1>10, <1>11 DEF Engaged, IsReserved, IsOpen, NoPosition
  <2>3. \A c \in Buys : c # b => (Engaged(c)' <=> Engaged(c))
    BY ZenonT(40), <1>10 DEF Engaged, IsReserved, IsOpen
  <2> QED
    BY ZenonT(40), <1>2, <1>3, <2>1, <2>2, <2>3, EngagementEnds DEF LiveInv, DatabaseInv
<1>18. UnknownEffectBlocks'
  <2>1. \A c \in Buys : entry'[c].reservation = "UNKNOWN_HELD"
                          => entry[c].reservation = "UNKNOWN_HELD"
    BY ZenonT(40), <1>10
  <2>2. UnknownEffectBlocks
    BY ZenonT(40) DEF LiveInv, DatabaseInv
  <2> QED
    BY ZenonT(40), <1>2, <2>1, <2>2, BlockKept
<1>19. worker[w].id = NoIntent
  BY ZenonT(40), <1>2 DEF LiveInv, WorkersInv, WorkerInv, Engages
<1>20. Turned(w, "READY", NoIntent, worker[w].claim)
  BY ZenonT(40), <1>2, <1>19, PcTurn DEF LiveInv, WorkerPcs
<1>21. WorkerInv(w)' /\ MemoryInv(w)' /\ ~Engages(w)'
  BY ZenonT(40), <1>20, IdleMeansNothing
<1>22. TypeOK /\ (\A c \in Buys : LocalInv(c)) /\ WorkersInv
  BY ZenonT(40) DEF LiveInv, DatabaseInv
<1>23. TypeOK'
  <2>1. exposure' \in Nat
    BY <1>17 DEF ExposureInv
  <2>2. control' \in ControlStates
    BY ZenonT(40), <1>2, <1>9 DEF Stopped, ControlStates
  <2>3. intents' \in [Ids -> IntentRow]
    BY ZenonT(40), <1>3, <1>7, <1>8, <1>9
  <2> QED
    BY ZenonT(40), <1>2, <1>10, <1>20, <1>22, <2>1, <2>2, <2>3 DEF TypeOK, Turned
<1>24. WorkersInv'
  <2>1. Advanced(id)
    BY ZenonT(40), <1>2, <1>3, <1>7, <1>8, RowWritten
  <2>2. \A v \in Workers : v # w => worker'[v] = worker[v]
    BY ZenonT(40), <1>20 DEF Turned
  <2>3. Counted(q, artifacts'[id]) /\ \A j \in Ids : j # id => artifacts'[j] = artifacts[j]
    BY ZenonT(40), <1>2, <1>7
  <2>4. live \subseteq live' /\ tokens' = tokens
    BY ZenonT(40), <1>2
  <2> HIDE DEF id
  <2> QED
    BY ZenonT(40), <1>3, <1>7, <1>8, <1>21, <1>22, <1>23, <2>1, <2>2, <2>3, <2>4, IntentWritten
<1> QED
  BY ZenonT(40), <1>16, <1>17, <1>18, <1>23, <1>24 DEF LiveInv, DatabaseInv

(* The three claims: of an execution, of a confirmation and of a           *)
(* reconciliation.                                                         *)
LEMMA ClaimsKeep ==
  ASSUME LiveInv, NEW w \in Workers,
         ClaimExecution(w) \/ ClaimConfirmation(w) \/ ClaimReconciliation(w)
  PROVE  LiveInv'
<1>1. ~Engages(w)
  BY ZenonT(40) DEF ClaimExecution, ClaimConfirmation, ClaimReconciliation, Engages
<1>2. \A id \in Ids : intents[id].status # "RECONCILING"
  BY ZenonT(40), IdLocal DEF Ledger
<1>3. live \subseteq Ids
  BY ZenonT(40) DEF LiveInv, TypeOK
<1>4. CASE \E id \in RecoverableIntents : Claimed(w, id, "RECOVERING")
  BY ZenonT(40), <1>1, <1>4, ClaimKeeps DEF RecoverableIntents, WorkerPcs, ClaimStatus
<1>5. CASE \E id \in ExecutableSells \cup ExecutableBuys : Claimed(w, id, "CLAIMED")
  <2>1. PICK id \in ExecutableSells \cup ExecutableBuys : Claimed(w, id, "CLAIMED")
    BY ZenonT(40), <1>5
  <2>2. id \in live /\ intents[id].status \in {"PENDING", "RETRY_READY", "PROCESSING"}
    BY ZenonT(40) DEF ExecutableSells, ExecutableBuys, Sells
  <2> QED
    BY ZenonT(40), <1>1, <2>1, <2>2, ClaimKeeps DEF WorkerPcs, ClaimStatus
<1>6. CASE ClaimConfirmation(w)
  BY ZenonT(40), <1>1, <1>6, ClaimKeeps DEF ClaimConfirmation, WorkerPcs, ClaimStatus
<1>7. CASE ClaimReconciliation(w)
  BY ZenonT(40), <1>1, <1>2, <1>3, <1>7, ClaimKeeps DEF ClaimReconciliation, WorkerPcs, ClaimStatus
<1> QED
  BY ZenonT(40), <1>4, <1>5, <1>6, <1>7 DEF ClaimExecution

=============================================================================
