---------------------------- MODULE ExecutionLive ----------------------------
(***************************************************************************)
(* Live execution of one wallet generation: the operator arms a BUY, the   *)
(* executor signs and submits it once, the recovery process confirms and   *)
(* reconciles what the chain did, and a position that was opened is sold   *)
(* by exit SELLs that are retried and replaced under guards.               *)
(*                                                                         *)
(* An intent is <<b, 0>>, the BUY b, or <<b, n>>, the n-th exit SELL of    *)
(* the position that b opened.  exposure stands for reserved_exposure_raw  *)
(* and open_positions, which every transaction moves together.  The k-th   *)
(* signed transaction of an intent belongs to its k-th attempt, and keeps  *)
(* beside its row the reconciliation evidence about it (UNKNOWN: one or    *)
(* more unresolved UNKNOWN rows) and what really became of it on chain.    *)
(* Quotes, snapshots, qualifications and budgets only ever refuse a step:  *)
(* a gate that needs them fresh may refuse at any time.                    *)
(***************************************************************************)
EXTENDS IntentLedger, FiniteSets

CONSTANTS
  Buys, Executors, Recoverers, NoIntent, NoClaim,
  LandingOutcomes,  \* how a transaction that lands may end
  PromptReads,      \* one reconciliation's reads are closer than landing and finality
  MaxExits,         \* re-exit cap: exit SELLs per position
  MaxAttempts,      \* bound on the attempts of one intent
  MaxTokens         \* bound on the number of claims

Outcomes == {"LANDED", "FAILED", "ODD"}
Workers == Executors \cup Recoverers
Ids == Buys \X (0..MaxExits)

ASSUME ExecutionLiveAssumption ==
  /\ LandingOutcomes \subseteq Outcomes
  /\ PromptReads \in BOOLEAN
  /\ MaxExits \in Nat /\ MaxAttempts \in Nat /\ MaxTokens \in Nat
  /\ Executors \cap Recoverers = {}
  /\ NoIntent \notin Ids

VARIABLES
  control,       \* execution_control_state
  unknownBlock,  \* execution_wallet_risk_state.unknown_block
  exposure,      \* execution_wallet_risk_state: reserved exposure, open positions
  intents,       \* execution_intents with execution_attempts
  live,          \* the intents with live_reserved: armed BUYs and created SELLs
  entry,         \* armament, reservation, lock, position and exit authorization
  artifacts,     \* execution_signed_transactions, their evidence and their fate
  tokens,        \* lease tokens drawn so far
  worker         \* what each process is doing

vars == <<control, unknownBlock, exposure, intents, live, entry, artifacts, tokens, worker>>

ControlStates == {"RUNNING", "ENTRY_STOP", "HARD_STOP"}
ArmamentStates == {"NONE", "ARMED", "LOCKED", "REVOKED", "EXPIRED", "CONSUMED"}
ReservationStates == {"NONE", "RESERVED", "UNKNOWN_HELD", "CONSUMED", "RELEASED"}
LockStates == {"NONE", "AUTHORIZED", "SIGNED_PERSISTED", "REVOKED"}
PositionStates == {"NONE", "OPEN", "EXIT_PENDING", "UNKNOWN", "CLOSED"}
AuthorizationStates == {"NONE", "ACTIVE", "LOCKED", "CONSUMED"}
ArtifactStates == {"PERSISTED", "SIGNED_SIMULATED", "SUBMISSION_STARTED", "ACCEPTED",
                   "AMBIGUOUS", "CONFIRMED", "RECONCILED", "REVOKED_NO_SEND"}
Results == {"MATCHED", "NO_EFFECT", "MISMATCH", "UNKNOWN"}

(* The fate of a signed transaction: not sent, sent and possibly landing,  *)
(* landed with an outcome, landed and finalized, or dead: never landed and *)
(* its last valid block height finalized.                                  *)
Finalized(o) == <<o, "FINAL">>
Landed(o) == <<o, "CONFIRMED">>
ChainStates == {<<"UNSENT">>, <<"SENT">>, <<"DEAD">>}
                 \cup {Landed(o) : o \in Outcomes} \cup {Finalized(o) : o \in Outcomes}

EntryRow ==
  [armament: ArmamentStates, reservation: ReservationStates,
   lock: LockStates, lockToken: Nat,
   position: PositionStates, exit: 0..MaxExits, auth: AuthorizationStates]

ArtifactRow == [state: ArtifactStates, evidence: Results \cup {"NONE"}, chain: ChainStates]

WorkerPcs ==
  {"IDLE", "READY", "CLAIMED", "STARTED", "EVALUATING", "SIGNING", "RECOVERING", "PERSISTED",
   "SIMULATED", "SENDING", "SENT", "DONE",
   "CONFIRMING", "OBSERVED", "RECONCILING", "READING", "DECIDED"}

(* claim is the claim in use, held the one the lane would release, view    *)
(* the fate its first read saw, found what its reads concluded.            *)
WorkerRow ==
  [pc: WorkerPcs, id: Ids \cup {NoIntent}, claim: ClaimRow \cup {NoClaim},
   held: ClaimRow \cup {NoClaim}, view: ChainStates,
   found: Results \cup {"LANDED_FAILURE", "NONE", "PRESENT", "MISSING"}]

IsSell(id) == id[2] > 0
Entry(id) == entry[id[1]]
Latest(id) == artifacts[id][Len(artifacts[id])]
CurrentExit(b) == <<b, entry[b].exit>>

NewEntry ==
  [armament |-> "NONE", reservation |-> "NONE", lock |-> "NONE", lockToken |-> 0,
   position |-> "NONE", exit |-> 0, auth |-> "NONE"]

Idle == [pc |-> "IDLE", id |-> NoIntent, claim |-> NoClaim, held |-> NoClaim,
         view |-> <<"UNSENT">>, found |-> "NONE"]

Init ==
  /\ control = "RUNNING" /\ unknownBlock = FALSE /\ exposure = 0
  /\ intents = [id \in Ids |-> NewIntent]
  /\ live = {}
  /\ entry = [b \in Buys |-> NewEntry]
  /\ artifacts = [id \in Ids |-> <<>>]
  /\ tokens = 0
  /\ worker = [w \in Workers |-> Idle]

Held(e) == \E b \in Buys : e[b].reservation = "UNKNOWN_HELD"

Stopped == IF control = "HARD_STOP" THEN "HARD_STOP" ELSE "ENTRY_STOP"

-----------------------------------------------------------------------------
(***************************************************************************)
(* The operator.  terminalizeActiveArmament ends an ARMED armament and     *)
(* frees its reservation; a LOCKED one belongs to the executor.            *)
(***************************************************************************)
Armed == {b \in Buys : entry[b].armament = "ARMED"}

(* Faulty variant: the reservation of a revoked armament is kept. *)
TerminalizedKeepingReservation(next) ==
  [b \in Buys |-> IF b \in Armed THEN [entry[b] EXCEPT !.armament = next] ELSE entry[b]]

Terminalized(next) ==
  [b \in Buys |-> IF b \in Armed
                  THEN [entry[b] EXCEPT !.armament = next, !.reservation = "RELEASED"]
                  ELSE entry[b]]

BlockedAfterRelease == IF Armed = {} THEN unknownBlock ELSE Held(entry)

(* setStop *)
SetStop(mode) ==
  /\ ~(control = "HARD_STOP" /\ mode = "ENTRY_STOP")
  /\ control' = mode
  /\ entry' = Terminalized("REVOKED")
  /\ exposure' = exposure - Cardinality(Armed)
  /\ unknownBlock' = BlockedAfterRelease
  /\ UNCHANGED <<intents, live, artifacts, tokens, worker>>

(* resume *)
Resume ==
  /\ control # "RUNNING"
  /\ ~unknownBlock /\ ~Held(entry)
  /\ control' = "RUNNING"
  /\ entry' = Terminalized("REVOKED")
  /\ exposure' = exposure - Cardinality(Armed)
  /\ unknownBlock' = BlockedAfterRelease
  /\ UNCHANGED <<intents, live, artifacts, tokens, worker>>

(* revokeEnvelope, expireEnvelopes *)
RevokeEnvelope(next) ==
  /\ Armed # {}
  /\ entry' = Terminalized(next)
  /\ exposure' = exposure - Cardinality(Armed)
  /\ unknownBlock' = BlockedAfterRelease
  /\ UNCHANGED <<control, intents, live, artifacts, tokens, worker>>

(* armV2InTransaction: the target is untouched, no armament is LOCKED, and *)
(* admitBuyInTransaction finds no unknown block.                           *)
Armable(b) ==
  LET r == intents[<<b, 0>>]
  IN /\ r.status = "PENDING" /\ r.attempts = <<>> /\ r.token = 0 /\ ~r.expired
     /\ <<b, 0>> \notin live
     /\ control = "RUNNING"
     /\ \A c \in Buys : entry[c].armament # "LOCKED"
     /\ ~BlockedAfterRelease

(* An ARMED armament that has expired is terminalized on the way. *)
Arm(b) ==
  /\ Armable(b)
  /\ live' = live \cup {<<b, 0>>}
  /\ entry' = [Terminalized("EXPIRED") EXCEPT
                 ![b].armament = "ARMED", ![b].reservation = "RESERVED"]
  /\ exposure' = exposure - Cardinality(Armed) + 1
  /\ unknownBlock' = BlockedAfterRelease
  /\ UNCHANGED <<control, intents, artifacts, tokens, worker>>

-----------------------------------------------------------------------------
(***************************************************************************)
(* Claims.                                                                 *)
(***************************************************************************)
(* LIVE_BUY_SELL_PRIORITY_PREDICATE *)
SellsWait ==
  \E id \in live :
    /\ IsSell(id)
    /\ \/ intents[id].status \in {"PENDING", "RETRY_READY", "PROCESSING"} /\ ~intents[id].expired
       \/ intents[id].status = "SIGNED_NOT_SUBMITTED"

Sells == {id \in live : IsSell(id)}

ExecutableSells ==
  {id \in Sells : /\ intents[id].status \in {"PENDING", "RETRY_READY", "PROCESSING"}
                  /\ ~intents[id].expired}

(* liveExecuteBuySelectionSql *)
ExecutableBuys ==
  {id \in live \ Sells : /\ intents[id].status = "PENDING" /\ ~intents[id].expired
                         /\ Entry(id).armament = "ARMED"
                         /\ Entry(id).reservation = "RESERVED"
                         /\ ~SellsWait}

(* LIVE_RECOVER *)
RecoverableIntents ==
  {id \in live : /\ intents[id].status = "SIGNED_NOT_SUBMITTED"
                 /\ ~IsSell(id) => ~SellsWait}

Claimed(w, id, pc) ==
  /\ LeaseIsFree(intents[id])
  /\ tokens < MaxTokens
  /\ tokens' = tokens + 1
  /\ intents' = [intents EXCEPT ![id] = Leased(@, tokens + 1)]
  /\ LET c == ClaimOf(intents'[id])
     IN worker' = [worker EXCEPT ![w] = [Idle EXCEPT !.pc = pc, !.id = id, !.claim = c, !.held = c]]
  /\ UNCHANGED <<control, unknownBlock, exposure, live, entry, artifacts>>

(***************************************************************************)
(* prePass: recoverStrandedPreSignatureLock revokes a lock whose executor  *)
(* is gone; a lock that is still leased or no longer as it was left fails  *)
(* the whole pass.                                                         *)
(***************************************************************************)
Authorized == {b \in Buys : entry[b].lock = "AUTHORIZED"}

Recoverable(b) ==
  LET r == intents[<<b, 0>>]
  IN /\ r.status = "PROCESSING" /\ HasStarted(r) /\ AttemptCount(r) = 1
     /\ entry[b].armament = "LOCKED" /\ entry[b].reservation = "RESERVED"
     /\ artifacts[<<b, 0>>] = <<>>
     /\ r.token \in {0, entry[b].lockToken}
     /\ LeaseIsFree(r)

PrePass(w) ==
  /\ worker[w].pc = "IDLE"
  /\ Authorized = {}
  /\ worker' = [worker EXCEPT ![w].pc = "READY"]
  /\ UNCHANGED <<control, unknownBlock, exposure, intents, live, entry, artifacts, tokens>>

RecoverStranded(w) ==
  /\ worker[w].pc = "IDLE"
  /\ \E b \in Authorized :
       /\ Recoverable(b)
       /\ intents' = [intents EXCEPT ![<<b, 0>>] = Moved(AttemptEnded(@, "ABANDONED"), "FAILED")]
       /\ entry' = [entry EXCEPT ![b].armament = "REVOKED", ![b].reservation = "RELEASED",
                                 ![b].lock = "REVOKED"]
  /\ exposure' = exposure - 1
  /\ control' = Stopped
  /\ worker' = [worker EXCEPT ![w].pc = "READY"]
  /\ UNCHANGED <<unknownBlock, live, artifacts, tokens>>

ClaimExecution(w) ==
  /\ worker[w].pc = "READY"
  /\ \/ \E id \in RecoverableIntents : Claimed(w, id, "RECOVERING")
     \/ \E id \in ExecutableSells \cup ExecutableBuys : Claimed(w, id, "CLAIMED")

-----------------------------------------------------------------------------
(***************************************************************************)
(* The executor, up to the signature.                                      *)
(***************************************************************************)
Row(w) == intents[worker[w].id]
Owns(w) == Fenced(Row(w), worker[w].claim)
At(w, pc) == worker[w].pc = pc

(* Worker w goes on at pc with the row r of its intent as its claim. *)
Goes(w, pc, r) == [worker EXCEPT ![w].pc = pc, ![w].claim = ClaimOf(r)]
GoesHolding(w, pc, r) == [Goes(w, pc, r) EXCEPT ![w].held = ClaimOf(r)]

StartProcessing(w) ==
  /\ At(w, "CLAIMED")
  /\ Owns(w)
  /\ LET id == worker[w].id
         r == IF Row(w).status = "PROCESSING" THEN Row(w) ELSE Moved(Row(w), "PROCESSING")
     IN /\ intents' = [intents EXCEPT ![id] = r]
        /\ worker' = GoesHolding(w, "STARTED", r)
  /\ UNCHANGED <<control, unknownBlock, exposure, live, entry, artifacts, tokens>>

BeginAttempt(w) ==
  /\ At(w, "STARTED")
  /\ Owns(w)
  /\ HasStarted(Row(w)) \/ AttemptCount(Row(w)) < MaxAttempts
  /\ LET id == worker[w].id
         r == Begun(Row(w))
     IN /\ intents' = [intents EXCEPT ![id] = r]
        /\ worker' = GoesHolding(w, "EVALUATING", r)
  /\ UNCHANGED <<control, unknownBlock, exposure, live, entry, artifacts, tokens>>

(* The evaluator fails, before or after the signature: failures.complete.  *)
EvaluationFails(w) ==
  /\ At(w, "EVALUATING") \/ At(w, "SIGNING")
  /\ Owns(w)
  /\ intents' = [intents EXCEPT ![worker[w].id] = Moved(AttemptEnded(@, "ABANDONED"), "FAILED")]
  /\ worker' = [worker EXCEPT ![w] = Idle]
  /\ UNCHANGED <<control, unknownBlock, exposure, live, entry, artifacts, tokens>>

(* authorizeExactSigning locks the armament for exactly this attempt of    *)
(* the BUY; an exit only reads its binding.                                *)
Authorize(w) ==
  /\ At(w, "EVALUATING")
  /\ Owns(w)
  /\ LET id == worker[w].id
         e == Entry(id)
     IN \/ /\ ~IsSell(id)
           /\ AttemptCount(Row(w)) = 1 /\ ~Row(w).expired
           /\ control = "RUNNING" /\ ~unknownBlock
           /\ e.lock = "NONE" /\ e.armament = "ARMED" /\ e.reservation = "RESERVED"
           /\ entry' = [entry EXCEPT ![id[1]].lock = "AUTHORIZED",
                                     ![id[1]].lockToken = worker[w].claim.token,
                                     ![id[1]].armament = "LOCKED"]
        \/ IsSell(id) /\ UNCHANGED entry
  /\ worker' = [worker EXCEPT ![w].pc = "SIGNING"]
  /\ UNCHANGED <<control, unknownBlock, exposure, intents, live, artifacts, tokens>>

SignableSell(id) ==
  /\ control # "HARD_STOP"
  /\ Entry(id).auth = "ACTIVE"
  /\ Entry(id).position = "EXIT_PENDING" /\ CurrentExit(id[1]) = id

SignableBuy(id, token) ==
  /\ control = "RUNNING" /\ ~unknownBlock
  /\ ~intents[id].expired
  /\ Entry(id).lock = "AUTHORIZED" /\ Entry(id).lockToken = token
  /\ Entry(id).armament = "LOCKED" /\ Entry(id).reservation = "RESERVED"

Signed == [state |-> "PERSISTED", evidence |-> "NONE", chain |-> <<"UNSENT">>]

(* persistSigned, persistSellSigned *)
PersistSigned(w) ==
  /\ At(w, "SIGNING")
  /\ Owns(w)
  /\ Row(w).status = "PROCESSING" /\ HasStarted(Row(w))
  /\ LET id == worker[w].id
         r == [Row(w) EXCEPT !.status = "SIGNED_NOT_SUBMITTED", !.revision = @ + 2]
     IN /\ IF IsSell(id)
           THEN /\ SignableSell(id)
                /\ entry' = [entry EXCEPT ![id[1]].auth = "LOCKED"]
           ELSE /\ SignableBuy(id, worker[w].claim.token)
                /\ entry' = [entry EXCEPT ![id[1]].lock = "SIGNED_PERSISTED"]
        /\ intents' = [intents EXCEPT ![id] = r]
        /\ artifacts' = [artifacts EXCEPT ![id] = Append(@, Signed)]
        /\ worker' = Goes(w, "PERSISTED", r)
  /\ UNCHANGED <<control, unknownBlock, exposure, live, tokens>>

-----------------------------------------------------------------------------
(***************************************************************************)
(* The executor, from the signed transaction to its submission.            *)
(***************************************************************************)
InState(id, state) == artifacts[id] # <<>> /\ Latest(id).state = state

WithArtifact(id, state) == [artifacts EXCEPT ![id][Len(artifacts[id])].state = state]

(* recoverPersisted continues where the stored artifact stands.  A started *)
(* submission is recorded as ambiguous and never sent again.               *)
ResumePersisted(w) ==
  /\ At(w, "RECOVERING")
  /\ Owns(w)
  /\ LET id == worker[w].id
     IN worker' = [worker EXCEPT ![w].pc =
                     IF InState(id, "PERSISTED") THEN "PERSISTED"
                     ELSE IF InState(id, "SIGNED_SIMULATED") THEN "SIMULATED"
                     ELSE "SENT"]
  /\ UNCHANGED <<control, unknownBlock, exposure, intents, live, entry, artifacts, tokens>>

(* recordSignedSimulation *)
RecordSignedSimulation(w) ==
  /\ At(w, "PERSISTED")
  /\ Owns(w)
  /\ InState(worker[w].id, "PERSISTED")
  /\ artifacts' = WithArtifact(worker[w].id, "SIGNED_SIMULATED")
  /\ worker' = [worker EXCEPT ![w].pc = "SIMULATED"]
  /\ UNCHANGED <<control, unknownBlock, exposure, intents, live, entry, tokens>>

(* Faulty variant: the stored state of the artifact is not compared. *)
RevocableAnyState(w) == At(w, "PERSISTED") \/ At(w, "SIMULATED") \/ At(w, "SENT")

Revocable(w) ==
  \/ At(w, "PERSISTED") /\ InState(worker[w].id, "PERSISTED")
  \/ At(w, "SIMULATED") /\ InState(worker[w].id, "SIGNED_SIMULATED")

(* revokeBeforeSubmission: the BUY fails and frees its reservation, an     *)
(* exit becomes ready for another attempt.                                 *)
RevokeBeforeSubmission(w) ==
  /\ Revocable(w)
  /\ Owns(w)
  /\ HasStarted(Row(w))
  /\ LET id == worker[w].id
         b == id[1]
         ended == AttemptEnded(Row(w), "ABANDONED")
     IN /\ Entry(id).armament = "LOCKED"
        /\ artifacts' = WithArtifact(id, "REVOKED_NO_SEND")
        /\ IF IsSell(id)
           THEN /\ Entry(id).auth = "LOCKED"
                /\ Entry(id).position = "EXIT_PENDING" /\ CurrentExit(b) = id
                /\ intents' = [intents EXCEPT ![id] = Released(Moved(ended, "RETRY_READY"))]
                /\ entry' = [entry EXCEPT ![b].auth = "ACTIVE"]
                /\ UNCHANGED exposure
           ELSE /\ Entry(id).reservation = "RESERVED"
                /\ intents' = [intents EXCEPT ![id] = Moved(ended, "FAILED")]
                /\ entry' = [entry EXCEPT ![b].armament = "REVOKED", ![b].reservation = "RELEASED"]
                /\ exposure' = exposure - 1
  /\ worker' = [worker EXCEPT ![w] = Idle]
  /\ UNCHANGED <<control, unknownBlock, live, tokens>>

(* validateBuySubmissionGate, beginSellSubmission *)
SubmissionGate(id) ==
  /\ HasStarted(intents[id]) /\ ~intents[id].expired
  /\ Entry(id).armament = "LOCKED"
  /\ IF IsSell(id)
     THEN control # "HARD_STOP" /\ Entry(id).auth = "LOCKED" /\ Entry(id).position = "EXIT_PENDING"
     ELSE /\ control = "RUNNING"
          /\ Entry(id).reservation = "RESERVED"
          /\ ~unknownBlock /\ ~Held(entry)

(* beginSubmission *)
BeginSubmission(w) ==
  /\ At(w, "SIMULATED")
  /\ Owns(w)
  /\ InState(worker[w].id, "SIGNED_SIMULATED")
  /\ SubmissionGate(worker[w].id)
  /\ artifacts' = WithArtifact(worker[w].id, "SUBMISSION_STARTED")
  /\ worker' = [worker EXCEPT ![w].pc = "SENDING"]
  /\ UNCHANGED <<control, unknownBlock, exposure, intents, live, entry, tokens>>

(* submitPersisted hands the worker's own transaction to the network,      *)
(* however late: an aborted or refused call may not have sent it, and      *)
(* only a sent one may be acknowledged.                                    *)
Send(w, sent, accepted) ==
  /\ At(w, "SENDING")
  /\ accepted => sent
  /\ LET id == worker[w].id
         n == worker[w].claim.attemptCount
     IN artifacts' = IF sent /\ artifacts[id][n].chain = <<"UNSENT">>
                     THEN [artifacts EXCEPT ![id][n].chain = <<"SENT">>] ELSE artifacts
  /\ worker' = [worker EXCEPT ![w].pc = "SENT", ![w].found = IF accepted THEN "PRESENT" ELSE "NONE"]
  /\ UNCHANGED <<control, unknownBlock, exposure, intents, live, entry, tokens>>

(* The lease may have lapsed, but nobody else may have taken it. *)
OutcomeRecordable(id, c) ==
  /\ InState(id, "SUBMISSION_STARTED")
  /\ intents[id].token = c.token
  /\ intents[id].status = "SIGNED_NOT_SUBMITTED"

HeldAfterAmbiguity(id) ==
  IF IsSell(id) THEN entry ELSE [entry EXCEPT ![id[1]].reservation = "UNKNOWN_HELD"]

(* Faulty variant: only an ambiguous exit blocks entries. *)
BlockedBySellAmbiguity(id) == IsSell(id) \/ unknownBlock

BlockedByAmbiguity(id) == TRUE

(* recordSubmissionOutcome *)
RecordSubmissionOutcome(w) ==
  /\ At(w, "SENT")
  /\ LET id == worker[w].id
         accepted == worker[w].found = "PRESENT"
         r == Moved(Row(w), IF accepted THEN "SUBMITTED" ELSE "UNKNOWN_REQUIRES_RECONCILIATION")
     IN /\ OutcomeRecordable(id, worker[w].claim)
        /\ artifacts' = WithArtifact(id, IF accepted THEN "ACCEPTED" ELSE "AMBIGUOUS")
        /\ intents' = [intents EXCEPT ![id] = r]
        /\ worker' = GoesHolding(w, "DONE", r)
        /\ IF accepted
           THEN UNCHANGED <<control, unknownBlock, entry>>
           ELSE /\ entry' = HeldAfterAmbiguity(id)
                /\ unknownBlock' = BlockedByAmbiguity(id)
                /\ control' = Stopped
  /\ UNCHANGED <<exposure, live, tokens>>

(* withRelease and the recovery lanes' release: a lane that ends or fails  *)
(* gives back the claim it holds, if that is still the current one.        *)
Finish(w) ==
  /\ worker[w].pc \notin {"IDLE", "SENDING"}
  /\ IF worker[w].id # NoIntent /\ Fenced(Row(w), worker[w].held)
     THEN intents' = [intents EXCEPT ![worker[w].id] = Released(@)]
     ELSE UNCHANGED intents
  /\ worker' = [worker EXCEPT ![w] = Idle]
  /\ UNCHANGED <<control, unknownBlock, exposure, live, entry, artifacts, tokens>>

Crash(w) ==
  /\ worker[w].pc # "IDLE"
  /\ worker' = [worker EXCEPT ![w] = Idle]
  /\ UNCHANGED <<control, unknownBlock, exposure, intents, live, entry, artifacts, tokens>>

-----------------------------------------------------------------------------
(***************************************************************************)
(* The recovery process: confirmation.                                     *)
(***************************************************************************)
IsLanded(c) == \E o \in Outcomes : c \in {Landed(o), Finalized(o)}
IsFinalized(c) == \E o \in Outcomes : c = Finalized(o)

(* May the finalized height be read as past the last valid one?  A         *)
(* transaction that can still land, or has landed but is not finalized, is *)
(* in no block below the finalized height.                                 *)
HeightsPast(c) ==
  IF c = <<"DEAD">> THEN {TRUE} ELSE IF IsFinalized(c) THEN BOOLEAN ELSE {FALSE}

ClaimConfirmation(w) ==
  /\ worker[w].pc = "IDLE"
  /\ \E id \in live : intents[id].status = "SUBMITTED" /\ Claimed(w, id, "CONFIRMING")

(* observeSignature; a processed status counts as not found. *)
ObserveSignature(w) ==
  /\ At(w, "CONFIRMING")
  /\ Owns(w)
  /\ LET c == Latest(worker[w].id).chain
     IN worker' = [worker EXCEPT ![w].pc = "OBSERVED",
                                 ![w].found = IF IsLanded(c) THEN "PRESENT" ELSE "MISSING"]
  /\ UNCHANGED <<control, unknownBlock, exposure, intents, live, entry, artifacts, tokens>>

(* recordConfirmation *)
RecordConfirmation(w) ==
  /\ At(w, "OBSERVED")
  /\ worker[w].found = "PRESENT"
  /\ Owns(w)
  /\ LET id == worker[w].id
     IN /\ InState(id, "ACCEPTED")
        /\ artifacts' = WithArtifact(id, "CONFIRMED")
        /\ intents' = [intents EXCEPT ![id] = Released(Moved(@, "CONFIRMED"))]
  /\ worker' = [worker EXCEPT ![w] = Idle]
  /\ UNCHANGED <<control, unknownBlock, exposure, live, entry, tokens>>

(* recordConfirmationExpiry, once the finalized height is past. *)
RecordConfirmationExpiry(w) ==
  /\ At(w, "OBSERVED")
  /\ worker[w].found = "MISSING"
  /\ Owns(w)
  /\ LET id == worker[w].id
     IN /\ TRUE \in HeightsPast(Latest(id).chain)
        /\ InState(id, "ACCEPTED") /\ HasStarted(Row(w))
        /\ artifacts' = WithArtifact(id, "AMBIGUOUS")
        /\ intents' = [intents EXCEPT
                         ![id] = Released(Moved(@, "UNKNOWN_REQUIRES_RECONCILIATION"))]
  /\ worker' = [worker EXCEPT ![w] = Idle]
  /\ UNCHANGED <<control, unknownBlock, exposure, live, entry, tokens>>

-----------------------------------------------------------------------------
(***************************************************************************)
(* Reconciliation: finalized height, signature history and finalized       *)
(* transaction are read concurrently, each some time between the first and *)
(* the last, and classify concludes.                                       *)
(***************************************************************************)
ClaimReconciliation(w) ==
  /\ worker[w].pc = "IDLE"
  /\ \E id \in live :
       /\ intents[id].status \in {"CONFIRMED", "RECONCILING", "UNKNOWN_REQUIRES_RECONCILIATION"}
       /\ Claimed(w, id, "RECONCILING")

StartReads(w) ==
  /\ At(w, "RECONCILING")
  /\ Owns(w)
  /\ worker' = [worker EXCEPT ![w].pc = "READING", ![w].view = Latest(worker[w].id).chain]
  /\ UNCHANGED <<control, unknownBlock, exposure, intents, live, entry, artifacts, tokens>>

(* Signature history: a sent transaction may be in a processed block. *)
Histories(c) ==
  IF IsLanded(c) THEN {TRUE} ELSE IF c = <<"SENT">> THEN BOOLEAN ELSE {FALSE}

Transaction(c) == IF IsFinalized(c) THEN c[1] ELSE "NONE"

(* Faulty variant: an absent transaction has no effect, whatever height. *)
ClassifyAnyHeight(sell, past, history, transaction) ==
  IF transaction = "NONE" THEN IF history THEN "UNKNOWN" ELSE "NO_EFFECT"
  ELSE IF ~history THEN "MISMATCH"
  ELSE IF transaction = "LANDED" THEN "MATCHED"
  ELSE IF sell /\ transaction = "FAILED" THEN "LANDED_FAILURE"
  ELSE "MISMATCH"

(* classify, isLandedSellFailureWithoutEffect, isMatched.  LANDED_FAILURE  *)
(* is the NO_EFFECT of a SELL that landed and failed.                      *)
Classify(sell, past, history, transaction) ==
  IF transaction = "NONE" THEN IF past /\ ~history THEN "NO_EFFECT" ELSE "UNKNOWN"
  ELSE IF ~history THEN "MISMATCH"
  ELSE IF transaction = "LANDED" THEN "MATCHED"
  ELSE IF sell /\ transaction = "FAILED" THEN "LANDED_FAILURE"
  ELSE "MISMATCH"

Readings(w) ==
  LET views == {worker[w].view, Latest(worker[w].id).chain}
  IN {Classify(IsSell(worker[w].id), past, history, Transaction(c)) :
        past \in UNION {HeightsPast(v) : v \in views},
        history \in UNION {Histories(v) : v \in views},
        c \in views}

EndReads(w) ==
  /\ At(w, "READING")
  /\ Owns(w)
  /\ PromptReads => \/ worker[w].view \notin {<<"UNSENT">>, <<"SENT">>}
                    \/ ~IsFinalized(Latest(worker[w].id).chain)
  /\ \E result \in Readings(w) :
       worker' = [worker EXCEPT ![w].pc = "DECIDED", ![w].found = result]
  /\ UNCHANGED <<control, unknownBlock, exposure, intents, live, entry, artifacts, tokens>>

(***************************************************************************)
(* commitReconciliation.  Earlier evidence about the attempt must be       *)
(* unresolved UNKNOWN.                                                     *)
(***************************************************************************)
Reconcilable(w) ==
  /\ At(w, "DECIDED")
  /\ Owns(w)
  /\ HasStarted(Row(w))
  /\ Latest(worker[w].id).evidence \in {"NONE", "UNKNOWN"}
  /\ Latest(worker[w].id).state \in {"ACCEPTED", "AMBIGUOUS", "CONFIRMED"}

Evidenced(id, state, result) ==
  [artifacts EXCEPT ![id][Len(artifacts[id])].state = state,
                    ![id][Len(artifacts[id])].evidence = result]

(* An intent already UNKNOWN stays so without a transition. *)
Unresolved(r) ==
  Released(IF r.status = "UNKNOWN_REQUIRES_RECONCILIATION" THEN r
           ELSE Moved(r, "UNKNOWN_REQUIRES_RECONCILIATION"))

(* reconciliationTransitions: an UNKNOWN intent is confirmed on the way. *)
Succeeded(r) ==
  Moved(IF r.status = "UNKNOWN_REQUIRES_RECONCILIATION" THEN Moved(r, "CONFIRMED") ELSE r, "SUCCEEDED")

(* reconcileWithHook with applyLiveReconciliation.  unknown_block          *)
(* follows the reservations.                                               *)
BuyReconciled(w, results) ==
  /\ Reconcilable(w)
  /\ ~IsSell(worker[w].id)
  /\ worker[w].found \in results
  /\ Entry(worker[w].id).reservation \in {"RESERVED", "UNKNOWN_HELD"}
  /\ worker' = [worker EXCEPT ![w] = Idle]
  /\ UNCHANGED <<live, tokens>>

(* The position is opened, with the authorization of its exit. *)
BuyMatched(w) ==
  /\ BuyReconciled(w, {"MATCHED"})
  /\ LET id == worker[w].id
     IN /\ entry' = [entry EXCEPT ![id[1]].reservation = "CONSUMED",
                                  ![id[1]].position = "OPEN", ![id[1]].auth = "ACTIVE"]
        /\ intents' = [intents EXCEPT ![id] = Succeeded(AttemptEnded(@, "COMPLETED"))]
        /\ artifacts' = Evidenced(id, "RECONCILED", "MATCHED")
  /\ unknownBlock' = Held(entry')
  /\ UNCHANGED <<control, exposure>>

BuyNoEffect(w) ==
  /\ BuyReconciled(w, {"NO_EFFECT"})
  /\ Row(w).status = "UNKNOWN_REQUIRES_RECONCILIATION" /\ InState(worker[w].id, "AMBIGUOUS")
  /\ LET id == worker[w].id
     IN /\ entry' = [entry EXCEPT ![id[1]].reservation = "RELEASED", ![id[1]].armament = "REVOKED"]
        /\ intents' = [intents EXCEPT ![id] = Moved(AttemptEnded(@, "ABANDONED"), "FAILED")]
        /\ artifacts' = Evidenced(id, "RECONCILED", "NO_EFFECT")
  /\ unknownBlock' = Held(entry')
  /\ exposure' = exposure - 1
  /\ UNCHANGED control

BuyUnresolved(w) ==
  /\ BuyReconciled(w, {"UNKNOWN", "MISMATCH"})
  /\ LET id == worker[w].id
         result == worker[w].found
     IN /\ entry' = [entry EXCEPT ![id[1]].reservation = "UNKNOWN_HELD"]
        /\ intents' = [intents EXCEPT ![id] = Unresolved(@)]
        /\ artifacts' = Evidenced(id, "AMBIGUOUS", result)
        /\ control' = IF result = "UNKNOWN" THEN Stopped ELSE control
  /\ unknownBlock' = Held(entry')
  /\ UNCHANGED exposure

UnresolvedEvidence(a) ==
  \E id \in Ids : \E n \in 1..Len(a[id]) : a[id][n].evidence \in {"UNKNOWN", "MISMATCH"}

(* A landed failure ends the exit, an expired transaction lets it retry. *)
AfterNoEffect(r, result) ==
  IF result = "LANDED_FAILURE" THEN Moved(Unresolved(r), "FAILED")
  ELSE Released(Moved(r, "RETRY_READY"))

(* commitSellReconciliation *)
SellReconciled(w, results) ==
  /\ Reconcilable(w)
  /\ IsSell(worker[w].id)
  /\ worker[w].found \in results
  /\ LET e == Entry(worker[w].id)
     IN /\ e.auth = "LOCKED" /\ e.armament = "LOCKED"
        /\ e.position \in {"EXIT_PENDING", "UNKNOWN"}
  /\ worker' = [worker EXCEPT ![w] = Idle]
  /\ UNCHANGED <<live, tokens>>

SellMatched(w) ==
  /\ SellReconciled(w, {"MATCHED"})
  /\ LET id == worker[w].id
     IN /\ entry' = [entry EXCEPT ![id[1]].position = "CLOSED", ![id[1]].auth = "CONSUMED",
                                  ![id[1]].armament = "CONSUMED"]
        /\ intents' = [intents EXCEPT ![id] = Succeeded(AttemptEnded(@, "COMPLETED"))]
        /\ artifacts' = Evidenced(id, "RECONCILED", "MATCHED")
  /\ exposure' = exposure - 1
  /\ unknownBlock' = (Held(entry') \/ UnresolvedEvidence(artifacts'))
  /\ UNCHANGED control

(* Faulty variant: the position stays frozen. *)
RestoredFrozen(id) == [entry EXCEPT ![id[1]].auth = "ACTIVE"]

(* The exit is authorized again. *)
Restored(id) == [entry EXCEPT ![id[1]].position = "EXIT_PENDING", ![id[1]].auth = "ACTIVE"]

SellNoEffect(w) ==
  /\ SellReconciled(w, {"NO_EFFECT", "LANDED_FAILURE"})
  /\ LET id == worker[w].id
         result == worker[w].found
     IN /\ \/ result = "LANDED_FAILURE"
           \/ InState(id, "AMBIGUOUS") /\ Row(w).status = "UNKNOWN_REQUIRES_RECONCILIATION"
        /\ entry' = Restored(id)
        /\ intents' = [intents EXCEPT ![id] = AfterNoEffect(AttemptEnded(@, "ABANDONED"), result)]
        /\ artifacts' = Evidenced(id, "RECONCILED", "NO_EFFECT")
  /\ unknownBlock' = (Held(entry') \/ UnresolvedEvidence(artifacts'))
  /\ UNCHANGED <<control, exposure>>

SellUnresolved(w) ==
  /\ SellReconciled(w, {"UNKNOWN", "MISMATCH"})
  /\ LET id == worker[w].id
         result == worker[w].found
     IN /\ entry' = [entry EXCEPT ![id[1]].position = "UNKNOWN"]
        /\ intents' = [intents EXCEPT ![id] = Unresolved(@)]
        /\ artifacts' = Evidenced(id, "AMBIGUOUS", result)
        /\ control' = IF result = "UNKNOWN" THEN Stopped ELSE control
  /\ unknownBlock' = TRUE
  /\ UNCHANGED exposure

-----------------------------------------------------------------------------
(***************************************************************************)
(* Exits.                                                                  *)
(***************************************************************************)
(* createDeadlineExitIntentLocked, for a deadline or an early exit. *)
CreateExit(b) ==
  /\ entry[b].position = "OPEN" /\ entry[b].exit = 0
  /\ MaxExits > 0
  /\ live' = live \cup {<<b, 1>>}
  /\ entry' = [entry EXCEPT ![b].position = "EXIT_PENDING", ![b].exit = 1]
  /\ UNCHANGED <<control, unknownBlock, exposure, intents, artifacts, tokens, worker>>

(* REEXIT_GUARD_SQL *)
ReExitGuard(b) ==
  /\ entry[b].position = "EXIT_PENDING"
  /\ \A n \in 1..Len(artifacts[CurrentExit(b)]) :
       LET a == artifacts[CurrentExit(b)][n]
       IN /\ a.state \in {"RECONCILED", "REVOKED_NO_SEND"}
          /\ a.evidence \notin {"MATCHED", "UNKNOWN", "MISMATCH"}
  /\ entry[b].auth = "ACTIVE"
  /\ ~unknownBlock

(* createReExitIntentLocked: an overdue exit is expired in place, one that *)
(* is dead is replaced, up to the cap.                                     *)
ReExit(b) ==
  /\ ReExitGuard(b)
  /\ entry[b].exit < MaxExits
  /\ LET id == CurrentExit(b)
     IN \/ /\ Expirable(intents[id])
           /\ intents' = [intents EXCEPT ![id] = ExpiredRow(@)]
           /\ UNCHANGED <<live, entry>>
        \/ /\ intents[id].status \in {"FAILED", "EXPIRED"}
           /\ live' = live \cup {<<b, entry[b].exit + 1>>}
           /\ entry' = [entry EXCEPT ![b].exit = @ + 1]
           /\ UNCHANGED intents
  /\ UNCHANGED <<control, unknownBlock, exposure, artifacts, tokens, worker>>

-----------------------------------------------------------------------------
(***************************************************************************)
(* Time, retention and the chain.                                          *)
(***************************************************************************)
Exists(id) == ~IsSell(id) \/ id \in live

(* expireExecutionIntentsPreSubmissionInTransaction *)
Expire(id) ==
  /\ Exists(id)
  /\ Expirable(intents[id])
  /\ intents' = [intents EXCEPT ![id] = ExpiredRow(@)]
  /\ UNCHANGED <<control, unknownBlock, exposure, live, entry, artifacts, tokens, worker>>

LeaseLapses(id) ==
  /\ intents[id].token # 0 /\ ~intents[id].lapsed
  /\ intents' = [intents EXCEPT ![id].lapsed = TRUE]
  /\ UNCHANGED <<control, unknownBlock, exposure, live, entry, artifacts, tokens, worker>>

IntentExpires(id) ==
  /\ Exists(id)
  /\ ~IsFinal(intents[id]) /\ ~intents[id].expired
  /\ intents' = [intents EXCEPT ![id].expired = TRUE]
  /\ UNCHANGED <<control, unknownBlock, exposure, live, entry, artifacts, tokens, worker>>

(* What may become of a transaction next.  One that was never handed to    *)
(* the network cannot land; its blockhash expires all the same.            *)
Fates(c) ==
  IF c = <<"SENT">> THEN {Landed(o) : o \in LandingOutcomes} \cup {<<"DEAD">>}
  ELSE IF c = <<"UNSENT">> THEN {<<"DEAD">>}
  ELSE {Finalized(o) : o \in {p \in Outcomes : c = Landed(p)}}

Chain(id) ==
  /\ \E n \in 1..Len(artifacts[id]) :
       \E fate \in Fates(artifacts[id][n].chain) :
         artifacts' = [artifacts EXCEPT ![id][n].chain = fate]
  /\ UNCHANGED <<control, unknownBlock, exposure, intents, live, entry, tokens, worker>>

-----------------------------------------------------------------------------
Executor(w) ==
  \/ PrePass(w) \/ RecoverStranded(w) \/ ClaimExecution(w)
  \/ StartProcessing(w) \/ BeginAttempt(w) \/ EvaluationFails(w)
  \/ Authorize(w) \/ PersistSigned(w)
  \/ ResumePersisted(w) \/ RecordSignedSimulation(w) \/ RevokeBeforeSubmission(w)
  \/ BeginSubmission(w) \/ (\E sent, accepted \in BOOLEAN : Send(w, sent, accepted))
  \/ RecordSubmissionOutcome(w)

Recoverer(w) ==
  \/ ClaimConfirmation(w) \/ ObserveSignature(w)
  \/ RecordConfirmation(w) \/ RecordConfirmationExpiry(w)
  \/ ClaimReconciliation(w) \/ StartReads(w) \/ EndReads(w)
  \/ BuyMatched(w) \/ BuyNoEffect(w) \/ BuyUnresolved(w)
  \/ SellMatched(w) \/ SellNoEffect(w) \/ SellUnresolved(w)

Next ==
  \/ \E w \in Executors : Executor(w)
  \/ \E w \in Recoverers : Recoverer(w)
  \/ \E w \in Workers : Finish(w) \/ Crash(w)
  \/ \E mode \in {"ENTRY_STOP", "HARD_STOP"} : SetStop(mode)
  \/ Resume
  \/ \E next \in {"REVOKED", "EXPIRED"} : RevokeEnvelope(next)
  \/ \E b \in Buys : Arm(b) \/ CreateExit(b) \/ ReExit(b)
  \/ \E id \in Ids : Expire(id) \/ LeaseLapses(id) \/ IntentExpires(id) \/ Chain(id)

Spec == Init /\ [][Next]_vars

-----------------------------------------------------------------------------
(* What live execution promises.                                           *)

TypeOK ==
  /\ control \in ControlStates
  /\ unknownBlock \in BOOLEAN
  /\ exposure \in Nat
  /\ intents \in [Ids -> IntentRow]
  /\ live \subseteq Ids
  /\ entry \in [Buys -> EntryRow]
  /\ artifacts \in [Ids -> Seq(ArtifactRow)]
  /\ tokens \in 0..MaxTokens
  /\ worker \in [Workers -> WorkerRow]

(* All signed transactions, as <<intent, attempt>>. *)
Transactions == UNION {{<<id, n>> : n \in 1..Len(artifacts[id])} : id \in Ids}
Artifact(t) == artifacts[t[1]][t[2]]

(* A signed transaction that may still take effect: it is on the network,  *)
(* or it may still be handed to it.                                        *)
MayTakeEffect(a) ==
  \/ a.chain = <<"SENT">>
  \/ /\ a.chain = <<"UNSENT">>
     /\ a.state \in {"PERSISTED", "SIGNED_SIMULATED", "SUBMISSION_STARTED"}

(* At any time at most one signed transaction of the wallet generation may *)
(* still take effect: whatever crashes, is claimed again, retried or       *)
(* re-exited, no second one is signed before the fate of the first is      *)
(* settled.                                                                *)
OneTransactionInFlight ==
  \A s, t \in Transactions : MayTakeEffect(Artifact(s)) /\ MayTakeEffect(Artifact(t)) => s = t

(* A position is sold at most once: when an exit transaction takes effect, *)
(* nothing else was or is signed for that position after it.               *)
NeverSoldTwice ==
  \A s, t \in Transactions :
    (/\ s[1][1] = t[1][1] /\ IsSell(s[1]) /\ IsSell(t[1])
     /\ Artifact(s).chain \in {Landed("LANDED"), Finalized("LANDED")})
    => \/ t[1][2] < s[1][2]
       \/ t[1][2] = s[1][2] /\ t[2] <= s[2]

(* What is given up never takes effect.  A transaction recorded as         *)
(* REVOKED_NO_SEND was never handed to the network and never is; and an    *)
(* exposure reservation is RELEASED (by an operator, by a revocation, by   *)
(* the recovery of a stranded lock or by NO_EFFECT) only when no BUY       *)
(* transaction of that reservation can ever land.                          *)
GivenUpNeverLands ==
  \A t \in Transactions :
    \/ Artifact(t).state = "REVOKED_NO_SEND"
    \/ ~IsSell(t[1]) /\ entry[t[1][1]].reservation = "RELEASED"
    => Artifact(t).chain \in {<<"UNSENT">>, <<"DEAD">>}

IsOpen(b) == entry[b].position \in {"OPEN", "EXIT_PENDING", "UNKNOWN"}
IsReserved(b) == entry[b].reservation \in {"RESERVED", "UNKNOWN_HELD"}

(* execution_wallet_risk_state counts exactly the reservations that are    *)
(* active and the positions that are open, whichever of its nine writers   *)
(* moved it last, and there is at most one: a BUY is not reserved, signed  *)
(* or held unknown while another one is, or while a position is open.      *)
ExposureIsHeld ==
  LET engaged == {b \in Buys : IsReserved(b) \/ IsOpen(b)}
  IN exposure = Cardinality(engaged) /\ exposure <= 1

(* unknown_block is up as long as some effect is unknown: an UNKNOWN_HELD  *)
(* reservation, or evidence that is UNKNOWN or MISMATCH and unresolved.    *)
(* The BUY paths recompute it from reservations alone.                     *)
UnknownEffectBlocks == Held(entry) \/ UnresolvedEvidence(artifacts) => unknownBlock

(* The exit of an open position is never lost: when the current exit SELL  *)
(* is dead, its authorization is ACTIVE again and nothing of it is         *)
(* unsettled, so that createNextReExitIntent may replace it.               *)
DeadExitIsReplaceable ==
  \A b \in Buys :
    (IsOpen(b) /\ entry[b].exit > 0 /\ IsFinal(intents[CurrentExit(b)]))
    => /\ entry[b].position = "EXIT_PENDING"
       /\ entry[b].auth = "ACTIVE"
       /\ \A n \in 1..Len(artifacts[CurrentExit(b)]) :
            artifacts[CurrentExit(b)][n].state \in {"RECONCILED", "REVOKED_NO_SEND"}

=============================================================================
