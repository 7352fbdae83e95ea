-------------------------- MODULE AttemptEvaluation ---------------------------
(***************************************************************************)
(* One execution attempt: the evaluator reads the market through a         *)
(* provider session of bounded calls, quotes, builds and simulates the     *)
(* transaction, renewing its lease at fixed boundaries, signs it when it   *)
(* is a live attempt, and ends with an artifact for the intent or throws.  *)
(* A step is what the evaluator does between two awaits.  The provider's   *)
(* answers, the lease and the clock are the environment's.                 *)
(***************************************************************************)
EXTENDS Integers, Sequences, FiniteSets, FiniteSetsExt

-------------------------------------------------------------------------------
(* The unsigned transaction of an execution attempt, as the two venue      *)
(* adapters build it, the instruction inspector recognises it before it is *)
(* simulated and signed, and the recovery of a signed transaction          *)
(* recognises its bytes after a restart.  An address is known by its role, *)
(* so that derivations and account lists that both sides compute alike     *)
(* are left out; what differs between plans is kept: which instructions    *)
(* surround the trade, the trade's amounts and its optional accounts.      *)

When(condition, s) == IF condition THEN s ELSE <<>>

(* What a build request says of the accounts in the snapshot: balance is   *)
(* that of the user's base account, or NoAccount.                          *)
NoAccount == -1

(* How one build draws its fee recipients: the two hashes, and the mode of *)
(* the coin.                                                               *)
Draws == [fee: 0..2, buyback: 0..2, mayhem: BOOLEAN]

(* recipientList: the lists the on-chain configuration names, disjoint and *)
(* of distinct addresses; Recipients of each instead of the code's eight.  *)
Recipients == 2
recipientList(kind) ==
  CASE kind = "NORMAL" -> <<"normal1", "normal2">>
    [] kind = "RESERVED" -> <<"reserved1", "reserved2">>
    [] OTHER -> <<"buyback1", "buyback2">>

FeeKind(mayhem) == IF mayhem THEN "RESERVED" ELSE "NORMAL"

(* selectRecipient picks by a hash that anyone can compute again, the      *)
(* PumpSwap library by chance.                                             *)
selectRecipient(kind, hash) ==
  [method |-> "HASH", kind |-> kind, hash |-> hash, candidates |-> recipientList(kind),
   index |-> hash % Recipients]
sdkSelection(kind, draw) ==
  [method |-> "SDK_RANDOM", kind |-> kind, hash |-> 0, candidates |-> recipientList(kind),
   index |-> draw % Recipients]
Selected(selection) == selection.candidates[selection.index + 1]

BaseExists(r) == r.balance # NoAccount

(* What the accounts of a snapshot may turn out to be: the mint's program  *)
(* and extensions, the pool and its configuration, the token accounts.     *)
Markets ==
  [mint: {"SPL_TOKEN", "TOKEN_2022", "EXTENDED"}, pool: {"CANONICAL", "OTHER"}, tokens: {"OWN", "OTHER"}]

(* decodeMint: only the extensions that cannot change a transfer pass. *)
decodeMint(market) == market.mint # "EXTENDED"
validateCanonicalMintData(market) == market.mint \in {"SPL_TOKEN", "TOKEN_2022"}
poolProofFrom(market) == market.pool = "CANONICAL"
validatePoolIdentities(market) == market.pool = "CANONICAL" /\ market.tokens = "OWN"

(* validateRequest of each adapter. *)
PumpFunRequest(r, market) == r.venue = "PUMP_FUN" /\ (r.side = "SELL" => BaseExists(r)) /\ market.tokens = "OWN"
PumpSwapRequest(r, market) ==
  /\ r.venue = "PUMP_SWAP" /\ r.side = "SELL"
  /\ validateCanonicalMintData(market) /\ poolProofFrom(market) /\ validatePoolIdentities(market)
  /\ r.balance # NoAccount /\ r.balance >= r.amountIn
Buildable(r, market) == PumpFunRequest(r, market) \/ PumpSwapRequest(r, market)

(* closeBaseAta: the SELL empties the account exactly. *)
closeBaseAta(r) == r.side = "SELL" /\ r.balance = r.amountIn

Plain(kind) == [kind |-> kind, data |-> <<>>, recipients |-> <<>>, tail |-> <<>>]

Trade(p, tail) ==
  [kind |-> <<p.venue, p.side>>,
   data |-> IF p.side = "BUY" THEN <<p.protected, p.amountIn>> ELSE <<p.amountIn, p.protected>>,
   recipients |-> <<Selected(p.fee), Selected(p.buyback)>>, tail |-> tail]

(* What both adapters say of their plan besides the instructions. *)
Plan(r, draw, fee, buyback) ==
  [venue |-> r.venue, side |-> r.side, amountIn |-> r.amountIn, protected |-> r.protected,
   baseExisted |-> BaseExists(r), closeBase |-> r.venue = "PUMP_FUN" /\ closeBaseAta(r),
   quoteExisted |-> r.quoteAta, extend |-> r.extend, cashback |-> r.cashback, creator |-> r.creator,
   mayhem |-> draw.mayhem, fee |-> fee, buyback |-> buyback, instructions |-> <<>>]

buildPumpFunPlan(r, draw) ==
  LET plan == Plan(r, draw, selectRecipient(FeeKind(draw.mayhem), draw.fee), selectRecipient("BUYBACK", draw.buyback))
  IN [plan EXCEPT !.instructions =
        When(r.side = "BUY" /\ ~BaseExists(r), <<Plain("CREATE_BASE")>>)
          \o <<Trade(plan, <<>>)>>
          \o When(closeBaseAta(r), <<Plain("CLOSE_BASE")>>)]

(* The accounts after the fixed ones of a PumpSwap SELL. *)
RemainingRoles(cashback, creator) ==
  When(cashback, <<"VOLUME_QUOTE", "VOLUME">>) \o When(creator, <<"POOL_V2">>)

(* The instructions the PumpSwap library returns for a sale. *)
sellInstructions(plan) ==
  When(plan.extend, <<Plain("EXTEND")>>)
    \o When(~plan.quoteExisted, <<Plain("CREATE_QUOTE")>>)
    \o <<Trade(plan, RemainingRoles(plan.cashback, plan.creator)), Plain("CLOSE_QUOTE")>>

(* What the adapter demands of them. *)
validateInstructions(plan, actual) ==
  LET main == Len(actual) - 1
  IN /\ Len(actual) = (IF plan.extend THEN 1 ELSE 0) + (IF plan.quoteExisted THEN 0 ELSE 1) + 2
     /\ plan.extend => actual[1] = Plain("EXTEND")
     /\ ~plan.quoteExisted => actual[main - 1] = Plain("CREATE_QUOTE")
     /\ actual[main] = Trade(plan, RemainingRoles(plan.cashback, plan.creator))
     /\ actual[main + 1] = Plain("CLOSE_QUOTE")

buildPumpSwapPlan(r, draw) ==
  LET plan == Plan(r, draw, sdkSelection(FeeKind(draw.mayhem), draw.fee), sdkSelection("BUYBACK", draw.buyback))
      actual == sellInstructions(plan)
  IN [plan EXCEPT !.instructions = IF validateInstructions(plan, actual) THEN actual ELSE <<>>]

Built(r, draw) == IF r.venue = "PUMP_FUN" THEN buildPumpFunPlan(r, draw) ELSE buildPumpSwapPlan(r, draw)

-----------------------------------------------------------------------------
(* The inspector.                                                          *)

One(condition) == IF condition THEN 1 ELSE 0

(* A selection is an address of its list, the one the hash designates when *)
(* it was made by hash.                                                    *)
recipientSelectionsFrom(p, selection) ==
  /\ selection.method = (IF p.venue = "PUMP_FUN" THEN "HASH" ELSE "SDK_RANDOM")
  /\ Len(selection.candidates) = Recipients /\ selection.index \in 0..(Recipients - 1)
  /\ selection.method = "HASH" => selection.index = selection.hash % Recipients

validateSelections(p) ==
  /\ recipientSelectionsFrom(p, p.fee) /\ recipientSelectionsFrom(p, p.buyback)
  /\ p.fee.kind = FeeKind(p.mayhem) /\ p.buyback.kind = "BUYBACK"
  /\ \A i, j \in 1..Recipients : p.fee.candidates[i] # p.buyback.candidates[j]

inspectPumpFun(p) ==
  LET setup == p.side = "BUY" /\ ~p.baseExisted
      main == 1 + One(setup)
      close == p.side = "SELL" /\ p.closeBase
  IN /\ p.side = "SELL" => p.baseExisted
     /\ p.side = "BUY" => ~p.closeBase
     /\ Len(p.instructions) = main + One(close)
     /\ setup => p.instructions[1] = Plain("CREATE_BASE")
     /\ close => p.instructions[main + 1] = Plain("CLOSE_BASE")
     /\ p.instructions[main] = Trade(p, <<>>)

inspectPumpSwap(p) ==
  LET main == 1 + One(p.extend) + One(~p.quoteExisted)
  IN /\ p.side = "SELL"
     /\ Len(p.instructions) = main + 1
     /\ p.extend => p.instructions[1] = Plain("EXTEND")
     /\ ~p.quoteExisted => p.instructions[1 + One(p.extend)] = Plain("CREATE_QUOTE")
     /\ p.instructions[main] = Trade(p, RemainingRoles(p.cashback, p.creator))
     /\ p.instructions[main + 1] = Plain("CLOSE_QUOTE")

inspectUnsignedBuildPlan(p) == validateSelections(p) /\ IF p.venue = "PUMP_FUN" THEN inspectPumpFun(p) ELSE inspectPumpSwap(p)

-----------------------------------------------------------------------------
(* The recovery of a signed transaction.  It knows the signed bytes, the   *)
(* venue and side of the artifact, and the amounts of the intent.          *)

envelopeTrade(artifact) ==
  CASE artifact.venue = "PUMP_FUN" /\ artifact.side = "BUY" /\ Len(artifact.bytes) \in 1..2 -> Len(artifact.bytes)
    [] artifact.venue = "PUMP_FUN" /\ artifact.side = "SELL" /\ Len(artifact.bytes) \in 1..2 -> 1
    [] artifact.venue = "PUMP_SWAP" /\ artifact.side = "SELL" /\ Len(artifact.bytes) \in 2..4 -> Len(artifact.bytes) - 1
    [] OTHER -> 0

validatePumpSwapRemainingRoles(artifact, tail) ==
  LET cashback == Len(tail) >= 2 /\ SubSeq(tail, 1, 2) = <<"VOLUME_QUOTE", "VOLUME">>
  IN tail = RemainingRoles(cashback, artifact.creator)

validateEnvelope(artifact, index) ==
  LET bytes == artifact.bytes
  IN IF artifact.venue = "PUMP_FUN"
     THEN /\ index = 2 => bytes[1] = Plain("CREATE_BASE")
          /\ index = 1 /\ Len(bytes) = 2 => bytes[2] = Plain("CLOSE_BASE")
     ELSE /\ bytes[index + 1] = Plain("CLOSE_QUOTE")
          /\ index = 3 => bytes[1] = Plain("EXTEND") /\ bytes[2] = Plain("CREATE_QUOTE")
          /\ index = 2 => bytes[1] \in {Plain("EXTEND"), Plain("CREATE_QUOTE")}

(* The accounts of the trade, by role. *)
validateTradeAccounts(artifact, trade) ==
  /\ trade.kind = <<artifact.venue, artifact.side>>
  /\ artifact.venue = "PUMP_FUN" => trade.tail = <<>>
  /\ artifact.venue = "PUMP_SWAP" => validatePumpSwapRemainingRoles(artifact, trade.tail)

validateRecipientRoleIsolation(trade) == trade.recipients[1] # trade.recipients[2]

(* tradeAccounts, without its comparison of the amounts. *)
EnvelopeRecognised(artifact) ==
  LET index == envelopeTrade(artifact)
  IN /\ index # 0
     /\ validateTradeAccounts(artifact, artifact.bytes[index])
     /\ validateRecipientRoleIsolation(artifact.bytes[index])
     /\ validateEnvelope(artifact, index)

(* The amounts of the recovery context are those of the intent: what it    *)
(* pays and its own minimum.                                               *)
tradeInstructionExpectation(artifact, amountIn, minimum) ==
  LET trade == artifact.bytes[envelopeTrade(artifact)]
  IN trade.data = IF artifact.side = "BUY" THEN <<minimum, amountIn>> ELSE <<amountIn, minimum>>

(* createSignedSimulationRecoveryContext. *)
Resumable(artifact, amountIn, minimum) ==
  EnvelopeRecognised(artifact) /\ tradeInstructionExpectation(artifact, amountIn, minimum)

Signed(p) == [venue |-> p.venue, side |-> p.side, creator |-> p.creator, bytes |-> p.instructions]

-------------------------------------------------------------------------------

CONSTANTS
  MaxCalls,     \* maxRpcCallsPerAttempt
  SlotLag,      \* snapshotMaxSlotLag
  MaxSlot,      \* bound on the slots the provider reports
  Amounts       \* the raw amounts quotes and balances range over

VARIABLES
  session,      \* the provider session: calls used, failed, slots it has fixed
  attempt       \* the evaluator's own state and result

evaluationVars == <<session, attempt>>

Slots == 1..MaxSlot
NoSlot == 0
Retries == 3

NoDraft == [kind |-> "NONE"]
NoRequest == [venue |-> "NONE"]

-----------------------------------------------------------------------------
(* The provider session.                                                   *)

SessionInit ==
  [calls |-> 0, failed |-> FALSE, genesis |-> FALSE, snapshot |-> NoSlot, blockhash |-> NoSlot,
   fee |-> NoSlot, simulation |-> NoSlot]

Transport == {"RPC_RATE_LIMITED", "RPC_UNAVAILABLE", "RPC_RESPONSE_INVALID"}

(* How an exchange that is not answered by a lagging node ends. *)
dispatchOnce == {"none"} \cup Transport

(* dispatch: the number of exchanges and how the last one ended.  A        *)
(* lagging node is asked again within the retries and the budget.          *)
dispatch ==
  IF attempt.aborted THEN {[calls |-> 0, error |-> "OPERATION_ABORTED"]}
  ELSE IF session.failed \/ session.calls >= MaxCalls THEN {[calls |-> 0, error |-> "INVALID_INPUT"]}
  ELSE LET most == Min({Retries, MaxCalls - session.calls})
       IN {[calls |-> k, error |-> last] : k \in 1..most, last \in dispatchOnce}
          \cup {[calls |-> most, error |-> "RPC_UNAVAILABLE"]}

Spent(answer) ==
  [session EXCEPT !.calls = @ + answer.calls,
                  !.failed = @ \/ answer.error \notin {"none", "OPERATION_ABORTED", "INVALID_INPUT"}]
Rejecting(answer) == [Spent(answer) EXCEPT !.failed = TRUE]

blockhashFloor == Max({session.blockhash, session.snapshot})

-----------------------------------------------------------------------------
(* The artifact.  has names the groups of evidence fields that are not     *)
(* null, lines is the number of log lines.                                 *)

QuoteReasons == {"QUOTE_STALE", "QUOTE_MINT_NOT_ALLOWED", "VENUE_UNAVAILABLE", "SELL_QUOTE_UNAVAILABLE",
                 "MINIMUM_AMOUNT_OUT_VIOLATED", "UNSUPPORTED_TOKEN_EXTENSION"}

validateCausalFields(d) ==
  /\ d.calls <= MaxCalls
  /\ "quote" \in d.has => d.protected <= d.expected
  /\ {"snapshot", "blockhash"} \subseteq d.has => d.slots.blockhash >= d.slots.snapshot
  /\ {"snapshot", "fee"} \subseteq d.has => d.slots.fee >= d.slots.snapshot
  /\ {"blockhash", "simulation"} \subseteq d.has => d.slots.simulation >= d.slots.blockhash

Present(kind) ==
  CASE kind = "BUILD_FAILED" -> {"quote", "snapshot"}
    [] kind = "BLOCKHASH_FAILED" -> {"quote", "snapshot", "build"}
    [] kind = "FEE_FAILED" -> {"quote", "snapshot", "build", "blockhash"}
    [] kind = "SIMULATION_FAILED" -> {"quote", "snapshot", "build", "blockhash", "fee"}
    [] kind = "SUCCESS" -> {"quote", "snapshot", "build", "blockhash", "fee", "simulation", "deltas", "logs"}
    [] OTHER -> {}
Nullable(kind) ==
  CASE kind = "QUOTE_FAILED" -> {"snapshot"}
    [] kind = "SIMULATION_FAILED" -> {"simulation", "deltas", "logs"}
    [] OTHER -> {}
StageOf(kind) ==
  CASE kind = "PROVIDER_FAILED" -> "PROVIDER" [] kind = "QUOTE_FAILED" -> "QUOTE" [] kind = "BUILD_FAILED" -> "BUILD"
    [] kind = "BLOCKHASH_FAILED" -> "BLOCKHASH" [] kind = "FEE_FAILED" -> "FEE"
    [] kind = "SIMULATION_FAILED" -> "SIMULATION" [] OTHER -> "NONE"

validateResultShape(d) ==
  /\ d.stage = StageOf(d.kind)
  /\ Present(d.kind) \subseteq d.has /\ d.has \subseteq Present(d.kind) \cup Nullable(d.kind)
  /\ d.kind = "PROVIDER_FAILED" => d.venue = "NONE" /\ (d.code = "GENESIS_MISMATCH" => d.genesis = "OTHER")
  /\ d.kind = "QUOTE_FAILED" => d.genesis # "NONE"
  /\ d.kind \notin {"PROVIDER_FAILED", "QUOTE_FAILED"} => d.venue # "NONE" /\ d.genesis # "NONE"
  /\ d.kind = "SUCCESS" => d.code = "NONE" /\ d.reason = "INTENT_SUCCEEDED"

validateFailureMapping(d) ==
  CASE d.code = "GENESIS_MISMATCH" -> d.stage = "PROVIDER" /\ d.reason = "GENESIS_MISMATCH"
    [] d.code \in {"RPC_RATE_LIMITED", "RPC_UNAVAILABLE"} -> d.reason = "EXECUTION_PROVIDER_FAILED"
    [] d.code \in {"RPC_RESPONSE_INVALID", "SIMULATION_EVIDENCE_INVALID"} -> d.reason = "EXECUTION_EVIDENCE_INVALID"
    [] d.code = "BUILD_POLICY_REJECTED" -> d.stage = "BUILD" /\ d.reason = "EXECUTION_BUILD_FAILED"
    [] d.code = "SIMULATION_PROGRAM_ERROR" ->
         d.stage = "SIMULATION" /\ d.reason \in {"BUY_SIMULATION_FAILED", "SELL_SIMULATION_FAILED"}
    [] OTHER -> d.code = "QUOTE_REJECTED" /\ d.stage = "QUOTE" /\ d.reason \in QuoteReasons

(* The scalar parsers: counts and amounts that are present are positive. *)
scalarsFrom(d) ==
  /\ "logs" \in d.has => d.lines > 0
  /\ "quote" \in d.has => d.expected > 0 /\ d.protected > 0

(* createExecutionSimulationArtifactDraft accepts the draft. *)
Storable(d) ==
  /\ scalarsFrom(d)
  /\ validateCausalFields(d) /\ validateResultShape(d)
  /\ d.kind # "SUCCESS" => validateFailureMapping(d)

-----------------------------------------------------------------------------
(* From an error to an artifact.                                           *)

GenesisSeen == IF session.genesis THEN "EXPECTED" ELSE "NONE"

(* The venue an artifact names: none for a provider failure, also when the *)
(* attempt had already been routed.                                        *)
(* Faulty variant: a provider failure keeps the venue routed before it. *)
effectiveVenueKept(a, kind) == a.venue
effectiveVenue(a, kind) == IF kind = "PROVIDER_FAILED" THEN "NONE" ELSE a.venue

(* failureArtifact: every kind takes the fields of the stages that         *)
(* succeeded before it, and a failed quote the snapshot it was made on;    *)
(* a.has is what the gateway had found when it failed.                     *)
failureArtifact(s, a, kind, code, reason, genesis) ==
  [kind |-> kind, stage |-> StageOf(kind), code |-> code, reason |-> reason,
   venue |-> effectiveVenue(a, kind), genesis |-> genesis,
   has |-> a.has \cap (Present(kind) \cup Nullable(kind)),
   slots |-> [snapshot |-> s.snapshot, blockhash |-> s.blockhash, fee |-> s.fee, simulation |-> s.simulation],
   expected |-> a.expected, protected |-> a.protected, calls |-> s.calls, lines |-> a.lines]

successArtifact(s, a) ==
  [failureArtifact(s, a, "SUCCESS", "NONE", "INTENT_SUCCEEDED", "EXPECTED") EXCEPT !.stage = "NONE"]

GatewayKinds == {"BUILD_FAILED", "BLOCKHASH_FAILED", "FEE_FAILED", "SIMULATION_FAILED"}
gatewayFailure(s, a, stage, code) ==
  failureArtifact(s, a, CHOOSE kind \in GatewayKinds : StageOf(kind) = stage, code,
    CASE code = "SIMULATION_PROGRAM_ERROR" -> IF a.side = "BUY" THEN "BUY_SIMULATION_FAILED" ELSE "SELL_SIMULATION_FAILED"
      [] code = "BUILD_POLICY_REJECTED" -> "EXECUTION_BUILD_FAILED"
      [] code \in {"RPC_RESPONSE_INVALID", "SIMULATION_EVIDENCE_INVALID"} -> "EXECUTION_EVIDENCE_INVALID"
      [] OTHER -> "EXECUTION_PROVIDER_FAILED", "EXPECTED")

providerErrorCode(code) == IF code \in {"INVALID_INPUT", "GENESIS_MISMATCH"} THEN "SIMULATION_EVIDENCE_INVALID" ELSE code

Rethrown == {"INVALID_INPUT", "OPERATION_ABORTED"}

(* Where the evaluator goes with a draft: to the renewals still owed, or,  *)
(* when the draft is not storable, out with the validation error.          *)
Closing(s, a, draft) ==
  /\ session' = s
  /\ attempt' = IF Storable(draft) THEN [a EXCEPT !.pc = "closing", !.draft = draft]
                ELSE [a EXCEPT !.pc = "threw", !.refused = draft]
AttemptThrows(s, a) == session' = s /\ attempt' = [a EXCEPT !.pc = "threw"]

(* failureArtifactOrThrow on an error of the provider session, of the      *)
(* quote, of the build and of the gateway.                                 *)
SessionError(s, a, code) ==
  IF code \in Rethrown THEN AttemptThrows(s, a)
  ELSE Closing(s, a, failureArtifact(s, a, "PROVIDER_FAILED", code,
         CASE code = "GENESIS_MISMATCH" -> "GENESIS_MISMATCH"
           [] code = "RPC_RESPONSE_INVALID" -> "EXECUTION_EVIDENCE_INVALID"
           [] OTHER -> "EXECUTION_PROVIDER_FAILED",
         IF code = "GENESIS_MISMATCH" THEN "OTHER" ELSE GenesisSeen))
quoteFailure(s, a, reason) ==
  Closing(s, a, failureArtifact(s, a, "QUOTE_FAILED",
    IF reason = "EXECUTION_EVIDENCE_INVALID" THEN "RPC_RESPONSE_INVALID" ELSE "QUOTE_REJECTED", reason, GenesisSeen))
GatewayError(s, a, stage, code) ==
  IF code \in Rethrown THEN AttemptThrows(s, a) ELSE Closing(s, a, gatewayFailure(s, a, stage, code))

(* The checks of the gateway that end it at their stage: the snapshot's    *)
(* accounts, the compiled message, the simulation's envelope.              *)
snapshotRejected(s, a) == GatewayError(s, a, "BUILD", "SIMULATION_EVIDENCE_INVALID")
compileRejected(s, a) == GatewayError(s, a, "BLOCKHASH", "RPC_RESPONSE_INVALID")
envelopeRejected(s, a) == GatewayError(s, a, "SIMULATION", "RPC_RESPONSE_INVALID")

-----------------------------------------------------------------------------
(* The evaluation.                                                         *)

Standing(pc) == attempt.pc = pc

verifyGenesis ==
  /\ Standing("genesis")
  /\ \E answer \in dispatch :
       \/ answer.error = "none" /\ session' = [Spent(answer) EXCEPT !.genesis = TRUE]
            /\ attempt' = [attempt EXCEPT !.pc = "discovery"]
       \/ answer.error = "none" /\ SessionError(Rejecting(answer), attempt, "GENESIS_MISMATCH")
       \/ answer.error # "none" /\ SessionError(Spent(answer), attempt, answer.error)

(* readAddressDiscovery and discoveryState. *)
readAddressDiscovery ==
  /\ Standing("discovery")
  /\ \E answer \in dispatch :
       \/ /\ answer.error = "none" /\ session' = Spent(answer)
          /\ \E slot \in Slots : attempt' = [attempt EXCEPT !.pc = "route", !.discovery = slot]
       \/ answer.error = "none" /\ quoteFailure(Spent(answer), attempt, "EXECUTION_EVIDENCE_INVALID")
       \/ answer.error # "none" /\ SessionError(Spent(answer), attempt, answer.error)

(* ExecutionVenueRouter.route: a complete curve sends a SELL to the        *)
(* canonical PumpSwap pool, which the database may not know.               *)
route ==
  /\ Standing("route")
  /\ \/ \E complete \in BOOLEAN :
          /\ ~complete \/ attempt.side = "SELL"
          /\ attempt' = [attempt EXCEPT !.pc = "fence", !.venue = IF complete THEN "PUMP_SWAP" ELSE "PUMP_FUN"]
          /\ UNCHANGED session
     \/ \E reason \in {"VENUE_UNAVAILABLE", "QUOTE_MINT_NOT_ALLOWED", "EXECUTION_EVIDENCE_INVALID"} :
          quoteFailure(session, attempt, reason)
     \/ attempt.side = "SELL" /\ AttemptThrows(session, attempt)

(* renewBoundary: the lease is renewed, or the attempt ends without one. *)
Renewed(a) == [a EXCEPT !.renewals = @ + 1]
Renewing == ~attempt.aborted

beforeCanonicalSnapshot ==
  /\ Standing("fence") /\ UNCHANGED session
  /\ \/ Renewing /\ attempt' = [Renewed(attempt) EXCEPT !.pc = "snapshot"]
     \/ attempt' = [attempt EXCEPT !.pc = "threw"]

(* The build requests a snapshot can lead to; amountIn is 1. *)
AmountIn == 1
pumpFunBuildRequest(a) ==
  [venue: {"PUMP_FUN"}, side: {a.side}, amountIn: {AmountIn}, protected: {a.protected},
   balance: Amounts \cup {NoAccount}, quoteAta: {FALSE}, extend: {FALSE}, cashback: {FALSE}, creator: {FALSE}]
pumpSwapBuildRequest(a) ==
  [venue: {"PUMP_SWAP"}, side: {a.side}, amountIn: {AmountIn}, protected: {a.protected},
   balance: Amounts \cup {NoAccount}, quoteAta: BOOLEAN, extend: BOOLEAN, cashback: BOOLEAN, creator: BOOLEAN]

(* protectedAmountOutRaw: the larger of the intent's minimum and the       *)
(* quote's.                                                                *)
Protected(minimum, quoted) == Max({minimum, quoted})

validateSnapshotProgression(slot) == slot \in attempt.discovery..(attempt.discovery + SlotLag)

Snapped(slot) == [attempt EXCEPT !.snapshot = slot, !.has = @ \cup {"snapshot"}]

executionQuote(a, expected, protected) ==
  [a EXCEPT !.expected = expected, !.protected = protected, !.has = @ \cup {"quote"}]

(* The quote of one snapshot, its freshness, and the build. *)
Quoted(s, a, market) ==
  \E expected \in Amounts : \E quoted \in 1..expected :
    LET protected == Protected(a.minimum, quoted)
        q == executionQuote(a, expected, protected)
    IN \/ protected > expected /\ quoteFailure(s, a, "MINIMUM_AMOUNT_OUT_VIOLATED")
       \/ protected <= expected /\ ~a.fresh /\ quoteFailure(s, q, "QUOTE_STALE")
       \/ /\ protected <= expected /\ a.fresh
          /\ \E r \in IF q.venue = "PUMP_FUN" THEN pumpFunBuildRequest(q) ELSE pumpSwapBuildRequest(q) :
               \/ IF Buildable(r, market)
                  THEN session' = s /\ attempt' = [q EXCEPT !.pc = "fence2", !.request = r]
                  ELSE Closing(s, q, gatewayFailure(s, q, "BUILD", "BUILD_POLICY_REJECTED"))
               \/ BaseExists(r) /\ r.venue = "PUMP_FUN" /\ AttemptThrows(s, q)

(* computePumpFunExecutionQuote or createPumpSwapQuote, up to its result. *)
QuoteRefusals(a, market) ==
  {"EXECUTION_EVIDENCE_INVALID", "SELL_QUOTE_UNAVAILABLE"}
    \cup (IF decodeMint(market) THEN {} ELSE {"UNSUPPORTED_TOKEN_EXTENSION"})

readAccountSnapshot ==
  /\ Standing("snapshot")
  /\ \E answer \in dispatch :
       \/ answer.error # "none" /\ SessionError(Spent(answer), attempt, answer.error)
       \/ /\ answer.error = "none"
          /\ \E slot \in Slots :
               LET s == [Spent(answer) EXCEPT !.snapshot = slot]
                   a == Snapped(slot)
               IN \/ ~validateSnapshotProgression(slot)
                       /\ quoteFailure(s, a, "EXECUTION_EVIDENCE_INVALID")
                  \/ /\ validateSnapshotProgression(slot)
                     /\ \E market \in Markets :
                          \/ \E reason \in QuoteRefusals(a, market) : quoteFailure(s, a, reason)
                          \/ decodeMint(market) /\ Quoted(s, a, market)

(* The second renewal, the freshness of the quote, and what the gateway    *)
(* does before its first call.                                             *)
beforeSimulation ==
  LET a == Renewed(attempt)
      recognised == \A draw \in Draws : inspectUnsignedBuildPlan(Built(attempt.request, draw))
  IN /\ Standing("fence2")
     /\ \/ AttemptThrows(session, attempt)
        \/ Renewing /\ ~a.fresh /\ quoteFailure(session, a, "QUOTE_STALE")
        \/ Renewing /\ a.fresh /\ snapshotRejected(session, a)
        \/ /\ Renewing /\ a.fresh
           /\ IF recognised
              THEN UNCHANGED session /\ attempt' = [a EXCEPT !.pc = "blockhash", !.has = @ \cup {"build"}]
              ELSE GatewayError(session, a, "BUILD", "BUILD_POLICY_REJECTED")

(* getLatestBlockhash, and the compilation of the message.                 *)
getLatestBlockhash ==
  /\ Standing("blockhash")
  /\ \E answer \in dispatch :
       \/ answer.error # "none" /\ GatewayError(Spent(answer), attempt, "BLOCKHASH", providerErrorCode(answer.error))
       \/ answer.error = "none" /\ \E slot \in Slots :
            LET s == [Spent(answer) EXCEPT !.blockhash = slot]
            IN \/ slot \notin session.snapshot..(session.snapshot + SlotLag)
                    /\ GatewayError(Rejecting(answer), attempt, "BLOCKHASH", "RPC_RESPONSE_INVALID")
               \/ slot \in session.snapshot..(session.snapshot + SlotLag)
                    /\ compileRejected(s, attempt)
               \/ /\ slot \in session.snapshot..(session.snapshot + SlotLag)
                  /\ session' = s
                  /\ attempt' = [attempt EXCEPT !.pc = "fee", !.has = @ \cup {"blockhash"}]

getFeeForMessage ==
  /\ Standing("fee")
  /\ \E answer \in dispatch :
       \/ answer.error # "none" /\ GatewayError(Spent(answer), attempt, "FEE", providerErrorCode(answer.error))
       \/ answer.error = "none" /\ \E slot \in Slots :
            LET s == [Spent(answer) EXCEPT !.fee = slot]
            IN \/ slot < blockhashFloor /\ GatewayError(Rejecting(answer), attempt, "FEE", "RPC_RESPONSE_INVALID")
               \/ slot >= blockhashFloor /\ GatewayError(s, attempt, "FEE", "SIMULATION_EVIDENCE_INVALID")
               \/ /\ slot >= blockhashFloor /\ session' = s
                  /\ attempt' = [attempt EXCEPT !.pc = "simulate", !.has = @ \cup {"fee"}]

(* programFailureEvidence: the logs and the balances may be missing. *)
programFailureEvidence(a) ==
  {[a EXCEPT !.has = @ \cup {"simulation"} \cup deltas \cup (IF lines < 0 THEN {} ELSE {"logs"}),
             !.lines = Max({lines, 0})] :
     deltas \in {{}, {"deltas"}}, lines \in {-1, 0, 1}}

(* simulationEvidence: nothing may be missing, and the economics must hold. *)
simulationEvidence(a) ==
  {[a EXCEPT !.has = @ \cup {"simulation", "deltas", "logs"}, !.lines = lines] : lines \in {0, 1}}

(* simulationOnlyTerminal or liveTerminal. *)
Terminal(a) == IF a.live THEN "sign" ELSE "finish"

simulateUnsignedTransaction ==
  /\ Standing("simulate")
  /\ \E answer \in dispatch :
       \/ answer.error # "none" /\ GatewayError(Spent(answer), attempt, "SIMULATION", providerErrorCode(answer.error))
       \/ answer.error = "none" /\ \E slot \in Slots :
            LET s == [Spent(answer) EXCEPT !.simulation = slot]
            IN \/ slot < blockhashFloor /\ GatewayError(Rejecting(answer), attempt, "SIMULATION", "RPC_RESPONSE_INVALID")
               \/ slot >= blockhashFloor /\ envelopeRejected(s, attempt)
               \/ slot >= blockhashFloor /\ \E a \in programFailureEvidence(attempt) :
                    GatewayError(s, a, "SIMULATION", "SIMULATION_PROGRAM_ERROR")
               \/ /\ slot >= blockhashFloor /\ session' = s
                  /\ \E a \in simulationEvidence(attempt) :
                       attempt' = [a EXCEPT !.pc = Terminal(a)]

(* LiveTransactionPreparer.prepare after the simulation: the plan is       *)
(* inspected and compiled again, the lease and the exact authorization are *)
(* asked for before the signature; any refusal leaves the evaluator.       *)
prepare ==
  /\ Standing("sign") /\ UNCHANGED session
  /\ \/ ~attempt.aborted
          /\ attempt' = [attempt EXCEPT !.pc = "finish", !.signed = TRUE]
     \/ attempt' = [attempt EXCEPT !.pc = "threw"]

(* The end of completeSuccessfulEvaluation. *)
completeSuccessfulEvaluation ==
  /\ Standing("finish")
  /\ \/ ~attempt.fresh /\ quoteFailure(session, [attempt EXCEPT !.signed = FALSE], "QUOTE_STALE")
     \/ /\ attempt.fresh /\ UNCHANGED session
        /\ LET draft == successArtifact(session, attempt)
           IN attempt' = IF Storable(draft) THEN [attempt EXCEPT !.pc = "done", !.draft = draft]
                         ELSE [attempt EXCEPT !.pc = "threw", !.refused = draft, !.signed = FALSE]

(* liveEvaluationResult: a candidate comes with a success, and with        *)
(* nothing else.                                                           *)
liveEvaluationResult(a) ==
  IF a.signed # (a.draft.kind = "SUCCESS") THEN "THROWS" ELSE IF a.signed THEN "SUCCESS" ELSE "FAILURE"

(* The renewals an artifact still owes when it is a failure. *)
RenewalsOwed(a) == a.renewals < 2

completeTerminalRenewals ==
  /\ Standing("closing") /\ UNCHANGED session
  /\ \/ ~RenewalsOwed(attempt) /\ attempt' = [attempt EXCEPT !.pc = "done"]
     \/ RenewalsOwed(attempt) /\ Renewing /\ attempt' = Renewed(attempt)
     \/ RenewalsOwed(attempt) /\ attempt' = [attempt EXCEPT !.pc = "threw"]

(* The signal of the worker aborts; the quote or the intent expires. *)
Running == attempt.pc \notin {"done", "threw"}
AbortAttempt == Running /\ ~attempt.aborted /\ attempt' = [attempt EXCEPT !.aborted = TRUE] /\ UNCHANGED session
QuoteExpires == Running /\ attempt.fresh /\ attempt' = [attempt EXCEPT !.fresh = FALSE] /\ UNCHANGED session

NewAttempt(side, live, minimum) ==
  [pc |-> "genesis", side |-> side, live |-> live, minimum |-> minimum,
   venue |-> "NONE", discovery |-> NoSlot, snapshot |-> NoSlot, expected |-> 0, protected |-> 0,
   request |-> NoRequest, renewals |-> 0, has |-> {}, lines |-> 0, signed |-> FALSE,
   draft |-> NoDraft, refused |-> NoDraft, aborted |-> FALSE, fresh |-> TRUE]

EvaluationInit ==
  /\ session = SessionInit
  /\ \E side \in {"BUY", "SELL"}, live \in BOOLEAN, minimum \in Amounts : attempt = NewAttempt(side, live, minimum)

EvaluationNext ==
  \/ verifyGenesis \/ readAddressDiscovery \/ route \/ beforeCanonicalSnapshot
  \/ readAccountSnapshot \/ beforeSimulation \/ getLatestBlockhash \/ getFeeForMessage
  \/ simulateUnsignedTransaction \/ prepare \/ completeSuccessfulEvaluation
  \/ completeTerminalRenewals \/ AbortAttempt \/ QuoteExpires

EvaluationSpec == EvaluationInit /\ [][EvaluationNext]_evaluationVars

-----------------------------------------------------------------------------
(* The only draft the domain refuses is one whose simulation returned an   *)
(* empty list of log lines: whatever fails, and wherever, the evaluator's  *)
(* artifact satisfies createExecutionSimulationArtifactDraft, so that the  *)
(* attempt is recorded instead of being thrown away.  An attempt that ends *)
(* with an artifact has renewed its lease at both boundaries, and a live   *)
(* one carries a signed candidate exactly when it is a success: what was   *)
(* signed on a quote that expired meanwhile is dropped with its attempt.   *)
DraftsAreStorable ==
  /\ attempt.refused # NoDraft => "logs" \in attempt.refused.has /\ attempt.refused.lines = 0
  /\ Standing("done") =>
       /\ attempt.renewals = 2 /\ attempt.draft # NoDraft
       /\ attempt.live => liveEvaluationResult(attempt) # "THROWS"

(* A transaction that was signed can be resumed after a restart from its   *)
(* PERSISTED state: the recovery context, built from the intent and the    *)
(* signed bytes, accepts them.                                             *)
SignedCanBeResumed ==
  attempt.signed =>
    LET artifact == Signed(Built(attempt.request, [fee |-> 0, buyback |-> 1, mayhem |-> FALSE]))
    IN Resumable(artifact, AmountIn, attempt.minimum)

===============================================================================
