------------------------------- MODULE JitoBot -------------------------------
(***************************************************************************)
(* The JitoSOL discount bot: it buys JitoSOL below its redemption value,   *)
(* withdraws stake from the pool, deactivates it and claims the SOL, one   *)
(* position at a time.  Everything it has to remember is in one journal    *)
(* file, replaced as a whole and written by the holder of writer.lock.     *)
(* A tick makes one decision, prepares one transaction or polls the one    *)
(* that is pending; every step here ends at an await of the tick.          *)
(* A signature is the index of its transaction in wire, the transactions   *)
(* that were ever signed; stakes are the stake accounts on the chain, by   *)
(* the position they are derived from.                                     *)
(***************************************************************************)
EXTENDS Integers, Sequences, FiniteSets, FiniteSetsExt

CONSTANTS
  Bots,                 (* processes that may run the bot *)
  MaxCycles, MaxTotalFees, NetworkBudget, MaxRealizedLoss,
  Ticket,               (* the input of every position *)
  StakeRent, Principals,(* rent and principal a claim pays back *)
  ReceiptFees,          (* fees a receipt can show; the estimate is 1 *)
  ObservationAge, ConfirmationDelay, ConfirmationGap,
  Validity,             (* block heights a blockhash stays valid *)
  LastHeight            (* bound of the model: the last time *)

VARIABLES journal, writer, bots, wire, stakes, stopFile, height

jitoVars == <<journal, writer, bots, wire, stakes, stopFile, height>>

Missing == [missing |-> TRUE]
Estimate == 1

NewJournal ==
  [status |-> "running", cycles |-> 0, fees |-> 0, profit |-> 0, loss |-> 0,
   confirmation |-> Missing, position |-> Missing, pending |-> Missing,
   transactions |-> {}, completed |-> {}]

HeldPosition(id) == [id |-> id, stage |-> "buy-pending", fees |-> 0, rent |-> 0]

BotDown == [at |-> "down", then |-> "none", state |-> Missing, quote |-> Missing, kind |-> "none", sig |-> 0]

JitoInit ==
  /\ journal = Missing /\ writer = Missing /\ stopFile = FALSE /\ height = 0
  /\ bots = [p \in Bots |-> BotDown]
  /\ wire = << >>
  /\ stakes = [id \in 1..MaxCycles |-> "none"]

-----------------------------------------------------------------------------
(* The journal file *)

Total(S, Amount(_)) == MapThenSumSet(Amount, S)
FeeOf(record) == record.fee
ProfitOf(position) == position.profit
LossOf(position) == IF position.profit < 0 THEN -position.profit ELSE 0

validateJournalState(s) ==
  /\ s.cycles = Cardinality(s.completed)
  /\ s.pending # Missing => s.position # Missing
  /\ s.pending # Missing => \A t \in s.transactions : t.sig # s.pending.sig
  /\ s.fees = Total(s.transactions, FeeOf)
  /\ s.profit = Total(s.completed, ProfitOf) /\ s.loss = Total(s.completed, LossOf)
  /\ s.status = "running" /\ s.position # Missing =>
       (s.position.stage = "buy-pending" => s.pending # Missing /\ s.pending.kind = "buy")

assertOwner(p) == writer = p

Goes(p, b) == bots' = [bots EXCEPT ![p] = b]
BotAt(p, step) == bots[p].at = step
Idles(b) ==
  [b EXCEPT !.at = "idle", !.then = "none", !.state = Missing, !.quote = Missing, !.kind = "none", !.sig = 0]
Closes(b) == [Idles(b) EXCEPT !.at = "closing"]
Saving(b, state, then) == [b EXCEPT !.at = "saving", !.then = then, !.state = state]

(* Writes a temporary file and renames it: the old journal or the new one. *)
Save(p) ==
  /\ BotAt(p, "saving")
  /\ IF assertOwner(p) /\ validateJournalState(bots[p].state)
     THEN /\ journal' = bots[p].state
          /\ Goes(p, CASE bots[p].then = "idle" -> Idles(bots[p])
                       [] bots[p].then = "closing" -> Closes(bots[p])
                       [] OTHER -> [bots[p] EXCEPT !.at = bots[p].then, !.then = "none"])
     ELSE Goes(p, Closes(bots[p])) /\ UNCHANGED journal
  /\ UNCHANGED <<writer, wire, stakes, stopFile, height>>

(* Faulty variant: a halt drops the transaction whose fate it does not know. *)
HaltForgetsPending(b, state) ==
  Saving(b, [state EXCEPT !.status = "halted", !.confirmation = Missing, !.pending = Missing], "closing")

halt(b, state) == Saving(b, [state EXCEPT !.status = "halted", !.confirmation = Missing], "closing")

(* The lock is created exclusively and never stolen.                       *)
OpenStore(p) ==
  /\ BotAt(p, "down") /\ ~stopFile
  /\ writer = Missing
  /\ writer' = p /\ Goes(p, Idles(bots[p]))
  /\ UNCHANGED <<journal, wire, stakes, stopFile, height>>

CloseStore(p) ==
  /\ BotAt(p, "closing")
  /\ writer' = (IF assertOwner(p) THEN Missing ELSE writer)
  /\ Goes(p, BotDown)
  /\ UNCHANGED <<journal, wire, stakes, stopFile, height>>

(* The deadline of the run or a signal ends the loop between two ticks.    *)
LoopEnds(p) ==
  /\ BotAt(p, "idle") /\ Goes(p, Closes(bots[p]))
  /\ UNCHANGED <<journal, writer, wire, stakes, stopFile, height>>

-----------------------------------------------------------------------------
(* Entry: two eligible observations, the second of them later than the     *)
(* delay and from a newer chain context.                                   *)

(* fits: identity, slot gaps, reserve and the required redemption.         *)
fresh(time, now) == time <= now /\ now - time <= ObservationAge
evaluateObservation(o, now) == fresh(o.received, now) /\ fresh(o.observed, now) /\ o.fits

NextId(state) == Cardinality(state.completed) + 1

(* The quote is the first read of an observation, the pool the last one.   *)
getQuote(p) ==
  /\ BotAt(p, "observing")
  /\ \E slot \in {height - 1, height} :
        Goes(p, [bots[p] EXCEPT !.at = "quoted",
                                !.quote = [received |-> height, observed |-> height, slot |-> slot, fits |-> TRUE]])
  /\ UNCHANGED <<journal, writer, wire, stakes, stopFile, height>>

ObserveFails(p) ==
  /\ bots[p].at \in {"observing", "quoted"}
  /\ Goes(p, Saving(bots[p], [bots[p].state EXCEPT !.confirmation = Missing], "idle"))
  /\ UNCHANGED <<journal, writer, wire, stakes, stopFile, height>>

Confirms(first, o) == first # Missing /\ o.observed - first.observed \in 0..ConfirmationGap

enter(b, o) ==
  LET s == b.state first == b.state.confirmation
  IN CASE ~evaluateObservation(o, height) -> Saving(b, [s EXCEPT !.confirmation = Missing], "idle")
       [] evaluateObservation(o, height) /\ ~Confirms(first, o) ->
            Saving(b, [s EXCEPT !.confirmation = [observed |-> o.observed, slot |-> o.slot]], "idle")
       [] OTHER ->
            IF o.observed - first.observed < ConfirmationDelay \/ o.slot <= first.slot THEN Idles(b)
            ELSE [b EXCEPT !.at = "prepare", !.kind = "buy", !.quote = o]

observe(p) ==
  /\ BotAt(p, "quoted")
  /\ \E fits \in BOOLEAN : Goes(p, enter(bots[p], [bots[p].quote EXCEPT !.observed = height, !.fits = fits]))
  /\ UNCHANGED <<journal, writer, wire, stakes, stopFile, height>>

-----------------------------------------------------------------------------
(* Preparation: the gateway builds, simulates and signs; the transaction   *)
(* is in the journal before it is sent.                                    *)

PositionOf(b) == IF b.kind = "buy" THEN HeldPosition(NextId(b.state)) ELSE b.state.position

(* What the plans of the stake pool demand of the chain.                   *)
buildDelayedWithdrawPlan(id) == stakes[id] = "none"
buildDeactivatePlan(id) == stakes[id] = "active"
buildClaimPlan(id) == stakes[id] = "inactive"

Plannable(b) ==
  CASE b.kind = "buy" -> evaluateObservation(b.quote, height)
    [] b.kind = "withdraw" -> buildDelayedWithdrawPlan(PositionOf(b).id)
    [] b.kind = "deactivate" -> buildDeactivatePlan(PositionOf(b).id)
    [] b.kind = "claim" -> buildClaimPlan(PositionOf(b).id)

SignedBytes(b) ==
  [kind |-> b.kind, id |-> PositionOf(b).id, valid |-> height + Validity, state |-> "signed",
   ok |-> FALSE, fee |-> 0, receipt |-> "none", principal |-> 0]

Affordable(b) ==
  /\ b.state.fees + Estimate <= MaxTotalFees
  /\ PositionOf(b).fees + Estimate <= NetworkBudget

PreparedPending(b, sig) ==
  LET expires == IF b.kind = "buy" THEN b.quote.received + ObservationAge ELSE -1
  IN Saving([b EXCEPT !.sig = sig],
            [b.state EXCEPT !.position = PositionOf(b), !.confirmation = Missing,
                            !.pending = [sig |-> sig, kind |-> b.kind, expires |-> expires]],
            "prepared")

StartPreparing(p) ==
  /\ BotAt(p, "prepare")
  /\ Goes(p, IF stopFile THEN Closes(bots[p]) ELSE [bots[p] EXCEPT !.at = "preparing"])
  /\ UNCHANGED <<journal, writer, wire, stakes, stopFile, height>>

prepareTransaction(p) ==
  /\ BotAt(p, "preparing") /\ Plannable(bots[p])
  /\ wire' = Append(wire, SignedBytes(bots[p]))
  /\ Goes(p, IF Affordable(bots[p]) THEN PreparedPending(bots[p], Len(wire) + 1)
             ELSE halt(bots[p], bots[p].state))
  /\ UNCHANGED <<journal, writer, stakes, stopFile, height>>

(* A refused plan or simulation: nothing was signed, the bot halts.        *)
PrepareRejected(p) ==
  /\ BotAt(p, "preparing")
  /\ Goes(p, halt(bots[p], bots[p].state))
  /\ UNCHANGED <<journal, writer, wire, stakes, stopFile, height>>

QuoteExpired(b) == b.state.pending.kind = "buy" /\ height > b.state.pending.expires

broadcast(b) ==
  IF stopFile THEN Closes(b)
  ELSE IF QuoteExpired(b) THEN Idles(b)
  ELSE Saving(b, b.state, "sending")

BroadcastPrepared(p) ==
  /\ BotAt(p, "prepared")
  /\ Goes(p, IF bots[p].kind = "buy" /\ ~evaluateObservation(bots[p].quote, height)
             THEN halt(bots[p], bots[p].state) ELSE broadcast(bots[p]))
  /\ UNCHANGED <<journal, writer, wire, stakes, stopFile, height>>

(* The attempt is in the journal; the stop file and the quote are read     *)
(* once more before the call.                                              *)
SendRaw(p) ==
  /\ BotAt(p, "sending")
  /\ IF stopFile \/ QuoteExpired(bots[p])
     THEN Goes(p, IF stopFile THEN Closes(bots[p]) ELSE Idles(bots[p])) /\ UNCHANGED wire
     ELSE /\ wire' = [wire EXCEPT ![bots[p].state.pending.sig].state = IF @ = "signed" THEN "sent" ELSE @]
          /\ Goes(p, Idles(bots[p]))
  /\ UNCHANGED <<journal, writer, stakes, stopFile, height>>

(* The call fails before or after the node has taken the transaction.      *)
SendFails(p) ==
  /\ BotAt(p, "sending") /\ ~stopFile /\ ~QuoteExpired(bots[p])
  /\ \E taken \in BOOLEAN :
        wire' = [wire EXCEPT ![bots[p].state.pending.sig].state = IF @ = "signed" /\ taken THEN "sent" ELSE @]
  /\ Goes(p, Saving(bots[p], bots[p].state, "idle"))
  /\ UNCHANGED <<journal, writer, stakes, stopFile, height>>

-----------------------------------------------------------------------------
(* Finality of the pending transaction *)

Claimed(tx) == StakeRent + tx.principal
Profit(position, tx) == Claimed(tx) - position.rent - Ticket - position.fees

(* A buy whose receipt is odd spent another input than the authorized one. *)
applyEffects(s, tx) ==
  LET position == s.position profit == Profit(position, tx)
  IN CASE tx.kind = "buy" -> [s EXCEPT !.position.stage = "purchased"]
       [] tx.kind = "withdraw" -> [s EXCEPT !.position.stage = "withdrawn", !.position.rent = StakeRent]
       [] tx.kind = "deactivate" -> [s EXCEPT !.position.stage = "deactivated"]
       [] tx.kind = "claim" ->
            [s EXCEPT !.profit = @ + profit, !.loss = IF profit < 0 THEN @ - profit ELSE @, !.cycles = @ + 1,
                      !.completed = @ \cup {[id |-> position.id, profit |-> profit]}, !.position = Missing]

ReceiptRecorded(s, tx) ==
  [s EXCEPT !.fees = @ + tx.fee, !.position.fees = @ + tx.fee, !.pending = Missing,
            !.transactions = @ \cup {[sig |-> s.pending.sig, fee |-> tx.fee, ok |-> tx.ok]}]

OverBudget(s, position) ==
  s.fees > MaxTotalFees \/ position.fees > NetworkBudget \/ s.loss > MaxRealizedLoss

finalized(b, tx) ==
  LET s == ReceiptRecorded(b.state, tx)
      applied == applyEffects(s, tx)
      complete == applied.position = Missing /\ applied.cycles >= MaxCycles
  IN IF ~tx.ok \/ tx.receipt = "odd" THEN halt(b, s)
     ELSE IF OverBudget(applied, s.position) THEN halt(b, applied)
     ELSE Saving(b, applied, IF complete THEN "closing" ELSE "idle")

PendingBytes(b) == wire[b.state.pending.sig]

(* The status, then the block height of a signature nobody has seen; the   *)
(* receipt of a finalized one may not be there yet.                        *)
poll(p) ==
  /\ BotAt(p, "polling")
  /\ LET b == bots[p] tx == PendingBytes(b)
     IN \/ tx.state \in {"signed", "sent"} /\ Goes(p, [b EXCEPT !.at = "unseen"])
        \/ tx.state \in {"seen", "final"} /\ Goes(p, broadcast(b))
        \/ tx.state = "final" /\ tx.receipt = "bad" /\ Goes(p, halt(b, b.state))
        \/ tx.state = "final" /\ tx.receipt # "bad" /\ Goes(p, finalized(b, tx))
  /\ UNCHANGED <<journal, writer, wire, stakes, stopFile, height>>

PollHeight(p) ==
  /\ BotAt(p, "unseen")
  /\ Goes(p, IF height > PendingBytes(bots[p]).valid THEN halt(bots[p], bots[p].state) ELSE broadcast(bots[p]))
  /\ UNCHANGED <<journal, writer, wire, stakes, stopFile, height>>

PollFails(p) ==
  /\ bots[p].at \in {"polling", "unseen"}
  /\ Goes(p, Idles(bots[p]))
  /\ UNCHANGED <<journal, writer, wire, stakes, stopFile, height>>

-----------------------------------------------------------------------------
(* One tick *)

runTick(b) ==
  LET s == b.state
      advance(kind) == [b EXCEPT !.at = "prepare", !.kind = kind]
  IN CASE s.status = "halted" -> Closes(b)
       [] s.status # "halted" /\ s.pending # Missing -> [b EXCEPT !.at = "polling"]
       [] OTHER ->
            IF s.position = Missing /\ s.cycles >= MaxCycles THEN Closes(b)
            ELSE IF s.loss > MaxRealizedLoss THEN halt(b, s)
            ELSE IF stopFile THEN Closes(b)
            ELSE IF s.position # Missing
            THEN CASE s.position.stage = "purchased" -> advance("withdraw")
                   [] s.position.stage = "withdrawn" -> advance("deactivate")
                   [] s.position.stage = "deactivated" -> [b EXCEPT !.at = "claiming"]
                   [] OTHER -> halt(b, s)
            ELSE IF MaxTotalFees - s.fees < NetworkBudget THEN halt(b, s)
            ELSE [b EXCEPT !.at = "observing"]

botTick(p) ==
  /\ BotAt(p, "idle") /\ assertOwner(p)
  /\ Goes(p, IF journal = Missing THEN Saving(bots[p], NewJournal, "created")
             ELSE runTick([bots[p] EXCEPT !.state = journal]))
  /\ UNCHANGED <<journal, writer, wire, stakes, stopFile, height>>

FirstTick(p) ==
  /\ BotAt(p, "created")
  /\ Goes(p, runTick(bots[p]))
  /\ UNCHANGED <<journal, writer, wire, stakes, stopFile, height>>

(* Only a simulated claim that succeeds shows that the stake is inactive.  *)
(* The answer may be missing or stale, and a stake that holds no more than *)
(* its rent stops the bot.                                                 *)
canClaim(p) ==
  /\ BotAt(p, "claiming")
  /\ LET b == bots[p]
     IN \/ Goes(p, Idles(b))
        \/ /\ buildClaimPlan(b.state.position.id)
           /\ Goes(p, [b EXCEPT !.at = "prepare", !.kind = "claim"]) \/ Goes(p, halt(b, b.state))
  /\ UNCHANGED <<journal, writer, wire, stakes, stopFile, height>>

BotStep(p) ==
  \/ Save(p) \/ OpenStore(p) \/ CloseStore(p) \/ LoopEnds(p) \/ botTick(p) \/ FirstTick(p)
  \/ getQuote(p) \/ observe(p) \/ canClaim(p)
  \/ StartPreparing(p) \/ prepareTransaction(p) \/ BroadcastPrepared(p) \/ SendRaw(p)
  \/ poll(p) \/ PollHeight(p)

-----------------------------------------------------------------------------
(* The chain: a transaction that was sent lands while its blockhash is     *)
(* valid, may vanish with its fork and takes effect once it is finalized.  *)

Needs == [buy |-> {"none"}, withdraw |-> {"none"}, deactivate |-> {"active"}, claim |-> {"inactive"}]
Leaves == [buy |-> "none", withdraw |-> "active", deactivate |-> "cooling", claim |-> "closed"]

Receipts(kind) == IF kind = "buy" THEN {"exact", "odd", "bad"} ELSE {"exact", "bad"}

Lands(sig) ==
  /\ wire[sig].state = "sent" /\ height <= wire[sig].valid
  /\ wire' = [wire EXCEPT ![sig].state = "seen"]
  /\ UNCHANGED <<journal, writer, bots, stakes, stopFile, height>>

ForkVanishes(sig) ==
  /\ wire[sig].state = "seen"
  /\ wire' = [wire EXCEPT ![sig].state = "sent"]
  /\ UNCHANGED <<journal, writer, bots, stakes, stopFile, height>>

Finalizes(sig, ok, fee, receipt, principal) ==
  /\ wire[sig].state = "seen"
  /\ ok => stakes[wire[sig].id] \in Needs[wire[sig].kind]
  /\ wire' = [wire EXCEPT ![sig] = [@ EXCEPT !.state = "final", !.ok = ok, !.fee = fee,
                                              !.receipt = receipt, !.principal = principal]]
  /\ stakes' = (IF ok THEN [stakes EXCEPT ![wire[sig].id] = Leaves[wire[sig].kind]] ELSE stakes)
  /\ UNCHANGED <<journal, writer, bots, stopFile, height>>

FinalizesAsSigned(sig) ==
  \E fee \in ReceiptFees, principal \in (IF wire[sig].kind = "claim" THEN Principals ELSE {0}) :
     Finalizes(sig, TRUE, fee, "exact", principal)

FinalizesOtherwise(sig) ==
  \/ Finalizes(sig, FALSE, Estimate, "exact", 0)
  \/ \E receipt \in Receipts(wire[sig].kind) \ {"exact"} : Finalizes(sig, TRUE, Estimate, receipt, 0)

CoolsDown(id) ==
  /\ stakes[id] = "cooling" /\ stakes' = [stakes EXCEPT ![id] = "inactive"]
  /\ UNCHANGED <<journal, writer, bots, wire, stopFile, height>>

HeightGrows ==
  /\ height < LastHeight /\ height' = height + 1
  /\ UNCHANGED <<journal, writer, bots, wire, stakes, stopFile>>

JitoNext ==
  \/ \E p \in Bots : BotStep(p)
  \/ \E sig \in DOMAIN wire : Lands(sig) \/ FinalizesAsSigned(sig)
  \/ \E id \in DOMAIN stakes : CoolsDown(id)
  \/ HeightGrows

-----------------------------------------------------------------------------
(* What disturbs the bot *)

BotDies(p) ==
  /\ bots[p].at # "down" /\ Goes(p, BotDown)
  /\ UNCHANGED <<journal, writer, wire, stakes, stopFile, height>>

(* The operator removes the lock of a process that is gone.                *)
OperatorUnlocks ==
  /\ writer # Missing /\ bots[writer].at = "down" /\ writer' = Missing
  /\ UNCHANGED <<journal, bots, wire, stakes, stopFile, height>>

OperatorStops ==
  /\ stopFile' = ~stopFile
  /\ UNCHANGED <<journal, writer, bots, wire, stakes, height>>

JitoDisturbed ==
  \/ \E p \in Bots : BotDies(p) \/ ObserveFails(p) \/ PrepareRejected(p) \/ SendFails(p) \/ PollFails(p)
  \/ \E sig \in DOMAIN wire : ForkVanishes(sig) \/ FinalizesOtherwise(sig)
  \/ OperatorStops

-----------------------------------------------------------------------------
(* The journal knows every transaction that may ever take effect: what was *)
(* handed to a node is the pending transaction or recorded with the fee it *)
(* really paid, whatever process died in between; what was bought is not   *)
(* bought again before its cycle is complete; and no state the bot has to  *)
(* write down is refused by the validation of the file.                    *)
Sent == {sig \in DOMAIN wire : wire[sig].state # "signed"}

JournalCoversChain ==
  /\ \A sig \in Sent :
        /\ journal # Missing
        /\ \/ journal.pending # Missing /\ journal.pending.sig = sig
           \/ \E t \in journal.transactions : t.sig = sig /\ wire[sig].state = "final" /\ t.fee = wire[sig].fee
  /\ Cardinality({sig \in Sent : wire[sig].kind = "buy"})
       <= 1 + (IF journal = Missing THEN 0 ELSE journal.cycles)
  /\ \A p \in Bots : BotAt(p, "saving") => validateJournalState(bots[p].state)
=============================================================================
