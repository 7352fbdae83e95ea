------------------------------- MODULE FastEntry -------------------------------
(***************************************************************************)
(* The fast entry: the pipeline that recorded a launch decides at once, by *)
(* an envelope with capacity and a pair of quotes, whether an intent to    *)
(* buy is written.  Without an envelope a probe, an intent that can never  *)
(* be armed, is written at most once per interval.                         *)
(*                                                                         *)
(* Several listener processes observe the same launches; each await of     *)
(* DefaultFastEntryService is a step of its own.                           *)
(***************************************************************************)
EXTENDS Naturals, FiniteSets

CONSTANTS
  Mints,          \* launches that are observed
  Listeners,      \* processes; each has its own clock of probe attempts
  Interval,       \* FAST_ENTRY_PROBE_INTERVAL
  CreateAge,      \* FAST_ENTRY_MAX_CREATE_AGE_MS
  MaxTime         \* bound of the clock

VARIABLES
  entryTime,
  launches,       \* by mint: status, when it was first observed, its quote and creator
  funding,        \* an envelope that is ACTIVE, and whether it has capacity
  entries,        \* by mint: the row of entry_decisions
  fastIntents,    \* intents written: strategy, mint, requested at
  decider         \* by listener: what processMint has in hand

fastEntryVars == <<entryTime, launches, funding, entries, fastIntents, decider>>

Undecided == [decision |-> "none", reason |-> "none"]
Rejected(reason) == [decision |-> "REJECTED", reason |-> reason]
Bought == [decision |-> "BUY", reason |-> "none"]

FundingStates == {"none", "full", "open"}

Idling == [step |-> "idle", mint |-> "none", reason |-> "none", at |-> 0, last |-> 0, probed |-> FALSE]

FastEntryInit ==
  /\ entryTime = 0
  /\ launches = [k \in Mints |-> [status |-> "unseen", observed |-> 0, native |-> TRUE, sold |-> FALSE]]
  /\ funding \in FundingStates
  /\ entries = [k \in Mints |-> Undecided]
  /\ fastIntents = {}
  /\ decider = [l \in Listeners |-> Idling]

-----------------------------------------------------------------------------
Move(l, step) == decider' = [decider EXCEPT ![l].step = step]
Rest(l) == decider' = [decider EXCEPT ![l] = [Idling EXCEPT !.last = decider[l].last, !.probed = decider[l].probed]]
Reject(l, reason) == decider' = [decider EXCEPT ![l].step = "reject", ![l].reason = reason]
Hand(l) == decider[l]

(* No decision yet, the launch event stands, and it is young enough. *)
readLaunchForSignature(k) == launches[k].status = "standing" /\ entries[k] = Undecided
YoungEnough(k) == entryTime - launches[k].observed <= CreateAge

ProcessMint(l, k) ==
  /\ Hand(l).step = "idle" /\ readLaunchForSignature(k) /\ YoungEnough(k)
  /\ decider' = [decider EXCEPT ![l].step = "envelope", ![l].mint = k]
  /\ UNCHANGED <<entryTime, launches, funding, entries, fastIntents>>

precheckFastEntry(k) ==
  IF ~launches[k].native THEN "UNSUPPORTED_QUOTE_MINT"
  ELSE IF launches[k].sold THEN "CREATOR_ALREADY_SOLD"
  ELSE IF funding # "open" THEN "NO_ENVELOPE_CAPACITY" ELSE "none"

(* INSERT ... ON CONFLICT (mint) DO NOTHING: RECORDED if there was no row. *)
Recorded(k) == entries[k] = Undecided

insertDecision(k, row) == entries' = IF Recorded(k) THEN [entries EXCEPT ![k] = row] ELSE entries

(* The envelope is read, and the checks without RPC are made. *)
Precheck(l) ==
  /\ Hand(l).step = "envelope"
  /\ LET reason == precheckFastEntry(Hand(l).mint)
     IN IF reason = "none" THEN Move(l, "quotes") ELSE Reject(l, reason)
  /\ UNCHANGED <<entryTime, launches, funding, entries, fastIntents>>

(* Both quotes; they fail, lose too much, or are good. *)
ReadQuotes(l) ==
  /\ Hand(l).step = "quotes"
  /\ \/ \E reason \in {"QUOTE_UNAVAILABLE", "ROUND_TRIP_LOSS_EXCEEDED"} : Reject(l, reason)
     \/ decider' = [decider EXCEPT ![l].step = "buy", ![l].at = entryTime]
  /\ UNCHANGED <<entryTime, launches, funding, entries, fastIntents>>

(* A rejection is recorded; the one that was for want of an envelope goes  *)
(* on to the probe, if the decision is this listener's.                    *)
recordRejection(l) ==
  /\ Hand(l).step = "reject"
  /\ LET k == Hand(l).mint
         probes == Recorded(k) /\ Hand(l).reason = "NO_ENVELOPE_CAPACITY"
     IN /\ insertDecision(k, Rejected(Hand(l).reason))
        /\ IF probes THEN Move(l, "probe") ELSE Rest(l)
  /\ UNCHANGED <<entryTime, launches, funding, fastIntents>>

FastIntent(strategy, k, at) == [strategy |-> strategy, mint |-> k, at |-> at]

(* Faulty variant: the intent is committed before the decision is inserted. *)
BuyBeforeDecision(l) ==
  /\ Hand(l).step = "buy"
  /\ LET k == Hand(l).mint IN
     /\ insertDecision(k, Bought)
     /\ fastIntents' = fastIntents \cup {FastIntent("fast-entry-v1", k, Hand(l).at)}
  /\ Rest(l) /\ UNCHANGED <<entryTime, launches, funding>>

(* One transaction: the event, the intent and the decision.  A decision    *)
(* that exists, or that is committed meanwhile, leaves nothing behind.     *)
recordBuy(l) ==
  /\ Hand(l).step = "buy"
  /\ LET k == Hand(l).mint IN
     /\ insertDecision(k, Bought)
     /\ fastIntents' = IF Recorded(k) THEN fastIntents \cup {FastIntent("fast-entry-v1", k, Hand(l).at)}
                       ELSE fastIntents
  /\ Rest(l) /\ UNCHANGED <<entryTime, launches, funding>>

-----------------------------------------------------------------------------
(* The probe *)

Probes == {i \in fastIntents : i.strategy = "fast-entry-probe-v1"}

(* At most one attempt per interval in this process; then the quote. *)
AttemptDue(l) == ~Hand(l).probed \/ entryTime - Hand(l).last >= Interval

ProbeAttempt(l) ==
  /\ Hand(l).step = "probe"
  /\ IF AttemptDue(l)
     THEN decider' = [decider EXCEPT ![l].last = entryTime, ![l].probed = TRUE, ![l].step = "probeQuote"]
     ELSE Rest(l)
  /\ UNCHANGED <<entryTime, launches, funding, entries, fastIntents>>

ProbeQuote(l) ==
  /\ Hand(l).step = "probeQuote"
  /\ Rest(l) \/ decider' = [decider EXCEPT ![l].step = "recordProbe", ![l].at = entryTime]
  /\ UNCHANGED <<entryTime, launches, funding, entries, fastIntents>>

(* Under the probe lock: no envelope is ACTIVE and no probe was requested  *)
(* after the start of the interval that ends with this one.                *)
ProbeDue(at) == funding = "none" /\ \A i \in Probes : i.at + Interval <= at

recordProbe(l) ==
  /\ Hand(l).step = "recordProbe"
  /\ fastIntents' = IF ProbeDue(Hand(l).at)
                    THEN fastIntents \cup {FastIntent("fast-entry-probe-v1", Hand(l).mint, Hand(l).at)}
                    ELSE fastIntents
  /\ Rest(l) /\ UNCHANGED <<entryTime, launches, funding, entries>>

-----------------------------------------------------------------------------
(* The surroundings: time, the envelopes, launches that appear or are      *)
(* orphaned, and a listener that restarts and forgets its last attempt.    *)
ListenerRestarts(l) ==
  /\ decider' = [decider EXCEPT ![l] = Idling]
  /\ UNCHANGED <<entryTime, launches, funding, entries, fastIntents>>

EntryTick ==
  /\ entryTime < MaxTime /\ entryTime' = entryTime + 1
  /\ UNCHANGED <<launches, funding, entries, fastIntents, decider>>

FundingChanges ==
  /\ funding' \in FundingStates \ {funding}
  /\ UNCHANGED <<entryTime, launches, entries, fastIntents, decider>>

LaunchAppears(k) ==
  /\ launches[k].status = "unseen"
  /\ \E native, sold \in BOOLEAN :
       launches' = [launches EXCEPT ![k] = [status |-> "standing", observed |-> entryTime,
                                            native |-> native, sold |-> sold]]
  /\ UNCHANGED <<entryTime, funding, entries, fastIntents, decider>>

LaunchOrphaned(k) ==
  /\ launches[k].status = "standing" /\ launches' = [launches EXCEPT ![k].status = "orphaned"]
  /\ UNCHANGED <<entryTime, funding, entries, fastIntents, decider>>

FastEntryNext ==
  \/ EntryTick
  \/ \E k \in Mints : LaunchAppears(k)
  \/ \E l \in Listeners :
       \/ \E k \in Mints : ProcessMint(l, k)
       \/ Precheck(l) \/ ReadQuotes(l) \/ recordRejection(l) \/ recordBuy(l)
       \/ ProbeAttempt(l) \/ ProbeQuote(l) \/ recordProbe(l)

FastEntryDisturbed ==
  \/ FundingChanges
  \/ \E k \in Mints : LaunchOrphaned(k)
  \/ \E l \in Listeners : ListenerRestarts(l)

-----------------------------------------------------------------------------
(* However many listeners decide the same launch, a mint has one intent to *)
(* buy exactly when its decision is BUY; a probe is written only for a     *)
(* mint that was rejected for want of an envelope, and two probes are      *)
(* requested at least an interval apart, across listeners and restarts.    *)
EntriesAreSingle ==
  /\ \A k \in Mints :
       LET buys == {i \in fastIntents \ Probes : i.mint = k}
       IN Cardinality(buys) = IF entries[k] = Bought THEN 1 ELSE 0
  /\ \A i \in Probes : entries[i.mint] = Rejected("NO_ENVELOPE_CAPACITY")
  /\ \A i, j \in Probes : i # j => i.at + Interval <= j.at \/ j.at + Interval <= i.at
===============================================================================
