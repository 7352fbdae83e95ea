----------------------------- MODULE EntryArming ------------------------------
(***************************************************************************)
(* The control plane of live entries for one wallet generation: the        *)
(* operator stops, resumes, creates and revokes envelopes; the auto-arm    *)
(* daemon arms pending fast-entry BUYs inside the active envelope and      *)
(* carries the provider's usage forward; the executor locks an armament    *)
(* and the recovery ends it.  Every repository call runs in one            *)
(* transaction under the generation lock; between two calls of the daemon  *)
(* or of the operator anything may happen.                                 *)
(***************************************************************************)
EXTENDS Integers, Sequences, FiniteSets, FiniteSetsExt

-------------------------------------------------------------------------------
(* The risk state of one wallet generation and the usage ledger of its     *)
(* provider: technical faults and the reconciled successes that clear      *)
(* them, the current usage snapshot with the operations counted since, the *)
(* 429 answers, and the admission that a BUY needs.  Amounts are counted   *)
(* in provider units; one billing period.                                  *)

CONSTANTS
  MaxClock,          \* bound on the database clock
  FaultIds,          \* fault_id values
  MaxFailures,       \* maximumConsecutiveTechnicalFailures (the policy fixes 2)
  LimitUnits, EntryCostUnits,
  ProtectedUnits,    \* exit, confirmation and reconciliation of one open position
  MarginUnits,       \* providerSafetyMarginUnits
  UsageMaxAge,       \* providerUsageMaxAgeMs
  RateLimitWindow, RateLimitThreshold,
  MaxOperations,     \* bound on the recorded provider operations
  NoOperation

VARIABLES
  clock,       \* statement_timestamp() of the database, in ticks
  risk,        \* execution_wallet_risk_state
  faults,      \* execution_fault_ledger: the faults
  successes,   \* execution_fault_ledger: finalized_at of the reconciled successes
  usage,       \* the current row of execution_provider_usage_snapshots
  counters,    \* execution_provider_usage_counters
  operation,   \* a counter inserted under the provider lock and not committed yet
  rateLimits   \* execution_provider_rate_limit_events

riskVars == <<clock, risk, faults, successes, usage, counters, operation, rateLimits>>

Times == 0..MaxClock

Snapshots == {s \in [used : 0..LimitUnits, measured : Times, expires : Nat] :
                s.measured < s.expires /\ s.expires <= s.measured + UsageMaxAge}

RiskInit ==
  /\ clock = 0
  /\ risk = [revision |-> 0, open |-> 0, failures |-> 0, unknown |-> FALSE]
  /\ faults = {} /\ successes = {}
  /\ usage = [used |-> 0, measured |-> 0, expires |-> UsageMaxAge]
  /\ counters = {} /\ operation = NoOperation /\ rateLimits = {}

(***************************************************************************)
(* Faults.  A fault kind is a stage before or after the signature with its *)
(* classification; validateCombination leaves out the impossible ones.     *)
(***************************************************************************)
Stages == {"BUILD", "SIMULATION", "VALIDATION", "POLICY", "SUBMISSION", "CONFIRMATION",
           "RECONCILIATION"}

Classifications == {"TRANSIENT", "DETERMINISTIC", "CRITICAL", "AMBIGUOUS", "PROVED_NO_EFFECT"}

ValidCombination(f) ==
  IF f.signed
  THEN /\ f.stage \in {"SUBMISSION", "CONFIRMATION", "RECONCILIATION"}
       /\ f.class = "PROVED_NO_EFFECT" => f.stage = "RECONCILIATION"
  ELSE /\ f.stage \in {"BUILD", "SIMULATION", "VALIDATION", "POLICY"}
       /\ f.class \notin {"AMBIGUOUS", "PROVED_NO_EFFECT"}
       /\ ~f.bytes

FaultKinds == {f \in [stage : Stages, side : {"BUY", "SELL"}, signed : BOOLEAN,
                      class : Classifications, bytes : BOOLEAN] : ValidCombination(f)}

classifyExecutionFault(f, failures) ==
  CASE f.class = "PROVED_NO_EFFECT" ->
         IF f.side = "SELL" THEN "RETRY_PRE_SIGNATURE" ELSE "DO_NOT_RETRY"
    [] f.class = "DETERMINISTIC" -> "DO_NOT_RETRY"
    [] f.class = "CRITICAL" -> IF f.signed THEN "RECONCILE_ONLY" ELSE "DO_NOT_RETRY"
    [] f.class \in {"TRANSIENT", "AMBIGUOUS"} /\ f.signed ->
         IF /\ f.stage = "SUBMISSION" /\ f.side = "SELL"
            /\ f.class = "TRANSIENT" /\ f.bytes
         THEN "RETRY_EXACT_BYTES" ELSE "RECONCILE_ONLY"
    [] OTHER -> IF failures >= MaxFailures THEN "DO_NOT_RETRY" ELSE "RETRY_PRE_SIGNATURE"

Technical == {f \in faults : f.technical}

(* A fault is recorded once; a second delivery of it changes nothing.      *)
recordFault(id, at, technical, kind) ==
  LET failures == risk.failures + (IF technical THEN 1 ELSE 0)
      fault == [id |-> id, at |-> at, technical |-> technical,
                retry |-> classifyExecutionFault(kind, failures)]
  IN  /\ at <= clock
      /\ \A f \in faults : f.id # id
      /\ faults' = faults \cup {fault}
      /\ risk' = IF technical
                 THEN [risk EXCEPT !.failures = failures, !.revision = @ + 1] ELSE risk
      /\ UNCHANGED <<clock, successes, usage, counters, operation, rateLimits>>

(* While faults count, a success clears them only if it was final after    *)
(* the latest of them.                                                     *)
Clears(at) == risk.failures > 0 => \A f \in Technical : at > f.at

recordReconciledSuccess(at) ==
  /\ at <= clock /\ at \notin successes
  /\ Clears(at)
  /\ successes' = successes \cup {at}
  /\ risk' = [risk EXCEPT !.failures = 0, !.revision = @ + 1]
  /\ UNCHANGED <<clock, faults, usage, counters, operation, rateLimits>>

(***************************************************************************)
(* Provider usage.                                                         *)
(***************************************************************************)
Units(S) == MapThenSumSet(LAMBDA c : c.units, S)

NewCounter(units) == [id |-> Cardinality(counters) + 1, at |-> clock, units |-> units]

(* Recording an operation takes the provider lock, stamps the counter with *)
(* the time of the insert, and shows it to others only at its commit.      *)
BeginOperation ==
  /\ operation = NoOperation
  /\ Cardinality(counters) < MaxOperations
  /\ operation' = NewCounter(1)
  /\ UNCHANGED <<clock, risk, faults, successes, usage, counters, rateLimits>>

CommitOperation ==
  /\ operation # NoOperation
  /\ counters' = counters \cup {operation}
  /\ operation' = NoOperation
  /\ UNCHANGED <<clock, risk, faults, successes, usage, rateLimits>>

AbortOperation ==
  /\ operation # NoOperation
  /\ operation' = NoOperation
  /\ UNCHANGED <<clock, risk, faults, successes, usage, counters, rateLimits>>

recordRateLimit ==
  /\ rateLimits' = rateLimits \cup {clock}
  /\ UNCHANGED <<clock, risk, faults, successes, usage, counters, operation>>

LocalUnits(until) == Units({c \in counters : c.at >= usage.measured /\ c.at < until})

AllLocalUnits == LocalUnits(MaxClock + 1)

(* appendProviderUsageInTransaction: within one billing period a snapshot  *)
(* is later than the current one and never lowers what was used.           *)
Appendable(s) == s.measured > usage.measured /\ s.used >= usage.used /\ s.used <= LimitUnits

(***************************************************************************)
(* Admission of a BUY.                                                     *)
(***************************************************************************)
evaluateProviderQuota(s, local, open) ==
  LET remaining == LimitUnits - s.used - local
      protected == ProtectedUnits * open + MarginUnits
      limited == Cardinality({t \in rateLimits : t >= clock - RateLimitWindow})
  IN  CASE clock > s.expires \/ clock > s.measured + UsageMaxAge -> "UNKNOWN"
        [] remaining < protected -> "EXIT_ONLY"
        [] limited >= RateLimitThreshold \/ remaining - EntryCostUnits < protected ->
             "ENTRY_BLOCKED"
        [] OTHER -> "NORMAL"

evaluateBuyRisk(open) == risk.failures < MaxFailures /\ open < 1

(* The wallet snapshot names the revision of the risk state it was taken   *)
(* at, and is stale once that has moved.                                   *)
Admissible(wallet, s, local, expires) ==
  /\ ~risk.unknown
  /\ clock < expires
  /\ wallet.revision = risk.revision /\ wallet.open = risk.open
  /\ evaluateBuyRisk(wallet.open)
  /\ evaluateProviderQuota(s, local, wallet.open) = "NORMAL"

RiskTick ==
  /\ clock < MaxClock
  /\ clock' = clock + 1
  /\ UNCHANGED <<risk, faults, successes, usage, counters, operation, rateLimits>>

-------------------------------------------------------------------------------

CONSTANTS
  Targets,           \* fast-entry BUY intents
  MaxEnvelopes,      \* bound on the envelopes the operator creates
  EnvelopeWindow,    \* valid_until - valid_from
  MaxBuys,           \* max_buys of an envelope
  MaxLoss,           \* max_realized_loss_raw, in units of one losing trade
  ArmamentTtl, ConsentTtl, TargetTtl,
  Nobody

VARIABLES
  control,    \* execution_control_state
  envelopes,  \* execution_entry_envelopes
  targets,    \* execution_intents with armament and reservation of each
  consent,    \* what the operator authorized on the terminal and did not use yet
  daemon      \* the auto-arm process: its place in the tick, its context, its exclusions

armingVars == <<riskVars, control, envelopes, targets, consent, daemon>>

(***************************************************************************)
(* The rows that their readers accept.                                     *)
(***************************************************************************)
NoEnvelope == 0
Canary == -1       \* armed by the operator, without an envelope

ControlStates == {"RUNNING", "ENTRY_STOP", "HARD_STOP"}

ArmamentStates == {"ARMED", "LOCKED", "REVOKED", "EXPIRED", "CONSUMED"}

(* createExecutionArmamentRequestV2.                                       *)
Request(r) ==
  /\ r.target \in Targets /\ r.envelope \in DOMAIN envelopes \cup {Canary}
  /\ r.snapshot \in Snapshots /\ r.wallet.open \in 0..1 /\ r.wallet.revision <= risk.revision

Reserved == {i \in Targets : targets[i].reservation = "RESERVED"}
Active(state) == {i \in Targets : targets[i].armament = state}

Resting == [pc |-> "SLEEP"]

ArmingInit ==
  /\ RiskInit
  /\ control = "RUNNING"
  /\ envelopes = << >>
  /\ targets = [i \in Targets |-> [requested |-> -1, expires |-> -1, reserved |-> FALSE,
                 armament |-> "NONE", until |-> -1, envelope |-> NoEnvelope,
                 reservation |-> "NONE", bought |-> FALSE]]
  /\ consent = Nobody
  /\ daemon = [at |-> Resting, excluded |-> {}]

(* The fast-entry producer requests a BUY.                                 *)
RequestBuy(i) ==
  /\ targets[i].requested = -1
  /\ targets' = [targets EXCEPT ![i].requested = clock, ![i].expires = clock + TargetTtl]
  /\ UNCHANGED <<riskVars, control, envelopes, consent, daemon>>

(***************************************************************************)
(* What one transaction does to armaments and reservations.                *)
(***************************************************************************)
(* Faulty variant: an armament ends and its reservation stays.             *)
TerminalizedKeepingReservation(ts, ids, state) ==
  [i \in Targets |-> IF i \in ids THEN [ts[i] EXCEPT !.armament = state] ELSE ts[i]]

(* terminalizeActiveArmament with releaseCanaryReservation: LOCKED         *)
(* armaments belong to the executor and are left alone.                    *)
Terminalized(ts, ids, state) ==
  [i \in Targets |-> IF i \in ids
                     THEN [ts[i] EXCEPT !.armament = state, !.reservation = "RELEASED"]
                     ELSE ts[i]]

RiskReleasing(ids) ==
  IF ids = {} THEN risk ELSE [risk EXCEPT !.open = @ - 1, !.revision = @ + 1]

Overdue == {i \in Active("ARMED") : targets[i].until <= clock}

ExpiredEnvelopes ==
  [k \in DOMAIN envelopes |->
     IF envelopes[k].state = "ACTIVE" /\ envelopes[k].until <= clock
     THEN [envelopes[k] EXCEPT !.state = "EXPIRED"] ELSE envelopes[k]]

(***************************************************************************)
(* The operator.                                                           *)
(***************************************************************************)
(* decideExecutionControlTransition: a hard stop is not softened.          *)
setStop(mode) ==
  /\ ~(mode = "ENTRY_STOP" /\ control = "HARD_STOP")
  /\ control' = mode
  /\ targets' = Terminalized(targets, Active("ARMED"), "REVOKED")
  /\ risk' = RiskReleasing(Active("ARMED"))
  /\ UNCHANGED <<clock, faults, successes, usage, counters, operation, rateLimits,
                 envelopes, consent, daemon>>

(* The operator types a phrase on the terminal; the authorization is       *)
(* stored and may be consumed once until it expires.                       *)
Authorize(action) ==
  /\ consent = Nobody
  /\ action = "ENVELOPE" => Len(envelopes) < MaxEnvelopes
  /\ consent' = [action |-> action, from |-> clock, until |-> clock + ConsentTtl]
  /\ UNCHANGED <<riskVars, control, envelopes, targets, daemon>>

Drop ==
  /\ consent # Nobody
  /\ consent' = Nobody
  /\ UNCHANGED <<riskVars, control, envelopes, targets, daemon>>

Authorized(action) ==
  consent # Nobody /\ consent.action = action /\ clock <= consent.until

resume ==
  /\ Authorized("RESUME")
  /\ control # "RUNNING" /\ ~risk.unknown
  /\ control' = "RUNNING"
  /\ consent' = Nobody
  /\ targets' = Terminalized(targets, Active("ARMED"), "REVOKED")
  /\ risk' = RiskReleasing(Active("ARMED"))
  /\ UNCHANGED <<clock, faults, successes, usage, counters, operation, rateLimits,
                 envelopes, daemon>>

(* One ACTIVE envelope per generation: the partial unique index.           *)
createEnvelope ==
  /\ Authorized("ENVELOPE")
  /\ \A k \in DOMAIN envelopes : ExpiredEnvelopes[k].state # "ACTIVE"
  /\ consent.from + EnvelopeWindow > clock
  /\ envelopes' = Append(ExpiredEnvelopes,
       [state |-> "ACTIVE", from |-> consent.from, until |-> consent.from + EnvelopeWindow,
        buys |-> 0, loss |-> 0])
  /\ consent' = Nobody
  /\ UNCHANGED <<riskVars, control, targets, daemon>>

RevokedWithEnvelope(k) == {i \in Active("ARMED") : targets[i].envelope = k}

revokeEnvelope(k) ==
  /\ envelopes' = [envelopes EXCEPT ![k].state = IF @ = "ACTIVE" THEN "REVOKED" ELSE @]
  /\ targets' = Terminalized(targets, RevokedWithEnvelope(k), "REVOKED")
  /\ risk' = RiskReleasing(RevokedWithEnvelope(k))
  /\ UNCHANGED <<clock, faults, successes, usage, counters, operation, rateLimits,
                 control, consent, daemon>>

(***************************************************************************)
(* The daemon: expire, read a context, decide, observe the wallet, arm.    *)
(***************************************************************************)
To(place) == daemon' = [daemon EXCEPT !.at = place]

expireEnvelopes ==
  /\ daemon.at.pc = "SLEEP"
  /\ envelopes' = ExpiredEnvelopes
  /\ targets' = Terminalized(targets, Overdue, "EXPIRED")
  /\ risk' = RiskReleasing(Overdue)
  /\ daemon' = [at |-> [pc |-> "READ"],
                excluded |-> {i \in daemon.excluded : targets[i].expires > clock}]
  /\ UNCHANGED <<clock, faults, successes, usage, counters, operation, rateLimits,
                 control, consent>>

ActiveEnvelope == {k \in DOMAIN envelopes : envelopes[k].state = "ACTIVE"}

activeArmament ==
  Active("LOCKED") \cup {i \in Active("ARMED") : targets[i].until > clock}

refreshDue ==
  /\ \E i \in Active("LOCKED") : targets[i].bought /\ targets[i].envelope # Canary
  /\ usage.expires < clock + (UsageMaxAge \div 2)

Candidates(k) ==
  {i \in Targets \ daemon.excluded :
     /\ ~targets[i].reserved
     /\ targets[i].requested >= envelopes[k].from
     /\ targets[i].requested # -1 /\ targets[i].expires > clock}

Oldest(S) == {i \in S : \A j \in S : targets[i].requested <= targets[j].requested}

(* evaluateEnvelopeArming.                                                 *)
Armable(k) ==
  /\ control = "RUNNING" /\ ~risk.unknown
  /\ activeArmament = {} /\ risk.open = 0
  /\ envelopes[k].from <= clock /\ envelopes[k].until > clock
  /\ envelopes[k].buys < MaxBuys
  /\ envelopes[k].loss < MaxLoss

(* The context sums the counters of [measured_at, now), without a lock.    *)
ContextUnits == LocalUnits(clock)

(* readAutoArmContext and what runAutoArmTick makes of it: a snapshot is   *)
(* carried forward to the time of the context.                             *)
readAutoArmContext ==
  /\ daemon.at.pc = "READ"
  /\ IF refreshDue THEN To([pc |-> "REFRESH"])
     ELSE \/ \E k \in ActiveEnvelope : \E i \in Oldest(Candidates(k)) :
               /\ Armable(k)
               /\ clock > usage.measured /\ usage.used + ContextUnits <= LimitUnits
               /\ To([pc |-> "OBSERVE", envelope |-> k, target |-> i,
                      wallet |-> [revision |-> risk.revision, open |-> 0],
                      snapshot |-> [used |-> usage.used + ContextUnits, measured |-> clock,
                                    expires |-> clock + UsageMaxAge]])
          \/ /\ \A k \in ActiveEnvelope :
                  \/ ~Armable(k) \/ Candidates(k) = {}
                  \/ clock <= usage.measured \/ usage.used + ContextUnits > LimitUnits
             /\ To(Resting)
  /\ UNCHANGED <<riskVars, control, envelopes, targets, consent>>

(* The wallet is read over RPC: it may fail or show too little.            *)
observeWallet ==
  /\ daemon.at.pc = "OBSERVE"
  /\ To([daemon.at EXCEPT !.pc = "ARM"]) \/ To(Resting)
  /\ UNCHANGED <<riskVars, control, envelopes, targets, consent>>

(* assertEnvelopeProviderCarryForward: against every counter since the     *)
(* current snapshot, those later than the request included.                *)
CarryForward(s) == s.measured > usage.measured /\ s.used = usage.used + AllLocalUnits

Until(r) == Min({r.snapshot.measured + ArmamentTtl, targets[r.target].expires})

EnvelopeClosed(r) ==
  /\ r.envelope # Canary
  /\ envelopes[r.envelope].state # "ACTIVE" \/ envelopes[r.envelope].until <= clock

TargetRefused(r) == targets[r.target].reserved \/ Until(r) <= clock

(* CONTROL_STOPPED, ARMAMENT_CONTENDED, PROVIDER_CARRY_FORWARD_STALE.      *)
Contended(r) ==
  \/ control # "RUNNING"
  \/ \E i \in Active("ARMED") \cup Active("LOCKED") : targets[i].until > clock
  \/ ~Appendable(r.snapshot)
  \/ r.envelope # Canary /\ ~CarryForward(r.snapshot)

Admitted(r) ==
  /\ Overdue = {}
  /\ Admissible(r.wallet, r.snapshot,
                Units({c \in counters : c.at >= r.snapshot.measured}), targets[r.target].expires)

(* The insert trigger counts the buy and exhausts the envelope.            *)
Counted(k) ==
  IF k = Canary THEN envelopes
  ELSE [envelopes EXCEPT ![k] =
          [@ EXCEPT !.buys = @ + 1,
                    !.state = IF envelopes[k].buys + 1 >= MaxBuys THEN "EXHAUSTED" ELSE @]]

Armed(r) ==
  /\ targets' = [targets EXCEPT ![r.target] =
       [@ EXCEPT !.reserved = TRUE, !.armament = "ARMED", !.until = Until(r),
                 !.envelope = r.envelope, !.reservation = "RESERVED"]]
  /\ envelopes' = Counted(r.envelope)
  /\ usage' = r.snapshot
  /\ counters' = counters \cup {NewCounter(EntryCostUnits)}
  /\ risk' = [risk EXCEPT !.open = @ + 1, !.revision = @ + 1]
  /\ UNCHANGED <<clock, faults, successes, operation, rateLimits, control>>

(* The checks in the order of armV2InTransaction: a refusal of the target  *)
(* or of the admission makes the daemon leave the intent alone until it    *)
(* expires; anything else is tried again.                                  *)
armEnvelope ==
  LET r == daemon.at
      retried == EnvelopeClosed(r) \/ (~TargetRefused(r) /\ Contended(r))
  IN  /\ r.pc = "ARM"
      /\ operation = NoOperation
      /\ \/ /\ retried
            /\ To(Resting)
            /\ UNCHANGED <<riskVars, control, envelopes, targets, consent>>
         \/ /\ ~retried /\ (TargetRefused(r) \/ ~Admitted(r))
            /\ daemon' = [at |-> Resting, excluded |-> daemon.excluded \cup {r.target}]
            /\ UNCHANGED <<riskVars, control, envelopes, targets, consent>>
         \/ /\ ~retried /\ ~TargetRefused(r) /\ Admitted(r)
            /\ Armed(r) /\ To(Resting) /\ UNCHANGED consent

(* The operator arms one BUY.  The service reads the target and takes the  *)
(* measurements of wallet and provider into a request, the operator        *)
(* confirms it on the terminal, and the same transaction decides.          *)
CanaryRequest(i) ==
  [target |-> i, envelope |-> Canary,
   wallet |-> [revision |-> risk.revision, open |-> risk.open],
   snapshot |-> [used |-> Units({c \in counters : c.at < clock}),
                 measured |-> clock, expires |-> clock + UsageMaxAge]]

authorizeCanaryArmament(i) ==
  /\ consent = Nobody
  /\ targets[i].requested # -1 /\ ~targets[i].reserved /\ targets[i].expires > clock
  /\ operation = NoOperation /\ clock > usage.measured
  /\ consent' = [action |-> "ARM", from |-> clock, until |-> clock + ConsentTtl,
                 request |-> CanaryRequest(i)]
  /\ UNCHANGED <<riskVars, control, envelopes, targets, daemon>>

armCanary ==
  /\ Authorized("ARM")
  /\ operation = NoOperation
  /\ LET r == consent.request
     IN  ~TargetRefused(r) /\ ~Contended(r) /\ Admitted(r) /\ Armed(r)
  /\ consent' = Nobody
  /\ UNCHANGED daemon

(* Measured under the provider lock, so no counter commits in between.     *)
refreshEnvelopeProviderSnapshot ==
  /\ daemon.at.pc = "REFRESH"
  /\ operation = NoOperation
  /\ LET s == [used |-> usage.used + LocalUnits(clock), measured |-> clock,
               expires |-> clock + UsageMaxAge]
     IN  usage' = IF refreshDue /\ Appendable(s) THEN s ELSE usage
  /\ To(Resting)
  /\ UNCHANGED <<clock, risk, faults, successes, counters, operation, rateLimits,
                 control, envelopes, targets, consent>>

(* A timeout of the tick or an error: the loop starts over; a restarted    *)
(* process has forgotten its exclusions.                                   *)
TickFails == daemon.at # Resting /\ To(Resting)
             /\ UNCHANGED <<riskVars, control, envelopes, targets, consent>>

Restart ==
  /\ daemon' = [at |-> Resting, excluded |-> {}]
  /\ UNCHANGED <<riskVars, control, envelopes, targets, consent>>

(***************************************************************************)
(* The executor and the recovery, by what they leave in these tables.      *)
(***************************************************************************)
Lock(i) ==
  /\ targets[i].armament = "ARMED" /\ targets[i].until > clock /\ control = "RUNNING"
  /\ targets' = [targets EXCEPT ![i].armament = "LOCKED"]
  /\ UNCHANGED <<riskVars, control, envelopes, consent, daemon>>

BuySucceeds(i) ==
  /\ targets[i].armament = "LOCKED" /\ ~targets[i].bought
  /\ targets' = [targets EXCEPT ![i].bought = TRUE, ![i].reservation = "CONSUMED"]
  /\ UNCHANGED <<riskVars, control, envelopes, consent, daemon>>

BuyWithoutEffect(i) ==
  /\ targets[i].armament = "LOCKED" /\ ~targets[i].bought
  /\ targets' = Terminalized(targets, {i}, "REVOKED")
  /\ risk' = RiskReleasing({i})
  /\ UNCHANGED <<clock, faults, successes, usage, counters, operation, rateLimits,
                 control, envelopes, consent, daemon>>

Spends(k, loss) == envelopes[k].state = "ACTIVE" /\ envelopes[k].loss + loss >= MaxLoss

(* The position is closed: its loss goes to the envelope it came from,     *)
(* whatever the envelope's state.                                          *)
Close(i, loss) ==
  LET k == targets[i].envelope
  IN  /\ targets[i].armament = "LOCKED" /\ targets[i].bought
      /\ targets' = [targets EXCEPT ![i].armament = "CONSUMED"]
      /\ risk' = [risk EXCEPT !.open = @ - 1, !.revision = @ + 1]
      /\ envelopes' = IF k = Canary THEN envelopes
                      ELSE [envelopes EXCEPT ![k] =
                       [@ EXCEPT !.loss = @ + loss,
                                 !.state = IF Spends(k, loss) THEN "EXHAUSTED" ELSE @]]
      /\ UNCHANGED <<clock, faults, successes, usage, counters, operation, rateLimits,
                     control, consent, daemon>>

DaemonStep == expireEnvelopes \/ readAutoArmContext \/ observeWallet \/ armEnvelope
              \/ refreshEnvelopeProviderSnapshot

OperatorStep ==
  \/ \E mode \in {"ENTRY_STOP", "HARD_STOP"} : setStop(mode)
  \/ \E action \in {"RESUME", "ENVELOPE"} : Authorize(action)
  \/ Drop \/ resume \/ createEnvelope
  \/ \E k \in DOMAIN envelopes : revokeEnvelope(k)
  \/ armCanary \/ \E i \in Targets : authorizeCanaryArmament(i)

ExecutorStep ==
  \E i \in Targets : Lock(i) \/ BuySucceeds(i) \/ BuyWithoutEffect(i)
                     \/ \E loss \in 0..1 : Close(i, loss)

(***************************************************************************)
(* Properties.                                                             *)
(***************************************************************************)
(* The risk state counts a position for the one armament that is ARMED or  *)
(* LOCKED and for nothing else, and an exposure is reserved until its BUY  *)
(* is known to have succeeded or ended (terminalizeActiveArmament,         *)
(* releaseCanaryReservation, admitBuyInTransaction).                       *)
ArmamentHoldsExposure ==
  /\ risk.open = Cardinality(Active("ARMED") \cup Active("LOCKED"))
  /\ Reserved = {i \in Active("ARMED") \cup Active("LOCKED") : ~targets[i].bought}

===============================================================================
