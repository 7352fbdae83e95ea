----------------------------- MODULE PaperDecisions -----------------------------
(***************************************************************************)
(* The paper decision worker over the paper ledger: the jobs that the      *)
(* transaction pipeline enqueues are claimed under a lease, decided from a *)
(* snapshot, staged, applied to the paper trading engine and completed,    *)
(* each in a transaction of its own.  The strategy is creation-entry-v1.   *)
(*                                                                         *)
(* A worker step is the code between two of its durable effects.  What a   *)
(* worker loses in between (its process, its lease, its connection, the    *)
(* readiness of the listener) are actions of their own.  Clocks only       *)
(* matter through the order of their readings, so every reading is a new   *)
(* number; delays and leases run out at any time.                          *)
(***************************************************************************)
EXTENDS PaperLedger

CONSTANTS Workers, Idle

VARIABLES
  worker,     \* what each worker is doing
  killed      \* manualKillSwitch of the running configuration

vars == <<store, worker, killed>>

(* A job is identified by its source, the status the source had, and what  *)
(* triggered it: an event at a status, or the kill switch.                 *)
Kill == NTrades + 1

JobId(src, trig, status) ==
  [src |-> src, status |-> chain[src].status, trig |-> trig, trigStatus |-> status]

Init ==
  /\ chain = [e \in Events |-> [status |-> "absent", replayed |-> TRUE, at |-> 0]]
  /\ report = <<>> /\ cur = Dissolved
  /\ job = <<>> /\ cand = <<>> /\ sess = <<>> /\ posn = <<>>
  /\ trace = {} /\ proof = {} /\ intent = {}
  /\ quotes = 0 /\ stamps = 0
  /\ worker = [w \in Workers |-> Idle]
  /\ killed = FALSE

-----------------------------------------------------------------------------
(***************************************************************************)
(* The transaction pipeline and the configuration, as far as the paper     *)
(* decisions see them.                                                     *)
(***************************************************************************)
(* A transaction enters the inbox, or gets a new finality target, and the  *)
(* observation repositories write its event; its row is open until the     *)
(* replay ends.  A worker's step between the two writes finds what it      *)
(* would find before the first, or is refused as it is after the second.   *)
Observe(e, status) ==
  /\ chain[e].replayed
  /\ \/ /\ chain[e].status = "absent" /\ status = "confirmed"
        /\ \A x \in 0..(e - 1) : chain[x].status # "absent"
     \/ chain[e].status = "confirmed" /\ status \in {"finalized", "orphaned"}
  /\ chain' = [chain EXCEPT ![e] = [status |-> status, replayed |-> FALSE,
                                     at |-> IF @.status = "absent" THEN stamps ELSE @.at]]
  /\ UNCHANGED <<decisions, report, cur, posn, quotes, stamps, worker, killed>>

(* The qualification is projected again, or dissolved with the launch;     *)
(* enqueueLatest adds a job for the latest canonical event, or for the     *)
(* orphaned one; the inbox row is marked processed.                        *)
FinishReplay(e) ==
  LET status  == chain[e].status
      sources == IF status = "orphaned" THEN {e} ELSE {x \in Events : Canonical(x)}
  IN /\ ~chain[e].replayed
     /\ chain' = [chain EXCEPT ![e].replayed = TRUE]
     /\ cur' = IF Canonical(Launch) THEN Projected(0, 0, {}) ELSE Dissolved
     /\ job' = Enqueue(JobId(Max(sources), e, status))
     /\ UNCHANGED <<report, cand, sess, posn, trace, proof, intent, quotes, stamps, worker, killed>>

(* The process is started again with the kill switch on: the sessions that *)
(* hold a position get a job of their own.                                 *)
EngageKillSwitch ==
  /\ ~killed /\ killed' = TRUE
  /\ worker' = [w \in Workers |-> Idle]
  /\ LET held == {r \in DOMAIN sess : sess[r].st \in OpenStates \ {"BUY_PENDING"}
                                        /\ Canonical(sess[r].src)}
         jobs == {JobId(sess[r].src, Kill, chain[sess[r].src].status) : r \in held}
     IN  job' = [j \in DOMAIN job \cup jobs |-> IF j \in DOMAIN job THEN job[j] ELSE NewJob]
  /\ UNCHANGED <<facts, cand, sess, posn, trace, proof, intent, stamps>>

-----------------------------------------------------------------------------
(***************************************************************************)
(* Claims.                                                                 *)
(***************************************************************************)
(* A worker between two steps: its claim and what it carries on with.      *)
At(pc, j, tries) == [pc |-> pc, job |-> j, tries |-> tries]

(* paperDecisionClaimSql: claimable rows whose events are all replayed and *)
(* whose source is not orphaned behind the job's back.                     *)
Claimable(j) ==
  /\ \/ job[j].st \in {"PENDING", "RETRYABLE_FAILED"}
     \/ job[j].st = "PROCESSING" /\ job[j].late
  /\ job[j].tries < MaxAttempts
  /\ chain[j.src].status # "orphaned" \/ j.status = "orphaned"
  /\ ReplayCurrent(j.src)

(* Expired leases of jobs without attempts left.                           *)
Dead == {j \in DOMAIN job : job[j].st = "PROCESSING" /\ job[j].late
                              /\ job[j].tries >= MaxAttempts}

Buried ==
  [j \in DOMAIN job |-> IF j \in Dead THEN [job[j] EXCEPT !.st = "CANCELLED", !.exhausted = TRUE]
                        ELSE job[j]]

(* reclaimExhaustedCreationReservations *)
Reclaimed(rows) ==
  GiveUp(sess, {r \in DOMAIN sess :
                  \E j \in DOMAIN rows : /\ rows[j].st = "CANCELLED" /\ rows[j].exhausted
                                         /\ rows[j].staged = r})

(* claim: bury what is dead, take one job, reclaim reservations.           *)
Claim(w) ==
  /\ worker[w] = Idle
  /\ \E j \in DOMAIN job :
       /\ Claimable(j)
       /\ job' = [Buried EXCEPT ![j] = [@ EXCEPT !.st = "PROCESSING", !.late = FALSE,
                                                 !.tries = @ + 1]]
       /\ worker' = [worker EXCEPT ![w] = At("snapshot", j, job[j].tries + 1)]
  /\ sess' = Reclaimed(Buried)
  /\ stamps' = IF sess' = sess THEN stamps ELSE Now
  /\ UNCHANGED <<facts, cand, posn, trace, proof, intent, killed>>

(* A claim that finds no job still buries and reclaims.                    *)
ClaimNothing(w) ==
  /\ worker[w] = Idle
  /\ \A j \in DOMAIN job : ~Claimable(j)
  /\ Dead # {} \/ Reclaimed(Buried) # sess
  /\ job' = Buried /\ sess' = Reclaimed(Buried)
  /\ stamps' = IF sess' = sess THEN stamps ELSE Now
  /\ UNCHANGED <<facts, cand, posn, trace, proof, intent, worker, killed>>

LeaseExpires(j) ==
  /\ job[j].st = "PROCESSING" /\ ~job[j].late
  /\ job' = [job EXCEPT ![j].late = TRUE]
  /\ UNCHANGED <<facts, cand, sess, posn, trace, proof, intent, stamps, worker, killed>>

-----------------------------------------------------------------------------
(***************************************************************************)
(* The worker's exits: what makes it stop, fail and complete.              *)
(***************************************************************************)
Goto(w, m) == worker' = [worker EXCEPT ![w] = m]

With(w, pc) == [worker[w] EXCEPT !.pc = pc]

(* fail is called with what it writes if this is the last attempt.         *)
Failing(w, retryable, res) ==
  Goto(w, [pc |-> "fail", job |-> worker[w].job, tries |-> worker[w].tries,
           retryable |-> retryable, res |-> res])

Completing(w, res) ==
  Goto(w, [pc |-> "complete", job |-> worker[w].job, tries |-> worker[w].tries, res |-> res])

NoResult == [r |-> 0]

(* The process dies, its renewal reports a lost lease, or the repository   *)
(* throws: nothing more is written for the claim.                          *)
Crash(w) ==
  /\ worker[w] # Idle
  /\ Goto(w, Idle)
  /\ UNCHANGED <<store, killed>>

ReadinessLost(w) ==
  /\ worker[w] # Idle /\ worker[w].pc # "fail"
  /\ Failing(w, TRUE, NoResult)
  /\ UNCHANGED <<store, killed>>

(* writeDecision, but for the job's row and the sessions given up.         *)
Write(j, res, terminal) ==
  /\ cand' = CandidatesAfter(j, res)
  /\ trace' = IF res.s = NoSession THEN trace ELSE trace \cup {<<res.r, j.src>>}
  /\ proof' = ProofAfter(j, res, terminal)

(* PostgresPaperDecisionRepository.fail *)
Fail(w) ==
  LET m      == worker[w]
      j      == m.job
      last   == ~(m.retryable /\ m.tries < MaxAttempts)
      writes == last /\ m.res # NoResult
      rows   == IF writes THEN SessionsAfter(j, m.res) ELSE sess
  IN /\ m # Idle /\ m.pc = "fail"
     /\ Goto(w, Idle)
     /\ IF HoldsLease(j, m.tries) /\ (writes => CanWrite(j, m.res))
        THEN /\ job' = [job EXCEPT ![j].st = IF ~last THEN "RETRYABLE_FAILED"
                                             ELSE IF writes THEN "COMPLETED" ELSE "CANCELLED",
                                   ![j].exhausted = last /\ m.retryable,
                                   ![j].staged = IF writes THEN StagedBy(m.res) ELSE @]
             /\ IF writes THEN Write(j, m.res, FALSE) ELSE UNCHANGED <<cand, trace, proof>>
             /\ sess' = IF last THEN GiveUp(rows, DOMAIN rows) ELSE sess
             /\ stamps' = IF sess' = sess THEN stamps ELSE Now
        ELSE UNCHANGED <<job, cand, sess, trace, proof, stamps>>
     /\ UNCHANGED <<facts, posn, intent, killed>>

(* persist refuses a lost lease and a source orphaned behind the job.      *)
CanPersist(w, res) ==
  LET j == worker[w].job
  IN  /\ HoldsLease(j, worker[w].tries)
      /\ chain[j.src].status = "orphaned" => j.status = "orphaned"
      /\ CanWrite(j, res)

(* emitExecutionIntentInTransaction: the position is what the action says. *)
OpenLineage(r) == r \in Held
CloseLineage(r) == r \in DOMAIN posn /\ posn[r].st = "PAPER_CLOSED"

(* deriveExecutionIntent throws unless the lineage is the action's.        *)
CanEmit(res) ==
  /\ res.act = "OPEN" => OpenLineage(res.r)
  /\ res.act = "CLOSE" => CloseLineage(res.r)

(* snapshotExecutionIntentEmission, and only with an accepted session.     *)
Emits(j, res) == WriteAccepted(j, res) /\ res.act # "NONE"

Complete(w) ==
  LET j     == worker[w].job
      res   == worker[w].res
      emits == Emits(j, res)
  IN /\ worker[w] # Idle /\ worker[w].pc = "complete"
     /\ Goto(w, Idle)
     /\ IF CanPersist(w, res) /\ (emits => CanEmit(res))
        THEN /\ job' = [job EXCEPT ![j].st = "COMPLETED", ![j].staged = StagedBy(res)]
             /\ Write(j, res, TRUE)
             /\ sess' = SessionsAfter(j, res)
             /\ intent' = IF emits THEN intent \cup {<<res.act, res.r>>} ELSE intent
        ELSE UNCHANGED <<decisions>>
     /\ UNCHANGED <<facts, posn, stamps, killed>>

(* The sessions that a job for an orphaned event touches.                  *)
Touched(j) ==
  {r \in DOMAIN sess :
     \/ sess[r].src = j.src
     \/ <<r, j.src>> \in trace \cup proof
     \/ sess[r].st \in OpenStates
        /\ \/ j.src = Launch
           \/ ~cand[r].superseded /\ Canonical(sess[r].src) /\ report[r].src < j.src}

(* completeNoop and completeObsolete: an orphaned source of a retracted    *)
(* launch that no candidate, session or position derives from.             *)
CompleteWithout(w) ==
  LET j == worker[w].job
  IN /\ worker[w] # Idle /\ worker[w].pc = "without"
     /\ Goto(w, Idle)
     /\ IF /\ HoldsLease(j, worker[w].tries)
           /\ j.status = "orphaned" /\ chain[j.src].status = "orphaned"
           /\ ~Canonical(Launch) /\ ~Qualified
           /\ IF worker[w].obsolete
              THEN /\ \A r \in DOMAIN cand : cand[r].src # j.src
                   /\ Touched(j) = {}
                   /\ \A r \in DOMAIN posn : report[r].src # j.src
              ELSE cand = <<>> /\ sess = <<>> /\ posn = <<>>
        THEN job' = [job EXCEPT ![j].st = "COMPLETED"]
        ELSE UNCHANGED job
     /\ UNCHANGED <<facts, cand, sess, posn, trace, proof, intent, stamps, killed>>

-----------------------------------------------------------------------------
(***************************************************************************)
(* The snapshot of a claimed job and the branch it takes.                  *)
(***************************************************************************)
Orphaned(j) == chain[j.src].status = "orphaned"

MaxOr0(S) == IF S = {} THEN 0 ELSE Max(S)

(* loadSession: the latest of the sessions that qualify.                   *)
LatestSession(among) ==
  IF among = {} THEN 0
  ELSE CHOOSE r \in among : \A x \in among : sess[x].at < sess[r].at \/ (sess[x].at = sess[r].at /\ x <= r)

(* loadCandidate *)
CandidateOf(j) ==
  MaxOr0({r \in DOMAIN cand : IF Orphaned(j) THEN cand[r].src = j.src
                              ELSE ~cand[r].superseded /\ Canonical(cand[r].src)})

(* Faulty variant: only a session with an open exposure is found. *)
OpenSessionOf(j) ==
  LET c == CandidateOf(j)
  IN  IF ~Orphaned(j)
      THEN LatestSession({r \in DOMAIN sess : sess[r].st \in OpenStates /\ Canonical(sess[r].src)})
      ELSE IF c # 0 THEN IF c \in DOMAIN sess THEN c ELSE 0
      ELSE LatestSession(Touched(j))

SessionOf(j) ==
  LET c == CandidateOf(j)
  IN  IF ~Orphaned(j) THEN LatestSession({r \in DOMAIN sess : Canonical(sess[r].src)})
      ELSE IF c # 0 THEN IF c \in DOMAIN sess THEN c ELSE 0
      ELSE LatestSession(Touched(j))

(* loadPosition for a job without a session.                               *)
StrayPosition(j) ==
  IF Orphaned(j) THEN \E r \in DOMAIN posn : cand[r].src = j.src \/ report[r].src = j.src
  ELSE Held # {}

(* loadSnapshot throws: the lease is lost, the chain moved on, the launch  *)
(* is gone, or the candidate's report no longer loads.                     *)
Throws(w, c) ==
  LET j == worker[w].job
  IN  \/ ~HoldsLease(j, worker[w].tries)
      \/ ~ReplayCurrent(j.src)
      \/ ~Orphaned(j) /\ ~Canonical(Launch)
      \/ c # 0 /\ ~Loadable(c) /\ (Orphaned(j) \/ Canonical(report[c].src))

(* The trades after the entry, as the snapshot shows them.                 *)
Trades(r) == {t \in 1..NTrades : Canonical(t) /\ t > report[r].src /\ t \notin report[r].before}

(* What a worker carries from the snapshot of an existing session.         *)
Carry(w, pc, op, r) ==
  [pc |-> pc, job |-> worker[w].job, tries |-> worker[w].tries, op |-> op, r |-> r,
   s |-> sess[r], was |-> IF r \in DOMAIN posn THEN posn[r].st ELSE "NONE",
   trades |-> Trades(r)]

(* reconcileExisting, up to its first write.                               *)
Reconcile(w, c, r) ==
  LET j == worker[w].job
      s == sess[r]
      held == r \in DOMAIN posn
      result == Result(c, s, {}, "NONE")
  IN CASE c = 0 \/ (c # 0 /\ ~Loadable(c)) -> Failing(w, FALSE, NoResult)
       [] s.st \in TerminalStates /\ (~Orphaned(j) \/ s.st = "PAPER_RETRACTED") ->
            IF s.st = "PAPER_CLOSED" /\ held /\ posn[r].st = "PAPER_CLOSED"
            THEN Goto(w, Carry(w, "ledger", "reclose", r))
            ELSE Completing(w, result)
       [] s.st = "BUY_PENDING" /\ ~held /\ ~Orphaned(j) ->
            IF IsCurrent(c) THEN Goto(w, Carry(w, "stage", "open", r))
            ELSE Failing(w, TRUE, NoResult)
       [] OTHER ->
            IF ~held \/ c # r
            THEN Failing(w, FALSE, Result(c, [s EXCEPT !.st = "MANUAL_REVIEW", !.at = Now], {}, "NONE"))
            ELSE Goto(w, Carry(w, "stage",
                   CASE Orphaned(j) /\ (j.src = Launch \/ j.src = report[c].src) -> "source"
                     [] Orphaned(j) -> "evidence"
                     [] s.st = "BUY_PENDING" -> "recover"
                     [] OTHER -> "reconcile", r))

LoadSnapshot(w) ==
  LET j == worker[w].job
      r == SessionOf(j)
      c == IF CandidateOf(j) = 0 /\ Orphaned(j) THEN r ELSE CandidateOf(j)
  IN /\ worker[w] # Idle /\ worker[w].pc = "snapshot"
     /\ IF Throws(w, c) THEN Failing(w, TRUE, NoResult)
        ELSE IF r # 0 THEN Reconcile(w, c, r)
        ELSE IF Qualified THEN Goto(w, With(w, "quote"))
        ELSE IF ~Canonical(Launch) /\ c = 0 /\ ~StrayPosition(j)
        THEN Goto(w, [pc |-> "without", job |-> j, tries |-> worker[w].tries,
                      obsolete |-> cand # <<>> \/ sess # <<>> \/ posn # <<>>])
        ELSE Failing(w, TRUE, NoResult)
     /\ UNCHANGED <<store, killed>>

-----------------------------------------------------------------------------
(***************************************************************************)
(* A new entry: quotes, a report of its own, a second look, a candidate.   *)
(***************************************************************************)
(* The pair of quotes comes back, or fails for now or for good.            *)
Quote(w, q) ==
  /\ worker[w] # Idle /\ worker[w].pc = "quote"
  /\ quotes' = IF q = "ok" THEN quotes + 1 ELSE quotes
  /\ Goto(w, [pc |-> "rebuild", job |-> worker[w].job, tries |-> worker[w].tries, q |-> q,
              at |-> IF q = "ok" THEN quotes' ELSE 0,
              before |-> IF q = "ok" THEN Known ELSE {}])
  /\ UNCHANGED <<chain, report, cur, decisions, posn, stamps, killed>>

(* rebuildWithQuotes: the new report supersedes the current one, unless it *)
(* is the same.                                                            *)
Rebuild(w) ==
  LET m    == worker[w]
      same == cur # Dissolved /\ cur.id # 0 /\ cur = Projected(cur.id, m.at, m.before)
      id   == IF same THEN cur.id ELSE Len(report) + 1
  IN /\ m # Idle /\ m.pc = "rebuild"
     /\ IF Canonical(Launch)
        THEN /\ cur' = Projected(id, m.at, m.before)
             /\ report' = IF same THEN report ELSE Append(report, cur')
             /\ Goto(w, [pc |-> "refresh", job |-> m.job, tries |-> m.tries, q |-> m.q, r |-> id])
        ELSE Failing(w, TRUE, NoResult) /\ UNCHANGED <<report, cur>>
     /\ UNCHANGED <<chain, quotes, decisions, posn, stamps, killed>>

NothingEntered(j) == SessionOf(j) = 0 /\ ~StrayPosition(j)

(* creationEntryRejected: the creator has sold already.                    *)
CreationEntryRejected == \E t \in CreatorSells : Canonical(t)

(* The second snapshot must still show this report and nothing entered;    *)
(* TradingCandidateService may then find the candidate not eligible, for   *)
(* its age, the age of its quotes, or the verdict of the report.           *)
Refresh(w, eligible) ==
  LET m == worker[w]
      j == m.job
      base == Result(m.r, NoSession, {}, "NONE")
      stands == /\ ~Throws(w, CandidateOf(j)) /\ IsCurrent(m.r) /\ Canonical(Launch)
                /\ NothingEntered(j)
  IN /\ m # Idle /\ m.pc = "refresh"
     /\ IF stands /\ m.q = "ok" /\ eligible /\ ~CreationEntryRejected
        THEN /\ Goto(w, [pc |-> "stage", job |-> j, tries |-> m.tries, op |-> "open",
                         r |-> m.r, s |-> Prepared(j), was |-> "NONE", trades |-> {}])
             /\ stamps' = Now
        ELSE /\ CASE ~stands    -> Failing(w, TRUE, NoResult)
                  [] m.q # "ok" -> Failing(w, m.q = "unavailable", base)
                  [] OTHER      -> Completing(w, base)
             /\ UNCHANGED stamps
     /\ UNCHANGED <<facts, decisions, posn, killed>>

(* stageDecision: the session is written before the ledger is touched.  A  *)
(* job that another claim completed is only compared with what it left.    *)
Stage(w) ==
  LET m    == worker[w]
      j    == m.job
      res  == Result(m.r, m.s, {}, "NONE")
      done == job[j].st = "COMPLETED" /\ m.r \in DOMAIN cand /\ Loadable(m.r) /\ m.r \in DOMAIN sess
  IN /\ m # Idle /\ m.pc = "stage"
     /\ IF done
        THEN Goto(w, With(w, "ledger")) /\ UNCHANGED <<job, cand, sess, trace, proof>>
        ELSE IF job[j].st # "COMPLETED" /\ CanPersist(w, res)
        THEN /\ job' = [job EXCEPT ![j].staged = m.r]
             /\ Write(j, res, FALSE)
             /\ sess' = SessionsAfter(j, res)
             /\ Goto(w, With(w, "ledger"))
        ELSE /\ IF m.op = "open" THEN Failing(w, TRUE, res) ELSE Failing(w, FALSE, NoResult)
             /\ UNCHANGED <<job, cand, sess, trace, proof>>
     /\ UNCHANGED <<facts, posn, intent, stamps, killed>>

-----------------------------------------------------------------------------
(***************************************************************************)
(* The paper trading engine, and the strategy around it.                   *)
(***************************************************************************)
AtLedger(w, op) == worker[w] # Idle /\ worker[w].pc = "ledger" /\ worker[w].op = op

(* CreationEntryV1Strategy.open: an existing position is given back to its *)
(* own job only.  Afterwards the session waits for external buys.          *)
Entered(s, p) == [s EXCEPT !.st = "WAITING_EXTERNAL_BUYS", !.pos = TRUE, !.at = p.openedAt]

OpenPosition(w) ==
  LET m == worker[w]
      j == m.job
      fresh == m.r \notin DOMAIN posn
  IN /\ AtLedger(w, "open")
     /\ \/ /\ ~CommandValid(m.r, j)
           /\ Failing(w, FALSE, Result(m.r, m.s, {}, "NONE"))
           /\ UNCHANGED <<posn, stamps>>
        \/ /\ CommandValid(m.r, j) /\ ~RequireCurrent(m.r)
           /\ Failing(w, TRUE, NoResult)
           /\ UNCHANGED <<posn, stamps>>
        \/ /\ CommandValid(m.r, j) /\ RequireCurrent(m.r)
           /\ IF fresh /\ Held = {}
              THEN /\ posn' = Put(posn, m.r, NewPosition(j))
                   /\ stamps' = Now
                   /\ Completing(w, Result(m.r, Entered(m.s, NewPosition(j)), {}, "OPEN"))
              ELSE /\ IF OwnPosition(m.r, j)
                      THEN Completing(w, Result(m.r, Entered(m.s, posn[m.r]), {}, "OPEN"))
                      ELSE Failing(w, FALSE, Result(m.r, m.s, {}, "NONE"))
                   /\ UNCHANGED <<posn, stamps>>
     /\ UNCHANGED <<decisions, facts, killed>>

(* recoverOpen: the position was committed, its session was not.           *)
RecoverOpen(w) ==
  LET m == worker[w]
      j == m.job
  IN /\ AtLedger(w, "recover")
     /\ IF CommandValid(m.r, j) /\ OwnPosition(m.r, j) /\ m.r \in Held
        THEN Completing(w, Result(m.r, Entered(m.s, posn[m.r]), {}, "NONE"))
        ELSE Failing(w, FALSE, NoResult)
     /\ UNCHANGED <<store, killed>>

(* reconcileSource wants the QualificationUpdated event orphaned, and no   *)
(* statement ever changes the status of one.                               *)
ReconcileSource(w) ==
  /\ AtLedger(w, "source")
  /\ Failing(w, FALSE, NoResult)
  /\ UNCHANGED <<store, killed>>

(* reconcileClose of a session that is closed.                             *)
ReconcileClose(w) ==
  LET m == worker[w]
      s == IF posn[m.r].st # "PAPER_RETRACTED" THEN m.s
           ELSE [m.s EXCEPT !.st = "PAPER_RETRACTED", !.why = "SOURCE_ORPHANED",
                            !.pend = None, !.at = posn[m.r].closedAt]
  IN /\ AtLedger(w, "reclose")
     /\ Completing(w, Result(m.r, s, {}, "NONE"))
     /\ UNCHANGED <<store, killed>>

(* canonicalBuys and countUniqueExternalBuy, up to the target.             *)
NewBuys(m, s) ==
  LET fresh == (m.trades \cap Buyers) \ s.count
  IN  {t \in fresh : Cardinality(s.count) + Cardinality({x \in fresh : x < t}) < Target}

Counting(m, s) ==
  LET new == NewBuys(m, s)
      count == s.count \cup new
      reached == Cardinality(count) >= Target
  IN  IF new = {} THEN s
      ELSE [s EXCEPT !.count = count, !.at = chain[Max(new)].at,
                     !.st = IF reached THEN "EXIT_PENDING_QUOTE" ELSE "WAITING_EXTERNAL_BUYS",
                     !.pend = IF reached THEN "TARGET" ELSE @]

CreatorSold(m) == m.trades \cap CreatorSells # {}
TargetMet(s) == Cardinality(s.count) >= Target

(* mandatoryReason *)
Mandatory(m, s) ==
  IF killed THEN "KILL" ELSE IF CreatorSold(m) THEN "CREATOR" ELSE s.pend

(* The event a close is attributed to; what an orphaned one triggers is    *)
(* refused by the engine.                                                  *)
CloseTrigger(m, s, buys, ctx) ==
  IF killed THEN ctx
  ELSE IF CreatorSold(m) THEN Min(m.trades \cap CreatorSells)
  ELSE IF TargetMet(s) /\ Max(s.count) \in m.trades THEN Max(s.count)
  ELSE IF buys # {} THEN Max(buys) ELSE ctx

(* The exit needs the event that it names.                                 *)
ExitFounded(m, s, reason) ==
  /\ reason = "CREATOR" => CreatorSold(m)
  /\ reason = "TARGET" => TargetMet(s) /\ Max(s.count) \in m.trades

Pending(s, reason) == [s EXCEPT !.st = "EXIT_PENDING_QUOTE", !.pend = reason, !.at = Now]

Closed(s, reason, at, profit) ==
  [s EXCEPT !.st = "PAPER_CLOSED", !.why = reason, !.pend = reason, !.at = at, !.profit = profit]

(* reconcile of a session whose position is closed already.                *)
RecoveredReason(m, s) ==
  IF killed THEN "KILL" ELSE IF CreatorSold(m) THEN "CREATOR"
  ELSE IF posn[m.r].profit THEN "PROFIT" ELSE IF TargetMet(s) THEN "TARGET" ELSE s.pend

(* reconcile: count, then ask for a sell quote, then hold or close.  ctx   *)
(* is the event a close is attributed to for want of a better one.         *)
Monitor(w, base, ctx, q) ==
  LET m      == worker[w]
      s      == Counting(m, base)
      buys   == s.count \ base.count
      must   == Mandatory(m, s)
      reason == IF must # None THEN must ELSE IF q = "profit" THEN "PROFIT"
                ELSE IF TargetMet(s) THEN "TARGET" ELSE None
      trig   == CloseTrigger(m, s, buys, ctx)
      closes == m.was = "PAPER_HOLDING" /\ q \in {"flat", "profit"} /\ reason # None
                  /\ ExitFounded(m, s, reason) /\ m.r \in Held /\ trig # Refused
      holding(row) == Completing(w, Result(m.r, row, buys, "NONE"))
  IN /\ IF closes
        THEN /\ posn' = [posn EXCEPT ![m.r] = ClosedPosition(m.r, trig, q = "profit")]
             /\ Completing(w, Result(m.r, Closed(s, reason, Now, q = "profit"), buys, "CLOSE"))
        ELSE /\ UNCHANGED posn
             /\ CASE m.was = "PAPER_CLOSED" ->
                       IF RecoveredReason(m, s) = None THEN Failing(w, FALSE, NoResult)
                       ELSE holding(Closed(s, RecoveredReason(m, s), posn[m.r].closedAt, s.profit))
                  [] q = "none" ->
                       holding(IF must = None THEN s ELSE Pending(s, must))
                  [] reason = None ->
                       holding([s EXCEPT !.st = "WAITING_EXTERNAL_BUYS", !.at = Now, !.profit = FALSE])
                  [] q = "stale" /\ ExitFounded(m, s, reason) -> holding(Pending(s, reason))
                  [] OTHER -> Failing(w, FALSE, NoResult)
     /\ stamps' = IF m.was = "PAPER_HOLDING" THEN Now ELSE stamps

(* A session without a position, or with a retracted one, is refused.      *)
Inconsistent(w) == /\ Failing(w, FALSE, NoResult)
                   /\ UNCHANGED <<posn, stamps>>

ReconcileHeld(w, q) ==
  /\ AtLedger(w, "reconcile")
  /\ IF worker[w].s.pos /\ worker[w].was # "PAPER_RETRACTED"
     THEN Monitor(w, worker[w].s, report[worker[w].r].src, q)
     ELSE Inconsistent(w)
  /\ UNCHANGED <<facts, decisions, killed>>

(* reconcileEvidence: an orphaned event makes the session count again.     *)
Baseline(m) ==
  [m.s EXCEPT !.st = "WAITING_EXTERNAL_BUYS", !.count = {}, !.profit = FALSE,
              !.pend = IF @ = "KILL" THEN @ ELSE None, !.at = posn[m.r].openedAt]

RecountHeld(w, q) ==
  /\ AtLedger(w, "evidence") /\ worker[w].was = "PAPER_HOLDING"
  /\ IF worker[w].s.pos THEN Monitor(w, Baseline(worker[w]), Refused, q) ELSE Inconsistent(w)
  /\ UNCHANGED <<decisions, facts, killed>>

(* The close of a position stands while some reason for it does.           *)
RecountClosed(w) ==
  LET m == worker[w]
      s == Counting(m, Baseline(m))
      reason == IF killed THEN "KILL" ELSE IF CreatorSold(m) THEN "CREATOR"
                ELSE IF m.s.profit THEN "PROFIT" ELSE IF TargetMet(s) THEN "TARGET" ELSE None
      seen == chain[m.job.src].at
  IN /\ AtLedger(w, "evidence") /\ m.was # "PAPER_HOLDING"
     /\ IF ~m.s.pos THEN Inconsistent(w)
        ELSE IF reason # None /\ m.was = "PAPER_CLOSED"
        THEN /\ Completing(w, Result(m.r, Closed(s, reason, posn[m.r].closedAt, FALSE), s.count, "NONE"))
             /\ UNCHANGED <<posn, stamps>>
        ELSE /\ posn' = [posn EXCEPT ![m.r] = RetractedPosition(m.r)]
             /\ Completing(w, Result(m.r, [s EXCEPT !.st = "PAPER_RETRACTED", !.why = "SOURCE_ORPHANED",
                                                    !.pend = None, !.at = IF seen > @ THEN seen ELSE @],
                                     s.count, "NONE"))
             /\ stamps' = Now
     /\ UNCHANGED <<decisions, facts, killed>>

-----------------------------------------------------------------------------
Work(w) ==
  \/ LoadSnapshot(w) \/ Quote(w, "ok") \/ Rebuild(w) \/ Refresh(w, TRUE) \/ Stage(w)
  \/ OpenPosition(w) \/ RecoverOpen(w) \/ ReconcileSource(w) \/ ReconcileClose(w)
  \/ \E q \in {"flat", "profit"} : ReconcileHeld(w, q) \/ RecountHeld(w, q)
  \/ RecountClosed(w)
  \/ Complete(w) \/ CompleteWithout(w) \/ Fail(w)

(* The quote routes or the qualification let the worker down.              *)
BadNews(w) ==
  \/ \E q \in {"unavailable", "invalid"} : Quote(w, q)
  \/ Refresh(w, FALSE)
  \/ \E q \in {"none", "stale"} : ReconcileHeld(w, q) \/ RecountHeld(w, q)

Poll(w) == Claim(w) \/ ClaimNothing(w)

Chain ==
  \E e \in Events : Observe(e, "confirmed") \/ FinishReplay(e)

Reorg == \E e \in Events, status \in {"finalized", "orphaned"} : Observe(e, status)

Next ==
  \/ Chain \/ Reorg \/ EngageKillSwitch
  \/ \E w \in Workers : Poll(w) \/ Work(w) \/ BadNews(w) \/ Crash(w) \/ ReadinessLost(w)
  \/ \E j \in DOMAIN job : LeaseExpires(j)

-----------------------------------------------------------------------------
(* What the paper decisions promise.                                       *)

(* The strategy enters a mint once: of the positions that are not          *)
(* retracted, at most one belongs to a session whose source still stands,  *)
(* whatever the order in which two workers quote, requalify and stage.     *)
OneEntryStands ==
  \A a, b \in DOMAIN posn :
    /\ posn[a].st # "PAPER_RETRACTED" /\ posn[b].st # "PAPER_RETRACTED"
    /\ Canonical(sess[a].src) /\ Canonical(sess[b].src)
    => a = b

(* A session that ended by an exit has no position left open, and the      *)
(* close intent that went out with it is never contradicted by a late      *)
(* write of another worker: writeDecision emits in the transaction that    *)
(* stores the session, and upsertSession never reopens a terminal row.     *)
ExitIsFinal ==
  \A r \in DOMAIN sess :
    /\ sess[r].st = "PAPER_CLOSED" => r \in DOMAIN posn \ Held
    /\ <<"CLOSE", r>> \in intent => sess[r].st \in TerminalStates /\ r \notin Held

================================================================================
