------------------------ MODULE ExecutionLiveInvariant ------------------------
EXTENDS ExecutionLive, TLAPS

(***************************************************************************)
(* The inductive invariant of the live execution protocol                  *)
(* (ExecutionLive.tla) and the lemmas about writing its rows. LiveInv has  *)
(* three parts. DatabaseInv ties, for every BUY and every exit SELL, the   *)
(* status of the intent to its signed transactions and to the entry        *)
(* (armament, reservation, execution lock, position, sell authorization),  *)
(* counts the engaged entries in the exposure, and contains                *)
(* UnknownEffectBlocks. WorkersInv says what the memory of an executor or  *)
(* recovery worker is still worth: whoever holds the lease of an intent    *)
(* has a current claim, and what its reads saw is where the transaction's  *)
(* fate came from. TypeOK types both. The properties of the runs are       *)
(* consequences of LiveInv (ExecutionLiveProofs).                          *)
(***************************************************************************)

(***************************************************************************)
(* The fate of a transaction only moves forward.                           *)
(***************************************************************************)
Unsent == <<"UNSENT">>

Sent == <<"SENT">>

Dead == <<"DEAD">>

Moves(c, d) ==
  \/ d = c
  \/ c \in {Unsent, Sent} /\ (d \in {Sent, Dead} \/ IsLanded(d))
  \/ \E o \in Outcomes : c = Landed(o) /\ d = Finalized(o)

(***************************************************************************)
(* A settled transaction will never take effect.                           *)
(***************************************************************************)
Settled(sell, a) ==
  \/ /\ a.state = "REVOKED_NO_SEND" /\ a.evidence = "NONE"
     /\ a.chain \in {Unsent, Dead}
  \/ /\ a.state = "RECONCILED" /\ a.evidence = "NO_EFFECT"
     /\ PromptReads => a.chain = Dead \/ (sell /\ a.chain = Finalized("FAILED"))

(* The statuses of an intent whose latest transaction is not settled, or   *)
(* has taken effect.                                                       *)
Pending ==
  {"SIGNED_NOT_SUBMITTED", "SUBMITTED", "CONFIRMED", "UNKNOWN_REQUIRES_RECONCILIATION"}

Decisive == Pending \cup {"SUCCEEDED"}

Early == {"PERSISTED", "SIGNED_SIMULATED"}

Fits(status, a) ==
  IF status = "SIGNED_NOT_SUBMITTED"
  THEN /\ a.state \in Early \cup {"SUBMISSION_STARTED"} /\ a.evidence = "NONE"
       /\ a.state \in Early => a.chain \in {Unsent, Dead}
  ELSE IF status = "SUBMITTED" THEN a.state = "ACCEPTED" /\ a.evidence = "NONE"
  ELSE IF status = "CONFIRMED" THEN a.state = "CONFIRMED" /\ a.evidence = "NONE"
  ELSE IF status = "SUCCEEDED"
  THEN a.state = "RECONCILED" /\ a.evidence = "MATCHED" /\ a.chain = Finalized("LANDED")
  ELSE a.state = "AMBIGUOUS" /\ a.evidence \in {"NONE", "UNKNOWN", "MISMATCH"}

(* The status of an intent and its signed transactions. *)
Ledger(sell, status, s) ==
  /\ status \notin {"SIMULATED", "RECONCILING", "CANCELLED"}
  /\ \A n \in 1..Len(s) : n < Len(s) \/ status \notin Decisive => Settled(sell, s[n])
  /\ status \in Decisive => s # <<>> /\ Fits(status, s[Len(s)])

(* The states of an entry. *)
NoPosition(e) == e.position = "NONE" /\ e.exit = 0 /\ e.auth = "NONE"

HasPosition(e) ==
  \/ e.armament = "LOCKED" /\ e.position = "OPEN" /\ e.exit = 0 /\ e.auth = "ACTIVE"
  \/ e.armament = "LOCKED" /\ e.position = "EXIT_PENDING" /\ e.exit > 0 /\ e.auth \in {"ACTIVE", "LOCKED"}
  \/ e.armament = "LOCKED" /\ e.position = "UNKNOWN" /\ e.exit > 0 /\ e.auth = "LOCKED"
  \/ e.armament = "CONSUMED" /\ e.position = "CLOSED" /\ e.exit > 0 /\ e.auth = "CONSUMED"

EntryShape(e) ==
  \/ e.armament = "NONE" /\ e.reservation = "NONE" /\ e.lock = "NONE" /\ NoPosition(e)
  \/ e.armament = "ARMED" /\ e.reservation = "RESERVED" /\ e.lock = "NONE" /\ NoPosition(e)
  \/ e.armament = "LOCKED" /\ e.reservation = "RESERVED" /\ e.lock = "AUTHORIZED" /\ NoPosition(e)
  \/ /\ e.armament = "LOCKED" /\ e.reservation \in {"RESERVED", "UNKNOWN_HELD"}
     /\ e.lock = "SIGNED_PERSISTED" /\ NoPosition(e)
  \/ /\ e.armament \in {"REVOKED", "EXPIRED"} /\ e.reservation = "RELEASED"
     /\ e.lock \in {"NONE", "REVOKED", "SIGNED_PERSISTED"} /\ NoPosition(e)
  \/ e.reservation = "CONSUMED" /\ e.lock = "SIGNED_PERSISTED" /\ HasPosition(e)

(* A BUY and its entry. *)
BuyFits(e, status, s) ==
  /\ Len(s) <= 1 /\ (s # <<>> <=> e.lock = "SIGNED_PERSISTED")
  /\ status # "RETRY_READY"
  /\ status = "SUCCEEDED" <=> e.reservation = "CONSUMED"
  /\ status \in Pending =>
       /\ e.reservation \in {"RESERVED", "UNKNOWN_HELD"}
       /\ e.reservation = "UNKNOWN_HELD" => status = "UNKNOWN_REQUIRES_RECONCILIATION"
       /\ s[1].evidence # "NONE" => e.reservation = "UNKNOWN_HELD"
  /\ status \notin Decisive /\ s # <<>> => status = "FAILED" /\ e.reservation = "RELEASED"

(* An exit SELL and the position it sells. *)
SellFits(e, n, status, s) ==
  /\ n > e.exit => status = "PENDING" /\ s = <<>>
  /\ n < e.exit => status \in {"FAILED", "EXPIRED"}
  /\ n = e.exit =>
       IF status \in Pending
       THEN /\ e.auth = "LOCKED"
            /\ e.position = "UNKNOWN" => status = "UNKNOWN_REQUIRES_RECONCILIATION"
       ELSE IF status = "SUCCEEDED" THEN e.position = "CLOSED" ELSE e.auth = "ACTIVE"

LocalInv(b) ==
  /\ EntryShape(entry[b])
  /\ \A n \in 0..MaxExits : Ledger(n > 0, intents[<<b, n>>].status, artifacts[<<b, n>>])
  /\ BuyFits(entry[b], intents[<<b, 0>>].status, artifacts[<<b, 0>>])
  /\ \A n \in 1..MaxExits : SellFits(entry[b], n, intents[<<b, n>>].status, artifacts[<<b, n>>])
  /\ <<b, 0>> \in live \/ entry[b].armament = "NONE"
  /\ \A n \in 1..MaxExits : <<b, n>> \in live <=> n <= entry[b].exit

Engaged(b) == IsReserved(b) \/ IsOpen(b)

(* At most one BUY is engaged, and the risk state counts it. *)
ExposureInv ==
  \/ exposure = 0 /\ \A b \in Buys : ~Engaged(b)
  \/ exposure = 1 /\ \E b \in Buys : \A c \in Buys : Engaged(c) <=> c = b

DatabaseInv ==
  /\ \A b \in Buys : LocalInv(b)
  /\ ExposureInv
  /\ UnknownEffectBlocks

(* The k-th attempt signed the k-th transaction. *)
Counted(r, s) ==
  /\ r.status \in Pending => Len(r.attempts) = Len(s)
  /\ r.status \in {"PENDING", "RETRY_READY"} => Len(r.attempts) = Len(s) /\ ~HasStarted(r)
  /\ r.status = "PROCESSING" => Len(r.attempts) = Len(s) + (IF HasStarted(r) THEN 1 ELSE 0)

(* What a worker remembers. *)
ClaimStatus(pc, status) ==
  IF pc = "CLAIMED" THEN status \in {"PENDING", "RETRY_READY", "PROCESSING"}
  ELSE IF pc \in {"STARTED", "EVALUATING", "SIGNING"} THEN status = "PROCESSING"
  ELSE IF pc \in {"RECOVERING", "PERSISTED", "SIMULATED", "SENDING", "SENT"}
  THEN status = "SIGNED_NOT_SUBMITTED"
  ELSE IF pc \in {"CONFIRMING", "OBSERVED"} THEN status = "SUBMITTED"
  ELSE IF pc \in {"RECONCILING", "READING", "DECIDED"}
  THEN status \in {"CONFIRMED", "UNKNOWN_REQUIRES_RECONCILIATION"}
  ELSE TRUE

Engages(w) == worker[w].pc \notin {"IDLE", "READY"}

WorkerInv(w) ==
  LET id == worker[w].id
      c == worker[w].claim
  IN IF ~Engages(w) THEN id = NoIntent
     ELSE /\ id \in live /\ c \in ClaimRow
          /\ ClaimStatus(worker[w].pc, c.status)
          /\ c.token \in 1..tokens /\ c.revision <= intents[id].revision

(* What its reads have seen is what the chain came from. *)
MemoryInv(w) ==
  LET id == worker[w].id
      n == worker[w].claim.attemptCount
      pc == worker[w].pc
      found == worker[w].found
  IN /\ pc \in {"RECOVERING", "PERSISTED", "SIMULATED"} /\ Owns(w) => n = Len(artifacts[id])
     /\ pc = "SENDING" => /\ n \in 1..Len(artifacts[id])
                          /\ artifacts[id][n].state \notin Early \cup {"REVOKED_NO_SEND"}
     /\ pc = "READING" /\ Owns(w) => Moves(worker[w].view, Latest(id).chain)
     /\ pc = "DECIDED" /\ Owns(w) =>
          /\ found = "MATCHED" => Latest(id).chain = Finalized("LANDED")
          /\ found = "LANDED_FAILURE" => IsSell(id) /\ Latest(id).chain = Finalized("FAILED")
          /\ found = "NO_EFFECT" /\ PromptReads => Latest(id).chain = Dead

WorkersInv ==
  /\ \A w \in Workers : WorkerInv(w) /\ MemoryInv(w)
  /\ \A w, v \in Workers :
       w # v /\ Engages(w) /\ Engages(v) => worker[w].claim.token # worker[v].claim.token
  /\ \A id \in Ids : intents[id].token <= tokens /\ Counted(intents[id], artifacts[id])

LiveInv == TypeOK /\ DatabaseInv /\ WorkersInv

(* The states of a transaction on the chain are pairwise distinct. *)
LEMMA ChainFacts ==
  /\ Unsent # Sent /\ Unsent # Dead /\ Sent # Dead
  /\ \A o \in Outcomes : /\ Landed(o) \notin {Unsent, Sent, Dead}
                         /\ Finalized(o) \notin {Unsent, Sent, Dead}
  /\ \A o, p \in Outcomes : /\ Landed(o) # Finalized(p)
                            /\ Landed(o) = Landed(p) => o = p
                            /\ Finalized(o) = Finalized(p) => o = p
  /\ \A o \in Outcomes : Finalized(o)[1] = o
  /\ "LANDED" \in Outcomes /\ "FAILED" \in Outcomes /\ "ODD" \in Outcomes
  /\ {Unsent, Sent, Dead} \subseteq ChainStates
  /\ \A o \in Outcomes : Landed(o) \in ChainStates /\ Finalized(o) \in ChainStates
  /\ \A c \in ChainStates : \/ c \in {Unsent, Sent, Dead}
                            \/ \E o \in Outcomes : c = Landed(o) \/ c = Finalized(o)
BY Zenon DEF Unsent, Sent, Dead, Landed, Finalized, Outcomes, ChainStates

(* A dead or finalized transaction has reached its last state, and a       *)
(* landed one keeps its outcome.                                           *)
LEMMA MovesOn ==
  ASSUME NEW c \in ChainStates, NEW d \in ChainStates, Moves(c, d)
  PROVE  /\ c = Dead => d = Dead
         /\ \A o \in Outcomes : c = Finalized(o) => d = c
         /\ \A o \in Outcomes : c = Landed(o) => d \in {c, Finalized(o)}
         /\ d = Unsent => c = Unsent
BY Zenon, ChainFacts DEF Moves, IsLanded

(* Fates compose. *)
LEMMA MovesTwice ==
  ASSUME NEW c \in ChainStates, NEW d \in ChainStates, NEW f \in ChainStates,
         Moves(c, d), Moves(d, f)
  PROVE  Moves(c, f)
BY Zenon, ChainFacts DEF Moves, IsLanded

(* Whatever the network does to a transaction moves it forward. *)
LEMMA FatesMove ==
  ASSUME NEW c \in ChainStates, NEW d \in Fates(c)
  PROVE  d \in ChainStates /\ Moves(c, d) /\ d # c
<1>1. Fates(c) = (IF c = Sent THEN {Landed(o) : o \in LandingOutcomes} \cup {Dead}
                  ELSE IF c = Unsent THEN {Dead}
                  ELSE {Finalized(o) : o \in {p \in Outcomes : c = Landed(p)}})
  BY Zenon DEF Fates, Unsent, Sent, Dead
<1>2. LandingOutcomes \subseteq Outcomes
  BY Zenon, ExecutionLiveAssumption
<1> QED
  BY <1>1, <1>2, ChainFacts DEF Moves, IsLanded

(* What one reconciliation concludes from its reads, which see the chain   *)
(* anywhere between view v and view x.                                     *)
LEMMA ReadingIsSound ==
  ASSUME NEW v \in ChainStates, NEW x \in ChainStates, Moves(v, x),
         PromptReads => v \notin {Unsent, Sent} \/ ~IsFinalized(x),
         NEW sell \in BOOLEAN,
         NEW past \in HeightsPast(v) \cup HeightsPast(x),
         NEW history \in Histories(v) \cup Histories(x),
         NEW c \in {v, x}, NEW result, result = Classify(sell, past, history, Transaction(c))
  PROVE  /\ result \in Results \cup {"LANDED_FAILURE"}
         /\ result = "MATCHED" => x = Finalized("LANDED")
         /\ result = "LANDED_FAILURE" => sell /\ x = Finalized("FAILED")
         /\ result = "NO_EFFECT" /\ PromptReads => x = Dead
<1>1. /\ HeightsPast(v) \subseteq BOOLEAN /\ HeightsPast(x) \subseteq BOOLEAN
      /\ Histories(v) \subseteq BOOLEAN /\ Histories(x) \subseteq BOOLEAN
  BY Zenon DEF HeightsPast, Histories
<1>2. result \in Results \cup {"LANDED_FAILURE"}
  BY Zenon DEF Classify, Results
<1>3. Transaction(c) # "NONE" => \E o \in Outcomes : c = Finalized(o) /\ Transaction(c) = o
  BY ChainFacts DEF Transaction, IsFinalized
<1>4. Transaction(c) # "NONE" => x = c
  BY Zenon, <1>3, MovesOn
<1>5. result = "MATCHED" => Transaction(c) = "LANDED"
  BY Zenon DEF Classify
<1>6. result = "LANDED_FAILURE" => sell /\ Transaction(c) = "FAILED"
  BY Zenon DEF Classify
<1>7. ASSUME result = "NO_EFFECT", PromptReads PROVE x = Dead
  <2>1. Transaction(c) = "NONE" /\ past = TRUE /\ history = FALSE
    BY Zenon, <1>1, <1>7 DEF Classify
  <2>2. \A y \in ChainStates : TRUE \in HeightsPast(y) => y = Dead \/ IsFinalized(y)
    BY Zenon DEF HeightsPast, Dead
  <2>3. \A y \in ChainStates : FALSE \in Histories(y) => ~IsLanded(y)
    BY Zenon DEF Histories
  <2>4. \A y \in ChainStates : IsFinalized(y) => IsLanded(y)
    BY Zenon DEF IsFinalized, IsLanded
  <2>5. CASE v = Dead \/ x = Dead
    BY Zenon, <2>5, MovesOn
  <2>6. CASE IsFinalized(v)
    <3>1. x = v
      BY Zenon, <2>6, MovesOn DEF IsFinalized
    <3> QED
      BY Zenon, <2>1, <2>3, <2>4, <2>6, <3>1
  <2>7. CASE IsFinalized(x)
    <3>1. v \notin {Unsent, Sent}
      BY Zenon, <1>7, <2>7
    <3>2. v = Dead \/ IsLanded(v)
      BY Zenon, <3>1, ChainFacts DEF IsLanded
    <3> QED
      BY Zenon, <2>1, <2>3, <2>4, <2>5, <2>7, <3>2
  <2> QED
    BY Zenon, <2>1, <2>2, <2>5, <2>6, <2>7
<1> QED
  BY ZenonT(40), <1>2, <1>3, <1>4, <1>5, <1>6, <1>7, ChainFacts

(* Rows. *)
LEMMA LeasedFacts ==
  ASSUME NEW r \in IntentRow, NEW t \in Nat
  PROVE  LET q == Leased(r, t)
         IN /\ q \in IntentRow /\ q.token = t /\ q.lapsed = FALSE
            /\ q.status = r.status /\ q.revision = r.revision
            /\ q.attempts = r.attempts /\ q.expired = r.expired
BY Zenon DEF Leased, IntentRow

(* Releasing a lease changes nothing but the lease. *)
LEMMA ReleasedFacts ==
  ASSUME NEW r \in IntentRow
  PROVE  LET q == Released(r)
         IN /\ q \in IntentRow /\ q.token = 0 /\ q.lapsed = FALSE
            /\ q.status = r.status /\ q.revision = r.revision
            /\ q.attempts = r.attempts /\ q.expired = r.expired
BY Zenon DEF Released, IntentRow

(* A transition advances the revision, and ends the lease when it is       *)
(* terminal.                                                               *)
LEMMA MovedFacts ==
  ASSUME NEW r \in IntentRow, NEW next \in Statuses
  PROVE  LET q == Moved(r, next)
         IN /\ q \in IntentRow /\ q.status = next /\ q.revision = r.revision + 1
            /\ q.token \in {0, r.token}
            /\ next \in TerminalStatuses => q.token = 0
            /\ next \notin TerminalStatuses => q.token = r.token /\ q.lapsed = r.lapsed
            /\ q.attempts = r.attempts /\ q.expired = r.expired
<1> DEFINE n == r.revision + 1
           m == [r EXCEPT !.status = next, !.revision = n]
<1>1. /\ m \in IntentRow /\ m.status = next /\ m.revision = n
      /\ m.token = r.token /\ m.lapsed = r.lapsed
      /\ m.attempts = r.attempts /\ m.expired = r.expired
  <2>1. n \in Nat
    BY DEF IntentRow
  <2> HIDE DEF n
  <2> DEFINE k == [r EXCEPT !.status = next]
  <2>2. /\ k \in IntentRow /\ k.status = next
        /\ k.token = r.token /\ k.lapsed = r.lapsed
        /\ k.attempts = r.attempts /\ k.expired = r.expired
    BY Zenon DEF IntentRow
  <2>3. m = [k EXCEPT !.revision = n]
    BY Zenon
  <2> HIDE DEF k, m
  <2> QED
    BY Zenon, <2>1, <2>2, <2>3 DEF IntentRow
<1>2. Moved(r, next) = IF next \in TerminalStatuses THEN Released(m) ELSE m
  BY Zenon DEF Moved
<1> HIDE DEF m
<1> QED
  BY ZenonT(40), <1>1, <1>2, ReleasedFacts

(* beginAttempt adds one attempt, unless one has begun already. *)
LEMMA BegunFacts ==
  ASSUME NEW r \in IntentRow
  PROVE  LET q == Begun(r)
         IN /\ q \in IntentRow /\ q.status = r.status /\ q.revision = r.revision
            /\ q.token = r.token /\ q.lapsed = r.lapsed /\ q.expired = r.expired
            /\ HasStarted(q)
            /\ Len(q.attempts) = Len(r.attempts) + (IF HasStarted(r) THEN 0 ELSE 1)
<1>1. CASE HasStarted(r)
  BY <1>1 DEF Begun, IntentRow
<1>2. CASE ~HasStarted(r)
  <2> DEFINE s == Append(r.attempts, "STARTED")
             q == [r EXCEPT !.attempts = s]
  <2>1. /\ s \in Seq(AttemptStatuses) /\ Len(s) = Len(r.attempts) + 1
        /\ s # <<>> /\ s[Len(s)] = "STARTED"
    BY DEF IntentRow, AttemptStatuses
  <2>2. Begun(r) = q
    BY Zenon, <1>2 DEF Begun
  <2> HIDE DEF s
  <2>3. /\ q \in IntentRow /\ q.attempts = s /\ q.status = r.status /\ q.revision = r.revision
        /\ q.token = r.token /\ q.lapsed = r.lapsed /\ q.expired = r.expired
    BY Zenon, <2>1 DEF IntentRow
  <2> QED
    BY Zenon, <1>2, <2>1, <2>2, <2>3 DEF HasStarted
<1> QED
  BY Zenon, <1>1, <1>2

(* Ending an attempt leaves the number of attempts as it is. *)
LEMMA AttemptEndedFacts ==
  ASSUME NEW r \in IntentRow, NEW outcome \in {"COMPLETED", "ABANDONED"}
  PROVE  LET q == AttemptEnded(r, outcome)
         IN /\ q \in IntentRow /\ q.status = r.status /\ q.revision = r.revision
            /\ q.token = r.token /\ q.lapsed = r.lapsed /\ q.expired = r.expired
            /\ ~HasStarted(q) /\ Len(q.attempts) = Len(r.attempts)
<1>1. CASE ~HasStarted(r)
  BY Zenon, <1>1 DEF AttemptEnded, IntentRow
<1>2. CASE HasStarted(r)
  <2> DEFINE s == [r.attempts EXCEPT ![Len(r.attempts)] = outcome]
             q == [r EXCEPT !.attempts = s]
  <2>1. r.attempts \in Seq(AttemptStatuses) /\ r.attempts # <<>>
    BY Zenon, <1>2 DEF HasStarted, IntentRow
  <2>2. /\ s \in Seq(AttemptStatuses) /\ Len(s) = Len(r.attempts)
        /\ s # <<>> /\ s[Len(s)] = outcome
    BY <2>1 DEF AttemptStatuses
  <2>3. AttemptEnded(r, outcome) = q
    BY Zenon, <1>2 DEF AttemptEnded
  <2> HIDE DEF s
  <2>4. /\ q \in IntentRow /\ q.attempts = s /\ q.status = r.status /\ q.revision = r.revision
        /\ q.token = r.token /\ q.lapsed = r.lapsed /\ q.expired = r.expired
    BY Zenon, <2>2 DEF IntentRow
  <2> QED
    BY Zenon, <2>2, <2>3, <2>4 DEF HasStarted
<1> QED
  BY Zenon, <1>1, <1>2

(* What a worker remembers of the row it claims. *)
LEMMA ClaimOfFacts ==
  ASSUME NEW r \in IntentRow
  PROVE  LET c == ClaimOf(r)
         IN /\ c \in ClaimRow /\ c.status = r.status /\ c.revision = r.revision
            /\ c.attemptCount = Len(r.attempts) /\ c.token = r.token
BY DEF ClaimOf, ClaimRow, IntentRow, AttemptCount

(* Signed transactions. *)
ArtifactsOK == artifacts \in [Ids -> Seq(ArtifactRow)]

(* The latest transaction of id becomes a. *)
Rewritten(id, a) ==
  /\ ArtifactsOK'
  /\ \A j \in Ids : j # id => artifacts'[j] = artifacts[j]
  /\ Len(artifacts'[id]) = Len(artifacts[id]) /\ artifacts'[id] # <<>>
  /\ artifacts'[id][Len(artifacts[id])] = a
  /\ \A n \in 1..Len(artifacts[id]) :
       n # Len(artifacts[id]) => artifacts'[id][n] = artifacts[id][n]

(* Replacing one element of a sequence. *)
LEMMA ElementReplaced ==
  ASSUME NEW S, NEW s \in Seq(S), NEW n \in 1..Len(s), NEW c \in S
  PROVE  /\ [s EXCEPT ![n] = c] \in Seq(S) /\ Len([s EXCEPT ![n] = c]) = Len(s)
         /\ [s EXCEPT ![n] = c][n] = c
         /\ \A k \in 1..Len(s) : k # n => [s EXCEPT ![n] = c][k] = s[k]
OBVIOUS

(* Replacing the latest transaction of an intent. *)
LEMMA OneRewritten ==
  ASSUME ArtifactsOK, NEW id \in Ids, artifacts[id] # <<>>, NEW a \in ArtifactRow,
         artifacts' = [artifacts EXCEPT ![id] = [artifacts[id] EXCEPT ![Len(artifacts[id])] = a]]
  PROVE  Rewritten(id, a)
<1> DEFINE s == artifacts[id]
           q == [s EXCEPT ![Len(s)] = a]
<1>1. s \in Seq(ArtifactRow) /\ s # <<>>
  BY Zenon DEF ArtifactsOK
<1>2. /\ q \in Seq(ArtifactRow) /\ q # <<>> /\ Len(q) = Len(s) /\ q[Len(s)] = a
      /\ \A n \in 1..Len(s) : n # Len(s) => q[n] = s[n]
  BY <1>1
<1>3. artifacts' = [artifacts EXCEPT ![id] = q]
  BY Zenon
<1> HIDE DEF q
<1> QED
  BY Zenon, <1>2, <1>3 DEF Rewritten, ArtifactsOK

(* The latest transaction is a row of the artifacts. *)
LEMMA LatestOK ==
  ASSUME ArtifactsOK, NEW id \in Ids, artifacts[id] # <<>>
  PROVE  /\ Latest(id) \in ArtifactRow /\ Latest(id) = artifacts[id][Len(artifacts[id])]
         /\ Len(artifacts[id]) \in Nat \ {0} /\ artifacts[id] \in Seq(ArtifactRow)
BY DEF Latest, ArtifactsOK

(* WithArtifact writes the state of the latest transaction and nothing     *)
(* else.                                                                   *)
LEMMA StateRewritten ==
  ASSUME ArtifactsOK, NEW id \in Ids, artifacts[id] # <<>>, NEW state \in ArtifactStates,
         artifacts' = WithArtifact(id, state)
  PROVE  \E a \in ArtifactRow :
           /\ Rewritten(id, a)
           /\ a.state = state /\ a.evidence = Latest(id).evidence /\ a.chain = Latest(id).chain
<1> DEFINE a == [Latest(id) EXCEPT !.state = state]
<1>1. artifacts' = [artifacts EXCEPT ![id] = [artifacts[id] EXCEPT ![Len(artifacts[id])] = a]]
  BY Zenon DEF WithArtifact, Latest
<1>2. /\ a \in ArtifactRow /\ a.state = state
      /\ a.evidence = Latest(id).evidence /\ a.chain = Latest(id).chain
  BY Zenon, LatestOK DEF ArtifactRow
<1> HIDE DEF a
<1> QED
  BY Zenon, <1>1, <1>2, OneRewritten

(* Evidenced writes the state and the evidence of the latest transaction   *)
(* and nothing else.                                                       *)
LEMMA EvidenceRewritten ==
  ASSUME ArtifactsOK, NEW id \in Ids, artifacts[id] # <<>>, NEW state \in ArtifactStates,
         NEW result \in Results, artifacts' = Evidenced(id, state, result)
  PROVE  \E a \in ArtifactRow :
           /\ Rewritten(id, a)
           /\ a.state = state /\ a.evidence = result /\ a.chain = Latest(id).chain
<1> DEFINE m == [Latest(id) EXCEPT !.state = state]
           a == [m EXCEPT !.evidence = result]
<1>1. artifacts' = [artifacts EXCEPT ![id] = [artifacts[id] EXCEPT ![Len(artifacts[id])] = a]]
  <2> DEFINE s == artifacts[id]
             k == Len(artifacts[id])
             t == [s EXCEPT ![k] = [s[k] EXCEPT !.state = state]]
             one == [artifacts EXCEPT ![id] = t]
  <2>1. Evidenced(id, state, result)
          = [one EXCEPT ![id] = [one[id] EXCEPT ![k] = [one[id][k] EXCEPT !.evidence = result]]]
    BY Zenon DEF Evidenced
  <2>2. s \in Seq(ArtifactRow) /\ k \in 1..Len(s) /\ DOMAIN s = 1..Len(s)
    BY LatestOK
  <2>3. t[k] = m /\ DOMAIN t = DOMAIN s
    BY Zenon, <2>2 DEF Latest
  <2>4. one[id] = t /\ DOMAIN one = DOMAIN artifacts
    BY Zenon DEF ArtifactsOK
  <2>5. [t EXCEPT ![k] = a] = [s EXCEPT ![k] = a]
    <3> HIDE DEF a, m
    <3> QED
      BY Zenon, <2>2
  <2> HIDE DEF t, s, k, m
  <2>6. [one EXCEPT ![id] = [t EXCEPT ![k] = a]] = [artifacts EXCEPT ![id] = [t EXCEPT ![k] = a]]
    <3> HIDE DEF a
    <3> QED
      BY Zenon DEF ArtifactsOK
  <2> QED
    BY Zenon, <2>1, <2>3, <2>4, <2>5, <2>6 DEF s, k
<1>2. /\ m \in ArtifactRow /\ m.state = state /\ m.chain = Latest(id).chain
  BY Zenon, LatestOK DEF ArtifactRow
<1> HIDE DEF m
<1>3. /\ a \in ArtifactRow /\ a.state = state /\ a.evidence = result /\ a.chain = Latest(id).chain
  BY Zenon, <1>2 DEF ArtifactRow
<1> HIDE DEF a
<1> QED
  BY Zenon, <1>1, <1>3, OneRewritten

(* Frames. *)
LEMMA IdFacts ==
  /\ \A id \in Ids : id[1] \in Buys /\ id[2] \in 0..MaxExits /\ id = <<id[1], id[2]>>
  /\ \A b \in Buys, n \in 0..MaxExits : /\ <<b, n>> \in Ids
                                        /\ <<b, n>>[1] = b /\ <<b, n>>[2] = n
  /\ \A b, c \in Buys : \A n, m \in 0..MaxExits : <<b, n>> = <<c, m>> => b = c /\ n = m
  /\ 0 \in 0..MaxExits /\ 1..MaxExits \subseteq 0..MaxExits
  /\ \A n \in 1..MaxExits : n # 0
BY ExecutionLiveAssumption DEF Ids

Same(b) ==
  /\ entry'[b] = entry[b]
  /\ \A n \in 0..MaxExits : /\ intents'[<<b, n>>].status = intents[<<b, n>>].status
                            /\ artifacts'[<<b, n>>] = artifacts[<<b, n>>]
                            /\ <<b, n>> \in live' <=> <<b, n>> \in live

(* LocalInv(b) depends on nothing but the rows of b. *)
LEMMA LocalFrame ==
  ASSUME NEW b \in Buys, LocalInv(b), Same(b)
  PROVE  LocalInv(b)'
BY Zenon, IdFacts DEF LocalInv, Same

(* A step writes the BUY of b, before there is a position. *)
LEMMA BuyWrite ==
  ASSUME \A c \in Buys : LocalInv(c), NEW b \in Buys, live' = live,
         \A j \in Ids : j # <<b, 0>> => /\ intents'[j].status = intents[j].status
                                        /\ artifacts'[j] = artifacts[j],
         \A c \in Buys : c # b => entry'[c] = entry[c],
         entry[b].exit = 0, entry'[b].exit = 0,
         <<b, 0>> \in live \/ entry'[b].armament = "NONE",
         EntryShape(entry'[b]),
         Ledger(FALSE, intents'[<<b, 0>>].status, artifacts'[<<b, 0>>]),
         BuyFits(entry'[b], intents'[<<b, 0>>].status, artifacts'[<<b, 0>>])
  PROVE  \A c \in Buys : LocalInv(c)'
<1>1. ASSUME NEW c \in Buys, c # b PROVE LocalInv(c)'
  <2>1. Same(c)
    BY Zenon, <1>1, IdFacts DEF Same
  <2> QED
    BY Zenon, <2>1, LocalFrame
<1>2. LocalInv(b)'
  <2>1. \A n \in 1..MaxExits : /\ intents'[<<b, n>>].status = intents[<<b, n>>].status
                               /\ artifacts'[<<b, n>>] = artifacts[<<b, n>>]
    BY Zenon, IdFacts
  <2>2. \A n \in 1..MaxExits :
          SellFits(entry'[b], n, intents'[<<b, n>>].status, artifacts'[<<b, n>>])
    BY <2>1, ExecutionLiveAssumption DEF LocalInv, SellFits
  <2>3. \A n \in 0..MaxExits : Ledger(n > 0, intents'[<<b, n>>].status, artifacts'[<<b, n>>])
    <3>1. \A n \in 1..MaxExits : Ledger(n > 0, intents'[<<b, n>>].status, artifacts'[<<b, n>>])
      BY <2>1, ExecutionLiveAssumption DEF LocalInv
    <3>2. (0 > 0) = FALSE
      OBVIOUS
    <3>3. \A n \in 0..MaxExits : n = 0 \/ n \in 1..MaxExits
      BY ExecutionLiveAssumption
    <3> QED
      BY ZenonT(40), <3>1, <3>2, <3>3
  <2>4. \A n \in 1..MaxExits : <<b, n>> \in live' <=> n <= entry'[b].exit
    BY Zenon DEF LocalInv
  <2> QED
    BY Zenon, <2>2, <2>3, <2>4 DEF LocalInv
<1> QED
  BY Zenon, <1>1, <1>2

(* A step writes the current exit of b. *)
LEMMA SellWrite ==
  ASSUME \A c \in Buys : LocalInv(c), NEW b \in Buys, NEW n \in 1..MaxExits,
         n = entry[b].exit, live' = live,
         \A j \in Ids : j # <<b, n>> => /\ intents'[j].status = intents[j].status
                                        /\ artifacts'[j] = artifacts[j],
         \A c \in Buys : c # b => entry'[c] = entry[c],
         entry'[b].exit = n, entry'[b].lock = entry[b].lock,
         entry'[b].reservation = entry[b].reservation,
         EntryShape(entry'[b]),
         Ledger(TRUE, intents'[<<b, n>>].status, artifacts'[<<b, n>>]),
         SellFits(entry'[b], n, intents'[<<b, n>>].status, artifacts'[<<b, n>>])
  PROVE  \A c \in Buys : LocalInv(c)'
<1>1. ASSUME NEW c \in Buys, c # b PROVE LocalInv(c)'
  <2>1. Same(c)
    BY Zenon, <1>1, IdFacts DEF Same
  <2> QED
    BY Zenon, <2>1, LocalFrame
<1>2. LocalInv(b)'
  <2>1. \A m \in 0..MaxExits : m # n => /\ intents'[<<b, m>>].status = intents[<<b, m>>].status
                                        /\ artifacts'[<<b, m>>] = artifacts[<<b, m>>]
    BY Zenon, IdFacts
  <2>2. \A m \in 1..MaxExits :
          SellFits(entry'[b], m, intents'[<<b, m>>].status, artifacts'[<<b, m>>])
    <3> SUFFICES ASSUME NEW m \in 1..MaxExits, m # n
                 PROVE  SellFits(entry'[b], m, intents'[<<b, m>>].status, artifacts'[<<b, m>>])
      BY Zenon
    <3>1. /\ intents'[<<b, m>>].status = intents[<<b, m>>].status
          /\ artifacts'[<<b, m>>] = artifacts[<<b, m>>]
      BY Zenon, <2>1, IdFacts
    <3>2. SellFits(entry[b], m, intents[<<b, m>>].status, artifacts[<<b, m>>])
      BY Zenon DEF LocalInv
    <3> QED
      BY Zenon, <3>1, <3>2 DEF SellFits
  <2>3. \A m \in 0..MaxExits : Ledger(m > 0, intents'[<<b, m>>].status, artifacts'[<<b, m>>])
    <3>1. \A m \in 0..MaxExits :
            m # n => Ledger(m > 0, intents'[<<b, m>>].status, artifacts'[<<b, m>>])
      BY Zenon, <2>1 DEF LocalInv
    <3>2. (n > 0) = TRUE
      BY SMTT(30), ExecutionLiveAssumption
    <3> QED
      BY Zenon, <3>1, <3>2
  <2>4. BuyFits(entry'[b], intents'[<<b, 0>>].status, artifacts'[<<b, 0>>])
    <3>1. /\ intents'[<<b, 0>>].status = intents[<<b, 0>>].status
          /\ artifacts'[<<b, 0>>] = artifacts[<<b, 0>>]
      BY Zenon, <2>1, IdFacts
    <3> QED
      BY ZenonT(40), <3>1 DEF LocalInv, BuyFits
  <2>5. \A m \in 1..MaxExits : <<b, m>> \in live' <=> m <= entry'[b].exit
    BY Zenon DEF LocalInv
  <2>6. <<b, 0>> \in live'
    <3>1. EntryShape(entry[b]) /\ entry[b].exit # 0
      BY Zenon, IdFacts DEF LocalInv
    <3>2. entry[b].armament # "NONE"
      BY Zenon, <3>1 DEF EntryShape, NoPosition, HasPosition
    <3> QED
      BY Zenon, <3>2 DEF LocalInv
  <2> QED
    BY Zenon, <2>2, <2>3, <2>4, <2>5, <2>6 DEF LocalInv
<1> QED
  BY Zenon, <1>1, <1>2

(* The risk state. *)
LEMMA EngagementKept ==
  ASSUME ExposureInv, exposure' = exposure, \A b \in Buys : Engaged(b)' <=> Engaged(b)
  PROVE  ExposureInv'
BY Zenon DEF ExposureInv

(* Ending the one engaged entry brings the exposure to zero. *)
LEMMA EngagementEnds ==
  ASSUME ExposureInv, NEW b \in Buys, Engaged(b), ~Engaged(b)', exposure' = exposure - 1,
         \A c \in Buys : c # b => (Engaged(c)' <=> Engaged(c))
  PROVE  ExposureInv'
BY DEF ExposureInv

(* At most one signed transaction means that every one is the first. *)
LEMMA OnlyOne ==
  ASSUME NEW k \in Nat, NEW n \in 1..k, k <= 1
  PROVE  k = 1 /\ n = 1
OBVIOUS

(* Evidence that is unresolved is about the latest transaction of an       *)
(* engaged BUY.                                                            *)
LEMMA UnresolvedIsEngaged ==
  ASSUME TypeOK, \A b \in Buys : LocalInv(b), NEW id \in Ids, NEW n \in 1..Len(artifacts[id]),
         artifacts[id][n].evidence \in {"UNKNOWN", "MISMATCH"}
  PROVE  /\ n = Len(artifacts[id]) /\ intents[id].status = "UNKNOWN_REQUIRES_RECONCILIATION"
         /\ IsSell(id) => id[2] = entry[id[1]].exit /\ IsOpen(id[1])
         /\ ~IsSell(id) => entry[id[1]].reservation = "UNKNOWN_HELD"
<1> DEFINE b == id[1]
           m == id[2]
           s == artifacts[id]
           status == intents[id].status
<1>1. b \in Buys /\ m \in 0..MaxExits /\ id = <<b, m>>
  BY Zenon, IdFacts
<1>2. Ledger(m > 0, status, s)
  BY Zenon, <1>1 DEF LocalInv
<1>3. s \in Seq(ArtifactRow)
  BY Zenon DEF TypeOK
<1>4. ~Settled(m > 0, s[n])
  BY Zenon DEF Settled
<1>5. n = Len(s) /\ status \in Decisive
  BY SMTT(30), <1>2, <1>3, <1>4 DEF Ledger
<1>6. status = "UNKNOWN_REQUIRES_RECONCILIATION"
  BY Zenon, <1>2, <1>5 DEF Ledger, Fits, Decisive, Pending
<1>7. ASSUME m > 0 PROVE m = entry[b].exit /\ IsOpen(b)
  <2>1. m \in 1..MaxExits
    BY <1>1, <1>7, ExecutionLiveAssumption
  <2>2. SellFits(entry[b], m, status, s) /\ EntryShape(entry[b])
    BY Zenon, <1>1, <2>1 DEF LocalInv
  <2>3. entry[b].exit \in Nat
    BY <1>1, ExecutionLiveAssumption DEF TypeOK, EntryRow
  <2>4. m = entry[b].exit
    BY <1>6, <2>1, <2>2, <2>3 DEF SellFits
  <2>5. entry[b].auth = "LOCKED"
    BY Zenon, <1>6, <2>2, <2>4 DEF SellFits, Pending
  <2> QED
    BY Zenon, <2>2, <2>4, <2>5 DEF EntryShape, NoPosition, HasPosition, IsOpen
<1>8. ASSUME m = 0 PROVE entry[b].reservation = "UNKNOWN_HELD"
  <2>1. BuyFits(entry[b], status, s)
    BY Zenon, <1>1, <1>8 DEF LocalInv
  <2>2. Len(s) = 1
    <3>1. Len(s) \in Nat /\ n \in 1..Len(s)
      BY <1>3
    <3>2. Len(s) <= 1
      BY Zenon, <2>1 DEF BuyFits
    <3> QED
      BY Zenon, <3>1, <3>2, OnlyOne
  <2> QED
    BY ZenonT(40), <1>5, <1>6, <2>1, <2>2 DEF BuyFits, Pending
<1> QED
  BY <1>1, <1>5, <1>6, <1>7, <1>8, ExecutionLiveAssumption DEF IsSell

(* A reserved BUY leaves no room for an open position. *)
LEMMA ReservedExcludesOpen ==
  ASSUME \A b \in Buys : LocalInv(b), ExposureInv, NEW b \in Buys, IsReserved(b)
  PROVE  \A c \in Buys : ~IsOpen(c)
<1>1. ~IsOpen(b)
  BY Zenon DEF LocalInv, EntryShape, NoPosition, IsReserved, IsOpen
<1> QED
  BY Zenon, <1>1 DEF ExposureInv, Engaged

(* unknown_block stays as it is and nothing more is unknown. *)
LEMMA BlockKept ==
  ASSUME UnknownEffectBlocks, unknownBlock' = unknownBlock,
         \A b \in Buys : entry'[b].reservation = "UNKNOWN_HELD"
                           => entry[b].reservation = "UNKNOWN_HELD",
         \A id \in Ids : \A n \in 1..Len(artifacts'[id]) :
           artifacts'[id][n].evidence \in {"UNKNOWN", "MISMATCH"}
             => /\ n \in 1..Len(artifacts[id])
                /\ artifacts[id][n].evidence \in {"UNKNOWN", "MISMATCH"}
  PROVE  UnknownEffectBlocks'
BY Zenon DEF UnknownEffectBlocks, Held, UnresolvedEvidence

(* Workers. *)
Untouchable == Early \cup {"REVOKED_NO_SEND"}

Advanced(id) ==
  /\ intents[id].revision <= intents'[id].revision
  /\ Len(artifacts[id]) <= Len(artifacts'[id])
  /\ \A n \in 1..Len(artifacts[id]) :
       artifacts[id][n].state \notin Untouchable => artifacts'[id][n].state \notin Untouchable

(* The step leaves worker v alone: if v still owns its intent, then nobody *)
(* else has written it.                                                    *)
Undisturbed(id) ==
  /\ Len(artifacts'[id]) = Len(artifacts[id])
  /\ Moves(artifacts[id][Len(artifacts[id])].chain, artifacts'[id][Len(artifacts[id])].chain)

Steady(v) ==
  /\ worker'[v] = worker[v]
  /\ Engages(v) /\ Owns(v)' => Owns(v) /\ Undisturbed(worker[v].id)

(* An intent that a transaction decides has one, and its state fits the    *)
(* status.                                                                 *)
LEMMA DecisiveIsSigned ==
  ASSUME TypeOK, \A b \in Buys : LocalInv(b), NEW id \in Ids, intents[id].status \in Decisive
  PROVE  /\ artifacts[id] # <<>> /\ Latest(id) \in ArtifactRow
         /\ Latest(id) = artifacts[id][Len(artifacts[id])]
         /\ Len(artifacts[id]) \in Nat \ {0} /\ artifacts[id] \in Seq(ArtifactRow)
         /\ Fits(intents[id].status, Latest(id))
<1>1. artifacts[id] # <<>> /\ Fits(intents[id].status, artifacts[id][Len(artifacts[id])])
  <2>1. id[1] \in Buys /\ id[2] \in 0..MaxExits /\ id = <<id[1], id[2]>>
    BY Zenon, IdFacts
  <2>2. Ledger(id[2] > 0, intents[id].status, artifacts[id])
    BY Zenon, <2>1 DEF LocalInv
  <2> QED
    BY Zenon, <2>2 DEF Ledger
<1>2. ArtifactsOK
  BY Zenon DEF TypeOK, ArtifactsOK
<1> QED
  BY Zenon, <1>1, <1>2, LatestOK

(* A worker that owns its intent has a current claim. *)
LEMMA OwnsStatus ==
  ASSUME NEW w \in Workers, Owns(w)
  PROVE  /\ intents[worker[w].id].status = worker[w].claim.status
         /\ intents[worker[w].id].token = worker[w].claim.token
         /\ intents[worker[w].id].revision = worker[w].claim.revision
BY Zenon DEF Owns, Fenced, Row

(* A worker that a step leaves alone keeps what it may rely on. *)
LEMMA SteadyKeeps ==
  ASSUME TypeOK, TypeOK', \A b \in Buys : LocalInv(b),
         live \subseteq live', tokens <= tokens', \A id \in Ids : Advanced(id),
         NEW v \in Workers, WorkerInv(v), MemoryInv(v), Steady(v)
  PROVE  WorkerInv(v)' /\ MemoryInv(v)'
<1>1. worker'[v] = worker[v] /\ (Engages(v)' <=> Engages(v))
  BY Zenon DEF Steady, Engages
<1>2. CASE ~Engages(v)
  <2>1. worker[v].pc \in {"IDLE", "READY"}
    BY Zenon, <1>2 DEF Engages
  <2> QED
    BY Zenon, <1>1, <1>2, <2>1 DEF WorkerInv, MemoryInv
<1>3. CASE Engages(v)
  <2> DEFINE id == worker[v].id
             c == worker[v].claim
             s == artifacts[id]
             k == Len(artifacts[id])
  <2>1. /\ id \in live /\ c \in ClaimRow /\ ClaimStatus(worker[v].pc, c.status)
        /\ c.token \in 1..tokens /\ c.revision <= intents[id].revision
    BY ZenonT(40), <1>3 DEF WorkerInv
  <2>2. id \in Ids /\ tokens \in Nat /\ tokens' \in Nat
    BY <2>1 DEF TypeOK
  <2>3. Advanced(id)
    BY Zenon, <2>2
  <2>4. intents[id] \in IntentRow /\ intents'[id] \in IntentRow
    BY Zenon, <2>2 DEF TypeOK
  <2>5. WorkerInv(v)'
    <3>1. c.token \in 1..tokens'
      BY SMTT(30), <2>1, <2>2
    <3>2. c.revision \in Nat /\ intents[id].revision \in Nat /\ intents'[id].revision \in Nat
      BY ZenonT(40), <2>1, <2>4 DEF ClaimRow, IntentRow
    <3>3. c.revision <= intents'[id].revision
      BY <2>1, <2>3, <3>2 DEF Advanced
    <3> QED
      BY ZenonT(40), <1>1, <1>3, <2>1, <3>1, <3>3 DEF WorkerInv
  <2>6. s \in Seq(ArtifactRow) /\ artifacts'[id] \in Seq(ArtifactRow) /\ k \in Nat
    BY <2>2 DEF TypeOK
  <2>7. Owns(v)' => Owns(v) /\ Undisturbed(id)
    BY ZenonT(40), <1>3 DEF Steady
  <2>8. worker[v].pc = "SENDING" =>
          /\ c.attemptCount \in 1..Len(artifacts'[id])
          /\ artifacts'[id][c.attemptCount].state \notin Untouchable
    <3>1. worker[v].pc = "SENDING" => /\ c.attemptCount \in 1..Len(s)
                                      /\ s[c.attemptCount].state \notin Untouchable
      BY Zenon DEF MemoryInv, Untouchable
    <3> QED
      BY SMTT(30), <2>3, <2>6, <3>1 DEF Advanced
  <2>9. ASSUME Owns(v)', worker[v].pc \in {"READING", "DECIDED"}
        PROVE  /\ s[k] \in ArtifactRow /\ artifacts'[id][k] \in ArtifactRow
               /\ Latest(id) = s[k] /\ artifacts'[id][Len(artifacts'[id])] = artifacts'[id][k]
               /\ s[k].chain \in ChainStates /\ artifacts'[id][k].chain \in ChainStates
               /\ Moves(s[k].chain, artifacts'[id][k].chain)
    <3>1. intents[id].status = c.status
      BY Zenon, <2>7, <2>9, OwnsStatus
    <3>2. intents[id].status \in Decisive
      BY Zenon, <2>1, <2>9, <3>1 DEF ClaimStatus, Decisive, Pending
    <3>3. k \in Nat \ {0} /\ Latest(id) = s[k] /\ s[k] \in ArtifactRow
      BY Zenon, <2>2, <3>2, DecisiveIsSigned
    <3>4. Len(artifacts'[id]) = k /\ Moves(s[k].chain, artifacts'[id][k].chain)
      BY ZenonT(40), <2>7, <2>9 DEF Undisturbed
    <3>5. artifacts'[id][k] \in ArtifactRow
      BY <2>6, <3>3, <3>4
    <3> QED
      BY Zenon, <3>3, <3>4, <3>5 DEF ArtifactRow
  <2>10. Latest(id)' = artifacts'[id][Len(artifacts'[id])]
    BY Zenon, <1>1 DEF Latest
  <2>11. worker[v].pc \in {"RECOVERING", "PERSISTED", "SIMULATED"} /\ Owns(v)'
           => c.attemptCount = Len(artifacts'[id])
    BY ZenonT(40), <2>7 DEF MemoryInv, Undisturbed
  <2>12. worker[v].pc = "READING" /\ Owns(v)' => Moves(worker[v].view, Latest(id)'.chain)
    <3>1. worker[v].view \in ChainStates
      BY Zenon DEF TypeOK, WorkerRow
    <3> QED
      BY Zenon, <2>7, <2>9, <2>10, <3>1, MovesTwice DEF MemoryInv
  <2>13. worker[v].pc = "DECIDED" /\ Owns(v)' =>
          /\ worker[v].found = "MATCHED" => Latest(id)'.chain = Finalized("LANDED")
          /\ worker[v].found = "LANDED_FAILURE" =>
               IsSell(id) /\ Latest(id)'.chain = Finalized("FAILED")
          /\ worker[v].found = "NO_EFFECT" /\ PromptReads => Latest(id)'.chain = Dead
    <3> SUFFICES ASSUME worker[v].pc = "DECIDED", Owns(v)'
                 PROVE  /\ worker[v].found = "MATCHED" => Latest(id)'.chain = Finalized("LANDED")
                        /\ worker[v].found = "LANDED_FAILURE" =>
                             IsSell(id) /\ Latest(id)'.chain = Finalized("FAILED")
                        /\ worker[v].found = "NO_EFFECT" /\ PromptReads => Latest(id)'.chain = Dead
      BY Zenon
    <3> DEFINE x == s[k].chain
               y == artifacts'[id][k].chain
    <3>1. x \in ChainStates /\ y \in ChainStates /\ Moves(x, y) /\ Latest(id)'.chain = y
      BY ZenonT(40), <2>9, <2>10
    <3>2. /\ worker[v].found = "MATCHED" => x = Finalized("LANDED")
          /\ worker[v].found = "LANDED_FAILURE" => IsSell(id) /\ x = Finalized("FAILED")
          /\ worker[v].found = "NO_EFFECT" /\ PromptReads => x = Dead
      BY Zenon, <2>7, <2>9 DEF MemoryInv
    <3> HIDE DEF x, y, id
    <3>3. /\ x = Dead => y = Dead
          /\ \A o \in Outcomes : x = Finalized(o) => y = x
      BY Zenon, <3>1, MovesOn
    <3> QED
      BY Zenon, <3>1, <3>2, <3>3, ChainFacts
  <2>14. MemoryInv(v)'
    BY ZenonT(40), <1>1, <2>8, <2>11, <2>12, <2>13 DEF MemoryInv, Untouchable
  <2> QED
    BY Zenon, <2>5, <2>14
<1> QED
  BY Zenon, <1>2, <1>3

(* A step that writes only the intent id, and takes its lease from the     *)
(* worker v or lets it lapse, leaves v alone.                              *)
LEMMA SteadyUnlessTaken ==
  ASSUME WorkersInv, TypeOK, NEW v \in Workers, worker'[v] = worker[v], NEW id \in Ids,
         \A j \in Ids : j # id => intents'[j] = intents[j] /\ artifacts'[j] = artifacts[j],
         Engages(v) => intents'[id].token # worker[v].claim.token \/ intents'[id].lapsed
  PROVE  Steady(v)
<1> SUFFICES ASSUME Engages(v), Owns(v)'
             PROVE  Owns(v) /\ Undisturbed(worker[v].id)
  BY Zenon DEF Steady
<1>1. worker[v].id \in Ids
  BY Zenon DEF WorkersInv, WorkerInv, TypeOK
<1>2. intents'[worker[v].id].token = worker[v].claim.token /\ ~intents'[worker[v].id].lapsed
  BY Zenon DEF Owns, Fenced, Row
<1>3. worker[v].id # id
  BY Zenon, <1>2
<1>4. /\ intents'[worker[v].id] = intents[worker[v].id]
      /\ artifacts'[worker[v].id] = artifacts[worker[v].id]
  BY Zenon, <1>1, <1>3
<1> QED
  BY Zenon, <1>4 DEF Owns, Fenced, Row, Undisturbed, Moves

(* A step that leaves every worker alone. *)
LEMMA WorkersKept ==
  ASSUME TypeOK, \A b \in Buys : LocalInv(b), WorkersInv, TypeOK',
         live \subseteq live', tokens <= tokens', \A id \in Ids : Advanced(id),
         \A id \in Ids : intents'[id].token <= tokens' /\ Counted(intents'[id], artifacts'[id]),
         \A v \in Workers : Steady(v)
  PROVE  WorkersInv'
<1>1. \A v \in Workers : WorkerInv(v)' /\ MemoryInv(v)'
  BY Zenon, SteadyKeeps DEF WorkersInv
<1>2. \A v \in Workers : worker'[v] = worker[v]
  BY Zenon DEF Steady
<1> QED
  BY ZenonT(40), <1>1, <1>2 DEF WorkersInv, Engages

(* A step of worker w that leaves every other worker alone. *)
LEMMA WorkerSteps ==
  ASSUME TypeOK, \A b \in Buys : LocalInv(b), WorkersInv, TypeOK',
         live \subseteq live', tokens <= tokens', \A id \in Ids : Advanced(id),
         \A id \in Ids : intents'[id].token <= tokens' /\ Counted(intents'[id], artifacts'[id]),
         NEW w \in Workers, \A v \in Workers : v # w => Steady(v),
         WorkerInv(w)', MemoryInv(w)',
         Engages(w)' => \/ Engages(w) /\ worker'[w].claim.token = worker[w].claim.token
                        \/ worker'[w].claim.token > tokens
  PROVE  WorkersInv'
<1>1. \A v \in Workers : WorkerInv(v)' /\ MemoryInv(v)'
  BY Zenon, SteadyKeeps DEF WorkersInv
<1>2. \A v \in Workers : v # w => worker'[v] = worker[v]
  BY Zenon DEF Steady
<1>3. ASSUME NEW v \in Workers, v # w, Engages(v)', Engages(w)'
      PROVE  worker'[w].claim.token # worker'[v].claim.token
  <2>1. Engages(v) /\ worker'[v] = worker[v]
    BY ZenonT(40), <1>2, <1>3 DEF Engages
  <2>2. worker[v].claim.token \in 1..tokens /\ tokens \in Nat
    BY SMTT(30), <2>1 DEF WorkersInv, WorkerInv, TypeOK
  <2>3. CASE Engages(w) /\ worker'[w].claim.token = worker[w].claim.token
    BY ZenonT(40), <1>3, <2>1, <2>3 DEF WorkersInv
  <2>4. CASE worker'[w].claim.token > tokens
    <3>1. worker'[v].claim.token <= tokens /\ worker'[v].claim.token \in Nat
      BY SMTT(30), <2>1, <2>2
    <3>2. worker'[w].claim.token \in Nat
      BY Zenon, <1>1, <1>3 DEF WorkerInv, ClaimRow
    <3> QED
      BY SMTT(30), <2>2, <2>4, <3>1, <3>2
  <2> QED
    BY Zenon, <1>3, <2>3, <2>4
<1>4. ASSUME NEW u \in Workers, NEW v \in Workers, u # v, u # w, v # w, Engages(u)', Engages(v)'
      PROVE  worker'[u].claim.token # worker'[v].claim.token
  BY Zenon, <1>2, <1>4 DEF WorkersInv, Engages
<1>5. \A u, v \in Workers : u # v /\ Engages(u)' /\ Engages(v)'
         => worker'[u].claim.token # worker'[v].claim.token
  BY Zenon, <1>3, <1>4
<1> QED
  BY Zenon, <1>1, <1>5 DEF WorkersInv, Engages

(* Worker w, who owns the intent id or whose step ends its lease, writes it. *)
LEMMA IntentWritten ==
  ASSUME TypeOK, \A b \in Buys : LocalInv(b), WorkersInv, TypeOK',
         live \subseteq live', tokens' = tokens,
         NEW id \in Ids, NEW q \in IntentRow, intents' = [intents EXCEPT ![id] = q],
         \A j \in Ids : j # id => artifacts'[j] = artifacts[j],
         Advanced(id), Counted(q, artifacts'[id]),
         NEW w \in Workers, \A v \in Workers : v # w => worker'[v] = worker[v],
         q.token = 0 \/ (Engages(w) /\ q.token = worker[w].claim.token),
         WorkerInv(w)', MemoryInv(w)',
         Engages(w)' => Engages(w) /\ worker'[w].claim.token = worker[w].claim.token
  PROVE  WorkersInv'
<1>1. intents'[id] = q /\ \A j \in Ids : j # id => intents'[j] = intents[j]
  BY Zenon DEF TypeOK
<1>2. \A j \in Ids : j # id => Advanced(j)
  <2> SUFFICES ASSUME NEW j \in Ids, j # id PROVE Advanced(j)
    BY Zenon
  <2>1. intents[j].revision \in Nat /\ Len(artifacts[j]) \in Nat
    BY SMTT(30) DEF TypeOK, IntentRow
  <2> QED
    BY <1>1, <2>1 DEF Advanced
<1>3. \A v \in Workers : Engages(v) => worker[v].claim.token \in 1..tokens
  BY Zenon DEF WorkersInv, WorkerInv
<1>4. tokens \in Nat
  BY DEF TypeOK
<1>5. q.token <= tokens'
  BY SMTT(30), <1>3, <1>4
<1>6. \A v \in Workers : v # w => Steady(v)
  <2> SUFFICES ASSUME NEW v \in Workers, v # w PROVE Steady(v)
    BY Zenon
  <2>1. Engages(v) => q.token # worker[v].claim.token
    <3> SUFFICES ASSUME Engages(v) PROVE q.token # worker[v].claim.token
      BY Zenon
    <3>1. worker[v].claim.token # 0
      BY SMTT(30), <1>3, <1>4
    <3>2. Engages(w) => worker[w].claim.token # worker[v].claim.token
      BY ZenonT(40) DEF WorkersInv
    <3> QED
      BY Zenon, <3>1, <3>2
  <2> QED
    BY <1>1, <2>1, SteadyUnlessTaken
<1>7. \A j \in Ids : intents'[j].token <= tokens' /\ Counted(intents'[j], artifacts'[j])
  BY SMTT(30), <1>1, <1>5 DEF WorkersInv
<1>8. \A j \in Ids : Advanced(j)
  BY Zenon, <1>2
<1>9. tokens <= tokens'
  BY <1>4
<1> QED
  BY Zenon, <1>6, <1>7, <1>8, <1>9, WorkerSteps

(* Worker w goes on without writing an intent or a transaction. *)
LEMMA NothingWritten ==
  ASSUME TypeOK, \A b \in Buys : LocalInv(b), WorkersInv, TypeOK',
         live \subseteq live', tokens' = tokens, intents' = intents, artifacts' = artifacts
  PROVE  /\ (\A v \in Workers : worker'[v] = worker[v]) => WorkersInv'
         /\ \A w \in Workers :
              (/\ \A v \in Workers : v # w => worker'[v] = worker[v]
               /\ WorkerInv(w)' /\ MemoryInv(w)'
               /\ Engages(w)' => Engages(w) /\ worker'[w].claim.token = worker[w].claim.token)
              => WorkersInv'
<1>1. \A j \in Ids : Advanced(j)
  <2> SUFFICES ASSUME NEW j \in Ids PROVE Advanced(j)
    BY Zenon
  <2>1. intents[j].revision \in Nat /\ Len(artifacts[j]) \in Nat
    BY DEF TypeOK, IntentRow
  <2> QED
    BY <2>1 DEF Advanced
<1>2. \A j \in Ids : intents'[j].token <= tokens' /\ Counted(intents'[j], artifacts'[j])
  BY Zenon DEF WorkersInv
<1>3. \A v \in Workers : worker'[v] = worker[v] => Steady(v)
  BY Zenon DEF Steady, Owns, Fenced, Row, Undisturbed, Moves
<1>4. tokens <= tokens'
  BY SMTT(30) DEF TypeOK
<1>5. (\A v \in Workers : worker'[v] = worker[v]) => WorkersInv'
  BY ZenonT(40), <1>1, <1>2, <1>3, <1>4, WorkersKept
<1>6. ASSUME NEW w \in Workers, \A v \in Workers : v # w => worker'[v] = worker[v],
             WorkerInv(w)', MemoryInv(w)',
             Engages(w)' => Engages(w) /\ worker'[w].claim.token = worker[w].claim.token
      PROVE  WorkersInv'
  BY ZenonT(40), <1>1, <1>2, <1>3, <1>4, <1>6, WorkerSteps
<1> QED
  BY Zenon, <1>5, <1>6

(* How a worker goes on. *)
Turned(w, pc, id, c) ==
  /\ worker' \in [Workers -> WorkerRow]
  /\ \A v \in Workers : v # w => worker'[v] = worker[v]
  /\ worker'[w].pc = pc /\ worker'[w].id = id /\ worker'[w].claim = c

(* A worker becomes idle. *)
LEMMA IdleTurn ==
  ASSUME TypeOK, NEW w \in Workers, worker' = [worker EXCEPT ![w] = Idle]
  PROVE  Turned(w, "IDLE", NoIntent, NoClaim)
<1>1. Idle \in WorkerRow /\ Idle.pc = "IDLE" /\ Idle.id = NoIntent /\ Idle.claim = NoClaim
  BY Zenon, ChainFacts DEF Idle, WorkerRow, WorkerPcs, Unsent
<1> HIDE DEF Idle
<1> QED
  BY Zenon, <1>1 DEF Turned, TypeOK

(* A worker goes on with the same intent and the same claim. *)
LEMMA PcTurn ==
  ASSUME TypeOK, NEW w \in Workers, NEW pc \in WorkerPcs,
         worker' = [worker EXCEPT ![w].pc = pc]
  PROVE  Turned(w, pc, worker[w].id, worker[w].claim)
<1> DEFINE q == [worker[w] EXCEPT !.pc = pc]
<1>1. worker[w] \in WorkerRow
  BY Zenon DEF TypeOK
<1>2. q \in WorkerRow /\ q.pc = pc /\ q.id = worker[w].id /\ q.claim = worker[w].claim
  BY Zenon, <1>1 DEF WorkerRow
<1>3. worker' = [worker EXCEPT ![w] = q]
  BY Zenon
<1> HIDE DEF q
<1> QED
  BY ZenonT(40), <1>2, <1>3 DEF Turned, TypeOK

(* A worker goes on with what its reads have found. *)
LEMMA FoundTurn ==
  ASSUME TypeOK, NEW w \in Workers, NEW pc \in WorkerPcs,
         NEW found \in Results \cup {"LANDED_FAILURE", "NONE", "PRESENT", "MISSING"},
         worker' = [worker EXCEPT ![w].pc = pc, ![w].found = found]
  PROVE  Turned(w, pc, worker[w].id, worker[w].claim) /\ worker'[w].found = found
<1> DEFINE m == [worker[w] EXCEPT !.pc = pc]
           q == [m EXCEPT !.found = found]
<1>1. worker[w] \in WorkerRow /\ worker \in [Workers -> WorkerRow]
  BY Zenon DEF TypeOK
<1>2. m \in WorkerRow /\ m.pc = pc /\ m.id = worker[w].id /\ m.claim = worker[w].claim
  BY Zenon, <1>1 DEF WorkerRow
<1>3. worker' = [worker EXCEPT ![w] = q]
  BY Zenon, <1>1
<1> HIDE DEF m
<1>4. /\ q \in WorkerRow /\ q.pc = pc /\ q.id = worker[w].id /\ q.claim = worker[w].claim
      /\ q.found = found
  BY Zenon, <1>2 DEF WorkerRow
<1> HIDE DEF q
<1> QED
  BY ZenonT(40), <1>1, <1>3, <1>4 DEF Turned

(* A worker goes on with the state of the chain when its reads began. *)
LEMMA ViewTurn ==
  ASSUME TypeOK, NEW w \in Workers, NEW pc \in WorkerPcs, NEW view \in ChainStates,
         worker' = [worker EXCEPT ![w].pc = pc, ![w].view = view]
  PROVE  Turned(w, pc, worker[w].id, worker[w].claim) /\ worker'[w].view = view
<1> DEFINE m == [worker[w] EXCEPT !.pc = pc]
           q == [m EXCEPT !.view = view]
<1>1. worker[w] \in WorkerRow /\ worker \in [Workers -> WorkerRow]
  BY Zenon DEF TypeOK
<1>2. m \in WorkerRow /\ m.pc = pc /\ m.id = worker[w].id /\ m.claim = worker[w].claim
  BY Zenon, <1>1 DEF WorkerRow
<1>3. worker' = [worker EXCEPT ![w] = q]
  BY Zenon, <1>1
<1> HIDE DEF m
<1>4. /\ q \in WorkerRow /\ q.pc = pc /\ q.id = worker[w].id /\ q.claim = worker[w].claim
      /\ q.view = view
  BY ZenonT(40), <1>2 DEF WorkerRow
<1> HIDE DEF q
<1> QED
  BY ZenonT(40), <1>1, <1>3, <1>4 DEF Turned

(* A worker goes on with the row it has written. *)
LEMMA GoesTurn ==
  ASSUME TypeOK, NEW w \in Workers, NEW pc \in WorkerPcs, NEW r \in IntentRow,
         worker' \in {Goes(w, pc, r), GoesHolding(w, pc, r)}
  PROVE  Turned(w, pc, worker[w].id, ClaimOf(r))
<1> DEFINE c == ClaimOf(r)
           m == [worker[w] EXCEPT !.pc = pc]
           k == [m EXCEPT !.claim = c]
           q == [k EXCEPT !.held = c]
<1>1. worker[w] \in WorkerRow /\ worker \in [Workers -> WorkerRow] /\ c \in ClaimRow
  BY Zenon, ClaimOfFacts DEF TypeOK
<1>2. m \in WorkerRow /\ m.pc = pc /\ m.id = worker[w].id
  BY Zenon, <1>1 DEF WorkerRow
<1> HIDE DEF c
<1>3. Goes(w, pc, r) = [worker EXCEPT ![w] = k]
  BY Zenon, <1>1 DEF Goes, c
<1>4. GoesHolding(w, pc, r) = [worker EXCEPT ![w] = q]
  <2> DEFINE g == [worker EXCEPT ![w] = k]
  <2>1. GoesHolding(w, pc, r) = [g EXCEPT ![w] = [g[w] EXCEPT !.held = c]]
    BY Zenon, <1>3 DEF GoesHolding, c
  <2>2. g[w] = k /\ DOMAIN g = DOMAIN worker
    BY Zenon, <1>1
  <2> HIDE DEF k
  <2> QED
    BY ZenonT(40), <1>1, <2>1, <2>2
<1> HIDE DEF m
<1>5. k \in WorkerRow /\ k.pc = pc /\ k.id = worker[w].id /\ k.claim = c
  BY Zenon, <1>1, <1>2 DEF WorkerRow
<1> HIDE DEF k
<1>6. q \in WorkerRow /\ q.pc = pc /\ q.id = worker[w].id /\ q.claim = c
  BY ZenonT(40), <1>1, <1>5 DEF WorkerRow
<1> HIDE DEF q
<1> QED
  BY SMTT(30), <1>1, <1>3, <1>4, <1>5, <1>6 DEF Turned, c

(* A worker that goes on with a current claim. *)
LEMMA ClaimHeld ==
  ASSUME NEW w \in Workers, NEW pc, NEW id, NEW c \in ClaimRow, Turned(w, pc, id, c),
         pc \notin {"IDLE", "READY"}, ClaimStatus(pc, c.status), id \in live',
         c.token \in 1..tokens', c.revision <= intents'[id].revision
  PROVE  WorkerInv(w)' /\ Engages(w)'
BY ZenonT(40) DEF Turned, WorkerInv, Engages

(* An idle worker relies on nothing. *)
LEMMA IdleMeansNothing ==
  ASSUME NEW w \in Workers, NEW c, Turned(w, "IDLE", NoIntent, c) \/ Turned(w, "READY", NoIntent, c)
  PROVE  WorkerInv(w)' /\ MemoryInv(w)' /\ ~Engages(w)'
BY Zenon DEF Turned, WorkerInv, MemoryInv, Engages

(* What is known of one intent. *)
LEMMA IdLocal ==
  ASSUME LiveInv, NEW id \in Ids
  PROVE  /\ id[1] \in Buys /\ id[2] \in 0..MaxExits /\ id = <<id[1], id[2]>>
         /\ entry[id[1]] \in EntryRow /\ EntryShape(entry[id[1]])
         /\ intents[id] \in IntentRow /\ artifacts[id] \in Seq(ArtifactRow)
         /\ Len(artifacts[id]) \in Nat
         /\ Ledger(IsSell(id), intents[id].status, artifacts[id])
         /\ Counted(intents[id], artifacts[id])
         /\ ~IsSell(id) => /\ id = <<id[1], 0>>
                           /\ BuyFits(entry[id[1]], intents[id].status, artifacts[id])
                           /\ id \in live \/ entry[id[1]].armament = "NONE"
         /\ IsSell(id) => /\ id[2] \in 1..MaxExits
                          /\ SellFits(entry[id[1]], id[2], intents[id].status, artifacts[id])
                          /\ id \in live <=> id[2] <= entry[id[1]].exit
<1>1. id[1] \in Buys /\ id[2] \in 0..MaxExits /\ id = <<id[1], id[2]>>
  BY Zenon, IdFacts
<1>2. LocalInv(id[1])
  BY ZenonT(40), <1>1 DEF LiveInv, DatabaseInv
<1>3. /\ entry[id[1]] \in EntryRow /\ intents[id] \in IntentRow /\ artifacts[id] \in Seq(ArtifactRow)
      /\ Len(artifacts[id]) \in Nat /\ Counted(intents[id], artifacts[id])
  BY SMTT(30), <1>1 DEF LiveInv, TypeOK, WorkersInv
<1>4. EntryShape(entry[id[1]]) /\ Ledger(IsSell(id), intents[id].status, artifacts[id])
  BY Zenon, <1>1, <1>2 DEF LocalInv, IsSell
<1>5. ASSUME ~IsSell(id)
      PROVE  /\ id = <<id[1], 0>>
             /\ BuyFits(entry[id[1]], intents[id].status, artifacts[id])
             /\ id \in live \/ entry[id[1]].armament = "NONE"
  <2>1. id[2] = 0
    BY SMTT(30), <1>1, <1>5, ExecutionLiveAssumption DEF IsSell
  <2> QED
    BY ZenonT(40), <1>1, <1>2, <2>1 DEF LocalInv
<1>6. ASSUME IsSell(id)
      PROVE  /\ id[2] \in 1..MaxExits
             /\ SellFits(entry[id[1]], id[2], intents[id].status, artifacts[id])
             /\ id \in live <=> id[2] <= entry[id[1]].exit
  <2>1. id[2] \in 1..MaxExits
    BY SMTT(30), <1>1, <1>6, ExecutionLiveAssumption DEF IsSell
  <2> QED
    BY ZenonT(40), <1>1, <1>2, <2>1 DEF LocalInv
<1> QED
  BY ZenonT(40), <1>1, <1>3, <1>4, <1>5, <1>6

(* A worker in possession of its intent. *)
LEMMA OwnerFacts ==
  ASSUME LiveInv, NEW w \in Workers, Engages(w)
  PROVE  /\ worker[w].id \in Ids /\ worker[w].id \in live
         /\ worker[w].claim \in ClaimRow /\ worker[w].claim.token \in 1..tokens
         /\ worker[w].claim.token # 0 /\ tokens \in Nat
         /\ ClaimStatus(worker[w].pc, worker[w].claim.status)
         /\ Row(w) = intents[worker[w].id] /\ Row(w) \in IntentRow
         /\ worker[w].claim.revision <= intents[worker[w].id].revision
         /\ Owns(w) => /\ intents[worker[w].id].status = worker[w].claim.status
                       /\ intents[worker[w].id].token = worker[w].claim.token
                       /\ intents[worker[w].id].revision = worker[w].claim.revision
<1>1. /\ worker[w].id \in live /\ worker[w].claim \in ClaimRow
      /\ ClaimStatus(worker[w].pc, worker[w].claim.status)
      /\ worker[w].claim.token \in 1..tokens
      /\ worker[w].claim.revision <= intents[worker[w].id].revision
  BY Zenon DEF LiveInv, WorkersInv, WorkerInv
<1>2. tokens \in Nat /\ live \subseteq Ids /\ intents \in [Ids -> IntentRow]
  BY SMTT(30) DEF LiveInv, TypeOK
<1> QED
  BY SMTT(30), <1>1, <1>2, OwnsStatus DEF Row

(* What a step leaves of the database. *)
LEMMA Wrote ==
  ASSUME LiveInv, NEW id \in Ids, live' = live,
         id \in live \/ entry'[id[1]].armament = "NONE",
         IsSell(id) => id[2] = entry[id[1]].exit, ~IsSell(id) => entry[id[1]].exit = 0,
         \A j \in Ids : j # id => /\ intents'[j].status = intents[j].status
                                  /\ artifacts'[j] = artifacts[j],
         \A c \in Buys : c # id[1] => entry'[c] = entry[c],
         entry'[id[1]].exit = entry[id[1]].exit,
         IsSell(id) => /\ entry'[id[1]].lock = entry[id[1]].lock
                       /\ entry'[id[1]].reservation = entry[id[1]].reservation,
         EntryShape(entry'[id[1]]),
         Ledger(IsSell(id), intents'[id].status, artifacts'[id]),
         ~IsSell(id) => BuyFits(entry'[id[1]], intents'[id].status, artifacts'[id]),
         IsSell(id) => SellFits(entry'[id[1]], id[2], intents'[id].status, artifacts'[id])
  PROVE  \A c \in Buys : LocalInv(c)'
<1>1. id[1] \in Buys /\ id = <<id[1], id[2]>>
  BY Zenon, IdFacts
<1>2. \A c \in Buys : LocalInv(c)
  BY Zenon DEF LiveInv, DatabaseInv
<1>3. CASE ~IsSell(id)
  <2>1. id = <<id[1], 0>>
    BY Zenon, <1>3, IdLocal
  <2>2. Ledger(FALSE, intents'[id].status, artifacts'[id])
    BY Zenon, <1>3 DEF Ledger, Settled
  <2> DEFINE b == id[1]
  <2> HIDE DEF b
  <2>3. id = <<b, 0>> /\ b \in Buys /\ b = id[1]
    BY Zenon, <1>1, <2>1 DEF b
  <2> QED
    BY ZenonT(40), <1>2, <1>3, <2>2, <2>3, BuyWrite
<1>4. CASE IsSell(id)
  <2>1. id[2] \in 1..MaxExits
    BY Zenon, <1>4, IdLocal
  <2>2. Ledger(TRUE, intents'[id].status, artifacts'[id])
    BY Zenon, <1>4 DEF Ledger, Settled
  <2> DEFINE b == id[1]
             n == id[2]
  <2> HIDE DEF b, n
  <2>3. id = <<b, n>> /\ b \in Buys /\ b = id[1] /\ n = id[2] /\ n \in 1..MaxExits
    BY Zenon, <1>1, <2>1 DEF b, n
  <2>4. n = entry[b].exit /\ entry'[b].exit = n
    BY ZenonT(40), <1>4, <2>3
  <2> QED
    BY ZenonT(40), <1>2, <1>4, <2>2, <2>3, <2>4, SellWrite
<1> QED
  BY ZenonT(40), <1>3, <1>4

Unsigned == {"PENDING", "RETRY_READY", "PROCESSING"}

(* A BUY that has not succeeded has no position, and a live exit that is   *)
(* not dead is the current one.                                            *)
LEMMA ExitOfId ==
  ASSUME LiveInv, NEW id \in Ids, intents[id].status \notin {"SUCCEEDED"}
  PROVE  /\ ~IsSell(id) => NoPosition(entry[id[1]])
         /\ IsSell(id) /\ id \in live /\ intents[id].status \notin {"FAILED", "EXPIRED"}
              => id[2] = entry[id[1]].exit
<1> DEFINE b == id[1]
<1>1. ~IsSell(id) => NoPosition(entry[b])
  BY ZenonT(40), IdLocal DEF BuyFits, EntryShape
<1>2. ASSUME IsSell(id), id \in live, intents[id].status \notin {"FAILED", "EXPIRED"}
      PROVE  id[2] = entry[b].exit
  <2>1. /\ id[2] \in 1..MaxExits /\ id[2] <= entry[b].exit /\ entry[b] \in EntryRow
        /\ SellFits(entry[b], id[2], intents[id].status, artifacts[id])
    BY ZenonT(40), <1>2, IdLocal
  <2>2. entry[b].exit \in Nat
    BY SMTT(30), <2>1, ExecutionLiveAssumption DEF EntryRow
  <2>3. ~(id[2] < entry[b].exit)
    BY Zenon, <1>2, <2>1 DEF SellFits
  <2> QED
    BY SMTT(30), <2>1, <2>2, <2>3, ExecutionLiveAssumption
<1> QED
  BY Zenon, <1>1, <1>2

(* Only the status of one intent changes, and no signed transaction of it  *)
(* is unsettled.                                                           *)
LEMMA StatusWritten ==
  ASSUME LiveInv, UNCHANGED <<entry, artifacts, live, exposure, unknownBlock>>, NEW id \in Ids,
         \A j \in Ids : j # id => intents'[j].status = intents[j].status,
         \/ intents'[id].status = intents[id].status
         \/ /\ intents[id].status \in Unsigned /\ (id \in live \/ ~IsSell(id))
            /\ intents'[id].status \in {"PROCESSING", "FAILED", "EXPIRED"}
  PROVE  DatabaseInv'
<1>1. \A b \in Buys : LocalInv(b)'
  <2>1. CASE intents'[id].status = intents[id].status
    <3>1. \A j \in Ids : intents'[j].status = intents[j].status
      BY Zenon, <2>1
    <3>2. \A b \in Buys : Same(b)
      BY ZenonT(40), <3>1, IdFacts DEF Same
    <3> QED
      BY ZenonT(40), <3>2, LocalFrame DEF LiveInv, DatabaseInv
  <2>2. CASE /\ intents[id].status \in Unsigned /\ (id \in live \/ ~IsSell(id))
             /\ intents'[id].status \in {"PROCESSING", "FAILED", "EXPIRED"}
    <3> DEFINE b == id[1]
    <3>1. /\ ~IsSell(id) => entry[b].exit = 0
          /\ IsSell(id) => id[2] = entry[b].exit
      BY ZenonT(40), <2>2, ExitOfId DEF Unsigned, NoPosition
    <3>2. Ledger(IsSell(id), intents'[id].status, artifacts'[id])
      BY ZenonT(40), <2>2, IdLocal DEF Ledger, Unsigned, Decisive, Pending
    <3>3. ~IsSell(id) => BuyFits(entry'[b], intents'[id].status, artifacts'[id])
      BY ZenonT(40), <2>2, IdLocal DEF BuyFits, Unsigned, Decisive, Pending
    <3>4. IsSell(id) => SellFits(entry'[b], id[2], intents'[id].status, artifacts'[id])
      BY ZenonT(40), <2>2, <3>1, IdLocal DEF SellFits, Unsigned, Pending
    <3>5. EntryShape(entry'[b]) /\ (id \in live \/ entry'[b].armament = "NONE")
      BY Zenon, <2>2, IdLocal
    <3> QED
      BY ZenonT(40), <3>1, <3>2, <3>3, <3>4, <3>5, Wrote
  <2> QED
    BY Zenon, <2>1, <2>2
<1>2. ExposureInv'
  BY Zenon, EngagementKept DEF LiveInv, DatabaseInv, Engaged, IsReserved, IsOpen
<1>3. UnknownEffectBlocks'
  BY Zenon DEF LiveInv, DatabaseInv, UnknownEffectBlocks, Held, UnresolvedEvidence
<1> QED
  BY ZenonT(40), <1>1, <1>2, <1>3 DEF DatabaseInv

(* The executor up to the signature, and the leases. *)
LEMMA RowWritten ==
  ASSUME LiveInv, NEW id \in Ids, NEW q \in IntentRow, intents' = [intents EXCEPT ![id] = q],
         artifacts' = artifacts, q.revision >= intents[id].revision
  PROVE  Advanced(id)
<1>1. intents'[id] = q /\ intents[id].revision \in Nat /\ q.revision \in Nat
      /\ Len(artifacts[id]) \in Nat
  BY SMTT(30) DEF LiveInv, TypeOK, IntentRow
<1> QED
  BY <1>1 DEF Advanced

(* Worker w writes an intent before anything of this attempt is signed. *)
LEMMA UnsignedWrite ==
  ASSUME LiveInv, NEW w \in Workers, NEW id \in Ids, NEW q \in IntentRow,
         intents' = [intents EXCEPT ![id] = q],
         UNCHANGED <<unknownBlock, exposure, live, entry, artifacts, tokens>>,
         control' \in ControlStates,
         q.revision >= intents[id].revision, Counted(q, artifacts[id]),
         \/ q.status = intents[id].status
         \/ /\ intents[id].status \in Unsigned /\ (id \in live \/ ~IsSell(id))
            /\ q.status \in {"PROCESSING", "FAILED", "EXPIRED"},
         \/ q.token = 0 /\ Turned(w, "IDLE", NoIntent, NoClaim)
         \/ /\ Engages(w) /\ worker[w].id = id /\ q.token = worker[w].claim.token
            /\ q.status = "PROCESSING"
            /\ \/ Turned(w, "STARTED", id, ClaimOf(q))
               \/ Turned(w, "EVALUATING", id, ClaimOf(q)),
         worker' \in [Workers -> WorkerRow]
  PROVE  LiveInv'
<1>1. intents'[id] = q /\ \A j \in Ids : j # id => intents'[j] = intents[j]
  BY Zenon DEF LiveInv, TypeOK
<1>2. TypeOK'
  BY Zenon DEF LiveInv, TypeOK
<1>3. DatabaseInv'
  BY Zenon, <1>1, StatusWritten
<1>4. Advanced(id)
  BY ZenonT(40), RowWritten
<1>5. TypeOK /\ (\A b \in Buys : LocalInv(b)) /\ WorkersInv
  BY Zenon DEF LiveInv, DatabaseInv
<1>6. CASE q.token = 0 /\ Turned(w, "IDLE", NoIntent, NoClaim)
  <2>1. WorkersInv'
    BY ZenonT(40), <1>2, <1>4, <1>5, <1>6, IdleMeansNothing, IntentWritten DEF Turned
  <2> QED
    BY ZenonT(40), <1>2, <1>3, <2>1 DEF LiveInv
<1>7. CASE /\ Engages(w) /\ worker[w].id = id /\ q.token = worker[w].claim.token
           /\ q.status = "PROCESSING"
           /\ \/ Turned(w, "STARTED", id, ClaimOf(q))
              \/ Turned(w, "EVALUATING", id, ClaimOf(q))
  <2>1. /\ worker'[w].pc \in {"STARTED", "EVALUATING"} /\ worker'[w].id = id
        /\ worker'[w].claim = ClaimOf(q)
        /\ \A v \in Workers : v # w => worker'[v] = worker[v]
    BY ZenonT(40), <1>7 DEF Turned
  <2>2. /\ ClaimOf(q) \in ClaimRow /\ ClaimOf(q).status = "PROCESSING"
        /\ ClaimOf(q).token = q.token /\ ClaimOf(q).revision = q.revision
    BY ZenonT(40), <1>7, ClaimOfFacts
  <2>3. WorkerInv(w)'
    <3>1. id \in live' /\ q.token \in 1..tokens'
      BY ZenonT(40), <1>7, OwnerFacts
    <3>2. q.revision <= intents'[id].revision
      BY SMTT(30), <1>1 DEF IntentRow
    <3>3. ClaimStatus("STARTED", "PROCESSING") /\ ClaimStatus("EVALUATING", "PROCESSING")
      BY Zenon DEF ClaimStatus
    <3> QED
      BY SMTT(30), <1>7, <2>2, <3>1, <3>2, <3>3, ClaimHeld
  <2>4. MemoryInv(w)'
    BY Zenon, <2>1 DEF MemoryInv
  <2>5. Engages(w)' => Engages(w) /\ worker'[w].claim.token = worker[w].claim.token
    BY ZenonT(40), <1>7, <2>1, <2>2
  <2>6. WorkersInv'
    BY ZenonT(40), <1>2, <1>4, <1>5, <1>7, <2>1, <2>3, <2>4, <2>5, IntentWritten
  <2> QED
    BY Zenon, <1>2, <1>3, <2>6 DEF LiveInv
<1> QED
  BY Zenon, <1>6, <1>7

(* A terminal row: whoever owned it does not any more. *)
LEMMA EndedFacts ==
  ASSUME NEW r \in IntentRow, NEW outcome \in {"COMPLETED", "ABANDONED"},
         NEW next \in TerminalStatuses
  PROVE  LET q == Moved(AttemptEnded(r, outcome), next)
         IN /\ q \in IntentRow /\ q.status = next /\ q.token = 0
            /\ q.revision = r.revision + 1 /\ q.revision >= r.revision
            /\ ~HasStarted(q) /\ Len(q.attempts) = Len(r.attempts)
            /\ \A s : Counted(q, s)
<1> DEFINE m == AttemptEnded(r, outcome)
           q == Moved(m, next)
<1>1. /\ m \in IntentRow /\ m.revision = r.revision
      /\ ~HasStarted(m) /\ Len(m.attempts) = Len(r.attempts)
  BY ZenonT(40), AttemptEndedFacts
<1> HIDE DEF m
<1>2. /\ q \in IntentRow /\ q.status = next /\ q.token = 0
      /\ q.revision = m.revision + 1 /\ q.attempts = m.attempts
  BY <1>1, MovedFacts DEF TerminalStatuses, Statuses
<1> HIDE DEF q
<1>3. \A s : Counted(q, s)
  BY Zenon, <1>2 DEF Counted, TerminalStatuses, Pending
<1>4. r.revision \in Nat
  BY Zenon DEF IntentRow
<1>5. ~HasStarted(q) /\ Len(q.attempts) = Len(r.attempts)
  BY ZenonT(40), <1>1, <1>2 DEF HasStarted
<1> QED
  BY SMTT(30), <1>1, <1>2, <1>3, <1>4, <1>5 DEF m, q

(* Nothing of the database changes. *)
LEMMA DatabaseFrame ==
  ASSUME LiveInv, UNCHANGED <<unknownBlock, exposure, intents, live, entry, artifacts>>
  PROVE  DatabaseInv'
<1>1. \A b \in Buys : LocalInv(b)'
  BY Zenon DEF LiveInv, DatabaseInv, LocalInv
<1>2. ExposureInv'
  BY Zenon, EngagementKept DEF LiveInv, DatabaseInv, Engaged, IsReserved, IsOpen
<1>3. UnknownEffectBlocks'
  BY Zenon DEF LiveInv, DatabaseInv, UnknownEffectBlocks, Held, UnresolvedEvidence
<1> QED
  BY ZenonT(40), <1>1, <1>2, <1>3 DEF DatabaseInv

(* A worker goes on without writing anything. *)
LEMMA QuietStep ==
  ASSUME LiveInv, UNCHANGED <<control, unknownBlock, exposure, intents, live, entry, artifacts, tokens>>,
         NEW w \in Workers, NEW pc, NEW id, NEW c, Turned(w, pc, id, c),
         WorkerInv(w)', MemoryInv(w)',
         Engages(w)' => Engages(w) /\ worker'[w].claim.token = worker[w].claim.token
  PROVE  LiveInv'
<1>1. TypeOK'
  BY Zenon DEF LiveInv, TypeOK, Turned
<1>2. DatabaseInv'
  BY Zenon, DatabaseFrame
<1>3. TypeOK /\ (\A b \in Buys : LocalInv(b)) /\ WorkersInv
  BY Zenon DEF LiveInv, DatabaseInv
<1>4. WorkersInv'
  BY ZenonT(40), <1>1, <1>3, NothingWritten DEF Turned
<1> QED
  BY ZenonT(40), <1>1, <1>2, <1>4 DEF LiveInv

(* Writes of an intent whose latest transaction is pending. *)
BuyAfter(e, status, a) ==
  /\ e.lock = "SIGNED_PERSISTED" /\ status # "RETRY_READY"
  /\ status = "SUCCEEDED" <=> e.reservation = "CONSUMED"
  /\ status \in Pending =>
       /\ e.reservation \in {"RESERVED", "UNKNOWN_HELD"}
       /\ e.reservation = "UNKNOWN_HELD" => status = "UNKNOWN_REQUIRES_RECONCILIATION"
       /\ a.evidence # "NONE" => e.reservation = "UNKNOWN_HELD"
  /\ status \notin Decisive => status = "FAILED" /\ e.reservation = "RELEASED"

SellAfter(e, status) ==
  IF status \in Pending
  THEN /\ e.auth = "LOCKED"
       /\ e.position = "UNKNOWN" => status = "UNKNOWN_REQUIRES_RECONCILIATION"
  ELSE IF status = "SUCCEEDED" THEN e.position = "CLOSED" ELSE e.auth = "ACTIVE"

(* The new latest transaction fits the new status. *)
LEMMA LedgerRewritten ==
  ASSUME NEW id \in Ids, artifacts[id] \in Seq(ArtifactRow), NEW sell \in BOOLEAN,
         NEW old \in Decisive, Ledger(sell, old, artifacts[id]),
         NEW a, Rewritten(id, a), NEW status,
         status \notin {"SIMULATED", "RECONCILING", "CANCELLED"},
         status \in Decisive => Fits(status, a),
         status \notin Decisive => Settled(sell, a)
  PROVE  Ledger(sell, status, artifacts'[id])
<1> DEFINE s == artifacts[id]
           k == Len(artifacts[id])
           t == artifacts'[id]
<1>1. k \in Nat /\ Len(t) = k /\ t # <<>> /\ t[k] = a
      /\ \A n \in 1..k : n # k => t[n] = s[n]
  BY DEF Rewritten
<1>2. \A n \in 1..k : n < k => Settled(sell, s[n])
  BY Zenon DEF Ledger
<1> HIDE DEF k, t, s
<1>3. \A n \in 1..k : n < k \/ status \notin Decisive => Settled(sell, t[n])
  BY SMTT(30), <1>1, <1>2
<1> QED
  BY ZenonT(40), <1>1, <1>3 DEF Ledger, t

(* The new latest transaction fits the entry of the BUY. *)
LEMMA BuyRewritten ==
  ASSUME NEW id \in Ids, artifacts[id] \in Seq(ArtifactRow), NEW e, NEW old, NEW f, NEW status,
         artifacts[id] # <<>>, BuyFits(f, old, artifacts[id]),
         NEW a, Rewritten(id, a), BuyAfter(e, status, a)
  PROVE  BuyFits(e, status, artifacts'[id])
<1> DEFINE k == Len(artifacts[id])
           t == artifacts'[id]
<1>1. k \in Nat /\ k <= 1 /\ k # 0
  BY DEF BuyFits
<1>2. Len(t) = k /\ t # <<>> /\ t[k] = a
  BY ZenonT(40) DEF Rewritten
<1> HIDE DEF k, t
<1>3. k = 1
  BY <1>1
<1>4. Len(t) <= 1 /\ t[1] = a
  BY SMTT(30), <1>2, <1>3
<1> QED
  BY ZenonT(40), <1>2, <1>4 DEF BuyFits, BuyAfter, t

(* The parts of such a write: the row q of the intent, its latest          *)
(* transaction a, the entry, the wallet's risk state and the worker.       *)
WritesRow(w, id, q) ==
  /\ intents' = [intents EXCEPT ![id] = q] /\ live' = live /\ tokens' = tokens
  /\ q.revision >= intents[id].revision /\ q.token \in {0, worker[w].claim.token}
  /\ Counted(q, artifacts[id])

WritesTransaction(id, status, a) ==
  /\ Rewritten(id, a) /\ a.chain = Latest(id).chain
  /\ Latest(id).state \notin Untouchable => a.state \notin Untouchable
  /\ status \notin {"SIMULATED", "RECONCILING", "CANCELLED"}
  /\ status \in Decisive => Fits(status, a)
  /\ status \notin Decisive => Settled(IsSell(id), a)

WritesEntry(id, status, a) ==
  /\ entry' \in [Buys -> EntryRow] /\ \A c \in Buys : c # id[1] => entry'[c] = entry[c]
  /\ entry'[id[1]].exit = entry[id[1]].exit /\ EntryShape(entry'[id[1]])
  /\ ~IsSell(id) => BuyAfter(entry'[id[1]], status, a)
  /\ IsSell(id) => /\ SellAfter(entry'[id[1]], status)
                   /\ entry'[id[1]].lock = entry[id[1]].lock
                   /\ entry'[id[1]].reservation = entry[id[1]].reservation

WritesRisk ==
  control' \in ControlStates /\ unknownBlock' \in BOOLEAN /\ ExposureInv' /\ UnknownEffectBlocks'

GoesOn(w) ==
  /\ worker' \in [Workers -> WorkerRow] /\ \A v \in Workers : v # w => worker'[v] = worker[v]
  /\ WorkerInv(w)' /\ MemoryInv(w)'
  /\ Engages(w)' => worker'[w].claim.token = worker[w].claim.token

(* Worker w writes the intent it owns, its latest transaction and the      *)
(* entry, after the signature. Every outcome of a submission, a            *)
(* confirmation and a reconciliation is such a write.                      *)
LEMMA SignedWrite ==
  ASSUME LiveInv, NEW w \in Workers, Engages(w), NEW id \in Ids, id = worker[w].id,
         intents[id].status \in Pending, NEW q \in IntentRow, WritesRow(w, id, q),
         NEW a \in ArtifactRow, WritesTransaction(id, q.status, a), WritesEntry(id, q.status, a),
         WritesRisk, GoesOn(w)
  PROVE  LiveInv'
<1>1. /\ TypeOK /\ (\A b \in Buys : LocalInv(b)) /\ WorkersInv
  BY Zenon DEF LiveInv, DatabaseInv
<1>2. /\ intents' = [intents EXCEPT ![id] = q] /\ live' = live /\ tokens' = tokens
      /\ Rewritten(id, a)
  BY Zenon DEF WritesRow, WritesTransaction
<1>3. intents'[id] = q /\ \A j \in Ids : j # id => intents'[j] = intents[j]
  BY ZenonT(40), <1>1, <1>2 DEF TypeOK
<1>4. TypeOK'
  <2>1. exposure' \in Nat
    BY DEF WritesRisk, ExposureInv
  <2>2. intents' \in [Ids -> IntentRow] /\ artifacts' \in [Ids -> Seq(ArtifactRow)]
    BY ONLY ZenonT(40), <1>1, <1>2 DEF TypeOK, Rewritten, ArtifactsOK
  <2> QED
    BY ONLY ZenonT(40), <1>1, <1>2, <2>1, <2>2, WritesEntry(id, q.status, a), WritesRisk, GoesOn(w)
       DEF TypeOK, WritesEntry, WritesRisk, GoesOn
<1>5. intents[id].status \in Decisive /\ intents[id].status \notin {"SUCCEEDED", "FAILED", "EXPIRED"}
  BY Zenon DEF Decisive, Pending
<1>6. id \in live
  BY ZenonT(40), OwnerFacts
<1>7. /\ IsSell(id) => id[2] = entry[id[1]].exit
      /\ ~IsSell(id) => entry[id[1]].exit = 0
  BY ONLY ZenonT(40), <1>5, <1>6, ExitOfId, LiveInv DEF NoPosition
<1>8. artifacts[id] \in Seq(ArtifactRow) /\ Ledger(IsSell(id), intents[id].status, artifacts[id])
  BY ONLY ZenonT(40), IdLocal, LiveInv
<1>9. Ledger(IsSell(id), q.status, artifacts'[id])
  <2>1. IsSell(id) \in BOOLEAN
    BY DEF IsSell
  <2> QED
    BY ZenonT(40), <1>2, <1>5, <1>8, <2>1, LedgerRewritten DEF WritesTransaction
<1>10. ASSUME ~IsSell(id) PROVE BuyFits(entry'[id[1]], q.status, artifacts'[id])
  <2>1. BuyFits(entry[id[1]], intents[id].status, artifacts[id])
    BY ZenonT(40), <1>10, IdLocal
  <2>2. artifacts[id] # <<>>
    BY ONLY ZenonT(40), <1>5, <1>8 DEF Ledger
  <2>3. BuyAfter(entry'[id[1]], q.status, a)
    BY ONLY ZenonT(40), <1>10, WritesEntry(id, q.status, a) DEF WritesEntry
  <2> QED
    BY ZenonT(40), <1>2, <1>8, <2>1, <2>2, <2>3, BuyRewritten
<1>11. ASSUME IsSell(id) PROVE SellFits(entry'[id[1]], id[2], q.status, artifacts'[id])
  <2>1. id[2] = entry'[id[1]].exit
    BY ONLY ZenonT(40), <1>7, <1>11, WritesEntry(id, q.status, a) DEF WritesEntry
  <2>2. id[2] \in Nat
    BY ONLY SMTT(30), IdLocal, ExecutionLiveAssumption, LiveInv
  <2>3. SellAfter(entry'[id[1]], q.status)
    BY ONLY ZenonT(40), <1>11, WritesEntry(id, q.status, a) DEF WritesEntry
  <2> QED
    BY ONLY SMTT(30), <2>1, <2>2, <2>3 DEF SellFits, SellAfter
<1>12. \A b \in Buys : LocalInv(b)'
  BY ZenonT(40), <1>2, <1>3, <1>6, <1>7, <1>9, <1>10, <1>11, Wrote DEF Rewritten, WritesEntry
<1>13. Advanced(id)
  <2> DEFINE k == Len(artifacts[id])
  <2>1. k \in Nat
    BY ONLY <1>8
  <2>2. /\ Len(artifacts'[id]) = k /\ artifacts'[id][k] = a
        /\ \A n \in 1..k : n # k => artifacts'[id][n] = artifacts[id][n]
    BY ONLY ZenonT(40), <1>2 DEF Rewritten
  <2>3. artifacts[id][k].state \notin Untouchable => a.state \notin Untouchable
    BY ONLY Zenon, WritesTransaction(id, q.status, a) DEF WritesTransaction, Latest
  <2>4. intents[id].revision <= intents'[id].revision
    <3>1. q.revision \in Nat /\ intents[id].revision \in Nat
      BY ONLY ZenonT(40), <1>1 DEF TypeOK, IntentRow
    <3> QED
      BY ZenonT(40), <1>3, <3>1 DEF WritesRow
  <2> HIDE DEF k
  <2>5. \A n \in 1..k : artifacts[id][n].state \notin Untouchable
                          => artifacts'[id][n].state \notin Untouchable
    BY ONLY ZenonT(40), <2>2, <2>3
  <2>6. k <= Len(artifacts'[id])
    BY ONLY <2>1, <2>2
  <2> QED
    BY ONLY ZenonT(40), <2>4, <2>5, <2>6 DEF Advanced, k
<1>14. Counted(q, artifacts'[id])
  BY Zenon, <1>2 DEF WritesRow, Counted, Rewritten
<1>15. WorkersInv'
  <2>1. /\ WorkerInv(w)' /\ MemoryInv(w)' /\ \A v \in Workers : v # w => worker'[v] = worker[v]
        /\ Engages(w)' => Engages(w) /\ worker'[w].claim.token = worker[w].claim.token
    BY Zenon DEF GoesOn
  <2>2. q.token = 0 \/ (Engages(w) /\ q.token = worker[w].claim.token)
    BY Zenon DEF WritesRow
  <2>3. /\ live \subseteq live' /\ \A j \in Ids : j # id => artifacts'[j] = artifacts[j]
    BY ONLY Zenon, <1>2 DEF Rewritten
  <2> QED
    BY ZenonT(40), <1>1, <1>2, <1>4, <1>13, <1>14, <2>1, <2>2, <2>3, IntentWritten
<1>16. ExposureInv' /\ UnknownEffectBlocks'
  BY Zenon DEF WritesRisk
<1> QED
  BY ZenonT(40), <1>4, <1>12, <1>15, <1>16 DEF LiveInv, DatabaseInv

(* A write that records no unresolved evidence leaves unknown_block right. *)
LEMMA BlockRewritten ==
  ASSUME LiveInv, NEW id \in Ids, NEW a, Rewritten(id, a),
         a.evidence \notin {"UNKNOWN", "MISMATCH"}, unknownBlock' = unknownBlock,
         \A b \in Buys : entry'[b].reservation = "UNKNOWN_HELD"
                           => entry[b].reservation = "UNKNOWN_HELD"
  PROVE  UnknownEffectBlocks'
<1>1. ASSUME NEW j \in Ids, NEW n \in 1..Len(artifacts'[j]),
             artifacts'[j][n].evidence \in {"UNKNOWN", "MISMATCH"}
      PROVE  /\ n \in 1..Len(artifacts[j])
             /\ artifacts[j][n].evidence \in {"UNKNOWN", "MISMATCH"}
  BY Zenon, <1>1 DEF Rewritten
<1> QED
  BY ZenonT(40), <1>1, BlockKept DEF LiveInv, DatabaseInv

(* A step that engages and ends no entry leaves the exposure right. *)
LEMMA ExposureFrame ==
  ASSUME LiveInv, exposure' = exposure,
         \A b \in Buys : /\ IsReserved(b)' <=> IsReserved(b)
                         /\ IsOpen(b)' <=> IsOpen(b)
  PROVE  ExposureInv'
BY Zenon, EngagementKept DEF LiveInv, DatabaseInv, Engaged

(* What is known of an intent whose latest transaction is pending. *)
LEMMA PendingFacts ==
  ASSUME LiveInv, NEW id \in Ids, intents[id].status \in Pending
  PROVE  /\ artifacts[id] # <<>> /\ Latest(id) \in ArtifactRow
         /\ ArtifactsOK /\ Fits(intents[id].status, Latest(id))
         /\ ~IsSell(id) => BuyAfter(entry[id[1]], intents[id].status, Latest(id))
         /\ IsSell(id) /\ id \in live => SellAfter(entry[id[1]], intents[id].status)
<1>1. intents[id].status \in Decisive /\ intents[id].status # "SUCCEEDED"
      /\ intents[id].status \notin {"FAILED", "EXPIRED"}
  BY Zenon DEF Decisive, Pending
<1>2. TypeOK /\ \A b \in Buys : LocalInv(b)
  BY Zenon DEF LiveInv, DatabaseInv
<1>3. /\ artifacts[id] # <<>> /\ Latest(id) \in ArtifactRow
      /\ Latest(id) = artifacts[id][Len(artifacts[id])]
      /\ Len(artifacts[id]) \in Nat \ {0}
      /\ Fits(intents[id].status, Latest(id))
  BY ZenonT(40), <1>1, <1>2, DecisiveIsSigned
<1>4. ASSUME ~IsSell(id) PROVE BuyAfter(entry[id[1]], intents[id].status, Latest(id))
  <2> DEFINE k == Len(artifacts[id])
  <2>1. BuyFits(entry[id[1]], intents[id].status, artifacts[id])
    BY ZenonT(40), <1>4, IdLocal
  <2>2. k \in Nat \ {0} /\ k <= 1 /\ Latest(id) = artifacts[id][k]
    BY ZenonT(40), <1>3, <2>1 DEF BuyFits
  <2> HIDE DEF k
  <2>3. Latest(id) = artifacts[id][1]
    BY SMTT(30), <2>2
  <2> QED
    BY ZenonT(40), <1>1, <1>3, <2>1, <2>3 DEF BuyFits, BuyAfter
<1>5. ASSUME IsSell(id), id \in live PROVE SellAfter(entry[id[1]], intents[id].status)
  <2>1. SellFits(entry[id[1]], id[2], intents[id].status, artifacts[id])
    BY ZenonT(40), <1>5, IdLocal
  <2>2. id[2] = entry[id[1]].exit
    BY ZenonT(40), <1>1, <1>5, ExitOfId
  <2> QED
    BY ZenonT(40), <2>1, <2>2 DEF SellFits, SellAfter
<1> QED
  BY ZenonT(40), <1>2, <1>3, <1>4, <1>5 DEF TypeOK, ArtifactsOK

(* A worker goes on with the claim it has. *)
LEMMA ClaimStays ==
  ASSUME LiveInv, NEW w \in Workers, Engages(w), live' = live, tokens' = tokens,
         intents' = intents, NEW pc \in WorkerPcs, pc \notin {"IDLE", "READY"},
         Turned(w, pc, worker[w].id, worker[w].claim),
         ClaimStatus(pc, worker[w].claim.status)
  PROVE  /\ WorkerInv(w)'
         /\ Engages(w)' => Engages(w) /\ worker'[w].claim.token = worker[w].claim.token
         /\ Owns(w)' <=> Owns(w)
<1>1. /\ worker[w].id \in live /\ worker[w].claim \in ClaimRow
      /\ worker[w].claim.token \in 1..tokens
      /\ worker[w].claim.revision <= intents[worker[w].id].revision
  BY Zenon, OwnerFacts
<1>2. worker'[w].pc = pc /\ worker'[w].id = worker[w].id /\ worker'[w].claim = worker[w].claim
  BY Zenon DEF Turned
<1> QED
  BY ZenonT(40), <1>1, <1>2 DEF WorkerInv, Engages, Owns, Row, Fenced

(* The chain. *)
LEMMA FateKeepsSettled ==
  ASSUME NEW a \in ArtifactRow, NEW c \in ArtifactRow, c.state = a.state,
         c.evidence = a.evidence, Moves(a.chain, c.chain),
         a.state \in Untouchable /\ a.chain = Unsent => c.chain \in {Unsent, Dead}
  PROVE  /\ \A sell \in BOOLEAN : Settled(sell, a) => Settled(sell, c)
         /\ \A status \in Decisive : Fits(status, a) => Fits(status, c)
<1>1. a.chain \in ChainStates /\ c.chain \in ChainStates
  BY Zenon DEF ArtifactRow
<1>2. /\ a.chain = Dead => c.chain = Dead
      /\ \A o \in Outcomes : a.chain = Finalized(o) => c.chain = a.chain
  BY ZenonT(40), <1>1, MovesOn
<1>3. /\ a.chain = Finalized("FAILED") => c.chain = Finalized("FAILED")
      /\ a.chain = Finalized("LANDED") => c.chain = Finalized("LANDED")
  BY ZenonT(40), <1>2, ChainFacts
<1>4. a.state \in Untouchable /\ a.chain \in {Unsent, Dead} => c.chain \in {Unsent, Dead}
  BY ZenonT(40), <1>2
<1>5. \A sell \in BOOLEAN : Settled(sell, a) => Settled(sell, c)
  BY ZenonT(40), <1>2, <1>3, <1>4 DEF Settled, Untouchable
<1>6. \A status \in Decisive : Fits(status, a) => Fits(status, c)
  BY ZenonT(40), <1>3, <1>4 DEF Fits, Untouchable
<1> QED
  BY Zenon, <1>5, <1>6

(* The network moves one transaction on, and the database does not know. *)
LEMMA ChainWrite ==
  ASSUME LiveInv, UNCHANGED <<control, unknownBlock, exposure, intents, live, entry, tokens>>,
         NEW id \in Ids, NEW n \in 1..Len(artifacts[id]), NEW d \in ChainStates,
         artifacts' = [artifacts EXCEPT ![id][n].chain = d],
         Moves(artifacts[id][n].chain, d),
         artifacts[id][n].state \in Untouchable /\ artifacts[id][n].chain = Unsent => d = Dead
  PROVE  /\ ArtifactsOK' /\ DatabaseInv' /\ \A j \in Ids : Advanced(j)
         /\ \A j \in Ids : intents'[j].token <= tokens' /\ Counted(intents'[j], artifacts'[j])
         /\ \A v \in Workers : worker'[v] = worker[v] => Steady(v)
         /\ \A j \in Ids : Len(artifacts'[j]) = Len(artifacts[j])
         /\ \A j \in Ids : \A k \in 1..Len(artifacts[j]) :
              artifacts'[j][k].state = artifacts[j][k].state
<1> DEFINE s == artifacts[id]
           a == s[n]
           c == [a EXCEPT !.chain = d]
           t == [s EXCEPT ![n] = c]
<1>1. s \in Seq(ArtifactRow) /\ a \in ArtifactRow /\ Len(s) \in Nat
      /\ artifacts \in [Ids -> Seq(ArtifactRow)]
  BY DEF LiveInv, TypeOK
<1>2. c \in ArtifactRow /\ c.state = a.state /\ c.evidence = a.evidence /\ c.chain = d
  BY Zenon, <1>1 DEF ArtifactRow
<1>3. artifacts' = [artifacts EXCEPT ![id] = t]
  BY Zenon
<1> HIDE DEF c
<1>4. /\ t \in Seq(ArtifactRow) /\ Len(t) = Len(s) /\ t[n] = c
      /\ \A k \in 1..Len(s) : k # n => t[k] = s[k]
  <2>1. n \in 1..Len(s)
    BY Zenon
  <2> HIDE DEF s, a
  <2> QED
    BY <1>1, <1>2, <2>1, ElementReplaced
<1> HIDE DEF t
<1>5. /\ artifacts'[id] = t /\ \A j \in Ids : j # id => artifacts'[j] = artifacts[j]
      /\ ArtifactsOK'
  BY ZenonT(40), <1>1, <1>3, <1>4 DEF ArtifactsOK
<1>6. /\ \A sell \in BOOLEAN : Settled(sell, a) => Settled(sell, c)
      /\ \A status \in Decisive : Fits(status, a) => Fits(status, c)
  <2> HIDE DEF a
  <2>1. a.state \in Untouchable /\ a.chain = Unsent => c.chain \in {Unsent, Dead}
    BY Zenon, <1>2 DEF a
  <2>2. Moves(a.chain, c.chain)
    BY Zenon, <1>2 DEF a
  <2> QED
    BY ZenonT(40), <1>1, <1>2, <2>1, <2>2, FateKeepsSettled
<1>7. \A k \in 1..Len(s) : /\ t[k].state = s[k].state /\ t[k].evidence = s[k].evidence
                           /\ Moves(s[k].chain, t[k].chain)
                           /\ \A sell \in BOOLEAN : Settled(sell, s[k]) => Settled(sell, t[k])
                           /\ \A status \in Decisive : Fits(status, s[k]) => Fits(status, t[k])
  <2> SUFFICES ASSUME NEW k \in 1..Len(s)
               PROVE  /\ t[k].state = s[k].state /\ t[k].evidence = s[k].evidence
                      /\ Moves(s[k].chain, t[k].chain)
                      /\ \A sell \in BOOLEAN : Settled(sell, s[k]) => Settled(sell, t[k])
                      /\ \A status \in Decisive : Fits(status, s[k]) => Fits(status, t[k])
    BY Zenon
  <2>1. CASE k = n
    BY ZenonT(40), <1>2, <1>4, <1>6, <2>1
  <2>2. CASE k # n
    <3>1. t[k] = s[k]
      BY Zenon, <1>4, <2>2
    <3>2. Moves(s[k].chain, s[k].chain)
      BY Zenon DEF Moves
    <3> QED
      BY Zenon, <3>1, <3>2
  <2> QED
    BY Zenon, <2>1, <2>2
<1> HIDE DEF a
<1>8. \A c1 \in Buys : LocalInv(c1)'
  <2> DEFINE b == id[1]
             m == id[2]
             sell == m > 0
             status == intents[id].status
  <2>1. b \in Buys /\ m \in 0..MaxExits /\ id = <<b, m>> /\ sell \in BOOLEAN
    BY IdFacts
  <2>2. \A c1 \in Buys : LocalInv(c1)
    BY Zenon DEF LiveInv, DatabaseInv
  <2>3. ASSUME NEW c1 \in Buys, c1 # b PROVE LocalInv(c1)'
    <3>1. Same(c1)
      BY SMTT(30), <1>5, <2>1, <2>3, IdFacts DEF Same
    <3> QED
      BY ZenonT(40), <2>2, <3>1, LocalFrame
  <2>4. Ledger(sell, status, s)
    BY ZenonT(40), <2>1, <2>2 DEF LocalInv
  <2>5. Ledger(sell, status, t)
    <3> HIDE DEF sell, status
    <3>1. \A k \in 1..Len(t) : k < Len(t) \/ status \notin Decisive => Settled(sell, t[k])
      BY ZenonT(40), <1>4, <1>7, <2>1, <2>4 DEF Ledger
    <3>2. status \in Decisive => t # <<>> /\ Fits(status, t[Len(t)])
      <4> SUFFICES ASSUME status \in Decisive PROVE t # <<>> /\ Fits(status, t[Len(t)])
        BY ZenonT(40)
      <4>1. s # <<>> /\ Fits(status, s[Len(s)])
        BY ZenonT(40), <2>4 DEF Ledger
      <4>2. Len(s) \in 1..Len(s)
        <5> HIDE DEF s
        <5> QED
          BY <1>1, <4>1
      <4>3. t # <<>>
        <5> HIDE DEF s
        <5> QED
          BY <1>4, <4>2
      <4> QED
        BY ZenonT(40), <1>4, <1>7, <4>1, <4>2, <4>3
    <3> QED
      BY ZenonT(40), <2>4, <3>1, <3>2 DEF Ledger
  <2>6. m = 0 => BuyFits(entry[b], status, t)
    <3> SUFFICES ASSUME m = 0 PROVE BuyFits(entry[b], status, t)
      BY Zenon
    <3>1. BuyFits(entry[b], status, s)
      BY ZenonT(40), <2>1, <2>2 DEF LocalInv
    <3>2. (t # <<>>) <=> (s # <<>>)
      <4> HIDE DEF s
      <4> QED
        BY <1>1, <1>4
    <3>3. status \in Pending => t[1].evidence = s[1].evidence
      <4> SUFFICES ASSUME status \in Pending PROVE t[1].evidence = s[1].evidence
        BY Zenon
      <4>1. s # <<>>
        BY ZenonT(40), <2>4 DEF Ledger, Decisive
      <4>2. 1 \in 1..Len(s)
        <5> HIDE DEF s
        <5> QED
          BY <1>1, <4>1
      <4> QED
        BY ZenonT(40), <1>7, <4>2
    <3> HIDE DEF status, s
    <3> QED
      BY ZenonT(40), <1>4, <3>1, <3>2, <3>3 DEF BuyFits
  <2>7. m > 0 => SellFits(entry[b], m, status, t)
    <3> SUFFICES ASSUME m > 0 PROVE SellFits(entry[b], m, status, t)
      BY Zenon
    <3>1. m \in 1..MaxExits
      BY <2>1, ExecutionLiveAssumption
    <3>2. SellFits(entry[b], m, status, s)
      BY ZenonT(40), <2>1, <2>2, <3>1 DEF LocalInv
    <3>3. s # <<>>
      BY <1>1
    <3> HIDE DEF status
    <3> QED
      BY ZenonT(40), <3>2, <3>3 DEF SellFits
  <2>8. LocalInv(b)'
    <3>1. \A k \in 0..MaxExits : k # m => artifacts'[<<b, k>>] = artifacts[<<b, k>>]
      BY <1>5, <2>1, IdFacts
    <3>2. artifacts'[<<b, m>>] = t
      BY ZenonT(40), <1>5, <2>1
    <3>3. \A k \in 0..MaxExits : Ledger(k > 0, intents[<<b, k>>].status, artifacts'[<<b, k>>])
      BY ZenonT(40), <2>1, <2>2, <2>5, <3>1, <3>2 DEF LocalInv
    <3>4. BuyFits(entry[b], intents[<<b, 0>>].status, artifacts'[<<b, 0>>])
      BY ZenonT(40), <2>1, <2>2, <2>6, <3>1, <3>2, IdFacts DEF LocalInv
    <3>5. \A k \in 1..MaxExits :
            SellFits(entry[b], k, intents[<<b, k>>].status, artifacts'[<<b, k>>])
      <4> SUFFICES ASSUME NEW k \in 1..MaxExits
                   PROVE  SellFits(entry[b], k, intents[<<b, k>>].status, artifacts'[<<b, k>>])
        BY ZenonT(40)
      <4>1. k \in 0..MaxExits /\ k > 0
        BY IdFacts, ExecutionLiveAssumption
      <4>2. CASE k = m
        BY ZenonT(40), <2>1, <2>7, <3>2, <4>1, <4>2
      <4>3. CASE k # m
        BY ZenonT(40), <2>1, <2>2, <3>1, <4>1, <4>3 DEF LocalInv
      <4> QED
        BY ZenonT(40), <4>2, <4>3
    <3> HIDE DEF b
    <3> QED
      BY ZenonT(40), <2>1, <2>2, <3>3, <3>4, <3>5 DEF LocalInv
  <2> QED
    BY ZenonT(40), <2>3, <2>8
<1>9. ExposureInv'
  BY ZenonT(40), ExposureFrame DEF IsReserved, IsOpen
<1>10. \A j \in Ids : /\ Len(artifacts'[j]) = Len(artifacts[j])
                      /\ \A k \in 1..Len(artifacts[j]) :
                           /\ artifacts'[j][k].state = artifacts[j][k].state
                           /\ artifacts'[j][k].evidence = artifacts[j][k].evidence
                           /\ Moves(artifacts[j][k].chain, artifacts'[j][k].chain)
  BY <1>4, <1>5, <1>7 DEF Moves
<1>11. UnknownEffectBlocks'
  BY ZenonT(40), <1>10, BlockKept DEF LiveInv, DatabaseInv
<1>12. \A j \in Ids : Advanced(j)
  <2> SUFFICES ASSUME NEW j \in Ids PROVE Advanced(j)
    BY Zenon
  <2>1. intents[j].revision \in Nat /\ Len(artifacts[j]) \in Nat
    BY DEF LiveInv, TypeOK, IntentRow
  <2> QED
    BY <1>10, <2>1 DEF Advanced
<1>13. \A j \in Ids : intents'[j].token <= tokens' /\ Counted(intents'[j], artifacts'[j])
  BY ZenonT(40), <1>10 DEF LiveInv, WorkersInv, Counted
<1>14. \A j \in Ids : Undisturbed(j)
  <2> SUFFICES ASSUME NEW j \in Ids PROVE Undisturbed(j)
    BY Zenon
  <2>1. CASE j # id
    BY ZenonT(40), <1>5, <2>1 DEF Undisturbed, Moves
  <2>2. CASE j = id
    <3>1. Len(s) \in 1..Len(s)
      BY <1>1
    <3> QED
      BY ZenonT(40), <1>10, <2>2, <3>1 DEF Undisturbed
  <2> QED
    BY Zenon, <2>1, <2>2
<1>15. \A v \in Workers : worker'[v] = worker[v] => Steady(v)
  <2> SUFFICES ASSUME NEW v \in Workers, worker'[v] = worker[v], Engages(v), Owns(v)'
               PROVE  Owns(v) /\ Undisturbed(worker[v].id)
    BY Zenon DEF Steady
  <2>1. worker[v].id \in Ids
    BY Zenon, OwnerFacts
  <2> QED
    BY ZenonT(40), <1>14, <2>1 DEF Owns, Fenced, Row
<1> QED
  BY ZenonT(40), <1>5, <1>8, <1>9, <1>10, <1>11, <1>12, <1>13, <1>15 DEF DatabaseInv

=============================================================================
