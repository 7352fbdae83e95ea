-------------------------- MODULE FinalityReconciler --------------------------
(***************************************************************************)
(* Passes of FinalityReconciler.runOnce against the transaction inbox,     *)
(* interleaved with announcements and with the workers' calls.  A pass     *)
(* lists candidates, asks one provider for their statuses and its          *)
(* finalized root, polls the candidates one by one, then reads the         *)
(* finalized blocks of the slots where a candidate looks orphaned.  Any    *)
(* refused write ends the pass.                                            *)
(*                                                                         *)
(* Providers may lag or have pruned history: they may miss a transaction   *)
(* that landed, but the content of a finalized block is the chain's.       *)
(* A pass is shorter than retention (4 hours): rows are not purged here.   *)
(***************************************************************************)
EXTENDS TransactionInbox

CONSTANTS Threshold,   \* missingPollThreshold
          Landed       \* signatures in the finalized block of their slot

ASSUME ReconcilerAssumption ==
  /\ Threshold \in Nat \ {0, 1}
  /\ Landed \subseteq Signatures

VARIABLE pass

NoPass == [phase |-> "idle"]

Answers == {"missing", "processed", "confirmed", "finalized"}

EndPass == pass' = NoPass

(* A finalized root below, at or above each slot. *)
Roots == {0} \cup Slots \cup {slot + 1 : slot \in Slots}

(* listForFinality, getHistoryStatuses and getFinalizedSlot write nothing: *)
(* what they return is fixed here.  A finalized answer below the root is   *)
(* a contradiction that ends the pass at once.                             *)
StartPass ==
  LET candidates == {s \in Signatures : ListedForFinality(s)}
  IN /\ pass.phase = "idle"
     /\ candidates # {}
     /\ \E p \in Providers, root \in Roots, answers \in [Signatures -> Answers] :
          /\ \A s \in candidates :
               answers[s] = "finalized" => s \in Landed /\ root >= inbox[s].slot
          /\ \A s \in Signatures \ candidates : answers[s] = "missing"
          /\ pass' = [phase |-> "polling", provider |-> p, todo |-> candidates,
                      listed |-> [s \in Signatures |->
                                    IF s \in candidates THEN Evidence(inbox[s]) ELSE NoRow],
                      answers |-> answers,
                      rooted |-> {s \in candidates : root > inbox[s].slot},
                      eligible |-> {}, cleared |-> {}]
     /\ UNCHANGED vars

(* enqueueRevision returns silently when there is nothing left to do. *)
RevisionIsMoot(s, target) ==
  /\ Present(s) /\ inbox[s].snapshot # NoSnapshot
  /\ Reconcilable(inbox[s].target, target)
  /\ ~Advances(inbox[s].target, target)
  /\ \/ inbox[s].status = "PROCESSED" /\ IsTerminal(inbox[s])
     \/ inbox[s].status = "PENDING"

FinalizeCandidate(s) ==
  /\ pass.phase = "polling" /\ s \in pass.todo
  /\ pass.answers[s] = "finalized"
  /\ \/ EnqueueFinalizedRevision(s)
     \/ RevisionIsMoot(s, "finalized") /\ UNCHANGED vars
  /\ pass' = [pass EXCEPT !.todo = @ \ {s}]

LooksOrphaned(s, r) ==
  /\ pass.answers[s] = "missing"
  /\ r.missing >= Threshold
  /\ r.provider = pass.provider
  /\ s \in pass.rooted

PollCandidate(s) ==
  LET polled == PolledRow(inbox[s], pass.provider, pass.answers[s])
  IN /\ pass.phase = "polling" /\ s \in pass.todo
     /\ pass.answers[s] # "finalized"
     /\ RecordFinalityPoll(s, pass.listed[s], pass.provider, pass.answers[s])
     /\ pass' = [pass EXCEPT
                   !.todo = @ \ {s},
                   !.listed[s] = Evidence(polled),
                   !.eligible = IF LooksOrphaned(s, polled) THEN @ \cup {s} ELSE @]

(* The write of this candidate is refused: the pass throws. *)
PollIsRefused(s) ==
  /\ pass.phase = "polling" /\ s \in pass.todo
  /\ IF pass.answers[s] = "finalized"
     THEN ~(ENABLED EnqueueFinalizedRevision(s)) /\ ~RevisionIsMoot(s, "finalized")
     ELSE ~(ENABLED RecordFinalityPoll(s, pass.listed[s], pass.provider, pass.answers[s]))
  /\ EndPass
  /\ UNCHANGED vars

PollingEnds ==
  /\ pass.phase = "polling" /\ pass.todo = {}
  /\ pass' = [pass EXCEPT !.phase = "blocks"]
  /\ UNCHANGED vars

Group(slot) == {s \in pass.eligible : inbox[s].slot = slot}

(* The finalized block of a slot: unavailable (skipped), contradicting the *)
(* missing polls (the pass throws), or without any of the candidates.      *)
ReadBlock(slot) ==
  /\ pass.phase = "blocks" /\ pass.cleared = {} /\ Group(slot) # {}
  /\ \/ pass' = [pass EXCEPT !.eligible = @ \ Group(slot)]
     \/ Group(slot) \cap Landed # {} /\ EndPass
     \/ /\ Group(slot) \cap Landed = {}
        /\ pass' = [pass EXCEPT !.eligible = @ \ Group(slot), !.cleared = Group(slot)]
  /\ UNCHANGED vars

OrphanCandidate(s) ==
  /\ pass.phase = "blocks" /\ s \in pass.cleared
  /\ \/ EnqueueOrphanedRevision(s, pass.listed[s])
     \/ RevisionIsMoot(s, "orphaned") /\ UNCHANGED vars
  /\ pass' = [pass EXCEPT !.cleared = @ \ {s}]

OrphanIsRefused(s) ==
  /\ pass.phase = "blocks" /\ s \in pass.cleared
  /\ ~(ENABLED EnqueueOrphanedRevision(s, pass.listed[s])) /\ ~RevisionIsMoot(s, "orphaned")
  /\ EndPass
  /\ UNCHANGED vars

PassEnds ==
  /\ pass.phase = "blocks" /\ pass.eligible = {} /\ pass.cleared = {}
  /\ EndPass
  /\ UNCHANGED vars

(* A provider or database failure, or a restart. *)
PassAborts ==
  /\ pass.phase # "idle"
  /\ EndPass
  /\ UNCHANGED vars

ReconcilerStep ==
  \/ StartPass \/ PollingEnds \/ PassEnds \/ PassAborts
  \/ \E s \in Signatures : \/ FinalizeCandidate(s) \/ PollCandidate(s) \/ PollIsRefused(s)
                           \/ OrphanCandidate(s) \/ OrphanIsRefused(s)
  \/ \E slot \in Slots : ReadBlock(slot)

(* What a worker reports was the row's target when it claimed it. *)
ClaimStatuses(s) ==
  {st \in Confirmations : Reconcilable(inbox[s].target, st) /\ ~Advances(inbox[s].target, st)}

OtherStep ==
  \/ \E n \in Notifications : Enqueue(n)
  \/ \E s \in Signatures :
       \/ ClaimNext(s, {})
       \/ \E token \in 1..claims :
            \/ \E f \in Fingerprints : SaveSnapshot(s, token, f)
            \/ /\ Present(s)
               /\ \E st \in ClaimStatuses(s) : MarkProcessed(s, token, st)

ReconcilerNext == ReconcilerStep \/ (OtherStep /\ UNCHANGED pass)

-----------------------------------------------------------------------------
(* A pass aims a row at orphaned only on evidence that stands at that very *)
(* moment: one provider has missed the transaction Threshold times in a    *)
(* row, and whatever was announced or processed since the pass listed the  *)
(* row, or polled it, has not set the count back (recordFinalityPoll and   *)
(* enqueueRevision compare and swap the evidence).  And a transaction that *)
(* landed is never aimed there, however often providers miss it: the       *)
(* finalized block contradicts them.                                       *)
OrphanedIsProven ==
  [][\A s \in Signatures :
       /\ pass # NoPass /\ Present(s) /\ inbox[s].target # "orphaned"
       /\ inbox'[s] # NoRow /\ inbox'[s].target = "orphaned"
       => s \notin Landed /\ inbox[s].missing >= Threshold]_<<inbox, pass>>

=============================================================================
