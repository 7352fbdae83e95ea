------------------------------ MODULE InboxWorker ------------------------------
(***************************************************************************)
(* TransactionInboxWorker processes against the transaction inbox, and the *)
(* observed-transaction pipeline they run.  The inbox operations are those *)
(* of TransactionInbox; the reconciler and the announcers are reduced to   *)
(* the calls they make.                                                    *)
(*                                                                         *)
(* A worker runs one claim at a time, so its name serves as the lease      *)
(* token: a token it held before cannot be presented again.  Leases and    *)
(* retry delays expire at any moment (each host compares its own clock).   *)
(* The admission policy is off, and retention (4 hours) is not reached.    *)
(***************************************************************************)
EXTENDS TransactionInbox

CONSTANTS Workers,     \* positive numbers, used as lease tokens
          CreatedMints,   \* [Signatures -> SUBSET Mints] launched by a transaction
          TradedMints     \* [Signatures -> SUBSET Mints] traded by a transaction

ASSUME WorkerAssumption ==
  /\ Workers \subseteq Nat \ {0}
  /\ CreatedMints \in [Signatures -> SUBSET Mints]
  /\ TradedMints \in [Signatures -> SUBSET Mints]

VARIABLES worker,   \* the claim each worker is running
          raw       \* raw_chain_events: status per signature, or "none"

workerVars == <<worker, raw>>
allVars == <<vars, worker, raw>>

Idle == [phase |-> "idle"]

WorkerInit ==
  /\ Init /\ ~enabled
  /\ worker = [w \in Workers |-> Idle]
  /\ raw = [s \in Signatures |-> "none"]

In(w, phase) == worker[w].phase = phase
Goto(w, phase) == worker' = [worker EXCEPT ![w].phase = phase]
Fails(w, error) == worker' = [worker EXCEPT ![w].phase = "failing", ![w].error = error]
Abandon(w) == worker' = [worker EXCEPT ![w] = Idle]
Owns(w) == Leased(worker[w].sig, w)

-----------------------------------------------------------------------------
(* claim, then the first renewal by LeaseGuard.start. *)
WorkerClaims(w) ==
  /\ In(w, "idle")
  /\ \E s \in Signatures :
       /\ Claim(s, {}, w)
       /\ worker' = [worker EXCEPT ![w] =
            [phase |-> "starting", sig |-> s, status |-> inbox[s].target,
             snapshot |-> inbox[s].snapshot, error |-> "NONE",
             tracked |-> {}, affected |-> {}]]
  /\ UNCHANGED <<claims, raw>>

WorkerFindsNothing(w) ==
  /\ In(w, "idle")
  /\ ClaimNothing({})
  /\ UNCHANGED workerVars

(* A stored snapshot is reused; an orphaned row without one cannot be      *)
(* located any more.                                                       *)
WorkerStarts(w) ==
  /\ In(w, "starting")
  /\ RenewLease(worker[w].sig, w)
  /\ \/ worker[w].snapshot # NoSnapshot /\ Goto(w, "loading")
     \/ /\ worker[w].snapshot = NoSnapshot
        /\ IF worker[w].status = "orphaned" THEN Fails(w, "PERMANENT") ELSE Goto(w, "locating")
  /\ UNCHANGED raw

WorkerLocates(w) ==
  /\ In(w, "locating")
  /\ \/ \E f \in Fingerprints :
          worker' = [worker EXCEPT ![w].phase = "saving", ![w].snapshot = f]
     \/ \E e \in {"RETRYABLE", "PERMANENT"} : Fails(w, e)
  /\ UNCHANGED <<vars, raw>>

WorkerSaves(w) ==
  /\ In(w, "saving")
  /\ SaveSnapshot(worker[w].sig, w, worker[w].snapshot)
  /\ Goto(w, "loading")
  /\ UNCHANGED raw

(* The scheduled renewal of a running claim. *)
WorkerRenews(w) ==
  /\ ~In(w, "idle")
  /\ Owns(w) /\ inbox[worker[w].sig].leaseExpired
  /\ RenewLease(worker[w].sig, w)
  /\ UNCHANGED workerVars

(* checkOwnership and the fenced calls notice that the lease has gone; the *)
(* pipeline itself does not look.                                          *)
WorkerLosesLease(w) ==
  /\ worker[w].phase \in {"starting", "locating", "saving", "loading", "completing", "failing"}
  /\ ~Owns(w)
  /\ Abandon(w)
  /\ UNCHANGED <<vars, raw>>

-----------------------------------------------------------------------------
(* ObservedTransactionPipeline.process, at the status of the claim: load   *)
(* the tracked mints, record the events, synchronise the affected mints.   *)
PipelineLoads(w) ==
  /\ In(w, "loading")
  /\ worker' = [worker EXCEPT ![w].phase = "recording", ![w].tracked = launches]
  /\ UNCHANGED <<vars, raw>>

RawAfter(s, status) == IF raw[s] = "none" THEN status ELSE Reconciled(raw[s], status)

(* Faulty variant: the launch follows the status of the claim. *)
PipelineRecordsLate(w) ==
  LET s == worker[w].sig
  IN /\ In(w, "recording")
     /\ raw' = [raw EXCEPT ![s] = RawAfter(s, worker[w].status)]
     /\ launches' = IF worker[w].status = "orphaned" THEN launches \ CreatedMints[s]
                    ELSE launches \cup CreatedMints[s]
     /\ worker' = [worker EXCEPT ![w].phase = "syncing",
          ![w].affected = CreatedMints[s] \cup (TradedMints[s] \cap worker[w].tracked)]
     /\ UNCHANGED <<inboxVars, enabled, authority>>

(* Faulty variant: the created mints are not synchronised. *)
PipelineRecordsTradesOnly(w) ==
  LET s == worker[w].sig
      after == RawAfter(s, worker[w].status)
  IN /\ In(w, "recording")
     /\ raw[s] # "none" => Reconcilable(raw[s], worker[w].status)
     /\ raw' = [raw EXCEPT ![s] = after]
     /\ launches' = IF after = "orphaned" THEN launches \ CreatedMints[s]
                    ELSE launches \cup CreatedMints[s]
     /\ worker' = [worker EXCEPT ![w].phase = "syncing",
          ![w].affected = TradedMints[s] \cap worker[w].tracked]
     /\ UNCHANGED <<inboxVars, enabled, authority>>

(* A launch is live until it is retracted by an orphaned replay. *)
PipelineRecords(w) ==
  LET s == worker[w].sig
      after == RawAfter(s, worker[w].status)
  IN /\ In(w, "recording")
     /\ raw[s] # "none" => Reconcilable(raw[s], worker[w].status)
     /\ raw' = [raw EXCEPT ![s] = after]
     /\ launches' = IF after = "orphaned" THEN launches \ CreatedMints[s]
                    ELSE launches \cup CreatedMints[s]
     /\ worker' = [worker EXCEPT ![w].phase = "syncing",
          ![w].affected = CreatedMints[s] \cup (TradedMints[s] \cap worker[w].tracked)]
     /\ UNCHANGED <<inboxVars, enabled, authority>>

(* Reconciling a status with one it contradicts throws. *)
PipelineContradicts(w) ==
  /\ In(w, "recording")
  /\ raw[worker[w].sig] # "none"
  /\ ~Reconcilable(raw[worker[w].sig], worker[w].status)
  /\ Fails(w, "RETRYABLE")
  /\ UNCHANGED <<vars, raw>>

PipelineSyncs(w) ==
  /\ In(w, "syncing")
  /\ \E m \in worker[w].affected :
       /\ SyncTrackedMint(m)
       /\ worker' = [worker EXCEPT ![w].affected = @ \ {m}]
  /\ UNCHANGED raw

PipelineEnds(w) ==
  /\ In(w, "syncing") /\ worker[w].affected = {}
  /\ Goto(w, "completing")
  /\ UNCHANGED <<vars, raw>>

(* Any stage may throw, before or after the events were recorded. *)
PipelineFails(w) ==
  /\ worker[w].phase \in {"recording", "syncing"}
  /\ \E e \in {"RETRYABLE", "DECODER"} : Fails(w, e)
  /\ UNCHANGED <<vars, raw>>

-----------------------------------------------------------------------------
(* The completion is reported at the status of the claim. *)
WorkerCompletes(w) ==
  /\ In(w, "completing")
  /\ MarkProcessed(worker[w].sig, w, worker[w].status)
  /\ Abandon(w)
  /\ UNCHANGED raw

WorkerReportsFailure(w) ==
  /\ In(w, "failing")
  /\ MarkFailed(worker[w].sig, w, worker[w].error)
  /\ Abandon(w)
  /\ UNCHANGED raw

(* The process dies, or a database call fails: the lease is left behind. *)
WorkerCrashes(w) ==
  /\ ~In(w, "idle")
  /\ Abandon(w)
  /\ UNCHANGED <<vars, raw>>

SoloStep(w) ==
  \/ WorkerClaims(w) \/ WorkerFindsNothing(w)
  \/ WorkerStarts(w) \/ WorkerLocates(w) \/ WorkerSaves(w)
  \/ PipelineLoads(w) \/ PipelineRecords(w)
  \/ PipelineSyncs(w) \/ PipelineEnds(w) \/ PipelineFails(w)
  \/ WorkerCompletes(w) \/ WorkerReportsFailure(w)

(* What another worker on the same row does to this one comes on top. *)
WorkerStep(w) == SoloStep(w) \/ WorkerLosesLease(w) \/ PipelineContradicts(w)

(* The finality reconciler learns the fate of a signature: finalized, or   *)
(* missing from the chain.                                                 *)
RevisionStep(s) ==
  \/ EnqueueFinalizedRevision(s)
  \/ \E p \in Providers : RecordFinalityPoll(s, Evidence(inbox[s]), p, "missing")
  \/ EnqueueOrphanedRevision(s, Evidence(inbox[s]))

AnnouncementStep ==
  \/ \E n \in Notifications : Enqueue(n)
  \/ \E c \in Classifications : RecordCatchUpClassification(c)

InboxMoves ==
  /\ \/ AnnouncementStep
     \/ \E s \in Signatures : RevisionStep(s) \/ LeaseExpires(s) \/ RetryBecomesDue(s)
  /\ UNCHANGED workerVars

WorkerNext ==
  \/ \E w \in Workers : WorkerStep(w) \/ WorkerRenews(w) \/ WorkerCrashes(w)
  \/ InboxMoves

(* A worker nobody overtakes. *)
SoloNext ==
  \/ \E w \in Workers : SoloStep(w) \/ WorkerRenews(w) \/ WorkerCrashes(w)
  \/ InboxMoves

WorkerSafety == WorkerInit /\ [][WorkerNext]_allVars

(* Workers are restarted and poll for ever, clocks advance; crashes,       *)
(* renewals and announcements are not promised.                            *)
WorkerFairness ==
  /\ \A w \in Workers : WF_allVars(WorkerStep(w))
  /\ \A s \in Signatures :
       /\ WF_allVars(LeaseExpires(s) /\ UNCHANGED workerVars)
       /\ WF_allVars(RetryBecomesDue(s) /\ UNCHANGED workerVars)
       /\ WF_allVars(RevisionStep(s) /\ UNCHANGED workerVars)

SoloSpec == WorkerInit /\ [][SoloNext]_allVars /\ WorkerFairness

-----------------------------------------------------------------------------
(* A launch retracted by an orphaned replay is not revived by a slower     *)
(* worker that still runs the same transaction at an earlier status.       *)
RetractedLaunchStaysRetracted ==
  \A s \in Signatures : raw[s] = "orphaned" => CreatedMints[s] \cap launches = {}

(* A completed terminal row was replayed at its terminal status: the       *)
(* projections carry the status the inbox reports.                         *)
TerminalCompletionWasRecorded ==
  \A s \in Signatures :
    Present(s) /\ inbox[s].status = "PROCESSED" /\ IsTerminal(inbox[s])
      => raw[s] = inbox[s].target

Rests(s) ==
  Present(s) => \/ inbox[s].status \in {"PROCESSED", "DEFERRED"}
                \/ inbox[s].status = "FAILED" /\ (inbox[s].error # "RETRYABLE" \/ inbox[s].exhausted)

(* Whatever crashes, every accepted announcement is worked to an end: it   *)
(* is completed, fails for good after its attempts, or sleeps deferred.    *)
EveryRowComesToRest == \A s \in Signatures : []<>Rests(s)

Asleep(s) == Present(s) /\ inbox[s].status = "DEFERRED" /\ inbox[s].mint \in launches

LaunchFailed(m) ==
  \E s \in Signatures : Present(s) /\ m \in CreatedMints[s] /\ inbox[s].status = "FAILED"

(* A trade deferred before its mint was launched is woken once the launch  *)
(* is recorded, across any crash between recording and syncTrackedMint,    *)
(* unless the launching row itself ends FAILED.                            *)
DeferredTradeWakes ==
  \A s \in Signatures : \A m \in TradedMints[s] :
    (Asleep(s) /\ inbox[s].mint = m) ~> (~Asleep(s) \/ LaunchFailed(m))

=============================================================================
