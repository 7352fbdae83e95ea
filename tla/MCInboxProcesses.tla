--------------------------- MODULE MCInboxProcesses ---------------------------
(***************************************************************************)
(* The processes that share the inbox.  A behaviour follows one story: two *)
(* workers on the row of a token creation, the finality reconciler on two  *)
(* rows of one slot while somebody claims and announces them, or what the  *)
(* pipelines make of the transactions of one mint.  left bounds how often  *)
(* a pipeline is overtaken or dies.                                        *)
(***************************************************************************)
EXTENDS MCInboxWorker, FinalityReconciler, Projections, TLC

CONSTANT fallback

VARIABLES story, left

Sibling == [signature |-> s2, slot |-> 1, source |-> "WEBSOCKET", programs |-> {pump},
            confirmation |-> "confirmed", hint |-> "NONE", mint |-> NoMint]

CreationAndSibling == CaughtUpCreation \cup {Sibling}

ProcessesInit ==
  /\ WorkerInit /\ pass = NoPass /\ story \in {"workers", "finality", "projections"} /\ left = 1
  /\ IF story = "projections" THEN ProjectionInit
     ELSE proj = Tables /\ inboxRows = NoRows /\ runner = [r \in Runners |-> Unoccupied]

(* In the second story a row is announced once confirmed and its bytes do  *)
(* not vary; in the first there is one row.                                *)
OneRow == inbox'[s2] = NoRow

PlainRows ==
  \A s \in Signatures :
    inbox'[s] # NoRow => inbox'[s].snapshot # f2 /\ "CATCH_UP" \notin inbox'[s].sources

PipelineStory ==
  \/ ProjectionNext /\ UNCHANGED left
  \/ ProjectionDisturbed /\ left > 0 /\ left' = left - 1

ProcessesNext ==
  /\ UNCHANGED story
  /\ \/ /\ story = "workers" /\ WorkerNext /\ OneRow
        /\ UNCHANGED <<pass, projectionVars, left>>
     \/ /\ story = "finality" /\ ReconcilerNext /\ PlainRows
        /\ UNCHANGED <<workerVars, projectionVars, left>>
     \/ story = "projections" /\ PipelineStory /\ UNCHANGED <<allVars, pass>>

(* Nothing tells the two providers, or the two pipelines, apart. *)
PeerSymmetry == Permutations(Providers) \cup Permutations(Runners)

ProcessesSpec == ProcessesInit /\ [][ProcessesNext]_<<allVars, pass, projectionVars, story, left>>

=============================================================================
