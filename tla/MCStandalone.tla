------------------------------- MODULE MCStandalone ----------------------------
(***************************************************************************)
(* Components that share no state with the others: the fast entry, the     *)
(* preflight of two intents, the JitoSOL bot, the poller of tracked pools, *)
(* the life of the listener process, and the roles of the database with    *)
(* the startup validation of the live processes.  A behaviour follows one  *)
(* of them, the focus; the others stand still.  left bounds what disturbs  *)
(* the focus.                                                              *)
(***************************************************************************)
EXTENDS FastEntry, Preflight, JitoBot, TrackedPools, ListenerLifecycle,
        RoleProvisioning, TLC

VARIABLES focus, left

Free(A) == A /\ UNCHANGED left
Costly(A) == left > 0 /\ A /\ left' = left - 1

PeerSymmetry == Permutations(Preparers)

FirstProvider == CHOOSE p \in RpcProviders : TRUE

SlotsOfPool == <<1, 2, 2, 3, 4, 4>>
FailedInPool == {4}

-----------------------------------------------------------------------------
(* Preflight: two preparers of one run with a crash or a broken lineage;   *)
(* one preparer and an operator; one preparer that prepares two pairs.     *)
FirstPair == CHOOSE p \in Pairs : TRUE
OneRun == \A r \in Runs : r > 1 => runs'[r] = NoRun
OnePreparer == Cardinality({w \in Preparers : preparer'[w].step # "idle"}) <= 1
Prepares == \E w \in Preparers : PreparerStep(w)
LineageChanges == \E p \in Pairs : LineageBreaks(p)

ResumeStory ==
  /\ \/ Free(PrepTick \/ CreatePair(FirstPair) \/ Prepares)
     \/ Costly(LineageChanges \/ \E w \in Preparers : PreparerStops(w))
  /\ OneRun

ExportStory ==
  /\ \/ Free(PrepTick \/ CreatePair(FirstPair) \/ Prepares \/ OperatorExports)
     \/ Costly(LineageChanges \/ RefreshBooks)
  /\ OneRun /\ OnePreparer

AgainStory ==
  /\ \/ Free(Prepares \/ CreatePair(FirstPair))
     \/ prepTime < LastTime - 1 /\ Free(PrepTick)
     \/ pairs[FirstPair].created >= 0 /\ Free(\E p \in Pairs : CreatePair(p))
     \/ Costly(CollectOutput)
  /\ OnePreparer

-----------------------------------------------------------------------------
(* The listener: a life with up to two disturbances; a long incident of    *)
(* the reconciler; a changing selection.                                   *)
ReconcilerFails == Free(PassEnds(FALSE))

LifeStory ==
  \/ Free(LifecycleNext)
  \/ focus = "life" /\ Costly(LifecycleDisturbed)
  \/ focus \in {"incident", "promotion"} /\ ReconcilerFails
  \/ focus = "promotion" /\ Free(SelectionChanges)

(* The roles: up to two changes by hand; or a change of provider.          *)
RolesStory ==
  \/ Free(RolesNext) /\ (focus = "roles" => provider' = provider /\ openWork' = openWork)
  \/ focus = "roles" /\ Costly(RolesDrift)

-----------------------------------------------------------------------------
Foci == {"fast", "resume", "export", "again", "jito", "pools", "life",
         "incident", "promotion", "roles", "work"}

StandaloneInit ==
  /\ focus \in Foci
  /\ left = IF focus \in {"life", "roles"} THEN 2 ELSE 1
  /\ FastEntryInit /\ (focus # "fast" => funding = "none")
  /\ PreflightInit /\ JitoInit
  /\ PoolsInit /\ LifecycleInit
  /\ RolesInit /\ (focus # "work" => \A r \in Processes : provider[r] = FirstProvider)

StandaloneNext ==
  /\ UNCHANGED focus
  /\ \/ /\ focus = "fast" /\ (Free(FastEntryNext) \/ Costly(FastEntryDisturbed))
        /\ UNCHANGED <<preflightVars, jitoVars, poolVars, lifecycleVars, roleVars>>
     \/ /\ \/ focus = "resume" /\ ResumeStory
           \/ focus = "export" /\ ExportStory
           \/ focus = "again" /\ AgainStory
        /\ UNCHANGED <<fastEntryVars, jitoVars, poolVars, lifecycleVars, roleVars>>
     \/ /\ focus = "jito" /\ (Free(JitoNext \/ OperatorUnlocks) \/ Costly(JitoDisturbed))
        /\ UNCHANGED <<fastEntryVars, preflightVars, poolVars, lifecycleVars, roleVars>>
     \/ /\ focus = "pools" /\ (Free(PoolsNext) \/ Costly(PoolsDisturbed))
        /\ UNCHANGED <<fastEntryVars, preflightVars, jitoVars, lifecycleVars, roleVars>>
     \/ /\ focus \in {"life", "incident", "promotion"} /\ LifeStory
        /\ UNCHANGED <<fastEntryVars, preflightVars, jitoVars, poolVars, roleVars>>
     \/ /\ focus \in {"roles", "work"} /\ RolesStory
        /\ UNCHANGED <<fastEntryVars, preflightVars, jitoVars, poolVars, lifecycleVars>>

StandaloneSpec ==
  StandaloneInit /\ [][StandaloneNext]_<<fastEntryVars, preflightVars, jitoVars, poolVars,
                                         lifecycleVars, roleVars, focus, left>>
===============================================================================
