------------------------------ MODULE Projections ------------------------------
(***************************************************************************)
(* The projections the pipeline derives from an observed transaction: the  *)
(* launch and its curve trades, the migration with the PumpSwap pool, the  *)
(* pool's trades and reserves, and the qualification report.               *)
(*                                                                         *)
(* One mint.  A transaction is replayed with every finality it reaches, by *)
(* a runner that may crash between two stages or be overtaken; a stage is  *)
(* one database transaction.  A migration that lands again after a fork is *)
(* a second transaction that announces the same pool.                      *)
(***************************************************************************)
EXTENDS Naturals, FiniteSets

CONSTANT Runners

(* proj: the tables.  inbox: what the listener knows of each transaction,  *)
(* fate is what the chain will make of it.  runner: the pipelines at work. *)
VARIABLES proj, inboxRows, runner

projectionVars == <<proj, inboxRows, runner>>

Nothing == "none"
Transactions == {"create", "buy", "migrate", "again", "swap"}
ChainEvents == {"launch", "trade", "migration", "activation", "migration2", "activation2", "poolTrade"}
MigrationEvent(tx) == IF tx = "migrate" THEN "migration" ELSE "migration2"
ActivationEvent(tx) == IF tx = "migrate" THEN "activation" ELSE "activation2"
Migrations == {"migrate", "again"}

(* ORDER BY slot, transaction index, instruction index. *)
ChainOrder == <<"launch", "trade", "migration", "activation", "migration2", "activation2">>

Statuses == {"confirmed", "finalized", "orphaned"}
NoPool == [state |-> Nothing, status |-> Nothing, migration |-> Nothing, activation |-> Nothing]
NoReport == [source |-> Nothing, status |-> Nothing]

Tables ==
  [raw |-> [e \in ChainEvents |-> Nothing], dom |-> [e \in ChainEvents |-> Nothing],
   launch |-> Nothing, before |-> [m \in Migrations |-> {}],
   migrations |-> [m \in Migrations |-> Nothing], pool |-> NoPool,
   trade |-> Nothing, reserves |-> [e \in ChainEvents |-> {}],
   report |-> NoReport, fails |-> FALSE]

-----------------------------------------------------------------------------
(* Confirmation statuses *)

Conflicting(current, incoming) ==
  \/ current = "orphaned" /\ incoming # "orphaned"
  \/ current = "finalized" /\ incoming = "orphaned"

reconcileConfirmationStatus(current, incoming) ==
  IF current = Nothing \/ (current = "confirmed" /\ incoming # "processed") THEN incoming ELSE current

Failed(d) == [d EXCEPT !.fails = TRUE]
Canonical(d, e) == d.dom[e] \notin {Nothing, "orphaned"} /\ d.raw[e] = d.dom[e]

(* An UPDATE that finds no row changes nothing. *)
Orphaned(status) == IF status = Nothing THEN Nothing ELSE "orphaned"

(* The row of the raw event; a conflict aborts the whole batch. *)
writeRaw(d, e, status) ==
  IF Conflicting(d.raw[e], status) THEN Failed(d)
  ELSE [d EXCEPT !.raw[e] = reconcileConfirmationStatus(@, status)]

(* Was stored before and is orphaned by this observation. *)
BecameOrphaned(d, e, status) == d.raw[e] \notin {Nothing, "orphaned"} /\ status = "orphaned"

-----------------------------------------------------------------------------
(* Launchpad: a launch and the trades on its bonding curve *)

retract(d, e) ==
  [d EXCEPT !.dom[e] = Orphaned(@),
            !.launch = IF e = "launch" THEN "RETRACTED" ELSE @]

writeDomain(d, e) == [d EXCEPT !.dom[e] = d.raw[e]]

writeLaunch(d) == [d EXCEPT !.launch = IF @ = Nothing THEN "DETECTED" ELSE @]

writeEvent(d, e, status) ==
  LET r == writeRaw(d, e, status) IN
  IF r.fails THEN r
  ELSE IF BecameOrphaned(d, e, status) THEN retract(r, e)
  ELSE IF r.raw[e] = "orphaned" THEN r
  ELSE IF e = "launch" THEN writeLaunch(writeDomain(r, e)) ELSE writeDomain(r, e)

(* The mints whose trades are decoded: launches inside the tracking window *)
(* (open), and what this transaction recorded before and still stands.     *)
listTrackedMints(d, open, e) ==
  \/ open /\ d.launch \notin {Nothing, "RETRACTED"}
  \/ d.dom["launch"] \notin {Nothing, "orphaned"} /\ e = "launch"
  \/ d.dom[e] \notin {Nothing, "orphaned"}

-----------------------------------------------------------------------------
(* Market: the migration, the pool, its reserves and trades *)

FinalizedMarket(d) == d.trade = "finalized" \/ \E e \in ChainEvents : "finalized" \in d.reserves[e]

OrphanedMarket(d) ==
  [d EXCEPT !.trade = Orphaned(@),
            !.reserves = [e \in ChainEvents |-> {Orphaned(s) : s \in @[e]}]]

RetractedPool(pool) == [pool EXCEPT !.state = "retracted", !.status = "orphaned"]

assertActivePool(d) == d.pool.state = "active" /\ d.pool.status # "orphaned"

writeMigration(d, tx) ==
  LET e == MigrationEvent(tx)
      stored == [d EXCEPT !.dom[e] = d.raw[e], !.migrations[tx] = d.raw[e]]
  IN IF d.launch \in {"DETECTED", "BONDING_CURVE_COMPLETE"}
     THEN [stored EXCEPT !.before[tx] = @ \cup {d.launch}, !.launch = "MIGRATION_PENDING"]
     ELSE IF d.launch \in {"MIGRATION_PENDING", "PUMPSWAP_ACTIVE"} THEN stored ELSE Failed(d)

(* A pool row that exists keeps its state and its migration. *)
writeActivation(d, tx) ==
  LET e == ActivationEvent(tx)
      fresh == [state |-> "active", status |-> d.raw[e], migration |-> tx, activation |-> e]
  IN IF d.launch \notin {"MIGRATION_PENDING", "PUMPSWAP_ACTIVE"} THEN Failed(d)
     ELSE [d EXCEPT !.dom[e] = d.raw[e], !.launch = "PUMPSWAP_ACTIVE",
                    !.pool = IF @ = NoPool THEN fresh ELSE [@ EXCEPT !.status = d.raw[e]]]

(* Faulty variant: the reserves of a retracted pool are accepted. *)
ReservesUnchecked(d, e, status) == [d EXCEPT !.reserves[e] = @ \cup {status}]

(* The reserves are read at a slot of their own, so a replay adds a row. *)
writeReserves(d, e, status) ==
  IF assertActivePool(d) THEN [d EXCEPT !.reserves[e] = @ \cup {status}] ELSE Failed(d)

writeTrade(d) == IF assertActivePool(d) THEN [d EXCEPT !.trade = d.raw["poolTrade"]] ELSE Failed(d)

(* What the launch returns to: one of the states its transition to         *)
(* MIGRATION_PENDING was recorded from (LIMIT 1 takes any of them).        *)
StatesBefore(d, tx) == IF d.before[tx] = {} THEN {"BONDING_CURVE_COMPLETE"} ELSE d.before[tx]

retractMigration(d, tx, back) ==
  LET owns == d.pool.migration = tx
      market == IF owns THEN OrphanedMarket(d) ELSE d
  IN IF owns /\ (d.dom[d.pool.activation] = "finalized" \/ FinalizedMarket(d)) THEN Failed(d)
     ELSE [market EXCEPT
             !.migrations[tx] = Orphaned(@),
             !.pool = IF owns THEN RetractedPool(@) ELSE @,
             !.dom = [e \in ChainEvents |->
                        IF e = MigrationEvent(tx) \/ (owns /\ e = d.pool.activation)
                        THEN Orphaned(@[e]) ELSE @[e]],
             !.launch = IF @ \in {"MIGRATION_PENDING", "PUMPSWAP_ACTIVE"} THEN back ELSE @]

retractActivation(d, tx) ==
  IF FinalizedMarket(d) THEN Failed(d)
  ELSE [OrphanedMarket(d) EXCEPT
          !.pool = IF @.activation = ActivationEvent(tx) THEN RetractedPool(@) ELSE @,
          !.dom[ActivationEvent(tx)] = Orphaned(@),
          !.launch = IF @ = "PUMPSWAP_ACTIVE" THEN "MIGRATION_PENDING" ELSE @]

retractTrade(d) ==
  IF "finalized" \in d.reserves["poolTrade"] THEN Failed(d)
  ELSE [d EXCEPT !.trade = Orphaned(@),
                 !.reserves["poolTrade"] = {Orphaned(s) : s \in @}]

(* One event of the batch: its raw row, then its retraction or its write;  *)
(* a batch that has failed stays failed.                                   *)
RecordMigration(d, tx, status, back) ==
  LET e == MigrationEvent(tx)
      r == writeRaw(d, e, status)
  IN IF r.fails THEN r
     ELSE IF BecameOrphaned(d, e, status) THEN retractMigration(r, tx, back)
     ELSE IF status # "orphaned" THEN writeMigration(r, tx) ELSE r

RecordActivation(d, tx, status) ==
  LET e == ActivationEvent(tx)
      r == writeRaw(d, e, status)
  IN IF d.fails \/ r.fails THEN Failed(d)
     ELSE IF BecameOrphaned(d, e, status) THEN retractActivation(r, tx)
     ELSE IF status # "orphaned" THEN writeActivation(r, tx) ELSE r

RecordReserves(d, e, status) ==
  IF d.fails \/ status = "orphaned" THEN d ELSE writeReserves(d, e, status)

RecordPoolTrade(d, status) ==
  LET r == writeRaw(d, "poolTrade", status) IN
  IF d.fails \/ r.fails THEN Failed(d)
  ELSE IF BecameOrphaned(d, "poolTrade", status) THEN retractTrade(r)
  ELSE IF status # "orphaned" THEN writeTrade(r) ELSE r

(* The batch in the order it is written; seen says that the pool's account *)
(* could be read, so that the migration comes with an activation.          *)
MarketRecord(d, tx, status, seen, back) ==
  IF tx = "swap" THEN RecordPoolTrade(RecordReserves(d, "poolTrade", status), status)
  ELSE LET m == RecordMigration(d, tx, status, back) IN
       IF seen THEN RecordReserves(RecordActivation(m, tx, status), ActivationEvent(tx), status)
       ELSE m

-----------------------------------------------------------------------------
(* Qualification *)

CanonicalPositions(d) == {i \in DOMAIN ChainOrder : Canonical(d, ChainOrder[i])}

(* The event the report speaks as of: the latest canonical one. *)
AsOf(d) ==
  LET i == CHOOSE i \in CanonicalPositions(d) : \A j \in CanonicalPositions(d) : j <= i
  IN ChainOrder[i]

loadCanonicalInput(d) == d.launch # Nothing /\ Canonical(d, "launch")

replaceProjection(d) ==
  [d EXCEPT !.report = [source |-> AsOf(d), status |-> d.dom[AsOf(d)]]]

dissolveCurrent(d) == [d EXCEPT !.report = NoReport]

(* Faulty variant: an orphaned transaction leaves the report as it is. *)
RebuildKeepsCurrent(d, status) ==
  IF loadCanonicalInput(d) THEN replaceProjection(d)
  ELSE IF status = "orphaned" THEN d ELSE Failed(d)

(* A launch that is no longer canonical dissolves the report when the      *)
(* transaction is an orphan, and is an error otherwise.                    *)
rebuild(d, status) ==
  IF loadCanonicalInput(d) THEN replaceProjection(d)
  ELSE IF status = "orphaned" THEN dissolveCurrent(d) ELSE Failed(d)

-----------------------------------------------------------------------------
(* The runners *)

Unoccupied == [stage |-> "idle"]
At(stage, tx, status, tracked, seen, affected) ==
  [stage |-> stage, tx |-> tx, status |-> status, tracked |-> tracked, seen |-> seen, affected |-> affected]

LaunchpadEvent(tx) == IF tx = "create" THEN "launch" ELSE "trade"

(* Which transactions the chain finalizes: a transaction only after those  *)
(* it builds on, and one of the two migrations at most.                    *)
Fates ==
  {S \in SUBSET Transactions :
     /\ S # {} => "create" \in S
     /\ ~({"migrate", "again"} \subseteq S)
     /\ "swap" \in S => S \cap Migrations # {}}

(* The stories: a launch with a trade, a launch that migrates, and, once   *)
(* the launch is finalized, a migration with a pool trade and a migration  *)
(* that lands twice.                                                       *)
Casts == {{"create", "buy"}, {"create", "migrate"}, {"migrate", "swap"}, {"migrate", "again"}}

NoRows == [cast |-> {}, final |-> {}, open |-> TRUE,
           row |-> [t \in Transactions |-> [target |-> Nothing, done |-> Nothing, owner |-> Nothing]]]

Launched == rebuild(writeEvent(Tables, "launch", "finalized"), "finalized")

ProjectionInit ==
  /\ \E cast \in Casts, final \in Fates :
        /\ final \subseteq cast \cup {"create"}
        /\ "create" \notin cast => "create" \in final
        /\ inboxRows = [NoRows EXCEPT !.cast = cast, !.final = final]
        /\ proj = IF "create" \in cast THEN Tables ELSE Launched
  /\ runner = [r \in Runners |-> Unoccupied]

(* The inbox: first observation, then what the chain made of it; the row   *)
(* is revised only once it has been processed.                             *)
Observe(tx) ==
  /\ tx \in inboxRows.cast /\ inboxRows.row[tx].target = Nothing
  /\ inboxRows' = [inboxRows EXCEPT !.row[tx].target = "confirmed"]
  /\ UNCHANGED <<proj, runner>>

ReviseFinality(tx) ==
  /\ inboxRows.row[tx].target = "confirmed" /\ inboxRows.row[tx].done = "confirmed"
  /\ inboxRows' = [inboxRows EXCEPT !.row[tx].target =
                     IF tx \in inboxRows.final THEN "finalized" ELSE "orphaned"]
  /\ UNCHANGED <<proj, runner>>

(* Only the trades on the curve are decoded by what is tracked. *)
WindowCloses ==
  /\ inboxRows.open /\ "buy" \in inboxRows.cast
  /\ inboxRows' = [inboxRows EXCEPT !.open = FALSE]
  /\ UNCHANGED <<proj, runner>>

(* Claim the row, and load the tracked mints.  A row somebody works on is  *)
(* claimed again when the lease has run out.                               *)
Unfinished(tx) == inboxRows.row[tx].target # inboxRows.row[tx].done

ClaimRow(r, tx) ==
  /\ runner[r] = Unoccupied /\ Unfinished(tx)
  /\ inboxRows' = [inboxRows EXCEPT !.row[tx].owner = r]
  /\ runner' = [runner EXCEPT ![r] =
       At(IF tx \in {"create", "buy"} THEN "launchpad" ELSE "pools", tx, inboxRows.row[tx].target,
          tx = "create" \/ listTrackedMints(proj, inboxRows.open, LaunchpadEvent(tx)), FALSE, FALSE)]
  /\ UNCHANGED proj

Working(tx) == \E r \in Runners : runner[r] # Unoccupied /\ runner[r].tx = tx

Begin(r) == \E tx \in Transactions : ~Working(tx) /\ ClaimRow(r, tx)
Overtake(r) == \E tx \in Transactions : Working(tx) /\ ClaimRow(r, tx)

(* A stage commits and the runner goes on, or it fails and the row is left *)
(* for another attempt.                                                    *)
Commit(r, d, next) ==
  /\ proj' = IF d.fails THEN proj ELSE d
  /\ runner' = [runner EXCEPT ![r] = IF d.fails THEN Unoccupied ELSE next]
  /\ UNCHANGED inboxRows

ObserveLaunchpad(r) ==
  /\ runner[r].stage = "launchpad"
  /\ LET w == runner[r] IN
     Commit(r, IF w.tracked THEN writeEvent(proj, LaunchpadEvent(w.tx), w.status) ELSE proj,
            [w EXCEPT !.stage = "qualification", !.affected = w.tracked])

(* The pools that are active, and the account of the announced pool: an    *)
(* RPC that lags, or an orphaned transaction, may not show it.  Two        *)
(* definitions of one pool are a conflict.                                 *)
ReadPools(r) ==
  /\ runner[r].stage = "pools"
  /\ \E seen \in IF runner[r].tx = "swap" THEN {assertActivePool(proj)} ELSE BOOLEAN :
       LET w == runner[r]
           conflict == seen /\ w.tx # "swap" /\ assertActivePool(proj) /\ proj.pool.migration # w.tx
       IN runner' = [runner EXCEPT ![r] =
            IF conflict THEN Unoccupied
            ELSE [w EXCEPT !.stage = "market", !.seen = seen]]
  /\ UNCHANGED <<proj, inboxRows>>

RecordMarket(r) ==
  /\ runner[r].stage = "market"
  /\ LET w == runner[r]
         affected == w.tx # "swap" \/ w.seen
     IN \E back \in IF w.tx = "swap" THEN {Nothing} ELSE StatesBefore(proj, w.tx) :
          Commit(r, IF affected THEN MarketRecord(proj, w.tx, w.status, w.seen, back) ELSE proj,
                 [w EXCEPT !.stage = "qualification", !.affected = affected])

Qualify(r) ==
  /\ runner[r].stage = "qualification"
  /\ Commit(r, IF runner[r].affected THEN rebuild(proj, runner[r].status) ELSE proj,
            [runner[r] EXCEPT !.stage = "done"])

(* The row is marked by the runner that still owns it. *)
MarkDone(r) ==
  /\ runner[r].stage = "done"
  /\ inboxRows' = IF inboxRows.row[runner[r].tx].owner = r
                  THEN [inboxRows EXCEPT !.row[runner[r].tx].done = runner[r].status,
                                         !.row[runner[r].tx].owner = Nothing] ELSE inboxRows
  /\ runner' = [runner EXCEPT ![r] = Unoccupied] /\ UNCHANGED proj

RunnerCrashes(r) ==
  /\ runner[r] # Unoccupied /\ runner' = [runner EXCEPT ![r] = Unoccupied]
  /\ UNCHANGED <<proj, inboxRows>>

ProjectionNext ==
  \/ WindowCloses
  \/ \E tx \in Transactions : Observe(tx) \/ ReviseFinality(tx)
  \/ \E r \in Runners : \/ Begin(r) \/ ObserveLaunchpad(r) \/ ReadPools(r) \/ RecordMarket(r)
                        \/ Qualify(r) \/ MarkDone(r)

ProjectionDisturbed == \E r \in Runners : Overtake(r) \/ RunnerCrashes(r)

-----------------------------------------------------------------------------
(* What the market tables say of a mint holds together after every commit, *)
(* whatever is replayed, orphaned or overtaken: PUMPSWAP_ACTIVE has an     *)
(* active pool, an active pool has a migration and an activation that      *)
(* stand, a trade or a reserve stands only beside an active pool,          *)
(* MIGRATION_PENDING has a migration that stands, and a launch is          *)
(* RETRACTED exactly when its event is orphaned.                           *)
Stands(status) == status \notin {Nothing, "orphaned"}

MarketIsBacked ==
  /\ proj.launch = "PUMPSWAP_ACTIVE" => assertActivePool(proj)
  /\ assertActivePool(proj) =>
       /\ Stands(proj.migrations[proj.pool.migration])
       /\ Canonical(proj, MigrationEvent(proj.pool.migration))
       /\ Canonical(proj, proj.pool.activation)
  /\ proj.launch = "MIGRATION_PENDING" => \E m \in Migrations : Stands(proj.migrations[m])
  /\ Stands(proj.trade) \/ (\E e \in ChainEvents : \E s \in proj.reserves[e] : Stands(s))
       => assertActivePool(proj)
  /\ proj.launch = "RETRACTED" <=> proj.dom["launch"] = "orphaned"

(* When every transaction has been processed with the finality it has, the *)
(* current report speaks as of an event that is canonical and with its     *)
(* status, a canonical launch has one, and none is current for a launch    *)
(* that was retracted.  The one exception is a trade whose runner died     *)
(* between the orphaning and the rebuild, and whose mint had left the      *)
(* tracking window when the trade was replayed.                            *)
AllProcessed ==
  /\ \A r \in Runners : runner[r] = Unoccupied
  /\ \A tx \in inboxRows.cast : ~Unfinished(tx) /\ inboxRows.row[tx].target # Nothing

ReportFollowsChain ==
  AllProcessed =>
    \/ ~loadCanonicalInput(proj) /\ proj.report = NoReport
    \/ /\ loadCanonicalInput(proj) /\ proj.report # NoReport
       /\ Canonical(proj, proj.report.source) /\ proj.report.status = proj.dom[proj.report.source]
    \/ proj.report.source = "trade" /\ proj.dom["trade"] = "orphaned" /\ ~inboxRows.open
===============================================================================
