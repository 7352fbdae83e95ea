--------------------------- MODULE MCExecutionLive ---------------------------
(***************************************************************************)
(* Instances of live execution for TLC.                                    *)
(***************************************************************************)
EXTENDS ExecutionLive, TLC

Symmetry == Permutations(Buys) \cup Permutations(Executors) \cup Permutations(Recoverers)

(* The position of a BUY that was armed, sent, confirmed and reconciled.   *)
Bought(b) ==
  /\ control = "RUNNING" /\ unknownBlock = FALSE /\ exposure = 1
  /\ intents = [id \in Ids |-> IF id = <<b, 0>>
                               THEN [NewIntent EXCEPT !.status = "SUCCEEDED", !.revision = 6,
                                                      !.attempts = <<"COMPLETED">>]
                               ELSE NewIntent]
  /\ live = {<<b, 0>>}
  /\ entry = [c \in Buys |-> IF c = b
                             THEN [NewEntry EXCEPT !.armament = "LOCKED", !.reservation = "CONSUMED",
                                                   !.lock = "SIGNED_PERSISTED", !.lockToken = 1,
                                                   !.position = "OPEN", !.auth = "ACTIVE"]
                             ELSE NewEntry]
  /\ artifacts = [id \in Ids |-> IF id = <<b, 0>>
                                 THEN <<[state |-> "RECONCILED", evidence |-> "MATCHED",
                                         chain |-> Finalized("LANDED")]>>
                                 ELSE <<>>]
  /\ tokens = 1
  /\ worker = [w \in Workers |-> Idle]

(* Executions from the start, or from a position that was bought. *)
MCSpec == (Init \/ \E b \in Buys : Bought(b)) /\ [][Next]_vars

=============================================================================
