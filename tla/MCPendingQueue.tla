--------------------------- MODULE MCPendingQueue ---------------------------
(***************************************************************************)
(* A small instance of PendingQueue: two untargeted (T0) entries of one    *)
(* operation on different entities.  Both have the same dedup key, so an   *)
(* add() can meet the key of the other entry, held, released or stale.     *)
(***************************************************************************)
EXTENDS PendingQueue

CONSTANTS a1, a2

MCOperation == [a \in Action |-> "reload"]
MCTarget == [a \in Action |-> None]
MCEntity == [a \in Action |-> IF a = a1 THEN "sensor.a" ELSE "sensor.b"]
=============================================================================
