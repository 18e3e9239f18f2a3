------------------------------ MODULE MCIntake ------------------------------
(***************************************************************************)
(* A small instance of Intake: two entities of one system, two kinds of    *)
(* failure.                                                                *)
(***************************************************************************)
EXTENDS Intake, TLC

CONSTANTS e1, e2, sysA

MCSystemOf == [e \in Entity |-> sysA]

Symmetry == Permutations(Entity) \union Permutations(Failure)
=============================================================================
