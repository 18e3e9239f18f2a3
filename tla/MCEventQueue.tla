---------------------------- MODULE MCEventQueue ----------------------------
(***************************************************************************)
(* A small instance of EventQueue: three places, so that the warning comes *)
(* on at 3 and goes off at 1; a window longer than the prune interval, as  *)
(* in the defaults (300 s and 60 s); two blocking producers.               *)
(***************************************************************************)
EXTENDS EventQueue, TLC

MCSymmetry == Permutations(Key) \union Permutations(Putter)
=============================================================================
