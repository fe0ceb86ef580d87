---------------------------- MODULE MCSimpleThread ----------------------------
(***************************************************************************)
(* Instances of SimpleThread for TLC. The bounds are small, and enough for *)
(* what the properties are about: three tasks let one run, one sleep and   *)
(* one arrive late; two threads that post race each other and Stop; the    *)
(* delay 2 leaves room for a task to become due during a sleep.            *)
(***************************************************************************)
EXTENDS SimpleThread, TLC

MCDelays == {0, 2}

(* Tasks differ in nothing but their names.                                *)
TaskSymmetry == Permutations(Tasks)
=============================================================================
