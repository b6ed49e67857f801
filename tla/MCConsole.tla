----------------------------- MODULE MCConsole -----------------------------
(***************************************************************************)
(* A small instance of Console: an arm of one to three cubes, and a client *)
(* that connects twice.                                                    *)
(***************************************************************************)
EXTENDS Console

\* Besides the root alone; they differ in their order as well as in length.
SomeArms == {<<0, 1>>, <<0, 2, 1>>}
SomeNumbers == {0}
=============================================================================
