---------------------------- MODULE MCServoTask ----------------------------
(***************************************************************************)
(* Small instances of ServoTask: a range of less than three times the      *)
(* longest step, three targets and two profiles, one with three times the  *)
(* speed of the other and a long way to stop for its jerk.  All seven      *)
(* phases occur, motions are preempted from one profile to the other in    *)
(* the middle, and a preempted motion may end short of its target.         *)
(***************************************************************************)
EXTENDS ServoTask

Fast == [speed |-> 300, acc |-> 60, jerk |-> 3]
Gentle == [speed |-> 100, acc |-> 5, jerk |-> 1]
Coarse == {Fast, Gentle}
=============================================================================
