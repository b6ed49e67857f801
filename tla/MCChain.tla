------------------------------ MODULE MCChain ------------------------------
(***************************************************************************)
(* Small instances of Chain: as many cubes, commands and touches as TLC    *)
(* can take together.  When all three tasks of a cube may be the first to  *)
(* hear of a neighbour there are many more interleavings, so the arms with *)
(* more commands or troubles leave that to some of them.                   *)
(***************************************************************************)
EXTENDS Chain

Four == 0 .. 3

Kit(s, cubes, n, m, ts) ==
    [arm |-> s, cubes |-> cubes, commands |-> n, troubles |-> m, finders |-> ts]

ByPing == LET pings == {"ping_master", "ping_slave"} IN
          {Kit(<<0, 1>>, 0 .. 1, 2, 2, pings),
           Kit(<<0, 1, 2>>, 0 .. 2, 2, 1, pings), Kit(<<0, 1, 2>>, 0 .. 2, 1, 2, pings),
           Kit(<<0, 1, 2, 3>>, 0 .. 3, 1, 1, pings), Kit(<<0, 1, 2, 3>>, 0 .. 3, 0, 2, pings)}
\* Two tasks may find the same slave at once, and the handler the master.
BySlaveOrHandler == LET ts == {"ping_slave", "handler"} IN
                    {Kit(<<0, 1>>, 0 .. 1, 1, 2, ts), Kit(<<0, 1, 2>>, 0 .. 2, 0, 2, ts)}
ByAny == {Kit(<<0>>, 0 .. 1, 0, 2, LinkTasks), Kit(<<0, 1>>, 0 .. 1, 1, 1, LinkTasks),
          Kit(<<0, 1>>, 0 .. 2, 0, 1, LinkTasks), Kit(<<0, 1, 2>>, 0 .. 2, 1, 1, LinkTasks)}
ArmsOfUpToFour == ByPing \cup BySlaveOrHandler \cup ByAny
=============================================================================
