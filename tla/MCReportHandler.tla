-------------------------- MODULE MCReportHandler --------------------------
(***************************************************************************)
(* Small instances of ReportHandler: every arm of up to MaxNodes cubes,    *)
(* and what its cubes report while it is built, cut, swapped or disturbed. *)
(***************************************************************************)
EXTENDS ReportHandler, SequencesExt

CONSTANTS reportTask, handshakeTask

OneTask == {reportTask}
TwoTasks == {reportTask, handshakeTask}

\* The arms: the root, then distinct cubes.
Arms == {<<ROOT_ID>> \o s : s \in SetToAllKPermutations(Ids \ {ROOT_ID})}

Place(c, i) == CHOOSE k \in DOMAIN c : c[k] = i
Listed(c) == {c[k] : k \in DOMAIN c}

\* What cube i of the arm c reports when it knows its neighbours.
Truth(c, i) ==
    [id |-> i,
     master |-> IF i = ROOT_ID THEN UNKNOWN_ID ELSE c[Place(c, i) - 1],
     slave |-> IF Place(c, i) = Len(c) THEN UNKNOWN_ID ELSE c[Place(c, i) + 1]]
NoSlave(c, i) == [Truth(c, i) EXCEPT !.slave = UNKNOWN_ID]

\* The cubes of S report the truth about c, the others nothing.
Tell(c, S) == [i \in Ids |-> IF i \in S THEN <<Truth(c, i)>> ELSE <<>>]
Cut(c, i) == [j \in Ids |-> IF i = j THEN <<NoSlave(c, i)>> ELSE <<>>]

\* An arm that is plugged together, every cube reporting once.
Built == {[phases |-> <<Tell(c, Listed(c))>>, arm |-> c] : c \in Arms}

\* An arm is built, then cut below its k-th cube, which notices, and another
\* end is plugged there, whose cubes start afresh and report.
HotSwapped ==
    UNION {{[phases |-> <<Tell(c, Listed(c)), Cut(c, c[k]),
                          Tell(d, {d[l] : l \in k .. Len(d)})>>, arm |-> d] :
               d \in {x \in Arms : Len(x) >= k /\ \A l \in 1 .. k : x[l] = c[l]}} :
           <<c, k>> \in {y \in Arms \X (1 .. MaxNodes - 1) : y[2] < Len(y[1])}}
BuiltOrSwapped == Built \cup HotSwapped

\* A cube drops its slave for a lost frame and takes it back; the slave saw
\* nothing, its master did not change and so it does not report again.
Dropped == UNION {{[phases |-> <<Tell(c, Listed(c)), Cut(c, c[k]), Tell(c, {c[k]})>>, arm |-> c] :
                      k \in 1 .. Len(c) - 1} : c \in Arms}

\* An arm is cut below its k-th cube and another end is plugged there, and the
\* root never hears that this cube had no slave: it met the new slave before
\* it missed the old one (handle_handshake.cpp 165-168), or its report was in
\* a damaged frame (uart.cpp 145).
Replugged ==
    UNION {{[phases |-> <<Tell(c, Listed(c)), Tell(d, {d[l] : l \in k .. Len(d)})>>, arm |-> d] :
               d \in {x \in Arms : /\ Len(x) > k /\ x[k + 1] # c[k + 1]
                                   /\ \A l \in 1 .. k : x[l] = c[l]}} :
           <<c, k>> \in {y \in Arms \X (1 .. MaxNodes - 1) : y[2] < Len(y[1])}}

\* Arms that are built or swapped change in good order; those of which a slave
\* is dropped that is there, or none that has gone, do not.
ASSUME GoodOrder == /\ \A s \in BuiltOrSwapped : Orderly(s)
                    /\ \A s \in Dropped \cup Replugged : ~Orderly(s)
=============================================================================
