--------------------------- MODULE ReportHandler ---------------------------
(***************************************************************************)
(* How the root turns the reports of the cubes into the ordered list of    *)
(* cubes of the arm (lib/uart_code/handle_report.cpp): the table dict, its *)
(* pruning when a cube reports that it has no slave, and the rebuilding of *)
(* ids_array.                                                              *)
(*                                                                         *)
(* receive_new_report is called by task_handle_report for the reports of   *)
(* other cubes, and by the two handshake tasks of the root for its own,    *)
(* with no lock.  At most MaxBusy calls overlap here: 1 for the algorithm  *)
(* by itself, 2 for what the program does.                                 *)
(*                                                                         *)
(* Grain: one scan of dict is one step, so is each write of shared data    *)
(* together with the local bookkeeping around it.                          *)
(***************************************************************************)
EXTENDS Integers, Sequences, FiniteSets

CONSTANTS MaxNodes,   \* MAX_NODES, 10 in the code
          Tasks,      \* the tasks that call receive_new_report
          MaxBusy,    \* how many calls may overlap
          Scenarios   \* what the cubes report: [phases, arm], see Init

ROOT_ID == 0
UNKNOWN_ID == -1
Ids == 0 .. MaxNodes - 1
Reports == [id : Ids, master : Ids \cup {UNKNOWN_ID}, slave : Ids \cup {UNKNOWN_ID}]

ASSUME ReportHandlerAssumption ==
         /\ MaxNodes \in Nat \ {0} /\ MaxBusy \in Nat \ {0}
         /\ \A s \in Scenarios : s.phases \in Seq([Ids -> Seq(Reports)]) /\ s.arm \in Seq(Ids)

VARIABLES phases,         \* reports to come: those of a phase in any order of
                          \* their senders, after those of the phase before
          arm,            \* the cubes really there once all have reported
          dict,           \* the last report of each cube
          is_dict_ix_empty,
          ids_array, ids_array_len,
          num_servos,     \* ProtocolManager's s_num_servos
          call            \* of each task: its call of receive_new_report

dictVars == <<dict, is_dict_ix_empty>>
idsVars == <<ids_array, ids_array_len>>
vars == <<phases, arm, dictVars, idsVars, num_servos, call>>

NoReport == [id |-> ROOT_ID, master |-> UNKNOWN_ID, slave |-> UNKNOWN_ID]
\* pc, the report p, the frames of remove_subtree_recursive, and the local
\* variables of compute_ids_array (found is UNKNOWN_ID before a scan)
NoCall == [pc |-> "idle", p |-> NoReport, stack |-> <<>>,
           used |-> {}, curr |-> ROOT_ID, found |-> UNKNOWN_ID]

\* init_report_handler: the root is alone.
Init == /\ \E s \in Scenarios : phases = s.phases /\ arm = s.arm
        /\ dict = [i \in Ids |-> [NoReport EXCEPT !.id = i]]
        /\ is_dict_ix_empty = [i \in Ids |-> i # ROOT_ID]
        /\ ids_array = [i \in Ids |-> ROOT_ID]
        /\ ids_array_len = 1
        /\ num_servos = 1
        /\ call = [t \in Tasks |-> NoCall]
-----------------------------------------------------------------------------
(* receive_new_report *)

NextPhase == /\ phases # <<>>
             /\ \A i \in Ids : Head(phases)[i] = <<>>
             /\ \A t \in Tasks : call[t].pc = "idle"
             /\ phases' = Tail(phases)
             /\ UNCHANGED <<arm, dictVars, idsVars, num_servos, call>>

\* Mutant: a report without a slave prunes nothing.
ReceiveNoRemoval(t, i) ==
    /\ call[t].pc = "idle"
    /\ Cardinality({u \in Tasks : call[u].pc # "idle"}) < MaxBusy
    /\ phases # <<>>
    /\ Head(phases)[i] # <<>>
    /\ LET p == Head(Head(phases)[i]) IN
       /\ phases' = [phases EXCEPT ![1][i] = Tail(@)]
       /\ dict' = [dict EXCEPT ![p.id] = p]
       /\ is_dict_ix_empty' = [is_dict_ix_empty EXCEPT ![p.id] = FALSE]
       /\ call' = [call EXCEPT ![t] = [NoCall EXCEPT !.pc = "clear", !.p = p]]
    /\ UNCHANGED <<arm, idsVars, num_servos>>

\* A task gets the next report of cube i and stores it.
Receive(t, i) ==
    /\ call[t].pc = "idle"
    /\ Cardinality({u \in Tasks : call[u].pc # "idle"}) < MaxBusy
    /\ phases # <<>>
    /\ Head(phases)[i] # <<>>
    /\ LET p == Head(Head(phases)[i]) IN
       /\ phases' = [phases EXCEPT ![1][i] = Tail(@)]
       /\ dict' = [dict EXCEPT ![p.id] = p]
       /\ is_dict_ix_empty' = [is_dict_ix_empty EXCEPT ![p.id] = FALSE]
       /\ call' = [call EXCEPT ![t] =
              IF p.slave = UNKNOWN_ID
              THEN [NoCall EXCEPT !.pc = "remove", !.p = p, !.stack = <<[node |-> p.id, j |-> 0]>>]
              ELSE [NoCall EXCEPT !.pc = "clear", !.p = p]]
    /\ UNCHANGED <<arm, idsVars, num_servos>>
-----------------------------------------------------------------------------
(* remove_subtree_recursive: one frame for each call, the last one on top *)

Top(t) == call[t].stack[Len(call[t].stack)]
Children(t) == {k \in Ids : /\ k >= Top(t).j
                            /\ ~is_dict_ix_empty[k]
                            /\ dict[k].master = Top(t).node}

\* The loop finds a child: recurse.
Descend(t) ==
    /\ call[t].pc = "remove"
    /\ \E k \in Children(t) :
          /\ \A l \in Children(t) : k <= l
          /\ call' = [call EXCEPT ![t].stack =
                          Append([@ EXCEPT ![Len(@)].j = k + 1], [node |-> k, j |-> 0])]
    /\ UNCHANGED <<phases, arm, dictVars, idsVars, num_servos>>

\* Mutant: the emptied entry keeps no my_id.
ReturnNoId(t) ==
    /\ call[t].pc = "remove"
    /\ Children(t) = {}
    /\ LET child == Top(t).node  outermost == Len(call[t].stack) = 1 IN
       /\ dict' = IF outermost THEN dict ELSE [dict EXCEPT ![child] = NoReport]
       /\ is_dict_ix_empty' = [is_dict_ix_empty EXCEPT ![child] = IF outermost THEN @ ELSE TRUE]
       /\ call' = [call EXCEPT ![t].stack = SubSeq(@, 1, Len(@) - 1),
                               ![t].pc = IF outermost THEN "clear" ELSE "remove"]
    /\ UNCHANGED <<phases, arm, idsVars, num_servos>>

\* The loop is over: return, and let the caller empty the child's entry.
Return(t) ==
    /\ call[t].pc = "remove"
    /\ Children(t) = {}
    /\ LET child == Top(t).node  outermost == Len(call[t].stack) = 1 IN
       /\ dict' = IF outermost THEN dict ELSE [dict EXCEPT ![child] = [NoReport EXCEPT !.id = child]]
       /\ is_dict_ix_empty' = [is_dict_ix_empty EXCEPT ![child] = IF outermost THEN @ ELSE TRUE]
       /\ call' = [call EXCEPT ![t].stack = SubSeq(@, 1, Len(@) - 1),
                               ![t].pc = IF outermost THEN "clear" ELSE "remove"]
    /\ UNCHANGED <<phases, arm, idsVars, num_servos>>
-----------------------------------------------------------------------------
(* compute_ids_array *)

\* Mutant: the list is not reset before it is rebuilt.
ClearKept(t) == /\ call[t].pc = "clear"
                /\ ids_array' = [ids_array EXCEPT ![0] = ROOT_ID]
                /\ call' = [call EXCEPT ![t] = [@ EXCEPT !.pc = "find", !.used = {ROOT_ID},
                                                         !.curr = ROOT_ID]]
                /\ UNCHANGED <<phases, arm, dictVars, ids_array_len, num_servos>>

Clear(t) == /\ call[t].pc = "clear"
            /\ ids_array' = [ids_array EXCEPT ![0] = ROOT_ID]
            /\ ids_array_len' = 1
            /\ call' = [call EXCEPT ![t] = [@ EXCEPT !.pc = "find", !.used = {ROOT_ID},
                                                     !.curr = ROOT_ID]]
            /\ UNCHANGED <<phases, arm, dictVars, num_servos>>

Successors(t) == {j \in Ids : /\ j \notin call[t].used
                              /\ ~is_dict_ix_empty[j]
                              /\ dict[j].master = call[t].curr}

\* The lowest successor, unless the loop has run MAX_NODES - 1 times.
Find(t) == /\ call[t].pc = "find"
           /\ Cardinality(call[t].used) < MaxNodes
           /\ \E j \in Successors(t) :
                 /\ \A k \in Successors(t) : j <= k
                 /\ call' = [call EXCEPT ![t] = [@ EXCEPT !.pc = "append", !.found = j]]
           /\ UNCHANGED <<phases, arm, dictVars, idsVars, num_servos>>

\* Mutant: curr_node_id is not moved to the cube found.
AppendFoundStuck(t) ==
    /\ call[t].pc = "append"
    /\ ids_array' = [i \in Ids |-> IF i = ids_array_len THEN call[t].found ELSE ids_array[i]]
    /\ ids_array_len' = ids_array_len + 1
    /\ call' = [call EXCEPT ![t] = [@ EXCEPT !.pc = "find", !.found = UNKNOWN_ID,
                                             !.used = call[t].used \cup {call[t].found}]]
    /\ UNCHANGED <<phases, arm, dictVars, num_servos>>

\* Written past its end, the array stays as it is: what lies behind it is
\* not modelled.
AppendFound(t) ==
    /\ call[t].pc = "append"
    /\ ids_array' = [i \in Ids |-> IF i = ids_array_len THEN call[t].found ELSE ids_array[i]]
    /\ ids_array_len' = ids_array_len + 1
    /\ call' = [call EXCEPT ![t] = [@ EXCEPT !.pc = "find", !.found = UNKNOWN_ID,
                                             !.used = call[t].used \cup {call[t].found},
                                             !.curr = call[t].found]]
    /\ UNCHANGED <<phases, arm, dictVars, num_servos>>

\* No successor: the chain ends, and set_num_servos is told its length.
Finish(t) == /\ call[t].pc = "find"
             /\ Successors(t) = {} \/ Cardinality(call[t].used) = MaxNodes
             /\ num_servos' = ids_array_len
             /\ call' = [call EXCEPT ![t] = NoCall]
             /\ UNCHANGED <<phases, arm, dictVars, idsVars>>
-----------------------------------------------------------------------------
Step(t) == Descend(t) \/ Return(t) \/ Clear(t) \/ Find(t) \/ AppendFound(t) \/ Finish(t)

Next == \/ \E t \in Tasks : Step(t) \/ \E i \in Ids : Receive(t, i)
        \/ NextPhase

Spec == Init /\ [][Next]_vars
-----------------------------------------------------------------------------
(* Arms that are built and rebuilt in good order *)

ArmSeqs == UNION {{a \in [1 .. n -> Ids] : a[1] = ROOT_ID /\ \A k, l \in 1 .. n : a[k] = a[l] => k = l} :
                     n \in 1 .. MaxNodes}
Master(a, l) == IF l = 1 THEN UNKNOWN_ID ELSE a[l - 1]
Prefix(b, a) == Len(b) <= Len(a) /\ \A l \in 1 .. Len(b) : b[l] = a[l]

\* What the cubes report is so in the arm a.
Truths(q, a) == \A i \in Ids : \A x \in DOMAIN q[i] :
    \E l \in 1 .. Len(a) : /\ i = a[l] /\ q[i][x].id = i /\ q[i][x].master = Master(a, l)
                           /\ q[i][x].slave = UNKNOWN_ID <=> l = Len(a)

\* While cubes report q, the arm b has become a: it got longer, and every new
\* cube reports; or it was cut, and its new end does.
Becomes(b, q, a) == \/ Prefix(b, a) /\ \A l \in 1 .. Len(a) : l > Len(b) => q[a[l]] # <<>>
                    \/ Prefix(a, b) /\ q[a[Len(a)]] # <<>>

\* In each phase of a scenario s the arm changes like that, and only once all
\* that was reported before has arrived.
Orderly(s) == \E arms \in [1 .. Len(s.phases) + 1 -> ArmSeqs] :
    /\ arms[1] = <<ROOT_ID>> /\ arms[Len(s.phases) + 1] = s.arm
    /\ \A p \in 1 .. Len(s.phases) : /\ Truths(s.phases[p], arms[p + 1])
                                     /\ Becomes(arms[p], s.phases[p], arms[p + 1])
-----------------------------------------------------------------------------
(* Properties *)

Chain == [i \in 1 .. ids_array_len |-> ids_array[i - 1]]
Quiet == \A t \in Tasks : call[t].pc = "idle"

TypeOK == /\ dict \in [Ids -> Reports]
          /\ \A i \in Ids : dict[i].id = i
          /\ is_dict_ix_empty \in [Ids -> BOOLEAN]
          /\ ids_array \in [Ids -> Ids]
          /\ ids_array_len \in 1 .. MaxNodes
          /\ num_servos \in 1 .. MaxNodes
          /\ \A t \in Tasks : /\ call[t].pc \in {"idle", "remove", "clear", "find", "append"}
                              /\ call[t].used \subseteq Ids
                              /\ \A k \in DOMAIN call[t].stack : call[t].stack[k].node \in Ids

\* Between two reports ids_array is the chain of master links that starts at
\* the root, as long as it can be, and as many servos are expected.
ChainOK == Quiet =>
    /\ ids_array[0] = ROOT_ID
    /\ \A i \in 1 .. ids_array_len - 1 :
          ~is_dict_ix_empty[ids_array[i]] /\ dict[ids_array[i]].master = ids_array[i - 1]
    /\ \A j \in Ids : ~is_dict_ix_empty[j] /\ dict[j].master = ids_array[ids_array_len - 1]
                         => \E i \in 0 .. ids_array_len - 1 : ids_array[i] = j
    /\ num_servos = ids_array_len

\* handle_report.cpp 55: loops are avoided, no cube is listed twice.  The
\* reports of a loop, which is what the local `used` is for, are in no small
\* instance with one call at a time; the theorem LoopsAvoided has them.
NoLoop == Quiet => \A i, j \in 0 .. ids_array_len - 1 :
                       i < MaxNodes /\ j < MaxNodes /\ ids_array[i] = ids_array[j] => i = j

\* handle_report.cpp 82-84: the whole subtree is removed, and so the recursion
\* never gets deeper than there are cubes.  It does when the reports of an old
\* and a new arm make a loop of masters: an entry is emptied only behind the
\* recursive call for it.
RemovalEnds == \A t \in Tasks : Len(call[t].stack) <= MaxNodes

\* Once every cube has reported what is so, in any order between cubes,
\* the root lists the cubes of the arm in their order (handle_report.cpp
\* 48-51: "independent from the order in which reports arrive and robust to
\* temporary reordering").  That a cube has no slave is so only for the end of
\* the arm; what comes of such a report of a cube that has yet to find its
\* slave, or of one that lost an answer, is the matter of MCReportHandler's
\* Dropped.
ArmKnown == Quiet /\ phases = <<>> => Chain = arm
=============================================================================
