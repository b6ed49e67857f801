------------------------ MODULE ReportHandler_proofs ------------------------
(***************************************************************************)
(* Proofs about ReportHandler as long as its calls do not overlap, for any *)
(* number of cubes: that ids_array is the chain of cubes that hangs from   *)
(* the root, without loops; that it is the arm, however often the arm is   *)
(* built, cut and rebuilt in good order; and that the removal of a subtree *)
(* goes on for ever only when the masters in the table make a loop.        *)
(***************************************************************************)
EXTENDS ReportHandler, SequenceTheorems, FiniteSetTheorems, WellFoundedInduction, TLAPS

Frames == [node : Ids, j : Nat]
Calls == [pc : {"idle", "remove", "clear", "find", "append"}, p : Reports, stack : Seq(Frames),
          used : SUBSET Ids, curr : Ids, found : Ids \cup {UNKNOWN_ID}]

Types == /\ phases \in Seq([Ids -> Seq(Reports)]) /\ arm \in Seq(Ids)
         /\ dict \in [Ids -> Reports] /\ \A i \in Ids : dict[i].id = i
         /\ is_dict_ix_empty \in [Ids -> BOOLEAN]
         /\ ids_array \in [Ids -> Ids] /\ ids_array_len \in 1 .. MaxNodes
         /\ num_servos \in 1 .. MaxNodes
         /\ call \in [Tasks -> Calls]
         /\ \A t \in Tasks : call[t].pc = "remove" <=> call[t].stack # <<>>

OneCall == \A t, u \in Tasks : call[t].pc # "idle" /\ call[u].pc # "idle" => t = u

\* Each cube listed hangs from the one before it, and none is listed twice.
Listed == 0 .. ids_array_len - 1
Linked == /\ ids_array[0] = ROOT_ID
          /\ \A i \in 1 .. ids_array_len - 1 :
                ~is_dict_ix_empty[ids_array[i]] /\ dict[ids_array[i]].master = ids_array[i - 1]
          /\ \A i, j \in Listed : ids_array[i] = ids_array[j] => i = j

\* The loop of compute_ids_array knows which ones are listed, and the last one.
Walked(t) == /\ call[t].used = {ids_array[i] : i \in Listed}
             /\ Cardinality(call[t].used) = ids_array_len
             /\ call[t].curr = ids_array[ids_array_len - 1]
             /\ call[t].pc = "append" => call[t].found \in Successors(t)

\* Nothing hangs from the last one that is not listed.
Ended == /\ \A j \in Ids : ~is_dict_ix_empty[j] /\ dict[j].master = ids_array[ids_array_len - 1]
                              => \E i \in Listed : ids_array[i] = j
         /\ num_servos = ids_array_len

ListOK == /\ Quiet => Linked /\ Ended
          /\ \A t \in Tasks : call[t].pc \in {"find", "append"} => Linked /\ Walked(t)

IInv == Types /\ OneCall /\ ListOK

\* The table holds the reports of the first m cubes of the arm a, and no other.
Holds(a, m) == /\ \A i \in Ids : ~is_dict_ix_empty[i] <=> \E l \in 1 .. m : i = a[l]
               /\ \A l \in 1 .. m : dict[a[l]].master = Master(a, l)

\* The arm has got longer, to a; the cubes that are new to the table still
\* have reports to come.
Grown(q, a) == /\ \A i \in Ids : ~is_dict_ix_empty[i] =>
                      \E l \in 1 .. Len(a) : i = a[l] /\ dict[i].master = Master(a, l)
               /\ \A l \in 1 .. Len(a) : ~is_dict_ix_empty[a[l]] \/ q[a[l]] # <<>>
               /\ \A t \in Tasks : call[t].pc = "remove" =>
                      Len(call[t].stack) = 1 /\ call[t].stack[1].node = a[Len(a)]

\* remove_subtree_recursive has come down the arm b from its k-th cube, and
\* those behind the m-th have been removed.
Unwinding(t, b, k, m) ==
    LET s == call[t].stack IN
    /\ k + Len(s) - 1 <= m
    /\ \A x \in 1 .. Len(s) : s[x].node = b[k + x - 1]
    /\ s[Len(s)].j = 0 \/ k + Len(s) - 1 = m

\* The arm b was cut, and became a; the cubes cut off are still in the table
\* until the new end has reported and they were removed, from the last one on.
CutOff(b, q, a) == /\ Prefix(a, b)
                /\ \E m \in Len(a) .. Len(b) :
                      /\ Holds(b, m)
                      /\ \/ m = Len(a) \/ q[a[Len(a)]] # <<>>
                         \/ \E t \in Tasks : call[t].pc = "remove"
                      /\ \A t \in Tasks : call[t].pc = "remove" => Unwinding(t, b, Len(a), m)

\* The arms after each phase, from the last one that was completed on.
Planned(arms) ==
    /\ arm = arms[Len(phases) + 1]
    /\ \A p \in 1 .. Len(phases) : Truths(phases[p], arms[p + 1])
    /\ \A p \in 2 .. Len(phases) : Becomes(arms[p], phases[p], arms[p + 1])
    /\ IF phases = <<>> THEN Quiet /\ Holds(arms[1], Len(arms[1]))
                        ELSE Grown(phases[1], arms[2]) \/ CutOff(arms[1], phases[1], arms[2])

InOrder == \E arms \in [1 .. Len(phases) + 1 -> ArmSeqs] : Planned(arms)
-----------------------------------------------------------------------------
(* Numbers, cubes and arms *)

Before == {ss \in Nat \X Nat : ss[1] < ss[2]}

LEMMA BeforeWellFounded == IsWellFoundedOn(Before, Nat)
<1>1. OpToRel(<, Nat) = Before
  BY DEF OpToRel, Before
<1> QED BY <1>1, NatLessThanWellFounded

\* Induction, the way the proofs use it: a set of numbers has a least one.
LEMMA Least == ASSUME NEW S \in SUBSET Nat, S # {}
               PROVE  \E x \in S : \A y \in S : x <= y
<1>1. PICK x \in S : \A y \in S : ~(<<y, x>> \in Before)
  BY BeforeWellFounded, WFMin
<1>2. ASSUME NEW y \in S PROVE x <= y
  <2>1. x \in Nat /\ y \in Nat
    OBVIOUS
  <2>2. ~(y < x)
    BY <1>1, <2>1 DEF Before
  <2> QED BY <2>1, <2>2
<1> QED BY <1>2

LEMMA IdsAre == /\ 0 \in Ids /\ ROOT_ID \in Ids /\ UNKNOWN_ID \notin Ids /\ Ids \subseteq Nat
                /\ IsFiniteSet(Ids) /\ Cardinality(Ids) = MaxNodes /\ MaxNodes \in Nat \ {0}
<1>1. MaxNodes \in Nat \ {0}
  BY ReportHandlerAssumption
<1>2. IsFiniteSet(Ids) /\ Cardinality(Ids) = MaxNodes
  <2>1. 0 \in Int /\ MaxNodes - 1 \in Int /\ ~(0 > MaxNodes - 1) /\ (MaxNodes - 1) - 0 + 1 = MaxNodes
    BY <1>1
  <2> QED BY <2>1, FS_Interval DEF Ids
<1> QED BY <1>1, <1>2 DEF Ids, ROOT_ID, UNKNOWN_ID

LEMMA ArmIs == ASSUME NEW a \in ArmSeqs
               PROVE  /\ a \in Seq(Ids) /\ Len(a) \in 1 .. MaxNodes /\ a[1] = ROOT_ID
                      /\ \A k, l \in 1 .. Len(a) : a[k] = a[l] => k = l
                      /\ \A l \in 1 .. Len(a) : a[l] \in Ids
<1>1. PICK n \in 1 .. MaxNodes : /\ a \in [1 .. n -> Ids] /\ a[1] = ROOT_ID
                                 /\ \A k, l \in 1 .. n : a[k] = a[l] => k = l
  BY DEF ArmSeqs
<1>2. n \in Nat
  BY IdsAre
<1>3. a \in Seq(Ids) /\ Len(a) = n
  BY <1>1, <1>2
<1> QED BY <1>1, <1>3

LEMMA MasterIs == ASSUME NEW a \in ArmSeqs, NEW l \in 1 .. Len(a)
                  PROVE  /\ Master(a, l) \in Ids \cup {UNKNOWN_ID}
                         /\ \A k \in 1 .. Len(a) : Master(a, l) = a[k] => l = k + 1
<1>1. Len(a) \in Nat /\ \A k \in 1 .. Len(a) : a[k] \in Ids
  BY ArmIs
<1>2. CASE l = 1
  BY <1>1, <1>2, IdsAre DEF Master
<1>3. CASE l # 1
  <2>1. l - 1 \in 1 .. Len(a) /\ Master(a, l) = a[l - 1]
    BY <1>1, <1>3 DEF Master
  <2>2. \A k \in 1 .. Len(a) : a[l - 1] = a[k] => l - 1 = k
    BY <2>1, ArmIs
  <2> QED BY <1>1, <2>1, <2>2
<1> QED BY <1>2, <1>3
-----------------------------------------------------------------------------
(* The steps of a call *)

LEMMA CallIs == ASSUME call \in [Tasks -> Calls], NEW t \in Tasks, NEW c \in Calls,
                       call' = [call EXCEPT ![t] = c]
                PROVE  /\ call' \in [Tasks -> Calls] /\ call'[t] = c
                       /\ \A u \in Tasks : u # t => call'[u] = call[u]
  OBVIOUS

LEMMA NoCallIs == NoReport \in Reports /\ NoCall \in Calls
<1>1. NoReport \in Reports
  BY IdsAre DEF NoReport, Reports
<1>2. <<>> \in Seq(Frames)
  BY EmptySeq
<1> QED BY <1>1, <1>2, IdsAre DEF NoCall, Calls

\* The frames on the stack of a call that removes.
LEMMA StackIs == ASSUME Types, NEW t \in Tasks, call[t].pc = "remove"
                 PROVE  /\ call[t].stack \in Seq(Frames) /\ Len(call[t].stack) \in Nat \ {0}
                        /\ Top(t) \in Frames /\ Top(t).node \in Ids /\ Top(t).j \in Nat
                        /\ Children(t) \subseteq Ids
<1>1. call[t].stack \in Seq(Frames) /\ call[t].stack # <<>>
  BY DEF Types, Calls
<1>2. Len(call[t].stack) \in Nat \ {0} /\ Len(call[t].stack) \in 1 .. Len(call[t].stack)
  BY <1>1, EmptySeq
<1>3. Top(t) \in Frames
  BY <1>1, <1>2, ElementOfSeq DEF Top
<1> QED BY <1>1, <1>2, <1>3 DEF Frames, Children

LEMMA ReceiveIs ==
  ASSUME Types, NEW t \in Tasks, NEW i \in Ids, Receive(t, i)
  PROVE  LET q == phases[1] p == Head(q[i]) IN
         /\ phases # <<>> /\ q \in [Ids -> Seq(Reports)] /\ q[i] # <<>>
         /\ p \in Reports /\ p = q[i][1] /\ 1 \in DOMAIN q[i]
         /\ phases' = [phases EXCEPT ![1] = [q EXCEPT ![i] = Tail(@)]]
         /\ dict' = [dict EXCEPT ![p.id] = p]
         /\ is_dict_ix_empty' = [is_dict_ix_empty EXCEPT ![p.id] = FALSE]
         /\ call' \in [Tasks -> Calls] /\ \A u \in Tasks : u # t => call'[u] = call[u]
         /\ IF p.slave = UNKNOWN_ID
            THEN /\ call'[t].pc = "remove" /\ Len(call'[t].stack) = 1
                 /\ call'[t].stack[1].node = p.id /\ call'[t].stack[1].j = 0
            ELSE call'[t].pc = "clear" /\ call'[t].stack = <<>>
<1> DEFINE q == phases[1]
           p == Head(q[i])
           s == <<[node |-> p.id, j |-> 0]>>
<1>1. phases # <<>> /\ Head(phases) = phases[1] /\ Head(phases) \in [Ids -> Seq(Reports)]
  BY HeadTailProperties DEF Receive, Types
<1>2. q \in [Ids -> Seq(Reports)] /\ q[i] # <<>> /\ q[i] \in Seq(Reports)
  BY <1>1 DEF Receive
<1>3. p \in Reports /\ p = q[i][1] /\ 1 \in DOMAIN q[i]
  BY <1>2, HeadTailProperties, EmptySeq
<1>4. s \in Seq(Frames) /\ Len(s) = 1 /\ s[1].node = p.id /\ s[1].j = 0
  BY <1>3 DEF Frames, Reports
<1>5. /\ phases' = [phases EXCEPT ![1][i] = Tail(@)]
      /\ dict' = [dict EXCEPT ![p.id] = p]
      /\ is_dict_ix_empty' = [is_dict_ix_empty EXCEPT ![p.id] = FALSE]
      /\ call' = [call EXCEPT ![t] =
            IF p.slave = UNKNOWN_ID THEN [NoCall EXCEPT !.pc = "remove", !.p = p, !.stack = s]
                                    ELSE [NoCall EXCEPT !.pc = "clear", !.p = p]]
  BY <1>1 DEF Receive
<1>6. phases' = [phases EXCEPT ![1] = [q EXCEPT ![i] = Tail(@)]]
  BY <1>5
<1> HIDE DEF q, p, s
<1>7. /\ [NoCall EXCEPT !.pc = "remove", !.p = p, !.stack = s] \in Calls
      /\ [NoCall EXCEPT !.pc = "clear", !.p = p] \in Calls
      /\ [NoCall EXCEPT !.pc = "remove", !.p = p, !.stack = s].pc = "remove"
      /\ [NoCall EXCEPT !.pc = "remove", !.p = p, !.stack = s].stack = s
      /\ [NoCall EXCEPT !.pc = "clear", !.p = p].pc = "clear"
      /\ [NoCall EXCEPT !.pc = "clear", !.p = p].stack = <<>>
  BY <1>3, <1>4, NoCallIs DEF NoCall, Calls
<1>8. CASE p.slave = UNKNOWN_ID
  <2>1. call' = [call EXCEPT ![t] = [NoCall EXCEPT !.pc = "remove", !.p = p, !.stack = s]]
    BY <1>5, <1>8
  <2> QED BY <1>1, <1>2, <1>3, <1>4, <1>5, <1>6, <1>7, <1>8, <2>1, CallIs DEF Types, q, p
<1>9. CASE p.slave # UNKNOWN_ID
  <2>1. call' = [call EXCEPT ![t] = [NoCall EXCEPT !.pc = "clear", !.p = p]]
    BY <1>5, <1>9
  <2> QED BY <1>1, <1>2, <1>3, <1>4, <1>5, <1>6, <1>7, <1>9, <2>1, CallIs DEF Types, q, p
<1> QED BY <1>8, <1>9

LEMMA DescendIs ==
  ASSUME Types, NEW t \in Tasks, Descend(t)
  PROVE  LET s == call[t].stack n == Len(s) z == call'[t].stack IN
         \E k \in Ids :
            /\ ~is_dict_ix_empty[k] /\ dict[k].master = s[n].node
            /\ call' \in [Tasks -> Calls] /\ \A u \in Tasks : u # t => call'[u] = call[u]
            /\ call[t].pc = "remove" /\ call'[t].pc = "remove" /\ z # <<>>
            /\ Len(z) = n + 1 /\ \A x \in 1 .. n : z[x].node = s[x].node
            /\ z[n + 1].node = k /\ z[n + 1].j = 0
<1> DEFINE s == call[t].stack
           n == Len(s)
<1>1. PICK k \in Children(t) :
         call' = [call EXCEPT ![t].stack = Append([@ EXCEPT ![Len(@)].j = k + 1], [node |-> k, j |-> 0])]
  BY DEF Descend
<1>2. call[t].pc = "remove"
  BY DEF Descend
<1>3. s \in Seq(Frames) /\ n \in Nat \ {0} /\ k \in Ids /\ k \in Nat
  BY <1>1, <1>2, StackIs, IdsAre
<1>4. ~is_dict_ix_empty[k] /\ dict[k].master = s[n].node
  BY <1>1 DEF Children, Top
<1> DEFINE r == [s EXCEPT ![n].j = k + 1]
           f == [node |-> k, j |-> 0]
           z == Append(r, f)
<1>5. call' = [call EXCEPT ![t] = [call[t] EXCEPT !.stack = z]]
  BY <1>1
<1>6. /\ r \in Seq(Frames) /\ Len(r) = n
      /\ \A x \in 1 .. n : r[x].node = s[x].node
  <2>1. s \in [1 .. n -> Frames]
    BY <1>3
  <2>2. [s[n] EXCEPT !.j = k + 1] \in Frames /\ [s[n] EXCEPT !.j = k + 1].node = s[n].node
    <3>1. s[n] \in Frames
      BY <1>3, <2>1
    <3> HIDE DEF s, n
    <3> QED BY <1>3, <3>1 DEF Frames
  <2>3. r = [s EXCEPT ![n] = [s[n] EXCEPT !.j = k + 1]]
    OBVIOUS
  <2>4. r \in [1 .. n -> Frames]
    BY <1>3, <2>1, <2>2, <2>3
  <2>5. \A x \in 1 .. n : r[x].node = s[x].node
    BY <1>3, <2>1, <2>2, <2>3
  <2> QED BY <1>3, <2>4, <2>5
<1>7. f \in Frames /\ f.node = k /\ f.j = 0
  BY <1>3 DEF Frames
<1> HIDE DEF r, f
<1>8. /\ z \in Seq(Frames) /\ z # <<>> /\ Len(z) = n + 1 /\ z[n + 1] = f
      /\ \A x \in 1 .. n : z[x] = r[x]
  BY <1>3, <1>6, <1>7, AppendProperties
<1> HIDE DEF z
<1>9. /\ [call[t] EXCEPT !.stack = z] \in Calls
      /\ [call[t] EXCEPT !.stack = z].pc = "remove" /\ [call[t] EXCEPT !.stack = z].stack = z
  BY <1>2, <1>8 DEF Types, Calls
<1>10. /\ call' \in [Tasks -> Calls] /\ call'[t] = [call[t] EXCEPT !.stack = z]
       /\ \A u \in Tasks : u # t => call'[u] = call[u]
  BY <1>5, <1>9, CallIs DEF Types
<1> QED BY SMTT(60), <1>2, <1>3, <1>4, <1>6, <1>7, <1>8, <1>9, <1>10

LEMMA ReturnIs ==
  ASSUME Types, NEW t \in Tasks, Return(t)
  PROVE  LET s == call[t].stack n == Len(s) z == call'[t].stack c == s[n].node IN
         /\ Children(t) = {} /\ c \in Ids
         /\ call' \in [Tasks -> Calls] /\ \A u \in Tasks : u # t => call'[u] = call[u]
         /\ call[t].pc = "remove" /\ Len(z) = n - 1 /\ \A x \in 1 .. n - 1 : z[x] = s[x]
         /\ IF n = 1
            THEN /\ UNCHANGED dictVars
                 /\ call'[t].pc = "clear" /\ z = <<>>
            ELSE /\ dict' = [dict EXCEPT ![c] = [NoReport EXCEPT !.id = c]]
                 /\ is_dict_ix_empty' = [is_dict_ix_empty EXCEPT ![c] = TRUE]
                 /\ call'[t].pc = "remove" /\ z # <<>>
<1> DEFINE s == call[t].stack
           n == Len(s)
           c == s[n].node
           z == SubSeq(s, 1, n - 1)
           p == IF n = 1 THEN "clear" ELSE "remove"
<1>1. call[t].pc = "remove" /\ Children(t) = {}
  BY DEF Return
<1>2. s \in Seq(Frames) /\ n \in Nat \ {0} /\ c \in Ids /\ c = Top(t).node
  BY <1>1, StackIs DEF Top
<1>3. /\ dict' = IF n = 1 THEN dict ELSE [dict EXCEPT ![c] = [NoReport EXCEPT !.id = c]]
      /\ is_dict_ix_empty' = [is_dict_ix_empty EXCEPT ![c] = IF n = 1 THEN @ ELSE TRUE]
      /\ call' = [call EXCEPT ![t].stack = SubSeq(@, 1, Len(@) - 1), ![t].pc = p]
  BY <1>2 DEF Return
<1>4. call' = [call EXCEPT ![t] = [call[t] EXCEPT !.stack = z, !.pc = p]]
  BY <1>3
<1>5. z \in Seq(Frames) /\ Len(z) = n - 1 /\ \A x \in 1 .. n - 1 : z[x] = s[x]
  <2>1. \A x \in 1 .. n - 1 : s[x] \in Frames
    BY <1>2
  <2>2. /\ z \in Seq(Frames) /\ Len(z) = IF 1 <= n - 1 THEN (n - 1) - 1 + 1 ELSE 0
        /\ \A x \in 1 .. (n - 1) - 1 + 1 : z[x] = s[1 + x - 1]
    BY <1>2, <2>1, SubSeqProperties
  <2> QED BY <1>2, <2>2
<1>6. is_dict_ix_empty \in [Ids -> BOOLEAN]
  BY DEF Types
<1> HIDE DEF z, c, s
<1>7. p \in {"clear", "remove"} /\ (n = 1 => p = "clear") /\ (n # 1 => p = "remove")
  OBVIOUS
<1> HIDE DEF p, n
<1>8. /\ [call[t] EXCEPT !.stack = z, !.pc = p] \in Calls
      /\ [call[t] EXCEPT !.stack = z, !.pc = p].pc = p
      /\ [call[t] EXCEPT !.stack = z, !.pc = p].stack = z
  BY ZenonT(60), <1>5, <1>7 DEF Types, Calls
<1>9. /\ call' \in [Tasks -> Calls] /\ call'[t] = [call[t] EXCEPT !.stack = z, !.pc = p]
      /\ \A u \in Tasks : u # t => call'[u] = call[u]
  BY <1>4, <1>8, CallIs DEF Types
<1>10. CASE n = 1
  <2>1. z = <<>>
    BY <1>5, <1>10, EmptySeq
  <2>2. is_dict_ix_empty' = is_dict_ix_empty
    BY <1>2, <1>3, <1>6, <1>10
  <2> QED BY <1>1, <1>2, <1>3, <1>5, <1>7, <1>8, <1>9, <1>10, <2>1, <2>2 DEF dictVars, s, n, c
<1>11. CASE n # 1
  <2>1. z # <<>>
    BY <1>2, <1>5, <1>11, EmptySeq
  <2> QED BY SMTT(60), <1>1, <1>2, <1>3, <1>5, <1>7, <1>8, <1>9, <1>11, <2>1 DEF s, n, c
<1> QED BY <1>10, <1>11

LEMMA ClearIs ==
  ASSUME Types, NEW t \in Tasks, Clear(t)
  PROVE  /\ call[t].pc = "clear" /\ call' \in [Tasks -> Calls]
         /\ \A u \in Tasks : u # t => call'[u] = call[u]
         /\ call'[t].pc = "find" /\ call'[t].stack = call[t].stack
         /\ call'[t].used = {ROOT_ID} /\ call'[t].curr = ROOT_ID
<1> DEFINE c == [call[t] EXCEPT !.pc = "find", !.used = {ROOT_ID}, !.curr = ROOT_ID]
<1>1. call[t].pc = "clear" /\ call' = [call EXCEPT ![t] = c]
  BY DEF Clear
<1>2. /\ c \in Calls /\ c.pc = "find" /\ c.stack = call[t].stack /\ c.used = {ROOT_ID}
      /\ c.curr = ROOT_ID
  BY ZenonT(60), IdsAre DEF Types, Calls
<1> HIDE DEF c
<1> QED BY <1>1, <1>2, CallIs DEF Types

LEMMA FindIs ==
  ASSUME Types, NEW t \in Tasks, Find(t)
  PROVE  /\ call[t].pc = "find" /\ call' \in [Tasks -> Calls]
         /\ \A u \in Tasks : u # t => call'[u] = call[u]
         /\ call'[t].pc = "append" /\ call'[t].stack = call[t].stack
         /\ call'[t].used = call[t].used /\ call'[t].curr = call[t].curr
         /\ call'[t].found \in Successors(t)
<1>1. PICK j \in Successors(t) : call' = [call EXCEPT ![t] = [@ EXCEPT !.pc = "append", !.found = j]]
  BY DEF Find
<1>2. j \in Ids /\ call[t].pc = "find"
  BY DEF Successors, Find
<1> DEFINE c == [call[t] EXCEPT !.pc = "append", !.found = j]
<1>3. /\ c \in Calls /\ c.pc = "append" /\ c.stack = call[t].stack /\ c.used = call[t].used
      /\ c.curr = call[t].curr /\ c.found = j
  BY ZenonT(60), <1>2 DEF Types, Calls
<1>4. call' = [call EXCEPT ![t] = c]
  BY <1>1
<1> HIDE DEF c
<1> QED BY <1>2, <1>3, <1>4, CallIs DEF Types

LEMMA AppendIs ==
  ASSUME Types, NEW t \in Tasks, AppendFound(t), call[t].found \in Ids
  PROVE  /\ call[t].pc = "append" /\ call' \in [Tasks -> Calls]
         /\ \A u \in Tasks : u # t => call'[u] = call[u]
         /\ call'[t].pc = "find" /\ call'[t].stack = call[t].stack
         /\ call'[t].used = call[t].used \cup {call[t].found} /\ call'[t].curr = call[t].found
<1> DEFINE c == [call[t] EXCEPT !.pc = "find", !.found = UNKNOWN_ID,
                                !.used = call[t].used \cup {call[t].found}, !.curr = call[t].found]
<1>1. call[t].pc = "append" /\ call' = [call EXCEPT ![t] = c]
  BY DEF AppendFound
<1>2. /\ c \in Calls /\ c.pc = "find" /\ c.stack = call[t].stack
      /\ c.used = call[t].used \cup {call[t].found} /\ c.curr = call[t].found
  BY ZenonT(60) DEF Types, Calls
<1> HIDE DEF c
<1> QED BY <1>1, <1>2, CallIs DEF Types

LEMMA FinishIs ==
  ASSUME Types, NEW t \in Tasks, Finish(t)
  PROVE  /\ call[t].pc = "find" /\ call' \in [Tasks -> Calls]
         /\ \A u \in Tasks : u # t => call'[u] = call[u]
         /\ call'[t].pc = "idle" /\ call'[t].stack = <<>>
<1>1. call[t].pc = "find" /\ call' = [call EXCEPT ![t] = NoCall]
  BY DEF Finish
<1>2. NoCall \in Calls /\ NoCall.pc = "idle" /\ NoCall.stack = <<>>
  BY NoCallIs DEF NoCall
<1> QED BY <1>1, <1>2, CallIs DEF Types
-----------------------------------------------------------------------------
(* The list is the chain of the cubes *)

\* One call at a time: the others are idle before and after its steps.
LEMMA Alone ==
  ASSUME NEW t \in Tasks,
         \A u \in Tasks : u # t => call[u].pc = "idle" /\ call'[u] = call[u]
  PROVE  /\ OneCall' /\ (Quiet' <=> call'[t].pc = "idle")
         /\ \A u \in Tasks : u # t => call'[u].pc = "idle"
<1>1. \A u \in Tasks : u # t => call'[u].pc = "idle"
  OBVIOUS
<1> QED BY <1>1 DEF OneCall, Quiet

LEMMA AloneAlready ==
  ASSUME OneCall, NEW t \in Tasks, call[t].pc # "idle"
  PROVE  ~Quiet /\ \A u \in Tasks : u # t => call[u].pc = "idle"
  BY DEF OneCall, Quiet

LEMMA AloneThen ==
  ASSUME MaxBusy = 1, OneCall, NEW t \in Tasks, NEW i \in Ids, Receive(t, i)
  PROVE  Quiet
<1> DEFINE S == {u \in Tasks : call[u].pc # "idle"}
<1>1. Cardinality(S) < 1
  BY DEF Receive
<1>2. ASSUME NEW u \in S PROVE FALSE
  <2>1. S = {u}
    BY DEF OneCall
  <2>2. Cardinality(S) = 1
    BY <2>1, FS_Singleton
  <2> QED BY <1>1, <2>2
<1> QED BY <1>2 DEF Quiet

LEMMA InitTypes == Init => Types /\ OneCall /\ Quiet
<1> SUFFICES ASSUME Init PROVE Types /\ OneCall /\ Quiet
  OBVIOUS
<1>1. phases \in Seq([Ids -> Seq(Reports)]) /\ arm \in Seq(Ids)
  BY ReportHandlerAssumption DEF Init
<1>2. dict \in [Ids -> Reports] /\ \A i \in Ids : dict[i].id = i
  <2>1. \A i \in Ids : [NoReport EXCEPT !.id = i] \in Reports /\ [NoReport EXCEPT !.id = i].id = i
    BY NoCallIs DEF Reports
  <2> QED BY <2>1 DEF Init
<1>3. is_dict_ix_empty \in [Ids -> BOOLEAN]
  <2>1. \A i \in Ids : (i # ROOT_ID) \in BOOLEAN
    OBVIOUS
  <2> QED BY <2>1 DEF Init
<1>4. /\ ids_array \in [Ids -> Ids] /\ ids_array_len \in 1 .. MaxNodes
      /\ num_servos \in 1 .. MaxNodes
  BY IdsAre DEF Init
<1>5. call \in [Tasks -> Calls] /\ \A t \in Tasks : call[t].pc = "idle" /\ call[t].stack = <<>>
  BY NoCallIs DEF Init, NoCall
<1> QED BY <1>1, <1>2, <1>3, <1>4, <1>5 DEF Types, OneCall, Quiet

LEMMA InitListOK == Init => ListOK
<1> SUFFICES ASSUME Init PROVE ListOK
  OBVIOUS
<1>1. Quiet
  BY InitTypes
<1>2. Listed = {0} /\ ids_array[0] = ROOT_ID /\ ids_array_len = 1 /\ 1 .. ids_array_len - 1 = {}
  BY IdsAre DEF Init, Listed
<1>3. Linked
  BY <1>2 DEF Linked
<1>4. Ended
  <2>1. ASSUME NEW j \in Ids, dict[j].master = ROOT_ID PROVE FALSE
    BY <2>1, IdsAre DEF Init, NoReport
  <2> QED BY <1>2, <2>1 DEF Ended, Init
<1> QED BY <1>1, <1>3, <1>4 DEF ListOK, Quiet

\* Preservation, by the stages of receive_new_report.  While a report is
\* stored and while cubes are removed the list does not matter.
LEMMA ReceiveKeeps ==
  ASSUME MaxBusy = 1, IInv, NEW t \in Tasks, NEW i \in Ids, Receive(t, i)
  PROVE  IInv'
<1> USE DEF IInv
<1> DEFINE q == phases[1]
           p == Head(q[i])
<1>1. Quiet
  BY AloneThen
<1>2. /\ phases # <<>> /\ q \in [Ids -> Seq(Reports)] /\ q[i] # <<>> /\ p \in Reports
      /\ phases' = [phases EXCEPT ![1] = [q EXCEPT ![i] = Tail(@)]]
      /\ dict' = [dict EXCEPT ![p.id] = p]
      /\ is_dict_ix_empty' = [is_dict_ix_empty EXCEPT ![p.id] = FALSE]
      /\ call' \in [Tasks -> Calls] /\ \A u \in Tasks : u # t => call'[u] = call[u]
      /\ call'[t].pc \in {"remove", "clear"}
      /\ call'[t].pc = "remove" <=> call'[t].stack # <<>>
  <2>1. CASE p.slave = UNKNOWN_ID
    <3>1. call'[t].pc = "remove" /\ Len(call'[t].stack) = 1
      BY <2>1, ReceiveIs
    <3>2. Len(<<>>) # 1
      BY EmptySeq
    <3>3. call'[t].stack # <<>>
      BY Zenon, <3>1, <3>2
    <3> QED BY <3>1, <3>3, ReceiveIs
  <2>2. CASE p.slave # UNKNOWN_ID
    BY <2>2, ReceiveIs
  <2> QED BY <2>1, <2>2
<1>3. phases' \in Seq([Ids -> Seq(Reports)])
  <2>1. Tail(q[i]) \in Seq(Reports)
    BY <1>2, HeadTailProperties
  <2>2. [q EXCEPT ![i] = Tail(@)] \in [Ids -> Seq(Reports)]
    BY <1>2, <2>1
  <2> HIDE DEF q
  <2> QED BY <1>2, <2>2 DEF Types
<1>4. p.id \in Ids
  BY <1>2 DEF Reports
<1>5. UNCHANGED <<arm, idsVars, num_servos>>
  BY DEF Receive
<1> HIDE DEF q, p
<1>6. dict' \in [Ids -> Reports] /\ \A x \in Ids : dict'[x].id = x
  BY <1>2, <1>4 DEF Types
<1>7. is_dict_ix_empty' \in [Ids -> BOOLEAN]
  BY <1>2, <1>4 DEF Types
<1>8. \A u \in Tasks : call'[u].pc = "remove" <=> call'[u].stack # <<>>
  BY ZenonT(60), <1>2 DEF Types
<1>9. Types'
  BY <1>2, <1>3, <1>5, <1>6, <1>7, <1>8 DEF Types, idsVars
<1>10. OneCall' /\ ~Quiet' /\ \A u \in Tasks : call'[u].pc \notin {"find", "append"}
  <2>1. \A u \in Tasks : u # t => call[u].pc = "idle" /\ call'[u] = call[u]
    BY <1>1, <1>2 DEF Quiet
  <2>2. OneCall' /\ (Quiet' <=> call'[t].pc = "idle") /\ \A u \in Tasks : u # t => call'[u].pc = "idle"
    BY <2>1, Alone
  <2> QED BY <1>2, <2>2
<1> QED BY <1>9, <1>10 DEF ListOK

LEMMA DescendKeeps == ASSUME IInv, NEW t \in Tasks, Descend(t) PROVE IInv'
<1> USE DEF IInv
<1>1. /\ call' \in [Tasks -> Calls] /\ \A u \in Tasks : u # t => call'[u] = call[u]
      /\ call[t].pc = "remove" /\ call'[t].pc = "remove" /\ call'[t].stack # <<>>
  BY DescendIs
<1>2. UNCHANGED <<phases, arm, dictVars, idsVars, num_servos>>
  BY DEF Descend
<1>3. \A u \in Tasks : call'[u].pc = "remove" <=> call'[u].stack # <<>>
  BY <1>1 DEF Types
<1>4. Types'
  BY <1>1, <1>2, <1>3 DEF Types, idsVars, dictVars
<1>5. \A u \in Tasks : u # t => call[u].pc = "idle" /\ call'[u] = call[u]
  BY <1>1, AloneAlready
<1>6. OneCall' /\ (Quiet' <=> call'[t].pc = "idle") /\ \A u \in Tasks : u # t => call'[u].pc = "idle"
  BY <1>5, Alone
<1>7. ~Quiet' /\ \A u \in Tasks : call'[u].pc \notin {"find", "append"}
  BY <1>1, <1>6
<1> QED BY <1>4, <1>6, <1>7 DEF ListOK

LEMMA ReturnKeeps == ASSUME IInv, NEW t \in Tasks, Return(t) PROVE IInv'
<1> USE DEF IInv
<1> DEFINE s == call[t].stack
           c == s[Len(s)].node
<1>1. /\ c \in Ids /\ call[t].pc = "remove"
      /\ call' \in [Tasks -> Calls] /\ \A u \in Tasks : u # t => call'[u] = call[u]
      /\ IF Len(s) = 1
         THEN /\ UNCHANGED dictVars
              /\ call'[t].pc = "clear" /\ call'[t].stack = <<>>
         ELSE /\ dict' = [dict EXCEPT ![c] = [NoReport EXCEPT !.id = c]]
              /\ is_dict_ix_empty' = [is_dict_ix_empty EXCEPT ![c] = TRUE]
              /\ call'[t].pc = "remove" /\ call'[t].stack # <<>>
  BY ReturnIs
<1> HIDE DEF s, c
<1>2. UNCHANGED <<phases, arm, idsVars, num_servos>>
  BY DEF Return
<1>3. call'[t].pc \in {"clear", "remove"} /\ (call'[t].pc = "remove" <=> call'[t].stack # <<>>)
  BY <1>1
<1>4. dict' \in [Ids -> Reports] /\ \A x \in Ids : dict'[x].id = x
  <2>1. [NoReport EXCEPT !.id = c] \in Reports /\ [NoReport EXCEPT !.id = c].id = c
    BY <1>1, NoCallIs DEF Reports
  <2> QED BY <1>1, <2>1 DEF Types, dictVars
<1>5. is_dict_ix_empty' \in [Ids -> BOOLEAN]
  BY <1>1 DEF Types, dictVars
<1>6. \A u \in Tasks : call'[u].pc = "remove" <=> call'[u].stack # <<>>
  BY <1>1, <1>3 DEF Types
<1>7. Types'
  BY <1>1, <1>2, <1>4, <1>5, <1>6 DEF Types, idsVars
<1>8. \A u \in Tasks : u # t => call[u].pc = "idle" /\ call'[u] = call[u]
  BY <1>1, AloneAlready
<1>9. OneCall' /\ (Quiet' <=> call'[t].pc = "idle") /\ \A u \in Tasks : u # t => call'[u].pc = "idle"
  BY <1>8, Alone
<1>10. ~Quiet' /\ \A u \in Tasks : call'[u].pc \notin {"find", "append"}
  BY <1>3, <1>9
<1> QED BY <1>7, <1>9, <1>10 DEF ListOK

\* compute_ids_array starts over at the root.
LEMMA ClearKeeps == ASSUME IInv, NEW t \in Tasks, Clear(t) PROVE IInv'
<1> USE DEF IInv
<1>1. /\ call[t].pc = "clear" /\ call' \in [Tasks -> Calls]
      /\ \A u \in Tasks : u # t => call'[u] = call[u]
      /\ call'[t].pc = "find" /\ call'[t].stack = call[t].stack
      /\ call'[t].used = {ROOT_ID} /\ call'[t].curr = ROOT_ID
  BY ClearIs
<1>2. /\ ids_array' = [ids_array EXCEPT ![0] = ROOT_ID] /\ ids_array_len' = 1
      /\ UNCHANGED <<phases, arm, dictVars, num_servos>>
  BY DEF Clear
<1>3. /\ ids_array' \in [Ids -> Ids] /\ ids_array'[0] = ROOT_ID
      /\ ids_array_len' \in 1 .. MaxNodes
  BY <1>2, IdsAre DEF Types
<1>4. \A u \in Tasks : call'[u].pc = "remove" <=> call'[u].stack # <<>>
  BY SMTT(60), <1>1 DEF Types
<1>5. Types'
  BY <1>1, <1>2, <1>3, <1>4 DEF Types, dictVars
<1>6. \A u \in Tasks : u # t => call[u].pc = "idle" /\ call'[u] = call[u]
  BY <1>1, AloneAlready
<1>7. OneCall' /\ (Quiet' <=> call'[t].pc = "idle") /\ \A u \in Tasks : u # t => call'[u].pc = "idle"
  BY <1>6, Alone
<1>8. Listed' = {0} /\ 1 .. ids_array_len' - 1 = {} /\ ids_array_len' - 1 = 0
  BY <1>2 DEF Listed
<1>9. Linked'
  BY <1>3, <1>8 DEF Linked
<1>10. Walked(t)'
  <2>1. Cardinality({ROOT_ID}) = 1
    BY FS_Singleton
  <2> QED BY <1>1, <1>2, <1>3, <1>8, <2>1 DEF Walked
<1> QED BY <1>1, <1>5, <1>7, <1>9, <1>10 DEF ListOK

\* It finds the next cube of the chain, ...
LEMMA FindKeeps == ASSUME IInv, NEW t \in Tasks, Find(t) PROVE IInv'
<1> USE DEF IInv
<1>1. /\ call[t].pc = "find" /\ call' \in [Tasks -> Calls]
      /\ \A u \in Tasks : u # t => call'[u] = call[u]
      /\ call'[t].pc = "append" /\ call'[t].stack = call[t].stack
      /\ call'[t].used = call[t].used /\ call'[t].curr = call[t].curr
      /\ call'[t].found \in Successors(t)
  BY FindIs
<1>2. UNCHANGED <<phases, arm, dictVars, idsVars, num_servos>>
  BY DEF Find
<1>3. \A u \in Tasks : call'[u].pc = "remove" <=> call'[u].stack # <<>>
  BY <1>1 DEF Types
<1>4. Types'
  BY <1>1, <1>2, <1>3 DEF Types, dictVars, idsVars
<1>5. \A u \in Tasks : u # t => call[u].pc = "idle" /\ call'[u] = call[u]
  BY <1>1, AloneAlready
<1>6. OneCall' /\ (Quiet' <=> call'[t].pc = "idle") /\ \A u \in Tasks : u # t => call'[u].pc = "idle"
  BY <1>5, Alone
<1>7. Linked /\ Walked(t)
  BY <1>1 DEF ListOK
<1>8. Linked'
  BY <1>2, <1>7 DEF Linked, Listed, idsVars, dictVars
<1>9. Walked(t)'
  <2>1. Successors(t)' = Successors(t)
    BY <1>1, <1>2 DEF Successors, dictVars
  <2> QED BY <1>1, <1>2, <1>7, <2>1 DEF Walked, Listed, idsVars
<1> QED BY <1>1, <1>4, <1>6, <1>8, <1>9 DEF ListOK

\* ... and appends it: being new, it still has room in the array.
LEMMA AppendKeeps == ASSUME IInv, NEW t \in Tasks, AppendFound(t) PROVE IInv'
<1> USE DEF IInv
<1> DEFINE f == call[t].found
           n == ids_array_len
<1>1. call[t].pc = "append" /\ Linked /\ Walked(t)
  BY DEF AppendFound, ListOK
<1>2. /\ f \in Ids /\ f \notin call[t].used
      /\ ~is_dict_ix_empty[f] /\ dict[f].master = ids_array[n - 1]
  BY <1>1 DEF Walked, Successors
<1>3. /\ call' \in [Tasks -> Calls] /\ \A u \in Tasks : u # t => call'[u] = call[u]
      /\ call'[t].pc = "find" /\ call'[t].stack = call[t].stack
      /\ call'[t].used = call[t].used \cup {f} /\ call'[t].curr = f
  BY <1>2, AppendIs
<1>4. /\ ids_array' = [i \in Ids |-> IF i = n THEN f ELSE ids_array[i]]
      /\ ids_array_len' = n + 1 /\ UNCHANGED <<phases, arm, dictVars, num_servos>>
  BY DEF AppendFound
<1>5. n \in Nat \ {0} /\ n < MaxNodes /\ Cardinality(call'[t].used) = n + 1
  <2>1. call[t].used \subseteq Ids /\ call'[t].used \subseteq Ids
    BY <1>3 DEF Types, Calls
  <2>2. IsFiniteSet(call[t].used) /\ Cardinality(call'[t].used) <= MaxNodes
    BY <2>1, IdsAre, FS_Subset
  <2>3. Cardinality(call'[t].used) = n + 1
    BY <1>1, <1>2, <1>3, <2>2, FS_AddElement DEF Walked
  <2>4. n \in 1 .. MaxNodes /\ MaxNodes \in Nat
    BY IdsAre DEF Types
  <2> QED BY <2>2, <2>3, <2>4
<1>6. Listed \subseteq Ids /\ Listed' = Listed \cup {n} /\ n \in Ids /\ n \notin Listed
  BY <1>4, <1>5, IdsAre DEF Listed, Ids
<1>7. /\ ids_array' \in [Ids -> Ids] /\ ids_array'[n] = f
      /\ \A i \in Listed : ids_array'[i] = ids_array[i]
  BY <1>2, <1>4, <1>6 DEF Types
<1>8. Types'
  <2>1. \A u \in Tasks : call'[u].pc = "remove" <=> call'[u].stack # <<>>
    BY <1>1, <1>3 DEF Types
  <2>2. ids_array_len' \in 1 .. MaxNodes
    BY <1>4, <1>5, IdsAre
  <2> QED BY <1>3, <1>4, <1>7, <2>1, <2>2 DEF Types, dictVars
<1>9. \A u \in Tasks : u # t => call[u].pc = "idle" /\ call'[u] = call[u]
  BY <1>1, <1>3, AloneAlready
<1>10. OneCall' /\ (Quiet' <=> call'[t].pc = "idle") /\ \A u \in Tasks : u # t => call'[u].pc = "idle"
  BY <1>9, Alone
<1>11. \A i \in Listed : ids_array[i] # f
  BY <1>1, <1>2 DEF Walked
<1> HIDE DEF f, n
<1>12. Linked'
  <2>1. ids_array'[0] = ROOT_ID
    BY <1>1, <1>5, <1>7 DEF Linked, Listed, n
  <2>2. ASSUME NEW i \in 1 .. ids_array_len' - 1
        PROVE  /\ ~is_dict_ix_empty'[ids_array'[i]]
               /\ dict'[ids_array'[i]].master = ids_array'[i - 1]
    <3>1. CASE i = n
      <4>1. i - 1 \in Listed /\ ids_array'[i - 1] = ids_array[n - 1]
        BY <1>5, <1>7, <3>1 DEF Listed, n
      <4> QED BY <1>2, <1>4, <1>7, <3>1, <4>1 DEF dictVars
    <3>2. CASE i # n
      <4>1. i \in Listed /\ i - 1 \in Listed /\ i \in 1 .. ids_array_len - 1
        BY <1>4, <1>5, <2>2, <3>2 DEF Listed, n
      <4> QED BY <1>1, <1>4, <1>7, <4>1 DEF Linked, dictVars
    <3> QED BY <3>1, <3>2
  <2>3. \A i, j \in Listed' : ids_array'[i] = ids_array'[j] => i = j
    BY <1>1, <1>6, <1>7, <1>11 DEF Linked
  <2> QED BY <2>1, <2>2, <2>3 DEF Linked
<1>13. Walked(t)'
  <2>1. call'[t].used = {ids_array'[i] : i \in Listed'}
    BY <1>1, <1>3, <1>6, <1>7 DEF Walked
  <2>2. ids_array_len' - 1 = n
    BY <1>4, <1>5
  <2> QED BY <1>3, <1>4, <1>5, <1>7, <2>1, <2>2 DEF Walked
<1> QED BY <1>3, <1>8, <1>10, <1>12, <1>13 DEF ListOK

\* No other cube hangs from the last one: the list is complete.
LEMMA FinishKeeps == ASSUME IInv, NEW t \in Tasks, Finish(t) PROVE IInv'
<1> USE DEF IInv
<1>1. /\ call[t].pc = "find" /\ call' \in [Tasks -> Calls]
      /\ \A u \in Tasks : u # t => call'[u] = call[u]
      /\ call'[t].pc = "idle" /\ call'[t].stack = <<>>
  BY FinishIs
<1>2. num_servos' = ids_array_len /\ UNCHANGED <<phases, arm, dictVars, idsVars>>
  BY DEF Finish
<1>3. \A u \in Tasks : call'[u].pc = "remove" <=> call'[u].stack # <<>>
  BY SMTT(60), <1>1 DEF Types
<1>4. Types'
  BY <1>1, <1>2, <1>3 DEF Types, dictVars, idsVars
<1>5. \A u \in Tasks : u # t => call[u].pc = "idle" /\ call'[u] = call[u]
  BY <1>1, AloneAlready
<1>6. OneCall' /\ (Quiet' <=> call'[t].pc = "idle") /\ \A u \in Tasks : u # t => call'[u].pc = "idle"
  BY <1>5, Alone
<1>7. Linked /\ Walked(t)
  BY <1>1 DEF ListOK
<1>8. Linked'
  BY <1>2, <1>7 DEF Linked, Listed, idsVars, dictVars
<1>9. ASSUME NEW j \in Ids, ~is_dict_ix_empty[j], dict[j].master = ids_array[ids_array_len - 1]
      PROVE  j \in call[t].used
  <2>1. CASE Successors(t) = {}
    BY <1>7, <1>9, <2>1 DEF Successors, Walked
  <2>2. CASE Cardinality(call[t].used) = MaxNodes
    <3>1. call[t].used \subseteq Ids
      BY DEF Types, Calls
    <3>2. call[t].used = Ids
      BY <2>2, <3>1, IdsAre, FS_Subset
    <3> QED BY <3>2
  <2> QED BY <2>1, <2>2 DEF Finish
<1>10. Ended'
  BY <1>2, <1>7, <1>9 DEF Ended, Walked, Listed, idsVars, dictVars
<1> QED BY <1>1, <1>4, <1>6, <1>8, <1>10 DEF ListOK

LEMMA NextPhaseKeeps == ASSUME IInv, NextPhase PROVE IInv'
<1> USE DEF IInv
<1>1. phases' = Tail(phases) /\ UNCHANGED <<arm, dictVars, idsVars, num_servos, call>>
  BY DEF NextPhase
<1>2. phases' \in Seq([Ids -> Seq(Reports)])
  BY <1>1, HeadTailProperties DEF NextPhase, Types
<1>3. Types' /\ OneCall'
  BY <1>1, <1>2 DEF Types, OneCall, idsVars, dictVars
<1>4. ListOK'
  BY <1>1 DEF ListOK, Quiet, Linked, Ended, Walked, Successors, Listed, idsVars, dictVars
<1> QED BY <1>3, <1>4

LEMMA StutterKeeps == ASSUME IInv, UNCHANGED vars PROVE IInv'
<1> USE DEF IInv, vars, idsVars, dictVars
<1>1. Types' /\ OneCall'
  BY DEF Types, OneCall
<1>2. ListOK'
  BY DEF ListOK, Quiet, Linked, Ended, Walked, Successors, Listed
<1> QED BY <1>1, <1>2

\* What every reachable state of a root that handles one report at a time
\* has in common: the list that compute_ids_array writes is a chain of master
\* links without a loop, while it is written and after.
THEOREM Invariance == ASSUME MaxBusy = 1 PROVE Spec => []IInv
<1>1. Init => IInv
  BY InitTypes, InitListOK DEF IInv
<1>2. IInv /\ [Next]_vars => IInv'
  <2> SUFFICES ASSUME IInv, [Next]_vars PROVE IInv'
    OBVIOUS
  <2>1. CASE UNCHANGED vars
    BY <2>1, StutterKeeps
  <2>2. CASE NextPhase
    BY <2>2, NextPhaseKeeps
  <2>3. ASSUME NEW t \in Tasks, Step(t) PROVE IInv'
    BY <2>3, DescendKeeps, ReturnKeeps, ClearKeeps, FindKeeps, AppendKeeps, FinishKeeps DEF Step
  <2>4. ASSUME NEW t \in Tasks, NEW i \in Ids, Receive(t, i) PROVE IInv'
    BY <2>4, ReceiveKeeps
  <2> QED BY <2>1, <2>2, <2>3, <2>4 DEF Next
<1> QED BY <1>1, <1>2, PTL DEF Spec

\* The table keeps its shape: the entry of a cube always carries its id, also
\* when remove_subtree_recursive empties it.
THEOREM TypeCorrect == ASSUME MaxBusy = 1 PROVE Spec => []TypeOK
<1>1. IInv => TypeOK
  <2> SUFFICES ASSUME IInv PROVE TypeOK
    OBVIOUS
  <2>1. \A t \in Tasks : call[t] \in Calls
    BY DEF IInv, Types
  <2>2. \A t \in Tasks : \A k \in DOMAIN call[t].stack : call[t].stack[k].node \in Ids
    <3> SUFFICES ASSUME NEW t \in Tasks, NEW k \in DOMAIN call[t].stack
                 PROVE  call[t].stack[k] \in Frames
      BY DEF Frames
    <3>1. call[t].stack \in Seq(Frames)
      BY <2>1 DEF Calls
    <3> QED BY <3>1
  <2> QED BY <2>1, <2>2 DEF IInv, Types, TypeOK, Calls
<1> QED BY <1>1, Invariance, PTL

\* Between two reports ids_array is the chain of master links from the root,
\* complete, and as many servos are expected as it has cubes.
THEOREM ChainIsListed == ASSUME MaxBusy = 1 PROVE Spec => []ChainOK
<1>1. IInv => ChainOK
  BY DEF IInv, ListOK, Linked, Ended, Listed, ChainOK
<1> QED BY <1>1, Invariance, PTL

\* handle_report.cpp 55: loops in what the cubes report do not get into the
\* list; no cube is listed twice.
THEOREM LoopsAvoided == ASSUME MaxBusy = 1 PROVE Spec => []NoLoop
<1>1. IInv => NoLoop
  BY DEF IInv, ListOK, Linked, Listed, NoLoop
<1> QED BY <1>1, Invariance, PTL
-----------------------------------------------------------------------------
(* The arm gets listed *)

LEMMA PrefixIs ==
  ASSUME NEW a \in ArmSeqs, NEW b \in ArmSeqs, Prefix(a, b)
  PROVE  /\ Len(a) \in 1 .. Len(b)
         /\ \A l \in 1 .. Len(a) : l \in 1 .. Len(b) /\ a[l] = b[l] /\ Master(a, l) = Master(b, l)
<1>1. Len(a) \in Nat \ {0} /\ Len(b) \in Nat /\ Len(a) <= Len(b)
  BY ArmIs DEF Prefix
<1>2. \A l \in 1 .. Len(a) : l \in 1 .. Len(b) /\ a[l] = b[l]
  BY <1>1 DEF Prefix
<1>3. ASSUME NEW l \in 1 .. Len(a) PROVE Master(a, l) = Master(b, l)
  <2>1. l # 1 => l - 1 \in 1 .. Len(a)
    BY <1>1
  <2> QED BY <1>2, <2>1 DEF Master
<1> QED BY <1>1, <1>2, <1>3

\* While the table is an arm, what hangs from a cube is the next one.
LEMMA HangsIs ==
  ASSUME NEW b \in ArmSeqs, NEW m \in 0 .. Len(b), Holds(b, m),
         NEW x \in 1 .. Len(b), NEW c \in Ids, ~is_dict_ix_empty[c], dict[c].master = b[x]
  PROVE  x + 1 \in 1 .. m /\ c = b[x + 1]
<1>1. Len(b) \in Nat
  BY ArmIs
<1>2. PICK l \in 1 .. m : c = b[l]
  BY DEF Holds
<1>3. l \in 1 .. Len(b) /\ Master(b, l) = b[x]
  BY <1>1, <1>2 DEF Holds
<1>4. l = x + 1
  BY <1>3, MasterIs
<1> QED BY <1>2, <1>4

\* A new phase begins.
LEMMA Begin ==
  ASSUME NEW a \in ArmSeqs, NEW b \in ArmSeqs, NEW q, Becomes(b, q, a), Holds(b, Len(b)), Quiet
  PROVE  Grown(q, a) \/ CutOff(b, q, a)
<1>1. \A t \in Tasks : call[t].pc # "remove"
  BY DEF Quiet
<1>2. Len(a) \in Nat \ {0} /\ Len(b) \in Nat \ {0}
  BY ArmIs
<1>3. CASE Prefix(b, a) /\ \A l \in 1 .. Len(a) : l > Len(b) => q[a[l]] # <<>>
  <2>1. \A l \in 1 .. Len(b) : l \in 1 .. Len(a) /\ a[l] = b[l] /\ Master(a, l) = Master(b, l)
    BY <1>3, PrefixIs
  <2>2. ASSUME NEW i \in Ids, ~is_dict_ix_empty[i]
        PROVE  \E l \in 1 .. Len(a) : i = a[l] /\ dict[i].master = Master(a, l)
    <3>1. PICK l \in 1 .. Len(b) : i = b[l]
      BY <2>2 DEF Holds
    <3>2. dict[i].master = Master(b, l)
      BY <3>1 DEF Holds
    <3> QED BY <2>1, <3>1, <3>2
  <2>3. ASSUME NEW l \in 1 .. Len(a) PROVE ~is_dict_ix_empty[a[l]] \/ q[a[l]] # <<>>
    <3>1. CASE l \in 1 .. Len(b)
      BY <2>1, <3>1, ArmIs DEF Holds
    <3>2. CASE l > Len(b)
      BY <1>3, <3>2
    <3> QED BY <1>2, <3>1, <3>2
  <2> QED BY <1>1, <2>2, <2>3 DEF Grown
<1>4. CASE Prefix(a, b) /\ q[a[Len(a)]] # <<>>
  <2>1. Len(b) \in Len(a) .. Len(b)
    BY <1>2, <1>4, PrefixIs
  <2> QED BY <1>1, <1>4, <2>1 DEF CutOff
<1> QED BY <1>3, <1>4 DEF Becomes

\* All reports of a phase have been handled.
LEMMA Completed ==
  ASSUME NEW a \in ArmSeqs, NEW b \in ArmSeqs, NEW q, Grown(q, a) \/ CutOff(b, q, a), Quiet,
         \A i \in Ids : q[i] = <<>>
  PROVE  Holds(a, Len(a))
<1>1. \A t \in Tasks : call[t].pc # "remove"
  BY DEF Quiet
<1>2. /\ Len(a) \in Nat \ {0} /\ \A l \in 1 .. Len(a) : a[l] \in Ids
      /\ \A k, l \in 1 .. Len(a) : a[k] = a[l] => k = l
  BY ArmIs
<1>3. CASE Grown(q, a)
  <2>1. \A l \in 1 .. Len(a) : ~is_dict_ix_empty[a[l]]
    BY <1>2, <1>3 DEF Grown
  <2>2. ASSUME NEW l \in 1 .. Len(a) PROVE dict[a[l]].master = Master(a, l)
    <3>1. PICK k \in 1 .. Len(a) : a[l] = a[k] /\ dict[a[l]].master = Master(a, k)
      BY <1>2, <1>3, <2>1 DEF Grown
    <3>2. k = l
      BY <1>2, <3>1
    <3> QED BY <3>1, <3>2
  <2>3. \A i \in Ids : ~is_dict_ix_empty[i] <=> \E l \in 1 .. Len(a) : i = a[l]
    BY <1>3, <2>1 DEF Grown
  <2> QED BY <2>2, <2>3 DEF Holds
<1>4. CASE CutOff(b, q, a)
  <2>1. Prefix(a, b) /\ Holds(b, Len(a))
    <3>1. a[Len(a)] \in Ids
      BY <1>2
    <3> QED BY <1>1, <1>4, <3>1 DEF CutOff
  <2>2. \A l \in 1 .. Len(a) : a[l] = b[l] /\ Master(a, l) = Master(b, l)
    BY <2>1, PrefixIs
  <2> QED BY <2>1, <2>2 DEF Holds
<1> QED BY <1>3, <1>4

\* A report arrives.
LEMMA Arrival ==
  ASSUME MaxBusy = 1, Types, OneCall, NEW t \in Tasks, NEW i \in Ids, Receive(t, i),
         NEW a \in ArmSeqs, NEW b \in ArmSeqs, Truths(phases[1], a),
         Grown(phases[1], a) \/ CutOff(b, phases[1], a)
  PROVE  Truths(phases'[1], a) /\ (Grown(phases[1], a) \/ CutOff(b, phases[1], a))'
<1> DEFINE q == phases[1]
           z == phases'[1]
           p == Head(q[i])
<1>1. Quiet /\ \A u \in Tasks : call[u].pc # "remove"
  BY AloneThen DEF Quiet
<1>2. /\ phases # <<>> /\ q \in [Ids -> Seq(Reports)] /\ q[i] # <<>>
      /\ p \in Reports /\ p = q[i][1] /\ 1 \in DOMAIN q[i]
      /\ phases' = [phases EXCEPT ![1] = [q EXCEPT ![i] = Tail(@)]]
      /\ dict' = [dict EXCEPT ![p.id] = p]
      /\ is_dict_ix_empty' = [is_dict_ix_empty EXCEPT ![p.id] = FALSE]
      /\ \A u \in Tasks : u # t => call'[u] = call[u]
  BY ReceiveIs
<1>3. IF p.slave = UNKNOWN_ID
      THEN /\ call'[t].pc = "remove" /\ Len(call'[t].stack) = 1
           /\ call'[t].stack[1].node = p.id /\ call'[t].stack[1].j = 0
      ELSE call'[t].pc = "clear"
  BY ReceiveIs
<1>4. z = [q EXCEPT ![i] = Tail(@)]
  <2>1. 1 \in DOMAIN phases
    BY <1>2, EmptySeq DEF Types
  <2> QED BY <1>2, <2>1
<1>5. PICK l \in 1 .. Len(a) : /\ i = a[l] /\ p.id = i /\ p.master = Master(a, l)
                               /\ p.slave = UNKNOWN_ID <=> l = Len(a)
  <2>1. \E l \in 1 .. Len(a) : /\ i = a[l] /\ q[i][1].id = i /\ q[i][1].master = Master(a, l)
                               /\ q[i][1].slave = UNKNOWN_ID <=> l = Len(a)
    BY <1>2 DEF Truths
  <2> QED BY <1>2, <2>1
<1>6. dict \in [Ids -> Reports] /\ is_dict_ix_empty \in [Ids -> BOOLEAN]
  BY DEF Types
<1>7. /\ Len(a) \in Nat \ {0} /\ Len(b) \in Nat \ {0}
      /\ \A k \in 1 .. Len(a) : a[k] \in Ids /\ (a[k] = i => k = l)
      /\ \A k \in 1 .. Len(b) : b[k] \in Ids
  BY <1>5, ArmIs
<1> HIDE DEF p, q, z
<1>8. /\ dict'[i].master = Master(a, l) /\ ~is_dict_ix_empty'[i]
      /\ \A k \in Ids : k # i => dict'[k] = dict[k] /\ is_dict_ix_empty'[k] = is_dict_ix_empty[k]
  BY <1>2, <1>5, <1>6
<1>9. Truths(z, a)
  <2> SUFFICES ASSUME NEW k \in Ids, NEW x \in DOMAIN z[k]
               PROVE  \E y \in DOMAIN q[k] : z[k][x] = q[k][y]
    BY DEF Truths, q
  <2>1. CASE k # i
    BY <1>2, <1>4, <2>1
  <2>2. CASE k = i
    <3>1. /\ z[i] = Tail(q[i]) /\ Len(z[i]) = Len(q[i]) - 1 /\ Len(q[i]) \in Nat
          /\ x \in 1 .. Len(z[i]) /\ DOMAIN q[i] = 1 .. Len(q[i])
      BY <1>2, <1>4, <2>2, HeadTailProperties
    <3>2. x + 1 \in DOMAIN q[i] /\ z[i][x] = q[i][x + 1]
      BY <1>2, <3>1
    <3> QED BY <2>2, <3>2
  <2> QED BY <2>1, <2>2
<1>10. \A k \in Ids : k # i => z[k] = q[k]
  BY <1>2, <1>4
<1>11. ASSUME NEW u \in Tasks, call'[u].pc = "remove"
       PROVE  /\ u = t /\ l = Len(a) /\ Len(call'[u].stack) = 1
              /\ call'[u].stack[1].node = i /\ call'[u].stack[1].j = 0
  BY <1>1, <1>2, <1>3, <1>5, <1>11
<1>12. CASE Grown(q, a)
  <2>1. ASSUME NEW k \in Ids, ~is_dict_ix_empty'[k]
        PROVE  \E y \in 1 .. Len(a) : k = a[y] /\ dict'[k].master = Master(a, y)
    BY <1>5, <1>8, <1>12, <2>1 DEF Grown
  <2>2. ASSUME NEW y \in 1 .. Len(a) PROVE ~is_dict_ix_empty'[a[y]] \/ z[a[y]] # <<>>
    BY <1>7, <1>8, <1>10, <1>12 DEF Grown
  <2> QED BY <1>5, <1>9, <1>11, <2>1, <2>2 DEF Grown, z
<1>13. CASE CutOff(b, q, a)
  <2>1. PICK m \in Len(a) .. Len(b) : /\ Holds(b, m)
                                      /\ m = Len(a) \/ q[a[Len(a)]] # <<>>
    BY <1>1, <1>13 DEF CutOff
  <2>2. Prefix(a, b)
    BY <1>13 DEF CutOff
  <2>3. l \in 1 .. m /\ i = b[l] /\ Master(a, l) = Master(b, l)
    BY <1>5, <1>7, <2>1, <2>2, PrefixIs
  <2>4. Holds(b, m)'
    <3>1. \A k \in 1 .. m : b[k] \in Ids /\ (b[k] = i => k = l)
      BY <1>7, <2>1, <2>3, ArmIs
    <3>2. \A k \in Ids : ~is_dict_ix_empty'[k] <=> \E y \in 1 .. m : k = b[y]
      BY <1>8, <2>1, <2>3 DEF Holds
    <3>3. \A y \in 1 .. m : dict'[b[y]].master = Master(b, y)
      BY <1>8, <2>1, <2>3, <3>1 DEF Holds
    <3> QED BY <3>2, <3>3 DEF Holds
  <2>5. m = Len(a) \/ z[a[Len(a)]] # <<>> \/ \E u \in Tasks : call'[u].pc = "remove"
    <3>1. CASE l = Len(a)
      BY <1>3, <1>5, <3>1
    <3>2. CASE l # Len(a)
      BY <1>7, <1>10, <2>1, <3>2
    <3> QED BY <3>1, <3>2
  <2>6. ASSUME NEW u \in Tasks, call'[u].pc = "remove" PROVE Unwinding(u, b, Len(a), m)'
    <3>1. /\ l = Len(a) /\ Len(call'[u].stack) = 1 /\ call'[u].stack[1].node = b[Len(a)]
          /\ call'[u].stack[1].j = 0
      BY <1>11, <2>3, <2>6
    <3>2. Len(a) + 1 - 1 = Len(a) /\ Len(a) <= m /\ 1 .. 1 = {1}
      BY <1>7, <2>1
    <3> QED BY <3>1, <3>2 DEF Unwinding
  <2> QED BY <1>9, <2>1, <2>2, <2>4, <2>5, <2>6 DEF CutOff, z
<1> QED BY <1>12, <1>13 DEF q

\* remove_subtree_recursive goes one cube down the arm that was cut.  While
\* the arm grows it never does: nothing hangs from the last cube.
LEMMA Descent ==
  ASSUME Types, OneCall, NEW t \in Tasks, Descend(t),
         NEW a \in ArmSeqs, NEW b \in ArmSeqs, NEW q, Grown(q, a) \/ CutOff(b, q, a)
  PROVE  CutOff(b, q, a)'
<1> DEFINE s == call[t].stack
           n == Len(s)
           z == call'[t].stack
<1>1. PICK c \in Ids :
        /\ ~is_dict_ix_empty[c] /\ dict[c].master = s[n].node
        /\ \A u \in Tasks : u # t => call'[u] = call[u]
        /\ call[t].pc = "remove" /\ call'[t].pc = "remove"
        /\ Len(z) = n + 1 /\ \A x \in 1 .. n : z[x].node = s[x].node
        /\ z[n + 1].node = c /\ z[n + 1].j = 0
  BY DescendIs
<1>2. UNCHANGED dictVars
  BY DEF Descend
<1>3. n \in Nat \ {0} /\ Len(a) \in Nat \ {0} /\ Len(b) \in Nat
  BY <1>1, StackIs, ArmIs
<1>4. ~Grown(q, a)
  <2> SUFFICES ASSUME Grown(q, a) PROVE FALSE
    OBVIOUS
  <2>1. n = 1 /\ s[1].node = a[Len(a)]
    BY <1>1 DEF Grown
  <2>2. PICK l \in 1 .. Len(a) : Master(a, l) = a[Len(a)]
    BY <1>1, <2>1 DEF Grown
  <2>3. Len(a) \in 1 .. Len(a)
    BY <1>3
  <2>4. l = Len(a) + 1
    BY <2>2, <2>3, MasterIs
  <2> QED BY <1>3, <2>4
<1>5. PICK m \in Len(a) .. Len(b) : Holds(b, m) /\ Unwinding(t, b, Len(a), m)
  BY <1>1, <1>4 DEF CutOff
<1>6. /\ Len(a) + n - 1 <= m /\ \A x \in 1 .. n : s[x].node = b[Len(a) + x - 1]
  BY <1>5 DEF Unwinding
<1>7. Len(a) + n <= m /\ c = b[Len(a) + n]
  <2> DEFINE x == Len(a) + n - 1
  <2>1. x \in 1 .. Len(b) /\ s[n].node = b[x] /\ m \in 0 .. Len(b) /\ x + 1 = Len(a) + n
    <3> HIDE DEF s, n
    <3>1. n \in 1 .. n /\ m \in Nat /\ m <= Len(b) /\ Len(a) <= m
      BY <1>3
    <3>2. s[n].node = b[x]
      BY <1>6, <3>1
    <3> QED BY <1>3, <1>6, <3>1, <3>2
  <2> HIDE DEF x
  <2>2. x + 1 \in 1 .. m /\ c = b[x + 1]
    BY <1>1, <1>5, <2>1, HangsIs
  <2> QED BY <1>3, <2>1, <2>2
<1>8. Unwinding(t, b, Len(a), m)'
  <2>1. Len(a) + Len(z) - 1 = Len(a) + n
    BY <1>1, <1>3
  <2>2. \A x \in 1 .. n + 1 : z[x].node = b[Len(a) + x - 1]
    <3> SUFFICES ASSUME NEW x \in 1 .. n + 1 PROVE z[x].node = b[Len(a) + x - 1]
      OBVIOUS
    <3>1. CASE x = n + 1
      <4>1. Len(a) + x - 1 = Len(a) + n
        BY <1>3, <3>1
      <4> QED BY <1>1, <1>7, <3>1, <4>1
    <3>2. CASE x # n + 1
      <4>1. x \in 1 .. n
        BY <1>3, <3>2
      <4> QED BY <1>1, <1>6, <4>1
    <3> QED BY <3>1, <3>2
  <2> QED BY <1>1, <1>7, <2>1, <2>2 DEF Unwinding
<1>9. \A u \in Tasks : call'[u].pc = "remove" => u = t
  BY <1>1, AloneAlready
<1>10. Holds(b, m)'
  BY <1>2, <1>5 DEF Holds, dictVars
<1>11. Prefix(a, b)
  BY <1>4 DEF CutOff
<1> QED BY <1>1, <1>5, <1>8, <1>9, <1>10, <1>11 DEF CutOff

\* It comes back, and the cube that it left is taken out of the table: by then
\* that is the last one.
LEMMA Ascent ==
  ASSUME Types, OneCall, NEW t \in Tasks, Return(t),
         NEW a \in ArmSeqs, NEW b \in ArmSeqs, NEW q, Grown(q, a) \/ CutOff(b, q, a)
  PROVE  (Grown(q, a) \/ CutOff(b, q, a))'
<1> DEFINE s == call[t].stack
           n == Len(s)
           z == call'[t].stack
           c == s[n].node
<1>1. /\ Children(t) = {} /\ c \in Ids
      /\ \A u \in Tasks : u # t => call'[u] = call[u]
      /\ call[t].pc = "remove" /\ Len(z) = n - 1 /\ \A x \in 1 .. n - 1 : z[x] = s[x]
      /\ n = 1 => UNCHANGED dictVars /\ call'[t].pc = "clear"
      /\ n # 1 => /\ dict' = [dict EXCEPT ![c] = [NoReport EXCEPT !.id = c]]
                  /\ is_dict_ix_empty' = [is_dict_ix_empty EXCEPT ![c] = TRUE]
                  /\ call'[t].pc = "remove"
  BY ReturnIs
<1>2. n \in Nat \ {0} /\ Len(a) \in Nat \ {0} /\ Len(b) \in Nat
  BY <1>1, StackIs, ArmIs
<1>3. \A u \in Tasks : call'[u].pc = "remove" => u = t /\ n # 1
  BY <1>1, AloneAlready
<1>4. CASE Grown(q, a)
  <2>1. n = 1
    BY <1>1, <1>4 DEF Grown
  <2>2. UNCHANGED dictVars /\ \A u \in Tasks : call'[u].pc # "remove"
    BY <1>1, <1>3, <2>1
  <2> QED BY <1>4, <2>2 DEF Grown, dictVars
<1>5. CASE CutOff(b, q, a)
  <2>1. PICK m \in Len(a) .. Len(b) : Holds(b, m) /\ Unwinding(t, b, Len(a), m)
    BY <1>1, <1>5 DEF CutOff
  <2>2. /\ Len(a) + n - 1 <= m /\ \A x \in 1 .. n : s[x].node = b[Len(a) + x - 1]
        /\ s[n].j = 0 \/ Len(a) + n - 1 = m
    BY <2>1 DEF Unwinding
  <2>3. c = b[Len(a) + n - 1]
    <3> HIDE DEF s, n
    <3>1. n \in 1 .. n
      BY <1>2
    <3> QED BY <2>2, <3>1
  <2>4. Len(a) + n - 1 = m
    <3> SUFFICES ASSUME s[n].j = 0, Len(a) + n <= m PROVE FALSE
      <4> HIDE DEF s, n
      <4> QED BY <1>2, <2>1, <2>2
    <3> DEFINE d == b[Len(a) + n]
    <3>1. /\ Len(a) + n \in 1 .. m /\ Len(a) + n # 1 /\ m <= Len(b) /\ m \in Nat
          /\ (Len(a) + n) - 1 = Len(a) + n - 1
      BY <1>2, <2>1
    <3>2. d \in Ids
      BY <3>1, <1>2, ArmIs
    <3>3. ~is_dict_ix_empty[d] /\ dict[d].master = Master(b, Len(a) + n)
      BY <2>1, <3>1, <3>2 DEF Holds
    <3>4. Master(b, Len(a) + n) = c
      BY <2>3, <3>1 DEF Master
    <3>5. d >= s[n].j
      <4>1. d \in Nat
        BY <3>2, IdsAre
      <4> HIDE DEF d, s, n
      <4> QED BY <4>1
    <3>6. d \in Children(t)
      BY <3>2, <3>3, <3>4, <3>5 DEF Children, Top
    <3> QED BY <1>1, <3>6
  <2>5. CASE n = 1
    <3>1. UNCHANGED dictVars /\ \A u \in Tasks : call'[u].pc # "remove"
      BY <1>1, <1>3, <2>5
    <3>2. m = Len(a)
      BY <1>2, <2>1, <2>4, <2>5
    <3>3. Holds(b, m)'
      BY <2>1, <3>1 DEF Holds, dictVars
    <3> QED BY <1>5, <2>1, <3>1, <3>2, <3>3 DEF CutOff
  <2>6. CASE n # 1
    <3>1. m - 1 \in Len(a) .. Len(b) /\ m \in 1 .. Len(b) /\ c = b[m]
      <4> HIDE DEF c, n
      <4> QED BY <1>2, <2>1, <2>3, <2>4, <2>6
    <3>2. /\ is_dict_ix_empty'[c]
          /\ \A i \in Ids : i # c => /\ is_dict_ix_empty'[i] = is_dict_ix_empty[i]
                                     /\ dict'[i] = dict[i]
      BY <1>1, <2>6 DEF Types
    <3>3. \A l \in 1 .. m - 1 : l \in 1 .. m /\ b[l] \in Ids /\ b[l] # c
      <4>1. \A l \in 1 .. m - 1 : l \in 1 .. m /\ l \in 1 .. Len(b) /\ l # m
        BY <1>2, <3>1
      <4> QED BY <3>1, <4>1, ArmIs
    <3>4. Holds(b, m - 1)'
      <4>1. ASSUME NEW i \in Ids
            PROVE  ~is_dict_ix_empty'[i] <=> \E l \in 1 .. m - 1 : i = b[l]
        <5>1. CASE i = c
          BY <3>2, <3>3, <5>1
        <5>2. CASE i # c
          <6>1. (\E l \in 1 .. m : i = b[l]) <=> \E l \in 1 .. m - 1 : i = b[l]
            BY <1>2, <3>1, <5>2
          <6> QED BY <2>1, <3>2, <5>2, <6>1 DEF Holds
        <5> QED BY <5>1, <5>2
      <4>2. \A l \in 1 .. m - 1 : dict'[b[l]].master = Master(b, l)
        BY <2>1, <3>2, <3>3 DEF Holds
      <4> QED BY <4>1, <4>2 DEF Holds
    <3>5. Unwinding(t, b, Len(a), m - 1)'
      <4>1. Len(a) + Len(z) - 1 = m - 1 /\ \A x \in 1 .. Len(z) : x \in 1 .. n - 1 /\ x \in 1 .. n
        BY <1>1, <1>2, <2>4
      <4>2. \A x \in 1 .. Len(z) : z[x].node = b[Len(a) + x - 1]
        BY <1>1, <2>2, <4>1
      <4> HIDE DEF z
      <4>3. m - 1 <= m - 1
        BY <3>1, <1>2
      <4> QED BY <4>1, <4>2, <4>3 DEF Unwinding, z
    <3>6. call'[t].pc = "remove" /\ Prefix(a, b)
      BY <1>1, <1>5, <2>6 DEF CutOff
    <3> QED BY <1>3, <3>1, <3>4, <3>5, <3>6 DEF CutOff
  <2> QED BY <2>5, <2>6
<1> QED BY <1>4, <1>5

\* The list is computed.
LEMMA Untouched ==
  ASSUME \A u \in Tasks : call[u].pc # "remove" /\ call'[u].pc # "remove", UNCHANGED dictVars,
         NEW a \in ArmSeqs, NEW b \in ArmSeqs, NEW q, Grown(q, a) \/ CutOff(b, q, a)
  PROVE  (Grown(q, a) \/ CutOff(b, q, a))'
<1>1. CASE Grown(q, a)
  BY <1>1 DEF Grown, dictVars
<1>2. CASE CutOff(b, q, a)
  <2>1. PICK m \in Len(a) .. Len(b) : Holds(b, m) /\ (m = Len(a) \/ q[a[Len(a)]] # <<>>)
    BY <1>2 DEF CutOff
  <2>2. Holds(b, m)'
    BY <2>1 DEF Holds, dictVars
  <2> QED BY <1>2, <2>1, <2>2 DEF CutOff
<1> QED BY <1>1, <1>2

\* A phase goes on.
LEMMA GoesOn ==
  ASSUME Types, phases # <<>>, NEW arms \in [1 .. Len(phases) + 1 -> ArmSeqs], Planned(arms),
         UNCHANGED arm, phases' # <<>>, Len(phases') = Len(phases),
         \A p \in 2 .. Len(phases) : phases'[p] = phases[p],
         Truths(phases'[1], arms[2]),
         (Grown(phases[1], arms[2]) \/ CutOff(arms[1], phases[1], arms[2]))'
  PROVE  InOrder'
<1>1. Len(phases) \in Nat \ {0}
  BY EmptySeq DEF Types
<1>2. \A p \in 1 .. Len(phases) : Truths(phases'[p], arms[p + 1])
  <2> SUFFICES ASSUME NEW p \in 1 .. Len(phases) PROVE Truths(phases'[p], arms[p + 1])
    OBVIOUS
  <2>1. CASE p = 1
    <3>1. p + 1 = 2
      BY <2>1
    <3> QED BY <2>1, <3>1
  <2>2. CASE p # 1
    <3>1. p \in 2 .. Len(phases)
      BY <1>1, <2>2
    <3> QED BY <3>1 DEF Planned
  <2> QED BY <2>1, <2>2
<1>3. \A p \in 2 .. Len(phases) : Becomes(arms[p], phases'[p], arms[p + 1])
  BY DEF Planned
<1>4. arm' = arms[Len(phases') + 1]
  BY DEF Planned
<1>5. Planned(arms)'
  BY <1>2, <1>3, <1>4 DEF Planned
<1>6. arms \in [1 .. Len(phases') + 1 -> ArmSeqs]
  OBVIOUS
<1> QED BY <1>5, <1>6 DEF InOrder

\* The first two arms of a plan.
LEMMA PlanIs ==
  ASSUME Types, phases # <<>>, NEW arms \in [1 .. Len(phases) + 1 -> ArmSeqs], Planned(arms)
  PROVE  /\ Len(phases) \in Nat \ {0} /\ arms[1] \in ArmSeqs /\ arms[2] \in ArmSeqs
         /\ Truths(phases[1], arms[2])
         /\ Grown(phases[1], arms[2]) \/ CutOff(arms[1], phases[1], arms[2])
<1>1. Len(phases) \in Nat \ {0}
  BY EmptySeq DEF Types
<1>2. 1 \in 1 .. Len(phases) /\ 1 \in 1 .. Len(phases) + 1 /\ 2 \in 1 .. Len(phases) + 1 /\ 1 + 1 = 2
  BY <1>1
<1> QED BY <1>1, <1>2 DEF Planned

LEMMA StepInOrder == ASSUME IInv, InOrder, NEW t \in Tasks, Step(t) PROVE InOrder'
<1> USE DEF IInv
<1>1. PICK arms \in [1 .. Len(phases) + 1 -> ArmSeqs] : Planned(arms)
  BY DEF InOrder
<1>2. call[t].pc # "idle" /\ UNCHANGED <<phases, arm>>
  BY DEF Step, Descend, Return, Clear, Find, AppendFound, Finish
<1>3. phases # <<>>
  BY <1>1, <1>2 DEF Planned, Quiet
<1>4. PICK a \in ArmSeqs : a = arms[2]
  BY <1>1, <1>3, PlanIs
<1>5. PICK b \in ArmSeqs : b = arms[1]
  BY <1>1, <1>3, PlanIs
<1>6. PICK q : q = phases[1]
  OBVIOUS
<1>7. Grown(q, a) \/ CutOff(b, q, a)
  BY <1>1, <1>3, <1>4, <1>5, <1>6, PlanIs
<1>8. (Grown(q, a) \/ CutOff(b, q, a))'
  <2>1. CASE Descend(t)
    BY <1>7, <2>1, Descent
  <2>2. CASE Return(t)
    BY <1>7, <2>2, Ascent
  <2>3. \A u \in Tasks : u # t => call[u].pc = "idle"
    BY <1>2, AloneAlready
  <2>4. CASE Clear(t)
    <3>1. UNCHANGED dictVars /\ \A u \in Tasks : call[u].pc # "remove" /\ call'[u].pc # "remove"
      BY <2>3, <2>4, ClearIs DEF Clear
    <3> QED BY <1>7, <3>1, Untouched
  <2>5. CASE Find(t)
    <3>1. UNCHANGED dictVars /\ \A u \in Tasks : call[u].pc # "remove" /\ call'[u].pc # "remove"
      BY <2>3, <2>5, FindIs DEF Find
    <3> QED BY <1>7, <3>1, Untouched
  <2>6. CASE AppendFound(t)
    <3>1. call[t].found \in Ids
      BY <2>6 DEF AppendFound, ListOK, Walked, Successors
    <3>2. UNCHANGED dictVars /\ \A u \in Tasks : call[u].pc # "remove" /\ call'[u].pc # "remove"
      BY <2>3, <2>6, <3>1, AppendIs DEF AppendFound
    <3> QED BY <1>7, <3>2, Untouched
  <2>7. CASE Finish(t)
    <3>1. UNCHANGED dictVars /\ \A u \in Tasks : call[u].pc # "remove" /\ call'[u].pc # "remove"
      BY <2>3, <2>7, FinishIs DEF Finish
    <3> QED BY <1>7, <3>1, Untouched
  <2> QED BY <2>1, <2>2, <2>4, <2>5, <2>6, <2>7 DEF Step
<1> QED BY <1>1, <1>2, <1>3, <1>4, <1>5, <1>6, <1>8, GoesOn, PlanIs

LEMMA ReceiveInOrder ==
  ASSUME MaxBusy = 1, IInv, InOrder, NEW t \in Tasks, NEW i \in Ids, Receive(t, i)
  PROVE  InOrder'
<1> USE DEF IInv
<1>1. PICK arms \in [1 .. Len(phases) + 1 -> ArmSeqs] : Planned(arms)
  BY DEF InOrder
<1>2. phases # <<>> /\ UNCHANGED arm
  BY DEF Receive
<1>3. /\ Truths(phases'[1], arms[2])
      /\ (Grown(phases[1], arms[2]) \/ CutOff(arms[1], phases[1], arms[2]))'
  <2>1. PICK a \in ArmSeqs : a = arms[2]
    BY <1>1, <1>2, PlanIs
  <2>2. PICK b \in ArmSeqs : b = arms[1]
    BY <1>1, <1>2, PlanIs
  <2>3. Truths(phases[1], a) /\ (Grown(phases[1], a) \/ CutOff(b, phases[1], a))
    BY <1>1, <1>2, <2>1, <2>2, PlanIs
  <2>4. Truths(phases'[1], a) /\ (Grown(phases[1], a) \/ CutOff(b, phases[1], a))'
    BY <2>3, Arrival
  <2> QED BY <2>1, <2>2, <2>4
<1>4. /\ phases' # <<>> /\ Len(phases') = Len(phases)
      /\ \A p \in 2 .. Len(phases) : phases'[p] = phases[p]
  <2>1. \E x : phases' = [phases EXCEPT ![1] = x]
    BY ReceiveIs
  <2>2. phases \in Seq([Ids -> Seq(Reports)]) /\ Len(phases) \in Nat \ {0}
    BY <1>1, <1>2, PlanIs DEF Types
  <2> QED BY <2>1, <2>2
<1> QED BY <1>1, <1>2, <1>3, <1>4, GoesOn

LEMMA NextPhaseInOrder == ASSUME IInv, InOrder, NextPhase PROVE InOrder'
<1> USE DEF IInv
<1>1. PICK arms \in [1 .. Len(phases) + 1 -> ArmSeqs] : Planned(arms)
  BY DEF InOrder
<1>2. /\ phases # <<>> /\ phases' = Tail(phases) /\ Quiet
      /\ UNCHANGED <<arm, dictVars, call>> /\ \A i \in Ids : phases[1][i] = <<>>
  BY HeadTailProperties DEF NextPhase, Types, Quiet
<1> DEFINE n == Len(phases)
<1>3. n \in Nat \ {0} /\ arms[1] \in ArmSeqs /\ arms[2] \in ArmSeqs
  BY <1>1, <1>2, PlanIs
<1>4. Holds(arms[2], Len(arms[2]))
  <2>1. PICK a \in ArmSeqs : a = arms[2]
    BY <1>3
  <2>2. PICK b \in ArmSeqs : b = arms[1]
    BY <1>3
  <2>3. PICK q : q = phases[1]
    OBVIOUS
  <2>4. Grown(q, a) \/ CutOff(b, q, a)
    BY <1>1, <1>2, <2>1, <2>2, <2>3, PlanIs
  <2> QED BY <1>2, <2>1, <2>3, <2>4, Completed
<1>5. Len(phases') = n - 1 /\ \A p \in 1 .. n - 1 : phases'[p] = phases[p + 1]
  BY <1>2, HeadTailProperties DEF Types
<1>6. phases' = <<>> <=> n = 1
  <2>1. phases' \in Seq([Ids -> Seq(Reports)])
    BY <1>2, HeadTailProperties DEF Types
  <2>2. phases' = <<>> <=> Len(phases') = 0
    BY <2>1, EmptySeq
  <2> QED BY <1>3, <1>5, <2>2
<1> HIDE DEF n
<1> PICK next : next = [p \in 1 .. n |-> arms[p + 1]]
  OBVIOUS
<1>7. \A p \in 1 .. n : p + 1 \in 1 .. n + 1 /\ next[p] = arms[p + 1]
  BY <1>3
<1>8. next \in [1 .. Len(phases') + 1 -> ArmSeqs]
  <2>1. Len(phases') + 1 = n
    BY <1>3, <1>5
  <2> QED BY <1>1, <1>7, <2>1 DEF n
<1>9. arm' = next[Len(phases') + 1]
  <2>1. Len(phases') + 1 = n /\ n \in 1 .. n
    BY <1>3, <1>5
  <2> QED BY <1>1, <1>2, <1>7, <2>1 DEF Planned, n
<1>10. \A p \in 1 .. n - 1 :
         Truths(phases'[p], next[p + 1]) /\ Becomes(next[p], phases'[p], next[p + 1])
  <2> SUFFICES ASSUME NEW p \in 1 .. n - 1
               PROVE  Truths(phases'[p], next[p + 1]) /\ Becomes(next[p], phases'[p], next[p + 1])
    OBVIOUS
  <2>1. p \in 1 .. n /\ p + 1 \in 1 .. n /\ p + 1 \in 2 .. n
    BY <1>3
  <2>2. /\ Truths(phases[p + 1], arms[p + 1 + 1])
        /\ Becomes(arms[p + 1], phases[p + 1], arms[p + 1 + 1])
    BY <1>1, <2>1 DEF Planned, n
  <2>3. next[p] = arms[p + 1] /\ next[p + 1] = arms[p + 1 + 1] /\ phases'[p] = phases[p + 1]
    BY <1>5, <1>7, <2>1
  <2> QED BY <2>2, <2>3
<1>11. Quiet'
  BY <1>2 DEF Quiet
<1>12. next[1] = arms[2]
  BY <1>3, <1>7
<1>13. CASE n = 1
  <2>1. Holds(next[1], Len(next[1]))'
    <3>1. Holds(next[1], Len(next[1]))
      BY <1>4, <1>12
    <3> QED BY <1>2, <3>1 DEF Holds, dictVars
  <2>2. 1 .. Len(phases') = {} /\ 2 .. Len(phases') = {}
    BY <1>5, <1>13
  <2> QED BY <1>6, <1>8, <1>9, <1>11, <1>13, <2>1, <2>2 DEF InOrder, Planned
<1>14. CASE n # 1
  <2>1. 1 \in 1 .. n - 1 /\ 2 \in 1 .. n /\ 1 + 1 = 2
    BY <1>3, <1>14
  <2>2. PICK a \in ArmSeqs : a = next[2]
    BY <1>1, <1>3, <1>7, <2>1 DEF n
  <2>3. PICK b \in ArmSeqs : b = next[1]
    BY <1>3, <1>12
  <2>4. PICK q : q = phases'[1]
    OBVIOUS
  <2>5. Becomes(b, q, a)
    BY <1>10, <2>1, <2>2, <2>3, <2>4
  <2>6. Grown(q, a) \/ CutOff(b, q, a)
    BY <1>2, <1>4, <1>12, <2>3, <2>5, Begin
  <2>7. (Grown(q, a) \/ CutOff(b, q, a))'
    BY <1>2, <2>6 DEF Grown, CutOff, Holds, Unwinding, dictVars
  <2>8. (Grown(phases[1], next[2]) \/ CutOff(next[1], phases[1], next[2]))'
    BY <2>2, <2>3, <2>4, <2>7
  <2>9. Len(phases') = n - 1 /\ \A p \in 2 .. n - 1 : p \in 1 .. n - 1
    BY <1>5
  <2> QED BY <1>6, <1>8, <1>9, <1>10, <1>14, <2>8, <2>9 DEF InOrder, Planned
<1> QED BY <1>13, <1>14

\* The root is alone, and a scenario begins.
LEMMA InitInOrder == ASSUME \A s \in Scenarios : Orderly(s), Init PROVE InOrder
<1>1. PICK s \in Scenarios : phases = s.phases /\ arm = s.arm
  BY DEF Init
<1>2. PICK arms \in [1 .. Len(phases) + 1 -> ArmSeqs] :
        /\ arms[1] = <<ROOT_ID>> /\ arms[Len(phases) + 1] = arm
        /\ \A p \in 1 .. Len(phases) : /\ Truths(phases[p], arms[p + 1])
                                       /\ Becomes(arms[p], phases[p], arms[p + 1])
  BY <1>1 DEF Orderly
<1>3. Types /\ Quiet
  BY InitTypes
<1>4. Len(phases) \in Nat /\ (phases = <<>> <=> Len(phases) = 0)
  BY <1>3, EmptySeq DEF Types
<1>5. arms[1] \in ArmSeqs /\ Len(arms[1]) = 1 /\ arms[1][1] = ROOT_ID
  BY <1>2, <1>4
<1>6. Holds(arms[1], Len(arms[1]))
  <2>1. 1 .. Len(arms[1]) = {1}
    BY <1>5
  <2>2. dict[ROOT_ID].master = Master(arms[1], 1)
    BY IdsAre DEF Init, NoReport, Master
  <2>3. \A i \in Ids : ~is_dict_ix_empty[i] <=> i = ROOT_ID
    BY DEF Init
  <2> QED BY <1>5, <2>1, <2>2, <2>3 DEF Holds
<1>7. CASE phases = <<>>
  <2>1. 1 .. Len(phases) = {} /\ 2 .. Len(phases) = {} /\ Len(phases) + 1 = 1
    BY <1>4, <1>7
  <2>2. Planned(arms)
    BY <1>2, <1>3, <1>6, <1>7, <2>1 DEF Planned
  <2> QED BY <1>2, <2>2 DEF InOrder
<1>8. CASE phases # <<>>
  <2>1. 1 \in 1 .. Len(phases) /\ 1 + 1 = 2 /\ 2 \in 1 .. Len(phases) + 1
    BY <1>4, <1>8
  <2>2. arms[2] \in ArmSeqs /\ Becomes(arms[1], phases[1], arms[2])
    BY <1>2, <2>1
  <2>3. Grown(phases[1], arms[2]) \/ CutOff(arms[1], phases[1], arms[2])
    BY <1>3, <1>5, <1>6, <2>2, Begin
  <2>4. 2 .. Len(phases) \subseteq 1 .. Len(phases)
    OBVIOUS
  <2> QED BY <1>2, <1>8, <2>3, <2>4 DEF InOrder, Planned
<1> QED BY <1>7, <1>8

\* The table follows the arm, phase by phase.
THEOREM FollowsTheArm ==
  ASSUME MaxBusy = 1, \A s \in Scenarios : Orderly(s)
  PROVE  Spec => [](IInv /\ InOrder)
<1>1. Init => InOrder
  BY InitInOrder
<1>2. IInv /\ InOrder /\ [Next]_vars => InOrder'
  <2> SUFFICES ASSUME IInv, InOrder, [Next]_vars PROVE InOrder'
    OBVIOUS
  <2>1. CASE UNCHANGED vars
    <3>1. PICK arms \in [1 .. Len(phases) + 1 -> ArmSeqs] : Planned(arms)
      BY DEF InOrder
    <3>2. UNCHANGED <<phases, arm, dict, is_dict_ix_empty, call>>
      BY <2>1 DEF vars, dictVars
    <3>3. phases # <<>> => (Grown(phases[1], arms[2]) \/ CutOff(arms[1], phases[1], arms[2]))'
      BY <3>1, <3>2 DEF Planned, Grown, CutOff, Holds, Unwinding
    <3>4. phases = <<>> => Quiet' /\ Holds(arms[1], Len(arms[1]))'
      BY <3>1, <3>2 DEF Planned, Quiet, Holds
    <3>5. Planned(arms)'
      BY <3>1, <3>2, <3>3, <3>4 DEF Planned
    <3> QED BY <3>1, <3>2, <3>5 DEF InOrder
  <2>2. CASE NextPhase
    BY <2>2, NextPhaseInOrder
  <2>3. ASSUME NEW t \in Tasks, Step(t) PROVE InOrder'
    BY <2>3, StepInOrder
  <2>4. ASSUME NEW t \in Tasks, NEW i \in Ids, Receive(t, i) PROVE InOrder'
    BY <2>4, ReceiveInOrder
  <2> QED BY <2>1, <2>2, <2>3, <2>4 DEF Next
<1> QED BY <1>1, <1>2, Invariance, PTL DEF Spec

\* Nothing hangs from the last cube of the arm, so the chain in the list is
\* all of it: place by place, and then in length.
LEMMA ListedIsTheArm ==
  ASSUME Types, Linked, Ended, arm \in ArmSeqs, Holds(arm, Len(arm))
  PROVE  Chain = arm
<1> DEFINE n == ids_array_len
           Wrong == {x \in 1 .. n : ~(x <= Len(arm) /\ ids_array[x - 1] = arm[x])}
<1>1. Len(arm) \in Nat \ {0} /\ n \in Nat \ {0} /\ n <= MaxNodes /\ ids_array \in [Ids -> Ids]
  BY ArmIs, IdsAre DEF Types
<1>2. Wrong = {}
  <2> SUFFICES ASSUME Wrong # {} PROVE FALSE
    OBVIOUS
  <2>1. PICK x \in Wrong : \A y \in Wrong : x <= y
    <3>1. Wrong \in SUBSET Nat
      BY <1>1
    <3> HIDE DEF Wrong
    <3> QED BY <3>1, Least
  <2>2. CASE x = 1
    <3>1. ids_array[0] = arm[1]
      BY ArmIs DEF Linked
    <3> QED BY <1>1, <2>1, <2>2, <3>1
  <2>3. CASE x # 1
    <3> DEFINE y == x - 1
    <3>1. y \in 1 .. n - 1 /\ y \in 1 .. n /\ ~(x <= y) /\ x \in 1 .. n /\ y + 1 = x
      BY <1>1, <2>3
    <3>2. y <= Len(arm) /\ ids_array[y - 1] = arm[y]
      BY <2>1, <3>1
    <3> HIDE DEF y
    <3>3. ids_array[y] \in Ids /\ y \in 1 .. Len(arm)
      <4> HIDE DEF n
      <4>1. y \in Ids /\ y \in 1 .. Len(arm)
        BY <1>1, <3>1, <3>2, IdsAre DEF Ids
      <4> QED BY <1>1, <4>1
    <3>4. ~is_dict_ix_empty[ids_array[y]] /\ dict[ids_array[y]].master = arm[y]
      BY <3>1, <3>2 DEF Linked
    <3>5. Len(arm) \in 0 .. Len(arm)
      BY <1>1
    <3>6. x \in 1 .. Len(arm) /\ ids_array[y] = arm[x]
      BY <3>1, <3>3, <3>4, <3>5, HangsIs
    <3>7. y = x - 1 /\ x <= Len(arm)
      BY <3>1, <3>6, <1>1
    <3> QED BY <3>6, <3>7
  <2> QED BY <2>2, <2>3
<1>3. \A x \in 1 .. n : x <= Len(arm) /\ ids_array[x - 1] = arm[x]
  BY <1>2
<1> HIDE DEF Wrong
<1>4. n = Len(arm)
  <2> SUFFICES ASSUME n # Len(arm) PROVE FALSE
    OBVIOUS
  <2> DEFINE j == arm[n + 1]
  <2>1. n \in 1 .. n /\ n \in 1 .. Len(arm) /\ n + 1 \in 1 .. Len(arm)
    BY <1>1, <1>3
  <2>2. j \in Ids /\ ~is_dict_ix_empty[j] /\ dict[j].master = Master(arm, n + 1)
    BY <2>1, ArmIs DEF Holds
  <2>3. Master(arm, n + 1) = ids_array[n - 1]
    <3>1. n + 1 # 1 /\ (n + 1) - 1 = n
      BY <1>1
    <3> QED BY <1>3, <2>1, <3>1 DEF Master
  <2>4. PICK i \in Listed : ids_array[i] = j
    BY <2>2, <2>3 DEF Ended
  <2>5. i + 1 \in 1 .. n /\ (i + 1) - 1 = i
    BY <1>1, <2>4 DEF Listed
  <2>6. i + 1 \in 1 .. Len(arm) /\ arm[i + 1] = j
    BY <1>1, <1>3, <2>4, <2>5
  <2>7. i + 1 = n + 1
    BY <2>1, <2>6, ArmIs
  <2> QED BY <1>1, <2>5, <2>7
<1>5. arm = [x \in 1 .. Len(arm) |-> arm[x]]
  BY DEF Types
<1> QED BY <1>3, <1>4, <1>5 DEF Chain

\* handle_report.cpp 48-51: once every cube has reported what is so, the list
\* is the arm, in whatever order the reports of different cubes came and
\* however often the arm was cut and rebuilt, as long as an arm is only
\* changed once the reports about its last change have arrived.
THEOREM ArmIsKnown ==
  ASSUME MaxBusy = 1, \A s \in Scenarios : Orderly(s)
  PROVE  Spec => []ArmKnown
<1>1. IInv /\ InOrder => ArmKnown
  <2> SUFFICES ASSUME IInv, InOrder, Quiet, phases = <<>> PROVE Chain = arm
    BY DEF ArmKnown
  <2>1. PICK arms \in [1 .. Len(phases) + 1 -> ArmSeqs] : Planned(arms)
    BY DEF InOrder
  <2>2. Len(phases) + 1 = 1
    BY EmptySeq
  <2>3. arm = arms[1] /\ arms[1] \in ArmSeqs /\ Holds(arm, Len(arm))
    BY <2>1, <2>2 DEF Planned
  <2> QED BY <2>3, ListedIsTheArm DEF IInv, ListOK
<1> QED BY <1>1, FollowsTheArm, PTL

-----------------------------------------------------------------------------
(* The recursion of remove_subtree_recursive, whatever the cubes report *)

\* A loop of masters in the table.
Looped == \E n \in 1 .. MaxNodes : \E f \in [0 .. n -> Ids] :
             /\ f[0] = f[n]
             /\ \A i \in 1 .. n : ~is_dict_ix_empty[f[i]] /\ dict[f[i]].master = f[i - 1]

\* The frames lead down a chain of masters, and what each of them has been
\* through is gone, but for the cube that it is waiting for.
Descended(t) ==
    LET s == call[t].stack IN
    /\ \A x \in 1 .. Len(s) : x > 1 =>
          ~is_dict_ix_empty[s[x].node] /\ dict[s[x].node].master = s[x - 1].node
    /\ \A x \in 1 .. Len(s), k \in Ids :
          k < s[x].j /\ ~is_dict_ix_empty[k] /\ dict[k].master = s[x].node
             => x < Len(s) /\ k = s[x + 1].node

DescentOK == \A t \in Tasks : call[t].pc = "remove" => Descended(t)

LEMMA DescendSteps ==
  ASSUME IInv, DescentOK, NEW t \in Tasks, Descend(t)
  PROVE  Descended(t)'
<1> USE DEF IInv
<1> DEFINE s == call[t].stack
           n == Len(s)
<1>1. call[t].pc = "remove"
  BY DEF Descend
<1>2. s \in Seq(Frames) /\ n \in Nat \ {0} /\ s[n] \in Frames /\ s[n].j \in Nat /\ Top(t) = s[n]
  BY <1>1, StackIs DEF Top
<1>3. PICK k \in Children(t) :
         /\ \A l \in Children(t) : k <= l
         /\ call' = [call EXCEPT ![t].stack = Append([@ EXCEPT ![Len(@)].j = k + 1], [node |-> k, j |-> 0])]
  BY DEF Descend
<1>4. k \in Ids /\ k \in Nat /\ ~is_dict_ix_empty[k] /\ dict[k].master = s[n].node
  BY <1>2, <1>3, IdsAre DEF Children
<1>5. UNCHANGED dictVars
  BY DEF Descend
<1> DEFINE r == [s EXCEPT ![n].j = k + 1]
           f == [node |-> k, j |-> 0]
           z == Append(r, f)
<1>6. call'[t].stack = z
  BY <1>3 DEF Types, Calls
<1>7. /\ r \in Seq(Frames) /\ Len(r) = n /\ r[n].j = k + 1 /\ r[n].node = s[n].node
      /\ \A x \in 1 .. n : x # n => r[x] = s[x]
  <2>1. s \in [1 .. n -> Frames] /\ n \in 1 .. n
    BY <1>2
  <2>2. /\ [s[n] EXCEPT !.j = k + 1] \in Frames /\ [s[n] EXCEPT !.j = k + 1].node = s[n].node
        /\ [s[n] EXCEPT !.j = k + 1].j = k + 1
    <3> HIDE DEF s, n
    <3> QED BY <1>2, <1>4 DEF Frames
  <2>3. r = [s EXCEPT ![n] = [s[n] EXCEPT !.j = k + 1]]
    OBVIOUS
  <2>4. r \in [1 .. n -> Frames] /\ r[n] = [s[n] EXCEPT !.j = k + 1]
    BY <2>1, <2>2, <2>3
  <2>5. \A x \in 1 .. n : x # n => r[x] = s[x]
    BY <2>1, <2>3
  <2> QED BY <1>2, <2>2, <2>4, <2>5
<1>8. f \in Frames /\ f.node = k /\ f.j = 0
  BY <1>4 DEF Frames
<1> HIDE DEF r, f
<1>9. /\ z \in Seq(Frames) /\ Len(z) = n + 1 /\ z[n + 1] = f
      /\ \A x \in 1 .. n : z[x] = r[x]
  BY <1>2, <1>7, <1>8, AppendProperties
<1>10. /\ \A x \in 1 .. n : z[x].node = s[x].node
       /\ \A x \in 1 .. n : x # n => z[x].j = s[x].j
       /\ z[n].j = k + 1 /\ z[n + 1].node = k /\ z[n + 1].j = 0
  BY <1>2, <1>7, <1>8, <1>9
<1> HIDE DEF z
<1>11. /\ \A x \in 1 .. n : x > 1 => ~is_dict_ix_empty[s[x].node] /\ dict[s[x].node].master = s[x - 1].node
       /\ \A x \in 1 .. n, l \in Ids :
             l < s[x].j /\ ~is_dict_ix_empty[l] /\ dict[l].master = s[x].node
                => x < n /\ l = s[x + 1].node
  BY <1>1 DEF DescentOK, Descended
<1> HIDE DEF s
<1>12. ASSUME NEW x \in 1 .. n + 1, x > 1
       PROVE  ~is_dict_ix_empty[z[x].node] /\ dict[z[x].node].master = z[x - 1].node
  <2>1. CASE x = n + 1
    <3>1. x - 1 = n /\ n \in 1 .. n
      BY <1>2, <2>1
    <3> QED BY <1>4, <1>10, <2>1, <3>1
  <2>2. CASE x # n + 1
    <3>1. x \in 1 .. n /\ x - 1 \in 1 .. n
      BY <1>2, <1>12, <2>2
    <3> QED BY <1>10, <1>11, <1>12, <3>1
  <2> QED BY <2>1, <2>2
<1>13. ASSUME NEW x \in 1 .. n + 1, NEW l \in Ids,
              l < z[x].j, ~is_dict_ix_empty[l], dict[l].master = z[x].node
       PROVE  x < n + 1 /\ l = z[x + 1].node
  <2>1. l \in Nat
    BY IdsAre
  <2>2. x # n + 1
    BY <1>10, <1>13, <2>1
  <2>3. x \in 1 .. n /\ x < n + 1
    BY <1>2, <2>2
  <2>4. CASE x = n
    <3>1. l <= k /\ dict[l].master = s[n].node
      BY <1>4, <1>10, <1>13, <2>1, <2>3, <2>4
    <3>2. ~(l < s[n].j)
      BY <1>11, <1>13, <2>3, <2>4, <3>1
    <3>3. l \in Children(t)
      BY <1>2, <1>13, <2>1, <3>1, <3>2 DEF Children
    <3>4. l = k
      BY <1>3, <1>4, <2>1, <3>1, <3>3
    <3> QED BY <1>10, <2>3, <2>4, <3>4
  <2>5. CASE x # n
    <3>1. z[x].j = s[x].j /\ z[x].node = s[x].node
      BY <1>10, <2>3, <2>5
    <3>2. l = s[x + 1].node
      BY <1>11, <1>13, <2>3, <3>1
    <3>3. x + 1 \in 1 .. n
      BY <1>2, <2>3, <2>5
    <3> QED BY <1>10, <2>3, <3>2, <3>3
  <2> QED BY <2>4, <2>5
<1> QED BY <1>5, <1>6, <1>9, <1>12, <1>13 DEF Descended, dictVars

LEMMA ReturnSteps ==
  ASSUME IInv, DescentOK, NEW t \in Tasks, Return(t), call'[t].pc = "remove"
  PROVE  Descended(t)'
<1> USE DEF IInv
<1> DEFINE s == call[t].stack
           n == Len(s)
           c == s[n].node
           z == call'[t].stack
<1>1. /\ call[t].pc = "remove" /\ Children(t) = {} /\ c \in Ids /\ n # 1
      /\ Len(z) = n - 1 /\ \A x \in 1 .. n - 1 : z[x] = s[x]
      /\ dict' = [dict EXCEPT ![c] = [NoReport EXCEPT !.id = c]]
      /\ is_dict_ix_empty' = [is_dict_ix_empty EXCEPT ![c] = TRUE]
  BY ReturnIs
<1>2. s \in Seq(Frames) /\ n \in Nat \ {0} /\ Top(t) = s[n]
  BY <1>1, StackIs DEF Top
<1>3. /\ \A x \in 1 .. n : x > 1 => ~is_dict_ix_empty[s[x].node] /\ dict[s[x].node].master = s[x - 1].node
      /\ \A x \in 1 .. n, l \in Ids :
            l < s[x].j /\ ~is_dict_ix_empty[l] /\ dict[l].master = s[x].node
               => x < n /\ l = s[x + 1].node
  BY <1>1 DEF DescentOK, Descended
<1>4. \A x \in 1 .. n : s[x].node \in Ids /\ s[x].j \in Nat
  <2>1. \A x \in 1 .. n : s[x] \in Frames
    BY <1>2
  <2> HIDE DEF s, n
  <2> QED BY <2>1 DEF Frames
<1>5. \A l \in Ids : is_dict_ix_empty[l] \/ dict[l].master # c
  <2> SUFFICES ASSUME NEW l \in Ids, ~is_dict_ix_empty[l], dict[l].master = c PROVE FALSE
    OBVIOUS
  <2>1. n \in 1 .. n /\ ~(n < n) /\ s[n].j \in Nat /\ l \in Nat
    BY <1>2, <1>4, IdsAre
  <2>2. ~(l < s[n].j)
    BY <1>3, <2>1
  <2>3. l \in Children(t)
    BY <1>2, <2>1, <2>2 DEF Children
  <2> QED BY <1>1, <2>3
<1>6. \A x \in 1 .. n - 1 : s[x].node # c
  <2> SUFFICES ASSUME NEW x \in 1 .. n - 1, s[x].node = c PROVE FALSE
    OBVIOUS
  <2>1. x + 1 \in 1 .. n /\ x + 1 > 1 /\ (x + 1) - 1 = x
    BY <1>2
  <2> QED BY <1>3, <1>4, <1>5, <2>1
<1>7. /\ is_dict_ix_empty'[c]
      /\ \A l \in Ids : l # c => dict'[l] = dict[l] /\ is_dict_ix_empty'[l] = is_dict_ix_empty[l]
  BY <1>1 DEF Types
<1> HIDE DEF c, z, s
<1>8. ASSUME NEW x \in 1 .. n - 1, x > 1
      PROVE  ~is_dict_ix_empty'[z[x].node] /\ dict'[z[x].node].master = z[x - 1].node
  <2>1. x \in 1 .. n /\ x - 1 \in 1 .. n - 1
    BY <1>2, <1>8
  <2> QED BY <1>1, <1>3, <1>4, <1>6, <1>7, <1>8, <2>1
<1>9. ASSUME NEW x \in 1 .. n - 1, NEW l \in Ids,
             l < z[x].j, ~is_dict_ix_empty'[l], dict'[l].master = z[x].node
      PROVE  x < n - 1 /\ l = z[x + 1].node
  <2>1. x \in 1 .. n /\ z[x] = s[x] /\ l # c
    BY <1>1, <1>2, <1>7, <1>9
  <2>2. l = s[x + 1].node
    BY <1>3, <1>7, <1>9, <2>1
  <2>3. x + 1 # n
    BY <2>1, <2>2 DEF c
  <2>4. x + 1 \in 1 .. n - 1 /\ x < n - 1
    BY <1>2, <2>1, <2>3
  <2> QED BY <1>1, <2>2, <2>4
<1> QED BY <1>1, <1>8, <1>9 DEF Descended, z

LEMMA ReceiveSteps ==
  ASSUME MaxBusy = 1, IInv, NEW t \in Tasks, NEW i \in Ids, Receive(t, i)
  PROVE  DescentOK'
<1> USE DEF IInv
<1>1. \A u \in Tasks : u # t => call'[u].pc # "remove"
  <2>1. Quiet
    BY AloneThen
  <2>2. \A u \in Tasks : u # t => call'[u] = call[u]
    BY ReceiveIs
  <2> QED BY <2>1, <2>2 DEF Quiet
<1>2. ASSUME call'[t].pc = "remove" PROVE Descended(t)'
  <2>1. Len(call'[t].stack) = 1 /\ call'[t].stack[1].j = 0
    BY <1>2, ReceiveIs
  <2>2. 1 .. Len(call'[t].stack) = {1} /\ ~(1 > 1) /\ \A k \in Ids : ~(k < 0)
    BY <2>1, IdsAre
  <2> QED BY <2>1, <2>2 DEF Descended
<1> QED BY <1>1, <1>2 DEF DescentOK

LEMMA StepSteps == ASSUME IInv, DescentOK, NEW t \in Tasks, Step(t) PROVE DescentOK'
<1> USE DEF IInv
<1>1. call[t].pc # "idle"
  BY DEF Step, Descend, Return, Clear, Find, AppendFound, Finish
<1>2. \A u \in Tasks : u # t => call[u].pc = "idle"
  BY <1>1, AloneAlready
<1>3. ASSUME \A u \in Tasks : u # t => call'[u] = call[u], call'[t].pc = "remove" => Descended(t)'
      PROVE  DescentOK'
  BY <1>2, <1>3 DEF DescentOK
<1>4. CASE Descend(t)
  <2>1. \A u \in Tasks : u # t => call'[u] = call[u]
    BY <1>4, DescendIs
  <2> QED BY <1>3, <1>4, <2>1, DescendSteps
<1>5. CASE Return(t)
  <2>1. \A u \in Tasks : u # t => call'[u] = call[u]
    BY <1>5, ReturnIs
  <2> QED BY <1>3, <1>5, <2>1, ReturnSteps
<1>6. CASE Clear(t)
  BY <1>3, <1>6, ClearIs
<1>7. CASE Find(t)
  BY <1>3, <1>7, FindIs
<1>8. CASE AppendFound(t)
  <2>1. call[t].found \in Ids
    BY <1>8 DEF AppendFound, ListOK, Walked, Successors
  <2> QED BY <1>3, <1>8, <2>1, AppendIs
<1>9. CASE Finish(t)
  BY <1>3, <1>9, FinishIs
<1> QED BY <1>4, <1>5, <1>6, <1>7, <1>8, <1>9 DEF Step

\* More frames than there can be cubes: two of them are for the same cube.
LEMMA TooDeep ==
  ASSUME Types, NEW t \in Tasks, Len(call[t].stack) > MaxNodes, Descended(t)
  PROVE  Looped
<1> DEFINE s == call[t].stack
           D == 1 .. MaxNodes + 1
<1>1. MaxNodes \in Nat \ {0}
  BY IdsAre
<1>2. s \in Seq(Frames) /\ Len(s) \in Nat
  BY DEF Types, Calls
<1>3. \A x \in D : x \in 1 .. Len(s) /\ s[x].node \in Ids
  <2>1. \A x \in D : x \in 1 .. Len(s)
    BY <1>1, <1>2
  <2>2. \A x \in D : s[x] \in Frames
    BY <1>2, <2>1
  <2> HIDE DEF s, D
  <2> QED BY <2>1, <2>2 DEF Frames
<1>4. \A x \in 1 .. Len(s) : x > 1 =>
         ~is_dict_ix_empty[s[x].node] /\ dict[s[x].node].master = s[x - 1].node
  BY DEF Descended
<1> HIDE DEF s
<1>5. PICK x \in D, y \in D : x < y /\ s[x].node = s[y].node
  <2> DEFINE g == [x \in D |-> s[x].node]
  <2>1. IsFiniteSet(D) /\ Cardinality(D) = MaxNodes + 1
    <3>1. 1 \in Int /\ MaxNodes + 1 \in Int /\ ~(1 > MaxNodes + 1) /\ (MaxNodes + 1) - 1 + 1 = MaxNodes + 1
      BY <1>1
    <3> QED BY <3>1, FS_Interval
  <2>2. IsFiniteSet(Ids) /\ Cardinality(Ids) < Cardinality(D)
    BY <1>1, <2>1, IdsAre
  <2>3. g \in [D -> Ids]
    BY <1>3
  <2> HIDE DEF g
  <2>4. PICK x \in D, y \in D : x # y /\ g[x] = g[y]
    BY <2>1, <2>2, <2>3, FS_PigeonHole
  <2>5. s[x].node = s[y].node
    BY <2>4 DEF g
  <2>6. x < y \/ y < x
    BY <1>1, <2>4
  <2> QED BY <2>5, <2>6
<1> DEFINE n == y - x
           f == [i \in 0 .. n |-> s[x + i].node]
<1>6. n \in 1 .. MaxNodes /\ x + n = y /\ x \in Int /\ x >= 1 /\ x + 0 = x
  BY <1>1, <1>5
<1>7. \A i \in 0 .. n : x + i \in D
  BY <1>1, <1>5, <1>6
<1>8. f \in [0 .. n -> Ids]
  BY <1>3, <1>7
<1>9. f[0] = f[n]
  <2>1. 0 \in 0 .. n /\ n \in 0 .. n
    BY <1>6
  <2>2. f[0] = s[x + 0].node /\ f[n] = s[x + n].node
    BY <2>1
  <2> HIDE DEF n
  <2> QED BY <1>5, <1>6, <2>2
<1>10. ASSUME NEW i \in 1 .. n PROVE ~is_dict_ix_empty[f[i]] /\ dict[f[i]].master = f[i - 1]
  <2>1. i \in 0 .. n /\ i - 1 \in 0 .. n /\ (x + i) - 1 = x + (i - 1) /\ x + i > 1
    BY <1>6
  <2>2. f[i] = s[x + i].node /\ f[i - 1] = s[x + (i - 1)].node /\ x + i \in 1 .. Len(s)
    BY <1>3, <1>7, <2>1
  <2> HIDE DEF n, f
  <2> QED BY <1>4, <2>1, <2>2
<1> HIDE DEF n, f
<1> QED BY <1>6, <1>8, <1>9, <1>10 DEF Looped

\* handle_report.cpp 85-96: as long as its calls do not overlap, the recursion
\* gets deeper than there can be cubes only when the masters in the table make
\* a loop, whatever the cubes report and in whatever order.
THEOREM RunsAwayOnlyInLoops == ASSUME MaxBusy = 1 PROVE Spec => [](RemovalEnds \/ Looped)
<1>1. Init => DescentOK
  BY InitTypes DEF DescentOK, Quiet
<1>2. IInv /\ DescentOK /\ [Next]_vars => DescentOK'
  <2> SUFFICES ASSUME IInv, DescentOK, [Next]_vars PROVE DescentOK'
    OBVIOUS
  <2>1. CASE UNCHANGED vars
    BY <2>1 DEF vars, dictVars, DescentOK, Descended
  <2>2. CASE NextPhase
    BY <2>2 DEF NextPhase, dictVars, DescentOK, Descended
  <2>3. ASSUME NEW t \in Tasks, Step(t) PROVE DescentOK'
    BY <2>3, StepSteps
  <2>4. ASSUME NEW t \in Tasks, NEW i \in Ids, Receive(t, i) PROVE DescentOK'
    BY <2>4, ReceiveSteps
  <2> QED BY <2>1, <2>2, <2>3, <2>4 DEF Next
<1>3. IInv /\ DescentOK => RemovalEnds \/ Looped
  <2> SUFFICES ASSUME IInv, DescentOK, NEW t \in Tasks, ~(Len(call[t].stack) <= MaxNodes)
               PROVE  Looped
    BY DEF RemovalEnds
  <2> USE DEF IInv
  <2>1. call[t].stack \in Seq(Frames) /\ Len(call[t].stack) \in Nat /\ MaxNodes \in Nat
    BY IdsAre DEF Types, Calls
  <2>2. Len(call[t].stack) > MaxNodes /\ call[t].stack # <<>>
    <3>1. Len(call[t].stack) > MaxNodes
      BY <2>1
    <3>2. Len(<<>>) = 0
      BY EmptySeq
    <3> QED BY <2>1, <3>1, <3>2
  <2>3. call[t].pc = "remove"
    BY <2>2 DEF Types
  <2> QED BY <2>2, <2>3, TooDeep DEF DescentOK
<1> QED BY <1>1, <1>2, <1>3, Invariance, PTL DEF Spec
=============================================================================
