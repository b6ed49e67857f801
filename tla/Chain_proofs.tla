---------------------------- MODULE Chain_proofs ----------------------------
(***************************************************************************)
(* Proofs about Chain for any cubes, any length of a queue and any number  *)
(* of commands and troubles: types, the bounds of the queues, and that a   *)
(* cube carries out its commands in the order they were sent.              *)
(***************************************************************************)
EXTENDS Chain, SequenceTheorems, TLAPS

\* Commands travel down the arm, everything else up.
Commands == [kind : {"servo"}, from : {Root}, to : Cubes, no : 1 .. Len(sent), slave : {None}]
Answers == [kind : {"report", "ack"}, from : Cubes, to : Cubes \cup {None}, no : {0},
            slave : Cubes \cup {None}]
Queues(K, L) == {v \in [Cubes -> [Sides -> Seq(K \cup L)]] :
                    \A c \in Cubes : v[c]["down"] \in Seq(K) /\ v[c]["up"] \in Seq(L)}
For(K, c) == {f \in K : f.to = c}

Types == /\ kit \in Kits
         /\ arm \in Seq(kit.cubes) /\ arm # <<>> /\ IsInjective(arm) /\ arm[1] = Root
         /\ id \in [Cubes -> [Sides -> Cubes \cup {None}]]
         /\ pre \in Queues(Commands, Answers) /\ out \in Queues(Commands, Answers)
         /\ in \in Queues(Answers, Commands)
         /\ \A c \in Cubes, s \in Sides : Len(out[c][s]) <= QueueLen
         /\ linker \in [Cubes -> [LinkTasks -> Linkers]]
         /\ servo_queue \in [Cubes -> Seq(Commands)]
         /\ \A c \in Cubes : /\ servo_queue[c] \in Seq(For(Commands, c))
                             /\ Len(servo_queue[c]) <= QueueLen
         /\ report_queue \in Seq(Answers) /\ Len(report_queue) <= QueueLen
         /\ moved \in [Cubes -> BOOLEAN]
         /\ heard \in [Cubes -> Cubes \cup {None}]
         /\ sent \in Seq(Cubes) /\ Len(sent) <= kit.commands
         /\ obeyed \in [Cubes -> 0 .. Len(sent)]
         /\ lost \subseteq 1 .. Len(sent)
         /\ overtaken \subseteq Cubes /\ raced \subseteq Cubes
         /\ troubles \in 0 .. kit.troubles

\* A cube outside the arm holds nothing, and nobody is above the root.
Gone == /\ in[Root]["up"] = <<>>
        /\ \A c \in Cubes \ Arm : /\ \A s \in Sides : /\ pre[c][s] = <<>> /\ out[c][s] = <<>>
                                                      /\ in[c][s] = <<>>
                                  /\ \A t \in LinkTasks : linker[c][t].pc = "idle"
                                  /\ servo_queue[c] = <<>> /\ ~moved[c]

\* The numbers of the commands for c in the queue s, and that they rise.
Nos(s, c) == {s[i].no : i \in {j \in DOMAIN s : s[j].to = c}}
Rising(s, c) == \A i, j \in DOMAIN s : i < j /\ s[i].to = c /\ s[j].to = c => s[i].no < s[j].no

\* Where the commands for c may wait, from the root down and at last in the
\* queue of the servo: the further down, the older.
Spots == {<<d, q>> : d \in Arm, q \in 0 .. 2} \cup {<<None, 0>>}
Rank == [x \in Spots |-> IF x[1] = None THEN 3 * Len(arm) + 3 ELSE 3 * Place(x[1]) + x[2]]
Held(c) == [x \in Spots |-> IF x[1] = None THEN servo_queue[c]
                            ELSE IF x[2] = 0 THEN in[x[1]]["up"]
                            ELSE IF x[2] = 1 THEN pre[x[1]]["down"] ELSE out[x[1]]["down"]]

Ordered(P, rank, c) ==
    /\ \A x \in DOMAIN P : Rising(P[x], c)
    /\ \A x, y \in DOMAIN P : rank[x] < rank[y] => \A a \in Nos(P[y], c), b \in Nos(P[x], c) : a < b

\* No command for c is further down than c, and none as old as the last one
\* that c carried out.
NonePast(P, rank, c) ==
    <<c, 0>> \in DOMAIN P =>
        \A x \in DOMAIN P : rank[<<c, 0>>] < rank[x] /\ x # <<None, 0>> => Nos(P[x], c) = {}
Fresh(P, c) == \A x \in DOMAIN P : \A b \in Nos(P[x], c) : obeyed[c] < b

InLine(c) == Ordered(Held(c), Rank, c) /\ NonePast(Held(c), Rank, c) /\ Fresh(Held(c), c)

IInv == Types /\ Gone /\ \A c \in Cubes \ overtaken : InLine(c)
-----------------------------------------------------------------------------
(* Queues of commands *)

LEMMA NosIs == ASSUME NEW s, NEW c, NEW n
               PROVE  n \in Nos(s, c) <=> \E i \in DOMAIN s : s[i].to = c /\ s[i].no = n
  BY DEF Nos

LEMMA NosEmpty == ASSUME NEW c PROVE Nos(<<>>, c) = {} /\ Rising(<<>>, c)
  BY DEF Nos, Rising

LEMMA AppendNos ==
  ASSUME NEW C, NEW s \in Seq(C), NEW f \in C, NEW c
  PROVE  /\ \A n \in Nos(Append(s, f), c) : n \in Nos(s, c) \/ (f.to = c /\ n = f.no)
         /\ (f.to = c => \A n \in Nos(s, c) : n < f.no) /\ Rising(s, c) => Rising(Append(s, f), c)
<1>1. PICK t \in Seq(C) : t = Append(s, f)
  BY AppendProperties
<1>2. /\ Len(t) = Len(s) + 1 /\ t[Len(s) + 1] = f /\ \A i \in 1 .. Len(s) : t[i] = s[i]
      /\ DOMAIN t = 1 .. Len(t) /\ DOMAIN s = 1 .. Len(s) /\ Len(s) \in Nat
  BY <1>1, AppendProperties
<1>3. \A i \in DOMAIN t : \/ (i \in DOMAIN s /\ t[i] = s[i])
                         \/ (i = Len(s) + 1 /\ t[i] = f)
  <2>1. \A i \in 1 .. Len(s) + 1 : i \in 1 .. Len(s) \/ i = Len(s) + 1
    BY <1>2
  <2> QED BY <1>2, <2>1
<1>4. ASSUME NEW n \in Nos(t, c) PROVE n \in Nos(s, c) \/ (f.to = c /\ n = f.no)
  <2>1. PICK i \in DOMAIN t : t[i].to = c /\ t[i].no = n
    BY <1>4, NosIs
  <2> QED BY <1>3, <2>1, NosIs
<1>5. ASSUME f.to = c => \A n \in Nos(s, c) : n < f.no, Rising(s, c) PROVE Rising(t, c)
  <2> SUFFICES ASSUME NEW i \in DOMAIN t, NEW j \in DOMAIN t, i < j, t[i].to = c, t[j].to = c
               PROVE  t[i].no < t[j].no
    BY DEF Rising
  <2>1. i \in DOMAIN s /\ t[i] = s[i]
    BY <1>2, <1>3
  <2>2. CASE j \in DOMAIN s /\ t[j] = s[j]
    BY <1>5, <2>1, <2>2 DEF Rising
  <2>3. CASE t[j] = f
    <3>1. s[i].no \in Nos(s, c)
      BY <2>1, NosIs
    <3> QED BY <1>5, <2>1, <2>3, <3>1
  <2> QED BY <1>3, <2>2, <2>3
<1> QED BY <1>1, <1>4, <1>5

LEMMA TailNos ==
  ASSUME NEW C, NEW s \in Seq(C), s # <<>>, NEW c
  PROVE  /\ Nos(Tail(s), c) \subseteq Nos(s, c)
         /\ Rising(s, c) => Rising(Tail(s), c)
         /\ Head(s).to = c => Head(s).no \in Nos(s, c)
         /\ Head(s).to = c /\ Rising(s, c) => \A n \in Nos(Tail(s), c) : Head(s).no < n
<1>1. PICK t \in Seq(C) : t = Tail(s)
  BY HeadTailProperties
<1>2. /\ Len(t) = Len(s) - 1 /\ \A i \in 1 .. Len(t) : t[i] = s[i + 1]
      /\ DOMAIN t = 1 .. Len(t) /\ DOMAIN s = 1 .. Len(s) /\ Len(t) \in Nat /\ Len(s) \in Nat
  BY <1>1, HeadTailProperties
<1>3. \A i \in DOMAIN t : i + 1 \in DOMAIN s /\ t[i] = s[i + 1]
  BY <1>2
<1>4. 1 \in DOMAIN s /\ Head(s) = s[1]
  BY <1>2
<1>5. ASSUME NEW n \in Nos(t, c) PROVE n \in Nos(s, c)
  <2>1. PICK i \in DOMAIN t : t[i].to = c /\ t[i].no = n
    BY <1>5, NosIs
  <2> QED BY <1>3, <2>1, NosIs
<1>6. ASSUME Rising(s, c) PROVE Rising(t, c)
  <2> SUFFICES ASSUME NEW i \in DOMAIN t, NEW j \in DOMAIN t, i < j, t[i].to = c, t[j].to = c
               PROVE  t[i].no < t[j].no
    BY DEF Rising
  <2>1. i + 1 < j + 1
    BY <1>2
  <2> QED BY <1>3, <1>6, <2>1 DEF Rising
<1>7. Head(s).to = c => Head(s).no \in Nos(s, c)
  BY <1>4, NosIs
<1>8. ASSUME Head(s).to = c, Rising(s, c), NEW n \in Nos(t, c) PROVE Head(s).no < n
  <2>1. PICK i \in DOMAIN t : t[i].to = c /\ t[i].no = n
    BY <1>8, NosIs
  <2>2. i + 1 \in DOMAIN s /\ 1 < i + 1 /\ t[i] = s[i + 1]
    BY <1>2, <1>3
  <2> QED BY <1>4, <1>8, <2>1, <2>2 DEF Rising
<1> QED BY <1>1, <1>5, <1>6, <1>7, <1>8

\* The oldest frame of a queue is taken, and may go to the end of another; a
\* frame joins a queue.
Takes(P, Q, n) == P[n] # <<>> /\ Q[n] = Tail(P[n]) /\ \A x \in DOMAIN P \ {n} : Q[x] = P[x]
Shifts(P, Q, n, m) == /\ P[n] # <<>> /\ Q[n] = Tail(P[n]) /\ Q[m] = Append(P[m], Head(P[n]))
                      /\ \A x \in DOMAIN P \ {n, m} : Q[x] = P[x]
Puts(P, Q, m, f) == Q[m] = Append(P[m], f) /\ \A x \in DOMAIN P \ {m} : Q[x] = P[x]

\* The oldest frame of n is for c, and none is between n and m; f is for c, and
\* newer than all, of which none is in front of m.
Passes(P, rank, n, m, c) ==
    Head(P[n]).to = c => \A x \in DOMAIN P : rank[n] < rank[x] /\ rank[x] < rank[m] => Nos(P[x], c) = {}
Newer(P, rank, m, f, c) ==
    f.to = c => \A x \in DOMAIN P : /\ rank[x] < rank[m] => Nos(P[x], c) = {}
                                    /\ \A a \in Nos(P[x], c) : a < f.no

Numbered(C) == \A f \in C : f.no \in Nat
Within(Q, P, c) == \A x \in DOMAIN Q : \A a \in Nos(Q[x], c) : \E y \in DOMAIN P : a \in Nos(P[y], c)
Fewer(Q, P, c) == \A x \in DOMAIN Q : Nos(Q[x], c) \subseteq Nos(P[x], c)
Oldest(P, Q, n, c) == Head(P[n]).to = c => /\ Head(P[n]).no \in Nos(P[n], c)
                                          /\ \A a \in Nos(Q[n], c) : Head(P[n]).no < a
Joined(Q, P, m, f, c) ==
    \A x \in DOMAIN Q : \A a \in Nos(Q[x], c) : a \in Nos(P[x], c) \/ (x = m /\ f.to = c /\ a = f.no)

\* The oldest frame of one queue moves to the end of one further down, past
\* none that is for the same cube.
LEMMA ShiftOrdered ==
  ASSUME NEW C, Numbered(C), NEW I, NEW P \in [I -> Seq(C)], NEW Q \in [I -> Seq(C)],
         NEW rank \in [I -> Nat], IsInjective(rank), NEW c, Ordered(P, rank, c),
         NEW n \in I, NEW m \in I, rank[n] < rank[m],
         Shifts(P, Q, n, m), Passes(P, rank, n, m, c)
  PROVE  Ordered(Q, rank, c) /\ Within(Q, P, c)
<1>0. /\ \A x, y \in I : rank[x] = rank[y] => x = y
      /\ \A f \in C : f.no \in Nat
      /\ P[n] # <<>> /\ Q[n] = Tail(P[n]) /\ Q[m] = Append(P[m], Head(P[n]))
      /\ \A x \in I \ {n, m} : Q[x] = P[x]
      /\ Head(P[n]).to = c
             => \A x \in I : rank[n] < rank[x] /\ rank[x] < rank[m] => Nos(P[x], c) = {}
  BY DEF IsInjective, Shifts, Passes, Numbered
<1> USE <1>0
<1> DEFINE h == Head(P[n])
<1>1. h \in C
  BY HeadTailProperties
<1>2. /\ Nos(Q[n], c) \subseteq Nos(P[n], c)
      /\ h.to = c => h.no \in Nos(P[n], c)
      /\ h.to = c => \A a \in Nos(Q[n], c) : h.no < a
      /\ Rising(Q[n], c)
  <2>1. P[n] \in Seq(C) /\ Rising(P[n], c)
    BY DEF Ordered
  <2>2. /\ Nos(Tail(P[n]), c) \subseteq Nos(P[n], c) /\ Rising(Tail(P[n]), c)
        /\ Head(P[n]).to = c => Head(P[n]).no \in Nos(P[n], c)
        /\ Head(P[n]).to = c => \A a \in Nos(Tail(P[n]), c) : Head(P[n]).no < a
    BY <2>1, TailNos
  <2> QED BY <2>2
<1>3. \A a \in Nos(Q[m], c) : a \in Nos(P[m], c) \/ (h.to = c /\ a = h.no)
  BY <1>1, AppendNos
<1> HIDE DEF h
<1>4. \A x \in I : x # m => Nos(Q[x], c) \subseteq Nos(P[x], c)
  BY <1>2
<1>5. \A x, y \in I : rank[x] < rank[y] => \A a \in Nos(P[y], c), b \in Nos(P[x], c) : a < b
  BY DEF Ordered
<1>6. \A x \in I : \A a \in Nos(P[x], c) : a \in Nat
  <2> SUFFICES ASSUME NEW x \in I, NEW a \in Nos(P[x], c) PROVE a \in Nat
    OBVIOUS
  <2>1. PICK i \in DOMAIN P[x] : P[x][i].no = a
    BY NosIs
  <2>2. P[x][i] \in C
    BY <2>1
  <2> QED BY <2>1, <2>2
<1>7. ASSUME NEW x \in I, NEW y \in I, rank[x] < rank[y], NEW a \in Nos(Q[y], c),
             NEW b \in Nos(Q[x], c)
      PROVE  a < b
  <2>0. rank[x] \in Nat /\ rank[y] \in Nat /\ rank[n] \in Nat /\ rank[m] \in Nat
    OBVIOUS
  <2>1. CASE a \in Nos(P[y], c) /\ b \in Nos(P[x], c)
    BY <1>5, <1>7, <2>1
  <2>2. CASE y = m /\ h.to = c /\ a = h.no /\ x # m
    <3>1. b \in Nos(P[x], c)
      BY <1>4, <2>2
    <3>2. CASE x = n
      BY <1>2, <2>2, <3>2
    <3>3. CASE rank[x] < rank[n]
      BY <1>2, <1>5, <2>2, <3>1, <3>3
    <3>4. CASE rank[n] < rank[x]
      BY <1>7, <2>2, <3>1, <3>4 DEF h
    <3>5. x = n \/ rank[x] < rank[n] \/ rank[n] < rank[x]
      BY <2>0
    <3> QED BY <3>2, <3>3, <3>4, <3>5
  <2>3. CASE x = m /\ h.to = c /\ b = h.no /\ y # m
    <3>1. a \in Nos(P[y], c) /\ rank[n] < rank[y]
      BY <1>4, <1>7, <2>0, <2>3
    <3> QED BY <1>2, <1>5, <2>3, <3>1
  <2>4. x # m \/ y # m
    BY <1>7, <2>0
  <2>5. y # m => a \in Nos(P[y], c)
    BY <1>4, <1>7
  <2>6. x # m => b \in Nos(P[x], c)
    BY <1>4, <1>7
  <2> QED BY <1>3, <2>1, <2>2, <2>3, <2>4, <2>5, <2>6
<1>8. ASSUME NEW x \in I PROVE Rising(Q[x], c)
  <2>1. Rising(P[x], c)
    BY DEF Ordered
  <2>2. CASE x = m
    <3>1. h.to = c => \A a \in Nos(P[m], c) : a < h.no
      BY <1>2, <1>5
    <3>2. P[m] \in Seq(C) /\ Rising(P[m], c) /\ Q[x] = Append(P[m], h)
      BY <2>1, <2>2 DEF h
    <3>3. Rising(Append(P[m], h), c)
      BY <1>1, <3>1, <3>2, AppendNos
    <3> QED BY <3>2, <3>3
  <2> QED BY <1>2, <2>1, <2>2
<1>9. \A x \in I : \A a \in Nos(Q[x], c) : \E y \in I : a \in Nos(P[y], c)
  BY <1>2, <1>3, <1>4
<1> QED BY <1>7, <1>8, <1>9 DEF Ordered, Within

\* The oldest frame of a queue is taken away.
LEMMA TakeOrdered ==
  ASSUME NEW C, NEW I, NEW P \in [I -> Seq(C)], NEW Q \in [I -> Seq(C)], NEW rank,
         NEW c, Ordered(P, rank, c), NEW n \in I, Takes(P, Q, n)
  PROVE  Ordered(Q, rank, c) /\ Fewer(Q, P, c) /\ Oldest(P, Q, n, c)
<1>0. P[n] # <<>> /\ Q[n] = Tail(P[n]) /\ \A x \in I \ {n} : Q[x] = P[x]
  BY DEF Takes
<1> USE <1>0
<1>1. Rising(P[n], c)
  BY DEF Ordered
<1>2. /\ Nos(Q[n], c) \subseteq Nos(P[n], c) /\ Rising(Q[n], c)
      /\ Head(P[n]).to = c => Head(P[n]).no \in Nos(P[n], c)
      /\ Head(P[n]).to = c => \A a \in Nos(Q[n], c) : Head(P[n]).no < a
  BY <1>1, TailNos
<1>3. \A x \in I : Nos(Q[x], c) \subseteq Nos(P[x], c)
  BY <1>2
<1>4. \A x \in I : Rising(Q[x], c)
  BY <1>2 DEF Ordered
<1>5. \A x, y \in I : rank[x] < rank[y] => \A a \in Nos(P[y], c), b \in Nos(P[x], c) : a < b
  BY DEF Ordered
<1>6. \A x, y \in I : rank[x] < rank[y] => \A a \in Nos(Q[y], c), b \in Nos(Q[x], c) : a < b
  BY <1>3, <1>5
<1> QED BY <1>2, <1>3, <1>4, <1>6 DEF Ordered, Fewer, Oldest

\* A frame newer than all others joins a queue behind which none is waiting.
LEMMA PutOrdered ==
  ASSUME NEW C, NEW I, NEW P \in [I -> Seq(C)], NEW Q \in [I -> Seq(C)], NEW rank \in [I -> Nat],
         NEW c, Ordered(P, rank, c), NEW m \in I, NEW f \in C,
         Puts(P, Q, m, f), Newer(P, rank, m, f, c)
  PROVE  Ordered(Q, rank, c) /\ Joined(Q, P, m, f, c)
<1>0. /\ Q[m] = Append(P[m], f) /\ \A x \in I \ {m} : Q[x] = P[x]
      /\ f.to = c => \A x \in I : /\ rank[x] < rank[m] => Nos(P[x], c) = {}
                                  /\ \A a \in Nos(P[x], c) : a < f.no
  BY DEF Puts, Newer
<1> USE <1>0
<1>1. \A a \in Nos(Q[m], c) : a \in Nos(P[m], c) \/ (f.to = c /\ a = f.no)
  BY AppendNos
<1>2. \A x \in I : \A a \in Nos(Q[x], c) : a \in Nos(P[x], c) \/ (x = m /\ f.to = c /\ a = f.no)
  BY <1>1
<1>3. \A x, y \in I : rank[x] < rank[y] => \A a \in Nos(P[y], c), b \in Nos(P[x], c) : a < b
  BY DEF Ordered
<1>4. ASSUME NEW x \in I, NEW y \in I, rank[x] < rank[y], NEW a \in Nos(Q[y], c),
             NEW b \in Nos(Q[x], c)
      PROVE  a < b
  <2>1. CASE a \in Nos(P[y], c) /\ b \in Nos(P[x], c)
    BY <1>3, <1>4, <2>1
  <2>2. CASE y = m /\ f.to = c
    <3>1. x # m /\ Q[x] = P[x]
      BY <1>4, <2>2
    <3> QED BY <1>4, <2>2, <3>1
  <2>3. CASE x = m /\ f.to = c /\ b = f.no /\ y # m
    BY <1>2, <1>4, <2>3
  <2>4. y # m \/ x # m
    BY <1>4
  <2> QED BY <1>2, <1>4, <2>1, <2>2, <2>3, <2>4
<1>5. ASSUME NEW x \in I PROVE Rising(Q[x], c)
  <2>1. Rising(P[x], c)
    BY DEF Ordered
  <2>2. CASE x = m
    <3>1. f.to = c => \A a \in Nos(P[m], c) : a < f.no
      OBVIOUS
    <3>2. P[m] \in Seq(C) /\ Rising(P[m], c) /\ Q[x] = Append(P[m], f)
      BY <2>1, <2>2
    <3>3. Rising(Append(P[m], f), c)
      BY <3>1, <3>2, AppendNos
    <3> QED BY <3>2, <3>3
  <2> QED BY <2>1, <2>2
<1> QED BY <1>2, <1>4, <1>5 DEF Ordered, Joined
-----------------------------------------------------------------------------
(* The arm *)

LEMMA ConstantsAre ==
  /\ Root \in Cubes /\ None \notin Cubes /\ QueueLen \in Nat \ {0}
  /\ \A k \in Kits : /\ k.arm \in Seq(k.cubes) /\ k.arm # <<>> /\ k.cubes \subseteq Cubes
                     /\ IsInjective(k.arm) /\ Head(k.arm) = Root
                     /\ k.commands \in Nat /\ k.troubles \in Nat
  BY ChainAssumption

LEMMA ArmIs ==
  ASSUME Types
  PROVE  /\ arm \in Seq(Cubes) /\ Len(arm) \in Nat \ {0} /\ DOMAIN arm = 1 .. Len(arm)
         /\ Arm \subseteq Cubes /\ Root \in Arm /\ Place(Root) = 1
         /\ \A d \in Arm : Place(d) \in 1 .. Len(arm) /\ arm[Place(d)] = d
         /\ \A i \in 1 .. Len(arm) : arm[i] \in Arm /\ Place(arm[i]) = i
<1>1. /\ kit \in Kits /\ arm \in Seq(kit.cubes) /\ arm # <<>> /\ IsInjective(arm) /\ arm[1] = Root
      /\ kit.cubes \subseteq Cubes
  BY ConstantsAre DEF Types
<1>2. arm \in Seq(Cubes) /\ Len(arm) \in Nat \ {0} /\ DOMAIN arm = 1 .. Len(arm)
  <2>1. Len(arm) \in Nat \ {0} /\ DOMAIN arm = 1 .. Len(arm)
    BY <1>1, EmptySeq
  <2>2. \A i \in 1 .. Len(arm) : arm[i] \in Cubes
    BY <1>1
  <2> QED BY <1>1, <2>1, <2>2
<1>3. Arm = {arm[i] : i \in 1 .. Len(arm)}
  BY <1>2 DEF Arm, Range
<1>4. \A i, j \in 1 .. Len(arm) : arm[i] = arm[j] => i = j
  BY <1>1, <1>2 DEF IsInjective
<1>5. ASSUME NEW d \in Arm PROVE Place(d) \in 1 .. Len(arm) /\ arm[Place(d)] = d
  <2>1. \E i \in DOMAIN arm : arm[i] = d
    BY <1>2, <1>3
  <2> QED BY <1>2, <2>1 DEF Place
<1>6. ASSUME NEW i \in 1 .. Len(arm) PROVE arm[i] \in Arm /\ Place(arm[i]) = i
  <2>1. arm[i] \in Arm
    BY <1>3
  <2> QED BY <1>4, <1>5, <2>1
<1>7. Arm \subseteq Cubes
  BY <1>2, <1>3
<1>8. 1 \in 1 .. Len(arm)
  BY <1>2
<1> QED BY <1>1, <1>2, <1>5, <1>6, <1>7, <1>8

LEMMA ReachedIs ==
  ASSUME Types, NEW c \in Arm, NEW s \in Sides, NEW e, e = Reached(c, s), e # None
  PROVE  /\ e \in Arm /\ e \in Cubes
         /\ s = "down" => Place(e) = Place(c) + 1 /\ e # Root
<1> DEFINE i == IF s = "up" THEN Place(c) - 1 ELSE Place(c) + 1
<1>1. i \in DOMAIN arm /\ e = arm[i]
  BY DEF Reached
<1>2. e \in Arm /\ e \in Cubes /\ Place(e) = i
  BY <1>1, ArmIs
<1>3. Place(c) \in 1 .. Len(arm) /\ Len(arm) \in Nat /\ Place(Root) = 1
  BY ArmIs
<1>4. ASSUME s = "down" PROVE Place(e) = Place(c) + 1 /\ e # Root
  <2>1. Place(e) = Place(c) + 1
    BY <1>2, <1>4
  <2>2. Place(e) # 1
    BY <1>3, <2>1
  <2> QED BY <1>3, <2>1, <2>2
<1> QED BY <1>2, <1>4

LEMMA ReachedType == ASSUME Types, NEW c \in Arm, NEW s \in Sides
                     PROVE  Reached(c, s) \in Cubes \cup {None}
  BY ReachedIs

End == <<None, 0>>

LEMMA SpotsAre ==
  ASSUME NEW x \in Spots
  PROVE  x = End \/ \E d \in Arm, q \in {0, 1, 2} : x = <<d, q>> /\ x[1] = d /\ x[2] = q
<1>1. 0 .. 2 = {0, 1, 2}
  OBVIOUS
<1> QED BY <1>1 DEF Spots, End

LEMMA RankIs ==
  ASSUME Types
  PROVE  /\ End \in Spots /\ Rank[End] = 3 * Len(arm) + 3
         /\ \A d \in Arm, q \in {0, 1, 2} : /\ <<d, q>> \in Spots /\ <<d, q>> # End
                                            /\ Rank[<<d, q>>] = 3 * Place(d) + q
                                            /\ Rank[<<d, q>>] < Rank[End]
         /\ Rank \in [Spots -> Nat]
         /\ \A x, y \in Spots : Rank[x] = Rank[y] => x = y
         /\ DOMAIN Rank = Spots
<1>1. None \notin Arm /\ Len(arm) \in Nat /\ \A d \in Arm : Place(d) \in 1 .. Len(arm)
  BY ArmIs, ConstantsAre
<1>2. End \in Spots /\ Rank[End] = 3 * Len(arm) + 3
  BY DEF Rank, Spots, End
<1>3. ASSUME NEW d \in Arm, NEW q \in {0, 1, 2}
      PROVE  /\ <<d, q>> \in Spots /\ <<d, q>> # End
             /\ Rank[<<d, q>>] = 3 * Place(d) + q /\ Rank[<<d, q>>] < Rank[End]
  <2>1. <<d, q>> \in Spots /\ <<d, q>>[1] = d /\ <<d, q>>[2] = q
    BY DEF Spots
  <2>2. d # None
    BY <1>1
  <2>3. Rank[<<d, q>>] = 3 * Place(d) + q
    BY <2>1, <2>2 DEF Rank
  <2>4. 3 * Place(d) + q < 3 * Len(arm) + 3
    BY <1>1
  <2> QED BY <1>2, <2>1, <2>2, <2>3, <2>4 DEF End
<1>4. ASSUME NEW x \in Spots PROVE Rank[x] \in Nat
  <2>1. CASE x = End
    BY <1>1, <1>2, <2>1
  <2>2. ASSUME NEW d \in Arm, NEW q \in {0, 1, 2}, x = <<d, q>> PROVE Rank[x] \in Nat
    <3>1. PICK p \in 1 .. Len(arm) : p = Place(d)
      BY <1>1
    <3>2. 3 * p + q \in Nat
      OBVIOUS
    <3> QED BY <1>3, <2>2, <3>1, <3>2
  <2> QED BY <2>1, <2>2, SpotsAre
<1>5. ASSUME NEW x \in Spots, NEW y \in Spots, Rank[x] = Rank[y] PROVE x = y
  <2>1. ASSUME NEW d \in Arm, NEW q \in {0, 1, 2}, NEW z \in Spots, z = <<d, q>>
        PROVE  Rank[z] # Rank[End]
    <3>1. Rank[z] < Rank[End] /\ Rank[z] \in Nat /\ Rank[End] \in Nat
      BY <1>2, <1>3, <1>4, <2>1
    <3>2. PICK i \in Nat, j \in Nat : i = Rank[z] /\ j = Rank[End]
      BY <3>1
    <3> QED BY <3>1, <3>2
  <2>2. ASSUME NEW d \in Arm, NEW q \in {0, 1, 2}, x = <<d, q>>,
               NEW e \in Arm, NEW r \in {0, 1, 2}, y = <<e, r>>
        PROVE  x = y
    <3>1. PICK i \in 1 .. Len(arm), j \in 1 .. Len(arm) : i = Place(d) /\ j = Place(e)
      BY <1>1
    <3>2. 3 * i + q = 3 * j + r
      <4>1. Rank[<<d, q>>] = 3 * Place(d) + q /\ Rank[<<e, r>>] = 3 * Place(e) + r
        BY <1>3
      <4> QED BY <1>5, <2>2, <3>1, <4>1
    <3>3. i = j /\ q = r
      BY <3>2
    <3>4. d = e
      BY <3>1, <3>3, ArmIs
    <3> QED BY <2>2, <3>3, <3>4
  <2> QED BY <1>5, <2>1, <2>2, SpotsAre
<1>6. Rank \in [Spots -> Nat] /\ DOMAIN Rank = Spots
  BY <1>4 DEF Rank
<1> QED BY <1>2, <1>3, <1>5, <1>6

\* A queue of one side of one cube is replaced.
With(v, c, s, e) == [v EXCEPT ![c][s] = e]
Put(v, c, s, f) == With(v, c, s, Append(v[c][s], f))
Took(v, c, s) == With(v, c, s, Tail(v[c][s]))

LEMMA UpdateIs ==
  ASSUME NEW S, NEW v \in [Cubes -> [Sides -> S]], NEW c \in Cubes, NEW s \in Sides, NEW e,
         NEW w, w = With(v, c, s, e)
  PROVE  /\ w[c][s] = e /\ (e \in S => w \in [Cubes -> [Sides -> S]])
         /\ \A d \in Cubes, t \in Sides : d # c \/ t # s => w[d][t] = v[d][t]
  BY DEF With

LEMMA HeldIs ==
  ASSUME Types, NEW c \in Cubes
  PROVE  /\ Held(c)[End] = servo_queue[c] /\ Held(c) \in [Spots -> Seq(Commands)]
         /\ DOMAIN Held(c) = Spots
         /\ \A d \in Arm : /\ Held(c)[<<d, 0>>] = in[d]["up"]
                           /\ Held(c)[<<d, 1>>] = pre[d]["down"]
                           /\ Held(c)[<<d, 2>>] = out[d]["down"]
<1>1. Held(c)[End] = servo_queue[c]
  BY DEF Held, Spots, End
<1>2. None \notin Arm /\ Arm \subseteq Cubes
  BY ArmIs, ConstantsAre
<1>3. ASSUME NEW d \in Arm PROVE /\ Held(c)[<<d, 0>>] = in[d]["up"]
                                 /\ Held(c)[<<d, 1>>] = pre[d]["down"]
                                 /\ Held(c)[<<d, 2>>] = out[d]["down"]
  <2>1. /\ <<d, 0>> \in Spots /\ <<d, 1>> \in Spots /\ <<d, 2>> \in Spots /\ d # None
        /\ <<d, 0>>[1] = d /\ <<d, 1>>[1] = d /\ <<d, 2>>[1] = d
        /\ <<d, 0>>[2] = 0 /\ <<d, 1>>[2] = 1 /\ <<d, 2>>[2] = 2
    BY <1>2, RankIs
  <2>2. Held(c)[<<d, 0>>] = in[d]["up"]
    BY <2>1 DEF Held
  <2>3. Held(c)[<<d, 1>>] = pre[d]["down"]
    BY <2>1 DEF Held
  <2>4. Held(c)[<<d, 2>>] = out[d]["down"]
    BY <2>1 DEF Held
  <2> QED BY <2>2, <2>3, <2>4
<1>4. ASSUME NEW x \in Spots PROVE Held(c)[x] \in Seq(Commands)
  <2>1. CASE x = End
    BY <1>1, <2>1 DEF Types
  <2>2. ASSUME NEW d \in Arm, NEW q \in {0, 1, 2}, x = <<d, q>> PROVE Held(c)[x] \in Seq(Commands)
    <3>1. in[d]["up"] \in Seq(Commands) /\ pre[d]["down"] \in Seq(Commands)
          /\ out[d]["down"] \in Seq(Commands)
      BY <1>2 DEF Types, Queues
    <3> QED BY <1>3, <2>2, <3>1
  <2> QED BY <2>1, <2>2, SpotsAre
<1>5. Held(c) \in [Spots -> Seq(Commands)] /\ DOMAIN Held(c) = Spots
  BY <1>4 DEF Held
<1> QED BY <1>1, <1>3, <1>5
-----------------------------------------------------------------------------
(* Types *)

LEMMA QueuesGrow == ASSUME NEW K, NEW L, NEW M, NEW N, K \subseteq M, L \subseteq N
                    PROVE  Queues(K, L) \subseteq Queues(M, N)
<1>1. Seq(K) \subseteq Seq(M) /\ Seq(L) \subseteq Seq(N) /\ Seq(K \cup L) \subseteq Seq(M \cup N)
  OBVIOUS
<1> QED BY <1>1 DEF Queues

LEMMA QueueIs ==
  ASSUME NEW K, NEW L, NEW v \in Queues(K, L), NEW c \in Cubes, NEW s \in Sides,
         NEW e, s = "down" => e \in Seq(K), s = "up" => e \in Seq(L),
         NEW w, w = With(v, c, s, e)
  PROVE  /\ w \in Queues(K, L) /\ w[c][s] = e
         /\ \A d \in Cubes, t \in Sides : d # c \/ t # s => w[d][t] = v[d][t]
<1>1. v \in [Cubes -> [Sides -> Seq(K \cup L)]] /\ e \in Seq(K \cup L)
  <2>1. Seq(K) \subseteq Seq(K \cup L) /\ Seq(L) \subseteq Seq(K \cup L)
    OBVIOUS
  <2> QED BY <2>1 DEF Queues, Sides
<1>2. /\ w[c][s] = e /\ w \in [Cubes -> [Sides -> Seq(K \cup L)]]
      /\ \A d \in Cubes, t \in Sides : d # c \/ t # s => w[d][t] = v[d][t]
  BY <1>1 DEF With
<1>3. ASSUME NEW d \in Cubes PROVE w[d]["down"] \in Seq(K) /\ w[d]["up"] \in Seq(L)
  <2>1. v[d]["down"] \in Seq(K) /\ v[d]["up"] \in Seq(L)
    BY DEF Queues
  <2>2. w[d]["down"] \in Seq(K)
    BY <1>2, <2>1 DEF Sides
  <2>3. w[d]["up"] \in Seq(L)
    BY <1>2, <2>1 DEF Sides
  <2> QED BY <2>2, <2>3
<1> QED BY <1>2, <1>3 DEF Queues

LEMMA QueueOf == ASSUME NEW K, NEW L, NEW v \in Queues(K, L), NEW c \in Cubes, NEW s \in Sides,
                        NEW T, T = IF s = "down" THEN K ELSE L
                 PROVE  v[c][s] \in Seq(T)
  BY DEF Queues, Sides

\* A send appends its frame to one of two queues.
LEMMA SendIs ==
  ASSUME NEW K, pre \in Queues(K, Answers), out \in Queues(K, Answers),
         \A c \in Cubes, s \in Sides : Len(out[c][s]) <= QueueLen, overtaken \subseteq Cubes,
         NEW c \in Cubes, NEW s \in Sides, NEW T, T = IF s = "down" THEN K ELSE Answers, NEW f \in T,
         id[c][s] # None => f.to \in Cubes /\ f.from \in Cubes, Send(c, s, f)
  PROVE  /\ pre' \in Queues(K, Answers) /\ out' \in Queues(K, Answers)
         /\ \A d \in Cubes, t \in Sides : Len(out'[d][t]) <= QueueLen
         /\ overtaken' \subseteq Cubes /\ overtaken \subseteq overtaken'
         /\ \A d \in Cubes, t \in Sides : d # c \/ t # s
               => pre'[d][t] = pre[d][t] /\ out'[d][t] = out[d][t]
         /\ \/ pre'[c][s] = Append(pre[c][s], f) /\ out'[c][s] = out[c][s]
            \/ /\ pre'[c][s] = pre[c][s] /\ out'[c][s] = Append(out[c][s], f)
               /\ f.kind = "servo" /\ f.to \notin overtaken'
                     => \A i \in DOMAIN pre[c][s] : ~SameWay(pre[c][s][i], f)
<1>0. /\ pre[c][s] \in Seq(T) /\ out[c][s] \in Seq(T)
      /\ s = "down" => T = K
      /\ s = "up" => T = Answers
  BY QueueOf
<1>1. CASE id[c][s] = None
  <2>1. pre' = [pre EXCEPT ![c][s] = Append(pre[c][s], f)] /\ UNCHANGED <<out, overtaken>>
    BY <1>1 DEF Send
  <2>2. PICK e \in Seq(T) : e = Append(pre[c][s], f)
    BY <1>0, AppendProperties
  <2>3. /\ pre' \in Queues(K, Answers) /\ pre'[c][s] = e
        /\ \A d \in Cubes, t \in Sides : d # c \/ t # s => pre'[d][t] = pre[d][t]
    <3>1. pre' = With(pre, c, s, e)
      BY <2>1, <2>2 DEF With
    <3>2. s = "down" => e \in Seq(K)
      BY <1>0
    <3>3. s = "up" => e \in Seq(Answers)
      BY <1>0
    <3> QED BY <3>1, <3>2, <3>3, QueueIs
  <2> QED BY <2>1, <2>2, <2>3
<1>2. CASE id[c][s] # None
  <2>1. /\ out' = [out EXCEPT ![c][s] = Append(out[c][s], f)] /\ UNCHANGED pre
        /\ Len(out[c][s]) < QueueLen
        /\ overtaken' = IF \E i \in DOMAIN pre[c][s] : SameWay(pre[c][s][i], f)
                        THEN overtaken \cup {Subject(f)} ELSE overtaken
    BY <1>2 DEF Send
  <2>2. PICK e \in Seq(T) : e = Append(out[c][s], f) /\ Len(e) = Len(out[c][s]) + 1
    <3>1. Append(out[c][s], f) \in Seq(T)
      BY <1>0, AppendProperties
    <3>2. Len(Append(out[c][s], f)) = Len(out[c][s]) + 1
      BY <1>0, AppendProperties
    <3> QED BY <3>1, <3>2
  <2>3. /\ out' \in Queues(K, Answers) /\ out'[c][s] = e
        /\ \A d \in Cubes, t \in Sides : d # c \/ t # s => out'[d][t] = out[d][t]
    <3>1. out' = With(out, c, s, e)
      BY <2>1, <2>2 DEF With
    <3>2. s = "down" => e \in Seq(K)
      BY <1>0
    <3>3. s = "up" => e \in Seq(Answers)
      BY <1>0
    <3> QED BY <3>1, <3>2, <3>3, QueueIs
  <2>4. Len(out'[c][s]) <= QueueLen
    <3>1. Len(out[c][s]) \in Nat
      BY <1>0
    <3> QED BY <2>1, <2>2, <2>3, <3>1, ConstantsAre
  <2>5. overtaken' \subseteq Cubes /\ overtaken \subseteq overtaken'
    BY <1>2, <2>1 DEF Subject
  <2>6. \A d \in Cubes, t \in Sides : Len(out'[d][t]) <= QueueLen
    BY <2>3, <2>4
  <2>7. f.kind = "servo" /\ f.to \notin overtaken' => \A i \in DOMAIN pre[c][s] : ~SameWay(pre[c][s][i], f)
    BY <2>1 DEF Subject
  <2> QED BY <2>1, <2>2, <2>3, <2>5, <2>6, <2>7
<1> QED BY <1>1, <1>2

LEMMA SetsKept == ASSUME UNCHANGED sent
                  PROVE  Commands' = Commands /\ Answers' = Answers
  BY DEF Commands, Answers

LEMMA CommandsInIs == ASSUME NEW s \in Seq(Commands \cup Answers) PROVE CommandsIn(s) \subseteq 1 .. Len(sent)
<1> SUFFICES ASSUME NEW i \in DOMAIN s, s[i].kind = "servo" PROVE s[i].no \in 1 .. Len(sent)
  BY DEF CommandsIn
<1>1. s[i] \in Commands \cup Answers
  OBVIOUS
<1>2. s[i] \in Commands
  BY <1>1 DEF Answers
<1> QED BY <1>2 DEF Commands

\* The oldest frame of a queue, and what is left.
LEMMA QueueTaken ==
  ASSUME NEW K, NEW L, NEW v \in Queues(K, L), NEW c \in Cubes, NEW s \in Sides, v[c][s] # <<>>,
         NEW w, w = Took(v, c, s)
  PROVE  /\ w \in Queues(K, L) /\ w[c][s] = Tail(v[c][s])
         /\ \A d \in Cubes, t \in Sides : d # c \/ t # s => w[d][t] = v[d][t]
         /\ s = "down" => Head(v[c][s]) \in K
         /\ s = "up" => Head(v[c][s]) \in L
         /\ Len(v[c][s]) \in Nat /\ Len(w[c][s]) = Len(v[c][s]) - 1
<1>1. PICK T : T = IF s = "down" THEN K ELSE L
  OBVIOUS
<1>2. v[c][s] \in Seq(T)
  BY <1>1, QueueOf
<1>3. PICK e \in Seq(T) : e = Tail(v[c][s]) /\ Len(e) = Len(v[c][s]) - 1
  BY <1>2, HeadTailProperties
<1>4. Head(v[c][s]) \in T /\ Len(v[c][s]) \in Nat
  BY <1>2, HeadTailProperties
<1>5. s = "down" => e \in Seq(K)
  BY <1>1
<1>6. s = "up" => e \in Seq(L)
  BY <1>1
<1>7. /\ w \in Queues(K, L) /\ w[c][s] = e
      /\ \A d \in Cubes, t \in Sides : d # c \/ t # s => w[d][t] = v[d][t]
  <2>1. w = With(v, c, s, e)
    BY <1>3 DEF Took
  <2> QED BY <1>5, <1>6, <2>1, QueueIs
<1> QED BY <1>1, <1>3, <1>4, <1>7

LEMMA QueuePut ==
  ASSUME NEW K, NEW L, NEW v \in Queues(K, L), NEW c \in Cubes, NEW s \in Sides, NEW f,
         s = "down" => f \in K, s = "up" => f \in L, NEW w, w = Put(v, c, s, f)
  PROVE  /\ w \in Queues(K, L) /\ w[c][s] = Append(v[c][s], f)
         /\ \A d \in Cubes, t \in Sides : d # c \/ t # s => w[d][t] = v[d][t]
<1>1. PICK T : T = IF s = "down" THEN K ELSE L
  OBVIOUS
<1>2. v[c][s] \in Seq(T) /\ f \in T
  BY <1>1, QueueOf DEF Sides
<1>3. PICK e \in Seq(T) : e = Append(v[c][s], f)
  BY <1>2, AppendProperties
<1>4. s = "down" => e \in Seq(K)
  BY <1>1
<1>5. s = "up" => e \in Seq(L)
  BY <1>1
<1>6. w = With(v, c, s, e)
  BY <1>3 DEF Put
<1>7. /\ w \in Queues(K, L) /\ w[c][s] = e
      /\ \A d \in Cubes, t \in Sides : d # c \/ t # s => w[d][t] = v[d][t]
  BY <1>4, <1>5, <1>6, QueueIs
<1> QED BY <1>3, <1>7

LEMMA TransmitIs ==
  ASSUME Types, NEW c \in Cubes, NEW s \in Sides, Transmit(c, s)
  PROVE  /\ c \in Arm /\ out[c][s] # <<>>
         /\ out' = Took(out, c, s)
         /\ out' \in Queues(Commands, Answers) /\ out'[c][s] = Tail(out[c][s])
         /\ \A d \in Cubes, t \in Sides : d # c \/ t # s => out'[d][t] = out[d][t]
         /\ \A d \in Cubes, t \in Sides : Len(out'[d][t]) <= QueueLen
         /\ s = "down" => Head(out[c][s]) \in Commands
         /\ s = "up" => Head(out[c][s]) \in Answers
         /\ \/ /\ Reached(c, s) = None /\ in' = in
               /\ lost' = lost \cup CommandsIn(<<Head(out[c][s])>>)
            \/ \E e \in Arm : /\ e = Reached(c, s) /\ lost' = lost
                              /\ in' \in Queues(Answers, Commands)
                              /\ in'[e][Opposite(s)] = Append(in[e][Opposite(s)], Head(out[c][s]))
                              /\ \A d \in Cubes, t \in Sides :
                                    d # e \/ t # Opposite(s) => in'[d][t] = in[d][t]
<1>1. /\ c \in Arm /\ out[c][s] # <<>> /\ out' = Took(out, c, s)
      /\ out \in Queues(Commands, Answers) /\ in \in Queues(Answers, Commands)
  BY DEF Transmit, Types, With, Took
<1>2. PICK f : f = Head(out[c][s])
  OBVIOUS
<1>3. /\ out' \in Queues(Commands, Answers) /\ out'[c][s] = Tail(out[c][s])
      /\ \A d \in Cubes, t \in Sides : d # c \/ t # s => out'[d][t] = out[d][t]
      /\ s = "down" => f \in Commands
      /\ s = "up" => f \in Answers
      /\ Len(out[c][s]) \in Nat /\ Len(out'[c][s]) = Len(out[c][s]) - 1
  BY <1>1, <1>2, QueueTaken
<1>4. \A d \in Cubes, t \in Sides : Len(out'[d][t]) <= QueueLen
  <2>1. \A d \in Cubes, t \in Sides : Len(out[d][t]) <= QueueLen
    BY DEF Types
  <2>2. Len(out'[c][s]) <= QueueLen
    BY <1>3, <2>1, ConstantsAre
  <2> QED BY <1>3, <2>1, <2>2
<1>5. CASE Reached(c, s) = None
  BY <1>1, <1>2, <1>3, <1>4, <1>5 DEF Transmit
<1>6. CASE Reached(c, s) # None
  <2>1. PICK e \in Arm : e = Reached(c, s) /\ e \in Cubes
    BY <1>1, <1>6, ReachedIs
  <2>2. PICK t \in Sides : t = Opposite(s) /\ (t = "up" <=> s = "down")
    BY DEF Opposite, Sides
  <2>3. in' = Put(in, e, t, f) /\ lost' = lost
    BY <1>2, <1>6, <2>1, <2>2 DEF Transmit, With, Put
  <2>4. (t = "down" => f \in Answers) /\ (t = "up" => f \in Commands)
    BY <1>3, <2>2 DEF Sides
  <2>5. /\ in' \in Queues(Answers, Commands) /\ in'[e][t] = Append(in[e][t], f)
        /\ \A d \in Cubes, u \in Sides : d # e \/ u # t => in'[d][u] = in[d][u]
    <3>1. in \in Queues(Answers, Commands) /\ e \in Cubes
      BY <1>1, <2>1
    <3>2. in' = Put(in, e, t, f)
      BY <2>3
    <3>3. t = "down" => f \in Answers
      BY <2>4
    <3>4. t = "up" => f \in Commands
      BY <2>4
    <3> QED BY <3>1, <3>2, <3>3, <3>4, QueuePut
  <2>6. /\ e = Reached(c, s) /\ lost' = lost /\ in' \in Queues(Answers, Commands)
        /\ in'[e][Opposite(s)] = Append(in[e][Opposite(s)], Head(out[c][s]))
        /\ \A d \in Cubes, u \in Sides : d # e \/ u # Opposite(s) => in'[d][u] = in[d][u]
    BY <1>2, <2>1, <2>2, <2>3, <2>5
  <2> QED BY <1>1, <1>2, <1>3, <1>4, <2>6
<1> QED BY <1>5, <1>6

LEMMA TransmitTypes ==
  ASSUME Types, Gone, NEW c \in Cubes, NEW s \in Sides, Transmit(c, s)
  PROVE  Types' /\ Gone'
<1>1. UNCHANGED <<userVars, id, pre, linker, servo_queue, report_queue, moved, heard, sent, obeyed, raced,
                  overtaken, troubles>>
  BY DEF Transmit
<1>2. Commands' = Commands /\ Answers' = Answers
  BY <1>1, SetsKept
<1>3. PICK f : f = Head(out[c][s])
  OBVIOUS
<1>4. lost' \subseteq 1 .. Len(sent)
  <2>1. f \in Commands \cup Answers
    BY <1>3, TransmitIs DEF Sides
  <2>2. <<f>> \in Seq(Commands \cup Answers)
    BY <2>1
  <2>3. CommandsIn(<<f>>) \subseteq 1 .. Len(sent)
    BY <2>2, CommandsInIs
  <2>4. lost' = lost \/ lost' = lost \cup CommandsIn(<<f>>)
    BY <1>3, TransmitIs
  <2> QED BY <2>3, <2>4 DEF Types
<1>5. in' \in Queues(Answers, Commands)
  BY TransmitIs DEF Types
<1>6. Types'
  BY <1>1, <1>2, <1>4, <1>5, TransmitIs DEF Types, userVars
<1>7. in'[Root]["up"] = <<>>
  <2>1. in[Root]["up"] = <<>> /\ Root \in Cubes /\ "up" \in Sides
    BY ConstantsAre DEF Gone, Sides
  <2>2. ASSUME NEW e \in Arm, e = Reached(c, s), Opposite(s) = "up" PROVE e # Root
    <3>1. s = "down" /\ e # None
      BY <2>2, ArmIs, ConstantsAre DEF Opposite, Sides
    <3> QED BY <2>2, <3>1, TransmitIs, ReachedIs
  <2>3. ASSUME NEW e \in Arm, e = Reached(c, s),
               \A d \in Cubes, t \in Sides : d # e \/ t # Opposite(s) => in'[d][t] = in[d][t]
        PROVE  in'[Root]["up"] = in[Root]["up"]
    BY <2>1, <2>2, <2>3
  <2>4. \/ in' = in
        \/ \E e \in Arm : /\ e = Reached(c, s)
                          /\ \A d \in Cubes, t \in Sides :
                                d # e \/ t # Opposite(s) => in'[d][t] = in[d][t]
    BY TransmitIs
  <2> QED BY <2>1, <2>3, <2>4
<1>8. \A d \in Cubes \ Arm, t \in Sides : out'[d][t] = out[d][t] /\ in'[d][t] = in[d][t]
  BY ZenonT(60), TransmitIs
<1>9. Arm' = Arm
  BY <1>1 DEF Arm, userVars
<1> QED BY <1>1, <1>6, <1>7, <1>8, <1>9 DEF Gone

LEMMA EnqueueIs ==
  ASSUME NEW K, servo_queue \in [Cubes -> Seq(K)], NEW c \in Cubes, NEW f \in K, f.to = c,
         \A d \in Cubes : servo_queue[d] \in Seq(For(K, d)) /\ Len(servo_queue[d]) <= QueueLen,
         Enqueue(c, f)
  PROVE  /\ servo_queue' \in [Cubes -> Seq(K)] /\ servo_queue'[c] = Append(servo_queue[c], f)
         /\ \A d \in Cubes : servo_queue'[d] \in Seq(For(K, d)) /\ Len(servo_queue'[d]) <= QueueLen
         /\ \A d \in Cubes : d # c => servo_queue'[d] = servo_queue[d]
<1>1. Len(servo_queue[c]) < QueueLen /\ Len(servo_queue[c]) \in Nat
  BY DEF Enqueue
<1>2. servo_queue' = [servo_queue EXCEPT ![c] = Append(servo_queue[c], f)]
  BY DEF Enqueue
<1>3. f \in For(K, c)
  BY DEF For
<1>4. PICK t : t = Append(servo_queue[c], f)
  OBVIOUS
<1>5. t \in Seq(K)
  BY <1>4, AppendProperties
<1>6. t \in Seq(For(K, c))
  BY <1>3, <1>4, AppendProperties
<1>7. Len(t) = Len(servo_queue[c]) + 1
  BY <1>4, AppendProperties
<1>8. Len(t) <= QueueLen
  BY <1>1, <1>7, ConstantsAre
<1> QED BY <1>2, <1>4, <1>5, <1>6, <1>8

\* What a frame that has arrived is, and what is done with it.
LEMMA ReceiveIs ==
  ASSUME Types, NEW c \in Cubes, NEW s \in Sides, Receive(c, s)
  PROVE  /\ c \in Arm /\ in[c][s] # <<>> /\ in' = Took(in, c, s)
         /\ in' \in Queues(Answers, Commands) /\ in'[c][s] = Tail(in[c][s])
         /\ \A d \in Cubes, t \in Sides : d # c \/ t # s => in'[d][t] = in[d][t]
         /\ s = "down" => Head(in[c][s]) \in Answers
         /\ s = "up" => Head(in[c][s]) \in Commands
         /\ IF Mine(c, Head(in[c][s]))
            THEN Sort(c, Head(in[c][s])) /\ UNCHANGED <<pre, out, overtaken>>
            ELSE Send(c, Opposite(s), Head(in[c][s])) /\ UNCHANGED <<servo_queue, report_queue>>
<1>1. c \in Arm /\ in[c][s] # <<>> /\ in' = Took(in, c, s) /\ in \in Queues(Answers, Commands)
  BY DEF Receive, Types, With, Took
<1>2. /\ in' \in Queues(Answers, Commands) /\ in'[c][s] = Tail(in[c][s])
      /\ \A d \in Cubes, t \in Sides : d # c \/ t # s => in'[d][t] = in[d][t]
      /\ s = "down" => Head(in[c][s]) \in Answers
      /\ s = "up" => Head(in[c][s]) \in Commands
  BY <1>1, QueueTaken
<1>3. IF Mine(c, Head(in[c][s]))
      THEN Sort(c, Head(in[c][s])) /\ UNCHANGED <<pre, out, overtaken>>
      ELSE Send(c, Opposite(s), Head(in[c][s])) /\ UNCHANGED <<servo_queue, report_queue>>
  BY DEF Receive
<1> QED BY <1>1, <1>2, <1>3

LEMMA CommandIs == ASSUME NEW f \in Commands
                   PROVE  /\ f.kind = "servo" /\ f.from = Root /\ f.from \in Cubes /\ f.to \in Cubes
                          /\ f.no \in 1 .. Len(sent) /\ f.slave = None
  BY ConstantsAre DEF Commands

LEMMA AnswerIs == ASSUME NEW f \in Answers
                  PROVE  /\ f.kind # "servo" /\ f.from \in Cubes /\ f.to \in Cubes \cup {None}
                         /\ f.slave \in Cubes \cup {None}
  BY DEF Answers

LEMMA ReceiveTypes ==
  ASSUME Types, Gone, NEW c \in Cubes, NEW s \in Sides, Receive(c, s)
  PROVE  Types' /\ Gone'
<1>1. UNCHANGED <<userVars, id, linker, moved, heard, history, troubles>>
  BY DEF Receive
<1>2. Commands' = Commands /\ Answers' = Answers
  BY <1>1, SetsKept DEF history
<1>3. PICK f : f = Head(in[c][s])
  OBVIOUS
<1>4. /\ s = "down" => f \in Answers
      /\ s = "up" => f \in Commands
      /\ IF Mine(c, f) THEN Sort(c, f) /\ UNCHANGED <<pre, out, overtaken>>
                       ELSE Send(c, Opposite(s), f) /\ UNCHANGED <<servo_queue, report_queue>>
      /\ in' \in Queues(Answers, Commands) /\ c \in Arm
      /\ \A d \in Cubes, t \in Sides : d # c \/ t # s => in'[d][t] = in[d][t]
  BY <1>3, ReceiveIs
<1>5. /\ pre' \in Queues(Commands, Answers) /\ out' \in Queues(Commands, Answers)
      /\ \A d \in Cubes, t \in Sides : Len(out'[d][t]) <= QueueLen
      /\ overtaken' \subseteq Cubes
      /\ \A d \in Cubes, t \in Sides : d # c => pre'[d][t] = pre[d][t] /\ out'[d][t] = out[d][t]
  <2>1. CASE Mine(c, f)
    BY <1>4, <2>1 DEF Types
  <2>2. CASE ~Mine(c, f)
    <3>1. Send(c, Opposite(s), f)
      BY <1>4, <2>2
    <3>2. PICK t \in Sides : t = Opposite(s) /\ (t = "down" <=> s = "up")
      BY DEF Opposite, Sides
    <3>3. f \in IF t = "down" THEN Commands ELSE Answers
      BY <1>4, <3>2 DEF Sides
    <3>4. f.to \in Cubes /\ f.from \in Cubes
      BY <1>4, <2>2, CommandIs, AnswerIs DEF Mine, Sides
    <3>5. PICK T : T = IF t = "down" THEN Commands ELSE Answers
      OBVIOUS
    <3>6. f \in T /\ Send(c, t, f)
      BY <3>1, <3>2, <3>3, <3>5
    <3>7. /\ pre \in Queues(Commands, Answers) /\ out \in Queues(Commands, Answers)
          /\ \A d \in Cubes, u \in Sides : Len(out[d][u]) <= QueueLen
          /\ overtaken \subseteq Cubes
      BY DEF Types
    <3>8. /\ pre' \in Queues(Commands, Answers) /\ out' \in Queues(Commands, Answers)
          /\ \A d \in Cubes, u \in Sides : Len(out'[d][u]) <= QueueLen
          /\ overtaken' \subseteq Cubes
          /\ \A d \in Cubes, u \in Sides : d # c \/ u # t
                => pre'[d][u] = pre[d][u] /\ out'[d][u] = out[d][u]
      BY <3>4, <3>5, <3>6, <3>7, SendIs
    <3> QED BY <3>8
  <2> QED BY <2>1, <2>2
<1>6. /\ servo_queue' \in [Cubes -> Seq(Commands)]
      /\ report_queue' \in Seq(Answers) /\ Len(report_queue') <= QueueLen
      /\ \A d \in Cubes : servo_queue'[d] \in Seq(For(Commands, d)) /\ Len(servo_queue'[d]) <= QueueLen
      /\ \A d \in Cubes : d # c => servo_queue'[d] = servo_queue[d]
  <2>1. CASE ~Mine(c, f)
    BY <1>4, <2>1 DEF Types
  <2>2. CASE Mine(c, f) /\ f.kind = "servo"
    <3>1. Enqueue(c, f) /\ UNCHANGED report_queue
      BY <1>4, <2>2 DEF Sort
    <3>2. f \in Commands /\ f.to = c
      BY <1>4, <2>2, AnswerIs, CommandIs, ConstantsAre DEF Mine, Sides
    <3> QED BY <3>1, <3>2, EnqueueIs DEF Types
  <2>3. CASE Mine(c, f) /\ f.kind # "servo"
    <3>1. /\ UNCHANGED servo_queue
          /\ \/ Len(report_queue) < QueueLen /\ report_queue' = Append(report_queue, f)
             \/ UNCHANGED report_queue
      BY <1>4, <2>3 DEF Sort
    <3>2. f \in Answers
      BY <1>4, <2>3, CommandIs DEF Sides
    <3>3. report_queue \in Seq(Answers) /\ Len(report_queue) <= QueueLen
      BY DEF Types
    <3>4. CASE Len(report_queue) < QueueLen /\ report_queue' = Append(report_queue, f)
      <4>1. report_queue' \in Seq(Answers) /\ Len(report_queue') = Len(report_queue) + 1
        BY <3>2, <3>3, <3>4, AppendProperties
      <4>2. Len(report_queue') <= QueueLen
        BY <3>3, <3>4, <4>1, ConstantsAre
      <4> QED BY <3>1, <4>1, <4>2 DEF Types
    <3> QED BY <3>1, <3>3, <3>4 DEF Types
  <2> QED BY <2>1, <2>2, <2>3
<1>7. Types'
  BY <1>1, <1>2, <1>4, <1>5, <1>6 DEF Types, userVars, history
<1>8. in'[Root]["up"] = <<>>
  <2>1. in[Root]["up"] = <<>> /\ Root \in Cubes /\ "up" \in Sides
    BY ConstantsAre DEF Gone, Sides
  <2>2. c # Root \/ s # "up"
    BY <2>1, ReceiveIs
  <2> QED BY <1>4, <2>1, <2>2
<1>9. \A d \in Cubes \ Arm : /\ servo_queue'[d] = servo_queue[d]
                             /\ \A t \in Sides : /\ out'[d][t] = out[d][t] /\ in'[d][t] = in[d][t]
                                                 /\ pre'[d][t] = pre[d][t]
  BY <1>4, <1>5, <1>6
<1>10. Arm' = Arm
  BY <1>1 DEF Arm, userVars
<1> QED BY <1>1, <1>7, <1>8, <1>9, <1>10 DEF Gone

LEMMA CommandsGrow ==
  ASSUME Types, NEW d \in Cubes, SendCommand(d)
  PROVE  /\ sent' \in Seq(Cubes) /\ Len(sent') = Len(sent) + 1 /\ Len(sent') <= kit.commands
         /\ Len(sent) \in Nat /\ Commands \subseteq Commands' /\ Answers' = Answers
         /\ Frame("servo", Root, d, Len(sent) + 1, None) \in Commands'
         /\ \A f \in Commands : f.no < Len(sent) + 1
<1>1. sent' = Append(sent, d) /\ Len(sent) < kit.commands /\ sent \in Seq(Cubes)
  BY DEF SendCommand, Types
<1>2. kit.commands \in Nat
  BY ConstantsAre DEF Types
<1>3. sent' \in Seq(Cubes) /\ Len(sent') = Len(sent) + 1 /\ Len(sent) \in Nat
  BY <1>1, AppendProperties
<1>4. 1 .. Len(sent) \subseteq 1 .. Len(sent') /\ Len(sent) + 1 \in 1 .. Len(sent')
  BY <1>3
<1>5. Commands \subseteq Commands'
  BY <1>4 DEF Commands
<1>6. Frame("servo", Root, d, Len(sent) + 1, None) \in Commands'
  BY <1>4 DEF Commands, Frame
<1>7. \A f \in Commands : f.no < Len(sent) + 1
  <2> SUFFICES ASSUME NEW f \in Commands PROVE f.no < Len(sent) + 1
    OBVIOUS
  <2>1. f.no \in 1 .. Len(sent)
    BY CommandIs
  <2> QED BY <1>3, <2>1
<1>8. Answers' = Answers
  BY DEF Answers
<1> QED BY <1>1, <1>2, <1>3, <1>5, <1>6, <1>7, <1>8

LEMMA ForGrows == ASSUME NEW K, NEW L, K \subseteq L, NEW c PROVE Seq(For(K, c)) \subseteq Seq(For(L, c))
<1>1. For(K, c) \subseteq For(L, c)
  BY DEF For
<1> QED BY <1>1

LEMMA SendCommandTypes ==
  ASSUME Types, Gone, NEW d \in Cubes, SendCommand(d)
  PROVE  Types' /\ Gone'
<1>1. UNCHANGED <<userVars, id, in, report_queue, linker, moved, heard, obeyed, lost, raced, troubles>>
  BY DEF SendCommand
<1>2. PICK K : K = Commands'
  OBVIOUS
<1>3. /\ sent' \in Seq(Cubes) /\ Len(sent') <= kit.commands /\ Len(sent') = Len(sent) + 1
      /\ Len(sent) \in Nat /\ Commands \subseteq K /\ Answers' = Answers
  BY <1>2, CommandsGrow
<1>4. PICK f \in K : f = Frame("servo", Root, d, Len(sent) + 1, None)
  BY <1>2, CommandsGrow
<1>5. f.to = d /\ f.from = Root
  BY <1>4 DEF Frame
<1>6. /\ pre \in Queues(K, Answers) /\ out \in Queues(K, Answers) /\ in \in Queues(Answers, K)
      /\ \A c \in Cubes, s \in Sides : Len(out[c][s]) <= QueueLen
      /\ overtaken \subseteq Cubes
  BY <1>3, QueuesGrow DEF Types
<1>7. /\ servo_queue \in [Cubes -> Seq(K)]
      /\ \A c \in Cubes : servo_queue[c] \in Seq(For(K, c)) /\ Len(servo_queue[c]) <= QueueLen
  <2>1. Seq(Commands) \subseteq Seq(K)
    BY <1>3
  <2>2. \A c \in Cubes : Seq(For(Commands, c)) \subseteq Seq(For(K, c))
    BY <1>3, ForGrows
  <2> QED BY <2>1, <2>2 DEF Types
<1>8. Root \in Cubes /\ "down" \in Sides /\ Root \in Arm
  BY ConstantsAre, ArmIs DEF Sides
<1>9. /\ pre' \in Queues(K, Answers) /\ out' \in Queues(K, Answers)
      /\ \A c \in Cubes, s \in Sides : Len(out'[c][s]) <= QueueLen
      /\ overtaken' \subseteq Cubes
      /\ \A c \in Cubes, s \in Sides : c # Root => pre'[c][s] = pre[c][s] /\ out'[c][s] = out[c][s]
      /\ servo_queue' \in [Cubes -> Seq(K)]
      /\ \A c \in Cubes : servo_queue'[c] \in Seq(For(K, c)) /\ Len(servo_queue'[c]) <= QueueLen
      /\ \A c \in Cubes : c # Root => servo_queue'[c] = servo_queue[c]
  <2>1. CASE d = Root
    <3>1. Enqueue(d, f) /\ UNCHANGED <<pre, out, overtaken>>
      BY <1>4, <2>1 DEF SendCommand
    <3>2. /\ servo_queue' \in [Cubes -> Seq(K)]
          /\ \A c \in Cubes : servo_queue'[c] \in Seq(For(K, c)) /\ Len(servo_queue'[c]) <= QueueLen
          /\ \A c \in Cubes : c # d => servo_queue'[c] = servo_queue[c]
      BY <1>5, <1>7, <3>1, EnqueueIs
    <3> QED BY <1>6, <2>1, <3>1, <3>2
  <2>2. CASE d # Root
    <3>1. Send(Root, "down", f) /\ UNCHANGED servo_queue
      BY <1>4, <2>2 DEF SendCommand
    <3>2. K = IF "down" = "down" THEN K ELSE Answers
      OBVIOUS
    <3>3. /\ pre' \in Queues(K, Answers) /\ out' \in Queues(K, Answers)
          /\ \A c \in Cubes, u \in Sides : Len(out'[c][u]) <= QueueLen
          /\ overtaken' \subseteq Cubes
          /\ \A c \in Cubes, u \in Sides : c # Root \/ u # "down"
                => pre'[c][u] = pre[c][u] /\ out'[c][u] = out[c][u]
      BY <1>4, <1>5, <1>6, <1>8, <3>1, <3>2, SendIs
    <3> QED BY <1>7, <3>1, <3>3
  <2> QED BY <2>1, <2>2
<1>10. obeyed' \in [Cubes -> 0 .. Len(sent')] /\ lost' \subseteq 1 .. Len(sent')
  <2>1. 0 .. Len(sent) \subseteq 0 .. Len(sent') /\ 1 .. Len(sent) \subseteq 1 .. Len(sent')
    BY <1>3
  <2> QED BY <1>1, <2>1 DEF Types
<1>11. Types'
  BY <1>1, <1>2, <1>3, <1>6, <1>9, <1>10 DEF Types, userVars
<1>12. Arm' = Arm
  BY <1>1 DEF Arm, userVars
<1>13. \A c \in Cubes \ Arm : /\ servo_queue'[c] = servo_queue[c]
                              /\ \A s \in Sides : out'[c][s] = out[c][s] /\ pre'[c][s] = pre[c][s]
  BY <1>8, <1>9
<1> QED BY <1>1, <1>11, <1>12, <1>13 DEF Gone

LEMMA ExecuteIs ==
  ASSUME Types, NEW c \in Cubes, Execute(c)
  PROVE  /\ c \in Arm /\ servo_queue[c] # <<>> /\ servo_queue'[c] = Tail(servo_queue[c])
         /\ servo_queue' \in [Cubes -> Seq(Commands)]
         /\ \A d \in Cubes : servo_queue'[d] \in Seq(For(Commands, d)) /\ Len(servo_queue'[d]) <= QueueLen
         /\ \A d \in Cubes : d # c => servo_queue'[d] = servo_queue[d] /\ obeyed'[d] = obeyed[d]
         /\ Head(servo_queue[c]) \in For(Commands, c) /\ obeyed'[c] = Head(servo_queue[c]).no
         /\ obeyed' \in [Cubes -> 0 .. Len(sent)]
<1>1. /\ c \in Arm /\ servo_queue[c] # <<>>
      /\ servo_queue' = [servo_queue EXCEPT ![c] = Tail(servo_queue[c])]
      /\ obeyed' = [obeyed EXCEPT ![c] = Head(servo_queue[c]).no]
  BY DEF Execute
<1>2. PICK q \in Seq(For(Commands, c)) : q = Tail(servo_queue[c]) /\ Len(q) = Len(servo_queue[c]) - 1
  BY <1>1, HeadTailProperties DEF Types
<1>3. PICK f \in For(Commands, c) : f = Head(servo_queue[c])
  BY <1>1, HeadTailProperties DEF Types
<1>4. Len(q) <= QueueLen
  <2>1. Len(servo_queue[c]) \in Nat /\ Len(servo_queue[c]) <= QueueLen
    BY DEF Types
  <2> QED BY <1>2, <2>1, ConstantsAre
<1>5. q \in Seq(Commands)
  BY DEF For
<1>6. f.no \in 0 .. Len(sent)
  <2>1. f \in Commands
    BY DEF For
  <2>2. f.no \in 1 .. Len(sent)
    BY <2>1, CommandIs
  <2> QED BY <2>2
<1>7. /\ servo_queue' \in [Cubes -> Seq(Commands)] /\ servo_queue'[c] = q
      /\ \A d \in Cubes : servo_queue'[d] \in Seq(For(Commands, d)) /\ Len(servo_queue'[d]) <= QueueLen
      /\ \A d \in Cubes : d # c => servo_queue'[d] = servo_queue[d]
  BY <1>1, <1>2, <1>4, <1>5 DEF Types
<1>8. /\ obeyed' \in [Cubes -> 0 .. Len(sent)] /\ obeyed'[c] = f.no
      /\ \A d \in Cubes : d # c => obeyed'[d] = obeyed[d]
  BY <1>1, <1>3, <1>6 DEF Types
<1> QED BY <1>1, <1>2, <1>3, <1>7, <1>8

LEMMA ExecuteTypes ==
  ASSUME Types, Gone, NEW c \in Cubes, Execute(c)
  PROVE  Types' /\ Gone'
<1>1. /\ UNCHANGED <<userVars, id, pre, out, in, report_queue, linker, heard, sent, lost, raced, overtaken,
                     troubles>>
      /\ moved' = [moved EXCEPT ![c] = TRUE]
  BY DEF Execute
<1>2. Commands' = Commands /\ Answers' = Answers
  BY <1>1, SetsKept
<1>3. moved' \in [Cubes -> BOOLEAN] /\ \A d \in Cubes : d # c => moved'[d] = moved[d]
  BY <1>1 DEF Types
<1>4. Types'
  BY <1>1, <1>2, <1>3, ExecuteIs DEF Types, userVars
<1>5. Arm' = Arm
  BY <1>1 DEF Arm, userVars
<1> QED BY <1>1, <1>3, <1>4, <1>5, ExecuteIs DEF Gone

LEMMA AnswerSent ==
  ASSUME Types, NEW c \in Arm, NEW f \in Answers, id[c]["up"] # None => f.to \in Cubes,
         Send(c, "up", f)
  PROVE  /\ pre' \in Queues(Commands, Answers) /\ out' \in Queues(Commands, Answers)
         /\ \A d \in Cubes, t \in Sides : Len(out'[d][t]) <= QueueLen
         /\ overtaken' \subseteq Cubes /\ overtaken \subseteq overtaken'
         /\ \A d \in Cubes : pre'[d]["down"] = pre[d]["down"] /\ out'[d]["down"] = out[d]["down"]
         /\ \A d \in Cubes \ Arm, t \in Sides : pre'[d][t] = pre[d][t] /\ out'[d][t] = out[d][t]
<1>1. c \in Cubes /\ "up" \in Sides /\ "down" \in Sides
  BY ArmIs DEF Sides
<1>2. Answers = IF "up" = "down" THEN Commands ELSE Answers
  OBVIOUS
<1>3. f.from \in Cubes
  BY AnswerIs
<1>4. /\ pre \in Queues(Commands, Answers) /\ out \in Queues(Commands, Answers)
      /\ \A d \in Cubes, t \in Sides : Len(out[d][t]) <= QueueLen
      /\ overtaken \subseteq Cubes
  BY DEF Types
<1>5. /\ pre' \in Queues(Commands, Answers) /\ out' \in Queues(Commands, Answers)
      /\ \A d \in Cubes, t \in Sides : Len(out'[d][t]) <= QueueLen
      /\ overtaken' \subseteq Cubes /\ overtaken \subseteq overtaken'
      /\ \A d \in Cubes, t \in Sides : d # c \/ t # "up"
            => pre'[d][t] = pre[d][t] /\ out'[d][t] = out[d][t]
  BY <1>1, <1>2, <1>3, <1>4, SendIs
<1> QED BY <1>1, <1>5

LEMMA SendAckTypes ==
  ASSUME Types, Gone, NEW c \in Cubes, SendAck(c)
  PROVE  Types' /\ Gone'
<1>1. /\ UNCHANGED <<userVars, id, in, linker, servo_queue, report_queue, heard, history, troubles>>
      /\ moved' = [moved EXCEPT ![c] = FALSE] /\ moved[c]
      /\ Send(c, "up", Frame("ack", c, id[c]["up"], 0, None))
  BY DEF SendAck
<1>2. Commands' = Commands /\ Answers' = Answers
  BY <1>1, SetsKept DEF history
<1>3. c \in Arm
  BY <1>1 DEF Gone
<1>4. PICK f : f = Frame("ack", c, id[c]["up"], 0, None)
  OBVIOUS
<1>5. f \in Answers /\ (id[c]["up"] # None => f.to \in Cubes)
  <2>1. id[c]["up"] \in Cubes \cup {None}
    BY DEF Types, Sides
  <2> QED BY <1>4, <2>1 DEF Answers, Frame
<1>6. /\ pre' \in Queues(Commands, Answers) /\ out' \in Queues(Commands, Answers)
      /\ \A d \in Cubes, t \in Sides : Len(out'[d][t]) <= QueueLen
      /\ overtaken' \subseteq Cubes
      /\ \A d \in Cubes \ Arm, t \in Sides : pre'[d][t] = pre[d][t] /\ out'[d][t] = out[d][t]
  BY <1>1, <1>3, <1>4, <1>5, AnswerSent
<1>7. moved' \in [Cubes -> BOOLEAN] /\ \A d \in Cubes : d # c => moved'[d] = moved[d]
  BY <1>1 DEF Types
<1>8. Types'
  BY <1>1, <1>2, <1>6, <1>7 DEF Types, userVars, history
<1>9. Arm' = Arm
  BY <1>1 DEF Arm, userVars
<1> QED BY <1>1, <1>3, <1>6, <1>7, <1>8, <1>9 DEF Gone

\* Where a task of the handshake is when it goes on.
LEMMA GotoIs ==
  ASSUME Types, NEW c \in Cubes, NEW t \in LinkTasks, NEW l \in Linkers, Goto(c, t, l)
  PROVE  /\ linker' \in [Cubes -> [LinkTasks -> Linkers]]
         /\ \A d \in Cubes : d # c => linker'[d] = linker[d]
  BY DEF Goto, Types

LEMMA LinkerIs ==
  ASSUME Types, NEW c \in Cubes, NEW t \in LinkTasks, NEW l, l = linker[c][t]
  PROVE  l \in Linkers /\ l.side \in Sides /\ l.held \in Cubes \cup {None}
<1>1. l \in Linkers
  BY DEF Types
<1> QED BY <1>1 DEF Linkers

LEMMA PlacesAre ==
  /\ NoLink \in Linkers /\ At("copy") \in Linkers
  /\ \A s \in Sides : [At("flush") EXCEPT !.side = s] \in Linkers
  /\ \A e \in Cubes \cup {None} : /\ [At("test") EXCEPT !.held = e] \in Linkers
                                  /\ [At("post") EXCEPT !.held = e] \in Linkers
  BY DEF At, NoLink, Linkers, Sides

\* A task of the handshake moves no frame in these steps.
Quietly(c, t) == \/ \E s \in Sides : Find(c, t, s) \/ Lose(c, t, s)
                 \/ Adopt(c, t) \/ Copy(c, t) \/ Test(c, t)

LEMMA QuietlyIs ==
  ASSUME Types, Gone, NEW c \in Cubes, NEW t \in LinkTasks, Quietly(c, t)
  PROVE  /\ UNCHANGED <<userVars, frameVars, moved, heard, history, overtaken>> /\ c \in Arm
         /\ troubles' = troubles \/ (troubles < kit.troubles /\ troubles' = troubles + 1)
         /\ id' = id \/ \E s \in Sides, e \in Cubes \cup {None} : id' = With(id, c, s, e)
         /\ \E l \in Linkers : Goto(c, t, l)
<1>1. ASSUME NEW s \in Sides, Find(c, t, s)
      PROVE  /\ UNCHANGED <<userVars, frameVars, moved, heard, history, overtaken>> /\ c \in Arm
             /\ UNCHANGED <<troubles, id>> /\ \E l \in Linkers : Goto(c, t, l)
  <2>1. c \in Arm
    BY <1>1 DEF Find, Idle
  <2>2. [pc |-> "adopt", side |-> s, held |-> Reached(c, s)] \in Linkers
    BY <2>1, ReachedType DEF Linkers
  <2> QED BY <1>1, <2>1, <2>2 DEF Find
<1>2. ASSUME NEW s \in Sides, Lose(c, t, s)
      PROVE  /\ UNCHANGED <<userVars, frameVars, moved, heard, history, overtaken>> /\ c \in Arm
             /\ troubles' = troubles \/ (troubles < kit.troubles /\ troubles' = troubles + 1)
             /\ id' = With(id, c, s, None) /\ \E l \in Linkers : Goto(c, t, l)
  <2>1. (IF s = "down" THEN At("copy") ELSE NoLink) \in Linkers
    BY PlacesAre
  <2> QED BY <1>2, <2>1 DEF Lose, Idle, With
<1>3. ASSUME Adopt(c, t)
      PROVE  /\ UNCHANGED <<userVars, frameVars, moved, heard, history, overtaken, troubles>> /\ c \in Arm
             /\ \E s \in Sides, e \in Cubes \cup {None} : id' = With(id, c, s, e)
             /\ \E l \in Linkers : Goto(c, t, l)
  <2>1. PICK m : m = linker[c][t]
    OBVIOUS
  <2>2. m.side \in Sides /\ m.held \in Cubes \cup {None} /\ c \in Arm
    BY <1>3, <2>1, LinkerIs DEF Adopt, Gone
  <2>3. id' = With(id, c, m.side, m.held) /\ Goto(c, t, [At("flush") EXCEPT !.side = m.side])
    BY <1>3, <2>1 DEF Adopt, With
  <2>4. [At("flush") EXCEPT !.side = m.side] \in Linkers
    BY <2>2, PlacesAre
  <2> QED BY <1>3, <2>2, <2>3, <2>4 DEF Adopt
<1>4. ASSUME Copy(c, t)
      PROVE  /\ UNCHANGED <<userVars, id, frameVars, moved, heard, history, overtaken, troubles>> /\ c \in Arm
             /\ \E l \in Linkers : Goto(c, t, l)
  <2>1. id[c]["down"] \in Cubes \cup {None}
    BY DEF Types, Sides
  <2>2. [At(IF c = Root THEN "post" ELSE "test") EXCEPT !.held = id[c]["down"]] \in Linkers
    BY <2>1, PlacesAre
  <2> QED BY <1>4, <2>2 DEF Copy, Gone
<1>5. ASSUME Test(c, t)
      PROVE  /\ UNCHANGED <<userVars, id, frameVars, moved, heard, history, overtaken, troubles>> /\ c \in Arm
             /\ \E l \in Linkers : Goto(c, t, l)
  <2>1. linker[c][t] \in Linkers
    BY LinkerIs
  <2>2. [linker[c][t] EXCEPT !.pc = "post"] \in Linkers
    BY <2>1 DEF Linkers
  <2>3. (IF id[c]["up"] = None THEN NoLink ELSE [linker[c][t] EXCEPT !.pc = "post"]) \in Linkers
    BY <2>2, PlacesAre
  <2> QED BY <1>5, <2>3 DEF Test, Gone
<1>6. CASE \E s \in Sides : Find(c, t, s)
  BY <1>1, <1>6
<1>7. CASE \E s \in Sides : Lose(c, t, s)
  BY <1>2, <1>7, ConstantsAre
<1> QED BY <1>3, <1>4, <1>5, <1>6, <1>7 DEF Quietly

LEMMA QuietlyTypes ==
  ASSUME Types, Gone, NEW c \in Cubes, NEW t \in LinkTasks, Quietly(c, t)
  PROVE  Types' /\ Gone'
<1>1. /\ UNCHANGED <<userVars, frameVars, moved, heard, history, overtaken>> /\ c \in Arm
      /\ troubles' = troubles \/ (troubles < kit.troubles /\ troubles' = troubles + 1)
      /\ id' = id \/ \E s \in Sides, e \in Cubes \cup {None} : id' = With(id, c, s, e)
      /\ \E l \in Linkers : Goto(c, t, l)
  BY QuietlyIs
<1>2. Commands' = Commands /\ Answers' = Answers
  BY <1>1, SetsKept DEF history
<1>3. id' \in [Cubes -> [Sides -> Cubes \cup {None}]]
  <2>1. ASSUME NEW s \in Sides, NEW e \in Cubes \cup {None}, id' = With(id, c, s, e)
        PROVE  id' \in [Cubes -> [Sides -> Cubes \cup {None}]]
    BY ZenonT(60), <2>1, UpdateIs DEF Types
  <2> QED BY <1>1, <2>1 DEF Types
<1>4. /\ linker' \in [Cubes -> [LinkTasks -> Linkers]]
      /\ \A d \in Cubes : d # c => linker'[d] = linker[d]
  BY <1>1, GotoIs
<1>5. troubles' \in 0 .. kit.troubles
  <2>1. kit.troubles \in Nat /\ troubles \in 0 .. kit.troubles
    BY ConstantsAre DEF Types
  <2> QED BY <1>1, <2>1
<1>6. Types'
  BY <1>1, <1>2, <1>3, <1>4, <1>5 DEF Types, userVars, history, frameVars
<1>7. Arm' = Arm
  BY <1>1 DEF Arm, userVars
<1> QED BY <1>1, <1>4, <1>6, <1>7 DEF Gone, frameVars

\* A frame that moves from a buffer to the queue behind it.
LEMMA MoveIs ==
  ASSUME Types, NEW c \in Cubes, NEW s \in Sides, NEW f, f = Head(pre[c][s]),
         pre[c][s] # <<>>, Len(out[c][s]) < QueueLen,
         pre' = Took(pre, c, s), out' = Put(out, c, s, f)
  PROVE  /\ pre' \in Queues(Commands, Answers) /\ pre'[c][s] = Tail(pre[c][s])
         /\ out' \in Queues(Commands, Answers) /\ out'[c][s] = Append(out[c][s], f)
         /\ \A d \in Cubes, u \in Sides : d # c \/ u # s
               => pre'[d][u] = pre[d][u] /\ out'[d][u] = out[d][u]
         /\ Len(out'[c][s]) <= QueueLen
<1>1. pre \in Queues(Commands, Answers) /\ out \in Queues(Commands, Answers)
  BY DEF Types
<1>2. /\ pre' \in Queues(Commands, Answers) /\ pre'[c][s] = Tail(pre[c][s])
      /\ \A d \in Cubes, u \in Sides : d # c \/ u # s => pre'[d][u] = pre[d][u]
      /\ s = "down" => f \in Commands
      /\ s = "up" => f \in Answers
  BY <1>1, QueueTaken
<1>3. /\ out' \in Queues(Commands, Answers) /\ out'[c][s] = Append(out[c][s], f)
      /\ \A d \in Cubes, u \in Sides : d # c \/ u # s => out'[d][u] = out[d][u]
  BY <1>1, <1>2, QueuePut
<1>4. Len(out'[c][s]) <= QueueLen
  <2>1. PICK T : T = IF s = "down" THEN Commands ELSE Answers
    OBVIOUS
  <2>2. out[c][s] \in Seq(T)
    BY <1>1, <2>1, QueueOf
  <2>3. f \in T
    BY <1>2, <2>1 DEF Sides
  <2>4. Len(Append(out[c][s], f)) = Len(out[c][s]) + 1 /\ Len(out[c][s]) \in Nat
    BY <2>2, <2>3, AppendProperties
  <2>5. Len(out'[c][s]) = Len(out[c][s]) + 1
    BY <1>3, <2>4
  <2>6. QueueLen \in Nat
    BY ConstantsAre
  <2> QED BY <2>4, <2>5, <2>6
<1> QED BY <1>2, <1>3, <1>4

\* The frame that a round of a flush moves.
LEMMA FlushIs ==
  ASSUME Types, Gone, NEW c \in Cubes, NEW t \in LinkTasks, NEW s \in Sides,
         s = linker[c][t].side, Flush(c, t)
  PROVE  /\ c \in Arm
         /\ \/ UNCHANGED <<pre, out>>
            \/ /\ pre[c][s] # <<>> /\ pre' \in Queues(Commands, Answers) /\ pre'[c][s] = Tail(pre[c][s])
               /\ out' \in Queues(Commands, Answers)
               /\ out'[c][s] = Append(out[c][s], Head(pre[c][s]))
               /\ \A d \in Cubes, u \in Sides : d # c \/ u # s
                     => pre'[d][u] = pre[d][u] /\ out'[d][u] = out[d][u]
               /\ Len(out'[c][s]) <= QueueLen
<1>1. c \in Arm
  BY DEF Flush, Gone
<1>2. CASE pre[c][s] = <<>> \/ id[c][s] = None
  BY <1>1, <1>2 DEF Flush
<1>3. CASE ~(pre[c][s] = <<>> \/ id[c][s] = None)
  <2>1. PICK f : f = Head(pre[c][s])
    OBVIOUS
  <2>2. /\ Len(out[c][s]) < QueueLen /\ out' = Put(out, c, s, f) /\ pre' = Took(pre, c, s)
        /\ pre[c][s] # <<>>
    BY <1>3, <2>1 DEF Flush, Put, Took, With
  <2>3. Types /\ c \in Cubes /\ s \in Sides
    OBVIOUS
  <2>4. /\ pre' \in Queues(Commands, Answers) /\ pre'[c][s] = Tail(pre[c][s])
        /\ out' \in Queues(Commands, Answers) /\ out'[c][s] = Append(out[c][s], f)
        /\ \A d \in Cubes, u \in Sides : d # c \/ u # s
              => pre'[d][u] = pre[d][u] /\ out'[d][u] = out[d][u]
        /\ Len(out'[c][s]) <= QueueLen
    BY ZenonT(120), <2>1, <2>2, <2>3, MoveIs
  <2> QED BY <1>1, <2>1, <2>2, <2>4
<1> QED BY <1>2, <1>3

LEMMA FlushTypes ==
  ASSUME Types, Gone, NEW c \in Cubes, NEW t \in LinkTasks, Flush(c, t)
  PROVE  Types' /\ Gone'
<1>1. UNCHANGED <<userVars, id, in, servo_queue, report_queue, moved, heard, history, overtaken, troubles>>
  BY DEF Flush
<1>2. Commands' = Commands /\ Answers' = Answers
  BY <1>1, SetsKept DEF history
<1>3. PICK s \in Sides : s = linker[c][t].side
  BY LinkerIs
<1>4. /\ linker' \in [Cubes -> [LinkTasks -> Linkers]]
      /\ \A d \in Cubes : d # c => linker'[d] = linker[d]
  <2>1. Goto(c, t, At("copy")) \/ linker' = linker
    BY DEF Flush
  <2>2. CASE Goto(c, t, At("copy"))
    BY <2>2, PlacesAre, GotoIs
  <2>3. CASE linker' = linker
    BY <2>3 DEF Types
  <2> QED BY <2>1, <2>2, <2>3
<1>5. \A d \in Cubes, u \in Sides : Len(out'[d][u]) <= QueueLen
  <2>1. \A d \in Cubes, u \in Sides : Len(out[d][u]) <= QueueLen
    BY DEF Types
  <2>2. \/ out' = out
        \/ /\ Len(out'[c][s]) <= QueueLen
           /\ \A d \in Cubes, u \in Sides : d # c \/ u # s => out'[d][u] = out[d][u]
    BY <1>3, FlushIs
  <2> QED BY <2>1, <2>2
<1>6. pre' \in Queues(Commands, Answers) /\ out' \in Queues(Commands, Answers) /\ c \in Arm
  BY <1>3, FlushIs DEF Types
<1>7. Types'
  BY <1>1, <1>2, <1>4, <1>5, <1>6 DEF Types, userVars, history
<1>8. Arm' = Arm
  BY <1>1 DEF Arm, userVars
<1>9. \A d \in Cubes \ Arm, u \in Sides : pre'[d][u] = pre[d][u] /\ out'[d][u] = out[d][u]
  BY <1>3, FlushIs
<1> QED BY <1>1, <1>4, <1>6, <1>7, <1>8, <1>9 DEF Gone

LEMMA PostIs ==
  ASSUME Types, Gone, NEW c \in Cubes, NEW t \in LinkTasks, Post(c, t)
  PROVE  /\ c \in Arm
         /\ pre' \in Queues(Commands, Answers) /\ out' \in Queues(Commands, Answers)
         /\ \A d \in Cubes, s \in Sides : Len(out'[d][s]) <= QueueLen
         /\ overtaken' \subseteq Cubes /\ overtaken \subseteq overtaken'
         /\ \A d \in Cubes : pre'[d]["down"] = pre[d]["down"] /\ out'[d]["down"] = out[d]["down"]
         /\ \A d \in Cubes \ Arm, s \in Sides : pre'[d][s] = pre[d][s] /\ out'[d][s] = out[d][s]
         /\ heard' \in [Cubes -> Cubes \cup {None}]
<1>1. PICK x \in Cubes \cup {None} : x = linker[c][t].held
  BY LinkerIs
<1>2. Root \in Cubes /\ c \in Arm
  BY ConstantsAre DEF Post, Gone
<1>3. CASE c = Root
  <2>1. heard' = [heard EXCEPT ![Root] = x] /\ UNCHANGED <<pre, out, overtaken>>
    BY <1>1, <1>3 DEF Post
  <2> QED BY <1>2, <2>1 DEF Types
<1>4. CASE c # Root
  <2>1. PICK f : f = Frame("report", c, Root, 0, x)
    OBVIOUS
  <2>2. Send(c, "up", f) /\ UNCHANGED heard
    BY <1>1, <1>4, <2>1 DEF Post
  <2>3. f \in Answers /\ f.to \in Cubes
    BY <1>2, <2>1 DEF Answers, Frame
  <2> QED BY <1>2, <2>2, <2>3, AnswerSent DEF Types
<1> QED BY <1>3, <1>4

LEMMA PostTypes ==
  ASSUME Types, Gone, NEW c \in Cubes, NEW t \in LinkTasks, Post(c, t)
  PROVE  Types' /\ Gone'
<1>1. /\ UNCHANGED <<userVars, id, in, servo_queue, report_queue, moved, sent, obeyed, lost, troubles>>
      /\ Goto(c, t, NoLink)
      /\ raced' = raced \/ raced' = raced \cup {c}
  BY DEF Post
<1>2. Commands' = Commands /\ Answers' = Answers
  BY <1>1, SetsKept
<1>3. /\ linker' \in [Cubes -> [LinkTasks -> Linkers]]
      /\ \A d \in Cubes : d # c => linker'[d] = linker[d]
  BY <1>1, PlacesAre, GotoIs
<1>4. Types'
  BY <1>1, <1>2, <1>3, PostIs DEF Types, userVars
<1>5. Arm' = Arm
  BY <1>1 DEF Arm, userVars
<1>6. \A d \in Cubes \ Arm, s \in Sides : pre'[d][s] = pre[d][s] /\ out'[d][s] = out[d][s]
  BY PostIs
<1>7. c \in Arm
  BY PostIs
<1> QED BY <1>1, <1>3, <1>4, <1>5, <1>6, <1>7 DEF Gone

LEMMA HandleReportTypes ==
  ASSUME Types, Gone, HandleReport
  PROVE  Types' /\ Gone'
<1>1. /\ UNCHANGED <<userVars, id, pre, out, in, servo_queue, linker, moved, history, overtaken, troubles>>
      /\ report_queue # <<>> /\ report_queue' = Tail(report_queue)
      /\ heard' = [heard EXCEPT ![Head(report_queue).from] = Head(report_queue).slave]
  BY DEF HandleReport
<1>2. Commands' = Commands /\ Answers' = Answers
  BY <1>1, SetsKept DEF history
<1>3. PICK f \in Answers : f = Head(report_queue)
  BY <1>1, HeadTailProperties DEF Types
<1>4. report_queue' \in Seq(Answers) /\ Len(report_queue') <= QueueLen
  <2>1. report_queue \in Seq(Answers) /\ Len(report_queue) <= QueueLen
    BY DEF Types
  <2>2. report_queue' \in Seq(Answers) /\ Len(report_queue') = Len(report_queue) - 1
    BY <1>1, <2>1, HeadTailProperties
  <2>3. Len(report_queue) \in Nat
    BY <2>1
  <2> QED BY <2>1, <2>2, <2>3, ConstantsAre
<1>5. heard' \in [Cubes -> Cubes \cup {None}]
  BY <1>1, <1>3, AnswerIs DEF Types
<1>6. Types'
  BY <1>1, <1>2, <1>4, <1>5 DEF Types, userVars, history
<1>7. Arm' = Arm
  BY <1>1 DEF Arm, userVars
<1> QED BY <1>1, <1>6, <1>7 DEF Gone

Emptied(v, g) == [d \in Cubes |-> IF d \in g THEN Both(<<>>) ELSE v[d]]

LEMMA EmptiedIs ==
  ASSUME NEW K, NEW L, NEW v \in Queues(K, L), NEW g, NEW w, w = Emptied(v, g)
  PROVE  /\ w \in Queues(K, L)
         /\ \A d \in Cubes, s \in Sides : /\ d \in g => w[d][s] = <<>>
                                          /\ d \notin g => w[d][s] = v[d][s]
<1>1. /\ v \in [Cubes -> [Sides -> Seq(K \cup L)]]
      /\ \A d \in Cubes : v[d]["down"] \in Seq(K) /\ v[d]["up"] \in Seq(L)
  BY DEF Queues
<1>2. Both(<<>>) \in [Sides -> Seq(K \cup L)] /\ \A s \in Sides : Both(<<>>)[s] = <<>>
  BY DEF Both
<1>3. \A d \in Cubes : /\ d \in g => w[d] = Both(<<>>)
                       /\ d \notin g => w[d] = v[d]
  BY DEF Emptied
<1>4. w \in [Cubes -> [Sides -> Seq(K \cup L)]]
  BY <1>1, <1>2 DEF Emptied
<1>5. <<>> \in Seq(K) /\ <<>> \in Seq(L) /\ "up" \in Sides /\ "down" \in Sides
  BY DEF Sides
<1>6. \A d \in Cubes : w[d]["down"] \in Seq(K) /\ w[d]["up"] \in Seq(L)
  BY <1>1, <1>2, <1>3, <1>5
<1>7. w \in Queues(K, L)
  BY <1>4, <1>6 DEF Queues
<1> QED BY <1>2, <1>3, <1>7

\* The arm that is left, and what becomes of the queues.
LEMMA DetachIs ==
  ASSUME Types, Gone, NEW c \in Cubes, Detach(c)
  PROVE  /\ c \in Arm /\ Len(arm') = Place(c) /\ arm' \in Seq(kit.cubes) /\ DOMAIN arm' = 1 .. Place(c)
         /\ \A i \in 1 .. Place(c) : arm'[i] = arm[i]
         /\ Arm' \subseteq Arm /\ \A d \in Arm' : Place(d)' = Place(d)
         /\ pre' \in Queues(Commands, Answers) /\ out' \in Queues(Commands, Answers)
         /\ in' \in Queues(Answers, Commands) /\ servo_queue' \in [Cubes -> Seq(Commands)]
         /\ \A d \in Arm' : /\ \A s \in Sides : /\ pre'[d][s] = pre[d][s] /\ out'[d][s] = out[d][s]
                                                /\ in'[d][s] = in[d][s]
                            /\ servo_queue'[d] = servo_queue[d]
         /\ \A d \in Cubes \ Arm' : /\ \A s \in Sides : /\ pre'[d][s] = <<>> /\ out'[d][s] = <<>>
                                                        /\ in'[d][s] = <<>>
                                    /\ servo_queue'[d] = <<>>
<1>1. /\ c \in Arm /\ Place(c) < Len(arm) /\ arm' = SubSeq(arm, 1, Place(c))
      /\ Place(c) \in 1 .. Len(arm) /\ Len(arm) \in Nat /\ arm \in Seq(kit.cubes)
      /\ DOMAIN arm = 1 .. Len(arm)
  BY ArmIs DEF Detach, Types
<1>2. PICK n \in 1 .. Len(arm) : n = Place(c)
  BY <1>1
<1>3. /\ arm' \in Seq(kit.cubes) /\ Len(arm') = n
      /\ \A i \in 1 .. n : arm'[i] = arm[i]
  <2>1. PICK t : t = SubSeq(arm, 1, n)
    OBVIOUS
  <2>2. 1 \in Int /\ n \in Int /\ 1 <= 1 /\ n <= Len(arm) /\ 1 <= n
    BY <1>1
  <2>3. t = [i \in 1 .. n |-> arm[i]]
    BY <1>1, <2>1
  <2>4. t \in Seq(kit.cubes) /\ Len(t) = n /\ \A i \in 1 .. n : t[i] = arm[i]
    <3>1. \A i \in 1 .. n : arm[i] \in kit.cubes
      BY <1>1
    <3> QED BY <1>1, <2>3, <3>1
  <2> QED BY <1>1, <1>2, <2>1, <2>4
<1>4. DOMAIN arm' = 1 .. n
  BY <1>3
<1>5. Arm' = {arm[i] : i \in 1 .. n}
  BY <1>3, <1>4 DEF Arm, Range
<1>6. \A d \in Arm' : d \in Arm /\ Place(d) \in 1 .. n /\ arm[Place(d)] = d
  BY <1>1, <1>5, ArmIs
<1>7. ASSUME NEW d \in Arm' PROVE Place(d)' = Place(d)
  <2>1. Place(d)' \in 1 .. n /\ arm'[Place(d)'] = d
    <3>1. \E i \in 1 .. n : arm'[i] = d
      BY <1>3, <1>5
    <3>2. Place(d)' = CHOOSE i \in 1 .. n : arm'[i] = d
      BY <1>4 DEF Place
    <3> QED BY <3>1, <3>2
  <2>2. PICK i \in 1 .. Len(arm) : i = Place(d)' /\ arm[i] = d
    BY <1>1, <1>3, <2>1
  <2> QED BY <2>2, ArmIs
<1>8. PICK g : g = Arm \ Arm'
  OBVIOUS
<1>9. /\ pre' = Emptied(pre, g) /\ out' = Emptied(out, g) /\ in' = Emptied(in, g)
      /\ servo_queue' = [d \in Cubes |-> IF d \in g THEN <<>> ELSE servo_queue[d]]
  BY <1>8 DEF Detach, Arm, Emptied
<1>10. /\ pre \in Queues(Commands, Answers) /\ out \in Queues(Commands, Answers)
       /\ in \in Queues(Answers, Commands) /\ servo_queue \in [Cubes -> Seq(Commands)]
  BY DEF Types
<1>11. /\ pre' \in Queues(Commands, Answers)
       /\ \A d \in Cubes, s \in Sides : /\ d \in g => pre'[d][s] = <<>>
                                        /\ d \notin g => pre'[d][s] = pre[d][s]
  BY <1>9, <1>10, EmptiedIs
<1>12. /\ out' \in Queues(Commands, Answers)
       /\ \A d \in Cubes, s \in Sides : /\ d \in g => out'[d][s] = <<>>
                                        /\ d \notin g => out'[d][s] = out[d][s]
  BY <1>9, <1>10, EmptiedIs
<1>13. /\ in' \in Queues(Answers, Commands)
       /\ \A d \in Cubes, s \in Sides : /\ d \in g => in'[d][s] = <<>>
                                        /\ d \notin g => in'[d][s] = in[d][s]
  BY <1>9, <1>10, EmptiedIs
<1>14. /\ servo_queue' \in [Cubes -> Seq(Commands)]
       /\ \A d \in Cubes : /\ d \in g => servo_queue'[d] = <<>>
                           /\ d \notin g => servo_queue'[d] = servo_queue[d]
  <2>1. <<>> \in Seq(Commands)
    OBVIOUS
  <2> QED BY <1>9, <1>10, <2>1
<1>15. Arm \subseteq Cubes
  BY ArmIs
<1>16. ASSUME NEW d \in Arm'
       PROVE  /\ \A s \in Sides : /\ pre'[d][s] = pre[d][s] /\ out'[d][s] = out[d][s]
                                  /\ in'[d][s] = in[d][s]
              /\ servo_queue'[d] = servo_queue[d]
  BY <1>6, <1>8, <1>11, <1>12, <1>13, <1>14, <1>15
<1>17. ASSUME NEW d \in Cubes \ Arm'
       PROVE  /\ \A s \in Sides : /\ pre'[d][s] = <<>> /\ out'[d][s] = <<>> /\ in'[d][s] = <<>>
              /\ servo_queue'[d] = <<>>
  <2>1. CASE d \in Arm
    BY <1>8, <1>11, <1>12, <1>13, <1>14, <2>1
  <2>2. CASE d \notin Arm
    <3>1. /\ \A s \in Sides : pre[d][s] = <<>> /\ out[d][s] = <<>> /\ in[d][s] = <<>>
          /\ servo_queue[d] = <<>>
      BY <2>2 DEF Gone
    <3> QED BY <1>8, <1>11, <1>12, <1>13, <1>14, <2>2, <3>1
  <2> QED BY <2>1, <2>2
<1> QED BY <1>1, <1>2, <1>3, <1>4, <1>6, <1>7, <1>11, <1>12, <1>13, <1>14, <1>16, <1>17

LEMMA DetachTypes ==
  ASSUME Types, Gone, NEW c \in Cubes, Detach(c)
  PROVE  Types' /\ Gone'
<1>1. /\ UNCHANGED <<kit, report_queue, heard, sent, obeyed, raced, overtaken>>
      /\ troubles < kit.troubles /\ troubles' = troubles + 1
  BY DEF Detach
<1>2. Commands' = Commands /\ Answers' = Answers
  BY <1>1, SetsKept
<1>3. PICK g : g = Arm \ Arm'
  OBVIOUS
<1>4. /\ id' = [d \in Cubes |-> IF d \in g THEN Both(None) ELSE id[d]]
      /\ linker' = [d \in Cubes |-> IF d \in g THEN [t \in LinkTasks |-> NoLink] ELSE linker[d]]
      /\ moved' = [d \in Cubes |-> IF d \in g THEN FALSE ELSE moved[d]]
      /\ lost' = lost \cup {n \in DOMAIN sent : \E d \in g : Keeps(d, n)}
  BY <1>3 DEF Detach, Arm
<1>6. id' \in [Cubes -> [Sides -> Cubes \cup {None}]]
  <2>1. Both(None) \in [Sides -> Cubes \cup {None}]
    BY DEF Both
  <2> QED BY <1>4, <2>1 DEF Types
<1>7. linker' \in [Cubes -> [LinkTasks -> Linkers]]
  <2>1. [t \in LinkTasks |-> NoLink] \in [LinkTasks -> Linkers]
    BY PlacesAre
  <2> QED BY <1>4, <2>1 DEF Types
<1>8. moved' \in [Cubes -> BOOLEAN]
  BY <1>4 DEF Types
<1>9. \A d \in Cubes \ Arm' : (\A t \in LinkTasks : linker'[d][t].pc = "idle") /\ ~moved'[d]
  <2>1. ASSUME NEW d \in Cubes, d \in g PROVE (\A t \in LinkTasks : linker'[d][t].pc = "idle") /\ ~moved'[d]
    <3>1. \A t \in LinkTasks : linker'[d][t] = NoLink
      BY <1>4, <2>1
    <3>2. moved'[d] = FALSE
      BY <1>4, <2>1
    <3> QED BY <3>1, <3>2 DEF NoLink
  <2>2. ASSUME NEW d \in Cubes, d \notin g, d \notin Arm
        PROVE  (\A t \in LinkTasks : linker'[d][t].pc = "idle") /\ ~moved'[d]
    <3>1. linker'[d] = linker[d] /\ moved'[d] = moved[d]
      BY <1>4, <2>2
    <3> QED BY <2>2, <3>1 DEF Gone
  <2> QED BY <1>3, <2>1, <2>2
<1>10. lost' \subseteq 1 .. Len(sent)
  <2>1. DOMAIN sent = 1 .. Len(sent) /\ lost \subseteq 1 .. Len(sent)
    BY DEF Types
  <2>2. lost' \subseteq lost \cup DOMAIN sent
    BY <1>4
  <2> QED BY <2>1, <2>2
<1>11. arm' \in Seq(kit.cubes) /\ arm' # <<>> /\ IsInjective(arm') /\ arm'[1] = Root
  <2>1. /\ arm' \in Seq(kit.cubes) /\ Len(arm') = Place(c) /\ DOMAIN arm' = 1 .. Place(c)
        /\ \A i \in 1 .. Place(c) : arm'[i] = arm[i]
    BY DetachIs
  <2>2. PICK n \in 1 .. Len(arm) : n = Place(c)
    BY DetachIs, ArmIs
  <2>3. Len(arm) \in Nat /\ DOMAIN arm = 1 .. Len(arm)
    BY ArmIs
  <2>4. arm'[1] = Root /\ arm' # <<>>
    <3>1. 1 \in 1 .. n /\ n # 0
      BY <2>3
    <3>2. arm[1] = Root
      BY DEF Types
    <3>3. Len(<<>>) = 0
      OBVIOUS
    <3> QED BY <2>1, <2>2, <3>1, <3>2, <3>3
  <2>5. \A i, j \in DOMAIN arm : arm[i] = arm[j] => i = j
    BY DEF Types, IsInjective
  <2>6. ASSUME NEW i \in DOMAIN arm', NEW j \in DOMAIN arm', arm'[i] = arm'[j] PROVE i = j
    <3>1. i \in DOMAIN arm /\ j \in DOMAIN arm /\ arm'[i] = arm[i] /\ arm'[j] = arm[j]
      BY <2>1, <2>2, <2>3
    <3> QED BY <2>5, <2>6, <3>1
  <2> QED BY <2>1, <2>4, <2>6 DEF IsInjective
<1>12. /\ \A d \in Cubes, s \in Sides : Len(out'[d][s]) <= QueueLen
       /\ \A d \in Cubes : servo_queue'[d] \in Seq(For(Commands, d)) /\ Len(servo_queue'[d]) <= QueueLen
  <2>1. /\ \A d \in Cubes, s \in Sides : out'[d][s] = out[d][s] \/ out'[d][s] = <<>>
        /\ \A d \in Cubes : servo_queue'[d] = servo_queue[d] \/ servo_queue'[d] = <<>>
    BY DetachIs
  <2>2. Len(<<>>) <= QueueLen
    BY ConstantsAre
  <2>3. \A d \in Cubes : <<>> \in Seq(For(Commands, d))
    OBVIOUS
  <2>4. /\ \A d \in Cubes, s \in Sides : Len(out[d][s]) <= QueueLen
        /\ \A d \in Cubes : servo_queue[d] \in Seq(For(Commands, d)) /\ Len(servo_queue[d]) <= QueueLen
    BY DEF Types
  <2> QED BY <2>1, <2>2, <2>3, <2>4
<1>13. troubles' \in 0 .. kit.troubles
  <2>1. kit.troubles \in Nat /\ troubles \in 0 .. kit.troubles
    BY ConstantsAre DEF Types
  <2> QED BY <1>1, <2>1
<1>14. Types'
  BY <1>1, <1>2, <1>6, <1>7, <1>8, <1>10, <1>11, <1>12, <1>13, DetachIs DEF Types
<1>15. in'[Root]["up"] = <<>>
  <2>1. in'[Root]["up"] = in[Root]["up"] \/ in'[Root]["up"] = <<>>
    BY DetachIs, ConstantsAre DEF Sides
  <2> QED BY <2>1 DEF Gone
<1> QED BY <1>9, <1>14, <1>15, DetachIs DEF Gone

LEMMA AttachIs ==
  ASSUME Types, NEW c \in Cubes, Attach(c)
  PROVE  /\ c \notin Arm /\ c \in kit.cubes /\ arm' \in Seq(kit.cubes) /\ Len(arm') = Len(arm) + 1
         /\ DOMAIN arm' = 1 .. Len(arm) + 1
         /\ arm'[Len(arm) + 1] = c /\ \A i \in 1 .. Len(arm) : arm'[i] = arm[i]
         /\ Arm' = Arm \cup {c} /\ Place(c)' = Len(arm) + 1 /\ \A d \in Arm : Place(d)' = Place(d)
<1>1. /\ c \notin Arm /\ c \in kit.cubes /\ arm' = Append(arm, c) /\ arm \in Seq(kit.cubes)
      /\ Len(arm) \in Nat /\ DOMAIN arm = 1 .. Len(arm)
  BY ArmIs DEF Attach, Types
<1>2. /\ arm' \in Seq(kit.cubes) /\ Len(arm') = Len(arm) + 1
      /\ arm'[Len(arm) + 1] = c /\ \A i \in 1 .. Len(arm) : arm'[i] = arm[i]
  BY <1>1, AppendProperties
<1>3. DOMAIN arm' = 1 .. Len(arm) + 1
  BY <1>2
<1>4. \A i \in 1 .. Len(arm) + 1 : i \in 1 .. Len(arm) \/ i = Len(arm) + 1
  BY <1>1
<1>5. 1 .. Len(arm) \subseteq 1 .. Len(arm) + 1 /\ Len(arm) + 1 \in 1 .. Len(arm) + 1
      /\ Len(arm) + 1 \notin 1 .. Len(arm)
  BY <1>1
<1>6. Arm' = Arm \cup {c}
  <2>1. Arm' = {arm'[i] : i \in 1 .. Len(arm) + 1} /\ Arm = {arm[i] : i \in 1 .. Len(arm)}
    BY <1>1, <1>3 DEF Arm, Range
  <2> QED BY <1>2, <1>4, <1>5, <2>1
<1>7. \A d : Place(d)' = CHOOSE i \in 1 .. Len(arm) + 1 : arm'[i] = d
  BY <1>3 DEF Place
<1>8. ASSUME NEW d, \E i \in 1 .. Len(arm) + 1 : arm'[i] = d
      PROVE  Place(d)' \in 1 .. Len(arm) + 1 /\ arm'[Place(d)'] = d
  BY <1>7, <1>8
<1>9. Place(c)' = Len(arm) + 1
  <2>1. Place(c)' \in 1 .. Len(arm) + 1 /\ arm'[Place(c)'] = c
    BY <1>2, <1>5, <1>8
  <2>2. \A i \in 1 .. Len(arm) : arm'[i] # c
    BY <1>1, <1>2, ArmIs
  <2> QED BY <1>4, <2>1, <2>2
<1>10. ASSUME NEW d \in Arm PROVE Place(d)' = Place(d)
  <2>1. Place(d) \in 1 .. Len(arm) /\ arm'[Place(d)] = d
    BY <1>2, ArmIs
  <2>2. Place(d)' \in 1 .. Len(arm) + 1 /\ arm'[Place(d)'] = d
    BY <1>5, <1>8, <2>1
  <2>3. d # c
    BY <1>1
  <2>4. Place(d)' \in 1 .. Len(arm) /\ arm[Place(d)'] = d
    BY <1>2, <1>4, <2>2, <2>3
  <2>5. PICK i \in 1 .. Len(arm) : i = Place(d)' /\ arm[i] = d
    BY <2>4
  <2> QED BY <2>5, ArmIs
<1> QED BY <1>1, <1>2, <1>3, <1>6, <1>9, <1>10

LEMMA AttachTypes ==
  ASSUME Types, Gone, NEW c \in Cubes, Attach(c)
  PROVE  Types' /\ Gone'
<1>1. /\ UNCHANGED <<kit, id, frameVars, linker, moved, heard, history, overtaken>>
      /\ troubles < kit.troubles /\ troubles' = troubles + 1
  BY DEF Attach
<1>2. Commands' = Commands /\ Answers' = Answers
  BY <1>1, SetsKept DEF history
<1>3. arm' # <<>> /\ IsInjective(arm') /\ arm'[1] = Root
  <2>1. /\ c \notin Arm /\ Len(arm') = Len(arm) + 1 /\ DOMAIN arm' = 1 .. Len(arm) + 1
        /\ arm'[Len(arm) + 1] = c /\ \A i \in 1 .. Len(arm) : arm'[i] = arm[i]
    BY AttachIs
  <2>2. /\ Len(arm) \in Nat \ {0} /\ \A i \in 1 .. Len(arm) : arm[i] \in Arm
        /\ DOMAIN arm = 1 .. Len(arm)
    BY ArmIs
  <2>3. \A i \in 1 .. Len(arm) + 1 : i \in 1 .. Len(arm) \/ i = Len(arm) + 1
    BY <2>2
  <2>4. arm'[1] = Root /\ arm' # <<>>
    <3>1. 1 \in 1 .. Len(arm) /\ arm[1] = Root /\ Len(arm') # 0
      BY <2>1, <2>2 DEF Types
    <3> QED BY <2>1, <3>1
  <2>5. \A i, j \in DOMAIN arm : arm[i] = arm[j] => i = j
    BY DEF Types, IsInjective
  <2>6. \A i, j \in 1 .. Len(arm) + 1 : arm'[i] = arm'[j] => i = j
    BY <2>1, <2>2, <2>3, <2>5
  <2> QED BY <2>1, <2>4, <2>6 DEF IsInjective
<1>4. troubles' \in 0 .. kit.troubles
  BY <1>1, ConstantsAre DEF Types
<1>5. Types'
  BY <1>1, <1>2, <1>3, <1>4, AttachIs DEF Types, frameVars, history
<1>6. Arm' = Arm \cup {c}
  BY AttachIs
<1> QED BY <1>1, <1>5, <1>6 DEF Gone, frameVars

LEMMA InitTypes == Init => Types /\ Gone /\ \A c \in Cubes : InLine(c)
<1> SUFFICES ASSUME Init PROVE Types /\ Gone /\ \A c \in Cubes : InLine(c)
  OBVIOUS
<1>1. /\ kit \in Kits /\ arm \in Seq(kit.cubes) /\ arm # <<>> /\ IsInjective(arm) /\ arm[1] = Root
      /\ kit.cubes \subseteq Cubes /\ kit.commands \in Nat /\ kit.troubles \in Nat
  BY ConstantsAre DEF Init
<1>2. Both(<<>>) \in [Sides -> {<<>>}] /\ \A s \in Sides : Both(<<>>)[s] = <<>>
  BY DEF Both
<1>3. \A K : <<>> \in Seq(K)
  OBVIOUS
<1>4. ASSUME NEW K, NEW L, NEW v, v = [c \in Cubes |-> Both(<<>>)] PROVE v \in Queues(K, L)
  <2>1. v \in [Cubes -> [Sides -> Seq(K \cup L)]]
    BY <1>2, <1>3, <1>4
  <2>2. \A c \in Cubes : v[c]["down"] = <<>> /\ v[c]["up"] = <<>>
    BY <1>2, <1>4 DEF Sides
  <2> QED BY <1>3, <2>1, <2>2 DEF Queues
<1>5. /\ pre \in Queues(Commands, Answers) /\ out \in Queues(Commands, Answers)
      /\ in \in Queues(Answers, Commands)
  BY <1>4 DEF Init
<1>6. \A c \in Cubes, s \in Sides : pre[c][s] = <<>> /\ out[c][s] = <<>> /\ in[c][s] = <<>>
  BY <1>2 DEF Init
<1>7. /\ servo_queue \in [Cubes -> Seq(Commands)]
      /\ \A c \in Cubes : servo_queue[c] = <<>> /\ servo_queue[c] \in Seq(For(Commands, c))
  BY <1>3 DEF Init
<1>8. /\ Len(sent) = 0 /\ sent \in Seq(Cubes)
  BY <1>3 DEF Init
<1>9. obeyed \in [Cubes -> 0 .. Len(sent)] /\ moved \in [Cubes -> BOOLEAN] /\ lost \subseteq 1 .. Len(sent)
      /\ overtaken \subseteq Cubes /\ raced \subseteq Cubes /\ troubles \in 0 .. kit.troubles
      /\ report_queue = <<>> /\ report_queue \in Seq(Answers) /\ Len(report_queue) = 0
  BY <1>1, <1>3, <1>8 DEF Init
<1>10. id \in [Cubes -> [Sides -> Cubes \cup {None}]]
  <2>1. \A i \in DOMAIN arm : arm[i] \in Cubes
    BY <1>1
  <2>2. \A i : (IF i \in DOMAIN arm THEN arm[i] ELSE None) \in Cubes \cup {None}
    BY <2>1
  <2>3. id = Known(arm)
    BY DEF Init
  <2> QED BY <2>2, <2>3 DEF Known, Both, Sides
<1>11. heard \in [Cubes -> Cubes \cup {None}]
  BY <1>10 DEF Init, Sides
<1>12. linker \in [Cubes -> [LinkTasks -> Linkers]]
       /\ \A c \in Cubes : (\A t \in LinkTasks : linker[c][t].pc = "idle") /\ ~moved[c]
  <2>1. NoLink.pc = "idle"
    BY DEF NoLink
  <2> QED BY <2>1, PlacesAre DEF Init
<1>13. Types
  BY <1>1, <1>5, <1>6, <1>7, <1>8, <1>9, <1>10, <1>11, <1>12, ConstantsAre DEF Types
<1>14. Gone
  BY <1>6, <1>7, <1>12, ConstantsAre DEF Gone, Sides
<1>15. ASSUME NEW c \in Cubes PROVE InLine(c)
  <2>1. \A x \in Spots : Held(c)[x] = <<>>
    <3>1. Held(c)[End] = <<>>
      BY <1>7, <1>13, HeldIs
    <3>2. \A d \in Arm : in[d]["up"] = <<>> /\ pre[d]["down"] = <<>> /\ out[d]["down"] = <<>>
      BY <1>6, <1>13, ArmIs DEF Sides
    <3>3. ASSUME NEW d \in Arm, NEW q \in {0, 1, 2} PROVE Held(c)[<<d, q>>] = <<>>
      <4>1. /\ Held(c)[<<d, 0>>] = <<>> /\ Held(c)[<<d, 1>>] = <<>>
            /\ Held(c)[<<d, 2>>] = <<>>
        BY <1>13, <3>2, HeldIs
      <4> QED BY <4>1
    <3>4. ASSUME NEW x \in Spots PROVE Held(c)[x] = <<>>
      <4>1. CASE x = End
        BY <3>1, <4>1
      <4>2. ASSUME NEW d \in Arm, NEW q \in {0, 1, 2}, x = <<d, q>> PROVE Held(c)[x] = <<>>
        BY <3>3, <4>2
      <4> QED BY <4>1, <4>2, SpotsAre
    <3> QED BY <3>4
  <2>2. \A x \in Spots : Nos(Held(c)[x], c) = {} /\ Rising(Held(c)[x], c)
    BY <2>1, NosEmpty
  <2>3. DOMAIN Held(c) = Spots
    BY <1>13, HeldIs
  <2> QED BY <2>2, <2>3 DEF InLine, Ordered, NonePast, Fresh
<1> QED BY <1>13, <1>14, <1>15

LEMMA TypesKept ==
  ASSUME Types, Gone, [Next]_vars
  PROVE  Types' /\ Gone'
<1>1. CASE UNCHANGED vars
  <2>1. UNCHANGED <<userVars, id, frameVars, linker, moved, heard, history, overtaken, troubles>>
    BY <1>1 DEF vars
  <2>2. UNCHANGED <<kit, arm, id, pre, out, in, servo_queue, report_queue, linker, moved, heard, sent, obeyed,
                    lost, raced, overtaken, troubles>>
    BY <2>1 DEF userVars, frameVars, history
  <2>3. Commands' = Commands /\ Answers' = Answers
    BY <2>2, SetsKept
  <2>4. Types'
    BY <2>2, <2>3 DEF Types
  <2>5. Arm' = Arm
    BY <2>2 DEF Arm
  <2> QED BY <2>2, <2>4, <2>5 DEF Gone
<1>2. ASSUME NEW c \in Cubes, NEW s \in Sides, Wire(c, s) PROVE Types' /\ Gone'
  BY <1>2, TransmitTypes, ReceiveTypes DEF Wire
<1>3. ASSUME NEW c \in Cubes, NEW t \in LinkTasks, Link(c, t) PROVE Types' /\ Gone'
  BY <1>3, QuietlyTypes, FlushTypes, PostTypes DEF Link, Quietly
<1>4. ASSUME NEW c \in Cubes, Servo(c) PROVE Types' /\ Gone'
  BY <1>4, ExecuteTypes, SendAckTypes DEF Servo
<1>5. ASSUME NEW c \in Cubes, SendCommand(c) \/ Detach(c) \/ Attach(c) PROVE Types' /\ Gone'
  BY <1>5, SendCommandTypes, DetachTypes, AttachTypes
<1> QED BY <1>1, <1>2, <1>3, <1>4, <1>5, HandleReportTypes DEF Next, System, User
-----------------------------------------------------------------------------
(* The commands for one cube stay in line *)

LineIsRight ==
    /\ End \in Spots /\ Rank[End] = 3 * Len(arm) + 3
    /\ \A d \in Arm, q \in {0, 1, 2} : /\ <<d, q>> \in Spots /\ <<d, q>> # End
                                       /\ Rank[<<d, q>>] = 3 * Place(d) + q
                                       /\ Rank[<<d, q>>] < Rank[End]
    /\ Rank \in [Spots -> Nat]
    /\ \A x, y \in Spots : Rank[x] = Rank[y] => x = y
    /\ \A x \in Spots : x = End \/ \E d \in Arm, q \in {0, 1, 2} : x = <<d, q>>
    /\ \A c \in Cubes :
          /\ Held(c)[End] = servo_queue[c] /\ Held(c) \in [Spots -> Seq(Commands)]
          /\ DOMAIN Held(c) = Spots
          /\ \A d \in Arm : /\ Held(c)[<<d, 0>>] = in[d]["up"]
                            /\ Held(c)[<<d, 1>>] = pre[d]["down"]
                            /\ Held(c)[<<d, 2>>] = out[d]["down"]

LEMMA LineIs == Types => LineIsRight
<1> SUFFICES ASSUME Types PROVE LineIsRight
  OBVIOUS
<1>1. \A x \in Spots : x = End \/ \E d \in Arm, q \in {0, 1, 2} : x = <<d, q>>
  BY SpotsAre
<1> QED BY <1>1, RankIs, HeldIs DEF LineIsRight

LEMMA LineWillBe == Types' => LineIsRight'
  BY LineIs, PTL

LEMMA InLineNext ==
  ASSUME NEW c, NEW Q, NEW rank, Q = Held(c)', rank = Rank',
         Ordered(Q, rank, c), NonePast(Q, rank, c),
         \A x \in DOMAIN Q : \A b \in Nos(Q[x], c) : obeyed'[c] < b
  PROVE  InLine(c)'
<1>1. Ordered(Held(c), Rank, c)'
  BY DEF Ordered, Rising, Nos
<1>2. NonePast(Held(c), Rank, c)'
  BY DEF NonePast, Nos
<1>3. Fresh(Held(c), c)'
  BY DEF Fresh, Nos
<1> QED BY <1>1, <1>2, <1>3 DEF InLine

LEMMA SameArm == ASSUME Types, UNCHANGED arm
                 PROVE  Arm' = Arm /\ Spots' = Spots /\ Rank' = Rank
<1>1. Arm' = Arm
  BY DEF Arm
<1>2. Spots' = Spots
  BY <1>1 DEF Spots
<1>3. \A d : Place(d)' = Place(d)
  BY DEF Place
<1> QED BY <1>1, <1>2, <1>3 DEF Rank

\* The queues of c before and after a step that leaves the arm alone.
LEMMA HeldNext ==
  ASSUME Types, Types', UNCHANGED arm, NEW c \in Cubes, NEW Q, Q = Held(c)'
  PROVE  /\ Q[End] = servo_queue'[c] /\ Q \in [Spots -> Seq(Commands')] /\ DOMAIN Q = Spots
         /\ \A d \in Arm : /\ Q[<<d, 0>>] = in'[d]["up"]
                           /\ Q[<<d, 1>>] = pre'[d]["down"]
                           /\ Q[<<d, 2>>] = out'[d]["down"]
<1>1. Arm' = Arm /\ Spots' = Spots
  BY SameArm
<1>2. LineIsRight'
  BY LineWillBe
<1>3. End' = End
  BY DEF End
<1>4. /\ Held(c)'[End] = servo_queue'[c] /\ Held(c)' \in [Spots' -> Seq(Commands')]
      /\ DOMAIN Held(c)' = Spots'
      /\ \A d \in Arm' : /\ Held(c)'[<<d, 0>>] = in'[d]["up"]
                         /\ Held(c)'[<<d, 1>>] = pre'[d]["down"]
                         /\ Held(c)'[<<d, 2>>] = out'[d]["down"]
  BY <1>2, <1>3 DEF LineIsRight
<1> QED BY <1>1, <1>4

\* A step that disturbs nothing of it.
LEMMA StillInLine ==
  ASSUME Types, Types', UNCHANGED arm, NEW c \in Cubes, InLine(c), obeyed'[c] = obeyed[c],
         servo_queue'[c] = servo_queue[c],
         \A d \in Arm : /\ in'[d]["up"] = in[d]["up"] /\ pre'[d]["down"] = pre[d]["down"]
                        /\ out'[d]["down"] = out[d]["down"]
  PROVE  InLine(c)'
<1>1. PICK Q : Q = Held(c)'
  OBVIOUS
<1>2. PICK P : P = Held(c)
  OBVIOUS
<1>3. /\ Q[End] = servo_queue'[c] /\ DOMAIN Q = Spots /\ Q \in [Spots -> Seq(Commands')]
      /\ \A d \in Arm : /\ Q[<<d, 0>>] = in'[d]["up"]
                        /\ Q[<<d, 1>>] = pre'[d]["down"]
                        /\ Q[<<d, 2>>] = out'[d]["down"]
  BY <1>1, HeldNext
<1>4. /\ P[End] = servo_queue[c] /\ DOMAIN P = Spots /\ P \in [Spots -> Seq(Commands)]
      /\ \A d \in Arm : /\ P[<<d, 0>>] = in[d]["up"]
                        /\ P[<<d, 1>>] = pre[d]["down"]
                        /\ P[<<d, 2>>] = out[d]["down"]
  BY <1>2, HeldIs
<1>5. ASSUME NEW x \in Spots PROVE Q[x] = P[x]
  <2>1. CASE x = End
    BY <1>3, <1>4, <2>1
  <2>2. ASSUME NEW d \in Arm, NEW q \in {0, 1, 2}, x = <<d, q>> PROVE Q[x] = P[x]
    <3>1. Q[<<d, 0>>] = P[<<d, 0>>] /\ Q[<<d, 1>>] = P[<<d, 1>>] /\ Q[<<d, 2>>] = P[<<d, 2>>]
      BY <1>3, <1>4
    <3> QED BY <2>2, <3>1
  <2> QED BY <2>1, <2>2, SpotsAre
<1>6. Q = P
  BY <1>3, <1>4, <1>5
<1>7. Ordered(Q, Rank, c) /\ NonePast(Q, Rank, c) /\ \A x \in DOMAIN Q : \A b \in Nos(Q[x], c) : obeyed'[c] < b
  BY <1>2, <1>6 DEF InLine, Fresh
<1>8. Rank' = Rank
  BY SameArm
<1> QED BY <1>1, <1>7, <1>8, InLineNext

\* The oldest frame of a queue moves to another further down.
LEMMA ShiftInLine ==
  ASSUME Types, Types', UNCHANGED <<arm, sent>>, NEW c \in Cubes, InLine(c), obeyed'[c] = obeyed[c],
         NEW P, P = Held(c), NEW Q, Q = Held(c)', NEW n \in Spots, NEW m \in Spots,
         Rank[n] < Rank[m], n # End, Shifts(P, Q, n, m), Passes(P, Rank, n, m, c),
         Head(P[n]).to = c /\ m # End /\ c \in Arm /\ Rank[n] <= Rank[<<c, 0>>] => Rank[m] <= Rank[<<c, 0>>]
  PROVE  InLine(c)'
<1>1. Commands' = Commands
  BY SetsKept
<1>2. /\ P \in [Spots -> Seq(Commands)] /\ DOMAIN P = Spots
      /\ Q \in [Spots -> Seq(Commands)] /\ DOMAIN Q = Spots
  BY <1>1, HeldIs, HeldNext
<1>3. /\ Rank \in [Spots -> Nat] /\ IsInjective(Rank)
      /\ \A d \in Arm : <<d, 0>> \in Spots
      /\ Rank' = Rank
  BY RankIs, SameArm DEF IsInjective
<1>4. Ordered(P, Rank, c) /\ NonePast(P, Rank, c) /\ Fresh(P, c)
  BY DEF InLine
<1>5. Numbered(Commands)
  BY CommandIs DEF Types, Numbered
<1>6. Ordered(Q, Rank, c) /\ Within(Q, P, c)
  BY <1>2, <1>3, <1>4, <1>5, ShiftOrdered
<1>7. \A x \in DOMAIN Q : \A b \in Nos(Q[x], c) : obeyed'[c] < b
  BY <1>2, <1>4, <1>6 DEF Fresh, Within
<1>8. NonePast(Q, Rank, c)
  <2>0. /\ P[n] # <<>> /\ Q[n] = Tail(P[n]) /\ Q[m] = Append(P[m], Head(P[n]))
        /\ \A x \in Spots \ {n, m} : Q[x] = P[x]
    BY <1>2 DEF Shifts
  <2> SUFFICES ASSUME <<c, 0>> \in Spots, NEW x \in Spots, Rank[<<c, 0>>] < Rank[x], x # End
               PROVE  Nos(Q[x], c) = {}
    BY <1>2 DEF NonePast, End
  <2>1. \A y \in Spots : Rank[<<c, 0>>] < Rank[y] /\ y # End => Nos(P[y], c) = {}
    BY <1>2, <1>4 DEF NonePast, End
  <2>2. P[n] \in Seq(Commands) /\ P[m] \in Seq(Commands) /\ Head(P[n]) \in Commands
    BY <1>2, <2>0, HeadTailProperties
  <2>3. CASE x = n
    BY <2>0, <2>1, <2>2, <2>3, TailNos
  <2>4. CASE x = m
    <3>1. c \in Arm
      <4>1. c # None
        BY ConstantsAre
      <4> QED BY <4>1, SpotsAre DEF End
    <3>2. Rank[n] \in Nat /\ Rank[m] \in Nat /\ Rank[<<c, 0>>] \in Nat
      BY <1>3
    <3>3. Head(P[n]).to # c
      <4> SUFFICES ASSUME Head(P[n]).to = c PROVE FALSE
        OBVIOUS
      <4>1. Head(P[n]).no \in Nos(P[n], c)
        BY <2>0, <2>2, TailNos
      <4>2. ~(Rank[<<c, 0>>] < Rank[n])
        BY <2>1, <4>1
      <4>3. Rank[n] <= Rank[<<c, 0>>] => Rank[m] <= Rank[<<c, 0>>]
        BY <2>4, <3>1
      <4>4. PICK i \in Nat, j \in Nat, k \in Nat : i = Rank[n] /\ j = Rank[m] /\ k = Rank[<<c, 0>>]
        BY <3>2
      <4>5. ~(k < i) /\ (i <= k => j <= k) /\ k < j
        BY <2>4, <4>2, <4>3, <4>4
      <4> QED BY <4>5
    <3>4. \A a \in Nos(Q[m], c) : a \in Nos(P[m], c)
      BY <2>0, <2>2, <3>3, AppendNos
    <3> QED BY <2>1, <2>4, <3>4
  <2>5. CASE x # n /\ x # m
    BY <2>0, <2>1, <2>5
  <2> QED BY <2>3, <2>4, <2>5
<1> QED BY <1>3, <1>6, <1>7, <1>8, InLineNext

\* The oldest frame of a queue is lost, or is another cube's, or is carried out.
LEMMA TakeInLine ==
  ASSUME Types, Types', UNCHANGED <<arm, sent>>, NEW c \in Cubes, InLine(c),
         NEW P, P = Held(c), NEW Q, Q = Held(c)', NEW n \in Spots,
         Takes(P, Q, n),
         \/ obeyed'[c] = obeyed[c]
         \/ n = End /\ Head(P[n]).to = c /\ obeyed'[c] = Head(P[n]).no
  PROVE  InLine(c)'
<1>1. Commands' = Commands
  BY SetsKept
<1>2. /\ P \in [Spots -> Seq(Commands)] /\ DOMAIN P = Spots
      /\ Q \in [Spots -> Seq(Commands)] /\ DOMAIN Q = Spots
  BY <1>1, HeldIs, HeldNext
<1>3. /\ Rank' = Rank
      /\ \A x \in Spots : x # End => Rank[x] < Rank[End]
  <2>1. \A d \in Arm, q \in {0, 1, 2} : Rank[<<d, q>>] < Rank[End]
    BY RankIs
  <2> QED BY <2>1, SameArm, SpotsAre
<1>4. Ordered(P, Rank, c) /\ NonePast(P, Rank, c) /\ Fresh(P, c)
  BY DEF InLine
<1>5. Ordered(Q, Rank, c) /\ Fewer(Q, P, c) /\ Oldest(P, Q, n, c)
  BY <1>2, <1>4, TakeOrdered
<1>6. NonePast(Q, Rank, c)
  BY <1>2, <1>4, <1>5 DEF NonePast, Fewer
<1>7. ASSUME NEW x \in Spots, NEW b \in Nos(Q[x], c) PROVE obeyed'[c] < b
  <2>1. CASE obeyed'[c] = obeyed[c]
    BY <1>2, <1>4, <1>5, <1>7, <2>1 DEF Fresh, Fewer
  <2>2. CASE n = End /\ Head(P[n]).to = c /\ obeyed'[c] = Head(P[n]).no
    <3>1. CASE x = n
      BY <1>5, <1>7, <2>2, <3>1 DEF Oldest
    <3>2. CASE x # n
      <4>1. Rank[x] < Rank[n] /\ b \in Nos(P[x], c) /\ Head(P[n]).no \in Nos(P[n], c)
        BY <1>2, <1>3, <1>5, <1>7, <2>2, <3>2 DEF Fewer, Oldest
      <4> QED BY <1>2, <1>4, <2>2, <4>1 DEF Ordered
    <3> QED BY <3>1, <3>2
  <2> QED BY <2>1, <2>2
<1> QED BY <1>2, <1>3, <1>5, <1>6, <1>7, InLineNext

\* A new command joins a queue.
LEMMA PutInLine ==
  ASSUME Types, Types', UNCHANGED arm, Commands \subseteq Commands', NEW c \in Cubes, InLine(c),
         obeyed'[c] = obeyed[c], NEW P, P = Held(c), NEW Q, Q = Held(c)',
         NEW m \in Spots, NEW f \in Commands', Puts(P, Q, m, f), Newer(P, Rank, m, f, c),
         f.to = c => obeyed[c] < f.no,
         f.to = c /\ m # End /\ c \in Arm => Rank[m] <= Rank[<<c, 0>>]
  PROVE  InLine(c)'
<1>1. PICK C : C = Commands'
  OBVIOUS
<1>2. /\ P \in [Spots -> Seq(C)] /\ DOMAIN P = Spots
      /\ Q \in [Spots -> Seq(C)] /\ DOMAIN Q = Spots
  <2>1. P \in [Spots -> Seq(Commands)] /\ DOMAIN P = Spots
    BY HeldIs
  <2>2. Seq(Commands) \subseteq Seq(C)
    BY <1>1
  <2>3. Q \in [Spots -> Seq(C)] /\ DOMAIN Q = Spots
    BY <1>1, HeldNext
  <2> QED BY <2>1, <2>2, <2>3
<1>3. /\ Rank \in [Spots -> Nat] /\ \A d \in Arm : <<d, 0>> \in Spots
      /\ Rank' = Rank
  BY RankIs, SameArm
<1>4. Ordered(P, Rank, c) /\ NonePast(P, Rank, c) /\ Fresh(P, c)
  BY DEF InLine
<1>5. f \in C
  BY <1>1
<1>6. Ordered(Q, Rank, c) /\ Joined(Q, P, m, f, c)
  BY <1>2, <1>3, <1>4, <1>5, PutOrdered
<1>7. \A x \in DOMAIN Q : \A b \in Nos(Q[x], c) : obeyed'[c] < b
  BY <1>2, <1>4, <1>6 DEF Fresh, Joined
<1>8. NonePast(Q, Rank, c)
  <2> SUFFICES ASSUME <<c, 0>> \in Spots, NEW x \in Spots, Rank[<<c, 0>>] < Rank[x], x # End
               PROVE  Nos(Q[x], c) = {}
    BY <1>2 DEF NonePast, End
  <2>1. Nos(P[x], c) = {}
    BY <1>2, <1>4 DEF NonePast, End
  <2>2. x = m => f.to # c
    <3>1. c \in Arm
      <4>1. c # None
        BY ConstantsAre
      <4> QED BY <4>1, SpotsAre DEF End
    <3>2. Rank[m] \in Nat /\ Rank[<<c, 0>>] \in Nat
      BY <1>3
    <3>3. PICK i \in Nat, j \in Nat : i = Rank[m] /\ j = Rank[<<c, 0>>]
      BY <3>2
    <3>4. x = m => j < i
      BY <3>3
    <3> QED BY <3>1, <3>3, <3>4
  <2> QED BY <1>2, <1>6, <2>1, <2>2 DEF Joined
<1> QED BY <1>3, <1>6, <1>7, <1>8, InLineNext

\* The arm is another one, in which queues are as they were, or empty.
LEMMA OtherArmInLine ==
  ASSUME Types, Types', NEW c \in Cubes, InLine(c), obeyed'[c] = obeyed[c],
         NEW P, P = Held(c), NEW Q, Q = Held(c)', NEW S, S = Spots',
         \A x \in S : Q[x] = <<>> \/ (x \in Spots /\ Q[x] = P[x]),
         \A x, y \in S : x \in Spots /\ y \in Spots /\ Rank'[x] < Rank'[y] => Rank[x] < Rank[y],
         <<c, 0>> \in S /\ <<c, 0>> \notin Spots
            => \A x \in S : Rank'[<<c, 0>>] < Rank'[x] /\ x # End => Q[x] = <<>>
  PROVE  InLine(c)'
<1>1. DOMAIN P = Spots /\ DOMAIN Q = S
  <2>1. LineIsRight'
    BY LineWillBe
  <2>2. DOMAIN Held(c)' = Spots'
    BY <2>1 DEF LineIsRight
  <2> QED BY <2>2, HeldIs
<1>2. Ordered(P, Rank, c) /\ NonePast(P, Rank, c) /\ Fresh(P, c)
  BY DEF InLine
<1>3. \A x \in S : \/ Nos(Q[x], c) = {} /\ Rising(Q[x], c)
                   \/ x \in Spots /\ Q[x] = P[x]
  BY NosEmpty
<1>4. PICK rank : rank = Rank'
  OBVIOUS
<1>5. Ordered(Q, rank, c)
  <2>1. \A x \in S : Rising(Q[x], c)
    BY <1>1, <1>2, <1>3 DEF Ordered
  <2>2. ASSUME NEW x \in S, NEW y \in S, rank[x] < rank[y], NEW a \in Nos(Q[y], c), NEW b \in Nos(Q[x], c)
        PROVE  a < b
    <3>1. x \in Spots /\ y \in Spots /\ Q[x] = P[x] /\ Q[y] = P[y]
      BY <1>3, <2>2
    <3>2. Rank[x] < Rank[y]
      BY <1>4, <2>2, <3>1
    <3> QED BY <1>1, <1>2, <2>2, <3>1, <3>2 DEF Ordered
  <2> QED BY <1>1, <2>1, <2>2 DEF Ordered
<1>6. NonePast(Q, rank, c)
  <2> SUFFICES ASSUME <<c, 0>> \in S, NEW x \in S, rank[<<c, 0>>] < rank[x], x # End
               PROVE  Nos(Q[x], c) = {}
    BY <1>1 DEF NonePast, End
  <2>1. CASE <<c, 0>> \in Spots /\ x \in Spots
    <3>1. Rank[<<c, 0>>] < Rank[x]
      BY <1>4, <2>1
    <3>2. Nos(P[x], c) = {}
      BY <1>1, <1>2, <2>1, <3>1 DEF NonePast, End
    <3> QED BY <1>3, <3>2
  <2>2. CASE <<c, 0>> \notin Spots
    BY <1>4, <2>2, NosEmpty
  <2>3. CASE x \notin Spots
    BY <1>3, <2>3
  <2> QED BY <2>1, <2>2, <2>3
<1>7. \A x \in DOMAIN Q : \A b \in Nos(Q[x], c) : obeyed'[c] < b
  BY <1>1, <1>2, <1>3 DEF Fresh
<1> QED BY <1>4, <1>5, <1>6, <1>7, InLineNext

\* Every spot is one of these.
LEMMA SpotIs == ASSUME NEW x \in Spots
                PROVE  \/ x = End
                       \/ \E d \in Arm : x = <<d, 0>> \/ x = <<d, 1>> \/ x = <<d, 2>>
  BY SpotsAre

LEMMA TransmitInLine ==
  ASSUME Types, Types', NEW c \in Cubes, InLine(c), NEW d \in Cubes, NEW s \in Sides, Transmit(d, s)
  PROVE  InLine(c)'
<1>1. UNCHANGED <<arm, sent, pre, servo_queue, obeyed>>
  BY DEF Transmit, userVars
<1>2. Arm \subseteq Cubes /\ "up" \in Sides /\ "down" \in Sides /\ d \in Arm
  BY ArmIs DEF Sides, Transmit
<1>3. /\ out[d][s] # <<>> /\ out'[d][s] = Tail(out[d][s])
      /\ \A e \in Cubes, t \in Sides : e # d \/ t # s => out'[e][t] = out[e][t]
  BY TransmitIs
<1>4. \/ in' = in
      \/ \E e \in Arm : /\ e = Reached(d, s)
                        /\ in'[e][Opposite(s)] = Append(in[e][Opposite(s)], Head(out[d][s]))
                        /\ \A g \in Cubes, t \in Sides :
                              g # e \/ t # Opposite(s) => in'[g][t] = in[g][t]
  BY ZenonT(60), TransmitIs
<1>5. CASE s = "up"
  <2>1. \A e \in Arm : out'[e]["down"] = out[e]["down"]
    BY <1>2, <1>5, <1>3
  <2>2. \A e \in Arm : in'[e]["up"] = in[e]["up"]
    <3>1. Opposite(s) # "up"
      BY <1>5 DEF Opposite
    <3> QED BY <1>2, <1>4, <3>1
  <2> QED BY <1>1, <2>1, <2>2, StillInLine
<1>6. CASE s = "down"
  <2>1. PICK P, Q : P = Held(c) /\ Q = Held(c)'
    OBVIOUS
  <2>2. /\ P[End] = servo_queue[c] /\ DOMAIN P = Spots
        /\ \A e \in Arm : /\ P[<<e, 0>>] = in[e]["up"] /\ P[<<e, 1>>] = pre[e]["down"]
                          /\ P[<<e, 2>>] = out[e]["down"]
    BY <2>1, HeldIs
  <2>3. /\ Q[End] = servo_queue'[c] /\ DOMAIN Q = Spots
        /\ \A e \in Arm : /\ Q[<<e, 0>>] = in'[e]["up"] /\ Q[<<e, 1>>] = pre'[e]["down"]
                          /\ Q[<<e, 2>>] = out'[e]["down"]
    BY <1>1, <2>1, HeldNext
  <2>4. PICK n : n = <<d, 2>>
    OBVIOUS
  <2>5. n \in Spots /\ n # End /\ Rank[n] = 3 * Place(d) + 2
    BY <1>2, <2>4, RankIs
  <2>6. /\ out[d]["down"] # <<>> /\ out'[d]["down"] = Tail(out[d]["down"])
        /\ \A e \in Cubes : e # d => out'[e]["down"] = out[e]["down"]
    BY <1>2, <1>6, <1>3
  <2>7. P[n] # <<>> /\ Q[n] = Tail(P[n])
    BY <1>2, <2>2, <2>3, <2>4, <2>6
  <2>8. CASE in' = in
    <3>1. ASSUME NEW x \in Spots, x # n PROVE Q[x] = P[x]
      <4>1. CASE x = End
        BY <1>1, <2>2, <2>3, <4>1
      <4>2. ASSUME NEW e \in Arm PROVE /\ x = <<e, 0>> => Q[x] = P[x]
                                       /\ x = <<e, 1>> => Q[x] = P[x]
                                       /\ x = <<e, 2>> => Q[x] = P[x]
        <5>1. x = <<e, 2>> => out'[e]["down"] = out[e]["down"]
          BY <1>2, <2>4, <2>6, <3>1
        <5>2. Q[<<e, 0>>] = P[<<e, 0>>] /\ Q[<<e, 1>>] = P[<<e, 1>>]
          BY <1>1, <2>2, <2>3, <2>8
        <5>3. x = <<e, 2>> => Q[<<e, 2>>] = P[<<e, 2>>]
          BY <2>2, <2>3, <5>1
        <5> QED BY <5>2, <5>3
      <4> QED BY <4>1, <4>2, SpotIs
    <3>2. Takes(P, Q, n)
      BY <2>2, <2>7, <3>1 DEF Takes
    <3> QED BY <1>1, <2>1, <2>5, <3>2, TakeInLine
  <2>9. CASE \E e \in Arm : /\ e = Reached(d, s)
                            /\ in'[e][Opposite(s)] = Append(in[e][Opposite(s)], Head(out[d][s]))
                            /\ \A g \in Cubes, t \in Sides :
                                  g # e \/ t # Opposite(s) => in'[g][t] = in[g][t]
    <3>1. PICK e \in Arm : /\ e = Reached(d, s)
                           /\ in'[e]["up"] = Append(in[e]["up"], Head(out[d]["down"]))
                           /\ \A g \in Cubes : g # e => in'[g]["up"] = in[g]["up"]
      BY <1>2, <1>6, <2>9 DEF Opposite
    <3>2. PICK m : m = <<e, 0>>
      OBVIOUS
    <3>3. Place(e) = Place(d) + 1
      <4>1. e # None
        BY <1>2, ConstantsAre
      <4> QED BY <1>2, <1>6, <3>1, <4>1, ReachedIs
    <3>4. m \in Spots /\ m # End /\ Rank[m] = 3 * Place(e) + 0
      BY <3>2, RankIs
    <3>5. PICK p \in Nat : p = Place(d)
      BY <1>2, ArmIs
    <3>6. Rank[n] = 3 * p + 2 /\ Rank[m] = 3 * p + 3
      BY <2>5, <3>3, <3>4, <3>5
    <3>7. Rank[n] < Rank[m]
      BY <3>6
    <3>8. ASSUME NEW x \in Spots, x # n, x # m PROVE Q[x] = P[x]
      <4>1. CASE x = End
        BY <1>1, <2>2, <2>3, <4>1
      <4>2. ASSUME NEW g \in Arm PROVE /\ x = <<g, 0>> => Q[x] = P[x]
                                       /\ x = <<g, 1>> => Q[x] = P[x]
                                       /\ x = <<g, 2>> => Q[x] = P[x]
        <5>1. x = <<g, 2>> => out'[g]["down"] = out[g]["down"]
          BY <1>2, <2>4, <2>6, <3>8
        <5>2. x = <<g, 0>> => in'[g]["up"] = in[g]["up"]
          BY <1>2, <3>1, <3>2, <3>8
        <5>3. Q[<<g, 1>>] = P[<<g, 1>>]
          BY <1>1, <2>2, <2>3
        <5>4. x = <<g, 2>> => Q[<<g, 2>>] = P[<<g, 2>>]
          BY <2>2, <2>3, <5>1
        <5>5. x = <<g, 0>> => Q[<<g, 0>>] = P[<<g, 0>>]
          BY <2>2, <2>3, <5>2
        <5> QED BY <5>3, <5>4, <5>5
      <4> QED BY <4>1, <4>2, SpotIs
    <3>9. Shifts(P, Q, n, m)
      <4>1. Q[m] = Append(P[m], Head(P[n]))
        BY <1>2, <2>2, <2>3, <2>4, <3>1, <3>2
      <4> QED BY <2>2, <2>7, <3>8, <4>1 DEF Shifts
    <3>10. Passes(P, Rank, n, m, c)
      <4>1. \A x \in Spots : Rank[x] \in Nat
        BY RankIs
      <4>2. \A x \in Spots : ~(Rank[n] < Rank[x] /\ Rank[x] < Rank[m])
        BY <3>6, <4>1
      <4> QED BY <2>2, <4>2 DEF Passes
    <3>11. ASSUME c \in Arm, Rank[n] <= Rank[<<c, 0>>] PROVE Rank[m] <= Rank[<<c, 0>>]
      <4>1. Rank[<<c, 0>>] = 3 * Place(c) + 0 /\ Place(c) \in 1 .. Len(arm)
        BY <3>11, RankIs, ArmIs
      <4>2. PICK k \in Int : k = Place(c)
        BY <4>1
      <4>3. 3 * p + 2 <= 3 * k
        BY <3>6, <3>11, <4>1, <4>2
      <4>4. 3 * p + 3 <= 3 * k
        BY <4>3
      <4> QED BY <3>6, <4>1, <4>2, <4>4
    <3> QED BY <1>1, <2>1, <2>5, <3>4, <3>7, <3>9, <3>10, <3>11, ShiftInLine
  <2> QED BY <1>4, <2>8, <2>9
<1> QED BY <1>5, <1>6 DEF Sides

\* A command arrives where it is for, or goes on.
LEMMA ArrivalInLine ==
  ASSUME Types, Types', NEW c \in Cubes \ overtaken', InLine(c), NEW d \in Cubes, Receive(d, "up")
  PROVE  InLine(c)'
<1>1. UNCHANGED <<arm, sent, obeyed>>
  BY DEF Receive, userVars, history
<1>2. Arm \subseteq Cubes /\ "up" \in Sides /\ "down" \in Sides
  BY ArmIs DEF Sides
<1>3. PICK f : f = Head(in[d]["up"])
  OBVIOUS
<1>4. /\ d \in Arm /\ in[d]["up"] # <<>> /\ in'[d]["up"] = Tail(in[d]["up"])
      /\ \A e \in Cubes, t \in Sides : e # d \/ t # "up" => in'[e][t] = in[e][t]
      /\ f \in Commands
      /\ IF Mine(d, f) THEN Sort(d, f) /\ UNCHANGED <<pre, out, overtaken>>
                       ELSE Send(d, Opposite("up"), f) /\ UNCHANGED <<servo_queue, report_queue>>
  BY <1>2, <1>3, ReceiveIs
<1>5. PICK P, Q : P = Held(c) /\ Q = Held(c)'
  OBVIOUS
<1>6. /\ P[End] = servo_queue[c] /\ DOMAIN P = Spots
      /\ \A e \in Arm : /\ P[<<e, 0>>] = in[e]["up"] /\ P[<<e, 1>>] = pre[e]["down"]
                        /\ P[<<e, 2>>] = out[e]["down"]
  BY <1>5, HeldIs
<1>7. /\ Q[End] = servo_queue'[c] /\ DOMAIN Q = Spots
      /\ \A e \in Arm : /\ Q[<<e, 0>>] = in'[e]["up"] /\ Q[<<e, 1>>] = pre'[e]["down"]
                        /\ Q[<<e, 2>>] = out'[e]["down"]
  BY <1>1, <1>5, HeldNext
<1>8. PICK n : n = <<d, 0>>
  OBVIOUS
<1>9. PICK p \in Nat : p = Place(d)
  BY <1>4, ArmIs
<1>10. n \in Spots /\ n # End /\ Rank[n] = 3 * p
  <2>1. <<d, 0>> \in Spots /\ <<d, 0>> # End /\ Rank[<<d, 0>>] = 3 * Place(d) + 0
    BY <1>4, RankIs
  <2>2. 3 * p + 0 = 3 * p
    OBVIOUS
  <2> QED BY <1>8, <1>9, <2>1, <2>2
<1>11. P[n] = in[d]["up"] /\ P[n] # <<>> /\ Q[n] = Tail(P[n]) /\ Head(P[n]) = f
  BY <1>3, <1>4, <1>6, <1>7, <1>8
<1>12. \A e \in Arm : e # d => Q[<<e, 0>>] = P[<<e, 0>>]
  BY ZenonT(60), <1>2, <1>4, <1>6, <1>7
<1>13. Ordered(P, Rank, c) /\ NonePast(P, Rank, c)
  BY <1>5 DEF InLine
<1>14. f.to \in Cubes /\ f.kind = "servo" /\ f.from = Root
  BY <1>4, CommandIs
<1>15. /\ \A x \in Spots : Rank[x] \in Nat /\ (x # End => Rank[x] < Rank[End])
       /\ \A e \in Arm, q \in {0, 1, 2} : <<e, q>> \in Spots /\ <<e, q>> # End
       /\ End \in Spots
  <2>1. \A e \in Arm, q \in {0, 1, 2} : Rank[<<e, q>>] < Rank[End]
    BY RankIs
  <2> QED BY ZenonT(60), <2>1, RankIs, SpotsAre
<1>16. CASE Mine(d, f)
  <2>1. f.to = d
    BY <1>14, <1>16, ConstantsAre DEF Mine
  <2>2. Enqueue(d, f) /\ UNCHANGED <<pre, out, overtaken>>
    BY <1>4, <1>14, <1>16 DEF Sort
  <2>3. /\ servo_queue'[d] = Append(servo_queue[d], f)
        /\ \A e \in Cubes : e # d => servo_queue'[e] = servo_queue[e]
    <3>1. /\ servo_queue \in [Cubes -> Seq(Commands)]
          /\ \A e \in Cubes : servo_queue[e] \in Seq(For(Commands, e)) /\ Len(servo_queue[e]) <= QueueLen
      BY DEF Types
    <3> QED BY <1>4, <2>1, <2>2, <3>1, EnqueueIs
  <2>4. ASSUME NEW x \in Spots, x # n, x # End PROVE Q[x] = P[x]
    <3>1. ASSUME NEW e \in Arm PROVE /\ x = <<e, 0>> => Q[x] = P[x]
                                     /\ x = <<e, 1>> => Q[x] = P[x]
                                     /\ x = <<e, 2>> => Q[x] = P[x]
      <4>1. x = <<e, 0>> => e # d
        BY <1>8, <2>4
      <4>2. Q[<<e, 1>>] = P[<<e, 1>>] /\ Q[<<e, 2>>] = P[<<e, 2>>]
        BY <1>6, <1>7, <2>2
      <4> QED BY <1>12, <4>1, <4>2
    <3> QED BY <2>4, <3>1, SpotIs
  <2>5. CASE c = d
    <3>1. Shifts(P, Q, n, End)
      <4>1. Q[End] = Append(P[End], Head(P[n]))
        BY <1>6, <1>7, <1>11, <2>3, <2>5
      <4> QED BY <1>6, <1>11, <2>4, <4>1 DEF Shifts
    <3>2. Passes(P, Rank, n, End, c)
      <4> SUFFICES ASSUME NEW x \in Spots, Rank[n] < Rank[x], Rank[x] < Rank[End]
                   PROVE  Nos(P[x], c) = {}
        BY <1>6 DEF Passes
      <4>1. x # End
        BY <1>15
      <4>2. n = <<c, 0>>
        BY <1>8, <2>5
      <4> QED BY <1>6, <1>10, <1>13, <4>1, <4>2 DEF NonePast, End
    <3> QED BY <1>1, <1>5, <1>10, <1>15, <3>1, <3>2, ShiftInLine
  <2>6. CASE c # d
    <3>1. Q[End] = P[End]
      BY <1>6, <1>7, <2>3, <2>6
    <3>2. Takes(P, Q, n)
      BY <1>6, <1>11, <2>4, <3>1 DEF Takes
    <3> QED BY <1>1, <1>5, <1>10, <3>2, TakeInLine
  <2> QED BY <2>5, <2>6
<1>17. CASE ~Mine(d, f)
  <2>1. Send(d, "down", f) /\ UNCHANGED servo_queue /\ f.to # d
    BY <1>4, <1>17 DEF Mine, Opposite
  <2>2. Commands = IF "down" = "down" THEN Commands ELSE Answers
    OBVIOUS
  <2>3. /\ pre \in Queues(Commands, Answers) /\ out \in Queues(Commands, Answers)
        /\ \A e \in Cubes, u \in Sides : Len(out[e][u]) <= QueueLen
        /\ overtaken \subseteq Cubes
    BY DEF Types
  <2>4. f.to \in Cubes /\ f.from \in Cubes
    BY <1>14, ConstantsAre
  <2>5. /\ \A e \in Cubes, t \in Sides : e # d \/ t # "down"
               => pre'[e][t] = pre[e][t] /\ out'[e][t] = out[e][t]
        /\ \/ pre'[d]["down"] = Append(pre[d]["down"], f) /\ out'[d]["down"] = out[d]["down"]
           \/ /\ pre'[d]["down"] = pre[d]["down"] /\ out'[d]["down"] = Append(out[d]["down"], f)
              /\ f.to \notin overtaken' => \A i \in DOMAIN pre[d]["down"] : ~SameWay(pre[d]["down"][i], f)
    BY <1>2, <1>4, <1>14, <2>1, <2>2, <2>3, <2>4, SendIs
  <2>6. \A e \in Arm : e # d => Q[<<e, 1>>] = P[<<e, 1>>] /\ Q[<<e, 2>>] = P[<<e, 2>>]
    <3>1. \A e \in Arm : e # d => pre'[e]["down"] = pre[e]["down"] /\ out'[e]["down"] = out[e]["down"]
      BY <1>2, <2>5
    <3> QED BY <1>6, <1>7, <3>1
  <2>7. Q[End] = P[End]
    BY <1>6, <1>7, <2>1
  <2>8. ASSUME NEW m \in Spots, m # End, f.to = c, c \in Arm, Rank[n] <= Rank[<<c, 0>>],
               Rank[m] <= 3 * p + 2, Rank[m] \in Nat
        PROVE  Rank[m] <= Rank[<<c, 0>>]
    <3>1. c # d
      BY <2>1, <2>8
    <3>2. PICK k \in Nat : k = Place(c)
      BY <2>8, ArmIs
    <3>3. k # p
      BY <1>4, <1>9, <2>8, <3>1, <3>2, ArmIs
    <3>4. Rank[<<c, 0>>] = 3 * k
      <4>1. Rank[<<c, 0>>] = 3 * Place(c) + 0
        BY <2>8, RankIs
      <4> QED BY <3>2, <4>1
    <3>5. 3 * p + 3 <= 3 * k
      BY <1>10, <2>8, <3>3, <3>4
    <3> QED BY <2>8, <3>4, <3>5
  <2>9. CASE pre'[d]["down"] = Append(pre[d]["down"], f) /\ out'[d]["down"] = out[d]["down"]
    <3>1. PICK m : m = <<d, 1>>
      OBVIOUS
    <3>2. m \in Spots /\ m # End /\ Rank[m] = 3 * p + 1
      BY <1>4, <1>9, <3>1, RankIs
    <3>3. ASSUME NEW x \in Spots, x # n, x # m PROVE Q[x] = P[x]
      <4>1. ASSUME NEW e \in Arm PROVE /\ x = <<e, 0>> => Q[x] = P[x]
                                       /\ x = <<e, 1>> => Q[x] = P[x]
                                       /\ x = <<e, 2>> => Q[x] = P[x]
        <5>1. (x = <<e, 0>> => e # d) /\ (x = <<e, 1>> => e # d)
          BY <1>8, <3>1, <3>3
        <5>2. Q[<<d, 2>>] = P[<<d, 2>>]
          BY <1>4, <1>6, <1>7, <2>9
        <5>3. Q[<<e, 2>>] = P[<<e, 2>>]
          BY <2>6, <5>2
        <5> QED BY <1>12, <2>6, <5>1, <5>3
      <4> QED BY <2>7, <4>1, SpotIs
    <3>4. Shifts(P, Q, n, m)
      <4>1. Q[m] = Append(P[m], Head(P[n]))
        BY <1>4, <1>6, <1>7, <1>11, <2>9, <3>1
      <4> QED BY <1>6, <1>11, <3>3, <4>1 DEF Shifts
    <3>5. Passes(P, Rank, n, m, c)
      <4>1. \A x \in Spots : ~(Rank[n] < Rank[x] /\ Rank[x] < Rank[m])
        BY <1>10, <1>15, <3>2
      <4> QED BY <1>6, <4>1 DEF Passes
    <3>6. Rank[n] < Rank[m] /\ Rank[m] <= 3 * p + 2 /\ Rank[m] \in Nat
      BY <1>10, <3>2
    <3>7. Head(P[n]).to = c /\ m # End /\ c \in Arm /\ Rank[n] <= Rank[<<c, 0>>] => Rank[m] <= Rank[<<c, 0>>]
      BY <1>11, <2>8, <3>2, <3>6
    <3> QED BY <1>1, <1>5, <1>10, <3>2, <3>4, <3>5, <3>6, <3>7, ShiftInLine
  <2>10. CASE /\ pre'[d]["down"] = pre[d]["down"] /\ out'[d]["down"] = Append(out[d]["down"], f)
              /\ f.to \notin overtaken' => \A i \in DOMAIN pre[d]["down"] : ~SameWay(pre[d]["down"][i], f)
    <3>1. PICK m : m = <<d, 2>>
      OBVIOUS
    <3>2. m \in Spots /\ m # End /\ Rank[m] = 3 * p + 2 /\ Rank[<<d, 1>>] = 3 * p + 1
      BY <1>4, <1>9, <3>1, RankIs
    <3>3. ASSUME NEW x \in Spots, x # n, x # m PROVE Q[x] = P[x]
      <4>1. ASSUME NEW e \in Arm PROVE /\ x = <<e, 0>> => Q[x] = P[x]
                                       /\ x = <<e, 1>> => Q[x] = P[x]
                                       /\ x = <<e, 2>> => Q[x] = P[x]
        <5>1. (x = <<e, 0>> => e # d) /\ (x = <<e, 2>> => e # d)
          BY <1>8, <3>1, <3>3
        <5>2. Q[<<d, 1>>] = P[<<d, 1>>]
          BY <1>4, <1>6, <1>7, <2>10
        <5>3. Q[<<e, 1>>] = P[<<e, 1>>]
          BY <2>6, <5>2
        <5> QED BY <1>12, <2>6, <5>1, <5>3
      <4> QED BY <2>7, <4>1, SpotIs
    <3>4. Shifts(P, Q, n, m)
      <4>1. Q[m] = Append(P[m], Head(P[n]))
        BY <1>4, <1>6, <1>7, <1>11, <2>10, <3>1
      <4> QED BY <1>6, <1>11, <3>3, <4>1 DEF Shifts
    <3>5. Passes(P, Rank, n, m, c)
      <4> SUFFICES ASSUME f.to = c, NEW x \in Spots, Rank[n] < Rank[x], Rank[x] < Rank[m]
                   PROVE  Nos(P[x], c) = {}
        BY <1>6, <1>11 DEF Passes
      <4>1. Rank[x] = Rank[<<d, 1>>]
        BY <1>10, <1>15, <3>2
      <4>2. x = <<d, 1>>
        BY <1>4, <1>15, <4>1, RankIs
      <4>3. pre[d]["down"] \in Seq(Commands)
        BY <2>3, <1>4, <1>2 DEF Queues
      <4>4. \A i \in DOMAIN pre[d]["down"] : pre[d]["down"][i].to # c
        <5> SUFFICES ASSUME NEW i \in DOMAIN pre[d]["down"] PROVE pre[d]["down"][i].to # f.to
          OBVIOUS
        <5>1. PICK g \in Commands : g = pre[d]["down"][i]
          BY <4>3
        <5>2. ~SameWay(g, f)
          BY <2>10, <5>1
        <5>3. g.kind = "servo" /\ g.from = Root
          BY CommandIs
        <5> QED BY <1>14, <5>1, <5>2, <5>3 DEF SameWay
      <4>5. P[x] = pre[d]["down"]
        BY <1>4, <1>6, <4>2
      <4>6. Nos(pre[d]["down"], c) = {}
        BY <4>4 DEF Nos
      <4> QED BY <4>5, <4>6
    <3>6. Rank[n] < Rank[m] /\ Rank[m] <= 3 * p + 2 /\ Rank[m] \in Nat
      BY <1>10, <3>2
    <3>7. Head(P[n]).to = c /\ m # End /\ c \in Arm /\ Rank[n] <= Rank[<<c, 0>>] => Rank[m] <= Rank[<<c, 0>>]
      BY <1>11, <2>8, <3>2, <3>6
    <3> QED BY <1>1, <1>5, <1>10, <3>2, <3>4, <3>5, <3>6, <3>7, ShiftInLine
  <2> QED BY <2>5, <2>9, <2>10
<1> QED BY <1>16, <1>17

LEMMA ReceiveInLine ==
  ASSUME Types, Types', NEW c \in Cubes \ overtaken', InLine(c), NEW d \in Cubes, NEW s \in Sides,
         Receive(d, s)
  PROVE  InLine(c)'
<1>1. CASE s = "up"
  BY <1>1, ArrivalInLine
<1>2. CASE s = "down"
  <2>1. UNCHANGED <<arm, sent, obeyed>>
    BY DEF Receive, userVars, history
  <2>2. Arm \subseteq Cubes /\ "up" \in Sides /\ "down" \in Sides
    BY ArmIs DEF Sides
  <2>3. PICK f : f = Head(in[d]["down"])
    OBVIOUS
  <2>4. /\ d \in Arm
        /\ \A e \in Cubes, t \in Sides : e # d \/ t # "down" => in'[e][t] = in[e][t]
        /\ f \in Answers
        /\ IF Mine(d, f) THEN Sort(d, f) /\ UNCHANGED <<pre, out, overtaken>>
                         ELSE Send(d, Opposite("down"), f) /\ UNCHANGED <<servo_queue, report_queue>>
    BY <1>2, <2>2, <2>3, ReceiveIs
  <2>5. f.kind # "servo" /\ f.to \in Cubes \cup {None}
    BY <2>4, AnswerIs
  <2>6. /\ servo_queue' = servo_queue
        /\ \A e \in Arm : pre'[e]["down"] = pre[e]["down"] /\ out'[e]["down"] = out[e]["down"]
    <3>1. CASE Mine(d, f)
      BY <2>4, <2>5, <3>1 DEF Sort
    <3>2. CASE ~Mine(d, f)
      <4>1. Send(d, "up", f) /\ UNCHANGED servo_queue /\ f.to \in Cubes
        BY <2>4, <2>5, <3>2 DEF Opposite, Mine
      <4>2. \A e \in Cubes : pre'[e]["down"] = pre[e]["down"] /\ out'[e]["down"] = out[e]["down"]
        BY <2>4, <4>1, AnswerSent
      <4> QED BY <2>2, <4>1, <4>2
    <3> QED BY <3>1, <3>2
  <2>7. \A e \in Arm : in'[e]["up"] = in[e]["up"]
    BY <2>2, <2>4
  <2> QED BY <2>1, <2>6, <2>7, StillInLine
<1> QED BY <1>1, <1>2 DEF Sides

LEMMA SendCommandInLine ==
  ASSUME Types, Types', Gone, NEW c \in Cubes \ overtaken', InLine(c), NEW d \in Cubes, SendCommand(d)
  PROVE  InLine(c)'
<1>1. UNCHANGED <<arm, in, obeyed>>
  BY DEF SendCommand, userVars
<1>2. Arm \subseteq Cubes /\ "up" \in Sides /\ "down" \in Sides /\ Root \in Arm /\ Place(Root) = 1
  BY ArmIs DEF Sides
<1>3. PICK f : f = Frame("servo", Root, d, Len(sent) + 1, None)
  OBVIOUS
<1>4. /\ f \in Commands' /\ Commands \subseteq Commands' /\ Answers' = Answers /\ Len(sent) \in Nat
      /\ \A g \in Commands : g.no < Len(sent) + 1
  BY <1>3, CommandsGrow
<1>5. f.to = d /\ f.from = Root /\ f.kind = "servo" /\ f.no = Len(sent) + 1
  BY <1>3 DEF Frame
<1>6. PICK P, Q : P = Held(c) /\ Q = Held(c)'
  OBVIOUS
<1>7. /\ P[End] = servo_queue[c] /\ DOMAIN P = Spots /\ P \in [Spots -> Seq(Commands)]
      /\ \A e \in Arm : /\ P[<<e, 0>>] = in[e]["up"] /\ P[<<e, 1>>] = pre[e]["down"]
                        /\ P[<<e, 2>>] = out[e]["down"]
  BY <1>6, HeldIs
<1>8. /\ Q[End] = servo_queue'[c] /\ DOMAIN Q = Spots
      /\ \A e \in Arm : /\ Q[<<e, 0>>] = in'[e]["up"] /\ Q[<<e, 1>>] = pre'[e]["down"]
                        /\ Q[<<e, 2>>] = out'[e]["down"]
  BY <1>1, <1>6, HeldNext
<1>9. \A e \in Arm : Q[<<e, 0>>] = P[<<e, 0>>]
  BY <1>1, <1>7, <1>8
<1>10. Ordered(P, Rank, c) /\ NonePast(P, Rank, c)
  BY <1>6 DEF InLine
<1>11. \A x \in Spots : \A a \in Nos(P[x], c) : a < f.no
  <2> SUFFICES ASSUME NEW x \in Spots, NEW a \in Nos(P[x], c) PROVE a < f.no
    OBVIOUS
  <2>1. PICK i \in DOMAIN P[x] : P[x][i].no = a
    BY NosIs
  <2>2. P[x] \in Seq(Commands)
    BY <1>7
  <2>3. P[x][i] \in Commands
    BY <2>1, <2>2
  <2> QED BY <1>4, <1>5, <2>1, <2>3
<1>12. obeyed[c] < f.no
  <2>1. obeyed[c] \in 0 .. Len(sent)
    BY DEF Types
  <2> QED BY <1>4, <1>5, <2>1
<1>13. Nos(P[<<Root, 0>>], c) = {}
  <2>1. P[<<Root, 0>>] = <<>>
    BY <1>2, <1>7 DEF Gone
  <2> QED BY <2>1, NosEmpty
<1>14. /\ \A x \in Spots : Rank[x] \in Nat /\ (x # End => Rank[x] < Rank[End])
       /\ \A e \in Arm, q \in {0, 1, 2} : <<e, q>> \in Spots /\ <<e, q>> # End
       /\ End \in Spots
  <2>1. \A e \in Arm, q \in {0, 1, 2} : Rank[<<e, q>>] < Rank[End]
    BY RankIs
  <2> QED BY ZenonT(60), <2>1, RankIs, SpotsAre
<1>15. Rank[<<Root, 0>>] = 3 /\ Rank[<<Root, 1>>] = 4 /\ Rank[<<Root, 2>>] = 5
  <2>1. \A q \in {0, 1, 2} : Rank[<<Root, q>>] = 3 * Place(Root) + q
    BY <1>2, RankIs
  <2>2. Rank[<<Root, 0>>] = 3 * 1 + 0 /\ Rank[<<Root, 1>>] = 3 * 1 + 1 /\ Rank[<<Root, 2>>] = 3 * 1 + 2
    BY <1>2, <2>1
  <2> QED BY <2>2
<1>16. ASSUME NEW x \in Spots, Rank[x] <= 3 PROVE x = <<Root, 0>>
  <2>1. CASE x = End
    <3>1. Rank[x] = 3 * Len(arm) + 3 /\ Len(arm) \in Nat \ {0}
      BY <2>1, RankIs, ArmIs
    <3> QED BY <1>16, <3>1
  <2>2. ASSUME NEW e \in Arm, NEW q \in {0, 1, 2}, x = <<e, q>> PROVE x = <<Root, 0>>
    <3>1. Rank[x] = 3 * Place(e) + q /\ Place(e) \in 1 .. Len(arm)
      BY <2>2, RankIs, ArmIs
    <3>2. PICK k \in Nat : k = Place(e) /\ k >= 1
      BY <3>1, ArmIs
    <3>3. 3 * k + q <= 3
      BY <1>16, <3>1, <3>2
    <3>4. k = 1 /\ q = 0
      BY <3>2, <3>3
    <3>5. e = Root
      <4>1. Place(e) = 1 /\ arm[Place(e)] = e /\ arm[Place(Root)] = Root
        BY <1>2, <3>2, <3>4, ArmIs
      <4> QED BY <1>2, <4>1
    <3> QED BY <2>2, <3>4, <3>5
  <2> QED BY <2>1, <2>2, SpotsAre
<1>17. CASE d = Root
  <2>1. Enqueue(Root, f) /\ UNCHANGED <<pre, out>>
    BY <1>3, <1>17 DEF SendCommand
  <2>2. PICK K : K = Commands'
    OBVIOUS
  <2>3. /\ servo_queue \in [Cubes -> Seq(K)]
        /\ \A e \in Cubes : servo_queue[e] \in Seq(For(K, e)) /\ Len(servo_queue[e]) <= QueueLen
    <3>1. Seq(Commands) \subseteq Seq(K)
      BY <1>4, <2>2
    <3>2. \A e \in Cubes : Seq(For(Commands, e)) \subseteq Seq(For(K, e))
      BY <1>4, <2>2, ForGrows
    <3> QED BY <3>1, <3>2 DEF Types
  <2>4. f \in K /\ Root \in Cubes /\ f.to = Root
    BY <1>2, <1>4, <1>5, <1>17, <2>2
  <2>5. /\ servo_queue'[Root] = Append(servo_queue[Root], f)
        /\ \A e \in Cubes : e # Root => servo_queue'[e] = servo_queue[e]
    BY SMTT(60), <2>1, <2>3, <2>4, EnqueueIs
  <2>6. CASE c # Root
    <3>1. servo_queue'[c] = servo_queue[c]
      BY <2>5, <2>6
    <3> QED BY <1>1, <2>1, <3>1, StillInLine
  <2>7. CASE c = Root
    <3>1. Puts(P, Q, End, f)
      <4>1. Q[End] = Append(P[End], f)
        BY <1>7, <1>8, <2>5, <2>7
      <4>2. ASSUME NEW x \in Spots, x # End PROVE Q[x] = P[x]
        <5>1. \A e \in Arm : Q[<<e, 1>>] = P[<<e, 1>>] /\ Q[<<e, 2>>] = P[<<e, 2>>]
          BY <1>7, <1>8, <2>1
        <5> QED BY <1>9, <4>2, <5>1, SpotIs
      <4> QED BY <1>7, <4>1, <4>2 DEF Puts
    <3>2. Newer(P, Rank, End, f, c)
      <4>1. ASSUME NEW x \in Spots, Rank[x] < Rank[End] PROVE Nos(P[x], c) = {}
        <5>1. x # End
          BY <1>14, <4>1
        <5>2. CASE Rank[x] <= 3
          BY <1>13, <1>16, <5>2
        <5>3. CASE 3 < Rank[x]
          <6>1. <<c, 0>> \in Spots /\ Rank[<<c, 0>>] < Rank[x]
            BY <1>2, <1>14, <1>15, <2>7, <5>3
          <6> QED BY <1>7, <1>10, <5>1, <6>1 DEF NonePast, End
        <5> QED BY <1>14, <5>2, <5>3
      <4> QED BY <1>7, <1>11, <4>1 DEF Newer
    <3> QED BY <1>1, <1>4, <1>6, <1>12, <1>14, <3>1, <3>2, PutInLine
  <2> QED BY <2>6, <2>7
<1>18. CASE d # Root
  <2>1. Send(Root, "down", f) /\ UNCHANGED servo_queue
    BY <1>3, <1>18 DEF SendCommand
  <2>2. PICK K : K = Commands'
    OBVIOUS
  <2>3. K = IF "down" = "down" THEN K ELSE Answers
    OBVIOUS
  <2>4. /\ pre \in Queues(K, Answers) /\ out \in Queues(K, Answers)
        /\ \A e \in Cubes, s \in Sides : Len(out[e][s]) <= QueueLen
        /\ overtaken \subseteq Cubes /\ f \in K
    BY <1>4, <2>2, QueuesGrow DEF Types
  <2>5. f.to \in Cubes /\ f.from \in Cubes /\ Root \in Cubes
    BY <1>2, <1>5
  <2>6. /\ \A e \in Cubes, t \in Sides : e # Root \/ t # "down"
               => pre'[e][t] = pre[e][t] /\ out'[e][t] = out[e][t]
        /\ \/ /\ pre'[Root]["down"] = Append(pre[Root]["down"], f)
              /\ out'[Root]["down"] = out[Root]["down"]
           \/ /\ pre'[Root]["down"] = pre[Root]["down"]
              /\ out'[Root]["down"] = Append(out[Root]["down"], f)
              /\ f.to \notin overtaken'
                   => \A i \in DOMAIN pre[Root]["down"] : ~SameWay(pre[Root]["down"][i], f)
    BY <1>2, <1>5, <2>1, <2>3, <2>4, <2>5, SendIs
  <2>7. \A e \in Arm : e # Root => Q[<<e, 1>>] = P[<<e, 1>>] /\ Q[<<e, 2>>] = P[<<e, 2>>]
    <3>1. \A e \in Arm : e # Root => pre'[e]["down"] = pre[e]["down"] /\ out'[e]["down"] = out[e]["down"]
      BY <1>2, <2>6
    <3> QED BY <1>7, <1>8, <3>1
  <2>8. Q[End] = P[End]
    BY <1>7, <1>8, <2>1
  <2>9. ASSUME f.to = c, c \in Arm PROVE 5 <= Rank[<<c, 0>>]
    <3>1. c # Root
      BY <1>5, <1>18, <2>9
    <3>2. PICK k \in Nat : k = Place(c) /\ k >= 1
      BY <2>9, ArmIs
    <3>3. k # 1
      BY <1>2, <2>9, <3>1, <3>2, ArmIs
    <3>4. Rank[<<c, 0>>] = 3 * Place(c) + 0
      BY <2>9, RankIs
    <3>5. 5 <= 3 * k + 0
      BY <3>2, <3>3
    <3> QED BY <3>2, <3>4, <3>5
  <2>10. CASE /\ pre'[Root]["down"] = Append(pre[Root]["down"], f)
              /\ out'[Root]["down"] = out[Root]["down"]
    <3>1. PICK m : m = <<Root, 1>>
      OBVIOUS
    <3>2. m \in Spots /\ m # End /\ Rank[m] = 4
      BY <1>2, <1>14, <1>15, <3>1
    <3>3. Puts(P, Q, m, f)
      <4>1. Q[m] = Append(P[m], f)
        BY <1>2, <1>7, <1>8, <2>10, <3>1
      <4>2. Q[<<Root, 2>>] = P[<<Root, 2>>]
        BY <1>2, <1>7, <1>8, <2>10
      <4>3. ASSUME NEW x \in Spots, x # m PROVE Q[x] = P[x]
        BY <1>9, <2>7, <2>8, <3>1, <4>2, <4>3, SpotIs
      <4> QED BY <1>7, <4>1, <4>3 DEF Puts
    <3>4. Newer(P, Rank, m, f, c)
      <4>1. ASSUME NEW x \in Spots, Rank[x] < Rank[m] PROVE Nos(P[x], c) = {}
        BY <1>13, <1>14, <1>16, <3>2, <4>1
      <4> QED BY <1>7, <1>11, <4>1 DEF Newer
    <3>5. f.to = c /\ m # End /\ c \in Arm => Rank[m] <= Rank[<<c, 0>>]
      <4> SUFFICES ASSUME f.to = c, c \in Arm PROVE Rank[m] <= Rank[<<c, 0>>]
        OBVIOUS
      <4>1. PICK k \in Nat : k = Rank[<<c, 0>>]
        BY <1>14
      <4>2. 5 <= k
        BY <2>9, <4>1
      <4>3. 4 <= k
        BY <4>2
      <4> QED BY <3>2, <4>1, <4>3
    <3> QED BY <1>1, <1>4, <1>6, <1>12, <3>2, <3>3, <3>4, <3>5, PutInLine
  <2>11. CASE /\ pre'[Root]["down"] = pre[Root]["down"]
              /\ out'[Root]["down"] = Append(out[Root]["down"], f)
              /\ f.to \notin overtaken'
                   => \A i \in DOMAIN pre[Root]["down"] : ~SameWay(pre[Root]["down"][i], f)
    <3>1. PICK m : m = <<Root, 2>>
      OBVIOUS
    <3>2. m \in Spots /\ m # End /\ Rank[m] = 5
      BY <1>2, <1>14, <1>15, <3>1
    <3>3. Puts(P, Q, m, f)
      <4>1. Q[m] = Append(P[m], f)
        BY <1>2, <1>7, <1>8, <2>11, <3>1
      <4>2. Q[<<Root, 1>>] = P[<<Root, 1>>]
        BY <1>2, <1>7, <1>8, <2>11
      <4>3. ASSUME NEW x \in Spots, x # m PROVE Q[x] = P[x]
        BY <1>9, <2>7, <2>8, <3>1, <4>2, <4>3, SpotIs
      <4> QED BY <1>7, <4>1, <4>3 DEF Puts
    <3>4. Newer(P, Rank, m, f, c)
      <4>1. ASSUME f.to = c, NEW x \in Spots, Rank[x] < Rank[m] PROVE Nos(P[x], c) = {}
        <5>1. CASE Rank[x] <= 3
          BY <1>13, <1>16, <5>1
        <5>2. CASE Rank[x] = 4
          <6>1. x = <<Root, 1>>
            BY <1>2, <1>14, <1>15, <5>2, RankIs
          <6>2. P[x] = pre[Root]["down"] /\ pre[Root]["down"] \in Seq(Commands)
            BY <1>2, <1>7, <6>1
          <6>3. \A i \in DOMAIN pre[Root]["down"] : pre[Root]["down"][i].to # c
            <7> SUFFICES ASSUME NEW i \in DOMAIN pre[Root]["down"] PROVE pre[Root]["down"][i].to # f.to
              BY <4>1
            <7>1. PICK g \in Commands : g = pre[Root]["down"][i]
              BY <6>2
            <7>2. ~SameWay(g, f)
              BY <2>11, <4>1, <7>1
            <7>3. g.kind = "servo" /\ g.from = Root
              BY CommandIs
            <7> QED BY <1>5, <7>1, <7>2, <7>3 DEF SameWay
          <6>4. Nos(pre[Root]["down"], c) = {}
            BY <6>3 DEF Nos
          <6> QED BY <6>2, <6>4
        <5>3. Rank[x] <= 3 \/ Rank[x] = 4
          BY <1>14, <3>2, <4>1
        <5> QED BY <5>1, <5>2, <5>3
      <4> QED BY <1>7, <1>11, <4>1 DEF Newer
    <3>5. f.to = c /\ m # End /\ c \in Arm => Rank[m] <= Rank[<<c, 0>>]
      BY <2>9, <3>2
    <3> QED BY <1>1, <1>4, <1>6, <1>12, <3>2, <3>3, <3>4, <3>5, PutInLine
  <2> QED BY <2>6, <2>10, <2>11
<1> QED BY <1>17, <1>18

LEMMA ExecuteInLine ==
  ASSUME Types, Types', NEW c \in Cubes, InLine(c), NEW d \in Cubes, Execute(d)
  PROVE  InLine(c)'
<1>1. UNCHANGED <<arm, sent, pre, out, in>>
  BY DEF Execute, userVars
<1>2. /\ servo_queue[d] # <<>> /\ servo_queue'[d] = Tail(servo_queue[d])
      /\ Head(servo_queue[d]) \in For(Commands, d) /\ obeyed'[d] = Head(servo_queue[d]).no
      /\ \A e \in Cubes : e # d => servo_queue'[e] = servo_queue[e] /\ obeyed'[e] = obeyed[e]
  BY ExecuteIs
<1>3. CASE c # d
  <2>1. servo_queue'[c] = servo_queue[c] /\ obeyed'[c] = obeyed[c]
    BY <1>2, <1>3
  <2> QED BY <1>1, <2>1, StillInLine
<1>4. CASE c = d
  <2>1. PICK P, Q : P = Held(c) /\ Q = Held(c)'
    OBVIOUS
  <2>2. /\ P[End] = servo_queue[c] /\ DOMAIN P = Spots
        /\ \A e \in Arm : /\ P[<<e, 0>>] = in[e]["up"] /\ P[<<e, 1>>] = pre[e]["down"]
                          /\ P[<<e, 2>>] = out[e]["down"]
    BY <2>1, HeldIs
  <2>3. /\ Q[End] = servo_queue'[c] /\ DOMAIN Q = Spots
        /\ \A e \in Arm : /\ Q[<<e, 0>>] = in'[e]["up"] /\ Q[<<e, 1>>] = pre'[e]["down"]
                          /\ Q[<<e, 2>>] = out'[e]["down"]
    BY <1>1, <2>1, HeldNext
  <2>4. \A e \in Arm : /\ Q[<<e, 0>>] = P[<<e, 0>>] /\ Q[<<e, 1>>] = P[<<e, 1>>]
                       /\ Q[<<e, 2>>] = P[<<e, 2>>]
    BY <1>1, <2>2, <2>3
  <2>5. \A x \in Spots : x # End => Q[x] = P[x]
    BY <2>4, SpotIs
  <2>6. Takes(P, Q, End)
    BY <1>2, <1>4, <2>2, <2>3, <2>5 DEF Takes
  <2>7. Head(P[End]).to = c /\ obeyed'[c] = Head(P[End]).no /\ End \in Spots
    BY <1>2, <1>4, <2>2, RankIs DEF For
  <2> QED BY <1>1, <2>1, <2>6, <2>7, TakeInLine
<1> QED BY <1>3, <1>4

LEMMA FlushInLine ==
  ASSUME Types, Types', Gone, NEW c \in Cubes, InLine(c), NEW d \in Cubes, NEW t \in LinkTasks, Flush(d, t)
  PROVE  InLine(c)'
<1>1. UNCHANGED <<arm, sent, in, servo_queue, obeyed>>
  BY DEF Flush, userVars, history
<1>2. Arm \subseteq Cubes /\ "down" \in Sides
  BY ArmIs DEF Sides
<1>3. PICK s \in Sides :
         /\ d \in Arm
         /\ \/ UNCHANGED <<pre, out>>
            \/ /\ pre[d][s] # <<>> /\ pre'[d][s] = Tail(pre[d][s])
               /\ out'[d][s] = Append(out[d][s], Head(pre[d][s]))
               /\ \A e \in Cubes, u \in Sides : e # d \/ u # s
                     => pre'[e][u] = pre[e][u] /\ out'[e][u] = out[e][u]
  <2>1. PICK s \in Sides : s = linker[d][t].side
    BY LinkerIs
  <2> QED BY <2>1, FlushIs
<1>4. CASE \A e \in Arm : pre'[e]["down"] = pre[e]["down"] /\ out'[e]["down"] = out[e]["down"]
  BY <1>1, <1>4, StillInLine
<1>5. CASE /\ s = "down" /\ pre[d]["down"] # <<>> /\ pre'[d]["down"] = Tail(pre[d]["down"])
           /\ out'[d]["down"] = Append(out[d]["down"], Head(pre[d]["down"]))
           /\ \A e \in Arm : e # d => pre'[e]["down"] = pre[e]["down"] /\ out'[e]["down"] = out[e]["down"]
  <2>1. PICK P, Q : P = Held(c) /\ Q = Held(c)'
    OBVIOUS
  <2>2. /\ P[End] = servo_queue[c] /\ DOMAIN P = Spots
        /\ \A e \in Arm : /\ P[<<e, 0>>] = in[e]["up"] /\ P[<<e, 1>>] = pre[e]["down"]
                          /\ P[<<e, 2>>] = out[e]["down"]
    BY <2>1, HeldIs
  <2>3. /\ Q[End] = servo_queue'[c] /\ DOMAIN Q = Spots
        /\ \A e \in Arm : /\ Q[<<e, 0>>] = in'[e]["up"] /\ Q[<<e, 1>>] = pre'[e]["down"]
                          /\ Q[<<e, 2>>] = out'[e]["down"]
    BY <1>1, <2>1, HeldNext
  <2>4. PICK n, m : n = <<d, 1>> /\ m = <<d, 2>>
    OBVIOUS
  <2>5. PICK p \in Nat : p = Place(d)
    BY <1>3, ArmIs
  <2>6. n \in Spots /\ n # End /\ m \in Spots /\ m # End /\ Rank[n] = 3 * p + 1 /\ Rank[m] = 3 * p + 2
    BY <1>3, <2>4, <2>5, RankIs
  <2>7. ASSUME NEW x \in Spots, x # n, x # m PROVE Q[x] = P[x]
    <3>1. Q[End] = P[End] /\ \A e \in Arm : Q[<<e, 0>>] = P[<<e, 0>>]
      BY <1>1, <2>2, <2>3
    <3>2. \A e \in Arm : e # d => Q[<<e, 1>>] = P[<<e, 1>>] /\ Q[<<e, 2>>] = P[<<e, 2>>]
      BY ZenonT(60), <1>5, <2>2, <2>3
    <3>3. \A e \in Arm : x = <<e, 1>> \/ x = <<e, 2>> => e # d
      BY <2>4, <2>7
    <3> QED BY <3>1, <3>2, <3>3, SpotIs
  <2>8. Shifts(P, Q, n, m)
    <3>1. P[n] = pre[d]["down"] /\ Q[n] = pre'[d]["down"] /\ P[m] = out[d]["down"] /\ Q[m] = out'[d]["down"]
      BY <1>3, <2>2, <2>3, <2>4
    <3> QED BY <1>5, <2>2, <2>7, <3>1 DEF Shifts
  <2>9. Passes(P, Rank, n, m, c)
    <3>1. \A x \in Spots : Rank[x] \in Nat
      BY RankIs
    <3>2. \A x \in Spots : ~(Rank[n] < Rank[x] /\ Rank[x] < Rank[m])
      BY <2>6, <3>1
    <3> QED BY <2>2, <3>2 DEF Passes
  <2>10. ASSUME c \in Arm, Rank[n] <= Rank[<<c, 0>>] PROVE Rank[m] <= Rank[<<c, 0>>]
    <3>1. PICK k \in Nat : k = Place(c)
      BY <2>10, ArmIs
    <3>2. Rank[<<c, 0>>] = 3 * k + 0
      BY <2>10, <3>1, RankIs
    <3>3. 3 * p + 1 <= 3 * k + 0
      BY <2>6, <2>10, <3>2
    <3>4. 3 * p + 2 <= 3 * k + 0
      BY <3>3
    <3> QED BY <2>6, <3>2, <3>4
  <2>11. Rank[n] < Rank[m]
    BY <2>6
  <2> QED BY <1>1, <2>1, <2>6, <2>8, <2>9, <2>10, <2>11, ShiftInLine
<1>6. s # "down" => \A e \in Arm : pre'[e]["down"] = pre[e]["down"] /\ out'[e]["down"] = out[e]["down"]
  BY <1>2, <1>3
<1>7. \/ UNCHANGED <<pre, out>>
      \/ s # "down"
      \/ /\ s = "down" /\ pre[d]["down"] # <<>> /\ pre'[d]["down"] = Tail(pre[d]["down"])
         /\ out'[d]["down"] = Append(out[d]["down"], Head(pre[d]["down"]))
         /\ \A e \in Arm : e # d => pre'[e]["down"] = pre[e]["down"] /\ out'[e]["down"] = out[e]["down"]
  BY <1>2, <1>3
<1> QED BY <1>4, <1>5, <1>6, <1>7

LEMMA QuietInLine ==
  ASSUME Types, Types', Gone, NEW c \in Cubes, InLine(c), NEW d \in Cubes, NEW t \in LinkTasks,
         Quietly(d, t) \/ Post(d, t) \/ SendAck(d) \/ HandleReport
  PROVE  InLine(c)'
<1>1. UNCHANGED <<arm, in, servo_queue, obeyed>>
  BY QuietlyIs DEF Post, SendAck, HandleReport, userVars, frameVars, history
<1>2. Arm \subseteq Cubes
  BY ArmIs
<1>3. CASE Quietly(d, t) \/ HandleReport
  BY <1>1, <1>3, QuietlyIs, StillInLine DEF HandleReport, frameVars
<1>4. CASE Post(d, t)
  <2>1. \A e \in Cubes : pre'[e]["down"] = pre[e]["down"] /\ out'[e]["down"] = out[e]["down"]
    BY <1>4, PostIs
  <2> QED BY <1>1, <1>2, <2>1, StillInLine
<1>5. CASE SendAck(d)
  <2>1. moved[d] /\ d \in Arm
    BY <1>5 DEF SendAck, Gone
  <2>2. PICK f : f = Frame("ack", d, id[d]["up"], 0, None)
    OBVIOUS
  <2>3. Send(d, "up", f)
    BY <1>5, <2>2 DEF SendAck
  <2>4. f \in Answers /\ (id[d]["up"] # None => f.to \in Cubes)
    <3>1. id[d]["up"] \in Cubes \cup {None}
      BY DEF Types, Sides
    <3> QED BY <2>2, <3>1 DEF Answers, Frame
  <2>5. \A e \in Cubes : pre'[e]["down"] = pre[e]["down"] /\ out'[e]["down"] = out[e]["down"]
    BY <2>1, <2>3, <2>4, AnswerSent
  <2> QED BY <1>1, <1>2, <2>5, StillInLine
<1> QED BY <1>3, <1>4, <1>5

\* The spots of another arm, and the queues of c there.
LEMMA OtherLine ==
  ASSUME Types, Types', NEW c \in Cubes, NEW Q, Q = Held(c)', NEW S, S = Spots', NEW rank, rank = Rank',
         NEW A, A = Arm'
  PROVE  /\ End \in S /\ Q[End] = servo_queue'[c]
         /\ \A x \in S : \/ x = End
                         \/ \E d \in A : x = <<d, 0>> \/ x = <<d, 1>> \/ x = <<d, 2>>
         /\ \A d \in A, q \in {0, 1, 2} : /\ <<d, q>> \in S /\ <<d, q>> # End
                                          /\ rank[<<d, q>>] = 3 * Place(d)' + q
                                          /\ rank[<<d, q>>] < rank[End]
         /\ rank \in [S -> Nat]
         /\ \A d \in A : /\ Q[<<d, 0>>] = in'[d]["up"] /\ Q[<<d, 1>>] = pre'[d]["down"]
                         /\ Q[<<d, 2>>] = out'[d]["down"]
<1>1. LineIsRight'
  BY LineWillBe
<1>2. End' = End
  BY DEF End
<1>3. \A x \in S : x = End \/ \E d \in A, q \in {0, 1, 2} : x = <<d, q>>
  BY <1>1, <1>2 DEF LineIsRight
<1>4. ASSUME NEW x \in S, x # End PROVE \E d \in A : x = <<d, 0>> \/ x = <<d, 1>> \/ x = <<d, 2>>
  BY <1>3, <1>4
<1>5. \A d \in A, q \in {0, 1, 2} : /\ <<d, q>> \in S /\ <<d, q>> # End
                                    /\ rank[<<d, q>>] = 3 * Place(d)' + q
                                    /\ rank[<<d, q>>] < rank[End]
  BY <1>1, <1>2 DEF LineIsRight
<1>6. End \in S /\ Q[End] = servo_queue'[c] /\ rank \in [S -> Nat]
  BY <1>1, <1>2 DEF LineIsRight
<1>7. \A d \in A : /\ Q[<<d, 0>>] = in'[d]["up"] /\ Q[<<d, 1>>] = pre'[d]["down"]
                   /\ Q[<<d, 2>>] = out'[d]["down"]
  BY ZenonT(60), <1>1 DEF LineIsRight
<1> QED BY <1>4, <1>5, <1>6, <1>7

\* Cubes that stay keep their places, so spots stay in order.
LEMMA OrderKept ==
  ASSUME Types, Types', NEW S, S = Spots', NEW A, A = Arm',
         \A d \in A : d \in Arm => Place(d)' = Place(d)
  PROVE  \A x, y \in S : x \in Spots /\ y \in Spots /\ Rank'[x] < Rank'[y] => Rank[x] < Rank[y]
<1> SUFFICES ASSUME NEW x \in S, NEW y \in S, x \in Spots, y \in Spots, Rank'[x] < Rank'[y]
             PROVE  Rank[x] < Rank[y]
  OBVIOUS
<1>1. PICK rank : rank = Rank'
  OBVIOUS
<1>2. /\ End \in S /\ rank \in [S -> Nat]
      /\ \A z \in S : \/ z = End
                      \/ \E d \in A : z = <<d, 0>> \/ z = <<d, 1>> \/ z = <<d, 2>>
      /\ \A d \in A, q \in {0, 1, 2} : /\ rank[<<d, q>>] = 3 * Place(d)' + q
                                       /\ rank[<<d, q>>] < rank[End]
  <2>1. PICK c \in Cubes : TRUE
    BY ConstantsAre
  <2>2. PICK Q : Q = Held(c)'
    OBVIOUS
  <2> QED BY <1>1, <2>2, OtherLine
<1>3. \A d \in Arm, q \in {0, 1, 2} : /\ Rank[<<d, q>>] = 3 * Place(d) + q
                                      /\ Rank[<<d, q>>] < Rank[End]
  BY RankIs
<1>4. \A z \in S : z \in Spots /\ z # End => Rank[z] = rank[z] /\ Rank[z] < Rank[End] /\ rank[z] < rank[End]
  <2> SUFFICES ASSUME NEW z \in S, z \in Spots, z # End
               PROVE  Rank[z] = rank[z] /\ Rank[z] < Rank[End] /\ rank[z] < rank[End]
    OBVIOUS
  <2>1. PICK d \in Arm, q \in {0, 1, 2} : z = <<d, q>>
    BY SpotsAre
  <2>2. PICK e \in A, r \in {0, 1, 2} : z = <<e, r>>
    BY <1>2
  <2>3. d = e /\ q = r
    BY <2>1, <2>2
  <2>4. Place(d)' = Place(d)
    BY <2>3
  <2>5. Rank[z] = 3 * Place(d) + q /\ Rank[z] < Rank[End]
    BY <1>3, <2>1
  <2>6. rank[z] = 3 * Place(e)' + r /\ rank[z] < rank[End]
    BY <1>2, <2>2
  <2>7. Place(e)' = Place(d)
    BY <2>3, <2>4
  <2>8. rank[z] = 3 * Place(d) + q
    BY <2>3, <2>6, <2>7
  <2> QED BY <2>5, <2>6, <2>8
<1>5. CASE y = End
  <2>1. x # End
    BY <1>1, <1>2, <1>5
  <2> QED BY <1>4, <1>5, <2>1
<1>6. CASE x = End /\ y # End
  <2>1. rank[y] < rank[End] /\ rank[End] < rank[y]
    BY <1>1, <1>4, <1>6
  <2>2. rank[y] \in Nat /\ rank[End] \in Nat
    BY <1>2
  <2> QED BY <2>1, <2>2
<1>7. CASE x # End /\ y # End
  BY <1>1, <1>4, <1>7
<1> QED BY <1>5, <1>6, <1>7

LEMMA DetachInLine ==
  ASSUME Types, Types', Gone, NEW c \in Cubes, InLine(c), NEW d \in Cubes, Detach(d)
  PROVE  InLine(c)'
<1>1. obeyed'[c] = obeyed[c]
  BY DEF Detach
<1>2. PICK P, Q, S, A : P = Held(c) /\ Q = Held(c)' /\ S = Spots' /\ A = Arm'
  OBVIOUS
<1>3. /\ A \subseteq Arm /\ \A e \in A : Place(e)' = Place(e)
      /\ \A e \in A : /\ \A s \in Sides : /\ pre'[e][s] = pre[e][s] /\ out'[e][s] = out[e][s]
                                          /\ in'[e][s] = in[e][s]
                      /\ servo_queue'[e] = servo_queue[e]
      /\ \A e \in Cubes \ A : servo_queue'[e] = <<>>
  BY <1>2, DetachIs
<1>4. /\ P[End] = servo_queue[c] /\ End \in Spots
      /\ \A e \in Arm : /\ P[<<e, 0>>] = in[e]["up"] /\ P[<<e, 1>>] = pre[e]["down"]
                        /\ P[<<e, 2>>] = out[e]["down"]
      /\ \A e \in Arm, q \in {0, 1, 2} : <<e, q>> \in Spots
  BY <1>2, HeldIs, RankIs
<1>5. PICK rank : rank = Rank'
  OBVIOUS
<1>6. /\ Q[End] = servo_queue'[c]
      /\ \A x \in S : \/ x = End
                      \/ \E e \in A : x = <<e, 0>> \/ x = <<e, 1>> \/ x = <<e, 2>>
      /\ \A e \in A : /\ Q[<<e, 0>>] = in'[e]["up"] /\ Q[<<e, 1>>] = pre'[e]["down"]
                      /\ Q[<<e, 2>>] = out'[e]["down"]
  BY <1>2, <1>5, OtherLine
<1>7. \A e \in A : /\ Q[<<e, 0>>] = P[<<e, 0>>] /\ Q[<<e, 1>>] = P[<<e, 1>>]
                   /\ Q[<<e, 2>>] = P[<<e, 2>>]
  BY <1>3, <1>4, <1>6 DEF Sides
<1>8. Q[End] = <<>> \/ Q[End] = P[End]
  BY <1>3, <1>4, <1>6
<1>9. ASSUME NEW x \in S PROVE x \in Spots /\ (Q[x] = <<>> \/ Q[x] = P[x])
  <2>1. CASE x = End
    BY <1>4, <1>8, <2>1
  <2>2. ASSUME NEW e \in A PROVE /\ x = <<e, 0>> => x \in Spots /\ Q[x] = P[x]
                                 /\ x = <<e, 1>> => x \in Spots /\ Q[x] = P[x]
                                 /\ x = <<e, 2>> => x \in Spots /\ Q[x] = P[x]
    BY ZenonT(60), <1>3, <1>4, <1>7
  <2> QED BY <1>6, <2>1, <2>2
<1>10. \A x, y \in S : x \in Spots /\ y \in Spots /\ Rank'[x] < Rank'[y] => Rank[x] < Rank[y]
  BY <1>2, <1>3, OrderKept
<1>11. /\ \A x \in S : Q[x] = <<>> \/ (x \in Spots /\ Q[x] = P[x])
       /\ <<c, 0>> \in S => <<c, 0>> \in Spots
  BY <1>9
<1> QED BY <1>1, <1>2, <1>10, <1>11, OtherArmInLine

LEMMA AttachInLine ==
  ASSUME Types, Types', Gone, NEW c \in Cubes, InLine(c), NEW d \in Cubes, Attach(d)
  PROVE  InLine(c)'
<1>1. UNCHANGED <<pre, out, in, servo_queue, obeyed>>
  BY DEF Attach, frameVars, history
<1>2. PICK P, Q, S, A : P = Held(c) /\ Q = Held(c)' /\ S = Spots' /\ A = Arm'
  OBVIOUS
<1>3. /\ d \notin Arm /\ A = Arm \cup {d} /\ Place(d)' = Len(arm) + 1
      /\ \A e \in Arm : Place(e)' = Place(e)
  BY <1>2, AttachIs
<1>4. /\ P[End] = servo_queue[c] /\ End \in Spots
      /\ \A e \in Arm : /\ P[<<e, 0>>] = in[e]["up"] /\ P[<<e, 1>>] = pre[e]["down"]
                        /\ P[<<e, 2>>] = out[e]["down"]
      /\ \A e \in Arm, q \in {0, 1, 2} : <<e, q>> \in Spots
  BY <1>2, HeldIs, RankIs
<1>5. PICK rank : rank = Rank'
  OBVIOUS
<1>6. /\ Q[End] = servo_queue'[c]
      /\ \A x \in S : \/ x = End
                      \/ \E e \in A : x = <<e, 0>> \/ x = <<e, 1>> \/ x = <<e, 2>>
      /\ \A e \in A : /\ Q[<<e, 0>>] = in'[e]["up"] /\ Q[<<e, 1>>] = pre'[e]["down"]
                      /\ Q[<<e, 2>>] = out'[e]["down"]
      /\ \A e \in A, q \in {0, 1, 2} : rank[<<e, q>>] = 3 * Place(e)' + q
  BY <1>2, <1>5, OtherLine
<1>7. \A e \in Arm : /\ Q[<<e, 0>>] = P[<<e, 0>>] /\ Q[<<e, 1>>] = P[<<e, 1>>]
                     /\ Q[<<e, 2>>] = P[<<e, 2>>]
  BY ZenonT(60), <1>1, <1>3, <1>4, <1>6
<1>8. Q[<<d, 0>>] = <<>> /\ Q[<<d, 1>>] = <<>> /\ Q[<<d, 2>>] = <<>>
  BY <1>1, <1>3, <1>6 DEF Gone, Sides
<1>9. ASSUME NEW x \in S PROVE Q[x] = <<>> \/ (x \in Spots /\ Q[x] = P[x])
  <2>1. CASE x = End
    BY <1>1, <1>4, <1>6, <2>1
  <2>2. ASSUME NEW e \in Arm PROVE /\ x = <<e, 0>> => x \in Spots /\ Q[x] = P[x]
                                   /\ x = <<e, 1>> => x \in Spots /\ Q[x] = P[x]
                                   /\ x = <<e, 2>> => x \in Spots /\ Q[x] = P[x]
    BY <1>4, <1>7
  <2>3. x = <<d, 0>> \/ x = <<d, 1>> \/ x = <<d, 2>> => Q[x] = <<>>
    BY <1>8
  <2> QED BY <1>3, <1>6, <2>1, <2>2, <2>3
<1>10. \A x, y \in S : x \in Spots /\ y \in Spots /\ Rank'[x] < Rank'[y] => Rank[x] < Rank[y]
  BY <1>2, <1>3, OrderKept
<1>11. ASSUME <<c, 0>> \in S, <<c, 0>> \notin Spots, NEW x \in S, Rank'[<<c, 0>>] < Rank'[x], x # End
       PROVE  Q[x] = <<>>
  <2>1. c = d
    <3>1. c # None /\ (c \in Arm => <<c, 0>> \in Spots)
      BY <1>4, ConstantsAre
    <3>2. c \in A
      BY <1>6, <1>11, <3>1 DEF End
    <3> QED BY <1>3, <1>11, <3>1, <3>2
  <2>2. rank[<<c, 0>>] = 3 * (Len(arm) + 1) + 0
    BY ZenonT(60), <1>3, <1>6, <2>1
  <2>3. ASSUME NEW e \in Arm, NEW q \in {0, 1, 2}, x = <<e, q>> PROVE FALSE
    <3>1. rank[x] = 3 * Place(e) + q /\ Place(e) \in 1 .. Len(arm)
      BY ZenonT(60), <1>3, <1>6, <2>3, ArmIs
    <3>2. PICK l \in Nat : l = Len(arm)
      BY ArmIs
    <3>3. PICK k \in 1 .. l : k = Place(e)
      BY <3>1, <3>2
    <3>4. 3 * (l + 1) + 0 < 3 * k + q
      BY <1>5, <1>11, <2>2, <3>1, <3>2, <3>3
    <3> QED BY <3>4
  <2>4. \A e \in Arm : x # <<e, 0>> /\ x # <<e, 1>> /\ x # <<e, 2>>
    BY <2>3
  <2> QED BY <1>3, <1>6, <1>8, <1>11, <2>4
<1> QED BY <1>1, <1>2, <1>9, <1>10, <1>11, OtherArmInLine
-----------------------------------------------------------------------------
(* The theorems *)

LEMMA OvertakenGrows == ASSUME Types, Gone, [Next]_vars
                        PROVE  overtaken \subseteq overtaken'
<1>1. CASE UNCHANGED vars
  BY <1>1 DEF vars
<1>2. ASSUME NEW c, NEW s, NEW f, Send(c, s, f) PROVE overtaken \subseteq overtaken'
  BY <1>2 DEF Send
<1>3. ASSUME NEW c \in Cubes, NEW s \in Sides, Wire(c, s) PROVE overtaken \subseteq overtaken'
  BY <1>2, <1>3 DEF Wire, Transmit, Receive
<1>4. ASSUME NEW c \in Cubes, NEW t \in LinkTasks, Link(c, t) PROVE overtaken \subseteq overtaken'
  <2>1. Post(c, t) => overtaken \subseteq overtaken'
    BY PostIs
  <2>2. Quietly(c, t) => overtaken \subseteq overtaken'
    BY QuietlyIs
  <2> QED BY <1>4, <2>1, <2>2 DEF Link, Flush, Quietly
<1>5. ASSUME NEW c \in Cubes, Servo(c) PROVE overtaken \subseteq overtaken'
  BY <1>2, <1>5 DEF Servo, Execute, SendAck
<1>6. ASSUME NEW c \in Cubes, SendCommand(c) \/ Detach(c) \/ Attach(c) PROVE overtaken \subseteq overtaken'
  BY <1>2, <1>6 DEF SendCommand, Detach, Attach
<1>7. HandleReport => overtaken \subseteq overtaken'
  BY DEF HandleReport
<1> QED BY <1>1, <1>3, <1>4, <1>5, <1>6, <1>7 DEF Next, System, User

LEMMA LineKept ==
  ASSUME IInv, [Next]_vars, NEW c \in Cubes \ overtaken'
  PROVE  InLine(c)'
<1>1. Types /\ Gone /\ Types' /\ InLine(c)
  BY TypesKept, OvertakenGrows DEF IInv
<1>2. CASE UNCHANGED vars
  <2>1. UNCHANGED <<arm, pre, out, in, servo_queue, obeyed>>
    BY <1>2 DEF vars, userVars, frameVars, history
  <2> QED BY <1>1, <2>1, StillInLine
<1>3. ASSUME NEW d \in Cubes, NEW s \in Sides, Wire(d, s) PROVE InLine(c)'
  BY <1>1, <1>3, TransmitInLine, ReceiveInLine DEF Wire
<1>4. ASSUME NEW d \in Cubes, NEW t \in LinkTasks, Link(d, t) PROVE InLine(c)'
  BY <1>1, <1>4, QuietInLine, FlushInLine DEF Link, Quietly
<1>5. ASSUME NEW d \in Cubes, Servo(d) PROVE InLine(c)'
  <2>1. "handler" \in LinkTasks
    BY DEF LinkTasks
  <2> QED BY <1>1, <1>5, <2>1, ExecuteInLine, QuietInLine DEF Servo
<1>6. ASSUME NEW d \in Cubes, SendCommand(d) \/ Detach(d) \/ Attach(d) PROVE InLine(c)'
  BY <1>1, <1>6, SendCommandInLine, DetachInLine, AttachInLine
<1>7. ASSUME HandleReport PROVE InLine(c)'
  <2>1. "handler" \in LinkTasks /\ Root \in Cubes
    BY ConstantsAre DEF LinkTasks
  <2> QED BY <1>1, <1>7, <2>1, QuietInLine
<1> QED BY <1>2, <1>3, <1>4, <1>5, <1>6, <1>7 DEF Next, System, User

\* Whatever is plugged, unplugged or lost, the commands for a cube that no
\* frame overtook wait in line on their way down: the send path, the buffers
\* that task_handshake flushes and the queue of task_execute_servo together
\* behave as one queue.
THEOREM Invariance == Spec => []IInv
<1>1. Init => IInv
  BY InitTypes DEF IInv
<1>2. IInv /\ [Next]_vars => IInv'
  <2> SUFFICES ASSUME IInv, [Next]_vars PROVE IInv'
    OBVIOUS
  <2>1. Types' /\ Gone'
    BY TypesKept DEF IInv
  <2>2. \A c \in Cubes \ overtaken' : InLine(c)'
    BY LineKept
  <2> QED BY <2>1, <2>2 DEF IInv
<1> QED BY <1>1, <1>2, PTL DEF Spec

LEMMA CommandsAreFrames == Types => /\ Commands \subseteq Frames /\ Answers \subseteq Frames
                                    /\ \A c \in Cubes, s \in Sides : /\ pre[c][s] \in Seq(Frames)
                                                                     /\ out[c][s] \in Seq(Frames)
                                                                     /\ in[c][s] \in Seq(Frames)
                                    /\ \A c \in Cubes : servo_queue[c] \in Seq(Frames)
                                    /\ report_queue \in Seq(Frames)
<1> SUFFICES ASSUME Types
             PROVE  /\ Commands \subseteq Frames /\ Answers \subseteq Frames
                    /\ \A c \in Cubes, s \in Sides : /\ pre[c][s] \in Seq(Frames)
                                                     /\ out[c][s] \in Seq(Frames)
                                                     /\ in[c][s] \in Seq(Frames)
                    /\ \A c \in Cubes : servo_queue[c] \in Seq(Frames)
                    /\ report_queue \in Seq(Frames)
  OBVIOUS
<1>1. Len(sent) \in Nat /\ Len(sent) <= kit.commands /\ kit.commands \in Nat /\ Root \in Cubes
  BY ConstantsAre DEF Types
<1>2. 1 .. Len(sent) \subseteq 0 .. kit.commands /\ 0 \in 0 .. kit.commands
  BY <1>1
<1>3. Commands \subseteq Frames
  BY <1>1, <1>2 DEF Commands, Frames
<1>4. Answers \subseteq Frames
  BY <1>2 DEF Answers, Frames
<1>5. Seq(Commands \cup Answers) \subseteq Seq(Frames) /\ Seq(Answers \cup Commands) \subseteq Seq(Frames)
      /\ Seq(Commands) \subseteq Seq(Frames) /\ Seq(Answers) \subseteq Seq(Frames)
  BY <1>3, <1>4
<1>6. ASSUME NEW c \in Cubes, NEW s \in Sides
      PROVE  pre[c][s] \in Seq(Frames) /\ out[c][s] \in Seq(Frames) /\ in[c][s] \in Seq(Frames)
  <2>1. pre[c][s] \in Seq(Commands \cup Answers) /\ out[c][s] \in Seq(Commands \cup Answers)
        /\ in[c][s] \in Seq(Answers \cup Commands)
    BY DEF Types, Queues
  <2> QED BY <1>5, <2>1
<1>7. report_queue \in Seq(Frames) /\ \A c \in Cubes : servo_queue[c] \in Seq(Frames)
  BY <1>5 DEF Types
<1> QED BY <1>3, <1>4, <1>6, <1>7

\* A send queue and the queue of the servo never exceed their length
\* (QUEUE_LENGTH of uart.cpp and main.cpp), the root is always the top of the
\* arm, and only commands that were sent are lost or carried out.
THEOREM TypeCorrect == Spec => []TypeOK
<1>1. IInv => TypeOK
  <2> SUFFICES ASSUME IInv PROVE TypeOK
    OBVIOUS
  <2>1. Types
    BY DEF IInv
  <2>2. Head(arm) = Root
    BY <2>1 DEF Types
  <2> QED BY <2>1, <2>2, CommandsAreFrames DEF Types, TypeOK
<1> QED BY <1>1, Invariance, PTL

\* A cube carries out its commands in the order the root's bridge sent them,
\* unless one was overtaken in the gap between the discovery of a neighbour and
\* the end of the flush (handle_handshake.cpp), whatever else happens.
THEOREM InOrder == Spec => CommandsInOrder
<1>1. IInv /\ [Next]_vars => [\A c \in Cubes \ overtaken : obeyed'[c] >= obeyed[c]]_vars
  <2> SUFFICES ASSUME IInv, Next, NEW c \in Cubes \ overtaken PROVE obeyed'[c] >= obeyed[c]
    OBVIOUS
  <2>1. Types /\ Gone /\ InLine(c)
    BY DEF IInv
  <2>2. obeyed[c] \in Nat
    BY <2>1 DEF Types
  <2>3. ASSUME NEW d \in Cubes, Execute(d) PROVE obeyed'[c] >= obeyed[c]
    <3>1. CASE c # d
      BY <2>1, <2>2, <2>3, <3>1, ExecuteIs
    <3>2. CASE c = d
      <4>1. /\ servo_queue[c] # <<>> /\ Head(servo_queue[c]) \in For(Commands, c)
            /\ obeyed'[c] = Head(servo_queue[c]).no
        BY <2>1, <2>3, <3>2, ExecuteIs
      <4>2. PICK P : P = Held(c)
        OBVIOUS
      <4>3. P[End] = servo_queue[c] /\ DOMAIN P = Spots /\ End \in Spots /\ servo_queue[c] \in Seq(Commands)
        BY <2>1, <4>2, HeldIs, RankIs DEF Types
      <4>4. Head(servo_queue[c]).no \in Nos(servo_queue[c], c)
        BY <4>1, <4>3, TailNos DEF For
      <4>5. obeyed[c] < Head(servo_queue[c]).no
        BY <2>1, <4>2, <4>3, <4>4 DEF InLine, Fresh
      <4>6. Head(servo_queue[c]).no \in Nat
        <5>1. Head(servo_queue[c]) \in Commands
          BY <4>1 DEF For
        <5> QED BY <2>1, <5>1, CommandIs DEF Types
      <4> QED BY <2>2, <4>1, <4>5, <4>6
    <3> QED BY <3>1, <3>2
  <2>4. CASE UNCHANGED obeyed
    BY <2>2, <2>4
  <2>5. ASSUME NEW d \in Cubes, NEW s \in Sides, Wire(d, s) \/ HandleReport PROVE UNCHANGED obeyed
    BY <2>5 DEF Wire, Transmit, Receive, HandleReport, history
  <2>6. ASSUME NEW d \in Cubes, SendAck(d) \/ SendCommand(d) \/ Detach(d) \/ Attach(d)
        PROVE  UNCHANGED obeyed
    BY <2>6 DEF SendAck, SendCommand, Detach, Attach, history
  <2>7. ASSUME NEW d \in Cubes, NEW t \in LinkTasks, Link(d, t) PROVE UNCHANGED obeyed
    BY <2>7 DEF Link, Find, Lose, Adopt, Flush, Copy, Test, Post, history
  <2>8. "up" \in Sides /\ Root \in Cubes
    BY ConstantsAre DEF Sides
  <2> QED BY <2>3, <2>4, <2>5, <2>6, <2>7, <2>8 DEF Next, System, User, Servo
<1> QED BY <1>1, Invariance, PTL DEF Spec, CommandsInOrder
=============================================================================
