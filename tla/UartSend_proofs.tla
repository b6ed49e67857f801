-------------------------- MODULE UartSend_proofs --------------------------
(***************************************************************************)
(* Proofs about UartSend, for any tasks, messages and queue length:        *)
(* types, the invariant IInv, that nothing is stranded in the pre-init     *)
(* buffer, and that the send path implements Outbox.                       *)
(***************************************************************************)
EXTENDS UartSend, SequenceTheorems, TLAPS

\* What a task has in hand: a message nobody else is sending, and one the
\* test allows to buffer if that is what it is about to do.
HandOK ==
    /\ \A t \in Tasks : pc[t] \in InSend \cup {"f_enq"} => msg[t] \in Msgs
    /\ \A t \in Tasks : pc[t] \in InSend => msg[t] \notin fresh
    /\ \A t \in Tasks : pc[t] = "push" => msg[t] \notin Handshakes
    /\ \A t, u \in Tasks : pc[t] \in InSend /\ pc[u] \in InSend /\ msg[t] = msg[u] => t = u

IInv == TypeOK /\ MutexOK /\ HandOK /\ NoneStranded

-----------------------------------------------------------------------------
(* Sequences: a queue as its first element and the rest *)

LEMMA AppendType == ASSUME NEW S, NEW s \in Seq(S), NEW e \in S
                    PROVE  Append(s, e) \in Seq(S) /\ Len(Append(s, e)) = Len(s) + 1
  OBVIOUS

LEMMA AppendConcat == ASSUME NEW S, NEW s \in Seq(S), NEW q \in Seq(S), NEW e \in S
                      PROVE  s \o Append(q, e) = Append(s \o q, e)
  <1>1. s \o Append(q, e) \in Seq(S) /\ Append(s \o q, e) \in Seq(S)
    BY AppendType, ConcatProperties
  <1>2. Len(s \o Append(q, e)) = Len(Append(s \o q, e))
    BY AppendType, ConcatProperties
  <1>3. ASSUME NEW i \in 1 .. Len(Append(s \o q, e))
        PROVE  (s \o Append(q, e))[i] = Append(s \o q, e)[i]
    BY AppendType, ConcatProperties
  <1> QED BY <1>1, <1>2, <1>3, SeqEqual

LEMMA HeadTailConcat == ASSUME NEW S, NEW q \in Seq(S), q # <<>>
                        PROVE  <<Head(q)>> \o Tail(q) = q
  <1>1. <<Head(q)>> \in Seq(S) /\ Tail(q) \in Seq(S) /\ Len(Tail(q)) = Len(q) - 1
    BY HeadTailProperties
  <1>2. <<Head(q)>> \o Tail(q) \in Seq(S) /\ Len(<<Head(q)>> \o Tail(q)) = Len(q)
    BY <1>1, ConcatProperties, EmptySeq
  <1>3. ASSUME NEW i \in 1 .. Len(q)
        PROVE  (<<Head(q)>> \o Tail(q))[i] = q[i]
    BY <1>1, ConcatProperties, HeadTailProperties
  <1> QED BY <1>2, <1>3, SeqEqual

LEMMA ConsConcat == ASSUME NEW S, NEW e \in S, NEW q \in Seq(S)
                    PROVE  /\ <<e>> \o q # <<>>
                           /\ Head(<<e>> \o q) = e
                           /\ Tail(<<e>> \o q) = q
  <1>1. <<e>> \o q \in Seq(S) /\ Len(<<e>> \o q) = Len(q) + 1
    BY ConcatProperties, <<e>> \in Seq(S)
  <1>2. <<e>> \o q # <<>>
    BY <1>1, EmptySeq
  <1>3. Head(<<e>> \o q) = e
    BY <1>1, <1>2, ConcatProperties, <<e>> \in Seq(S)
  <1>4. Tail(<<e>> \o q) \in Seq(S) /\ Len(Tail(<<e>> \o q)) = Len(q)
    BY <1>1, <1>2, HeadTailProperties
  <1>5. ASSUME NEW i \in 1 .. Len(q)
        PROVE  Tail(<<e>> \o q)[i] = q[i]
    BY <1>1, <1>2, <1>4, HeadTailProperties, ConcatProperties, <<e>> \in Seq(S)
  <1> QED BY <1>2, <1>3, <1>4, <1>5, SeqEqual

LEMMA Singleton == ASSUME NEW S, NEW s \in Seq(S), Len(s) <= 1, s # <<>>
                   PROVE  s = <<Head(s)>> /\ Head(s) \in S
  <1>1. Len(s) \in Nat \ {0}
    BY EmptySeq
  <1>2. Len(s) = 1
    BY SMTT(60), <1>1
  <1>3. <<Head(s)>> \in Seq(S) /\ Len(<<Head(s)>>) = 1 /\ Head(s) = s[1] /\ Head(s) \in S
    BY HeadTailProperties
  <1> QED BY <1>2, <1>3, SeqEqual
-----------------------------------------------------------------------------
(* Types *)

LEMMA InitTypeOK == Init => TypeOK
<1> SUFFICES ASSUME Init PROVE TypeOK
  OBVIOUS
<1>1. <<>> \in Seq(Msgs) /\ Len(<<>>) = 0
  BY EmptySeq
<1>2. /\ send_queue \in Seq(Msgs) /\ Len(send_queue) <= QueueLen
      /\ tx \in Seq(Msgs) /\ Len(tx) <= 1
  BY <1>1, UartSendAssumption DEF Init
<1>3. pc \in [Tasks -> Locations] /\ msg \in [Tasks -> Msgs \cup {NoMsg}]
  BY DEF Init, Locations
<1> QED BY <1>1, <1>2, <1>3 DEF Init, TypeOK

LEMMA NextTypeOK == TypeOK /\ HandOK /\ [Next]_vars => TypeOK'
<1> SUFFICES ASSUME TypeOK, HandOK, [Next]_vars
             PROVE  TypeOK'
  OBVIOUS
<1> USE UartSendAssumption DEF TypeOK, Locations, InSend
<1>1. ASSUME NEW t \in Tasks, CallSend(t)
      PROVE  TypeOK'
  BY <1>1 DEF CallSend
<1>2. ASSUME NEW t \in Tasks, SendTake(t)
      PROVE  TypeOK'
  BY <1>2 DEF SendTake
<1>3. ASSUME NEW t \in Tasks, SendPush(t)
      PROVE  TypeOK'
  <2>1. msg[t] \in Msgs
    BY <1>3 DEF SendPush, HandOK
  <2>2. pre_init_buffer' \in Seq(Msgs)
    BY <1>3, <2>1, AppendType DEF SendPush
  <2> QED BY <1>3, <2>2 DEF SendPush
<1>4. ASSUME NEW t \in Tasks, SendEnqueue(t)
      PROVE  TypeOK'
  <2>1. msg[t] \in Msgs
    BY <1>4 DEF SendEnqueue, HandOK
  <2>2. send_queue' \in Seq(Msgs) /\ Len(send_queue') <= QueueLen
    BY <1>4, <2>1, AppendType DEF SendEnqueue
  <2> QED BY <1>4, <2>2 DEF SendEnqueue
<1>5. ASSUME NEW t \in Linkers, Learn(t)
      PROVE  TypeOK'
  BY <1>5 DEF Learn
<1>6. ASSUME NEW t \in Linkers, Lose(t)
      PROVE  TypeOK'
  BY <1>6 DEF Lose
<1>7. ASSUME NEW t \in Linkers, FlushExit(t)
      PROVE  TypeOK'
  BY <1>7 DEF FlushExit
<1>8. ASSUME NEW t \in Linkers, FlushPop(t)
      PROVE  TypeOK'
  <2>1. Head(pre_init_buffer) \in Msgs /\ Tail(pre_init_buffer) \in Seq(Msgs)
    BY <1>8, HeadTailProperties DEF FlushPop
  <2> QED BY <1>8, <2>1 DEF FlushPop
<1>9. ASSUME NEW t \in Linkers, FlushEnqueue(t)
      PROVE  TypeOK'
  <2>1. msg[t] \in Msgs
    BY <1>9 DEF FlushEnqueue, HandOK
  <2>2. send_queue' \in Seq(Msgs) /\ Len(send_queue') <= QueueLen
    BY <1>9, <2>1, AppendType DEF FlushEnqueue
  <2> QED BY <1>9, <2>2 DEF FlushEnqueue
<1>10. CASE TxReceive
  <2>1. /\ Head(send_queue) \in Msgs /\ Tail(send_queue) \in Seq(Msgs)
        /\ Len(Tail(send_queue)) = Len(send_queue) - 1
    BY <1>10, HeadTailProperties DEF TxReceive
  <2>2. tx' \in Seq(Msgs) /\ Len(tx') <= 1
    BY <1>10, <2>1 DEF TxReceive
  <2>3. Len(send_queue') <= QueueLen
    BY <1>10, <2>1, LenProperties DEF TxReceive
  <2> QED BY <1>10, <2>1, <2>2, <2>3 DEF TxReceive
<1>11. CASE TxWrite
  <2>1. Head(tx) \in Msgs
    BY <1>11, Singleton DEF TxWrite
  <2>2. wire' \in Seq(Msgs) /\ tx' \in Seq(Msgs) /\ Len(tx') <= 1
    BY <1>11, <2>1, AppendType, EmptySeq DEF TxWrite
  <2> QED BY <1>11, <2>2 DEF TxWrite
<1>12. CASE UNCHANGED vars
  BY <1>12 DEF vars
<1> QED BY <1>1, <1>2, <1>3, <1>4, <1>5, <1>6, <1>7, <1>8, <1>9, <1>10, <1>11, <1>12
        DEF Next, SendStep, FlushStep
-----------------------------------------------------------------------------
(* The inductive invariant *)

LEMMA InitIInv == Init => IInv
  BY InitTypeOK, UartSendAssumption DEF Init, IInv, MutexOK, HandOK, NoneStranded, InSend

LEMMA NextMutexOK == TypeOK /\ MutexOK /\ [Next]_vars => MutexOK'
<1> SUFFICES ASSUME TypeOK, MutexOK, [Next]_vars
             PROVE  MutexOK'
  OBVIOUS
<1> USE UartSendAssumption DEF TypeOK, MutexOK
<1>1. ASSUME NEW t \in Tasks, CallSend(t) \/ SendStep(t)
      PROVE  MutexOK'
  BY <1>1 DEF CallSend, SendStep, SendTake, SendPush, SendEnqueue
<1>2. ASSUME NEW t \in Linkers, Learn(t) \/ Lose(t) \/ FlushStep(t)
      PROVE  MutexOK'
  BY <1>2 DEF Learn, Lose, FlushStep, FlushExit, FlushPop, FlushEnqueue
<1>3. CASE TxReceive \/ TxWrite \/ UNCHANGED vars
  BY <1>3 DEF TxReceive, TxWrite, vars
<1> QED BY <1>1, <1>2, <1>3 DEF Next

LEMMA NextHandOK == TypeOK /\ HandOK /\ [Next]_vars => HandOK'
<1> SUFFICES ASSUME TypeOK, HandOK, [Next]_vars
             PROVE  HandOK'
  OBVIOUS
<1> USE UartSendAssumption DEF TypeOK, HandOK, InSend
<1>1. ASSUME NEW t \in Tasks, CallSend(t)
      PROVE  HandOK'
  BY <1>1 DEF CallSend
<1>2. ASSUME NEW t \in Tasks, SendStep(t)
      PROVE  HandOK'
  <2>1. CASE SendTake(t)
    BY <2>1 DEF SendTake
  <2>2. CASE SendPush(t)
    BY <2>2 DEF SendPush
  <2>3. CASE SendEnqueue(t)
    BY <2>3 DEF SendEnqueue
  <2> QED BY <1>2, <2>1, <2>2, <2>3 DEF SendStep
<1>3. ASSUME NEW t \in Linkers, FlushPop(t)
      PROVE  HandOK'
  <2>1. Head(pre_init_buffer) \in Msgs
    BY <1>3, HeadTailProperties DEF FlushPop
  <2> QED BY <1>3, <2>1 DEF FlushPop
<1>4. ASSUME NEW t \in Linkers, Learn(t) \/ Lose(t) \/ FlushExit(t) \/ FlushEnqueue(t)
      PROVE  HandOK'
  <2>1. CASE Learn(t)
    BY <2>1 DEF Learn
  <2>2. CASE Lose(t)
    BY <2>2 DEF Lose
  <2>3. CASE FlushExit(t)
    BY <2>3 DEF FlushExit
  <2>4. CASE FlushEnqueue(t)
    BY <2>4 DEF FlushEnqueue
  <2> QED BY <1>4, <2>1, <2>2, <2>3, <2>4
<1>5. CASE TxReceive \/ TxWrite \/ UNCHANGED vars
  BY <1>5 DEF TxReceive, TxWrite, vars
<1> QED BY <1>1, <1>2, <1>3, <1>4, <1>5 DEF Next, FlushStep

LEMMA NextNoneStranded == TypeOK /\ MutexOK /\ NoneStranded /\ [Next]_vars => NoneStranded'
<1> SUFFICES ASSUME TypeOK, MutexOK, NoneStranded, [Next]_vars
             PROVE  NoneStranded'
  OBVIOUS
<1> USE UartSendAssumption DEF TypeOK, NoneStranded, Flushing
<1>1. ASSUME NEW t \in Tasks, CallSend(t)
      PROVE  NoneStranded'
  BY <1>1 DEF CallSend
<1>2. ASSUME NEW t \in Tasks, SendTake(t)
      PROVE  NoneStranded'
  BY <1>2 DEF SendTake
\* The message is now in the buffer, but its task was about to push it, so
\* whoever made the neighbour known meanwhile is still waiting to flush.
<1>3. ASSUME NEW t \in Tasks, SendPush(t)
      PROVE  NoneStranded'
  BY <1>3 DEF SendPush
<1>4. ASSUME NEW t \in Tasks, SendEnqueue(t)
      PROVE  NoneStranded'
  BY <1>4 DEF SendEnqueue
<1>5. ASSUME NEW t \in Linkers, Learn(t)
      PROVE  NoneStranded'
  BY <1>5 DEF Learn
<1>6. ASSUME NEW t \in Linkers, Lose(t)
      PROVE  NoneStranded'
  BY <1>6 DEF Lose
\* The mutex is free, so nobody is about to push.
<1>7. ASSUME NEW t \in Linkers, FlushExit(t)
      PROVE  NoneStranded'
  <2>1. \A u \in Tasks : pc[u] # "push"
    BY <1>7 DEF FlushExit, MutexOK
  <2> QED BY <1>7, <2>1 DEF FlushExit
<1>8. ASSUME NEW t \in Linkers, FlushPop(t) \/ FlushEnqueue(t)
      PROVE  NoneStranded'
  <2>1. t \in Tasks /\ pc'[t] \in Flushing
    BY <1>8 DEF FlushPop, FlushEnqueue
  <2> QED BY <2>1
<1>9. CASE TxReceive \/ TxWrite \/ UNCHANGED vars
  BY <1>9 DEF TxReceive, TxWrite, vars
<1> QED BY <1>1, <1>2, <1>3, <1>4, <1>5, <1>6, <1>7, <1>8, <1>9
        DEF Next, SendStep, FlushStep

\* Every reachable state satisfies IInv: the types, mutual exclusion of the
\* tasks past the test, what each has in hand, and NoneStranded.
THEOREM Invariance == Spec => []IInv
<1>1. IInv /\ [Next]_vars => IInv'
  BY NextTypeOK, NextMutexOK, NextHandOK, NextNoneStranded DEF IInv
<1> QED BY InitIInv, <1>1, PTL DEF Spec

\* The types hold, and with them that the bounded queue is never overfilled.
THEOREM TypeCorrect == Spec => []TypeOK
  BY Invariance, PTL DEF IInv

\* Only the holder of the mutex is past the test, and it alone.
THEOREM MutualExclusion == Spec => []MutexOK
  BY Invariance, PTL DEF IInv

\* No message is left behind in the pre-init buffer once the neighbour is
\* known (send_msg_to_master, send_buffered_messages_to_master).
THEOREM NothingStranded == Spec => []NoneStranded
  BY Invariance, PTL DEF IInv
-----------------------------------------------------------------------------
(* The send path implements Outbox *)

LEMMA InitRefines == Init => Abstract!Init
<1> SUFFICES ASSUME Init PROVE Abstract!Init
  OBVIOUS
<1>1. InHand(InSend) = {}
  BY DEF Init, InHand, InSend
<1>2. Popped = <<>>
  BY UartSendAssumption DEF Init, Popped
<1>3. <<>> \o <<>> = <<>>
  BY EmptySeq, ConcatEmptySeq
<1> QED BY <1>1, <1>2, <1>3 DEF Init, Abstract!Init

\* A step that leaves the mutex and its holder's place alone pops nothing.
LEMMA PoppedUnchanged == ASSUME TypeOK, TypeOK', mutex' = mutex,
                                mutex # NoTask => pc'[mutex] = pc[mutex] /\ msg'[mutex] = msg[mutex]
                         PROVE  Popped' = Popped
  BY UartSendAssumption DEF Popped, TypeOK

LEMMA NextRefines == IInv /\ IInv' /\ [Next]_vars => [Abstract!Next]_(Abstract!vars)
<1> SUFFICES ASSUME IInv, IInv', [Next]_vars
             PROVE  [Abstract!Next]_(Abstract!vars)
  OBVIOUS
<1> USE UartSendAssumption DEF InSend
<1>a. TypeOK /\ TypeOK' /\ MutexOK /\ HandOK
  BY DEF IInv
<1>b. mutex = NoTask => Popped = <<>>
  BY DEF Popped
<1>1. ASSUME NEW t \in Tasks, CallSend(t)
      PROVE  Abstract!Next
  <2>1. PICK m \in fresh : msg' = [msg EXCEPT ![t] = m] /\ fresh' = fresh \ {m}
    BY <1>1 DEF CallSend
  <2>2. m \in Msgs
    BY <1>a DEF TypeOK
  <2>3. InHand(InSend)' = InHand(InSend) \cup {m}
    BY <1>1, <1>a, <2>1 DEF CallSend, InHand, TypeOK
  <2>4. Popped' = Popped
    BY <1>1, <1>a, PoppedUnchanged DEF CallSend, MutexOK, TypeOK
  <2>5. Abstract!HandOver(m)
    BY <1>1, <2>1, <2>3, <2>4 DEF CallSend, Abstract!HandOver
  <2> QED BY <2>2, <2>5 DEF Abstract!Next
<1>2. ASSUME NEW t \in Tasks, SendTake(t)
      PROVE  UNCHANGED Abstract!vars
  <2>1. InHand(InSend)' = InHand(InSend)
    BY <1>2, <1>a DEF SendTake, InHand, TypeOK
  <2>2. Popped = <<>> /\ Popped' = <<>>
    BY <1>2, <1>a DEF SendTake, Popped, TypeOK
  <2> QED BY <1>2, <2>1, <2>2 DEF SendTake, Abstract!vars
\* What a task that is done sending leaves behind: every other message.
<1>3. ASSUME NEW t \in Tasks, pc[t] \in {"push", "enq"}, pc' = [pc EXCEPT ![t] = "idle"],
             msg' = [msg EXCEPT ![t] = NoMsg], mutex' = NoTask
      PROVE  /\ msg[t] \in Msgs /\ msg[t] \in InHand(InSend)
             /\ InHand(InSend)' = InHand(InSend) \ {msg[t]}
             /\ Popped = <<>> /\ Popped' = <<>>
  <2>1. msg[t] \in Msgs /\ msg[t] \in InHand(InSend)
    BY <1>3, <1>a DEF HandOK, InHand
  <2>2. InHand(InSend)' = InHand(InSend) \ {msg[t]}
    BY <1>3, <1>a DEF HandOK, InHand, TypeOK
  <2>3. mutex = t
    BY <1>3, <1>a DEF MutexOK
  <2> QED BY <1>3, <2>1, <2>2, <2>3 DEF Popped
<1>4. ASSUME NEW t \in Tasks, SendPush(t)
      PROVE  Abstract!Next
  <2>1. /\ msg[t] \in Msgs /\ msg[t] \in InHand(InSend)
        /\ InHand(InSend)' = InHand(InSend) \ {msg[t]}
        /\ Popped = <<>> /\ Popped' = <<>>
    BY <1>3, <1>4 DEF SendPush
  <2>2. msg[t] \notin Handshakes
    BY <1>4, <1>a DEF SendPush, HandOK
  <2>3. Popped \o Append(pre_init_buffer, msg[t]) = Append(Popped \o pre_init_buffer, msg[t])
    BY <1>a, <2>1, AppendConcat, EmptySeq DEF TypeOK
  <2>4. Abstract!Hold(msg[t])
    BY <1>4, <2>1, <2>2, <2>3 DEF SendPush, Abstract!Hold
  <2> QED BY <2>1, <2>4 DEF Abstract!Next
<1>5. ASSUME NEW t \in Tasks, SendEnqueue(t)
      PROVE  Abstract!Next
  <2>1. /\ msg[t] \in Msgs /\ msg[t] \in InHand(InSend)
        /\ InHand(InSend)' = InHand(InSend) \ {msg[t]}
        /\ Popped = <<>> /\ Popped' = <<>>
    BY <1>3, <1>5 DEF SendEnqueue
  <2>2. tx \o Append(send_queue, msg[t]) = Append(tx \o send_queue, msg[t])
    BY SMTT(60), <1>a, <2>1, AppendConcat DEF TypeOK
  <2>3. Abstract!Post(msg[t])
    BY <1>5, <2>1, <2>2 DEF SendEnqueue, Abstract!Post
  <2> QED BY <2>1, <2>3 DEF Abstract!Next
<1>6. ASSUME NEW t \in Linkers, Learn(t) \/ Lose(t) \/ FlushExit(t)
      PROVE  UNCHANGED Abstract!vars
  <2>1. InHand(InSend)' = InHand(InSend)
    BY <1>6, <1>a DEF Learn, Lose, FlushExit, InHand, TypeOK
  <2>2. Popped' = Popped
    BY <1>6, <1>a, PoppedUnchanged DEF Learn, Lose, FlushExit, MutexOK, TypeOK
  <2> QED BY <1>6, <2>1, <2>2 DEF Learn, Lose, FlushExit, Abstract!vars
\* A popped message stays held, at the head of the buffer.
<1>7. ASSUME NEW t \in Linkers, FlushPop(t)
      PROVE  UNCHANGED Abstract!vars
  <2>1. InHand(InSend)' = InHand(InSend)
    BY <1>7, <1>a DEF FlushPop, InHand, TypeOK
  <2>2. Popped = <<>> /\ Popped' = <<Head(pre_init_buffer)>>
    BY <1>7, <1>a DEF FlushPop, Popped, TypeOK
  <2>3. (Popped \o pre_init_buffer)' = Popped \o pre_init_buffer
    BY <1>7, <1>a, <2>2, HeadTailConcat, ConcatEmptySeq DEF FlushPop, TypeOK
  <2> QED BY <1>7, <2>1, <2>3 DEF FlushPop, Abstract!vars
<1>8. ASSUME NEW t \in Linkers, FlushEnqueue(t)
      PROVE  Abstract!Next
  <2>1. InHand(InSend)' = InHand(InSend)
    BY <1>8, <1>a DEF FlushEnqueue, InHand, TypeOK
  <2>2. msg[t] \in Msgs /\ Popped = <<msg[t]>> /\ Popped' = <<>>
    BY <1>8, <1>a DEF FlushEnqueue, HandOK, MutexOK, Popped
  <2>3. /\ Popped \o pre_init_buffer # <<>>
        /\ Head(Popped \o pre_init_buffer) = msg[t]
        /\ Tail(Popped \o pre_init_buffer) = pre_init_buffer
    BY <1>a, <2>2, ConsConcat DEF TypeOK
  <2>4. (Popped \o pre_init_buffer)' = pre_init_buffer
    BY <1>8, <1>a, <2>2, ConcatEmptySeq DEF FlushEnqueue, TypeOK
  <2>5. tx \o Append(send_queue, msg[t]) = Append(tx \o send_queue, msg[t])
    BY SMTT(60), <1>a, <2>2, AppendConcat DEF TypeOK
  <2>6. Abstract!Release
    BY <1>8, <2>1, <2>3, <2>4, <2>5 DEF FlushEnqueue, Abstract!Release
  <2> QED BY <2>6 DEF Abstract!Next
<1>9. CASE TxReceive
  <2>1. InHand(InSend)' = InHand(InSend) /\ Popped' = Popped
    BY <1>9 DEF TxReceive, InHand, Popped
  <2>2. (tx \o send_queue)' = tx \o send_queue
    BY <1>9, <1>a, HeadTailConcat, ConcatEmptySeq DEF TxReceive, TypeOK
  <2> QED BY <1>9, <2>1, <2>2 DEF TxReceive, Abstract!vars
<1>10. CASE TxWrite
  <2>1. InHand(InSend)' = InHand(InSend) /\ Popped' = Popped
    BY <1>10 DEF TxWrite, InHand, Popped
  <2>2. tx = <<Head(tx)>> /\ Head(tx) \in Msgs
    BY <1>10, <1>a, Singleton DEF TxWrite, TypeOK
  <2>3. /\ tx \o send_queue # <<>>
        /\ Head(tx \o send_queue) = Head(tx)
        /\ Tail(tx \o send_queue) = send_queue
    BY <1>a, <2>2, ConsConcat DEF TypeOK
  <2>4. (tx \o send_queue)' = send_queue
    BY <1>10, <1>a, ConcatEmptySeq DEF TxWrite, TypeOK
  <2>5. Abstract!Transmit
    BY <1>10, <2>1, <2>3, <2>4 DEF TxWrite, Abstract!Transmit
  <2> QED BY <2>5 DEF Abstract!Next
<1>11. CASE UNCHANGED vars
  <2>1. InHand(InSend)' = InHand(InSend) /\ Popped' = Popped
    BY <1>11 DEF vars, InHand, Popped
  <2> QED BY <1>11, <2>1 DEF vars, Abstract!vars
<1> QED BY <1>1, <1>2, <1>4, <1>5, <1>6, <1>7, <1>8, <1>9, <1>10, <1>11
        DEF Next, SendStep, FlushStep

\* The send path implements Outbox: whatever the tasks do, each message is
\* held until the neighbour is known, held messages leave in order, and none
\* is lost, written twice or made up.
THEOREM Refinement == Spec => OutboxSpec
<1>1. IInv /\ IInv' /\ [Next]_vars => [Abstract!Next]_(Abstract!vars)
  BY NextRefines
<1> QED BY InitRefines, Invariance, <1>1, PTL DEF Spec, OutboxSpec, Abstract!Spec
=============================================================================
