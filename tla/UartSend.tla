------------------------------ MODULE UartSend ------------------------------
(***************************************************************************)
(* One direction of the send path of a cube (lib/uart_code/uart.cpp): the  *)
(* tasks that call send_msg_to_master, the pre-init buffer that holds what *)
(* they send while the master is unknown, the bounded FreeRTOS queue, and  *)
(* task_send_uart that writes to the UART and deletes the message.  The    *)
(* slave direction is the same code with the other queue, mutex and id.    *)
(*                                                                         *)
(* MASTER_ID is a plain global: the handshake tasks write it without the   *)
(* mutex while others test it with the mutex held.                         *)
(*                                                                         *)
(* Grain: taking the mutex is fused with the test that follows it, and     *)
(* giving it back with the operation before it.  Nobody can tell: a        *)
(* waiting task sees the mutex only.  Test and use are separate steps.     *)
(***************************************************************************)
EXTENDS Naturals, Sequences

CONSTANTS Tasks,       \* every task that sends in this direction
          Linkers,     \* those that write the neighbour's id, then flush
          Pinger,      \* the ping task, which may also write UNKNOWN_ID
          Msgs,        \* the messages, each created once
          Handshakes,  \* those of type_handshake
          QueueLen,    \* length of h_queue_send_to_master (10 in the code)
          NoTask, NoMsg

ASSUME UartSendAssumption ==
         /\ Linkers \subseteq Tasks
         /\ NoTask \notin Tasks
         /\ NoMsg \notin Msgs
         /\ QueueLen \in Nat \ {0}

VARIABLES known,            \* MASTER_ID # UNKNOWN_ID
          mutex,            \* holder of master_buffer_mutex
          pre_init_buffer,  \* master_pre_init_buffer, a std::queue
          send_queue,       \* h_queue_send_to_master
          tx,               \* the message task_send_uart has in hand
          wire,             \* written to the UART, then deleted
          fresh,            \* messages nobody created yet
          pc, msg           \* of each task: where it is, what it has in hand

vars == <<known, mutex, pre_init_buffer, send_queue, tx, wire, fresh, pc, msg>>

Locations == {"idle", "take", "push", "enq", "f_take", "f_enq"}
InSend == {"take", "push", "enq"}
Flushing == {"f_take", "f_enq"}

Init == /\ known = FALSE
        /\ mutex = NoTask
        /\ pre_init_buffer = <<>>
        /\ send_queue = <<>>
        /\ tx = <<>>
        /\ wire = <<>>
        /\ fresh = Msgs
        /\ pc = [t \in Tasks |-> "idle"]
        /\ msg = [t \in Tasks |-> NoMsg]
-----------------------------------------------------------------------------
(* send_msg_to_master *)

\* create_msg, then the call: the caller waits for the mutex.
CallSend(t) == /\ pc[t] = "idle"
               /\ \E m \in fresh : /\ msg' = [msg EXCEPT ![t] = m]
                                   /\ fresh' = fresh \ {m}
               /\ pc' = [pc EXCEPT ![t] = "take"]
               /\ UNCHANGED <<known, mutex, pre_init_buffer, send_queue, tx, wire>>

\* Mutant: the test is made without the mutex.
SendTakeUnlocked(t) == /\ pc[t] = "take"
                       /\ mutex' = t
                       /\ pc' = [pc EXCEPT ![t] = IF ~known /\ msg[t] \notin Handshakes
                                                  THEN "push" ELSE "enq"]
                       /\ UNCHANGED <<known, pre_init_buffer, send_queue, tx, wire, fresh, msg>>

\* The test: a handshake passes whatever the id is.
SendTake(t) == /\ pc[t] = "take"
               /\ mutex = NoTask
               /\ mutex' = t
               /\ pc' = [pc EXCEPT ![t] = IF ~known /\ msg[t] \notin Handshakes
                                          THEN "push" ELSE "enq"]
               /\ UNCHANGED <<known, pre_init_buffer, send_queue, tx, wire, fresh, msg>>

SendPush(t) == /\ pc[t] = "push"
               /\ pre_init_buffer' = Append(pre_init_buffer, msg[t])
               /\ msg' = [msg EXCEPT ![t] = NoMsg]
               /\ mutex' = NoTask
               /\ pc' = [pc EXCEPT ![t] = "idle"]
               /\ UNCHANGED <<known, send_queue, tx, wire, fresh>>

\* Mutant: a full queue is written to.
SendEnqueueUnbounded(t) == /\ pc[t] = "enq"
                           /\ send_queue' = Append(send_queue, msg[t])
                           /\ msg' = [msg EXCEPT ![t] = NoMsg]
                           /\ mutex' = NoTask
                           /\ pc' = [pc EXCEPT ![t] = "idle"]
                           /\ UNCHANGED <<known, pre_init_buffer, tx, wire, fresh>>

\* xQueueSend with portMAX_DELAY: blocks while the queue is full.
SendEnqueue(t) == /\ pc[t] = "enq"
                  /\ Len(send_queue) < QueueLen
                  /\ send_queue' = Append(send_queue, msg[t])
                  /\ msg' = [msg EXCEPT ![t] = NoMsg]
                  /\ mutex' = NoTask
                  /\ pc' = [pc EXCEPT ![t] = "idle"]
                  /\ UNCHANGED <<known, pre_init_buffer, tx, wire, fresh>>
-----------------------------------------------------------------------------
(* The handshake tasks, as far as this direction goes *)

\* MASTER_ID = the sender's id, then send_buffered_messages_to_master().
Learn(t) == /\ pc[t] = "idle"
            /\ known' = TRUE
            /\ pc' = [pc EXCEPT ![t] = "f_take"]
            /\ UNCHANGED <<mutex, pre_init_buffer, send_queue, tx, wire, fresh, msg>>

\* The ping went unanswered: MASTER_ID = UNKNOWN_ID.
Lose(t) == /\ pc[t] = "idle"
           /\ known
           /\ known' = FALSE
           /\ UNCHANGED <<mutex, pre_init_buffer, send_queue, tx, wire, fresh, pc, msg>>

\* One round of the flush loop: leave it, or pop the oldest message.
FlushExit(t) == /\ pc[t] = "f_take"
                /\ mutex = NoTask
                /\ pre_init_buffer = <<>> \/ ~known
                /\ pc' = [pc EXCEPT ![t] = "idle"]
                /\ UNCHANGED <<known, mutex, pre_init_buffer, send_queue, tx, wire, fresh, msg>>

\* Mutant: the mutex is given back before the popped message is enqueued.
FlushPopUnlocked(t) == /\ pc[t] = "f_take"
                       /\ mutex = NoTask
                       /\ pre_init_buffer # <<>> /\ known
                       /\ msg' = [msg EXCEPT ![t] = Head(pre_init_buffer)]
                       /\ pre_init_buffer' = Tail(pre_init_buffer)
                       /\ pc' = [pc EXCEPT ![t] = "f_enq"]
                       /\ UNCHANGED <<known, mutex, send_queue, tx, wire, fresh>>

FlushPop(t) == /\ pc[t] = "f_take"
               /\ mutex = NoTask
               /\ pre_init_buffer # <<>> /\ known
               /\ mutex' = t
               /\ msg' = [msg EXCEPT ![t] = Head(pre_init_buffer)]
               /\ pre_init_buffer' = Tail(pre_init_buffer)
               /\ pc' = [pc EXCEPT ![t] = "f_enq"]
               /\ UNCHANGED <<known, send_queue, tx, wire, fresh>>

\* Mutant: the flush ends after one message.
FlushEnqueueOnce(t) == /\ pc[t] = "f_enq"
                       /\ Len(send_queue) < QueueLen
                       /\ send_queue' = Append(send_queue, msg[t])
                       /\ msg' = [msg EXCEPT ![t] = NoMsg]
                       /\ mutex' = NoTask
                       /\ pc' = [pc EXCEPT ![t] = "idle"]
                       /\ UNCHANGED <<known, pre_init_buffer, tx, wire, fresh>>

FlushEnqueue(t) == /\ pc[t] = "f_enq"
                   /\ Len(send_queue) < QueueLen
                   /\ send_queue' = Append(send_queue, msg[t])
                   /\ msg' = [msg EXCEPT ![t] = NoMsg]
                   /\ mutex' = NoTask
                   /\ pc' = [pc EXCEPT ![t] = "f_take"]
                   /\ UNCHANGED <<known, pre_init_buffer, tx, wire, fresh>>
-----------------------------------------------------------------------------
(* task_send_uart *)

TxReceive == /\ tx = <<>>
             /\ send_queue # <<>>
             /\ tx' = <<Head(send_queue)>>
             /\ send_queue' = Tail(send_queue)
             /\ UNCHANGED <<known, mutex, pre_init_buffer, wire, fresh, pc, msg>>

\* uart_write_bytes, then delete.
TxWrite == /\ tx # <<>>
           /\ wire' = Append(wire, Head(tx))
           /\ tx' = <<>>
           /\ UNCHANGED <<known, mutex, pre_init_buffer, send_queue, fresh, pc, msg>>
-----------------------------------------------------------------------------
SendStep(t) == SendTake(t) \/ SendPush(t) \/ SendEnqueue(t)
FlushStep(t) == FlushExit(t) \/ FlushPop(t) \/ FlushEnqueue(t)

Next == \/ \E t \in Tasks : CallSend(t) \/ SendStep(t)
        \/ \E t \in Linkers : Learn(t) \/ FlushStep(t)
        \/ \E t \in Linkers \cap {Pinger} : Lose(t)
        \/ TxReceive
        \/ TxWrite

\* Nothing obliges a task to send or a neighbour to answer.  A task inside a
\* call runs whenever it can.  Strong fairness of the steps that take the
\* mutex: the holder gives it to a waiting task, and the periodic tasks sleep
\* 500 ms between two calls, so nobody waits for ever.
Fairness == /\ \A t \in Tasks : SF_vars(SendTake(t)) /\ WF_vars(SendPush(t) \/ SendEnqueue(t))
            /\ \A t \in Linkers : SF_vars(FlushExit(t) \/ FlushPop(t)) /\ WF_vars(FlushEnqueue(t))
            /\ WF_vars(TxReceive)
            /\ WF_vars(TxWrite)

Spec == Init /\ [][Next]_vars
FairSpec == Spec /\ Fairness
-----------------------------------------------------------------------------
(* Properties *)

TypeOK == /\ known \in BOOLEAN
          /\ mutex \in Tasks \cup {NoTask}
          /\ pre_init_buffer \in Seq(Msgs)
          /\ send_queue \in Seq(Msgs) /\ Len(send_queue) <= QueueLen
          /\ tx \in Seq(Msgs) /\ Len(tx) <= 1
          /\ wire \in Seq(Msgs)
          /\ fresh \subseteq Msgs
          /\ pc \in [Tasks -> Locations]
          /\ msg \in [Tasks -> Msgs \cup {NoMsg}]

\* Whoever is past the test has the mutex, and only that task has it.
MutexOK == \A t \in Tasks : pc[t] \in {"push", "enq", "f_enq"} <=> mutex = t

\* No message is left behind in the buffer: once the neighbour is known, a
\* buffered message (or one a task has already decided to buffer) has a task
\* that is going to flush it, although the id is tested and set by tasks that
\* do not exclude each other.
NoneStranded ==
    (known /\ (pre_init_buffer # <<>> \/ \E t \in Tasks : pc[t] = "push"))
        => \E l \in Linkers : pc[l] \in Flushing

\* The send path implements Outbox: a message popped by a flush still counts
\* as held, the one in the hand of task_send_uart as ready.
InHand(S) == {msg[t] : t \in {u \in Tasks : pc[u] \in S}}
Popped == IF mutex \in Linkers /\ pc[mutex] = "f_enq" THEN <<msg[mutex]>> ELSE <<>>

Abstract == INSTANCE Outbox WITH entering <- InHand(InSend),
                                 held <- Popped \o pre_init_buffer,
                                 ready <- tx \o send_queue,
                                 sent <- wire
OutboxSpec == Abstract!Spec

\* If the neighbour stays known from some time on, every message created is
\* written to the wire: no task is starved of the mutex by a full queue, and
\* no flush stops half way.
Delivery ==
    <>[]known => \A m \in Msgs : (m \notin fresh) ~> (\E i \in DOMAIN wire : wire[i] = m)
=============================================================================
