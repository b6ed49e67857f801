------------------------------- MODULE Chain -------------------------------
(***************************************************************************)
(* Frames on their way through an arm of several cubes: the commands the   *)
(* root's bridge sends down (lib/uart_code/bridge.cpp), the reports that   *)
(* cubes send up to the root (handle_handshake.cpp), the acknowledgements  *)
(* of servos, and what task_receive_uart, sort_new_msg and the send path   *)
(* of each cube do with them (uart.cpp).                                   *)
(*                                                                         *)
(* Every cube has two neighbours, "up" and "down", and for each the id it  *)
(* knows, a pre-init buffer, a send queue, and what its UART has received. *)
(* Its three handshake tasks find and lose neighbours, flush the buffers   *)
(* and report to the root side by side; the frames by which they find a    *)
(* neighbour are in Handshake, and are no frames here.  The tasks that     *)
(* send at once are in UartSend, and a send or a round of a flush is one   *)
(* step.  A frame in the hand of a task that waits for room is still the   *)
(* first of what it takes frames from.                                     *)
(***************************************************************************)
EXTENDS Integers, Sequences, SequencesExt

CONSTANTS Cubes, Root,
          None,         \* UNKNOWN_ID
          Kits,         \* what a user may have at hand: cubes and the arm at
                        \* the start, from the root down; how many commands are
                        \* sent; how often a cube is plugged or unplugged or an
                        \* answer lost, in all; the tasks that may be the first
                        \* to hear of a neighbour
          QueueLen      \* of a FreeRTOS queue, 10 in the code

\* task_ping_master, task_ping_slave, task_handle_handshakes
LinkTasks == {"ping_master", "ping_slave", "handler"}

ASSUME ChainAssumption ==
         /\ Root \in Cubes /\ None \notin Cubes
         /\ \A k \in Kits : /\ k.arm \in Seq(k.cubes) \ {<<>>} /\ k.cubes \subseteq Cubes
                            /\ IsInjective(k.arm) /\ Head(k.arm) = Root
                            /\ k.commands \in Nat /\ k.troubles \in Nat
                            /\ k.finders \subseteq LinkTasks
         /\ QueueLen \in Nat \ {0}

VARIABLES kit,          \* what the user has at hand
          arm,          \* the cubes plugged together, from the root down
          id,           \* MASTER_ID and SLAVE_ID of each
          pre,          \* master_pre_init_buffer and slave_pre_init_buffer
          out,          \* h_queue_send_to_master and h_queue_send_to_slave
          in,           \* received by the UART, not read yet
          linker,       \* where each task of the handshake is
          servo_queue,  \* h_queue_servo
          report_queue, \* h_queue_report of the root
          moved,        \* the servo moved, and has not acknowledged it yet
          heard,        \* the SLAVE_ID of each cube in the root's table
          sent,         \* (history) the commands sent: whom each was for
          obeyed,       \* (history) the last command each cube carried out
          lost,         \* (history) the commands lost with a cable or power
          overtaken,    \* (history) cubes one of whose frames was overtaken
          raced,        \* (history) cubes whose tasks reported at once
          troubles

userVars == <<kit, arm>>
frameVars == <<pre, out, in, servo_queue, report_queue>>
history == <<sent, obeyed, lost, raced>>
vars == <<userVars, id, frameVars, linker, moved, heard, history, overtaken, troubles>>

Sides == {"up", "down"}
Opposite(s) == IF s = "up" THEN "down" ELSE "up"
Both(v) == [s \in Sides |-> v]

\* The sides a task looks after.  The root's task_ping_master has nobody to
\* find.
Serves(t) == CASE t = "ping_master" -> {"up"}
               [] t = "ping_slave" -> {"down"}
               [] t = "handler" -> Sides

\* pc, the side, and the id in the hand of a task: that of the neighbour it
\* is going to adopt, or the SLAVE_ID it copied into a report.
Linkers == [pc : {"idle", "adopt", "flush", "copy", "test", "post"},
            side : Sides, held : Cubes \cup {None}]
NoLink == [pc |-> "idle", side |-> "up", held |-> None]
At(p) == [NoLink EXCEPT !.pc = p]

Arm == Range(arm)
Place(c) == CHOOSE i \in DOMAIN arm : arm[i] = c
Reached(c, s) == LET i == IF s = "up" THEN Place(c) - 1 ELSE Place(c) + 1
                 IN IF i \in DOMAIN arm THEN arm[i] ELSE None

\* What an arm s that has settled knows.
Known(s) == [c \in Cubes |-> LET at(i) == IF i \in DOMAIN s THEN s[i] ELSE None IN
                IF c \in Range(s)
                THEN LET i == CHOOSE j \in DOMAIN s : s[j] = c
                     IN [up |-> at(i - 1), down |-> at(i + 1)]
                ELSE Both(None)]

Init == /\ kit \in Kits
        /\ arm = kit.arm
        /\ id = Known(arm)
        /\ pre = [c \in Cubes |-> Both(<<>>)]
        /\ out = [c \in Cubes |-> Both(<<>>)]
        /\ in = [c \in Cubes |-> Both(<<>>)]
        /\ linker = [c \in Cubes |-> [t \in LinkTasks |-> NoLink]]
        /\ servo_queue = [c \in Cubes |-> <<>>]
        /\ report_queue = <<>>
        /\ moved = [c \in Cubes |-> FALSE]
        /\ heard = [c \in Cubes |-> id[c]["down"]]
        /\ sent = <<>>
        /\ obeyed = [c \in Cubes |-> 0]
        /\ lost = {}
        /\ overtaken = {}
        /\ raced = {}
        /\ troubles = 0
-----------------------------------------------------------------------------
(* send_msg_to_master and send_msg_to_slave                                *)

Frame(k, c, d, no, x) == [kind |-> k, from |-> c, to |-> d, no |-> no, slave |-> x]
SameWay(f, g) == f.kind = g.kind /\ f.from = g.from /\ f.to = g.to
\* The cube whom a command is for, or who reports.
Subject(f) == IF f.kind = "servo" THEN f.to ELSE f.from

\* A frame for a neighbour that is not known waits in the buffer, one for a
\* neighbour that is known for room in the queue.
Send(c, s, f) ==
    IF id[c][s] = None
    THEN /\ pre' = [pre EXCEPT ![c][s] = Append(@, f)]
         /\ UNCHANGED <<out, overtaken>>
    ELSE /\ Len(out[c][s]) < QueueLen
         /\ out' = [out EXCEPT ![c][s] = Append(@, f)]
         /\ overtaken' = IF \E i \in DOMAIN pre[c][s] : SameWay(pre[c][s][i], f)
                         THEN overtaken \cup {Subject(f)} ELSE overtaken
         /\ UNCHANGED pre

\* task_send_uart: without a neighbour the bytes go nowhere.
CommandsIn(fs) == {fs[i].no : i \in {j \in DOMAIN fs : fs[j].kind = "servo"}}
Transmit(c, s) ==
    /\ c \in Arm /\ out[c][s] # <<>>
    /\ out' = [out EXCEPT ![c][s] = Tail(@)]
    /\ LET d == Reached(c, s)  f == Head(out[c][s]) IN
       IF d = None
       THEN /\ lost' = lost \cup CommandsIn(<<f>>)
            /\ UNCHANGED in
       ELSE /\ in' = [in EXCEPT ![d][Opposite(s)] = Append(@, f)]
            /\ UNCHANGED lost
    /\ UNCHANGED <<userVars, id, pre, linker, servo_queue, report_queue, moved, heard, sent, obeyed,
                   raced, overtaken, troubles>>
-----------------------------------------------------------------------------
(* task_receive_uart behind a good frame, and sort_new_msg                 *)

\* For this cube, or for whoever gets it.
Mine(c, f) == f.to \in {c, None}

\* Mutant: a full queue is written to.
EnqueueUnbounded(c, f) == servo_queue' = [servo_queue EXCEPT ![c] = Append(@, f)]

Enqueue(c, f) == /\ Len(servo_queue[c]) < QueueLen
                 /\ servo_queue' = [servo_queue EXCEPT ![c] = Append(@, f)]

Sort(c, f) ==
    \/ /\ f.kind = "servo"
       /\ Enqueue(c, f)
       /\ UNCHANGED report_queue
    \/ /\ f.kind = "report"
       /\ Len(report_queue) < QueueLen
       /\ report_queue' = Append(report_queue, f)
       /\ UNCHANGED servo_queue
    \/ f.kind = "ack" /\ UNCHANGED <<servo_queue, report_queue>>

\* Mutant: what is not for this cube is sent back where it came from.
ReceiveBack(c, s) ==
    /\ c \in Arm /\ in[c][s] # <<>>
    /\ in' = [in EXCEPT ![c][s] = Tail(@)]
    /\ LET f == Head(in[c][s]) IN
       IF Mine(c, f) THEN Sort(c, f) /\ UNCHANGED <<pre, out, overtaken>>
                     ELSE Send(c, s, f) /\ UNCHANGED <<servo_queue, report_queue>>
    /\ UNCHANGED <<userVars, id, linker, moved, heard, history, troubles>>

Receive(c, s) ==
    /\ c \in Arm /\ in[c][s] # <<>>
    /\ in' = [in EXCEPT ![c][s] = Tail(@)]
    /\ LET f == Head(in[c][s]) IN
       IF Mine(c, f) THEN Sort(c, f) /\ UNCHANGED <<pre, out, overtaken>>
                     ELSE Send(c, Opposite(s), f) /\ UNCHANGED <<servo_queue, report_queue>>
    /\ UNCHANGED <<userVars, id, linker, moved, heard, history, troubles>>

\* task_handle_report of the root; what the table makes of a report is in
\* ReportHandler.
HandleReport == /\ report_queue # <<>>
                /\ report_queue' = Tail(report_queue)
                /\ heard' = [heard EXCEPT ![Head(report_queue).from] = Head(report_queue).slave]
                /\ UNCHANGED <<userVars, id, pre, out, in, servo_queue, linker, moved, history,
                               overtaken, troubles>>
-----------------------------------------------------------------------------
(* Commands and acknowledgements *)

\* convert_servo_instructions, for one of its targets: the list of cubes is
\* made from reports, so it may have a cube that has gone.
SendCommand(d) ==
    /\ Len(sent) < kit.commands
    /\ sent' = Append(sent, d)
    /\ LET f == Frame("servo", Root, d, Len(sent) + 1, None) IN
       IF d = Root THEN Enqueue(Root, f) /\ UNCHANGED <<pre, out, overtaken>>
                   ELSE Send(Root, "down", f) /\ UNCHANGED servo_queue
    /\ UNCHANGED <<userVars, id, in, report_queue, linker, moved, heard, obeyed, lost, raced, troubles>>

\* task_execute_servo; what the servo makes of it is in ServoTask.
Execute(c) == /\ c \in Arm /\ servo_queue[c] # <<>>
              /\ servo_queue' = [servo_queue EXCEPT ![c] = Tail(@)]
              /\ obeyed' = [obeyed EXCEPT ![c] = Head(servo_queue[c]).no]
              /\ moved' = [moved EXCEPT ![c] = TRUE]
              /\ UNCHANGED <<userVars, id, pre, out, in, report_queue, linker, heard, sent, lost, raced,
                             overtaken, troubles>>

\* send_movement_ack, to the master of the moment.
SendAck(c) == /\ moved[c]
              /\ moved' = [moved EXCEPT ![c] = FALSE]
              /\ Send(c, "up", Frame("ack", c, id[c]["up"], 0, None))
              /\ UNCHANGED <<userVars, id, in, linker, servo_queue, report_queue, heard, history, troubles>>
-----------------------------------------------------------------------------
(* The tasks of the handshake, as far as frames are concerned               *)

Idle(c, t) == c \in Arm /\ linker[c][t].pc = "idle"
Goto(c, t, l) == linker' = [linker EXCEPT ![c][t] = l]

\* The neighbour of this side answers or pings, and is another than the one
\* that was there.
Find(c, t, s) == /\ Idle(c, t) /\ s \in Serves(t) /\ t \in kit.finders
                 /\ Reached(c, s) \notin {None, id[c][s]}
                 /\ Goto(c, t, [pc |-> "adopt", side |-> s, held |-> Reached(c, s)])
                 /\ UNCHANGED <<userVars, id, frameVars, moved, heard, history, overtaken, troubles>>

Adopt(c, t) == LET l == linker[c][t] IN
               /\ l.pc = "adopt"
               /\ id' = [id EXCEPT ![c][l.side] = l.held]
               /\ Goto(c, t, [At("flush") EXCEPT !.side = l.side])
               /\ UNCHANGED <<userVars, frameVars, moved, heard, history, overtaken, troubles>>

\* Mutant: the root is not told.
LoseSilent(c, t, s) ==
    /\ Idle(c, t) /\ s \in Serves(t) /\ t # "handler"
    /\ id[c][s] # None
    /\ IF Reached(c, s) = id[c][s] THEN troubles < kit.troubles /\ troubles' = troubles + 1
                                   ELSE UNCHANGED troubles
    /\ id' = [id EXCEPT ![c][s] = None]
    /\ UNCHANGED <<userVars, frameVars, linker, moved, heard, history, overtaken>>

\* No answer to a ping: the neighbour has gone, or a frame was lost.  A cube
\* that lost its master has nobody to tell.
Lose(c, t, s) == /\ Idle(c, t) /\ s \in Serves(t) /\ t # "handler"
                 /\ id[c][s] # None
                 /\ IF Reached(c, s) = id[c][s] THEN troubles < kit.troubles /\ troubles' = troubles + 1
                                                ELSE UNCHANGED troubles
                 /\ id' = [id EXCEPT ![c][s] = None]
                 /\ Goto(c, t, IF s = "down" THEN At("copy") ELSE NoLink)
                 /\ UNCHANGED <<userVars, frameVars, moved, heard, history, overtaken>>

\* Mutant: the newest message first.
FlushNewest(c, t) ==
    LET s == linker[c][t].side IN
    /\ linker[c][t].pc = "flush"
    /\ IF pre[c][s] = <<>> \/ id[c][s] = None
       THEN /\ Goto(c, t, At("copy"))
            /\ UNCHANGED <<pre, out>>
       ELSE /\ Len(out[c][s]) < QueueLen
            /\ out' = [out EXCEPT ![c][s] = Append(@, Last(pre[c][s]))]
            /\ pre' = [pre EXCEPT ![c][s] = Front(@)]
            /\ UNCHANGED linker
    /\ UNCHANGED <<userVars, id, in, servo_queue, report_queue, moved, heard, history, overtaken, troubles>>

\* Mutant: a message is popped and not sent.
FlushDropped(c, t) ==
    LET s == linker[c][t].side IN
    /\ linker[c][t].pc = "flush"
    /\ IF pre[c][s] = <<>> \/ id[c][s] = None
       THEN /\ Goto(c, t, At("copy"))
            /\ UNCHANGED <<pre, out>>
       ELSE /\ Len(out[c][s]) < QueueLen
            /\ UNCHANGED out
            /\ pre' = [pre EXCEPT ![c][s] = Tail(@)]
            /\ UNCHANGED linker
    /\ UNCHANGED <<userVars, id, in, servo_queue, report_queue, moved, heard, history, overtaken, troubles>>

\* One round of send_buffered_messages_to_master or _to_slave.
Flush(c, t) ==
    LET s == linker[c][t].side IN
    /\ linker[c][t].pc = "flush"
    /\ IF pre[c][s] = <<>> \/ id[c][s] = None
       THEN /\ Goto(c, t, At("copy"))
            /\ UNCHANGED <<pre, out>>
       ELSE /\ Len(out[c][s]) < QueueLen
            /\ out' = [out EXCEPT ![c][s] = Append(@, Head(pre[c][s]))]
            /\ pre' = [pre EXCEPT ![c][s] = Tail(@)]
            /\ UNCHANGED linker
    /\ UNCHANGED <<userVars, id, in, servo_queue, report_queue, moved, heard, history, overtaken, troubles>>

\* send_report_to_root: first it copies the ids.
Copy(c, t) == /\ linker[c][t].pc = "copy"
              /\ Goto(c, t, [At(IF c = Root THEN "post" ELSE "test") EXCEPT !.held = id[c]["down"]])
              /\ UNCHANGED <<userVars, id, frameVars, moved, heard, history, overtaken, troubles>>

\* A cube that knows no master sends none.
Test(c, t) == /\ linker[c][t].pc = "test"
              /\ Goto(c, t, IF id[c]["up"] = None THEN NoLink ELSE [linker[c][t] EXCEPT !.pc = "post"])
              /\ UNCHANGED <<userVars, id, frameVars, moved, heard, history, overtaken, troubles>>

\* Another task of c has a copy in its hand that is no longer so.
OldCopy(c, t) == \E u \in LinkTasks \ {t} : /\ linker[c][u].pc \in {"test", "post"}
                                            /\ linker[c][u].held # id[c]["down"]

\* The root deals with its own.
Post(c, t) ==
    LET x == linker[c][t].held IN
    /\ linker[c][t].pc = "post"
    /\ Goto(c, t, NoLink)
    /\ IF c = Root THEN /\ heard' = [heard EXCEPT ![Root] = x]
                        /\ UNCHANGED <<pre, out, overtaken>>
                   ELSE /\ Send(c, "up", Frame("report", c, Root, 0, x))
                        /\ UNCHANGED heard
    /\ raced' = IF OldCopy(c, t) THEN raced \cup {c} ELSE raced
    /\ UNCHANGED <<userVars, id, in, servo_queue, report_queue, moved, sent, obeyed, lost, troubles>>
-----------------------------------------------------------------------------
(* The user *)

\* Command n is somewhere in cube d.
Keeps(d, n) == \/ n \in CommandsIn(servo_queue[d])
               \/ \E b \in {pre, out, in}, s \in Sides : n \in CommandsIn(b[d][s])

\* The cubes below c lose their power, and all they know.
Detach(c) ==
    /\ c \in Arm /\ Place(c) < Len(arm)
    /\ troubles < kit.troubles
    /\ troubles' = troubles + 1
    /\ arm' = SubSeq(arm, 1, Place(c))
    /\ LET gone == Arm \ Range(arm')
           Reset(f, v) == [d \in Cubes |-> IF d \in gone THEN v ELSE f[d]]
       IN /\ id' = Reset(id, Both(None))
          /\ pre' = Reset(pre, Both(<<>>))
          /\ out' = Reset(out, Both(<<>>))
          /\ in' = Reset(in, Both(<<>>))
          /\ linker' = Reset(linker, [t \in LinkTasks |-> NoLink])
          /\ servo_queue' = Reset(servo_queue, <<>>)
          /\ moved' = Reset(moved, FALSE)
          /\ lost' = lost \cup {n \in DOMAIN sent : \E d \in gone : Keeps(d, n)}
    /\ UNCHANGED <<kit, report_queue, heard, sent, obeyed, raced, overtaken>>

Attach(c) == /\ c \in kit.cubes \ Arm
             /\ troubles < kit.troubles
             /\ troubles' = troubles + 1
             /\ arm' = Append(arm, c)
             /\ UNCHANGED <<kit, id, frameVars, linker, moved, heard, history, overtaken>>
-----------------------------------------------------------------------------
Wire(c, s) == Transmit(c, s) \/ Receive(c, s)
Link(c, t) == \/ \E s \in Sides : Find(c, t, s) \/ Lose(c, t, s)
              \/ Adopt(c, t) \/ Flush(c, t) \/ Copy(c, t) \/ Test(c, t) \/ Post(c, t)
Servo(c) == Execute(c) \/ SendAck(c)

System == \/ \E c \in Cubes, s \in Sides : Wire(c, s)
          \/ \E c \in Cubes, t \in LinkTasks : Link(c, t)
          \/ \E c \in Cubes : Servo(c)
          \/ HandleReport
User == \E c \in Cubes : SendCommand(c) \/ Detach(c) \/ Attach(c)
Next == System \/ User

\* Every task of a cube keeps running.  Less is enough: as long as some task
\* can go on, one does.
Spec == Init /\ [][Next]_vars
FairSpec == Spec /\ WF_vars(System)
-----------------------------------------------------------------------------
(* Properties *)

Frames == [kind : {"servo", "report", "ack"}, from : Cubes, to : Cubes \cup {None},
           no : 0 .. kit.commands, slave : Cubes \cup {None}]

TypeOK == /\ kit \in Kits
          /\ arm \in Seq(kit.cubes) /\ IsInjective(arm) /\ Head(arm) = Root
          /\ id \in [Cubes -> [Sides -> Cubes \cup {None}]]
          /\ \A c \in Cubes, s \in Sides : /\ pre[c][s] \in Seq(Frames)
                                           /\ out[c][s] \in Seq(Frames) /\ Len(out[c][s]) <= QueueLen
                                           /\ in[c][s] \in Seq(Frames)
          /\ linker \in [Cubes -> [LinkTasks -> Linkers]]
          /\ \A c \in Cubes : servo_queue[c] \in Seq(Frames) /\ Len(servo_queue[c]) <= QueueLen
          /\ report_queue \in Seq(Frames) /\ Len(report_queue) <= QueueLen
          /\ moved \in [Cubes -> BOOLEAN]
          /\ heard \in [Cubes -> Cubes \cup {None}]
          /\ sent \in Seq(Cubes) /\ obeyed \in [Cubes -> 0 .. Len(sent)]
          /\ lost \subseteq 1 .. Len(sent)
          /\ overtaken \subseteq Cubes /\ raced \subseteq Cubes
          /\ troubles \in 0 .. kit.troubles

\* A cube carries commands out in the order they were sent, unless one was
\* overtaken by another in the gap between the discovery of a neighbour and
\* the end of the flush.
CommandsInOrder == [][\A c \in Cubes \ overtaken : obeyed'[c] >= obeyed[c]]_vars

\* The newest command for a cube that stays in the arm is the last one it
\* carries out, unless the command was lost with a cable or a cube's power.
Newest(c) == LET all == {i \in DOMAIN sent : sent[i] = c}
             IN IF all = {} THEN 0 ELSE CHOOSE i \in all : \A j \in all : j <= i
Obeys == <>[](\A c \in Arm \ overtaken : Newest(c) \in lost \cup {obeyed[c]})

\* handle_handshake.cpp 28-30: no stale report overwrites a fresher one.  In
\* the end the last report of every cube of the arm tells who is below it,
\* with two exceptions: a report that was buffered further up and overtaken,
\* and two tasks of a cube of which one copied the ids before the other and
\* sent them after it.
RootKnows == <>[](\A c \in Arm \ (overtaken \cup raced) : heard[c] = id[c]["down"])

\* In the end no frame is on its way.  What is left lies in a buffer at an end
\* of the arm and is for a cube that is not there, or is an acknowledgement of
\* the root's own servo.
Drains == <>[](\A c \in Arm, s \in Sides :
                 /\ out[c][s] = <<>> /\ in[c][s] = <<>> /\ servo_queue[c] = <<>> /\ report_queue = <<>>
                 /\ \A i \in DOMAIN pre[c][s] :
                       /\ Reached(c, s) = None
                       /\ LET f == pre[c][s][i] IN
                          f.to \notin Arm /\ (f.kind = "ack" => c = Root /\ f.from = Root))
=============================================================================
