------------------------------ MODULE Console ------------------------------
(***************************************************************************)
(* The client that moves the arm, and the root's side of it: the Python    *)
(* client (python client/esp32_client.py), the TCP server and the protocol *)
(* manager (lib/wifi_code), the bridge that turns a line into one message  *)
(* for each servo (lib/uart_code/bridge.cpp), and the task that rebuilds   *)
(* the list of cubes meanwhile (lib/uart_code/handle_report.cpp).          *)
(*                                                                         *)
(* Sessions are numbered.  Within one, lines arrive in order; once it is   *)
(* over, what is under way may be lost.  A line is the number of servos it *)
(* has values for and whether one of the values is faulty.  A wait for an  *)
(* answer may always time out.                                             *)
(***************************************************************************)
EXTENDS Integers, Sequences, FiniteSets

CONSTANTS MaxNodes,       \* MAX_NODES, 10 in the code
          Arms,           \* the lists of cubes there may be, the root first
          MaxServos,      \* MAX_SERVOS, 5 in the code
          ServoQueueLen,  \* length of the root's h_queue_servo, 10 in the code
          Typed,          \* the numbers a user who is asked may type
          MaxSessions, MaxLines, MaxChanges, MaxBreaks

ROOT_ID == 0
UNKNOWN_ID == -1
Ids == 0 .. MaxNodes - 1
Sessions == 1 .. MaxSessions

ASSUME ConsoleAssumption ==
         /\ MaxNodes \in Nat \ {0} /\ MaxServos \in Nat \ {0} /\ ServoQueueLen \in Nat \ {0}
         /\ Arms \subseteq {a \in Seq(Ids) : Len(a) \in 1 .. MaxNodes /\ a[1] = ROOT_ID}
         /\ Typed \subseteq Nat
         /\ MaxSessions \in Nat /\ MaxLines \in Nat /\ MaxChanges \in Nat /\ MaxBreaks \in Nat

VARIABLES ids_array, ids_array_len, s_num_servos,
          rebuild,        \* the task inside receive_new_report: [at, todo]
          changes,        \* how often the list was rebuilt
          up, over,       \* of each session: the lines to the root, and
                          \* whether it is over
          down,           \* the lines to the client
          lost,           \* sessions that are over without a word to the root
          accepted,       \* sessions the server has accepted so far
          sock,           \* s_client_sock: the session, 0 if there is none
          server,         \* tcp_server_task: [at, line, value, total, ids]
          servo_queue,    \* messages in the root's h_queue_servo
          session,        \* the client's session
          client,         \* its main thread: [at, auto, step, line]
          receiving,      \* its receiver thread runs
          num_servos, ack_event, ready_event,
          targets,        \* (history) whom the last command accepted was sent to
          rebuilt,        \* (history) the list changed since it was checked
          answered,       \* (history) the last step answered OK in this session
          waiting,        \* (history) lines of this session without an answer
          stale, typed    \* (history) the client was told, or has from its
                          \* user, a number that no later message replaces

listVars == <<ids_array, ids_array_len, s_num_servos, rebuild, changes>>
lineVars == <<up, down, over, lost>>
serverVars == <<accepted, sock, server, servo_queue>>
clientVars == <<session, client, receiving, num_servos, ack_event, ready_event>>
history == <<targets, rebuilt, answered, waiting, stale, typed>>
vars == <<listVars, lineVars, serverVars, clientVars, history>>

NoLine == [n |-> 0, faulty |-> FALSE, step |-> 0]
None == -1
NoClient(lines) == [at |-> "off", auto |-> FALSE, step |-> lines, line |-> NoLine]
Idle(l) == [at |-> l, line |-> NoLine, value |-> 0, total |-> 0, ids |-> <<>>]

\* The server is started first, when the list does not exist yet; but the arm
\* may have been found already before the first client connects.
Init == /\ \E a \in Arms \cup {<<>>, <<ROOT_ID>>} :
              /\ ids_array = [i \in Ids |-> IF i < Len(a) THEN a[i + 1] ELSE ROOT_ID]
              /\ ids_array_len = Len(a)
              /\ s_num_servos = IF a = <<>> THEN 1 ELSE Len(a)
        /\ rebuild = [at |-> "idle", todo |-> <<>>]
        /\ changes = 0
        /\ up = [s \in Sessions |-> <<>>] /\ down = <<>>
        /\ over = [s \in Sessions |-> FALSE]
        /\ lost = {}
        /\ accepted = 0 /\ sock = 0
        /\ server = Idle("accept")
        /\ servo_queue = 0
        /\ session = 0
        /\ client = NoClient(0)
        /\ receiving = FALSE
        /\ num_servos = None /\ ack_event = FALSE /\ ready_event = FALSE
        /\ targets = <<>> /\ rebuilt = FALSE
        /\ answered = 0 /\ waiting = 0
        /\ stale = FALSE /\ typed = FALSE

Goto(l) == server' = IF l \in {"accept", "greet", "recv"} THEN Idle(l) ELSE [server EXCEPT !.at = l]
ClientGoto(l) == client' = [client EXCEPT !.at = l]

\* TcpServer::send, to whoever is connected now.
Live == session > 0 /\ ~over[session]
Send(m) == down' = IF sock = session /\ Live THEN Append(down, m) ELSE down
Servos(n) == [kind |-> "SERVOS", n |-> n]
Verdicts == {"OK", "ERROR"}
Verdict(v) == [kind |-> v, n |-> 0]
-----------------------------------------------------------------------------
(* init_report_handler; then compute_ids_array and set_num_servos, for an   *)
(* arm that has become a                                                    *)

\* The server may have a command in hand.
InUse == server.at \in {"accept_line", "bridge", "copy", "dispatch"}

Start == /\ ids_array_len = 0
         /\ ids_array' = [ids_array EXCEPT ![0] = ROOT_ID]
         /\ ids_array_len' = 1
         /\ rebuilt' = InUse
         /\ UNCHANGED <<s_num_servos, rebuild, changes, lineVars, serverVars, clientVars,
                        targets, answered, waiting, stale, typed>>

\* The tasks that report are created after init_report_handler.
Clear == /\ ids_array_len > 0
         /\ rebuild.at = "idle"
         /\ changes < MaxChanges
         /\ \E a \in Arms : rebuild' = [at |-> "append", todo |-> Tail(a)]
         /\ changes' = changes + 1
         /\ ids_array' = [ids_array EXCEPT ![0] = ROOT_ID]
         /\ ids_array_len' = 1
         /\ rebuilt' = InUse
         /\ UNCHANGED <<s_num_servos, lineVars, serverVars, clientVars, targets, answered,
                        waiting, stale, typed>>

AppendFound == /\ rebuild.at = "append"
               /\ rebuild.todo # <<>>
               /\ ids_array' = [ids_array EXCEPT ![ids_array_len] = Head(rebuild.todo)]
               /\ ids_array_len' = ids_array_len + 1
               /\ rebuild' = [rebuild EXCEPT !.todo = Tail(@)]
               /\ UNCHANGED <<s_num_servos, changes, lineVars, serverVars, clientVars, history>>

SetNumServos == /\ rebuild.at = "append"
                /\ rebuild.todo = <<>>
                /\ s_num_servos' = ids_array_len
                /\ rebuild' = [rebuild EXCEPT !.at = "notify"]
                /\ UNCHANGED <<ids_array, ids_array_len, changes, lineVars, serverVars,
                               clientVars, history>>

NotifyServos == /\ rebuild.at = "notify"
                /\ Send(Servos(s_num_servos))
                /\ stale' = FALSE
                /\ rebuild' = [rebuild EXCEPT !.at = "idle"]
                /\ UNCHANGED <<ids_array, ids_array_len, s_num_servos, changes, up, over, lost,
                               serverVars, clientVars, targets, rebuilt, answered, waiting, typed>>
-----------------------------------------------------------------------------
(* tcp_server_task *)

Accept == /\ server.at = "accept"
          /\ accepted < session
          /\ accepted' = accepted + 1
          /\ sock' = accepted + 1
          /\ Goto("greet")
          /\ UNCHANGED <<listVars, lineVars, servo_queue, clientVars, history>>

\* Mutant: the client is told the number when it changes, and not before.
GreetNot == /\ server.at = "greet"
            /\ Goto("recv")
            /\ UNCHANGED <<listVars, lineVars, accepted, sock, servo_queue, clientVars, history>>

\* on_connect: the answer is put together here and sent in the next step.
Greet == /\ server.at = "greet"
         /\ server' = [server EXCEPT !.at = "greeting", !.value = s_num_servos]
         /\ UNCHANGED <<listVars, lineVars, accepted, sock, servo_queue, clientVars, history>>

SendGreeting ==
    /\ server.at = "greeting"
    /\ Send(Servos(server.value))
    /\ stale' = IF sock = session /\ Live THEN server.value # s_num_servos /\ rebuild.at # "notify"
                                  ELSE stale
    /\ Goto("recv")
    /\ UNCHANGED <<listVars, up, over, lost, accepted, sock, servo_queue, clientVars, targets,
                   rebuilt, answered, waiting, typed>>

\* An empty line is ignored.
Recv == /\ server.at = "recv"
        /\ up[sock] # <<>>
        /\ LET line == Head(up[sock]) IN
           server' = IF line.n = 0 THEN server ELSE [server EXCEPT !.at = "check", !.line = line]
        /\ up' = [up EXCEPT ![sock] = Tail(@)]
        /\ UNCHANGED <<listVars, down, over, lost, accepted, sock, servo_queue, clientVars,
                       history>>

\* Mutant: the loop is not left.
RecvEndStays == /\ server.at = "recv"
                /\ over[sock]
                /\ UNCHANGED vars

\* recv returns 0 or an error; lines not read yet may be lost.
RecvEnd == /\ server.at = "recv"
           /\ over[sock] /\ sock \notin lost
           /\ sock' = 0
           /\ up' = [up EXCEPT ![sock] = <<>>]
           /\ Goto("accept")
           /\ UNCHANGED <<listVars, down, over, lost, accepted, servo_queue, clientVars, history>>

\* A session that was lost: recv has no time limit, and only fails if one is
\* reached in sending or the client's address comes back.
RecvFails == /\ server.at = "recv"
             /\ sock \in lost
             /\ sock' = 0
             /\ up' = [up EXCEPT ![sock] = <<>>]
             /\ Goto("accept")
             /\ UNCHANGED <<listVars, down, over, lost, accepted, servo_queue, clientVars, history>>
-----------------------------------------------------------------------------
(* handle_incoming *)

\* A value that is no number, out of its range, or one servo too many ends
\* the parsing; then the groups of values are counted.
Wrong(line) == line.faulty \/ line.n > MaxServos \/ line.n # s_num_servos

Check == /\ server.at = "check"
         /\ Goto(IF Wrong(server.line) THEN "reject" ELSE "accept_line")
         /\ rebuilt' = ((rebuild.at = "append" \/ ids_array_len = 0) /\ ~Wrong(server.line))
         /\ UNCHANGED <<listVars, lineVars, accepted, sock, servo_queue, clientVars, targets,
                        answered, waiting, stale, typed>>

\* Mutant: the error is sent, and then the command accepted all the same.
RejectNoReturn == /\ server.at = "reject"
                  /\ Send(Verdict("ERROR"))
                  /\ Goto("accept_line")
                  /\ UNCHANGED <<listVars, up, over, lost, accepted, sock, servo_queue,
                                 clientVars, history>>

Reject == /\ server.at = "reject"
          /\ Send(Verdict("ERROR"))
          /\ Goto("recv")
          /\ UNCHANGED <<listVars, up, over, lost, accepted, sock, servo_queue, clientVars,
                         history>>

\* OK is sent before the command is carried out.
AcceptLine == /\ server.at = "accept_line"
              /\ Send(Verdict("OK"))
              /\ answered' = IF sock = session /\ Live THEN server.line.step ELSE answered
              /\ Goto("bridge")
              /\ UNCHANGED <<listVars, up, over, lost, accepted, sock, servo_queue, clientVars,
                             targets, rebuilt, waiting, stale, typed>>
-----------------------------------------------------------------------------
(* convert_servo_instructions *)

GetLen == /\ server.at = "bridge"
          /\ server' = [server EXCEPT !.at = "copy", !.total = ids_array_len, !.ids = <<>>]
          /\ UNCHANGED <<listVars, lineVars, accepted, sock, servo_queue, clientVars, history>>

\* One round of the loop of get_ids_array.
CopyId == /\ server.at = "copy"
          /\ Len(server.ids) < server.total /\ Len(server.ids) < ids_array_len
          /\ server' = [server EXCEPT !.ids = Append(@, ids_array[Len(@)])]
          /\ UNCHANGED <<listVars, lineVars, accepted, sock, servo_queue, clientVars, history>>

\* It ends; what was not copied is whatever the stack holds.
CopyEnd == /\ server.at = "copy"
           /\ Len(server.ids) = server.total \/ Len(server.ids) >= ids_array_len
           /\ \E rest \in [Len(server.ids) + 1 .. server.total -> Ids \cup {UNKNOWN_ID}] :
                 server' = [server EXCEPT !.at = "dispatch",
                                !.ids = [i \in 1 .. server.total |-> IF i <= Len(@) THEN @[i]
                                                                    ELSE rest[i]]]
           /\ UNCHANGED <<listVars, lineVars, accepted, sock, servo_queue, clientVars, history>>

\* Mutant: the first cube below the root is given the first values.
DispatchShifted ==
    /\ server.at = "dispatch"
    /\ Len(targets) < server.line.n /\ Len(targets) < server.total
    /\ targets' = Append(targets, server.ids[IF Len(targets) + 2 > server.total THEN 1
                                                                             ELSE Len(targets) + 2])
    /\ UNCHANGED <<listVars, lineVars, serverVars, clientVars, rebuilt, answered, waiting, stale, typed>>

\* Mutant: a full queue is not waited for.
DispatchUnbounded ==
    /\ server.at = "dispatch"
    /\ Len(targets) < server.line.n /\ Len(targets) < server.total
    /\ LET id == server.ids[Len(targets) + 1] IN
       /\ targets' = Append(targets, id)
       /\ servo_queue' = servo_queue + IF id = ROOT_ID THEN 1 ELSE 0
    /\ UNCHANGED <<listVars, lineVars, accepted, sock, server, clientVars, rebuilt, answered,
                   waiting, stale, typed>>

\* A message for the root itself waits for room in its own queue; those for
\* other cubes are handed to the send path (UartSend).
Dispatch ==
    /\ server.at = "dispatch"
    /\ Len(targets) < server.line.n /\ Len(targets) < server.total
    /\ LET id == server.ids[Len(targets) + 1] IN
       /\ targets' = Append(targets, id)
       /\ id = ROOT_ID => servo_queue < ServoQueueLen
       /\ servo_queue' = servo_queue + IF id = ROOT_ID THEN 1 ELSE 0
    /\ UNCHANGED <<listVars, lineVars, accepted, sock, server, clientVars, rebuilt, answered,
                   waiting, stale, typed>>

DispatchEnd == /\ server.at = "dispatch"
               /\ Len(targets) = server.line.n \/ Len(targets) = server.total
               /\ Goto("recv")
               /\ targets' = <<>> /\ rebuilt' = FALSE
               /\ UNCHANGED <<listVars, lineVars, accepted, sock, servo_queue, clientVars, answered,
                              waiting, stale, typed>>

\* task_execute_servo of the root
ExecuteServo == /\ servo_queue > 0
                /\ servo_queue' = servo_queue - 1
                /\ UNCHANGED <<listVars, lineVars, accepted, sock, server, clientVars, history>>
-----------------------------------------------------------------------------
(* The client's main thread *)

\* It is started and connects; AUTO_MODE is set by hand in the file.
Connect == /\ client.at = "off"
           /\ session < MaxSessions
           /\ session' = session + 1
           /\ \E auto \in BOOLEAN :
                 client' = [client EXCEPT !.at = "ready", !.auto = auto]
           /\ receiving' = TRUE
           /\ UNCHANGED <<listVars, lineVars, serverVars, num_servos, ack_event, ready_event,
                          history>>

\* It ends, and what it knew is gone.
Exit == /\ client' = NoClient(client.step)
        /\ receiving' = FALSE
        /\ num_servos' = None /\ ack_event' = FALSE /\ ready_event' = FALSE
        /\ answered' = 0 /\ waiting' = 0 /\ stale' = FALSE /\ typed' = FALSE
        /\ down' = <<>>
        /\ UNCHANGED <<listVars, up, lost, serverVars, session, targets, rebuilt>>

\* ready_event.wait(5 s) ends, either way.
Ready == /\ client.at = "ready"
         /\ ClientGoto(IF ready_event /\ num_servos # None THEN "build" ELSE "ask")
         /\ UNCHANGED <<listVars, lineVars, serverVars, session, receiving, num_servos, ack_event,
                        ready_event, history>>

\* The user is asked for the number of servos.
Ask == /\ client.at = "ask"
       /\ num_servos' \in Typed
       /\ typed' = Live
       /\ ClientGoto("build")
       /\ UNCHANGED <<listVars, lineVars, serverVars, session, receiving, ack_event, ready_event,
                      targets, rebuilt, answered, waiting, stale>>

\* Four values are taken for those of one servo if there is one: a row of
\* the sequence has four angles.
Faulty(auto) == IF auto THEN {num_servos = 1} ELSE BOOLEAN

\* Mutant: the event of the step before is not cleared.
BuildKept == /\ client.at = "build"
             /\ client.step < MaxLines
             /\ \E f \in Faulty(client.auto) :
                   client' = [client EXCEPT !.at = "send", !.step = @ + 1,
                                  !.line = [n |-> num_servos, faulty |-> f, step |-> client.step + 1]]
             /\ UNCHANGED <<listVars, lineVars, serverVars, session, receiving, num_servos,
                            ack_event, ready_event, history>>

Build == /\ client.at = "build"
         /\ client.step < MaxLines
         /\ \E f \in Faulty(client.auto) :
               client' = [client EXCEPT !.at = "send", !.step = @ + 1,
                              !.line = [n |-> num_servos, faulty |-> f, step |-> client.step + 1]]
         /\ ack_event' = (ack_event /\ ~client.auto)
         /\ UNCHANGED <<listVars, lineVars, serverVars, session, receiving, num_servos,
                        ready_event, history>>

SendLine == /\ client.at = "send"
            /\ ~over[session]
            /\ up' = [up EXCEPT ![session] = Append(@, client.line)]
            /\ waiting' = waiting + IF client.line.n = 0 THEN 0 ELSE 1
            /\ ClientGoto(IF client.auto THEN "wait" ELSE "build")
            /\ UNCHANGED <<listVars, down, over, lost, serverVars, session, receiving, num_servos,
                           ack_event, ready_event, targets, rebuilt, answered, stale, typed>>

\* The session is over: sendall raises an error, or does not notice yet.
SendNowhere == /\ client.at = "send"
               /\ over[session]
               /\ \/ Exit /\ UNCHANGED over
                  \/ /\ ClientGoto(IF client.auto THEN "wait" ELSE "build")
                     /\ UNCHANGED <<listVars, lineVars, serverVars, session, receiving,
                                    num_servos, ack_event, ready_event, history>>

\* ack_event.wait(15 s): go on with the next step, or give up.
Acknowledged == /\ client.at = "wait"
                /\ ack_event
                /\ ClientGoto("build")
                /\ UNCHANGED <<listVars, lineVars, serverVars, session, receiving, num_servos,
                               ack_event, ready_event, history>>

GiveUp == /\ client.at = "wait"
          /\ ~ack_event
          /\ ClientGoto("quit")
          /\ UNCHANGED <<listVars, lineVars, serverVars, session, receiving, num_servos, ack_event,
                         ready_event, history>>

\* The sequence is over or given up, or the user quits.
Quit == /\ client.at \in {"quit", "build"}
        /\ over' = [over EXCEPT ![session] = TRUE]
        /\ Exit
-----------------------------------------------------------------------------
(* The client's receiver thread, and the network *)

Receive == /\ receiving
           /\ down # <<>>
           /\ LET m == Head(down) IN
              /\ ack_event' = (ack_event \/ m.kind = "OK")
              /\ num_servos' = IF m.kind = "SERVOS" THEN m.n ELSE num_servos
              /\ ready_event' = (ready_event \/ m.kind = "SERVOS")
              /\ typed' = (typed /\ m.kind # "SERVOS")
              /\ waiting' = waiting - IF m.kind \in Verdicts /\ Live THEN 1 ELSE 0
           /\ down' = Tail(down)
           /\ UNCHANGED <<listVars, up, over, lost, serverVars, session, client, receiving,
                          targets, rebuilt, answered, stale>>

\* The end of the session wakes the main thread, an error does not.
ReceiveEnd == /\ receiving
              /\ over[session]
              /\ receiving' = FALSE
              /\ \/ ready_event' = TRUE /\ ack_event' = TRUE
                 \/ UNCHANGED <<ready_event, ack_event>>
              /\ UNCHANGED <<listVars, lineVars, serverVars, session, client, num_servos, history>>

\* The lines of an error hold a dash of three bytes; a chunk that ends within
\* it cannot be decoded, and the exception ends the thread.
ReceiveDies == /\ receiving
               /\ down # <<>> /\ Head(down).kind = "ERROR"
               /\ receiving' = FALSE
               /\ UNCHANGED <<listVars, lineVars, serverVars, session, client, num_servos,
                              ack_event, ready_event, history>>

\* The WiFi connection is lost.
Break == /\ Cardinality(lost) < MaxBreaks
         /\ Live
         /\ lost' = lost \cup {session}
         /\ over' = [over EXCEPT ![session] = TRUE]
         /\ answered' = 0 /\ waiting' = 0 /\ stale' = FALSE /\ typed' = FALSE
         /\ UNCHANGED <<listVars, up, down, serverVars, clientVars, targets, rebuilt>>
-----------------------------------------------------------------------------
Rebuild == AppendFound \/ SetNumServos \/ NotifyServos
HandleLine == Check \/ Reject \/ AcceptLine \/ GetLen \/ CopyId \/ CopyEnd \/ Dispatch \/ DispatchEnd
Server == Accept \/ Greet \/ SendGreeting \/ Recv \/ RecvEnd \/ HandleLine
Client == Connect \/ Ready \/ Ask \/ Build \/ SendLine \/ SendNowhere \/ Acknowledged \/ GiveUp \/ Quit
Receiver == Receive \/ ReceiveEnd \/ ReceiveDies

Next == Start \/ Clear \/ Rebuild \/ Server \/ RecvFails \/ ExecuteServo \/ Client \/ Receiver \/ Break

\* The tasks of the root run; what the client does is up to its user.
Spec == Init /\ [][Next]_vars
FairSpec == Spec /\ WF_vars(Start) /\ WF_vars(Rebuild) /\ WF_vars(Server) /\ WF_vars(ExecuteServo)
-----------------------------------------------------------------------------
(* Properties *)

Lines == [n : Nat, faulty : BOOLEAN, step : 0 .. MaxLines]
Messages == [kind : Verdicts \cup {"SERVOS"}, n : Nat]

TypeOK == /\ ids_array \in [Ids -> Ids]
          /\ ids_array_len \in 0 .. MaxNodes /\ s_num_servos \in 1 .. MaxNodes
          /\ \A s \in Sessions : up[s] \in Seq(Lines)
          /\ down \in Seq(Messages)
          /\ lost \subseteq {s \in Sessions : over[s]}
          /\ sock \in 0 .. accepted /\ accepted \in 0 .. session
          /\ server.at \in {"greet", "greeting", "recv", "check", "reject", "accept_line",
                            "bridge", "copy", "dispatch"} <=> sock > 0
          /\ servo_queue \in 0 .. ServoQueueLen
          /\ num_servos \in Nat \cup {None}
          /\ client.at \notin {"off", "ready", "ask"} => num_servos # None

\* Every line gets one answer: those without one are on their way, in the
\* hand of the server, or their answers are on the way back.
InHand == IF sock = session /\ server.at \in {"check", "reject", "accept_line"} THEN 1 ELSE 0
OneAnswerEach ==
    Live => waiting = Cardinality({i \in DOMAIN up[session] : up[session][i].n > 0}) + InHand
                       + Cardinality({i \in DOMAIN down : down[i].kind \in Verdicts})

\* The sequence only goes on when the root has accepted the very step the
\* client waits for; a session that breaks is taken for an answer.
AckIsForStep ==
    client.at = "wait" /\ ack_event /\ Live => answered = client.step

\* protocol_manager.h 27-30: the client is told every number of servos.  When
\* nothing more is on its way to it, it has the present one; unless a greeting
\* put together before a change was sent after it, or the user has typed one.
NumberKnown ==
    (/\ receiving /\ Live /\ sock = session
     /\ server.at \notin {"greet", "greeting"} /\ rebuild.at # "notify"
     /\ \A i \in DOMAIN down : down[i].kind # "SERVOS"
     /\ ~stale /\ ~typed)
        => num_servos = s_num_servos

\* bridge.cpp 25-26: the first values of a command are the root's, those that
\* follow are for the cubes in their order, and no value is left out.  The first
\* part holds whatever happens, the others unless the list is made or rebuilt
\* between the check of the line and the last message.
SentToArm == [][
    server.at = "dispatch" =>
        /\ targets # <<>> => targets[1] = ROOT_ID
        /\ ~rebuilt => \A i \in DOMAIN targets : targets[i] = ids_array[i - 1]
        /\ ~rebuilt /\ server'.at # "dispatch" => Len(targets) = server.line.n
  ]_vars

\* A client that connects is greeted, or goes away: nothing in the sessions
\* before it keeps the server from it, unless one was lost without a word.
Greeted == Live ~> (sock = session /\ server.at = "recv") \/ ~Live \/ lost # {}
=============================================================================
