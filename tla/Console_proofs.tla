--------------------------- MODULE Console_proofs ---------------------------
(***************************************************************************)
(* Proofs about Console, for any arms, sessions, lines and interruptions:  *)
(* that every line gets its own answer, that the sequence only goes on     *)
(* when its step was accepted, that the client knows the number of servos, *)
(* and that the values of a line go to the cubes in their order.           *)
(***************************************************************************)
EXTENDS Console, Counting

RebuildAts == {"idle", "append", "notify"}
InTouch == {"greet", "greeting", "recv", "check", "reject", "accept_line", "bridge", "copy", "dispatch"}
MaybeIds == Ids \cup {UNKNOWN_ID}

ServerAts == InTouch \cup {"accept"}

Rebuilds == [at : RebuildAts, todo : Seq(Ids)]
Servers == [at : ServerAts, line : Lines, value : Nat, total : Nat, ids : Seq(MaybeIds)]
Clients == [at : {"off", "ready", "ask", "build", "send", "wait", "quit"}, auto : BOOLEAN,
            step : 0 .. MaxLines, line : Lines]

ListTypes == /\ ids_array \in [Ids -> Ids] /\ ids_array_len \in 0 .. MaxNodes
             /\ s_num_servos \in 1 .. MaxNodes /\ rebuild \in Rebuilds
LineTypes == /\ up \in [Sessions -> Seq(Lines)] /\ down \in Seq(Messages)
             /\ over \in [Sessions -> BOOLEAN] /\ lost \subseteq {s \in Sessions : over[s]}
ServerTypes == /\ session \in 0 .. MaxSessions /\ accepted \in 0 .. session /\ sock \in 0 .. accepted
               /\ server \in Servers /\ servo_queue \in 0 .. ServoQueueLen
               /\ server.at # "accept" <=> sock > 0
ClientTypes == /\ client \in Clients /\ num_servos \in Nat \cup {None}
               /\ receiving \in BOOLEAN /\ ack_event \in BOOLEAN
               /\ client.at \notin {"off", "ready", "ask"} => num_servos # None
               /\ client.at # "off" => session > 0
HistoryTypes == /\ targets \in Seq(MaybeIds) /\ rebuilt \in BOOLEAN
                /\ waiting \in Int /\ answered \in Nat /\ stale \in BOOLEAN /\ typed \in BOOLEAN

\* The list of cubes is the root's at least; rebuilt, it fits, and then the
\* number of servos is its length.
ListOK == /\ ids_array[0] = ROOT_ID
          /\ ids_array_len = 0 => s_num_servos = 1 /\ rebuild.at = "idle"
          /\ rebuild.at = "append" => ids_array_len + Len(rebuild.todo) <= MaxNodes
          /\ rebuild.at # "append" /\ ids_array_len > 0 => s_num_servos = ids_array_len

\* The ids a command is sent to, of a list that may change meanwhile.
CommandOK ==
    /\ server.at \in {"copy", "dispatch"} =>
          /\ server.total > 0 => ids_array_len > 0
          /\ Len(server.ids) <= server.total
          /\ server.ids # <<>> => server.ids[1] = ROOT_ID
    /\ server.at = "dispatch" =>
          /\ Len(server.ids) = server.total
          /\ Len(targets) <= server.total /\ Len(targets) <= server.line.n
          /\ \A i \in DOMAIN targets : targets[i] = server.ids[i]
    /\ server.at # "dispatch" => targets = <<>>
    /\ InUse /\ ~rebuilt => /\ rebuild.at # "append" /\ ids_array_len > 0
                            /\ server.line.n = ids_array_len
    /\ server.at \in {"copy", "dispatch"} /\ ~rebuilt =>
          /\ server.total = ids_array_len
          /\ \A i \in DOMAIN server.ids : server.ids[i] = ids_array[i - 1]

\* A client that is not there has nothing under way, nor has a session to come.
SessionOK == /\ client.at = "off" => down = <<>> /\ waiting = 0 /\ ~Live /\ ~receiving
             /\ \A s \in Sessions : s > session => up[s] = <<>>

\* While a sequence runs, at most the line of its present step has no answer.
InStep == client.auto /\ Live =>
    /\ client.at \in {"ready", "ask", "build", "send"} => waiting = 0
    /\ client.at = "send" => client.line.step = client.step /\ ~ack_event
    /\ client.at = "wait" =>
          /\ waiting <= IF ack_event THEN 0 ELSE 1
          /\ \A i \in DOMAIN up[session] : up[session][i].n > 0 => up[session][i].step = client.step
          /\ InHand = 1 => server.line.step = client.step
          /\ ack_event \/ (\E i \in DOMAIN down : down[i].kind = "OK") => answered = client.step

OnlyAutoWaits == client.at = "wait" => client.auto

\* The last number of servos under way to the client is the present one; if
\* none is, so is the number it knows.
LastTold(i) == down[i].kind = "SERVOS" /\ \A j \in DOMAIN down : j > i => down[j].kind # "SERVOS"
Told == /\ receiving /\ Live /\ sock = session
        /\ server.at \notin {"greet", "greeting"} /\ rebuild.at # "notify" /\ ~stale
        => /\ \A i \in DOMAIN down : LastTold(i) => down[i].n = s_num_servos
           /\ (\A i \in DOMAIN down : down[i].kind # "SERVOS") /\ ~typed => num_servos = s_num_servos

Types == ListTypes /\ LineTypes /\ ServerTypes /\ ClientTypes /\ HistoryTypes
IInv == /\ Types /\ ListOK /\ CommandOK /\ SessionOK /\ OneAnswerEach
        /\ InStep /\ OnlyAutoWaits /\ Told
-----------------------------------------------------------------------------
(* Types, and the list of cubes *)

LEMMA Zero == 0 \in Ids /\ ROOT_ID \in Ids /\ ROOT_ID # UNKNOWN_ID /\ Ids \subseteq Nat
  BY ConsoleAssumption DEF Ids, ROOT_ID, UNKNOWN_ID

LEMMA ArmType == ASSUME NEW a \in Arms
                 PROVE  /\ a \in Seq(Ids) /\ a # <<>> /\ Len(a) \in 1 .. MaxNodes /\ a[1] = ROOT_ID
                        /\ Tail(a) \in Seq(Ids) /\ Len(Tail(a)) = Len(a) - 1
<1>1. a \in Seq(Ids) /\ Len(a) \in 1 .. MaxNodes /\ a[1] = ROOT_ID
  BY ConsoleAssumption
<1>2. a # <<>>
  BY <1>1, EmptySeq
<1> QED BY <1>1, <1>2, HeadTailProperties

LEMMA ListKept == ASSUME ListTypes, ListOK, UNCHANGED listVars
                  PROVE  ListTypes' /\ ListOK'
  BY DEF ListTypes, ListOK, listVars

LEMMA InitList == Init => ListTypes /\ ListOK
<1> SUFFICES ASSUME Init PROVE ListTypes /\ ListOK
  OBVIOUS
<1>1. PICK a \in Arms \cup {<<>>, <<ROOT_ID>>} :
         /\ ids_array = [i \in Ids |-> IF i < Len(a) THEN a[i + 1] ELSE ROOT_ID]
         /\ ids_array_len = Len(a)
         /\ s_num_servos = IF a = <<>> THEN 1 ELSE Len(a)
  BY DEF Init
<1>2. /\ a \in Seq(Ids) /\ Len(a) \in 0 .. MaxNodes /\ (a # <<>> => a[1] = ROOT_ID)
      /\ Len(a) = 0 <=> a = <<>>
  <2>1. CASE a \in Arms
    BY <2>1, ArmType
  <2>2. CASE a = <<>>
    BY <2>2, ConsoleAssumption
  <2>3. CASE a = <<ROOT_ID>>
    BY <2>3, Zero, ConsoleAssumption
  <2> QED BY <2>1, <2>2, <2>3
<1>3. \A i \in Ids : i < Len(a) => a[i + 1] \in Ids
  <2> TAKE i \in Ids
  <2>1. i < Len(a) => i + 1 \in 1 .. Len(a)
    BY <1>2, Zero DEF Ids
  <2> QED BY <1>2, <2>1, ElementOfSeq
<1>4. ids_array \in [Ids -> Ids]
  BY <1>1, <1>3, Zero
<1>5. ids_array[0] = ROOT_ID
  BY <1>1, <1>2, Zero
<1>6. rebuild = [at |-> "idle", todo |-> <<>>]
  BY DEF Init
<1>7. s_num_servos \in 1 .. MaxNodes
  BY <1>1, <1>2, ConsoleAssumption
<1>8. rebuild \in Rebuilds
  BY <1>6, EmptySeq DEF Rebuilds, RebuildAts
<1> QED BY <1>1, <1>2, <1>4, <1>5, <1>6, <1>7, <1>8 DEF ListTypes, ListOK

LEMMA RebuildList == ASSUME ListTypes, ListOK, Start \/ Clear \/ Rebuild
                     PROVE  ListTypes' /\ ListOK'
<1> USE Zero DEF ListTypes, ListOK
<1>0. /\ rebuild.at \in RebuildAts /\ rebuild.todo \in Seq(Ids)
      /\ ids_array_len \in Nat /\ s_num_servos \in Nat /\ MaxNodes \in Nat \ {0}
  BY ConsoleAssumption DEF Rebuilds
<1>1. CASE Start
  BY <1>0, <1>1 DEF Start
<1>2. CASE Clear
  <2>1. PICK a \in Arms : rebuild' = [at |-> "append", todo |-> Tail(a)]
    BY <1>2 DEF Clear
  <2>2. rebuild' \in Rebuilds /\ rebuild'.at = "append" /\ 1 + Len(rebuild'.todo) <= MaxNodes
    BY <1>0, <2>1, ArmType DEF Rebuilds, RebuildAts
  <2> QED BY <1>0, <1>2, <2>2 DEF Clear
<1>3. CASE AppendFound
  <2>1. /\ rebuild.at = "append" /\ rebuild.todo # <<>>
        /\ rebuild' = [rebuild EXCEPT !.todo = Tail(@)]
        /\ ids_array' = [ids_array EXCEPT ![ids_array_len] = Head(rebuild.todo)]
        /\ ids_array_len' = ids_array_len + 1 /\ s_num_servos' = s_num_servos
    BY <1>3 DEF AppendFound
  <2>2. /\ Tail(rebuild.todo) \in Seq(Ids) /\ Head(rebuild.todo) \in Ids
        /\ Len(rebuild.todo) \in Nat /\ Len(Tail(rebuild.todo)) = Len(rebuild.todo) - 1
        /\ Len(Tail(rebuild.todo)) \in Nat
    BY <1>0, <2>1, HeadTailProperties
  <2>3. rebuild' \in Rebuilds /\ rebuild'.at = "append" /\ rebuild'.todo = Tail(rebuild.todo)
    BY <2>1, <2>2 DEF Rebuilds
  <2>4. ids_array_len > 0
    BY <1>0, <2>1
  <2>5. ids_array' \in [Ids -> Ids] /\ ids_array'[0] = ROOT_ID
    BY <1>0, <2>1, <2>2, <2>4
  <2>6. ids_array_len' + Len(rebuild'.todo) = ids_array_len + Len(rebuild.todo)
    BY <1>0, <2>1, <2>2, <2>3
  <2>7. ids_array_len' \in 0 .. MaxNodes /\ ids_array_len' > 0
    BY <1>0, <2>1, <2>2, <2>4
  <2> QED BY SMTT(60), <1>0, <2>1, <2>3, <2>5, <2>6, <2>7
<1>4. CASE SetNumServos
  <2>1. rebuild' \in Rebuilds /\ rebuild'.at = "notify" /\ ids_array_len > 0
    BY <1>0, <1>4 DEF SetNumServos, Rebuilds, RebuildAts
  <2> QED BY <1>0, <1>4, <2>1 DEF SetNumServos
<1>5. CASE NotifyServos
  <2>1. rebuild' \in Rebuilds /\ rebuild'.at = "idle"
    BY <1>0, <1>5 DEF NotifyServos, Rebuilds, RebuildAts
  <2> QED BY <1>0, <1>5, <2>1 DEF NotifyServos
<1> QED BY <1>1, <1>2, <1>3, <1>4, <1>5 DEF Rebuild

LEMMA OthersList ==
  Server \/ RecvFails \/ ExecuteServo \/ Client \/ Receiver \/ Break => UNCHANGED listVars
<1> USE DEF Exit
<1>1. Server => UNCHANGED listVars
  BY DEF Server, HandleLine, Accept, Greet, SendGreeting, Recv, RecvEnd, Check, Reject, AcceptLine,
         GetLen, CopyId, CopyEnd, Dispatch, DispatchEnd
<1>2. RecvFails \/ ExecuteServo \/ Receiver \/ Break => UNCHANGED listVars
  BY DEF RecvFails, ExecuteServo, Receiver, Receive, ReceiveEnd, ReceiveDies, Break
<1>3. Client => UNCHANGED listVars
  BY DEF Client, Connect, Ready, Ask, Build, SendLine, SendNowhere, Acknowledged, GiveUp, Quit
<1> QED BY <1>1, <1>2, <1>3

LEMMA NextList == ListTypes /\ ListOK /\ [Next]_vars => ListTypes' /\ ListOK'
<1>1. UNCHANGED vars => UNCHANGED listVars
  BY DEF vars
<1> QED BY <1>1, ListKept, RebuildList, OthersList DEF Next

LEMMA IdleType == \A l \in ServerAts : Idle(l) \in Servers /\ Idle(l).at = l
<1>1. NoLine \in Lines
  BY ConsoleAssumption DEF NoLine, Lines
<1>2. <<>> \in Seq(MaybeIds)
  BY EmptySeq
<1> QED BY <1>1, <1>2 DEF Idle, Servers, ServerAts

\* The server goes on to l, with nothing in hand or with what it had.
LEMMA GotoType == ASSUME server \in Servers, NEW l \in ServerAts, Goto(l)
                  PROVE  /\ server' \in Servers /\ server'.at = l
                         /\ l \notin {"accept", "greet", "recv"} =>
                               /\ server'.line = server.line /\ server'.total = server.total
                               /\ server'.ids = server.ids /\ server'.value = server.value
<1>1. CASE l \in {"accept", "greet", "recv"}
  BY <1>1, IdleType DEF Goto, ServerAts
<1>2. CASE l \notin {"accept", "greet", "recv"}
  BY <1>2 DEF Goto, Servers, ServerAts
<1> QED BY <1>1, <1>2

LEMMA SessionIs == ASSUME ServerTypes, sock > 0
                   PROVE  sock \in Sessions /\ session \in Sessions
  BY ConsoleAssumption DEF ServerTypes, Sessions

\* The records in a step of the server.
LEMMA GreetIs == ASSUME server \in Servers, s_num_servos \in Nat, Greet
                 PROVE  /\ server' \in Servers /\ server'.at = "greeting"
                        /\ server'.value = s_num_servos
  BY DEF Greet, Servers, ServerAts, InTouch

LEMMA RecvIs == ASSUME server \in Servers, up \in [Sessions -> Seq(Lines)], sock \in Sessions, Recv
                PROVE  /\ server' \in Servers /\ Head(up[sock]) \in Lines
                       /\ up' \in [Sessions -> Seq(Lines)]
                       /\ IF Head(up[sock]).n = 0
                          THEN server' = server
                          ELSE server'.at = "check" /\ server'.line = Head(up[sock])
<1>1. up[sock] \in Seq(Lines) /\ up[sock] # <<>>
  BY DEF Recv
<1>2. Head(up[sock]) \in Lines /\ Tail(up[sock]) \in Seq(Lines)
  BY <1>1, HeadTailProperties
<1>3. up' \in [Sessions -> Seq(Lines)]
  BY <1>2 DEF Recv
<1>4. CASE Head(up[sock]).n = 0
  BY <1>2, <1>3, <1>4 DEF Recv
<1>5. CASE Head(up[sock]).n # 0
  <2>1. server' = [server EXCEPT !.at = "check", !.line = Head(up[sock])]
    BY <1>5 DEF Recv
  <2>2. server' \in Servers /\ server'.at = "check" /\ server'.line = Head(up[sock])
    BY <1>2, <2>1 DEF Servers, ServerAts, InTouch
  <2> QED BY <1>2, <1>3, <1>5, <2>2
<1> QED BY <1>4, <1>5

LEMMA GetLenIs == ASSUME server \in Servers, ids_array_len \in Nat, GetLen
                  PROVE  /\ server' \in Servers /\ server'.at = "copy"
                         /\ server'.total = ids_array_len /\ server'.ids = <<>>
                         /\ server'.line = server.line
<1>1. <<>> \in Seq(MaybeIds)
  BY EmptySeq
<1> QED BY <1>1 DEF GetLen, Servers, ServerAts, InTouch

LEMMA CopyIdIs == ASSUME server \in Servers, ListTypes, CopyId
                  PROVE  /\ server' \in Servers /\ server'.at = "copy"
                         /\ server'.total = server.total /\ server'.line = server.line
                         /\ Len(server.ids) \in Ids
                         /\ server'.ids = Append(server.ids, ids_array[Len(server.ids)])
<1>1. /\ Len(server.ids) \in Nat /\ Len(server.ids) < ids_array_len /\ server.ids \in Seq(MaybeIds)
      /\ server' = [server EXCEPT !.ids = Append(@, ids_array[Len(@)])]
  BY DEF CopyId, Servers
<1>2. Len(server.ids) \in Ids
  BY <1>1, ConsoleAssumption DEF ListTypes, Ids
<1>3. ids_array[Len(server.ids)] \in MaybeIds
  BY <1>2 DEF ListTypes, MaybeIds
<1>4. Append(server.ids, ids_array[Len(server.ids)]) \in Seq(MaybeIds)
  BY <1>1, <1>3, AppendProperties
<1> QED BY <1>1, <1>2, <1>4 DEF CopyId, Servers

LEMMA CopyEndIs == ASSUME server \in Servers, CopyEnd
                   PROVE  /\ server' \in Servers /\ server'.at = "dispatch"
                          /\ server'.total = server.total /\ server'.line = server.line
                          /\ Len(server'.ids) = server.total
                          /\ \A i \in 1 .. server.total :
                                i <= Len(server.ids) => server'.ids[i] = server.ids[i]
<1> DEFINE l == Len(server.ids)
           n == server.total
<1>1. PICK rest \in [l + 1 .. n -> MaybeIds] :
         server' = [server EXCEPT !.at = "dispatch",
                        !.ids = [i \in 1 .. n |-> IF i <= Len(@) THEN @[i] ELSE rest[i]]]
  BY DEF CopyEnd, MaybeIds
<1> DEFINE q == [i \in 1 .. n |-> IF i <= l THEN server.ids[i] ELSE rest[i]]
<1>2. l \in Nat /\ n \in Nat /\ server.ids \in Seq(MaybeIds)
  BY DEF Servers
<1>3. server' = [server EXCEPT !.at = "dispatch", !.ids = q]
  BY <1>1
<1>4. \A i \in 1 .. n : q[i] \in MaybeIds
  <2> TAKE i \in 1 .. n
  <2>1. CASE i <= l
    BY <1>2, <2>1, ElementOfSeq
  <2>2. CASE ~(i <= l)
    BY <1>2, <2>2
  <2> QED BY <2>1, <2>2
<1>5. q \in Seq(MaybeIds) /\ Len(q) = n
  BY <1>2, <1>4
<1>6. \A i \in 1 .. n : i <= l => q[i] = server.ids[i]
  OBVIOUS
<1> HIDE DEF q, l, n
<1>7. server' \in Servers /\ server'.at = "dispatch" /\ server'.ids = q
      /\ server'.total = server.total /\ server'.line = server.line
  BY <1>3, <1>5 DEF Servers, ServerAts, InTouch
<1> QED BY <1>5, <1>6, <1>7 DEF n, l

LEMMA NextServer ==
  ASSUME Types, Server \/ RecvFails
  PROVE  ServerTypes'
<1> USE DEF Types, ServerTypes, clientVars
<1>0. /\ server \in Servers /\ s_num_servos \in Nat /\ ids_array_len \in Nat
      /\ session \in Nat /\ accepted \in Nat /\ sock \in Nat /\ ServoQueueLen \in Nat \ {0}
  BY ConsoleAssumption DEF ListTypes
<1>1. CASE Accept
  <2>1. server' \in Servers /\ server'.at = "greet"
    BY <1>0, <1>1, GotoType DEF Accept, ServerAts, InTouch
  <2>2. accepted' \in 0 .. session' /\ sock' = accepted' /\ sock' > 0
    BY <1>0, <1>1 DEF Accept
  <2> QED BY <1>0, <1>1, <2>1, <2>2 DEF Accept
<1>2. CASE Greet
  BY <1>0, <1>2, GreetIs DEF Greet
<1>3. CASE SendGreeting \/ Reject
  <2>1. server' \in Servers /\ server'.at = "recv" /\ server.at # "accept"
    BY <1>0, <1>3, GotoType DEF SendGreeting, Reject, ServerAts, InTouch
  <2> QED BY <1>0, <1>3, <2>1 DEF SendGreeting, Reject
<1>4. CASE Recv
  <2>1. sock \in Sessions
    BY <1>4, SessionIs DEF Recv
  <2>2. server' \in Servers /\ server'.at # "accept"
    BY <1>0, <1>4, <2>1, RecvIs DEF LineTypes, Recv
  <2> QED BY <1>0, <1>4, <2>2 DEF Recv
<1>5. CASE RecvEnd \/ RecvFails
  <2>1. server' \in Servers /\ server'.at = "accept"
    BY <1>0, <1>5, GotoType DEF RecvEnd, RecvFails, ServerAts
  <2> QED BY <1>0, <1>5, <2>1 DEF RecvEnd, RecvFails
<1>6. CASE Check
  <2>1. server' \in Servers /\ server'.at # "accept" /\ server.at # "accept"
    BY <1>0, <1>6, GotoType DEF Check, ServerAts, InTouch
  <2> QED BY <1>0, <1>6, <2>1 DEF Check
<1>7. CASE AcceptLine
  <2>1. server' \in Servers /\ server'.at = "bridge" /\ server.at # "accept"
    BY <1>0, <1>7, GotoType DEF AcceptLine, ServerAts, InTouch
  <2> QED BY <1>0, <1>7, <2>1 DEF AcceptLine
<1>8. CASE GetLen
  BY <1>0, <1>8, GetLenIs DEF GetLen
<1>9. CASE CopyId
  BY <1>0, <1>9, CopyIdIs DEF CopyId
<1>10. CASE CopyEnd
  BY <1>0, <1>10, CopyEndIs DEF CopyEnd
<1>11. CASE Dispatch
  <2>1. servo_queue' \in 0 .. ServoQueueLen
    BY <1>0, <1>11 DEF Dispatch
  <2> QED BY <1>0, <1>11, <2>1 DEF Dispatch
<1>12. CASE DispatchEnd
  <2>1. server' \in Servers /\ server'.at = "recv" /\ server.at # "accept"
    BY <1>0, <1>12, GotoType DEF DispatchEnd, ServerAts, InTouch
  <2> QED BY <1>0, <1>12, <2>1 DEF DispatchEnd
<1> QED BY <1>1, <1>2, <1>3, <1>4, <1>5, <1>6, <1>7, <1>8, <1>9, <1>10, <1>11, <1>12
        DEF Server, HandleLine

LEMMA ServerKept == ASSUME ServerTypes, UNCHANGED <<server, accepted, sock, servo_queue, session>>
                    PROVE  ServerTypes'
  BY DEF ServerTypes

LEMMA OthersServer ==
  ASSUME Types, Start \/ Clear \/ Rebuild \/ ExecuteServo \/ Client \/ Receiver \/ Break
  PROVE  ServerTypes'
<1> USE DEF serverVars, clientVars, Exit
<1>0. ServerTypes /\ session \in Nat /\ accepted \in Nat /\ sock \in Nat /\ servo_queue \in Nat
  BY ConsoleAssumption DEF Types, ServerTypes
<1>1. CASE Start \/ Clear \/ Rebuild
  BY <1>0, <1>1, ServerKept
     DEF Start, Clear, Rebuild, AppendFound, SetNumServos, NotifyServos
<1>2. CASE ExecuteServo
  BY <1>0, <1>2, ConsoleAssumption DEF ExecuteServo, ServerTypes
<1>3. CASE Connect
  BY <1>0, <1>3, ConsoleAssumption DEF Connect, ServerTypes
<1>4. CASE Client /\ ~Connect
  BY <1>0, <1>4, ServerKept
     DEF Client, Ready, Ask, Build, SendLine, SendNowhere, Acknowledged, GiveUp, Quit
<1>5. CASE Receiver
  BY <1>0, <1>5, ServerKept DEF Receiver, Receive, ReceiveEnd, ReceiveDies
<1>6. CASE Break
  BY <1>0, <1>6, ServerKept DEF Break
<1> QED BY <1>1, <1>2, <1>3, <1>4, <1>5, <1>6

LEMMA NextServerTypes == Types /\ [Next]_vars => ServerTypes'
<1>1. Types /\ UNCHANGED vars => ServerTypes'
  BY ServerKept DEF vars, serverVars, clientVars, Types
<1> QED BY <1>1, NextServer, OthersServer DEF Next

\* The client's main thread and its receiver.
LEMMA ClientGotoType == ASSUME client \in Clients, NEW l, ClientGoto(l),
                               l \in {"off", "ready", "ask", "build", "send", "wait", "quit"}
                        PROVE  /\ client' \in Clients /\ client'.at = l
                               /\ client'.auto = client.auto /\ client'.step = client.step
                               /\ client'.line = client.line
  BY DEF ClientGoto, Clients

LEMMA ExitIs == ASSUME client \in Clients, Exit
                PROVE  /\ client' \in Clients /\ client'.at = "off" /\ num_servos' = None
                       /\ ~receiving' /\ receiving' \in BOOLEAN /\ ack_event' = FALSE
                       /\ session' = session /\ down' = <<>> /\ waiting' = 0
<1>1. NoLine \in Lines /\ client.step \in 0 .. MaxLines
  BY ConsoleAssumption DEF NoLine, Lines, Clients
<1> QED BY <1>1 DEF Exit, NoClient, Clients

LEMMA BuildIs == ASSUME client \in Clients, num_servos \in Nat, Build
                 PROVE  /\ client' \in Clients /\ client'.at = "send"
                        /\ client'.auto = client.auto /\ client'.line.step = client'.step
                        /\ client.auto => ~ack_event'
<1>1. PICK f \in Faulty(client.auto) :
         client' = [client EXCEPT !.at = "send", !.step = @ + 1,
                        !.line = [n |-> num_servos, faulty |-> f, step |-> client.step + 1]]
  BY DEF Build
<1>2. f \in BOOLEAN
  <2>1. CASE client.auto
    BY <2>1 DEF Faulty
  <2>2. CASE ~client.auto
    BY <2>2 DEF Faulty
  <2> QED BY <2>1, <2>2
<1>3. client.step + 1 \in 0 .. MaxLines
  BY ConsoleAssumption DEF Build, Clients
<1>4. [n |-> num_servos, faulty |-> f, step |-> client.step + 1] \in Lines
  BY <1>2, <1>3 DEF Lines
<1>5. client' \in Clients /\ client'.at = "send" /\ client'.auto = client.auto
      /\ client'.line.step = client'.step
  BY <1>1, <1>3, <1>4 DEF Clients
<1>6. client.auto => ~ack_event'
  BY DEF Build
<1> QED BY <1>5, <1>6

LEMMA ConnectIs == ASSUME client \in Clients, Connect
                   PROVE  client' \in Clients /\ client'.at = "ready" /\ client.at = "off"
  BY DEF Connect, Clients

LEMMA ReceiveIs == ASSUME down \in Seq(Messages), Receive
                   PROVE  /\ Head(down) \in Messages /\ Tail(down) \in Seq(Messages)
                          /\ Head(down).n \in Nat /\ down' = Tail(down)
<1>1. down # <<>> /\ down' = Tail(down)
  BY DEF Receive
<1>2. Head(down) \in Messages /\ Tail(down) \in Seq(Messages)
  BY <1>1, HeadTailProperties
<1> QED BY <1>1, <1>2 DEF Messages

LEMMA NextClient ==
  ASSUME Types, Client \/ Receiver
  PROVE  ClientTypes'
<1> USE DEF Types, ClientTypes
<1>1. CASE Connect
  <2>1. session' > 0
    BY <1>1, ConsoleAssumption DEF Connect, ServerTypes
  <2> QED BY <1>1, <2>1, ConnectIs DEF Connect
<1>2. CASE Ready
  <2>1. client'.at = "build" => num_servos # None
    BY <1>2, ClientGotoType DEF Ready
  <2>2. client' \in Clients /\ client.at # "off" /\ client'.at \in {"build", "ask"}
    BY <1>2, ClientGotoType DEF Ready
  <2> QED BY <1>2, <2>1, <2>2 DEF Ready
<1>3. CASE Ask
  <2>1. client' \in Clients /\ client.at # "off" /\ num_servos' \in Nat /\ num_servos' # None
    BY <1>3, ClientGotoType, ConsoleAssumption DEF Ask, None
  <2> QED BY <1>3, <2>1 DEF Ask
<1>4. CASE Build
  <2>1. num_servos \in Nat /\ num_servos # None /\ session > 0
    BY <1>4 DEF Build, None
  <2>2. ack_event' \in BOOLEAN
    <3>1. CASE client.auto
      BY <1>4, <3>1 DEF Build
    <3>2. CASE ~client.auto
      BY <1>4, <3>2 DEF Build
    <3> QED BY <3>1, <3>2
  <2> QED BY <1>4, <2>1, <2>2, BuildIs DEF Build
<1>5. CASE SendLine
  <2>1. client' \in Clients /\ client.at = "send"
    <3>1. CASE client.auto
      BY <1>5, <3>1, ClientGotoType DEF SendLine
    <3>2. CASE ~client.auto
      BY <1>5, <3>2, ClientGotoType DEF SendLine
    <3> QED BY <1>5, <3>1, <3>2 DEF SendLine
  <2> QED BY <1>5, <2>1 DEF SendLine
<1>6. CASE SendNowhere
  <2>1. CASE Exit
    BY <2>1, ExitIs
  <2>2. CASE /\ ClientGoto(IF client.auto THEN "wait" ELSE "build")
             /\ UNCHANGED <<session, receiving, num_servos, ack_event>>
    <3>1. client' \in Clients /\ client.at = "send"
      <4>1. ClientGoto("wait") \/ ClientGoto("build")
        BY <2>2 DEF ClientGoto
      <4> QED BY <1>6, <4>1, ClientGotoType DEF SendNowhere
    <3> QED BY <2>2, <3>1
  <2> QED BY <1>6, <2>1, <2>2 DEF SendNowhere
<1>7. CASE Acknowledged \/ GiveUp
  <2>1. client' \in Clients /\ client.at = "wait"
    BY <1>7, ClientGotoType DEF Acknowledged, GiveUp
  <2> QED BY <1>7, <2>1 DEF Acknowledged, GiveUp
<1>8. CASE Quit
  BY <1>8, ExitIs DEF Quit
<1>9. CASE Receive
  <2>1. Head(down).n \in Nat
    BY <1>9, ReceiveIs DEF LineTypes
  <2>2. num_servos' \in Nat \cup {None} /\ (num_servos # None => num_servos' # None)
    BY <1>9, <2>1 DEF Receive, None
  <2>3. ack_event' \in BOOLEAN
    BY <1>9 DEF Receive
  <2> QED BY <1>9, <2>2, <2>3 DEF Receive
<1>10. CASE ReceiveEnd \/ ReceiveDies
  BY <1>10 DEF ReceiveEnd, ReceiveDies
<1> QED BY <1>1, <1>2, <1>3, <1>4, <1>5, <1>6, <1>7, <1>8, <1>9, <1>10 DEF Client, Receiver

LEMMA OthersClient ==
  Start \/ Clear \/ Rebuild \/ Server \/ RecvFails \/ ExecuteServo \/ Break => UNCHANGED clientVars
<1>1. Start \/ Clear \/ Rebuild => UNCHANGED clientVars
  BY DEF Start, Clear, Rebuild, AppendFound, SetNumServos, NotifyServos
<1>2. Server => UNCHANGED clientVars
  BY DEF Server, HandleLine, Accept, Greet, SendGreeting, Recv, RecvEnd, Check, Reject, AcceptLine,
         GetLen, CopyId, CopyEnd, Dispatch, DispatchEnd
<1>3. RecvFails \/ ExecuteServo \/ Break => UNCHANGED clientVars
  BY DEF RecvFails, ExecuteServo, Break
<1> QED BY <1>1, <1>2, <1>3

LEMMA NextClientTypes == Types /\ [Next]_vars => ClientTypes'
<1>1. Types /\ UNCHANGED clientVars => ClientTypes'
  BY DEF clientVars, Types, ClientTypes
<1>2. UNCHANGED vars => UNCHANGED clientVars
  BY DEF vars
<1> QED BY <1>1, <1>2, NextClient, OthersClient DEF Next

\* What a step does to the lines to and from the root.
LEMMA SendType == ASSUME down \in Seq(Messages), NEW m \in Messages, Send(m)
                  PROVE  down' \in Seq(Messages)
<1>1. Append(down, m) \in Seq(Messages)
  BY AppendProperties
<1> QED BY <1>1 DEF Send

LEMMA MessageTypes == /\ \A n \in Nat : Servos(n) \in Messages
                      /\ \A v \in Verdicts : Verdict(v) \in Messages
  BY DEF Servos, Verdict, Verdicts, Messages

LEMMA LinesKept == ASSUME LineTypes, UNCHANGED lineVars
                   PROVE  LineTypes'
  BY DEF LineTypes, lineVars

LEMMA NextLineTypes == Types /\ [Next]_vars => LineTypes'
<1> SUFFICES ASSUME Types, [Next]_vars PROVE LineTypes'
  OBVIOUS
<1> USE DEF Types
<1>0. /\ down \in Seq(Messages) /\ up \in [Sessions -> Seq(Lines)] /\ server \in Servers
      /\ client \in Clients /\ s_num_servos \in Nat
  BY ConsoleAssumption DEF LineTypes, ListTypes, ServerTypes, ClientTypes
<1>1. CASE NotifyServos
  <2>1. down' \in Seq(Messages)
    BY <1>0, <1>1, SendType, MessageTypes DEF NotifyServos
  <2> QED BY <1>1, <2>1 DEF NotifyServos, LineTypes
<1>2. CASE SendGreeting
  <2>1. down' \in Seq(Messages)
    BY <1>0, <1>2, SendType, MessageTypes DEF SendGreeting, Servers
  <2> QED BY <1>2, <2>1 DEF SendGreeting, LineTypes
<1>3. CASE Reject
  <2>1. down' \in Seq(Messages)
    BY <1>0, <1>3, SendType, MessageTypes DEF Reject, Verdicts
  <2> QED BY <1>3, <2>1 DEF Reject, LineTypes
<1>4. CASE AcceptLine
  <2>1. down' \in Seq(Messages)
    BY <1>0, <1>4, SendType, MessageTypes DEF AcceptLine, Verdicts
  <2> QED BY <1>4, <2>1 DEF AcceptLine, LineTypes
<1>5. CASE Recv
  <2>1. sock \in Sessions
    BY <1>5, SessionIs DEF Recv, ServerTypes
  <2>2. up' \in [Sessions -> Seq(Lines)]
    BY <1>0, <1>5, <2>1, RecvIs
  <2> QED BY <1>5, <2>2 DEF Recv, LineTypes
<1>6. CASE RecvEnd \/ RecvFails
  <2>1. up' \in [Sessions -> Seq(Lines)]
    BY <1>0, <1>6, EmptySeq DEF RecvEnd, RecvFails
  <2> QED BY <1>6, <2>1 DEF RecvEnd, RecvFails, LineTypes
<1>7. CASE SendLine
  <2>1. \A q \in Seq(Lines) : Append(q, client.line) \in Seq(Lines)
    BY <1>0, AppendProperties DEF Clients
  <2>2. up' \in [Sessions -> Seq(Lines)]
    BY <1>0, <1>7, <2>1 DEF SendLine
  <2> QED BY <1>7, <2>2 DEF SendLine, LineTypes
<1>8. CASE SendNowhere
  <2>1. CASE Exit /\ UNCHANGED over
    BY <1>0, <2>1, EmptySeq DEF Exit, LineTypes
  <2>2. CASE UNCHANGED lineVars
    BY <2>2, LinesKept
  <2> QED BY <1>8, <2>1, <2>2 DEF SendNowhere
<1>9. CASE Quit
  BY <1>0, <1>9, EmptySeq DEF Quit, Exit, LineTypes
<1>10. CASE Receive
  BY <1>0, <1>10, ReceiveIs DEF Receive, LineTypes
<1>11. CASE Break
  <2>1. session \in Sessions
    BY <1>11, ConsoleAssumption DEF Break, Live, ServerTypes, Sessions
  <2>2. over' \in [Sessions -> BOOLEAN]
    BY <1>11, <2>1 DEF Break, LineTypes
  <2>3. lost' \subseteq {s \in Sessions : over'[s]}
    BY <1>11, <2>1 DEF Break, LineTypes
  <2> QED BY <1>11, <2>2, <2>3 DEF Break, LineTypes
<1>12. CASE \/ Start \/ Clear \/ AppendFound \/ SetNumServos
            \/ Accept \/ Greet \/ Check \/ GetLen \/ CopyId \/ CopyEnd \/ Dispatch \/ DispatchEnd
            \/ ExecuteServo
            \/ Connect \/ Ready \/ Ask \/ Build \/ Acknowledged \/ GiveUp
            \/ ReceiveEnd \/ ReceiveDies \/ UNCHANGED vars
  <2>1. UNCHANGED lineVars
    BY <1>12 DEF Start, Clear, AppendFound, SetNumServos, Accept, Greet, Check, GetLen, CopyId,
                 CopyEnd, Dispatch, DispatchEnd, ExecuteServo, Connect, Ready, Ask, Build,
                 Acknowledged, GiveUp, ReceiveEnd, ReceiveDies, vars
  <2> QED BY <2>1, LinesKept
<1> QED BY <1>1, <1>2, <1>3, <1>4, <1>5, <1>6, <1>7, <1>8, <1>9, <1>10, <1>11, <1>12
        DEF Next, Rebuild, Server, HandleLine, Client, Receiver

LEMMA DispatchIs == ASSUME server \in Servers, targets \in Seq(MaybeIds), CommandOK, Dispatch
                    PROVE  /\ Len(targets) + 1 \in DOMAIN server.ids
                           /\ targets' = Append(targets, server.ids[Len(targets) + 1])
                           /\ targets' \in Seq(MaybeIds)
                           /\ Len(targets) < server.line.n /\ Len(targets) < server.total
<1>1. /\ server.ids \in Seq(MaybeIds) /\ Len(targets) \in Nat /\ server.total \in Nat
      /\ Len(server.ids) = server.total /\ Len(targets) < server.total
      /\ Len(targets) < server.line.n
      /\ targets' = Append(targets, server.ids[Len(targets) + 1])
  BY DEF Dispatch, CommandOK, Servers
<1>2. Len(targets) + 1 \in 1 .. Len(server.ids)
  BY <1>1
<1>3. server.ids[Len(targets) + 1] \in MaybeIds
  BY <1>1, <1>2, ElementOfSeq
<1>4. targets' \in Seq(MaybeIds)
  BY <1>1, <1>3, AppendProperties
<1> QED BY <1>1, <1>2, <1>4

LEMMA TargetsType == ASSUME Types, CommandOK, [Next]_vars
                     PROVE  targets' \in Seq(MaybeIds)
<1>0. server \in Servers /\ targets \in Seq(MaybeIds) /\ <<>> \in Seq(MaybeIds)
  BY EmptySeq DEF Types, ServerTypes, HistoryTypes
<1>1. CASE Dispatch
  BY <1>0, <1>1, DispatchIs
<1>2. CASE DispatchEnd
  BY <1>0, <1>2 DEF DispatchEnd
<1>3. CASE ~Dispatch /\ ~DispatchEnd
  <2>1. targets' = targets
    BY <1>3 DEF Next, Start, Clear, Rebuild, AppendFound, SetNumServos, NotifyServos, Server,
                HandleLine, Accept, Greet, SendGreeting, Recv, RecvEnd, RecvFails, Check, Reject,
                AcceptLine, GetLen, CopyId, CopyEnd, ExecuteServo, Client, Connect, Ready, Ask,
                Build, SendLine, SendNowhere, Exit, Acknowledged, GiveUp, Quit, Receiver, Receive,
                ReceiveEnd, ReceiveDies, Break, history, vars
  <2> QED BY <1>0, <2>1
<1> QED BY <1>1, <1>2, <1>3

LEMMA NextHistoryTypes == Types /\ CommandOK /\ [Next]_vars => HistoryTypes'
<1> SUFFICES ASSUME Types, CommandOK, [Next]_vars PROVE HistoryTypes'
  OBVIOUS
<1>0. /\ server \in Servers /\ HistoryTypes /\ waiting \in Int /\ waiting - 1 \in Int /\ 0 \in Nat
      /\ waiting - 0 \in Int /\ waiting + 1 \in Int /\ waiting + 0 \in Int /\ 0 \in Int
      /\ server.line.step \in Nat
  BY DEF Types, ServerTypes, HistoryTypes, Servers, Lines
<1>1. targets' \in Seq(MaybeIds)
  BY TargetsType
<1>2. CASE Start \/ Clear \/ NotifyServos
  <2>1. rebuilt' \in BOOLEAN /\ stale' \in BOOLEAN
    <3>1. InUse \in BOOLEAN
      BY DEF InUse
    <3> QED BY <1>0, <1>2, <3>1 DEF Start, Clear, NotifyServos, HistoryTypes
  <2>2. UNCHANGED <<answered, waiting, typed>>
    BY <1>2 DEF Start, Clear, NotifyServos
  <2> QED BY <1>0, <1>1, <2>1, <2>2 DEF HistoryTypes
<1>3. CASE SendGreeting \/ Check \/ AcceptLine \/ DispatchEnd
  <2>1. stale' \in BOOLEAN
    <3>1. CASE sock = session /\ Live
      BY <1>0, <1>3, <3>1
         DEF SendGreeting, Check, AcceptLine, DispatchEnd, HistoryTypes
    <3>2. CASE ~(sock = session /\ Live)
      BY <1>0, <1>3, <3>2
         DEF SendGreeting, Check, AcceptLine, DispatchEnd, HistoryTypes
    <3> QED BY <3>1, <3>2
  <2>2. answered' \in Nat
    BY <1>0, <1>3 DEF SendGreeting, Check, AcceptLine, DispatchEnd, HistoryTypes
  <2>3. rebuilt' \in BOOLEAN
    BY <1>0, <1>3 DEF SendGreeting, Check, AcceptLine, DispatchEnd, HistoryTypes
  <2>4. waiting' = waiting /\ typed' = typed
    BY <1>3 DEF SendGreeting, Check, AcceptLine, DispatchEnd
  <2> QED BY <1>0, <1>1, <2>1, <2>2, <2>3, <2>4 DEF HistoryTypes
<1>4. CASE SendLine
  BY <1>0, <1>1, <1>4 DEF SendLine, HistoryTypes
<1>5. CASE Ask \/ Break
  <2>1. typed' \in BOOLEAN
    BY <1>5 DEF Ask, Break, Live
  <2>2. rebuilt' = rebuilt /\ stale' \in BOOLEAN
    BY <1>0, <1>5 DEF Ask, Break, HistoryTypes
  <2>3. waiting' \in Int /\ answered' \in Nat
    BY <1>0, <1>5 DEF Ask, Break, HistoryTypes
  <2> QED BY <1>0, <1>1, <2>1, <2>2, <2>3 DEF HistoryTypes
<1>6. CASE SendNowhere \/ Quit
  <2>1. Exit \/ UNCHANGED history
    BY <1>6 DEF SendNowhere, Quit
  <2>2. rebuilt' = rebuilt /\ stale' \in BOOLEAN /\ typed' \in BOOLEAN
    BY <1>0, <2>1 DEF Exit, history, HistoryTypes
  <2>3. waiting' \in Int /\ answered' \in Nat
    BY <1>0, <2>1 DEF Exit, history, HistoryTypes
  <2> QED BY <1>0, <1>1, <2>2, <2>3 DEF HistoryTypes
<1>7. CASE Receive
  <2>1. typed' \in BOOLEAN
    BY <1>0, <1>7 DEF Receive, HistoryTypes
  <2>2. waiting' \in Int
    BY <1>0, <1>7 DEF Receive
  <2> QED BY <1>0, <1>1, <1>7, <2>1, <2>2 DEF Receive, HistoryTypes
<1>8. CASE \/ AppendFound \/ SetNumServos \/ Accept \/ Greet \/ Recv \/ RecvEnd \/ RecvFails
           \/ Reject \/ GetLen \/ CopyId \/ CopyEnd \/ Dispatch \/ ExecuteServo
           \/ Connect \/ Ready \/ Build \/ Acknowledged \/ GiveUp
           \/ ReceiveEnd \/ ReceiveDies \/ UNCHANGED vars
  <2>1. UNCHANGED <<rebuilt, answered, waiting, stale, typed>>
    BY <1>8 DEF AppendFound, SetNumServos, Accept, Greet, Recv, RecvEnd, RecvFails, Reject,
                GetLen, CopyId, CopyEnd, Dispatch, ExecuteServo, Connect, Ready, Build,
                Acknowledged, GiveUp, ReceiveEnd, ReceiveDies, history, vars
  <2> QED BY <1>0, <1>1, <2>1 DEF HistoryTypes
<1> QED BY <1>2, <1>3, <1>4, <1>5, <1>6, <1>7, <1>8
        DEF Next, Rebuild, Server, HandleLine, Client, Receiver

LEMMA NextTypes == Types /\ ListOK /\ CommandOK /\ [Next]_vars => Types' /\ ListOK'
<1> SUFFICES ASSUME Types, ListOK, CommandOK, [Next]_vars PROVE Types' /\ ListOK'
  OBVIOUS
<1>1. ListTypes' /\ ListOK'
  BY NextList DEF Types
<1> QED BY <1>1, NextLineTypes, NextServerTypes, NextClientTypes, NextHistoryTypes DEF Types

LEMMA InitTypes == Init => Types /\ ListOK
<1> SUFFICES ASSUME Init PROVE Types /\ ListOK
  OBVIOUS
<1>1. ListTypes /\ ListOK
  BY InitList
<1>2. NoLine \in Lines
  BY ConsoleAssumption DEF NoLine, Lines
<1>3. LineTypes
  BY EmptySeq DEF Init, LineTypes
<1>4. ServerTypes
  <2>1. server \in Servers /\ server.at = "accept"
    BY IdleType DEF Init, ServerAts
  <2> QED BY <2>1, ConsoleAssumption DEF Init, ServerTypes
<1>5. ClientTypes
  <2>1. client \in Clients /\ client.at = "off"
    BY <1>2, ConsoleAssumption DEF Init, NoClient, Clients
  <2>2. num_servos = None /\ receiving \in BOOLEAN /\ ack_event \in BOOLEAN
    BY DEF Init
  <2> QED BY <2>1, <2>2 DEF ClientTypes
<1>6. HistoryTypes
  <2>1. targets \in Seq(MaybeIds)
    BY EmptySeq DEF Init
  <2>2. rebuilt \in BOOLEAN /\ stale \in BOOLEAN /\ typed \in BOOLEAN
    BY DEF Init
  <2>3. waiting \in Int /\ answered \in Nat
    BY DEF Init
  <2> QED BY <2>1, <2>2, <2>3 DEF HistoryTypes
<1> QED BY <1>1, <1>3, <1>4, <1>5, <1>6 DEF Types
-----------------------------------------------------------------------------
(* The ids a command goes to *)

\* What CommandOK says in each part.
Copied == server.at \in {"copy", "dispatch"} =>
             /\ server.total > 0 => ids_array_len > 0
             /\ Len(server.ids) <= server.total
             /\ server.ids # <<>> => server.ids[1] = ROOT_ID
Dispatched == server.at = "dispatch" =>
                 /\ Len(server.ids) = server.total
                 /\ Len(targets) <= server.total /\ Len(targets) <= server.line.n
                 /\ \A i \in DOMAIN targets : targets[i] = server.ids[i]
NoneYet == server.at # "dispatch" => targets = <<>>
Settled == InUse /\ ~rebuilt => /\ rebuild.at # "append" /\ ids_array_len > 0
                                /\ server.line.n = ids_array_len
Same == server.at \in {"copy", "dispatch"} /\ ~rebuilt =>
           /\ server.total = ids_array_len
           /\ \A i \in DOMAIN server.ids : server.ids[i] = ids_array[i - 1]

\* The list is touched, and a command in hand told so; or it is not, and only
\* gets longer or known.
LEMMA TouchedCommand == ASSUME Types, ListOK, CommandOK, Start \/ Clear \/ Rebuild
                        PROVE  CommandOK'
<1>0. /\ ids_array_len \in Nat /\ server' = server /\ targets' = targets
      /\ ids_array_len' \in Nat
  BY NextList, ConsoleAssumption
     DEF Types, ListTypes, Start, Clear, Rebuild, AppendFound, SetNumServos, NotifyServos, serverVars,
         history, Next
<1>1. ids_array_len > 0 => ids_array_len' > 0
  BY <1>0 DEF Start, Clear, Rebuild, AppendFound, SetNumServos, NotifyServos
<1>2. Copied' /\ Dispatched' /\ NoneYet'
  BY <1>0, <1>1 DEF CommandOK, Copied, Dispatched, NoneYet
<1>3. CASE Start \/ Clear
  <2>1. InUse' => rebuilt'
    BY <1>0, <1>3 DEF Start, Clear, InUse
  <2>2. Settled' /\ Same'
    BY <2>1 DEF Settled, Same, InUse
  <2> QED BY <1>2, <2>2 DEF CommandOK, Copied, Dispatched, NoneYet, Settled, Same
<1>4. CASE Rebuild
  <2>1. rebuilt' = rebuilt
    BY <1>4 DEF Rebuild, AppendFound, SetNumServos, NotifyServos, history
  <2>2. CASE InUse /\ ~rebuilt
    <3>1. NotifyServos
      BY <1>4, <2>2 DEF CommandOK, Rebuild, AppendFound, SetNumServos
    <3>2. UNCHANGED <<ids_array, ids_array_len>> /\ rebuild'.at = "idle"
      BY <3>1 DEF NotifyServos, Types, ListTypes, Rebuilds
    <3>3. Settled' /\ Same'
      BY <1>0, <2>1, <3>2 DEF CommandOK, Settled, Same, InUse
    <3> QED BY <1>2, <3>3 DEF CommandOK, Copied, Dispatched, NoneYet, Settled, Same
  <2>3. CASE ~(InUse /\ ~rebuilt)
    <3>1. Settled' /\ Same'
      BY <1>0, <2>1, <2>3 DEF Settled, Same, InUse
    <3> QED BY <1>2, <3>1 DEF CommandOK, Copied, Dispatched, NoneYet, Settled, Same
  <2> QED BY <2>2, <2>3
<1> QED BY <1>3, <1>4

LEMMA ServerCommand == ASSUME Types, ListOK, CommandOK, Server \/ RecvFails
                       PROVE  CommandOK'
<1> USE DEF serverVars, lineVars, clientVars
<1>0. /\ server \in Servers /\ server' \in Servers /\ targets \in Seq(MaybeIds)
      /\ ids_array_len \in Nat /\ s_num_servos \in Nat /\ rebuild.at \in RebuildAts
      /\ UNCHANGED <<ids_array, ids_array_len, s_num_servos, rebuild>>
  BY NextServerTypes, OthersList, ConsoleAssumption
     DEF Next, Types, ListTypes, ServerTypes, HistoryTypes, Rebuilds, listVars
<1>1. CASE Accept \/ Greet \/ SendGreeting \/ Recv \/ RecvEnd \/ RecvFails \/ Reject
  <2>1. server'.at \notin {"accept_line", "bridge", "copy", "dispatch"}
    <3>1. CASE Accept \/ SendGreeting \/ RecvEnd \/ RecvFails \/ Reject
      BY <1>0, <3>1, GotoType DEF Accept, SendGreeting, RecvEnd, RecvFails, Reject, ServerAts, InTouch
    <3>2. CASE Greet
      BY <1>0, <3>2, GreetIs
    <3>3. CASE Recv
      <4>1. sock \in Sessions
        BY <3>3, SessionIs DEF Types, Recv, ServerTypes
      <4>2. server' = server \/ server'.at = "check"
        BY <1>0, <3>3, <4>1, RecvIs DEF Types, LineTypes
      <4> QED BY <3>3, <4>2 DEF Recv
    <3> QED BY <1>1, <3>1, <3>2, <3>3
  <2>2. targets' = targets /\ server.at # "dispatch"
    BY <1>1 DEF Accept, Greet, SendGreeting, Recv, RecvEnd, RecvFails, Reject, history
  <2> QED BY <2>1, <2>2 DEF CommandOK, InUse
<1>2. CASE Check
  <2>1. server'.at \in {"reject", "accept_line"} /\ server'.line = server.line
    BY <1>0, <1>2, GotoType DEF Check, ServerAts, InTouch
  <2>2. server'.at = "accept_line" => ~Wrong(server.line)
    <3>1. CASE Wrong(server.line)
      BY <1>0, <1>2, <3>1, GotoType DEF Check, ServerAts, InTouch
    <3> QED BY <3>1
  <2>3. targets' = targets /\ server.at = "check"
    BY <1>2 DEF Check
  <2>4. server'.at = "accept_line" /\ ~rebuilt' =>
           rebuild.at # "append" /\ ids_array_len # 0 /\ server.line.n = s_num_servos
    BY <1>2, <2>2 DEF Check, Wrong
  <2>5. server'.at = "accept_line" /\ ~rebuilt' =>
           ids_array_len > 0 /\ server.line.n = ids_array_len
    BY <1>0, <2>4 DEF ListOK
  <2> QED BY <1>0, <2>1, <2>3, <2>4, <2>5 DEF CommandOK, InUse
<1>3. CASE AcceptLine
  <2>1. server'.at = "bridge" /\ server'.line = server.line
    BY <1>0, <1>3, GotoType DEF AcceptLine, ServerAts, InTouch
  <2>2. targets' = targets /\ rebuilt' = rebuilt /\ server.at = "accept_line"
    BY <1>3 DEF AcceptLine
  <2> QED BY <1>0, <2>1, <2>2 DEF CommandOK, InUse
<1>4. CASE GetLen
  <2>1. /\ server'.at = "copy" /\ server'.line = server.line /\ server'.total = ids_array_len
        /\ server'.ids = <<>>
    BY <1>0, <1>4, GetLenIs
  <2>2. targets' = targets /\ rebuilt' = rebuilt /\ server.at = "bridge"
    BY <1>4 DEF GetLen, history
  <2> QED BY <1>0, <2>1, <2>2 DEF CommandOK, InUse
<1>5. CASE CopyId
  <2>1. /\ server'.at = "copy" /\ server'.line = server.line /\ server'.total = server.total
        /\ server'.ids = Append(server.ids, ids_array[Len(server.ids)]) /\ Len(server.ids) \in Ids
    BY <1>0, <1>5, CopyIdIs DEF Types
  <2>2. targets' = targets /\ rebuilt' = rebuilt /\ server.at = "copy"
    BY <1>5 DEF CopyId, history
  <2>3. /\ server.ids \in Seq(MaybeIds) /\ Len(server.ids) \in Nat /\ server.total \in Nat
        /\ ids_array[Len(server.ids)] \in MaybeIds
    BY <1>0, <2>1 DEF Servers, Types, ListTypes, MaybeIds
  <2>4. /\ Len(server'.ids) = Len(server.ids) + 1
        /\ DOMAIN server'.ids = DOMAIN server.ids \cup {Len(server.ids) + 1}
        /\ \A i \in DOMAIN server.ids : server'.ids[i] = server.ids[i]
        /\ server'.ids[Len(server.ids) + 1] = ids_array[Len(server.ids)]
    BY <2>1, <2>3, AppendProperties
  <2>5. Len(server'.ids) <= server.total
    BY <1>5, <2>3, <2>4 DEF CopyId, CommandOK
  <2>6. server'.ids[1] = ROOT_ID
    <3>1. CASE server.ids = <<>>
      <4>1. Len(server.ids) = 0
        BY <3>1
      <4>2. server'.ids[1] = ids_array[0]
        BY <2>4, <4>1
      <4> QED BY <4>2 DEF ListOK
    <3>2. CASE server.ids # <<>>
      <4>1. 1 \in DOMAIN server.ids
        BY <2>3, <3>2, EmptySeq
      <4> QED BY <2>2, <2>4, <3>2, <4>1 DEF CommandOK
    <3> QED BY <3>1, <3>2
  <2>7. ~rebuilt => \A i \in DOMAIN server'.ids : server'.ids[i] = ids_array[i - 1]
    <3>1. (Len(server.ids) + 1) - 1 = Len(server.ids)
      BY <2>3
    <3> QED BY <2>2, <2>4, <3>1 DEF CommandOK
  <2> QED BY <1>0, <2>1, <2>2, <2>5, <2>6, <2>7 DEF CommandOK, InUse
<1>6. CASE CopyEnd
  <2>1. /\ server'.at = "dispatch" /\ server'.line = server.line /\ server'.total = server.total
        /\ Len(server'.ids) = server.total
        /\ \A i \in 1 .. server.total : i <= Len(server.ids) => server'.ids[i] = server.ids[i]
    BY <1>0, <1>6, CopyEndIs
  <2>2. /\ targets' = targets /\ rebuilt' = rebuilt /\ server.at = "copy"
        /\ Len(server.ids) = server.total \/ Len(server.ids) >= ids_array_len
    BY <1>6 DEF CopyEnd, history
  <2>3. /\ server.total \in Nat /\ Len(server.ids) \in Nat /\ server'.ids \in Seq(MaybeIds)
        /\ server.ids \in Seq(MaybeIds) /\ server.line.n \in Nat
    BY <1>0 DEF Servers, Lines
  <2>4. server'.ids # <<>> => server.total > 0
    BY <2>1, <2>3, EmptySeq
  <2>5. server.total > 0 => Len(server.ids) >= 1 /\ server.ids # <<>>
    BY <1>0, <2>2, <2>3, EmptySeq DEF CommandOK
  <2>6. server'.ids # <<>> => server'.ids[1] = ROOT_ID
    BY <2>1, <2>2, <2>3, <2>4, <2>5 DEF CommandOK
  <2>7. ~rebuilt => \A i \in DOMAIN server'.ids : server'.ids[i] = ids_array[i - 1]
    <3> SUFFICES ASSUME ~rebuilt, NEW i \in DOMAIN server'.ids
                 PROVE  server'.ids[i] = ids_array[i - 1]
      OBVIOUS
    <3>1. Len(server.ids) = server.total
      BY <1>0, <2>2, <2>3 DEF CommandOK
    <3>2. i \in 1 .. server.total /\ i \in DOMAIN server.ids /\ i <= Len(server.ids)
      BY <2>1, <2>3, <3>1
    <3> QED BY <2>1, <2>2, <3>2 DEF CommandOK
  <2>8. targets = <<>> /\ Len(targets) = 0
    BY <2>2 DEF CommandOK
  <2>9. Len(server'.ids) = server'.total
    BY <2>1
  <2>10. Copied' /\ Same'
    BY <1>0, <2>1, <2>2, <2>3, <2>6, <2>7 DEF CommandOK, Copied, Same
  <2>11. Dispatched' /\ NoneYet' /\ Settled'
    BY <1>0, <2>1, <2>2, <2>3, <2>8 DEF CommandOK, Dispatched, NoneYet, Settled, InUse
  <2> QED BY <2>10, <2>11 DEF CommandOK, Copied, Dispatched, NoneYet, Settled, Same
<1>7. CASE Dispatch
  <2>1. /\ Len(targets) + 1 \in DOMAIN server.ids
        /\ targets' = Append(targets, server.ids[Len(targets) + 1])
        /\ Len(targets) < server.line.n /\ Len(targets) < server.total
    BY <1>0, <1>7, DispatchIs
  <2>2. server' = server /\ rebuilt' = rebuilt /\ server.at = "dispatch"
    BY <1>7 DEF Dispatch
  <2>3. /\ server.total \in Nat /\ server.line.n \in Nat /\ Len(targets) \in Nat
        /\ server.ids[Len(targets) + 1] \in MaybeIds
    BY <1>0, <2>1, ElementOfSeq DEF Servers, Lines
  <2>4. /\ Len(targets') = Len(targets) + 1
        /\ DOMAIN targets' = DOMAIN targets \cup {Len(targets) + 1}
        /\ \A i \in DOMAIN targets : targets'[i] = targets[i]
        /\ targets'[Len(targets) + 1] = server.ids[Len(targets) + 1]
    BY <1>0, <2>1, <2>3, AppendProperties
  <2>5. \A i \in DOMAIN targets' : targets'[i] = server.ids[i]
    BY <2>2, <2>4 DEF CommandOK
  <2>6. Len(targets') <= server.total /\ Len(targets') <= server.line.n
    BY <2>1, <2>3, <2>4
  <2> QED BY <1>0, <2>2, <2>5, <2>6 DEF CommandOK, InUse
<1>8. CASE DispatchEnd
  <2>1. server'.at = "recv" /\ targets' = <<>>
    BY <1>0, <1>8, GotoType DEF DispatchEnd, ServerAts, InTouch
  <2> QED BY <2>1 DEF CommandOK, InUse
<1> QED BY <1>1, <1>2, <1>3, <1>4, <1>5, <1>6, <1>7, <1>8 DEF Server, HandleLine

LEMMA NextCommand == Types /\ ListOK /\ CommandOK /\ [Next]_vars => CommandOK'
<1> SUFFICES ASSUME Types, ListOK, CommandOK, [Next]_vars PROVE CommandOK'
  OBVIOUS
<1>1. CASE ExecuteServo \/ Client \/ Receiver \/ Break \/ UNCHANGED vars
  <2>1. server' = server /\ targets' = targets /\ rebuilt' = rebuilt
    BY <1>1 DEF ExecuteServo, Client, Connect, Ready, Ask, Build, SendLine, SendNowhere, Exit,
                Acknowledged, GiveUp, Quit, Receiver, Receive, ReceiveEnd, ReceiveDies, Break,
                serverVars, history, vars
  <2>2. UNCHANGED <<ids_array, ids_array_len, rebuild>>
    BY <1>1, OthersList DEF vars, listVars
  <2> QED BY <2>1, <2>2 DEF CommandOK, InUse
<1> QED BY <1>1, TouchedCommand, ServerCommand DEF Next
-----------------------------------------------------------------------------
(* Every line gets one answer *)

Full == {l \in Lines : l.n > 0}
Answers == {m \in Messages : m.kind \in Verdicts}

LEMMA FullIs == ASSUME NEW q \in Seq(Lines)
                PROVE  /\ Cardinality({i \in DOMAIN q : q[i].n > 0}) = CountIn(q, Full)
                       /\ CountIn(q, Full) \in Nat
                       /\ CountIn(q, Full) = 0 => \A i \in DOMAIN q : ~(q[i].n > 0)
<1>1. \A i \in DOMAIN q : q[i].n > 0 <=> q[i] \in Full
  <2> TAKE i \in DOMAIN q
  <2>1. q[i] \in Lines
    BY ElementOfSeq, LenProperties
  <2> QED BY <2>1 DEF Full
<1>2. {i \in DOMAIN q : q[i].n > 0} = Places(q, Full)
  BY <1>1 DEF Places
<1>3. CountIn(q, Full) \in Nat
  BY CountType
<1>4. CountIn(q, Full) = 0 => \A i \in DOMAIN q : q[i] \notin Full
  BY CountZero
<1> QED BY <1>1, <1>2, <1>3, <1>4 DEF CountIn

LEMMA AnswersIs == ASSUME NEW q \in Seq(Messages)
                   PROVE  /\ Cardinality({i \in DOMAIN q : q[i].kind \in Verdicts}) = CountIn(q, Answers)
                          /\ CountIn(q, Answers) \in Nat
                          /\ CountIn(q, Answers) = 0 => \A i \in DOMAIN q : q[i].kind \notin Verdicts
<1>1. \A i \in DOMAIN q : q[i].kind \in Verdicts <=> q[i] \in Answers
  <2> TAKE i \in DOMAIN q
  <2>1. q[i] \in Messages
    BY ElementOfSeq, LenProperties
  <2> QED BY <2>1 DEF Answers
<1>2. {i \in DOMAIN q : q[i].kind \in Verdicts} = Places(q, Answers)
  BY <1>1 DEF Places
<1>3. CountIn(q, Answers) \in Nat
  BY CountType
<1>4. CountIn(q, Answers) = 0 => \A i \in DOMAIN q : q[i] \notin Answers
  BY CountZero
<1> QED BY <1>1, <1>2, <1>3, <1>4 DEF CountIn

\* The same with the numbers the lemmas on counting speak of.
Open(u, d) == CountIn(u, Full) + InHand + CountIn(d, Answers)

LEMMA LiveSession == ASSUME Types, Live
                     PROVE  /\ session \in Sessions /\ up[session] \in Seq(Lines)
                            /\ ~over[session]
  BY ConsoleAssumption DEF Types, ServerTypes, LineTypes, Live, Sessions

LEMMA OneAnswerIs == ASSUME Types, Live
                     PROVE  OneAnswerEach <=> waiting = Open(up[session], down)
<1>1. up[session] \in Seq(Lines) /\ down \in Seq(Messages)
  BY LiveSession DEF Types, LineTypes
<1> QED BY <1>1, FullIs, AnswersIs DEF OneAnswerEach, Open

LEMMA OneAnswerNext ==
  ASSUME Types', Live', waiting' = CountIn(up'[session'], Full) + InHand' + CountIn(down', Answers)
  PROVE  OneAnswerEach'
<1>1. session' \in Sessions
  BY ConsoleAssumption DEF Types, ServerTypes, Live, Sessions
<1>2. up'[session'] \in Seq(Lines) /\ down' \in Seq(Messages)
  BY <1>1 DEF Types, LineTypes
<1> QED BY <1>2, FullIs, AnswersIs DEF OneAnswerEach

\* What the root sends, counted.
LEMMA SendCount == ASSUME down \in Seq(Messages), NEW m \in Messages, Send(m)
                   PROVE  CountIn(down', Answers) = CountIn(down, Answers)
                             + OneIf(sock = session /\ Live /\ m.kind \in Verdicts)
<1>1. CountIn(down, Answers) \in Nat
  BY AnswersIs
<1>2. CASE sock = session /\ Live
  <2>1. down' = Append(down, m)
    BY <1>2 DEF Send
  <2>2. CountIn(Append(down, m), Answers) = CountIn(down, Answers) + OneIf(m \in Answers)
    BY CountAppend
  <2>3. m \in Answers <=> m.kind \in Verdicts
    BY DEF Answers
  <2> QED BY <1>2, <2>1, <2>2, <2>3 DEF OneIf
<1>3. CASE ~(sock = session /\ Live)
  BY <1>1, <1>3 DEF Send, OneIf
<1> QED BY <1>2, <1>3

\* Whether the session of the client is over.
LEMMA LiveBefore == ASSUME Types, [Next]_vars, Live'
                    PROVE  /\ Connect \/ (Live /\ session' = session /\ over' = over)
                           /\ ~(\/ Quit \/ Break \/ SendNowhere)
<1> USE DEF lineVars, clientVars, serverVars
<1>1. ~Break /\ ~Quit /\ ~SendNowhere
  <2>1. Break => ~Live'
    BY ConsoleAssumption DEF Break, Live, Types, ServerTypes, LineTypes, Sessions
  <2>2. Quit => ~Live'
    <3> SUFFICES ASSUME Quit PROVE ~Live'
      OBVIOUS
    <3>1. session \in Sessions
      BY ConsoleAssumption DEF Quit, Types, ClientTypes, ServerTypes, Sessions
    <3> QED BY <3>1 DEF Quit, Exit, Live, Types, LineTypes
  <2>3. SendNowhere => ~Live'
    BY DEF SendNowhere, Exit, Live
  <2> QED BY <2>1, <2>2, <2>3
<1>2. ~Connect => session' = session /\ over' = over
  <2> SUFFICES ASSUME ~Connect PROVE session' = session /\ over' = over
    OBVIOUS
  <2>1. CASE Start \/ Clear \/ Rebuild
    BY <2>1 DEF Start, Clear, Rebuild, AppendFound, SetNumServos, NotifyServos
  <2>2. CASE Server \/ RecvFails \/ ExecuteServo
    BY <2>2 DEF Server, HandleLine, Accept, Greet, SendGreeting, Recv, RecvEnd, Check, Reject,
                AcceptLine, GetLen, CopyId, CopyEnd, Dispatch, DispatchEnd, RecvFails, ExecuteServo
  <2>3. CASE Client \/ Receiver
    BY <1>1, <2>3 DEF Client, Ready, Ask, Build, SendLine, Acknowledged, GiveUp,
                      Receiver, Receive, ReceiveEnd, ReceiveDies
  <2>4. CASE UNCHANGED vars
    BY <2>4 DEF vars
  <2> QED BY <1>1, <2>1, <2>2, <2>3, <2>4 DEF Next
<1> QED BY <1>1, <1>2 DEF Live

LEMMA NextOneAnswer ==
  ASSUME Types, Types', SessionOK, OneAnswerEach, [Next]_vars
  PROVE  OneAnswerEach'
<1> USE DEF serverVars, lineVars, clientVars, history
<1> SUFFICES ASSUME Live'
             PROVE  waiting' = CountIn(up'[session'], Full) + InHand' + CountIn(down', Answers)
  BY OneAnswerNext DEF OneAnswerEach
<1> DEFINE Goal == waiting' = CountIn(up'[session'], Full) + InHand' + CountIn(down', Answers)
<1>0. /\ down \in Seq(Messages) /\ server \in Servers /\ up \in [Sessions -> Seq(Lines)]
      /\ s_num_servos \in Nat /\ client \in Clients /\ waiting \in Int
  BY SMTT(60), ConsoleAssumption
     DEF Types, ListTypes, LineTypes, ServerTypes, ClientTypes, HistoryTypes
<1>1. CASE Connect
  <2>1. /\ client.at = "off" /\ session' = session + 1
        /\ UNCHANGED <<up, down, sock, server, waiting>>
    BY <1>1 DEF Connect
  <2>2. session \in Nat /\ sock \in 0 .. session /\ session' \in Sessions
    BY <1>1, <2>1, ConsoleAssumption DEF Connect, Types, ServerTypes, Sessions
  <2>3. up'[session'] = <<>> /\ down' = <<>> /\ waiting' = 0
    BY <2>1, <2>2 DEF SessionOK
  <2>4. InHand' = 0
    BY <2>1, <2>2 DEF InHand
  <2> QED BY <2>3, <2>4, CountEmpty
<1> SUFFICES ASSUME ~Connect PROVE Goal
  BY <1>1
<1>2. /\ Live /\ session' = session /\ over' = over /\ session \in Sessions
      /\ up[session] \in Seq(Lines) /\ waiting = Open(up[session], down)
      /\ ~Quit /\ ~Break /\ ~SendNowhere
  BY LiveBefore, LiveSession, OneAnswerIs
<1>3. CountIn(up[session], Full) \in Nat /\ CountIn(down, Answers) \in Nat /\ InHand \in {0, 1}
  BY <1>0, <1>2, FullIs, AnswersIs DEF InHand
<1>4. CASE \/ Start \/ Clear \/ AppendFound \/ SetNumServos \/ Greet \/ GetLen \/ CopyId \/ CopyEnd
           \/ Dispatch \/ DispatchEnd \/ ExecuteServo \/ Ready \/ Ask \/ Build \/ Acknowledged
           \/ GiveUp \/ ReceiveEnd \/ ReceiveDies \/ Check \/ Accept \/ UNCHANGED vars
  <2>1. UNCHANGED <<up, down, waiting>>
    BY <1>4 DEF Start, Clear, AppendFound, SetNumServos, Greet, GetLen, CopyId, CopyEnd, Dispatch,
                DispatchEnd, ExecuteServo, Ready, Ask, Build, Acknowledged, GiveUp, ReceiveEnd,
                ReceiveDies, Check, Accept, vars
  <2>2. InHand' = InHand
    <3>1. CASE \/ Start \/ Clear \/ AppendFound \/ SetNumServos \/ Dispatch \/ ExecuteServo \/ Ready
               \/ Ask \/ Build \/ Acknowledged \/ GiveUp \/ ReceiveEnd \/ ReceiveDies \/ UNCHANGED vars
      BY <1>2, <3>1
         DEF Start, Clear, AppendFound, SetNumServos, Dispatch, ExecuteServo, Ready, Ask, Build,
             Acknowledged, GiveUp, ReceiveEnd, ReceiveDies, vars, InHand
    <3>2. CASE Check
      <4>1. server'.at \in {"reject", "accept_line"} /\ server.at = "check" /\ sock' = sock
        BY <1>0, <3>2, GotoType DEF Check, ServerAts, InTouch
      <4> QED BY <1>2, <4>1 DEF InHand
    <3>3. CASE Accept \/ DispatchEnd
      <4>1. server'.at \in {"greet", "recv"} /\ server.at \in {"accept", "dispatch"}
        BY <1>0, <3>3, GotoType DEF Accept, DispatchEnd, ServerAts, InTouch
      <4> QED BY <4>1 DEF InHand
    <3>4. CASE Greet \/ GetLen \/ CopyId \/ CopyEnd
      <4>1. server'.at \in {"greeting", "copy", "dispatch"} /\ server.at \in {"greet", "bridge", "copy"}
        <5>1. CASE Greet
          BY <1>0, <5>1, GreetIs DEF Greet
        <5>2. CASE GetLen
          BY <1>0, <5>2, GetLenIs, ConsoleAssumption DEF GetLen, Types, ListTypes
        <5>3. CASE CopyId
          BY <1>0, <5>3, CopyIdIs DEF CopyId, Types
        <5>4. CASE CopyEnd
          BY <1>0, <5>4, CopyEndIs DEF CopyEnd
        <5> QED BY <3>4, <5>1, <5>2, <5>3, <5>4
      <4> QED BY <4>1 DEF InHand
    <3> QED BY <1>4, <3>1, <3>2, <3>3, <3>4
  <2> QED BY <1>2, <2>1, <2>2 DEF Open
<1>5. CASE NotifyServos
  <2>1. CountIn(down', Answers) = CountIn(down, Answers)
    <3>1. CountIn(down', Answers) = CountIn(down, Answers)
             + OneIf(sock = session /\ Live /\ Servos(s_num_servos).kind \in Verdicts)
      BY <1>0, <1>5, SendCount, MessageTypes DEF NotifyServos
    <3> QED BY <1>3, <3>1 DEF Servos, Verdicts, OneIf
  <2>2. UNCHANGED <<up, waiting, InHand>>
    BY <1>2, <1>5 DEF NotifyServos, InHand
  <2> QED BY <1>2, <2>1, <2>2 DEF Open
<1>6. CASE SendGreeting
  <2>1. CountIn(down', Answers) = CountIn(down, Answers)
    <3>1. CountIn(down', Answers) = CountIn(down, Answers)
             + OneIf(sock = session /\ Live /\ Servos(server.value).kind \in Verdicts)
      BY <1>0, <1>6, SendCount, MessageTypes DEF SendGreeting, Servers
    <3> QED BY <1>3, <3>1 DEF Servos, Verdicts, OneIf
  <2>2. server'.at = "recv" /\ server.at = "greeting"
    BY <1>0, <1>6, GotoType DEF SendGreeting, ServerAts, InTouch
  <2>3. InHand' = InHand
    BY <2>2 DEF InHand
  <2>4. UNCHANGED <<up, waiting>>
    BY <1>6 DEF SendGreeting
  <2> QED BY <1>2, <2>1, <2>3, <2>4 DEF Open
<1>7. CASE Reject \/ AcceptLine
  <2>1. CountIn(down', Answers) = CountIn(down, Answers) + OneIf(sock = session)
    <3>1. PICK v \in Verdicts : Send(Verdict(v))
      BY <1>7 DEF Reject, AcceptLine, Verdicts
    <3>2. CountIn(down', Answers) = CountIn(down, Answers)
             + OneIf(sock = session /\ Live /\ Verdict(v).kind \in Verdicts)
      BY <1>0, <3>1, SendCount, MessageTypes
    <3> QED BY <1>2, <3>2 DEF Verdict, OneIf
  <2>2. server.at \in {"reject", "accept_line"} /\ server'.at \in {"recv", "bridge"}
    BY <1>0, <1>7, GotoType DEF Reject, AcceptLine, ServerAts, InTouch
  <2>3. InHand' = 0 /\ InHand = OneIf(sock = session)
    BY <2>2 DEF InHand, OneIf
  <2>4. UNCHANGED <<up, waiting>>
    BY <1>7 DEF Reject, AcceptLine
  <2> QED BY <1>2, <1>3, <2>1, <2>3, <2>4 DEF Open
<1>8. CASE Recv
  <2>1. sock \in Sessions /\ up[sock] # <<>> /\ server.at = "recv"
    BY <1>8, SessionIs DEF Recv, Types, ServerTypes
  <2>2. IF Head(up[sock]).n = 0 THEN server' = server
                                ELSE server'.at = "check" /\ server'.line = Head(up[sock])
    BY <1>0, <1>8, <2>1, RecvIs
  <2>3. UNCHANGED <<down, waiting, sock>> /\ up' = [up EXCEPT ![sock] = Tail(@)]
    BY <1>8 DEF Recv
  <2>4. CASE sock = session
    <3>1. up'[session] = Tail(up[session])
      BY <1>0, <2>1, <2>3, <2>4
    <3>2. CountIn(up[session], Full) = CountIn(Tail(up[session]), Full) + OneIf(Head(up[session]) \in Full)
      BY <1>2, <2>1, <2>4, CountTail
    <3>3. Head(up[session]) \in Full <=> Head(up[session]).n # 0
      <4>1. Head(up[session]) \in Lines
        BY <1>2, <2>1, <2>4, HeadTailProperties
      <4> QED BY <4>1 DEF Full, Lines
    <3>4. InHand = 0 /\ InHand' = OneIf(Head(up[session]).n # 0)
      BY <1>2, <2>1, <2>2, <2>3, <2>4 DEF InHand, OneIf
    <3>5. CountIn(Tail(up[session]), Full) \in Nat
      BY <1>2, <2>1, <2>4, HeadTailProperties, FullIs
    <3> QED BY <1>2, <1>3, <2>3, <3>1, <3>2, <3>3, <3>4, <3>5 DEF Open, OneIf
  <2>5. CASE sock # session
    <3>1. up'[session] = up[session]
      BY <1>0, <2>3, <2>5
    <3>2. InHand = 0 /\ InHand' = 0
      BY <1>2, <2>3, <2>5 DEF InHand
    <3> QED BY <1>2, <1>3, <2>3, <3>1, <3>2 DEF Open
  <2> QED BY <2>4, <2>5
<1>9. CASE RecvEnd \/ RecvFails
  <2>1. over[sock] /\ server.at = "recv" /\ server'.at = "accept"
    BY <1>0, <1>9, GotoType DEF RecvEnd, RecvFails, ServerAts, Types, LineTypes
  <2>2. sock # session
    BY <1>2, <2>1, LiveSession
  <2>3. up'[session] = up[session] /\ UNCHANGED <<down, waiting>>
    BY <1>0, <1>2, <1>9, <2>2 DEF RecvEnd, RecvFails
  <2>4. InHand' = 0 /\ InHand = 0
    BY <2>1 DEF InHand
  <2> QED BY <1>2, <2>3, <2>4 DEF Open
<1>10. CASE SendLine
  <2>1. up'[session] = Append(up[session], client.line) /\ client.line \in Lines
    BY <1>0, <1>2, <1>10 DEF SendLine, Clients
  <2>2. CountIn(Append(up[session], client.line), Full)
           = CountIn(up[session], Full) + OneIf(client.line \in Full)
    BY <1>2, <2>1, CountAppend
  <2>3. client.line \in Full <=> client.line.n # 0
    BY <2>1 DEF Full, Lines
  <2>4. InHand' = InHand /\ down' = down
    BY <1>2, <1>10 DEF SendLine, InHand
  <2>5. waiting' = waiting + OneIf(client.line.n # 0)
    BY <1>0, <1>10 DEF SendLine, OneIf
  <2> QED BY SMTT(60), <1>2, <1>3, <2>1, <2>2, <2>3, <2>4, <2>5 DEF Open, OneIf
<1>11. CASE Receive
  <2>1. down' = Tail(down) /\ down # <<>> /\ Head(down) \in Messages
    BY <1>0, <1>11, ReceiveIs DEF Receive
  <2>2. CountIn(down, Answers) = CountIn(Tail(down), Answers) + OneIf(Head(down) \in Answers)
    BY <1>0, <2>1, CountTail
  <2>3. Head(down) \in Answers <=> Head(down).kind \in Verdicts
    BY <2>1 DEF Answers
  <2>4. waiting' = waiting - OneIf(Head(down).kind \in Verdicts)
    BY <1>0, <1>2, <1>11 DEF Receive, OneIf
  <2>5. InHand' = InHand /\ up' = up
    BY <1>2, <1>11 DEF Receive, InHand
  <2>6. CountIn(Tail(down), Answers) \in Nat
    BY <1>0, <2>1, HeadTailProperties, AnswersIs
  <2> QED BY <1>2, <1>3, <2>1, <2>2, <2>3, <2>4, <2>5, <2>6 DEF Open, OneIf
<1> QED BY <1>2, <1>4, <1>5, <1>6, <1>7, <1>8, <1>9, <1>10, <1>11
        DEF Next, Rebuild, Server, HandleLine, Client, Receiver

\* The session of a client that is not there stays over, and nothing is sent to it.
LEMMA NextSession == Types /\ SessionOK /\ [Next]_vars => SessionOK'
<1> USE DEF serverVars, lineVars, clientVars, history
<1> SUFFICES ASSUME Types, SessionOK, [Next]_vars PROVE SessionOK'
  OBVIOUS
<1>0. /\ up \in [Sessions -> Seq(Lines)] /\ session \in Nat /\ client \in Clients
      /\ over \in [Sessions -> BOOLEAN]
  BY ConsoleAssumption DEF Types, LineTypes, ServerTypes, ClientTypes
<1> DEFINE Gone == down = <<>> /\ waiting = 0 /\ ~Live /\ ~receiving
           Fresh(s) == s > session => up[s] = <<>>
<1>1. CASE Connect
  <2>1. client'.at = "ready" /\ session' = session + 1 /\ up' = up
    BY <1>0, <1>1, ConnectIs DEF Connect
  <2>2. \A s \in Sessions : s > session' => up'[s] = <<>>
    BY <1>0, <2>1 DEF SessionOK, Sessions
  <2> QED BY <2>1, <2>2 DEF SessionOK
<1>2. CASE Quit \/ SendNowhere
  <2>1. UNCHANGED <<up, session>>
    BY <1>2 DEF Quit, SendNowhere, Exit
  <2>2. CASE Exit
    <3>1. down' = <<>> /\ waiting' = 0 /\ ~receiving' /\ session' = session
      BY <1>0, <2>2, ExitIs
    <3>2. ~Live'
      <4>1. CASE Quit
        <5>1. session \in Sessions
          BY <4>1, ConsoleAssumption DEF Quit, Types, ClientTypes, ServerTypes, Sessions
        <5> QED BY <1>0, <3>1, <4>1, <5>1 DEF Quit, Live
      <4>2. CASE SendNowhere
        BY <3>1, <4>2 DEF SendNowhere, Exit, Live
      <4> QED BY <1>2, <4>1, <4>2
    <3> QED BY <2>1, <3>1, <3>2 DEF SessionOK
  <2>3. CASE ~Exit
    <3>1. ClientGoto("wait") \/ ClientGoto("build")
      BY <1>2, <2>3 DEF Quit, SendNowhere, ClientGoto
    <3>2. client'.at # "off"
      BY <1>0, <3>1, ClientGotoType
    <3> QED BY <2>1, <3>2 DEF SessionOK
  <2> QED BY <2>2, <2>3
<1>3. CASE Ready \/ Ask \/ Build \/ SendLine \/ Acknowledged \/ GiveUp
  <2>1. client'.at # "off" /\ session' = session
    <3>1. CASE Build
      <4>1. num_servos \in Nat
        BY <3>1 DEF Build, Types, ClientTypes
      <4> QED BY <1>0, <3>1, <4>1, BuildIs DEF Build
    <3>2. CASE ~Build
      <4>1. \E l \in {"ready", "ask", "build", "send", "wait", "quit"} : ClientGoto(l)
        BY <1>3, <3>2 DEF Ready, Ask, SendLine, Acknowledged, GiveUp, ClientGoto
      <4> QED BY <1>0, <1>3, <3>2, <4>1, ClientGotoType
              DEF Ready, Ask, SendLine, Acknowledged, GiveUp
    <3> QED BY <3>1, <3>2
  <2>2. \A s \in Sessions : s > session => up'[s] = up[s]
    <3>1. \A s \in Sessions : s > session => s # session
      BY <1>0 DEF Sessions
    <3> QED BY <1>0, <1>3, <3>1 DEF Ready, Ask, Build, SendLine, Acknowledged, GiveUp
  <2> QED BY <2>1, <2>2 DEF SessionOK
<1>4. CASE Break
  BY <1>4 DEF Break, SessionOK
<1>5. CASE Receiver
  BY <1>5 DEF Receiver, Receive, ReceiveEnd, ReceiveDies, SessionOK, Live
<1>6. CASE NotifyServos \/ SendGreeting \/ Reject \/ AcceptLine
  <2>1. UNCHANGED <<up, over, clientVars, waiting>>
    BY <1>6 DEF NotifyServos, SendGreeting, Reject, AcceptLine
  <2>2. ~Live => down' = down
    BY <1>6 DEF NotifyServos, SendGreeting, Reject, AcceptLine, Send
  <2> QED BY <2>1, <2>2 DEF SessionOK, Live
<1>7. CASE Recv \/ RecvEnd \/ RecvFails
  <2>1. UNCHANGED <<down, over, clientVars, waiting>>
    BY <1>7 DEF Recv, RecvEnd, RecvFails
  <2>2. sock <= session /\ sock \in Nat
    BY <1>0, ConsoleAssumption DEF Types, ServerTypes
  <2>3. \A s \in Sessions : s > session => up'[s] = up[s]
    <3>1. \A s \in Sessions : s > session => s # sock
      BY <1>0, <2>2 DEF Sessions
    <3> QED BY <1>0, <1>7, <3>1 DEF Recv, RecvEnd, RecvFails
  <2> QED BY <2>1, <2>3 DEF SessionOK, Live
<1>8. CASE \/ Start \/ Clear \/ AppendFound \/ SetNumServos \/ Accept \/ Greet \/ Check \/ GetLen
           \/ CopyId \/ CopyEnd \/ Dispatch \/ DispatchEnd \/ ExecuteServo \/ UNCHANGED vars
  <2>1. UNCHANGED <<lineVars, clientVars, waiting>>
    BY <1>8 DEF Start, Clear, AppendFound, SetNumServos, Accept, Greet, Check, GetLen, CopyId,
                CopyEnd, Dispatch, DispatchEnd, ExecuteServo, vars
  <2> QED BY <2>1 DEF SessionOK, Live
<1> QED BY <1>1, <1>2, <1>3, <1>4, <1>5, <1>6, <1>7, <1>8
        DEF Next, Rebuild, Server, HandleLine, Client
-----------------------------------------------------------------------------
(* The sequence goes on when its step was accepted *)

LEMMA NextOnlyAutoWaits == Types /\ OnlyAutoWaits /\ [Next]_vars => OnlyAutoWaits'
<1> SUFFICES ASSUME Types, OnlyAutoWaits, [Next]_vars PROVE OnlyAutoWaits'
  OBVIOUS
<1>0. client \in Clients
  BY DEF Types, ClientTypes
<1>1. CASE SendLine \/ (SendNowhere /\ ~Exit)
  <2>1. ClientGoto(IF client.auto THEN "wait" ELSE "build")
    BY <1>1 DEF SendLine, SendNowhere
  <2>2. CASE client.auto
    <3>1. ClientGoto("wait")
      BY <2>1, <2>2
    <3> QED BY <1>0, <2>2, <3>1, ClientGotoType DEF OnlyAutoWaits
  <2>3. CASE ~client.auto
    <3>1. ClientGoto("build")
      BY <2>1, <2>3
    <3> QED BY <1>0, <3>1, ClientGotoType DEF OnlyAutoWaits
  <2> QED BY <2>2, <2>3
<1>2. CASE Exit
  BY <1>0, <1>2, ExitIs DEF OnlyAutoWaits
<1>3. CASE Connect
  BY <1>0, <1>3, ConnectIs DEF OnlyAutoWaits
<1>4. CASE Build
  <2>1. num_servos \in Nat
    BY <1>4 DEF Build, Types, ClientTypes
  <2> QED BY <1>0, <1>4, <2>1, BuildIs DEF OnlyAutoWaits
<1>5. CASE Ready \/ Ask \/ Acknowledged \/ GiveUp
  <2>1. ClientGoto("build") \/ ClientGoto("ask") \/ ClientGoto("quit")
    BY <1>5 DEF Ready, Ask, Acknowledged, GiveUp, ClientGoto
  <2> QED BY <1>0, <2>1, ClientGotoType DEF OnlyAutoWaits
<1>6. CASE Receiver
  BY <1>6 DEF Receiver, Receive, ReceiveEnd, ReceiveDies, OnlyAutoWaits
<1>7. UNCHANGED clientVars => OnlyAutoWaits'
  BY DEF clientVars, OnlyAutoWaits
<1>8. UNCHANGED vars => UNCHANGED clientVars
  BY DEF vars
<1> QED BY <1>1, <1>2, <1>3, <1>4, <1>5, <1>6, <1>7, <1>8, OthersClient
        DEF Next, Client, Quit

\* What is still open when none of the lines is.
LEMMA NothingOpen == ASSUME Types, Live, OneAnswerEach, waiting <= 0
                     PROVE  /\ waiting = 0 /\ InHand = 0
                            /\ \A i \in DOMAIN up[session] : ~(up[session][i].n > 0)
                            /\ \A i \in DOMAIN down : down[i].kind \notin Verdicts
<1>1. up[session] \in Seq(Lines) /\ down \in Seq(Messages)
  BY LiveSession DEF Types, LineTypes
<1>2. waiting = Open(up[session], down)
  BY OneAnswerIs
<1>3. CountIn(up[session], Full) \in Nat /\ CountIn(down, Answers) \in Nat /\ InHand \in {0, 1}
  BY <1>1, FullIs, AnswersIs DEF InHand
<1>4. waiting = 0 /\ InHand = 0 /\ CountIn(up[session], Full) = 0 /\ CountIn(down, Answers) = 0
  BY <1>2, <1>3 DEF Open
<1> QED BY <1>1, <1>4, FullIs, AnswersIs

HasOK == \E i \in DOMAIN down : down[i].kind = "OK"

\* What InStep says while the client waits.
Awaited == /\ waiting <= IF ack_event THEN 0 ELSE 1
           /\ \A i \in DOMAIN up[session] : up[session][i].n > 0 => up[session][i].step = client.step
           /\ InHand = 1 => server.line.step = client.step
           /\ ack_event \/ HasOK => answered = client.step

StepOK == /\ client.at \in {"ready", "ask", "build", "send"} => waiting = 0
          /\ client.at = "send" => client.line.step = client.step /\ ~ack_event
          /\ client.at = "wait" => Awaited

LEMMA InStepIs == InStep <=> (client.auto /\ Live => StepOK)
  BY DEF InStep, StepOK, Awaited, HasOK

\* What the root sends is an answer of its own, or none.
LEMMA SendOK == ASSUME down \in Seq(Messages), NEW m \in Messages, Send(m)
                PROVE  HasOK' => HasOK \/ (sock = session /\ Live /\ m.kind = "OK")
<1>1. CASE sock = session /\ Live
  <2>1. down' = Append(down, m)
    BY <1>1 DEF Send
  <2>2. /\ DOMAIN down' = DOMAIN down \cup {Len(down) + 1}
        /\ \A i \in DOMAIN down : down'[i] = down[i]
        /\ down'[Len(down) + 1] = m
    BY <2>1, AppendProperties
  <2> QED BY <1>1, <2>2 DEF HasOK
<1>2. CASE ~(sock = session /\ Live)
  BY <1>2 DEF Send, HasOK
<1> QED BY <1>1, <1>2

\* The steps of the root while the client waits.
LEMMA RootAwaited ==
  ASSUME Types, Live, Live', Awaited, Start \/ Clear \/ Rebuild \/ Server \/ RecvFails \/ ExecuteServo
  PROVE  Awaited'
<1> USE DEF serverVars, lineVars, clientVars, history, listVars
<1>0. /\ down \in Seq(Messages) /\ server \in Servers /\ up \in [Sessions -> Seq(Lines)]
      /\ s_num_servos \in Nat /\ session \in Sessions /\ up[session] \in Seq(Lines)
      /\ UNCHANGED clientVars
  BY LiveSession, OthersClient, ConsoleAssumption DEF Types, ListTypes, LineTypes, ServerTypes
<1>1. CASE Start \/ Clear \/ AppendFound \/ SetNumServos \/ Dispatch \/ ExecuteServo
  <2>1. UNCHANGED <<up, down, sock, server, waiting, answered>>
    BY <1>1 DEF Start, Clear, AppendFound, SetNumServos, Dispatch, ExecuteServo
  <2> QED BY <1>0, <2>1 DEF Awaited, InHand, HasOK
<1>2. CASE NotifyServos
  <2>1. UNCHANGED <<up, sock, server, waiting, answered>>
    BY <1>2 DEF NotifyServos
  <2>2. HasOK' => HasOK
    <3>1. HasOK' => HasOK \/ (sock = session /\ Live /\ Servos(s_num_servos).kind = "OK")
      BY <1>0, <1>2, SendOK, MessageTypes DEF NotifyServos
    <3> QED BY <3>1 DEF Servos
  <2> QED BY <1>0, <2>1, <2>2 DEF Awaited, InHand
<1>3. CASE SendGreeting \/ Reject
  <2>1. UNCHANGED <<up, sock, waiting, answered>>
    BY <1>3 DEF SendGreeting, Reject
  <2>2. HasOK' => HasOK
    <3>1. \E m \in Messages : m.kind # "OK" /\ Send(m)
      <4>1. Servos(server.value) \in Messages /\ Verdict("ERROR") \in Messages
        BY <1>0, MessageTypes DEF Servers, Verdicts
      <4> QED BY <1>3, <4>1 DEF SendGreeting, Reject, Servos, Verdict
    <3> QED BY <1>0, <3>1, SendOK
  <2>3. server'.at = "recv"
    BY <1>0, <1>3, GotoType DEF SendGreeting, Reject, ServerAts, InTouch
  <2> QED BY <1>0, <2>1, <2>2, <2>3 DEF Awaited, InHand
<1>4. CASE AcceptLine
  <2>1. UNCHANGED <<up, sock, waiting>> /\ server.at = "accept_line"
    BY <1>4 DEF AcceptLine
  <2>2. HasOK' => HasOK \/ sock = session
    <3>1. HasOK' => HasOK \/ (sock = session /\ Live /\ Verdict("OK").kind = "OK")
      BY <1>0, <1>4, SendOK, MessageTypes DEF AcceptLine, Verdicts
    <3> QED BY <3>1
  <2>3. server'.at = "bridge"
    BY <1>0, <1>4, GotoType DEF AcceptLine, ServerAts, InTouch
  <2>4. sock = session => answered' = client.step
    BY <1>4, <2>1 DEF AcceptLine, Awaited, InHand
  <2>5. sock # session => answered' = answered
    BY <1>4 DEF AcceptLine
  <2> QED BY <1>0, <2>1, <2>2, <2>3, <2>4, <2>5 DEF Awaited, InHand
<1>5. CASE Recv
  <2>1. sock \in Sessions /\ up[sock] # <<>> /\ server.at = "recv"
    BY <1>5, SessionIs DEF Recv, Types, ServerTypes
  <2>2. IF Head(up[sock]).n = 0 THEN server' = server
                                ELSE server'.at = "check" /\ server'.line = Head(up[sock])
    BY <1>0, <1>5, <2>1, RecvIs
  <2>3. UNCHANGED <<down, waiting, sock, answered>> /\ up' = [up EXCEPT ![sock] = Tail(@)]
    BY <1>5 DEF Recv
  <2>4. CASE sock = session
    <3> DEFINE q == up[session]
    <3>1. q # <<>> /\ up'[session] = Tail(q)
      BY <1>0, <2>1, <2>3, <2>4
    <3>2. /\ Head(q) = q[1] /\ 1 \in DOMAIN q /\ Len(q) \in Nat /\ Len(Tail(q)) = Len(q) - 1
          /\ \A i \in 1 .. Len(Tail(q)) : Tail(q)[i] = q[i + 1] /\ i + 1 \in DOMAIN q
          /\ DOMAIN Tail(q) = 1 .. Len(Tail(q))
      <4>1. /\ Head(q) = q[1] /\ Len(q) \in Nat \ {0} /\ Len(Tail(q)) = Len(q) - 1
            /\ \A i \in 1 .. Len(Tail(q)) : Tail(q)[i] = q[i + 1]
            /\ DOMAIN q = 1 .. Len(q) /\ DOMAIN Tail(q) = 1 .. Len(Tail(q))
        BY <1>0, <3>1, HeadTailProperties, EmptySeq
      <4> QED BY <4>1
    <3>3. Head(q).n \in Nat
      <4>1. Head(up[session]) \in Lines
        BY <1>0, <3>1, HeadTailProperties
      <4> QED BY <4>1 DEF Lines
    <3>4. \A i \in DOMAIN Tail(q) : Tail(q)[i].n > 0 => Tail(q)[i].step = client.step
      BY <3>2 DEF Awaited
    <3>5. Head(q).n # 0 => Head(q).step = client.step
      BY <3>2, <3>3 DEF Awaited
    <3>6. InHand' = 1 => server'.line.step = client.step
      BY <2>1, <2>2, <2>4, <3>5 DEF InHand
    <3> QED BY <1>0, <2>3, <3>1, <3>4, <3>6 DEF Awaited, HasOK
  <2>5. CASE sock # session
    <3>1. up'[session] = up[session] /\ InHand' = 0
      BY <1>0, <2>3, <2>5 DEF InHand
    <3> QED BY <1>0, <2>3, <3>1 DEF Awaited, HasOK
  <2> QED BY <2>4, <2>5
<1>6. CASE RecvEnd \/ RecvFails
  <2>1. over[sock] /\ server'.at = "accept"
    BY <1>0, <1>6, GotoType DEF RecvEnd, RecvFails, ServerAts, Types, LineTypes
  <2>2. sock # session
    BY <2>1, LiveSession
  <2>3. up'[session] = up[session] /\ UNCHANGED <<down, waiting, answered>>
    BY <1>0, <1>6, <2>2 DEF RecvEnd, RecvFails
  <2>4. InHand' = 0
    BY <2>1 DEF InHand
  <2> QED BY <1>0, <2>3, <2>4 DEF Awaited, HasOK
<1>7. CASE Check \/ Accept \/ Greet \/ GetLen \/ CopyId \/ CopyEnd \/ DispatchEnd
  <2>1. UNCHANGED <<up, down, waiting, answered>>
    BY <1>7 DEF Check, Accept, Greet, GetLen, CopyId, CopyEnd, DispatchEnd
  <2>2. InHand' = 1 => server'.line.step = client.step
    <3>1. CASE Check
      <4>1. server'.line = server.line /\ server.at = "check" /\ sock' = sock
        BY <1>0, <3>1, GotoType DEF Check, ServerAts, InTouch
      <4> QED BY <1>0, <4>1 DEF InHand, Awaited
    <3>2. CASE Accept \/ DispatchEnd
      BY <1>0, <3>2, GotoType DEF Accept, DispatchEnd, ServerAts, InTouch, InHand
    <3>3. CASE Greet
      BY <1>0, <3>3, GreetIs DEF InHand
    <3>4. CASE GetLen
      BY <1>0, <3>4, GetLenIs, ConsoleAssumption DEF InHand, Types, ListTypes
    <3>5. CASE CopyId
      BY <1>0, <3>5, CopyIdIs DEF InHand, Types
    <3>6. CASE CopyEnd
      BY <1>0, <3>6, CopyEndIs DEF InHand
    <3> QED BY <1>7, <3>1, <3>2, <3>3, <3>4, <3>5, <3>6
  <2> QED BY <1>0, <2>1, <2>2 DEF Awaited, HasOK
<1> QED BY <1>1, <1>2, <1>3, <1>4, <1>5, <1>6, <1>7 DEF Rebuild, Server, HandleLine

LEMMA RootWaiting ==
  Start \/ Clear \/ Rebuild \/ Server \/ RecvFails \/ ExecuteServo => waiting' = waiting
<1>1. Start \/ Clear \/ Rebuild \/ RecvFails \/ ExecuteServo => waiting' = waiting
  BY DEF Start, Clear, Rebuild, AppendFound, SetNumServos, NotifyServos, RecvFails, ExecuteServo, history
<1>2. Server => waiting' = waiting
  BY DEF Server, HandleLine, Accept, Greet, SendGreeting, Recv, RecvEnd, Check, Reject, AcceptLine,
         GetLen, CopyId, CopyEnd, Dispatch, DispatchEnd, history
<1> QED BY <1>1, <1>2

\* The lines that wait for an answer, when one more is sent.
LEMMA SentAwaited == ASSUME Types, Live, OneAnswerEach, waiting = 0, ~ack_event, SendLine, client.auto,
                            client.line.step = client.step
                     PROVE  Awaited' /\ client'.at = "wait"
<1> USE DEF serverVars
<1>0. /\ client \in Clients /\ session \in Sessions /\ up[session] \in Seq(Lines)
      /\ up \in [Sessions -> Seq(Lines)] /\ client.line \in Lines
  BY LiveSession DEF Types, ClientTypes, LineTypes, Clients
<1>1. /\ InHand = 0
      /\ \A i \in DOMAIN up[session] : ~(up[session][i].n > 0)
      /\ \A i \in DOMAIN down : down[i].kind \notin Verdicts
  BY NothingOpen
<1>2. ClientGoto("wait")
  BY DEF SendLine
<1>3. client'.at = "wait" /\ client'.step = client.step
  BY <1>0, <1>2, ClientGotoType
<1>4. UNCHANGED <<down, sock, server, session, ack_event, answered>>
  BY DEF SendLine
<1>5. waiting' <= 1 /\ ~ack_event'
  BY <1>4 DEF SendLine
<1>6. up'[session] = Append(up[session], client.line)
  BY <1>0 DEF SendLine
<1>7. \A i \in DOMAIN up'[session] : up'[session][i].n > 0 => up'[session][i].step = client.step
  <2>1. /\ DOMAIN up'[session] = DOMAIN up[session] \cup {Len(up[session]) + 1}
        /\ \A i \in DOMAIN up[session] : up'[session][i] = up[session][i]
        /\ up'[session][Len(up[session]) + 1] = client.line
    BY <1>0, <1>6, AppendProperties
  <2> QED BY <1>1, <2>1
<1>8. InHand' = 0 /\ ~HasOK'
  BY <1>1, <1>4 DEF InHand, HasOK, Verdicts
<1> QED BY <1>3, <1>4, <1>5, <1>7, <1>8 DEF Awaited

\* An answer is taken while the client waits.
LEMMA ReceiveAwaited == ASSUME Types, Live, Awaited, Receive
                        PROVE  Awaited'
<1> USE DEF serverVars
<1>0. down \in Seq(Messages) /\ waiting \in Int /\ ack_event \in BOOLEAN
  BY DEF Types, LineTypes, HistoryTypes, ClientTypes
<1>1. down # <<>> /\ down' = Tail(down) /\ Head(down) \in Messages
  BY <1>0, ReceiveIs DEF Receive
<1>2. /\ Head(down) = down[1] /\ 1 \in DOMAIN down
      /\ \A i \in DOMAIN Tail(down) : Tail(down)[i] = down[i + 1] /\ i + 1 \in DOMAIN down
  <2>1. /\ Head(down) = down[1] /\ Len(down) \in Nat \ {0} /\ Len(Tail(down)) = Len(down) - 1
        /\ \A i \in 1 .. Len(Tail(down)) : Tail(down)[i] = down[i + 1]
        /\ DOMAIN down = 1 .. Len(down) /\ DOMAIN Tail(down) = 1 .. Len(Tail(down))
    BY <1>0, <1>1, HeadTailProperties, EmptySeq
  <2> QED BY <2>1
<1>3. UNCHANGED <<up, sock, server, session, client, answered, InHand>>
  BY DEF Receive, InHand
<1>4. HasOK' => HasOK
  BY <1>1, <1>2 DEF HasOK
<1>5. CASE Head(down).kind = "OK"
  <2>1. HasOK /\ ack_event'
    BY <1>2, <1>5 DEF HasOK, Receive
  <2>2. waiting' = waiting - 1
    BY <1>5 DEF Receive, Verdicts
  <2>3. waiting <= 1
    BY <1>0 DEF Awaited
  <2>4. waiting' <= 0
    BY <1>0, <2>2, <2>3
  <2> QED BY <1>3, <2>1, <2>4 DEF Awaited
<1>6. CASE Head(down).kind # "OK"
  <2>1. ack_event' = ack_event
    BY <1>0, <1>6 DEF Receive
  <2>2. waiting' <= waiting /\ waiting' \in Int
    BY <1>0 DEF Receive
  <2>3. waiting' <= IF ack_event THEN 0 ELSE 1
    BY <1>0, <2>2 DEF Awaited
  <2> QED BY <1>3, <1>4, <2>1, <2>3 DEF Awaited
<1> QED BY <1>5, <1>6

LEMMA NextInStep ==
  ASSUME Types, Types', SessionOK, OneAnswerEach, InStep, OnlyAutoWaits, [Next]_vars
  PROVE  InStep'
<1> USE DEF serverVars, clientVars, history
<1> SUFFICES ASSUME client'.auto, Live' PROVE StepOK'
  BY DEF InStep, StepOK, Awaited, HasOK
<1>0. /\ client \in Clients /\ client' \in Clients /\ waiting \in Int
      /\ down \in Seq(Messages) /\ ack_event \in BOOLEAN
  BY DEF Types, ClientTypes, HistoryTypes, LineTypes
<1>1. CASE Connect
  <2>1. client'.at = "ready" /\ waiting' = waiting /\ client.at = "off"
    BY <1>0, <1>1, ConnectIs DEF Connect
  <2> QED BY <2>1 DEF StepOK, SessionOK
<1>2. CASE ~Connect
  <2>0. /\ Live /\ session' = session /\ over' = over /\ ~over[session]
        /\ ~Quit /\ ~Break /\ ~SendNowhere
    BY <1>2, LiveBefore, LiveSession
  <2>1. waiting <= 0 => /\ waiting = 0
                        /\ \A i \in DOMAIN down : down[i].kind \notin Verdicts
    BY <2>0, NothingOpen
  <2>2. CASE Start \/ Clear \/ Rebuild \/ Server \/ RecvFails \/ ExecuteServo
    <3>1. client' = client /\ ack_event' = ack_event /\ waiting' = waiting
      BY <2>2, OthersClient, RootWaiting
    <3>2. StepOK
      BY <2>0, <3>1, InStepIs
    <3>3. client.at = "wait" => Awaited'
      BY <2>0, <2>2, <3>2, RootAwaited DEF StepOK
    <3> QED BY <3>1, <3>2, <3>3 DEF StepOK
  <2>3. CASE Ready
    <3>1. client'.at \in {"build", "ask"} /\ client'.auto = client.auto /\ client.at = "ready"
      <4>1. ClientGoto("build") \/ ClientGoto("ask")
        BY <2>3 DEF Ready, ClientGoto
      <4> QED BY <1>0, <2>3, <4>1, ClientGotoType DEF Ready
    <3>2. waiting' = waiting
      BY <2>3 DEF Ready
    <3> QED BY <2>0, <3>1, <3>2, InStepIs DEF StepOK
  <2>4. CASE Ask
    <3>1. client'.at = "build" /\ client'.auto = client.auto /\ client.at = "ask"
      BY <1>0, <2>4, ClientGotoType DEF Ask
    <3>2. waiting' = waiting
      BY <2>4 DEF Ask
    <3> QED BY <2>0, <3>1, <3>2, InStepIs DEF StepOK
  <2>5. CASE Build
    <3>1. num_servos \in Nat
      BY <2>5 DEF Build, Types, ClientTypes
    <3>2. /\ client'.at = "send" /\ client'.auto = client.auto /\ client'.line.step = client'.step
          /\ client.auto => ~ack_event'
      BY <1>0, <2>5, <3>1, BuildIs
    <3>3. waiting' = waiting /\ client.at = "build"
      BY <2>5 DEF Build
    <3> QED BY <2>0, <3>2, <3>3, InStepIs DEF StepOK
  <2>6. CASE SendLine
    <3>1. client'.auto = client.auto /\ client.at = "send"
      <4>1. ClientGoto("wait") \/ ClientGoto("build")
        BY <2>6 DEF SendLine, ClientGoto
      <4> QED BY <1>0, <2>6, <4>1, ClientGotoType DEF SendLine
    <3>2. waiting = 0 /\ client.line.step = client.step /\ ~ack_event
      BY <2>0, <3>1, InStepIs DEF StepOK
    <3>3. Awaited' /\ client'.at = "wait"
      BY <2>0, <2>6, <3>1, <3>2, SentAwaited
    <3> QED BY <3>3 DEF StepOK
  <2>7. CASE Acknowledged
    <3>1. client'.at = "build" /\ client'.auto = client.auto /\ client.at = "wait"
      BY <1>0, <2>7, ClientGotoType DEF Acknowledged
    <3>2. ack_event /\ waiting' = waiting
      BY <2>7 DEF Acknowledged
    <3>3. waiting <= 0
      BY <2>0, <3>1, <3>2, InStepIs DEF StepOK, Awaited
    <3> QED BY <2>1, <3>1, <3>2, <3>3 DEF StepOK
  <2>8. CASE GiveUp
    <3>1. client'.at = "quit"
      BY <1>0, <2>8, ClientGotoType DEF GiveUp
    <3> QED BY <3>1 DEF StepOK
  <2>9. CASE Receive
    <3>1. client' = client /\ StepOK
      BY <2>0, <2>9, InStepIs DEF Receive
    <3>2. client.at = "wait" => Awaited'
      BY <2>0, <2>9, <3>1, ReceiveAwaited DEF StepOK
    <3>3. client.at \in {"ready", "ask", "build", "send"} =>
             waiting' = 0 /\ ack_event' = ack_event
      <4> SUFFICES ASSUME client.at \in {"ready", "ask", "build", "send"}
                   PROVE  waiting' = 0 /\ ack_event' = ack_event
        OBVIOUS
      <4>1. waiting = 0
        BY <3>1 DEF StepOK
      <4>2. Head(down) = down[1] /\ 1 \in DOMAIN down
        BY <1>0, <2>9, HeadTailProperties, EmptySeq DEF Receive
      <4>3. Head(down).kind \notin Verdicts
        BY <2>1, <4>1, <4>2
      <4>4. waiting' = 0
        <5>1. waiting' = waiting - IF Head(down).kind \in Verdicts /\ Live THEN 1 ELSE 0
          BY <2>9 DEF Receive
        <5>2. waiting' = 0 - 0
          BY <4>1, <4>3, <5>1
        <5> QED BY <5>2
      <4>5. Head(down).kind # "OK"
        BY <4>3 DEF Verdicts
      <4>6. ack_event' = ack_event
        BY <1>0, <2>9, <4>5 DEF Receive
      <4> QED BY <4>4, <4>6
    <3> QED BY <3>1, <3>2, <3>3 DEF StepOK
  <2>10. CASE ReceiveEnd
    BY <2>0, <2>10 DEF ReceiveEnd
  <2>11. CASE ReceiveDies \/ UNCHANGED vars
    <3>1. UNCHANGED <<up, down, sock, server, session, client, waiting, answered, ack_event>>
      BY <2>11 DEF ReceiveDies, lineVars, vars
    <3>2. StepOK
      BY <2>0, <3>1, InStepIs
    <3> QED BY <3>1, <3>2 DEF StepOK, Awaited, HasOK, InHand
  <2> QED BY <1>2, <2>0, <2>2, <2>3, <2>4, <2>5, <2>6, <2>7, <2>8, <2>9, <2>10, <2>11
          DEF Next, Client, Receiver
<1> QED BY <1>1, <1>2
-----------------------------------------------------------------------------
(* The number of servos reaches the client *)

\* None of these messages is a number of servos; the last that is one is v.
NoneIn(d) == \A i \in DOMAIN d : d[i].kind # "SERVOS"
LastIs(d, v) == \A i \in DOMAIN d :
    d[i].kind = "SERVOS" /\ (\A j \in DOMAIN d : j > i => d[j].kind # "SERVOS") => d[i].n = v

Reached == /\ receiving /\ Live /\ sock = session /\ ~stale
           /\ server.at \notin {"greet", "greeting"} /\ rebuild.at # "notify"
Known == LastIs(down, s_num_servos) /\ (NoneIn(down) /\ ~typed => num_servos = s_num_servos)

LEMMA ToldIs == Told <=> (Reached => Known)
  BY DEF Told, Reached, Known, LastTold, LastIs, NoneIn

LEMMA LastAppend == ASSUME NEW d \in Seq(Messages), NEW m \in Messages, NEW v
                    PROVE  /\ m.kind = "SERVOS" /\ m.n = v
                              => LastIs(Append(d, m), v) /\ ~NoneIn(Append(d, m))
                           /\ m.kind # "SERVOS"
                              => /\ LastIs(d, v) => LastIs(Append(d, m), v)
                                 /\ NoneIn(Append(d, m)) => NoneIn(d)
<1> DEFINE e == Append(d, m)
           k == Len(d) + 1
<1>1. /\ DOMAIN e = DOMAIN d \cup {k} /\ e[k] = m
      /\ \A i \in DOMAIN d : e[i] = d[i] /\ k > i
  <2>1. /\ DOMAIN e = DOMAIN d \cup {k} /\ e[k] = m /\ \A i \in DOMAIN d : e[i] = d[i]
    BY AppendProperties
  <2>2. DOMAIN d = 1 .. Len(d) /\ Len(d) \in Nat
    BY LenProperties
  <2> QED BY <2>1, <2>2
<1> HIDE DEF e, k
<1>2. CASE m.kind = "SERVOS" /\ m.n = v
  <2>1. \A i \in DOMAIN d : ~(\A j \in DOMAIN e : j > i => e[j].kind # "SERVOS")
    BY <1>1, <1>2
  <2> QED BY <1>1, <1>2, <2>1 DEF LastIs, NoneIn, e
<1>3. CASE m.kind # "SERVOS"
  <2>1. ASSUME LastIs(d, v) PROVE LastIs(e, v)
    <3> SUFFICES ASSUME NEW i \in DOMAIN e, e[i].kind = "SERVOS",
                        \A j \in DOMAIN e : j > i => e[j].kind # "SERVOS"
                 PROVE  e[i].n = v
      BY DEF LastIs
    <3>1. i \in DOMAIN d /\ e[i] = d[i]
      BY <1>1, <1>3
    <3>2. \A j \in DOMAIN d : j > i => d[j].kind # "SERVOS"
      BY <1>1
    <3> QED BY <2>1, <3>1, <3>2 DEF LastIs
  <2>2. NoneIn(e) => NoneIn(d)
    BY <1>1 DEF NoneIn
  <2> QED BY <1>3, <2>1, <2>2 DEF e
<1> QED BY <1>2, <1>3

LEMMA LastTail == ASSUME NEW d \in Seq(Messages), d # <<>>, NEW v, LastIs(d, v)
                  PROVE  /\ LastIs(Tail(d), v)
                         /\ NoneIn(Tail(d)) => IF Head(d).kind = "SERVOS" THEN Head(d).n = v
                                                                         ELSE NoneIn(d)
<1>1. /\ Head(d) = d[1] /\ Len(d) \in Nat \ {0} /\ Len(Tail(d)) = Len(d) - 1
      /\ \A i \in 1 .. Len(Tail(d)) : Tail(d)[i] = d[i + 1]
      /\ DOMAIN d = 1 .. Len(d) /\ DOMAIN Tail(d) = 1 .. Len(Tail(d))
  BY HeadTailProperties, EmptySeq
<1>2. \A j \in DOMAIN d : j = 1 \/ (j - 1 \in DOMAIN Tail(d) /\ d[j] = Tail(d)[j - 1])
  <2> TAKE j \in DOMAIN d
  <2>1. CASE j # 1
    <3>1. j - 1 \in 1 .. Len(Tail(d)) /\ (j - 1) + 1 = j
      BY <1>1, <2>1
    <3> QED BY <1>1, <3>1
  <2> QED BY <2>1
<1>3. LastIs(Tail(d), v)
  <2> SUFFICES ASSUME NEW i \in DOMAIN Tail(d), Tail(d)[i].kind = "SERVOS",
                      \A j \in DOMAIN Tail(d) : j > i => Tail(d)[j].kind # "SERVOS"
               PROVE  Tail(d)[i].n = v
    BY DEF LastIs
  <2>1. i + 1 \in DOMAIN d /\ Tail(d)[i] = d[i + 1] /\ i \in Nat /\ i >= 1
    BY <1>1
  <2>2. \A j \in DOMAIN d : j > i + 1 => d[j].kind # "SERVOS"
    <3> TAKE j \in DOMAIN d
    <3> HAVE j > i + 1
    <3>1. j \in Nat /\ j # 1 /\ j - 1 > i
      BY <1>1, <2>1
    <3> QED BY <1>2, <3>1
  <2> QED BY <2>1, <2>2 DEF LastIs
<1>4. NoneIn(Tail(d)) /\ Head(d).kind = "SERVOS" => Head(d).n = v
  <2> SUFFICES ASSUME NoneIn(Tail(d)), Head(d).kind = "SERVOS" PROVE Head(d).n = v
    OBVIOUS
  <2>1. \A j \in DOMAIN d : j > 1 => d[j].kind # "SERVOS"
    <3> TAKE j \in DOMAIN d
    <3> HAVE j > 1
    <3>1. j # 1
      BY <1>1
    <3> QED BY <1>2, <3>1 DEF NoneIn
  <2>2. 1 \in DOMAIN d
    BY <1>1
  <2> QED BY <1>1, <2>1, <2>2 DEF LastIs
<1>5. NoneIn(Tail(d)) /\ Head(d).kind # "SERVOS" => NoneIn(d)
  BY <1>1, <1>2 DEF NoneIn
<1> QED BY <1>3, <1>4, <1>5

LEMMA NextTold == ASSUME Types, Types', Told, [Next]_vars
                  PROVE  Told'
<1> USE DEF serverVars, clientVars, lineVars, history
<1> SUFFICES ASSUME Reached' PROVE Known'
  BY DEF Told, Reached, Known, LastTold, LastIs, NoneIn
<1>0. /\ server \in Servers /\ rebuild \in Rebuilds /\ rebuild' \in Rebuilds /\ client \in Clients
      /\ down \in Seq(Messages) /\ s_num_servos \in Nat /\ sock \in 0 .. session /\ session \in Nat
  BY ConsoleAssumption DEF Types, ListTypes, LineTypes, ServerTypes, ClientTypes
<1>1. ~Connect
  <2>1. Connect => sock' = sock /\ session' = session + 1
    BY DEF Connect
  <2> QED BY <1>0, <2>1 DEF Reached
<1>2. /\ Live /\ session' = session /\ over' = over /\ ~over[session] /\ session > 0
      /\ ~Quit /\ ~Break /\ ~SendNowhere
  BY <1>1, LiveBefore, LiveSession DEF Reached, Live
<1>3. Reached => Known
  BY ToldIs
<1>4. CASE NotifyServos
  <2>1. s_num_servos' = s_num_servos /\ sock = session
    BY <1>2, <1>4 DEF NotifyServos, Reached
  <2>2. down' = Append(down, Servos(s_num_servos))
    BY <1>2, <1>4, <2>1 DEF NotifyServos, Send
  <2> QED BY <1>0, <2>1, <2>2, MessageTypes, LastAppend DEF Known, Servos
<1>5. CASE SendGreeting
  <2>1. s_num_servos' = s_num_servos /\ sock = session /\ rebuild' = rebuild
    BY <1>2, <1>5 DEF SendGreeting, Reached, listVars
  <2>2. server.value = s_num_servos
    BY <1>2, <1>5, <2>1 DEF SendGreeting, Reached
  <2>3. down' = Append(down, Servos(s_num_servos))
    BY <1>2, <1>5, <2>1, <2>2 DEF SendGreeting, Send
  <2> QED BY <1>0, <2>1, <2>3, MessageTypes, LastAppend DEF Known, Servos
<1>6. CASE Reject \/ AcceptLine
  <2>1. UNCHANGED <<s_num_servos, num_servos, typed>> /\ Reached
    <3>1. /\ UNCHANGED <<s_num_servos, num_servos, typed, receiving, sock, stale, rebuild>>
          /\ server.at \in {"reject", "accept_line"}
      BY <1>6 DEF Reject, AcceptLine, listVars
    <3> QED BY <1>2, <3>1 DEF Reached
  <2>2. PICK m \in Messages : m.kind # "SERVOS" /\ Send(m)
    <3>1. Verdict("OK") \in Messages /\ Verdict("ERROR") \in Messages
      BY MessageTypes DEF Verdicts
    <3> QED BY <1>6, <3>1 DEF Reject, AcceptLine, Verdict
  <2>3. LastIs(down, s_num_servos) => LastIs(down', s_num_servos)
    BY <1>0, <2>2, LastAppend DEF Send
  <2>4. NoneIn(down') => NoneIn(down)
    BY <1>0, <2>2, LastAppend DEF Send
  <2> QED BY <1>3, <2>1, <2>3, <2>4 DEF Known
<1>7. CASE Ask
  <2>1. UNCHANGED <<s_num_servos, down>> /\ Reached /\ typed'
    BY <1>2, <1>7 DEF Ask, Reached, listVars
  <2> QED BY <1>3, <2>1 DEF Known
<1>8. CASE Receive
  <2>1. UNCHANGED <<s_num_servos>> /\ Reached /\ down # <<>> /\ down' = Tail(down)
    BY <1>2, <1>8 DEF Receive, Reached, listVars
  <2>2. LastIs(down, s_num_servos) /\ LastIs(down', s_num_servos)
    BY <1>0, <1>3, <2>1, LastTail DEF Known
  <2>3. CASE Head(down).kind = "SERVOS"
    <3>1. num_servos' = Head(down).n
      BY <1>8, <2>3 DEF Receive
    <3>2. NoneIn(Tail(down)) => Head(down).n = s_num_servos
      BY <1>0, <2>1, <2>2, <2>3, LastTail
    <3> QED BY <2>1, <2>2, <3>1, <3>2 DEF Known
  <2>4. CASE Head(down).kind # "SERVOS"
    <3>1. num_servos' = num_servos /\ (~typed' => ~typed)
      BY <1>8, <2>4 DEF Receive
    <3>2. NoneIn(Tail(down)) => NoneIn(down)
      BY <1>0, <2>1, <2>2, <2>4, LastTail
    <3> QED BY <1>3, <2>1, <2>2, <3>1, <3>2 DEF Known
  <2> QED BY <2>3, <2>4
<1>9. CASE ReceiveEnd \/ ReceiveDies
  BY <1>9 DEF ReceiveEnd, ReceiveDies, Reached
<1>10. CASE SetNumServos
  BY <1>0, <1>10 DEF SetNumServos, Reached, Rebuilds
<1>11. CASE Accept \/ Greet
  <2>1. server'.at \in {"greet", "greeting"}
    <3>1. CASE Accept
      BY <1>0, <3>1, GotoType DEF Accept, ServerAts, InTouch
    <3>2. CASE Greet
      BY <1>0, <3>2, GreetIs
    <3> QED BY <1>11, <3>1, <3>2
  <2> QED BY <2>1 DEF Reached
<1>12. CASE RecvEnd \/ RecvFails
  <2>1. sock' = 0
    BY <1>12 DEF RecvEnd, RecvFails
  <2>2. sock' = session
    BY <1>2 DEF Reached
  <2> QED BY <1>2, <2>1, <2>2
<1>13. CASE \/ Start \/ Clear \/ AppendFound \/ Recv \/ Check \/ GetLen \/ CopyId \/ CopyEnd
            \/ Dispatch \/ DispatchEnd \/ ExecuteServo \/ Ready \/ Build \/ SendLine
            \/ Acknowledged \/ GiveUp \/ UNCHANGED vars
  <2>1. UNCHANGED <<s_num_servos, down, num_servos, typed, stale, sock, receiving>>
    BY <1>13 DEF Start, Clear, AppendFound, Recv, Check, GetLen, CopyId, CopyEnd, Dispatch,
                 DispatchEnd, ExecuteServo, Ready, Build, SendLine, Acknowledged, GiveUp, listVars,
                 vars
  <2>2. server.at \notin {"greet", "greeting"}
    <3>1. server' = server \/ server.at \notin {"greet", "greeting"}
      BY <1>13 DEF Start, Clear, AppendFound, Recv, Check, GetLen, CopyId, CopyEnd, Dispatch,
                   DispatchEnd, ExecuteServo, Ready, Build, SendLine, Acknowledged, GiveUp, vars
    <3> QED BY <3>1 DEF Reached
  <2>3. rebuild.at # "notify"
    <3>1. rebuild' = rebuild \/ rebuild.at # "notify"
      BY <1>13 DEF Start, Clear, AppendFound, Recv, Check, GetLen, CopyId, CopyEnd, Dispatch,
                   DispatchEnd, ExecuteServo, Ready, Build, SendLine, Acknowledged, GiveUp, listVars,
                   vars
    <3> QED BY <3>1 DEF Reached
  <2>4. Reached
    BY <1>2, <2>1, <2>2, <2>3 DEF Reached
  <2> QED BY <1>3, <2>1, <2>4 DEF Known
<1> QED BY <1>1, <1>2, <1>4, <1>5, <1>6, <1>7, <1>8, <1>9, <1>10, <1>11, <1>12, <1>13
        DEF Next, Rebuild, Server, HandleLine, Client, Receiver
-----------------------------------------------------------------------------
(* The invariant, and what follows from it *)

LEMMA InitIInv == Init => IInv
<1> SUFFICES ASSUME Init PROVE IInv
  OBVIOUS
<1>1. Types /\ ListOK
  BY InitTypes
<1>2. /\ server.at = "accept" /\ targets = <<>> /\ sock = 0 /\ session = 0
      /\ client.at = "off" /\ ~receiving /\ down = <<>> /\ waiting = 0
      /\ up = [s \in Sessions |-> <<>>]
  BY DEF Init, Idle, NoClient
<1>3. ~Live
  BY <1>2 DEF Live
<1>4. CommandOK
  BY <1>2 DEF CommandOK, InUse
<1>5. SessionOK /\ OneAnswerEach /\ InStep /\ OnlyAutoWaits /\ Told
  BY <1>2, <1>3 DEF SessionOK, OneAnswerEach, InStep, OnlyAutoWaits, Told
<1> QED BY <1>1, <1>4, <1>5 DEF IInv

LEMMA NextIInv == IInv /\ [Next]_vars => IInv'
<1> SUFFICES ASSUME IInv, [Next]_vars PROVE IInv'
  OBVIOUS
<1>1. Types' /\ ListOK'
  BY NextTypes DEF IInv
<1>2. CommandOK'
  BY NextCommand DEF IInv
<1>3. SessionOK'
  BY NextSession DEF IInv
<1>4. OneAnswerEach'
  BY <1>1, NextOneAnswer DEF IInv
<1>5. OnlyAutoWaits'
  BY NextOnlyAutoWaits DEF IInv
<1>6. InStep'
  BY <1>1, NextInStep DEF IInv
<1>7. Told'
  BY <1>1, NextTold DEF IInv
<1> QED BY <1>1, <1>2, <1>3, <1>4, <1>5, <1>6, <1>7 DEF IInv

\* What the list of cubes, the lines under way and what server and client
\* have in hand have in common in every state, and the theorems rest on.
THEOREM Invariance == Spec => []IInv
<1> QED BY InitIInv, NextIInv, PTL DEF Spec

\* Types, and what keeps the accesses of the code within bounds: ids_array
\* and the queue of the root's servo are never written past their ends, the
\* server has a socket while it serves a client, and the client has a number
\* of servos before it puts a line together.
THEOREM TypeCorrect == Spec => []TypeOK
<1>1. IInv => TypeOK
  BY DEF IInv, Types, ListTypes, LineTypes, ServerTypes, ClientTypes, TypeOK, Servers, ServerAts,
         InTouch
<1> QED BY <1>1, Invariance, PTL

\* handle_incoming answers every line once, OK or ERROR: whatever the server
\* is at, the lines sent without an answer are those on their way to it, the
\* one it has in hand and those whose answers are on the way back.
THEOREM OneAnswer == Spec => []OneAnswerEach
<1>1. IInv => OneAnswerEach
  BY DEF IInv
<1> QED BY <1>1, Invariance, PTL

\* The sequence of esp32_client.py waits for one event, which says nothing of
\* the line it is for: still, while the session lasts, it only goes on after
\* the OK for the line it has just sent.
THEOREM AckForStep == Spec => []AckIsForStep
<1>1. IInv => AckIsForStep
  <2> SUFFICES ASSUME IInv, client.at = "wait", ack_event, Live PROVE answered = client.step
    BY DEF AckIsForStep
  <2>1. StepOK
    BY InStepIs DEF IInv, OnlyAutoWaits
  <2> QED BY <2>1 DEF StepOK, Awaited
<1> QED BY <1>1, Invariance, PTL

\* on_connect and set_num_servos tell the client every number of servos, in
\* order: once all they sent has arrived, its number is the root's, unless it
\* was told an older one by a greeting that set_num_servos overtook.
THEOREM NumberIsKnown == Spec => []NumberKnown
<1>1. IInv => NumberKnown
  <2> SUFFICES ASSUME IInv, Reached, NoneIn(down), ~typed PROVE num_servos = s_num_servos
    BY DEF NumberKnown, Reached, NoneIn
  <2>1. Known
    BY ToldIs DEF IInv
  <2> QED BY <2>1 DEF Known
<1> QED BY <1>1, Invariance, PTL

\* convert_servo_instructions sends the first values to the root whatever
\* happens; and if the list stays as it was when the line was checked, each of
\* the others to the cube at its place, and none is left out.
THEOREM SentInOrder == Spec => SentToArm
<1> DEFINE Sent == server.at = "dispatch" =>
                      /\ targets # <<>> => targets[1] = ROOT_ID
                      /\ ~rebuilt => \A i \in DOMAIN targets : targets[i] = ids_array[i - 1]
                      /\ ~rebuilt /\ server'.at # "dispatch" => Len(targets) = server.line.n
<1>1. IInv /\ Next => Sent
  <2> SUFFICES ASSUME IInv, Next, server.at = "dispatch" PROVE Sent
    OBVIOUS
  <2>1. /\ targets \in Seq(MaybeIds) /\ server.ids \in Seq(MaybeIds) /\ server.total \in Nat
        /\ Len(server.ids) = server.total /\ Len(targets) <= server.total
        /\ \A i \in DOMAIN targets : targets[i] = server.ids[i]
    BY DEF IInv, Types, HistoryTypes, ServerTypes, Servers, CommandOK
  <2>2. DOMAIN targets = 1 .. Len(targets) /\ DOMAIN server.ids = 1 .. Len(server.ids)
    BY <2>1, LenProperties
  <2>3. \A i \in DOMAIN targets : i \in DOMAIN server.ids
    BY <2>1, <2>2
  <2>4. targets # <<>> => targets[1] = ROOT_ID
    <3>1. targets # <<>> => 1 \in DOMAIN targets
      BY <2>1, <2>2, EmptySeq
    <3>2. targets # <<>> => server.ids # <<>>
      BY <2>1, <2>2, <2>3, <3>1, EmptySeq
    <3> QED BY <2>1, <3>1, <3>2 DEF IInv, CommandOK
  <2>5. ~rebuilt => \A i \in DOMAIN targets : targets[i] = ids_array[i - 1]
    BY <2>1, <2>3 DEF IInv, CommandOK
  <2>6. server'.at # "dispatch" => DispatchEnd
    BY DEF Next, Start, Clear, Rebuild, AppendFound, SetNumServos, NotifyServos, Server,
           HandleLine, Accept, Greet, SendGreeting, Recv, RecvEnd, RecvFails, Check, Reject,
           AcceptLine, GetLen, CopyId, CopyEnd, Dispatch, ExecuteServo, Client, Connect, Ready, Ask,
           Build, SendLine, SendNowhere, Exit, Acknowledged, GiveUp, Quit, Receiver, Receive,
           ReceiveEnd, ReceiveDies, Break, serverVars
  <2>7. ~rebuilt => server.total = server.line.n
    BY DEF IInv, CommandOK, InUse
  <2>8. ~rebuilt /\ server'.at # "dispatch" => Len(targets) = server.line.n
    BY <2>6, <2>7 DEF DispatchEnd
  <2> QED BY <2>4, <2>5, <2>8
<1>2. IInv /\ [Next]_vars => [Sent]_vars
  BY <1>1
<1> QED BY <1>2, Invariance, PTL DEF Spec, SentToArm
=============================================================================
