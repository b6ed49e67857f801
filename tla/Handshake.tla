----------------------------- MODULE Handshake -----------------------------
(***************************************************************************)
(* One link of the chain: the cube above it (Upper, whose SLAVE_ID is at   *)
(* stake) and the cubes a user may plug below it (whose MASTER_ID is),     *)
(* lib/uart_code/handle_handshake.cpp.                                     *)
(*                                                                         *)
(* Each end of the link runs a ping task (task_ping_slave above,           *)
(* task_ping_master below) and task_handle_handshakes, of which only the   *)
(* part for this link is here.  The two directions are the same code with  *)
(* other names: type_MtS and type_StM are "ping", their acks "ack".  The   *)
(* ping task and the handler share received, last_ack and the peer id      *)
(* without any lock.                                                       *)
(*                                                                         *)
(* Time: an answer takes milliseconds, the wait 500 ms.  A wait runs out   *)
(* with an answer still under way only MaxLate times; a frame is lost or a *)
(* cube plugged or unplugged only MaxTroubles times in all.                *)
(***************************************************************************)
EXTENDS Naturals, Sequences, FiniteSets, SequencesExt

CONSTANTS Upper,        \* the cube above the link
          Cubes,        \* the cubes that may be plugged below
          Kits,         \* what a user may have at hand: some cubes, those of them
                        \* that stay powered when unplugged, and the one that is
                        \* plugged when the arm is switched on, if any, and
                        \* whether frames get lost
          None,         \* UNKNOWN_ID, no cube
          MaxTroubles, MaxLate

ASSUME HandshakeAssumption ==
         /\ Upper \notin Cubes
         /\ None \notin Cubes \cup {Upper}
         /\ \A k \in Kits : /\ k.own \subseteq k.cubes /\ k.cubes \subseteq Cubes
                            /\ k.plugged \in k.cubes \cup {None} /\ k.lossy \in BOOLEAN
         /\ MaxTroubles \in Nat /\ MaxLate \in Nat

Ends == {Upper} \cup Cubes

VARIABLES kit,        \* what the user has at hand
          attached,   \* the cube plugged below Upper
          inbox,      \* handshakes under way to each end, and in h_queue_handshake
          peer,       \* SLAVE_ID of Upper, MASTER_ID of a cube
          received,   \* received_MtS_ack, received_StM_ack
          last_ack,   \* last_MtS_ack_sender_id, last_StM_ack_sender_id
          notified,   \* the ping task has a notification pending
          ping_pc,    \* where the ping task is, "off" in a cube without power
          when_sent,  \* ..._ID_WHEN_I_SENT_THE_MESSAGE
          handler,    \* where the handler is, and the sender it deals with
          snap,       \* the report each task of an end has built, not sent yet
          reported,   \* the last report of each end sent towards the root
          raced,      \* (history) its other task was reporting, too, when a
                      \* task of this end last began to
          disturbed,  \* (history) the link was, since this end's last ping
          troubles, late

userVars == <<kit, attached>>
ackVars == <<received, last_ack, notified>>
nodeVars == <<peer, ackVars, ping_pc, when_sent, handler, snap>>
reportVars == <<reported, raced>>
budgets == <<troubles, late>>
vars == <<userVars, inbox, nodeVars, reportVars, disturbed, budgets>>

Idle == [at |-> "idle", from |-> None]
NoSnap == [ping |-> None, handler |-> None]

Init == /\ kit \in Kits
        /\ attached = kit.plugged
        /\ inbox = [e \in Ends |-> <<>>]
        /\ peer = [e \in Ends |-> None]
        /\ received = [e \in Ends |-> FALSE]
        /\ last_ack = [e \in Ends |-> None]
        /\ notified = [e \in Ends |-> FALSE]
        /\ ping_pc = [e \in Ends |-> IF e \in {Upper, attached} \cup kit.own
                                   THEN "reset" ELSE "off"]
        /\ when_sent = [e \in Ends |-> None]
        /\ handler = [e \in Ends |-> Idle]
        /\ snap = [e \in Ends |-> NoSnap]
        /\ reported = [e \in Ends |-> None]
        /\ raced = [e \in Ends |-> FALSE]
        /\ disturbed = [e \in Ends |-> TRUE]
        /\ troubles = 0 /\ late = 0

\* The end a frame sent by e reaches, None if nobody is there.
Other(e) == CASE e = Upper -> attached
              [] e = attached -> Upper
              [] OTHER -> None

\* What is under way once e has sent a handshake, box being so before.
Sent(box, e, k) ==
    IF Other(e) = None THEN box
    ELSE [box EXCEPT ![Other(e)] = Append(@, [kind |-> k, from |-> e])]

Heads(e, k) == inbox[e] # <<>> /\ Head(inbox[e]).kind = k
Has(e, k) == \E i \in DOMAIN inbox[e] : inbox[e][i].kind = k
-----------------------------------------------------------------------------
(* send_report_to_root, as task k ("ping" or "handler") of e runs it: it    *)
(* copies the ids into a payload, then hands the report on, in a message   *)
(* or, at the root, to receive_new_report.  Of the ids the report carries, *)
(* here is the one this link decides.  A cube below a link with no known   *)
(* master sends none; Upper is the root or knows its own master.           *)

Snapshot(e, k) == snap' = [snap EXCEPT ![e][k] = peer[e]]
Deferred(e) == e # Upper /\ peer[e] = None
Reporting(e, k) == IF k = "ping" THEN ping_pc[e] \in {"snap", "post"}
                                 ELSE handler[e].at \in {"snap", "post"}
Begin(e, other) == raced' = [raced EXCEPT ![e] = Reporting(e, other)]
Post(e, k) == /\ reported' = [reported EXCEPT ![e] = snap[e][k]]
              /\ snap' = [snap EXCEPT ![e][k] = None]
              /\ UNCHANGED raced
-----------------------------------------------------------------------------
(* task_ping_slave and task_ping_master; the 500 ms vTaskDelay that ends a *)
(* round is the time that passes before PingReset.                         *)

\* Mutant: the flag of the previous round is not cleared.
PingResetKept(e) == /\ ping_pc[e] = "reset"
                    /\ ping_pc' = [ping_pc EXCEPT ![e] = "send"]
                    /\ UNCHANGED <<userVars, inbox, peer, ackVars, when_sent, handler, snap,
                                   reportVars, disturbed, budgets>>

PingReset(e) == /\ ping_pc[e] = "reset"
                /\ received' = [received EXCEPT ![e] = FALSE]
                /\ ping_pc' = [ping_pc EXCEPT ![e] = "send"]
                /\ UNCHANGED <<userVars, inbox, peer, last_ack, notified, when_sent, handler,
                               snap, reportVars, disturbed, budgets>>

PingSend(e) == /\ ping_pc[e] = "send"
               /\ when_sent' = [when_sent EXCEPT ![e] = peer[e]]
               /\ inbox' = Sent(inbox, e, "ping")
               /\ ping_pc' = [ping_pc EXCEPT ![e] = "wait"]
               /\ disturbed' = [disturbed EXCEPT ![e] = Other(e) = None]
               /\ UNCHANGED <<userVars, peer, ackVars, handler, snap, reportVars, budgets>>

\* Mutant: ulTaskNotifyTake does not clear the notification.
NotifyTakeKept(e) == /\ ping_pc[e] = "wait"
                     /\ notified[e]
                     /\ ping_pc' = [ping_pc EXCEPT ![e] = "decide"]
                     /\ UNCHANGED <<userVars, inbox, peer, ackVars, when_sent, handler, snap,
                                    reportVars, disturbed, budgets>>

\* ulTaskNotifyTake(pdTRUE, ...) returns at once if a notification is
\* pending, whichever ping it answers.
NotifyTake(e) == /\ ping_pc[e] = "wait"
                 /\ notified[e]
                 /\ notified' = [notified EXCEPT ![e] = FALSE]
                 /\ ping_pc' = [ping_pc EXCEPT ![e] = "decide"]
                 /\ UNCHANGED <<userVars, inbox, peer, received, last_ack, when_sent, handler,
                                snap, reportVars, disturbed, budgets>>

\* An answer to e is under way: its ping has yet to be answered, or the
\* answer has yet to be told to the ping task.
AnswerComing(e) == \/ Has(e, "ack") \/ handler[e].at = "notify"
                   \/ Other(e) # None /\ Has(Other(e), "ping")

Timeout(e) == /\ ping_pc[e] = "wait"
              /\ ~notified[e]
              /\ IF AnswerComing(e) THEN late < MaxLate /\ late' = late + 1
                                    ELSE UNCHANGED late
              /\ ping_pc' = [ping_pc EXCEPT ![e] = "decide"]
              /\ UNCHANGED <<userVars, inbox, peer, ackVars, when_sent, handler, snap, reportVars,
                             disturbed, troubles>>

PingDecide(e) ==
    /\ ping_pc[e] = "decide"
    /\ ping_pc' = [ping_pc EXCEPT ![e] =
           CASE received[e] /\ last_ack[e] # peer[e]     -> "found"
             [] ~received[e] /\ when_sent[e] # None      -> "lost"
             [] OTHER                                    -> "reset"]
    /\ UNCHANGED <<userVars, inbox, peer, ackVars, when_sent, handler, snap, reportVars,
                   disturbed, budgets>>

\* Then the buffered messages are flushed (UartSend) and the root told.
PingFound(e) == /\ ping_pc[e] = "found"
                /\ peer' = [peer EXCEPT ![e] = last_ack[e]]
                /\ ping_pc' = [ping_pc EXCEPT ![e] = "snap"]
                /\ Begin(e, "handler")
                /\ UNCHANGED <<userVars, inbox, ackVars, when_sent, handler, snap, reported,
                               disturbed, budgets>>

\* A cube that lost its master has nobody to tell.
PingLost(e) == /\ ping_pc[e] = "lost"
               /\ peer' = [peer EXCEPT ![e] = None]
               /\ ping_pc' = [ping_pc EXCEPT ![e] = IF e = Upper THEN "snap" ELSE "reset"]
               /\ IF e = Upper THEN Begin(e, "handler") ELSE UNCHANGED raced
               /\ UNCHANGED <<userVars, inbox, ackVars, when_sent, handler, snap, reported,
                              disturbed, budgets>>

PingSnapshot(e) == /\ ping_pc[e] = "snap"
                   /\ IF Deferred(e) THEN UNCHANGED snap ELSE Snapshot(e, "ping")
                   /\ ping_pc' = [ping_pc EXCEPT ![e] = IF Deferred(e) THEN "reset" ELSE "post"]
                   /\ UNCHANGED <<userVars, inbox, peer, ackVars, when_sent, handler, reportVars,
                                  disturbed, budgets>>

PingPost(e) == /\ ping_pc[e] = "post"
               /\ Post(e, "ping")
               /\ ping_pc' = [ping_pc EXCEPT ![e] = "reset"]
               /\ UNCHANGED <<userVars, inbox, peer, ackVars, when_sent, handler,
                              disturbed, budgets>>
-----------------------------------------------------------------------------
(* task_handle_handshakes *)

\* Mutant: only a ping of a new neighbour is answered.
HandlePingOnce(e) ==
    /\ handler[e] = Idle
    /\ Heads(e, "ping")
    /\ LET from == Head(inbox[e]).from  rest == [inbox EXCEPT ![e] = Tail(@)] IN
       /\ inbox' = IF from = peer[e] THEN rest ELSE Sent(rest, e, "ack")
       /\ handler' = [handler EXCEPT ![e] = [at |-> "adopt", from |-> from]]
    /\ UNCHANGED <<userVars, peer, ackVars, ping_pc, when_sent, snap, reportVars, disturbed, budgets>>

\* A ping is answered before its sender is compared with the peer.
HandlePing(e) == /\ handler[e] = Idle
                 /\ Heads(e, "ping")
                 /\ inbox' = Sent([inbox EXCEPT ![e] = Tail(@)], e, "ack")
                 /\ handler' = [handler EXCEPT ![e] = [at |-> "adopt", from |-> Head(inbox[e]).from]]
                 /\ UNCHANGED <<userVars, peer, ackVars, ping_pc, when_sent, snap, reportVars,
                                disturbed, budgets>>

\* Mutant: the root is not told of the new neighbour.
AdoptSilent(e) == /\ handler[e].at = "adopt"
                  /\ peer' = [peer EXCEPT ![e] = handler[e].from]
                  /\ handler' = [handler EXCEPT ![e] = Idle]
                  /\ UNCHANGED <<userVars, inbox, ackVars, ping_pc, when_sent, snap, reportVars,
                                 disturbed, budgets>>

Adopt(e) == /\ handler[e].at = "adopt"
            /\ peer' = [peer EXCEPT ![e] = handler[e].from]
            /\ IF peer[e] = handler[e].from
               THEN /\ handler' = [handler EXCEPT ![e] = Idle]
                    /\ UNCHANGED raced
               ELSE /\ handler' = [handler EXCEPT ![e].at = "snap"]
                    /\ Begin(e, "ping")
            /\ UNCHANGED <<userVars, inbox, ackVars, ping_pc, when_sent, snap, reported,
                           disturbed, budgets>>

HandlerSnapshot(e) ==
    /\ handler[e].at = "snap"
    /\ IF Deferred(e) THEN UNCHANGED snap ELSE Snapshot(e, "handler")
    /\ handler' = [handler EXCEPT ![e] = IF Deferred(e) THEN Idle ELSE [@ EXCEPT !.at = "post"]]
    /\ UNCHANGED <<userVars, inbox, peer, ackVars, ping_pc, when_sent, reportVars,
                   disturbed, budgets>>

HandlerPost(e) == /\ handler[e].at = "post"
                  /\ Post(e, "handler")
                  /\ handler' = [handler EXCEPT ![e] = Idle]
                  /\ UNCHANGED <<userVars, inbox, peer, ackVars, ping_pc, when_sent,
                                 disturbed, budgets>>

\* Mutant: the id is taken from the message's target instead of its sender.
HandleAckTarget(e) ==
    /\ handler[e] = Idle
    /\ Heads(e, "ack")
    /\ last_ack' = [last_ack EXCEPT ![e] = e]
    /\ received' = [received EXCEPT ![e] = TRUE]
    /\ inbox' = [inbox EXCEPT ![e] = Tail(@)]
    /\ handler' = [handler EXCEPT ![e].at = "notify"]
    /\ UNCHANGED <<userVars, peer, notified, ping_pc, when_sent, snap, reportVars,
                   disturbed, budgets>>

HandleAck(e) == /\ handler[e] = Idle
                /\ Heads(e, "ack")
                /\ last_ack' = [last_ack EXCEPT ![e] = Head(inbox[e]).from]
                /\ received' = [received EXCEPT ![e] = TRUE]
                /\ inbox' = [inbox EXCEPT ![e] = Tail(@)]
                /\ handler' = [handler EXCEPT ![e].at = "notify"]
                /\ UNCHANGED <<userVars, peer, notified, ping_pc, when_sent, snap, reportVars,
                               disturbed, budgets>>

\* xTaskNotifyGive
Notify(e) == /\ handler[e].at = "notify"
             /\ notified' = [notified EXCEPT ![e] = TRUE]
             /\ handler' = [handler EXCEPT ![e] = Idle]
             /\ UNCHANGED <<userVars, inbox, peer, received, last_ack, ping_pc, when_sent, snap,
                            reportVars, disturbed, budgets>>
-----------------------------------------------------------------------------
(* The user and the wire *)

\* An unplugged cube loses its power unless it has its own, and with it all
\* it knows; it starts again when it is plugged.
Detach ==
    /\ attached # None
    /\ troubles < MaxTroubles
    /\ attached' = None
    /\ troubles' = troubles + 1
    /\ LET Reset(f, v) == IF attached \in kit.own THEN f ELSE [f EXCEPT ![attached] = v] IN
       /\ inbox' = Reset(inbox, <<>>)
       /\ peer' = Reset(peer, None)
       /\ received' = Reset(received, FALSE)
       /\ last_ack' = Reset(last_ack, None)
       /\ notified' = Reset(notified, FALSE)
       /\ ping_pc' = Reset(ping_pc, "off")
       /\ when_sent' = Reset(when_sent, None)
       /\ handler' = Reset(handler, Idle)
       /\ snap' = Reset(snap, NoSnap)
    /\ disturbed' = [e \in Ends |-> TRUE]
    /\ UNCHANGED <<kit, reportVars, late>>

\* Plugging a cube takes longer than dealing with what was received before.
Attach(c) == /\ attached = None /\ c \in kit.cubes
             /\ troubles < MaxTroubles
             /\ \A e \in {Upper, c} : inbox[e] = <<>> /\ handler[e] = Idle
             /\ attached' = c
             /\ troubles' = troubles + 1
             /\ ping_pc' = [ping_pc EXCEPT ![c] = IF @ = "off" THEN "reset" ELSE @]
             /\ disturbed' = [e \in Ends |-> TRUE]
             /\ UNCHANGED <<kit, inbox, peer, ackVars, when_sent, handler, snap, reportVars, late>>

\* A frame is damaged or overruns a buffer.
LoseFrame(e) == /\ kit.lossy
                /\ troubles < MaxTroubles
                /\ \E i \in DOMAIN inbox[e] : inbox' = [inbox EXCEPT ![e] = RemoveAt(@, i)]
                /\ troubles' = troubles + 1
                /\ disturbed' = [x \in Ends |-> TRUE]
                /\ UNCHANGED <<userVars, nodeVars, reportVars, late>>
-----------------------------------------------------------------------------
PingWait(e) == NotifyTake(e) \/ Timeout(e)
PingReport(e) == PingSnapshot(e) \/ PingPost(e)
Ping(e) == PingReset(e) \/ PingSend(e) \/ PingWait(e) \/ PingDecide(e)
             \/ PingFound(e) \/ PingLost(e) \/ PingReport(e)
Handle(e) == HandlePing(e) \/ Adopt(e) \/ HandlerSnapshot(e) \/ HandlerPost(e)
               \/ HandleAck(e) \/ Notify(e)

Next == \/ \E e \in Ends : Ping(e) \/ Handle(e) \/ LoseFrame(e)
        \/ \E c \in Cubes : Attach(c)
        \/ Detach

\* Both tasks of a powered cube keep running: the handler has the highest
\* priority, and the ping task only ever waits with a timeout.
Fairness == \A e \in Ends : WF_vars(Ping(e)) /\ WF_vars(Handle(e))

Spec == Init /\ [][Next]_vars
FairSpec == Spec /\ Fairness
-----------------------------------------------------------------------------
(* Properties *)

TypeOK == /\ kit \in Kits
          /\ attached \in kit.cubes \cup {None}
          /\ inbox \in [Ends -> Seq([kind : {"ping", "ack"}, from : Ends])]
          /\ peer \in [Ends -> Ends \cup {None}]
          /\ peer[Upper] \in Cubes \cup {None}
          /\ \A c \in Cubes : peer[c] \in {Upper, None}
          /\ received \in [Ends -> BOOLEAN]
          /\ last_ack \in [Ends -> Ends \cup {None}]
          /\ notified \in [Ends -> BOOLEAN]
          /\ ping_pc \in [Ends -> {"off", "reset", "send", "wait", "decide", "found",
                                    "lost", "snap", "post"}]
          /\ when_sent \in [Ends -> Ends \cup {None}]
          /\ handler \in [Ends -> [at : {"idle", "adopt", "snap", "post", "notify"},
                                    from : Ends \cup {None}]]
          /\ snap \in [Ends -> [ping : Ends \cup {None}, handler : Ends \cup {None}]]
          /\ reported \in [Ends -> Ends \cup {None}]
          /\ raced \in [Ends -> BOOLEAN]
          /\ disturbed \in [Ends -> BOOLEAN]
          /\ troubles \in 0 .. MaxTroubles /\ late \in 0 .. MaxLate

\* An answer is never paired with the wrong ping: as long as every answer
\* comes before its wait is over, at most one ping or answer of an end is
\* under way, and none outside the wait.
Count(e, k) == Cardinality({i \in DOMAIN inbox[e] : inbox[e][i].kind = k})
Pending(e) == Count(e, "ack") + (IF handler[e].at = "notify" THEN 1 ELSE 0)
                + (IF notified[e] THEN 1 ELSE 0)
                + (IF Other(e) = None THEN 0 ELSE Count(Other(e), "ping"))
OneOutstanding == late = 0 =>
    \A e \in Ends : Pending(e) <= IF ping_pc[e] = "wait" THEN 1 ELSE 0

\* A neighbour is only given up if, since the ping it left unanswered, the
\* link was touched or a frame was lost.
DropsAreDue == [][\A e \in Ends : PingLost(e) => disturbed[e]]_vars

\* handle_handshake.cpp 28-30: no stale report overwrites a fresher one at
\* the root.  Unless both tasks of an end were reporting at once, the last
\* report of an end that reports tells its neighbour, whoever found or lost it.
RootUpToDate ==
    \A e \in Ends : ~raced[e] /\ ~Reporting(e, "ping") /\ ~Reporting(e, "handler") /\ ~Deferred(e)
                       => reported[e] = peer[e]

\* Once the user leaves a cube plugged, both ends know each other, for good;
\* every behaviour of the model comes to that, or to an arm that is left
\* unplugged, as troubles are bounded.
Converges == <>[](attached # None => peer[Upper] = attached /\ peer[attached] = Upper)

\* Once a cube is unplugged for good the other end forgets it, and so does
\* the cube, if it has power.
Forgets == <>[](/\ attached = None => peer[Upper] = None
                /\ \A c \in kit.own \ {attached} : peer[c] = None)
=============================================================================
