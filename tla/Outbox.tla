------------------------------- MODULE Outbox -------------------------------
(***************************************************************************)
(* What the send path of a cube promises to the tasks that use it, with no *)
(* task, mutex or bounded queue in sight.  A message handed over is either *)
(* held until the neighbour is known or made ready for the wire.  Held     *)
(* messages become ready in the order they were held, ready messages are   *)
(* sent in the order they became ready, and no message is lost, sent twice *)
(* or made up.                                                             *)
(***************************************************************************)
EXTENDS Sequences

CONSTANTS Msgs,        \* the messages tasks may hand over
          Handshakes   \* those of type_handshake, which are never held

VARIABLES fresh,       \* not created yet
          entering,    \* handed over, neither held nor ready yet
          held,        \* waiting for the neighbour to be known
          ready,       \* waiting for the wire
          sent         \* written to the wire

vars == <<fresh, entering, held, ready, sent>>

Init == /\ fresh = Msgs
        /\ entering = {}
        /\ held = <<>>
        /\ ready = <<>>
        /\ sent = <<>>

HandOver(m) == /\ m \in fresh
               /\ fresh' = fresh \ {m}
               /\ entering' = entering \cup {m}
               /\ UNCHANGED <<held, ready, sent>>

Hold(m) == /\ m \in entering \ Handshakes
           /\ entering' = entering \ {m}
           /\ held' = Append(held, m)
           /\ UNCHANGED <<fresh, ready, sent>>

Post(m) == /\ m \in entering
           /\ entering' = entering \ {m}
           /\ ready' = Append(ready, m)
           /\ UNCHANGED <<fresh, held, sent>>

Release == /\ held # <<>>
           /\ ready' = Append(ready, Head(held))
           /\ held' = Tail(held)
           /\ UNCHANGED <<fresh, entering, sent>>

Transmit == /\ ready # <<>>
            /\ sent' = Append(sent, Head(ready))
            /\ ready' = Tail(ready)
            /\ UNCHANGED <<fresh, entering, held>>

Next == \/ \E m \in Msgs : HandOver(m) \/ Hold(m) \/ Post(m)
        \/ Release
        \/ Transmit

Spec == Init /\ [][Next]_vars
=============================================================================
