---------------------------- MODULE UartReceive ----------------------------
(***************************************************************************)
(* How a cube finds the frames in the bytes of one UART                    *)
(* (task_receive_uart, lib/uart_code/uart.cpp): it looks for the header    *)
(* byte, reads as many bytes as a frame has, and hands the frame on if it  *)
(* ends with the footer; otherwise it starts over behind what it has read. *)
(*                                                                         *)
(* The four bytes of the footer are one byte here.  Bytes the code cannot   *)
(* tell apart carry their history as a tag, see Header and Footer.         *)
(***************************************************************************)
EXTENDS Integers, Sequences, FiniteSets, SequencesExt

CONSTANTS FrameLen,  \* sizeof(Msg)
          Patterns,  \* where the data of a frame may look like a header
          BufSize,   \* bytes the UART driver can hold, U_BUF_SIZE * 2
          MaxLost,   \* how many bytes are lost, on the wire or by an overrun
          Silent     \* the line may be silent for as long as a read waits: no
                     \* neighbour is there to send a handshake every 500 ms

ASSUME UartReceiveAssumption ==
         /\ FrameLen \in Nat /\ FrameLen > 2
         /\ \A p \in Patterns : p \subseteq 2 .. FrameLen - 1
         /\ BufSize \in Nat \ {0} /\ MaxLost \in Nat /\ Silent \in BOOLEAN

VARIABLES pattern,  \* of the frame being sent
          due,      \* the byte of it that is sent next
          whole,    \* nothing of it was lost so far
          rx,       \* what the UART driver holds
          at,       \* where the receiving task is
          buf,      \* *msg, as far as it was written: buf[1] stays there
          lost,     \* bytes lost so far
          misled,   \* (history) data was taken for a header
          missed    \* (history) frames received as a whole and not handed on,
                    \* counted up to one more than bytes can be lost

\* A header sent as such; data that looks like one; the header of a frame
\* that was given up, still in buf[1].
Header == {"H", "h", "s"}
\* The footer of a frame no byte of which was lost; that of another one.
Footer == {"F", "f"}

lineVars == <<pattern, due, whole>>
vars == <<lineVars, rx, at, buf, lost, misled, missed>>

Init == /\ pattern \in Patterns
        /\ due = 1
        /\ whole = TRUE
        /\ rx = <<>>
        /\ at = "search"
        /\ buf = <<>>
        /\ lost = 0
        /\ misled = FALSE
        /\ missed = 0
-----------------------------------------------------------------------------
(* The neighbour's task_send_uart writes one frame after the other *)

Byte == CASE due = 1 -> "H"
          [] due = FrameLen -> IF whole THEN "F" ELSE "f"
          [] OTHER -> IF due \in pattern THEN "h" ELSE "d"

Advance(ok) == IF due = FrameLen
               THEN due' = 1 /\ whole' = TRUE /\ pattern' \in Patterns
               ELSE due' = due + 1 /\ whole' = ok /\ UNCHANGED pattern

SendByte == /\ Len(rx) < BufSize
            /\ rx' = Append(rx, Byte)
            /\ Advance(whole)
            /\ UNCHANGED <<at, buf, lost, misled, missed>>

\* Damaged, unplugged, or the driver's buffer is full.  A byte that arrives
\* with other bits than were sent, which no parity would tell, is not modelled.
LoseByte == /\ lost < MaxLost
            /\ lost' = lost + 1
            /\ Advance(FALSE)
            /\ UNCHANGED <<rx, at, buf, misled, missed>>
-----------------------------------------------------------------------------
(* task_receive_uart *)

Quiet == Silent /\ rx = <<>> /\ due = 1

\* The bytes s were thrown away, or are the data of a frame.
Whole(s) == Cardinality({i \in DOMAIN s : s[i] = "F"})
Miss(s) == missed' = IF missed + Whole(s) > MaxLost THEN MaxLost + 1 ELSE missed + Whole(s)

\* One byte into buf[0], until that is the header.
Search == /\ at = "search"
          /\ rx # <<>>
          /\ buf' = <<Head(rx)>>
          /\ rx' = Tail(rx)
          /\ at' = IF Head(rx) \in Header THEN "rest" ELSE "search"
          /\ misled' = (misled \/ Head(rx) = "h")
          /\ Miss(<<Head(rx)>>)
          /\ UNCHANGED <<lineVars, lost>>

\* uart_read_bytes returns nothing, and buf[0] is tested all the same.
SearchTimeout == /\ at = "search"
                 /\ Quiet
                 /\ buf # <<>> /\ Head(buf) \in Header
                 /\ at' = "rest"
                 /\ UNCHANGED <<lineVars, rx, buf, lost, misled, missed>>

\* Mutant: one byte too many is read.
ReadRestLong == /\ at = "rest"
                /\ rx # <<>>
                /\ buf' = Append(buf, Head(rx))
                /\ rx' = Tail(rx)
                /\ at' = IF Len(buf') > FrameLen THEN "check" ELSE "rest"
                /\ UNCHANGED <<lineVars, lost, misled, missed>>

ReadRest == /\ at = "rest"
            /\ rx # <<>>
            /\ buf' = Append(buf, Head(rx))
            /\ rx' = Tail(rx)
            /\ at' = IF Len(buf') = FrameLen THEN "check" ELSE "rest"
            /\ UNCHANGED <<lineVars, lost, misled, missed>>

\* The frame is incomplete: start over.
RestTimeout == /\ at = "rest"
               /\ Quiet
               /\ at' = "search"
               /\ buf' = <<"s">>
               /\ UNCHANGED <<lineVars, rx, lost, misled, missed>>

\* Mutant: the footer is not looked at.
CheckNothing == /\ at = "check"
                /\ at' = "handover"
                /\ Miss(Front(buf))
                /\ UNCHANGED <<lineVars, rx, buf, lost, misled>>

\* Mutant: after a bad footer the next frame is taken to follow at once.
CheckNoSearch == /\ at = "check"
                 /\ IF Last(buf) \in Footer
                    THEN /\ at' = "handover"
                         /\ Miss(Front(buf))
                         /\ UNCHANGED buf
                    ELSE /\ at' = "rest"
                         /\ Miss(buf)
                         /\ buf' = <<>>
                 /\ UNCHANGED <<lineVars, rx, lost, misled>>

Check == /\ at = "check"
         /\ IF Last(buf) \in Footer
            THEN /\ at' = "handover"
                 /\ Miss(Front(buf))
                 /\ UNCHANGED buf
            ELSE /\ at' = "search"
                 /\ Miss(buf)
                 /\ buf' = <<"s">>
         /\ UNCHANGED <<lineVars, rx, lost, misled>>

\* sort_new_msg or send_msg_to_*, then a new Msg that is all zero.
HandOver == /\ at = "handover"
            /\ at' = "search"
            /\ buf' = <<>>
            /\ UNCHANGED <<lineVars, rx, lost, misled, missed>>
-----------------------------------------------------------------------------
Line == SendByte \/ LoseByte
Receive == Search \/ SearchTimeout \/ ReadRest \/ RestTimeout \/ Check \/ HandOver
Next == Line \/ Receive

\* A neighbour that is there keeps sending handshakes, and the receiving task
\* reads what there is: nothing but a full command queue blocks it.
Spec == Init /\ [][Next]_vars
FairSpec == Spec /\ WF_vars(SendByte) /\ WF_vars(Search \/ ReadRest \/ Check \/ HandOver)
-----------------------------------------------------------------------------
(* Properties *)

TypeOK == /\ pattern \in Patterns
          /\ due \in 1 .. FrameLen
          /\ whole \in BOOLEAN
          /\ rx \in Seq({"H", "h", "d"} \cup Footer) /\ Len(rx) <= BufSize
          /\ at \in {"search", "rest", "check", "handover"}
          /\ buf \in Seq(Header \cup {"d"} \cup Footer) /\ Len(buf) <= FrameLen
          /\ at = "rest" => Len(buf) \in 1 .. FrameLen - 1
          /\ lost \in 0 .. MaxLost
          /\ misled \in BOOLEAN /\ missed \in 0 .. MaxLost + 1

\* Only a loss makes the receiver take data for a header.  As long as it did
\* not, a loss costs the frame that lost the byte and at most one more for
\* each byte; without a loss no frame is missed.
LossIsLocal == IF misled THEN lost > 0 ELSE missed <= lost

\* No frame put together from parts of two, and none that lost bytes, is
\* handed on, as long as fewer bytes are lost than a frame has and the rest
\* was read behind a header: four bytes at the right distance do for a
\* checksum.  That is so of bytes that are lost; a byte of the data that was
\* altered would go unnoticed.
NoneDamaged == at = "handover" /\ buf[1] = "H"
                   => /\ Last(buf) = "F"
                      /\ \A i \in 2 .. FrameLen - 1 : buf[i] \notin Footer

\* Losing bytes does not leave the receiver out of step for good: frames get
\* through again, at least once their data no longer looks like a header.
Recovers == <>[](pattern = {}) => []<>(at = "handover" /\ Last(buf) = "F")
=============================================================================
