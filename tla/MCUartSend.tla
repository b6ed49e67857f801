----------------------------- MODULE MCUartSend -----------------------------
(***************************************************************************)
(* Small instances of UartSend: three tasks (the ping task, the handshake  *)
(* handler and one application task), one handshake and three plain        *)
(* messages, and a queue shorter than the number of messages so that it    *)
(* fills up.                                                               *)
(***************************************************************************)
EXTENDS UartSend

CONSTANTS ping, handler, app, h1, m1, m2, m3

AllTasks == {ping, handler, app}
BothLinkers == {ping, handler}
AllMsgs == {h1, m1, m2, m3}
OneHandshake == {h1}
=============================================================================
