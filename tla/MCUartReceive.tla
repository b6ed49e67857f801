--------------------------- MODULE MCUartReceive ---------------------------
(***************************************************************************)
(* Small instances of UartReceive: frames of four bytes, fewer bytes lost  *)
(* than a frame has, a buffer that can overrun.                            *)
(***************************************************************************)
EXTENDS UartReceive

Aliases == {{}, {3}}
=============================================================================
