----------------------------- MODULE TcpClientMC -----------------------------
(* Model checking of TcpClient: a program that starts with the address of a
   server nobody runs, and may choose another. *)
EXTENDS TcpClient

CONSTANTS local, public
=============================================================================
