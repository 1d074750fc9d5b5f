------------------------------ MODULE LineQueue ------------------------------
(***************************************************************************)
(* What TcpClient promises the owner of a connection about the lines given *)
(* to send: they go out in order, one at a time, none is left out, and     *)
(* only the front is written again, on a new connection, when the write    *)
(* is not known to have succeeded.  A change of address drops them all.    *)
(***************************************************************************)
EXTENDS Naturals, Sequences

CONSTANT Messages

VARIABLES
    queue,       \* accepted, and not known to be written
    written,     \* its front has been written to the latest connection
    links        \* what was written to each connection, latest last

vars == <<queue, written, links>>

Init == queue = <<>> /\ written = FALSE /\ links = <<>>

Post ==
    /\ \E m \in Messages : queue' = Append(queue, m)
    /\ UNCHANGED <<written, links>>

Write ==
    /\ links # <<>> /\ queue # <<>> /\ ~written
    /\ links' = [links EXCEPT ![Len(links)] = Append(@, Head(queue))]
    /\ written' = TRUE
    /\ UNCHANGED queue

Pop ==
    /\ written
    /\ queue' = Tail(queue)
    /\ written' = FALSE
    /\ UNCHANGED links

Open ==
    /\ links' = Append(links, <<>>)
    /\ written' = FALSE
    /\ UNCHANGED queue

Drop ==
    /\ queue' = <<>> /\ written' = FALSE
    /\ UNCHANGED links

Next == Post \/ Write \/ Pop \/ Open \/ Drop
=============================================================================
