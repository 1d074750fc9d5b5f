------------------------------ MODULE TcpClient ------------------------------
(***************************************************************************)
(* The TCP client of both programs (shared/src/TcpClient.cpp): the client  *)
(* of the server, and the server's client of the AI backend.  Other        *)
(* threads post send, setServerAddress and disconnect; everything else     *)
(* runs on the I/O thread, one handler at a time, in the order in which    *)
(* the io_context made them ready.  `io' is the object with the operations *)
(* it has started; a member function is an operator on it.                 *)
(*                                                                         *)
(* Boost.Asio and the network are external: an operation that was started  *)
(* completes, or is aborted when its socket is closed, and the handler     *)
(* then waits in `ready'.  A name has one address.                         *)
(***************************************************************************)
EXTENDS Naturals, Sequences, FiniteSets, SequencesExt

CONSTANTS
    Hosts,
    FirstHost,      \* the address given to the constructor
    Reachable,      \* hosts on which a server listens
    MaxMessages,    \* bounds: messages sent,
    MaxArrivals,    \*   reads that bring something,
    MaxFaults,      \*   failures of a reachable host or of a connection,
    MaxCommands     \*   setServerAddress and disconnect

ASSUME HostsAssumption == FirstHost \in Hosts /\ Reachable \subseteq Hosts

ASSUME BoundsAssumption ==
    {MaxMessages, MaxArrivals, MaxFaults, MaxCommands} \subseteq Nat

VARIABLES
    io,          \* the TcpClient
    links,       \* what was written to each connection, latest last
    sent,        \* messages posted so far, by number
    arrivals, faults, commands,
    overtaken,   \* a command ran while something of the old connection was under way
    off          \* the latest command was disconnect

bounds == <<sent, arrivals, faults, commands>>
history == <<overtaken, off>>
vars == <<io, links, bounds, history>>

Messages == 1..MaxMessages
Outcomes == {"ok", "error", "aborted"}

(* What waits for the I/O thread: posted functions and completion handlers. *)
Handlers ==
    [op : {"send"}, msg : Messages]
    \cup [op : {"setServerAddress"}, host : Hosts]
    \cup [op : {"disconnect", "timer"}]
    \cup [op : {"resolve"}, host : Hosts, ec : Outcomes]
    \cup [op : {"connect", "read", "write"}, ec : Outcomes]

Object ==
    [ready : Seq(Handlers),
     host : Hosts, connected : BOOLEAN, writeQueue : Seq(Messages),
     lines : Nat,                   \* whole lines in readBuffer
     timer : BOOLEAN,               \* reconnectTimer is waiting
     resolving : Seq(Hosts),
     socket : {"closed", "connecting", "open", "broken"},
     peer : Hosts,
     reads : 0..1, writes : SeqOf(Messages, 1),   \* under way on the socket
     undefined : BOOLEAN]           \* behaviour from here on

TypeOK ==
    /\ io \in Object
    /\ links \in Seq(Seq(Messages))
    /\ sent \in 0..MaxMessages /\ arrivals \in 0..MaxArrivals
    /\ faults \in 0..MaxFaults /\ commands \in 0..MaxCommands
    /\ overtaken \in BOOLEAN /\ off \in BOOLEAN

----------------------------------------------------------------------------
(* The member functions, as they change the object *)

Ready(s, h) == [s EXCEPT !.ready = Append(@, h)]

Copies(n, h) == [i \in 1..n |-> h]

(* socket.close: what was started on the socket is aborted. *)
Close(s) ==
    [s EXCEPT !.socket = "closed", !.reads = 0, !.writes = <<>>,
        !.ready = @ \o Copies(s.reads, [op |-> "read", ec |-> "aborted"])
                    \o Copies(IF s.socket = "connecting" THEN 1 ELSE 0,
                              [op |-> "connect", ec |-> "aborted"])
                    \o Copies(Len(s.writes), [op |-> "write", ec |-> "aborted"])]

(* connect(): the name is looked up first. *)
Connect(s) == [s EXCEPT !.resolving = Append(@, s.host)]

(* Mutant of CheckReconnect: no new attempt. *)
CheckReconnectNever(s) == Close([s EXCEPT !.connected = FALSE])

(* expires_after cancels the wait before, whose handler then does nothing. *)
CheckReconnect(s) == [Close([s EXCEPT !.connected = FALSE]) EXCEPT !.timer = TRUE]

(* async_read_until is done at once when readBuffer holds a line.  A second one
   beside it, on the same stream and buffer, is undefined. *)
DoRead(s) ==
    IF s.reads > 0 THEN [s EXCEPT !.undefined = TRUE]
    ELSE IF s.lines > 0 THEN Ready(s, [op |-> "read", ec |-> "ok"])
    ELSE IF s.socket = "closed" THEN Ready(s, [op |-> "read", ec |-> "error"])
    ELSE [s EXCEPT !.reads = 1]

(* So is a second async_write. *)
DoWrite(s) ==
    IF s.writes # <<>> THEN [s EXCEPT !.undefined = TRUE]
    ELSE IF s.socket = "closed" THEN Ready(s, [op |-> "write", ec |-> "error"])
    ELSE [s EXCEPT !.writes = <<Head(s.writeQueue)>>]

(* Mutant of WriteIfAny: what was queued before the connection waits for the
   next send. *)
WriteIfAnyLater(s) == s

WriteIfAny(s) == IF s.writeQueue # <<>> THEN DoWrite(s) ELSE s

----------------------------------------------------------------------------
(* The handlers *)

OnSend(s, h) ==
    LET pushed == [s EXCEPT !.writeQueue = Append(@, h.msg)] IN
    IF s.writeQueue = <<>> /\ s.connected THEN DoWrite(pushed) ELSE pushed

OnDisconnect(s) ==
    [Close([s EXCEPT !.connected = FALSE]) EXCEPT !.timer = FALSE, !.writeQueue = <<>>]

OnSetServerAddress(s, h) == Connect([OnDisconnect(s) EXCEPT !.host = h.host])

(* async_connect closes the socket and opens it again. *)
OnResolve(s, h) ==
    IF h.ec = "ok"
    THEN [Close(s) EXCEPT !.socket = "connecting", !.peer = h.host]
    ELSE CheckReconnect(s)

(* A success on a socket that was closed meanwhile counts as aborted, and an
   aborted attempt as a failure. *)
OnConnect(s, h) ==
    IF h.ec = "ok" /\ s.socket # "closed"
    THEN WriteIfAny(DoRead([s EXCEPT !.connected = TRUE]))
    ELSE CheckReconnect(s)

(* Mutant of GetLine: a line is taken to be there. *)
GetLineUnchecked(s) == [s EXCEPT !.lines = @ - 1]

(* The line of this read may have gone to another. *)
GetLine(s) == [s EXCEPT !.lines = IF @ = 0 THEN 0 ELSE @ - 1]

(* Mutant of OnRead: an aborted read reconnects too. *)
OnReadHasty(s, h) ==
    IF h.ec = "ok" THEN DoRead(GetLine(s)) ELSE CheckReconnect(s)

OnRead(s, h) ==
    CASE h.ec = "ok"      -> DoRead(GetLine(s))
      [] h.ec = "aborted" -> s
      [] OTHER            -> CheckReconnect(s)

(* pop() of an empty queue has no defined outcome. *)
Pop(s) ==
    IF s.writeQueue = <<>> THEN [s EXCEPT !.undefined = TRUE]
    ELSE WriteIfAny([s EXCEPT !.writeQueue = Tail(@)])

(* Mutant of OnWrite: the pop before the look at the error. *)
OnWritePopFirst(s, h) ==
    LET popped == IF s.writeQueue = <<>> THEN s ELSE [s EXCEPT !.writeQueue = Tail(@)] IN
    CASE h.ec = "ok"      -> Pop(s)
      [] h.ec = "aborted" -> s
      [] OTHER            -> CheckReconnect(popped)

OnWrite(s, h) ==
    CASE h.ec = "ok"      -> Pop(s)
      [] h.ec = "aborted" -> s
      [] OTHER            -> CheckReconnect(s)

Handled(s, h) ==
    CASE h.op = "send"             -> OnSend(s, h)
      [] h.op = "disconnect"       -> OnDisconnect(s)
      [] h.op = "setServerAddress" -> OnSetServerAddress(s, h)
      [] h.op = "resolve"          -> OnResolve(s, h)
      [] h.op = "connect"          -> OnConnect(s, h)
      [] h.op = "read"             -> OnRead(s, h)
      [] h.op = "write"            -> OnWrite(s, h)
      [] h.op = "timer"            -> Connect(s)

IsCommand(h) == h.op \in {"setServerAddress", "disconnect"}

(* Completions, but for aborted reads and writes, which do nothing. *)
CallsBack(h) ==
    \/ h.op \in {"timer", "resolve", "connect"}
    \/ h.op \in {"read", "write"} /\ h.ec # "aborted"

(* Nothing of the connection so far can still call back. *)
Settled(s) ==
    /\ s.resolving = <<>> /\ s.socket # "connecting"
    /\ \A i \in DOMAIN s.ready : ~CallsBack(s.ready[i])

(* The I/O thread runs what is first in line; there is no going on from
   undefined behaviour. *)
RunHandler ==
    /\ io.ready # <<>> /\ ~io.undefined
    /\ LET h == Head(io.ready)
           s == [io EXCEPT !.ready = Tail(@)]
       IN  /\ io' = Handled(s, h)
           /\ overtaken' = (overtaken \/ (IsCommand(h) /\ ~Settled(s)))
           /\ off' = IF IsCommand(h) THEN h.op = "disconnect" ELSE off
    /\ UNCHANGED <<links, bounds>>

----------------------------------------------------------------------------
(* Other threads *)

Send ==
    /\ sent < MaxMessages
    /\ sent' = sent + 1
    /\ io' = Ready(io, [op |-> "send", msg |-> sent + 1])
    /\ UNCHANGED <<links, arrivals, faults, commands, history>>

Command ==
    /\ commands < MaxCommands
    /\ commands' = commands + 1
    /\ \/ io' = Ready(io, [op |-> "disconnect"])
       \/ \E h \in Hosts : io' = Ready(io, [op |-> "setServerAddress", host |-> h])
    /\ UNCHANGED <<links, sent, arrivals, faults, history>>

----------------------------------------------------------------------------
(* Operations that complete *)

Fault == faults < MaxFaults /\ faults' = faults + 1

Resolved ==
    /\ io.resolving # <<>>
    /\ \E ec \in {"ok", "error"} :
          /\ IF ec = "ok" THEN UNCHANGED faults ELSE Fault
          /\ io' = Ready([io EXCEPT !.resolving = Tail(@)],
                         [op |-> "resolve", host |-> Head(io.resolving), ec |-> ec])
    /\ UNCHANGED <<links, sent, arrivals, commands, history>>

Accepted ==
    /\ io.socket = "connecting" /\ io.peer \in Reachable
    /\ io' = Ready([io EXCEPT !.socket = "open"], [op |-> "connect", ec |-> "ok"])
    /\ links' = Append(links, <<>>)
    /\ UNCHANGED <<bounds, history>>

Refused ==
    /\ io.socket = "connecting"
    /\ IF io.peer \in Reachable THEN Fault ELSE UNCHANGED faults
    /\ io' = Ready([io EXCEPT !.socket = "broken"], [op |-> "connect", ec |-> "error"])
    /\ UNCHANGED <<links, sent, arrivals, commands, history>>

(* A read brings one line, or two at once. *)
Arrives ==
    /\ io.socket = "open" /\ io.reads = 1 /\ arrivals < MaxArrivals
    /\ arrivals' = arrivals + 1
    /\ \E n \in 1..2 :
          io' = Ready([io EXCEPT !.reads = 0, !.lines = @ + n],
                      [op |-> "read", ec |-> "ok"])
    /\ UNCHANGED <<links, sent, faults, commands, history>>

(* A write succeeds, also into a connection whose other end is gone. *)
Transmitted ==
    /\ io.socket \in {"open", "broken"} /\ io.writes # <<>> /\ links # <<>>
    /\ io' = Ready([io EXCEPT !.writes = Tail(@)], [op |-> "write", ec |-> "ok"])
    /\ links' = [links EXCEPT ![Len(links)] = Append(@, Head(io.writes))]
    /\ UNCHANGED <<bounds, history>>

Breaks ==
    /\ io.socket = "open" /\ Fault
    /\ io' = [io EXCEPT !.socket = "broken"]
    /\ UNCHANGED <<links, sent, arrivals, commands, history>>

(* On a broken connection the read fails, and the write too, one by one; on
   some systems they may fail while the connection is being made. *)
Fails ==
    /\ \/ io.socket = "broken" /\ UNCHANGED faults
       \/ io.socket = "connecting" /\ Fault
    /\ \/ /\ io.reads = 1
          /\ io' = Ready([io EXCEPT !.reads = 0], [op |-> "read", ec |-> "error"])
       \/ /\ io.writes # <<>>
          /\ io' = Ready([io EXCEPT !.writes = Tail(@)], [op |-> "write", ec |-> "error"])
    /\ UNCHANGED <<links, sent, arrivals, commands, history>>

(* The I/O thread is never three seconds behind. *)
TimerFires ==
    /\ io.timer /\ io.ready = <<>>
    /\ io' = Ready([io EXCEPT !.timer = FALSE], [op |-> "timer"])
    /\ UNCHANGED <<links, bounds, history>>

----------------------------------------------------------------------------
(* The constructor calls connect(). *)
Init ==
    /\ io = Connect([ready |-> <<>>, host |-> FirstHost, connected |-> FALSE,
                     writeQueue |-> <<>>, lines |-> 0, timer |-> FALSE,
                     resolving |-> <<>>, socket |-> "closed", peer |-> FirstHost,
                     reads |-> 0, writes |-> <<>>, undefined |-> FALSE])
    /\ links = <<>>
    /\ sent = 0 /\ arrivals = 0 /\ faults = 0 /\ commands = 0
    /\ overtaken = FALSE /\ off = FALSE

Completes == Resolved \/ Accepted \/ Refused \/ Transmitted \/ Fails \/ TimerFires

Next == RunHandler \/ Send \/ Command \/ Completes \/ Arrives \/ Breaks

(* The I/O thread runs, and an operation that was started completes. *)
Fairness ==
    /\ WF_vars(RunHandler)
    /\ WF_vars(Resolved) /\ WF_vars(Accepted) /\ WF_vars(Refused)
    /\ WF_vars(Transmitted) /\ WF_vars(Fails) /\ WF_vars(TimerFires)

Spec == Init /\ [][Next]_vars /\ Fairness

----------------------------------------------------------------------------
(* Properties *)

(* Boost.Asio allows one async_write and one async_read_until at a time on a
   stream, and writeQueue is popped by the write of its front.  However the
   connection breaks and whoever sends meanwhile, the object keeps to that,
   unless a command overtook the connection before. *)
Defined == ~overtaken => ~io.undefined

Written == \E i \in DOMAIN io.ready : io.ready[i] = [op |-> "write", ec |-> "ok"]

LQ == INSTANCE LineQueue WITH
        queue   <- io.writeQueue,
        written <- Written

(* Lines go out as LineQueue says, with the same exception. *)
KeepsOrder == [][overtaken' \/ LQ!Next \/ UNCHANGED LQ!vars]_vars

Established ==
    io.connected /\ io.socket = "open" /\ io.peer = io.host /\ io.reads = 1

(* A client whose last command was not to disconnect ends up connected to the
   server of its choice, once and for all, although attempts abort each other
   and handlers of old connections fail late ... *)
ServerWanted == <>[](~off /\ io.host \in Reachable)

ReachesTheServer == ServerWanted => <>[](Established \/ io.undefined)

(* ... and with nothing left to send. *)
QueueEmpties == ServerWanted => <>[](io.writeQueue = <<>> \/ io.undefined)

----------------------------------------------------------------------------
(* The inductive invariant behind Defined and KeepsOrder *)

Waits(s, op) == \E i \in DOMAIN s.ready : s.ready[i].op = op /\ CallsBack(s.ready[i])

(* No operation calls back twice. *)
OnceEach(s) ==
    \A i, j \in DOMAIN s.ready :
        /\ CallsBack(s.ready[i]) /\ CallsBack(s.ready[j])
        /\ s.ready[i].op = s.ready[j].op
        => i = j

Stages == {"off", "waiting", "woken", "resolving", "resolved", "connecting", "answered",
           "connected"}

(* What is under way is what the stage says, if anything is. *)
At(s, stage) ==
    /\ s.timer => stage = "waiting"
    /\ Waits(s, "timer") => stage = "woken"
    /\ s.resolving # <<>> => stage = "resolving" /\ Len(s.resolving) = 1
    /\ Waits(s, "resolve") => stage = "resolved"
    /\ s.socket = "connecting" => stage = "connecting"
    /\ Waits(s, "connect") => stage = "answered"
    /\ s.connected => stage = "connected"

(* The socket is in use while there is a connection, or one that the object
   has not heard of; one that failed may call back until the timer fires. *)
SocketFits(s) ==
    /\ s.socket \in {"open", "broken"} <=> s.connected \/ Waits(s, "connect")
    /\ s.reads = 1 \/ s.writes # <<>> => s.connected
    /\ Waits(s, "read") \/ Waits(s, "write") => s.connected \/ s.timer

(* One read and one write at a time, and that of the front of the queue. *)
OneOperation(s) ==
    /\ s.reads = 1 => ~Waits(s, "read")
    /\ s.writes # <<>> =>
          ~Waits(s, "write") /\ s.writeQueue # <<>> /\ Head(s.writes) = Head(s.writeQueue)
    /\ Waits(s, "write") => s.writeQueue # <<>>

Orderly(s) ==
    /\ OnceEach(s) /\ (\E stage \in Stages : At(s, stage))
    /\ SocketFits(s) /\ OneOperation(s) /\ ~s.undefined

Inv == TypeOK /\ (~overtaken => Orderly(io))
=============================================================================
