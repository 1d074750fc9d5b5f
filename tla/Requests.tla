------------------------------ MODULE Requests ------------------------------
(***************************************************************************)
(* Requests of one StudySync client                                        *)
(* (client/src/ClientNetworkManager.cpp): sendRequest, which any thread    *)
(* runs (the GUI thread, or a callback on the I/O thread or on a timer     *)
(* thread that sends a request of its own), the detached timer thread of   *)
(* each request, and onMessageReceived on the I/O thread of the TcpClient, *)
(* all meeting in pending_requests_.                                       *)
(*                                                                         *)
(* The TcpClient (shared/src/TcpClient.cpp) is its write queue, whose      *)
(* front stays until the write is known to have succeeded.  A connection   *)
(* may break at any time with any part of its data lost, but what reached  *)
(* the server is still served.  A call stands for one sendRequest.         *)
(***************************************************************************)
EXTENDS Integers, Sequences, FiniteSets

CONSTANTS
    Calls,
    NoCall,
    MaxLinks        \* bound on the connections made

ASSUME CallsAssumption == IsFiniteSet(Calls) /\ NoCall \notin Calls

ASSUME LinksAssumption == MaxLinks \in Nat

VARIABLES
    stage,       \* how far sendRequest has come for each call
    id,          \* the reqId of each call
    nextRequestId,
    pending,     \* pending_requests_
    timer,       \* the timer thread of each call
    timingOut,   \* the callback a timer thread has taken
    replying,    \* the callback the I/O thread has taken, and the reply
    ends,        \* outcomes given to each call's callback
    owned,       \* a ServerAPI holds the manager
    outbox,      \* TcpClient::writeQueue
    written,     \* its front is on the wire, the write handler has not run
    link,        \* number of the latest connection
    connected,   \* TcpClient::connected
    wire,        \* what each connection still carries to the server
    answers,     \* what the present one carries to the client
    executed     \* how often the server ran each call

sending == <<stage, id, nextRequestId>>
threads == <<timer, timingOut, replying, ends, owned>>
queue == <<outbox, written>>
net == <<link, connected, wire, answers, executed>>
vars == <<sending, pending, threads, queue, net>>

Id == 1..Cardinality(Calls)
Links == 1..MaxLinks
Message == [id : Id, call : Calls]
NoReply == [id |-> 0, call |-> NoCall, to |-> NoCall]

Stages == {"unused", "numbered", "stored", "sent", "done"}

TypeOK ==
    /\ stage \in [Calls -> Stages]
    /\ id \in [Calls -> Id \cup {0}]
    /\ nextRequestId \in 1..Cardinality(Calls) + 1
    /\ pending \in [Id -> Calls \cup {NoCall}]
    /\ timer \in [Calls -> {"off", "asleep", "calling", "over"}]
    /\ timingOut \in [Calls -> Calls \cup {NoCall}]
    /\ replying \in [id : Id, call : Calls, to : Calls] \cup {NoReply}
    /\ ends \in [Calls -> Seq({"reply", "timeout"})]
    /\ owned \in BOOLEAN /\ written \in BOOLEAN /\ connected \in BOOLEAN
    /\ outbox \in Seq(Message)
    /\ link \in 0..MaxLinks
    /\ wire \in [Links -> Seq(Message)]
    /\ answers \in Seq(Message)
    /\ executed \in [Calls -> Nat]

(* A timer thread past weakSelf.lock() keeps the manager alive. *)
Alive == owned \/ \E c \in Calls : timer[c] = "calling"

----------------------------------------------------------------------------
(* sendRequest *)

(* Mutant of Number: an int that is not atomic, so that an increment may be
   lost. *)
NumberRacing(c) ==
    /\ owned
    /\ stage[c] = "unused"
    /\ id' = [id EXCEPT ![c] = nextRequestId]
    /\ nextRequestId' \in {nextRequestId, nextRequestId + 1}
    /\ stage' = [stage EXCEPT ![c] = "numbered"]
    /\ UNCHANGED <<pending, threads, queue, net>>

(* int reqId = nextRequestId++, on a std::atomic<int>. *)
Number(c) ==
    /\ owned
    /\ stage[c] = "unused"
    /\ id' = [id EXCEPT ![c] = nextRequestId]
    /\ nextRequestId' = nextRequestId + 1
    /\ stage' = [stage EXCEPT ![c] = "numbered"]
    /\ UNCHANGED <<pending, threads, queue, net>>

StoreCallback(c) ==
    /\ stage[c] = "numbered"
    /\ pending' = [pending EXCEPT ![id[c]] = c]
    /\ stage' = [stage EXCEPT ![c] = "stored"]
    /\ UNCHANGED <<id, nextRequestId, threads, queue, net>>

(* tcpClient.send. *)
Send(c) ==
    /\ stage[c] = "stored"
    /\ outbox' = Append(outbox, [id |-> id[c], call |-> c])
    /\ stage' = [stage EXCEPT ![c] = "sent"]
    /\ UNCHANGED <<id, nextRequestId, pending, threads, written, net>>

StartTimer(c) ==
    /\ stage[c] = "sent"
    /\ timer' = [timer EXCEPT ![c] = "asleep"]
    /\ stage' = [stage EXCEPT ![c] = "done"]
    /\ UNCHANGED <<id, nextRequestId, pending, timingOut, replying, ends, owned,
                   queue, net>>

----------------------------------------------------------------------------
(* The timer thread of a request, after its five seconds *)

(* Mutant of Expire: the entry is copied and left. *)
ExpireKeeping(c) ==
    /\ timer[c] = "asleep" /\ Alive
    /\ pending[id[c]] # NoCall
    /\ timingOut' = [timingOut EXCEPT ![c] = pending[id[c]]]
    /\ timer' = [timer EXCEPT ![c] = "calling"]
    /\ UNCHANGED <<sending, pending, replying, ends, owned, queue, net>>

(* The callback is still there: take it. *)
Expire(c) ==
    /\ timer[c] = "asleep" /\ Alive
    /\ pending[id[c]] # NoCall
    /\ timingOut' = [timingOut EXCEPT ![c] = pending[id[c]]]
    /\ pending' = [pending EXCEPT ![id[c]] = NoCall]
    /\ timer' = [timer EXCEPT ![c] = "calling"]
    /\ UNCHANGED <<sending, replying, ends, owned, queue, net>>

(* Somebody took it, or the manager is gone. *)
ExpireForNothing(c) ==
    /\ timer[c] = "asleep"
    /\ ~Alive \/ pending[id[c]] = NoCall
    /\ timer' = [timer EXCEPT ![c] = "over"]
    /\ UNCHANGED <<sending, pending, timingOut, replying, ends, owned, queue, net>>

CallTimeout(c) ==
    /\ timer[c] = "calling"
    /\ ends' = [ends EXCEPT ![timingOut[c]] = Append(@, "timeout")]
    /\ timingOut' = [timingOut EXCEPT ![c] = NoCall]
    /\ timer' = [timer EXCEPT ![c] = "over"]
    /\ UNCHANGED <<sending, pending, replying, owned, queue, net>>

----------------------------------------------------------------------------
(* The I/O thread: onMessageReceived and the handlers of the TcpClient.  It
   runs callbacks itself, and nothing else meanwhile. *)

IoIdle == Alive /\ replying = NoReply

(* Mutants of TakeReply: without the look whether somebody still waits, and
   without the erase. *)
TakeReplyUnchecked ==
    /\ IoIdle /\ answers # <<>>
    /\ answers' = Tail(answers)
    /\ LET m == Head(answers) IN
         /\ replying' = [id |-> m.id, call |-> m.call, to |-> pending[m.id]]
         /\ pending' = [pending EXCEPT ![m.id] = NoCall]
    /\ UNCHANGED <<sending, timer, timingOut, ends, owned, queue,
                   link, connected, wire, executed>>

TakeReplyKeeping ==
    /\ IoIdle /\ answers # <<>>
    /\ answers' = Tail(answers)
    /\ LET m == Head(answers) IN
         IF pending[m.id] = NoCall
         THEN UNCHANGED replying
         ELSE replying' = [id |-> m.id, call |-> m.call, to |-> pending[m.id]]
    /\ UNCHANGED <<sending, pending, timer, timingOut, ends, owned, queue,
                   link, connected, wire, executed>>

TakeReply ==
    /\ IoIdle /\ answers # <<>>
    /\ answers' = Tail(answers)
    /\ LET m == Head(answers) IN
         IF pending[m.id] = NoCall
         THEN UNCHANGED <<replying, pending>>
         ELSE /\ replying' = [id |-> m.id, call |-> m.call, to |-> pending[m.id]]
              /\ pending' = [pending EXCEPT ![m.id] = NoCall]
    /\ UNCHANGED <<sending, timer, timingOut, ends, owned, queue,
                   link, connected, wire, executed>>

CallBack ==
    /\ replying # NoReply
    /\ ends' = [ends EXCEPT ![replying.to] = Append(@, "reply")]
    /\ replying' = NoReply
    /\ UNCHANGED <<sending, pending, timer, timingOut, owned, queue, net>>

(* doWrite: the front goes out ... *)
Write ==
    /\ IoIdle /\ connected
    /\ outbox # <<>> /\ ~written
    /\ wire' = [wire EXCEPT ![link] = Append(@, Head(outbox))]
    /\ written' = TRUE
    /\ UNCHANGED <<sending, pending, threads, outbox, link, connected, answers, executed>>

(* ... and is popped by the handler. *)
WriteDone ==
    /\ IoIdle /\ connected /\ written
    /\ outbox' = Tail(outbox)
    /\ written' = FALSE
    /\ UNCHANGED <<sending, pending, threads, net>>

Connect ==
    /\ IoIdle /\ ~connected /\ link < MaxLinks
    /\ link' = link + 1
    /\ connected' = TRUE
    /\ UNCHANGED <<sending, pending, threads, queue, wire, answers, executed>>

(* Any end of what the connection carries is lost with it. *)
CutLink ==
    /\ connected' = FALSE
    /\ written' = FALSE
    /\ answers' = <<>>
    /\ \E n \in 0..Len(wire[link]) :
          wire' = [wire EXCEPT ![link] = SubSeq(@, 1, n)]

(* checkReconnect after an error: the front of the queue will go out again. *)
Break ==
    /\ IoIdle /\ connected
    /\ CutLink
    /\ UNCHANGED <<sending, pending, threads, outbox, link, executed>>

(* setServerAddress and disconnect: the queue is emptied. *)
DropQueue ==
    /\ IoIdle
    /\ IF connected THEN CutLink
                    ELSE UNCHANGED <<connected, written, answers, wire>>
    /\ outbox' = <<>>
    /\ UNCHANGED <<sending, pending, threads, link, executed>>

----------------------------------------------------------------------------
(* The server reads each connection by itself, whether or not the client
   still has it, and answers on it. *)
Serve ==
    \E l \in Links :
        /\ wire[l] # <<>>
        /\ wire' = [wire EXCEPT ![l] = Tail(@)]
        /\ executed' = [executed EXCEPT ![Head(wire[l]).call] = @ + 1]
        /\ answers' = IF connected /\ l = link THEN Append(answers, Head(wire[l]))
                                               ELSE answers
        /\ UNCHANGED <<sending, pending, threads, queue, link, connected>>

(* ClientState::setApi replaces the ServerAPI of the session that ended; no
   thread is inside sendRequest. *)
Release ==
    /\ owned
    /\ \A c \in Calls : stage[c] \in {"unused", "done"}
    /\ owned' = FALSE
    /\ UNCHANGED <<sending, pending, timer, timingOut, replying, ends, queue, net>>

----------------------------------------------------------------------------
Init ==
    /\ stage = [c \in Calls |-> "unused"]
    /\ id = [c \in Calls |-> 0]
    /\ nextRequestId = 1
    /\ pending = [i \in Id |-> NoCall]
    /\ timer = [c \in Calls |-> "off"]
    /\ timingOut = [c \in Calls |-> NoCall]
    /\ replying = NoReply
    /\ ends = [c \in Calls |-> <<>>]
    /\ owned = TRUE
    /\ outbox = <<>> /\ written = FALSE
    /\ link = 0 /\ connected = FALSE
    /\ wire = [l \in Links |-> <<>>]
    /\ answers = <<>>
    /\ executed = [c \in Calls |-> 0]

SendRequest(c) == Number(c) \/ StoreCallback(c) \/ Send(c) \/ StartTimer(c)
Timeout(c) == Expire(c) \/ ExpireForNothing(c) \/ CallTimeout(c)

Next ==
    \/ \E c \in Calls : SendRequest(c) \/ Timeout(c)
    \/ TakeReply \/ CallBack
    \/ Write \/ WriteDone \/ Connect \/ Break \/ DropQueue
    \/ Serve
    \/ Release

(* A thread inside sendRequest gets on, a timer thread wakes up, a callback
   returns.  Nothing is asked of the network or of the server. *)
Fairness ==
    /\ \A c \in Calls :
          /\ WF_vars(StoreCallback(c) \/ Send(c) \/ StartTimer(c))
          /\ WF_vars(Timeout(c))
    /\ WF_vars(CallBack)

Spec == Init /\ [][Next]_vars /\ Fairness

----------------------------------------------------------------------------
(* Properties *)

(* The reply a callback is given is the reply to its own request, although
   any number of threads number their requests at once and replies come late
   or twice.  (nextRequestId, pending_requests_.) *)
RepliesMeetTheirCall == replying # NoReply => replying.call = replying.to

(* Nothing stays in pending_requests_ for ever: as long as the manager lives,
   an entry has its timer still to come. *)
NoneLeftBehind ==
    Alive => \A i \in Id :
        pending[i] # NoCall =>
            /\ id[pending[i]] = i
            /\ \/ stage[pending[i]] \in {"stored", "sent"}
               \/ timer[pending[i]] = "asleep"

(* What the proofs add to make these inductive.  Numbers are given out once,
   as many as there are calls ... *)
Started == {c \in Calls : stage[c] # "unused"}

Numbering ==
    /\ nextRequestId = Cardinality(Started) + 1
    /\ \A c \in Calls : id[c] < nextRequestId /\ (id[c] = 0 <=> stage[c] = "unused")
    /\ \A c, d \in Started : id[c] = id[d] => c = d

(* ... each callback is in one place: not yet stored, in pending_requests_,
   with a timer thread, with the I/O thread, or done with ... *)
OnePlace ==
    /\ \A i \in Id : pending[i] # NoCall =>
          /\ id[pending[i]] = i
          /\ stage[pending[i]] # "numbered"
          /\ ends[pending[i]] = <<>>
          /\ replying.to # pending[i]
          /\ timer[pending[i]] # "calling"
    /\ \A c \in Calls :
          /\ timer[c] = "off" <=> stage[c] # "done"
          /\ stage[c] \in {"unused", "numbered"} => ends[c] = <<>> /\ replying.to # c
          /\ timer[c] = "calling" =>
                timingOut[c] = c /\ ends[c] = <<>> /\ replying.to # c
    /\ replying # NoReply =>
          /\ ends[replying.to] = <<>>
          /\ executed[replying.call] > 0
    /\ ~owned => \A c \in Calls : stage[c] \in {"unused", "done"}

(* ... and every message under way is the request of the call it names, an
   answer one that the server ran. *)
Genuine(m) == id[m.call] = m.id /\ stage[m.call] \in {"sent", "done"}

Traffic ==
    /\ \A i \in DOMAIN outbox : Genuine(outbox[i])
    /\ \A l \in Links : \A i \in DOMAIN wire[l] : Genuine(wire[l][i])
    /\ \A i \in DOMAIN answers : Genuine(answers[i]) /\ executed[answers[i].call] > 0
    /\ written => connected /\ outbox # <<>>
    /\ connected => link \in Links

Inv == TypeOK /\ Numbering /\ OnePlace /\ Traffic /\ RepliesMeetTheirCall /\ NoneLeftBehind

RC == INSTANCE RemoteCall WITH
        started <- {c \in Calls : stage[c] # "unused"},
        ran     <- {c \in Calls : executed[c] > 0},
        open    <- owned

(* sendRequest runs each callback at most once, although a reply and a
   timeout may race for it, and with a reply only if the server ran the
   request. *)
KeepsPromise == RC!SafeSpec

(* Every request ends, with a reply or with a timeout, unless the session of
   the client is over before. *)
EveryCallEnds == RC!EveryCallEnds
============================================================================
