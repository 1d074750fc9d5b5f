----------------------------- MODULE RemoteCall -----------------------------
(***************************************************************************)
(* What ClientNetworkManager::sendRequest promises its callers, whatever   *)
(* the network does: the callback of a call is run once, with a reply of   *)
(* the server or with a timeout.  A reply means that the server ran the    *)
(* request; a timeout says nothing, the request may have run before it,    *)
(* may still run after it, and may run more than once.                     *)
(***************************************************************************)
EXTENDS Sequences

CONSTANT Calls

VARIABLES
    started,     \* calls made
    ran,         \* calls whose request the server has run
    ends,        \* the outcomes given to each call's callback
    open         \* somebody still owns the network manager

vars == <<started, ran, ends, open>>

Outcomes == {"reply", "timeout"}

Init ==
    /\ started = {} /\ ran = {}
    /\ ends = [c \in Calls |-> <<>>]
    /\ open = TRUE

Start(c) ==
    /\ open /\ c \notin started
    /\ started' = started \cup {c}
    /\ UNCHANGED <<ran, ends, open>>

Run(c) ==
    /\ c \in started
    /\ ran' = ran \cup {c}
    /\ UNCHANGED <<started, ends, open>>

End(c) ==
    /\ c \in started /\ ends[c] = <<>>
    /\ \E o \in Outcomes :
          /\ o = "reply" => c \in ran
          /\ ends' = [ends EXCEPT ![c] = <<o>>]
    /\ UNCHANGED <<started, ran, open>>

Close ==
    /\ open' = FALSE
    /\ UNCHANGED <<started, ran, ends>>

Next == Close \/ \E c \in Calls : Start(c) \/ Run(c) \/ End(c)

SafeSpec == Init /\ [][Next]_vars

(* Every call ends while somebody owns the manager. *)
EveryCallEnds ==
    \A c \in Calls : c \in started ~> (ends[c] # <<>> \/ ~open)
============================================================================
