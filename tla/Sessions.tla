------------------------------ MODULE Sessions ------------------------------
(***************************************************************************)
(* Who gets the pushes of the StudySync server: TCP connections, logins    *)
(* and ConnectionManager's map from users to connections                   *)
(* (server/src/TcpServer.cpp, ConnectionManager.cpp), the payloads that    *)
(* two threads send (pushUpdateToUser in ServerRoutes.cpp), and the        *)
(* clients that log in, lose their connection and connect again            *)
(* (LoginWindow.cpp, TcpClient.cpp).                                       *)
(*                                                                         *)
(* The tables are one version number: what a payload says is how old it    *)
(* is.  Which users a route pushes to is StudyDb's subject; here it is any *)
(* set of users.                                                           *)
(***************************************************************************)
EXTENDS Integers, Sequences, FiniteSets

CONSTANTS
    Clients,       \* client programs
    Users,
    NoUser,        \* userId -1, an empty login window
    MaxConn,       \* bound on the connections made
    MaxVersion     \* bound on the writes to the tables

ASSUME SessionsAssumption ==
    /\ NoUser \notin Users
    /\ MaxConn \in Nat /\ MaxVersion \in Nat

VARIABLES
    phase,       \* each connection, as client and server see it
    userOf,      \* TcpConnection::userId
    registry,    \* ConnectionManager::connections_
    toServer,    \* login requests on their way, per connection
    toClient,    \* replies and pushes on their way, per connection
    client,      \* each client program
    version,     \* version of the tables
    main,        \* where the main thread stands in a handler
    todo,        \* users it has still to push to
    ai,          \* where the AI client's thread stands
    unseated     \* history: connections whose user logged in over another
                 \* one, or had another one found dead, after they logged in

tcp == <<phase, toServer, toClient>>
server == <<userOf, registry, version, unseated>>
vars == <<tcp, server, client, main, todo, ai>>

Conn == 1..MaxConn
NoConn == 0
Version == 0..MaxVersion

(* "closed": the client is off it, and the server has still to see the end. *)
Phases == {"unused", "open", "closed", "gone"}

Mail == [kind : {"login", "push"}, user : Users, version : Version]

Client == [conn     : Conn \cup {NoConn},
           outbox   : Users \cup {NoUser},   \* a login request not yet written
           asked    : Users \cup {NoUser},   \* the login that is waited for
           signedIn : BOOLEAN,               \* the main window is shown ...
           user     : Users \cup {NoUser},   \* ... of the payload last loaded
           view     : Version]

Thread == [pc : {"idle", "register", "reply", "push", "look", "read", "send"},
           conn : Conn \cup {NoConn}, user : Users \cup {NoUser}, version : Version]
Idle == [pc |-> "idle", conn |-> NoConn, user |-> NoUser, version |-> 0]

TypeOK ==
    /\ phase \in [Conn -> Phases]
    /\ userOf \in [Conn -> Users \cup {NoUser}]
    /\ registry \in [Users -> Conn \cup {NoConn}]
    /\ toServer \in [Conn -> Seq(Users)]
    /\ toClient \in [Conn -> Seq(Mail)]
    /\ client \in [Clients -> Client]
    /\ version \in Version
    /\ main \in Thread /\ ai \in Thread
    /\ todo \subseteq Users
    /\ unseated \subseteq Conn

(* TcpConnection::send: what is written to a connection that broke is lost. *)
Post(c, mail) ==
    toClient' = [toClient EXCEPT ![c] = IF phase[c] = "open" THEN Append(@, mail) ELSE @]

----------------------------------------------------------------------------
(* The client *)

(* The client leaves connection c, NoConn if it has none; with it goes what
   had not arrived. *)
Leave(c) ==
    /\ phase' = [x \in Conn |-> IF x = c THEN "closed" ELSE phase[x]]
    /\ toClient' = [x \in Conn |-> IF x = c THEN <<>> ELSE toClient[x]]

(* Mutant of Attempt: the login goes over the connection there is. *)
AttemptAgain(k, u) ==
    /\ ~client[k].signedIn /\ client[k].asked = NoUser
    /\ client' = [client EXCEPT ![k].outbox = u, ![k].asked = u]
    /\ UNCHANGED <<tcp, server, main, todo, ai>>

(* handleLogin: setServerAddress closes the socket and empties the queue, and
   the login request waits for the new connection. *)
Attempt(k, u) ==
    /\ ~client[k].signedIn /\ client[k].asked = NoUser
    /\ Leave(client[k].conn)
    /\ client' = [client EXCEPT ![k].conn = NoConn, ![k].outbox = u, ![k].asked = u]
    /\ UNCHANGED <<toServer, server, main, todo, ai>>

(* handleRegistration sets the address like a login, before it looks at the
   fields, also while a login is waited for: the login is lost, and its timer
   goes on.  createUser itself is no login, and changes nothing here. *)
HandleRegistration(k) ==
    /\ ~client[k].signedIn
    /\ Leave(client[k].conn)
    /\ client' = [client EXCEPT ![k].conn = NoConn, ![k].outbox = NoUser]
    /\ UNCHANGED <<toServer, server, main, todo, ai>>

(* The reply says that the login failed, or the request timed out. *)
AttemptFails(k) ==
    /\ ~client[k].signedIn /\ client[k].asked # NoUser
    /\ client' = [client EXCEPT ![k].asked = NoUser]
    /\ UNCHANGED <<tcp, server, main, todo, ai>>

(* TcpClient::connect, at first and after every loss. *)
Connect(k) ==
    /\ client[k].conn = NoConn
    /\ \E c \in Conn :
          /\ phase[c] = "unused"
          /\ \A x \in Conn : phase[x] = "unused" => c <= x
          /\ phase' = [phase EXCEPT ![c] = "open"]
          /\ client' = [client EXCEPT ![k].conn = c]
    /\ UNCHANGED <<toServer, toClient, server, main, todo, ai>>

(* Mutant of SendLogin: doWrite without the look whether the queue is empty. *)
SendLoginUnchecked(k) ==
    /\ client[k].conn # NoConn
    /\ toServer' = [toServer EXCEPT ![client[k].conn] = Append(@, client[k].outbox)]
    /\ client' = [client EXCEPT ![k].outbox = NoUser]
    /\ UNCHANGED <<phase, toClient, server, main, todo, ai>>

SendLogin(k) ==
    /\ client[k].conn # NoConn /\ client[k].outbox # NoUser
    /\ toServer' = [toServer EXCEPT ![client[k].conn] = Append(@, client[k].outbox)]
    /\ client' = [client EXCEPT ![k].outbox = NoUser]
    /\ UNCHANGED <<phase, toClient, server, main, todo, ai>>

(* loadFromPayload: the user and everything else is that of the payload. *)
Loaded(state, mail) == [state EXCEPT !.user = mail.user, !.view = mail.version]

(* A reply to a request that timed out is ignored; a push is loaded always. *)
Receive(k) ==
    /\ client[k].conn # NoConn /\ toClient[client[k].conn] # <<>>
    /\ LET mail == Head(toClient[client[k].conn])
           awaited == ~client[k].signedIn /\ mail.user = client[k].asked
           loaded == Loaded(client[k], mail)
       IN  client' =
             IF mail.kind = "login" /\ ~awaited THEN client
             ELSE [client EXCEPT ![k] =
                     [loaded EXCEPT !.signedIn = @ \/ mail.kind = "login"]]
    /\ toClient' = [toClient EXCEPT ![client[k].conn] = Tail(@)]
    /\ UNCHANGED <<phase, toServer, server, main, todo, ai>>

Break(k) ==
    /\ client[k].conn # NoConn
    /\ Leave(client[k].conn)
    /\ client' = [client EXCEPT ![k].conn = NoConn]
    /\ UNCHANGED <<toServer, server, main, todo, ai>>

(* disconnect and exit(42); main.cpp goes on with a new network manager. *)
LogOut(k) ==
    /\ client[k].signedIn
    /\ Leave(client[k].conn)
    /\ client' = [client EXCEPT ![k] = [conn |-> NoConn, outbox |-> NoUser, asked |-> NoUser,
                                        signedIn |-> FALSE, user |-> NoUser, view |-> 0]]
    /\ UNCHANGED <<toServer, server, main, todo, ai>>

----------------------------------------------------------------------------
(* The server's main thread: the handlers of a connection *)

(* handleMessage: the login route makes the payload ... *)
HandleLogin(c) ==
    /\ main = Idle
    /\ phase[c] \in {"open", "closed"} /\ toServer[c] # <<>>
    /\ main' = [pc |-> "register", conn |-> c, user |-> Head(toServer[c]), version |-> version]
    /\ toServer' = [toServer EXCEPT ![c] = Tail(@)]
    /\ UNCHANGED <<phase, toClient, server, client, todo, ai>>

(* The connections that user u logged in over. *)
Held(u) == {c \in Conn : userOf[c] # NoUser /\ userOf[c] = u}

(* Mutant of Register: without addConnection. *)
RegisterUserOnly ==
    /\ main.pc = "register"
    /\ userOf' = [userOf EXCEPT ![main.conn] = main.user]
    /\ main' = [main EXCEPT !.pc = "reply"]
    /\ UNCHANGED <<tcp, registry, version, unseated, client, todo, ai>>

(* ... the connection gets its user, in the place of any other ... *)
Register ==
    /\ main.pc = "register"
    /\ userOf' = [userOf EXCEPT ![main.conn] = main.user]
    /\ registry' = [registry EXCEPT ![main.user] = main.conn]
    /\ unseated' = unseated \cup (Held(main.user) \ {main.conn})
    /\ main' = [main EXCEPT !.pc = "reply"]
    /\ UNCHANGED <<tcp, version, client, todo, ai>>

(* ... and the reply goes out. *)
Reply ==
    /\ main.pc = "reply"
    /\ Post(main.conn, [kind |-> "login", user |-> main.user, version |-> main.version])
    /\ main' = Idle
    /\ UNCHANGED <<phase, toServer, server, client, todo, ai>>

(* Mutant of EndOfFile: without removeConnection. *)
EndOfFileUnnoticed(c) ==
    /\ main = Idle
    /\ phase[c] = "closed"
    /\ phase' = [phase EXCEPT ![c] = "gone"]
    /\ toServer' = [toServer EXCEPT ![c] = <<>>]
    /\ UNCHANGED <<toClient, server, client, main, todo, ai>>

(* doRead ends in an error: the user's entry goes, whichever connection it
   names. *)
EndOfFile(c) ==
    /\ main = Idle
    /\ phase[c] = "closed"
    /\ phase' = [phase EXCEPT ![c] = "gone"]
    /\ toServer' = [toServer EXCEPT ![c] = <<>>]
    /\ registry' = [u \in Users |-> IF u = userOf[c] THEN NoConn ELSE registry[u]]
    /\ unseated' = unseated \cup (Held(userOf[c]) \ {c})
    /\ UNCHANGED <<toClient, userOf, version, client, main, todo, ai>>

----------------------------------------------------------------------------
(* The server's main thread: routes and refreshes *)

(* Nobody is left to push to, or somebody is. *)
Pushing(rest) == IF rest = {} THEN Idle ELSE [Idle EXCEPT !.pc = "push"]

(* A route writes, and pushes to some users. *)
Write ==
    /\ main = Idle
    /\ version < MaxVersion
    /\ version' = version + 1
    /\ todo' \in SUBSET Users
    /\ main' = Pushing(todo')
    /\ UNCHANGED <<tcp, userOf, registry, unseated, client, ai>>

(* Bound on the mail under way: refreshes and answers, of which there is no
   end, wait for what was sent before them. *)
MailArrived == \A c \in Conn : toClient[c] = <<>>

(* Mutant of AutoRefresh: the timer is set again, and that is all. *)
AutoRefreshNobody ==
    /\ main = Idle /\ MailArrived
    /\ todo' = {}
    /\ main' = Pushing(todo')
    /\ UNCHANGED <<tcp, server, client, ai>>

(* startAutoRefreshTimer: getActiveUserIds. *)
AutoRefresh ==
    /\ main = Idle /\ MailArrived
    /\ todo' = {u \in Users : registry[u] # NoConn}
    /\ main' = Pushing(todo')
    /\ UNCHANGED <<tcp, server, client, ai>>

(* pushUpdateToUser: getConnection and getFullUserData ... *)
PushRead(u) ==
    /\ main.pc = "push" /\ u \in todo
    /\ todo' = todo \ {u}
    /\ main' = IF registry[u] = NoConn THEN Pushing(todo')
               ELSE [pc |-> "send", conn |-> registry[u], user |-> u, version |-> version]
    /\ UNCHANGED <<tcp, server, client, ai>>

(* ... and conn->send. *)
PushSend ==
    /\ main.pc = "send"
    /\ Post(main.conn, [kind |-> "push", user |-> main.user, version |-> main.version])
    /\ main' = Pushing(todo)
    /\ UNCHANGED <<phase, toServer, server, client, todo, ai>>

----------------------------------------------------------------------------
(* The AI client's thread: an answer is stored, or was cancelled, and the
   user gets a payload either way, while the main thread goes on. *)

AiAnswer(u) ==
    /\ ai = Idle /\ MailArrived
    /\ version' \in {version, version + 1} \cap Version
    /\ ai' = [Idle EXCEPT !.pc = "look", !.user = u]
    /\ UNCHANGED <<tcp, userOf, registry, unseated, client, main, todo>>

AiLook ==
    /\ ai.pc = "look"
    /\ ai' = IF registry[ai.user] = NoConn THEN Idle
             ELSE [ai EXCEPT !.pc = "read", !.conn = registry[ai.user]]
    /\ UNCHANGED <<tcp, server, client, main, todo>>

AiRead ==
    /\ ai.pc = "read"
    /\ ai' = [ai EXCEPT !.pc = "send", !.version = version]
    /\ UNCHANGED <<tcp, server, client, main, todo>>

AiSend ==
    /\ ai.pc = "send"
    /\ Post(ai.conn, [kind |-> "push", user |-> ai.user, version |-> ai.version])
    /\ ai' = Idle
    /\ UNCHANGED <<phase, toServer, server, client, main, todo>>

----------------------------------------------------------------------------
(* The server dies and starts again: its connections and its map are gone,
   the tables are not. *)
Restart ==
    /\ phase' = [c \in Conn |-> IF phase[c] = "unused" THEN "unused" ELSE "gone"]
    /\ toServer' = [c \in Conn |-> <<>>]
    /\ toClient' = [c \in Conn |-> <<>>]
    /\ registry' = [u \in Users |-> NoConn]
    /\ client' = [k \in Clients |-> [client[k] EXCEPT !.conn = NoConn]]
    /\ main' = Idle /\ ai' = Idle /\ todo' = {}
    /\ UNCHANGED <<userOf, version, unseated>>

Init ==
    /\ phase = [c \in Conn |-> "unused"]
    /\ userOf = [c \in Conn |-> NoUser]
    /\ registry = [u \in Users |-> NoConn]
    /\ toServer = [c \in Conn |-> <<>>]
    /\ toClient = [c \in Conn |-> <<>>]
    /\ client = [k \in Clients |-> [conn |-> NoConn, outbox |-> NoUser, asked |-> NoUser,
                                    signedIn |-> FALSE, user |-> NoUser, view |-> 0]]
    /\ version = 0
    /\ main = Idle /\ todo = {} /\ ai = Idle
    /\ unseated = {}

ClientStep(k) ==
    \/ \E u \in Users : Attempt(k, u)
    \/ HandleRegistration(k)
    \/ AttemptFails(k) \/ Connect(k) \/ SendLogin(k) \/ Receive(k) \/ Break(k) \/ LogOut(k)

MainStep ==
    \/ Register \/ Reply
    \/ PushSend
    \/ \E u \in Users : PushRead(u)

AiStep == AiLook \/ AiRead \/ AiSend

Next ==
    \/ \E k \in Clients : ClientStep(k)
    \/ \E c \in Conn : HandleLogin(c) \/ EndOfFile(c)
    \/ MainStep \/ Write \/ AutoRefresh
    \/ \E u \in Users : AiAnswer(u)
    \/ AiStep
    \/ Restart

(* The server's two threads go on, its timer comes round, mail on a good
   connection arrives, and the refreshes find out every dead connection.
   Nobody has to log in, to connect or to write. *)
Fairness ==
    /\ WF_vars(MainStep) /\ WF_vars(AiStep) /\ SF_vars(AutoRefresh)
    /\ \A k \in Clients : WF_vars(Receive(k))
    /\ \A c \in Conn : SF_vars(EndOfFile(c))

SafeSpec == Init /\ [][Next]_vars

Spec == SafeSpec /\ Fairness

----------------------------------------------------------------------------
(* Properties *)

(* Once the main window is shown, no payload ever turns it into another
   user's: neither a late answer to an earlier login nor a push meant for
   somebody who logged in on the same machine before.  (setServerAddress in
   handleLogin, disconnect in logout, the entries of connections_.) *)
TheUserStays ==
    [][\A k \in Clients :
          client[k].signedIn /\ client'[k].signedIn => client'[k].user = client[k].user]_vars

(* The client is logged in and the server pushes to the connection it has. *)
Reached(k) ==
    /\ client[k].signedIn /\ client[k].conn # NoConn
    /\ registry[client[k].user] = client[k].conn

(* The server pushes to a connection that logged in until the same user logs
   in over another one, or until another one of the same user is found dead,
   and from then on never again.  The second is the code's: doRead removes the
   entry by user, so whoever logs out and in again loses the new entry when the
   end of the old connection is read late.  Nothing else, no failed login, no
   other user and no payload, costs a session its place.  (addConnection,
   removeConnection.) *)
PushedToUntilUnseated ==
    \A c \in Conn :
        phase[c] = "open" /\ userOf[c] # NoUser
        => (registry[userOf[c]] = c <=> c \notin unseated)

(* A client that the server pushes to catches up with the tables, even though
   the AI client's thread may send an older payload after a newer one.
   (startAutoRefreshTimer.) *)
ReachedClientsCatchUp ==
    \A k \in Clients :
        Reached(k) ~> (client[k].view = version \/ ~Reached(k))

(* The server does not go on pushing to a connection for ever once the client
   has left it. *)
DeadConnectionsAreForgotten ==
    \A c \in Conn : phase[c] = "closed" ~> [](\A u \in Users : registry[u] # c)

(* README: "Live Chat: Send messages to your group members in real time".  A
   client that stays logged in and connected sees every message in the end. *)
LiveChat ==
    \A k \in Clients :
        (client[k].signedIn /\ client[k].conn # NoConn)
        ~> (~client[k].signedIn \/ client[k].conn = NoConn \/ client[k].view = version)

(* The same line of README, of a client that has not lost the connection it
   logged in over. *)
LoggedIn(k) ==
    /\ client[k].signedIn /\ client[k].conn # NoConn
    /\ userOf[client[k].conn] = client[k].user

LiveChatOverOneConnection ==
    \A k \in Clients : LoggedIn(k) ~> (~LoggedIn(k) \/ client[k].view = version)

----------------------------------------------------------------------------
(* The inductive invariant behind the safety properties *)

Live == {"open", "closed"}

(* Where a thread stands in a handler, it has a user and a connection. *)
InRoute ==
    /\ main.pc \in {"register", "reply", "send"} => main.conn \in Conn /\ main.user \in Users
    /\ ai.pc \in {"look", "read", "send"} => ai.user \in Users
    /\ ai.pc \in {"read", "send"} => ai.conn \in Conn

Registering(c) == main.pc = "register" /\ main.conn = c

(* Nothing is known of a connection that nobody has made. *)
Fresh ==
    \A c \in Conn : phase[c] = "unused" => userOf[c] = NoUser /\ toServer[c] = <<>>

OwnConnections ==
    \A k \in Clients :
        client[k].conn # NoConn =>
            /\ phase[client[k].conn] = "open"
            /\ \A j \in Clients : client[j].conn = client[k].conn => j = k

(* No login, and none under way. *)
Anonymous(c) == userOf[c] = NoUser /\ toServer[c] = <<>> /\ ~Registering(c)

(* A connection carries one login in its life: the client leaves it before it
   makes another. *)
OneLogin ==
    /\ \A c \in Conn :
          /\ toServer[c] # <<>> =>
                Len(toServer[c]) = 1 /\ userOf[c] = NoUser /\ ~Registering(c)
          /\ Registering(c) => userOf[c] = NoUser /\ phase[c] \in Live
    /\ \A k \in Clients :
          client[k].outbox # NoUser /\ client[k].conn # NoConn => Anonymous(client[k].conn)

(* Whatever names a user and a connection names the user of the connection. *)
MailFits ==
    /\ \A u \in Users : registry[u] # NoConn => userOf[registry[u]] = u
    /\ main.pc \in {"reply", "send"} => userOf[main.conn] = main.user
    /\ ai.pc \in {"read", "send"} => userOf[ai.conn] = ai.user
    /\ \A c \in Conn : \A i \in DOMAIN toClient[c] : toClient[c][i].user = userOf[c]

(* Once the window is shown nothing is left of its logins: its connection is
   the user's, or nobody's for good. *)
SignedIn ==
    \A k \in Clients :
        client[k].signedIn =>
            /\ client[k].outbox = NoUser /\ client[k].user # NoUser
            /\ client[k].conn # NoConn =>
                  \/ userOf[client[k].conn] = client[k].user
                  \/ Anonymous(client[k].conn)

(* A connection loses its place after it got a user. *)
UnseatedLoggedIn == \A c \in unseated : userOf[c] # NoUser

Inv ==
    /\ TypeOK /\ InRoute /\ Fresh /\ OwnConnections /\ OneLogin
    /\ MailFits /\ SignedIn /\ UnseatedLoggedIn /\ PushedToUntilUnseated
=============================================================================
