--------------------------- MODULE SessionsProofs ---------------------------
(***************************************************************************)
(* Proofs about Sessions: the types, that a lone session is the registered *)
(* one, and that no client ever turns into another user's.  Inv is         *)
(* inductive: a connection carries one login, and all that names a user    *)
(* and a connection fits the user the connection got.                      *)
(***************************************************************************)
EXTENDS Sessions, SequenceTheorems, TLAPS

(* An element appended comes last, the others stay where they are. *)
LEMMA AppendFacts ==
  ASSUME NEW S, NEW s \in Seq(S), NEW x \in S
  PROVE  /\ Append(s, x) \in Seq(S) /\ Append(s, x) # <<>>
         /\ Len(Append(s, x)) = Len(s) + 1 /\ Append(s, x)[Len(s) + 1] = x
         /\ DOMAIN Append(s, x) = DOMAIN s \cup {Len(s) + 1}
         /\ Len(s) \in Nat /\ Len(s) + 1 \notin DOMAIN s
         /\ \A i \in DOMAIN s : i \in Nat /\ i <= Len(s) /\ Append(s, x)[i] = s[i]
         /\ \A i \in DOMAIN Append(s, x) :
               Append(s, x)[i] = x \/ (i \in DOMAIN s /\ Append(s, x)[i] = s[i])
  <1>1. /\ Append(s, x) \in Seq(S) /\ Append(s, x) # <<>>
        /\ Len(Append(s, x)) = Len(s) + 1
        /\ \A i \in 1..Len(s) : Append(s, x)[i] = s[i]
        /\ Append(s, x)[Len(s) + 1] = x
    BY AppendProperties
  <1>2. DOMAIN Append(s, x) = 1..Len(s) + 1 /\ DOMAIN s = 1..Len(s) /\ Len(s) \in Nat
    BY <1>1, LenProperties
  <1> QED BY <1>1, <1>2

(* The tail holds the elements after the first. *)
LEMMA TailFacts ==
  ASSUME NEW S, NEW s \in Seq(S), s # <<>>
  PROVE  /\ Head(s) \in S /\ 1 \in DOMAIN s /\ Head(s) = s[1]
         /\ Tail(s) \in Seq(S)
         /\ \A i \in DOMAIN Tail(s) :
               i \in Nat \ {0} /\ i + 1 \in DOMAIN s /\ Tail(s)[i] = s[i + 1]
  OBVIOUS

----------------------------------------------------------------------------
(* Lemmas about the operators *)

(* A connection is closed and emptied, the others stay. *)
LEMMA LeaveFacts ==
  ASSUME phase \in [Conn -> Phases], toClient \in [Conn -> Seq(Mail)],
         NEW c \in Conn \cup {NoConn}, Leave(c)
  PROVE  /\ phase' \in [Conn -> Phases] /\ toClient' \in [Conn -> Seq(Mail)]
         /\ \A x \in Conn : phase'[x] = IF x = c THEN "closed" ELSE phase[x]
         /\ \A x \in Conn : toClient'[x] = IF x = c THEN <<>> ELSE toClient[x]
  <1>1. <<>> \in Seq(Mail)
    OBVIOUS
  <1> QED BY <1>1 DEF Leave, Phases

(* Mail is added to one connection, or lost. *)
LEMMA PostFacts ==
  ASSUME toClient \in [Conn -> Seq(Mail)], NEW c \in Conn, NEW mail \in Mail, Post(c, mail)
  PROVE  /\ toClient' \in [Conn -> Seq(Mail)]
         /\ \A x \in Conn : \A i \in DOMAIN toClient'[x] :
               \/ x = c /\ toClient'[x][i] = mail
               \/ i \in DOMAIN toClient[x] /\ toClient'[x][i] = toClient[x][i]
  <1>1. Append(toClient[c], mail) \in Seq(Mail)
    BY AppendFacts
  <1>2. toClient' = [toClient EXCEPT ![c] = IF phase[c] = "open"
                                            THEN Append(toClient[c], mail) ELSE toClient[c]]
    BY DEF Post
  <1>3. \A x \in Conn : x # c => toClient'[x] = toClient[x]
    BY <1>2
  <1>4. CASE toClient'[c] = toClient[c]
    BY <1>1, <1>2, <1>3, <1>4
  <1>5. CASE toClient'[c] = Append(toClient[c], mail)
    <2>1. \A i \in DOMAIN toClient'[c] :
             \/ toClient'[c][i] = mail
             \/ i \in DOMAIN toClient[c] /\ toClient'[c][i] = toClient[c][i]
      BY <1>5, AppendFacts
    <2> QED BY <1>1, <1>2, <1>3, <2>1
  <1> QED BY <1>2, <1>4, <1>5

(* Threads that push or are done. *)
LEMMA PushingType ==
  ASSUME NEW rest
  PROVE  Pushing(rest) \in Thread /\ Pushing(rest).pc \in {"idle", "push"}
  <1>1. Idle \in Thread
    BY SessionsAssumption DEF Idle, Thread, Version
  <1> QED BY <1>1 DEF Pushing, Idle, Thread

----------------------------------------------------------------------------
(* Init *)

LEMMA InitInv == Init => Inv
  <1> SUFFICES ASSUME Init PROVE Inv
    OBVIOUS
  <1> USE SessionsAssumption
  <1>1. <<>> \in Seq(Users) /\ <<>> \in Seq(Mail)
    OBVIOUS
  <1>2. Idle \in Thread
    BY DEF Idle, Thread, Version
  <1>3. client \in [Clients -> Client]
    BY DEF Init, Client, Version
  <1>4. TypeOK
    <2>1. /\ phase \in [Conn -> Phases] /\ userOf \in [Conn -> Users \cup {NoUser}]
          /\ registry \in [Users -> Conn \cup {NoConn}]
      BY DEF Init, Phases
    <2>2. toServer \in [Conn -> Seq(Users)] /\ toClient \in [Conn -> Seq(Mail)]
      BY <1>1 DEF Init
    <2>3. version \in Version /\ main \in Thread /\ ai \in Thread
      BY <1>2 DEF Init, Version
    <2> QED BY <1>3, <2>1, <2>2, <2>3 DEF Init, TypeOK
  <1>5. InRoute /\ Fresh /\ OwnConnections /\ OneLogin /\ SignedIn
    BY DEF Init, InRoute, Fresh, OwnConnections, OneLogin, SignedIn, Idle, Registering
  <1>6. MailFits
    BY DEF Init, MailFits, Idle
  <1>7. UnseatedLoggedIn /\ PushedToUntilUnseated
    BY DEF Init, UnseatedLoggedIn, PushedToUntilUnseated
  <1> QED BY <1>4, <1>5, <1>6, <1>7 DEF Inv

----------------------------------------------------------------------------
(* Types *)

(* A client's step leaves it a client. *)
LEMMA ClientType ==
  ASSUME TypeOK, NEW k \in Clients, ClientStep(k)
  PROVE  client' \in [Clients -> Client]
  <1> DEFINE me == client[k]
  <1>0. me \in Client /\ client \in [Clients -> Client]
    BY DEF TypeOK
  <1>1. ASSUME NEW e \in Client, client' = [client EXCEPT ![k] = e]
        PROVE  client' \in [Clients -> Client]
    BY <1>0, <1>1
  <1>2. ASSUME NEW u \in Users, Attempt(k, u) PROVE client' \in [Clients -> Client]
    <2> DEFINE e == [me EXCEPT !.conn = NoConn, !.outbox = u, !.asked = u]
    <2>1. e \in Client
      BY <1>0 DEF Client
    <2>2. client' = [client EXCEPT ![k] = e]
      BY <1>2 DEF Attempt
    <2> QED BY <1>1, <2>1, <2>2
  <1>3. CASE HandleRegistration(k)
    <2> DEFINE e == [me EXCEPT !.conn = NoConn, !.outbox = NoUser]
    <2>1. e \in Client
      BY <1>0 DEF Client
    <2>2. client' = [client EXCEPT ![k] = e]
      BY <1>3 DEF HandleRegistration
    <2> QED BY <1>1, <2>1, <2>2
  <1>4. CASE AttemptFails(k)
    <2> DEFINE e == [me EXCEPT !.asked = NoUser]
    <2>1. e \in Client
      BY <1>0 DEF Client
    <2>2. client' = [client EXCEPT ![k] = e]
      BY <1>4 DEF AttemptFails
    <2> QED BY <1>1, <2>1, <2>2
  <1>5. CASE Connect(k)
    <2>1. PICK c \in Conn : client' = [client EXCEPT ![k].conn = c]
      BY <1>5 DEF Connect
    <2> DEFINE e == [me EXCEPT !.conn = c]
    <2>2. e \in Client
      BY <1>0 DEF Client
    <2>3. client' = [client EXCEPT ![k] = e]
      BY <2>1
    <2> QED BY <1>1, <2>2, <2>3
  <1>6. CASE SendLogin(k)
    <2> DEFINE e == [me EXCEPT !.outbox = NoUser]
    <2>1. e \in Client
      BY <1>0 DEF Client
    <2>2. client' = [client EXCEPT ![k] = e]
      BY <1>6 DEF SendLogin
    <2> QED BY <1>1, <2>1, <2>2
  <1>7. CASE Receive(k)
    <2> DEFINE mail == Head(toClient[me.conn])
               f == Loaded(me, mail)
               e == [f EXCEPT !.signedIn = @ \/ mail.kind = "login"]
    <2>1. mail \in Mail
      <3>1. me.conn \in Conn /\ toClient[me.conn] # <<>>
        BY <1>0, <1>7 DEF Receive, Client
      <3>2. toClient[me.conn] \in Seq(Mail)
        BY <3>1 DEF TypeOK
      <3> QED BY <3>1, <3>2, TailFacts
    <2>2. f \in Client
      BY <1>0, <2>1 DEF Client, Loaded, Mail
    <2>3. e \in Client
      BY <2>2 DEF Client
    <2>4. client' = client \/ client' = [client EXCEPT ![k] = e]
      BY <1>7 DEF Receive
    <2> QED BY <1>0, <1>1, <2>3, <2>4
  <1>8. CASE Break(k)
    <2> DEFINE e == [me EXCEPT !.conn = NoConn]
    <2>1. e \in Client
      BY <1>0 DEF Client
    <2>2. client' = [client EXCEPT ![k] = e]
      BY <1>8 DEF Break
    <2> QED BY <1>1, <2>1, <2>2
  <1>9. CASE LogOut(k)
    <2> DEFINE e == [conn |-> NoConn, outbox |-> NoUser, asked |-> NoUser,
                     signedIn |-> FALSE, user |-> NoUser, view |-> 0]
    <2>1. e \in Client
      BY SessionsAssumption DEF Client, Version
    <2>2. client' = [client EXCEPT ![k] = e]
      BY <1>9 DEF LogOut
    <2> QED BY <1>1, <2>1, <2>2
  <1> QED BY <1>2, <1>3, <1>4, <1>5, <1>6, <1>7, <1>8, <1>9 DEF ClientStep

(* Where a step of a client leaves the connections. *)
LEMMA ClientLinks ==
  ASSUME TypeOK, NEW k \in Clients, ClientStep(k)
  PROVE  /\ phase' \in [Conn -> Phases]
         /\ toServer' \in [Conn -> Seq(Users)] /\ toClient' \in [Conn -> Seq(Mail)]
         /\ UNCHANGED <<server, main, todo, ai>>
  <1> DEFINE c == client[k].conn
  <1>0. /\ phase \in [Conn -> Phases] /\ toServer \in [Conn -> Seq(Users)]
        /\ toClient \in [Conn -> Seq(Mail)] /\ c \in Conn \cup {NoConn}
        /\ client[k].outbox \in Users \cup {NoUser}
    BY DEF TypeOK, Client
  <1>1. CASE Leave(c) /\ UNCHANGED <<toServer, server, main, todo, ai>>
    BY <1>0, <1>1, LeaveFacts
  <1>2. CASE AttemptFails(k)
    BY <1>0, <1>2 DEF AttemptFails, tcp
  <1>3. CASE Connect(k)
    BY <1>0, <1>3 DEF Connect, Phases
  <1>4. CASE SendLogin(k)
    <2>1. Append(toServer[c], client[k].outbox) \in Seq(Users)
      BY <1>0, <1>4, AppendFacts DEF SendLogin
    <2>2. /\ toServer' = [toServer EXCEPT ![c] = Append(toServer[c], client[k].outbox)]
          /\ UNCHANGED <<phase, toClient, server, main, todo, ai>>
      BY <1>4 DEF SendLogin
    <2> QED BY <1>0, <2>1, <2>2
  <1>5. CASE Receive(k)
    <2>1. Tail(toClient[c]) \in Seq(Mail)
      BY <1>0, <1>5, TailFacts DEF Receive
    <2>2. /\ toClient' = [toClient EXCEPT ![c] = Tail(toClient[c])]
          /\ UNCHANGED <<phase, toServer, server, main, todo, ai>>
      BY <1>5 DEF Receive
    <2> QED BY <1>0, <2>1, <2>2
  <1>6. CASE Break(k) \/ LogOut(k) \/ HandleRegistration(k) \/ \E u \in Users : Attempt(k, u)
    BY <1>1, <1>6 DEF Break, LogOut, HandleRegistration, Attempt
  <1> QED BY <1>2, <1>3, <1>4, <1>5, <1>6 DEF ClientStep

LEMMA TypeStep == TypeOK /\ InRoute /\ [Next]_vars => TypeOK'
  <1> SUFFICES ASSUME TypeOK, InRoute, [Next]_vars PROVE TypeOK'
    OBVIOUS
  <1> USE SessionsAssumption
  <1>0. /\ phase \in [Conn -> Phases] /\ userOf \in [Conn -> Users \cup {NoUser}]
        /\ registry \in [Users -> Conn \cup {NoConn}]
        /\ toServer \in [Conn -> Seq(Users)] /\ toClient \in [Conn -> Seq(Mail)]
        /\ version \in Version /\ main \in Thread /\ ai \in Thread
        /\ unseated \subseteq Conn /\ todo \subseteq Users
    BY DEF TypeOK
  <1>1. ASSUME NEW k \in Clients, ClientStep(k) PROVE TypeOK'
    <2>1. client' \in [Clients -> Client]
      BY <1>1, ClientType
    <2> QED BY <1>0, <1>1, <2>1, ClientLinks, Zenon DEF TypeOK, server
  <1>2. ASSUME NEW c \in Conn, HandleLogin(c) PROVE TypeOK'
    <2>1. Head(toServer[c]) \in Users /\ Tail(toServer[c]) \in Seq(Users)
      BY <1>0, <1>2, TailFacts DEF HandleLogin
    <2>2. main' \in Thread
      BY <1>0, <1>2, <2>1 DEF HandleLogin, Thread
    <2>3. toServer' \in [Conn -> Seq(Users)]
      BY <1>0, <1>2, <2>1 DEF HandleLogin
    <2> QED BY <1>2, <2>2, <2>3 DEF HandleLogin, TypeOK, server
  <1>3. ASSUME NEW c \in Conn, EndOfFile(c) PROVE TypeOK'
    <2>1. <<>> \in Seq(Users)
      OBVIOUS
    <2>2. phase' \in [Conn -> Phases] /\ toServer' \in [Conn -> Seq(Users)]
      BY <1>0, <1>3, <2>1 DEF EndOfFile, Phases
    <2>3. registry' \in [Users -> Conn \cup {NoConn}]
      BY <1>0, <1>3 DEF EndOfFile
    <2>4. unseated' \subseteq Conn
      BY <1>0, <1>3 DEF EndOfFile, Held
    <2> QED BY <1>3, <2>2, <2>3, <2>4 DEF EndOfFile, TypeOK
  <1>4. CASE Register
    <2>1. main.conn \in Conn /\ main.user \in Users
      BY <1>4 DEF Register, InRoute
    <2>2. userOf' \in [Conn -> Users \cup {NoUser}] /\ registry' \in [Users -> Conn \cup {NoConn}]
      BY <1>0, <1>4, <2>1 DEF Register
    <2>3. unseated' \subseteq Conn
      BY <1>0, <1>4, <2>1 DEF Register, Held
    <2>4. main' \in Thread
      BY <1>0, <1>4 DEF Register, Thread
    <2> QED BY <1>4, <2>2, <2>3, <2>4 DEF Register, TypeOK, tcp
  <1>5. CASE Reply
    <2>1. [kind |-> "login", user |-> main.user, version |-> main.version] \in Mail
      BY <1>0, <1>5 DEF Reply, InRoute, Thread, Mail
    <2>2. toClient' \in [Conn -> Seq(Mail)]
      BY <1>0, <1>5, <2>1, PostFacts DEF Reply, InRoute
    <2>3. main' \in Thread
      BY <1>5 DEF Reply, Idle, Thread, Version
    <2> QED BY <1>5, <2>2, <2>3 DEF Reply, TypeOK, server
  <1>6. CASE PushSend
    <2>1. [kind |-> "push", user |-> main.user, version |-> main.version] \in Mail
      BY <1>0, <1>6 DEF PushSend, InRoute, Thread, Mail
    <2>2. toClient' \in [Conn -> Seq(Mail)]
      BY <1>0, <1>6, <2>1, PostFacts DEF PushSend, InRoute
    <2>3. main' \in Thread
      BY <1>6, PushingType DEF PushSend
    <2> QED BY <1>6, <2>2, <2>3 DEF PushSend, TypeOK, server
  <1>7. ASSUME NEW u \in Users, PushRead(u) PROVE TypeOK'
    <2>1. main' \in Thread
      <3>1. CASE registry[u] = NoConn
        BY <1>7, <3>1, PushingType DEF PushRead
      <3>2. CASE registry[u] # NoConn
        BY <1>0, <1>7, <3>2 DEF PushRead, Thread
      <3> QED BY <3>1, <3>2
    <2>2. todo' \subseteq Users
      BY <1>0, <1>7 DEF PushRead
    <2> QED BY <1>7, <2>1, <2>2 DEF PushRead, TypeOK, tcp, server
  <1>8. CASE Write
    <2>1. main' \in Thread /\ todo' \subseteq Users
      BY <1>8, PushingType DEF Write
    <2>2. version' \in Version
      BY <1>0, <1>8 DEF Write, Version
    <2> QED BY <1>8, <2>1, <2>2 DEF Write, TypeOK, tcp
  <1>9. CASE AutoRefresh
    <2>1. main' \in Thread /\ todo' \subseteq Users
      BY <1>9, PushingType DEF AutoRefresh
    <2> QED BY <1>9, <2>1 DEF AutoRefresh, TypeOK, tcp, server
  <1>10. ASSUME NEW u \in Users, AiAnswer(u) PROVE TypeOK'
    <2>1. ai' \in Thread
      <3>1. ai' = [pc |-> "look", conn |-> NoConn, user |-> u, version |-> 0]
        BY <1>10 DEF AiAnswer, Idle
      <3> QED BY <3>1 DEF Thread, Version
    <2>2. version' \in Version
      BY <1>10 DEF AiAnswer
    <2> QED BY <1>10, <2>1, <2>2 DEF AiAnswer, TypeOK, tcp
  <1>11. CASE AiLook
    <2>1. ai.user \in Users
      BY <1>11 DEF AiLook, InRoute
    <2>2. ai' = Idle \/ ai' = [ai EXCEPT !.pc = "read", !.conn = registry[ai.user]]
      BY <1>11 DEF AiLook
    <2>3. registry[ai.user] \in Conn \cup {NoConn}
      BY <1>0, <2>1
    <2>4. ai' \in Thread
      <3>1. CASE ai' = Idle
        BY <3>1 DEF Idle, Thread, Version
      <3>2. CASE ai' = [ai EXCEPT !.pc = "read", !.conn = registry[ai.user]]
        BY <1>0, <2>3, <3>2 DEF Thread
      <3> QED BY <2>2, <3>1, <3>2
    <2> QED BY <1>11, <2>4 DEF AiLook, TypeOK, tcp, server
  <1>12. CASE AiRead
    <2>1. ai' \in Thread
      BY <1>0, <1>12 DEF AiRead, Thread
    <2> QED BY <1>12, <2>1 DEF AiRead, TypeOK, tcp, server
  <1>13. CASE AiSend
    <2>1. [kind |-> "push", user |-> ai.user, version |-> ai.version] \in Mail
      BY <1>0, <1>13 DEF AiSend, InRoute, Thread, Mail
    <2>2. toClient' \in [Conn -> Seq(Mail)]
      BY <1>0, <1>13, <2>1, PostFacts DEF AiSend, InRoute
    <2>3. ai' \in Thread
      BY <1>13 DEF AiSend, Idle, Thread, Version
    <2> QED BY <1>13, <2>2, <2>3 DEF AiSend, TypeOK, server
  <1>14. CASE Restart
    <2>1. <<>> \in Seq(Users) /\ <<>> \in Seq(Mail)
      OBVIOUS
    <2>2. /\ phase' \in [Conn -> Phases] /\ toServer' \in [Conn -> Seq(Users)]
          /\ toClient' \in [Conn -> Seq(Mail)] /\ registry' \in [Users -> Conn \cup {NoConn}]
      BY <1>14, <2>1 DEF Restart, Phases
    <2>3. main' \in Thread /\ ai' \in Thread /\ todo' \subseteq Users
      BY <1>14 DEF Restart, Idle, Thread, Version
    <2>4. client' \in [Clients -> Client]
      <3>1. \A k \in Clients : [client[k] EXCEPT !.conn = NoConn] \in Client
        BY DEF TypeOK, Client
      <3> QED BY <1>14, <3>1 DEF Restart
    <2> QED BY <1>14, <2>2, <2>3, <2>4 DEF Restart, TypeOK
  <1>15. CASE UNCHANGED vars
    BY <1>15 DEF vars, tcp, server, TypeOK
  <1> QED BY <1>1, <1>2, <1>3, <1>4, <1>5, <1>6, <1>7, <1>8, <1>9, <1>10, <1>11, <1>12,
             <1>13, <1>14, <1>15 DEF Next, MainStep, AiStep

----------------------------------------------------------------------------
(* What a client's step does, as far as the invariant is concerned *)

Quits(k) ==
  /\ \A x \in Conn : phase'[x] = IF x = client[k].conn THEN "closed" ELSE phase[x]
  /\ \A x \in Conn : toClient'[x] = IF x = client[k].conn THEN <<>> ELSE toClient[x]
  /\ toServer' = toServer
  /\ client'[k].conn = NoConn
  /\ client'[k].signedIn =>
        /\ client[k].signedIn
        /\ client'[k].outbox = client[k].outbox /\ client'[k].user = client[k].user

Joins(k) ==
  /\ client[k].conn = NoConn
  /\ \E c \in Conn :
        /\ phase[c] = "unused" /\ client'[k].conn = c
        /\ \A x \in Conn : phase'[x] = IF x = c THEN "open" ELSE phase[x]
  /\ toServer' = toServer /\ toClient' = toClient
  /\ client'[k].signedIn = client[k].signedIn
  /\ client'[k].outbox = client[k].outbox /\ client'[k].user = client[k].user

Sends(k) ==
  /\ client[k].conn \in Conn /\ client[k].outbox \in Users
  /\ toServer' = [toServer EXCEPT ![client[k].conn] =
                     Append(toServer[client[k].conn], client[k].outbox)]
  /\ phase' = phase /\ toClient' = toClient
  /\ client'[k].outbox = NoUser /\ client'[k].conn = client[k].conn
  /\ client'[k].signedIn = client[k].signedIn /\ client'[k].user = client[k].user

Hears(k) ==
  /\ phase' = phase /\ toServer' = toServer
  /\ client'[k].conn = client[k].conn /\ client'[k].outbox = client[k].outbox
  /\ \/ /\ toClient' = toClient
        /\ client'[k].signedIn = client[k].signedIn /\ client'[k].user = client[k].user
     \/ /\ client[k].conn \in Conn /\ toClient[client[k].conn] # <<>>
        /\ toClient' = [toClient EXCEPT ![client[k].conn] = Tail(toClient[client[k].conn])]
        /\ \/ /\ client'[k].signedIn = client[k].signedIn
              /\ client'[k].user = client[k].user
           \/ client'[k].user = Head(toClient[client[k].conn]).user

LEMMA ClientShape ==
  ASSUME TypeOK, NEW k \in Clients, ClientStep(k)
  PROVE  /\ \A j \in Clients \ {k} : client'[j] = client[j]
         /\ Quits(k) \/ Joins(k) \/ Sends(k) \/ Hears(k)
  <1> DEFINE me == client[k]
             c == me.conn
  <1>0. /\ me \in Client /\ client \in [Clients -> Client]
        /\ phase \in [Conn -> Phases] /\ toClient \in [Conn -> Seq(Mail)]
        /\ c \in Conn \cup {NoConn}
    BY DEF TypeOK, Client
  <1>1. ASSUME NEW e \in Client, client' = [client EXCEPT ![k] = e]
        PROVE  client'[k] = e /\ \A j \in Clients \ {k} : client'[j] = client[j]
    BY <1>0, <1>1
  <1>2. ASSUME NEW e \in Client, client' = [client EXCEPT ![k] = e], Leave(c),
               toServer' = toServer, e.conn = NoConn,
               e.signedIn => me.signedIn /\ e.outbox = me.outbox /\ e.user = me.user
        PROVE  Quits(k) /\ \A j \in Clients \ {k} : client'[j] = client[j]
    BY <1>0, <1>1, <1>2, LeaveFacts DEF Quits
  <1>3. ASSUME NEW u \in Users, Attempt(k, u)
        PROVE  Quits(k) /\ \A j \in Clients \ {k} : client'[j] = client[j]
    <2> DEFINE e == [me EXCEPT !.conn = NoConn, !.outbox = u, !.asked = u]
    <2>1. e \in Client /\ e.conn = NoConn /\ e.signedIn = me.signedIn
      BY <1>0 DEF Client
    <2>2. /\ client' = [client EXCEPT ![k] = e] /\ Leave(c) /\ toServer' = toServer
          /\ ~me.signedIn
      BY <1>3 DEF Attempt
    <2> HIDE DEF e
    <2> QED BY <1>2, <2>1, <2>2
  <1>4. ASSUME HandleRegistration(k)
        PROVE  Quits(k) /\ \A j \in Clients \ {k} : client'[j] = client[j]
    <2> DEFINE e == [me EXCEPT !.conn = NoConn, !.outbox = NoUser]
    <2>1. e \in Client /\ e.conn = NoConn /\ e.signedIn = me.signedIn
      BY <1>0 DEF Client
    <2>2. /\ client' = [client EXCEPT ![k] = e] /\ Leave(c) /\ toServer' = toServer
          /\ ~me.signedIn
      BY <1>4 DEF HandleRegistration
    <2> HIDE DEF e
    <2> QED BY <1>2, <2>1, <2>2
  <1>5. ASSUME Break(k)
        PROVE  Quits(k) /\ \A j \in Clients \ {k} : client'[j] = client[j]
    <2> DEFINE e == [me EXCEPT !.conn = NoConn]
    <2>1. /\ e \in Client /\ e.conn = NoConn /\ e.signedIn = me.signedIn
          /\ e.outbox = me.outbox /\ e.user = me.user
      BY <1>0 DEF Client
    <2>2. client' = [client EXCEPT ![k] = e] /\ Leave(c) /\ toServer' = toServer
      BY <1>5 DEF Break
    <2> HIDE DEF e
    <2> QED BY <1>2, <2>1, <2>2
  <1>6. ASSUME LogOut(k)
        PROVE  Quits(k) /\ \A j \in Clients \ {k} : client'[j] = client[j]
    <2> DEFINE e == [conn |-> NoConn, outbox |-> NoUser, asked |-> NoUser,
                     signedIn |-> FALSE, user |-> NoUser, view |-> 0]
    <2>1. e \in Client /\ e.conn = NoConn /\ ~e.signedIn
      BY SessionsAssumption DEF Client, Version
    <2>2. client' = [client EXCEPT ![k] = e] /\ Leave(c) /\ toServer' = toServer
      BY <1>6 DEF LogOut
    <2> HIDE DEF e
    <2> QED BY <1>2, <2>1, <2>2
  <1>7. ASSUME Connect(k)
        PROVE  Joins(k) /\ \A j \in Clients \ {k} : client'[j] = client[j]
    <2>1. PICK d \in Conn :
             /\ phase[d] = "unused" /\ phase' = [phase EXCEPT ![d] = "open"]
             /\ client' = [client EXCEPT ![k].conn = d]
      BY <1>7 DEF Connect
    <2> DEFINE e == [me EXCEPT !.conn = d]
    <2>2. /\ e \in Client /\ e.conn = d /\ e.signedIn = me.signedIn
          /\ e.outbox = me.outbox /\ e.user = me.user
      BY <1>0 DEF Client
    <2>3. client' = [client EXCEPT ![k] = e]
      BY <2>1
    <2>4. c = NoConn /\ toServer' = toServer /\ toClient' = toClient
      BY <1>7 DEF Connect
    <2>5. \A x \in Conn : phase'[x] = IF x = d THEN "open" ELSE phase[x]
      BY <1>0, <2>1
    <2> HIDE DEF e
    <2> QED BY <1>1, <2>1, <2>2, <2>3, <2>4, <2>5 DEF Joins
  <1>8. ASSUME SendLogin(k)
        PROVE  Sends(k) /\ \A j \in Clients \ {k} : client'[j] = client[j]
    <2> DEFINE e == [me EXCEPT !.outbox = NoUser]
    <2>1. /\ e \in Client /\ e.conn = c /\ e.signedIn = me.signedIn
          /\ e.outbox = NoUser /\ e.user = me.user
      BY <1>0 DEF Client
    <2>2. /\ client' = [client EXCEPT ![k] = e]
          /\ toServer' = [toServer EXCEPT ![c] = Append(toServer[c], me.outbox)]
          /\ phase' = phase /\ toClient' = toClient /\ c # NoConn /\ me.outbox # NoUser
      BY <1>8 DEF SendLogin
    <2>3. c \in Conn /\ me.outbox \in Users
      BY <1>0, <2>2 DEF Client
    <2> HIDE DEF e
    <2> QED BY <1>1, <2>1, <2>2, <2>3 DEF Sends
  <1>9. ASSUME AttemptFails(k)
        PROVE  Hears(k) /\ \A j \in Clients \ {k} : client'[j] = client[j]
    <2> DEFINE e == [me EXCEPT !.asked = NoUser]
    <2>1. /\ e \in Client /\ e.conn = c /\ e.signedIn = me.signedIn
          /\ e.outbox = me.outbox /\ e.user = me.user
      BY <1>0 DEF Client
    <2>2. /\ client' = [client EXCEPT ![k] = e]
          /\ phase' = phase /\ toClient' = toClient /\ toServer' = toServer
      BY <1>9 DEF AttemptFails, tcp
    <2> HIDE DEF e
    <2> QED BY <1>1, <2>1, <2>2 DEF Hears
  <1>10. ASSUME Receive(k)
        PROVE  Hears(k) /\ \A j \in Clients \ {k} : client'[j] = client[j]
    <2> DEFINE mail == Head(toClient[c])
               f == Loaded(me, mail)
               e == [f EXCEPT !.signedIn = @ \/ mail.kind = "login"]
    <2>1. c \in Conn /\ toClient[c] # <<>> /\ phase' = phase /\ toServer' = toServer
      BY <1>0, <1>10 DEF Receive
    <2>2. mail \in Mail
      BY <1>0, <2>1, TailFacts
    <2>3. f \in Client /\ f.conn = c /\ f.outbox = me.outbox /\ f.user = mail.user
      BY <1>0, <2>2 DEF Client, Loaded, Mail
    <2>4. e \in Client /\ e.conn = c /\ e.outbox = me.outbox /\ e.user = mail.user
      BY <2>3 DEF Client
    <2>5. client' = client \/ client' = [client EXCEPT ![k] = e]
      BY <1>10 DEF Receive
    <2>6. toClient' = [toClient EXCEPT ![c] = Tail(toClient[c])]
      BY <1>10 DEF Receive
    <2> HIDE DEF e, f
    <2>7. CASE client' = client
      BY <2>1, <2>6, <2>7, Zenon DEF Hears
    <2>8. CASE client' = [client EXCEPT ![k] = e]
      BY <1>1, <2>1, <2>4, <2>6, <2>8 DEF Hears
    <2> QED BY <2>5, <2>7, <2>8
  <1> QED BY <1>3, <1>4, <1>5, <1>6, <1>7, <1>8, <1>9, <1>10 DEF ClientStep

----------------------------------------------------------------------------
(* The invariant, part by part *)

LEMMA RouteStep == TypeOK /\ InRoute /\ [Next]_vars => InRoute'
  <1> SUFFICES ASSUME TypeOK, InRoute, [Next]_vars PROVE InRoute'
    OBVIOUS
  <1>0. /\ registry \in [Users -> Conn \cup {NoConn}]
        /\ main \in Thread /\ ai \in Thread /\ toServer \in [Conn -> Seq(Users)]
        /\ todo \subseteq Users
    BY DEF TypeOK
  <1>1. ASSUME main' = main, ai' = ai PROVE InRoute'
    BY <1>1 DEF InRoute
  <1>2. ASSUME main'.pc \in {"idle", "push"}, ai' = ai PROVE InRoute'
    BY <1>2 DEF InRoute
  <1>3. ASSUME NEW k \in Clients, ClientStep(k) PROVE InRoute'
    BY <1>1, <1>3, ClientLinks
  <1>4. ASSUME NEW c \in Conn, HandleLogin(c) PROVE InRoute'
    <2>1. Head(toServer[c]) \in Users
      BY <1>0, <1>4, TailFacts DEF HandleLogin
    <2>2. main'.conn = c /\ main'.user = Head(toServer[c]) /\ ai' = ai
      BY <1>4 DEF HandleLogin
    <2> QED BY <2>1, <2>2 DEF InRoute
  <1>5. ASSUME NEW c \in Conn, EndOfFile(c) PROVE InRoute'
    BY <1>1, <1>5 DEF EndOfFile
  <1>6. CASE Register
    <2>1. main' = [main EXCEPT !.pc = "reply"] /\ main.pc = "register" /\ ai' = ai
      BY <1>6 DEF Register
    <2>2. main'.conn = main.conn /\ main'.user = main.user
      BY <1>0, <2>1 DEF Thread
    <2> QED BY <2>1, <2>2 DEF InRoute
  <1>7. CASE Reply
    BY <1>2, <1>7 DEF Reply, Idle
  <1>8. CASE PushSend \/ Write \/ AutoRefresh
    <2>1. main'.pc \in {"idle", "push"} /\ ai' = ai
      BY <1>8, PushingType DEF PushSend, Write, AutoRefresh
    <2> QED BY <1>2, <2>1
  <1>9. ASSUME NEW u \in Users, PushRead(u) PROVE InRoute'
    <2>1. CASE registry[u] = NoConn
      <3>1. main'.pc \in {"idle", "push"} /\ ai' = ai
        BY <1>9, <2>1, PushingType DEF PushRead
      <3> QED BY <1>2, <3>1
    <2>2. CASE registry[u] # NoConn
      <3>1. main'.conn = registry[u] /\ main'.user = u /\ ai' = ai
        BY <1>9, <2>2 DEF PushRead
      <3> QED BY <1>0, <2>2, <3>1 DEF InRoute
    <2> QED BY <2>1, <2>2
  <1>10. ASSUME NEW u \in Users, AiAnswer(u) PROVE InRoute'
    <2>1. ai' = [pc |-> "look", conn |-> NoConn, user |-> u, version |-> 0] /\ main' = main
      BY <1>10 DEF AiAnswer, Idle
    <2> QED BY <2>1 DEF InRoute
  <1>11. CASE AiLook
    <2>1. ai.user \in Users /\ main' = main
      BY <1>11 DEF AiLook, InRoute
    <2>2. CASE registry[ai.user] = NoConn
      <3>1. ai'.pc = "idle"
        BY <1>11, <2>2 DEF AiLook, Idle
      <3> QED BY <2>1, <3>1 DEF InRoute
    <2>3. CASE registry[ai.user] # NoConn
      <3>1. ai' = [ai EXCEPT !.pc = "read", !.conn = registry[ai.user]]
        BY <1>11, <2>3 DEF AiLook
      <3>2. ai'.conn = registry[ai.user] /\ ai'.user = ai.user
        BY <1>0, <3>1 DEF Thread
      <3>3. ai'.conn \in Conn
        BY <1>0, <2>1, <2>3, <3>2
      <3> QED BY <2>1, <3>2, <3>3 DEF InRoute
    <2> QED BY <2>2, <2>3
  <1>12. CASE AiRead
    <2>1. ai.pc = "read" /\ ai' = [ai EXCEPT !.pc = "send", !.version = version] /\ main' = main
      BY <1>12 DEF AiRead
    <2>2. ai'.conn = ai.conn /\ ai'.user = ai.user
      BY <1>0, <2>1 DEF Thread
    <2> QED BY <2>1, <2>2 DEF InRoute
  <1>13. CASE AiSend
    <2>1. ai'.pc = "idle" /\ main' = main
      BY <1>13 DEF AiSend, Idle
    <2> QED BY <2>1 DEF InRoute
  <1>14. CASE Restart
    BY <1>14 DEF Restart, Idle, InRoute
  <1>15. CASE UNCHANGED vars
    BY <1>1, <1>15 DEF vars
  <1> QED BY <1>3, <1>4, <1>5, <1>6, <1>7, <1>8, <1>9, <1>10, <1>11, <1>12, <1>13, <1>14,
             <1>15 DEF Next, MainStep, AiStep

(* Steps that leave connections, logins and clients alone. *)
LEMMA Elsewhere ==
  ASSUME \/ Reply \/ PushSend \/ Write \/ AutoRefresh \/ (\E u \in Users : PushRead(u))
         \/ (\E u \in Users : AiAnswer(u)) \/ AiStep \/ UNCHANGED vars
  PROVE  /\ UNCHANGED <<phase, toServer, userOf, registry, client, unseated>>
         /\ main' = main \/ main'.pc # "register"
  <1>1. CASE Reply \/ PushSend \/ Write \/ AutoRefresh
    <2>1. main'.pc # "register"
      BY <1>1, PushingType DEF Reply, PushSend, Write, AutoRefresh, Idle
    <2> QED BY <1>1, <2>1 DEF Reply, PushSend, Write, AutoRefresh, server, tcp
  <1>2. ASSUME NEW u \in Users, PushRead(u)
        PROVE  /\ UNCHANGED <<phase, toServer, userOf, registry, client, unseated>>
               /\ main'.pc # "register"
    <2>1. main'.pc # "register"
      BY <1>2, PushingType DEF PushRead
    <2> QED BY <1>2, <2>1 DEF PushRead, server, tcp
  <1>3. CASE (\E u \in Users : AiAnswer(u)) \/ AiStep \/ UNCHANGED vars
    BY <1>3 DEF AiAnswer, AiStep, AiLook, AiRead, AiSend, vars, server, tcp
  <1> QED BY <1>1, <1>2, <1>3

LEMMA FreshStep == TypeOK /\ InRoute /\ Fresh /\ OwnConnections /\ OneLogin /\ [Next]_vars => Fresh'
  <1> SUFFICES ASSUME TypeOK, InRoute, Fresh, OwnConnections, OneLogin, [Next]_vars,
                      NEW c \in Conn, phase'[c] = "unused"
               PROVE  userOf'[c] = NoUser /\ toServer'[c] = <<>>
    BY DEF Fresh
  <1>0. /\ phase \in [Conn -> Phases] /\ toServer \in [Conn -> Seq(Users)]
        /\ userOf \in [Conn -> Users \cup {NoUser}]
        /\ phase[c] = "unused" => userOf[c] = NoUser /\ toServer[c] = <<>>
    BY DEF TypeOK, Fresh
  <1>1. ASSUME NEW k \in Clients, ClientStep(k) PROVE userOf'[c] = NoUser /\ toServer'[c] = <<>>
    <2>1. userOf' = userOf
      BY <1>1, ClientLinks DEF server
    <2>2. CASE Quits(k)
      BY <1>0, <2>1, <2>2 DEF Quits
    <2>3. CASE Joins(k)
      BY <1>0, <2>1, <2>3 DEF Joins
    <2>4. CASE Sends(k)
      <3>1. client[k].conn # c
        BY <2>4 DEF Sends, OwnConnections, NoConn, Conn
      <3> QED BY <1>0, <2>1, <2>4, <3>1 DEF Sends
    <2>5. CASE Hears(k)
      BY <1>0, <2>1, <2>5 DEF Hears
    <2> QED BY <1>1, <2>2, <2>3, <2>4, <2>5, ClientShape
  <1>2. ASSUME NEW d \in Conn, HandleLogin(d) PROVE userOf'[c] = NoUser /\ toServer'[c] = <<>>
    BY <1>0, <1>2 DEF HandleLogin, server
  <1>3. ASSUME NEW d \in Conn, EndOfFile(d) PROVE userOf'[c] = NoUser /\ toServer'[c] = <<>>
    BY <1>0, <1>3 DEF EndOfFile
  <1>4. CASE Register
    <2>1. phase[main.conn] \in Live
      BY <1>4 DEF Register, OneLogin, InRoute, Registering
    <2>2. main.conn # c
      BY <1>4, <2>1 DEF Register, tcp, Live
    <2> QED BY <1>0, <1>4, <2>2 DEF Register, tcp
  <1>5. CASE Restart
    BY <1>0, <1>5 DEF Restart
  <1>6. ASSUME UNCHANGED <<phase, toServer, userOf>>
        PROVE  userOf'[c] = NoUser /\ toServer'[c] = <<>>
    BY <1>0, <1>6
  <1> QED BY <1>1, <1>2, <1>3, <1>4, <1>5, <1>6, Elsewhere DEF Next, MainStep

(* A step of the server leaves the clients alone, and their connections open,
   unless it dies. *)
LEMMA OwnStep == TypeOK /\ OwnConnections /\ [Next]_vars => OwnConnections'
  <1> SUFFICES ASSUME TypeOK, OwnConnections, [Next]_vars PROVE OwnConnections'
    OBVIOUS
  <1>0. phase \in [Conn -> Phases] /\ \A j \in Clients : client[j].conn \in Conn \cup {NoConn}
    BY DEF TypeOK, Client
  <1>1. ASSUME NEW k \in Clients, ClientStep(k) PROVE OwnConnections'
    <2>0. \A j \in Clients \ {k} : client'[j].conn = client[j].conn
      BY <1>1, ClientShape
    <2>1. CASE Quits(k)
      <3>1. \A j \in Clients : client'[j].conn # NoConn =>
               j # k /\ client'[j].conn = client[j].conn /\ client[j].conn # client[k].conn
        BY <2>0, <2>1 DEF Quits, OwnConnections
      <3> QED BY <1>0, <2>1, <3>1 DEF Quits, OwnConnections
    <2>2. CASE Joins(k)
      <3>1. PICK c \in Conn : /\ phase[c] = "unused" /\ client'[k].conn = c
                              /\ \A x \in Conn : phase'[x] = IF x = c THEN "open" ELSE phase[x]
        BY <2>2 DEF Joins
      <3>2. \A j \in Clients : client[j].conn # c
        BY <3>1 DEF OwnConnections, Conn, NoConn
      <3> QED BY <1>0, <2>0, <3>1, <3>2 DEF OwnConnections
    <2>3. CASE Sends(k) \/ Hears(k)
      BY <2>0, <2>3 DEF Sends, Hears, OwnConnections
    <2> QED BY <1>1, <2>1, <2>2, <2>3, ClientShape
  <1>2. ASSUME NEW d \in Conn, EndOfFile(d) PROVE OwnConnections'
    BY <1>0, <1>2 DEF EndOfFile, OwnConnections
  <1>3. ASSUME UNCHANGED <<phase, client>> PROVE OwnConnections'
    BY <1>3 DEF OwnConnections
  <1>4. CASE Restart
    <2>1. \A k \in Clients : client'[k].conn = NoConn
      BY <1>4 DEF Restart, TypeOK, Client
    <2> QED BY <2>1 DEF OwnConnections
  <1> QED BY <1>1, <1>2, <1>3, <1>4, Elsewhere DEF Next, MainStep, HandleLogin, Register, tcp

LEMMA LoginStep ==
  TypeOK /\ InRoute /\ Fresh /\ OwnConnections /\ OneLogin /\ [Next]_vars => OneLogin'
  <1> SUFFICES ASSUME TypeOK, InRoute, Fresh, OwnConnections, OneLogin, [Next]_vars
               PROVE  OneLogin'
    OBVIOUS
  <1>0. /\ phase \in [Conn -> Phases] /\ toServer \in [Conn -> Seq(Users)]
        /\ userOf \in [Conn -> Users \cup {NoUser}] /\ main \in Thread
        /\ \A j \in Clients : client[j].conn \in Conn \cup {NoConn}
    BY DEF TypeOK, Client
  <1> DEFINE Silent(j, c) == client'[j].outbox # NoUser /\ client'[j].conn = c => Anonymous(c)'
             Once(c) == /\ toServer'[c] # <<>> =>
                              Len(toServer'[c]) = 1 /\ userOf'[c] = NoUser /\ ~Registering(c)'
                        /\ Registering(c)' => userOf'[c] = NoUser /\ phase'[c] \in Live
  <1>p. ASSUME \A c \in Conn : Once(c), \A j \in Clients : \A c \in Conn : Silent(j, c)
        PROVE  OneLogin'
    <2>1. \A j \in Clients : client'[j].conn \in Conn \cup {NoConn}
      BY TypeStep DEF TypeOK, Client
    <2> QED BY <1>p, <2>1 DEF OneLogin, Anonymous, Registering
  <1>q. \A j \in Clients : \A c \in Conn :
           client[j].outbox # NoUser /\ client[j].conn = c => Anonymous(c)
    BY DEF OneLogin, Conn, NoConn
  <1>1. ASSUME NEW k \in Clients, ClientStep(k) PROVE OneLogin'
    <2>0. /\ \A j \in Clients \ {k} : client'[j] = client[j]
          /\ userOf' = userOf /\ main' = main
      BY <1>1, ClientShape, ClientLinks DEF server
    <2>1. \A c \in Conn : Registering(c)' <=> Registering(c)
      BY <2>0 DEF Registering
    <2>2. \A c \in Conn : phase[c] \in Live => phase'[c] \in Live
      <3>1. CASE Quits(k)
        BY <3>1 DEF Quits, Live
      <3>2. CASE Joins(k)
        BY <3>2 DEF Joins, Live
      <3>3. CASE Sends(k) \/ Hears(k)
        BY <3>3 DEF Sends, Hears
      <3> QED BY <1>1, <3>1, <3>2, <3>3, ClientShape
    <2>3. CASE toServer' = toServer
      <3>1. \A c \in Conn : Anonymous(c)' <=> Anonymous(c)
        BY <2>0, <2>1, <2>3 DEF Anonymous
      <3>2. ASSUME NEW c \in Conn, client'[k].outbox # NoUser, client'[k].conn = c
            PROVE  Anonymous(c)
        <4>1. CASE Quits(k)
          BY <3>2, <4>1 DEF Quits, Conn, NoConn
        <4>2. CASE Joins(k)
          <5>1. phase[c] = "unused"
            BY <3>2, <4>2 DEF Joins
          <5> QED BY <5>1 DEF Fresh, OneLogin, Anonymous, Live
        <4>3. CASE Sends(k)
          BY <3>2, <4>3 DEF Sends
        <4>4. CASE Hears(k)
          BY <1>q, <3>2, <4>4 DEF Hears
        <4> QED BY <1>1, <4>1, <4>2, <4>3, <4>4, ClientShape
      <3>3. \A j \in Clients : \A c \in Conn : Silent(j, c)
        BY <1>q, <2>0, <3>1, <3>2
      <3>4. \A c \in Conn : Once(c)
        BY <2>0, <2>1, <2>2, <2>3 DEF OneLogin
      <3> QED BY <1>p, <3>3, <3>4
    <2>4. CASE Sends(k)
      <3> DEFINE c == client[k].conn
      <3>1. c \in Conn /\ c # NoConn /\ client[k].outbox \in Users /\ client[k].outbox # NoUser
        BY <2>4, SessionsAssumption DEF Sends, Conn, NoConn
      <3>2. Anonymous(c)
        BY <3>1 DEF OneLogin
      <3>3. /\ toServer'[c] = Append(<<>>, client[k].outbox)
            /\ \A x \in Conn \ {c} : toServer'[x] = toServer[x]
        BY <1>0, <2>4, <3>1, <3>2 DEF Sends, Anonymous
      <3>4. Len(toServer'[c]) = 1
        BY <3>3
      <3>5. client'[k].outbox = NoUser
        BY <2>4 DEF Sends
      <3>6. \A j \in Clients : \A x \in Conn : Silent(j, x)
        <4>1. \A j \in Clients \ {k} : client[j].conn # c
          BY <3>1 DEF OwnConnections
        <4>2. \A x \in Conn \ {c} : Anonymous(x) => Anonymous(x)'
          BY <2>0, <2>1, <3>3 DEF Anonymous
        <4> QED BY <1>q, <2>0, <3>5, <4>1, <4>2
      <3>7. \A x \in Conn : Once(x)
        BY <2>0, <2>1, <2>2, <3>2, <3>3, <3>4 DEF OneLogin, Anonymous
      <3> QED BY <1>p, <3>6, <3>7
    <2> QED BY <1>1, <2>3, <2>4, ClientShape DEF Quits, Joins, Hears
  <1>2. ASSUME NEW c \in Conn, HandleLogin(c) PROVE OneLogin'
    <2>1. /\ Len(toServer[c]) = 1 /\ userOf[c] = NoUser /\ phase[c] \in Live
          /\ toServer[c] \in Seq(Users)
      BY <1>0, <1>2 DEF HandleLogin, OneLogin, Live
    <2>2. Tail(toServer[c]) = <<>>
      <3>1. Len(Tail(toServer[c])) = 0 /\ Tail(toServer[c]) \in Seq(Users)
        BY <2>1
      <3> QED BY <3>1, EmptySeq
    <2>3. /\ toServer'[c] = <<>> /\ \A x \in Conn \ {c} : toServer'[x] = toServer[x]
          /\ phase' = phase /\ userOf' = userOf /\ client' = client
      BY <1>0, <1>2, <2>2 DEF HandleLogin, server
    <2>4. \A x \in Conn : Registering(x)' <=> x = c
      BY <1>2 DEF HandleLogin, Registering
    <2>5. \A x \in Conn \ {c} : Anonymous(x) => Anonymous(x)'
      BY <2>3, <2>4 DEF Anonymous
    <2>6. ~Anonymous(c)
      BY <1>2 DEF HandleLogin, Anonymous
    <2>7. \A k \in Clients : \A x \in Conn : Silent(k, x)
      BY <1>q, <2>3, <2>5, <2>6
    <2>8. \A x \in Conn : Once(x)
      BY <2>1, <2>3, <2>4 DEF OneLogin
    <2> QED BY <1>p, <2>7, <2>8
  <1>3. ASSUME NEW d \in Conn, EndOfFile(d) PROVE OneLogin'
    <2>1. /\ main' = main /\ userOf' = userOf /\ client' = client /\ main = Idle
          /\ \A x \in Conn : toServer'[x] = IF x = d THEN <<>> ELSE toServer[x]
      BY <1>0, <1>3 DEF EndOfFile
    <2>2. \A x \in Conn : ~Registering(x)'
      BY <2>1 DEF Idle, Registering
    <2>3. \A x \in Conn : Anonymous(x) => Anonymous(x)'
      BY <2>1, <2>2 DEF Anonymous
    <2>4. \A k \in Clients : \A x \in Conn : Silent(k, x)
      BY <1>q, <2>1, <2>3
    <2>5. \A x \in Conn : Once(x)
      BY <2>1, <2>2 DEF OneLogin
    <2> QED BY <1>p, <2>4, <2>5
  <1>4. CASE Register
    <2> DEFINE d == main.conn
    <2>1. /\ d \in Conn /\ main.pc = "register" /\ Registering(d)
          /\ main' = [main EXCEPT !.pc = "reply"]
          /\ toServer' = toServer /\ phase' = phase /\ client' = client
          /\ \A x \in Conn \ {d} : userOf'[x] = userOf[x]
      BY <1>0, <1>4 DEF Register, InRoute, tcp, Registering
    <2>2. main'.pc = "reply"
      BY <1>0, <2>1 DEF Thread
    <2>3. \A x \in Conn : ~Registering(x)'
      BY <2>2 DEF Registering
    <2>4. \A x \in Conn : Anonymous(x) => Anonymous(x)'
      BY <2>1, <2>3 DEF Anonymous
    <2>5. toServer[d] = <<>>
      BY <2>1 DEF OneLogin
    <2>6. \A k \in Clients : \A x \in Conn : Silent(k, x)
      BY <1>q, <2>1, <2>4
    <2>7. \A x \in Conn : Once(x)
      BY <2>1, <2>3, <2>5 DEF OneLogin
    <2> QED BY <1>p, <2>6, <2>7
  <1>5. CASE Restart
    <2>1. \A k \in Clients : client'[k].conn = NoConn
      BY <1>5 DEF Restart, TypeOK, Client
    <2>2. \A x \in Conn : toServer'[x] = <<>> /\ ~Registering(x)'
      BY <1>5 DEF Restart, Idle, Registering
    <2>3. \A k \in Clients : \A x \in Conn : Silent(k, x)
      BY <2>1 DEF Conn, NoConn
    <2>4. \A x \in Conn : Once(x)
      BY <2>2
    <2> QED BY <1>p, <2>3, <2>4
  <1>6. ASSUME UNCHANGED <<phase, toServer, userOf, registry, client, unseated>>,
               main' = main \/ main'.pc # "register"
        PROVE  OneLogin'
    <2>1. \A x \in Conn : Registering(x)' => Registering(x)
      BY <1>6 DEF Registering
    <2>2. \A x \in Conn : Anonymous(x) => Anonymous(x)'
      BY <1>6, <2>1 DEF Anonymous
    <2>3. \A k \in Clients : \A x \in Conn : Silent(k, x)
      BY <1>q, <1>6, <2>2
    <2>4. \A x \in Conn : Once(x)
      BY <1>6, <2>1 DEF OneLogin
    <2> QED BY <1>p, <2>3, <2>4
  <1> QED BY <1>1, <1>2, <1>3, <1>4, <1>5, <1>6, Elsewhere DEF Next, MainStep

(* Only Register gives a connection a user, and only one that had none. *)
LEMMA MailStep == TypeOK /\ InRoute /\ OneLogin /\ MailFits /\ [Next]_vars => MailFits'
  <1> SUFFICES ASSUME TypeOK, InRoute, OneLogin, MailFits, [Next]_vars PROVE MailFits'
    OBVIOUS
  <1> DEFINE Registry == \A u \in Users : registry'[u] # NoConn => userOf'[registry'[u]] = u
             Main == main'.pc \in {"reply", "send"} => userOf'[main'.conn] = main'.user
             Ai == ai'.pc \in {"read", "send"} => userOf'[ai'.conn] = ai'.user
             Under == \A c \in Conn : \A i \in DOMAIN toClient'[c] :
                         toClient'[c][i].user = userOf'[c]
  <1>p. ASSUME Registry, Main, Ai, Under PROVE MailFits'
    BY <1>p DEF MailFits
  <1>0. /\ toClient \in [Conn -> Seq(Mail)] /\ userOf \in [Conn -> Users \cup {NoUser}]
        /\ registry \in [Users -> Conn \cup {NoConn}] /\ main \in Thread /\ ai \in Thread
    BY DEF TypeOK
  <1>1. ASSUME userOf' = userOf, registry' = registry PROVE Registry
    BY <1>1 DEF MailFits
  <1>2. ASSUME userOf' = userOf, main' = main PROVE Main
    BY <1>2 DEF MailFits
  <1>3. ASSUME userOf' = userOf, ai' = ai PROVE Ai
    BY <1>3 DEF MailFits
  <1>4. ASSUME userOf' = userOf, toClient' = toClient PROVE Under
    BY <1>4 DEF MailFits
  <1>5. ASSUME NEW c \in Conn, NEW mail \in Mail, Post(c, mail), mail.user = userOf[c],
               userOf' = userOf
        PROVE  Under
    BY <1>0, <1>5, PostFacts DEF MailFits
  <1>6. ASSUME NEW k \in Clients, ClientStep(k) PROVE MailFits'
    <2>1. UNCHANGED <<userOf, registry, main, ai>>
      BY <1>6, ClientLinks DEF server
    <2>2. CASE Quits(k)
      <3>1. DOMAIN <<>> = {}
        OBVIOUS
      <3>2. Under
        BY <2>1, <2>2, <3>1 DEF Quits, MailFits
      <3> QED BY <1>1, <1>2, <1>3, <1>p, <2>1, <3>2
    <2>3. CASE toClient' = toClient
      BY <1>1, <1>2, <1>3, <1>4, <1>p, <2>1, <2>3
    <2>4. ASSUME NEW c \in Conn, toClient[c] # <<>>,
                 toClient' = [toClient EXCEPT ![c] = Tail(toClient[c])]
          PROVE  MailFits'
      <3>1. \A i \in DOMAIN Tail(toClient[c]) :
               i + 1 \in DOMAIN toClient[c] /\ Tail(toClient[c])[i] = toClient[c][i + 1]
        BY <1>0, <2>4, TailFacts
      <3>2. /\ toClient'[c] = Tail(toClient[c])
            /\ \A x \in Conn \ {c} : toClient'[x] = toClient[x]
        BY <1>0, <2>4
      <3>3. Under
        <4>1. \A i \in DOMAIN Tail(toClient[c]) : Tail(toClient[c])[i].user = userOf[c]
          BY <3>1 DEF MailFits
        <4>2. \A x \in Conn \ {c} : \A i \in DOMAIN toClient'[x] :
                 toClient'[x][i].user = userOf[x]
          BY <3>2 DEF MailFits
        <4> QED BY <2>1, <3>2, <4>1, <4>2
      <3> QED BY <1>1, <1>2, <1>3, <1>p, <2>1, <3>3
    <2> QED BY <1>6, <2>2, <2>3, <2>4, ClientShape DEF Joins, Sends, Hears
  <1>7. ASSUME NEW c \in Conn, HandleLogin(c) PROVE MailFits'
    <2>1. main'.pc = "register" /\ UNCHANGED <<userOf, registry, ai, toClient>>
      BY <1>7 DEF HandleLogin, server
    <2> QED BY <1>1, <1>3, <1>4, <1>p, <2>1
  <1>8. ASSUME NEW c \in Conn, EndOfFile(c) PROVE MailFits'
    <2>1. /\ UNCHANGED <<userOf, main, ai, toClient>>
          /\ \A u \in Users : registry'[u] # NoConn => registry'[u] = registry[u]
      BY <1>8 DEF EndOfFile
    <2>2. Registry
      BY <2>1 DEF MailFits
    <2> QED BY <1>2, <1>3, <1>4, <1>p, <2>1, <2>2
  <1>9. CASE Register
    <2> DEFINE d == main.conn
    <2>1. /\ d \in Conn /\ main.user \in Users /\ userOf[d] = NoUser
          /\ main' = [main EXCEPT !.pc = "reply"]
          /\ registry' = [registry EXCEPT ![main.user] = d]
          /\ userOf' = [userOf EXCEPT ![d] = main.user]
          /\ toClient' = toClient /\ ai' = ai
      BY <1>9 DEF Register, InRoute, OneLogin, Registering, tcp
    <2>2. \A x \in Conn : userOf[x] # NoUser => userOf'[x] = userOf[x]
      BY <1>0, <2>1
    <2>3. userOf'[d] = main.user
      BY <1>0, <2>1
    <2>4. Registry
      <3>1. \A u \in Users : registry[u] # NoConn =>
               registry[u] \in Conn /\ userOf[registry[u]] = u /\ u # NoUser
        BY <1>0, SessionsAssumption DEF MailFits
      <3> QED BY <1>0, <2>1, <2>2, <2>3, <3>1
    <2>5. Main
      BY <1>0, <2>1, <2>3 DEF Thread
    <2>6. Ai
      BY <2>1, <2>2, SessionsAssumption DEF MailFits, InRoute
    <2>7. Under
      <3>1. \A x \in Conn : \A i \in DOMAIN toClient[x] : toClient[x][i].user \in Users
        <4> SUFFICES ASSUME NEW x \in Conn, NEW i \in DOMAIN toClient[x]
                     PROVE  toClient[x][i].user \in Users
          OBVIOUS
        <4>1. toClient[x][i] \in Mail
          BY <1>0
        <4> QED BY <4>1 DEF Mail
      <3> QED BY <2>1, <2>2, <3>1, SessionsAssumption DEF MailFits
    <2> QED BY <1>p, <2>4, <2>5, <2>6, <2>7
  <1>10. CASE Reply
    <2> DEFINE mail == [kind |-> "login", user |-> main.user, version |-> main.version]
    <2>1. /\ Post(main.conn, mail) /\ main.conn \in Conn /\ main'.pc = "idle"
          /\ mail.user = userOf[main.conn] /\ main.user \in Users
          /\ UNCHANGED <<userOf, registry, ai>>
      BY <1>10 DEF Reply, Idle, InRoute, MailFits, server
    <2>2. mail \in Mail
      BY <1>0, <2>1 DEF Mail, Thread
    <2> HIDE DEF mail
    <2> QED BY <1>1, <1>3, <1>5, <1>p, <2>1, <2>2
  <1>11. CASE PushSend
    <2> DEFINE mail == [kind |-> "push", user |-> main.user, version |-> main.version]
    <2>1. /\ Post(main.conn, mail) /\ main.conn \in Conn
          /\ mail.user = userOf[main.conn] /\ main.user \in Users
          /\ UNCHANGED <<userOf, registry, ai>>
      BY <1>11 DEF PushSend, InRoute, MailFits, server
    <2>2. mail \in Mail
      BY <1>0, <2>1 DEF Mail, Thread
    <2>3. main'.pc \in {"idle", "push"}
      BY <1>11, PushingType DEF PushSend
    <2> HIDE DEF mail
    <2> QED BY <1>1, <1>3, <1>5, <1>p, <2>1, <2>2, <2>3
  <1>12. CASE Write \/ AutoRefresh
    <2>1. main'.pc \in {"idle", "push"} /\ UNCHANGED <<userOf, registry, ai, toClient>>
      BY <1>12, PushingType DEF Write, AutoRefresh, tcp, server
    <2> QED BY <1>1, <1>3, <1>4, <1>p, <2>1
  <1>13. ASSUME NEW u \in Users, PushRead(u) PROVE MailFits'
    <2>1. UNCHANGED <<userOf, registry, ai, toClient>>
      BY <1>13 DEF PushRead, tcp, server
    <2>2. Main
      <3>1. CASE registry[u] = NoConn
        <4>1. main'.pc \in {"idle", "push"}
          BY <1>13, <3>1, PushingType DEF PushRead
        <4> QED BY <4>1
      <3>2. CASE registry[u] # NoConn
        <4>1. main'.conn = registry[u] /\ main'.user = u
          BY <1>13, <3>2 DEF PushRead
        <4> QED BY <2>1, <3>2, <4>1 DEF MailFits
      <3> QED BY <3>1, <3>2
    <2> QED BY <1>1, <1>3, <1>4, <1>p, <2>1, <2>2
  <1>14. ASSUME NEW u \in Users, AiAnswer(u) PROVE MailFits'
    <2>1. ai'.pc = "look" /\ UNCHANGED <<userOf, registry, main, toClient>>
      BY <1>14 DEF AiAnswer, Idle, tcp
    <2> QED BY <1>1, <1>2, <1>4, <1>p, <2>1
  <1>15. CASE AiLook
    <2>1. UNCHANGED <<userOf, registry, main, toClient>> /\ ai.user \in Users
      BY <1>15 DEF AiLook, InRoute, tcp, server
    <2>2. Ai
      <3>1. CASE registry[ai.user] = NoConn
        BY <1>15, <3>1 DEF AiLook, Idle
      <3>2. CASE registry[ai.user] # NoConn
        <4>1. ai' = [ai EXCEPT !.pc = "read", !.conn = registry[ai.user]]
          BY <1>15, <3>2 DEF AiLook
        <4>2. ai'.conn = registry[ai.user] /\ ai'.user = ai.user
          BY <1>0, <4>1 DEF Thread
        <4> QED BY <2>1, <3>2, <4>2 DEF MailFits
      <3> QED BY <3>1, <3>2
    <2> QED BY <1>1, <1>2, <1>4, <1>p, <2>1, <2>2
  <1>16. CASE AiRead
    <2>1. UNCHANGED <<userOf, registry, main, toClient>> /\ ai.pc = "read"
          /\ ai' = [ai EXCEPT !.pc = "send", !.version = version]
      BY <1>16 DEF AiRead, tcp, server
    <2>2. ai'.conn = ai.conn /\ ai'.user = ai.user
      BY <1>0, <2>1 DEF Thread
    <2>3. Ai
      BY <2>1, <2>2 DEF MailFits
    <2> QED BY <1>1, <1>2, <1>4, <1>p, <2>1, <2>3
  <1>17. CASE AiSend
    <2> DEFINE mail == [kind |-> "push", user |-> ai.user, version |-> ai.version]
    <2>1. /\ Post(ai.conn, mail) /\ ai.conn \in Conn /\ ai'.pc = "idle"
          /\ mail.user = userOf[ai.conn] /\ ai.user \in Users
          /\ UNCHANGED <<userOf, registry, main>>
      BY <1>17 DEF AiSend, Idle, InRoute, MailFits, server
    <2>2. mail \in Mail
      BY <1>0, <2>1 DEF Mail, Thread
    <2> HIDE DEF mail
    <2> QED BY <1>1, <1>2, <1>5, <1>p, <2>1, <2>2
  <1>18. CASE Restart
    <2>1. /\ \A u \in Users : registry'[u] = NoConn
          /\ \A c \in Conn : toClient'[c] = <<>>
          /\ main'.pc = "idle" /\ ai'.pc = "idle"
      BY <1>18 DEF Restart, Idle
    <2>2. DOMAIN <<>> = {}
      OBVIOUS
    <2> QED BY <1>p, <2>1, <2>2
  <1>19. CASE UNCHANGED vars
    BY <1>1, <1>2, <1>3, <1>4, <1>p, <1>19 DEF vars, tcp, server
  <1> QED BY <1>6, <1>7, <1>8, <1>9, <1>10, <1>11, <1>12, <1>13, <1>14, <1>15, <1>16, <1>17,
             <1>18, <1>19 DEF Next, MainStep, AiStep

(* What is heard over a connection is the user the connection got. *)
LEMMA SignedStep ==
  TypeOK /\ InRoute /\ Fresh /\ OwnConnections /\ OneLogin /\ MailFits /\ SignedIn /\ [Next]_vars
  => SignedIn'
  <1> SUFFICES ASSUME TypeOK, InRoute, Fresh, OwnConnections, OneLogin, MailFits, SignedIn,
                      [Next]_vars
               PROVE  SignedIn'
    OBVIOUS
  <1>0. /\ toServer \in [Conn -> Seq(Users)] /\ toClient \in [Conn -> Seq(Mail)]
        /\ userOf \in [Conn -> Users \cup {NoUser}] /\ main \in Thread
        /\ \A j \in Clients : client[j].conn \in Conn \cup {NoConn}
    BY DEF TypeOK, Client
  <1> DEFINE Kept(j) == client'[j].outbox = NoUser /\ client'[j].user # NoUser
             Theirs(j, c) == userOf'[c] = client'[j].user \/ Anonymous(c)'
             Fits(j) == client'[j].signedIn =>
                           Kept(j) /\ \A c \in Conn : client'[j].conn = c => Theirs(j, c)
  <1>p. ASSUME \A j \in Clients : Fits(j) PROVE SignedIn'
    <2>1. \A j \in Clients : client'[j].conn \in Conn \cup {NoConn}
      BY TypeStep DEF TypeOK, Client
    <2> QED BY <1>p, <2>1 DEF SignedIn, Anonymous, Registering
  <1>q. \A j \in Clients : client[j].signedIn =>
           /\ client[j].outbox = NoUser /\ client[j].user # NoUser
           /\ \A c \in Conn : client[j].conn = c => userOf[c] = client[j].user \/ Anonymous(c)
    BY DEF SignedIn, Conn, NoConn
  <1>1. ASSUME NEW k \in Clients, ClientStep(k) PROVE SignedIn'
    <2>0. /\ \A j \in Clients \ {k} : client'[j] = client[j]
          /\ userOf' = userOf /\ main' = main
      BY <1>1, ClientShape, ClientLinks DEF server
    <2>1. \A c \in Conn : toServer'[c] = toServer[c] => (Anonymous(c)' <=> Anonymous(c))
      BY <2>0 DEF Anonymous, Registering
    <2>2. \A j \in Clients \ {k} : Fits(j)
      <3>1. CASE toServer' = toServer
        BY <1>q, <2>0, <2>1, <3>1
      <3>2. CASE Sends(k)
        <4>1. \A j \in Clients \ {k} : client[j].conn # client[k].conn
          BY <3>2 DEF Sends, OwnConnections, Conn, NoConn
        <4>2. \A c \in Conn : c # client[k].conn => toServer'[c] = toServer[c]
          BY <1>0, <3>2 DEF Sends
        <4> QED BY <1>q, <2>0, <2>1, <4>1, <4>2
      <3> QED BY <1>1, <3>1, <3>2, ClientShape DEF Quits, Joins, Hears
    <2>3. Fits(k)
      <3>1. CASE Quits(k)
        BY <1>q, <3>1 DEF Quits, Conn, NoConn
      <3>2. CASE Joins(k)
        <4>1. PICK c \in Conn : phase[c] = "unused" /\ client'[k].conn = c
          BY <3>2 DEF Joins
        <4>2. Anonymous(c)
          BY <4>1 DEF Fresh, OneLogin, Anonymous, Live
        <4>3. Anonymous(c)'
          BY <2>1, <3>2, <4>2 DEF Joins
        <4> QED BY <1>q, <3>2, <4>1, <4>3 DEF Joins
      <3>3. CASE Sends(k)
        BY <1>q, <3>3, SessionsAssumption DEF Sends
      <3>4. CASE Hears(k)
        <4>1. /\ client'[k].conn = client[k].conn /\ client'[k].outbox = client[k].outbox
              /\ toServer' = toServer
          BY <3>4 DEF Hears
        <4>2. CASE client'[k].signedIn = client[k].signedIn /\ client'[k].user = client[k].user
          BY <1>q, <2>0, <2>1, <4>1, <4>2
        <4>3. CASE /\ client[k].conn \in Conn /\ toClient[client[k].conn] # <<>>
                   /\ client'[k].user = Head(toClient[client[k].conn]).user
          <5> DEFINE c == client[k].conn
          <5>1. /\ c \in Conn /\ Head(toClient[c]) \in Mail
                /\ 1 \in DOMAIN toClient[c] /\ Head(toClient[c]) = toClient[c][1]
            BY <1>0, <4>3, TailFacts
          <5>2. client'[k].user = userOf[c] /\ client'[k].user \in Users
            BY <4>3, <5>1 DEF MailFits, Mail
          <5>3. ~Anonymous(c) /\ c # NoConn
            BY <5>1, <5>2, SessionsAssumption DEF Anonymous, Conn, NoConn
          <5>4. client[k].outbox = NoUser
            BY <5>3 DEF OneLogin
          <5> QED BY <2>0, <4>1, <5>2, <5>4, SessionsAssumption
        <4> QED BY <3>4, <4>2, <4>3 DEF Hears
      <3> QED BY <1>1, <3>1, <3>2, <3>3, <3>4, ClientShape
    <2> QED BY <1>p, <2>2, <2>3
  <1>2. ASSUME client' = client, userOf' = userOf,
               \A c \in Conn : Anonymous(c) => Anonymous(c)'
        PROVE  SignedIn'
    <2>1. \A j \in Clients : Fits(j)
      BY <1>q, <1>2
    <2> QED BY <1>p, <2>1
  <1>3. ASSUME NEW c \in Conn, HandleLogin(c) PROVE SignedIn'
    <2>1. /\ client' = client /\ userOf' = userOf /\ toServer[c] # <<>> /\ main'.conn = c
          /\ \A x \in Conn \ {c} : toServer'[x] = toServer[x]
      BY <1>0, <1>3 DEF HandleLogin, server
    <2>2. \A x \in Conn : Anonymous(x) => Anonymous(x)'
      BY <2>1 DEF Anonymous, Registering
    <2> QED BY <1>2, <2>1, <2>2
  <1>4. ASSUME NEW c \in Conn, EndOfFile(c) PROVE SignedIn'
    <2>1. /\ client' = client /\ userOf' = userOf /\ main' = main
          /\ \A x \in Conn : toServer'[x] = IF x = c THEN <<>> ELSE toServer[x]
      BY <1>0, <1>4 DEF EndOfFile
    <2>2. \A x \in Conn : Anonymous(x) => Anonymous(x)'
      BY <2>1 DEF Anonymous, Registering
    <2> QED BY <1>2, <2>1, <2>2
  <1>5. CASE Register
    <2> DEFINE d == main.conn
    <2>1. /\ d \in Conn /\ Registering(d) /\ userOf[d] = NoUser /\ main.user \in Users
          /\ main' = [main EXCEPT !.pc = "reply"] /\ client' = client
          /\ toServer' = toServer /\ userOf' = [userOf EXCEPT ![d] = main.user]
      BY <1>5 DEF Register, InRoute, OneLogin, Registering, tcp
    <2>2. main'.pc = "reply"
      BY <1>0, <2>1 DEF Thread
    <2>3. ~Anonymous(d) /\ \A x \in Conn \ {d} : userOf'[x] = userOf[x]
      BY <1>0, <2>1 DEF Anonymous
    <2>4. \A x \in Conn \ {d} : Anonymous(x) => Anonymous(x)'
      BY <2>1, <2>2, <2>3 DEF Anonymous, Registering
    <2>5. \A j \in Clients : client[j].signedIn => client[j].conn # d
      BY <1>q, <2>1, <2>3
    <2>6. \A j \in Clients : Fits(j)
      BY <1>q, <2>1, <2>3, <2>4, <2>5
    <2> QED BY <1>p, <2>6
  <1>6. CASE Restart
    <2>1. \A j \in Clients : /\ client'[j].conn = NoConn
                             /\ client'[j].signedIn = client[j].signedIn
                             /\ client'[j].outbox = client[j].outbox
                             /\ client'[j].user = client[j].user
      BY <1>6 DEF Restart, TypeOK, Client
    <2>2. \A j \in Clients : Fits(j)
      BY <1>q, <2>1 DEF Conn, NoConn
    <2> QED BY <1>p, <2>2
  <1>7. ASSUME UNCHANGED <<phase, toServer, userOf, registry, client, unseated>>,
               main' = main \/ main'.pc # "register"
        PROVE  SignedIn'
    <2>1. \A x \in Conn : Anonymous(x) => Anonymous(x)'
      BY <1>7 DEF Anonymous, Registering
    <2> QED BY <1>2, <1>7, <2>1
  <1> QED BY <1>1, <1>3, <1>4, <1>5, <1>6, <1>7, Elsewhere DEF Next, MainStep

(* A client opens a connection that nobody has known, or closes its own. *)
LEMMA ClientPhases ==
  ASSUME TypeOK, Fresh, OwnConnections, NEW k \in Clients, ClientStep(k),
         NEW c \in Conn, userOf[c] # NoUser
  PROVE  /\ phase'[c] = "open" => phase[c] = "open"
         /\ phase'[c] \in Live => phase[c] \in Live
  <1>0. phase \in [Conn -> Phases] /\ client[k].conn \in Conn \cup {NoConn}
    BY DEF TypeOK, Client
  <1>1. CASE Quits(k)
    BY <1>0, <1>1 DEF Quits, OwnConnections, Live, Conn, NoConn
  <1>2. CASE Joins(k)
    <2>1. PICK d \in Conn : /\ phase[d] = "unused"
                            /\ \A x \in Conn : phase'[x] = IF x = d THEN "open" ELSE phase[x]
      BY <1>2 DEF Joins
    <2>2. c # d
      BY <2>1 DEF Fresh
    <2> QED BY <2>1, <2>2
  <1>3. CASE Sends(k) \/ Hears(k)
    BY <1>3 DEF Sends, Hears
  <1> QED BY <1>1, <1>2, <1>3, ClientShape

(* A connection keeps the user it logged in as, so it keeps having one. *)
LEMMA UnseatedStep ==
  TypeOK /\ InRoute /\ UnseatedLoggedIn /\ [Next]_vars => UnseatedLoggedIn'
  <1> SUFFICES ASSUME TypeOK, InRoute, UnseatedLoggedIn, [Next]_vars,
                      NEW c \in unseated'
               PROVE  userOf'[c] # NoUser
    BY DEF UnseatedLoggedIn
  <1>0. userOf \in [Conn -> Users \cup {NoUser}] /\ unseated \subseteq Conn
    BY DEF TypeOK
  <1>1. ASSUME userOf' = userOf, unseated' = unseated PROVE userOf'[c] # NoUser
    BY <1>1 DEF UnseatedLoggedIn
  <1>2. ASSUME NEW k \in Clients, ClientStep(k) PROVE userOf'[c] # NoUser
    BY <1>1, <1>2, ClientLinks DEF server
  <1>3. ASSUME NEW e \in Conn, EndOfFile(e) PROVE userOf'[c] # NoUser
    BY <1>3 DEF EndOfFile, UnseatedLoggedIn, Held
  <1>4. CASE Register
    <2>1. /\ main.user \in Users /\ userOf' = [userOf EXCEPT ![main.conn] = main.user]
          /\ unseated' = unseated \cup (Held(main.user) \ {main.conn})
      BY <1>4 DEF Register, InRoute
    <2>2. c \in Conn /\ userOf[c] # NoUser
      BY <1>0, <2>1 DEF UnseatedLoggedIn, Held
    <2> QED BY <1>0, <2>1, <2>2, SessionsAssumption
  <1>5. CASE Restart
    BY <1>1, <1>5 DEF Restart
  <1>6. ASSUME UNCHANGED <<userOf, unseated>> PROVE userOf'[c] # NoUser
    BY <1>1, <1>6
  <1> QED BY <1>2, <1>3, <1>4, <1>5, <1>6, Elsewhere DEF Next, MainStep, HandleLogin, server

(* A connection is registered when it gets its user; from then on its entry goes
   by a login of the same user, or by the end of a connection of the same user,
   and both leave it among the unseated, which never log in again. *)
LEMMA PlaceStep ==
  /\ TypeOK /\ InRoute /\ Fresh /\ OwnConnections /\ OneLogin
  /\ UnseatedLoggedIn /\ PushedToUntilUnseated /\ [Next]_vars
  => PushedToUntilUnseated'
  <1> SUFFICES ASSUME TypeOK, InRoute, Fresh, OwnConnections, OneLogin,
                      UnseatedLoggedIn, PushedToUntilUnseated, [Next]_vars,
                      NEW c \in Conn, phase'[c] = "open", userOf'[c] # NoUser
               PROVE  registry'[userOf'[c]] = c <=> c \notin unseated'
    BY DEF PushedToUntilUnseated
  <1> DEFINE Goal == registry'[userOf'[c]] = c <=> c \notin unseated'
  <1>0. /\ phase \in [Conn -> Phases] /\ userOf \in [Conn -> Users \cup {NoUser}]
        /\ registry \in [Users -> Conn \cup {NoConn}]
    BY DEF TypeOK
  <1>1. ASSUME userOf' = userOf, unseated' = unseated, registry' = registry,
               phase'[c] = "open" => phase[c] = "open"
        PROVE  Goal
    BY <1>1 DEF PushedToUntilUnseated
  <1>2. ASSUME NEW k \in Clients, ClientStep(k) PROVE Goal
    <2>1. userOf' = userOf /\ unseated' = unseated /\ registry' = registry
      BY <1>2, ClientLinks DEF server
    <2>2. phase[c] = "open" \/ userOf[c] = NoUser
      BY <1>2, ClientPhases
    <2> QED BY <1>1, <2>1, <2>2
  <1>3. ASSUME NEW e \in Conn, EndOfFile(e) PROVE Goal
    <2>1. /\ userOf' = userOf /\ phase[c] = "open" /\ c # e
          /\ registry' = [u \in Users |-> IF u = userOf[e] THEN NoConn ELSE registry[u]]
          /\ unseated' = unseated \cup (Held(userOf[e]) \ {e})
      BY <1>0, <1>3 DEF EndOfFile
    <2>2. userOf[c] \in Users /\ NoConn \notin Conn
      BY <1>0, <2>1 DEF Conn, NoConn
    <2>3. CASE userOf[c] = userOf[e]
      BY <2>1, <2>2, <2>3 DEF Held
    <2>4. CASE userOf[c] # userOf[e]
      <3>1. registry'[userOf[c]] = registry[userOf[c]]
        BY <2>1, <2>2, <2>4
      <3>2. c \in unseated' <=> c \in unseated
        BY <2>1, <2>4 DEF Held
      <3> QED BY <2>1, <3>1, <3>2 DEF PushedToUntilUnseated
    <2> QED BY <2>3, <2>4
  <1>4. CASE Register
    <2> DEFINE m == main.conn
    <2>1. /\ m \in Conn /\ main.user \in Users /\ phase' = phase
          /\ userOf' = [userOf EXCEPT ![m] = main.user]
          /\ registry' = [registry EXCEPT ![main.user] = m]
          /\ unseated' = unseated \cup (Held(main.user) \ {m})
      BY <1>4 DEF Register, InRoute, tcp
    <2>2. CASE c = m
      <3>1. c \notin unseated
        BY <1>4, <2>2 DEF Register, OneLogin, Registering, UnseatedLoggedIn
      <3> QED BY <1>0, <2>1, <2>2, <3>1
    <2>3. CASE c # m
      <3>1. userOf'[c] = userOf[c] /\ userOf[c] \in Users
        BY <1>0, <2>1, <2>3
      <3>2. CASE userOf[c] = main.user
        BY <1>0, <2>1, <2>3, <3>1, <3>2 DEF Held
      <3>3. CASE userOf[c] # main.user
        <4>1. registry'[userOf[c]] = registry[userOf[c]]
          BY <1>0, <2>1, <3>1, <3>3
        <4>2. c \in unseated' <=> c \in unseated
          BY <2>1, <3>3 DEF Held
        <4> QED BY <2>1, <3>1, <4>1, <4>2 DEF PushedToUntilUnseated
      <3> QED BY <3>2, <3>3
    <2> QED BY <2>2, <2>3
  <1>5. CASE Restart
    BY <1>5 DEF Restart
  <1>6. ASSUME UNCHANGED <<phase, userOf, unseated, registry>> PROVE Goal
    BY <1>1, <1>6
  <1> QED BY <1>2, <1>3, <1>4, <1>5, <1>6, Elsewhere DEF Next, MainStep, HandleLogin, server

----------------------------------------------------------------------------
(* The theorems *)

(* The invariant of Sessions holds: connections are their clients' own, they
   carry one login, and registry, threads and mail fit the user they got. *)
THEOREM InvHolds == Spec => []Inv
  <1>1. Inv /\ [Next]_vars => Inv'
    BY TypeStep, RouteStep, FreshStep, OwnStep, LoginStep, MailStep, SignedStep, UnseatedStep,
       PlaceStep DEF Inv
  <1> QED BY <1>1, InitInv, PTL DEF Spec, SafeSpec

(* The variables keep their types (the members of TcpConnection,
   ConnectionManager and the client's network manager). *)
THEOREM TypeCorrect == Spec => []TypeOK
  <1>1. Inv => TypeOK
    BY DEF Inv
  <1> QED BY <1>1, InvHolds, PTL

(* The server pushes to a connection that logged in until its user logs in over
   another one or another one of its user is found dead, and then never again
   (ConnectionManager::addConnection, TcpConnection::doRead). *)
THEOREM PlacesKept == Spec => []PushedToUntilUnseated
  <1>1. Inv => PushedToUntilUnseated
    BY DEF Inv
  <1> QED BY <1>1, InvHolds, PTL

(* No payload turns a window into another user's: everything on its way over
   the connection of a signed-in client is for the user of the connection, and
   that is its own (LoginWindow::handleLogin, ClientState::loadFromPayload). *)
THEOREM UsersStay == Spec => TheUserStays
  <1> DEFINE Stays == \A k \in Clients :
                client[k].signedIn /\ client'[k].signedIn => client'[k].user = client[k].user
  <1>1. Inv /\ [Next]_vars => Stays
    <2> SUFFICES ASSUME Inv, [Next]_vars, NEW j \in Clients,
                        client[j].signedIn, client'[j].signedIn
                 PROVE  client'[j].user = client[j].user
      OBVIOUS
    <2>0. TypeOK /\ MailFits /\ SignedIn /\ SessionsAssumption
      BY SessionsAssumption DEF Inv
    <2>1. ASSUME NEW k \in Clients, ClientStep(k) PROVE client'[j].user = client[j].user
      <3>1. CASE j # k
        BY <2>0, <2>1, <3>1, ClientShape
      <3>2. CASE Quits(j) \/ Joins(j) \/ Sends(j)
        BY <3>2 DEF Quits, Joins, Sends
      <3>3. ASSUME client[j].conn \in Conn, toClient[client[j].conn] # <<>>,
                   client'[j].user = Head(toClient[client[j].conn]).user
            PROVE  client'[j].user = client[j].user
        <4> DEFINE c == client[j].conn
        <4>1. c \in Conn /\ c # NoConn /\ toClient[c] \in Seq(Mail) /\ toClient[c] # <<>>
          BY <2>0, <3>3 DEF TypeOK, Conn, NoConn
        <4>2. /\ 1 \in DOMAIN toClient[c] /\ Head(toClient[c]) = toClient[c][1]
              /\ Head(toClient[c]) \in Mail
          BY <4>1, TailFacts
        <4>3. Head(toClient[c]).user = userOf[c] /\ Head(toClient[c]).user \in Users
          BY <2>0, <4>1, <4>2 DEF MailFits, Mail
        <4>4. userOf[c] = client[j].user \/ Anonymous(c)
          BY <2>0, <4>1 DEF SignedIn
        <4> QED BY <2>0, <3>3, <4>3, <4>4 DEF Anonymous, SessionsAssumption
      <3> QED BY <2>0, <2>1, <3>1, <3>2, <3>3, ClientShape DEF Hears
    <2>2. CASE Restart
      BY <2>0, <2>2 DEF Restart, TypeOK, Client
    <2>3. CASE client' = client
      BY <2>3
    <2> QED BY <2>1, <2>2, <2>3, Elsewhere
            DEF Next, MainStep, HandleLogin, EndOfFile, Register
  <1>2. Stays => [Stays]_vars
    OBVIOUS
  <1> QED BY <1>1, <1>2, InvHolds, PTL DEF Spec, SafeSpec, TheUserStays
=============================================================================
