--------------------------- MODULE RequestsProofs ---------------------------
(***************************************************************************)
(* Proofs about Requests for any number of calls and connections: Inv is   *)
(* inductive, and with it every step of Requests is a step of RemoteCall   *)
(* or changes nothing there.                                               *)
(***************************************************************************)
EXTENDS Requests, SequenceTheorems, TLAPS, FiniteSetTheorems

(* An element appended comes last, the others stay where they are. *)
LEMMA AppendFacts ==
  ASSUME NEW S, NEW s \in Seq(S), NEW x \in S
  PROVE  /\ Append(s, x) \in Seq(S) /\ Append(s, x) # <<>>
         /\ Len(Append(s, x)) = Len(s) + 1 /\ Append(s, x)[Len(s) + 1] = x
         /\ DOMAIN Append(s, x) = DOMAIN s \cup {Len(s) + 1}
         /\ Len(s) \in Nat /\ Len(s) + 1 \notin DOMAIN s
         /\ \A i \in DOMAIN s : i \in Nat /\ i <= Len(s) /\ Append(s, x)[i] = s[i]
         /\ \A i \in DOMAIN Append(s, x) :
               Append(s, x)[i] = x \/ (i \in DOMAIN s /\ Append(s, x)[i] = s[i])
  <1>1. /\ Append(s, x) \in Seq(S) /\ Append(s, x) # <<>>
        /\ Len(Append(s, x)) = Len(s) + 1
        /\ \A i \in 1..Len(s) : Append(s, x)[i] = s[i]
        /\ Append(s, x)[Len(s) + 1] = x
    BY AppendProperties
  <1>2. DOMAIN Append(s, x) = 1..Len(s) + 1 /\ DOMAIN s = 1..Len(s) /\ Len(s) \in Nat
    BY <1>1, LenProperties
  <1> QED BY <1>1, <1>2

(* The tail holds the elements after the first. *)
LEMMA TailFacts ==
  ASSUME NEW S, NEW s \in Seq(S), s # <<>>
  PROVE  /\ Head(s) \in S /\ 1 \in DOMAIN s /\ Head(s) = s[1]
         /\ Tail(s) \in Seq(S)
         /\ \A i \in DOMAIN Tail(s) :
               i \in Nat \ {0} /\ i + 1 \in DOMAIN s /\ Tail(s)[i] = s[i + 1]
  OBVIOUS

(* A prefix holds the elements up to its length. *)
LEMMA PrefixFacts ==
  ASSUME NEW S, NEW s \in Seq(S), NEW n \in 0..Len(s)
  PROVE  /\ SubSeq(s, 1, n) \in Seq(S)
         /\ \A i \in DOMAIN SubSeq(s, 1, n) : i \in DOMAIN s /\ SubSeq(s, 1, n)[i] = s[i]
  OBVIOUS

(* There is a number for every call that is made. *)
LEMMA NumberLeft ==
  ASSUME Numbering, NEW c \in Calls, stage[c] = "unused"
  PROVE  /\ nextRequestId \in Id
         /\ Cardinality(Started \cup {c}) = Cardinality(Started) + 1
  <1>1. Started \subseteq Calls \ {c} /\ Started \cup {c} \subseteq Calls
    BY DEF Started
  <1>2. IsFiniteSet(Started) /\ IsFiniteSet(Started \cup {c})
    BY <1>1, CallsAssumption, FS_Subset
  <1>3. /\ Cardinality(Started) \in Nat /\ Cardinality(Calls) \in Nat
        /\ Cardinality(Started \cup {c}) = Cardinality(Started) + 1
        /\ Cardinality(Started \cup {c}) <= Cardinality(Calls)
    <2>1. c \notin Started
      BY DEF Started
    <2> QED BY <1>1, <1>2, <2>1, CallsAssumption, FS_AddElement, FS_Subset, FS_CardinalityType
  <1> QED BY <1>3 DEF Numbering, Id

(* A call that is made has a number. *)
LEMMA HasNumber ==
  ASSUME TypeOK, Numbering, NEW c \in Calls, stage[c] # "unused"
  PROVE  id[c] \in Id
  BY DEF TypeOK, Numbering

(* A call whose timer was started is made. *)
LEMMA HasTimer ==
  ASSUME OnePlace, NEW c \in Calls, timer[c] # "off"
  PROVE  stage[c] = "done"
  BY DEF OnePlace

LEMMA InitInv == Init => Inv
  <1> SUFFICES ASSUME Init PROVE Inv
    OBVIOUS
  <1> USE CallsAssumption, LinksAssumption DEF Init
  <1>1. Started = {} /\ Cardinality(Started) = 0
    BY FS_EmptySet DEF Started
  <1>2. Cardinality(Calls) \in Nat
    BY FS_CardinalityType
  <1>3. TypeOK
    <2>1. /\ stage \in [Calls -> Stages] /\ id \in [Calls -> Id \cup {0}]
          /\ nextRequestId \in 1..Cardinality(Calls) + 1
          /\ pending \in [Id -> Calls \cup {NoCall}]
          /\ timer \in [Calls -> {"off", "asleep", "calling", "over"}]
          /\ timingOut \in [Calls -> Calls \cup {NoCall}]
      BY <1>2 DEF Stages, Id
    <2>2. /\ <<>> \in Seq({"reply", "timeout"}) /\ <<>> \in Seq(Message)
      OBVIOUS
    <2>3. /\ ends \in [Calls -> Seq({"reply", "timeout"})]
          /\ wire \in [Links -> Seq(Message)]
          /\ executed \in [Calls -> Nat] /\ link \in 0..MaxLinks
      BY <2>2
    <2> QED BY <2>1, <2>2, <2>3 DEF TypeOK
  <1>4. Numbering
    BY <1>1 DEF Numbering, Started
  <1>5. OnePlace /\ RepliesMeetTheirCall /\ NoneLeftBehind
    BY DEF OnePlace, RepliesMeetTheirCall, NoneLeftBehind, NoReply
  <1>6. Traffic
    BY DEF Traffic
  <1> QED BY <1>3, <1>4, <1>5, <1>6 DEF Inv

(* Types, one step per action. *)
LEMMA TypeStep == Inv /\ [Next]_vars => TypeOK'
  <1> SUFFICES ASSUME Inv, [Next]_vars PROVE TypeOK'
    OBVIOUS
  <1> USE CallsAssumption, LinksAssumption DEF Inv
  <1>0. TypeOK
    OBVIOUS
  <1>1. ASSUME NEW c \in Calls, Number(c) PROVE TypeOK'
    <2>1. nextRequestId \in Id
      BY <1>1, NumberLeft DEF Number
    <2>2. Cardinality(Calls) \in Nat
      BY FS_CardinalityType
    <2>3. nextRequestId + 1 \in 1..Cardinality(Calls) + 1
      BY <2>1, <2>2 DEF Id
    <2> QED BY <1>0, <1>1, <2>1, <2>3 DEF Number, TypeOK, threads, queue, net, Stages, Message, Id
  <1>2. ASSUME NEW c \in Calls, StoreCallback(c) PROVE TypeOK'
    BY <1>0, <1>2 DEF StoreCallback, TypeOK, threads, queue, net, Stages
  <1>3. ASSUME NEW c \in Calls, Send(c) PROVE TypeOK'
    <2>1. id[c] \in Id
      BY <1>3, HasNumber DEF Send
    <2>2. [id |-> id[c], call |-> c] \in Message
      BY <2>1 DEF Message
    <2>3. outbox' \in Seq(Message)
      BY <1>0, <1>3, <2>2, AppendFacts DEF Send, TypeOK
    <2> QED BY <1>0, <1>3, <2>3 DEF Send, TypeOK, threads, net, Stages
  <1>4. ASSUME NEW c \in Calls, StartTimer(c) PROVE TypeOK'
    BY <1>0, <1>4 DEF StartTimer, TypeOK, queue, net, Stages
  <1>5. ASSUME NEW c \in Calls, Expire(c) PROVE TypeOK'
    <2>1. id[c] \in Id
      BY <1>5, HasNumber, HasTimer DEF Expire
    <2> QED BY <1>0, <1>5, <2>1 DEF Expire, TypeOK, sending, queue, net
  <1>6. ASSUME NEW c \in Calls, ExpireForNothing(c) PROVE TypeOK'
    BY <1>0, <1>6 DEF ExpireForNothing, TypeOK, sending, queue, net
  <1>7. ASSUME NEW c \in Calls, CallTimeout(c) PROVE TypeOK'
    BY <1>0, <1>7, AppendFacts DEF CallTimeout, TypeOK, sending, queue, net
  <1>8. CASE TakeReply
    <2>1. Head(answers) \in Message /\ answers' \in Seq(Message)
      BY <1>0, <1>8, TailFacts DEF TakeReply, TypeOK
    <2>2. pending' \in [Id -> Calls \cup {NoCall}]
      BY <1>0, <1>8 DEF TakeReply, TypeOK
    <2>3. replying' \in [id : Id, call : Calls, to : Calls] \cup {NoReply}
      <3>1. CASE pending[Head(answers).id] = NoCall
        BY <1>0, <1>8, <3>1 DEF TakeReply, TypeOK
      <3>2. CASE pending[Head(answers).id] # NoCall
        <4>1. pending[Head(answers).id] \in Calls
          BY <1>0, <2>1, <3>2 DEF TypeOK, Message
        <4> QED BY <1>8, <2>1, <3>2, <4>1 DEF TakeReply, Message
      <3> QED BY <3>1, <3>2
    <2> QED BY <1>0, <1>8, <2>1, <2>2, <2>3 DEF TakeReply, TypeOK, sending, queue
  <1>9. CASE CallBack
    BY <1>0, <1>9, AppendFacts DEF CallBack, TypeOK, sending, queue, net
  <1>10. CASE Write
    <2>1. Head(outbox) \in Message /\ link \in Links
      BY <1>0, <1>10, TailFacts DEF Write, TypeOK, Traffic
    <2>2. wire' \in [Links -> Seq(Message)]
      BY <1>0, <1>10, <2>1, AppendFacts DEF Write, TypeOK
    <2> QED BY <1>0, <1>10, <2>2 DEF Write, TypeOK, sending, threads
  <1>11. CASE WriteDone
    BY <1>0, <1>11, TailFacts DEF WriteDone, TypeOK, sending, threads, net, Traffic
  <1>12. CASE Connect
    BY <1>0, <1>12 DEF Connect, TypeOK, sending, threads, queue
  <1>13. ASSUME CutLink, connected
         PROVE  /\ connected' \in BOOLEAN /\ written' \in BOOLEAN
                /\ answers' \in Seq(Message) /\ wire' \in [Links -> Seq(Message)]
    <2>1. link \in Links /\ wire[link] \in Seq(Message)
      BY <1>0, <1>13 DEF TypeOK, Traffic
    <2>2. PICK n \in 0..Len(wire[link]) :
             wire' = [wire EXCEPT ![link] = SubSeq(@, 1, n)]
      BY <1>13 DEF CutLink
    <2>3. SubSeq(wire[link], 1, n) \in Seq(Message)
      BY <2>1, <2>2, PrefixFacts
    <2>4. wire' \in [Links -> Seq(Message)]
      BY <1>0, <2>2, <2>3 DEF TypeOK
    <2>5. <<>> \in Seq(Message)
      OBVIOUS
    <2> QED BY <1>13, <2>4, <2>5 DEF CutLink
  <1>14. CASE Break
    BY <1>0, <1>13, <1>14 DEF Break, TypeOK, sending, threads
  <1>15. CASE DropQueue
    BY <1>0, <1>13, <1>15 DEF DropQueue, TypeOK, sending, threads
  <1>16. CASE Serve
    <2>1. PICK l \in Links :
             /\ wire[l] # <<>>
             /\ wire' = [wire EXCEPT ![l] = Tail(@)]
             /\ executed' = [executed EXCEPT ![Head(wire[l]).call] = @ + 1]
             /\ answers' = IF connected /\ l = link THEN Append(answers, Head(wire[l]))
                                                    ELSE answers
             /\ UNCHANGED <<sending, pending, threads, queue, link, connected>>
      BY <1>16 DEF Serve
    <2>2. wire[l] \in Seq(Message)
      BY <1>0 DEF TypeOK
    <2>3. Head(wire[l]) \in Message /\ Tail(wire[l]) \in Seq(Message)
      BY <2>1, <2>2, TailFacts
    <2>4. answers' \in Seq(Message)
      BY <1>0, <2>1, <2>3, AppendFacts DEF TypeOK
    <2>5. executed' \in [Calls -> Nat]
      <3>1. executed \in [Calls -> Nat] /\ Head(wire[l]).call \in Calls
        BY <1>0, <2>3 DEF TypeOK, Message
      <3>2. executed' = [executed EXCEPT ![Head(wire[l]).call] = @ + 1]
        BY <2>1
      <3> QED BY <3>1, <3>2
    <2> QED BY <1>0, <2>1, <2>3, <2>4, <2>5 DEF TypeOK, sending, threads, queue
  <1>17. CASE Release
    BY <1>0, <1>17 DEF Release, TypeOK, sending, queue, net
  <1>18. CASE UNCHANGED vars
    BY <1>0, <1>18 DEF TypeOK, vars, sending, threads, queue, net
  <1> QED
    BY <1>1, <1>2, <1>3, <1>4, <1>5, <1>6, <1>7, <1>8, <1>9, <1>10, <1>11, <1>12,
       <1>14, <1>15, <1>16, <1>17, <1>18 DEF Next, SendRequest, Timeout

(* Numbers are given out by Number alone. *)
LEMMA NumberingStep == Inv /\ [Next]_vars => Numbering'
  <1> SUFFICES ASSUME Inv, [Next]_vars PROVE Numbering'
    OBVIOUS
  <1> USE DEF Inv
  <1>1. ASSUME NEW c \in Calls, Number(c) PROVE Numbering'
    <2>1. Started' = Started \cup {c}
      BY <1>1 DEF Number, Started, TypeOK
    <2>2. nextRequestId' = Cardinality(Started') + 1
      BY <1>1, <2>1, NumberLeft DEF Number, Numbering
    <2>3. nextRequestId \in Nat /\ nextRequestId > 0 /\ nextRequestId' = nextRequestId + 1
      <3>1. nextRequestId \in Id /\ Cardinality(Calls) \in Nat
        BY <1>1, NumberLeft, CallsAssumption, FS_CardinalityType DEF Number
      <3> QED BY <1>1, <3>1 DEF Number, Id
    <2>4. \A d \in Calls : id[d] \in Int /\ id'[d] = IF d = c THEN nextRequestId ELSE id[d]
      BY <1>1 DEF Number, TypeOK, Id
    <2>5. \A d \in Calls : stage'[d] = IF d = c THEN "numbered" ELSE stage[d]
      BY <1>1 DEF Number, TypeOK
    <2>6. \A d \in Calls : id'[d] < nextRequestId' /\ (id'[d] = 0 <=> stage'[d] = "unused")
      BY <2>3, <2>4, <2>5 DEF Numbering
    <2>7. \A d, e \in Started' : id'[d] = id'[e] => d = e
      BY <2>1, <2>3, <2>4 DEF Numbering, Started
    <2> QED BY <2>2, <2>6, <2>7 DEF Numbering
  <1>2. ASSUME NEW c \in Calls, StoreCallback(c) \/ Send(c) \/ StartTimer(c)
        PROVE  Numbering'
    <2>1. /\ id' = id /\ nextRequestId' = nextRequestId
          /\ \A d \in Calls : stage'[d] = "unused" <=> stage[d] = "unused"
      BY <1>2 DEF StoreCallback, Send, StartTimer, TypeOK
    <2>2. Started' = Started
      BY <2>1 DEF Started
    <2> QED BY <2>1, <2>2 DEF Numbering
  <1>3. ASSUME UNCHANGED sending PROVE Numbering'
    BY <1>3 DEF sending, Numbering, Started
  <1>4. ASSUME NEW c \in Calls, Timeout(c) PROVE UNCHANGED sending
    BY <1>4 DEF Timeout, Expire, ExpireForNothing, CallTimeout
  <1>5. ASSUME \/ TakeReply \/ CallBack \/ Write \/ WriteDone \/ Connect
               \/ Break \/ DropQueue \/ Serve \/ Release \/ UNCHANGED vars
        PROVE  UNCHANGED sending
    BY <1>5 DEF TakeReply, CallBack, Write, WriteDone, Connect, Break, DropQueue,
                Serve, Release, vars
  <1> QED BY <1>1, <1>2, <1>3, <1>4, <1>5 DEF Next, SendRequest

(* What a thread of the network does concerns no callback. *)
LEMMA NetworkOnly ==
  ASSUME Inv, UNCHANGED <<sending, pending, threads, executed>>
  PROVE  OnePlace' /\ RepliesMeetTheirCall' /\ NoneLeftBehind'
  BY DEF Inv, OnePlace, RepliesMeetTheirCall, NoneLeftBehind, Alive, sending, threads

LEMMA OnePlaceStep == Inv /\ [Next]_vars => OnePlace'
  <1> SUFFICES ASSUME Inv, [Next]_vars PROVE OnePlace'
    OBVIOUS
  <1> USE CallsAssumption DEF Inv
  <1>1. ASSUME NEW c \in Calls, Number(c) PROVE OnePlace'
    <2>1. \A i \in Id : pending[i] # c
      BY <1>1 DEF Number, OnePlace, Numbering, Id
    <2>2. /\ owned
          /\ \A d \in Calls : stage'[d] = IF d = c THEN "numbered" ELSE stage[d]
          /\ \A d \in Calls \ {c} : id'[d] = id[d]
          /\ UNCHANGED <<pending, timer, timingOut, replying, ends, owned, executed>>
      BY <1>1 DEF Number, TypeOK, threads, net
    <2>3. stage[c] = "unused"
      BY <1>1 DEF Number
    <2>4. \A i \in Id : pending[i] # NoCall => pending[i] \in Calls \ {c}
      BY <2>1 DEF TypeOK
    <2>5. \A i \in Id : pending'[i] # NoCall =>
             /\ id'[pending'[i]] = i
             /\ stage'[pending'[i]] # "numbered"
             /\ ends'[pending'[i]] = <<>>
             /\ replying'.to # pending'[i]
             /\ timer'[pending'[i]] # "calling"
      BY <2>2, <2>4 DEF OnePlace
    <2> QED BY <2>2, <2>3, <2>5 DEF OnePlace
  <1>2. ASSUME NEW c \in Calls, StoreCallback(c) PROVE OnePlace'
    <2>1. /\ pending' = [pending EXCEPT ![id[c]] = c]
          /\ stage' = [stage EXCEPT ![c] = "stored"]
          /\ stage[c] = "numbered"
          /\ UNCHANGED <<id, timer, timingOut, replying, ends, owned, executed>>
      BY <1>2 DEF StoreCallback, threads, net
    <2>2. id[c] \in Id
      BY <2>1, HasNumber
    <2>3. ends[c] = <<>> /\ replying.to # c /\ timer[c] = "off" /\ owned
      BY <2>1 DEF OnePlace, TypeOK
    <2> QED BY <2>1, <2>2, <2>3 DEF OnePlace, TypeOK
  <1>3. ASSUME NEW c \in Calls, Send(c) PROVE OnePlace'
    BY <1>3 DEF Send, OnePlace, TypeOK, threads, net
  <1>4. ASSUME NEW c \in Calls, StartTimer(c) PROVE OnePlace'
    BY <1>4 DEF StartTimer, OnePlace, TypeOK, net
  <1>5. ASSUME NEW c \in Calls, Expire(c) PROVE OnePlace'
    <2>1. /\ timer[c] = "asleep" /\ pending[id[c]] # NoCall
          /\ timingOut' = [timingOut EXCEPT ![c] = pending[id[c]]]
          /\ pending' = [pending EXCEPT ![id[c]] = NoCall]
          /\ timer' = [timer EXCEPT ![c] = "calling"]
          /\ UNCHANGED <<stage, id, replying, ends, owned, executed>>
      BY <1>5 DEF Expire, sending, net
    <2>2. id[c] \in Id /\ c \in Started
      BY <2>1, HasNumber, HasTimer DEF Started
    <2>3. pending[id[c]] = c
      <3>1. pending[id[c]] \in Calls /\ id[pending[id[c]]] = id[c]
        BY <2>1, <2>2 DEF OnePlace, TypeOK
      <3>2. pending[id[c]] \in Started
        BY <2>2, <3>1 DEF Started, Numbering
      <3> QED BY <2>2, <3>1, <3>2 DEF Numbering
    <2>4. \A i \in Id : pending'[i] # NoCall => pending'[i] = pending[i] /\ pending[i] # c
      BY <2>1, <2>2, <2>3 DEF OnePlace, TypeOK
    <2> QED BY <2>1, <2>2, <2>3, <2>4 DEF OnePlace, TypeOK
  <1>6. ASSUME NEW c \in Calls, ExpireForNothing(c) PROVE OnePlace'
    BY <1>6, HasTimer DEF ExpireForNothing, OnePlace, TypeOK, sending, net
  <1>7. ASSUME NEW c \in Calls, CallTimeout(c) PROVE OnePlace'
    <2>1. /\ timingOut[c] = c /\ replying.to # c
          /\ \A i \in Id : pending[i] # c
      BY <1>7 DEF CallTimeout, OnePlace, TypeOK
    <2>2. /\ timer[c] = "calling"
          /\ ends' = [ends EXCEPT ![c] = Append(@, "timeout")]
          /\ timingOut' = [timingOut EXCEPT ![c] = NoCall]
          /\ timer' = [timer EXCEPT ![c] = "over"]
          /\ UNCHANGED <<stage, id, pending, replying, owned, executed>>
      BY <1>7, <2>1 DEF CallTimeout, sending, net
    <2>3. stage[c] = "done"
      BY <2>2, HasTimer
    <2> QED BY <2>1, <2>2, <2>3 DEF OnePlace, TypeOK
  <1>8. CASE TakeReply
    <2> DEFINE m == Head(answers)
    <2>1. m \in Message /\ Genuine(m) /\ executed[m.call] > 0
      BY <1>8, TailFacts DEF TakeReply, Traffic, TypeOK
    <2>2. CASE pending[m.id] = NoCall
      BY <1>8, <2>2 DEF TakeReply, OnePlace, sending
    <2>3. CASE pending[m.id] # NoCall
      <3>1. /\ replying' = [id |-> m.id, call |-> m.call, to |-> pending[m.id]]
            /\ pending' = [pending EXCEPT ![m.id] = NoCall]
            /\ UNCHANGED <<stage, id, timer, timingOut, ends, owned, executed>>
        BY <1>8, <2>3 DEF TakeReply, sending
      <3>2. m.id \in Id /\ m.call \in Calls
        BY <2>1 DEF Message
      <3>3. /\ pending[m.id] \in Calls /\ id[pending[m.id]] = m.id
            /\ ends[pending[m.id]] = <<>> /\ timer[pending[m.id]] # "calling"
            /\ stage[pending[m.id]] \notin {"unused", "numbered"}
        BY <2>3, <3>2 DEF OnePlace, TypeOK, Numbering, Id
      <3>4. \A i \in Id : pending'[i] # NoCall =>
                pending'[i] = pending[i] /\ pending[i] # pending[m.id]
        BY <3>1, <3>2, <3>3 DEF OnePlace, TypeOK
      <3>5. replying'.to = pending[m.id] /\ replying'.call = m.call
        BY <3>1
      <3> QED BY <2>1, <3>1, <3>2, <3>3, <3>4, <3>5 DEF OnePlace, TypeOK
    <2> QED BY <2>2, <2>3
  <1>9. CASE CallBack
    <2>1. /\ replying # NoReply /\ replying' = NoReply
          /\ ends' = [ends EXCEPT ![replying.to] = Append(@, "reply")]
          /\ UNCHANGED <<stage, id, pending, timer, timingOut, owned, executed>>
      BY <1>9 DEF CallBack, sending, net
    <2>2. replying.to \in Calls /\ NoReply.to = NoCall
      BY <2>1 DEF TypeOK, NoReply
    <2> QED BY <2>1, <2>2 DEF OnePlace, TypeOK
  <1>10. ASSUME \/ Write \/ WriteDone \/ Connect \/ Break \/ DropQueue \/ UNCHANGED vars
         PROVE  UNCHANGED <<sending, pending, threads, executed>>
    BY <1>10 DEF Write, WriteDone, Connect, Break, DropQueue, vars, net
  <1>11. CASE Serve
    <2>1. PICK l \in Links :
             /\ wire[l] # <<>>
             /\ executed' = [executed EXCEPT ![Head(wire[l]).call] = @ + 1]
      BY <1>11 DEF Serve
    <2>2. \A c \in Calls : executed[c] > 0 => executed'[c] > 0
      BY <2>1 DEF TypeOK
    <2>3. replying # NoReply => replying.call \in Calls
      BY DEF TypeOK
    <2>4. UNCHANGED <<stage, id, pending, timer, timingOut, replying, ends, owned>>
      BY <1>11 DEF Serve, sending, threads
    <2> QED BY <2>2, <2>3, <2>4 DEF OnePlace
  <1>12. CASE Release
    BY <1>12 DEF Release, OnePlace, sending, net
  <1> QED
    BY <1>1, <1>2, <1>3, <1>4, <1>5, <1>6, <1>7, <1>8, <1>9, <1>10, <1>11, <1>12,
       NetworkOnly DEF Next, SendRequest, Timeout

(* The callback found under the number of a reply is that of the call the
   reply names. *)
LEMMA RepliesStep == Inv /\ [Next]_vars => RepliesMeetTheirCall'
  <1> SUFFICES ASSUME Inv, [Next]_vars PROVE RepliesMeetTheirCall'
    OBVIOUS
  <1> USE DEF Inv
  <1>1. CASE TakeReply
    <2> DEFINE m == Head(answers)
    <2>1. m \in Message /\ Genuine(m)
      BY <1>1, TailFacts DEF TakeReply, Traffic, TypeOK
    <2>2. CASE pending[m.id] = NoCall
      BY <1>1, <2>2 DEF TakeReply, RepliesMeetTheirCall
    <2>3. CASE pending[m.id] # NoCall
      <3>1. m.id \in Id /\ m.call \in Calls
        BY <2>1 DEF Message
      <3>2. pending[m.id] \in Calls /\ id[pending[m.id]] = m.id /\ id[m.call] = m.id
        BY <2>1, <2>3, <3>1 DEF OnePlace, TypeOK, Genuine
      <3>3. m.call \in Started /\ pending[m.id] \in Started
        BY <3>1, <3>2 DEF Started, Numbering, Id
      <3>4. pending[m.id] = m.call
        BY <3>2, <3>3 DEF Numbering
      <3>5. replying' = [id |-> m.id, call |-> m.call, to |-> pending[m.id]]
        BY <1>1, <2>3 DEF TakeReply
      <3> QED BY <3>4, <3>5 DEF RepliesMeetTheirCall
    <2> QED BY <2>2, <2>3
  <1>2. CASE CallBack
    BY <1>2 DEF CallBack, RepliesMeetTheirCall
  <1>3. CASE UNCHANGED replying
    BY <1>3 DEF RepliesMeetTheirCall
  <1>4. ASSUME NEW c \in Calls, SendRequest(c) \/ Timeout(c) PROVE UNCHANGED replying
    BY <1>4 DEF SendRequest, Number, StoreCallback, Send, StartTimer,
                Timeout, Expire, ExpireForNothing, CallTimeout, threads
  <1>5. ASSUME \/ Write \/ WriteDone \/ Connect \/ Break \/ DropQueue
               \/ Serve \/ Release \/ UNCHANGED vars
        PROVE  UNCHANGED replying
    BY <1>5 DEF Write, WriteDone, Connect, Break, DropQueue, Serve, Release, vars, threads
  <1> QED BY <1>1, <1>2, <1>3, <1>4, <1>5 DEF Next

LEMMA NoneLeftStep == Inv /\ [Next]_vars => NoneLeftBehind'
  <1> SUFFICES ASSUME Inv, [Next]_vars, Alive' PROVE NoneLeftBehind'
    BY DEF NoneLeftBehind
  <1> USE CallsAssumption DEF Inv
  <1>1. ASSUME NEW c \in Calls, Number(c) PROVE NoneLeftBehind'
    <2>1. /\ owned /\ stage[c] = "unused"
          /\ \A d \in Calls \ {c} : stage'[d] = stage[d] /\ id'[d] = id[d]
          /\ UNCHANGED <<pending, timer>>
      BY <1>1 DEF Number, TypeOK, threads
    <2>2. \A i \in Id : pending[i] # c
      BY <2>1 DEF OnePlace, Numbering, Id
    <2>3. \A i \in Id : pending[i] # NoCall => pending[i] \in Calls \ {c}
      BY <2>2 DEF TypeOK
    <2> QED BY <2>1, <2>3 DEF NoneLeftBehind, Alive
  <1>2. ASSUME NEW c \in Calls, StoreCallback(c) PROVE NoneLeftBehind'
    <2>1. id[c] \in Id
      BY <1>2, HasNumber DEF StoreCallback
    <2> QED BY <1>2, <2>1 DEF StoreCallback, NoneLeftBehind, Alive, TypeOK, threads
  <1>3. ASSUME NEW c \in Calls, Send(c) PROVE NoneLeftBehind'
    BY <1>3 DEF Send, NoneLeftBehind, Alive, TypeOK, threads
  <1>4. ASSUME NEW c \in Calls, StartTimer(c) PROVE NoneLeftBehind'
    BY <1>4 DEF StartTimer, NoneLeftBehind, OnePlace, Alive, TypeOK
  <1>5. ASSUME NEW c \in Calls, Expire(c) PROVE NoneLeftBehind'
    <2>1. id[c] \in Id
      BY <1>5, HasNumber, HasTimer DEF Expire
    <2>2. /\ Alive
          /\ pending' = [pending EXCEPT ![id[c]] = NoCall]
          /\ timer' = [timer EXCEPT ![c] = "calling"]
          /\ UNCHANGED <<stage, id>>
      BY <1>5 DEF Expire, sending
    <2>3. \A i \in Id : pending'[i] # NoCall => pending'[i] = pending[i] /\ i # id[c]
      BY <2>1, <2>2 DEF TypeOK
    <2>4. \A i \in Id : pending'[i] # NoCall => pending[i] \in Calls \ {c}
      BY <2>3 DEF NoneLeftBehind, OnePlace, TypeOK
    <2> QED BY <2>2, <2>3, <2>4 DEF NoneLeftBehind, TypeOK
  <1>6. ASSUME NEW c \in Calls, ExpireForNothing(c) PROVE NoneLeftBehind'
    <2>1. /\ timer[c] = "asleep" /\ timer' = [timer EXCEPT ![c] = "over"]
          /\ UNCHANGED <<stage, id, pending, owned>>
          /\ ~Alive \/ pending[id[c]] = NoCall
      BY <1>6 DEF ExpireForNothing, sending
    <2>2. Alive
      BY <2>1 DEF Alive, TypeOK
    <2>3. \A i \in Id : pending[i] # NoCall => pending[i] \in Calls \ {c}
      BY <2>1, <2>2 DEF NoneLeftBehind, TypeOK
    <2> QED BY <2>1, <2>2, <2>3 DEF NoneLeftBehind, TypeOK
  <1>7. ASSUME NEW c \in Calls, CallTimeout(c) PROVE NoneLeftBehind'
    <2>1. /\ timer[c] = "calling" /\ timer' = [timer EXCEPT ![c] = "over"]
          /\ UNCHANGED <<stage, id, pending>>
      BY <1>7 DEF CallTimeout, sending
    <2>2. Alive
      BY <2>1 DEF Alive
    <2>3. \A i \in Id : pending[i] # NoCall => pending[i] \in Calls \ {c}
      BY <2>1 DEF OnePlace, TypeOK
    <2> QED BY <2>1, <2>2, <2>3 DEF NoneLeftBehind, TypeOK
  <1>8. CASE TakeReply
    <2>1. \A i \in Id : pending'[i] # NoCall => pending'[i] = pending[i]
      BY <1>8 DEF TakeReply, TypeOK
    <2>2. UNCHANGED <<stage, id, timer, owned>>
      BY <1>8 DEF TakeReply, sending
    <2> QED BY <2>1, <2>2 DEF NoneLeftBehind, Alive
  <1>9. CASE UNCHANGED <<sending, pending, timer, owned>>
    BY <1>9 DEF NoneLeftBehind, Alive, sending
  <1>10. ASSUME \/ CallBack \/ Write \/ WriteDone \/ Connect \/ Break \/ DropQueue
                \/ Serve \/ UNCHANGED vars
         PROVE  UNCHANGED <<sending, pending, timer, owned>>
    BY <1>10 DEF CallBack, Write, WriteDone, Connect, Break, DropQueue, Serve, vars, threads
  <1>11. CASE Release
    BY <1>11 DEF Release, NoneLeftBehind, Alive, sending
  <1> QED
    BY <1>1, <1>2, <1>3, <1>4, <1>5, <1>6, <1>7, <1>8, <1>9, <1>10, <1>11
       DEF Next, SendRequest, Timeout

(* Messages stay genuine wherever they go. *)
LEMMA TrafficStep == Inv /\ [Next]_vars => Traffic'
  <1> SUFFICES ASSUME Inv, [Next]_vars PROVE Traffic'
    OBVIOUS
  <1> USE DEF Inv
  <1> DEFINE StillGenuine(m) == id'[m.call] = m.id /\ stage'[m.call] \in {"sent", "done"}
  <1>0. ASSUME NEW c \in Calls, SendRequest(c)
        PROVE  \A m \in Message : Genuine(m) => StillGenuine(m)
    <2> SUFFICES ASSUME NEW m \in Message, Genuine(m) PROVE StillGenuine(m)
      OBVIOUS
    <2>1. m.call \in Calls
      BY DEF Message
    <2> QED BY <1>0, <2>1
         DEF Genuine, SendRequest, Number, StoreCallback, Send, StartTimer, TypeOK
  <1>1. /\ outbox \in Seq(Message) /\ answers \in Seq(Message)
        /\ \A l \in Links : wire[l] \in Seq(Message)
        /\ \A s \in Seq(Message) : \A i \in DOMAIN s : s[i] \in Message
    BY DEF TypeOK
  <1>2. ASSUME \A m \in Message : Genuine(m) => StillGenuine(m)
        PROVE  /\ \A i \in DOMAIN outbox : StillGenuine(outbox[i])
               /\ \A l \in Links : \A i \in DOMAIN wire[l] : StillGenuine(wire[l][i])
               /\ \A i \in DOMAIN answers : StillGenuine(answers[i])
    BY <1>1, <1>2 DEF Traffic
  <1>14. ASSUME UNCHANGED <<sending, queue, net>> PROVE Traffic'
    BY <1>14 DEF Traffic, Genuine, sending, queue, net
  <1>15. ASSUME NEW c \in Calls, Send(c) PROVE Traffic'
    <2> DEFINE m == [id |-> id[c], call |-> c]
    <2>1. m \in Message /\ StillGenuine(m)
      <3>1. id[c] \in Id
        BY <1>15, HasNumber DEF Send
      <3> QED BY <1>15, <3>1 DEF Send, Message, TypeOK
    <2>2. /\ \A i \in DOMAIN outbox : StillGenuine(outbox[i])
          /\ \A l \in Links : \A i \in DOMAIN wire[l] : StillGenuine(wire[l][i])
          /\ \A i \in DOMAIN answers : StillGenuine(answers[i])
      BY <1>0, <1>2, <1>15 DEF SendRequest
    <2>3. /\ outbox' = Append(outbox, m)
          /\ UNCHANGED <<written, wire, answers, executed, connected, link>>
      BY <1>15 DEF Send, net
    <2>4. /\ Append(outbox, m) # <<>>
          /\ \A i \in DOMAIN Append(outbox, m) :
                Append(outbox, m)[i] = m \/ (i \in DOMAIN outbox /\ Append(outbox, m)[i] = outbox[i])
      BY <1>1, <2>1, AppendFacts
    <2>5. \A i \in DOMAIN outbox' : StillGenuine(outbox'[i])
      BY <2>1, <2>2, <2>3, <2>4
    <2> QED BY <2>2, <2>3, <2>4, <2>5 DEF Traffic, Genuine
  <1>3. ASSUME NEW c \in Calls, Number(c) \/ StoreCallback(c) \/ StartTimer(c)
        PROVE  Traffic'
    <2>1. UNCHANGED <<queue, net>>
      BY <1>3 DEF Number, StoreCallback, StartTimer
    <2>2. /\ \A i \in DOMAIN outbox : StillGenuine(outbox[i])
          /\ \A l \in Links : \A i \in DOMAIN wire[l] : StillGenuine(wire[l][i])
          /\ \A i \in DOMAIN answers : StillGenuine(answers[i])
      BY <1>0, <1>2, <1>3 DEF SendRequest
    <2> QED BY <2>1, <2>2 DEF Traffic, Genuine, queue, net
  <1>4. ASSUME NEW c \in Calls, Timeout(c) PROVE Traffic'
    <2>1. UNCHANGED <<sending, queue, net>>
      BY <1>4 DEF Timeout, Expire, ExpireForNothing, CallTimeout
    <2> QED BY <1>14, <2>1
  <1>5. ASSUME CallBack \/ Release \/ UNCHANGED vars PROVE Traffic'
    <2>1. UNCHANGED <<sending, queue, net>>
      BY <1>5 DEF CallBack, Release, vars
    <2> QED BY <1>14, <2>1
  <1>6. CASE TakeReply
    <2>1. /\ answers # <<>> /\ answers' = Tail(answers)
          /\ UNCHANGED <<stage, id, outbox, written, link, connected, wire, executed>>
      BY <1>6 DEF TakeReply, sending, queue
    <2>2. \A i \in DOMAIN answers' : i + 1 \in DOMAIN answers /\ answers'[i] = answers[i + 1]
      BY <2>1, TailFacts DEF TypeOK
    <2> QED BY <2>1, <2>2 DEF Traffic, Genuine
  <1>7. CASE Write
    <2>1. /\ connected /\ outbox # <<>> /\ written' = TRUE
          /\ wire' = [wire EXCEPT ![link] = Append(@, Head(outbox))]
          /\ UNCHANGED <<stage, id, outbox, link, connected, answers, executed>>
      BY <1>7 DEF Write, sending
    <2>2. link \in Links /\ wire[link] \in Seq(Message) /\ outbox \in Seq(Message)
      BY <2>1 DEF Traffic, TypeOK
    <2>3. Head(outbox) \in Message /\ Genuine(Head(outbox))
      BY <2>1, <2>2, TailFacts DEF Traffic
    <2>4. \A i \in DOMAIN Append(wire[link], Head(outbox)) :
             Genuine(Append(wire[link], Head(outbox))[i])
      BY <2>2, <2>3, AppendFacts DEF Traffic
    <2>5. \A l \in Links : wire'[l] = IF l = link THEN Append(wire[link], Head(outbox))
                                                  ELSE wire[l]
      BY <2>1 DEF TypeOK
    <2>6. \A l \in Links : \A i \in DOMAIN wire'[l] : Genuine(wire'[l][i])
      BY <2>4, <2>5 DEF Traffic
    <2> QED BY <2>1, <2>6 DEF Traffic, Genuine
  <1>8. CASE WriteDone
    <2>1. /\ connected /\ outbox # <<>> /\ outbox' = Tail(outbox) /\ written' = FALSE
          /\ UNCHANGED <<stage, id, link, connected, wire, answers, executed>>
      BY <1>8 DEF WriteDone, sending, net, Traffic
    <2>2. \A i \in DOMAIN outbox' : i + 1 \in DOMAIN outbox /\ outbox'[i] = outbox[i + 1]
      BY <2>1, TailFacts DEF TypeOK
    <2> QED BY <2>1, <2>2 DEF Traffic, Genuine
  <1>9. CASE Connect
    <2>1. link' \in Links /\ ~written
      BY <1>9, LinksAssumption DEF Connect, TypeOK, Links, Traffic
    <2> QED BY <1>9, <2>1 DEF Connect, Traffic, Genuine, sending, queue
  <1>10. ASSUME CutLink, connected
         PROVE  /\ connected' = FALSE /\ written' = FALSE /\ answers' = <<>>
                /\ \A l \in Links : \A i \in DOMAIN wire'[l] : Genuine(wire'[l][i])
    <2>1. link \in Links /\ wire[link] \in Seq(Message)
      BY <1>10 DEF Traffic, TypeOK
    <2>2. PICK n \in 0..Len(wire[link]) : wire' = [wire EXCEPT ![link] = SubSeq(@, 1, n)]
      BY <1>10 DEF CutLink
    <2>3. \A i \in DOMAIN SubSeq(wire[link], 1, n) :
             i \in DOMAIN wire[link] /\ SubSeq(wire[link], 1, n)[i] = wire[link][i]
      BY <2>1, PrefixFacts
    <2>4. \A l \in Links : wire'[l] = IF l = link THEN SubSeq(wire[link], 1, n) ELSE wire[l]
      BY <2>2 DEF TypeOK
    <2> QED BY <1>10, <2>1, <2>3, <2>4 DEF CutLink, Traffic
  <1>11. CASE Break
    BY <1>10, <1>11 DEF Break, Traffic, Genuine, sending
  <1>12. CASE DropQueue
    <2>1. outbox' = <<>> /\ UNCHANGED <<stage, id, link, executed>>
      BY <1>12 DEF DropQueue, sending
    <2>2. CASE connected
      BY <1>10, <1>12, <2>1, <2>2 DEF DropQueue, Traffic, Genuine
    <2>3. CASE ~connected
      BY <1>12, <2>1, <2>3 DEF DropQueue, Traffic, Genuine
    <2> QED BY <2>2, <2>3
  <1>13. CASE Serve
    <2>1. PICK l \in Links :
             /\ wire[l] # <<>>
             /\ wire' = [wire EXCEPT ![l] = Tail(@)]
             /\ executed' = [executed EXCEPT ![Head(wire[l]).call] = @ + 1]
             /\ answers' = IF connected /\ l = link THEN Append(answers, Head(wire[l]))
                                                    ELSE answers
             /\ UNCHANGED <<sending, pending, threads, queue, link, connected>>
      BY <1>13 DEF Serve
    <2> DEFINE m == Head(wire[l])
    <2>2. wire[l] \in Seq(Message) /\ answers \in Seq(Message)
      BY DEF TypeOK
    <2>3. m \in Message /\ Genuine(m)
      BY <2>1, <2>2, TailFacts DEF Traffic
    <2>4. executed'[m.call] > 0 /\ \A c \in Calls : executed[c] > 0 => executed'[c] > 0
      <3>1. executed \in [Calls -> Nat] /\ m.call \in Calls
        BY <2>3 DEF TypeOK, Message
      <3>2. executed' = [executed EXCEPT ![m.call] = @ + 1]
        BY <2>1
      <3> QED BY <3>1, <3>2
    <2>5. \A i \in DOMAIN Tail(wire[l]) : Genuine(Tail(wire[l])[i])
      BY <2>1, <2>2, TailFacts DEF Traffic
    <2>6. \A k \in Links : \A i \in DOMAIN wire'[k] : Genuine(wire'[k][i])
      BY <2>1, <2>5 DEF TypeOK, Traffic
    <2>7. \A i \in DOMAIN answers' : Genuine(answers'[i]) /\ executed'[answers'[i].call] > 0
      <3>1. \A i \in DOMAIN answers : /\ answers[i].call \in Calls
                                      /\ Genuine(answers[i]) /\ executed[answers[i].call] > 0
        <4>1. \A i \in DOMAIN answers : answers[i] \in Message
          BY <1>1
        <4> QED BY <4>1 DEF Traffic, Message
      <3>2. CASE answers' = answers
        BY <2>4, <3>1, <3>2
      <3>3. CASE answers' = Append(answers, m)
        BY <2>2, <2>3, <2>4, <3>1, <3>3, AppendFacts
      <3> QED BY <2>1, <3>2, <3>3
    <2> QED BY <2>1, <2>6, <2>7 DEF Traffic, Genuine, sending, queue
  <1> QED
    BY <1>3, <1>4, <1>5, <1>6, <1>7, <1>8, <1>9, <1>11, <1>12, <1>13, <1>15
       DEF Next, SendRequest

----------------------------------------------------------------------------
(* Inv holds in every reachable state. *)
THEOREM Invariance == Spec => []Inv
  <1>1. Inv /\ [Next]_vars => Inv'
    BY TypeStep, NumberingStep, OnePlaceStep, RepliesStep, NoneLeftStep, TrafficStep DEF Inv
  <1> QED BY InitInv, <1>1, PTL DEF Spec

(* The variables of Requests keep their types. *)
THEOREM TypeCorrect == Spec => []TypeOK
  BY Invariance, PTL DEF Inv

(* The reply given to a callback answers that callback's own request. *)
THEOREM RepliesCorrect == Spec => []RepliesMeetTheirCall
  BY Invariance, PTL DEF Inv

(* While the manager lives, every entry of pending_requests_ has its timer
   still to come. *)
THEOREM NothingLeaks == Spec => []NoneLeftBehind
  BY Invariance, PTL DEF Inv

(* Every step of Requests is a step of RemoteCall or leaves what RemoteCall
   sees as it is. *)
LEMMA RefinementStep == Inv /\ [Next]_vars => [RC!Next]_(RC!vars)
  <1> SUFFICES ASSUME Inv, [Next]_vars PROVE [RC!Next]_(RC!vars)
    OBVIOUS
  <1> DEFINE began == {c \in Calls : stage[c] # "unused"}
             run == {c \in Calls : executed[c] > 0}
  <1> USE DEF Inv
  <1>1. ASSUME NEW c \in Calls, Number(c) PROVE RC!Start(c)
    <2>1. began' = began \cup {c} /\ c \notin began
      BY <1>1 DEF Number, TypeOK
    <2> QED BY <1>1, <2>1 DEF Number, RC!Start, threads, net
  <1>2. ASSUME began' = began, run' = run, ends' = ends, owned' = owned
        PROVE  UNCHANGED RC!vars
    BY <1>2 DEF RC!vars
  <1>3. ASSUME NEW c \in Calls, StoreCallback(c) \/ Send(c) \/ StartTimer(c)
        PROVE  UNCHANGED RC!vars
    <2>1. \A d \in Calls : stage'[d] = "unused" <=> stage[d] = "unused"
      BY <1>3 DEF StoreCallback, Send, StartTimer, TypeOK
    <2>2. began' = began
      BY <2>1
    <2> QED BY <1>2, <1>3, <2>2 DEF StoreCallback, Send, StartTimer, threads, net
  <1>4. ASSUME NEW c \in Calls, CallTimeout(c) PROVE RC!End(c)
    <2>1. timingOut[c] = c /\ ends[c] = <<>> /\ stage[c] = "done"
      BY <1>4, HasTimer DEF CallTimeout, OnePlace
    <2>2. ends' = [ends EXCEPT ![c] = <<"timeout">>]
      BY <1>4, <2>1 DEF CallTimeout
    <2>3. UNCHANGED <<began, run, owned>>
      BY <1>4 DEF CallTimeout, sending, net
    <2> QED BY <2>1, <2>2, <2>3 DEF RC!End, RC!Outcomes
  <1>5. CASE CallBack
    <2> DEFINE c == replying.to
    <2>1. c \in Calls /\ ends[c] = <<>> /\ executed[c] > 0
      BY <1>5 DEF CallBack, OnePlace, TypeOK, RepliesMeetTheirCall
    <2>2. stage[c] # "unused"
      BY <2>1 DEF OnePlace
    <2>3. ends' = [ends EXCEPT ![c] = <<"reply">>]
      BY <1>5, <2>1 DEF CallBack
    <2>4. UNCHANGED <<began, run, owned>>
      BY <1>5 DEF CallBack, sending, net
    <2>5. RC!End(c)
      BY <2>1, <2>2, <2>3, <2>4 DEF RC!End, RC!Outcomes
    <2> QED BY <2>1, <2>5 DEF RC!Next
  <1>6. CASE Serve
    <2>1. PICK l \in Links :
             /\ wire[l] # <<>>
             /\ executed' = [executed EXCEPT ![Head(wire[l]).call] = @ + 1]
             /\ UNCHANGED <<sending, threads>>
      BY <1>6 DEF Serve
    <2> DEFINE c == Head(wire[l]).call
    <2>2. c \in Calls /\ stage[c] # "unused"
      <3>1. wire[l] \in Seq(Message)
        BY DEF TypeOK
      <3>2. Head(wire[l]) \in Message /\ Genuine(Head(wire[l]))
        BY <2>1, <3>1, TailFacts DEF Traffic
      <3> QED BY <3>2 DEF Message, Genuine
    <2>3. run' = run \cup {c}
      BY <2>1, <2>2 DEF TypeOK
    <2>4. RC!Run(c)
      BY <2>1, <2>2, <2>3 DEF RC!Run, sending, threads
    <2>5. \E d \in Calls : RC!Run(d)
      BY <2>2, <2>4 DEF RC!Run
    <2>6. RC!Next
      BY <2>5 DEF RC!Next
    <2> QED BY <2>6
  <1>7. CASE Release
    BY <1>7 DEF Release, RC!Next, RC!Close, sending, net
  <1>8. ASSUME UNCHANGED <<stage, executed, ends, owned>> PROVE UNCHANGED RC!vars
    <2>1. began' = began
      BY <1>8
    <2>2. run' = run
      BY <1>8
    <2> QED BY <1>2, <1>8, <2>1, <2>2
  <1>9. ASSUME \/ TakeReply \/ Write \/ WriteDone \/ Connect \/ Break \/ DropQueue
               \/ UNCHANGED vars
               \/ \E c \in Calls : Expire(c) \/ ExpireForNothing(c)
        PROVE  UNCHANGED <<stage, executed, ends, owned>>
    BY <1>9 DEF TakeReply, Write, WriteDone, Connect, Break, DropQueue, Expire,
                ExpireForNothing, vars, sending, threads, net
  <1> QED
    BY <1>1, <1>3, <1>4, <1>5, <1>6, <1>7, <1>8, <1>9
       DEF Next, SendRequest, Timeout, RC!Next

(* Requests implements RemoteCall: one outcome per call, and a reply only to
   a request that the server ran. *)
THEOREM PromiseKept == Spec => KeepsPromise
  <1>1. Init => RC!Init
    BY DEF Init, RC!Init
  <1> QED BY <1>1, RefinementStep, Invariance, PTL DEF Spec, KeepsPromise, RC!SafeSpec
=============================================================================
