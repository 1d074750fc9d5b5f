-------------------------- MODULE TcpClientProofs --------------------------
(***************************************************************************)
(* Proofs about TcpClient: the types, that it starts no second read or     *)
(* write and pops no empty queue unless a command overtook a connection,   *)
(* and that until then it keeps LineQueue's promise.                       *)
(***************************************************************************)
EXTENDS TcpClient, SequenceTheorems, TLAPS

(* An element appended comes last, the others stay where they are. *)
LEMMA AppendFacts ==
  ASSUME NEW S, NEW s \in Seq(S), NEW x \in S
  PROVE  /\ Append(s, x) \in Seq(S) /\ Append(s, x) # <<>>
         /\ Len(Append(s, x)) = Len(s) + 1 /\ Append(s, x)[Len(s) + 1] = x
         /\ DOMAIN Append(s, x) = DOMAIN s \cup {Len(s) + 1}
         /\ Len(s) \in Nat /\ Len(s) + 1 \notin DOMAIN s
         /\ \A i \in DOMAIN s : i \in Nat /\ i <= Len(s) /\ Append(s, x)[i] = s[i]
         /\ \A i \in DOMAIN Append(s, x) :
               Append(s, x)[i] = x \/ (i \in DOMAIN s /\ Append(s, x)[i] = s[i])
  <1>1. /\ Append(s, x) \in Seq(S) /\ Append(s, x) # <<>>
        /\ Len(Append(s, x)) = Len(s) + 1
        /\ \A i \in 1..Len(s) : Append(s, x)[i] = s[i]
        /\ Append(s, x)[Len(s) + 1] = x
    BY AppendProperties
  <1>2. DOMAIN Append(s, x) = 1..Len(s) + 1 /\ DOMAIN s = 1..Len(s) /\ Len(s) \in Nat
    BY <1>1, LenProperties
  <1> QED BY <1>1, <1>2

(* The tail holds the elements after the first. *)
LEMMA TailFacts ==
  ASSUME NEW S, NEW s \in Seq(S), s # <<>>
  PROVE  /\ Head(s) \in S /\ 1 \in DOMAIN s /\ Head(s) = s[1]
         /\ Tail(s) \in Seq(S)
         /\ \A i \in DOMAIN Tail(s) :
               i \in Nat \ {0} /\ i + 1 \in DOMAIN s /\ Tail(s)[i] = s[i + 1]
  OBVIOUS

----------------------------------------------------------------------------
(* Lemmas about the handlers that wait *)

WriteDone == [op |-> "write", ec |-> "ok"]

HasWritten(s) == \E i \in DOMAIN s.ready : s.ready[i] = WriteDone

(* The write that is under way, or none. *)
LEMMA WriteTypes ==
  /\ <<>> \in SeqOf(Messages, 1)
  /\ \A m \in Messages : <<m>> \in SeqOf(Messages, 1)
  /\ \A w \in SeqOf(Messages, 1) :
        w # <<>> => w \in Seq(Messages) /\ Head(w) \in Messages /\ w = <<Head(w)>> /\ Tail(w) = <<>>
  <1>1. SeqOf(Messages, 1) = [1..0 -> Messages] \cup [1..1 -> Messages]
    <2>1. 0..1 = {0, 1}
      OBVIOUS
    <2> QED BY <2>1 DEF SeqOf
  <1>2. <<>> \in [1..0 -> Messages]
    OBVIOUS
  <1>3. \A m \in Messages : <<m>> \in [1..1 -> Messages]
    OBVIOUS
  <1>4. \A w \in [1..0 -> Messages] : w = <<>>
    OBVIOUS
  <1>5. ASSUME NEW w \in [1..1 -> Messages]
        PROVE  w \in Seq(Messages) /\ Head(w) \in Messages /\ w = <<Head(w)>> /\ Tail(w) = <<>>
    <2>1. w \in Seq(Messages) /\ Len(w) = 1
      OBVIOUS
    <2>2. Head(w) \in Messages /\ Len(Tail(w)) = 0 /\ Tail(w) \in Seq(Messages)
      BY <2>1
    <2>3. w = <<Head(w)>>
      BY <2>1
    <2> QED BY <2>1, <2>2, <2>3, EmptySeq
  <1> QED BY <1>1, <1>2, <1>3, <1>4, <1>5

(* What Ready does to the handlers that wait. *)
LEMMA ReadyFacts ==
  ASSUME NEW s \in Object, NEW h \in Handlers
  PROVE  /\ Ready(s, h) \in Object
         /\ \A op : Waits(Ready(s, h), op) <=> Waits(s, op) \/ (CallsBack(h) /\ h.op = op)
         /\ HasWritten(Ready(s, h)) <=> HasWritten(s) \/ h = WriteDone
         /\ OnceEach(s) /\ (CallsBack(h) => ~Waits(s, h.op)) => OnceEach(Ready(s, h))
  <1> DEFINE q == s.ready
             r == Append(q, h)
  <1>1. q \in Seq(Handlers)
    BY DEF Object
  <1>2. /\ r \in Seq(Handlers) /\ DOMAIN r = DOMAIN q \cup {Len(q) + 1}
        /\ Len(q) + 1 \notin DOMAIN q /\ r[Len(q) + 1] = h
        /\ \A i \in DOMAIN q : r[i] = q[i]
    BY <1>1, AppendFacts
  <1>3. Ready(s, h) \in Object /\ Ready(s, h).ready = r
    BY <1>2 DEF Ready, Object
  <1> HIDE DEF r
  <1>4. \A op : Waits(Ready(s, h), op) <=> Waits(s, op) \/ (CallsBack(h) /\ h.op = op)
    BY <1>2, <1>3 DEF Waits
  <1>5. HasWritten(Ready(s, h)) <=> HasWritten(s) \/ h = WriteDone
    BY <1>2, <1>3 DEF HasWritten
  <1>6. ASSUME OnceEach(s), CallsBack(h) => ~Waits(s, h.op) PROVE OnceEach(Ready(s, h))
    BY <1>2, <1>3, <1>6 DEF OnceEach, Waits
  <1> QED BY <1>3, <1>4, <1>5, <1>6

(* What the I/O thread takes is gone, and was the only one of its operation. *)
LEMMA TakeFacts ==
  ASSUME NEW s \in Object, NEW t \in Object, s.ready # <<>>, t.ready = Tail(s.ready)
  PROVE  LET h == Head(s.ready) IN
         /\ h \in Handlers
         /\ \A op : Waits(s, op) <=> Waits(t, op) \/ (CallsBack(h) /\ h.op = op)
         /\ HasWritten(s) <=> HasWritten(t) \/ h = WriteDone
         /\ OnceEach(s) => OnceEach(t) /\ (CallsBack(h) => ~Waits(t, h.op))
  <1> DEFINE q == s.ready
             r == Tail(q)
             h == Head(q)
  <1>1. q \in Seq(Handlers) /\ q # <<>>
    BY DEF Object
  <1>2. /\ h \in Handlers /\ 1 \in DOMAIN q /\ h = q[1]
        /\ \A i \in DOMAIN r : i \in Nat \ {0} /\ i + 1 \in DOMAIN q /\ r[i] = q[i + 1]
    BY <1>1, TailFacts
  <1>3. \A i \in DOMAIN q : i = 1 \/ (i - 1 \in DOMAIN r /\ i \in Nat)
    BY <1>1
  <1>4. \A i \in DOMAIN q : q[i] = h \/ \E j \in DOMAIN r : r[j] = q[i]
    <2> SUFFICES ASSUME NEW i \in DOMAIN q, i # 1 PROVE \E j \in DOMAIN r : r[j] = q[i]
      BY <1>2
    <2>1. i - 1 \in DOMAIN r /\ i \in Nat
      BY <1>3
    <2>2. r[i - 1] = q[(i - 1) + 1] /\ (i - 1) + 1 = i
      BY <1>2, <2>1
    <2> QED BY <2>1, <2>2
  <1> HIDE DEF r, h
  <1>5. \A i \in DOMAIN r : \E j \in DOMAIN q : q[j] = r[i]
    BY <1>2
  <1>6. t.ready = r
    BY DEF r
  <1>7. \A op : Waits(s, op) <=> Waits(t, op) \/ (CallsBack(h) /\ h.op = op)
    <2> SUFFICES ASSUME NEW op PROVE Waits(s, op) <=> Waits(t, op) \/ (CallsBack(h) /\ h.op = op)
      OBVIOUS
    <2>1. ASSUME NEW i \in DOMAIN q, q[i].op = op, CallsBack(q[i])
          PROVE  Waits(t, op) \/ (CallsBack(h) /\ h.op = op)
      <3>1. CASE q[i] = h
        BY <2>1, <3>1
      <3>2. ASSUME NEW j \in DOMAIN r, r[j] = q[i] PROVE Waits(t, op)
        BY <1>6, <2>1, <3>2 DEF Waits
      <3> QED BY <1>4, <3>1, <3>2
    <2>2. ASSUME NEW i \in DOMAIN r, r[i].op = op, CallsBack(r[i]) PROVE Waits(s, op)
      <3>1. PICK j \in DOMAIN q : q[j] = r[i]
        BY <1>5
      <3> QED BY <2>2, <3>1 DEF Waits
    <2>3. CallsBack(h) /\ h.op = op => Waits(s, op)
      BY <1>2 DEF Waits
    <2> QED BY <1>6, <2>1, <2>2, <2>3 DEF Waits
  <1>8. HasWritten(s) <=> HasWritten(t) \/ h = WriteDone
    <2>1. HasWritten(s) => HasWritten(t) \/ h = WriteDone
      BY <1>4, <1>6 DEF HasWritten
    <2>2. HasWritten(t) => HasWritten(s)
      BY <1>5, <1>6 DEF HasWritten
    <2>3. h = WriteDone => HasWritten(s)
      BY <1>2 DEF HasWritten
    <2> QED BY <2>1, <2>2, <2>3
  <1>9. ASSUME OnceEach(s) PROVE OnceEach(t) /\ (CallsBack(h) => ~Waits(t, h.op))
    <2>1. \A i, j \in DOMAIN r :
             CallsBack(r[i]) /\ CallsBack(r[j]) /\ r[i].op = r[j].op => i + 1 = j + 1
      BY <1>2, <1>9 DEF OnceEach
    <2>2. \A i \in DOMAIN r : i + 1 # 1 /\ i \in Nat
      BY <1>2
    <2>3. OnceEach(t)
      <3>1. \A i, j \in DOMAIN r : i + 1 = j + 1 => i = j
        BY <2>2
      <3> QED BY <1>6, <2>1, <3>1 DEF OnceEach
    <2>4. ASSUME CallsBack(h), NEW i \in DOMAIN r, CallsBack(r[i]), r[i].op = h.op PROVE FALSE
      BY <1>2, <1>9, <2>2, <2>4 DEF OnceEach
    <2> QED BY <1>6, <2>3, <2>4 DEF Waits
  <1> QED BY <1>2, <1>7, <1>8, <1>9 DEF h

(* r is q and, after it, handlers that do nothing. *)
Prolongs(q, r) ==
  /\ DOMAIN q \subseteq DOMAIN r /\ \A i \in DOMAIN q : r[i] = q[i]
  /\ \A i \in DOMAIN r \ DOMAIN q : ~CallsBack(r[i])

LEMMA ConcatFacts ==
  ASSUME NEW q \in Seq(Handlers), NEW n \in Nat, NEW h \in Handlers
  PROVE  /\ q \o Copies(n, h) \in Seq(Handlers)
         /\ n = 0 \/ ~CallsBack(h) => Prolongs(q, q \o Copies(n, h))
  <1> DEFINE x == Copies(n, h)
             r == q \o x
  <1>1. x \in Seq(Handlers) /\ Len(x) = n /\ \A i \in 1..n : x[i] = h
    BY DEF Copies
  <1> HIDE DEF x
  <1>2. /\ r \in Seq(Handlers) /\ Len(r) = Len(q) + n /\ Len(q) \in Nat
        /\ DOMAIN r = 1..(Len(q) + n) /\ DOMAIN q = 1..Len(q)
        /\ \A i \in 1..Len(q) : r[i] = q[i]
        /\ \A i \in 1..(Len(q) + n) : i > Len(q) => r[i] = x[i - Len(q)]
    BY <1>1
  <1>3. \A i \in DOMAIN r \ DOMAIN q : n # 0 /\ r[i] = h
    <2> SUFFICES ASSUME NEW i \in DOMAIN r \ DOMAIN q PROVE n # 0 /\ r[i] = h
      OBVIOUS
    <2>1. i \in 1..(Len(q) + n) /\ i > Len(q) /\ i - Len(q) \in 1..n
      BY <1>2
    <2> QED BY <1>1, <1>2, <2>1
  <1>4. DOMAIN q \subseteq DOMAIN r
    BY <1>2
  <1>5. r \in Seq(Handlers) /\ \A i \in DOMAIN q : r[i] = q[i]
    BY <1>2
  <1> HIDE DEF r
  <1>6. n = 0 \/ ~CallsBack(h) => Prolongs(q, r)
    BY <1>3, <1>4, <1>5 DEF Prolongs
  <1> QED BY <1>5, <1>6 DEF r, x

(* Handlers that do nothing add nothing to what waits. *)
LEMMA QuietFacts ==
  ASSUME NEW s \in Object, NEW t \in Object, Prolongs(s.ready, t.ready)
  PROVE  /\ \A op : Waits(t, op) <=> Waits(s, op)
         /\ HasWritten(t) <=> HasWritten(s)
         /\ OnceEach(s) => OnceEach(t)
  <1>1. CallsBack(WriteDone)
    BY DEF CallsBack, WriteDone
  <1>2. \A op : Waits(t, op) <=> Waits(s, op)
    BY DEF Waits, Prolongs
  <1>3. HasWritten(t) <=> HasWritten(s)
    BY <1>1 DEF HasWritten, Prolongs
  <1>4. OnceEach(s) => OnceEach(t)
    BY DEF OnceEach, Prolongs
  <1> QED BY <1>2, <1>3, <1>4

----------------------------------------------------------------------------
(* Lemmas about the member functions *)

(* A read begins, or ends. *)
LEMMA ReadsType ==
  ASSUME NEW s \in Object
  PROVE  [s EXCEPT !.reads = 0] \in Object /\ [s EXCEPT !.reads = 1] \in Object
  <1>1. ASSUME NEW n \in 0..1 PROVE [s EXCEPT !.reads = n] \in Object
    BY DEF Object
  <1>2. 0 \in 0..1 /\ 1 \in 0..1
    OBVIOUS
  <1> QED BY <1>1, <1>2

LEMMA CloseFacts ==
  ASSUME NEW s \in Object
  PROVE  /\ Close(s) \in Object
         /\ Close(s).socket = "closed" /\ Close(s).reads = 0 /\ Close(s).writes = <<>>
         /\ Close(s).host = s.host /\ Close(s).connected = s.connected
         /\ Close(s).writeQueue = s.writeQueue /\ Close(s).lines = s.lines
         /\ Close(s).timer = s.timer /\ Close(s).resolving = s.resolving
         /\ Close(s).peer = s.peer /\ Close(s).undefined = s.undefined
         /\ s.socket # "connecting" => Prolongs(s.ready, Close(s).ready)
  <1> DEFINE read == [op |-> "read", ec |-> "aborted"]
             connect == [op |-> "connect", ec |-> "aborted"]
             write == [op |-> "write", ec |-> "aborted"]
             k == IF s.socket = "connecting" THEN 1 ELSE 0
             a == s.ready \o Copies(s.reads, read)
             b == a \o Copies(k, connect)
             c == b \o Copies(Len(s.writes), write)
  <1>1. read \in Handlers /\ connect \in Handlers /\ write \in Handlers
    BY DEF Handlers, Outcomes
  <1>2. ~CallsBack(read) /\ ~CallsBack(write)
    BY DEF CallsBack
  <1>3. s.reads \in Nat /\ k \in Nat /\ Len(s.writes) \in Nat /\ s.ready \in Seq(Handlers)
    <2>1. s.reads \in 0..1 /\ s.writes \in SeqOf(Messages, 1) /\ s.ready \in Seq(Handlers)
      BY DEF Object
    <2>2. Len(s.writes) \in Nat
      BY <2>1, WriteTypes
    <2> QED BY <2>1, <2>2
  <1>4. /\ Close(s) = [s EXCEPT !.socket = "closed", !.reads = 0, !.writes = <<>>, !.ready = c]
    BY DEF Close
  <1> HIDE DEF read, connect, write
  <1>5. a \in Seq(Handlers) /\ Prolongs(s.ready, a)
    BY <1>1, <1>2, <1>3, ConcatFacts
  <1> HIDE DEF a
  <1>6. b \in Seq(Handlers) /\ (k = 0 => Prolongs(a, b))
    BY <1>1, <1>3, <1>5, ConcatFacts
  <1> HIDE DEF b
  <1>7. c \in Seq(Handlers) /\ Prolongs(b, c)
    BY <1>1, <1>2, <1>3, <1>6, ConcatFacts
  <1> HIDE DEF c
  <1>8. s.socket # "connecting" => Prolongs(s.ready, c)
    BY <1>5, <1>6, <1>7 DEF Prolongs
  <1>9. Close(s) \in Object
    <2>1. <<>> \in SeqOf(Messages, 1)
      BY WriteTypes
    <2> DEFINE d == [s EXCEPT !.socket = "closed"]
               e == [d EXCEPT !.reads = 0]
               f == [e EXCEPT !.writes = <<>>]
    <2>2. d \in Object
      BY DEF Object
    <2> HIDE DEF d
    <2>6. e \in Object
      BY <2>2, ReadsType
    <2> HIDE DEF e
    <2>3. f \in Object
      BY <2>1, <2>6 DEF Object
    <2> HIDE DEF f
    <2>4. [f EXCEPT !.ready = c] \in Object
      BY <1>7, <2>3 DEF Object
    <2>5. Close(s) = [f EXCEPT !.ready = c]
      BY <1>4 DEF d, e, f, Object
    <2> QED BY <2>4, <2>5
  <1>10. /\ Close(s).socket = "closed" /\ Close(s).reads = 0 /\ Close(s).writes = <<>>
         /\ Close(s).host = s.host /\ Close(s).connected = s.connected
         /\ Close(s).writeQueue = s.writeQueue /\ Close(s).lines = s.lines
         /\ Close(s).timer = s.timer /\ Close(s).resolving = s.resolving
         /\ Close(s).peer = s.peer /\ Close(s).undefined = s.undefined
         /\ Close(s).ready = c
    BY <1>4 DEF Object
  <1> QED BY <1>8, <1>9, <1>10

(* The connection is given up, and another is tried later. *)
LEMMA CheckReconnectFacts ==
  ASSUME NEW s \in Object
  PROVE  LET t == CheckReconnect(s) IN
         /\ t \in Object /\ t.timer /\ ~t.connected
         /\ t.socket = "closed" /\ t.reads = 0 /\ t.writes = <<>>
         /\ t.writeQueue = s.writeQueue /\ t.resolving = s.resolving
         /\ t.undefined = s.undefined
         /\ s.socket # "connecting" => Prolongs(s.ready, t.ready)
  <1> DEFINE down == [s EXCEPT !.connected = FALSE]
  <1>1. /\ down \in Object /\ down.ready = s.ready /\ ~down.connected
        /\ down.socket = s.socket /\ down.writeQueue = s.writeQueue
        /\ down.resolving = s.resolving /\ down.undefined = s.undefined
    BY DEF Object
  <1> DEFINE shut == Close(down)
  <1>2. /\ shut \in Object /\ ~shut.connected /\ shut.socket = "closed" /\ shut.reads = 0
        /\ shut.writes = <<>> /\ shut.writeQueue = s.writeQueue
        /\ shut.resolving = s.resolving /\ shut.undefined = s.undefined
        /\ s.socket # "connecting" => Prolongs(s.ready, shut.ready)
    BY <1>1, CloseFacts
  <1>3. CheckReconnect(s) = [shut EXCEPT !.timer = TRUE]
    BY DEF CheckReconnect
  <1> HIDE DEF shut
  <1>4. CheckReconnect(s) \in Object
    BY <1>2, <1>3 DEF Object
  <1> QED BY <1>2, <1>3, <1>4 DEF Object

LEMMA ConnectFacts ==
  ASSUME NEW s \in Object
  PROVE  LET t == Connect(s) IN
         /\ t \in Object /\ t.ready = s.ready /\ t.resolving = Append(s.resolving, s.host)
         /\ t.connected = s.connected /\ t.writeQueue = s.writeQueue /\ t.timer = s.timer
         /\ t.socket = s.socket /\ t.reads = s.reads /\ t.writes = s.writes
         /\ t.undefined = s.undefined
  <1>1. Append(s.resolving, s.host) \in Seq(Hosts)
    BY AppendFacts DEF Object
  <1>2. Connect(s) = [s EXCEPT !.resolving = Append(s.resolving, s.host)]
    BY DEF Connect
  <1> QED BY <1>1, <1>2 DEF Object

LEMMA DoReadFacts ==
  ASSUME NEW s \in Object
  PROVE  LET t == DoRead(s) IN
         /\ t \in Object
         /\ t.connected = s.connected /\ t.writeQueue = s.writeQueue /\ t.timer = s.timer
         /\ t.resolving = s.resolving /\ t.socket = s.socket /\ t.writes = s.writes
         /\ s.reads = 0 /\ ~Waits(s, "read") =>
               /\ t.undefined = s.undefined
               /\ \A op : op # "read" => (Waits(t, op) <=> Waits(s, op))
               /\ HasWritten(t) <=> HasWritten(s)
               /\ OnceEach(s) => OnceEach(t)
               /\ t.reads = 1 => ~Waits(t, "read") /\ t.socket # "closed"
  <1> DEFINE t == DoRead(s)
  <1>1. CASE s.reads > 0
    <2>1. t = [s EXCEPT !.undefined = TRUE]
      BY <1>1 DEF DoRead
    <2>2. t \in Object
      BY <2>1 DEF Object
    <2>3. /\ t.connected = s.connected /\ t.writeQueue = s.writeQueue /\ t.timer = s.timer
          /\ t.resolving = s.resolving /\ t.socket = s.socket
          /\ t.reads = s.reads /\ t.writes = s.writes
      BY <2>1 DEF Object
    <2> HIDE DEF t
    <2> QED BY <1>1, <2>2, <2>3 DEF t
  <1>2. ASSUME ~(s.reads > 0), NEW h \in {[op |-> "read", ec |-> "ok"], [op |-> "read", ec |-> "error"]},
               t = Ready(s, h)
        PROVE  /\ t \in Object
               /\ t.connected = s.connected /\ t.writeQueue = s.writeQueue /\ t.timer = s.timer
               /\ t.resolving = s.resolving /\ t.socket = s.socket /\ t.writes = s.writes
               /\ ~Waits(s, "read") =>
                     /\ t.undefined = s.undefined
                     /\ \A op : op # "read" => (Waits(t, op) <=> Waits(s, op))
                     /\ HasWritten(t) <=> HasWritten(s)
                     /\ OnceEach(s) => OnceEach(t)
                     /\ t.reads # 1
    <2>1. h \in Handlers /\ h.op = "read" /\ h # WriteDone
      BY <1>2 DEF Handlers, Outcomes, WriteDone
    <2>2. /\ t \in Object
          /\ \A op : Waits(t, op) <=> Waits(s, op) \/ (CallsBack(h) /\ h.op = op)
          /\ HasWritten(t) <=> HasWritten(s) \/ h = WriteDone
          /\ OnceEach(s) /\ (CallsBack(h) => ~Waits(s, h.op)) => OnceEach(t)
      BY <1>2, <2>1, ReadyFacts
    <2>3. /\ t.connected = s.connected /\ t.writeQueue = s.writeQueue /\ t.timer = s.timer
          /\ t.resolving = s.resolving /\ t.socket = s.socket /\ t.writes = s.writes
          /\ t.undefined = s.undefined /\ t.reads = s.reads /\ s.reads # 1
      BY <1>2 DEF Ready, Object
    <2> HIDE DEF t
    <2> QED BY <2>1, <2>2, <2>3
  <1>3. CASE ~(s.reads > 0) /\ s.lines > 0
    <2>1. t = Ready(s, [op |-> "read", ec |-> "ok"])
      BY <1>3 DEF DoRead
    <2>2. s.reads # 1
      BY <1>3 DEF Object
    <2> HIDE DEF t
    <2>3. t.reads = s.reads
      BY <2>1 DEF Ready, Object
    <2> QED BY <1>2, <1>3, <2>1, <2>2, <2>3 DEF t
  <1>4. CASE ~(s.reads > 0) /\ ~(s.lines > 0) /\ s.socket = "closed"
    <2>1. t = Ready(s, [op |-> "read", ec |-> "error"])
      BY <1>4 DEF DoRead
    <2> HIDE DEF t
    <2> QED BY <1>2, <1>4, <2>1 DEF t
  <1>5. CASE ~(s.reads > 0) /\ ~(s.lines > 0) /\ s.socket # "closed"
    <2>1. t = [s EXCEPT !.reads = 1]
      BY <1>5 DEF DoRead
    <2>4. t \in Object
      BY <2>1, ReadsType
    <2>2. /\ t \in Object /\ t.ready = s.ready
          /\ t.connected = s.connected /\ t.writeQueue = s.writeQueue /\ t.timer = s.timer
          /\ t.resolving = s.resolving /\ t.socket = s.socket /\ t.writes = s.writes
          /\ t.undefined = s.undefined
      BY <2>1, <2>4 DEF Object
    <2> HIDE DEF t
    <2>3. /\ \A op : Waits(t, op) <=> Waits(s, op)
          /\ HasWritten(t) <=> HasWritten(s)
          /\ OnceEach(s) => OnceEach(t)
      BY <2>2 DEF Waits, HasWritten, OnceEach
    <2> QED BY <1>5, <2>2, <2>3 DEF t
  <1> QED BY <1>1, <1>3, <1>4, <1>5

LEMMA DoWriteFacts ==
  ASSUME NEW s \in Object, s.writeQueue # <<>>
  PROVE  LET t == DoWrite(s) IN
         /\ t \in Object
         /\ t.connected = s.connected /\ t.writeQueue = s.writeQueue /\ t.timer = s.timer
         /\ t.resolving = s.resolving /\ t.socket = s.socket /\ t.reads = s.reads
         /\ s.writes = <<>> /\ ~Waits(s, "write") =>
               /\ t.undefined = s.undefined
               /\ \A op : op # "write" => (Waits(t, op) <=> Waits(s, op))
               /\ HasWritten(t) <=> HasWritten(s)
               /\ OnceEach(s) => OnceEach(t)
               /\ t.writes # <<>> =>
                     /\ ~Waits(t, "write") /\ t.socket # "closed"
                     /\ Head(t.writes) = Head(s.writeQueue)
  <1> DEFINE t == DoWrite(s)
             h == [op |-> "write", ec |-> "error"]
  <1>1. CASE s.writes # <<>>
    <2>1. t = [s EXCEPT !.undefined = TRUE]
      BY <1>1 DEF DoWrite
    <2>2. t \in Object
      BY <2>1 DEF Object
    <2>3. /\ t.connected = s.connected /\ t.writeQueue = s.writeQueue /\ t.timer = s.timer
          /\ t.resolving = s.resolving /\ t.socket = s.socket
          /\ t.reads = s.reads /\ t.writes = s.writes
      BY <2>1 DEF Object
    <2> HIDE DEF t
    <2> QED BY <1>1, <2>2, <2>3 DEF t
  <1>2. CASE s.writes = <<>> /\ s.socket = "closed"
    <2>1. t = Ready(s, h)
      BY <1>2 DEF DoWrite
    <2>2. h \in Handlers /\ h.op = "write" /\ h # WriteDone
      BY DEF Handlers, Outcomes, WriteDone
    <2>3. /\ t.connected = s.connected /\ t.writeQueue = s.writeQueue /\ t.timer = s.timer
          /\ t.resolving = s.resolving /\ t.socket = s.socket /\ t.writes = s.writes
          /\ t.undefined = s.undefined /\ t.reads = s.reads
      BY <2>1 DEF Ready, Object
    <2> HIDE DEF h, t
    <2>4. /\ t \in Object
          /\ \A op : Waits(t, op) <=> Waits(s, op) \/ (CallsBack(h) /\ h.op = op)
          /\ HasWritten(t) <=> HasWritten(s) \/ h = WriteDone
          /\ OnceEach(s) /\ (CallsBack(h) => ~Waits(s, h.op)) => OnceEach(t)
      BY <2>1, <2>2, ReadyFacts
    <2>5. t.writes = <<>>
      BY <1>2, <2>3
    <2> QED BY <2>2, <2>3, <2>4, <2>5 DEF t
  <1>3. CASE s.writes = <<>> /\ s.socket # "closed"
    <2> DEFINE m == Head(s.writeQueue)
    <2>1. t = [s EXCEPT !.writes = <<m>>]
      BY <1>3 DEF DoWrite
    <2>2. m \in Messages
      BY TailFacts DEF Object
    <2>3. <<m>> \in SeqOf(Messages, 1)
      BY <2>2, WriteTypes
    <2>4. Head(<<m>>) = m
      BY <2>2
    <2> HIDE DEF m
    <2>5. /\ t \in Object /\ t.ready = s.ready /\ t.writes = <<m>>
          /\ t.connected = s.connected /\ t.writeQueue = s.writeQueue /\ t.timer = s.timer
          /\ t.resolving = s.resolving /\ t.socket = s.socket /\ t.reads = s.reads
          /\ t.undefined = s.undefined
      BY <2>1, <2>3 DEF Object
    <2> HIDE DEF t
    <2>6. /\ \A op : Waits(t, op) <=> Waits(s, op)
          /\ HasWritten(t) <=> HasWritten(s)
          /\ OnceEach(s) => OnceEach(t)
      BY <2>5 DEF Waits, HasWritten, OnceEach
    <2> QED BY <1>3, <2>4, <2>5, <2>6 DEF t, m
  <1> QED BY <1>1, <1>2, <1>3

(* WriteIfAny does nothing, or what DoWrite does. *)
LEMMA WriteIfAnyFacts ==
  ASSUME NEW s \in Object
  PROVE  LET t == WriteIfAny(s) IN
         /\ t \in Object
         /\ t.connected = s.connected /\ t.writeQueue = s.writeQueue /\ t.timer = s.timer
         /\ t.resolving = s.resolving /\ t.socket = s.socket /\ t.reads = s.reads
         /\ s.writes = <<>> /\ ~Waits(s, "write") =>
               /\ t.undefined = s.undefined
               /\ \A op : op # "write" => (Waits(t, op) <=> Waits(s, op))
               /\ HasWritten(t) <=> HasWritten(s)
               /\ OnceEach(s) => OnceEach(t)
               /\ Waits(t, "write") => s.writeQueue # <<>>
               /\ t.writes # <<>> =>
                     /\ s.writeQueue # <<>> /\ ~Waits(t, "write") /\ t.socket # "closed"
                     /\ Head(t.writes) = Head(s.writeQueue)
  <1>1. CASE s.writeQueue = <<>>
    <2>1. WriteIfAny(s) = s
      BY <1>1 DEF WriteIfAny
    <2> QED BY <2>1
  <1>2. CASE s.writeQueue # <<>>
    <2>1. WriteIfAny(s) = DoWrite(s)
      BY <1>2 DEF WriteIfAny
    <2> QED BY <1>2, <2>1, DoWriteFacts
  <1> QED BY <1>1, <1>2

(* A line is read. *)
LEMMA GetLineFacts ==
  ASSUME NEW s \in Object
  PROVE  LET t == GetLine(s) IN
         /\ t \in Object /\ t.ready = s.ready
         /\ t.connected = s.connected /\ t.writeQueue = s.writeQueue /\ t.timer = s.timer
         /\ t.resolving = s.resolving /\ t.socket = s.socket
         /\ t.reads = s.reads /\ t.writes = s.writes /\ t.undefined = s.undefined
  <1> DEFINE n == IF s.lines = 0 THEN 0 ELSE s.lines - 1
  <1>1. n \in Nat
    BY DEF Object
  <1>2. GetLine(s) = [s EXCEPT !.lines = n]
    BY DEF GetLine
  <1> HIDE DEF n
  <1>3. GetLine(s) \in Object
    BY <1>1, <1>2 DEF Object
  <1> QED BY <1>2, <1>3 DEF Object

(* Everything of the connection is dropped. *)
LEMMA DisconnectFacts ==
  ASSUME NEW s \in Object
  PROVE  LET t == OnDisconnect(s) IN
         /\ t \in Object /\ ~t.connected /\ ~t.timer
         /\ t.socket = "closed" /\ t.reads = 0 /\ t.writes = <<>> /\ t.writeQueue = <<>>
         /\ t.resolving = s.resolving /\ t.undefined = s.undefined /\ t.host = s.host
         /\ s.socket # "connecting" => Prolongs(s.ready, t.ready)
  <1> DEFINE down == [s EXCEPT !.connected = FALSE]
             shut == Close(down)
             off1 == [shut EXCEPT !.timer = FALSE]
             off2 == [off1 EXCEPT !.writeQueue = <<>>]
  <1>1. /\ down \in Object /\ down.ready = s.ready /\ ~down.connected
        /\ down.socket = s.socket /\ down.resolving = s.resolving
        /\ down.undefined = s.undefined /\ down.host = s.host
    BY DEF Object
  <1>2. /\ shut \in Object /\ ~shut.connected /\ shut.socket = "closed" /\ shut.reads = 0
        /\ shut.writes = <<>> /\ shut.resolving = s.resolving
        /\ shut.undefined = s.undefined /\ shut.host = s.host
        /\ s.socket # "connecting" => Prolongs(s.ready, shut.ready)
    BY <1>1, CloseFacts
  <1>3. OnDisconnect(s) = [shut EXCEPT !.timer = FALSE, !.writeQueue = <<>>]
    BY DEF OnDisconnect
  <1> HIDE DEF shut
  <1>4. OnDisconnect(s) = off2
    BY <1>2, <1>3 DEF Object
  <1>5. off1 \in Object
    BY <1>2 DEF Object
  <1>6. /\ ~off1.connected /\ ~off1.timer /\ off1.socket = "closed" /\ off1.reads = 0
        /\ off1.writes = <<>> /\ off1.resolving = s.resolving
        /\ off1.undefined = s.undefined /\ off1.host = s.host /\ off1.ready = shut.ready
    BY <1>2 DEF Object
  <1> HIDE DEF off1
  <1>7. off2 \in Object
    <2>1. <<>> \in Seq(Messages)
      OBVIOUS
    <2> QED BY <1>5, <2>1 DEF Object
  <1>8. /\ off2.connected = off1.connected /\ off2.timer = off1.timer
        /\ off2.socket = off1.socket /\ off2.reads = off1.reads
        /\ off2.writes = off1.writes /\ off2.resolving = off1.resolving
        /\ off2.undefined = off1.undefined /\ off2.host = off1.host
        /\ off2.ready = off1.ready /\ off2.writeQueue = <<>>
    BY <1>5 DEF Object
  <1> HIDE DEF off2
  <1> QED BY <1>2, <1>4, <1>6, <1>7, <1>8

(* Objects stay objects, whatever a handler does. *)
LEMMA HandledType ==
  ASSUME NEW s \in Object, NEW h \in Handlers
  PROVE  Handled(s, h) \in Object
  <1>1. CASE h.op = "send"
    <2> DEFINE pushed == [s EXCEPT !.writeQueue = Append(s.writeQueue, h.msg)]
    <2>1. h.msg \in Messages
      BY <1>1 DEF Handlers
    <2>2. Append(s.writeQueue, h.msg) \in Seq(Messages) /\ Append(s.writeQueue, h.msg) # <<>>
      BY <2>1, AppendFacts DEF Object
    <2>3. pushed \in Object /\ pushed.writeQueue # <<>>
      BY <2>2 DEF Object
    <2>4. Handled(s, h) = OnSend(s, h)
      BY <1>1 DEF Handled
    <2>5. OnSend(s, h) = pushed \/ OnSend(s, h) = DoWrite(pushed)
      BY DEF OnSend
    <2> HIDE DEF pushed
    <2> QED BY <2>3, <2>4, <2>5, DoWriteFacts
  <1>2. CASE h.op = "disconnect"
    BY <1>2, DisconnectFacts DEF Handled
  <1>3. CASE h.op = "setServerAddress"
    <2> DEFINE t == OnDisconnect(s)
               moved == [t EXCEPT !.host = h.host]
    <2>1. h.host \in Hosts /\ t \in Object
      BY <1>3, DisconnectFacts DEF Handlers
    <2>2. Handled(s, h) = Connect(moved)
      BY <1>3 DEF Handled, OnSetServerAddress
    <2> HIDE DEF t
    <2>3. moved \in Object
      BY <2>1 DEF Object
    <2> HIDE DEF moved
    <2> QED BY <2>2, <2>3, ConnectFacts
  <1>4. CASE h.op = "resolve"
    <2> DEFINE t == Close(s)
               tried == [t EXCEPT !.socket = "connecting"]
               aimed == [tried EXCEPT !.peer = h.host]
    <2>1. h.host \in Hosts /\ t \in Object
      BY <1>4, CloseFacts DEF Handlers
    <2>2. CheckReconnect(s) \in Object
      BY CheckReconnectFacts
    <2>3. \/ Handled(s, h) = [t EXCEPT !.socket = "connecting", !.peer = h.host]
          \/ Handled(s, h) = CheckReconnect(s)
      BY <1>4 DEF Handled, OnResolve
    <2> HIDE DEF t
    <2>4. tried \in Object
      BY <2>1 DEF Object
    <2>5. [t EXCEPT !.socket = "connecting", !.peer = h.host] = aimed
      BY <2>1 DEF Object
    <2> HIDE DEF tried
    <2>6. aimed \in Object
      BY <2>1, <2>4 DEF Object
    <2> QED BY <2>2, <2>3, <2>5, <2>6
  <1>5. CASE h.op = "connect"
    <2> DEFINE up == [s EXCEPT !.connected = TRUE]
    <2>1. up \in Object
      BY DEF Object
    <2>2. Handled(s, h) = WriteIfAny(DoRead(up)) \/ Handled(s, h) = CheckReconnect(s)
      BY <1>5 DEF Handled, OnConnect
    <2> HIDE DEF up
    <2>3. DoRead(up) \in Object
      BY <2>1, DoReadFacts
    <2>4. WriteIfAny(DoRead(up)) \in Object
      BY <2>3, WriteIfAnyFacts
    <2>5. CheckReconnect(s) \in Object
      BY CheckReconnectFacts
    <2> QED BY <2>2, <2>4, <2>5
  <1>6. CASE h.op = "read"
    <2>1. GetLine(s) \in Object
      BY GetLineFacts
    <2>2. DoRead(GetLine(s)) \in Object
      BY <2>1, DoReadFacts
    <2>3. CheckReconnect(s) \in Object
      BY CheckReconnectFacts
    <2>4. Handled(s, h) \in {DoRead(GetLine(s)), s, CheckReconnect(s)}
      BY <1>6 DEF Handled, OnRead
    <2> QED BY <2>2, <2>3, <2>4
  <1>7. CASE h.op = "write"
    <2> DEFINE lost == [s EXCEPT !.undefined = TRUE]
               rest == [s EXCEPT !.writeQueue = Tail(s.writeQueue)]
    <2>1. Pop(s) \in Object
      <3>1. CASE s.writeQueue = <<>>
        <4>1. lost \in Object
          BY DEF Object
        <4> QED BY <3>1, <4>1 DEF Pop
      <3>2. CASE s.writeQueue # <<>>
        <4>1. Tail(s.writeQueue) \in Seq(Messages)
          BY <3>2, TailFacts DEF Object
        <4>2. rest \in Object
          BY <4>1 DEF Object
        <4>3. Pop(s) = WriteIfAny(rest)
          BY <3>2 DEF Pop
        <4> HIDE DEF rest
        <4> QED BY <4>2, <4>3, WriteIfAnyFacts
      <3> QED BY <3>1, <3>2
    <2>2. CheckReconnect(s) \in Object
      BY CheckReconnectFacts
    <2>3. Handled(s, h) \in {Pop(s), s, CheckReconnect(s)}
      BY <1>7 DEF Handled, OnWrite
    <2> QED BY <2>1, <2>2, <2>3
  <1>8. CASE h.op = "timer"
    BY <1>8, ConnectFacts DEF Handled
  <1> QED BY <1>1, <1>2, <1>3, <1>4, <1>5, <1>6, <1>7, <1>8 DEF Handlers

----------------------------------------------------------------------------
(* The handlers keep the object orderly *)

(* What a handler does to the queue, in LineQueue's terms. *)
Moves(o, t) ==
  \/ t.writeQueue = o.writeQueue /\ (HasWritten(t) <=> HasWritten(o))
  \/ /\ \E m \in Messages : t.writeQueue = Append(o.writeQueue, m)
     /\ HasWritten(t) <=> HasWritten(o)
  \/ HasWritten(o) /\ ~HasWritten(t) /\ t.writeQueue = Tail(o.writeQueue)
  \/ ~HasWritten(t) /\ t.writeQueue = <<>>

(* A connection is given up in good order. *)
LEMMA GiveUp ==
  ASSUME NEW s \in Object, OnceEach(s), s.resolving = <<>>, s.socket # "connecting",
         ~Waits(s, "timer"), ~Waits(s, "resolve"), ~Waits(s, "connect"),
         Waits(s, "write") => s.writeQueue # <<>>, ~s.undefined
  PROVE  LET t == CheckReconnect(s) IN
         /\ t \in Object /\ Orderly(t)
         /\ t.writeQueue = s.writeQueue /\ (HasWritten(t) <=> HasWritten(s))
  <1> DEFINE t == CheckReconnect(s)
  <1>1. /\ t \in Object /\ t.timer /\ ~t.connected
        /\ t.socket = "closed" /\ t.reads = 0 /\ t.writes = <<>>
        /\ t.writeQueue = s.writeQueue /\ t.resolving = s.resolving
        /\ t.undefined = s.undefined /\ Prolongs(s.ready, t.ready)
    BY CheckReconnectFacts
  <1> HIDE DEF t
  <1>2. /\ \A op : Waits(t, op) <=> Waits(s, op)
        /\ HasWritten(t) <=> HasWritten(s)
        /\ OnceEach(t)
    BY <1>1, QuietFacts
  <1>3. At(t, "waiting")
    BY <1>1, <1>2 DEF At
  <1>4. SocketFits(t) /\ OneOperation(t)
    BY <1>1, <1>2 DEF SocketFits, OneOperation
  <1> QED BY <1>1, <1>2, <1>3, <1>4 DEF Orderly, Stages, t

(* What the object is, but for the handler that was taken. *)
LEMMA Taken ==
  ASSUME NEW o \in Object, o.ready # <<>>
  PROVE  LET s == [o EXCEPT !.ready = Tail(@)]
             h == Head(o.ready)
         IN  /\ s \in Object /\ h \in Handlers
             /\ s.host = o.host /\ s.connected = o.connected /\ s.writeQueue = o.writeQueue
             /\ s.timer = o.timer /\ s.resolving = o.resolving /\ s.socket = o.socket
             /\ s.reads = o.reads /\ s.writes = o.writes /\ s.undefined = o.undefined
             /\ \A op : Waits(o, op) <=> Waits(s, op) \/ (CallsBack(h) /\ h.op = op)
             /\ HasWritten(o) <=> HasWritten(s) \/ h = WriteDone
             /\ OnceEach(o) => OnceEach(s) /\ (CallsBack(h) => ~Waits(s, h.op))
  <1> DEFINE s == [o EXCEPT !.ready = Tail(o.ready)]
  <1>1. Tail(o.ready) \in Seq(Handlers)
    BY TailFacts DEF Object
  <1>2. s \in Object
    BY <1>1 DEF Object
  <1>3. /\ s.host = o.host /\ s.connected = o.connected /\ s.writeQueue = o.writeQueue
        /\ s.timer = o.timer /\ s.resolving = o.resolving /\ s.socket = o.socket
        /\ s.reads = o.reads /\ s.writes = o.writes /\ s.undefined = o.undefined
        /\ s.ready = Tail(o.ready)
    BY DEF Object
  <1> HIDE DEF s
  <1>4. LET h == Head(o.ready) IN
        /\ h \in Handlers
        /\ \A op : Waits(o, op) <=> Waits(s, op) \/ (CallsBack(h) /\ h.op = op)
        /\ HasWritten(o) <=> HasWritten(s) \/ h = WriteDone
        /\ OnceEach(o) => OnceEach(s) /\ (CallsBack(h) => ~Waits(s, h.op))
    BY <1>2, <1>3, TakeFacts
  <1> QED BY <1>2, <1>3, <1>4 DEF s

LEMMA HandlerKeeps ==
  ASSUME NEW o \in Object, o.ready # <<>>, Orderly(o),
         LET s == [o EXCEPT !.ready = Tail(@)] IN IsCommand(Head(o.ready)) => Settled(s)
  PROVE  LET t == Handled([o EXCEPT !.ready = Tail(@)], Head(o.ready))
         IN  Orderly(t) /\ Moves(o, t)
  <1> DEFINE s == [o EXCEPT !.ready = Tail(@)]
             h == Head(o.ready)
             t == Handled(s, h)
  <1>0. /\ s \in Object /\ h \in Handlers
        /\ s.host = o.host /\ s.connected = o.connected /\ s.writeQueue = o.writeQueue
        /\ s.timer = o.timer /\ s.resolving = o.resolving /\ s.socket = o.socket
        /\ s.reads = o.reads /\ s.writes = o.writes /\ s.undefined = o.undefined
        /\ \A op : Waits(o, op) <=> Waits(s, op) \/ (CallsBack(h) /\ h.op = op)
        /\ HasWritten(o) <=> HasWritten(s) \/ h = WriteDone
        /\ OnceEach(s) /\ (CallsBack(h) => ~Waits(s, h.op))
    BY Taken DEF Orderly
  <1>c. IsCommand(h) => Settled(s)
    OBVIOUS
  <1> HIDE DEF s, h
  <1>1. PICK stage \in Stages : At(o, stage)
    BY DEF Orderly
  <1>2. SocketFits(o) /\ OneOperation(o) /\ ~o.undefined /\ s.socket \in {"closed", "connecting", "open", "broken"}
        /\ s.reads \in {0, 1}
    BY <1>0 DEF Orderly, Object
  <1>3. CASE h.op = "timer"
    <2>1. t = Connect(s)
      BY <1>3 DEF Handled
    <2> HIDE DEF t
    <2>2. /\ t.ready = s.ready /\ t.resolving = Append(s.resolving, s.host)
          /\ t.connected = s.connected /\ t.writeQueue = s.writeQueue /\ t.timer = s.timer
          /\ t.socket = s.socket /\ t.reads = s.reads /\ t.writes = s.writes
          /\ t.undefined = s.undefined
      BY <1>0, <2>1, ConnectFacts
    <2>3. /\ \A op : Waits(t, op) <=> Waits(s, op)
          /\ HasWritten(t) <=> HasWritten(s)
          /\ OnceEach(t)
      BY <1>0, <2>2 DEF Waits, HasWritten, OnceEach
    <2>4. CallsBack(h) /\ h # WriteDone
      BY <1>3 DEF CallsBack, WriteDone
    <2>5. /\ stage = "woken" /\ s.resolving = <<>> /\ ~Waits(s, "timer")
      BY <1>0, <1>1, <1>3, <2>4 DEF At
    <2>6. Len(t.resolving) = 1
      BY <1>0, <2>2, <2>5 DEF Object
    <2>7. At(t, "resolving")
      BY <1>0, <1>1, <2>2, <2>3, <2>5, <2>6 DEF At
    <2>8. SocketFits(t) /\ OneOperation(t)
      BY <1>0, <1>2, <1>3, <2>2, <2>3, <2>4 DEF SocketFits, OneOperation
    <2>9. Orderly(t)
      BY <1>0, <1>2, <2>2, <2>3, <2>7, <2>8 DEF Orderly, Stages
    <2>10. Moves(o, t)
      BY <1>0, <2>2, <2>3, <2>4 DEF Moves
    <2> QED BY <2>9, <2>10 DEF t, s, h
  <1>4. CASE h.op = "resolve"
    <2>0. CallsBack(h) /\ h # WriteDone
      BY <1>4 DEF CallsBack, WriteDone
    <2>1. /\ stage = "resolved" /\ s.resolving = <<>> /\ s.socket = "closed"
          /\ s.reads = 0 /\ s.writes = <<>> /\ ~s.connected /\ ~s.timer
          /\ \A op : ~Waits(s, op) \/ op \notin {"timer", "resolve", "connect", "read", "write"}
      BY <1>0, <1>1, <1>2, <1>4, <2>0 DEF At, SocketFits
    <2>2. CASE h.ec = "ok"
      <3> DEFINE c == Close(s)
      <3>1. t = [c EXCEPT !.socket = "connecting", !.peer = h.host]
        BY <1>4, <2>2 DEF Handled, OnResolve
      <3>2. /\ c \in Object /\ c.reads = 0 /\ c.writes = <<>> /\ c.connected = s.connected
            /\ c.writeQueue = s.writeQueue /\ c.timer = s.timer /\ c.resolving = s.resolving
            /\ c.undefined = s.undefined /\ Prolongs(s.ready, c.ready)
        BY <1>0, <2>1, CloseFacts
      <3> HIDE DEF c, t
      <3>3. /\ \A op : Waits(c, op) <=> Waits(s, op)
            /\ HasWritten(c) <=> HasWritten(s)
            /\ OnceEach(c)
        BY <1>0, <3>2, QuietFacts
      <3>4. /\ t.ready = c.ready /\ t.socket = "connecting" /\ t.reads = c.reads
            /\ t.writes = c.writes /\ t.connected = c.connected
            /\ t.writeQueue = c.writeQueue /\ t.timer = c.timer /\ t.resolving = c.resolving
            /\ t.undefined = c.undefined
        BY <3>1, <3>2 DEF Object
      <3>5. /\ \A op : Waits(t, op) <=> Waits(s, op)
            /\ HasWritten(t) <=> HasWritten(s)
            /\ OnceEach(t)
        BY <3>3, <3>4 DEF Waits, HasWritten, OnceEach
      <3>6. At(t, "connecting") /\ SocketFits(t) /\ OneOperation(t)
        BY <2>1, <3>2, <3>4, <3>5 DEF At, SocketFits, OneOperation
      <3>7. Orderly(t)
        BY <1>0, <1>2, <3>2, <3>4, <3>5, <3>6 DEF Orderly, Stages
      <3>8. Moves(o, t)
        BY <1>0, <2>0, <3>2, <3>4, <3>5 DEF Moves
      <3> QED BY <3>7, <3>8 DEF t, s, h
    <2>3. CASE h.ec # "ok"
      <3>1. t = CheckReconnect(s)
        BY <1>4, <2>3 DEF Handled, OnResolve
      <3>2. Orderly(t) /\ t.writeQueue = s.writeQueue /\ (HasWritten(t) <=> HasWritten(s))
        BY <1>0, <1>2, <2>1, <3>1, GiveUp
      <3>3. Moves(o, t)
        BY <1>0, <2>0, <3>2 DEF Moves
      <3> QED BY <3>2, <3>3 DEF s, h
    <2> QED BY <2>2, <2>3
  <1>5. CASE h.op = "connect"
    <2>0. CallsBack(h) /\ h # WriteDone
      BY <1>5 DEF CallsBack, WriteDone
    <2>1. /\ stage = "answered" /\ s.resolving = <<>> /\ s.socket \in {"open", "broken"}
          /\ s.reads = 0 /\ s.writes = <<>> /\ ~s.connected /\ ~s.timer
          /\ \A op : ~Waits(s, op) \/ op \notin {"timer", "resolve", "connect", "read", "write"}
      BY <1>0, <1>1, <1>2, <1>5, <2>0 DEF At, SocketFits
    <2>2. CASE h.ec = "ok"
      <3> DEFINE up == [s EXCEPT !.connected = TRUE]
                 r == DoRead(up)
      <3>1. t = WriteIfAny(r)
        BY <1>5, <2>1, <2>2 DEF Handled, OnConnect
      <3>2. up \in Object
        BY <1>0 DEF Object
      <3>3. /\ up.ready = s.ready /\ up.socket = s.socket /\ up.reads = s.reads
            /\ up.writes = s.writes /\ up.connected /\ up.writeQueue = s.writeQueue
            /\ up.timer = s.timer /\ up.resolving = s.resolving /\ up.undefined = s.undefined
        BY <1>0 DEF Object
      <3> HIDE DEF up, t
      <3>4. /\ \A op : Waits(up, op) <=> Waits(s, op)
            /\ HasWritten(up) <=> HasWritten(s)
            /\ OnceEach(up)
        BY <1>0, <3>3 DEF Waits, HasWritten, OnceEach
      <3>5. /\ r \in Object
            /\ r.connected = up.connected /\ r.writeQueue = up.writeQueue /\ r.timer = up.timer
            /\ r.resolving = up.resolving /\ r.socket = up.socket /\ r.writes = up.writes
            /\ r.undefined = up.undefined
            /\ \A op : op # "read" => (Waits(r, op) <=> Waits(up, op))
            /\ HasWritten(r) <=> HasWritten(up)
            /\ OnceEach(r)
            /\ r.reads = 1 => ~Waits(r, "read")
        BY <2>1, <3>2, <3>3, <3>4, DoReadFacts
      <3> HIDE DEF r
      <3>6. r.writes = <<>> /\ ~Waits(r, "write")
        BY <2>1, <3>3, <3>4, <3>5
      <3>7. /\ t.connected = r.connected /\ t.writeQueue = r.writeQueue /\ t.timer = r.timer
            /\ t.resolving = r.resolving /\ t.socket = r.socket /\ t.reads = r.reads
            /\ t.undefined = r.undefined
            /\ \A op : op # "write" => (Waits(t, op) <=> Waits(r, op))
            /\ HasWritten(t) <=> HasWritten(r)
            /\ OnceEach(t)
            /\ Waits(t, "write") => r.writeQueue # <<>>
            /\ t.writes # <<>> =>
                  /\ r.writeQueue # <<>> /\ ~Waits(t, "write")
                  /\ Head(t.writes) = Head(r.writeQueue)
        BY <3>1, <3>5, <3>6, WriteIfAnyFacts
      <3>8. At(t, "connected")
        BY <2>1, <3>3, <3>4, <3>5, <3>7 DEF At
      <3>9. SocketFits(t) /\ OneOperation(t)
        BY <2>1, <3>3, <3>4, <3>5, <3>7 DEF SocketFits, OneOperation
      <3>10. Orderly(t)
        BY <1>0, <1>2, <3>3, <3>5, <3>7, <3>8, <3>9 DEF Orderly, Stages
      <3>11. Moves(o, t)
        BY <1>0, <2>0, <3>3, <3>4, <3>5, <3>7 DEF Moves
      <3> QED BY <3>10, <3>11 DEF t, s, h
    <2>3. CASE h.ec # "ok"
      <3>1. t = CheckReconnect(s)
        BY <1>5, <2>3 DEF Handled, OnConnect
      <3>2. Orderly(t) /\ t.writeQueue = s.writeQueue /\ (HasWritten(t) <=> HasWritten(s))
        BY <1>0, <1>2, <2>1, <3>1, GiveUp
      <3>3. Moves(o, t)
        BY <1>0, <2>0, <3>2 DEF Moves
      <3> QED BY <3>2, <3>3 DEF s, h
    <2> QED BY <2>2, <2>3
  <1>6. CASE h.op \in {"read", "write"} /\ h.ec = "aborted"
    <2>1. t = s
      BY <1>6 DEF Handled, OnRead, OnWrite
    <2>2. ~CallsBack(h) /\ h # WriteDone
      BY <1>6 DEF CallsBack, WriteDone
    <2>3. /\ \A op : Waits(o, op) <=> Waits(s, op)
          /\ HasWritten(o) <=> HasWritten(s)
      BY <1>0, <2>2
    <2>4. At(s, stage)
      BY <1>0, <1>1, <2>3 DEF At
    <2>5. SocketFits(s) /\ OneOperation(s)
      BY <1>0, <1>2, <2>3 DEF SocketFits, OneOperation
    <2>6. Orderly(s) /\ Moves(o, s)
      BY <1>0, <1>2, <2>3, <2>4, <2>5 DEF Orderly, Moves
    <2> QED BY <2>1, <2>6 DEF s, h
  <1>7. ASSUME h.op \in {"read", "write"}, h.ec # "aborted"
        PROVE  /\ CallsBack(h) /\ stage \in {"waiting", "connected"}
               /\ s.resolving = <<>> /\ s.socket # "connecting"
               /\ ~Waits(s, "timer") /\ ~Waits(s, "resolve") /\ ~Waits(s, "connect")
               /\ Waits(s, "write") => s.writeQueue # <<>>
               /\ s.connected \/ s.timer
               /\ s.socket \in {"open", "broken"} <=> s.connected
    <2>1. CallsBack(h)
      BY <1>7 DEF CallsBack
    <2>2. o.connected \/ o.timer
      BY <1>0, <1>2, <1>7, <2>1 DEF SocketFits
    <2>3. stage \in {"waiting", "connected"}
      BY <1>1, <2>2 DEF At
    <2> QED BY <1>0, <1>1, <1>2, <2>1, <2>2, <2>3 DEF At, SocketFits, OneOperation
  <1>8. CASE h.op \in {"read", "write"} /\ h.ec = "error"
    <2>1. t = CheckReconnect(s)
      BY <1>8 DEF Handled, OnRead, OnWrite
    <2>2. Orderly(t) /\ t.writeQueue = s.writeQueue /\ (HasWritten(t) <=> HasWritten(s))
      BY <1>0, <1>2, <1>7, <1>8, <2>1, GiveUp
    <2>3. h # WriteDone
      BY <1>8 DEF WriteDone
    <2>4. Moves(o, t)
      BY <1>0, <2>2, <2>3 DEF Moves
    <2> QED BY <2>2, <2>4 DEF s, h
  <1>9. CASE h.op = "read" /\ h.ec = "ok"
    <2> DEFINE g == GetLine(s)
    <2>1. t = DoRead(g)
      BY <1>9 DEF Handled, OnRead
    <2>2. /\ g \in Object /\ g.ready = s.ready
          /\ g.connected = s.connected /\ g.writeQueue = s.writeQueue /\ g.timer = s.timer
          /\ g.resolving = s.resolving /\ g.socket = s.socket
          /\ g.reads = s.reads /\ g.writes = s.writes /\ g.undefined = s.undefined
      BY <1>0, GetLineFacts
    <2> HIDE DEF g, t
    <2>3. /\ \A op : Waits(g, op) <=> Waits(s, op)
          /\ HasWritten(g) <=> HasWritten(s)
          /\ OnceEach(g)
      BY <1>0, <2>2 DEF Waits, HasWritten, OnceEach
    <2>4. g.reads = 0 /\ ~Waits(g, "read") /\ h # WriteDone
      BY <1>0, <1>2, <1>7, <1>9, <2>2, <2>3 DEF OneOperation, WriteDone
    <2>5. /\ t.connected = g.connected /\ t.writeQueue = g.writeQueue /\ t.timer = g.timer
          /\ t.resolving = g.resolving /\ t.socket = g.socket /\ t.writes = g.writes
          /\ t.undefined = g.undefined
          /\ \A op : op # "read" => (Waits(t, op) <=> Waits(g, op))
          /\ HasWritten(t) <=> HasWritten(g)
          /\ OnceEach(t)
          /\ t.reads = 1 => ~Waits(t, "read") /\ t.socket # "closed"
      BY <2>1, <2>2, <2>3, <2>4, DoReadFacts
    <2>6. At(t, stage)
      BY <1>0, <1>1, <1>7, <1>9, <2>2, <2>3, <2>5 DEF At
    <2>7. SocketFits(t)
      BY <1>0, <1>2, <1>7, <1>9, <2>2, <2>3, <2>5 DEF SocketFits
    <2>8. OneOperation(t)
      BY <1>0, <1>2, <1>7, <1>9, <2>2, <2>3, <2>5 DEF OneOperation
    <2>9. Orderly(t)
      BY <1>0, <1>2, <2>2, <2>5, <2>6, <2>7, <2>8 DEF Orderly
    <2>10. Moves(o, t)
      BY <1>0, <2>2, <2>3, <2>4, <2>5 DEF Moves
    <2> QED BY <2>9, <2>10 DEF t, s, h
  <1>10. CASE h.op = "write" /\ h.ec = "ok"
    <2> DEFINE rest == [s EXCEPT !.writeQueue = Tail(s.writeQueue)]
    <2>1. /\ s.writeQueue # <<>> /\ s.writes = <<>> /\ ~Waits(s, "write")
      BY <1>0, <1>2, <1>7, <1>10 DEF OneOperation
    <2>2. t = WriteIfAny(rest)
      BY <1>10, <2>1 DEF Handled, OnWrite, Pop
    <2>3. rest \in Object
      <3>1. Tail(s.writeQueue) \in Seq(Messages)
        BY <1>0, <2>1, TailFacts DEF Object
      <3> QED BY <1>0, <3>1 DEF Object
    <2>4. /\ rest.ready = s.ready /\ rest.socket = s.socket /\ rest.reads = s.reads
          /\ rest.writes = s.writes /\ rest.connected = s.connected
          /\ rest.writeQueue = Tail(s.writeQueue)
          /\ rest.timer = s.timer /\ rest.resolving = s.resolving
          /\ rest.undefined = s.undefined
      BY <1>0 DEF Object
    <2> HIDE DEF rest, t
    <2>5. /\ \A op : Waits(rest, op) <=> Waits(s, op)
          /\ HasWritten(rest) <=> HasWritten(s)
          /\ OnceEach(rest)
      BY <1>0, <2>4 DEF Waits, HasWritten, OnceEach
    <2>6. /\ t.connected = rest.connected /\ t.writeQueue = rest.writeQueue
          /\ t.timer = rest.timer /\ t.resolving = rest.resolving
          /\ t.socket = rest.socket /\ t.reads = rest.reads /\ t.undefined = rest.undefined
          /\ \A op : op # "write" => (Waits(t, op) <=> Waits(rest, op))
          /\ HasWritten(t) <=> HasWritten(rest)
          /\ OnceEach(t)
          /\ Waits(t, "write") => rest.writeQueue # <<>>
          /\ t.writes # <<>> =>
                /\ rest.writeQueue # <<>> /\ ~Waits(t, "write") /\ t.socket # "closed"
                /\ Head(t.writes) = Head(rest.writeQueue)
      <3>1. /\ rest.writes = <<>> /\ ~Waits(rest, "write") /\ OnceEach(rest)
            /\ rest.undefined = s.undefined
        BY <2>1, <2>4, <2>5
      <3>2. t = WriteIfAny(rest)
        BY <2>2 DEF rest
      <3> HIDE DEF t
      <3> QED BY <2>3, <3>1, <3>2, WriteIfAnyFacts
    <2>7. At(t, stage)
      BY <1>0, <1>1, <1>7, <1>10, <2>4, <2>5, <2>6 DEF At
    <2>8. SocketFits(t)
      BY <1>0, <1>2, <1>7, <1>10, <2>4, <2>5, <2>6 DEF SocketFits
    <2>9. OneOperation(t)
      BY <1>0, <1>2, <1>7, <1>10, <2>4, <2>5, <2>6 DEF OneOperation
    <2>10. Orderly(t)
      BY <1>0, <1>2, <2>4, <2>6, <2>7, <2>8, <2>9 DEF Orderly
    <2>11. Moves(o, t)
      <3>1. h = WriteDone
        BY <1>0, <1>10 DEF Handlers, WriteDone
      <3>2. CallsBack(WriteDone) /\ WriteDone.op = "write"
        BY DEF CallsBack, WriteDone
      <3>3. ~HasWritten(s)
        BY <2>1, <3>2 DEF HasWritten, Waits
      <3> QED BY <1>0, <2>4, <2>5, <2>6, <3>1, <3>3 DEF Moves
    <2> QED BY <2>10, <2>11 DEF t, s, h
  <1>11. CASE h.op = "send"
    <2> DEFINE pushed == [s EXCEPT !.writeQueue = Append(s.writeQueue, h.msg)]
    <2>1. ~CallsBack(h) /\ h # WriteDone /\ h.msg \in Messages
      BY <1>0, <1>11 DEF CallsBack, WriteDone, Handlers
    <2>2. /\ Append(s.writeQueue, h.msg) \in Seq(Messages) /\ Append(s.writeQueue, h.msg) # <<>>
          /\ s.writeQueue # <<>> => Head(Append(s.writeQueue, h.msg)) = Head(s.writeQueue)
      <3>1. s.writeQueue \in Seq(Messages)
        BY <1>0 DEF Object
      <3> QED BY <2>1, <3>1, AppendFacts
    <2>3. pushed \in Object
      BY <1>0, <2>2 DEF Object
    <2>4. /\ pushed.ready = s.ready /\ pushed.socket = s.socket /\ pushed.reads = s.reads
          /\ pushed.writes = s.writes /\ pushed.connected = s.connected
          /\ pushed.writeQueue = Append(s.writeQueue, h.msg)
          /\ pushed.timer = s.timer /\ pushed.resolving = s.resolving
          /\ pushed.undefined = s.undefined
      BY <1>0 DEF Object
    <2>5. t = IF s.writeQueue = <<>> /\ s.connected THEN DoWrite(pushed) ELSE pushed
      BY <1>11 DEF Handled, OnSend
    <2> HIDE DEF pushed, t
    <2>6. /\ \A op : Waits(pushed, op) <=> Waits(o, op)
          /\ HasWritten(pushed) <=> HasWritten(o)
          /\ OnceEach(pushed)
      <3>1. /\ \A op : Waits(pushed, op) <=> Waits(s, op)
            /\ HasWritten(pushed) <=> HasWritten(s)
            /\ OnceEach(pushed)
        BY <1>0, <2>4 DEF Waits, HasWritten, OnceEach
      <3> QED BY <1>0, <2>1, <3>1
    <2>7. CASE t = pushed /\ ~(s.writeQueue = <<>> /\ s.connected)
      <3>1. At(t, stage)
        BY <1>0, <1>1, <2>4, <2>6, <2>7 DEF At
      <3>2. SocketFits(t)
        BY <1>0, <1>2, <2>4, <2>6, <2>7 DEF SocketFits
      <3>3. OneOperation(t)
        BY <1>0, <1>2, <2>2, <2>4, <2>6, <2>7 DEF OneOperation
      <3>4. Orderly(t)
        BY <1>0, <1>2, <2>4, <2>6, <2>7, <3>1, <3>2, <3>3 DEF Orderly
      <3>5. Moves(o, t)
        BY <1>0, <2>1, <2>4, <2>6, <2>7 DEF Moves
      <3> QED BY <3>4, <3>5 DEF t, s, h
    <2>8. CASE t = DoWrite(pushed) /\ s.writeQueue = <<>> /\ s.connected
      <3>1. pushed.writes = <<>> /\ ~Waits(pushed, "write") /\ pushed.writeQueue # <<>>
        BY <1>0, <1>2, <2>2, <2>4, <2>6, <2>8 DEF OneOperation
      <3>2. /\ t.connected = pushed.connected /\ t.writeQueue = pushed.writeQueue
            /\ t.timer = pushed.timer /\ t.resolving = pushed.resolving
            /\ t.socket = pushed.socket /\ t.reads = pushed.reads
            /\ t.undefined = pushed.undefined
            /\ \A op : op # "write" => (Waits(t, op) <=> Waits(pushed, op))
            /\ HasWritten(t) <=> HasWritten(pushed)
            /\ OnceEach(t)
            /\ t.writes # <<>> =>
                  ~Waits(t, "write") /\ Head(t.writes) = Head(pushed.writeQueue)
        BY <2>3, <2>6, <2>8, <3>1, DoWriteFacts
      <3>3. At(t, stage)
        BY <1>0, <1>1, <2>4, <2>6, <3>2 DEF At
      <3>4. SocketFits(t)
        BY <1>0, <1>2, <2>4, <2>6, <2>8, <3>2 DEF SocketFits
      <3>5. OneOperation(t)
        BY <1>0, <1>2, <2>4, <2>6, <3>1, <3>2 DEF OneOperation
      <3>6. Orderly(t)
        BY <1>0, <1>2, <2>4, <2>6, <3>2, <3>3, <3>4, <3>5 DEF Orderly
      <3>7. Moves(o, t)
        BY <1>0, <2>1, <2>4, <2>6, <3>2 DEF Moves
      <3> QED BY <3>6, <3>7 DEF t, s, h
    <2> QED BY <2>5, <2>7, <2>8
  <1>12. CASE IsCommand(h)
    <2> DEFINE d == OnDisconnect(s)
               moved == [d EXCEPT !.host = h.host]
    <2>0. s.resolving = <<>> /\ s.socket # "connecting"
      BY <1>c, <1>12 DEF Settled
    <2>1. \A op : ~Waits(s, op)
      BY <1>c, <1>12 DEF Settled, Waits
    <2>2. /\ d \in Object /\ ~d.connected /\ ~d.timer
          /\ d.socket = "closed" /\ d.reads = 0 /\ d.writes = <<>> /\ d.writeQueue = <<>>
          /\ d.resolving = <<>> /\ d.undefined = s.undefined
          /\ Prolongs(s.ready, d.ready)
      BY <1>0, <2>0, DisconnectFacts
    <2> HIDE DEF d
    <2>3. /\ \A op : ~Waits(d, op)
          /\ HasWritten(d) <=> HasWritten(s)
          /\ OnceEach(d)
      BY <1>0, <2>1, <2>2, QuietFacts
    <2>4. ~HasWritten(d)
      <3>1. CallsBack(WriteDone) /\ WriteDone.op = "write"
        BY DEF CallsBack, WriteDone
      <3> QED BY <2>3, <3>1 DEF HasWritten, Waits
    <2>5. CASE h.op = "disconnect"
      <3>1. t = d
        BY <2>5 DEF Handled, d
      <3> HIDE DEF t
      <3>2. At(t, "off") /\ SocketFits(t) /\ OneOperation(t)
        BY <2>2, <2>3, <3>1 DEF At, SocketFits, OneOperation
      <3>3. Orderly(t) /\ Moves(o, t)
        BY <1>0, <1>2, <2>2, <2>3, <2>4, <3>1, <3>2 DEF Orderly, Moves, Stages
      <3> QED BY <3>3 DEF t, s, h
    <2>6. CASE h.op = "setServerAddress"
      <3>1. t = Connect(moved)
        BY <2>6 DEF Handled, OnSetServerAddress, d
      <3>2. h.host \in Hosts
        BY <1>0, <2>6 DEF Handlers
      <3>3. moved \in Object
        BY <2>2, <3>2 DEF Object
      <3>4. /\ moved.ready = d.ready /\ moved.socket = d.socket /\ moved.reads = d.reads
            /\ moved.writes = d.writes /\ moved.connected = d.connected
            /\ moved.writeQueue = d.writeQueue /\ moved.timer = d.timer
            /\ moved.resolving = d.resolving /\ moved.undefined = d.undefined
            /\ moved.host \in Hosts
        BY <2>2, <3>2 DEF Object
      <3> HIDE DEF moved, t
      <3>5. /\ t.ready = moved.ready /\ t.resolving = Append(moved.resolving, moved.host)
            /\ t.connected = moved.connected /\ t.writeQueue = moved.writeQueue
            /\ t.timer = moved.timer /\ t.socket = moved.socket /\ t.reads = moved.reads
            /\ t.writes = moved.writes /\ t.undefined = moved.undefined
        BY <3>1, <3>3, ConnectFacts
      <3>6. /\ \A op : ~Waits(t, op)
            /\ ~HasWritten(t)
            /\ OnceEach(t)
        BY <2>3, <2>4, <3>4, <3>5 DEF Waits, HasWritten, OnceEach
      <3>7. Len(t.resolving) = 1
        BY <2>2, <3>4, <3>5
      <3>8. At(t, "resolving") /\ SocketFits(t) /\ OneOperation(t)
        BY <2>2, <3>4, <3>5, <3>6, <3>7 DEF At, SocketFits, OneOperation
      <3>9. Orderly(t) /\ Moves(o, t)
        BY <1>0, <1>2, <2>2, <3>4, <3>5, <3>6, <3>8 DEF Orderly, Moves, Stages
      <3> QED BY <3>9 DEF t, s, h
    <2> QED BY <1>12, <2>5, <2>6 DEF IsCommand
  <1>13. \/ h.op \in {"timer", "resolve", "connect", "send"} \/ IsCommand(h)
         \/ h.op \in {"read", "write"} /\ h.ec \in {"ok", "error", "aborted"}
    BY <1>0 DEF Handlers, Outcomes, IsCommand
  <1> QED BY <1>3, <1>4, <1>5, <1>6, <1>8, <1>9, <1>10, <1>11, <1>12, <1>13

----------------------------------------------------------------------------
(* Init and types *)

LEMMA InitInv == Init => Inv
  <1> SUFFICES ASSUME Init PROVE Inv
    OBVIOUS
  <1> DEFINE made == [ready |-> <<>>, host |-> FirstHost, connected |-> FALSE,
                      writeQueue |-> <<>>, lines |-> 0, timer |-> FALSE,
                      resolving |-> <<>>, socket |-> "closed", peer |-> FirstHost,
                      reads |-> 0, writes |-> <<>>, undefined |-> FALSE]
  <1>1. made \in Object
    <2>1. <<>> \in Seq(Handlers) /\ <<>> \in Seq(Messages) /\ <<>> \in Seq(Hosts) /\ 0 \in 0..1
      OBVIOUS
    <2>2. <<>> \in SeqOf(Messages, 1)
      BY WriteTypes
    <2> QED BY <2>1, <2>2, HostsAssumption DEF Object
  <1>2. /\ made.ready = <<>> /\ made.connected = FALSE /\ made.writeQueue = <<>>
        /\ made.timer = FALSE /\ made.resolving = <<>> /\ made.socket = "closed"
        /\ made.reads = 0 /\ made.writes = <<>> /\ made.undefined = FALSE
    OBVIOUS
  <1>3. io = Connect(made)
    BY DEF Init
  <1> HIDE DEF made
  <1>4. /\ io \in Object /\ io.ready = <<>> /\ io.resolving = Append(<<>>, made.host)
        /\ ~io.connected /\ io.writeQueue = <<>> /\ ~io.timer
        /\ io.socket = "closed" /\ io.reads = 0 /\ io.writes = <<>> /\ ~io.undefined
    BY <1>1, <1>2, <1>3, ConnectFacts
  <1>5. TypeOK
    <2>1. <<>> \in Seq(Seq(Messages))
      OBVIOUS
    <2>2. sent \in 0..MaxMessages /\ arrivals \in 0..MaxArrivals
      BY BoundsAssumption DEF Init
    <2>3. faults \in 0..MaxFaults /\ commands \in 0..MaxCommands
      BY BoundsAssumption DEF Init
    <2>4. links \in Seq(Seq(Messages)) /\ overtaken \in BOOLEAN /\ off \in BOOLEAN
      BY <2>1 DEF Init
    <2> QED BY <1>4, <2>2, <2>3, <2>4 DEF TypeOK
  <1>6. \A op : ~Waits(io, op)
    BY <1>4 DEF Waits
  <1>7. OnceEach(io)
    BY <1>4 DEF OnceEach
  <1>8. Len(io.resolving) = 1
    BY <1>4
  <1>9. At(io, "resolving") /\ SocketFits(io) /\ OneOperation(io)
    BY <1>4, <1>6, <1>8 DEF At, SocketFits, OneOperation
  <1> QED BY <1>4, <1>5, <1>7, <1>9 DEF Inv, Orderly, Stages

(* The operations that complete leave the object's other members alone. *)
LEMMA TypeStep == TypeOK /\ [Next]_vars => TypeOK'
  <1> SUFFICES ASSUME TypeOK, [Next]_vars PROVE TypeOK'
    OBVIOUS
  <1> USE BoundsAssumption
  <1>0. /\ io \in Object /\ links \in Seq(Seq(Messages))
        /\ sent \in 0..MaxMessages /\ arrivals \in 0..MaxArrivals
        /\ faults \in 0..MaxFaults /\ commands \in 0..MaxCommands
        /\ overtaken \in BOOLEAN /\ off \in BOOLEAN
        /\ MaxMessages \in Nat /\ MaxArrivals \in Nat /\ MaxFaults \in Nat /\ MaxCommands \in Nat
    BY DEF TypeOK
  <1>a. ASSUME io' \in Object, UNCHANGED <<links, bounds, history>> PROVE TypeOK'
    BY <1>a DEF TypeOK, bounds, history
  <1>f. Fault => faults' \in 0..MaxFaults
    BY <1>0 DEF Fault
  <1>1. CASE RunHandler
    <2> DEFINE h == Head(io.ready)
               s == [io EXCEPT !.ready = Tail(@)]
    <2>1. s \in Object /\ h \in Handlers
      BY <1>0, <1>1, Taken DEF RunHandler
    <2>2. io' = Handled(s, h)
      BY <1>1 DEF RunHandler
    <2>3. overtaken' \in BOOLEAN /\ off' \in BOOLEAN
      BY <1>0, <1>1 DEF RunHandler
    <2>4. UNCHANGED <<links, bounds>>
      BY <1>1 DEF RunHandler
    <2> HIDE DEF s, h
    <2>5. io' \in Object
      BY <2>1, <2>2, HandledType
    <2> QED BY <2>3, <2>4, <2>5 DEF TypeOK, bounds
  <1>2. CASE Send
    <2>1. [op |-> "send", msg |-> sent + 1] \in Handlers
      <3>1. sent + 1 \in Messages
        BY <1>0, <1>2 DEF Send, Messages
      <3> QED BY <3>1 DEF Handlers
    <2>2. io' \in Object
      BY <1>0, <1>2, <2>1, ReadyFacts DEF Send
    <2>3. sent' \in 0..MaxMessages
      BY <1>0, <1>2 DEF Send
    <2> QED BY <1>2, <2>2, <2>3 DEF Send, TypeOK, history
  <1>3. CASE Command
    <2>1. [op |-> "disconnect"] \in Handlers
          /\ \A x \in Hosts : [op |-> "setServerAddress", host |-> x] \in Handlers
      BY DEF Handlers
    <2>2. io' \in Object
      <3>1. PICK h \in Handlers : io' = Ready(io, h)
        BY <1>3, <2>1 DEF Command
      <3> QED BY <1>0, <3>1, ReadyFacts
    <2>3. commands' \in 0..MaxCommands
      BY <1>0, <1>3 DEF Command
    <2> QED BY <1>3, <2>2, <2>3 DEF Command, TypeOK, history
  <1>4. CASE Resolved
    <2> DEFINE s == [io EXCEPT !.resolving = Tail(io.resolving)]
    <2>1. PICK ec \in {"ok", "error"} :
             /\ IF ec = "ok" THEN UNCHANGED faults ELSE Fault
             /\ io' = Ready(s, [op |-> "resolve", host |-> Head(io.resolving), ec |-> ec])
      BY <1>4 DEF Resolved
    <2>2. Head(io.resolving) \in Hosts /\ Tail(io.resolving) \in Seq(Hosts)
      BY <1>0, <1>4, TailFacts DEF Resolved, Object
    <2>3. s \in Object
      BY <1>0, <2>2 DEF Object
    <2> HIDE DEF s
    <2>4. [op |-> "resolve", host |-> Head(io.resolving), ec |-> ec] \in Handlers
      BY <2>2 DEF Handlers, Outcomes
    <2>5. io' \in Object
      BY <2>1, <2>3, <2>4, ReadyFacts
    <2>6. faults' \in 0..MaxFaults
      BY <1>0, <1>f, <2>1
    <2> QED BY <1>4, <2>5, <2>6 DEF Resolved, TypeOK, history
  <1>5. CASE Accepted
    <2> DEFINE s == [io EXCEPT !.socket = "open"]
    <2>1. s \in Object
      BY <1>0 DEF Object
    <2>2. [op |-> "connect", ec |-> "ok"] \in Handlers
      BY DEF Handlers, Outcomes
    <2>3. io' = Ready(s, [op |-> "connect", ec |-> "ok"])
      BY <1>5 DEF Accepted
    <2> HIDE DEF s
    <2>4. io' \in Object
      BY <2>1, <2>2, <2>3, ReadyFacts
    <2>5. links' \in Seq(Seq(Messages))
      <3>1. <<>> \in Seq(Messages)
        OBVIOUS
      <3> QED BY <1>0, <1>5, <3>1, AppendFacts DEF Accepted
    <2> QED BY <1>5, <2>4, <2>5 DEF Accepted, TypeOK, bounds, history
  <1>6. CASE Refused
    <2> DEFINE s == [io EXCEPT !.socket = "broken"]
    <2>1. s \in Object
      BY <1>0 DEF Object
    <2>2. [op |-> "connect", ec |-> "error"] \in Handlers
      BY DEF Handlers, Outcomes
    <2>3. io' = Ready(s, [op |-> "connect", ec |-> "error"])
      BY <1>6 DEF Refused
    <2> HIDE DEF s
    <2>4. io' \in Object
      BY <2>1, <2>2, <2>3, ReadyFacts
    <2>5. faults' \in 0..MaxFaults
      BY <1>0, <1>6, <1>f DEF Refused
    <2> QED BY <1>6, <2>4, <2>5 DEF Refused, TypeOK, history
  <1>7. CASE Transmitted
    <2> DEFINE s == [io EXCEPT !.writes = Tail(io.writes)]
               n == Len(links)
               line == Head(io.writes)
    <2>1. io.writes \in SeqOf(Messages, 1) /\ io.writes # <<>> /\ links # <<>>
      BY <1>0, <1>7 DEF Transmitted, Object
    <2>2. line \in Messages /\ Tail(io.writes) = <<>> /\ <<>> \in SeqOf(Messages, 1)
      BY <2>1, WriteTypes
    <2>3. s \in Object
      BY <1>0, <2>2 DEF Object
    <2>4. [op |-> "write", ec |-> "ok"] \in Handlers
      BY DEF Handlers, Outcomes
    <2>5. io' = Ready(s, [op |-> "write", ec |-> "ok"])
      BY <1>7 DEF Transmitted
    <2> HIDE DEF s, line
    <2>6. io' \in Object
      BY <2>3, <2>4, <2>5, ReadyFacts
    <2>7. links' = [links EXCEPT ![n] = Append(links[n], line)]
      BY <1>7 DEF Transmitted, line
    <2>8. n \in DOMAIN links /\ links[n] \in Seq(Messages)
      BY <1>0, <2>1
    <2>9. Append(links[n], line) \in Seq(Messages)
      BY <2>2, <2>8, AppendFacts
    <2>10. links' \in Seq(Seq(Messages))
      BY <1>0, <2>7, <2>8, <2>9
    <2> QED BY <1>7, <2>6, <2>10 DEF Transmitted, TypeOK, bounds, history
  <1>8. CASE Fails
    <2>1. CASE io.reads = 1 /\ io' = Ready([io EXCEPT !.reads = 0], [op |-> "read", ec |-> "error"])
      <3>1. [io EXCEPT !.reads = 0] \in Object
        BY <1>0, ReadsType
      <3>2. [op |-> "read", ec |-> "error"] \in Handlers
        BY DEF Handlers, Outcomes
      <3>3. io' \in Object
        BY <2>1, <3>1, <3>2, ReadyFacts
      <3>4. faults' \in 0..MaxFaults
        BY <1>0, <1>8, <1>f DEF Fails
      <3> QED BY <1>8, <3>3, <3>4 DEF Fails, TypeOK, history
    <2>2. CASE /\ io.writes # <<>>
               /\ io' = Ready([io EXCEPT !.writes = Tail(@)], [op |-> "write", ec |-> "error"])
      <3> DEFINE s == [io EXCEPT !.writes = Tail(io.writes)]
      <3>1. Tail(io.writes) \in SeqOf(Messages, 1)
        BY <1>0, <2>2, WriteTypes DEF Object
      <3>2. s \in Object
        BY <1>0, <3>1 DEF Object
      <3>3. [op |-> "write", ec |-> "error"] \in Handlers
        BY DEF Handlers, Outcomes
      <3>4. io' = Ready(s, [op |-> "write", ec |-> "error"])
        BY <2>2
      <3> HIDE DEF s
      <3>5. io' \in Object
        BY <3>2, <3>3, <3>4, ReadyFacts
      <3>6. faults' \in 0..MaxFaults
        BY <1>0, <1>8, <1>f DEF Fails
      <3> QED BY <1>8, <3>5, <3>6 DEF Fails, TypeOK, history
    <2> QED BY <1>8, <2>1, <2>2 DEF Fails
  <1>9. CASE TimerFires
    <2>1. [io EXCEPT !.timer = FALSE] \in Object
      BY <1>0 DEF Object
    <2>2. [op |-> "timer"] \in Handlers
      BY DEF Handlers
    <2>3. io' \in Object
      BY <1>9, <2>1, <2>2, ReadyFacts DEF TimerFires
    <2> QED BY <1>9, <1>a, <2>3 DEF TimerFires
  <1>10. CASE Arrives
    <2> DEFINE s == [io EXCEPT !.reads = 0]
    <2>1. PICK n \in 1..2 :
             io' = Ready([io EXCEPT !.reads = 0, !.lines = @ + n], [op |-> "read", ec |-> "ok"])
      BY <1>10 DEF Arrives
    <2>2. s \in Object
      BY <1>0, ReadsType
    <2>3. io.lines + n \in Nat
      BY <1>0 DEF Object
    <2>4. [io EXCEPT !.reads = 0, !.lines = @ + n] = [s EXCEPT !.lines = io.lines + n]
      BY <1>0 DEF Object
    <2> HIDE DEF s
    <2>5. [s EXCEPT !.lines = io.lines + n] \in Object
      BY <2>2, <2>3 DEF Object
    <2>6. [op |-> "read", ec |-> "ok"] \in Handlers
      BY DEF Handlers, Outcomes
    <2>7. io' \in Object
      BY <2>1, <2>4, <2>5, <2>6, ReadyFacts
    <2>8. arrivals' \in 0..MaxArrivals
      BY <1>0, <1>10 DEF Arrives
    <2> QED BY <1>10, <2>7, <2>8 DEF Arrives, TypeOK, history
  <1>11. CASE Breaks
    <2>1. io' \in Object
      BY <1>0, <1>11 DEF Breaks, Object
    <2>2. faults' \in 0..MaxFaults
      BY <1>11, <1>f DEF Breaks
    <2> QED BY <1>11, <2>1, <2>2 DEF Breaks, TypeOK, history
  <1>12. CASE UNCHANGED vars
    BY <1>12 DEF vars, bounds, history, TypeOK
  <1> QED BY <1>1, <1>2, <1>3, <1>4, <1>5, <1>6, <1>7, <1>8, <1>9, <1>10, <1>11, <1>12
          DEF Next, Completes

----------------------------------------------------------------------------
(* The steps keep the object orderly, and LineQueue's promise *)

(* A handler is added and nothing else of the object changes. *)
LEMMA ReadyFields ==
  ASSUME NEW s \in Object, NEW h
  PROVE  LET t == Ready(s, h) IN
         /\ t.connected = s.connected /\ t.writeQueue = s.writeQueue /\ t.timer = s.timer
         /\ t.resolving = s.resolving /\ t.socket = s.socket /\ t.reads = s.reads
         /\ t.writes = s.writes /\ t.undefined = s.undefined
  BY DEF Ready, Object

(* LineQueue's `written', before and after. *)
LEMMA WrittenFacts ==
  /\ Written <=> HasWritten(io)
  /\ HasWritten(io') => Written' = TRUE
  /\ ~HasWritten(io') => Written' = FALSE
  /\ (HasWritten(io') <=> HasWritten(io)) => Written' = Written
  <1>1. /\ Written <=> HasWritten(io)
        /\ Written' <=> HasWritten(io')
    BY DEF Written, HasWritten, WriteDone
  <1>2. Written \in BOOLEAN /\ Written' \in BOOLEAN
    BY Zenon DEF Written
  <1> QED BY <1>1, <1>2, Zenon

(* What a handler does to the queue is a step of LineQueue. *)
LEMMA MovesFacts ==
  ASSUME links' = links, Moves(io, io')
  PROVE  LQ!Next \/ UNCHANGED LQ!vars
  <1>1. CASE io'.writeQueue = io.writeQueue /\ (HasWritten(io') <=> HasWritten(io))
    <2>1. Written' = Written
      BY <1>1, WrittenFacts, Zenon
    <2> QED BY <1>1, <2>1, Zenon DEF LQ!vars
  <1>2. CASE /\ \E m \in Messages : io'.writeQueue = Append(io.writeQueue, m)
             /\ HasWritten(io') <=> HasWritten(io)
    <2>1. Written' = Written
      BY <1>2, WrittenFacts, Zenon
    <2>2. LQ!Post
      BY <1>2, <2>1, Zenon DEF LQ!Post
    <2> QED BY <2>2, Zenon DEF LQ!Next
  <1>3. CASE HasWritten(io) /\ ~HasWritten(io') /\ io'.writeQueue = Tail(io.writeQueue)
    <2>1. Written /\ Written' = FALSE
      BY <1>3, WrittenFacts, Zenon
    <2>2. LQ!Pop
      BY <1>3, <2>1, Zenon DEF LQ!Pop
    <2> QED BY <2>2, Zenon DEF LQ!Next
  <1>4. CASE ~HasWritten(io') /\ io'.writeQueue = <<>>
    <2>1. Written' = FALSE
      BY <1>4, WrittenFacts, Zenon
    <2>2. LQ!Drop
      BY <1>4, <2>1, Zenon DEF LQ!Drop
    <2> QED BY <2>2, Zenon DEF LQ!Next
  <1> QED BY <1>1, <1>2, <1>3, <1>4 DEF Moves

LEMMA StepKeeps ==
  ASSUME TypeOK, Orderly(io), Next, ~overtaken'
  PROVE  Orderly(io') /\ (LQ!Next \/ UNCHANGED LQ!vars)
  <1>0. /\ io \in Object /\ io' \in Object /\ links \in Seq(Seq(Messages))
        /\ sent \in 0..MaxMessages /\ MaxMessages \in Nat
    BY TypeStep, BoundsAssumption DEF TypeOK
  <1>o. /\ OnceEach(io) /\ SocketFits(io) /\ OneOperation(io) /\ ~io.undefined
        /\ io.socket \in {"closed", "connecting", "open", "broken"}
        /\ io.reads \in {0, 1}
    BY <1>0 DEF Orderly, Object
  <1>p. PICK stage \in Stages : At(io, stage)
    BY DEF Orderly
  (* The queue is left alone. *)
  <1>q. ASSUME links' = links, io'.writeQueue = io.writeQueue,
               HasWritten(io') <=> HasWritten(io), Orderly(io')
        PROVE  Orderly(io') /\ (LQ!Next \/ UNCHANGED LQ!vars)
    BY <1>q, MovesFacts DEF Moves
  <1>1. CASE RunHandler
    <2>1. /\ io.ready # <<>> /\ links' = links
          /\ io' = Handled([io EXCEPT !.ready = Tail(@)], Head(io.ready))
          /\ LET s == [io EXCEPT !.ready = Tail(@)] IN IsCommand(Head(io.ready)) => Settled(s)
      BY <1>1 DEF RunHandler
    <2>2. Orderly(io') /\ Moves(io, io')
      BY <1>0, <2>1, HandlerKeeps
    <2> QED BY <2>1, <2>2, MovesFacts
  <1>2. CASE Send \/ Command
    <2>1. PICK h \in Handlers : ~CallsBack(h) /\ h # WriteDone /\ io' = Ready(io, h)
      <3>1. CASE Send
        <4> DEFINE h == [op |-> "send", msg |-> sent + 1]
        <4>1. sent + 1 \in Messages
          BY <1>0, <3>1 DEF Send, Messages
        <4>2. h \in Handlers /\ ~CallsBack(h) /\ h # WriteDone
          BY <4>1 DEF Handlers, CallsBack, WriteDone
        <4> QED BY <3>1, <4>2 DEF Send
      <3>2. CASE Command
        <4>1. /\ [op |-> "disconnect"] \in Handlers
              /\ \A x \in Hosts : [op |-> "setServerAddress", host |-> x] \in Handlers
          BY DEF Handlers
        <4>2. PICK h \in Handlers :
                 h.op \in {"disconnect", "setServerAddress"} /\ io' = Ready(io, h)
          BY <3>2, <4>1 DEF Command
        <4>3. ~CallsBack(h) /\ h # WriteDone
          BY <4>2 DEF CallsBack, WriteDone
        <4> QED BY <4>2, <4>3
      <3> QED BY <1>2, <3>1, <3>2
    <2>2. /\ \A op : Waits(io', op) <=> Waits(io, op)
          /\ HasWritten(io') <=> HasWritten(io)
          /\ OnceEach(io')
      BY <1>0, <1>o, <2>1, ReadyFacts
    <2>3. /\ io'.connected = io.connected /\ io'.writeQueue = io.writeQueue
          /\ io'.timer = io.timer /\ io'.resolving = io.resolving
          /\ io'.socket = io.socket /\ io'.reads = io.reads
          /\ io'.writes = io.writes /\ io'.undefined = io.undefined
      BY <1>0, <2>1, ReadyFields
    <2>4. At(io', stage)
      BY <1>p, <2>2, <2>3 DEF At
    <2>5. SocketFits(io') /\ OneOperation(io')
      BY <1>o, <2>2, <2>3 DEF SocketFits, OneOperation
    <2>6. Orderly(io')
      BY <1>o, <2>2, <2>3, <2>4, <2>5 DEF Orderly
    <2> QED BY <1>2, <1>q, <2>2, <2>3, <2>6 DEF Send, Command
  <1>3. CASE Resolved
    <2> DEFINE s == [io EXCEPT !.resolving = Tail(io.resolving)]
    <2>1. PICK ec \in {"ok", "error"} :
             io' = Ready(s, [op |-> "resolve", host |-> Head(io.resolving), ec |-> ec])
      BY <1>3 DEF Resolved
    <2> DEFINE h == [op |-> "resolve", host |-> Head(io.resolving), ec |-> ec]
    <2>2. io.resolving # <<>> /\ io.resolving \in Seq(Hosts) /\ links' = links
      BY <1>0, <1>3 DEF Resolved, Object
    <2>3. Head(io.resolving) \in Hosts /\ Tail(io.resolving) \in Seq(Hosts)
      BY <2>2, TailFacts
    <2>4. stage = "resolving" /\ Len(io.resolving) = 1
      BY <1>p, <2>2 DEF At
    <2>5. Tail(io.resolving) = <<>>
      <3>1. Len(Tail(io.resolving)) = 0
        BY <2>2, <2>4
      <3> QED BY <2>3, <3>1, EmptySeq
    <2>6. h \in Handlers /\ CallsBack(h) /\ h.op = "resolve" /\ h # WriteDone
      BY <2>3 DEF Handlers, Outcomes, CallsBack, WriteDone
    <2>7. s \in Object
      BY <1>0, <2>3 DEF Object
    <2>8. /\ s.ready = io.ready /\ s.connected = io.connected /\ s.writeQueue = io.writeQueue
          /\ s.timer = io.timer /\ s.resolving = <<>> /\ s.socket = io.socket
          /\ s.reads = io.reads /\ s.writes = io.writes /\ s.undefined = io.undefined
      BY <1>0, <2>5 DEF Object
    <2>9. io' = Ready(s, h)
      BY <2>1
    <2> HIDE DEF s, h
    <2>10. /\ \A op : Waits(s, op) <=> Waits(io, op)
           /\ HasWritten(s) <=> HasWritten(io)
           /\ OnceEach(s)
      BY <1>o, <2>8 DEF Waits, HasWritten, OnceEach
    <2>11. ~Waits(io, "resolve")
      BY <1>p, <2>4 DEF At
    <2>12. /\ \A op : Waits(io', op) <=> Waits(io, op) \/ op = "resolve"
           /\ HasWritten(io') <=> HasWritten(io)
           /\ OnceEach(io')
      BY <2>6, <2>7, <2>9, <2>10, <2>11, ReadyFacts
    <2>13. /\ io'.connected = io.connected /\ io'.writeQueue = io.writeQueue
           /\ io'.timer = io.timer /\ io'.resolving = <<>>
           /\ io'.socket = io.socket /\ io'.reads = io.reads
           /\ io'.writes = io.writes /\ io'.undefined = io.undefined
      BY <2>7, <2>8, <2>9, ReadyFields
    <2>14. At(io', "resolved")
      BY <1>p, <2>4, <2>12, <2>13 DEF At
    <2>15. SocketFits(io') /\ OneOperation(io')
      BY <1>o, <2>12, <2>13 DEF SocketFits, OneOperation
    <2>16. Orderly(io')
      BY <1>o, <2>12, <2>13, <2>14, <2>15 DEF Orderly, Stages
    <2> QED BY <1>q, <2>2, <2>12, <2>13, <2>16
  <1>4. ASSUME io.socket = "connecting",
               NEW ec \in {"ok", "error"}, NEW k \in {"open", "broken"},
               io' = Ready([io EXCEPT !.socket = k], [op |-> "connect", ec |-> ec])
        PROVE  /\ Orderly(io') /\ io'.writeQueue = io.writeQueue
               /\ ~HasWritten(io') /\ ~HasWritten(io)
    <2> DEFINE s == [io EXCEPT !.socket = k]
               h == [op |-> "connect", ec |-> ec]
    <2>1. stage = "connecting"
      BY <1>4, <1>p DEF At
    <2>2. /\ ~io.connected /\ ~io.timer /\ io.reads = 0 /\ io.writes = <<>>
          /\ ~Waits(io, "read") /\ ~Waits(io, "write") /\ ~Waits(io, "connect")
          /\ ~Waits(io, "timer") /\ ~Waits(io, "resolve") /\ io.resolving = <<>>
      BY <1>o, <1>p, <2>1 DEF At, SocketFits
    <2>3. ~HasWritten(io)
      <3>1. CallsBack(WriteDone) /\ WriteDone.op = "write"
        BY DEF CallsBack, WriteDone
      <3> QED BY <2>2, <3>1 DEF HasWritten, Waits
    <2>4. h \in Handlers /\ CallsBack(h) /\ h.op = "connect" /\ h # WriteDone
      BY DEF Handlers, Outcomes, CallsBack, WriteDone
    <2>5. s \in Object
      BY <1>0 DEF Object
    <2>6. /\ s.ready = io.ready /\ s.connected = io.connected /\ s.writeQueue = io.writeQueue
          /\ s.timer = io.timer /\ s.resolving = io.resolving /\ s.socket = k
          /\ s.reads = io.reads /\ s.writes = io.writes /\ s.undefined = io.undefined
      BY <1>0 DEF Object
    <2>7. io' = Ready(s, h)
      BY <1>4
    <2> HIDE DEF s, h
    <2>8. /\ \A op : Waits(s, op) <=> Waits(io, op)
          /\ HasWritten(s) <=> HasWritten(io)
          /\ OnceEach(s)
      BY <1>o, <2>6 DEF Waits, HasWritten, OnceEach
    <2>9. /\ \A op : Waits(io', op) <=> Waits(io, op) \/ op = "connect"
          /\ HasWritten(io') <=> HasWritten(io)
          /\ OnceEach(io')
      BY <2>2, <2>4, <2>5, <2>7, <2>8, ReadyFacts
    <2>10. /\ io'.connected = io.connected /\ io'.writeQueue = io.writeQueue
           /\ io'.timer = io.timer /\ io'.resolving = io.resolving
           /\ io'.socket = k /\ io'.reads = io.reads
           /\ io'.writes = io.writes /\ io'.undefined = io.undefined
      BY <2>5, <2>6, <2>7, ReadyFields
    <2>11. At(io', "answered")
      BY <2>2, <2>9, <2>10 DEF At
    <2>12. SocketFits(io') /\ OneOperation(io')
      BY <2>2, <2>9, <2>10 DEF SocketFits, OneOperation
    <2> QED BY <1>o, <2>3, <2>9, <2>10, <2>11, <2>12 DEF Orderly, Stages
  <1>5. CASE Accepted
    <2>1. /\ Orderly(io') /\ io'.writeQueue = io.writeQueue
          /\ ~HasWritten(io') /\ links' = Append(links, <<>>)
      BY <1>4, <1>5 DEF Accepted
    <2>2. Written' = FALSE
      BY <2>1, WrittenFacts, Zenon
    <2>3. LQ!Open
      BY <2>1, <2>2, Zenon DEF LQ!Open
    <2> QED BY <2>1, <2>3, Zenon DEF LQ!Next
  <1>6. CASE Refused
    <2>1. /\ Orderly(io') /\ io'.writeQueue = io.writeQueue
          /\ ~HasWritten(io') /\ ~HasWritten(io) /\ links' = links
      BY <1>4, <1>6 DEF Refused
    <2> QED BY <1>q, <2>1
  (* The read or the write under way calls back. *)
  <1>7. ASSUME NEW s \in Object, NEW h \in Handlers, CallsBack(h), io' = Ready(s, h),
               s.ready = io.ready, s.connected = io.connected, s.writeQueue = io.writeQueue,
               s.timer = io.timer, s.resolving = io.resolving, s.socket = io.socket,
               s.undefined = io.undefined,
               \/ /\ h.op = "read" /\ io.reads = 1
                  /\ s.reads = 0 /\ s.writes = io.writes
               \/ /\ h.op = "write" /\ io.writes # <<>>
                  /\ s.writes = <<>> /\ s.reads = io.reads
        PROVE  /\ Orderly(io') /\ io'.writeQueue = io.writeQueue
               /\ HasWritten(io') <=> HasWritten(io) \/ h = WriteDone
    <2>1. /\ \A op : Waits(s, op) <=> Waits(io, op)
          /\ HasWritten(s) <=> HasWritten(io)
          /\ OnceEach(s)
      BY <1>o, <1>7 DEF Waits, HasWritten, OnceEach
    <2>2. ~Waits(io, h.op) /\ io.connected
      BY <1>o, <1>7 DEF OneOperation, SocketFits
    <2>3. /\ \A op : Waits(io', op) <=> Waits(io, op) \/ op = h.op
          /\ HasWritten(io') <=> HasWritten(io) \/ h = WriteDone
          /\ OnceEach(io')
      BY <1>7, <2>1, <2>2, ReadyFacts
    <2>4. /\ io'.connected = io.connected /\ io'.writeQueue = io.writeQueue
          /\ io'.timer = io.timer /\ io'.resolving = io.resolving
          /\ io'.socket = io.socket /\ io'.reads = s.reads
          /\ io'.writes = s.writes /\ io'.undefined = io.undefined
      BY <1>7, ReadyFields
    <2>5. h.op \in {"read", "write"}
      BY <1>7
    <2>6. At(io', stage)
      BY <1>p, <2>3, <2>4, <2>5 DEF At
    <2>7. SocketFits(io')
      BY <1>o, <1>7, <2>2, <2>3, <2>4, <2>5 DEF SocketFits
    <2>8. OneOperation(io')
      BY <1>o, <1>7, <2>2, <2>3, <2>4, <2>5 DEF OneOperation
    <2> QED BY <1>o, <2>3, <2>4, <2>6, <2>7, <2>8 DEF Orderly
  <1>8. CASE Transmitted
    <2> DEFINE s == [io EXCEPT !.writes = Tail(io.writes)]
    <2>1. /\ io.writes # <<>> /\ links # <<>> /\ io' = Ready(s, WriteDone)
          /\ links' = [links EXCEPT ![Len(links)] = Append(@, Head(io.writes))]
      BY <1>8 DEF Transmitted, WriteDone
    <2>2. Tail(io.writes) = <<>> /\ <<>> \in SeqOf(Messages, 1)
      BY <1>0, <2>1, WriteTypes DEF Object
    <2>3. s \in Object
      BY <1>0, <2>2 DEF Object
    <2>4. /\ s.ready = io.ready /\ s.connected = io.connected /\ s.writeQueue = io.writeQueue
          /\ s.timer = io.timer /\ s.resolving = io.resolving /\ s.socket = io.socket
          /\ s.reads = io.reads /\ s.writes = <<>> /\ s.undefined = io.undefined
      BY <1>0, <2>2 DEF Object
    <2> HIDE DEF s
    <2>5. WriteDone \in Handlers /\ CallsBack(WriteDone) /\ WriteDone.op = "write"
      BY DEF Handlers, Outcomes, CallsBack, WriteDone
    <2>6. Orderly(io') /\ io'.writeQueue = io.writeQueue /\ HasWritten(io')
      BY <1>7, <2>1, <2>3, <2>4, <2>5
    <2>7. /\ ~HasWritten(io) /\ io.writeQueue # <<>>
          /\ Head(io.writes) = Head(io.writeQueue)
      BY <1>o, <2>1, <2>5 DEF OneOperation, HasWritten, Waits
    <2>8. ~Written /\ Written' = TRUE
      BY <2>6, <2>7, WrittenFacts, Zenon
    <2>9. links' = [links EXCEPT ![Len(links)] = Append(@, Head(io.writeQueue))]
      BY <2>1, <2>7
    <2>10. LQ!Write
      BY <2>1, <2>6, <2>7, <2>8, <2>9, Zenon DEF LQ!Write
    <2> QED BY <2>6, <2>10, Zenon DEF LQ!Next
  <1>9. CASE Fails
    <2>0. links' = links
      BY <1>9 DEF Fails
    <2>1. CASE io.reads = 1 /\ io' = Ready([io EXCEPT !.reads = 0], [op |-> "read", ec |-> "error"])
      <3> DEFINE s == [io EXCEPT !.reads = 0]
                 h == [op |-> "read", ec |-> "error"]
      <3>1. s \in Object
        BY <1>0, ReadsType
      <3>2. /\ s.ready = io.ready /\ s.connected = io.connected /\ s.writeQueue = io.writeQueue
            /\ s.timer = io.timer /\ s.resolving = io.resolving /\ s.socket = io.socket
            /\ s.reads = 0 /\ s.writes = io.writes /\ s.undefined = io.undefined
        BY <1>0 DEF Object
      <3>3. h \in Handlers /\ CallsBack(h) /\ h.op = "read" /\ h # WriteDone
        BY DEF Handlers, Outcomes, CallsBack, WriteDone
      <3>4. io' = Ready(s, h)
        BY <2>1
      <3> HIDE DEF s, h
      <3>5. /\ Orderly(io') /\ io'.writeQueue = io.writeQueue
            /\ HasWritten(io') <=> HasWritten(io)
        BY <1>7, <2>1, <3>1, <3>2, <3>3, <3>4
      <3> QED BY <1>q, <2>0, <3>5
    <2>2. CASE /\ io.writes # <<>>
               /\ io' = Ready([io EXCEPT !.writes = Tail(@)], [op |-> "write", ec |-> "error"])
      <3> DEFINE s == [io EXCEPT !.writes = Tail(io.writes)]
                 h == [op |-> "write", ec |-> "error"]
      <3>1. Tail(io.writes) = <<>> /\ <<>> \in SeqOf(Messages, 1)
        BY <1>0, <2>2, WriteTypes DEF Object
      <3>2. s \in Object
        BY <1>0, <3>1 DEF Object
      <3>3. /\ s.ready = io.ready /\ s.connected = io.connected /\ s.writeQueue = io.writeQueue
            /\ s.timer = io.timer /\ s.resolving = io.resolving /\ s.socket = io.socket
            /\ s.reads = io.reads /\ s.writes = <<>> /\ s.undefined = io.undefined
        BY <1>0, <3>1 DEF Object
      <3>4. h \in Handlers /\ CallsBack(h) /\ h.op = "write" /\ h # WriteDone
        BY DEF Handlers, Outcomes, CallsBack, WriteDone
      <3>5. io' = Ready(s, h)
        BY <2>2
      <3> HIDE DEF s, h
      <3>6. /\ Orderly(io') /\ io'.writeQueue = io.writeQueue
            /\ HasWritten(io') <=> HasWritten(io)
        BY <1>7, <2>2, <3>2, <3>3, <3>4, <3>5
      <3> QED BY <1>q, <2>0, <3>6
    <2> QED BY <1>9, <2>1, <2>2 DEF Fails
  <1>10. CASE Arrives
    <2> DEFINE h == [op |-> "read", ec |-> "ok"]
    <2>1. PICK n \in 1..2 : io' = Ready([io EXCEPT !.reads = 0, !.lines = @ + n], h)
      BY <1>10 DEF Arrives
    <2> DEFINE read == [io EXCEPT !.reads = 0]
               s == [read EXCEPT !.lines = io.lines + n]
    <2>a. read \in Object
      BY <1>0, ReadsType
    <2>b. io.lines + n \in Nat
      BY <1>0 DEF Object
    <2>2. read \in Object /\ io.lines + n \in Nat
      BY <2>a, <2>b
    <2>3. io' = Ready(s, h)
      BY <1>0, <2>1 DEF Object
    <2>4. /\ read.ready = io.ready /\ read.connected = io.connected
          /\ read.writeQueue = io.writeQueue /\ read.timer = io.timer
          /\ read.resolving = io.resolving /\ read.socket = io.socket /\ read.reads = 0
          /\ read.writes = io.writes /\ read.undefined = io.undefined
      BY <1>0 DEF Object
    <2> HIDE DEF read
    <2>5. s \in Object
      BY <2>2 DEF Object
    <2>6. /\ s.ready = io.ready /\ s.connected = io.connected /\ s.writeQueue = io.writeQueue
          /\ s.timer = io.timer /\ s.resolving = io.resolving /\ s.socket = io.socket
          /\ s.reads = 0 /\ s.writes = io.writes /\ s.undefined = io.undefined
      BY <2>2, <2>4 DEF Object
    <2>7. h \in Handlers /\ CallsBack(h) /\ h.op = "read" /\ h # WriteDone
      BY DEF Handlers, Outcomes, CallsBack, WriteDone
    <2>8. io.reads = 1 /\ links' = links
      BY <1>10 DEF Arrives
    <2> HIDE DEF s, h
    <2>9. /\ Orderly(io') /\ io'.writeQueue = io.writeQueue
          /\ HasWritten(io') <=> HasWritten(io)
      BY <1>7, <2>3, <2>5, <2>6, <2>7, <2>8
    <2> QED BY <1>q, <2>8, <2>9
  <1>11. CASE TimerFires
    <2> DEFINE s == [io EXCEPT !.timer = FALSE]
               h == [op |-> "timer"]
    <2>1. io.timer /\ io.ready = <<>> /\ io' = Ready(s, h) /\ links' = links
      BY <1>11 DEF TimerFires
    <2>2. s \in Object
      BY <1>0 DEF Object
    <2>3. /\ s.ready = io.ready /\ s.connected = io.connected /\ s.writeQueue = io.writeQueue
          /\ ~s.timer /\ s.resolving = io.resolving /\ s.socket = io.socket
          /\ s.reads = io.reads /\ s.writes = io.writes /\ s.undefined = io.undefined
      BY <1>0 DEF Object
    <2>4. h \in Handlers /\ CallsBack(h) /\ h.op = "timer" /\ h # WriteDone
      BY DEF Handlers, CallsBack, WriteDone
    <2> HIDE DEF s, h
    <2>5. /\ \A op : ~Waits(s, op) /\ ~Waits(io, op)
          /\ ~HasWritten(s) /\ ~HasWritten(io) /\ OnceEach(s)
      BY <2>1, <2>3 DEF Waits, HasWritten, OnceEach
    <2>6. /\ \A op : Waits(io', op) <=> op = "timer"
          /\ ~HasWritten(io') /\ OnceEach(io')
      BY <2>1, <2>2, <2>4, <2>5, ReadyFacts
    <2>7. /\ io'.connected = io.connected /\ io'.writeQueue = io.writeQueue
          /\ ~io'.timer /\ io'.resolving = io.resolving
          /\ io'.socket = io.socket /\ io'.reads = io.reads
          /\ io'.writes = io.writes /\ io'.undefined = io.undefined
      BY <2>1, <2>2, <2>3, ReadyFields
    <2>8. stage = "waiting"
      BY <1>p, <2>1 DEF At
    <2>9. At(io', "woken")
      BY <1>p, <2>6, <2>7, <2>8 DEF At
    <2>10. SocketFits(io') /\ OneOperation(io')
      BY <1>o, <1>p, <2>5, <2>6, <2>7, <2>8 DEF At, SocketFits, OneOperation
    <2>11. Orderly(io')
      BY <1>o, <2>6, <2>7, <2>9, <2>10 DEF Orderly, Stages
    <2> QED BY <1>q, <2>1, <2>5, <2>6, <2>7, <2>11
  <1>12. CASE Breaks
    <2>1. io.socket = "open" /\ io' = [io EXCEPT !.socket = "broken"] /\ links' = links
      BY <1>12 DEF Breaks
    <2>2. /\ io'.ready = io.ready /\ io'.connected = io.connected
          /\ io'.writeQueue = io.writeQueue
          /\ io'.timer = io.timer /\ io'.resolving = io.resolving /\ io'.socket = "broken"
          /\ io'.reads = io.reads /\ io'.writes = io.writes /\ io'.undefined = io.undefined
      BY <1>0, <2>1 DEF Object
    <2>3. /\ \A op : Waits(io', op) <=> Waits(io, op)
          /\ HasWritten(io') <=> HasWritten(io)
          /\ OnceEach(io')
      BY <1>o, <2>2 DEF Waits, HasWritten, OnceEach
    <2>4. At(io', stage)
      BY <1>p, <2>2, <2>3 DEF At
    <2>5. SocketFits(io') /\ OneOperation(io')
      BY <1>o, <2>1, <2>2, <2>3 DEF SocketFits, OneOperation
    <2>6. Orderly(io')
      BY <1>o, <2>2, <2>3, <2>4, <2>5 DEF Orderly
    <2> QED BY <1>q, <2>1, <2>2, <2>3, <2>6
  <1> QED BY <1>1, <1>2, <1>3, <1>5, <1>6, <1>8, <1>9, <1>10, <1>11, <1>12 DEF Next, Completes

----------------------------------------------------------------------------
(* The theorems *)

(* The invariant of TcpClient holds: the members of the object keep their
   types, and until a command overtakes a connection the object is at one
   stage of connecting, with one read, and one write, of the front. *)
THEOREM InvHolds == Spec => []Inv
  <1>1. Inv /\ [Next]_vars => Inv'
    <2> SUFFICES ASSUME Inv, [Next]_vars, ~overtaken' PROVE Orderly(io')
      BY TypeStep DEF Inv
    <2>1. TypeOK
      BY DEF Inv
    <2>2. CASE Next
      <3>1. ~overtaken
        BY <2>2 DEF Next, RunHandler, Send, Command, Completes, Resolved, Accepted, Refused,
                   Transmitted, Fails, TimerFires, Arrives, Breaks, history
      <3> QED BY <2>1, <2>2, <3>1, StepKeeps DEF Inv
    <2>3. CASE UNCHANGED vars
      BY <2>3 DEF vars, history, Inv
    <2> QED BY <2>2, <2>3
  <1> QED BY <1>1, InitInv, PTL DEF Spec

(* The members of TcpClient, and what was written, keep their types. *)
THEOREM TypeCorrect == Spec => []TypeOK
  <1>1. Inv => TypeOK
    BY DEF Inv
  <1> QED BY <1>1, InvHolds, PTL

(* No second read or write is started, and writeQueue is not popped when it is
   empty, unless a command overtook a connection (doRead, doWrite). *)
THEOREM StaysDefined == Spec => []Defined
  <1>1. Inv => Defined
    BY DEF Inv, Orderly, Defined
  <1> QED BY <1>1, InvHolds, PTL

(* With the same exception, lines go out as LineQueue says: in order, each
   popped once it was written, the front again on a new connection. *)
THEOREM OrderKept == Spec => KeepsOrder
  <1> DEFINE Step == overtaken' \/ LQ!Next \/ UNCHANGED LQ!vars
  <1>1. Inv /\ [Next]_vars => [Step]_vars
    <2> SUFFICES ASSUME Inv, Next, ~overtaken' PROVE LQ!Next \/ UNCHANGED LQ!vars
      OBVIOUS
    <2>1. ~overtaken
      BY DEF Next, RunHandler, Send, Command, Completes, Resolved, Accepted, Refused,
             Transmitted, Fails, TimerFires, Arrives, Breaks, history
    <2> QED BY <2>1, StepKeeps DEF Inv
  <1> QED BY <1>1, InvHolds, PTL DEF Spec, KeepsOrder
=============================================================================
