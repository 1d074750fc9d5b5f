-------------------------- MODULE ClientSyncProofs --------------------------
(***************************************************************************)
(* Proofs about ClientSync for any users, groups, tasks, texts and plans:  *)
(* SyncInv is inductive.  The types of the tables come from StudyDbProofs. *)
(* What is proved of the pins rests on one place for the toggle of a       *)
(* group: queue, answer or reply.                                          *)
(***************************************************************************)
EXTENDS ClientSync, StudyDbProofs, SequenceTheorems, FiniteSetTheorems

(* This client's user has registered. *)
LEMMA MeIsUser == Me \in UserId
  <1>1. MaxUser # 0 /\ MaxUser # 1
    BY ClientSyncAssumption
  <1>2. MaxUser \in Nat /\ Me \in {1, 2}
    BY BoundsAssumption, ClientSyncAssumption
  <1> QED BY <1>1, <1>2 DEF UserId

(* An element appended comes last, the others stay where they are. *)
LEMMA AppendFacts ==
  ASSUME NEW S, NEW s \in Seq(S), NEW x \in S
  PROVE  /\ Append(s, x) \in Seq(S) /\ Append(s, x) # <<>>
         /\ Len(Append(s, x)) = Len(s) + 1 /\ Append(s, x)[Len(s) + 1] = x
         /\ DOMAIN Append(s, x) = DOMAIN s \cup {Len(s) + 1}
         /\ Len(s) \in Nat /\ Len(s) + 1 \notin DOMAIN s
         /\ \A i \in DOMAIN s : i \in Nat /\ i <= Len(s) /\ Append(s, x)[i] = s[i]
         /\ \A i \in DOMAIN Append(s, x) :
               Append(s, x)[i] = x \/ (i \in DOMAIN s /\ Append(s, x)[i] = s[i])
  <1>1. /\ Append(s, x) \in Seq(S) /\ Append(s, x) # <<>>
        /\ Len(Append(s, x)) = Len(s) + 1
        /\ \A i \in 1..Len(s) : Append(s, x)[i] = s[i]
        /\ Append(s, x)[Len(s) + 1] = x
    BY AppendProperties
  <1>2. DOMAIN Append(s, x) = 1..Len(s) + 1 /\ DOMAIN s = 1..Len(s) /\ Len(s) \in Nat
    BY <1>1, LenProperties
  <1> QED BY <1>1, <1>2

(* The tail holds the elements after the first. *)
LEMMA TailFacts ==
  ASSUME NEW S, NEW s \in Seq(S), s # <<>>
  PROVE  /\ Head(s) \in S /\ 1 \in DOMAIN s /\ Head(s) = s[1]
         /\ Tail(s) \in Seq(S)
         /\ \A i \in DOMAIN Tail(s) :
               i \in Nat \ {0} /\ i + 1 \in DOMAIN s /\ Tail(s)[i] = s[i + 1]
  OBVIOUS

(* A queue of at most one element, which is not empty. *)
LEMMA OneElement ==
  ASSUME NEW T, NEW a \in Seq(T), a # <<>>, Len(a) <= 1
  PROVE  Len(a) = 1 /\ a[1] \in T /\ DOMAIN a = {1}
  <1>1. Len(a) # 0
    BY EmptySeq, LenProperties, SeqEqual
  <1>2. Len(a) \in Nat /\ DOMAIN a = 1..Len(a)
    BY LenProperties
  <1>3. Len(a) = 1
    BY <1>1, <1>2
  <1> QED BY <1>2, <1>3

(* A queue of at most one element, which is not empty, at the end of another. *)
LEMMA ConcatOne ==
  ASSUME NEW S, NEW q \in Seq(S), NEW T, NEW a \in Seq(T), a # <<>>, Len(a) <= 1
  PROVE  q \o a = Append(q, a[1]) /\ a[1] \in T /\ DOMAIN a = {1}
  <1> DEFINE U == S \cup T
  <1>1. Len(q) \in Nat /\ DOMAIN q = 1..Len(q)
    BY LenProperties
  <1>2. Len(a) = 1
    BY OneElement
  <1>3. DOMAIN a = {1} /\ a[1] \in T
    BY OneElement
  <1>4. q \in Seq(U) /\ a \in Seq(U) /\ a[1] \in U
    BY <1>3
  <1> HIDE DEF U
  <1>5. /\ q \o a \in Seq(U) /\ Len(q \o a) = Len(q) + Len(a)
        /\ \A i \in 1..Len(q) + Len(a) :
              (q \o a)[i] = IF i <= Len(q) THEN q[i] ELSE a[i - Len(q)]
    <2> HIDE <1>2
    <2> QED BY <1>4, ConcatProperties, Zenon
  <1>6. /\ Append(q, a[1]) \in Seq(U) /\ Len(Append(q, a[1])) = Len(q) + 1
        /\ \A i \in 1..Len(q) : Append(q, a[1])[i] = q[i]
        /\ Append(q, a[1])[Len(q) + 1] = a[1]
    BY <1>4, AppendProperties
  <1>7. Len(q \o a) = Len(Append(q, a[1]))
    BY <1>1, <1>2, <1>5, <1>6
  <1>8. ASSUME NEW i \in 1..Len(q) + 1 PROVE (q \o a)[i] = Append(q, a[1])[i]
    <2>1. CASE i <= Len(q)
      BY <1>1, <1>2, <1>5, <1>6, <2>1
    <2>2. CASE i = Len(q) + 1
      BY <1>1, <1>2, <1>5, <1>6, <2>2
    <2> QED BY <1>1, <2>1, <2>2
  <1>9. q \o a = Append(q, a[1])
    BY <1>5, <1>6, <1>7, <1>8, SeqEqual
  <1> QED BY <1>3, <1>9

----------------------------------------------------------------------------
(* Queues *)

(* Requests and replies carry a call, payloads do not. *)
LEMMA ReplyOrPayload ==
  ASSUME NEW m
  PROVE  /\ m \in RequestMail \cup ReplyMail => IsReply(m)
         /\ m \in Local => ~IsReply(m)
  BY DEF RequestMail, ReplyMail, Local, IsReply

LEMMA AppendAwaits ==
  ASSUME NEW S, NEW q \in Seq(S), NEW m \in S, NEW g
  PROVE  /\ Awaits(Append(q, m), g) <=> Awaits(q, g) \/ Toggles(m, g)
         /\ Once(q, g) /\ ~(Awaits(q, g) /\ Toggles(m, g)) => Once(Append(q, m), g)
  <1>1. /\ \A i \in DOMAIN q : i \in DOMAIN Append(q, m) /\ Append(q, m)[i] = q[i]
        /\ Len(q) + 1 \in DOMAIN Append(q, m) /\ Append(q, m)[Len(q) + 1] = m
        /\ \A i \in DOMAIN Append(q, m) :
              i = Len(q) + 1 \/ (i \in DOMAIN q /\ Append(q, m)[i] = q[i])
    BY AppendFacts
  <1> QED BY <1>1 DEF Awaits, Once

LEMMA TailAwaits ==
  ASSUME NEW S, NEW q \in Seq(S), q # <<>>, NEW g
  PROVE  /\ Awaits(q, g) <=> Toggles(Head(q), g) \/ Awaits(Tail(q), g)
         /\ Once(q, g) => Once(Tail(q), g) /\ ~(Toggles(Head(q), g) /\ Awaits(Tail(q), g))
  <1>1. /\ Head(q) = q[1] /\ 1 \in DOMAIN q
        /\ \A i \in DOMAIN Tail(q) :
              i \in Nat \ {0} /\ i + 1 \in DOMAIN q /\ Tail(q)[i] = q[i + 1]
    BY TailFacts
  <1>2. \A i \in DOMAIN q : i = 1 \/ (i \in Int /\ i - 1 \in DOMAIN Tail(q) /\ Tail(q)[i - 1] = q[i])
    OBVIOUS
  <1>3. ASSUME Awaits(q, g) PROVE Toggles(Head(q), g) \/ Awaits(Tail(q), g)
    BY <1>1, <1>2, <1>3 DEF Awaits
  <1>4. ASSUME Toggles(Head(q), g) \/ Awaits(Tail(q), g) PROVE Awaits(q, g)
    BY <1>1, <1>4 DEF Awaits
  <1>5. ASSUME Once(q, g)
        PROVE  Once(Tail(q), g) /\ ~(Toggles(Head(q), g) /\ Awaits(Tail(q), g))
    <2>1. ASSUME NEW i \in DOMAIN Tail(q), NEW j \in DOMAIN Tail(q),
                 Toggles(Tail(q)[i], g), Toggles(Tail(q)[j], g)
          PROVE  i = j
      <3>1. i + 1 = j + 1
        BY <1>1, <1>5, <2>1 DEF Once
      <3> QED BY <1>1, <3>1
    <2>2. ASSUME Toggles(Head(q), g), NEW i \in DOMAIN Tail(q), Toggles(Tail(q)[i], g)
          PROVE  FALSE
      <3>1. i + 1 = 1 /\ i \in Nat \ {0}
        BY <1>1, <1>5, <2>2 DEF Once
      <3> QED BY <3>1
    <2> QED BY <2>1, <2>2 DEF Once, Awaits
  <1> QED BY <1>3, <1>4, <1>5

(* A call nobody waits for any more. *)
LEMMA ForgottenFacts ==
  ASSUME NEW S, NEW q \in Seq(S), NEW i \in DOMAIN q, q[i] \in RequestMail \cup ReplyMail,
         q[i] \in RequestMail => RequestMail \subseteq S,
         q[i] \in ReplyMail => ReplyMail \subseteq S
  PROVE  LET f == Forgotten(q, i) IN
         /\ f \in Seq(S) /\ Len(f) = Len(q) /\ DOMAIN f = DOMAIN q
         /\ \A j \in DOMAIN q : j # i => f[j] = q[j]
         /\ f[i].call = q[i].call /\ ~f[i].waited
         /\ DOMAIN f[i] = DOMAIN q[i]
         /\ q[i] \in ReplyMail => f[i].ok = q[i].ok /\ f[i].id = q[i].id
  <1> DEFINE m == [q[i] EXCEPT !.waited = FALSE]
             f == Forgotten(q, i)
  <1>1. /\ m \in S /\ m.call = q[i].call /\ ~m.waited /\ DOMAIN m = DOMAIN q[i]
        /\ q[i] \in ReplyMail => m.ok = q[i].ok /\ m.id = q[i].id
    <2>1. CASE q[i] \in RequestMail
      BY <2>1 DEF RequestMail, ReplyMail
    <2>2. CASE q[i] \in ReplyMail
      BY <2>2 DEF RequestMail, ReplyMail
    <2> QED BY <2>1, <2>2
  <1>2. f = [q EXCEPT ![i] = m]
    BY DEF Forgotten
  <1> HIDE DEF m
  <1>3. f \in Seq(S) /\ Len(f) = Len(q) /\ DOMAIN f = DOMAIN q
    BY <1>1, <1>2
  <1>4. f[i] = m /\ \A j \in DOMAIN q : j # i => f[j] = q[j]
    BY <1>2
  <1> HIDE DEF f
  <1> QED BY <1>1, <1>3, <1>4 DEF f, m

LEMMA ForgottenAwaits ==
  ASSUME NEW S, NEW q \in Seq(S), NEW i \in DOMAIN q, q[i] \in RequestMail \cup ReplyMail,
         q[i] \in RequestMail => RequestMail \subseteq S,
         q[i] \in ReplyMail => ReplyMail \subseteq S,
         NEW g
  PROVE  LET f == Forgotten(q, i) IN
         /\ Awaits(f, g) => Awaits(q, g)
         /\ Awaits(q, g) => Toggles(q[i], g) \/ Awaits(f, g)
         /\ Once(q, g) => Once(f, g) /\ ~(Toggles(q[i], g) /\ Awaits(f, g))
  <1> DEFINE f == Forgotten(q, i)
  <1> HIDE DEF f
  <1>1. DOMAIN f = DOMAIN q /\ ~f[i].waited /\ \A j \in DOMAIN q : j # i => f[j] = q[j]
    BY ForgottenFacts DEF f
  <1>2. ~Toggles(f[i], g)
    BY <1>1 DEF Toggles
  <1> QED BY <1>1, <1>2 DEF f, Awaits, Once
----------------------------------------------------------------------------
(* Sets as sequences, and positions in sequences *)

LEMMA ListOfSet ==
  ASSUME NEW S, IsFiniteSet(S)
  PROVE  SetToSeq(S) \in Seq(S)
  <1>1. Cardinality(S) \in Nat /\ ExistsBijection(1..Cardinality(S), S)
    BY FS_CardinalityType
  <1>2. \E f \in [1..Cardinality(S) -> S] : IsInjective(f)
    BY <1>1 DEF ExistsBijection, Bijection, Injection
  <1>3. SetToSeq(S) \in [1..Cardinality(S) -> S]
    BY <1>2 DEF SetToSeq
  <1> QED BY <1>1, <1>3

(* The values of a function on a finite set. *)
LEMMA FiniteValues ==
  ASSUME NEW S, IsFiniteSet(S), NEW f, DOMAIN f = S, f = [x \in S |-> f[x]]
  PROVE  IsFiniteSet({f[x] : x \in S})
  <1>1. f \in Surjection(S, {f[x] : x \in S})
    BY DEF Surjection
  <1> QED BY <1>1, FS_Surjection

LEMMA LeastOf ==
  ASSUME NEW I, I \subseteq Nat, I # {}
  PROVE  Min(I) \in I
  <1>1. PICK x \in I : \A y \in I : ~ (<<y, x>> \in OpToRel(<, Nat))
    BY NatLessThanWellFounded, WFMin
  <1>2. \A y \in I : ~(y < x)
    BY <1>1 DEF OpToRel
  <1>3. \E z \in I : \A y \in I : z =< y
    BY <1>2
  <1> QED BY <1>3 DEF Min

LEMMA GroupPlace ==
  ASSUME NEW v \in Local, NEW g, GroupAt(v, g) # 0
  PROVE  GroupAt(v, g) \in DOMAIN v.groups
  <1> DEFINE I == {i \in 1..Len(v.groups) : v.groups[i].id = g}
  <1>1. I # {} /\ GroupAt(v, g) = Min(I)
    BY DEF GroupAt, SelectInSeq
  <1>2. v.groups \in Seq(LocalGroup)
    BY DEF Local
  <1>3. I \subseteq Nat /\ I \subseteq DOMAIN v.groups
    BY <1>2
  <1> QED BY <1>1, <1>3, LeastOf

LEMMA TaskPlace ==
  ASSUME NEW v \in Local, NEW t, TaskAt(v, t) # 0
  PROVE  TaskAt(v, t) \in DOMAIN v.tasks
  <1> DEFINE I == {i \in 1..Len(v.tasks) : v.tasks[i].id = t}
  <1>1. I # {} /\ TaskAt(v, t) = Min(I)
    BY DEF TaskAt, SelectInSeq
  <1>2. v.tasks \in Seq(TaskRow)
    BY DEF Local
  <1>3. I \subseteq Nat /\ I \subseteq DOMAIN v.tasks
    BY <1>2
  <1> QED BY <1>1, <1>3, LeastOf

LEMMA PendingPlace ==
  ASSUME NEW v \in Local, NEW g, PendingAt(v, g) # 0
  PROVE  PendingAt(v, g) \in DOMAIN v.pending
  <1> DEFINE I == {i \in 1..Len(v.pending) : v.pending[i] = g}
  <1>1. I # {} /\ PendingAt(v, g) = Min(I)
    BY DEF PendingAt, SelectInSeq
  <1>2. v.pending \in Seq(GroupId)
    BY DEF Local
  <1>3. I \subseteq Nat /\ I \subseteq DOMAIN v.pending
    BY <1>2
  <1> QED BY <1>1, <1>3, LeastOf

LEMMA RemovedType ==
  ASSUME NEW S, NEW q \in Seq(S), NEW i \in DOMAIN q
  PROVE  RemoveAt(q, i) \in Seq(S)
  <1>1. Len(q) \in Nat /\ i \in 1..Len(q)
    OBVIOUS
  <1>2. SubSeq(q, 1, i - 1) \in Seq(S)
    BY <1>1
  <1>3. SubSeq(q, i + 1, Len(q)) \in Seq(S)
    BY <1>1
  <1> QED BY <1>2, <1>3, ConcatProperties DEF RemoveAt

(* A set of positions can be listed in ascending order: the smallest bound for
   which it could not is no such bound. *)
Ascending(p) == \A i, j \in DOMAIN p : i < j => p[i] < p[j]

LEMMA AscendingList ==
  ASSUME NEW n \in Nat, NEW I \in SUBSET (1..n)
  PROVE  \E p \in [1..Cardinality(I) -> I] : Ascending(p)
  <1> DEFINE HasList(m) == \A J \in SUBSET (1..m) :
                              \E p \in [1..Cardinality(J) -> J] : Ascending(p)
             Bad == {m \in Nat : ~HasList(m)}
  <1>1. CASE Bad = {}
    BY <1>1
  <1>2. CASE Bad # {}
    <2>1. PICK m \in Bad : \A k \in Bad : ~ (<<k, m>> \in OpToRel(<, Nat))
      BY <1>2, NatLessThanWellFounded, WFMin
    <2>2. m \in Nat /\ \A k \in Nat : k < m => HasList(k)
      BY <2>1 DEF OpToRel
    <2>3. HasList(m)
      <3> SUFFICES ASSUME NEW J \in SUBSET (1..m)
                   PROVE  \E p \in [1..Cardinality(J) -> J] : Ascending(p)
        OBVIOUS
      <3>1. CASE J = {}
        <4>1. Cardinality(J) = 0
          BY <3>1, FS_EmptySet
        <4>2. [i \in 1..0 |-> 0] \in [1..Cardinality(J) -> J]
          BY <4>1
        <4>3. Ascending([i \in 1..0 |-> 0])
          BY DEF Ascending
        <4> QED BY <4>2, <4>3
      <3>2. CASE J # {} /\ m \notin J
        <4>1. m - 1 \in Nat /\ m - 1 < m /\ J \in SUBSET (1..m - 1)
          <5>0. PICK x \in 1..m : TRUE
            BY <3>2
          <5>1. m # 0
            BY <5>0
          <5>2. m - 1 \in Nat /\ m - 1 < m /\ \A j \in 1..m : j # m => j \in 1..m - 1
            BY <2>2, <5>1
          <5> QED BY <3>2, <5>2
        <4>2. HasList(m - 1)
          BY <2>2, <4>1, Zenon
        <4> QED BY <4>1, <4>2
      <3>3. CASE m \in J
        <4> DEFINE K == J \ {m}
                   c == Cardinality(K)
        <4>1. m - 1 \in Nat /\ m - 1 < m /\ K \in SUBSET (1..m - 1)
          BY <2>2, <3>3
        <4>0. HasList(m - 1)
          BY <2>2, <4>1, Zenon
        <4>2. PICK p \in [1..c -> K] : Ascending(p)
          BY <4>0, <4>1
        <4>3. IsFiniteSet(K)
          <5>1. 1 \in Int /\ m - 1 \in Int
            BY <4>1
          <5>2. IsFiniteSet(1..m - 1)
            BY <5>1, FS_Interval, Zenon
          <5> QED BY <4>1, <5>2, FS_Subset
        <4>4. c \in Nat /\ Cardinality(J) = c + 1
          <5>1. J = K \cup {m} /\ m \notin K
            BY <3>3
          <5> QED BY <4>3, <5>1, FS_AddElement, FS_CardinalityType
        <4> HIDE DEF c
        <4> DEFINE q == [i \in 1..c + 1 |-> IF i = c + 1 THEN m ELSE p[i]]
        <4>5. q \in [1..Cardinality(J) -> J]
          BY <3>3, <4>2, <4>4
        <4>6. Ascending(q)
          <5>1. ASSUME NEW i \in 1..c + 1, NEW j \in 1..c + 1, i < j PROVE q[i] < q[j]
            <6>1. i \in 1..c /\ q[i] = p[i] /\ p[i] \in 1..m - 1
              <7>0. c \in Nat
                BY <4>4
              <7>1. i \in 1..c
                BY <5>1, <7>0
              <7>2. p[i] \in K
                BY <4>2, <7>1
              <7>3. p[i] \in 1..m - 1
                BY <4>1, <7>2
              <7>4. i # c + 1 /\ i \in 1..c + 1
                BY <4>4, <7>1
              <7> QED BY <7>1, <7>3, <7>4
            <6>2. CASE j = c + 1
              BY <2>2, <6>1, <6>2
            <6>3. CASE j # c + 1
              <7>1. j \in 1..c /\ q[j] = p[j]
                BY <4>4, <6>3
              <7> QED BY <4>2, <5>1, <6>1, <7>1 DEF Ascending
            <6> QED BY <6>2, <6>3
          <5> QED BY <5>1 DEF Ascending
        <4> QED BY <4>5, <4>6
      <3> QED BY <3>1, <3>2, <3>3
    <2> QED BY <2>1, <2>3
  <1> QED BY <1>1, <1>2

LEMMA OtherGroupsType ==
  ASSUME NEW s \in Seq(TaskRow), NEW g
  PROVE  OfOtherGroups(s, g) \in Seq(TaskRow)
  <1> DEFINE left == {i \in DOMAIN s : s[i].group # g}
             place == CHOOSE p \in [1..Cardinality(left) -> left] :
                         \A i, j \in DOMAIN p : i < j => p[i] < p[j]
  <1>1. Len(s) \in Nat /\ left \in SUBSET (1..Len(s))
    OBVIOUS
  <1>2. \E p \in [1..Cardinality(left) -> left] : \A i, j \in DOMAIN p : i < j => p[i] < p[j]
    BY <1>1, AscendingList DEF Ascending
  <1>3. place \in [1..Cardinality(left) -> left]
    BY <1>2
  <1>4. Cardinality(left) \in Nat
    <2>1. IsFiniteSet(1..Len(s))
      BY <1>1, FS_Interval
    <2>2. IsFiniteSet(left)
      BY <1>1, <2>1, FS_Subset
    <2> QED BY <2>2, FS_CardinalityType
  <1>5. OfOtherGroups(s, g) = [i \in 1..Cardinality(left) |-> s[place[i]]]
    BY <1>3 DEF OfOtherGroups
  <1> HIDE DEF place
  <1>6. \A i \in 1..Cardinality(left) : s[place[i]] \in TaskRow
    BY <1>3
  <1> QED BY <1>4, <1>5, <1>6
----------------------------------------------------------------------------
(* ClientState's functions keep the type of the copy *)

LEMMA LocalFields ==
  ASSUME NEW v \in Local
  PROVE  /\ v.groups \in Seq(LocalGroup) /\ v.pending \in Seq(GroupId)
         /\ v.pins \in SUBSET GroupId /\ v.tasks \in Seq(TaskRow)
         /\ \A s \in Seq(LocalGroup) : [v EXCEPT !.groups = s] \in Local
         /\ \A s \in Seq(GroupId) : [v EXCEPT !.pending = s] \in Local
         /\ \A s \in SUBSET GroupId : [v EXCEPT !.pins = s] \in Local
         /\ \A s \in Seq(TaskRow) : [v EXCEPT !.tasks = s] \in Local
  BY DEF Local

LEMMA GroupsType ==
  ASSUME NEW v \in Local, NEW i \in DOMAIN v.groups, NEW x \in LocalGroup
  PROVE  [v EXCEPT !.groups[i] = x] \in Local
  <1>1. [v.groups EXCEPT ![i] = x] \in Seq(LocalGroup)
    BY LocalFields
  <1>2. [v EXCEPT !.groups[i] = x] = [v EXCEPT !.groups = [v.groups EXCEPT ![i] = x]]
    BY DEF Local
  <1> QED BY <1>1, <1>2, LocalFields

LEMMA PinnedType ==
  ASSUME NEW v \in Local, NEW g \in GroupId
  PROVE  Pinned(v, g) \in Local
  <1>1. v.pins \ {g} \in SUBSET GroupId /\ v.pins \cup {g} \in SUBSET GroupId
    BY LocalFields
  <1>2. [v EXCEPT !.pins = IF g \in @ THEN @ \ {g} ELSE @ \cup {g}] \in Local
    <2>1. CASE g \in v.pins
      BY <1>1, <2>1, LocalFields
    <2>2. CASE g \notin v.pins
      BY <1>1, <2>2, LocalFields
    <2> QED BY <2>1, <2>2
  <1> QED BY <1>2 DEF Pinned

LEMMA WithoutGroupType ==
  ASSUME NEW v \in Local, NEW g
  PROVE  WithoutGroup(v, g) \in Local
  <1> DEFINE gs == RemoveAt(v.groups, GroupAt(v, g))
             ts == OfOtherGroups(v.tasks, g)
             ps == v.pins \ {g}
  <1>1. CASE GroupAt(v, g) = 0
    BY <1>1 DEF WithoutGroup
  <1>2. CASE GroupAt(v, g) # 0
    <2>1. gs \in Seq(LocalGroup)
      BY <1>2, LocalFields, GroupPlace, RemovedType
    <2>2. ts \in Seq(TaskRow) /\ ps \in SUBSET GroupId
      BY LocalFields, OtherGroupsType
    <2>3. WithoutGroup(v, g) = [v EXCEPT !.groups = gs, !.tasks = ts, !.pins = ps]
      BY <1>2 DEF WithoutGroup, Local
    <2> HIDE DEF gs, ts, ps
    <2> QED BY <2>1, <2>2, <2>3 DEF Local
  <1> QED BY <1>1, <1>2

LEMMA WithColumnType ==
  ASSUME NEW v \in Local, NEW t, NEW column \in {"done", "text"}, NEW value,
         column = "done" => value \in BOOLEAN, column = "text" => value \in Texts
  PROVE  WithColumn(v, t, column, value) \in Local
  <1>1. CASE TaskAt(v, t) = 0
    BY <1>1 DEF WithColumn
  <1>2. CASE TaskAt(v, t) # 0
    <2> DEFINE i == TaskAt(v, t)
    <2>1. i \in DOMAIN v.tasks /\ v.tasks \in Seq(TaskRow)
      BY <1>2, TaskPlace, LocalFields
    <2> DEFINE x == [v.tasks[i] EXCEPT !.body[column] = value]
    <2>2. v.tasks[i] \in TaskRow
      BY <2>1
    <2>3. x \in TaskRow
      <3>1. v.tasks[i].body \in [done : BOOLEAN, text : Texts]
        BY <2>2, ClientSyncAssumption DEF TaskRow
      <3>2. [v.tasks[i].body EXCEPT ![column] = value] \in Bodies
        <4>1. CASE column = "done"
          BY <3>1, <4>1, ClientSyncAssumption
        <4>2. CASE column = "text"
          BY <3>1, <4>2, ClientSyncAssumption
        <4> QED BY <4>1, <4>2
      <3> QED BY <2>2, <3>2 DEF TaskRow
    <2>4. WithColumn(v, t, column, value) = [v EXCEPT !.tasks = [v.tasks EXCEPT ![i] = x]]
      BY <1>2, <2>1 DEF WithColumn, Local
    <2> HIDE DEF x, i
    <2>5. [v.tasks EXCEPT ![i] = x] \in Seq(TaskRow)
      BY <2>1, <2>3
    <2> QED BY <2>4, <2>5, LocalFields
  <1> QED BY <1>1, <1>2

LEMMA WithoutTaskType ==
  ASSUME NEW v \in Local, NEW t
  PROVE  WithoutTask(v, t) \in Local
  <1>1. CASE TaskAt(v, t) = 0
    BY <1>1 DEF WithoutTask
  <1>2. CASE TaskAt(v, t) # 0
    <2>1. RemoveAt(v.tasks, TaskAt(v, t)) \in Seq(TaskRow)
      BY <1>2, LocalFields, TaskPlace, RemovedType
    <2> QED BY <1>2, <2>1, LocalFields DEF WithoutTask
  <1> QED BY <1>1, <1>2

LEMMA WithoutUserType ==
  ASSUME NEW v \in Local, NEW g, NEW role \in {"members", "invited"}, NEW u
  PROVE  WithoutUser(v, g, role, u) \in Local
  <1>1. CASE GroupAt(v, g) = 0
    BY <1>1 DEF WithoutUser
  <1>2. CASE GroupAt(v, g) # 0
    <2> DEFINE i == GroupAt(v, g)
               x == [v.groups[i] EXCEPT ![role] = @ \ {u}]
    <2>1. i \in DOMAIN v.groups /\ v.groups[i] \in LocalGroup
      BY <1>2, GroupPlace, LocalFields
    <2>2. x \in LocalGroup
      <3>1. CASE role = "members"
        BY <2>1, <3>1 DEF LocalGroup
      <3>2. CASE role = "invited"
        BY <2>1, <3>2 DEF LocalGroup
      <3> QED BY <3>1, <3>2
    <2>3. WithoutUser(v, g, role, u) = [v EXCEPT !.groups[i] = x]
      BY <1>2, <2>1 DEF WithoutUser, Local
    <2> HIDE DEF i, x
    <2> QED BY <2>1, <2>2, <2>3, GroupsType
  <1> QED BY <1>1, <1>2

LEMMA WithInvitedType ==
  ASSUME NEW v \in Local, NEW g, NEW u \in UserId
  PROVE  WithInvited(v, g, u) \in Local
  <1> DEFINE i == GroupAt(v, g)
  <1>1. CASE i = 0 \/ u \in v.groups[i].members
    BY <1>1 DEF WithInvited
  <1>2. CASE ~(i = 0 \/ u \in v.groups[i].members)
    <2> DEFINE x == [v.groups[i] EXCEPT !.invited = @ \cup {u}]
    <2>1. i \in DOMAIN v.groups /\ v.groups[i] \in LocalGroup
      BY <1>2, GroupPlace, LocalFields
    <2>2. x \in LocalGroup
      BY <2>1 DEF LocalGroup
    <2>3. WithInvited(v, g, u) = [v EXCEPT !.groups[i] = x]
      BY <1>2, <2>1 DEF WithInvited, Local
    <2> HIDE DEF i, x
    <2> QED BY <2>1, <2>2, <2>3, GroupsType
  <1> QED BY <1>1, <1>2

LEMMA WithMessageType ==
  ASSUME NEW v \in Local, NEW g
  PROVE  WithMessage(v, g) \in Local
  <1> DEFINE i == GroupAt(v, g)
  <1>1. CASE i = 0
    BY <1>1 DEF WithMessage
  <1>2. CASE i # 0
    <2> DEFINE x == [v.groups[i] EXCEPT !.chat = @ + 1]
    <2>1. i \in DOMAIN v.groups /\ v.groups[i] \in LocalGroup
      BY <1>2, GroupPlace, LocalFields
    <2>2. x \in LocalGroup
      BY <2>1 DEF LocalGroup
    <2>3. WithMessage(v, g) = [v EXCEPT !.groups[i] = x]
      BY <1>2, <2>1 DEF WithMessage, Local
    <2> HIDE DEF i, x
    <2> QED BY <2>1, <2>2, <2>3, GroupsType
  <1> QED BY <1>1, <1>2

LEMMA NewGroupType ==
  ASSUME NEW v \in Local, NEW g \in GroupId
  PROVE  [v EXCEPT !.groups = Append(@, NewLocalGroup(g))] \in Local
  <1>1. NewLocalGroup(g) \in LocalGroup
    BY MeIsUser DEF NewLocalGroup, LocalGroup
  <1>2. Append(v.groups, NewLocalGroup(g)) \in Seq(LocalGroup)
    BY <1>1, LocalFields, AppendFacts
  <1> QED BY <1>2, LocalFields

LEMMA AcceptedType ==
  ASSUME NEW v \in Local, NEW g \in GroupId
  PROVE  WithoutPending(v, g) \in Local /\ Accepted(v, g) \in Local
  <1>1. WithoutPending(v, g) \in Local
    <2>1. CASE PendingAt(v, g) = 0
      BY <2>1 DEF WithoutPending
    <2>2. CASE PendingAt(v, g) # 0
      <3>1. RemoveAt(v.pending, PendingAt(v, g)) \in Seq(GroupId)
        BY <2>2, LocalFields, PendingPlace, RemovedType
      <3> QED BY <2>2, <3>1, LocalFields DEF WithoutPending
    <2> QED BY <2>1, <2>2
  <1> QED BY <1>1, NewGroupType DEF Accepted

LEMMA ChangedType ==
  ASSUME NEW v \in Local, NEW r \in Call, r.cmd \in Optimistic
  PROVE  Changed(v, r) \in Local
  <1>0. /\ r.group \in GroupId /\ r.body.done \in BOOLEAN /\ r.body.text \in Texts
    BY ClientSyncAssumption DEF Call
  <1>1. CASE r.cmd = "togglePinGroup"
    BY <1>0, <1>1, PinnedType DEF Changed
  <1>2. CASE r.cmd = "deleteGroup"
    BY <1>2, WithoutGroupType DEF Changed
  <1>3. CASE r.cmd = "deleteTask"
    BY <1>3, WithoutTaskType DEF Changed
  <1>4. CASE r.cmd = "toggleTaskCompletion"
    <2>1. Changed(v, r) = WithColumn(v, r.task, "done", r.body.done)
      BY <1>4 DEF Changed
    <2> QED BY <1>0, <2>1, WithColumnType
  <1>5. CASE r.cmd = "editTask"
    <2>1. Changed(v, r) = WithColumn(v, r.task, "text", r.body.text)
      BY <1>5 DEF Changed
    <2> QED BY <1>0, <2>1, WithColumnType
  <1>6. CASE r.cmd = "removeMemberFromGroup"
    <2>1. Changed(v, r) = WithoutUser(v, r.group, "members", r.user)
      BY <1>6 DEF Changed
    <2> QED BY <2>1, WithoutUserType
  <1>7. CASE r.cmd = "cancelInvite"
    <2>1. Changed(v, r) = WithoutUser(v, r.group, "invited", r.user)
      BY <1>7 DEF Changed
    <2> QED BY <2>1, WithoutUserType
  <1>8. CASE r.cmd = "acceptInvite"
    BY <1>0, <1>8, AcceptedType DEF Changed
  <1>9. CASE r.cmd = "denyInvite"
    BY <1>0, <1>9, AcceptedType DEF Changed
  <1> QED BY <1>1, <1>2, <1>3, <1>4, <1>5, <1>6, <1>7, <1>8, <1>9 DEF Optimistic

LEMMA CreatedType ==
  ASSUME NEW v \in Local, NEW r \in Call, r.cmd \in OnReply, NEW id,
         r.cmd = "createGroup" => id \in GroupId, r.cmd = "createTask" => id \in TaskId
  PROVE  Created(v, r, id) \in Local
  <1>0. /\ r.group \in GroupId /\ r.user \in UserId /\ r.body \in [done : BOOLEAN, text : Texts]
    BY ClientSyncAssumption DEF Call
  <1>1. CASE r.cmd = "createGroup"
    BY <1>1, NewGroupType DEF Created
  <1>2. CASE r.cmd = "createTask"
    <2> DEFINE row == [id |-> id, group |-> r.group, owner |-> Me,
                       body |-> [r.body EXCEPT !.done = FALSE]]
    <2>1. row \in TaskRow
      BY <1>0, <1>2, ClientSyncAssumption, MeIsUser DEF TaskRow
    <2>2. Created(v, r, id) = [v EXCEPT !.tasks = Append(v.tasks, row)]
      BY <1>2 DEF Created
    <2> HIDE DEF row
    <2>3. Append(v.tasks, row) \in Seq(TaskRow)
      BY <2>1, LocalFields, AppendFacts
    <2> QED BY <2>2, <2>3, LocalFields
  <1>3. CASE r.cmd = "sendMessage"
    BY <1>3, WithMessageType DEF Created
  <1>4. CASE r.cmd = "inviteMemberToGroup"
    BY <1>0, <1>4, WithInvitedType DEF Created
  <1> QED BY <1>1, <1>2, <1>3, <1>4 DEF OnReply
----------------------------------------------------------------------------
(* Payloads *)

LEMMA PairsFinite ==
  ASSUME NEW T \in SUBSET (GroupId \X UserId)
  PROVE  IsFiniteSet({m[1] : m \in T})
  <1>1. IsFiniteSet(GroupId)
    <2>1. 1 \in Int /\ MaxGroup \in Int
      BY BoundsAssumption
    <2> QED BY <2>1, FS_Interval DEF GroupId
  <1>2. {m[1] : m \in T} \subseteq GroupId
    OBVIOUS
  <1> QED BY <1>1, <1>2, FS_Subset

(* What getFullUserData reads from finite tables is a copy. *)
LEMMA ViewType ==
  ASSUME NEW view,
         view.members \in SUBSET (GroupId \X UserId),
         view.invited \in SUBSET (GroupId \X UserId),
         view.pinned \in SUBSET GroupId, view.pending \in SUBSET GroupId,
         view.tasks \in SUBSET TaskRow, IsFiniteSet(view.tasks), IsFiniteSet(view.messages)
  PROVE  Loaded(view) \in Local
  <1> DEFINE ids == {m[1] : m \in view.members}
             f == [g \in ids |->
                     [id      |-> g,
                      members |-> {m[2] : m \in {x \in view.members : x[1] = g}},
                      invited |-> {i[2] : i \in {x \in view.invited : x[1] = g}},
                      chat    |-> Cardinality({x \in view.messages : x.group = g})]]
             rows == {f[g] : g \in ids}
  <1>2. IsFiniteSet(ids) /\ ids \subseteq GroupId
    BY PairsFinite
  <1>3. ASSUME NEW g \in ids PROVE f[g] \in LocalGroup
    <2>1. Cardinality({x \in view.messages : x.group = g}) \in Nat
      <3>1. {x \in view.messages : x.group = g} \subseteq view.messages
        OBVIOUS
      <3> QED BY <3>1, FS_Subset, FS_CardinalityType
    <2>2. /\ {m[2] : m \in {x \in view.members : x[1] = g}} \subseteq UserId
          /\ {i[2] : i \in {x \in view.invited : x[1] = g}} \subseteq UserId
      OBVIOUS
    <2> QED BY <1>2, <2>1, <2>2 DEF LocalGroup
  <1>4. SetToSeq(rows) \in Seq(LocalGroup)
    <2>1. IsFiniteSet(rows)
      <3> HIDE DEF ids
      <3>1. DOMAIN f = ids /\ f = [g \in ids |-> f[g]]
        OBVIOUS
      <3> HIDE DEF f
      <3> QED BY <1>2, <3>1, FiniteValues
    <2>2. SetToSeq(rows) \in Seq(rows)
      BY <2>1, ListOfSet
    <2>3. rows \subseteq LocalGroup
      BY <1>3
    <2> HIDE DEF rows
    <2> QED BY <2>2, <2>3
  <1>5. SetToSeq(view.pending) \in Seq(GroupId)
    <2>1. IsFiniteSet(view.pending)
      <3>1. 1 \in Int /\ MaxGroup \in Int
        BY BoundsAssumption
      <3>2. IsFiniteSet(GroupId)
        BY <3>1, FS_Interval DEF GroupId
      <3> QED BY <3>2, FS_Subset
    <2>2. SetToSeq(view.pending) \in Seq(view.pending)
      BY <2>1, ListOfSet
    <2> QED BY <2>2
  <1>6. SetToSeq(view.tasks) \in Seq(TaskRow)
    <2>1. SetToSeq(view.tasks) \in Seq(view.tasks)
      BY ListOfSet
    <2> QED BY <2>1
  <1>7. Loaded(view) = [groups |-> SetToSeq(rows), pending |-> SetToSeq(view.pending),
                        pins |-> view.pinned, tasks |-> SetToSeq(view.tasks)]
    <2>1. rows = {[id      |-> g,
                   members |-> {m[2] : m \in {x \in view.members : x[1] = g}},
                   invited |-> {i[2] : i \in {x \in view.invited : x[1] = g}},
                   chat    |-> Cardinality({x \in view.messages : x.group = g})] : g \in ids}
      <3> HIDE DEF ids
      <3> QED OBVIOUS
    <2> HIDE DEF rows
    <2> QED BY <2>1 DEF Loaded
  <1>8. view.pinned \in SUBSET GroupId
    OBVIOUS
  <1> HIDE DEF rows
  <1> QED BY <1>4, <1>5, <1>6, <1>7, <1>8 DEF Local

LEMMA PayloadType ==
  ASSUME TypeOK, FiniteTables
  PROVE  Loaded(View(Me)) \in Local
  <1>1. /\ View(Me).members \in SUBSET (GroupId \X UserId)
        /\ View(Me).invited \in SUBSET (GroupId \X UserId)
        /\ View(Me).pinned \in SUBSET GroupId /\ View(Me).pending \in SUBSET GroupId
        /\ View(Me).tasks \in SUBSET tasks /\ View(Me).messages \in SUBSET messages
    BY DEF View, TypeOK
  <1>2. View(Me).tasks \in SUBSET TaskRow
    BY <1>1 DEF TypeOK
  <1>3. IsFiniteSet(View(Me).tasks) /\ IsFiniteSet(View(Me).messages)
    BY <1>1, FS_Subset DEF FiniteTables
  <1> QED BY <1>1, <1>2, <1>3, ViewType

LEMMA NextPayloadType ==
  ASSUME TypeOK', FiniteTables'
  PROVE  Loaded(View(Me)') \in Local
  <1> DEFINE view == View(Me)'
  <1>1. /\ view.members \in SUBSET (GroupId \X UserId)
        /\ view.invited \in SUBSET (GroupId \X UserId)
        /\ view.pinned \in SUBSET GroupId /\ view.pending \in SUBSET GroupId
        /\ view.tasks \in SUBSET tasks' /\ view.messages \in SUBSET messages'
    BY DEF View, TypeOK
  <1>2. view.tasks \in SUBSET TaskRow
    BY <1>1 DEF TypeOK
  <1> HIDE DEF view
  <1>3. IsFiniteSet(view.tasks) /\ IsFiniteSet(view.messages)
    BY <1>1, FS_Subset DEF FiniteTables
  <1>4. Loaded(view) \in Local
    BY <1>1, <1>2, <1>3, ViewType
  <1> QED BY <1>4 DEF view

----------------------------------------------------------------------------
(* The server's steps *)

MaybePushed ==
  \/ toClient' = toClient
  \/ signedIn /\ toClient' = Append(toClient, Loaded(View(Me)'))

LEMMA PushIsAppend == ASSUME NEW pushed, PushIf(pushed) PROVE MaybePushed
  BY DEF PushIf, MaybePushed

(* The statements on the tables that a reply of this client's may count. *)
FiniteStep ==
  /\ \/ tasks' \subseteq tasks
     \/ \E x : tasks' = tasks \cup {x}
     \/ \E t, b : tasks' = Updated(t, b)
  /\ messages' \subseteq messages \/ \E x : messages' = messages \cup {x}

LEMMA FiniteTablesStep ==
  ASSUME FiniteTables, FiniteStep
  PROVE  FiniteTables'
  <1>0. IsFiniteSet(tasks) /\ IsFiniteSet(messages)
    BY DEF FiniteTables
  <1>1. IsFiniteSet(tasks')
    <2>1. CASE tasks' \subseteq tasks
      BY <1>0, <2>1, FS_Subset
    <2>2. CASE \E x : tasks' = tasks \cup {x}
      BY <1>0, <2>2, FS_AddElement
    <2>3. CASE \E t, b : tasks' = Updated(t, b)
      <3>1. PICK t, b : tasks' = Updated(t, b)
        BY <2>3
      <3> DEFINE f == [x \in tasks |-> IF x.id = t THEN [x EXCEPT !.body = b] ELSE x]
      <3>2. {f[x] : x \in tasks} = tasks'
        BY <3>1 DEF Updated
      <3>3. DOMAIN f = tasks /\ f = [x \in tasks |-> f[x]]
        OBVIOUS
      <3> HIDE DEF f
      <3>4. IsFiniteSet({f[x] : x \in tasks})
        BY <1>0, <3>3, FiniteValues
      <3> QED BY <3>2, <3>4
    <2> QED BY <2>1, <2>2, <2>3 DEF FiniteStep
  <1>2. IsFiniteSet(messages')
    <2>1. CASE messages' \subseteq messages
      BY <1>0, <2>1, FS_Subset
    <2>2. CASE \E x : messages' = messages \cup {x}
      BY <1>0, <2>2, FS_AddElement
    <2> QED BY <2>1, <2>2 DEF FiniteStep
  <1> QED BY <1>1, <1>2 DEF FiniteTables

LEMMA InsertTaskFinite ==
  ASSUME NEW g, NEW u, NEW b, InsertTask(g, u, b)
  PROVE  tasks' \subseteq tasks \/ \E x : tasks' = tasks \cup {x}
  <1>1. CASE <<g, u>> \in groups \X UserIds
    BY <1>1 DEF InsertTask
  <1>2. CASE <<g, u>> \notin groups \X UserIds
    BY <1>2 DEF InsertTask
  <1> QED BY <1>1, <1>2

LEMMA InsertMessageFinite ==
  ASSUME NEW g, NEW u, InsertMessage(g, u)
  PROVE  messages' \subseteq messages \/ \E x : messages' = messages \cup {x}
  <1>1. CASE <<g, u>> \in groups \X UserIds
    BY <1>1 DEF InsertMessage
  <1>2. CASE <<g, u>> \notin groups \X UserIds
    BY <1>2 DEF InsertMessage
  <1> QED BY <1>1, <1>2

LEMMA GroupRoutesFinite ==
  ASSUME NEW g, NEW u, NEW b,
         \/ DeleteGroup(g) \/ AddMemberToGroup(g, u) \/ InviteMemberToGroup(g, u)
         \/ TogglePinGroup(g, u) \/ RemoveMemberFromGroup(g, u) \/ CancelInvite(g, u)
         \/ AcceptInvite(g, u) \/ SendMessage(g, u) \/ CreateTask(g, u, b)
  PROVE  FiniteStep
  <1>1. CASE DeleteGroup(g)
    BY <1>1 DEF DeleteGroup, DropGroup, FiniteStep
  <1>2. CASE \/ AddMemberToGroup(g, u) \/ InviteMemberToGroup(g, u) \/ TogglePinGroup(g, u)
             \/ RemoveMemberFromGroup(g, u) \/ CancelInvite(g, u) \/ AcceptInvite(g, u)
    <2>1. tasks' = tasks /\ messages' = messages
      BY <1>2 DEF AddMemberToGroup, InviteMemberToGroup, TogglePinGroup,
                  RemoveMemberFromGroup, CancelInvite, AcceptInvite
    <2> QED BY <2>1 DEF FiniteStep
  <1>3. CASE SendMessage(g, u)
    <2>1. tasks' = tasks
      BY <1>3 DEF SendMessage
    <2>2. messages' \subseteq messages \/ \E x : messages' = messages \cup {x}
      BY <1>3, InsertMessageFinite DEF SendMessage
    <2> QED BY <2>1, <2>2 DEF FiniteStep
  <1>4. CASE CreateTask(g, u, b)
    <2>1. messages' = messages
      BY <1>4 DEF CreateTask
    <2>2. tasks' \subseteq tasks \/ \E x : tasks' = tasks \cup {x}
      BY <1>4, InsertTaskFinite DEF CreateTask
    <2> QED BY <2>1, <2>2 DEF FiniteStep
  <1> QED BY <1>1, <1>2, <1>3, <1>4

LEMMA TaskRoutesFinite ==
  ASSUME NEW t, NEW b, DeleteTask(t) \/ UpdateTask(t, b)
  PROVE  FiniteStep
  <1>1. messages' = messages
    BY DEF DeleteTask, UpdateTask
  <1>2. tasks' \subseteq tasks \/ tasks' = Updated(t, b)
    BY DEF DeleteTask, UpdateTask, DroppedTask
  <1> QED BY <1>1, <1>2 DEF FiniteStep

(* What a route of this client's leaves behind: the tables have their types,
   and at most a payload of them is on its way. *)
LEMMA RouteFacts ==
  ASSUME TypeOK, FiniteTables, served' \in 0..MaxRoutes, NEW r \in Call, Route(r)
  PROVE  /\ TypeOK' /\ FiniteTables' /\ MaybePushed
         /\ r.cmd = "createGroup" => next.group \in GroupId
         /\ r.cmd = "createTask" => next.task \in TaskId
  <1>0. /\ r.group \in GroupId /\ r.user \in UserId /\ Me \in UserId
        /\ r.body \in Bodies /\ r.body \in [done : BOOLEAN, text : Texts]
    BY ClientSyncAssumption, MeIsUser DEF Call
  <1>1. MaybePushed
    BY PushIsAppend DEF Route, Quietly
  <1>2. BodyOf(r.task, r.body) \in [done : BOOLEAN, text : Texts]
    <2>1. CASE r.task \in {x.id : x \in tasks}
      <3>1. (CHOOSE x \in tasks : x.id = r.task) \in tasks
        BY <2>1
      <3>2. BodyOf(r.task, r.body) \in Bodies
        BY <2>1, <3>1 DEF BodyOf, TypeOK, TaskRow
      <3> QED BY <3>2, ClientSyncAssumption
    <2>2. CASE r.task \notin {x.id : x \in tasks}
      BY <1>0, <2>2 DEF BodyOf
    <2> QED BY <2>1, <2>2
  <1>3. TypeOK' /\ FiniteStep
    <2>1. CASE r.cmd \in {"deleteTask", "toggleTaskCompletion", "editTask"}
      <3>1. \E b \in Bodies : DeleteTask(r.task) \/ UpdateTask(r.task, b)
        <4>1. /\ [BodyOf(r.task, r.body) EXCEPT !.done = r.body.done] \in Bodies
              /\ [BodyOf(r.task, r.body) EXCEPT !.text = r.body.text] \in Bodies
          BY <1>0, <1>2, ClientSyncAssumption
        <4> QED BY <1>0, <2>1, <4>1 DEF Route, ToggleTaskCompletion, EditTask
      <3> QED BY <3>1, TaskRouteTypes, TaskRoutesFinite
    <2>2. CASE r.cmd = "createGroup"
      <3>1. CreateGroup(Me)
        BY <2>2 DEF Route
      <3>2. FiniteStep
        BY <3>1 DEF CreateGroup, FiniteStep
      <3> QED BY <1>0, <3>1, <3>2, UserRouteTypes
    <2>3. CASE r.cmd \notin {"deleteTask", "toggleTaskCompletion", "editTask", "createGroup"}
      <3>1. [r.body EXCEPT !.done = FALSE] \in Bodies
        BY <1>0, ClientSyncAssumption
      <3>2. \E u \in UserId, b \in Bodies :
               \/ DeleteGroup(r.group) \/ AddMemberToGroup(r.group, u)
               \/ InviteMemberToGroup(r.group, u) \/ TogglePinGroup(r.group, u)
               \/ RemoveMemberFromGroup(r.group, u) \/ CancelInvite(r.group, u)
               \/ AcceptInvite(r.group, u) \/ SendMessage(r.group, u)
               \/ CreateTask(r.group, u, b)
        BY <1>0, <2>3, <3>1 DEF Route
      <3> QED BY <1>0, <3>2, GroupRouteTypes, GroupRoutesFinite
    <2> QED BY <2>1, <2>2, <2>3
  <1>4. r.cmd = "createGroup" => next.group \in GroupId
    BY BoundsAssumption DEF Route, CreateGroup, TypeOK, Sequence, GroupId
  <1>5. r.cmd = "createTask" => next.task \in TaskId
    BY BoundsAssumption DEF Route, CreateTask, TypeOK, Sequence, TaskId
  <1> QED BY <1>1, <1>3, <1>4, <1>5, FiniteTablesStep

LEMMA OthersFinite ==
  ASSUME GroupRoutes \/ TaskRoutes
  PROVE  FiniteStep
  <1>1. CASE GroupRoutes
    BY <1>1, GroupRoutesFinite DEF GroupRoutes
  <1>2. CASE TaskRoutes
    <2>1. \E t \in IssuedTasks : DeleteTask(t) \/ \E b \in Bodies : UpdateTask(t, b)
      BY <1>2 DEF TaskRoutes
    <2> QED BY <2>1, TaskRoutesFinite
  <1> QED BY <1>1, <1>2

(* A payload that goes to the client carries no callback. *)
LEMMA PushedMail ==
  ASSUME SyncInv, TypeOK', FiniteTables', MaybePushed
  PROVE  /\ toClient' \in Seq(ReplyMail \cup Local)
         /\ \A i \in DOMAIN toClient' : IdFits(toClient'[i])
         /\ ~signedIn => toClient' = <<>>
         /\ \A g : (Awaits(toClient', g) <=> Awaits(toClient, g))
                   /\ (Once(toClient, g) => Once(toClient', g))
  <1>0. /\ toClient \in Seq(ReplyMail \cup Local)
        /\ \A i \in DOMAIN toClient : IdFits(toClient[i])
        /\ ~signedIn => toClient = <<>>
    BY DEF SyncInv, SyncTypeOK, IdsFit
  <1>1. CASE toClient' = toClient
    BY <1>0, <1>1
  <1>2. CASE signedIn /\ toClient' = Append(toClient, Loaded(View(Me)'))
    <2> DEFINE m == Loaded(View(Me)')
    <2>1. m \in Local
      BY NextPayloadType
    <2> HIDE DEF m
    <2>2. toClient' = Append(toClient, m) /\ signedIn
      BY <1>2 DEF m
    <2>3. ~IsReply(m)
      BY <2>1, ReplyOrPayload
    <2>4. IdFits(m) /\ \A g : ~Toggles(m, g)
      BY <2>3 DEF IdFits, Toggles
    <2>5. m \in ReplyMail \cup Local
      BY <2>1
    <2>6. /\ toClient' \in Seq(ReplyMail \cup Local)
          /\ \A i \in DOMAIN toClient' :
                toClient'[i] = m \/ (i \in DOMAIN toClient /\ toClient'[i] = toClient[i])
      BY <1>0, <2>2, <2>5, AppendFacts
    <2>7. \A i \in DOMAIN toClient' : IdFits(toClient'[i])
      BY <1>0, <2>4, <2>6
    <2>8. ASSUME NEW g
          PROVE  /\ Awaits(toClient', g) <=> Awaits(toClient, g)
                 /\ Once(toClient, g) => Once(toClient', g)
      BY <1>0, <2>2, <2>4, <2>5, AppendAwaits
    <2> QED BY <2>2, <2>6, <2>7, <2>8
  <1> QED BY <1>1, <1>2 DEF MaybePushed

(* A step of the server that writes and perhaps pushes, no more. *)
LEMMA PushStep ==
  ASSUME SyncInv, TypeOK', FiniteTables', MaybePushed, sure' \in BOOLEAN,
         UNCHANGED <<client, toServer, answer, aiPayload, plan>>
  PROVE  SyncInv'
  <1>1. UNCHANGED <<local, toggling, signedIn, clicks, crossed, orphaned, toServer, answer,
                    aiPayload, plan>>
    BY DEF client
  <1>2. SyncTypeOK'
    BY <1>1, PushedMail DEF SyncInv, SyncTypeOK
  <1>3. IdsFit'
    BY <1>1, PushedMail DEF SyncInv, IdsFit
  <1>4. ASSUME NEW g \in GroupId
        PROVE  OneToggle(g)' /\ Marked(g)' /\ (~signedIn' => ~Awaited(g)')
    BY <1>1, PushedMail DEF SyncInv, OneToggle, Marked, Awaited
  <1> QED BY <1>1, <1>2, <1>3, <1>4, PushedMail DEF SyncInv

LEMMA FinishStep ==
  ASSUME SyncInv, Finish, UNCHANGED plan
  PROVE  SyncInv'
  <1>0. TypeOK /\ FiniteTables /\ served' \in 0..MaxRoutes
    BY DEF SyncInv, SyncTypeOK, TypeOK, Finish
  <1>1. CreatorMember \/ AcceptMember
    BY DEF Finish
  <1>2. TypeOK'
    BY <1>0, <1>1, MemberTypes
  <1>3. FiniteStep
    BY <1>1 DEF CreatorMember, AcceptMember, FiniteStep
  <1>4. MaybePushed
    BY PushIsAppend DEF Finish, Quietly
  <1>5. sure' \in BOOLEAN
    BY DEF Finish
  <1>6. UNCHANGED <<client, toServer, answer, aiPayload, plan>>
    BY DEF Finish
  <1> QED BY <1>0, <1>2, <1>3, <1>4, <1>5, <1>6, FiniteTablesStep, PushStep

LEMMA OthersStep ==
  ASSUME SyncInv, OthersWrite, UNCHANGED plan
  PROVE  SyncInv'
  <1>0. TypeOK /\ FiniteTables
    BY DEF SyncInv, SyncTypeOK
  <1>1. served' \in 0..MaxRoutes
    BY <1>0, BoundsAssumption DEF OthersWrite, TypeOK
  <1>2. GroupRoutes \/ TaskRoutes
    BY DEF OthersWrite
  <1>3. TypeOK' /\ FiniteTables'
    BY <1>0, <1>1, <1>2, OthersTypes, OthersFinite, FiniteTablesStep
  <1>4. MaybePushed
    BY PushIsAppend DEF OthersWrite
  <1>5. sure' \in BOOLEAN
    BY DEF OthersWrite
  <1>6. UNCHANGED <<client, toServer, answer, aiPayload, plan>>
    BY DEF OthersWrite
  <1> QED BY <1>3, <1>4, <1>5, <1>6, PushStep

(* The tables of a step that writes none. *)
LEMMA SameTables ==
  ASSUME TypeOK, FiniteTables, UNCHANGED <<tables, next, job, served>>, stale' \subseteq UserId
  PROVE  TypeOK' /\ FiniteTables'
  BY DEF TypeOK, FiniteTables, tables

LEMMA RefreshStep ==
  ASSUME SyncInv, Refresh, UNCHANGED plan
  PROVE  SyncInv'
  <1>0. TypeOK /\ FiniteTables
    BY DEF SyncInv, SyncTypeOK
  <1>1. TypeOK' /\ FiniteTables'
    BY <1>0, SameTables, PushType DEF Refresh, AutoRefresh
  <1>2. MaybePushed
    BY PushIsAppend DEF Refresh
  <1>3. UNCHANGED <<client, toServer, answer, aiPayload, plan>> /\ sure' = sure
    BY DEF Refresh
  <1>4. sure' \in BOOLEAN
    BY <1>3 DEF SyncInv, SyncTypeOK
  <1> QED BY <1>1, <1>2, <1>3, <1>4, PushStep

(* The route takes the request from the queue and holds its reply. *)
LEMMA ServeStep ==
  ASSUME SyncInv, Serve, UNCHANGED plan
  PROVE  SyncInv'
  <1> DEFINE m == Head(toServer)
             a == [call |-> m.call, waited |-> m.waited, ok |-> Succeeds(m.call),
                   id |-> NewId(m.call)]
  <1>0. /\ TypeOK /\ FiniteTables /\ served' \in 0..MaxRoutes
        /\ toServer \in Seq(RequestMail) /\ toServer # <<>> /\ answer = <<>>
    BY DEF SyncInv, SyncTypeOK, TypeOK, Serve
  <1>1. m \in RequestMail /\ Tail(toServer) \in Seq(RequestMail)
    BY <1>0, TailFacts
  <1>2. m.call \in Call /\ m.waited \in BOOLEAN
    BY <1>1 DEF RequestMail
  <1>3. /\ Route(m.call) /\ answer' = <<a>> /\ sure' \in BOOLEAN /\ toServer' = Tail(toServer)
        /\ UNCHANGED <<local, toggling, signedIn, clicks, crossed, orphaned, aiPayload, plan>>
    BY DEF Serve, client
  <1>4. /\ TypeOK' /\ FiniteTables' /\ MaybePushed
        /\ m.call.cmd = "createGroup" => next.group \in GroupId
        /\ m.call.cmd = "createTask" => next.task \in TaskId
    BY <1>0, <1>2, <1>3, RouteFacts
  <1>5. a \in ReplyMail /\ IdFits(a)
    <2>1. NewId(m.call) \in Nat
      <3>1. next.group \in Nat /\ next.task \in Nat
        BY <1>0, BoundsAssumption DEF TypeOK, Sequence
      <3> QED BY <3>1 DEF NewId
    <2>2. Succeeds(m.call) \in BOOLEAN
      BY DEF Succeeds
    <2>3. a \in ReplyMail
      BY <1>2, <2>1, <2>2 DEF ReplyMail
    <2>4. IdFits(a)
      BY <1>4 DEF IdFits, NewId
    <2> QED BY <2>3, <2>4
  <1>6. \A g : Toggles(a, g) <=> Toggles(m, g)
    <2>1. IsReply(m) /\ IsReply(a) /\ a.call = m.call /\ a.waited = m.waited
      BY <1>1, <1>5, ReplyOrPayload
    <2> HIDE DEF m, a
    <2> QED BY <2>1 DEF Toggles
  <1> HIDE DEF m, a
  <1>7. answer' \in Seq(ReplyMail) /\ Len(answer') <= 1 /\ DOMAIN answer' = {1} /\ answer'[1] = a
    BY <1>3, <1>5
  <1>8. \A g : (Awaits(answer', g) <=> Toggles(m, g)) /\ Once(answer', g) /\ ~Awaits(answer, g)
    BY <1>0, <1>6, <1>7 DEF Awaits, Once
  <1>9. \A g : /\ Awaits(toServer, g) <=> Toggles(m, g) \/ Awaits(toServer', g)
               /\ Once(toServer, g) => Once(toServer', g) /\ ~(Toggles(m, g) /\ Awaits(toServer', g))
    BY <1>0, <1>3, TailAwaits DEF m
  <1>10. SyncTypeOK'
    BY <1>1, <1>3, <1>4, <1>7, PushedMail DEF SyncInv, SyncTypeOK
  <1>11. IdsFit'
    BY <1>4, <1>5, <1>7, PushedMail DEF IdsFit
  <1>12. ASSUME NEW g \in GroupId
         PROVE  OneToggle(g)' /\ Marked(g)' /\ (~signedIn' => ~Awaited(g)')
    BY <1>3, <1>4, <1>8, <1>9, PushedMail DEF SyncInv, OneToggle, Marked, Awaited
  <1> QED BY <1>3, <1>4, <1>10, <1>11, <1>12, PushedMail DEF SyncInv

LEMMA SameTablesStep ==
  ASSUME SyncInv, UNCHANGED vars
  PROVE  TypeOK' /\ FiniteTables'
  BY SameTables DEF SyncInv, SyncTypeOK, TypeOK, vars

LEMMA SendReplyStep ==
  ASSUME SyncInv, SendReply, UNCHANGED plan
  PROVE  SyncInv'
  <1> DEFINE a == answer[1]
  <1>0. /\ toClient \in Seq(ReplyMail \cup Local) /\ answer \in Seq(ReplyMail)
        /\ answer # <<>> /\ Len(answer) <= 1 /\ answer' = <<>>
        /\ UNCHANGED <<local, toggling, signedIn, clicks, crossed, orphaned, toServer,
                       aiPayload, plan, sure>>
    BY DEF SyncInv, SyncTypeOK, SendReply, client
  <1>1. TypeOK' /\ FiniteTables'
    BY SameTablesStep DEF SendReply
  <1>2. a \in ReplyMail /\ DOMAIN answer = {1} /\ IdFits(a)
    BY <1>0, ConcatOne DEF SyncInv, IdsFit
  <1>3. \A g : (Awaits(answer, g) <=> Toggles(a, g)) /\ ~Awaits(answer', g) /\ Once(answer', g)
    BY <1>0, <1>2 DEF Awaits, Once
  <1>4. CASE signedIn
    <2>1. toClient' = Append(toClient, a)
      BY <1>0, <1>4, ConcatOne DEF SendReply
    <2> HIDE DEF a
    <2>2. a \in ReplyMail \cup Local
      BY <1>2
    <2>3. /\ toClient' \in Seq(ReplyMail \cup Local)
          /\ \A i \in DOMAIN toClient' :
                toClient'[i] = a \/ (i \in DOMAIN toClient /\ toClient'[i] = toClient[i])
      BY <1>0, <2>1, <2>2, AppendFacts
    <2>4. \A g : /\ Awaits(toClient', g) <=> Awaits(toClient, g) \/ Toggles(a, g)
                 /\ Once(toClient, g) /\ ~(Awaits(toClient, g) /\ Toggles(a, g))
                       => Once(toClient', g)
      BY <1>0, <2>1, <2>2, AppendAwaits
    <2>5. SyncTypeOK'
      BY <1>0, <1>1, <2>3 DEF SyncInv, SyncTypeOK
    <2>6. IdsFit'
      BY <1>0, <1>2, <2>3 DEF SyncInv, IdsFit
    <2>7. ASSUME NEW g \in GroupId PROVE OneToggle(g)' /\ Marked(g)'
      BY <1>0, <1>3, <2>4 DEF SyncInv, OneToggle, Marked, Awaited
    <2> QED BY <1>0, <1>1, <1>4, <2>5, <2>6, <2>7 DEF SyncInv
  <1>5. CASE ~signedIn
    <2>1. toClient' = toClient
      BY <1>5 DEF SendReply
    <2>2. SyncTypeOK' /\ IdsFit'
      BY <1>0, <1>1, <2>1 DEF SyncInv, SyncTypeOK, IdsFit
    <2>3. ASSUME NEW g \in GroupId PROVE OneToggle(g)' /\ Marked(g)' /\ ~Awaited(g)'
      BY <1>0, <1>3, <1>5, <2>1 DEF SyncInv, OneToggle, Marked, Awaited
    <2> QED BY <1>0, <1>1, <1>5, <2>1, <2>2, <2>3 DEF SyncInv
  <1> QED BY <1>4, <1>5

(* A step that leaves the mail and the marks alone. *)
LEMMA SameMail ==
  ASSUME SyncInv, SyncTypeOK', FiniteTables',
         UNCHANGED <<toServer, answer, toClient, toggling, signedIn, orphaned>>
  PROVE  SyncInv'
  BY DEF SyncInv, IdsFit, OneToggle, Marked, Awaited

LEMMA AiReadStep ==
  ASSUME SyncInv, AiRead, UNCHANGED plan
  PROVE  SyncInv'
  <1>0. TypeOK /\ FiniteTables
    BY DEF SyncInv, SyncTypeOK
  <1>1. TypeOK' /\ FiniteTables'
    BY <1>0, SameTables, PushType DEF AiRead, AiPush
  <1>2. aiPayload' \in Seq(Local) /\ Len(aiPayload') <= 1
    <2>1. Loaded(View(Me)) \in Local
      BY <1>0, PayloadType
    <2> QED BY <2>1 DEF AiRead
  <1>3. UNCHANGED <<local, toggling, signedIn, clicks, crossed, orphaned, toServer, answer,
                    toClient, sure, plan>>
    BY DEF AiRead, client, wire
  <1>4. SyncTypeOK'
    BY <1>1, <1>2, <1>3 DEF SyncInv, SyncTypeOK
  <1> QED BY <1>1, <1>3, <1>4, SameMail

LEMMA AiSendStep ==
  ASSUME SyncInv, AiSend, UNCHANGED plan
  PROVE  SyncInv'
  <1> DEFINE p == aiPayload[1]
  <1>0. /\ toClient \in Seq(ReplyMail \cup Local) /\ aiPayload \in Seq(Local)
        /\ aiPayload # <<>> /\ Len(aiPayload) <= 1 /\ aiPayload' = <<>>
        /\ UNCHANGED <<local, toggling, signedIn, clicks, crossed, orphaned, toServer, answer,
                       plan>>
    BY DEF SyncInv, SyncTypeOK, AiSend, client
  <1>1. TypeOK' /\ FiniteTables'
    BY SameTablesStep DEF AiSend
  <1>4. sure' \in BOOLEAN /\ aiPayload' \in Seq(Local) /\ Len(aiPayload') <= 1
    <2>1. sure' \in BOOLEAN
      BY DEF AiSend
    <2>2. <<>> \in Seq(Local) /\ Len(<<>>) = 0
      BY EmptySeq
    <2> QED BY <1>0, <2>1, <2>2
  <1>2. CASE signedIn
    <2>1. toClient' = Append(toClient, p) /\ p \in Local
      BY <1>0, <1>2, ConcatOne DEF AiSend
    <2> HIDE DEF p
    <2>2. ~IsReply(p) /\ p \in ReplyMail \cup Local
      BY <2>1, ReplyOrPayload
    <2>3. IdFits(p) /\ \A g : ~Toggles(p, g)
      BY <2>2 DEF IdFits, Toggles
    <2>4. /\ toClient' \in Seq(ReplyMail \cup Local)
          /\ \A i \in DOMAIN toClient' :
                toClient'[i] = p \/ (i \in DOMAIN toClient /\ toClient'[i] = toClient[i])
      BY <1>0, <2>1, <2>2, AppendFacts
    <2>5. \A g : /\ Awaits(toClient', g) <=> Awaits(toClient, g)
                 /\ Once(toClient, g) => Once(toClient', g)
      BY <1>0, <2>1, <2>2, <2>3, AppendAwaits
    <2>6. SyncTypeOK'
      BY <1>0, <1>1, <1>4, <2>4 DEF SyncInv, SyncTypeOK
    <2>7. IdsFit'
      BY <1>0, <2>3, <2>4 DEF SyncInv, IdsFit
    <2>8. ASSUME NEW g \in GroupId PROVE OneToggle(g)' /\ Marked(g)'
      BY <1>0, <2>5 DEF SyncInv, OneToggle, Marked, Awaited
    <2> QED BY <1>0, <1>1, <1>2, <2>6, <2>7, <2>8 DEF SyncInv
  <1>3. CASE ~signedIn
    <2>1. toClient' = toClient
      BY <1>3 DEF AiSend
    <2>2. SyncTypeOK'
      BY <1>0, <1>1, <1>4, <2>1 DEF SyncInv, SyncTypeOK
    <2> QED BY <1>0, <1>1, <2>1, <2>2, SameMail
  <1> QED BY <1>2, <1>3

----------------------------------------------------------------------------
(* The client's steps *)

LEMMA LogInStep ==
  ASSUME SyncInv, LogIn, UNCHANGED plan
  PROVE  SyncInv'
  <1>0. TypeOK /\ FiniteTables /\ toClient = <<>> /\ \A g \in GroupId : ~Awaited(g)
    BY DEF SyncInv, SyncTypeOK, LogIn
  <1>1. TypeOK' /\ FiniteTables'
    BY <1>0, SameTables, PushType DEF LogIn, Login
  <1>2. local' \in Local
    BY <1>0, PayloadType DEF LogIn
  <1>3. /\ toClient' = toClient /\ sure' \in BOOLEAN /\ signedIn' = TRUE
        /\ UNCHANGED <<toServer, answer, aiPayload, toggling, clicks, crossed, orphaned, plan>>
    BY <1>0 DEF LogIn
  <1>4. SyncTypeOK'
    BY <1>1, <1>2, <1>3 DEF SyncInv, SyncTypeOK
  <1>5. IdsFit'
    BY <1>3 DEF SyncInv, IdsFit
  <1>6. ASSUME NEW g \in GroupId PROVE OneToggle(g)' /\ Marked(g)'
    BY <1>3 DEF SyncInv, OneToggle, Marked, Awaited
  <1> QED BY <1>1, <1>3, <1>4, <1>5, <1>6 DEF SyncInv

(* A logout leaves no callback anywhere. *)
LEMMA LogOutStep ==
  ASSUME SyncInv, LogOut, UNCHANGED plan
  PROVE  SyncInv'
  <1>0. /\ toServer \in Seq(RequestMail) /\ answer \in Seq(ReplyMail) /\ Len(answer) <= 1
        /\ \A i \in DOMAIN answer : IdFits(answer[i])
        /\ plan \in Plans /\ plan.limit \in Nat /\ clicks \in 0..plan.limit
    BY ClientSyncAssumption DEF SyncInv, SyncTypeOK, IdsFit
  <1>1. TypeOK' /\ FiniteTables'
    BY SameTablesStep DEF LogOut
  <1>2. PICK n \in 0..Len(toServer) :
           toServer' = [i \in 1..n |-> [toServer[i] EXCEPT !.waited = FALSE]]
    BY DEF LogOut
  <1>3. /\ answer' = [i \in DOMAIN answer |-> [answer[i] EXCEPT !.waited = FALSE]]
        /\ toClient' = <<>> /\ orphaned' = toggling /\ signedIn' = FALSE /\ clicks' = clicks + 1
        /\ UNCHANGED <<local, toggling, aiPayload, crossed, sure, plan>> /\ clicks < plan.limit
    BY DEF LogOut
  <1>4. toServer' \in Seq(RequestMail) /\ \A i \in DOMAIN toServer' : ~toServer'[i].waited
    <2>1. ASSUME NEW i \in 1..n
          PROVE  LET m == [toServer[i] EXCEPT !.waited = FALSE] IN
                 m \in RequestMail /\ ~m.waited
      <3>1. toServer[i] \in RequestMail
        BY <1>0
      <3> QED BY <3>1 DEF RequestMail
    <2>2. n \in Nat
      BY <1>0, LenProperties
    <2>3. toServer' \in Seq(RequestMail)
      BY <1>2, <2>1, <2>2
    <2>4. \A i \in 1..n : ~toServer'[i].waited
      BY <1>2, <2>1
    <2> QED BY <1>2, <2>3, <2>4
  <1>5. /\ answer' \in Seq(ReplyMail) /\ Len(answer') <= 1
        /\ \A i \in DOMAIN answer' : ~answer'[i].waited /\ IdFits(answer'[i])
    <2>1. ASSUME NEW i \in DOMAIN answer
          PROVE  LET a == [answer[i] EXCEPT !.waited = FALSE] IN
                 a \in ReplyMail /\ ~a.waited /\ IdFits(a)
      <3> DEFINE a == [answer[i] EXCEPT !.waited = FALSE]
      <3>1. answer[i] \in ReplyMail
        BY <1>0
      <3>2. a \in ReplyMail /\ ~a.waited
        BY <3>1 DEF ReplyMail
      <3>3. a.call = answer[i].call /\ a.ok = answer[i].ok /\ a.id = answer[i].id
        BY <3>1 DEF ReplyMail
      <3>4. IsReply(answer[i])
        BY <3>1, ReplyOrPayload
      <3> HIDE DEF a
      <3>5. IdFits(a)
        BY <1>0, <3>3, <3>4 DEF IdFits
      <3> QED BY <3>2, <3>5 DEF a
    <2>2. Len(answer) \in Nat /\ DOMAIN answer = 1..Len(answer)
      BY <1>0
    <2>3. answer' \in Seq(ReplyMail) /\ Len(answer') = Len(answer) /\ DOMAIN answer' = DOMAIN answer
      BY <1>3, <2>1, <2>2
    <2> QED BY <1>0, <1>3, <2>1, <2>3
  <1>6. SyncTypeOK'
    <2>1. clicks' \in 0..plan.limit
      BY <1>0, <1>3
    <2>2. toClient' \in Seq(ReplyMail \cup Local)
      BY <1>3
    <2> QED BY <1>1, <1>3, <1>4, <1>5, <2>1, <2>2 DEF SyncInv, SyncTypeOK
  <1>7. IdsFit'
    BY <1>3, <1>5 DEF IdsFit
  <1>8. \A g : ~Awaits(toServer', g) /\ ~Awaits(answer', g) /\ ~Awaits(toClient', g)
    <2>1. DOMAIN toClient' = {}
      BY <1>3
    <2> QED BY <1>4, <1>5, <2>1 DEF Awaits, Toggles
  <1>9. \A g : Once(toServer', g) /\ Once(answer', g) /\ Once(toClient', g)
    BY <1>8 DEF Awaits, Once
  <1>10. ASSUME NEW g \in GroupId PROVE OneToggle(g)' /\ Marked(g)' /\ ~Awaited(g)'
    BY <1>3, <1>8, <1>9 DEF OneToggle, Marked, Awaited
  <1> QED BY <1>1, <1>3, <1>6, <1>7, <1>10 DEF SyncInv

LEMMA LoadPushStep ==
  ASSUME SyncInv, LoadPush, UNCHANGED plan
  PROVE  SyncInv'
  <1> DEFINE p == Head(toClient)
  <1>0. /\ toClient \in Seq(ReplyMail \cup Local) /\ toClient # <<>> /\ ~IsReply(p)
        /\ signedIn /\ local' = p /\ toClient' = Tail(toClient)
        /\ UNCHANGED <<toServer, answer, aiPayload, toggling, signedIn, clicks, crossed,
                       orphaned, plan>>
    BY DEF SyncInv, SyncTypeOK, LoadPush
  <1>1. TypeOK' /\ FiniteTables'
    BY SameTablesStep DEF LoadPush
  <1>2. sure' \in BOOLEAN
    BY DEF LoadPush
  <1>3. /\ p \in ReplyMail \cup Local
        /\ toClient' \in Seq(ReplyMail \cup Local)
        /\ \A i \in DOMAIN toClient' :
              i + 1 \in DOMAIN toClient /\ toClient'[i] = toClient[i + 1]
    BY <1>0, TailFacts
  <1>4. p \in Local /\ \A g : ~Toggles(p, g)
    BY <1>0, <1>3, ReplyOrPayload DEF Toggles
  <1>5. \A g : /\ Awaits(toClient, g) <=> Toggles(p, g) \/ Awaits(toClient', g)
               /\ Once(toClient, g) => Once(toClient', g)
    BY <1>0, TailAwaits
  <1> HIDE DEF p
  <1>6. SyncTypeOK'
    BY <1>0, <1>1, <1>2, <1>3, <1>4 DEF SyncInv, SyncTypeOK
  <1>7. IdsFit'
    BY <1>0, <1>3 DEF SyncInv, IdsFit
  <1>8. ASSUME NEW g \in GroupId PROVE OneToggle(g)' /\ Marked(g)'
    BY <1>0, <1>4, <1>5 DEF SyncInv, OneToggle, Marked, Awaited
  <1> QED BY <1>0, <1>1, <1>6, <1>7, <1>8 DEF SyncInv

(* A callback that a timer thread ran and took out of its queue. *)
LEMMA Expired ==
  ASSUME NEW S, S = RequestMail \/ S = ReplyMail \/ S = ReplyMail \cup Local,
         NEW q \in Seq(S), NEW i \in DOMAIN q, Waited(q, i)
  PROVE  LET f == Forgotten(q, i) IN
         /\ f \in Seq(S) /\ Len(f) = Len(q) /\ DOMAIN f = DOMAIN q
         /\ q[i].call \in Call
         /\ S # RequestMail => \A j \in DOMAIN q : IdFits(q[j]) => IdFits(f[j])
         /\ \A g : /\ Toggles(q[i], g) <=> q[i].call.cmd = "togglePinGroup" /\ q[i].call.group = g
                   /\ Awaits(f, g) => Awaits(q, g)
                   /\ Awaits(q, g) => Toggles(q[i], g) \/ Awaits(f, g)
                   /\ Once(q, g) => Once(f, g) /\ ~(Toggles(q[i], g) /\ Awaits(f, g))
  <1> DEFINE f == Forgotten(q, i)
  <1>1. q[i] \in S /\ IsReply(q[i]) /\ q[i].waited
    BY DEF Waited
  <1>2. /\ q[i] \in RequestMail => S = RequestMail
        /\ q[i] \in ReplyMail => ReplyMail \subseteq S /\ S # RequestMail
        /\ q[i] \in RequestMail \cup ReplyMail
    <2>1. \A m \in RequestMail : DOMAIN m = {"call", "waited"}
      BY DEF RequestMail
    <2>2. \A m \in ReplyMail : DOMAIN m = {"call", "waited", "ok", "id"}
      BY DEF ReplyMail
    <2>3. \A m \in Local : ~IsReply(m)
      BY ReplyOrPayload
    <2>4. {"call", "waited"} # {"call", "waited", "ok", "id"}
      <3>1. "ok" \in {"call", "waited", "ok", "id"} /\ "ok" \notin {"call", "waited"}
        OBVIOUS
      <3> QED BY <3>1
    <2>5. q[i] \in RequestMail => q[i] \notin ReplyMail
      BY <2>1, <2>2, <2>4
    <2>6. q[i] \notin Local
      BY <1>1, <2>3
    <2> QED BY <1>1, <2>5, <2>6
  <1>3. q[i].call \in Call
    BY <1>2 DEF RequestMail, ReplyMail
  <1> HIDE DEF f
  <1>4. /\ f \in Seq(S) /\ Len(f) = Len(q) /\ DOMAIN f = DOMAIN q
        /\ \A j \in DOMAIN q : j # i => f[j] = q[j]
        /\ f[i].call = q[i].call /\ DOMAIN f[i] = DOMAIN q[i]
        /\ q[i] \in ReplyMail => f[i].ok = q[i].ok /\ f[i].id = q[i].id
    BY <1>2, ForgottenFacts DEF f
  <1>5. ASSUME S # RequestMail, NEW j \in DOMAIN q, IdFits(q[j]) PROVE IdFits(f[j])
    <2>1. CASE j # i
      BY <1>4, <1>5, <2>1
    <2>2. CASE j = i
      BY <1>1, <1>2, <1>4, <1>5, <2>2 DEF IdFits
    <2> QED BY <2>1, <2>2
  <1>6. ASSUME NEW g
        PROVE  /\ Toggles(q[i], g) <=> q[i].call.cmd = "togglePinGroup" /\ q[i].call.group = g
               /\ Awaits(f, g) => Awaits(q, g)
               /\ Awaits(q, g) => Toggles(q[i], g) \/ Awaits(f, g)
               /\ Once(q, g) => Once(f, g) /\ ~(Toggles(q[i], g) /\ Awaits(f, g))
    <2>1. Toggles(q[i], g) <=> q[i].call.cmd = "togglePinGroup" /\ q[i].call.group = g
      BY <1>1 DEF Toggles
    <2> QED BY <1>2, <2>1, ForgottenAwaits DEF f
  <1> QED BY <1>3, <1>4, <1>5, <1>6 DEF f

(* The mark of a toggle's group goes with its callback, no other does. *)
LEMMA UnmarkedFacts ==
  ASSUME NEW r \in Call
  PROVE  \A g : g \in Unmarked(r) <=>
                   g \in toggling /\ ~(r.cmd = "togglePinGroup" /\ r.group = g)
  BY DEF Unmarked

LEMMA TimeoutStep ==
  ASSUME SyncInv, Timeout, UNCHANGED plan
  PROVE  SyncInv'
  <1>0. /\ toServer \in Seq(RequestMail) /\ answer \in Seq(ReplyMail) /\ Len(answer) <= 1
        /\ toClient \in Seq(ReplyMail \cup Local) /\ toggling \subseteq GroupId
        /\ \A g \in GroupId : ~signedIn => ~Awaited(g)
    BY DEF SyncInv, SyncTypeOK
  <1>1. /\ UNCHANGED <<vars, local, signedIn, aiPayload, clicks, crossed, orphaned>>
        /\ sure' \in BOOLEAN
    BY DEF Timeout, GiveUp
  <1>2. TypeOK' /\ FiniteTables'
    BY <1>1, SameTablesStep
  <1>3. CASE \E i \in DOMAIN toServer :
                /\ Waited(toServer, i) /\ GiveUp(toServer[i].call)
                /\ toServer' = Forgotten(toServer, i)
                /\ UNCHANGED <<answer, toClient>>
    <2>1. PICK i \in DOMAIN toServer :
                /\ Waited(toServer, i) /\ GiveUp(toServer[i].call)
                /\ toServer' = Forgotten(toServer, i)
                /\ UNCHANGED <<answer, toClient>>
      BY <1>3
    <2>2. /\ toServer' \in Seq(RequestMail) /\ toServer[i].call \in Call
          /\ \A g : /\ Toggles(toServer[i], g) <=> toServer[i].call.cmd = "togglePinGroup"
                                                   /\ toServer[i].call.group = g
                    /\ Awaits(toServer', g) => Awaits(toServer, g)
                    /\ Awaits(toServer, g) => Toggles(toServer[i], g) \/ Awaits(toServer', g)
                    /\ Once(toServer, g) =>
                          Once(toServer', g) /\ ~(Toggles(toServer[i], g) /\ Awaits(toServer', g))
      BY <1>0, <2>1, Expired
    <2>3. \A g : g \in toggling' <=> g \in toggling /\ ~Toggles(toServer[i], g)
      BY <2>1, <2>2, UnmarkedFacts DEF GiveUp
    <2>4. SyncTypeOK'
      BY <1>0, <1>1, <1>2, <2>1, <2>2, <2>3 DEF SyncInv, SyncTypeOK
    <2>5. IdsFit'
      BY <2>1 DEF SyncInv, IdsFit
    <2>6. \A g : Toggles(toServer[i], g) => Awaits(toServer, g)
      BY DEF Awaits
    <2>7. ASSUME NEW g \in GroupId
          PROVE  OneToggle(g)' /\ Marked(g)' /\ (~signedIn' => ~Awaited(g)')
      BY <1>1, <2>1, <2>2, <2>3, <2>6 DEF SyncInv, OneToggle, Marked, Awaited
    <2> QED BY <1>1, <1>2, <2>1, <2>4, <2>5, <2>7 DEF SyncInv
  <1>4. CASE \E i \in DOMAIN answer :
                /\ Waited(answer, i) /\ GiveUp(answer[i].call)
                /\ answer' = Forgotten(answer, i)
                /\ UNCHANGED <<toServer, toClient>>
    <2>1. PICK i \in DOMAIN answer :
                /\ Waited(answer, i) /\ GiveUp(answer[i].call)
                /\ answer' = Forgotten(answer, i)
                /\ UNCHANGED <<toServer, toClient>>
      BY <1>4
    <2>0. RequestMail # ReplyMail
      <3>1. answer[i] \in ReplyMail
        BY <1>0
      <3>3. DOMAIN answer[i] = {"call", "waited", "ok", "id"}
        BY <3>1 DEF ReplyMail
      <3>2. \A m \in RequestMail : DOMAIN m = {"call", "waited"}
        BY DEF RequestMail
      <3> QED BY <3>1, <3>2, <3>3
    <2>2. /\ answer' \in Seq(ReplyMail) /\ answer[i].call \in Call
          /\ Len(answer') = Len(answer) /\ DOMAIN answer' = DOMAIN answer
          /\ \A j \in DOMAIN answer : IdFits(answer[j]) => IdFits(answer'[j])
          /\ \A g : /\ Toggles(answer[i], g) <=> answer[i].call.cmd = "togglePinGroup"
                                                 /\ answer[i].call.group = g
                    /\ Awaits(answer', g) => Awaits(answer, g)
                    /\ Awaits(answer, g) => Toggles(answer[i], g) \/ Awaits(answer', g)
                    /\ Once(answer, g) =>
                          Once(answer', g) /\ ~(Toggles(answer[i], g) /\ Awaits(answer', g))
      BY <1>0, <2>0, <2>1, Expired
    <2>3. \A g : g \in toggling' <=> g \in toggling /\ ~Toggles(answer[i], g)
      BY <2>1, <2>2, UnmarkedFacts DEF GiveUp
    <2>4. SyncTypeOK'
      BY <1>0, <1>1, <1>2, <2>1, <2>2, <2>3 DEF SyncInv, SyncTypeOK
    <2>5. IdsFit'
      BY <2>1, <2>2 DEF SyncInv, IdsFit
    <2>6. \A g : Toggles(answer[i], g) => Awaits(answer, g)
      BY DEF Awaits
    <2>7. ASSUME NEW g \in GroupId
          PROVE  OneToggle(g)' /\ Marked(g)' /\ (~signedIn' => ~Awaited(g)')
      BY <1>1, <2>1, <2>2, <2>3, <2>6 DEF SyncInv, OneToggle, Marked, Awaited
    <2> QED BY <1>1, <1>2, <2>1, <2>4, <2>5, <2>7 DEF SyncInv
  <1>5. CASE \E i \in DOMAIN toClient :
                /\ Waited(toClient, i) /\ GiveUp(toClient[i].call)
                /\ toClient' = Forgotten(toClient, i)
                /\ UNCHANGED <<toServer, answer>>
    <2>1. PICK i \in DOMAIN toClient :
                /\ Waited(toClient, i) /\ GiveUp(toClient[i].call)
                /\ toClient' = Forgotten(toClient, i)
                /\ UNCHANGED <<toServer, answer>>
      BY <1>5
    <2>0. RequestMail # ReplyMail \cup Local
      <3>1. toClient[i] \in ReplyMail
        BY <1>0, <2>1, ReplyOrPayload DEF Waited
      <3>2. DOMAIN toClient[i] = {"call", "waited", "ok", "id"}
        BY <3>1 DEF ReplyMail
      <3>3. \A m \in RequestMail : DOMAIN m = {"call", "waited"}
        BY DEF RequestMail
      <3> QED BY <3>1, <3>2, <3>3
    <2>2. /\ toClient' \in Seq(ReplyMail \cup Local) /\ toClient[i].call \in Call
          /\ DOMAIN toClient' = DOMAIN toClient
          /\ \A j \in DOMAIN toClient : IdFits(toClient[j]) => IdFits(toClient'[j])
          /\ \A g : /\ Toggles(toClient[i], g) <=> toClient[i].call.cmd = "togglePinGroup"
                                                   /\ toClient[i].call.group = g
                    /\ Awaits(toClient', g) => Awaits(toClient, g)
                    /\ Awaits(toClient, g) => Toggles(toClient[i], g) \/ Awaits(toClient', g)
                    /\ Once(toClient, g) =>
                          Once(toClient', g) /\ ~(Toggles(toClient[i], g) /\ Awaits(toClient', g))
      BY <1>0, <2>0, <2>1, Expired
    <2>3. \A g : g \in toggling' <=> g \in toggling /\ ~Toggles(toClient[i], g)
      BY <2>1, <2>2, UnmarkedFacts DEF GiveUp
    <2>4. SyncTypeOK'
      BY <1>0, <1>1, <1>2, <2>1, <2>2, <2>3 DEF SyncInv, SyncTypeOK
    <2>5. IdsFit'
      BY <2>1, <2>2 DEF SyncInv, IdsFit
    <2>6. \A g : Toggles(toClient[i], g) => Awaits(toClient, g)
      BY DEF Awaits
    <2>7. ASSUME NEW g \in GroupId
          PROVE  OneToggle(g)' /\ Marked(g)' /\ (~signedIn' => ~Awaited(g)')
      BY <1>1, <2>1, <2>2, <2>3, <2>6 DEF SyncInv, OneToggle, Marked, Awaited
    <2>8. signedIn
      BY <2>1 DEF SyncInv
    <2> QED BY <1>1, <1>2, <2>4, <2>5, <2>7, <2>8 DEF SyncInv
  <1> QED BY <1>3, <1>4, <1>5 DEF Timeout

(* What a reply makes the client do: it never sends a toggle again, because
   the mark of its group is still there. *)
LEMMA TakeReplyFacts ==
  ASSUME SyncInv, TakeReply
  PROVE  /\ local' \in Local
         /\ \/ toServer' = toServer
            \/ \E r \in Call : /\ r.cmd # "togglePinGroup"
                               /\ toServer' = Append(toServer, Sent(r))
         /\ Head(toClient) \in ReplyMail
         /\ \A g \in GroupId : g \in toggling' <=> g \in toggling /\ ~Toggles(Head(toClient), g)
         /\ toggling' \subseteq toggling
  <1> DEFINE m == Head(toClient)
  <1>0. /\ toClient \in Seq(ReplyMail \cup Local) /\ toClient # <<>> /\ IsReply(m)
        /\ local \in Local
    BY DEF SyncInv, SyncTypeOK, TakeReply
  <1>1. m = toClient[1] /\ 1 \in DOMAIN toClient /\ m \in ReplyMail
    BY <1>0, TailFacts, ReplyOrPayload
  <1>2. m.call \in Call /\ m.waited \in BOOLEAN /\ m.ok \in BOOLEAN
    BY <1>1 DEF ReplyMail
  <1>3. IdFits(m)
    BY <1>1 DEF SyncInv, IdsFit
  <1>4. \A g : Toggles(m, g) <=> m.waited /\ m.call.cmd = "togglePinGroup" /\ m.call.group = g
    BY <1>0 DEF Toggles
  <1>5. \/ ~m.waited /\ UNCHANGED <<local, toServer, toggling>>
        \/ m.waited /\ toggling' = Unmarked(m.call)
           /\ \/ ~m.ok /\ UNCHANGED <<local, toServer>>
              \/ m.ok /\ m.call.cmd \in Optimistic /\ Perform(m.call)
              \/ /\ m.ok /\ m.call.cmd \in OnReply
                 /\ local' = Created(local, m.call, m.id)
                 /\ UNCHANGED toServer
    BY DEF TakeReply
  <1> HIDE DEF m
  <1>6. (\A g : g \in toggling' <=> g \in toggling /\ ~Toggles(m, g))
    <2>1. CASE ~m.waited
      BY <1>4, <1>5, <2>1
    <2>2. CASE m.waited
      BY <1>2, <1>4, <1>5, <2>2, UnmarkedFacts
    <2> QED BY <2>1, <2>2
  <1>7. /\ local' \in Local
        /\ \/ toServer' = toServer
           \/ \E r \in Call : r.cmd # "togglePinGroup" /\ toServer' = Append(toServer, Sent(r))
    <2>1. CASE UNCHANGED <<local, toServer>>
      BY <1>0, <2>1
    <2>2. CASE m.waited /\ m.ok /\ m.call.cmd \in Optimistic /\ Perform(m.call)
      <3>1. local' = Changed(local, m.call) /\ local' \in Local
        BY <1>0, <1>2, <2>2, ChangedType DEF Perform
      <3>2. CASE m.call.cmd = "togglePinGroup"
        <4>1. m.call.group \in GroupId /\ Toggles(m, m.call.group)
          BY <1>2, <1>4, <2>2, <3>2 DEF Call
        <4>2. Awaits(toClient, m.call.group)
          BY <1>1, <4>1 DEF Awaits
        <4>3. m.call.group \in toggling
          BY <4>1, <4>2 DEF SyncInv, Marked, Awaited
        <4>4. Changed(local, m.call) = local
          BY <3>2, <4>3 DEF Changed, Pinned
        <4> QED BY <2>2, <3>1, <4>4 DEF Perform
      <3>3. CASE m.call.cmd # "togglePinGroup"
        <4>1. CASE Changed(local, m.call) = local
          BY <2>2, <3>1, <4>1 DEF Perform
        <4>2. CASE Changed(local, m.call) # local
          BY <1>2, <2>2, <3>1, <3>3, <4>2 DEF Perform
        <4> QED BY <4>1, <4>2
      <3> QED BY <3>2, <3>3
    <2>3. CASE /\ m.ok /\ m.call.cmd \in OnReply
               /\ local' = Created(local, m.call, m.id) /\ UNCHANGED toServer
      <3>1. /\ m.call.cmd = "createGroup" => m.id \in GroupId
            /\ m.call.cmd = "createTask" => m.id \in TaskId
        BY <1>0, <1>3, <2>3 DEF IdFits, m
      <3> QED BY <1>0, <1>2, <2>3, <3>1, CreatedType
    <2> QED BY <1>5, <2>1, <2>2, <2>3
  <1> QED BY <1>1, <1>6, <1>7 DEF m

LEMMA SentMail ==
  ASSUME NEW r \in Call
  PROVE  /\ Sent(r) \in RequestMail
         /\ \A g : Toggles(Sent(r), g) <=> r.cmd = "togglePinGroup" /\ r.group = g
  <1>1. Sent(r) \in RequestMail
    BY DEF Sent, RequestMail
  <1>2. IsReply(Sent(r)) /\ Sent(r).waited /\ Sent(r).call = r
    BY <1>1, ReplyOrPayload DEF Sent
  <1> QED BY <1>1, <1>2 DEF Toggles

LEMMA TakeReplyStep ==
  ASSUME SyncInv, TakeReply, UNCHANGED plan
  PROVE  SyncInv'
  <1> DEFINE m == Head(toClient)
  <1>0. /\ toClient \in Seq(ReplyMail \cup Local) /\ toClient # <<>>
        /\ toServer \in Seq(RequestMail)
        /\ signedIn /\ toClient' = Tail(toClient) /\ toggling \subseteq GroupId
        /\ UNCHANGED <<answer, aiPayload, signedIn, clicks, crossed, orphaned, sure, plan>>
    BY DEF SyncInv, SyncTypeOK, TakeReply
  <1>1. TypeOK' /\ FiniteTables'
    BY SameTablesStep DEF TakeReply
  <1>2. /\ local' \in Local /\ toggling' \subseteq toggling
        /\ \A g \in GroupId : g \in toggling' <=> g \in toggling /\ ~Toggles(m, g)
    BY TakeReplyFacts
  <1>3. /\ toServer' \in Seq(RequestMail)
        /\ \A g : /\ Awaits(toServer', g) <=> Awaits(toServer, g)
                  /\ Once(toServer, g) => Once(toServer', g)
    <2>1. CASE toServer' = toServer
      BY <1>0, <2>1
    <2>2. CASE \E r \in Call : /\ r.cmd # "togglePinGroup"
                               /\ toServer' = Append(toServer, Sent(r))
      BY <1>0, <2>2, SentMail, AppendAwaits, AppendFacts
    <2> QED BY <2>1, <2>2, TakeReplyFacts
  <1>4. /\ toClient' \in Seq(ReplyMail \cup Local)
        /\ \A i \in DOMAIN toClient' :
              i + 1 \in DOMAIN toClient /\ toClient'[i] = toClient[i + 1]
    BY <1>0, TailFacts
  <1>5. \A g : /\ Awaits(toClient, g) <=> Toggles(m, g) \/ Awaits(toClient', g)
               /\ Once(toClient, g) =>
                     Once(toClient', g) /\ ~(Toggles(m, g) /\ Awaits(toClient', g))
    BY <1>0, TailAwaits
  <1> HIDE DEF m
  <1>6. SyncTypeOK'
    BY <1>0, <1>1, <1>2, <1>3, <1>4 DEF SyncInv, SyncTypeOK
  <1>7. IdsFit'
    BY <1>0, <1>4 DEF SyncInv, IdsFit
  <1>8. ASSUME NEW g \in GroupId PROVE OneToggle(g)' /\ Marked(g)'
    BY <1>0, <1>2, <1>3, <1>5 DEF SyncInv, OneToggle, Marked, Awaited
  <1> QED BY <1>0, <1>1, <1>6, <1>7, <1>8 DEF SyncInv

(* What the user clicks on is a call: the ids were handed out at some time. *)
LEMMA ClicksAreCalls ==
  ASSUME TypeOK
  PROVE  GroupClicks \cup MemberClicks \cup TaskClicks \cup NewClicks \subseteq Call
  <1>1. /\ 1 \in GroupId /\ 1 \in TaskId /\ Me \in UserId
        /\ FirstBody \in Bodies /\ FirstBody \in [done : BOOLEAN, text : Texts]
    <2>1. MaxGroup # 0 /\ MaxTask # 0
      BY ClientSyncAssumption
    <2>2. 1 \in GroupId /\ 1 \in TaskId
      BY <2>1, BoundsAssumption DEF GroupId, TaskId
    <2>3. FirstBody \in Bodies /\ FirstBody \in [done : BOOLEAN, text : Texts]
      BY ClientSyncAssumption, BodyAssumption
    <2> QED BY <2>2, <2>3, ClientSyncAssumption, MeIsUser
  <1>2. IssuedGroups \subseteq GroupId /\ UserIds \subseteq UserId
    BY JobType
  <1>3. IssuedTasks \subseteq TaskId
    BY BoundsAssumption DEF TypeOK, Sequence, IssuedTasks, TaskId
  <1>4. \A cmd \in Optimistic \cup OnReply, g \in GroupId, t \in TaskId, u \in UserId,
           b \in Bodies :
           [cmd |-> cmd, group |-> g, task |-> t, user |-> u, body |-> b] \in Call
    BY DEF Call
  <1>5. /\ \A d \in BOOLEAN : [FirstBody EXCEPT !.done = d] \in Bodies
        /\ \A x \in Texts : [FirstBody EXCEPT !.text = x] \in Bodies
    BY <1>1, ClientSyncAssumption
  <1>6. GroupClicks \subseteq Call
    <2> SUFFICES ASSUME NEW c \in GroupClicks PROVE c \in Call
      OBVIOUS
    <2>0. PICK cmd \in plan.clicks \cap {"togglePinGroup", "deleteGroup", "acceptInvite",
                                         "denyInvite", "sendMessage"},
               g \in IssuedGroups : c = With(cmd, [NoArgs EXCEPT !.group = g])
      BY DEF GroupClicks
    <2>1. With(cmd, [NoArgs EXCEPT !.group = g]) =
             [cmd |-> cmd, group |-> g, task |-> 1, user |-> Me, body |-> FirstBody]
      BY DEF With, NoArgs
    <2>2. cmd \in Optimistic \cup OnReply
      BY DEF Optimistic, OnReply
    <2> QED BY <1>1, <1>2, <1>4, <2>0, <2>1, <2>2
  <1>7. MemberClicks \subseteq Call
    <2> DEFINE F(cmd, g, u) == With(cmd, [NoArgs EXCEPT !.group = g, !.user = u])
    <2>3. MemberClicks =
             {F(cmd, g, u) : cmd \in plan.clicks \cap {"removeMemberFromGroup", "cancelInvite",
                                                       "inviteMemberToGroup"},
                             g \in IssuedGroups, u \in UserIds}
      BY DEF MemberClicks
    <2> SUFFICES ASSUME NEW c \in MemberClicks PROVE c \in Call
      OBVIOUS
    <2> HIDE DEF F
    <2>0. PICK cmd \in plan.clicks \cap {"removeMemberFromGroup", "cancelInvite",
                                         "inviteMemberToGroup"},
               g \in IssuedGroups, u \in UserIds :
               c = F(cmd, g, u)
      BY <2>3
    <2> USE DEF F
    <2>1. With(cmd, [NoArgs EXCEPT !.group = g, !.user = u]) =
             [cmd |-> cmd, group |-> g, task |-> 1, user |-> u, body |-> FirstBody]
      BY DEF With, NoArgs
    <2>2. cmd \in Optimistic \cup OnReply
      BY DEF Optimistic, OnReply
    <2> QED BY <1>1, <1>2, <1>4, <2>0, <2>1, <2>2
  <1>8. TaskClicks \subseteq Call
    <2>1. ASSUME NEW t \in TaskId, NEW d \in BOOLEAN
          PROVE  With("toggleTaskCompletion", [NoArgs EXCEPT !.task = t, !.body.done = d]) \in Call
      <3>1. With("toggleTaskCompletion", [NoArgs EXCEPT !.task = t, !.body.done = d]) =
               [cmd |-> "toggleTaskCompletion", group |-> 1, task |-> t, user |-> Me,
                body |-> [FirstBody EXCEPT !.done = d]]
        BY DEF With, NoArgs
      <3> QED BY <1>1, <1>4, <1>5, <3>1 DEF Optimistic
    <2>2. ASSUME NEW t \in TaskId, NEW x \in Texts
          PROVE  With("editTask", [NoArgs EXCEPT !.task = t, !.body.text = x]) \in Call
      <3>1. With("editTask", [NoArgs EXCEPT !.task = t, !.body.text = x]) =
               [cmd |-> "editTask", group |-> 1, task |-> t, user |-> Me,
                body |-> [FirstBody EXCEPT !.text = x]]
        BY DEF With, NoArgs
      <3> QED BY <1>1, <1>4, <1>5, <3>1 DEF Optimistic
    <2>3. ASSUME NEW t \in TaskId
          PROVE  With("deleteTask", [NoArgs EXCEPT !.task = t]) \in Call
      <3>1. With("deleteTask", [NoArgs EXCEPT !.task = t]) =
               [cmd |-> "deleteTask", group |-> 1, task |-> t, user |-> Me, body |-> FirstBody]
        BY DEF With, NoArgs
      <3> QED BY <1>1, <1>4, <3>1 DEF Optimistic
    <2> DEFINE D(cmd, t, d) == With(cmd, [NoArgs EXCEPT !.task = t, !.body.done = d])
               E(cmd, t, x) == With(cmd, [NoArgs EXCEPT !.task = t, !.body.text = x])
               F(cmd, t) == With(cmd, [NoArgs EXCEPT !.task = t])
    <2>4. TaskClicks =
             {D(cmd, t, d) : cmd \in plan.clicks \cap {"toggleTaskCompletion"},
                             t \in IssuedTasks, d \in BOOLEAN}
             \cup {E(cmd, t, x) : cmd \in plan.clicks \cap {"editTask"},
                                  t \in IssuedTasks, x \in Texts}
             \cup {F(cmd, t) : cmd \in plan.clicks \cap {"deleteTask"}, t \in IssuedTasks}
      BY DEF TaskClicks
    <2>5. /\ \A t \in IssuedTasks, d \in BOOLEAN : D("toggleTaskCompletion", t, d) \in Call
          /\ \A t \in IssuedTasks, x \in Texts : E("editTask", t, x) \in Call
          /\ \A t \in IssuedTasks : F("deleteTask", t) \in Call
      BY <1>3, <2>1, <2>2, <2>3, Zenon
    <2> HIDE DEF D, E, F
    <2> QED BY <2>4, <2>5
  <1>9. NewClicks \subseteq Call
    <2>1. With("createGroup", NoArgs) \in Call
      <3>1. With("createGroup", NoArgs) =
               [cmd |-> "createGroup", group |-> 1, task |-> 1, user |-> Me, body |-> FirstBody]
        BY DEF With, NoArgs
      <3> QED BY <1>1, <1>4, <3>1 DEF OnReply
    <2>2. ASSUME NEW g \in GroupId
          PROVE  With("createTask", [NoArgs EXCEPT !.group = g]) \in Call
      <3>1. With("createTask", [NoArgs EXCEPT !.group = g]) =
               [cmd |-> "createTask", group |-> g, task |-> 1, user |-> Me, body |-> FirstBody]
        BY DEF With, NoArgs
      <3> QED BY <1>1, <1>4, <3>1 DEF OnReply
    <2> SUFFICES ASSUME NEW c \in NewClicks PROVE c \in Call
      OBVIOUS
    <2>3. CASE c = With("createGroup", NoArgs)
      BY <2>1, <2>3, Zenon
    <2>4. CASE \E g \in IssuedGroups : c = With("createTask", [NoArgs EXCEPT !.group = g])
      BY <1>2, <2>2, <2>4, Zenon
    <2> QED BY <2>3, <2>4 DEF NewClicks
  <1> QED BY <1>6, <1>7, <1>8, <1>9

(* A click on a pin finds its group unmarked, so no toggle of it is under way. *)
LEMMA ClickStep ==
  ASSUME SyncInv, NEW r \in Call, Click(r), UNCHANGED plan
  PROVE  SyncInv'
  <1>0. /\ toServer \in Seq(RequestMail) /\ local \in Local /\ toggling \subseteq GroupId
        /\ plan \in Plans /\ plan.limit \in Nat /\ clicks \in 0..plan.limit
        /\ r.group \in GroupId
    BY ClientSyncAssumption DEF SyncInv, SyncTypeOK, Call
  <1>1. TypeOK' /\ FiniteTables'
    BY SameTablesStep DEF Click
  <1>2. /\ signedIn /\ clicks < plan.limit /\ clicks' = clicks + 1 /\ crossed' \in BOOLEAN
        /\ toggling' = IF r.cmd = "togglePinGroup" THEN toggling \cup {r.group} ELSE toggling
        /\ UNCHANGED <<signedIn, answer, toClient, aiPayload, sure, orphaned, plan>>
    BY DEF Click
  <1>3. local' \in Local /\ toServer' = Append(toServer, Sent(r))
    <2>1. CASE r.cmd \in Optimistic /\ Changed(local, r) # local /\ Perform(r)
      BY <1>0, <2>1, ChangedType DEF Perform
    <2>2. CASE r.cmd \in OnReply /\ toServer' = Append(toServer, Sent(r)) /\ UNCHANGED local
      BY <1>0, <2>2
    <2> QED BY <2>1, <2>2 DEF Click
  <1>4. r.cmd = "togglePinGroup" => r.group \notin toggling
    <2> SUFFICES ASSUME r.cmd = "togglePinGroup", r.group \in toggling PROVE FALSE
      OBVIOUS
    <2>1. Changed(local, r) = local
      BY DEF Changed, Pinned
    <2> QED BY <2>1 DEF Click, OnReply
  <1>5. /\ toServer' \in Seq(RequestMail)
        /\ \A g : /\ Awaits(toServer', g) <=>
                        Awaits(toServer, g) \/ (r.cmd = "togglePinGroup" /\ r.group = g)
                  /\ Once(toServer, g)
                     /\ ~(Awaits(toServer, g) /\ r.cmd = "togglePinGroup" /\ r.group = g)
                        => Once(toServer', g)
    BY <1>0, <1>3, SentMail, AppendAwaits, AppendFacts
  <1>6. SyncTypeOK'
    <2>1. toggling' \subseteq GroupId
      BY <1>0, <1>2
    <2>2. clicks' \in 0..plan.limit
      BY <1>0, <1>2
    <2> QED BY <1>1, <1>2, <1>3, <1>5, <2>1, <2>2 DEF SyncInv, SyncTypeOK
  <1>7. IdsFit'
    BY <1>2 DEF SyncInv, IdsFit
  <1>8. ASSUME NEW g \in GroupId PROVE OneToggle(g)' /\ Marked(g)'
    <2>1. CASE r.cmd = "togglePinGroup" /\ r.group = g
      <3>1. g \notin toggling /\ ~Awaited(g)
        BY <1>4, <2>1 DEF SyncInv, Marked
      <3>2. g \in toggling'
        BY <1>2, <2>1
      <3> QED BY <1>2, <1>5, <2>1, <3>1, <3>2 DEF SyncInv, OneToggle, Marked, Awaited
    <2>2. CASE ~(r.cmd = "togglePinGroup" /\ r.group = g)
      <3>1. g \in toggling' <=> g \in toggling
        BY <1>2, <2>2
      <3> QED BY <1>2, <1>5, <2>2, <3>1 DEF SyncInv, OneToggle, Marked, Awaited
    <2> QED BY <2>1, <2>2
  <1> QED BY <1>1, <1>2, <1>6, <1>7, <1>8 DEF SyncInv

----------------------------------------------------------------------------
(* The invariant *)

(* Two registrations leave the types, and nothing is under way. *)
LEMMA InitSync == SyncInit => SyncInv
  <1> SUFFICES ASSUME SyncInit PROVE SyncInv
    OBVIOUS
  <1>1. {1, 2} \subseteq UserId /\ {1, 2} \subseteq GroupId
        /\ {1, 2} \subseteq TaskId /\ {1, 2} \subseteq MessageId
    <2>1. /\ MaxUser # 0 /\ MaxUser # 1 /\ MaxGroup # 0 /\ MaxGroup # 1
          /\ MaxTask # 0 /\ MaxTask # 1 /\ MaxMessage # 0 /\ MaxMessage # 1
      BY ClientSyncAssumption
    <2> QED BY <2>1, BoundsAssumption DEF UserId, GroupId, TaskId, MessageId
  <1>2. users \subseteq UserRow
    <2> DEFINE names == CHOOSE f \in [{1, 2} -> Names] : f[1] # f[2]
    <2>1. \E f \in [{1, 2} -> Names] : f[1] # f[2]
      <3>1. PICK n \in Names, o \in Names : n # o
        BY ClientSyncAssumption
      <3>2. [x \in {1, 2} |-> IF x = 1 THEN n ELSE o] \in [{1, 2} -> Names]
        OBVIOUS
      <3>3. /\ [x \in {1, 2} |-> IF x = 1 THEN n ELSE o][1] = n
            /\ [x \in {1, 2} |-> IF x = 1 THEN n ELSE o][2] = o
        OBVIOUS
      <3> QED BY <3>1, <3>2, <3>3
    <2>2. names \in [{1, 2} -> Names]
      BY <2>1
    <2>3. users = {[id |-> u, name |-> names[u]] : u \in {1, 2}}
      BY DEF SyncInit
    <2> HIDE DEF names
    <2>4. \A u \in {1, 2} : [id |-> u, name |-> names[u]] \in UserRow
      BY <1>1, <2>2 DEF UserRow
    <2> QED BY <2>3, <2>4
  <1>3. /\ groups \subseteq GroupId /\ members \subseteq GroupId \X UserId
        /\ invites \subseteq GroupId \X UserId /\ pins \subseteq GroupId \X UserId
    <2>1. {<<1, 1>>, <<2, 2>>, <<1, 2>>, <<2, 1>>} \subseteq GroupId \X UserId
      BY <1>1
    <2>2. \A t : /\ t \in members => t \in {<<1, 1>>, <<2, 2>>, <<1, 2>>, <<2, 1>>}
                 /\ t \in invites => t \in {<<1, 1>>, <<2, 2>>, <<1, 2>>, <<2, 1>>}
                 /\ t \in pins => t \in {<<1, 1>>, <<2, 2>>, <<1, 2>>, <<2, 1>>}
      BY DEF SyncInit
    <2>3. groups = {1, 2}
      BY DEF SyncInit
    <2> QED BY <1>1, <2>1, <2>2, <2>3
  <1>4. tasks \subseteq TaskRow /\ messages \subseteq MessageRow
    <2>1. /\ tasks = {[id |-> u, group |-> u, owner |-> u, body |-> FirstBody] : u \in {1, 2}}
          /\ messages = {[id |-> u, group |-> u, user |-> u] : u \in {1, 2}}
      BY DEF SyncInit
    <2>2. \A u \in {1, 2} : u \in UserId /\ u \in GroupId /\ u \in TaskId /\ u \in MessageId
      BY <1>1
    <2>3. \A u \in {1, 2} :
             /\ [id |-> u, group |-> u, owner |-> u, body |-> FirstBody] \in TaskRow
             /\ [id |-> u, group |-> u, user |-> u] \in MessageRow
      BY <2>2, BodyAssumption DEF TaskRow, MessageRow
    <2> QED BY <2>1, <2>3
  <1>5. next \in Sequence
    <2>1. /\ 3 \in 1..MaxUser + 1 /\ 3 \in 1..MaxGroup + 1
          /\ 3 \in 1..MaxTask + 1 /\ 3 \in 1..MaxMessage + 1
      BY <1>1, BoundsAssumption DEF UserId, GroupId, TaskId, MessageId
    <2> QED BY <2>1 DEF SyncInit, Sequence
  <1>6. job \in Job /\ stale \subseteq UserId /\ served \in 0..MaxRoutes
    <2>1. Idle \in Job
      BY BoundsAssumption DEF Idle, Job, Steps
    <2>2. 0 \in 0..MaxRoutes
      BY BoundsAssumption
    <2> QED BY <2>1, <2>2 DEF SyncInit
  <1>7. TypeOK
    BY <1>2, <1>3, <1>4, <1>5, <1>6 DEF TypeOK
  <1>8. FiniteTables
    <2> DEFINE t(u) == [id |-> u, group |-> u, owner |-> u, body |-> FirstBody]
               m(u) == [id |-> u, group |-> u, user |-> u]
    <2>1. tasks = {t(1), t(2)} /\ messages = {m(1), m(2)}
      BY DEF SyncInit
    <2> HIDE DEF t, m
    <2>2. \A x, y : IsFiniteSet({x, y})
      <3> TAKE x, y
      <3>1. IsFiniteSet({x})
        BY FS_Singleton
      <3>2. {x, y} = {x} \cup {y}
        OBVIOUS
      <3> QED BY <3>1, <3>2, FS_AddElement
    <2> QED BY <2>1, <2>2 DEF FiniteTables
  <1>9. local \in Local
    BY <1>7, <1>8, PayloadType DEF SyncInit
  <1>10. plan \in Plans /\ plan.limit \in Nat /\ clicks = 0
    BY ClientSyncAssumption DEF SyncInit
  <1>11. /\ toServer = <<>> /\ answer = <<>> /\ toClient = <<>> /\ aiPayload = <<>>
         /\ toggling = {} /\ orphaned = {} /\ signedIn = TRUE /\ sure = TRUE /\ crossed = FALSE
    BY DEF SyncInit
  <1>12. SyncTypeOK
    <2>1. /\ toServer \in Seq(RequestMail) /\ answer \in Seq(ReplyMail)
          /\ toClient \in Seq(ReplyMail \cup Local) /\ aiPayload \in Seq(Local)
          /\ Len(answer) = 0 /\ Len(aiPayload) = 0
      BY <1>11, EmptySeq
    <2>2. clicks \in 0..plan.limit
      BY <1>10
    <2>3. signedIn \in BOOLEAN /\ sure \in BOOLEAN /\ crossed \in BOOLEAN
      BY <1>11
    <2>4. toggling \subseteq GroupId /\ orphaned \subseteq GroupId
      BY <1>11
    <2>5. Len(answer) <= 1 /\ Len(aiPayload) <= 1
      BY <2>1
    <2> QED BY <1>7, <1>9, <1>10, <2>1, <2>2, <2>3, <2>4, <2>5 DEF SyncTypeOK
  <1>13. DOMAIN toServer = {} /\ DOMAIN answer = {} /\ DOMAIN toClient = {}
    BY <1>11
  <1> QED BY <1>8, <1>11, <1>12, <1>13 DEF SyncInv, IdsFit, OneToggle, Marked, Awaited, Awaits, Once

LEMMA SyncStep == SyncInv /\ [SyncNext]_syncVars => SyncInv'
  <1> SUFFICES ASSUME SyncInv, [SyncNext]_syncVars PROVE SyncInv'
    OBVIOUS
  <1>1. CASE UNCHANGED syncVars
    <2>1. UNCHANGED <<vars, client, wire, aiPayload, sure, plan>>
      BY <1>1 DEF syncVars
    <2>2. TypeOK' /\ FiniteTables'
      BY <2>1, SameTablesStep
    <2>3. SyncTypeOK'
      BY <2>1, <2>2 DEF SyncInv, SyncTypeOK, client, wire
    <2> QED BY <2>1, <2>2, <2>3, SameMail DEF client, wire
  <1>2. CASE SyncNext
    <2>1. UNCHANGED plan
      BY <1>2 DEF SyncNext
    <2>2. CASE AnyClick
      <3>1. PICK r \in GroupClicks \cup MemberClicks \cup TaskClicks \cup NewClicks : Click(r)
        BY <2>2 DEF AnyClick
      <3>2. r \in Call
        BY <3>1, ClicksAreCalls DEF SyncInv, SyncTypeOK
      <3> QED BY <2>1, <3>1, <3>2, ClickStep
    <2> QED BY <1>2, <2>1, <2>2, LoadPushStep, TakeReplyStep, TimeoutStep, LogOutStep,
               LogInStep, ServeStep, FinishStep, SendReplyStep, OthersStep, RefreshStep,
               AiReadStep, AiSendStep DEF SyncNext
  <1> QED BY <1>1, <1>2

THEOREM SyncInvHolds == SyncSafe => []SyncInv
  BY InitSync, SyncStep, PTL DEF SyncSafe

(* The tables, the copy and everything under way keep their types, whatever
   the user and the other users do. *)
THEOREM SyncTypeCorrect == SyncSafe => []SyncTypeOK
  <1>1. SyncInv => SyncTypeOK
    BY DEF SyncInv
  <1> QED BY <1>1, SyncInvHolds, PTL

(* No pin button is dead without a callback that will end it, but those whose
   callback a logout dropped. *)
THEOREM DeadPinsEnd == SyncSafe => []DeadPinsAreAwaited
  <1>1. SyncInv => DeadPinsAreAwaited
    <2> SUFFICES ASSUME SyncInv, NEW g \in toggling \ orphaned
                 PROVE  \E r \in UnderWay : r.cmd = "togglePinGroup" /\ r.group = g
      BY DEF DeadPinsAreAwaited
    <2>1. Awaited(g)
      BY DEF SyncInv, SyncTypeOK, Marked
    <2> DEFINE mails == {x \in Range(toServer) \cup Range(answer)
                                 \cup {y \in Range(toClient) : IsReply(y)} : x.waited}
    <2>2. \E m \in mails : Toggles(m, g)
      <3>1. CASE Awaits(toServer, g)
        BY <3>1 DEF Awaits, Toggles, Range
      <3>2. CASE Awaits(answer, g)
        BY <3>2 DEF Awaits, Toggles, Range
      <3>3. CASE Awaits(toClient, g)
        BY <3>3 DEF Awaits, Toggles, Range
      <3> QED BY <2>1, <3>1, <3>2, <3>3 DEF Awaited
    <2> HIDE DEF mails
    <2>3. PICK m \in mails : Toggles(m, g)
      BY <2>2
    <2>4. m.call \in UnderWay
      BY <2>3 DEF UnderWay, mails
    <2> QED BY <2>3, <2>4 DEF Toggles
  <1> QED BY <1>1, SyncInvHolds, PTL

----------------------------------------------------------------------------
(* Toggles on their way *)

PinPlaces(q, g) ==
  {i \in DOMAIN q : q[i].call.cmd = "togglePinGroup" /\ q[i].call.group = g}

LEMMA PinPlacesFinite ==
  ASSUME NEW q \in Seq(RequestMail), NEW g
  PROVE  IsFiniteSet(PinPlaces(q, g)) /\ Cardinality(PinPlaces(q, g)) \in Nat
  <1>1. 1 \in Int /\ Len(q) \in Int
    BY LenProperties
  <1>2. IsFiniteSet(1..Len(q))
    BY <1>1, FS_Interval
  <1>3. PinPlaces(q, g) \subseteq 1..Len(q)
    BY LenProperties DEF PinPlaces
  <1> QED BY <1>2, <1>3, FS_Subset, FS_CardinalityType

(* The server takes a request, or the client sends one that is no toggle, or
   a callback goes: no toggle is added. *)
LEMMA NoPinAdded ==
  ASSUME NEW q \in Seq(RequestMail), NEW f \in Seq(RequestMail), NEW g,
         \/ f = q
         \/ q # <<>> /\ f = Tail(q)
         \/ \E r \in Call : r.cmd # "togglePinGroup" /\ f = Append(q, Sent(r))
         \/ DOMAIN f = DOMAIN q /\ \A i \in DOMAIN q : f[i].call = q[i].call
  PROVE  Cardinality(PinPlaces(f, g)) <= Cardinality(PinPlaces(q, g))
  <1>0. /\ Cardinality(PinPlaces(q, g)) \in Nat /\ Cardinality(PinPlaces(f, g)) \in Nat
        /\ IsFiniteSet(PinPlaces(q, g)) /\ IsFiniteSet(PinPlaces(f, g))
    BY PinPlacesFinite
  <1>1. CASE f = q
    BY <1>0, <1>1
  <1>2. CASE q # <<>> /\ f = Tail(q)
    <2>1. \A i \in DOMAIN f : i \in Nat /\ i + 1 \in DOMAIN q /\ f[i] = q[i + 1]
      BY <1>2, TailFacts
    <2> DEFINE up == [i \in PinPlaces(f, g) |-> i + 1]
    <2>2. up \in [PinPlaces(f, g) -> PinPlaces(q, g)]
      BY <2>1 DEF PinPlaces
    <2>3. \A i, j \in PinPlaces(f, g) : up[i] = up[j] => i = j
      BY <2>1 DEF PinPlaces
    <2>4. up \in Injection(PinPlaces(f, g), PinPlaces(q, g))
      BY <2>2, <2>3 DEF Injection, IsInjective
    <2> HIDE DEF up
    <2> QED BY <1>0, <2>4, FS_Injection
  <1>3. CASE \E r \in Call : r.cmd # "togglePinGroup" /\ f = Append(q, Sent(r))
    <2>1. PICK r \in Call : r.cmd # "togglePinGroup" /\ f = Append(q, Sent(r))
      BY <1>3
    <2>2. /\ DOMAIN f = DOMAIN q \cup {Len(q) + 1} /\ f[Len(q) + 1] = Sent(r)
          /\ \A i \in DOMAIN q : f[i] = q[i]
      BY <2>1, SentMail, AppendFacts
    <2>3. Sent(r).call = r
      BY DEF Sent
    <2>4. PinPlaces(f, g) = PinPlaces(q, g)
      BY <2>1, <2>2, <2>3 DEF PinPlaces
    <2> QED BY <1>0, <2>4
  <1>4. CASE DOMAIN f = DOMAIN q /\ \A i \in DOMAIN q : f[i].call = q[i].call
    <2>1. PinPlaces(f, g) = PinPlaces(q, g)
      BY <1>4 DEF PinPlaces
    <2> QED BY <1>0, <2>1
  <1> QED BY <1>1, <1>2, <1>3, <1>4

LEMMA PinsStep ==
  SyncInv /\ [SyncNext]_syncVars =>
    [\A g \in GroupId : PinRequests(g)' > PinRequests(g) => clicks' = clicks + 1]_syncVars
  <1> SUFFICES ASSUME SyncInv, SyncNext, NEW g \in GroupId, clicks' # clicks + 1
               PROVE  ~(PinRequests(g)' > PinRequests(g))
    OBVIOUS
  <1>1. toServer \in Seq(RequestMail) /\ toServer' \in Seq(RequestMail)
    BY SyncStep DEF SyncInv, SyncTypeOK
  <1>2. /\ PinRequests(g) = Cardinality(PinPlaces(toServer, g))
        /\ PinRequests(g)' = Cardinality(PinPlaces(toServer', g))
    BY DEF PinRequests, PinPlaces
  <1>3. \/ toServer' = toServer
        \/ toServer # <<>> /\ toServer' = Tail(toServer)
        \/ \E r \in Call : r.cmd # "togglePinGroup" /\ toServer' = Append(toServer, Sent(r))
        \/ /\ DOMAIN toServer' = DOMAIN toServer
           /\ \A i \in DOMAIN toServer : toServer'[i].call = toServer[i].call
    <2>1. CASE AnyClick \/ LogOut
      BY <2>1 DEF AnyClick, Click, LogOut
    <2>2. CASE LoadPush \/ LogIn \/ Finish \/ SendReply \/ OthersWrite \/ Refresh \/ AiRead \/ AiSend
      BY <2>2 DEF LoadPush, LogIn, Finish, SendReply, OthersWrite, Refresh, AiRead, AiSend, wire
    <2>3. CASE TakeReply
      BY <2>3, TakeReplyFacts
    <2>4. CASE Serve
      BY <2>4 DEF Serve
    <2>5. CASE Timeout
      <3>1. CASE toServer' = toServer
        BY <3>1
      <3>2. CASE \E i \in DOMAIN toServer :
                    Waited(toServer, i) /\ toServer' = Forgotten(toServer, i)
        <4>1. PICK i \in DOMAIN toServer :
                    Waited(toServer, i) /\ toServer' = Forgotten(toServer, i)
          BY <3>2
        <4>2. toServer[i] \in RequestMail
          BY <1>1
        <4>3. RequestMail \subseteq RequestMail /\ (toServer[i] \in ReplyMail => FALSE)
          <5>1. DOMAIN toServer[i] = {"call", "waited"}
            BY <4>2 DEF RequestMail
          <5>2. \A m \in ReplyMail : "ok" \in DOMAIN m
            BY DEF ReplyMail
          <5> QED BY <5>1, <5>2
        <4> QED BY <1>1, <4>1, <4>2, <4>3, ForgottenFacts
      <3> QED BY <2>5, <3>1, <3>2 DEF Timeout
    <2> QED BY <2>1, <2>2, <2>3, <2>4, <2>5 DEF SyncNext
  <1>4. Cardinality(PinPlaces(toServer', g)) <= Cardinality(PinPlaces(toServer, g))
    BY <1>1, <1>3, NoPinAdded
  <1>5. /\ Cardinality(PinPlaces(toServer', g)) \in Nat
        /\ Cardinality(PinPlaces(toServer, g)) \in Nat
    BY <1>1, PinPlacesFinite
  <1> QED BY <1>2, <1>4, <1>5

(* No reply ever sends a toggle again: each one is a click of the user. *)
THEOREM PinsAreClicks == SyncSafe => PinsFollowClicks
  BY PinsStep, SyncInvHolds, PTL DEF SyncSafe, PinsFollowClicks
=============================================================================
