-------------------------- MODULE ClientCopyProofs --------------------------
(***************************************************************************)
(* Proofs about ClientCopy for any users, groups, tasks, texts and plans:  *)
(* CopyInv is inductive, and implies OptimismIsRight.  Fits is taken apart *)
(* for each function of ClientState (a reply applied, a click at rest),    *)
(* for each route of the server (what the tables show changes by what its  *)
(* reply will tell), and for a payload, whose copy fits by what it reads.  *)
(* The last part has one step per action of ClientSync.                    *)
(***************************************************************************)
EXTENDS ClientCopy, ClientSyncProofs

(* t holds some of the elements of s, each at most once. *)
Part(s, t) ==
  \E f \in [DOMAIN t -> DOMAIN s] :
     /\ \A i, j \in DOMAIN t : f[i] = f[j] => i = j
     /\ \A i \in DOMAIN t : t[i] = s[f[i]]

Holds(t, x) == \E i \in DOMAIN t : t[i] = x

(* What is removed is the element at one place. *)
LEMMA RemovedPart ==
  ASSUME NEW S, NEW q \in Seq(S), NEW k \in DOMAIN q
  PROVE  /\ Part(q, RemoveAt(q, k))
         /\ \A i \in DOMAIN q : i # k => Holds(RemoveAt(q, k), q[i])
         /\ RemoveAt(q, k) # q
  <1> DEFINE t == RemoveAt(q, k)
             n == Len(q)
             f == [i \in 1..n - 1 |-> IF i < k THEN i ELSE i + 1]
  <1>1. n \in Nat /\ k \in 1..n /\ DOMAIN q = 1..n
    OBVIOUS
  <1>2. DOMAIN t = 1..n - 1 /\ \A i \in 1..n - 1 : t[i] = q[f[i]]
    <2>1. /\ SubSeq(q, 1, k - 1) \in Seq(S) /\ Len(SubSeq(q, 1, k - 1)) = k - 1
          /\ \A i \in 1..k - 1 : SubSeq(q, 1, k - 1)[i] = q[i]
      BY <1>1
    <2>2. /\ SubSeq(q, k + 1, n) \in Seq(S) /\ Len(SubSeq(q, k + 1, n)) = n - k
          /\ \A i \in 1..n - k : SubSeq(q, k + 1, n)[i] = q[k + i]
      BY <1>1
    <2> DEFINE a == SubSeq(q, 1, k - 1)
               b == SubSeq(q, k + 1, n)
    <2>3. t = a \o b
      BY DEF RemoveAt
    <2> HIDE DEF a, b, n
    <2>4. /\ Len(a \o b) = n - 1 /\ a \o b \in Seq(S)
          /\ \A i \in 1..n - 1 : (a \o b)[i] = IF i <= k - 1 THEN a[i] ELSE b[i - (k - 1)]
      <3>1. a \in Seq(S) /\ b \in Seq(S) /\ Len(a) = k - 1 /\ Len(b) = n - k
        BY <2>1, <2>2 DEF a, b
      <3>2. /\ Len(a \o b) = Len(a) + Len(b) /\ a \o b \in Seq(S)
            /\ \A i \in 1..Len(a) + Len(b) :
                  (a \o b)[i] = IF i <= Len(a) THEN a[i] ELSE b[i - Len(a)]
        BY <3>1, ConcatProperties
      <3>3. Len(a) + Len(b) = n - 1
        BY <1>1, <3>1
      <3> QED BY <3>1, <3>2, <3>3
    <2>5. ASSUME NEW i \in 1..n - 1 PROVE (a \o b)[i] = q[f[i]]
      <3>1. CASE i < k
        BY <1>1, <2>1, <2>4, <3>1 DEF a
      <3>2. CASE ~(i < k)
        <4>1. i - (k - 1) \in 1..n - k /\ k + (i - (k - 1)) = i + 1
          BY <1>1, <3>2
        <4>2. (a \o b)[i] = b[i - (k - 1)]
          BY <1>1, <2>4, <3>2
        <4>3. b[i - (k - 1)] = q[i + 1]
          BY <2>2, <4>1 DEF b
        <4> QED BY <3>2, <4>2, <4>3
      <3> QED BY <3>1, <3>2
    <2>6. DOMAIN (a \o b) = 1..n - 1
      BY <2>4
    <2> QED BY <2>3, <2>5, <2>6
  <1> HIDE DEF t, n
  <1>3. f \in [DOMAIN t -> DOMAIN q] /\ \A i, j \in DOMAIN t : f[i] = f[j] => i = j
    BY <1>1, <1>2
  <1>4. Part(q, t)
    BY <1>2, <1>3 DEF Part
  <1>5. ASSUME NEW i \in DOMAIN q, i # k PROVE Holds(t, q[i])
    <2>1. CASE i < k
      <3>1. i \in 1..n - 1 /\ f[i] = i
        BY <1>1, <2>1
      <3> QED BY <1>2, <3>1 DEF Holds
    <2>2. CASE i > k
      <3>1. i - 1 \in 1..n - 1 /\ f[i - 1] = i
        BY <1>1, <2>2
      <3> QED BY <1>2, <3>1 DEF Holds
    <2> QED BY <1>1, <1>5, <2>1, <2>2
  <1>6. t # q
    BY <1>1, <1>2
  <1> QED BY <1>4, <1>5, <1>6 DEF t

(* All of a queue is a part of it. *)
LEMMA WholePart ==
  ASSUME NEW s
  PROVE  Part(s, s) /\ \A i \in DOMAIN s : Holds(s, s[i])
  <1>1. [i \in DOMAIN s |-> i] \in [DOMAIN s -> DOMAIN s]
    OBVIOUS
  <1> QED BY <1>1 DEF Part, Holds

(* The first element of an id, if there is one. *)
LEMMA GroupFound ==
  ASSUME NEW v \in Local, NEW g
  PROVE  /\ GroupAt(v, g) # 0 =>
               GroupAt(v, g) \in DOMAIN v.groups /\ v.groups[GroupAt(v, g)].id = g
         /\ GroupAt(v, g) = 0 => \A i \in DOMAIN v.groups : v.groups[i].id # g
  <1> DEFINE I == {i \in 1..Len(v.groups) : v.groups[i].id = g}
  <1>1. GroupAt(v, g) = IF I # {} THEN Min(I) ELSE 0
    BY DEF GroupAt, SelectInSeq
  <1>2. v.groups \in Seq(LocalGroup)
    BY DEF Local
  <1>3. Len(v.groups) \in Nat /\ DOMAIN v.groups = 1..Len(v.groups)
    BY <1>2
  <1>4. I \in SUBSET (1..Len(v.groups)) /\ I \subseteq Nat
    BY <1>3
  <1>5. I # {} => Min(I) \in I
    BY <1>4, LeastOf
  <1>6. I # {} => Min(I) # 0
    BY <1>5, <1>4
  <1> QED BY <1>1, <1>3, <1>5, <1>6

(* TaskAt finds a row of the task if the copy has one. *)
LEMMA TaskFound ==
  ASSUME NEW v \in Local, NEW g
  PROVE  /\ TaskAt(v, g) # 0 =>
               TaskAt(v, g) \in DOMAIN v.tasks /\ v.tasks[TaskAt(v, g)].id = g
         /\ TaskAt(v, g) = 0 => \A i \in DOMAIN v.tasks : v.tasks[i].id # g
  <1> DEFINE I == {i \in 1..Len(v.tasks) : v.tasks[i].id = g}
  <1>1. TaskAt(v, g) = IF I # {} THEN Min(I) ELSE 0
    BY DEF TaskAt, SelectInSeq
  <1>2. v.tasks \in Seq(TaskRow)
    BY DEF Local
  <1>3. Len(v.tasks) \in Nat /\ DOMAIN v.tasks = 1..Len(v.tasks)
    BY <1>2
  <1>4. I \in SUBSET (1..Len(v.tasks)) /\ I \subseteq Nat
    BY <1>3
  <1>5. I # {} => Min(I) \in I
    BY <1>4, LeastOf
  <1>6. I # {} => Min(I) # 0
    BY <1>5, <1>4
  <1> QED BY <1>1, <1>3, <1>5, <1>6

(* PendingAt finds the invitation if the copy has it. *)
LEMMA PendingFound ==
  ASSUME NEW v \in Local, NEW g
  PROVE  /\ PendingAt(v, g) # 0 =>
               PendingAt(v, g) \in DOMAIN v.pending /\ v.pending[PendingAt(v, g)] = g
         /\ PendingAt(v, g) = 0 => \A i \in DOMAIN v.pending : v.pending[i] # g
  <1> DEFINE I == {i \in 1..Len(v.pending) : v.pending[i] = g}
  <1>1. PendingAt(v, g) = IF I # {} THEN Min(I) ELSE 0
    BY DEF PendingAt, SelectInSeq
  <1>2. v.pending \in Seq(GroupId)
    BY DEF Local
  <1>3. Len(v.pending) \in Nat /\ DOMAIN v.pending = 1..Len(v.pending)
    BY <1>2
  <1>4. I \in SUBSET (1..Len(v.pending)) /\ I \subseteq Nat
    BY <1>3
  <1>5. I # {} => Min(I) \in I
    BY <1>4, LeastOf
  <1>6. I # {} => Min(I) # 0
    BY <1>5, <1>4
  <1> QED BY <1>1, <1>3, <1>5, <1>6

(* What is left of the tasks when a group goes are those of the others. *)
LEMMA OtherGroupsPart ==
  ASSUME NEW s \in Seq(TaskRow), NEW g
  PROVE  /\ Part(s, OfOtherGroups(s, g))
         /\ \A i \in DOMAIN s : s[i].group # g => Holds(OfOtherGroups(s, g), s[i])
  <1> DEFINE left == {i \in DOMAIN s : s[i].group # g}
             place == CHOOSE p \in [1..Cardinality(left) -> left] :
                         \A i, j \in DOMAIN p : i < j => p[i] < p[j]
             c == Cardinality(left)
             t == OfOtherGroups(s, g)
  <1>1. Len(s) \in Nat /\ left \in SUBSET (1..Len(s)) /\ left \subseteq DOMAIN s
    OBVIOUS
  <1>2. \E p \in [1..Cardinality(left) -> left] : \A i, j \in DOMAIN p : i < j => p[i] < p[j]
    BY <1>1, AscendingList DEF Ascending
  <1>3. place \in [1..c -> left] /\ \A i, j \in DOMAIN place : i < j => place[i] < place[j]
    BY <1>2
  <1>4. IsFiniteSet(left) /\ c \in Nat
    <2>1. IsFiniteSet(1..Len(s))
      BY <1>1, FS_Interval
    <2>2. IsFiniteSet(left)
      BY <1>1, <2>1, FS_Subset
    <2> QED BY <2>2, FS_CardinalityType
  <1>5. t = [i \in 1..c |-> s[place[i]]]
    BY <1>3 DEF OfOtherGroups
  <1> HIDE DEF place, t
  <1>6. \A i, j \in 1..c : place[i] = place[j] => i = j
    <2> HIDE DEF c
    <2>1. \A i \in 1..c : place[i] \in Nat
      BY <1>1, <1>3
    <2>2. SUFFICES ASSUME NEW i \in 1..c, NEW j \in 1..c, i # j PROVE place[i] # place[j]
      OBVIOUS
    <2>3. CASE i < j
      BY <1>3, <2>1, <2>3
    <2>4. CASE j < i
      BY <1>3, <2>1, <2>4
    <2> QED BY <1>4, <2>2, <2>3, <2>4
  <1>7. \A k \in left : \E i \in 1..c : place[i] = k
    <2>1. place \in Injection(1..c, left)
      BY <1>3, <1>6 DEF Injection, IsInjective
    <2>2. Cardinality(1..c) = c /\ IsFiniteSet(1..c)
      BY <1>4, FS_Interval
    <2>3. Surjection(1..c, left) # {} /\ place \in Surjection(1..c, left)
      BY <1>4, <2>1, <2>2, FS_Injection, FS_SameCardinalityBij DEF Injection
    <2> QED BY <2>3 DEF Surjection
  <1>8. Part(s, t)
    <2> HIDE DEF c, left
    <2>1. DOMAIN t = 1..c /\ place \in [DOMAIN t -> DOMAIN s]
      BY <1>1, <1>3, <1>5
    <2> QED BY <1>5, <1>6, <2>1 DEF Part
  <1>9. ASSUME NEW k \in DOMAIN s, s[k].group # g PROVE Holds(t, s[k])
    <2>1. k \in left
      BY <1>9
    <2> HIDE DEF c, left
    <2>2. PICK i \in 1..c : place[i] = k
      BY <1>7, <2>1
    <2> QED BY <1>5, <2>2 DEF Holds
  <1> QED BY <1>8, <1>9 DEF t

----------------------------------------------------------------------------
(* What ClientState's functions do to the rows of the copy *)

SameTasks(v, w) == w.tasks = v.tasks
SameGroups(v, w) == w.groups = v.groups
SamePending(v, w) == w.pending = v.pending
SamePins(v, w) == w.pins = v.pins

(* togglePin changes the pin of one group. *)
LEMMA PinnedRows ==
  ASSUME NEW v \in Local, NEW g
  PROVE  LET w == Pinned(v, g) IN
         /\ SameGroups(v, w) /\ SamePending(v, w) /\ SameTasks(v, w)
         /\ \A h \in GroupId : h # g => (h \in w.pins <=> h \in v.pins)
  BY DEF Pinned, Local, SameGroups, SamePending, SameTasks

(* deleteGroup takes the rows of the group, its tasks and its pin, and leaves the
   others. *)
LEMMA WithoutGroupRows ==
  ASSUME NEW v \in Local, NEW g
  PROVE  LET w == WithoutGroup(v, g) IN
         /\ SamePending(v, w)
         /\ Part(v.groups, w.groups) /\ Part(v.tasks, w.tasks)
         /\ \A i \in DOMAIN v.groups : v.groups[i].id # g => Holds(w.groups, v.groups[i])
         /\ \A i \in DOMAIN v.tasks : v.tasks[i].group # g => Holds(w.tasks, v.tasks[i])
         /\ \A h \in GroupId : h # g => (h \in w.pins <=> h \in v.pins)
  <1>1. CASE GroupAt(v, g) = 0
    <2>1. WithoutGroup(v, g) = v
      BY <1>1 DEF WithoutGroup
    <2> QED BY <2>1, WholePart DEF SamePending
  <1>2. CASE GroupAt(v, g) # 0
    <2> DEFINE k == GroupAt(v, g)
               gs == RemoveAt(v.groups, k)
               ts == OfOtherGroups(v.tasks, g)
               w == WithoutGroup(v, g)
    <2>1. k \in DOMAIN v.groups /\ v.groups[k].id = g
      BY <1>2, GroupFound
    <2>2. v.groups \in Seq(LocalGroup) /\ v.tasks \in Seq(TaskRow)
      BY DEF Local
    <2>3. w = [v EXCEPT !.groups = gs, !.tasks = ts, !.pins = v.pins \ {g}]
      BY <1>2 DEF WithoutGroup
    <2>4. /\ Part(v.groups, gs) /\ Part(v.tasks, ts)
          /\ \A i \in DOMAIN v.groups : v.groups[i].id # g => Holds(gs, v.groups[i])
          /\ \A i \in DOMAIN v.tasks : v.tasks[i].group # g => Holds(ts, v.tasks[i])
      BY <2>1, <2>2, RemovedPart, OtherGroupsPart
    <2> HIDE DEF k, gs, ts, w
    <2>5. w.groups = gs /\ w.tasks = ts /\ w.pins = v.pins \ {g} /\ w.pending = v.pending
      BY <2>3 DEF Local
    <2> QED BY <2>4, <2>5 DEF SamePending, w
  <1> QED BY <1>1, <1>2

(* deleteTask takes a row of the task, and leaves the rows of others. *)
LEMMA WithoutTaskRows ==
  ASSUME NEW v \in Local, NEW t
  PROVE  LET w == WithoutTask(v, t) IN
         /\ SameGroups(v, w) /\ SamePending(v, w) /\ SamePins(v, w)
         /\ Part(v.tasks, w.tasks)
         /\ \A i \in DOMAIN v.tasks : v.tasks[i].id # t => Holds(w.tasks, v.tasks[i])
         /\ w = v => \A i \in DOMAIN v.tasks : v.tasks[i].id # t
  <1> USE DEF SameGroups, SamePending, SamePins
  <1>1. CASE TaskAt(v, t) = 0
    <2>1. WithoutTask(v, t) = v
      BY <1>1 DEF WithoutTask
    <2> QED BY <1>1, <2>1, WholePart, TaskFound
  <1>2. CASE TaskAt(v, t) # 0
    <2> DEFINE k == TaskAt(v, t)
               ts == RemoveAt(v.tasks, k)
               w == WithoutTask(v, t)
    <2>1. k \in DOMAIN v.tasks /\ v.tasks[k].id = t
      BY <1>2, TaskFound
    <2>2. v.tasks \in Seq(TaskRow)
      BY DEF Local
    <2>3. w = [v EXCEPT !.tasks = ts]
      BY <1>2 DEF WithoutTask
    <2>4. /\ Part(v.tasks, ts) /\ ts # v.tasks
          /\ \A i \in DOMAIN v.tasks : v.tasks[i].id # t => Holds(ts, v.tasks[i])
      BY <2>1, <2>2, RemovedPart
    <2> HIDE DEF k, ts, w
    <2>5. w.groups = v.groups /\ w.tasks = ts /\ w.pins = v.pins /\ w.pending = v.pending
      BY <2>3 DEF Local
    <2> QED BY <2>4, <2>5 DEF w
  <1> QED BY <1>1, <1>2

(* toggleTaskCompletion and editTask set one column of one task. *)
LEMMA WithColumnRows ==
  ASSUME NEW v \in Local, NEW t, NEW c \in {"done", "text"}, NEW value
  PROVE  LET w == WithColumn(v, t, c, value) IN
         /\ SameGroups(v, w) /\ SamePending(v, w) /\ SamePins(v, w)
         /\ DOMAIN w.tasks = DOMAIN v.tasks
         /\ \A i \in DOMAIN v.tasks :
               /\ w.tasks[i].id = v.tasks[i].id
               /\ w.tasks[i].group = v.tasks[i].group /\ w.tasks[i].owner = v.tasks[i].owner
               /\ (c = "done" /\ v.tasks[i].id = t) \/ w.tasks[i].body.done = v.tasks[i].body.done
               /\ (c = "text" /\ v.tasks[i].id = t) \/ w.tasks[i].body.text = v.tasks[i].body.text
         /\ w = v => \A i \in DOMAIN v.tasks :
               v.tasks[i].id = t /\ (\A j \in DOMAIN v.tasks : v.tasks[j].id = t => i = j)
                  => /\ c = "done" => v.tasks[i].body.done = value
                     /\ c = "text" => v.tasks[i].body.text = value
  <1> USE DEF SameGroups, SamePending, SamePins
  <1>1. CASE TaskAt(v, t) = 0
    <2>1. WithColumn(v, t, c, value) = v
      BY <1>1 DEF WithColumn
    <2> QED BY <1>1, <2>1, TaskFound
  <1>2. CASE TaskAt(v, t) # 0
    <2> DEFINE k == TaskAt(v, t)
               x == [v.tasks[k] EXCEPT !.body[c] = value]
               ts == [v.tasks EXCEPT ![k] = x]
               w == WithColumn(v, t, c, value)
    <2>1. k \in DOMAIN v.tasks /\ v.tasks[k].id = t
      BY <1>2, TaskFound
    <2>2. v.tasks \in Seq(TaskRow)
      BY DEF Local
    <2>3. w = [v EXCEPT !.tasks = ts]
      BY <1>2, <2>1 DEF WithColumn, Local
    <2>4. /\ x.id = t /\ x.group = v.tasks[k].group /\ x.owner = v.tasks[k].owner
          /\ c = "done" => x.body.done = value /\ x.body.text = v.tasks[k].body.text
          /\ c = "text" => x.body.text = value /\ x.body.done = v.tasks[k].body.done
      <3>1. v.tasks[k] \in TaskRow
        BY <2>1, <2>2
      <3>2. v.tasks[k].body \in [done : BOOLEAN, text : Texts]
        BY <3>1, ClientSyncAssumption DEF TaskRow
      <3> QED BY <2>1, <3>1, <3>2 DEF TaskRow
    <2> HIDE DEF k, x, w
    <2>5. /\ DOMAIN ts = DOMAIN v.tasks /\ ts[k] = x
          /\ \A i \in DOMAIN v.tasks : i # k => ts[i] = v.tasks[i]
      BY <2>1
    <2> HIDE DEF ts
    <2>6. w.groups = v.groups /\ w.tasks = ts /\ w.pins = v.pins /\ w.pending = v.pending
      BY <2>3 DEF Local
    <2>7. \A i \in DOMAIN v.tasks :
             /\ ts[i].id = v.tasks[i].id
             /\ ts[i].group = v.tasks[i].group /\ ts[i].owner = v.tasks[i].owner
             /\ (c = "done" /\ v.tasks[i].id = t) \/ ts[i].body.done = v.tasks[i].body.done
             /\ (c = "text" /\ v.tasks[i].id = t) \/ ts[i].body.text = v.tasks[i].body.text
      BY <2>1, <2>4, <2>5
    <2>8. w = v => \A i \in DOMAIN v.tasks :
             v.tasks[i].id = t /\ (\A j \in DOMAIN v.tasks : v.tasks[j].id = t => i = j)
                => /\ c = "done" => v.tasks[i].body.done = value
                   /\ c = "text" => v.tasks[i].body.text = value
      BY <2>1, <2>4, <2>5, <2>6
    <2> QED BY <2>5, <2>6, <2>7, <2>8 DEF w
  <1> QED BY <1>1, <1>2

(* removeMemberFromGroup and cancelInvite take one user off one list of one group. *)
LEMMA WithoutUserRows ==
  ASSUME NEW v \in Local, NEW g, NEW role \in {"members", "invited"}, NEW u
  PROVE  LET w == WithoutUser(v, g, role, u) IN
         /\ SameTasks(v, w) /\ SamePending(v, w) /\ SamePins(v, w)
         /\ DOMAIN w.groups = DOMAIN v.groups
         /\ \A i \in DOMAIN v.groups :
               /\ w.groups[i].id = v.groups[i].id /\ w.groups[i].chat = v.groups[i].chat
               /\ \A x \in UserId : (role = "members" /\ v.groups[i].id = g /\ x = u)
                         \/ (x \in w.groups[i].members <=> x \in v.groups[i].members)
               /\ \A x \in UserId : (role = "invited" /\ v.groups[i].id = g /\ x = u)
                         \/ (x \in w.groups[i].invited <=> x \in v.groups[i].invited)
  <1> USE DEF SameTasks, SamePending, SamePins
  <1>1. CASE GroupAt(v, g) = 0
    <2>1. WithoutUser(v, g, role, u) = v
      BY <1>1 DEF WithoutUser
    <2> QED BY <1>1, <2>1, GroupFound
  <1>2. CASE GroupAt(v, g) # 0
    <2> DEFINE k == GroupAt(v, g)
               x == [v.groups[k] EXCEPT ![role] = @ \ {u}]
               gs == [v.groups EXCEPT ![k] = x]
               w == WithoutUser(v, g, role, u)
    <2>1. k \in DOMAIN v.groups /\ v.groups[k].id = g
      BY <1>2, GroupFound
    <2>2. v.groups \in Seq(LocalGroup)
      BY DEF Local
    <2>3. w = [v EXCEPT !.groups = gs]
      BY <1>2, <2>1 DEF WithoutUser, Local
    <2>4. /\ x.id = g /\ x.chat = v.groups[k].chat
          /\ role = "members" => /\ x.members = v.groups[k].members \ {u}
                                 /\ x.invited = v.groups[k].invited
          /\ role = "invited" => /\ x.invited = v.groups[k].invited \ {u}
                                 /\ x.members = v.groups[k].members
      <3>1. v.groups[k] \in LocalGroup
        BY <2>1, <2>2
      <3> QED BY <2>1, <3>1 DEF LocalGroup
    <2> HIDE DEF k, x, w
    <2>5. /\ DOMAIN gs = DOMAIN v.groups /\ gs[k] = x
          /\ \A i \in DOMAIN v.groups : i # k => gs[i] = v.groups[i]
      BY <2>1
    <2> HIDE DEF gs
    <2>6. w.groups = gs /\ w.tasks = v.tasks /\ w.pins = v.pins /\ w.pending = v.pending
      BY <2>3 DEF Local
    <2>7. \A i \in DOMAIN v.groups :
             /\ gs[i].id = v.groups[i].id /\ gs[i].chat = v.groups[i].chat
             /\ \A y : (role = "members" /\ v.groups[i].id = g /\ y = u)
                       \/ (y \in gs[i].members <=> y \in v.groups[i].members)
             /\ \A y : (role = "invited" /\ v.groups[i].id = g /\ y = u)
                       \/ (y \in gs[i].invited <=> y \in v.groups[i].invited)
      BY <2>1, <2>4, <2>5
    <2> QED BY <2>5, <2>6, <2>7 DEF w
  <1> QED BY <1>1, <1>2

(* A copy that stays as it is does not list the invitation. *)
LEMMA NobodyInvited ==
  ASSUME NEW v \in Local, NEW g, NEW u, WithoutUser(v, g, "invited", u) = v,
         NEW i \in DOMAIN v.groups, v.groups[i].id = g,
         \A j \in DOMAIN v.groups : v.groups[j].id = g => i = j
  PROVE  u \notin v.groups[i].invited
  <1> DEFINE k == GroupAt(v, g)
             x == [v.groups[k] EXCEPT !.invited = @ \ {u}]
             gs == [v.groups EXCEPT ![k] = x]
  <1>1. k # 0 /\ k \in DOMAIN v.groups /\ k = i
    BY GroupFound
  <1>2. v.groups \in Seq(LocalGroup) /\ v.groups[i] \in LocalGroup
    BY DEF Local
  <1>3. v = [v EXCEPT !.groups = gs]
    BY <1>1 DEF WithoutUser, Local
  <1>4. x.invited = v.groups[i].invited \ {u}
    BY <1>1, <1>2 DEF LocalGroup
  <1> HIDE DEF k, x
  <1>5. gs[i] = x
    BY <1>1
  <1> HIDE DEF gs
  <1>6. v.groups = gs
    BY <1>3 DEF Local
  <1> QED BY <1>4, <1>5, <1>6

(* denyInvite takes one of the user's invitations. *)
LEMMA WithoutPendingRows ==
  ASSUME NEW v \in Local, NEW g
  PROVE  LET w == WithoutPending(v, g) IN
         /\ SameGroups(v, w) /\ SameTasks(v, w) /\ SamePins(v, w)
         /\ Part(v.pending, w.pending)
         /\ \A i \in DOMAIN v.pending : v.pending[i] # g => Holds(w.pending, v.pending[i])
         /\ PendingAt(v, g) # 0 => \E i \in DOMAIN v.pending : v.pending[i] = g
         /\ PendingAt(v, g) = 0 => w = v
  <1> USE DEF SameGroups, SameTasks, SamePins
  <1>1. CASE PendingAt(v, g) = 0
    <2>1. WithoutPending(v, g) = v
      BY <1>1 DEF WithoutPending
    <2> QED BY <1>1, <2>1, WholePart
  <1>2. CASE PendingAt(v, g) # 0
    <2> DEFINE k == PendingAt(v, g)
               ps == RemoveAt(v.pending, k)
               w == WithoutPending(v, g)
    <2>1. k \in DOMAIN v.pending /\ v.pending[k] = g
      BY <1>2, PendingFound
    <2>2. v.pending \in Seq(GroupId)
      BY DEF Local
    <2>3. w = [v EXCEPT !.pending = ps]
      BY <1>2 DEF WithoutPending
    <2>4. /\ Part(v.pending, ps)
          /\ \A i \in DOMAIN v.pending : v.pending[i] # g => Holds(ps, v.pending[i])
      BY <2>1, <2>2, RemovedPart
    <2> HIDE DEF k, ps, w
    <2>5. w.groups = v.groups /\ w.tasks = v.tasks /\ w.pins = v.pins /\ w.pending = ps
      BY <2>3 DEF Local
    <2>6. PendingAt(v, g) # 0
      BY <1>2
    <2> QED BY <2>1, <2>4, <2>5, <2>6 DEF w
  <1> QED BY <1>1, <1>2

(* A new row of groups comes last. *)
NewRow(v, w, g) ==
  /\ DOMAIN w.groups = DOMAIN v.groups \cup {Len(v.groups) + 1}
  /\ Len(v.groups) + 1 \notin DOMAIN v.groups
  /\ \A i \in DOMAIN v.groups : w.groups[i] = v.groups[i]
  /\ w.groups[Len(v.groups) + 1] = NewLocalGroup(g)

(* createGroup adds a row with this user alone in it. *)
LEMMA NewGroupRows ==
  ASSUME NEW v \in Local, NEW g \in GroupId
  PROVE  LET w == [v EXCEPT !.groups = Append(@, NewLocalGroup(g))] IN
         NewRow(v, w, g) /\ SamePending(v, w) /\ SameTasks(v, w) /\ SamePins(v, w)
  <1> DEFINE w == [v EXCEPT !.groups = Append(@, NewLocalGroup(g))]
             gs == Append(v.groups, NewLocalGroup(g))
  <1>1. v.groups \in Seq(LocalGroup) /\ NewLocalGroup(g) \in LocalGroup
    <2>1. Me \in UserId
      BY MeIsUser
    <2> QED BY <2>1 DEF Local, LocalGroup, NewLocalGroup
  <1>2. /\ gs[Len(v.groups) + 1] = NewLocalGroup(g)
        /\ DOMAIN gs = DOMAIN v.groups \cup {Len(v.groups) + 1}
        /\ Len(v.groups) + 1 \notin DOMAIN v.groups
        /\ \A i \in DOMAIN v.groups : gs[i] = v.groups[i]
    BY <1>1, AppendFacts
  <1> HIDE DEF gs
  <1>3. w.groups = gs /\ w.tasks = v.tasks /\ w.pins = v.pins /\ w.pending = v.pending
    BY DEF Local, gs
  <1> QED BY <1>2, <1>3 DEF NewRow, SamePending, SameTasks, SamePins

(* acceptInvite turns an invitation into such a row. *)
LEMMA AcceptedRows ==
  ASSUME NEW v \in Local, NEW g \in GroupId, Accepted(v, g) # v
  PROVE  LET w == Accepted(v, g) IN
         /\ NewRow(v, w, g) /\ SameTasks(v, w) /\ SamePins(v, w)
         /\ Part(v.pending, w.pending)
         /\ \A i \in DOMAIN v.pending : v.pending[i] # g => Holds(w.pending, v.pending[i])
         /\ \E i \in DOMAIN v.pending : v.pending[i] = g
  <1> DEFINE p == WithoutPending(v, g)
             w == Accepted(v, g)
  <1>1. PendingAt(v, g) # 0 /\ w = [p EXCEPT !.groups = Append(@, NewLocalGroup(g))]
    BY DEF Accepted
  <1>2. p \in Local
    BY AcceptedType
  <1>3. /\ SameGroups(v, p) /\ SameTasks(v, p) /\ SamePins(v, p)
        /\ Part(v.pending, p.pending)
        /\ \A i \in DOMAIN v.pending : v.pending[i] # g => Holds(p.pending, v.pending[i])
        /\ \E i \in DOMAIN v.pending : v.pending[i] = g
    BY <1>1, WithoutPendingRows
  <1> HIDE DEF p
  <1>4. NewRow(p, w, g) /\ SamePending(p, w) /\ SameTasks(p, w) /\ SamePins(p, w)
    BY <1>1, <1>2, NewGroupRows
  <1> QED BY <1>3, <1>4 DEF NewRow, SameGroups, SamePending, SameTasks, SamePins

(* sendMessage adds one message to the chat of the group. *)
LEMMA WithMessageRows ==
  ASSUME NEW v \in Local, NEW g
  PROVE  LET w == WithMessage(v, g) IN
         /\ SameTasks(v, w) /\ SamePending(v, w) /\ SamePins(v, w)
         /\ DOMAIN w.groups = DOMAIN v.groups
         /\ \A i \in DOMAIN v.groups :
               /\ w.groups[i].id = v.groups[i].id
               /\ w.groups[i].members = v.groups[i].members
               /\ w.groups[i].invited = v.groups[i].invited
               /\ v.groups[i].id # g => w.groups[i].chat = v.groups[i].chat
               /\ v.groups[i].id = g /\ (\A j \in DOMAIN v.groups : v.groups[j].id = g => i = j)
                     => w.groups[i].chat = v.groups[i].chat + 1
  <1> USE DEF SameTasks, SamePending, SamePins
  <1>1. CASE GroupAt(v, g) = 0
    <2>1. WithMessage(v, g) = v
      BY <1>1 DEF WithMessage
    <2> QED BY <1>1, <2>1, GroupFound
  <1>2. CASE GroupAt(v, g) # 0
    <2> DEFINE k == GroupAt(v, g)
               x == [v.groups[k] EXCEPT !.chat = @ + 1]
               gs == [v.groups EXCEPT ![k] = x]
               w == WithMessage(v, g)
    <2>1. k \in DOMAIN v.groups /\ v.groups[k].id = g
      BY <1>2, GroupFound
    <2>2. v.groups \in Seq(LocalGroup)
      BY DEF Local
    <2>3. w = [v EXCEPT !.groups = gs]
      BY <1>2, <2>1 DEF WithMessage, Local
    <2>4. /\ x.id = g /\ x.chat = v.groups[k].chat + 1
          /\ x.members = v.groups[k].members /\ x.invited = v.groups[k].invited
      <3>1. v.groups[k] \in LocalGroup
        BY <2>1, <2>2
      <3> QED BY <2>1, <3>1 DEF LocalGroup
    <2> HIDE DEF k, x, w
    <2>5. /\ DOMAIN gs = DOMAIN v.groups /\ gs[k] = x
          /\ \A i \in DOMAIN v.groups : i # k => gs[i] = v.groups[i]
      BY <2>1
    <2> HIDE DEF gs
    <2>6. w.groups = gs /\ w.tasks = v.tasks /\ w.pins = v.pins /\ w.pending = v.pending
      BY <2>3 DEF Local
    <2>7. \A i \in DOMAIN v.groups :
             /\ gs[i].id = v.groups[i].id
             /\ gs[i].members = v.groups[i].members
             /\ gs[i].invited = v.groups[i].invited
             /\ v.groups[i].id # g => gs[i].chat = v.groups[i].chat
             /\ v.groups[i].id = g /\ (\A j \in DOMAIN v.groups : v.groups[j].id = g => i = j)
                   => gs[i].chat = v.groups[i].chat + 1
      BY <2>1, <2>4, <2>5
    <2> QED BY <2>5, <2>6, <2>7 DEF w
  <1> QED BY <1>1, <1>2

(* inviteMemberToGroup lists one user as invited to one group. *)
LEMMA WithInvitedRows ==
  ASSUME NEW v \in Local, NEW g, NEW u
  PROVE  LET w == WithInvited(v, g, u) IN
         /\ SameTasks(v, w) /\ SamePending(v, w) /\ SamePins(v, w)
         /\ DOMAIN w.groups = DOMAIN v.groups
         /\ \A i \in DOMAIN v.groups :
               /\ w.groups[i].id = v.groups[i].id /\ w.groups[i].chat = v.groups[i].chat
               /\ w.groups[i].members = v.groups[i].members
               /\ \A x : (v.groups[i].id = g /\ x = u)
                         \/ (x \in w.groups[i].invited <=> x \in v.groups[i].invited)
               /\ v.groups[i].id = g /\ (\A j \in DOMAIN v.groups : v.groups[j].id = g => i = j)
                     => u \in v.groups[i].members \/ u \in w.groups[i].invited
  <1> USE DEF SameTasks, SamePending, SamePins
  <1> DEFINE k == GroupAt(v, g)
  <1>1. CASE k = 0
    <2>1. WithInvited(v, g, u) = v
      BY <1>1 DEF WithInvited
    <2> QED BY <1>1, <2>1, GroupFound
  <1>2. CASE k # 0 /\ u \in v.groups[k].members
    <2>1. WithInvited(v, g, u) = v
      BY <1>2 DEF WithInvited
    <2>2. k \in DOMAIN v.groups /\ v.groups[k].id = g
      BY <1>2, GroupFound
    <2> QED BY <1>2, <2>1, <2>2
  <1>3. CASE k # 0 /\ u \notin v.groups[k].members
    <2> DEFINE x == [v.groups[k] EXCEPT !.invited = @ \cup {u}]
               gs == [v.groups EXCEPT ![k] = x]
               w == WithInvited(v, g, u)
    <2>1. k \in DOMAIN v.groups /\ v.groups[k].id = g
      BY <1>3, GroupFound
    <2>2. v.groups \in Seq(LocalGroup)
      BY DEF Local
    <2>3. w = [v EXCEPT !.groups = gs]
      BY <1>3, <2>1 DEF WithInvited, Local
    <2>4. /\ x.id = g /\ x.chat = v.groups[k].chat
          /\ x.members = v.groups[k].members /\ x.invited = v.groups[k].invited \cup {u}
      <3>1. v.groups[k] \in LocalGroup
        BY <2>1, <2>2
      <3> QED BY <2>1, <3>1 DEF LocalGroup
    <2> HIDE DEF k, x, w
    <2>5. /\ DOMAIN gs = DOMAIN v.groups /\ gs[k] = x
          /\ \A i \in DOMAIN v.groups : i # k => gs[i] = v.groups[i]
      BY <2>1
    <2> HIDE DEF gs
    <2>6. w.groups = gs /\ w.tasks = v.tasks /\ w.pins = v.pins /\ w.pending = v.pending
      BY <2>3 DEF Local
    <2>7. \A i \in DOMAIN v.groups :
             /\ gs[i].id = v.groups[i].id /\ gs[i].chat = v.groups[i].chat
             /\ gs[i].members = v.groups[i].members
             /\ \A y : (v.groups[i].id = g /\ y = u)
                       \/ (y \in gs[i].invited <=> y \in v.groups[i].invited)
             /\ v.groups[i].id = g /\ (\A j \in DOMAIN v.groups : v.groups[j].id = g => i = j)
                   => u \in v.groups[i].members \/ u \in gs[i].invited
      BY <2>1, <2>4, <2>5
    <2> QED BY <2>5, <2>6, <2>7 DEF w
  <1> QED BY <1>1, <1>2, <1>3

(* createTask adds one row at the end. *)
LEMMA NewTaskRows ==
  ASSUME NEW v \in Local, NEW x \in TaskRow
  PROVE  LET w == [v EXCEPT !.tasks = Append(@, x)] IN
         /\ SameGroups(v, w) /\ SamePending(v, w) /\ SamePins(v, w)
         /\ DOMAIN w.tasks = DOMAIN v.tasks \cup {Len(v.tasks) + 1}
         /\ Len(v.tasks) + 1 \notin DOMAIN v.tasks
         /\ \A i \in DOMAIN v.tasks : w.tasks[i] = v.tasks[i]
         /\ w.tasks[Len(v.tasks) + 1] = x
  <1> DEFINE w == [v EXCEPT !.tasks = Append(@, x)]
             ts == Append(v.tasks, x)
  <1>1. v.tasks \in Seq(TaskRow)
    BY DEF Local
  <1>2. /\ ts[Len(v.tasks) + 1] = x
        /\ DOMAIN ts = DOMAIN v.tasks \cup {Len(v.tasks) + 1}
        /\ Len(v.tasks) + 1 \notin DOMAIN v.tasks
        /\ \A i \in DOMAIN v.tasks : ts[i] = v.tasks[i]
    BY <1>1, AppendFacts
  <1> HIDE DEF ts
  <1>3. w.groups = v.groups /\ w.tasks = ts /\ w.pins = v.pins /\ w.pending = v.pending
    BY DEF Local, ts
  <1> QED BY <1>2, <1>3 DEF SameGroups, SamePending, SamePins

----------------------------------------------------------------------------
(* How a copy fits, part by part *)

GroupSide(v, R, W, s) ==
  /\ GroupsFit(v, R, W, s) /\ MembersFit(v, R, W, s)
  /\ InvitedFit(v, R, W, s) /\ ChatFits(v, R, W, s)

TaskSide(v, R, W, s) ==
  /\ TasksFit(v, R, W, s) /\ MadeTasksFit(v, R, W, s)
  /\ DoneFits(v, R, W, s) /\ TextFits(v, R, W, s)

(* The parts of Fits by what they read: groups, groups just made, invitations, pins,
   tasks. *)
LEMMA Sides ==
  ASSUME NEW v, NEW R, NEW W, NEW s
  PROVE  Fits(v, R, W, s) <=>
           /\ GroupSide(v, R, W, s) /\ MadeFits(v, R, W, s)
           /\ PendingFits(v, R, W, s) /\ PinsFit(v, R, W, s) /\ TaskSide(v, R, W, s)
  BY Zenon DEF Fits, GroupSide, TaskSide

(* One more request under way excuses more. *)
LEMMA FitsMore ==
  ASSUME NEW v, NEW R, NEW W, NEW s, NEW X, W \subseteq X, Fits(v, R, W, s)
  PROVE  Fits(v, R, X, s)
  <1>1. /\ \A cmds, g : AsksOf(W, cmds, g) => AsksOf(X, cmds, g)
        /\ \A cmds, g, u : AsksAbout(W, cmds, g, u) => AsksAbout(X, cmds, g, u)
        /\ \A cmd, t : AsksTask(W, cmd, t) => AsksTask(X, cmd, t)
    BY DEF AsksOf, AsksAbout, AsksTask
  <1>2. GroupsFit(v, R, X, s) /\ MadeFits(v, R, X, s)
    BY <1>1 DEF Fits, GroupsFit, MadeFits
  <1>3. MembersFit(v, R, X, s) /\ PendingFits(v, R, X, s) /\ PinsFit(v, R, X, s)
    BY <1>1 DEF Fits, MembersFit, PendingFits, PinsFit
  <1>4. InvitedFit(v, R, X, s)
    BY <1>1 DEF Fits, InvitedFit
  <1>5. ChatFits(v, R, X, s)
    BY <1>1 DEF Fits, ChatFits
  <1>6. TasksFit(v, R, X, s)
    BY <1>1 DEF Fits, TasksFit
  <1>7. MadeTasksFit(v, R, X, s)
    BY <1>1 DEF Fits, MadeTasksFit
  <1>8. DoneFits(v, R, X, s)
    BY <1>1 DEF Fits, DoneFits
  <1>9. TextFits(v, R, X, s)
    BY <1>1 DEF Fits, TextFits
  <1> QED BY <1>2, <1>3, <1>4, <1>5, <1>6, <1>7, <1>8, <1>9 DEF Fits

(* What a function of ClientState leaves alone fits as before. *)
LEMMA SameParts ==
  ASSUME NEW v, NEW w, NEW R, NEW W, NEW s
  PROVE  /\ SameGroups(v, w) /\ GroupSide(v, R, W, s) => GroupSide(w, R, W, s)
         /\ SamePending(v, w) /\ PendingFits(v, R, W, s) => PendingFits(w, R, W, s)
         /\ SamePins(v, w) /\ PinsFit(v, R, W, s) => PinsFit(w, R, W, s)
         /\ SameTasks(v, w) /\ TaskSide(v, R, W, s) => TaskSide(w, R, W, s)
  <1>1. SameGroups(v, w) /\ GroupSide(v, R, W, s) => GroupSide(w, R, W, s)
    BY DEF SameGroups, GroupSide, GroupsFit, MembersFit, InvitedFit, InvitationFits, ChatFits
  <1>2. SamePending(v, w) /\ PendingFits(v, R, W, s) => PendingFits(w, R, W, s)
    BY DEF SamePending, PendingFits
  <1>3. SamePins(v, w) /\ PinsFit(v, R, W, s) => PinsFit(w, R, W, s)
    BY DEF SamePins, PinsFit
  <1>4. SameTasks(v, w) /\ TaskSide(v, R, W, s) => TaskSide(w, R, W, s)
    BY DEF SameTasks, TaskSide, TasksFit, MadeTasksFit, DoneFits, TextFits, ColumnFits
  <1> QED BY <1>1, <1>2, <1>3, <1>4

(* What no copy has yet stays out of one that gets no new ids. *)
LEMMA MadeStays ==
  ASSUME NEW v, NEW w, NEW R, NEW W, NEW s, MadeFits(v, R, W, s),
         \A i \in DOMAIN w.groups :
            \/ \E j \in DOMAIN v.groups : w.groups[i].id = v.groups[j].id
            \/ \E j \in DOMAIN v.pending : w.groups[i].id = v.pending[j],
         \A i \in DOMAIN w.pending : \E j \in DOMAIN v.pending : w.pending[i] = v.pending[j]
  PROVE  MadeFits(w, R, W, s)
  BY DEF MadeFits

(* Rows of groups that are gone are rows of a group somebody asked to delete. *)
LEMMA GroupsLeft ==
  ASSUME NEW v, NEW w, NEW R, NEW W, NEW s, NEW g, GroupSide(v, R, W, s),
         Part(v.groups, w.groups), AsksOf(W, {"deleteGroup"}, g),
         \A i \in DOMAIN v.groups : v.groups[i].id # g => Holds(w.groups, v.groups[i])
  PROVE  GroupSide(w, R, W, s)
  <1>1. PICK f \in [DOMAIN w.groups -> DOMAIN v.groups] :
           /\ \A i, j \in DOMAIN w.groups : f[i] = f[j] => i = j
           /\ \A i \in DOMAIN w.groups : w.groups[i] = v.groups[f[i]]
    BY DEF Part
  <1>2. \A i \in DOMAIN w.groups : f[i] \in DOMAIN v.groups
    BY <1>1
  <1>3. GroupsFit(w, R, W, s)
    <2>1. \A i \in DOMAIN w.groups : w.groups[i].id \in s.mine \cup s.pending \cup s.joining
      BY <1>1, <1>2 DEF GroupSide, GroupsFit
    <2>2. ASSUME NEW i \in DOMAIN w.groups
          PROVE  \/ AsksOf(W, {"acceptInvite"}, w.groups[i].id)
                 \/ /\ w.groups[i].id \in s.mine
                    /\ \A j \in DOMAIN w.groups : w.groups[j].id = w.groups[i].id => i = j
      BY <1>1, <1>2 DEF GroupSide, GroupsFit
    <2>3. ASSUME NEW h \in s.mine
          PROVE  \/ AsksOf(W, {"deleteGroup"}, h)
                 \/ \E i \in DOMAIN w.groups : w.groups[i].id = h
                 \/ Made(R, h)
      <3>1. CASE \E i \in DOMAIN v.groups : v.groups[i].id = h /\ h # g
        BY <3>1 DEF Holds
      <3>2. CASE ~\E i \in DOMAIN v.groups : v.groups[i].id = h /\ h # g
        BY <3>2 DEF GroupSide, GroupsFit
      <3> QED BY <3>1, <3>2
    <2> QED BY <2>1, <2>2, <2>3 DEF GroupsFit
  <1>4. MembersFit(w, R, W, s)
    BY <1>1, <1>2 DEF GroupSide, MembersFit
  <1>5. InvitedFit(w, R, W, s)
    <2> SUFFICES ASSUME NEW h \in s.mine, NEW u \in UserId,
                        ~AsksOf(W, {"acceptInvite"}, h),
                        ~AsksAbout(W, {"removeMemberFromGroup", "cancelInvite",
                                       "inviteMemberToGroup"}, h, u),
                        <<h, u>> \notin s.members
                 PROVE  InvitationFits(w, R, s, h, u)
      BY DEF InvitedFit
    <2>1. InvitationFits(v, R, s, h, u)
      BY DEF GroupSide, InvitedFit
    <2> QED BY <1>1, <1>2, <2>1 DEF InvitationFits
  <1>6. ChatFits(w, R, W, s)
    BY <1>1, <1>2 DEF GroupSide, ChatFits
  <1> QED BY <1>3, <1>4, <1>5, <1>6 DEF GroupSide

(* So are rows of tasks. *)
LEMMA TasksLeft ==
  ASSUME NEW v, NEW w, NEW R, NEW W, NEW s, TaskSide(v, R, W, s),
         Part(v.tasks, w.tasks),
         \A i \in DOMAIN v.tasks :
            \/ Holds(w.tasks, v.tasks[i])
            \/ AsksTask(W, "deleteTask", v.tasks[i].id)
            \/ AsksOf(W, {"deleteGroup"}, v.tasks[i].group)
  PROVE  TaskSide(w, R, W, s)
  <1>1. PICK f \in [DOMAIN w.tasks -> DOMAIN v.tasks] :
           /\ \A i, j \in DOMAIN w.tasks : f[i] = f[j] => i = j
           /\ \A i \in DOMAIN w.tasks : w.tasks[i] = v.tasks[f[i]]
    BY DEF Part
  <1>2. \A i \in DOMAIN w.tasks : f[i] \in DOMAIN v.tasks
    BY <1>1
  <1>3. TasksFit(w, R, W, s)
    <2>1. \A i, j \in DOMAIN w.tasks : w.tasks[i].id = w.tasks[j].id => i = j
      BY <1>1, <1>2 DEF TaskSide, TasksFit
    <2>2. \A i \in DOMAIN w.tasks :
             /\ w.tasks[i].id < s.nextTask
             /\ \A x \in s.tasks : x.id = w.tasks[i].id =>
                   x.group = w.tasks[i].group /\ x.owner = w.tasks[i].owner
             /\ \/ \E x \in s.tasks : x.id = w.tasks[i].id
                \/ Dropped(R, w.tasks[i].id)
                \/ AsksTask(W, "deleteTask", w.tasks[i].id)
      BY <1>1, <1>2 DEF TaskSide, TasksFit
    <2>3. ASSUME NEW x \in s.tasks
          PROVE  \/ AsksTask(W, "deleteTask", x.id)
                 \/ AsksOf(W, {"deleteGroup"}, x.group)
                 \/ \E i \in DOMAIN w.tasks : w.tasks[i].id = x.id
                 \/ MadeTask(R, x.id)
      <3>1. CASE \E i \in DOMAIN v.tasks : v.tasks[i].id = x.id
        <4>1. PICK i \in DOMAIN v.tasks : v.tasks[i].id = x.id
          BY <3>1
        <4>2. v.tasks[i].group = x.group
          BY <4>1 DEF TaskSide, TasksFit
        <4> QED BY <4>1, <4>2 DEF Holds
      <3>2. CASE ~\E i \in DOMAIN v.tasks : v.tasks[i].id = x.id
        BY <3>2 DEF TaskSide, TasksFit
      <3> QED BY <3>1, <3>2
    <2> QED BY <2>1, <2>2, <2>3 DEF TaskSide, TasksFit
  <1>4. MadeTasksFit(w, R, W, s)
    BY <1>1, <1>2 DEF TaskSide, MadeTasksFit
  <1>5. DoneFits(w, R, W, s)
    BY <1>1, <1>2 DEF TaskSide, DoneFits, ColumnFits
  <1>6. TextFits(w, R, W, s)
    BY <1>1, <1>2 DEF TaskSide, TextFits, ColumnFits
  <1> QED BY <1>3, <1>4, <1>5, <1>6 DEF TaskSide

(* What is in a part is in the whole. *)
LEMMA IdsLeft ==
  ASSUME NEW s, NEW t, Part(s, t)
  PROVE  \A i \in DOMAIN t : \E j \in DOMAIN s : t[i] = s[j]
  BY DEF Part

(* An invitation taken or declined is asked about. *)
LEMMA PendingLeft ==
  ASSUME NEW v, NEW w, NEW R, NEW W, NEW s, NEW g, PendingFits(v, R, W, s),
         Part(v.pending, w.pending), AsksOf(W, {"acceptInvite", "denyInvite"}, g),
         \A i \in DOMAIN v.pending : v.pending[i] # g => Holds(w.pending, v.pending[i])
  PROVE  PendingFits(w, R, W, s)
  <1>1. PICK f \in [DOMAIN w.pending -> DOMAIN v.pending] :
           /\ \A i, j \in DOMAIN w.pending : f[i] = f[j] => i = j
           /\ \A i \in DOMAIN w.pending : w.pending[i] = v.pending[f[i]]
    BY DEF Part
  <1>2. \A i \in DOMAIN w.pending : f[i] \in DOMAIN v.pending
    BY <1>1
  <1> QED BY <1>1, <1>2 DEF PendingFits, Holds

----------------------------------------------------------------------------
(* A click, or the reply that repeats it, and the request it sends *)

LEMMA AskedBy ==
  ASSUME NEW W, NEW r \in W
  PROVE  /\ \A cmds : r.cmd \in cmds => AsksOf(W, cmds, r.group)
         /\ \A cmds : r.cmd \in cmds => AsksAbout(W, cmds, r.group, r.user)
         /\ AsksTask(W, r.cmd, r.task)
  BY DEF AsksOf, AsksAbout, AsksTask

(* A pin toggled once more fits while a request about it is unanswered. *)
LEMMA ToggledPinFits ==
  ASSUME NEW v \in Local, NEW R, NEW W, NEW s, NEW g, Fits(v, R, W, s),
         AsksOf(W, {"togglePinGroup", "deleteGroup"}, g)
  PROVE  Fits(Pinned(v, g), R, W, s)
  <1> DEFINE w == Pinned(v, g)
  <1>1. /\ SameGroups(v, w) /\ SamePending(v, w) /\ SameTasks(v, w)
        /\ \A h \in GroupId : h # g => (h \in w.pins <=> h \in v.pins)
    BY PinnedRows
  <1> HIDE DEF w
  <1>2. PinsFit(w, R, W, s)
    BY <1>1, Sides DEF PinsFit
  <1>3. MadeFits(w, R, W, s)
    BY <1>1, Sides, MadeStays DEF SameGroups, SamePending
  <1>4. Fits(w, R, W, s)
    BY <1>1, <1>2, <1>3, SameParts, Sides
  <1> QED BY <1>4 DEF w

(* A copy without a group fits while its deletion is asked for. *)
LEMMA DeletedGroupFits ==
  ASSUME NEW v \in Local, NEW R, NEW W, NEW s, NEW g, Fits(v, R, W, s),
         AsksOf(W, {"deleteGroup"}, g), AsksOf(W, {"togglePinGroup", "deleteGroup"}, g)
  PROVE  Fits(WithoutGroup(v, g), R, W, s)
  <1> DEFINE w == WithoutGroup(v, g)
  <1>1. /\ SamePending(v, w)
        /\ Part(v.groups, w.groups) /\ Part(v.tasks, w.tasks)
        /\ \A i \in DOMAIN v.groups : v.groups[i].id # g => Holds(w.groups, v.groups[i])
        /\ \A i \in DOMAIN v.tasks : v.tasks[i].group # g => Holds(w.tasks, v.tasks[i])
        /\ \A h \in GroupId : h # g => (h \in w.pins <=> h \in v.pins)
    BY WithoutGroupRows
  <1> HIDE DEF w
  <1>2. GroupSide(w, R, W, s)
    BY <1>1, Sides, GroupsLeft
  <1>3. TaskSide(w, R, W, s)
    BY <1>1, Sides, TasksLeft
  <1>4. PinsFit(w, R, W, s)
    BY <1>1, Sides DEF PinsFit
  <1>5. \A i \in DOMAIN w.groups : \E j \in DOMAIN v.groups : w.groups[i].id = v.groups[j].id
    BY <1>1 DEF Part
  <1>6. MadeFits(w, R, W, s)
    BY <1>1, <1>5, Sides, MadeStays DEF SamePending
  <1>7. Fits(w, R, W, s)
    BY <1>1, <1>2, <1>3, <1>4, <1>6, SameParts, Sides
  <1> QED BY <1>7 DEF w

(* A copy without a task fits while its deletion is asked for. *)
LEMMA DeletedTaskFits ==
  ASSUME NEW v \in Local, NEW R, NEW W, NEW s, NEW t, Fits(v, R, W, s),
         AsksTask(W, "deleteTask", t)
  PROVE  Fits(WithoutTask(v, t), R, W, s)
  <1> DEFINE w == WithoutTask(v, t)
  <1>1. /\ SameGroups(v, w) /\ SamePending(v, w) /\ SamePins(v, w)
        /\ Part(v.tasks, w.tasks)
        /\ \A i \in DOMAIN v.tasks : v.tasks[i].id # t => Holds(w.tasks, v.tasks[i])
    BY WithoutTaskRows
  <1> HIDE DEF w
  <1>2. TaskSide(w, R, W, s)
    BY <1>1, Sides, TasksLeft
  <1>3. MadeFits(w, R, W, s)
    BY <1>1, Sides, MadeStays DEF SameGroups, SamePending
  <1>4. Fits(w, R, W, s)
    BY <1>1, <1>2, <1>3, SameParts, Sides
  <1> QED BY <1>4 DEF w

(* A column may hold anything while a request to set it is unanswered. *)
LEMMA SetColumnFits ==
  ASSUME NEW v \in Local, NEW R, NEW W, NEW s, NEW t, NEW c \in {"done", "text"}, NEW value,
         Fits(v, R, W, s),
         c = "done" => AsksTask(W, "toggleTaskCompletion", t),
         c = "text" => AsksTask(W, "editTask", t)
  PROVE  Fits(WithColumn(v, t, c, value), R, W, s)
  <1> DEFINE w == WithColumn(v, t, c, value)
  <1>1. /\ SameGroups(v, w) /\ SamePending(v, w) /\ SamePins(v, w)
        /\ DOMAIN w.tasks = DOMAIN v.tasks
        /\ \A i \in DOMAIN v.tasks :
              /\ w.tasks[i].id = v.tasks[i].id
              /\ w.tasks[i].group = v.tasks[i].group /\ w.tasks[i].owner = v.tasks[i].owner
              /\ (c = "done" /\ v.tasks[i].id = t) \/ w.tasks[i].body.done = v.tasks[i].body.done
              /\ (c = "text" /\ v.tasks[i].id = t) \/ w.tasks[i].body.text = v.tasks[i].body.text
    BY WithColumnRows
  <1> HIDE DEF w
  <1>2. TaskSide(v, R, W, s)
    BY Sides
  <1>3. TasksFit(w, R, W, s)
    BY <1>1, <1>2 DEF TaskSide, TasksFit
  <1>4. MadeTasksFit(w, R, W, s)
    BY <1>1, <1>2 DEF TaskSide, MadeTasksFit
  <1>5. DoneFits(w, R, W, s)
    BY <1>1, <1>2 DEF TaskSide, DoneFits, ColumnFits
  <1>6. TextFits(w, R, W, s)
    BY <1>1, <1>2 DEF TaskSide, TextFits, ColumnFits
  <1>7. MadeFits(w, R, W, s)
    BY <1>1, Sides, MadeStays DEF SameGroups, SamePending
  <1>8. Fits(w, R, W, s)
    BY <1>1, <1>3, <1>4, <1>5, <1>6, <1>7, SameParts, Sides DEF TaskSide
  <1> QED BY <1>8 DEF w

(* A user may be off a list while the request that takes them off is unanswered. *)
LEMMA RemovedUserFits ==
  ASSUME NEW v \in Local, NEW R, NEW W, NEW s, NEW g, NEW u, Fits(v, R, W, s),
         NEW role \in {"members", "invited"},
         role = "members" => AsksAbout(W, {"removeMemberFromGroup"}, g, u),
         AsksAbout(W, {"removeMemberFromGroup", "cancelInvite", "inviteMemberToGroup"}, g, u)
  PROVE  Fits(WithoutUser(v, g, role, u), R, W, s)
  <1> DEFINE w == WithoutUser(v, g, role, u)
  <1>a. /\ SameTasks(v, w) /\ SamePending(v, w) /\ SamePins(v, w)
        /\ DOMAIN w.groups = DOMAIN v.groups
        /\ \A i \in DOMAIN v.groups :
              w.groups[i].id = v.groups[i].id /\ w.groups[i].chat = v.groups[i].chat
    BY WithoutUserRows
  <1>b. ASSUME NEW i \in DOMAIN v.groups, NEW x \in UserId
        PROVE  (role = "members" /\ v.groups[i].id = g /\ x = u)
               \/ (x \in w.groups[i].members <=> x \in v.groups[i].members)
    BY WithoutUserRows
  <1>c. ASSUME NEW i \in DOMAIN v.groups, NEW x \in UserId
        PROVE  (role = "invited" /\ v.groups[i].id = g /\ x = u)
               \/ (x \in w.groups[i].invited <=> x \in v.groups[i].invited)
    BY WithoutUserRows
  <1> HIDE DEF w
  <1>2. GroupSide(v, R, W, s)
    BY Sides
  <1>3. GroupsFit(w, R, W, s)
    BY <1>a, <1>2 DEF GroupSide, GroupsFit
  <1>4. MembersFit(w, R, W, s)
    BY <1>a, <1>b, <1>2 DEF GroupSide, MembersFit
  <1>5. InvitedFit(w, R, W, s)
    <2> SUFFICES ASSUME NEW h \in s.mine, NEW y \in UserId,
                        ~AsksOf(W, {"acceptInvite"}, h),
                        ~AsksAbout(W, {"removeMemberFromGroup", "cancelInvite",
                                       "inviteMemberToGroup"}, h, y),
                        <<h, y>> \notin s.members
                 PROVE  InvitationFits(w, R, s, h, y)
      BY DEF InvitedFit
    <2>1. InvitationFits(v, R, s, h, y)
      BY <1>2 DEF GroupSide, InvitedFit
    <2>2. \A i \in DOMAIN w.groups : w.groups[i].id = h =>
             v.groups[i].id = h /\ (y \in w.groups[i].invited <=> y \in v.groups[i].invited)
      BY <1>a, <1>c
    <2> QED BY <1>a, <2>1, <2>2 DEF InvitationFits
  <1>6. ChatFits(w, R, W, s)
    BY <1>a, <1>2 DEF GroupSide, ChatFits
  <1>7. MadeFits(w, R, W, s)
    BY <1>a, Sides, MadeStays DEF SamePending
  <1>8. Fits(w, R, W, s)
    BY <1>a, <1>3, <1>4, <1>5, <1>6, <1>7, SameParts, Sides DEF GroupSide
  <1> QED BY <1>8 DEF w

(* An invitation may be gone while a request that uses it up is unanswered. *)
LEMMA DeniedFits ==
  ASSUME NEW v \in Local, NEW R, NEW W, NEW s, NEW g, Fits(v, R, W, s),
         AsksOf(W, {"acceptInvite", "denyInvite"}, g)
  PROVE  Fits(WithoutPending(v, g), R, W, s)
  <1> DEFINE w == WithoutPending(v, g)
  <1>1. /\ SameGroups(v, w) /\ SameTasks(v, w) /\ SamePins(v, w)
        /\ Part(v.pending, w.pending)
        /\ \A i \in DOMAIN v.pending : v.pending[i] # g => Holds(w.pending, v.pending[i])
    BY WithoutPendingRows
  <1> HIDE DEF w
  <1>2. /\ PendingFits(w, R, W, s)
        /\ \A i \in DOMAIN w.pending : \E j \in DOMAIN v.pending : w.pending[i] = v.pending[j]
    <2>1. PendingFits(v, R, W, s)
      BY Sides
    <2> QED BY <1>1, <2>1, PendingLeft, IdsLeft
  <1>3. MadeFits(w, R, W, s)
    BY <1>1, <1>2, Sides, MadeStays DEF SameGroups
  <1>4. Fits(w, R, W, s)
    BY <1>1, <1>2, <1>3, SameParts, Sides
  <1> QED BY <1>4 DEF w

(* A group may be listed while the acceptInvite that joins it is unanswered. *)
LEMMA AcceptedFits ==
  ASSUME NEW v \in Local, NEW R, NEW W, NEW s, NEW g \in GroupId, Fits(v, R, W, s),
         AsksOf(W, {"acceptInvite", "denyInvite"}, g), AsksOf(W, {"acceptInvite"}, g)
  PROVE  Fits(Accepted(v, g), R, W, s)
  <1>1. CASE Accepted(v, g) = v
    BY <1>1
  <1>2. CASE Accepted(v, g) # v
    <2> DEFINE w == Accepted(v, g)
               n == Len(v.groups) + 1
    <2>1. /\ NewRow(v, w, g) /\ SameTasks(v, w) /\ SamePins(v, w)
          /\ Part(v.pending, w.pending)
          /\ \A i \in DOMAIN v.pending : v.pending[i] # g => Holds(w.pending, v.pending[i])
          /\ \E i \in DOMAIN v.pending : v.pending[i] = g
      BY <1>2, AcceptedRows
    <2> HIDE DEF w
    <2>2. /\ PendingFits(w, R, W, s)
          /\ \A i \in DOMAIN w.pending : \E j \in DOMAIN v.pending : w.pending[i] = v.pending[j]
      <3>1. PendingFits(v, R, W, s)
        BY Sides
      <3> QED BY <2>1, <3>1, PendingLeft, IdsLeft
    <2>3. /\ DOMAIN w.groups = DOMAIN v.groups \cup {n} /\ n \notin DOMAIN v.groups
          /\ \A i \in DOMAIN v.groups : w.groups[i] = v.groups[i]
          /\ w.groups[n].id = g
      BY <2>1 DEF NewRow, NewLocalGroup
    <2> HIDE DEF n
    <2>4. g \in s.pending \cup s.joining
      BY <2>1, Sides DEF PendingFits
    <2>5. GroupSide(v, R, W, s)
      BY Sides
    <2>6. GroupsFit(w, R, W, s)
      BY <2>3, <2>4, <2>5 DEF GroupSide, GroupsFit
    <2>7. MembersFit(w, R, W, s)
      BY <2>3, <2>5 DEF GroupSide, MembersFit
    <2>8. InvitedFit(w, R, W, s)
      <3>1. \A h, x : h # g /\ InvitationFits(v, R, s, h, x) => InvitationFits(w, R, s, h, x)
        BY <2>3 DEF InvitationFits
      <3>2. InvitedFit(v, R, W, s)
        BY <2>5 DEF GroupSide
      <3> QED BY <3>1, <3>2 DEF InvitedFit
    <2>9. ChatFits(w, R, W, s)
      BY <2>3, <2>5 DEF GroupSide, ChatFits
    <2>10. MadeFits(w, R, W, s)
      BY <2>1, <2>2, <2>3, Sides, MadeStays
    <2>11. Fits(w, R, W, s)
      BY <2>1, <2>2, <2>6, <2>7, <2>8, <2>9, <2>10, SameParts, Sides DEF GroupSide
    <2> QED BY <2>11 DEF w
  <1> QED BY <1>1, <1>2

(* What a click changes at once fits with its request among those asked for. *)
LEMMA ChangedFits ==
  ASSUME NEW v \in Local, NEW R, NEW W, NEW s, NEW r \in Call, r \in W, r.cmd \in Optimistic,
         Fits(v, R, W, s)
  PROVE  Fits(Changed(v, r), R, W, s)
  <1>0. r.group \in GroupId
    BY DEF Call
  <1>1. CASE r.cmd = "togglePinGroup"
    BY <1>1, AskedBy, ToggledPinFits DEF Changed
  <1>2. CASE r.cmd = "deleteGroup"
    BY <1>2, AskedBy, DeletedGroupFits DEF Changed
  <1>3. CASE r.cmd = "deleteTask"
    BY <1>3, AskedBy, DeletedTaskFits DEF Changed
  <1>4. CASE r.cmd = "toggleTaskCompletion"
    BY <1>4, AskedBy, SetColumnFits DEF Changed
  <1>5. CASE r.cmd = "editTask"
    BY <1>5, AskedBy, SetColumnFits DEF Changed
  <1>6. CASE r.cmd = "removeMemberFromGroup"
    BY <1>6, AskedBy, RemovedUserFits DEF Changed
  <1>7. CASE r.cmd = "cancelInvite"
    BY <1>7, AskedBy, RemovedUserFits DEF Changed
  <1>8. CASE r.cmd = "acceptInvite"
    BY <1>0, <1>8, AskedBy, AcceptedFits DEF Changed
  <1>9. CASE r.cmd = "denyInvite"
    BY <1>9, AskedBy, DeniedFits DEF Changed
  <1> QED BY <1>1, <1>2, <1>3, <1>4, <1>5, <1>6, <1>7, <1>8, <1>9 DEF Optimistic

----------------------------------------------------------------------------
(* The first reply of the line is taken *)

(* Q is what comes after the first reply of R. *)
After(R, Q) ==
  \E n \in Nat : /\ DOMAIN R = 1..n + 1 /\ DOMAIN Q = 1..n
                 /\ \A k \in 1..n : Q[k] = R[k + 1]

(* A queue without its first element is After it. *)
LEMMA TailAfter ==
  ASSUME NEW S, NEW R \in Seq(S), R # <<>>
  PROVE  After(R, Tail(R))
  <1>1. Len(R) - 1 \in Nat /\ DOMAIN R = 1..(Len(R) - 1) + 1
    OBVIOUS
  <1>2. DOMAIN Tail(R) = 1..Len(R) - 1 /\ \A k \in 1..Len(R) - 1 : Tail(R)[k] = R[k + 1]
    OBVIOUS
  <1> QED BY <1>1, <1>2 DEF After

(* The places of a queue before and after its first element is taken. *)
LEMMA AfterFacts ==
  ASSUME NEW R, NEW Q, After(R, Q)
  PROVE  /\ 1 \in DOMAIN R
         /\ \A k \in DOMAIN Q : k \in Nat \ {0} /\ k + 1 \in DOMAIN R /\ Q[k] = R[k + 1]
         /\ \A k \in DOMAIN R :
               k \in Nat /\ (k = 1 \/ (k > 1 /\ k - 1 \in DOMAIN Q /\ Q[k - 1] = R[k]))
  BY DEF After

(* What the replies say is said by the first or by the rest. *)
LEMMA MadeAfter ==
  ASSUME NEW R, NEW Q, After(R, Q)
  PROVE  /\ \A g : Made(R, g) <=> MakesGroup(R[1], g) \/ Made(Q, g)
         /\ \A t : MadeTask(R, t) <=> MakesTask(R[1], t) \/ MadeTask(Q, t)
         /\ \A t : Dropped(R, t) <=> OnTask(R[1], "deleteTask", t) \/ Dropped(Q, t)
         /\ \A cmd, x : Untouched(R, cmd, x) <=>
                          ~OnTask(R[1], cmd, x.id) /\ Untouched(Q, cmd, x)
  <1>2. \A g : Made(R, g) <=> MakesGroup(R[1], g) \/ Made(Q, g)
    BY AfterFacts DEF Made
  <1>3. \A t : MadeTask(R, t) <=> MakesTask(R[1], t) \/ MadeTask(Q, t)
    BY AfterFacts DEF MadeTask
  <1>4. \A t : Dropped(R, t) <=> OnTask(R[1], "deleteTask", t) \/ Dropped(Q, t)
    BY AfterFacts DEF Dropped
  <1>5. \A cmd, x : Untouched(R, cmd, x) <=>
                       ~OnTask(R[1], cmd, x.id) /\ Untouched(Q, cmd, x)
    BY AfterFacts DEF Untouched
  <1> QED BY <1>2, <1>3, <1>4, <1>5

(* Messages told by the replies of the line. *)
PostPlaces(R, g) ==
  {k \in DOMAIN R : R[k].call.cmd = "sendMessage" /\ R[k].call.group = g}

(* The first reply counts as one post of its group if it is one. *)
LEMMA PostsAfter ==
  ASSUME NEW R, NEW Q, After(R, Q), NEW g
  PROVE  /\ Posts(Q, g) \in Nat
         /\ R[1].call.cmd = "sendMessage" /\ R[1].call.group = g => Posts(R, g) = Posts(Q, g) + 1
         /\ ~(R[1].call.cmd = "sendMessage" /\ R[1].call.group = g) => Posts(R, g) = Posts(Q, g)
  <1> DEFINE A == PostPlaces(R, g)
             B == PostPlaces(Q, g)
             up == [k \in B |-> k + 1]
             C == A \ {1}
  <1>1. PICK n \in Nat : /\ DOMAIN R = 1..n + 1 /\ DOMAIN Q = 1..n
                         /\ \A k \in 1..n : Q[k] = R[k + 1]
    BY DEF After
  <1>2. IsFiniteSet(A) /\ IsFiniteSet(B) /\ IsFiniteSet(C)
    <2>1. n \in Int /\ 1 \in Int /\ n + 1 \in Int
      BY <1>1
    <2>2. IsFiniteSet(1..n) /\ IsFiniteSet(1..n + 1)
      BY <2>1, FS_Interval
    <2>3. A \subseteq 1..n + 1 /\ B \subseteq 1..n /\ C \subseteq 1..n + 1
      BY <1>1 DEF PostPlaces
    <2> QED BY <2>2, <2>3, FS_Subset
  <1>3. up \in Bijection(B, C)
    <2>1. up \in [B -> C]
      BY <1>1 DEF PostPlaces
    <2>2. \A i, j \in B : up[i] = up[j] => i = j
      BY <1>1 DEF PostPlaces
    <2>3. ASSUME NEW k \in C PROVE \E i \in B : up[i] = k
      <3>1. k - 1 \in B /\ (k - 1) + 1 = k
        BY <1>1 DEF PostPlaces
      <3> QED BY <3>1
    <2> HIDE DEF up
    <2> QED BY <2>1, <2>2, <2>3 DEF Bijection, Injection, Surjection, IsInjective
  <1>4. Cardinality(C) = Cardinality(B) /\ Cardinality(B) \in Nat
    <2>1. ExistsBijection(B, C)
      BY <1>3 DEF ExistsBijection
    <2> QED BY <1>2, <2>1, FS_Bijection, FS_CardinalityType
  <1>5. 1 \in A <=> R[1].call.cmd = "sendMessage" /\ R[1].call.group = g
    BY <1>1 DEF PostPlaces
  <1>6. 1 \in A => Cardinality(A) = Cardinality(B) + 1
    <2>1. 1 \in A => A = C \cup {1} /\ 1 \notin C
      OBVIOUS
    <2> HIDE DEF A, B, C
    <2> QED BY <1>2, <1>4, <2>1, FS_AddElement
  <1>7. 1 \notin A => Cardinality(A) = Cardinality(B)
    <2>1. 1 \notin A => A = C
      OBVIOUS
    <2> HIDE DEF A, B, C
    <2> QED BY <1>4, <2>1
  <1>8. Posts(R, g) = Cardinality(A) /\ Posts(Q, g) = Cardinality(B)
    BY DEF Posts, PostPlaces
  <1> QED BY <1>4, <1>5, <1>6, <1>7, <1>8

(* Parts that say nothing of the first reply. *)
LEMMA GroupsAfter ==
  ASSUME NEW R, NEW Q, After(R, Q), NEW v, NEW W, NEW s, R[1].call.cmd # "createGroup"
  PROVE  /\ GroupsFit(v, R, W, s) => GroupsFit(v, Q, W, s)
         /\ R[1].call.cmd # "sendMessage" /\ ChatFits(v, R, W, s) => ChatFits(v, Q, W, s)
  <1>1. \A g : ~MakesGroup(R[1], g)
    BY DEF MakesGroup
  <1>2. \A g : Made(R, g) <=> Made(Q, g)
    BY <1>1, MadeAfter
  <1>3. GroupsFit(v, R, W, s) => GroupsFit(v, Q, W, s)
    BY <1>2 DEF GroupsFit
  <1>4. R[1].call.cmd # "sendMessage" => \A g : Posts(R, g) = Posts(Q, g)
    BY PostsAfter
  <1>5. R[1].call.cmd # "sendMessage" /\ ChatFits(v, R, W, s) => ChatFits(v, Q, W, s)
    BY <1>2, <1>4 DEF ChatFits
  <1> QED BY <1>3, <1>5

(* Groups just made fit the rest, and the first reply was about none of them. *)
LEMMA MadeFitsAfter ==
  ASSUME NEW R, NEW Q, After(R, Q), NEW v, NEW W, NEW s, MadeFits(v, R, W, s)
  PROVE  /\ MadeFits(v, Q, W, s)
         /\ \A g \in GroupId : Made(Q, g) => R[1].call.group # g
  <1>1. ASSUME NEW k \in DOMAIN Q, NEW g \in GroupId, MakesGroup(Q[k], g)
        PROVE  /\ g \in s.mine
               /\ \A u \in UserId : <<g, u>> \in s.members <=> u = Me
               /\ \A i \in DOMAIN v.groups : v.groups[i].id # g
               /\ \A i \in DOMAIN v.pending : v.pending[i] # g
               /\ \A j \in DOMAIN Q : MakesGroup(Q[j], g) => j = k
               /\ \A j \in 1..k - 1 : Q[j].call.group # g
               /\ R[1].call.group # g
    <2>1. k \in Nat \ {0} /\ k + 1 \in DOMAIN R /\ MakesGroup(R[k + 1], g)
      BY <1>1, AfterFacts
    <2>2. /\ g \in s.mine
          /\ \A u \in UserId : <<g, u>> \in s.members <=> u = Me
          /\ \A i \in DOMAIN v.groups : v.groups[i].id # g
          /\ \A i \in DOMAIN v.pending : v.pending[i] # g
          /\ \A j \in DOMAIN R : MakesGroup(R[j], g) => j = k + 1
          /\ \A j \in 1..(k + 1) - 1 : R[j].call.group # g
      BY <2>1 DEF MadeFits
    <2>3. \A j \in DOMAIN Q : MakesGroup(Q[j], g) => j = k
      BY <2>1, <2>2, AfterFacts
    <2>4. \A j \in 1..k - 1 : j \in DOMAIN Q /\ Q[j] = R[j + 1] /\ j + 1 \in 1..(k + 1) - 1
      BY <2>1 DEF After
    <2>5. 1 \in 1..(k + 1) - 1
      BY <2>1
    <2> QED BY <2>2, <2>3, <2>4, <2>5
  <1> QED BY <1>1 DEF MadeFits, Made

(* The last reply about an invitation, or a column, may be the first. *)
LEMMA InvitationAfter ==
  ASSUME NEW R, NEW Q, After(R, Q), NEW v, NEW s, NEW g, NEW u, InvitationFits(v, R, s, g, u),
         OnInvite(R[1], g, u) =>
            /\ \A i \in DOMAIN v.groups : v.groups[i].id = g =>
                  (u \in v.groups[i].invited <=> R[1].call.cmd = "inviteMemberToGroup")
            /\ ~Made(Q, g)
  PROVE  InvitationFits(v, Q, s, g, u)
  <1>1. ASSUME NEW k \in DOMAIN Q, OnInvite(Q[k], g, u),
               \A j \in DOMAIN Q : j > k => ~OnInvite(Q[j], g, u)
        PROVE  Q[k].call.cmd = "inviteMemberToGroup" <=> <<g, u>> \in s.invited
    <2>1. k \in Nat \ {0} /\ k + 1 \in DOMAIN R /\ Q[k] = R[k + 1]
      BY AfterFacts
    <2>2. ASSUME NEW j \in DOMAIN R, j > k + 1 PROVE ~OnInvite(R[j], g, u)
      <3>1. j - 1 \in DOMAIN Q /\ Q[j - 1] = R[j] /\ j - 1 > k
        BY <2>1, <2>2, AfterFacts
      <3> QED BY <1>1, <3>1
    <2> QED BY <1>1, <2>1, <2>2 DEF InvitationFits
  <1>2. ASSUME \A k \in DOMAIN Q : ~OnInvite(Q[k], g, u)
        PROVE  /\ \A i \in DOMAIN v.groups : v.groups[i].id = g =>
                     (u \in v.groups[i].invited <=> <<g, u>> \in s.invited)
               /\ Made(Q, g) => <<g, u>> \notin s.invited
    <2>1. CASE OnInvite(R[1], g, u)
      <3>1. 1 \in DOMAIN R /\ \A j \in DOMAIN R : j > 1 => ~OnInvite(R[j], g, u)
        BY <1>2, AfterFacts
      <3>2. R[1].call.cmd = "inviteMemberToGroup" <=> <<g, u>> \in s.invited
        BY <2>1, <3>1 DEF InvitationFits
      <3> QED BY <2>1, <3>2
    <2>2. CASE ~OnInvite(R[1], g, u)
      <3>1. \A k \in DOMAIN R : ~OnInvite(R[k], g, u)
        BY <1>2, <2>2, AfterFacts
      <3>2. Made(Q, g) => Made(R, g)
        BY MadeAfter
      <3> QED BY <3>1, <3>2 DEF InvitationFits
    <2> QED BY <2>1, <2>2
  <1> QED BY <1>1, <1>2 DEF InvitationFits

(* A column fits the rest if the first reply's value is already in the row. *)
LEMMA ColumnAfter ==
  ASSUME NEW R, NEW Q, After(R, Q), NEW v, NEW x, NEW cmd, NEW c, ColumnFits(v, R, cmd, c, x),
         OnTask(R[1], cmd, x.id) => \A i \in DOMAIN v.tasks :
            v.tasks[i].id = x.id => v.tasks[i].body[c] = R[1].call.body[c]
  PROVE  ColumnFits(v, Q, cmd, c, x)
  <1>1. ASSUME NEW k \in DOMAIN Q, OnTask(Q[k], cmd, x.id),
               \A j \in DOMAIN Q : j > k => ~OnTask(Q[j], cmd, x.id)
        PROVE  Q[k].call.body[c] = x.body[c]
    <2>1. k \in Nat \ {0} /\ k + 1 \in DOMAIN R /\ Q[k] = R[k + 1]
      BY AfterFacts
    <2>2. ASSUME NEW j \in DOMAIN R, j > k + 1 PROVE ~OnTask(R[j], cmd, x.id)
      <3>1. j - 1 \in DOMAIN Q /\ Q[j - 1] = R[j] /\ j - 1 > k
        BY <2>1, <2>2, AfterFacts
      <3> QED BY <1>1, <3>1
    <2> QED BY <1>1, <2>1, <2>2 DEF ColumnFits
  <1>2. ASSUME Untouched(Q, cmd, x), NEW i \in DOMAIN v.tasks, v.tasks[i].id = x.id
        PROVE  v.tasks[i].body[c] = x.body[c]
    <2>1. CASE OnTask(R[1], cmd, x.id)
      <3>1. 1 \in DOMAIN R /\ \A j \in DOMAIN R : j > 1 => ~OnTask(R[j], cmd, x.id)
        BY <1>2, AfterFacts DEF Untouched
      <3>2. R[1].call.body[c] = x.body[c]
        BY <2>1, <3>1 DEF ColumnFits
      <3> QED BY <1>2, <2>1, <3>2
    <2>2. CASE ~OnTask(R[1], cmd, x.id)
      <3>1. Untouched(R, cmd, x)
        BY <1>2, <2>2, MadeAfter
      <3> QED BY <1>2, <3>1 DEF ColumnFits
    <2> QED BY <2>1, <2>2
  <1> QED BY <1>1, <1>2 DEF ColumnFits

(* The lists of the invited fit the rest if the first reply is already in them. *)
LEMMA InvitedAfter ==
  ASSUME NEW R, NEW Q, After(R, Q), NEW v, NEW W, NEW s, s.mine \subseteq GroupId,
         InvitedFit(v, R, W, s), MadeFits(v, R, W, s),
         \A g \in s.mine, u \in UserId : OnInvite(R[1], g, u) =>
            \/ AsksOf(W, {"acceptInvite"}, g)
            \/ AsksAbout(W, {"removeMemberFromGroup", "cancelInvite", "inviteMemberToGroup"}, g, u)
            \/ <<g, u>> \in s.members
            \/ \A i \in DOMAIN v.groups : v.groups[i].id = g =>
                  (u \in v.groups[i].invited <=> R[1].call.cmd = "inviteMemberToGroup")
  PROVE  InvitedFit(v, Q, W, s)
  <1> SUFFICES ASSUME NEW g \in s.mine, NEW u \in UserId,
                      ~AsksOf(W, {"acceptInvite"}, g),
                      ~AsksAbout(W, {"removeMemberFromGroup", "cancelInvite",
                                     "inviteMemberToGroup"}, g, u),
                      <<g, u>> \notin s.members
               PROVE  InvitationFits(v, Q, s, g, u)
    BY DEF InvitedFit
  <1>1. InvitationFits(v, R, s, g, u)
    BY DEF InvitedFit
  <1>2. OnInvite(R[1], g, u) => R[1].call.group = g
    BY DEF OnInvite
  <1>3. OnInvite(R[1], g, u) => ~Made(Q, g)
    BY <1>2, MadeFitsAfter
  <1> QED BY <1>1, <1>3, InvitationAfter

(* The tasks fit the rest if what the first reply says of them is already there. *)
LEMMA TasksAfter ==
  ASSUME NEW R, NEW Q, After(R, Q), NEW v, NEW W, NEW s, s.tasks \subseteq TaskRow,
         TaskSide(v, R, W, s),
         R[1].call.cmd # "createTask",
         R[1].call.cmd = "deleteTask" =>
            \/ AsksTask(W, "deleteTask", R[1].call.task)
            \/ \A i \in DOMAIN v.tasks : v.tasks[i].id # R[1].call.task,
         R[1].call.cmd = "toggleTaskCompletion" =>
            \/ AsksTask(W, "toggleTaskCompletion", R[1].call.task)
            \/ \A i \in DOMAIN v.tasks : v.tasks[i].id = R[1].call.task =>
                  v.tasks[i].body.done = R[1].call.body.done,
         R[1].call.cmd = "editTask" =>
            \/ AsksTask(W, "editTask", R[1].call.task)
            \/ \A i \in DOMAIN v.tasks : v.tasks[i].id = R[1].call.task =>
                  v.tasks[i].body.text = R[1].call.body.text
  PROVE  TaskSide(v, Q, W, s)
  <1>1. \A t : ~MakesTask(R[1], t)
    BY DEF MakesTask
  <1>2. \A t : MadeTask(R, t) <=> MadeTask(Q, t)
    BY <1>1, MadeAfter
  <1>3. \A t : OnTask(R[1], "deleteTask", t) => R[1].call.cmd = "deleteTask" /\ R[1].call.task = t
    BY DEF OnTask
  <1>4. \A t : Dropped(R, t) <=> OnTask(R[1], "deleteTask", t) \/ Dropped(Q, t)
    BY MadeAfter
  <1>5. TasksFit(v, Q, W, s)
    <2>1. \A i \in DOMAIN v.tasks :
             \/ \E x \in s.tasks : x.id = v.tasks[i].id
             \/ Dropped(Q, v.tasks[i].id)
             \/ AsksTask(W, "deleteTask", v.tasks[i].id)
      BY <1>3, <1>4 DEF TaskSide, TasksFit
    <2>2. \A x \in s.tasks : ~Dropped(Q, x.id)
      BY <1>4 DEF TaskSide, TasksFit
    <2> QED BY <1>2, <2>1, <2>2 DEF TaskSide, TasksFit
  <1>6. ASSUME NEW k \in DOMAIN Q, NEW t \in TaskId, MakesTask(Q[k], t)
        PROVE  /\ t < s.nextTask
               /\ \A i \in DOMAIN v.tasks : v.tasks[i].id # t
               /\ \A j \in DOMAIN Q : MakesTask(Q[j], t) => j = k
               /\ \A j \in 1..k - 1 : Q[j].call.task # t
               /\ \A x \in s.tasks : x.id = t => x.group = Q[k].call.group /\ x.owner = Me
               /\ \/ \E x \in s.tasks : x.id = t
                  \/ Dropped(Q, t) \/ AsksTask(W, "deleteTask", t)
               /\ R[1].call.task # t
    <2>1. k \in Nat \ {0} /\ k + 1 \in DOMAIN R /\ MakesTask(R[k + 1], t) /\ Q[k] = R[k + 1]
      BY <1>6, AfterFacts
    <2>2. /\ t < s.nextTask
          /\ \A i \in DOMAIN v.tasks : v.tasks[i].id # t
          /\ \A j \in DOMAIN R : MakesTask(R[j], t) => j = k + 1
          /\ \A j \in 1..(k + 1) - 1 : R[j].call.task # t
          /\ \A x \in s.tasks : x.id = t => x.group = R[k + 1].call.group /\ x.owner = Me
          /\ \/ \E x \in s.tasks : x.id = t
             \/ Dropped(R, t) \/ AsksTask(W, "deleteTask", t)
      BY <2>1 DEF TaskSide, MadeTasksFit
    <2>3. \A j \in DOMAIN Q : MakesTask(Q[j], t) => j = k
      BY <2>1, <2>2, AfterFacts
    <2>4. \A j \in 1..k - 1 : j \in DOMAIN Q /\ Q[j] = R[j + 1] /\ j + 1 \in 1..(k + 1) - 1
      BY <2>1 DEF After
    <2>5. 1 \in 1..(k + 1) - 1
      BY <2>1
    <2>6. R[1].call.task # t
      BY <2>2, <2>5
    <2> QED BY <1>3, <1>4, <2>1, <2>2, <2>3, <2>4, <2>6
  <1>7. MadeTasksFit(v, Q, W, s)
    BY <1>6 DEF MadeTasksFit
  <1>8. \A t \in TaskId : MadeTask(Q, t) => R[1].call.task # t
    BY <1>6 DEF MadeTask
  <1>9. \A x \in s.tasks : x.id \in TaskId
    BY DEF TaskRow
  <1>10. ASSUME NEW x \in s.tasks, NEW cmd
         PROVE  MadeTask(Q, x.id) /\ Untouched(Q, cmd, x) => Untouched(R, cmd, x)
    BY <1>8, <1>9, MadeAfter DEF OnTask
  <1>11. DoneFits(v, Q, W, s)
    <2> SUFFICES ASSUME NEW x \in s.tasks, ~AsksTask(W, "toggleTaskCompletion", x.id)
                 PROVE  /\ ColumnFits(v, Q, "toggleTaskCompletion", "done", x)
                        /\ Untouched(Q, "toggleTaskCompletion", x) /\ MadeTask(Q, x.id) =>
                              x.body.done = FALSE
      BY DEF DoneFits
    <2>1. /\ ColumnFits(v, R, "toggleTaskCompletion", "done", x)
          /\ Untouched(R, "toggleTaskCompletion", x) /\ MadeTask(R, x.id) => x.body.done = FALSE
      BY DEF TaskSide, DoneFits
    <2>2. OnTask(R[1], "toggleTaskCompletion", x.id) => \A i \in DOMAIN v.tasks :
             v.tasks[i].id = x.id => v.tasks[i].body["done"] = R[1].call.body["done"]
      BY DEF OnTask
    <2>3. ColumnFits(v, Q, "toggleTaskCompletion", "done", x)
      BY <2>1, <2>2, ColumnAfter
    <2> QED BY <1>2, <1>10, <2>1, <2>3
  <1>12. TextFits(v, Q, W, s)
    <2> SUFFICES ASSUME NEW x \in s.tasks, ~AsksTask(W, "editTask", x.id)
                 PROVE  /\ ColumnFits(v, Q, "editTask", "text", x)
                        /\ Untouched(Q, "editTask", x) => \A k \in DOMAIN Q :
                              MakesTask(Q[k], x.id) => Q[k].call.body.text = x.body.text
      BY DEF TextFits
    <2>1. /\ ColumnFits(v, R, "editTask", "text", x)
          /\ Untouched(R, "editTask", x) => \A k \in DOMAIN R :
                MakesTask(R[k], x.id) => R[k].call.body.text = x.body.text
      BY DEF TaskSide, TextFits
    <2>2. OnTask(R[1], "editTask", x.id) => \A i \in DOMAIN v.tasks :
             v.tasks[i].id = x.id => v.tasks[i].body["text"] = R[1].call.body["text"]
      BY DEF OnTask
    <2>3. ColumnFits(v, Q, "editTask", "text", x)
      BY <2>1, <2>2, ColumnAfter
    <2>4. ASSUME Untouched(Q, "editTask", x), NEW k \in DOMAIN Q, MakesTask(Q[k], x.id)
          PROVE  Q[k].call.body.text = x.body.text
      <3>1. Untouched(R, "editTask", x)
        BY <1>10, <2>4 DEF MadeTask
      <3>2. k + 1 \in DOMAIN R /\ Q[k] = R[k + 1]
        BY AfterFacts
      <3> QED BY <2>1, <2>4, <3>1, <3>2
    <2> QED BY <2>3, <2>4
  <1> QED BY <1>5, <1>7, <1>11, <1>12 DEF TaskSide

(* The reply of an optimistic request changes nothing more, or sends it again. *)
LEMMA RepeatedFits ==
  ASSUME NEW R, NEW Q, After(R, Q), NEW v \in Local, NEW W, NEW s,
         s.tasks \subseteq TaskRow, s.mine \subseteq GroupId, Fits(v, R, W, s),
         NEW r \in Call, R[1].call = r, r.cmd \in Optimistic, r \in W \/ Changed(v, r) = v
  PROVE  Fits(v, Q, W, s)
  <1>0. /\ r.cmd # "createGroup" /\ r.cmd # "createTask" /\ r.cmd # "sendMessage"
        /\ r.cmd # "inviteMemberToGroup"
    BY DEF Optimistic
  <1>1. /\ GroupSide(v, R, W, s) /\ MadeFits(v, R, W, s) /\ TaskSide(v, R, W, s)
        /\ PendingFits(v, R, W, s) /\ PinsFit(v, R, W, s)
    BY Sides
  <1>2. GroupsFit(v, Q, W, s) /\ ChatFits(v, Q, W, s)
    BY <1>0, <1>1, GroupsAfter DEF GroupSide
  <1>3. MadeFits(v, Q, W, s)
    BY <1>1, MadeFitsAfter
  <1>4. MembersFit(v, Q, W, s) /\ PendingFits(v, Q, W, s) /\ PinsFit(v, Q, W, s)
    BY <1>1 DEF GroupSide, MembersFit, PendingFits, PinsFit
  <1>5. InvitedFit(v, Q, W, s)
    <2>1. ASSUME NEW g \in s.mine, NEW u \in UserId, OnInvite(R[1], g, u)
          PROVE  \/ AsksOf(W, {"acceptInvite"}, g)
                 \/ AsksAbout(W, {"removeMemberFromGroup", "cancelInvite",
                                  "inviteMemberToGroup"}, g, u)
                 \/ \A i \in DOMAIN v.groups : v.groups[i].id = g =>
                       (u \in v.groups[i].invited <=> R[1].call.cmd = "inviteMemberToGroup")
      <3>1. r.cmd = "cancelInvite" /\ r.group = g /\ r.user = u
        BY <1>0, <2>1 DEF OnInvite
      <3>2. CASE r \in W
        BY <3>1, <3>2, AskedBy
      <3>3. CASE Changed(v, r) = v /\ ~AsksOf(W, {"acceptInvite"}, g)
        <4>1. WithoutUser(v, g, "invited", u) = v
          BY <3>1, <3>3 DEF Changed
        <4>2. ASSUME NEW i \in DOMAIN v.groups, v.groups[i].id = g
              PROVE  u \notin v.groups[i].invited
          <5>1. \A j \in DOMAIN v.groups : v.groups[j].id = g => i = j
            BY <1>1, <3>3, <4>2 DEF GroupSide, GroupsFit
          <5> QED BY <4>1, <4>2, <5>1, NobodyInvited
        <4> QED BY <1>0, <4>2
      <3> QED BY <3>2, <3>3
    <2> QED BY <1>1, <2>1, InvitedAfter DEF GroupSide
  <1>6. r.cmd = "deleteTask" =>
          \/ AsksTask(W, "deleteTask", r.task)
          \/ \A i \in DOMAIN v.tasks : v.tasks[i].id # r.task
    <2>1. CASE r.cmd = "deleteTask" /\ r \in W
      BY <2>1, AskedBy
    <2>2. CASE r.cmd = "deleteTask" /\ Changed(v, r) = v
      <3>1. WithoutTask(v, r.task) = v
        BY <2>2 DEF Changed
      <3> QED BY <3>1, WithoutTaskRows
    <2> QED BY <2>1, <2>2
  <1>7. \A i, j \in DOMAIN v.tasks : v.tasks[i].id = v.tasks[j].id => i = j
    BY <1>1 DEF TaskSide, TasksFit
  <1>8. r.cmd = "toggleTaskCompletion" =>
          \/ AsksTask(W, "toggleTaskCompletion", r.task)
          \/ \A i \in DOMAIN v.tasks : v.tasks[i].id = r.task =>
                v.tasks[i].body.done = r.body.done
    <2>1. CASE r.cmd = "toggleTaskCompletion" /\ r \in W
      BY <2>1, AskedBy
    <2>2. CASE r.cmd = "toggleTaskCompletion" /\ Changed(v, r) = v
      <3>1. WithColumn(v, r.task, "done", r.body.done) = v
        BY <2>2 DEF Changed
      <3> QED BY <1>7, <3>1, WithColumnRows
    <2> QED BY <2>1, <2>2
  <1>9. r.cmd = "editTask" =>
          \/ AsksTask(W, "editTask", r.task)
          \/ \A i \in DOMAIN v.tasks : v.tasks[i].id = r.task =>
                v.tasks[i].body.text = r.body.text
    <2>1. CASE r.cmd = "editTask" /\ r \in W
      BY <2>1, AskedBy
    <2>2. CASE r.cmd = "editTask" /\ Changed(v, r) = v
      <3>1. WithColumn(v, r.task, "text", r.body.text) = v
        BY <2>2 DEF Changed
      <3> QED BY <1>7, <3>1, WithColumnRows
    <2> QED BY <2>1, <2>2
  <1>10. TaskSide(v, Q, W, s)
    BY <1>0, <1>1, <1>6, <1>8, <1>9, TasksAfter
  <1> QED BY <1>2, <1>3, <1>4, <1>5, <1>10, Sides DEF GroupSide

----------------------------------------------------------------------------
(* The reply of a request that changes the copy only now *)

LEMMA RestAfter ==
  ASSUME NEW R, NEW Q, After(R, Q), NEW v, NEW W, NEW s,
         s.tasks \subseteq TaskRow, s.mine \subseteq GroupId, Fits(v, R, W, s),
         R[1].call.cmd \in OnReply
  PROVE  /\ MadeFits(v, Q, W, s) /\ MembersFit(v, Q, W, s)
         /\ PendingFits(v, Q, W, s) /\ PinsFit(v, Q, W, s)
         /\ R[1].call.cmd # "createGroup" => GroupsFit(v, Q, W, s)
         /\ R[1].call.cmd \notin {"createGroup", "sendMessage"} => ChatFits(v, Q, W, s)
         /\ R[1].call.cmd # "inviteMemberToGroup" => InvitedFit(v, Q, W, s)
         /\ R[1].call.cmd # "createTask" => TaskSide(v, Q, W, s)
  <1>0. /\ R[1].call.cmd \notin {"deleteTask", "toggleTaskCompletion", "editTask"}
        /\ R[1].call.cmd # "cancelInvite"
    BY DEF OnReply
  <1>1. /\ GroupSide(v, R, W, s) /\ MadeFits(v, R, W, s) /\ TaskSide(v, R, W, s)
        /\ PendingFits(v, R, W, s) /\ PinsFit(v, R, W, s)
    BY Sides
  <1>2. MadeFits(v, Q, W, s)
    BY <1>1, MadeFitsAfter
  <1>3. MembersFit(v, Q, W, s) /\ PendingFits(v, Q, W, s) /\ PinsFit(v, Q, W, s)
    BY <1>1 DEF GroupSide, MembersFit, PendingFits, PinsFit
  <1>4. R[1].call.cmd # "createGroup" => GroupsFit(v, Q, W, s)
    BY <1>1, GroupsAfter DEF GroupSide
  <1>5. R[1].call.cmd \notin {"createGroup", "sendMessage"} => ChatFits(v, Q, W, s)
    BY <1>1, GroupsAfter DEF GroupSide
  <1>6. R[1].call.cmd # "inviteMemberToGroup" => InvitedFit(v, Q, W, s)
    <2>1. R[1].call.cmd # "inviteMemberToGroup" => \A g, u : ~OnInvite(R[1], g, u)
      BY <1>0 DEF OnInvite
    <2> QED BY <1>1, <2>1, InvitedAfter DEF GroupSide
  <1>7. R[1].call.cmd # "createTask" => TaskSide(v, Q, W, s)
    BY <1>0, <1>1, TasksAfter
  <1> QED BY <1>2, <1>3, <1>4, <1>5, <1>6, <1>7

(* The reply of a sendMessage, applied: one more message in the copy, one post less
   behind. *)
LEMMA SentMessageFits ==
  ASSUME NEW R, NEW Q, After(R, Q), NEW v \in Local, NEW W, NEW s,
         s.tasks \subseteq TaskRow, s.mine \subseteq GroupId, Fits(v, R, W, s),
         NEW g, R[1].call.cmd = "sendMessage", R[1].call.group = g
  PROVE  Fits(WithMessage(v, g), Q, W, s)
  <1> DEFINE w == WithMessage(v, g)
  <1>1. /\ SameTasks(v, w) /\ SamePending(v, w) /\ SamePins(v, w)
        /\ DOMAIN w.groups = DOMAIN v.groups
        /\ \A i \in DOMAIN v.groups :
              /\ w.groups[i].id = v.groups[i].id
              /\ w.groups[i].members = v.groups[i].members
              /\ w.groups[i].invited = v.groups[i].invited
              /\ v.groups[i].id # g => w.groups[i].chat = v.groups[i].chat
              /\ v.groups[i].id = g /\ (\A j \in DOMAIN v.groups : v.groups[j].id = g => i = j)
                    => w.groups[i].chat = v.groups[i].chat + 1
    BY WithMessageRows
  <1> HIDE DEF w
  <1>2. R[1].call.cmd \in OnReply
    BY DEF OnReply
  <1>3. /\ MadeFits(v, Q, W, s) /\ MembersFit(v, Q, W, s) /\ InvitedFit(v, Q, W, s)
        /\ PendingFits(v, Q, W, s) /\ PinsFit(v, Q, W, s) /\ TaskSide(v, Q, W, s)
        /\ GroupsFit(v, Q, W, s)
    BY <1>2, RestAfter
  <1>4. MadeFits(w, Q, W, s)
    BY <1>1, <1>3, MadeStays DEF SamePending
  <1>5. GroupsFit(w, Q, W, s) /\ MembersFit(w, Q, W, s)
    BY <1>1, <1>3 DEF GroupsFit, MembersFit
  <1>6. InvitedFit(w, Q, W, s)
    <2>1. \A h, x : InvitationFits(v, Q, s, h, x) => InvitationFits(w, Q, s, h, x)
      BY <1>1 DEF InvitationFits
    <2> QED BY <1>3, <2>1 DEF InvitedFit
  <1>7. ChatFits(w, Q, W, s)
    <2>0. GroupSide(v, R, W, s) /\ MadeFits(v, R, W, s)
      BY Sides
    <2> SUFFICES ASSUME NEW h \in s.mine, ~AsksOf(W, {"acceptInvite"}, h)
                 PROVE  /\ \A i \in DOMAIN w.groups :
                              w.groups[i].id = h => w.groups[i].chat + Posts(Q, h) = s.chat[h]
                        /\ Made(Q, h) => Posts(Q, h) = s.chat[h]
      BY DEF ChatFits
    <2>1. /\ \A i \in DOMAIN v.groups :
                v.groups[i].id = h => v.groups[i].chat + Posts(R, h) = s.chat[h]
          /\ Made(R, h) => Posts(R, h) = s.chat[h]
      BY <2>0 DEF GroupSide, ChatFits
    <2>2. Made(Q, h) => Made(R, h) /\ h # g
      BY <2>0, MadeFitsAfter, MadeAfter
    <2>3. h # g => Posts(R, h) = Posts(Q, h)
      BY PostsAfter
    <2>4. ASSUME NEW i \in DOMAIN v.groups, v.groups[i].id = h
          PROVE  w.groups[i].chat + Posts(Q, h) = s.chat[h]
      <3>1. CASE h # g
        BY <1>1, <2>1, <2>3, <2>4, <3>1
      <3>2. CASE h = g
        <4>1. Posts(Q, h) \in Nat /\ Posts(R, h) = Posts(Q, h) + 1
          BY <3>2, PostsAfter
        <4>2. \A j \in DOMAIN v.groups : v.groups[j].id = g => i = j
          BY <2>0, <2>4, <3>2 DEF GroupSide, GroupsFit
        <4>3. w.groups[i].chat = v.groups[i].chat + 1
          BY <1>1, <2>4, <3>2, <4>2
        <4>4. v.groups[i].chat \in Nat
          <5>1. v.groups \in Seq(LocalGroup)
            BY DEF Local
          <5>2. v.groups[i] \in LocalGroup
            BY <5>1
          <5> QED BY <5>2 DEF LocalGroup
        <4>5. v.groups[i].chat + Posts(R, h) = s.chat[h]
          BY <2>1, <2>4
        <4> QED BY <4>1, <4>3, <4>4, <4>5
      <3> QED BY <3>1, <3>2
    <2> QED BY <1>1, <2>1, <2>2, <2>3, <2>4
  <1>8. PendingFits(w, Q, W, s) /\ PinsFit(w, Q, W, s) /\ TaskSide(w, Q, W, s)
    BY <1>1, <1>3, SameParts
  <1>9. Fits(w, Q, W, s)
    BY <1>4, <1>5, <1>6, <1>7, <1>8, Sides DEF GroupSide
  <1> QED BY <1>9 DEF w

(* The reply of an inviteMemberToGroup, applied: the user is listed. *)
LEMMA InvitedMemberFits ==
  ASSUME NEW R, NEW Q, After(R, Q), NEW v \in Local, NEW W, NEW s,
         s.tasks \subseteq TaskRow, s.mine \subseteq GroupId, Fits(v, R, W, s),
         NEW g, NEW u, R[1].call.cmd = "inviteMemberToGroup",
         R[1].call.group = g, R[1].call.user = u
  PROVE  Fits(WithInvited(v, g, u), Q, W, s)
  <1> DEFINE w == WithInvited(v, g, u)
  <1>1. /\ SameTasks(v, w) /\ SamePending(v, w) /\ SamePins(v, w)
        /\ DOMAIN w.groups = DOMAIN v.groups
        /\ \A i \in DOMAIN v.groups :
              /\ w.groups[i].id = v.groups[i].id /\ w.groups[i].chat = v.groups[i].chat
              /\ w.groups[i].members = v.groups[i].members
              /\ \A x : (v.groups[i].id = g /\ x = u)
                        \/ (x \in w.groups[i].invited <=> x \in v.groups[i].invited)
              /\ v.groups[i].id = g /\ (\A j \in DOMAIN v.groups : v.groups[j].id = g => i = j)
                    => u \in v.groups[i].members \/ u \in w.groups[i].invited
    BY WithInvitedRows
  <1> HIDE DEF w
  <1>2. R[1].call.cmd \in OnReply
    BY DEF OnReply
  <1>3. /\ MadeFits(v, Q, W, s) /\ MembersFit(v, Q, W, s) /\ ChatFits(v, Q, W, s)
        /\ PendingFits(v, Q, W, s) /\ PinsFit(v, Q, W, s) /\ TaskSide(v, Q, W, s)
        /\ GroupsFit(v, Q, W, s)
    BY <1>2, RestAfter
  <1>4. MadeFits(w, Q, W, s)
    BY <1>1, <1>3, MadeStays DEF SamePending
  <1>5. GroupsFit(w, Q, W, s) /\ MembersFit(w, Q, W, s)
    BY <1>1, <1>3 DEF GroupsFit, MembersFit
  <1>6. ChatFits(w, Q, W, s)
    BY <1>1, <1>3 DEF ChatFits
  <1>7. InvitedFit(w, Q, W, s)
    <2>0. GroupSide(v, R, W, s) /\ MadeFits(v, R, W, s)
      BY Sides
    <2>1. InvitedFit(w, R, W, s)
      <3> SUFFICES ASSUME NEW h \in s.mine, NEW x \in UserId,
                          ~AsksOf(W, {"acceptInvite"}, h),
                          ~AsksAbout(W, {"removeMemberFromGroup", "cancelInvite",
                                         "inviteMemberToGroup"}, h, x),
                          <<h, x>> \notin s.members
                   PROVE  InvitationFits(w, R, s, h, x)
        BY DEF InvitedFit
      <3>1. InvitationFits(v, R, s, h, x)
        BY <2>0 DEF GroupSide, InvitedFit
      <3>2. h = g /\ x = u => 1 \in DOMAIN R /\ OnInvite(R[1], h, x)
        BY AfterFacts DEF OnInvite
      <3> QED BY <1>1, <3>1, <3>2 DEF InvitationFits
    <2>2. MadeFits(w, R, W, s)
      BY <1>1, <2>0, MadeStays DEF SamePending
    <2>3. ASSUME NEW h \in s.mine, NEW x \in UserId, OnInvite(R[1], h, x)
          PROVE  \/ AsksOf(W, {"acceptInvite"}, h)
                 \/ AsksAbout(W, {"removeMemberFromGroup", "cancelInvite",
                                  "inviteMemberToGroup"}, h, x)
                 \/ <<h, x>> \in s.members
                 \/ \A i \in DOMAIN w.groups : w.groups[i].id = h =>
                       (x \in w.groups[i].invited <=> R[1].call.cmd = "inviteMemberToGroup")
      <3>1. h = g /\ x = u
        BY <2>3 DEF OnInvite
      <3> SUFFICES ASSUME ~AsksOf(W, {"acceptInvite"}, g),
                          ~AsksAbout(W, {"removeMemberFromGroup", "cancelInvite",
                                         "inviteMemberToGroup"}, g, u),
                          <<g, u>> \notin s.members,
                          NEW i \in DOMAIN v.groups, v.groups[i].id = g
                   PROVE  u \in w.groups[i].invited
        BY <1>1, <3>1
      <3>2. \A j \in DOMAIN v.groups : v.groups[j].id = g => i = j
        BY <2>0 DEF GroupSide, GroupsFit
      <3>3. ~AsksAbout(W, {"removeMemberFromGroup"}, g, u)
        BY DEF AsksAbout
      <3>4. u \notin v.groups[i].members
        BY <2>0, <3>1, <3>3 DEF GroupSide, MembersFit
      <3> QED BY <1>1, <3>2, <3>4
    <2> QED BY <2>1, <2>2, <2>3, InvitedAfter
  <1>8. PendingFits(w, Q, W, s) /\ PinsFit(w, Q, W, s) /\ TaskSide(w, Q, W, s)
    BY <1>1, <1>3, SameParts
  <1>9. Fits(w, Q, W, s)
    BY <1>4, <1>5, <1>6, <1>7, <1>8, Sides DEF GroupSide
  <1> QED BY <1>9 DEF w

(* The reply of a createGroup, applied: the row of the group it made is in the copy. *)
LEMMA CreatedGroupFits ==
  ASSUME NEW R, NEW Q, After(R, Q), NEW v \in Local, NEW W, NEW s,
         s.tasks \subseteq TaskRow, s.mine \subseteq GroupId, Fits(v, R, W, s),
         NEW g \in GroupId, R[1].call.cmd = "createGroup", R[1].id = g
  PROVE  Fits([v EXCEPT !.groups = Append(@, NewLocalGroup(g))], Q, W, s)
  <1> DEFINE w == [v EXCEPT !.groups = Append(@, NewLocalGroup(g))]
             n == Len(v.groups) + 1
  <1>1. NewRow(v, w, g) /\ SamePending(v, w) /\ SameTasks(v, w) /\ SamePins(v, w)
    BY NewGroupRows
  <1>2. /\ DOMAIN w.groups = DOMAIN v.groups \cup {n} /\ n \notin DOMAIN v.groups
        /\ \A i \in DOMAIN v.groups : w.groups[i] = v.groups[i]
        /\ w.groups[n].id = g /\ w.groups[n].members = {Me}
        /\ w.groups[n].invited = {} /\ w.groups[n].chat = 0
    BY <1>1 DEF NewRow, NewLocalGroup
  <1> HIDE DEF w, n
  <1>3. R[1].call.cmd \in OnReply
    BY DEF OnReply
  <1>4. /\ MadeFits(v, Q, W, s) /\ MembersFit(v, Q, W, s) /\ InvitedFit(v, Q, W, s)
        /\ PendingFits(v, Q, W, s) /\ PinsFit(v, Q, W, s) /\ TaskSide(v, Q, W, s)
    BY <1>3, RestAfter
  <1>5. GroupSide(v, R, W, s) /\ MadeFits(v, R, W, s)
    BY Sides
  <1>6. 1 \in DOMAIN R /\ MakesGroup(R[1], g) /\ Made(R, g)
    BY AfterFacts DEF MakesGroup, Made
  <1>7. /\ g \in s.mine
        /\ \A u \in UserId : <<g, u>> \in s.members <=> u = Me
        /\ \A i \in DOMAIN v.groups : v.groups[i].id # g
        /\ \A j \in DOMAIN R : MakesGroup(R[j], g) => j = 1
    BY <1>5, <1>6 DEF MadeFits
  <1>8. \A k \in DOMAIN Q : ~MakesGroup(Q[k], g)
    BY <1>7, AfterFacts
  <1>9. \A h : Made(R, h) <=> h = g \/ Made(Q, h)
    BY <1>6, MadeAfter DEF MakesGroup
  <1>10. GroupsFit(w, Q, W, s)
    <2>1. \A i \in DOMAIN w.groups :
             w.groups[i].id \in s.mine \cup s.pending \cup s.joining
      BY <1>2, <1>5, <1>7 DEF GroupSide, GroupsFit
    <2>2. \A i \in DOMAIN w.groups :
             \/ AsksOf(W, {"acceptInvite"}, w.groups[i].id)
             \/ /\ w.groups[i].id \in s.mine
                /\ \A j \in DOMAIN w.groups : w.groups[j].id = w.groups[i].id => i = j
      BY <1>2, <1>5, <1>7 DEF GroupSide, GroupsFit
    <2>3. \A h \in s.mine :
             \/ AsksOf(W, {"deleteGroup"}, h)
             \/ \E i \in DOMAIN w.groups : w.groups[i].id = h
             \/ Made(Q, h)
      <3> TAKE h \in s.mine
      <3>1. \/ AsksOf(W, {"deleteGroup"}, h)
            \/ \E i \in DOMAIN v.groups : v.groups[i].id = h
            \/ Made(R, h)
        BY <1>5 DEF GroupSide, GroupsFit
      <3> QED BY <1>2, <1>9, <3>1
    <2> QED BY <2>1, <2>2, <2>3 DEF GroupsFit
  <1>11. MadeFits(w, Q, W, s)
    BY <1>1, <1>2, <1>4, <1>8 DEF MadeFits, SamePending
  <1>12. MembersFit(w, Q, W, s)
    BY <1>2, <1>4, <1>7 DEF MembersFit
  <1>13. InvitedFit(w, Q, W, s)
    <2> SUFFICES ASSUME NEW h \in s.mine, NEW u \in UserId,
                        ~AsksOf(W, {"acceptInvite"}, h),
                        ~AsksAbout(W, {"removeMemberFromGroup", "cancelInvite",
                                       "inviteMemberToGroup"}, h, u),
                        <<h, u>> \notin s.members
                 PROVE  InvitationFits(w, Q, s, h, u)
      BY DEF InvitedFit
    <2>1. InvitationFits(v, Q, s, h, u) /\ InvitationFits(v, R, s, h, u)
      BY <1>4, <1>5 DEF GroupSide, InvitedFit
    <2>2. ASSUME h = g, \A k \in DOMAIN Q : ~OnInvite(Q[k], h, u)
          PROVE  <<h, u>> \notin s.invited
      <3>1. ~OnInvite(R[1], h, u)
        BY DEF OnInvite
      <3>2. \A k \in DOMAIN R : ~OnInvite(R[k], h, u)
        BY <2>2, <3>1, AfterFacts
      <3> QED BY <1>6, <2>1, <2>2, <3>2 DEF InvitationFits
    <2> QED BY <1>2, <2>1, <2>2 DEF InvitationFits
  <1>14. ChatFits(w, Q, W, s)
    <2> SUFFICES ASSUME NEW h \in s.mine, ~AsksOf(W, {"acceptInvite"}, h)
                 PROVE  /\ \A i \in DOMAIN w.groups :
                              w.groups[i].id = h => w.groups[i].chat + Posts(Q, h) = s.chat[h]
                        /\ Made(Q, h) => Posts(Q, h) = s.chat[h]
      BY DEF ChatFits
    <2>1. /\ \A i \in DOMAIN v.groups :
                v.groups[i].id = h => v.groups[i].chat + Posts(R, h) = s.chat[h]
          /\ Made(R, h) => Posts(R, h) = s.chat[h]
      BY <1>5 DEF GroupSide, ChatFits
    <2>2. Posts(Q, h) \in Nat /\ Posts(R, h) = Posts(Q, h)
      BY PostsAfter
    <2>3. 0 + Posts(Q, h) = Posts(Q, h)
      BY <2>2
    <2> QED BY <1>2, <1>9, <2>1, <2>2, <2>3
  <1>15. PendingFits(w, Q, W, s) /\ PinsFit(w, Q, W, s) /\ TaskSide(w, Q, W, s)
    BY <1>1, <1>4, SameParts
  <1>16. Fits(w, Q, W, s)
    BY <1>10, <1>11, <1>12, <1>13, <1>14, <1>15, Sides DEF GroupSide
  <1> QED BY <1>16 DEF w

(* The reply of a createTask, applied: the row of the task it made is in the copy. *)
LEMMA CreatedTaskFits ==
  ASSUME NEW R, NEW Q, After(R, Q), NEW v \in Local, NEW W, NEW s,
         s.tasks \subseteq TaskRow, s.mine \subseteq GroupId, Fits(v, R, W, s),
         NEW row \in TaskRow, NEW r \in Call, R[1].call = r, r.cmd = "createTask",
         R[1].id = row.id, row.group = r.group, row.owner = Me,
         row.body.done = FALSE, row.body.text = r.body.text
  PROVE  Fits([v EXCEPT !.tasks = Append(@, row)], Q, W, s)
  <1> DEFINE w == [v EXCEPT !.tasks = Append(@, row)]
             n == Len(v.tasks) + 1
             t == row.id
  <1>1. /\ SameGroups(v, w) /\ SamePending(v, w) /\ SamePins(v, w)
        /\ DOMAIN w.tasks = DOMAIN v.tasks \cup {n} /\ n \notin DOMAIN v.tasks
        /\ \A i \in DOMAIN v.tasks : w.tasks[i] = v.tasks[i]
        /\ w.tasks[n] = row
    BY NewTaskRows
  <1>2. t \in TaskId
    BY DEF TaskRow
  <1> HIDE DEF w, n
  <1>3. /\ R[1].call.cmd \in OnReply
        /\ R[1].call.cmd \notin {"createGroup", "sendMessage", "inviteMemberToGroup"}
    BY DEF OnReply
  <1>4. /\ MadeFits(v, Q, W, s) /\ MembersFit(v, Q, W, s) /\ InvitedFit(v, Q, W, s)
        /\ PendingFits(v, Q, W, s) /\ PinsFit(v, Q, W, s)
        /\ GroupsFit(v, Q, W, s) /\ ChatFits(v, Q, W, s)
    BY <1>3, RestAfter
  <1>5. TaskSide(v, R, W, s)
    BY Sides
  <1>6. 1 \in DOMAIN R /\ MakesTask(R[1], t) /\ MadeTask(R, t)
    BY AfterFacts DEF MakesTask, MadeTask
  <1>7. /\ t < s.nextTask
        /\ \A i \in DOMAIN v.tasks : v.tasks[i].id # t
        /\ \A j \in DOMAIN R : MakesTask(R[j], t) => j = 1
        /\ \A x \in s.tasks : x.id = t => x.group = row.group /\ x.owner = row.owner
        /\ (\E x \in s.tasks : x.id = t) \/ Dropped(R, t) \/ AsksTask(W, "deleteTask", t)
    BY <1>2, <1>5, <1>6 DEF TaskSide, MadeTasksFit
  <1>8. \A k \in DOMAIN Q : ~MakesTask(Q[k], t)
    BY <1>7, AfterFacts
  <1>9. \A x : MadeTask(R, x) <=> x = t \/ MadeTask(Q, x)
    BY <1>6, MadeAfter DEF MakesTask
  <1>10. \A cmd, x : cmd # "createTask" => ~OnTask(R[1], cmd, x)
    BY DEF OnTask
  <1>11. \A x : Dropped(R, x) <=> Dropped(Q, x)
    BY <1>10, MadeAfter
  <1>12. \A cmd, x : cmd # "createTask" => (Untouched(R, cmd, x) <=> Untouched(Q, cmd, x))
    BY <1>10, MadeAfter
  <1>13. TasksFit(w, Q, W, s)
    <2>1. \A i, j \in DOMAIN w.tasks : w.tasks[i].id = w.tasks[j].id => i = j
      BY <1>1, <1>5, <1>7 DEF TaskSide, TasksFit
    <2>2. \A i \in DOMAIN w.tasks :
             /\ w.tasks[i].id < s.nextTask
             /\ \A x \in s.tasks : x.id = w.tasks[i].id =>
                   x.group = w.tasks[i].group /\ x.owner = w.tasks[i].owner
             /\ \/ \E x \in s.tasks : x.id = w.tasks[i].id
                \/ Dropped(Q, w.tasks[i].id)
                \/ AsksTask(W, "deleteTask", w.tasks[i].id)
      BY <1>1, <1>5, <1>7, <1>11 DEF TaskSide, TasksFit
    <2>3. ASSUME NEW x \in s.tasks
          PROVE  \/ AsksTask(W, "deleteTask", x.id)
                 \/ AsksOf(W, {"deleteGroup"}, x.group)
                 \/ \E i \in DOMAIN w.tasks : w.tasks[i].id = x.id
                 \/ MadeTask(Q, x.id)
      <3>1. \/ AsksTask(W, "deleteTask", x.id)
            \/ AsksOf(W, {"deleteGroup"}, x.group)
            \/ \E i \in DOMAIN v.tasks : v.tasks[i].id = x.id
            \/ MadeTask(R, x.id)
        BY <1>5 DEF TaskSide, TasksFit
      <3> QED BY <1>1, <1>9, <3>1
    <2>4. \A x \in s.tasks : ~Dropped(Q, x.id)
      BY <1>5, <1>11 DEF TaskSide, TasksFit
    <2> QED BY <2>1, <2>2, <2>3, <2>4 DEF TasksFit
  <1>14. MadeTasksFit(w, Q, W, s)
    <2> SUFFICES ASSUME NEW k \in DOMAIN Q, NEW x \in TaskId, MakesTask(Q[k], x)
                 PROVE  /\ x < s.nextTask
                        /\ \A i \in DOMAIN w.tasks : w.tasks[i].id # x
                        /\ \A j \in DOMAIN Q : MakesTask(Q[j], x) => j = k
                        /\ \A j \in 1..k - 1 : Q[j].call.task # x
                        /\ \A y \in s.tasks : y.id = x =>
                              y.group = Q[k].call.group /\ y.owner = Me
                        /\ \/ \E y \in s.tasks : y.id = x
                           \/ Dropped(Q, x) \/ AsksTask(W, "deleteTask", x)
      BY DEF MadeTasksFit
    <2>1. k \in Nat \ {0} /\ k + 1 \in DOMAIN R /\ MakesTask(R[k + 1], x) /\ Q[k] = R[k + 1]
      BY AfterFacts
    <2>2. /\ x < s.nextTask
          /\ \A i \in DOMAIN v.tasks : v.tasks[i].id # x
          /\ \A j \in DOMAIN R : MakesTask(R[j], x) => j = k + 1
          /\ \A j \in 1..(k + 1) - 1 : R[j].call.task # x
          /\ \A y \in s.tasks : y.id = x => y.group = R[k + 1].call.group /\ y.owner = Me
          /\ \/ \E y \in s.tasks : y.id = x
             \/ Dropped(R, x) \/ AsksTask(W, "deleteTask", x)
      BY <1>5, <2>1 DEF TaskSide, MadeTasksFit
    <2>3. \A j \in DOMAIN Q : MakesTask(Q[j], x) => j = k
      BY <2>1, <2>2, AfterFacts
    <2>4. \A j \in 1..k - 1 : j \in DOMAIN Q /\ Q[j] = R[j + 1] /\ j + 1 \in 1..(k + 1) - 1
      BY <2>1 DEF After
    <2>5. x # t
      BY <1>8
    <2>6. \A i \in DOMAIN w.tasks : w.tasks[i].id # x
      BY <1>1, <2>2, <2>5
    <2>7. \A j \in 1..k - 1 : Q[j].call.task # x
      BY <2>2, <2>4
    <2> QED BY <1>11, <2>1, <2>2, <2>3, <2>6, <2>7
  <1>15. DoneFits(w, Q, W, s)
    <2> SUFFICES ASSUME NEW x \in s.tasks, ~AsksTask(W, "toggleTaskCompletion", x.id)
                 PROVE  /\ ColumnFits(w, Q, "toggleTaskCompletion", "done", x)
                        /\ Untouched(Q, "toggleTaskCompletion", x) /\ MadeTask(Q, x.id) =>
                              x.body.done = FALSE
      BY DEF DoneFits
    <2>1. /\ ColumnFits(v, R, "toggleTaskCompletion", "done", x)
          /\ Untouched(R, "toggleTaskCompletion", x) /\ MadeTask(R, x.id) => x.body.done = FALSE
      BY <1>5 DEF TaskSide, DoneFits
    <2>2. ColumnFits(v, Q, "toggleTaskCompletion", "done", x)
      BY <1>10, <2>1, ColumnAfter
    <2>3. ColumnFits(w, Q, "toggleTaskCompletion", "done", x)
      <3>1. ASSUME Untouched(Q, "toggleTaskCompletion", x), NEW i \in DOMAIN w.tasks,
                   w.tasks[i].id = x.id
            PROVE  w.tasks[i].body.done = x.body.done
        <4>1. CASE i \in DOMAIN v.tasks
          BY <1>1, <2>2, <3>1, <4>1 DEF ColumnFits
        <4>2. CASE i = n
          BY <1>1, <1>6, <1>12, <2>1, <3>1, <4>2
        <4> QED BY <1>1, <4>1, <4>2
      <3> QED BY <2>2, <3>1 DEF ColumnFits
    <2> QED BY <1>9, <1>12, <2>1, <2>3
  <1>16. TextFits(w, Q, W, s)
    <2> SUFFICES ASSUME NEW x \in s.tasks, ~AsksTask(W, "editTask", x.id)
                 PROVE  /\ ColumnFits(w, Q, "editTask", "text", x)
                        /\ Untouched(Q, "editTask", x) => \A k \in DOMAIN Q :
                              MakesTask(Q[k], x.id) => Q[k].call.body.text = x.body.text
      BY DEF TextFits
    <2>1. /\ ColumnFits(v, R, "editTask", "text", x)
          /\ Untouched(R, "editTask", x) => \A k \in DOMAIN R :
                MakesTask(R[k], x.id) => R[k].call.body.text = x.body.text
      BY <1>5 DEF TaskSide, TextFits
    <2>2. ColumnFits(v, Q, "editTask", "text", x)
      BY <1>10, <2>1, ColumnAfter
    <2>3. ColumnFits(w, Q, "editTask", "text", x)
      BY <1>1, <1>6, <1>12, <2>1, <2>2 DEF ColumnFits
    <2>4. ASSUME Untouched(Q, "editTask", x), NEW k \in DOMAIN Q, MakesTask(Q[k], x.id)
          PROVE  Q[k].call.body.text = x.body.text
      BY <1>12, <2>1, <2>4, AfterFacts
    <2> QED BY <2>3, <2>4
  <1>17. GroupSide(w, Q, W, s)
    BY <1>1, <1>4, SameParts DEF GroupSide
  <1>18. PendingFits(w, Q, W, s) /\ PinsFit(w, Q, W, s) /\ MadeFits(w, Q, W, s)
    BY <1>1, <1>4, SameParts, MadeStays DEF SameGroups, SamePending
  <1>19. TaskSide(w, Q, W, s)
    BY <1>13, <1>14, <1>15, <1>16 DEF TaskSide
  <1>20. Fits(w, Q, W, s)
    BY <1>17, <1>18, <1>19, Sides
  <1> QED BY <1>20 DEF w

(* The second overload of the function, and the reply it is called for. *)
LEMMA CreatedFits ==
  ASSUME NEW R, NEW Q, After(R, Q), NEW v \in Local, NEW W, NEW s,
         s.tasks \subseteq TaskRow, s.mine \subseteq GroupId, Fits(v, R, W, s),
         NEW r \in Call, R[1].call = r, r.cmd \in OnReply, NEW id, R[1].id = id,
         r.cmd = "createGroup" => id \in GroupId, r.cmd = "createTask" => id \in TaskId
  PROVE  Fits(Created(v, r, id), Q, W, s)
  <1>1. CASE r.cmd = "createGroup"
    BY <1>1, CreatedGroupFits DEF Created
  <1>2. CASE r.cmd = "createTask"
    <2> DEFINE row == [id |-> id, group |-> r.group, owner |-> Me,
                       body |-> [r.body EXCEPT !.done = FALSE]]
    <2>1. /\ r.group \in GroupId /\ r.body \in [done : BOOLEAN, text : Texts]
      BY ClientSyncAssumption DEF Call
    <2>2. row \in TaskRow
      BY <1>2, <2>1, ClientSyncAssumption, MeIsUser DEF TaskRow
    <2>3. row.id = id /\ row.group = r.group /\ row.owner = Me
      OBVIOUS
    <2>4. row.body.done = FALSE /\ row.body.text = r.body.text
      BY <2>1
    <2>5. Created(v, r, id) = [v EXCEPT !.tasks = Append(@, row)]
      BY <1>2 DEF Created
    <2> HIDE DEF row
    <2>6. Fits([v EXCEPT !.tasks = Append(@, row)], Q, W, s)
      BY <1>2, <2>2, <2>3, <2>4, CreatedTaskFits
    <2> QED BY <2>5, <2>6
  <1>3. CASE r.cmd = "sendMessage"
    BY <1>3, SentMessageFits DEF Created
  <1>4. CASE r.cmd = "inviteMemberToGroup"
    BY <1>4, InvitedMemberFits DEF Created
  <1> QED BY <1>1, <1>2, <1>3, <1>4 DEF OnReply

----------------------------------------------------------------------------
(* The server serves request r and the line gets its reply *)

(* Q is R and reply a after it. *)
Longer(R, Q, a) ==
  \E n \in Nat : /\ DOMAIN R = 1..n /\ DOMAIN Q = 1..n + 1
                 /\ \A k \in 1..n : Q[k] = R[k]
                 /\ Q[n + 1] = a

(* A queue with an element appended is Longer. *)
LEMMA AppendLonger ==
  ASSUME NEW S, NEW R \in Seq(S), NEW a
  PROVE  Longer(R, Append(R, a), a)
  <1>1. Len(R) \in Nat /\ DOMAIN R = 1..Len(R)
    OBVIOUS
  <1>2. DOMAIN Append(R, a) = 1..Len(R) + 1 /\ Append(R, a)[Len(R) + 1] = a
    OBVIOUS
  <1>3. \A k \in 1..Len(R) : Append(R, a)[k] = R[k]
    OBVIOUS
  <1> QED BY <1>1, <1>2, <1>3 DEF Longer

(* The places of a queue before and after an element is appended. *)
LEMMA LongerFacts ==
  ASSUME NEW R, NEW Q, NEW a, Longer(R, Q, a)
  PROVE  /\ \A k \in DOMAIN R : k \in DOMAIN Q /\ Q[k] = R[k] /\ k \in Nat \ {0}
         /\ \A k \in DOMAIN Q : /\ k \in Nat \ {0}
                                /\ (k \in DOMAIN R /\ Q[k] = R[k]) \/ (k \notin DOMAIN R /\ Q[k] = a)
         /\ \E k \in DOMAIN Q : /\ k \notin DOMAIN R /\ Q[k] = a
                                /\ \A j \in DOMAIN Q : j # k => j \in DOMAIN R /\ j < k
                                /\ \A j \in 1..k - 1 : j \in DOMAIN R
         /\ \A k \in DOMAIN R : \A j \in 1..k - 1 : j \in DOMAIN R
         /\ \A k \in DOMAIN Q, j \in DOMAIN R : k \notin DOMAIN R => k > j
  BY DEF Longer

(* What the replies say is said by the old ones or by the new one. *)
LEMMA MadeLonger ==
  ASSUME NEW R, NEW Q, NEW a, Longer(R, Q, a)
  PROVE  /\ \A g : Made(Q, g) <=> MakesGroup(a, g) \/ Made(R, g)
         /\ \A t : MadeTask(Q, t) <=> MakesTask(a, t) \/ MadeTask(R, t)
         /\ \A t : Dropped(Q, t) <=> OnTask(a, "deleteTask", t) \/ Dropped(R, t)
         /\ \A cmd, x : Untouched(Q, cmd, x) <=> ~OnTask(a, cmd, x.id) /\ Untouched(R, cmd, x)
  <1>1. \A g : Made(Q, g) <=> MakesGroup(a, g) \/ Made(R, g)
    BY LongerFacts DEF Made
  <1>2. \A t : MadeTask(Q, t) <=> MakesTask(a, t) \/ MadeTask(R, t)
    BY LongerFacts DEF MadeTask
  <1>3. \A t : Dropped(Q, t) <=> OnTask(a, "deleteTask", t) \/ Dropped(R, t)
    BY LongerFacts DEF Dropped
  <1>4. \A cmd, x : Untouched(Q, cmd, x) <=> ~OnTask(a, cmd, x.id) /\ Untouched(R, cmd, x)
    BY LongerFacts DEF Untouched
  <1> QED BY <1>1, <1>2, <1>3, <1>4

(* The new reply counts as one post of its group if it is one. *)
LEMMA PostsLonger ==
  ASSUME NEW R, NEW Q, NEW a, Longer(R, Q, a), NEW g
  PROVE  /\ Posts(R, g) \in Nat
         /\ a.call.cmd = "sendMessage" /\ a.call.group = g => Posts(Q, g) = Posts(R, g) + 1
         /\ ~(a.call.cmd = "sendMessage" /\ a.call.group = g) => Posts(Q, g) = Posts(R, g)
  <1> DEFINE A == PostPlaces(R, g)
             B == PostPlaces(Q, g)
  <1>1. PICK n \in Nat : /\ DOMAIN R = 1..n /\ DOMAIN Q = 1..n + 1
                         /\ \A k \in 1..n : Q[k] = R[k]
                         /\ Q[n + 1] = a
    BY DEF Longer
  <1>2. IsFiniteSet(A) /\ Cardinality(A) \in Nat
    <2>1. n \in Int /\ 1 \in Int
      BY <1>1
    <2>2. IsFiniteSet(1..n)
      BY <2>1, FS_Interval
    <2>3. A \subseteq 1..n
      BY <1>1 DEF PostPlaces
    <2> QED BY <2>2, <2>3, FS_Subset, FS_CardinalityType
  <1>3. n + 1 \notin A
    BY <1>1 DEF PostPlaces
  <1>4. a.call.cmd = "sendMessage" /\ a.call.group = g => B = A \cup {n + 1}
    BY <1>1 DEF PostPlaces
  <1>5. ~(a.call.cmd = "sendMessage" /\ a.call.group = g) => B = A
    BY <1>1 DEF PostPlaces
  <1>6. Posts(R, g) = Cardinality(A) /\ Posts(Q, g) = Cardinality(B)
    BY DEF Posts, PostPlaces
  <1> HIDE DEF A, B
  <1>7. Cardinality(A \cup {n + 1}) = Cardinality(A) + 1
    BY <1>2, <1>3, FS_AddElement
  <1> QED BY <1>2, <1>4, <1>5, <1>6, <1>7

(* What excuses a row before the route of r, and no more after it. *)
LEMMA AsksLess ==
  ASSUME NEW W, NEW X, NEW r, W \subseteq X \cup {r}
  PROVE  /\ \A cmds, g : AsksOf(W, cmds, g) =>
               AsksOf(X, cmds, g) \/ (r.cmd \in cmds /\ r.group = g)
         /\ \A cmds, g, u : AsksAbout(W, cmds, g, u) =>
               AsksAbout(X, cmds, g, u) \/ (r.cmd \in cmds /\ r.group = g /\ r.user = u)
         /\ \A cmd, t : AsksTask(W, cmd, t) =>
               AsksTask(X, cmd, t) \/ (r.cmd = cmd /\ r.task = t)
  BY DEF AsksOf, AsksAbout, AsksTask

(* An invitation fits the longer line if the new reply, or else the old line, tells it. *)
LEMMA InvitationLonger ==
  ASSUME NEW R, NEW Q, NEW a, Longer(R, Q, a), NEW v, NEW s, NEW s2, NEW g, NEW u,
         OnInvite(a, g, u) => (a.call.cmd = "inviteMemberToGroup" <=> <<g, u>> \in s2.invited),
         ~OnInvite(a, g, u) => /\ InvitationFits(v, R, s, g, u)
                               /\ (<<g, u>> \in s.invited <=> <<g, u>> \in s2.invited)
                               /\ ~MakesGroup(a, g)
  PROVE  InvitationFits(v, Q, s2, g, u)
  <1>1. CASE OnInvite(a, g, u)
    <2>1. PICK k \in DOMAIN Q : Q[k] = a /\ \A j \in DOMAIN Q : j # k => j < k
      BY LongerFacts
    <2>2. ASSUME NEW i \in DOMAIN Q, \A j \in DOMAIN Q : j > i => ~OnInvite(Q[j], g, u)
          PROVE  i = k
      <3>1. i \in Nat /\ k \in Nat
        BY LongerFacts
      <3>2. ~(k > i)
        BY <1>1, <2>1, <2>2
      <3> QED BY <2>1, <3>1, <3>2
    <2> QED BY <1>1, <2>1, <2>2 DEF InvitationFits
  <1>2. CASE ~OnInvite(a, g, u)
    <2>1. ASSUME NEW k \in DOMAIN Q, OnInvite(Q[k], g, u),
                 \A j \in DOMAIN Q : j > k => ~OnInvite(Q[j], g, u)
          PROVE  Q[k].call.cmd = "inviteMemberToGroup" <=> <<g, u>> \in s2.invited
      <3>1. k \in DOMAIN R /\ Q[k] = R[k]
        BY <1>2, <2>1, LongerFacts
      <3>2. \A j \in DOMAIN R : j > k => ~OnInvite(R[j], g, u)
        BY <2>1, LongerFacts
      <3> QED BY <1>2, <2>1, <3>1, <3>2 DEF InvitationFits
    <2>2. (\A k \in DOMAIN Q : ~OnInvite(Q[k], g, u)) => \A k \in DOMAIN R : ~OnInvite(R[k], g, u)
      BY LongerFacts
    <2>3. Made(Q, g) => Made(R, g)
      BY <1>2, MadeLonger
    <2> QED BY <1>2, <2>1, <2>2, <2>3 DEF InvitationFits
  <1> QED BY <1>1, <1>2

(* A column fits the longer line if the new reply, or else the old line, tells it. *)
LEMMA ColumnLonger ==
  ASSUME NEW R, NEW Q, NEW a, Longer(R, Q, a), NEW v, NEW x, NEW y, NEW cmd, NEW c, x.id = y.id,
         OnTask(a, cmd, y.id) => a.call.body[c] = y.body[c],
         ~OnTask(a, cmd, y.id) => ColumnFits(v, R, cmd, c, x) /\ y.body[c] = x.body[c]
  PROVE  ColumnFits(v, Q, cmd, c, y)
  <1>1. CASE OnTask(a, cmd, y.id)
    <2>1. PICK k \in DOMAIN Q : Q[k] = a /\ \A j \in DOMAIN Q : j # k => j < k
      BY LongerFacts
    <2>2. ASSUME NEW i \in DOMAIN Q, \A j \in DOMAIN Q : j > i => ~OnTask(Q[j], cmd, y.id)
          PROVE  i = k
      <3>1. i \in Nat /\ k \in Nat
        BY LongerFacts
      <3>2. ~(k > i)
        BY <1>1, <2>1, <2>2
      <3> QED BY <2>1, <3>1, <3>2
    <2>3. ~Untouched(Q, cmd, y)
      BY <1>1, <2>1 DEF Untouched
    <2> QED BY <1>1, <2>1, <2>2, <2>3 DEF ColumnFits
  <1>2. CASE ~OnTask(a, cmd, y.id)
    <2>1. ASSUME NEW k \in DOMAIN Q, OnTask(Q[k], cmd, y.id),
                 \A j \in DOMAIN Q : j > k => ~OnTask(Q[j], cmd, y.id)
          PROVE  Q[k].call.body[c] = y.body[c]
      <3>1. k \in DOMAIN R /\ Q[k] = R[k]
        BY <1>2, <2>1, LongerFacts
      <3>2. \A j \in DOMAIN R : j > k => ~OnTask(R[j], cmd, x.id)
        BY <2>1, LongerFacts
      <3> QED BY <1>2, <2>1, <3>1, <3>2 DEF ColumnFits
    <2>2. Untouched(Q, cmd, y) => Untouched(R, cmd, x)
      BY LongerFacts DEF Untouched
    <2> QED BY <1>2, <2>1, <2>2 DEF ColumnFits
  <1> QED BY <1>1, <1>2

GroupExcuses == {"acceptInvite", "deleteGroup", "removeMemberFromGroup", "cancelInvite",
                 "inviteMemberToGroup", "denyInvite", "togglePinGroup"}
TaskExcuses == {"deleteTask", "toggleTaskCompletion", "editTask", "deleteGroup"}

(* What is asked for in W and no more in X excuses nothing of one side. *)
Less(W, X, excuses) == \A x \in W : x \in X \/ x.cmd \notin excuses

(* Excuses of the group side outlive a request that was none of them. *)
LEMMA GroupAsksLess ==
  ASSUME NEW W, NEW X, Less(W, X, GroupExcuses)
  PROVE  /\ \A cmds, g : cmds \subseteq GroupExcuses /\ AsksOf(W, cmds, g) => AsksOf(X, cmds, g)
         /\ \A cmds, g, u :
               cmds \subseteq GroupExcuses /\ AsksAbout(W, cmds, g, u) => AsksAbout(X, cmds, g, u)
  BY DEF Less, AsksOf, AsksAbout

SameGroupTables(s, z) ==
  /\ z.mine = s.mine /\ z.members = s.members /\ z.invited = s.invited
  /\ z.pending = s.pending /\ z.joining = s.joining /\ z.pins = s.pins /\ z.chat = s.chat

GroupParts(v, R, W, s) ==
  /\ GroupSide(v, R, W, s) /\ MadeFits(v, R, W, s)
  /\ PendingFits(v, R, W, s) /\ PinsFit(v, R, W, s)

(* A reply that makes no group adds nothing to what was made. *)
LEMMA MadeFitsLonger ==
  ASSUME NEW R, NEW Q, NEW a, Longer(R, Q, a), NEW v, NEW W, NEW X, NEW s, NEW z,
         a.call.cmd # "createGroup", MadeFits(v, R, W, s),
         z.mine = s.mine, z.members = s.members
  PROVE  MadeFits(v, Q, X, z)
  <1> SUFFICES ASSUME NEW k \in DOMAIN Q, NEW g \in GroupId, MakesGroup(Q[k], g)
               PROVE  /\ g \in z.mine
                      /\ \A u \in UserId : <<g, u>> \in z.members <=> u = Me
                      /\ \A i \in DOMAIN v.groups : v.groups[i].id # g
                      /\ \A i \in DOMAIN v.pending : v.pending[i] # g
                      /\ \A j \in DOMAIN Q : MakesGroup(Q[j], g) => j = k
                      /\ \A j \in 1..k - 1 : Q[j].call.group # g
    BY DEF MadeFits
  <1>1. \A j \in DOMAIN Q : MakesGroup(Q[j], g) => j \in DOMAIN R /\ Q[j] = R[j]
    BY LongerFacts DEF MakesGroup
  <1>2. k \in DOMAIN R /\ MakesGroup(R[k], g)
    BY <1>1
  <1>3. /\ g \in s.mine
        /\ \A u \in UserId : <<g, u>> \in s.members <=> u = Me
        /\ \A i \in DOMAIN v.groups : v.groups[i].id # g
        /\ \A i \in DOMAIN v.pending : v.pending[i] # g
        /\ \A j \in DOMAIN R : MakesGroup(R[j], g) => j = k
        /\ \A j \in 1..k - 1 : R[j].call.group # g
    BY <1>2 DEF MadeFits
  <1>4. \A j \in 1..k - 1 : Q[j] = R[j]
    BY <1>2, LongerFacts
  <1> QED BY <1>1, <1>3, <1>4

(* A reply that says nothing about groups leaves how the groups fit. *)
LEMMA GroupPartsLonger ==
  ASSUME NEW R, NEW Q, NEW a, Longer(R, Q, a), NEW v, NEW W, NEW X, NEW s, NEW z,
         a.call.cmd \notin {"createGroup", "sendMessage", "cancelInvite", "inviteMemberToGroup"},
         Less(W, X, GroupExcuses), SameGroupTables(s, z), GroupParts(v, R, W, s)
  PROVE  GroupParts(v, Q, X, z)
  <1>1. /\ \A cmds, g : cmds \subseteq GroupExcuses /\ AsksOf(W, cmds, g) => AsksOf(X, cmds, g)
        /\ \A cmds, g, u :
              cmds \subseteq GroupExcuses /\ AsksAbout(W, cmds, g, u) => AsksAbout(X, cmds, g, u)
    BY GroupAsksLess
  <1>2. /\ \A g : AsksOf(W, {"acceptInvite"}, g) => AsksOf(X, {"acceptInvite"}, g)
        /\ \A g : AsksOf(W, {"deleteGroup"}, g) => AsksOf(X, {"deleteGroup"}, g)
        /\ \A g : AsksOf(W, {"acceptInvite", "denyInvite"}, g) =>
                     AsksOf(X, {"acceptInvite", "denyInvite"}, g)
        /\ \A g : AsksOf(W, {"togglePinGroup", "deleteGroup"}, g) =>
                     AsksOf(X, {"togglePinGroup", "deleteGroup"}, g)
        /\ \A g, u : AsksAbout(W, {"removeMemberFromGroup"}, g, u) =>
                        AsksAbout(X, {"removeMemberFromGroup"}, g, u)
        /\ \A g, u : AsksAbout(W, {"removeMemberFromGroup", "cancelInvite",
                                   "inviteMemberToGroup"}, g, u) =>
                        AsksAbout(X, {"removeMemberFromGroup", "cancelInvite",
                                      "inviteMemberToGroup"}, g, u)
    BY <1>1 DEF GroupExcuses
  <1>3. /\ \A g : ~MakesGroup(a, g)
        /\ \A g : Made(Q, g) <=> Made(R, g)
    BY MadeLonger DEF MakesGroup
  <1>4. \A g : Posts(Q, g) = Posts(R, g)
    BY PostsLonger
  <1>5. GroupsFit(v, Q, X, z)
    BY <1>2, <1>3 DEF GroupParts, GroupSide, GroupsFit, SameGroupTables
  <1>6. MembersFit(v, Q, X, z)
    BY <1>2 DEF GroupParts, GroupSide, MembersFit, SameGroupTables
  <1>7. InvitedFit(v, Q, X, z)
    <2> SUFFICES ASSUME NEW g \in z.mine, NEW u \in UserId,
                        ~AsksOf(X, {"acceptInvite"}, g),
                        ~AsksAbout(X, {"removeMemberFromGroup", "cancelInvite",
                                       "inviteMemberToGroup"}, g, u),
                        <<g, u>> \notin z.members
                 PROVE  InvitationFits(v, Q, z, g, u)
      BY DEF InvitedFit
    <2>1. InvitationFits(v, R, s, g, u)
      BY <1>2 DEF GroupParts, GroupSide, InvitedFit, SameGroupTables
    <2>2. ~OnInvite(a, g, u)
      BY DEF OnInvite
    <2>3. <<g, u>> \in s.invited <=> <<g, u>> \in z.invited
      BY DEF SameGroupTables
    <2> QED BY <1>3, <2>1, <2>2, <2>3, InvitationLonger
  <1>8. ChatFits(v, Q, X, z)
    BY <1>2, <1>3, <1>4 DEF GroupParts, GroupSide, ChatFits, SameGroupTables
  <1>9. MadeFits(v, Q, X, z)
    BY MadeFitsLonger DEF GroupParts, SameGroupTables
  <1>10. PendingFits(v, Q, X, z)
    BY <1>2 DEF GroupParts, PendingFits, SameGroupTables
  <1>11. PinsFit(v, Q, X, z)
    BY <1>2 DEF GroupParts, PinsFit, SameGroupTables
  <1> QED BY <1>5, <1>6, <1>7, <1>8, <1>9, <1>10, <1>11 DEF GroupParts, GroupSide

(* Tasks made by the replies fit after another reply, unless that makes one as well. *)
LEMMA MadeTasksLonger ==
  ASSUME NEW R, NEW Q, NEW a, Longer(R, Q, a), NEW v, NEW W, NEW X, NEW s, NEW z,
         a.call.cmd # "createTask", MadeTasksFit(v, R, W, s), s.nextTask = z.nextTask,
         \A t : AsksTask(W, "deleteTask", t) =>
                   AsksTask(X, "deleteTask", t) \/ OnTask(a, "deleteTask", t),
         \A x \in s.tasks : (\E y \in z.tasks : y.id = x.id) \/ OnTask(a, "deleteTask", x.id),
         \A y \in z.tasks : \E x \in s.tasks :
            x.id = y.id /\ x.group = y.group /\ x.owner = y.owner
  PROVE  MadeTasksFit(v, Q, X, z)
  <1> SUFFICES ASSUME NEW k \in DOMAIN Q, NEW t \in TaskId, MakesTask(Q[k], t)
               PROVE  /\ t < z.nextTask
                      /\ \A i \in DOMAIN v.tasks : v.tasks[i].id # t
                      /\ \A j \in DOMAIN Q : MakesTask(Q[j], t) => j = k
                      /\ \A j \in 1..k - 1 : Q[j].call.task # t
                      /\ \A x \in z.tasks :
                            x.id = t => x.group = Q[k].call.group /\ x.owner = Me
                      /\ \/ \E x \in z.tasks : x.id = t
                         \/ Dropped(Q, t) \/ AsksTask(X, "deleteTask", t)
    BY DEF MadeTasksFit
  <1>1. \A j \in DOMAIN Q : MakesTask(Q[j], t) => j \in DOMAIN R /\ Q[j] = R[j]
    BY LongerFacts DEF MakesTask
  <1>2. k \in DOMAIN R /\ MakesTask(R[k], t) /\ Q[k] = R[k]
    BY <1>1
  <1>3. /\ t < s.nextTask
        /\ \A i \in DOMAIN v.tasks : v.tasks[i].id # t
        /\ \A j \in DOMAIN R : MakesTask(R[j], t) => j = k
        /\ \A j \in 1..k - 1 : R[j].call.task # t
        /\ \A x \in s.tasks : x.id = t => x.group = R[k].call.group /\ x.owner = Me
        /\ (\E x \in s.tasks : x.id = t) \/ Dropped(R, t) \/ AsksTask(W, "deleteTask", t)
    BY <1>2 DEF MadeTasksFit
  <1>4. \A j \in 1..k - 1 : Q[j] = R[j]
    BY <1>2, LongerFacts
  <1>5. (\E x \in z.tasks : x.id = t) \/ Dropped(Q, t) \/ AsksTask(X, "deleteTask", t)
    BY <1>3, MadeLonger
  <1>6. \A x \in z.tasks : x.id = t => x.group = Q[k].call.group /\ x.owner = Me
    BY <1>2, <1>3
  <1>7. \A j \in DOMAIN Q : MakesTask(Q[j], t) => j = k
    BY <1>1, <1>3
  <1>8. \A j \in 1..k - 1 : Q[j].call.task # t
    BY <1>3, <1>4
  <1> QED BY <1>3, <1>5, <1>6, <1>7, <1>8

(* A reply that says nothing about tasks leaves how the tasks fit. *)
LEMMA TaskSideLonger ==
  ASSUME NEW R, NEW Q, NEW a, Longer(R, Q, a), NEW v, NEW W, NEW X, NEW s, NEW z,
         a.call.cmd \notin {"createTask", "deleteTask", "toggleTaskCompletion", "editTask"},
         Less(W, X, TaskExcuses), z.tasks = s.tasks, z.nextTask = s.nextTask,
         TaskSide(v, R, W, s)
  PROVE  TaskSide(v, Q, X, z)
  <1>1. /\ \A t : AsksTask(W, "deleteTask", t) => AsksTask(X, "deleteTask", t)
        /\ \A t : AsksTask(W, "toggleTaskCompletion", t) => AsksTask(X, "toggleTaskCompletion", t)
        /\ \A t : AsksTask(W, "editTask", t) => AsksTask(X, "editTask", t)
        /\ \A g : AsksOf(W, {"deleteGroup"}, g) => AsksOf(X, {"deleteGroup"}, g)
    BY DEF Less, TaskExcuses, AsksTask, AsksOf
  <1>2. /\ \A t : ~MakesTask(a, t)
        /\ \A cmd, t : cmd \in {"deleteTask", "toggleTaskCompletion", "editTask"} =>
                           ~OnTask(a, cmd, t)
    BY DEF MakesTask, OnTask
  <1>3. /\ \A t : MadeTask(Q, t) <=> MadeTask(R, t)
        /\ \A t : Dropped(Q, t) <=> Dropped(R, t)
        /\ \A x : Untouched(Q, "toggleTaskCompletion", x) <=>
                     Untouched(R, "toggleTaskCompletion", x)
        /\ \A x : Untouched(Q, "editTask", x) <=> Untouched(R, "editTask", x)
    BY <1>2, MadeLonger
  <1>4. TasksFit(v, Q, X, z)
    BY <1>1, <1>3 DEF TaskSide, TasksFit
  <1>5. MadeTasksFit(v, Q, X, z)
    BY <1>1, MadeTasksLonger DEF TaskSide
  <1>6. DoneFits(v, Q, X, z)
    <2> SUFFICES ASSUME NEW x \in s.tasks, ~AsksTask(W, "toggleTaskCompletion", x.id)
                 PROVE  /\ ColumnFits(v, Q, "toggleTaskCompletion", "done", x)
                        /\ Untouched(Q, "toggleTaskCompletion", x) /\ MadeTask(Q, x.id) =>
                              x.body.done = FALSE
      BY <1>1 DEF DoneFits
    <2>1. /\ ColumnFits(v, R, "toggleTaskCompletion", "done", x)
          /\ Untouched(R, "toggleTaskCompletion", x) /\ MadeTask(R, x.id) => x.body.done = FALSE
      BY DEF TaskSide, DoneFits
    <2>2. ColumnFits(v, Q, "toggleTaskCompletion", "done", x)
      BY <1>2, <2>1, ColumnLonger
    <2> QED BY <1>3, <2>1, <2>2
  <1>7. TextFits(v, Q, X, z)
    <2> SUFFICES ASSUME NEW x \in s.tasks, ~AsksTask(W, "editTask", x.id)
                 PROVE  /\ ColumnFits(v, Q, "editTask", "text", x)
                        /\ Untouched(Q, "editTask", x) => \A k \in DOMAIN Q :
                              MakesTask(Q[k], x.id) => Q[k].call.body.text = x.body.text
      BY <1>1 DEF TextFits
    <2>1. /\ ColumnFits(v, R, "editTask", "text", x)
          /\ Untouched(R, "editTask", x) => \A k \in DOMAIN R :
                MakesTask(R[k], x.id) => R[k].call.body.text = x.body.text
      BY DEF TaskSide, TextFits
    <2>2. ColumnFits(v, Q, "editTask", "text", x)
      BY <1>2, <2>1, ColumnLonger
    <2>3. \A k \in DOMAIN Q : MakesTask(Q[k], x.id) => k \in DOMAIN R /\ Q[k] = R[k]
      BY <1>2, LongerFacts
    <2> QED BY <1>3, <2>1, <2>2, <2>3
  <1> QED BY <1>4, <1>5, <1>6, <1>7 DEF TaskSide

(* Fits is what its groups and its tasks ask for. *)
LEMMA PartsOfFits ==
  ASSUME NEW v, NEW R, NEW W, NEW s
  PROVE  Fits(v, R, W, s) <=> GroupParts(v, R, W, s) /\ TaskSide(v, R, W, s)
  BY Sides DEF GroupParts

(* Replies that the rows already show. *)
LEMMA NeutralFits ==
  ASSUME NEW R, NEW Q, NEW a, Longer(R, Q, a), NEW v, NEW W, NEW s, Fits(v, R, W, s),
         a.call.cmd \in {"togglePinGroup", "deleteGroup", "removeMemberFromGroup",
                         "acceptInvite", "denyInvite"}
  PROVE  Fits(v, Q, W, s)
  <1>1. Less(W, W, GroupExcuses) /\ Less(W, W, TaskExcuses) /\ SameGroupTables(s, s)
    BY DEF Less, SameGroupTables
  <1>2. GroupParts(v, R, W, s) /\ TaskSide(v, R, W, s)
    BY PartsOfFits
  <1>3. GroupParts(v, Q, W, s)
    BY <1>1, <1>2, GroupPartsLonger
  <1>4. TaskSide(v, Q, W, s)
    BY <1>1, <1>2, TaskSideLonger
  <1> QED BY <1>3, <1>4, PartsOfFits

(* Of a group the copy cannot show nothing has to be excused. *)
LEMMA AbsentGroupFits ==
  ASSUME NEW v, NEW R, NEW W, NEW X, NEW s, NEW r, Fits(v, R, W, s), W \subseteq X \cup {r},
         r.cmd \in {"removeMemberFromGroup", "acceptInvite"},
         r.group \notin s.mine \cup s.pending \cup s.joining
  PROVE  Fits(v, R, X, s)
  <1>1. /\ \A cmds, g : AsksOf(W, cmds, g) =>
              AsksOf(X, cmds, g) \/ (r.cmd \in cmds /\ r.group = g)
        /\ \A cmds, g, u : AsksAbout(W, cmds, g, u) =>
              AsksAbout(X, cmds, g, u) \/ (r.cmd \in cmds /\ r.group = g /\ r.user = u)
        /\ \A cmd, t : AsksTask(W, cmd, t) =>
              AsksTask(X, cmd, t) \/ (r.cmd = cmd /\ r.task = t)
    BY AsksLess
  <1>2. GroupParts(v, R, W, s) /\ TaskSide(v, R, W, s)
    BY PartsOfFits
  <1>3. \A i \in DOMAIN v.groups : v.groups[i].id \in s.mine \cup s.pending \cup s.joining
    BY <1>2 DEF GroupParts, GroupSide, GroupsFit
  <1>4. GroupsFit(v, R, X, s)
    BY <1>1, <1>2 DEF GroupParts, GroupSide, GroupsFit
  <1>5. MembersFit(v, R, X, s)
    BY <1>1, <1>2, <1>3 DEF GroupParts, GroupSide, MembersFit
  <1>6. InvitedFit(v, R, X, s)
    <2> SUFFICES ASSUME NEW g \in s.mine, NEW u \in UserId
                 PROVE  \/ AsksOf(X, {"acceptInvite"}, g)
                        \/ AsksAbout(X, {"removeMemberFromGroup", "cancelInvite",
                                         "inviteMemberToGroup"}, g, u)
                        \/ <<g, u>> \in s.members
                        \/ InvitationFits(v, R, s, g, u)
      BY DEF InvitedFit
    <2>1. \/ AsksOf(W, {"acceptInvite"}, g)
          \/ AsksAbout(W, {"removeMemberFromGroup", "cancelInvite", "inviteMemberToGroup"}, g, u)
          \/ <<g, u>> \in s.members
          \/ InvitationFits(v, R, s, g, u)
      BY <1>2 DEF GroupParts, GroupSide, InvitedFit
    <2>2. r.group # g
      OBVIOUS
    <2> QED BY <1>1, <2>1, <2>2
  <1>7. ChatFits(v, R, X, s)
    BY <1>1, <1>2 DEF GroupParts, GroupSide, ChatFits
  <1>8. MadeFits(v, R, X, s)
    BY <1>2 DEF GroupParts, MadeFits
  <1>9. PendingFits(v, R, X, s)
    BY <1>1, <1>2 DEF GroupParts, PendingFits
  <1>10. PinsFit(v, R, X, s)
    BY <1>1, <1>2 DEF GroupParts, PinsFit
  <1>11. TaskSide(v, R, X, s)
    <2>1. TasksFit(v, R, X, s)
      BY <1>1, <1>2 DEF TaskSide, TasksFit
    <2>2. MadeTasksFit(v, R, X, s)
      BY <1>1, <1>2 DEF TaskSide, MadeTasksFit
    <2>3. DoneFits(v, R, X, s)
      BY <1>1, <1>2 DEF TaskSide, DoneFits
    <2>4. TextFits(v, R, X, s)
      BY <1>1, <1>2 DEF TaskSide, TextFits
    <2> QED BY <2>1, <2>2, <2>3, <2>4 DEF TaskSide
  <1> QED BY <1>4, <1>5, <1>6, <1>7, <1>8, <1>9, <1>10, <1>11, PartsOfFits DEF GroupParts, GroupSide

(* A row of the invitations was added or removed. *)
LEMMA InviteServedFits ==
  ASSUME NEW R, NEW Q, NEW a, Longer(R, Q, a), NEW v, NEW W, NEW X, NEW s, NEW z, NEW r,
         Fits(v, R, W, s), W \subseteq X \cup {r}, a.call = r,
         r.cmd \in {"cancelInvite", "inviteMemberToGroup"},
         z.mine = s.mine, z.members = s.members, z.pending = s.pending,
         z.joining = s.joining, z.pins = s.pins, z.chat = s.chat,
         z.tasks = s.tasks, z.nextTask = s.nextTask,
         \A g \in s.mine, u \in UserId :
            (g = r.group /\ u = r.user) \/ (<<g, u>> \in z.invited <=> <<g, u>> \in s.invited),
         r.group \in s.mine /\ <<r.group, r.user>> \notin s.members =>
            (r.cmd = "inviteMemberToGroup" <=> <<r.group, r.user>> \in z.invited)
  PROVE  Fits(v, Q, X, z)
  <1>0. W \subseteq X \cup {r}
    OBVIOUS
  <1>1. /\ \A cmds, g : AsksOf(W, cmds, g) =>
              AsksOf(X, cmds, g) \/ (r.cmd \in cmds /\ r.group = g)
        /\ \A cmds, g, u : AsksAbout(W, cmds, g, u) =>
              AsksAbout(X, cmds, g, u) \/ (r.cmd \in cmds /\ r.group = g /\ r.user = u)
        /\ \A cmd, t : AsksTask(W, cmd, t) =>
              AsksTask(X, cmd, t) \/ (r.cmd = cmd /\ r.task = t)
    BY ONLY <1>0, AsksLess
  <1>2. GroupParts(v, R, W, s) /\ TaskSide(v, R, W, s)
    BY PartsOfFits
  <1>3. /\ \A g : ~MakesGroup(a, g)
        /\ \A g : Made(Q, g) <=> Made(R, g)
    BY MadeLonger DEF MakesGroup
  <1>4. \A g : Posts(Q, g) = Posts(R, g)
    BY PostsLonger
  <1>5. GroupsFit(v, Q, X, z)
    BY <1>1, <1>2, <1>3 DEF GroupParts, GroupSide, GroupsFit
  <1>6. MembersFit(v, Q, X, z)
    BY <1>1, <1>2 DEF GroupParts, GroupSide, MembersFit
  <1>7. InvitedFit(v, Q, X, z)
    <2> SUFFICES ASSUME NEW g \in s.mine, NEW u \in UserId,
                        ~AsksOf(X, {"acceptInvite"}, g),
                        ~AsksAbout(X, {"removeMemberFromGroup", "cancelInvite",
                                       "inviteMemberToGroup"}, g, u),
                        <<g, u>> \notin s.members
                 PROVE  InvitationFits(v, Q, z, g, u)
      BY DEF InvitedFit
    <2>1. OnInvite(a, g, u) <=> g = r.group /\ u = r.user
      BY DEF OnInvite
    <2>2. CASE OnInvite(a, g, u)
      <3>1. a.call.cmd = "inviteMemberToGroup" <=> <<g, u>> \in z.invited
        BY <2>1, <2>2
      <3> QED BY <2>2, <3>1, InvitationLonger
    <2>3. CASE ~OnInvite(a, g, u)
      <3>1. ~AsksOf(W, {"acceptInvite"}, g)
        BY <1>1
      <3>2. ~AsksAbout(W, {"removeMemberFromGroup", "cancelInvite", "inviteMemberToGroup"}, g, u)
        BY <1>1, <2>1, <2>3
      <3>3. InvitationFits(v, R, s, g, u)
        BY <1>2, <3>1, <3>2 DEF GroupParts, GroupSide, InvitedFit
      <3>4. <<g, u>> \in s.invited <=> <<g, u>> \in z.invited
        BY <2>1, <2>3
      <3> QED BY <1>3, <2>3, <3>3, <3>4, InvitationLonger
    <2> QED BY <2>2, <2>3
  <1>8. ChatFits(v, Q, X, z)
    BY <1>1, <1>2, <1>3, <1>4 DEF GroupParts, GroupSide, ChatFits
  <1>9. MadeFits(v, Q, X, z)
    BY <1>2, MadeFitsLonger DEF GroupParts
  <1>10. PendingFits(v, Q, X, z)
    BY <1>1, <1>2 DEF GroupParts, PendingFits
  <1>11. PinsFit(v, Q, X, z)
    BY <1>1, <1>2 DEF GroupParts, PinsFit
  <1>12. TaskSide(v, Q, X, z)
    <2>1. Less(W, X, TaskExcuses)
      BY DEF Less, TaskExcuses
    <2> QED BY <1>2, <2>1, TaskSideLonger
  <1> QED BY <1>5, <1>6, <1>7, <1>8, <1>9, <1>10, <1>11, <1>12, PartsOfFits DEF GroupParts, GroupSide

(* A message was added, to a group of the client or to none. *)
LEMMA MessageServedFits ==
  ASSUME NEW R, NEW Q, NEW a, Longer(R, Q, a), NEW v \in Local, NEW W, NEW X, NEW s, NEW z, NEW r,
         Fits(v, R, W, s), W \subseteq X \cup {r}, a.call = r, r.cmd = "sendMessage",
         z.mine = s.mine, z.members = s.members, z.invited = s.invited, z.pending = s.pending,
         z.joining = s.joining, z.pins = s.pins,
         z.tasks = s.tasks, z.nextTask = s.nextTask,
         \A g \in s.mine : z.chat[g] = IF g = r.group THEN s.chat[g] + 1 ELSE s.chat[g]
  PROVE  Fits(v, Q, X, z)
  <1>0. W \subseteq X \cup {r}
    OBVIOUS
  <1>1. /\ \A cmds, g : AsksOf(W, cmds, g) =>
              AsksOf(X, cmds, g) \/ (r.cmd \in cmds /\ r.group = g)
        /\ \A cmds, g, u : AsksAbout(W, cmds, g, u) =>
              AsksAbout(X, cmds, g, u) \/ (r.cmd \in cmds /\ r.group = g /\ r.user = u)
        /\ \A cmd, t : AsksTask(W, cmd, t) =>
              AsksTask(X, cmd, t) \/ (r.cmd = cmd /\ r.task = t)
    BY ONLY <1>0, AsksLess
  <1>2. GroupParts(v, R, W, s) /\ TaskSide(v, R, W, s)
    BY PartsOfFits
  <1>3. /\ \A g : ~MakesGroup(a, g)
        /\ \A g : Made(Q, g) <=> Made(R, g)
    BY MadeLonger DEF MakesGroup
  <1>5. GroupsFit(v, Q, X, z)
    BY <1>1, <1>2, <1>3 DEF GroupParts, GroupSide, GroupsFit
  <1>6. MembersFit(v, Q, X, z)
    BY <1>1, <1>2 DEF GroupParts, GroupSide, MembersFit
  <1>7. InvitedFit(v, Q, X, z)
    <2> SUFFICES ASSUME NEW g \in s.mine, NEW u \in UserId,
                        ~AsksOf(X, {"acceptInvite"}, g),
                        ~AsksAbout(X, {"removeMemberFromGroup", "cancelInvite",
                                       "inviteMemberToGroup"}, g, u),
                        <<g, u>> \notin s.members
                 PROVE  InvitationFits(v, Q, z, g, u)
      BY DEF InvitedFit
    <2>1. ~OnInvite(a, g, u)
      BY DEF OnInvite
    <2>2. InvitationFits(v, R, s, g, u)
      BY <1>1, <1>2 DEF GroupParts, GroupSide, InvitedFit
    <2> QED BY <1>3, <2>1, <2>2, InvitationLonger
  <1>8. ChatFits(v, Q, X, z)
    <2> SUFFICES ASSUME NEW g \in s.mine, ~AsksOf(X, {"acceptInvite"}, g)
                 PROVE  /\ \A i \in DOMAIN v.groups :
                              v.groups[i].id = g => v.groups[i].chat + Posts(Q, g) = z.chat[g]
                        /\ Made(Q, g) => Posts(Q, g) = z.chat[g]
      BY DEF ChatFits
    <2>1. /\ \A i \in DOMAIN v.groups :
                v.groups[i].id = g => v.groups[i].chat + Posts(R, g) = s.chat[g]
          /\ Made(R, g) => Posts(R, g) = s.chat[g]
      BY <1>1, <1>2 DEF GroupParts, GroupSide, ChatFits
    <2>2. /\ Posts(R, g) \in Nat
          /\ Posts(Q, g) = IF g = r.group THEN Posts(R, g) + 1 ELSE Posts(R, g)
      BY PostsLonger
    <2>3. ASSUME NEW i \in DOMAIN v.groups, v.groups[i].id = g
          PROVE  v.groups[i].chat + Posts(Q, g) = z.chat[g]
      <3>1. v.groups \in Seq(LocalGroup)
        BY DEF Local
      <3>2. v.groups[i] \in LocalGroup
        BY <3>1
      <3>3. v.groups[i].chat \in Nat
        BY <3>2 DEF LocalGroup
      <3> DEFINE c == v.groups[i].chat
                 p == Posts(R, g)
      <3>4. c \in Nat /\ p \in Nat /\ c + p = s.chat[g]
        BY <2>1, <2>2, <2>3, <3>3
      <3> HIDE DEF c, p
      <3>5. c + (p + 1) = (c + p) + 1
        BY <3>4
      <3>6. c + Posts(Q, g) = z.chat[g]
        BY <2>2, <3>4, <3>5 DEF p
      <3> QED BY <3>6 DEF c
    <2>4. Made(Q, g) => Posts(Q, g) = z.chat[g]
      BY <1>3, <2>1, <2>2
    <2> QED BY <2>3, <2>4
  <1>9. MadeFits(v, Q, X, z)
    BY <1>2, MadeFitsLonger DEF GroupParts
  <1>10. PendingFits(v, Q, X, z)
    BY <1>1, <1>2 DEF GroupParts, PendingFits
  <1>11. PinsFit(v, Q, X, z)
    BY <1>1, <1>2 DEF GroupParts, PinsFit
  <1>12. TaskSide(v, Q, X, z)
    <2>1. Less(W, X, TaskExcuses)
      BY DEF Less, TaskExcuses
    <2> QED BY <1>2, <2>1, TaskSideLonger
  <1> QED BY <1>5, <1>6, <1>7, <1>8, <1>9, <1>10, <1>11, <1>12, PartsOfFits DEF GroupParts, GroupSide

(* deleteTask served: the row is gone, and its reply is the last word on it. *)
LEMMA TaskDeletedFits ==
  ASSUME NEW R, NEW Q, NEW a, Longer(R, Q, a), NEW v, NEW W, NEW X, NEW s, NEW z, NEW r,
         Fits(v, R, W, s), W \subseteq X \cup {r}, a.call = r, r.cmd = "deleteTask",
         SameGroupTables(s, z), z.nextTask = s.nextTask,
         z.tasks = {x \in s.tasks : x.id # r.task}
  PROVE  Fits(v, Q, X, z)
  <1>0. W \subseteq X \cup {r}
    OBVIOUS
  <1>1. /\ \A cmds, g : AsksOf(W, cmds, g) =>
              AsksOf(X, cmds, g) \/ (r.cmd \in cmds /\ r.group = g)
        /\ \A cmds, g, u : AsksAbout(W, cmds, g, u) =>
              AsksAbout(X, cmds, g, u) \/ (r.cmd \in cmds /\ r.group = g /\ r.user = u)
        /\ \A cmd, t : AsksTask(W, cmd, t) =>
              AsksTask(X, cmd, t) \/ (r.cmd = cmd /\ r.task = t)
    BY ONLY <1>0, AsksLess
  <1>2. GroupParts(v, R, W, s) /\ TaskSide(v, R, W, s)
    BY PartsOfFits
  <1>3. GroupParts(v, Q, X, z)
    <2>1. Less(W, X, GroupExcuses)
      BY DEF Less, GroupExcuses
    <2> QED BY <1>2, <2>1, GroupPartsLonger
  <1>4. /\ \A t : ~MakesTask(a, t)
        /\ \A t : OnTask(a, "deleteTask", t) <=> t = r.task
        /\ \A t : ~OnTask(a, "toggleTaskCompletion", t) /\ ~OnTask(a, "editTask", t)
    BY DEF MakesTask, OnTask
  <1>5. /\ \A t : MadeTask(Q, t) <=> MadeTask(R, t)
        /\ \A t : Dropped(Q, t) <=> t = r.task \/ Dropped(R, t)
        /\ \A x : Untouched(Q, "toggleTaskCompletion", x) <=>
                     Untouched(R, "toggleTaskCompletion", x)
        /\ \A x : Untouched(Q, "editTask", x) <=> Untouched(R, "editTask", x)
    BY <1>4, MadeLonger
  <1>6. TasksFit(v, Q, X, z)
    <2>1. \A i \in DOMAIN v.tasks :
             \/ \E x \in z.tasks : x.id = v.tasks[i].id
             \/ Dropped(Q, v.tasks[i].id)
             \/ AsksTask(X, "deleteTask", v.tasks[i].id)
      BY <1>1, <1>2, <1>5 DEF TaskSide, TasksFit
    <2>2. \A x \in z.tasks :
             \/ AsksTask(X, "deleteTask", x.id)
             \/ AsksOf(X, {"deleteGroup"}, x.group)
             \/ \E i \in DOMAIN v.tasks : v.tasks[i].id = x.id
             \/ MadeTask(Q, x.id)
      <3> TAKE x \in z.tasks
      <3>1. x \in s.tasks /\ x.id # r.task
        OBVIOUS
      <3>2. \/ AsksTask(W, "deleteTask", x.id)
            \/ AsksOf(W, {"deleteGroup"}, x.group)
            \/ \E i \in DOMAIN v.tasks : v.tasks[i].id = x.id
            \/ MadeTask(R, x.id)
        BY <1>2, <3>1 DEF TaskSide, TasksFit
      <3> QED BY <1>1, <1>5, <3>1, <3>2
    <2>3. \A x \in z.tasks : ~Dropped(Q, x.id)
      BY <1>2, <1>5 DEF TaskSide, TasksFit
    <2>4. /\ \A i, j \in DOMAIN v.tasks : v.tasks[i].id = v.tasks[j].id => i = j
          /\ \A i \in DOMAIN v.tasks :
                /\ v.tasks[i].id < z.nextTask
                /\ \A x \in z.tasks : x.id = v.tasks[i].id =>
                      x.group = v.tasks[i].group /\ x.owner = v.tasks[i].owner
      BY <1>2 DEF TaskSide, TasksFit
    <2> QED BY <2>1, <2>2, <2>3, <2>4 DEF TasksFit
  <1>7. MadeTasksFit(v, Q, X, z)
    BY <1>1, <1>2, <1>4, MadeTasksLonger DEF TaskSide
  <1>8. DoneFits(v, Q, X, z)
    <2> SUFFICES ASSUME NEW x \in z.tasks, ~AsksTask(X, "toggleTaskCompletion", x.id)
                 PROVE  /\ ColumnFits(v, Q, "toggleTaskCompletion", "done", x)
                        /\ Untouched(Q, "toggleTaskCompletion", x) /\ MadeTask(Q, x.id) =>
                              x.body.done = FALSE
      BY DEF DoneFits
    <2>0. x \in s.tasks /\ ~AsksTask(W, "toggleTaskCompletion", x.id)
      BY <1>1
    <2>1. /\ ColumnFits(v, R, "toggleTaskCompletion", "done", x)
          /\ Untouched(R, "toggleTaskCompletion", x) /\ MadeTask(R, x.id) => x.body.done = FALSE
      BY <1>2, <2>0 DEF TaskSide, DoneFits
    <2>2. ColumnFits(v, Q, "toggleTaskCompletion", "done", x)
      BY <1>4, <2>1, ColumnLonger
    <2> QED BY <1>5, <2>1, <2>2
  <1>9. TextFits(v, Q, X, z)
    <2> SUFFICES ASSUME NEW x \in z.tasks, ~AsksTask(X, "editTask", x.id)
                 PROVE  /\ ColumnFits(v, Q, "editTask", "text", x)
                        /\ Untouched(Q, "editTask", x) => \A k \in DOMAIN Q :
                              MakesTask(Q[k], x.id) => Q[k].call.body.text = x.body.text
      BY DEF TextFits
    <2>0. x \in s.tasks /\ ~AsksTask(W, "editTask", x.id)
      BY <1>1
    <2>1. /\ ColumnFits(v, R, "editTask", "text", x)
          /\ Untouched(R, "editTask", x) => \A k \in DOMAIN R :
                MakesTask(R[k], x.id) => R[k].call.body.text = x.body.text
      BY <1>2, <2>0 DEF TaskSide, TextFits
    <2>2. ColumnFits(v, Q, "editTask", "text", x)
      BY <1>4, <2>1, ColumnLonger
    <2>3. \A k \in DOMAIN Q : MakesTask(Q[k], x.id) => k \in DOMAIN R /\ Q[k] = R[k]
      BY <1>4, LongerFacts
    <2> QED BY <1>5, <2>1, <2>2, <2>3
  <1> QED BY <1>3, <1>6, <1>7, <1>8, <1>9, PartsOfFits DEF TaskSide

(* A column of a row was set. *)
LEMMA ColumnServedFits ==
  ASSUME NEW R, NEW Q, NEW a, Longer(R, Q, a), NEW v, NEW W, NEW X, NEW s, NEW z, NEW r,
         Fits(v, R, W, s), W \subseteq X \cup {r}, a.call = r,
         r.cmd \in {"toggleTaskCompletion", "editTask"},
         SameGroupTables(s, z), z.nextTask = s.nextTask,
         \A x \in s.tasks : \E y \in z.tasks : y.id = x.id,
         \A y \in z.tasks : \E x \in s.tasks :
            /\ x.id = y.id /\ x.group = y.group /\ x.owner = y.owner
            /\ y.body.done = IF r.cmd = "toggleTaskCompletion" /\ x.id = r.task
                             THEN r.body.done ELSE x.body.done
            /\ y.body.text = IF r.cmd = "editTask" /\ x.id = r.task
                             THEN r.body.text ELSE x.body.text
  PROVE  Fits(v, Q, X, z)
  <1>0. W \subseteq X \cup {r}
    OBVIOUS
  <1>1. /\ \A cmds, g : AsksOf(W, cmds, g) =>
              AsksOf(X, cmds, g) \/ (r.cmd \in cmds /\ r.group = g)
        /\ \A cmds, g, u : AsksAbout(W, cmds, g, u) =>
              AsksAbout(X, cmds, g, u) \/ (r.cmd \in cmds /\ r.group = g /\ r.user = u)
        /\ \A cmd, t : AsksTask(W, cmd, t) =>
              AsksTask(X, cmd, t) \/ (r.cmd = cmd /\ r.task = t)
    BY ONLY <1>0, AsksLess
  <1>2. GroupParts(v, R, W, s) /\ TaskSide(v, R, W, s)
    BY PartsOfFits
  <1>3. GroupParts(v, Q, X, z)
    <2>1. Less(W, X, GroupExcuses)
      BY DEF Less, GroupExcuses
    <2> QED BY <1>2, <2>1, GroupPartsLonger
  <1>4. /\ \A t : ~MakesTask(a, t) /\ ~OnTask(a, "deleteTask", t)
        /\ \A t : OnTask(a, "toggleTaskCompletion", t) <=>
                     r.cmd = "toggleTaskCompletion" /\ t = r.task
        /\ \A t : OnTask(a, "editTask", t) <=> r.cmd = "editTask" /\ t = r.task
    BY DEF MakesTask, OnTask
  <1>5. /\ \A t : MadeTask(Q, t) <=> MadeTask(R, t)
        /\ \A t : Dropped(Q, t) <=> Dropped(R, t)
        /\ \A x : Untouched(Q, "toggleTaskCompletion", x) <=>
                     /\ ~OnTask(a, "toggleTaskCompletion", x.id)
                     /\ Untouched(R, "toggleTaskCompletion", x)
        /\ \A x : Untouched(Q, "editTask", x) <=>
                     ~OnTask(a, "editTask", x.id) /\ Untouched(R, "editTask", x)
    BY <1>4, MadeLonger
  <1>6. TasksFit(v, Q, X, z)
    <2>1. \A i \in DOMAIN v.tasks :
             \/ \E x \in z.tasks : x.id = v.tasks[i].id
             \/ Dropped(Q, v.tasks[i].id)
             \/ AsksTask(X, "deleteTask", v.tasks[i].id)
      BY <1>1, <1>2, <1>5 DEF TaskSide, TasksFit
    <2>2. \A y \in z.tasks :
             \/ AsksTask(X, "deleteTask", y.id)
             \/ AsksOf(X, {"deleteGroup"}, y.group)
             \/ \E i \in DOMAIN v.tasks : v.tasks[i].id = y.id
             \/ MadeTask(Q, y.id)
      <3> TAKE y \in z.tasks
      <3>1. PICK x \in s.tasks : x.id = y.id /\ x.group = y.group
        OBVIOUS
      <3>2. \/ AsksTask(W, "deleteTask", x.id)
            \/ AsksOf(W, {"deleteGroup"}, x.group)
            \/ \E i \in DOMAIN v.tasks : v.tasks[i].id = x.id
            \/ MadeTask(R, x.id)
        BY <1>2 DEF TaskSide, TasksFit
      <3> QED BY <1>1, <1>5, <3>1, <3>2
    <2>3. \A y \in z.tasks : ~Dropped(Q, y.id)
      BY <1>2, <1>5 DEF TaskSide, TasksFit
    <2>4. /\ \A i, j \in DOMAIN v.tasks : v.tasks[i].id = v.tasks[j].id => i = j
          /\ \A i \in DOMAIN v.tasks :
                /\ v.tasks[i].id < z.nextTask
                /\ \A x \in z.tasks : x.id = v.tasks[i].id =>
                      x.group = v.tasks[i].group /\ x.owner = v.tasks[i].owner
      BY <1>2 DEF TaskSide, TasksFit
    <2> QED BY <2>1, <2>2, <2>3, <2>4 DEF TasksFit
  <1>7. MadeTasksFit(v, Q, X, z)
    BY <1>1, <1>2, <1>4, MadeTasksLonger DEF TaskSide
  <1>8. DoneFits(v, Q, X, z)
    <2> SUFFICES ASSUME NEW y \in z.tasks, ~AsksTask(X, "toggleTaskCompletion", y.id)
                 PROVE  /\ ColumnFits(v, Q, "toggleTaskCompletion", "done", y)
                        /\ Untouched(Q, "toggleTaskCompletion", y) /\ MadeTask(Q, y.id) =>
                              y.body.done = FALSE
      BY DEF DoneFits
    <2>0. PICK x \in s.tasks :
             /\ x.id = y.id
             /\ y.body.done = IF r.cmd = "toggleTaskCompletion" /\ x.id = r.task
                              THEN r.body.done ELSE x.body.done
      OBVIOUS
    <2>1. CASE OnTask(a, "toggleTaskCompletion", y.id)
      <3>1. a.call.body["done"] = y.body["done"]
        BY <1>4, <2>0, <2>1
      <3>2. ColumnFits(v, Q, "toggleTaskCompletion", "done", y)
        BY <2>0, <2>1, <3>1, ColumnLonger
      <3> QED BY <1>5, <2>1, <3>2
    <2>2. CASE ~OnTask(a, "toggleTaskCompletion", y.id)
      <3>1. y.body["done"] = x.body["done"] /\ ~AsksTask(W, "toggleTaskCompletion", x.id)
        BY <1>1, <1>4, <2>0, <2>2
      <3>2. /\ ColumnFits(v, R, "toggleTaskCompletion", "done", x)
            /\ Untouched(R, "toggleTaskCompletion", x) /\ MadeTask(R, x.id) =>
                  x.body.done = FALSE
        BY <1>2, <3>1 DEF TaskSide, DoneFits
      <3>3. ColumnFits(v, Q, "toggleTaskCompletion", "done", y)
        BY <2>0, <2>2, <3>1, <3>2, ColumnLonger
      <3>4. Untouched(Q, "toggleTaskCompletion", y) => Untouched(R, "toggleTaskCompletion", x)
        BY <1>5, <2>0 DEF Untouched
      <3> QED BY <1>5, <2>0, <3>1, <3>2, <3>3, <3>4
    <2> QED BY <2>1, <2>2
  <1>9. TextFits(v, Q, X, z)
    <2> SUFFICES ASSUME NEW y \in z.tasks, ~AsksTask(X, "editTask", y.id)
                 PROVE  /\ ColumnFits(v, Q, "editTask", "text", y)
                        /\ Untouched(Q, "editTask", y) => \A k \in DOMAIN Q :
                              MakesTask(Q[k], y.id) => Q[k].call.body.text = y.body.text
      BY DEF TextFits
    <2>0. PICK x \in s.tasks :
             /\ x.id = y.id
             /\ y.body.text = IF r.cmd = "editTask" /\ x.id = r.task
                              THEN r.body.text ELSE x.body.text
      OBVIOUS
    <2>1. CASE OnTask(a, "editTask", y.id)
      <3>1. a.call.body["text"] = y.body["text"]
        BY <1>4, <2>0, <2>1
      <3>2. ColumnFits(v, Q, "editTask", "text", y)
        BY <2>0, <2>1, <3>1, ColumnLonger
      <3> QED BY <1>5, <2>1, <3>2
    <2>2. CASE ~OnTask(a, "editTask", y.id)
      <3>1. y.body["text"] = x.body["text"] /\ ~AsksTask(W, "editTask", x.id)
        BY <1>1, <1>4, <2>0, <2>2
      <3>2. /\ ColumnFits(v, R, "editTask", "text", x)
            /\ Untouched(R, "editTask", x) => \A k \in DOMAIN R :
                  MakesTask(R[k], x.id) => R[k].call.body.text = x.body.text
        BY <1>2, <3>1 DEF TaskSide, TextFits
      <3>3. ColumnFits(v, Q, "editTask", "text", y)
        BY <2>0, <2>2, <3>1, <3>2, ColumnLonger
      <3>4. Untouched(Q, "editTask", y) => Untouched(R, "editTask", x)
        BY <1>5, <2>0 DEF Untouched
      <3>5. \A k \in DOMAIN Q : MakesTask(Q[k], x.id) => k \in DOMAIN R /\ Q[k] = R[k]
        BY <1>4, LongerFacts
      <3>6. Untouched(Q, "editTask", y) => \A k \in DOMAIN Q :
               MakesTask(Q[k], y.id) => Q[k].call.body.text = y.body.text
        BY <2>0, <3>1, <3>2, <3>4, <3>5
      <3> QED BY <3>3, <3>6
    <2> QED BY <2>1, <2>2
  <1> QED BY <1>3, <1>6, <1>7, <1>8, <1>9, PartsOfFits DEF TaskSide

(* A task was added to a group of the client. *)
LEMMA TaskAddedFits ==
  ASSUME NEW R, NEW Q, NEW a, Longer(R, Q, a), NEW v, NEW W, NEW X, NEW s, NEW z, NEW r,
         NEW row \in TaskRow,
         Fits(v, R, W, s), W \subseteq X \cup {r}, a.call = r, r.cmd = "createTask",
         SameGroupTables(s, z), s.nextTask \in Nat, z.nextTask = s.nextTask + 1,
         z.tasks = s.tasks \cup {row}, s.tasks \subseteq TaskRow,
         \A x \in s.tasks : x.id < s.nextTask,
         row.id = s.nextTask, row.group = r.group, row.owner = Me,
         row.body.done = FALSE, row.body.text = r.body.text, a.id = row.id,
         \A i \in DOMAIN v.tasks : v.tasks[i].id \in Nat,
         \A k \in DOMAIN R : R[k].call.task < s.nextTask
  PROVE  Fits(v, Q, X, z)
  <1>0. W \subseteq X \cup {r}
    OBVIOUS
  <1>1. /\ \A cmds, g : AsksOf(W, cmds, g) =>
              AsksOf(X, cmds, g) \/ (r.cmd \in cmds /\ r.group = g)
        /\ \A cmds, g, u : AsksAbout(W, cmds, g, u) =>
              AsksAbout(X, cmds, g, u) \/ (r.cmd \in cmds /\ r.group = g /\ r.user = u)
        /\ \A cmd, t : AsksTask(W, cmd, t) =>
              AsksTask(X, cmd, t) \/ (r.cmd = cmd /\ r.task = t)
    BY ONLY <1>0, AsksLess
  <1>2. GroupParts(v, R, W, s) /\ TaskSide(v, R, W, s)
    BY PartsOfFits
  <1>3. GroupParts(v, Q, X, z)
    <2>1. Less(W, X, GroupExcuses)
      BY DEF Less, GroupExcuses
    <2> QED BY <1>2, <2>1, GroupPartsLonger
  <1> DEFINE t == s.nextTask
  <1>4. /\ \A x : MakesTask(a, x) <=> x = t
        /\ \A cmd, x : cmd # "createTask" => ~OnTask(a, cmd, x)
    BY DEF MakesTask, OnTask
  <1>5. /\ \A x : MadeTask(Q, x) <=> x = t \/ MadeTask(R, x)
        /\ \A x : Dropped(Q, x) <=> Dropped(R, x)
        /\ \A cmd, x : cmd # "createTask" => (Untouched(Q, cmd, x) <=> Untouched(R, cmd, x))
    BY <1>4, MadeLonger
  <1>6. \A x \in s.tasks : x.id \in Nat /\ x.id # t
    BY DEF TaskRow, TaskId
  <1>7. \A i \in DOMAIN v.tasks : v.tasks[i].id # t /\ v.tasks[i].id < t
    BY <1>2 DEF TaskSide, TasksFit
  <1>8. /\ \A k \in DOMAIN R : R[k].call.task # t
        /\ \A cmd, k : k \in DOMAIN R => ~OnTask(R[k], cmd, t)
        /\ ~Dropped(R, t)
    <2>1. \A k \in DOMAIN R : R[k].call.task # t
      OBVIOUS
    <2> QED BY <2>1 DEF OnTask, Dropped
  <1>9. \A k \in DOMAIN R : ~MakesTask(R[k], t)
    <2>1. t \in TaskId /\ ~(t < t)
      BY DEF TaskRow, TaskId
    <2> QED BY <1>2, <2>1 DEF TaskSide, MadeTasksFit
  <1>10. TasksFit(v, Q, X, z)
    <2>1. \A i \in DOMAIN v.tasks :
             /\ v.tasks[i].id < z.nextTask
             /\ \A x \in z.tasks : x.id = v.tasks[i].id =>
                   x.group = v.tasks[i].group /\ x.owner = v.tasks[i].owner
             /\ \/ \E x \in z.tasks : x.id = v.tasks[i].id
                \/ Dropped(Q, v.tasks[i].id)
                \/ AsksTask(X, "deleteTask", v.tasks[i].id)
      <3> TAKE i \in DOMAIN v.tasks
      <3>1. v.tasks[i].id < z.nextTask
        BY <1>7
      <3>2. /\ \A x \in s.tasks : x.id = v.tasks[i].id =>
                  x.group = v.tasks[i].group /\ x.owner = v.tasks[i].owner
            /\ \/ \E x \in s.tasks : x.id = v.tasks[i].id
               \/ Dropped(R, v.tasks[i].id)
               \/ AsksTask(W, "deleteTask", v.tasks[i].id)
        BY <1>2 DEF TaskSide, TasksFit
      <3> QED BY <1>1, <1>5, <1>7, <3>1, <3>2
    <2>2. \A x \in z.tasks :
             \/ AsksTask(X, "deleteTask", x.id)
             \/ AsksOf(X, {"deleteGroup"}, x.group)
             \/ \E i \in DOMAIN v.tasks : v.tasks[i].id = x.id
             \/ MadeTask(Q, x.id)
      <3> TAKE x \in z.tasks
      <3>1. CASE x \in s.tasks
        <4>1. \/ AsksTask(W, "deleteTask", x.id)
              \/ AsksOf(W, {"deleteGroup"}, x.group)
              \/ \E i \in DOMAIN v.tasks : v.tasks[i].id = x.id
              \/ MadeTask(R, x.id)
          BY <1>2, <3>1 DEF TaskSide, TasksFit
        <4> QED BY <1>1, <1>5, <4>1
      <3>2. CASE x = row
        BY <1>5, <3>2
      <3> QED BY <3>1, <3>2
    <2>3. \A x \in z.tasks : ~Dropped(Q, x.id)
      <3>1. \A x \in s.tasks : ~Dropped(R, x.id)
        BY <1>2 DEF TaskSide, TasksFit
      <3> QED BY <1>5, <1>8, <3>1
    <2>4. \A i, j \in DOMAIN v.tasks : v.tasks[i].id = v.tasks[j].id => i = j
      BY <1>2 DEF TaskSide, TasksFit
    <2> QED BY <2>1, <2>2, <2>3, <2>4 DEF TasksFit
  <1>11. MadeTasksFit(v, Q, X, z)
    <2> SUFFICES ASSUME NEW k \in DOMAIN Q, NEW x \in TaskId, MakesTask(Q[k], x)
                 PROVE  /\ x < z.nextTask
                        /\ \A i \in DOMAIN v.tasks : v.tasks[i].id # x
                        /\ \A j \in DOMAIN Q : MakesTask(Q[j], x) => j = k
                        /\ \A j \in 1..k - 1 : Q[j].call.task # x
                        /\ \A y \in z.tasks : y.id = x =>
                              y.group = Q[k].call.group /\ y.owner = Me
                        /\ \/ \E y \in z.tasks : y.id = x
                           \/ Dropped(Q, x) \/ AsksTask(X, "deleteTask", x)
      BY DEF MadeTasksFit
    <2>1. CASE x = t
      <3>1. \A j \in DOMAIN Q : MakesTask(Q[j], x) => j \notin DOMAIN R /\ Q[j] = a
        BY <1>9, <2>1, LongerFacts
      <3>2. k \notin DOMAIN R /\ Q[k] = a
        BY <3>1
      <3>3. \A j \in DOMAIN Q : j \notin DOMAIN R => j = k
        BY <3>2 DEF Longer
      <3>4. \A j \in 1..k - 1 : j \in DOMAIN R /\ Q[j] = R[j]
        BY <3>2 DEF Longer
      <3>5. \A y \in z.tasks : y.id = x => y.group = Q[k].call.group /\ y.owner = Me
        BY <1>6, <2>1, <3>2
      <3>6. \A i \in DOMAIN v.tasks : v.tasks[i].id # x
        BY <1>7, <2>1
      <3>7. \A j \in 1..k - 1 : Q[j].call.task # x
        BY <1>8, <2>1, <3>4
      <3>8. x < z.nextTask /\ \E y \in z.tasks : y.id = x
        BY <2>1
      <3> QED BY <3>1, <3>3, <3>5, <3>6, <3>7, <3>8
    <2>2. CASE x # t
      <3>1. \A j \in DOMAIN Q : MakesTask(Q[j], x) => j \in DOMAIN R /\ Q[j] = R[j]
        BY <1>4, <2>2, LongerFacts
      <3>2. k \in DOMAIN R /\ MakesTask(R[k], x) /\ Q[k] = R[k]
        BY <3>1
      <3>3. /\ x < s.nextTask
            /\ \A i \in DOMAIN v.tasks : v.tasks[i].id # x
            /\ \A j \in DOMAIN R : MakesTask(R[j], x) => j = k
            /\ \A j \in 1..k - 1 : R[j].call.task # x
            /\ \A y \in s.tasks : y.id = x => y.group = R[k].call.group /\ y.owner = Me
            /\ (\E y \in s.tasks : y.id = x) \/ Dropped(R, x) \/ AsksTask(W, "deleteTask", x)
        BY <1>2, <3>2 DEF TaskSide, MadeTasksFit
      <3>4. \A j \in 1..k - 1 : Q[j] = R[j]
        BY <3>2, LongerFacts
      <3>5. x < z.nextTask
        BY <3>3 DEF TaskId
      <3>6. \A y \in z.tasks : y.id = x => y.group = Q[k].call.group /\ y.owner = Me
        BY <2>2, <3>2, <3>3
      <3>7. (\E y \in z.tasks : y.id = x) \/ Dropped(Q, x) \/ AsksTask(X, "deleteTask", x)
        BY <1>1, <1>5, <3>3
      <3> QED BY <3>1, <3>3, <3>4, <3>5, <3>6, <3>7
    <2> QED BY <2>1, <2>2
  <1>12. DoneFits(v, Q, X, z)
    <2> SUFFICES ASSUME NEW x \in z.tasks, ~AsksTask(X, "toggleTaskCompletion", x.id)
                 PROVE  /\ ColumnFits(v, Q, "toggleTaskCompletion", "done", x)
                        /\ Untouched(Q, "toggleTaskCompletion", x) /\ MadeTask(Q, x.id) =>
                              x.body.done = FALSE
      BY DEF DoneFits
    <2>1. CASE x \in s.tasks
      <3>1. /\ ColumnFits(v, R, "toggleTaskCompletion", "done", x)
            /\ Untouched(R, "toggleTaskCompletion", x) /\ MadeTask(R, x.id) =>
                  x.body.done = FALSE
        BY <1>1, <1>2, <2>1 DEF TaskSide, DoneFits
      <3>2. ColumnFits(v, Q, "toggleTaskCompletion", "done", x)
        BY <1>4, <3>1, ColumnLonger
      <3> QED BY <1>5, <1>6, <2>1, <3>1, <3>2
    <2>2. CASE x = row
      <3>1. ColumnFits(v, R, "toggleTaskCompletion", "done", x)
        BY <1>7, <1>8, <2>2 DEF ColumnFits
      <3>2. ColumnFits(v, Q, "toggleTaskCompletion", "done", x)
        BY <1>4, <3>1, ColumnLonger
      <3> QED BY <2>2, <3>2
    <2> QED BY <2>1, <2>2
  <1>13. TextFits(v, Q, X, z)
    <2> SUFFICES ASSUME NEW x \in z.tasks, ~AsksTask(X, "editTask", x.id)
                 PROVE  /\ ColumnFits(v, Q, "editTask", "text", x)
                        /\ Untouched(Q, "editTask", x) => \A k \in DOMAIN Q :
                              MakesTask(Q[k], x.id) => Q[k].call.body.text = x.body.text
      BY DEF TextFits
    <2>1. CASE x \in s.tasks
      <3>1. /\ ColumnFits(v, R, "editTask", "text", x)
            /\ Untouched(R, "editTask", x) => \A k \in DOMAIN R :
                  MakesTask(R[k], x.id) => R[k].call.body.text = x.body.text
        BY <1>1, <1>2, <2>1 DEF TaskSide, TextFits
      <3>2. ColumnFits(v, Q, "editTask", "text", x)
        BY <1>4, <3>1, ColumnLonger
      <3>3. \A k \in DOMAIN Q : MakesTask(Q[k], x.id) => k \in DOMAIN R /\ Q[k] = R[k]
        BY <1>4, <1>6, <2>1, LongerFacts
      <3> QED BY <1>5, <3>1, <3>2, <3>3
    <2>2. CASE x = row
      <3>1. ColumnFits(v, R, "editTask", "text", x)
        BY <1>7, <1>8, <2>2 DEF ColumnFits
      <3>2. ColumnFits(v, Q, "editTask", "text", x)
        BY <1>4, <3>1, ColumnLonger
      <3>3. \A k \in DOMAIN Q : MakesTask(Q[k], x.id) => Q[k] = a
        BY <1>9, <2>2, LongerFacts
      <3> QED BY <2>2, <3>2, <3>3
    <2> QED BY <2>1, <2>2
  <1> QED BY <1>3, <1>10, <1>11, <1>12, <1>13, PartsOfFits DEF TaskSide

(* The creator of a new group is its member, and only now is it shown. *)
LEMMA GroupAddedFits ==
  ASSUME NEW R, NEW Q, NEW a, Longer(R, Q, a), NEW v, NEW W, NEW X, NEW s, NEW z, NEW r,
         NEW g \in GroupId,
         Fits(v, R, W, s), W \subseteq X \cup {r}, a.call = r, r.cmd = "createGroup", a.id = g,
         g \notin s.mine \cup s.pending \cup s.joining,
         z.mine = s.mine \cup {g}, z.members = s.members \cup {<<g, Me>>},
         z.invited = s.invited, z.pending = s.pending, z.joining = s.joining,
         z.pins = s.pins, z.tasks = s.tasks, z.nextTask = s.nextTask,
         \A h \in s.mine : z.chat[h] = s.chat[h], z.chat[g] = 0,
         \A u \in UserId : <<g, u>> \notin s.members /\ <<g, u>> \notin s.invited,
         \A k \in DOMAIN R : R[k].call.group # g /\ ~MakesGroup(R[k], g)
  PROVE  Fits(v, Q, X, z)
  <1>0. W \subseteq X \cup {r}
    OBVIOUS
  <1>1. /\ \A cmds, h : AsksOf(W, cmds, h) =>
              AsksOf(X, cmds, h) \/ (r.cmd \in cmds /\ r.group = h)
        /\ \A cmds, h, u : AsksAbout(W, cmds, h, u) =>
              AsksAbout(X, cmds, h, u) \/ (r.cmd \in cmds /\ r.group = h /\ r.user = u)
        /\ \A cmd, t : AsksTask(W, cmd, t) =>
              AsksTask(X, cmd, t) \/ (r.cmd = cmd /\ r.task = t)
    BY ONLY <1>0, AsksLess
  <1>2. GroupParts(v, R, W, s) /\ TaskSide(v, R, W, s)
    BY PartsOfFits
  <1>3. TaskSide(v, Q, X, z)
    <2>1. Less(W, X, TaskExcuses)
      BY DEF Less, TaskExcuses
    <2> QED BY <1>2, <2>1, TaskSideLonger
  <1>4. \A i \in DOMAIN v.groups : v.groups[i].id # g
    BY <1>2 DEF GroupParts, GroupSide, GroupsFit
  <1>5. \A i \in DOMAIN v.pending : v.pending[i] # g
    BY <1>2 DEF GroupParts, PendingFits
  <1>6. /\ \A h : MakesGroup(a, h) <=> h = g
        /\ \A h, u : ~OnInvite(a, h, u)
    BY DEF MakesGroup, OnInvite
  <1>7. \A h : Made(Q, h) <=> h = g \/ Made(R, h)
    BY <1>6, MadeLonger
  <1>8. \A h : Posts(Q, h) = Posts(R, h)
    BY PostsLonger
  <1>9. GroupsFit(v, Q, X, z)
    BY <1>1, <1>2, <1>7 DEF GroupParts, GroupSide, GroupsFit
  <1>10. MembersFit(v, Q, X, z)
    <2>1. \A i \in DOMAIN v.groups, u \in UserId :
             <<v.groups[i].id, u>> \in z.members <=> <<v.groups[i].id, u>> \in s.members
      BY <1>4
    <2> QED BY <1>1, <1>2, <2>1 DEF GroupParts, GroupSide, MembersFit
  <1>11. InvitedFit(v, Q, X, z)
    <2> SUFFICES ASSUME NEW h \in z.mine, NEW u \in UserId,
                        ~AsksOf(X, {"acceptInvite"}, h),
                        ~AsksAbout(X, {"removeMemberFromGroup", "cancelInvite",
                                       "inviteMemberToGroup"}, h, u),
                        <<h, u>> \notin z.members
                 PROVE  InvitationFits(v, Q, z, h, u)
      BY DEF InvitedFit
    <2>1. CASE h = g
      <3>1. \A k \in DOMAIN Q : ~OnInvite(Q[k], h, u)
        BY <1>6, <2>1, LongerFacts DEF OnInvite
      <3> QED BY <1>4, <2>1, <3>1 DEF InvitationFits
    <2>2. CASE h # g
      <3>1. InvitationFits(v, R, s, h, u)
        BY <1>1, <1>2, <2>2 DEF GroupParts, GroupSide, InvitedFit
      <3> QED BY <1>6, <2>2, <3>1, InvitationLonger
    <2> QED BY <2>1, <2>2
  <1>12. ChatFits(v, Q, X, z)
    <2> SUFFICES ASSUME NEW h \in z.mine, ~AsksOf(X, {"acceptInvite"}, h)
                 PROVE  /\ \A i \in DOMAIN v.groups :
                              v.groups[i].id = h => v.groups[i].chat + Posts(Q, h) = z.chat[h]
                        /\ Made(Q, h) => Posts(Q, h) = z.chat[h]
      BY DEF ChatFits
    <2>1. CASE h = g
      <3>1. PostPlaces(R, g) = {}
        BY DEF PostPlaces
      <3>2. Posts(R, g) = Cardinality(PostPlaces(R, g))
        BY DEF Posts, PostPlaces
      <3>3. Posts(Q, g) = 0
        BY <1>8, <3>1, <3>2, FS_EmptySet
      <3> QED BY <1>4, <2>1, <3>3
    <2>2. CASE h # g
      <3>1. ~AsksOf(W, {"acceptInvite"}, h) /\ h \in s.mine
        BY <1>1, <2>2
      <3>2. /\ \A i \in DOMAIN v.groups :
                  v.groups[i].id = h => v.groups[i].chat + Posts(R, h) = s.chat[h]
            /\ Made(R, h) => Posts(R, h) = s.chat[h]
        BY <1>2, <3>1 DEF GroupParts, GroupSide, ChatFits
      <3> QED BY <1>7, <1>8, <2>2, <3>1, <3>2
    <2> QED BY <2>1, <2>2
  <1>13. MadeFits(v, Q, X, z)
    <2> SUFFICES ASSUME NEW k \in DOMAIN Q, NEW h \in GroupId, MakesGroup(Q[k], h)
                 PROVE  /\ h \in z.mine
                        /\ \A u \in UserId : <<h, u>> \in z.members <=> u = Me
                        /\ \A i \in DOMAIN v.groups : v.groups[i].id # h
                        /\ \A i \in DOMAIN v.pending : v.pending[i] # h
                        /\ \A j \in DOMAIN Q : MakesGroup(Q[j], h) => j = k
                        /\ \A j \in 1..k - 1 : Q[j].call.group # h
      BY DEF MadeFits
    <2>1. CASE h = g
      <3>1. \A j \in DOMAIN Q : MakesGroup(Q[j], h) => j \notin DOMAIN R /\ Q[j] = a
        BY <2>1, LongerFacts
      <3>2. k \notin DOMAIN R /\ Q[k] = a
        BY <3>1
      <3>3. \A j \in DOMAIN Q : j \notin DOMAIN R => j = k
        BY <3>2 DEF Longer
      <3>4. \A j \in 1..k - 1 : j \in DOMAIN R /\ Q[j] = R[j]
        BY <3>2 DEF Longer
      <3>5. \A u \in UserId : <<h, u>> \in z.members <=> u = Me
        BY <2>1
      <3>6. \A j \in 1..k - 1 : Q[j].call.group # h
        BY <2>1, <3>4
      <3> QED BY <1>4, <1>5, <2>1, <3>1, <3>3, <3>5, <3>6
    <2>2. CASE h # g
      <3>1. \A j \in DOMAIN Q : MakesGroup(Q[j], h) => j \in DOMAIN R /\ Q[j] = R[j]
        BY <1>6, <2>2, LongerFacts
      <3>2. k \in DOMAIN R /\ MakesGroup(R[k], h) /\ Q[k] = R[k]
        BY <3>1
      <3>3. /\ h \in s.mine
            /\ \A u \in UserId : <<h, u>> \in s.members <=> u = Me
            /\ \A i \in DOMAIN v.groups : v.groups[i].id # h
            /\ \A i \in DOMAIN v.pending : v.pending[i] # h
            /\ \A j \in DOMAIN R : MakesGroup(R[j], h) => j = k
            /\ \A j \in 1..k - 1 : R[j].call.group # h
        BY <1>2, <3>2 DEF GroupParts, MadeFits
      <3>4. \A j \in 1..k - 1 : Q[j] = R[j]
        BY <3>2, LongerFacts
      <3>5. \A u \in UserId : <<h, u>> \in z.members <=> u = Me
        BY <2>2, <3>3
      <3> QED BY <3>1, <3>3, <3>4, <3>5
    <2> QED BY <2>1, <2>2
  <1>14. PendingFits(v, Q, X, z)
    BY <1>1, <1>2 DEF GroupParts, PendingFits
  <1>15. PinsFit(v, Q, X, z)
    BY <1>1, <1>2 DEF GroupParts, PinsFit
  <1> QED BY <1>3, <1>9, <1>10, <1>11, <1>12, <1>13, <1>14, <1>15, PartsOfFits
          DEF GroupParts, GroupSide

(* The invitation is gone, and the membership is still to be written. *)
LEMMA InvitationTakenFits ==
  ASSUME NEW R, NEW v, NEW X, NEW s, NEW z, NEW r \in X, Fits(v, R, X, s),
         r.cmd = "acceptInvite",
         z.mine = s.mine, z.members = s.members, z.pins = s.pins, z.chat = s.chat,
         z.tasks = s.tasks, z.nextTask = s.nextTask,
         z.pending = s.pending \ {r.group},
         s.pending \cup s.joining \subseteq z.pending \cup z.joining,
         \A g \in s.mine, u \in UserId :
            g = r.group \/ (<<g, u>> \in z.invited <=> <<g, u>> \in s.invited)
  PROVE  Fits(v, R, X, z)
  <1>1. AsksOf(X, {"acceptInvite"}, r.group)
    BY DEF AsksOf
  <1>2. GroupParts(v, R, X, s) /\ TaskSide(v, R, X, s)
    BY PartsOfFits
  <1>3. GroupsFit(v, R, X, z)
    <2>1. \A i \in DOMAIN v.groups : v.groups[i].id \in z.mine \cup z.pending \cup z.joining
      BY <1>2 DEF GroupParts, GroupSide, GroupsFit
    <2> QED BY <1>2, <2>1 DEF GroupParts, GroupSide, GroupsFit
  <1>4. MembersFit(v, R, X, z)
    BY <1>2 DEF GroupParts, GroupSide, MembersFit
  <1>5. InvitedFit(v, R, X, z)
    <2> SUFFICES ASSUME NEW g \in s.mine, NEW u \in UserId,
                        ~AsksOf(X, {"acceptInvite"}, g),
                        ~AsksAbout(X, {"removeMemberFromGroup", "cancelInvite",
                                       "inviteMemberToGroup"}, g, u),
                        <<g, u>> \notin s.members
                 PROVE  InvitationFits(v, R, z, g, u)
      BY DEF InvitedFit
    <2>1. InvitationFits(v, R, s, g, u)
      BY <1>2 DEF GroupParts, GroupSide, InvitedFit
    <2>2. <<g, u>> \in z.invited <=> <<g, u>> \in s.invited
      BY <1>1
    <2> QED BY <2>1, <2>2 DEF InvitationFits
  <1>6. ChatFits(v, R, X, z)
    BY <1>2 DEF GroupParts, GroupSide, ChatFits
  <1>7. MadeFits(v, R, X, z)
    BY <1>2 DEF GroupParts, MadeFits
  <1>8. PendingFits(v, R, X, z)
    <2>1. \A i \in DOMAIN v.pending : v.pending[i] \in z.pending \cup z.joining
      BY <1>2 DEF GroupParts, PendingFits
    <2> QED BY <1>2, <2>1 DEF GroupParts, PendingFits
  <1>9. PinsFit(v, R, X, z)
    BY <1>2 DEF GroupParts, PinsFit
  <1>10. TaskSide(v, R, X, z)
    <2>1. TasksFit(v, R, X, z) /\ MadeTasksFit(v, R, X, z)
      BY <1>2 DEF TaskSide, TasksFit, MadeTasksFit
    <2>2. DoneFits(v, R, X, z) /\ TextFits(v, R, X, z)
      BY <1>2 DEF TaskSide, DoneFits, TextFits
    <2> QED BY <2>1, <2>2 DEF TaskSide
  <1> QED BY <1>3, <1>4, <1>5, <1>6, <1>7, <1>8, <1>9, <1>10, PartsOfFits DEF GroupParts, GroupSide

----------------------------------------------------------------------------
(* A payload fits the tables it was read from *)

Lists(q, S) ==
  /\ q \in Seq(S)
  /\ \A i, j \in DOMAIN q : q[i] = q[j] => i = j
  /\ \A x \in S : \E i \in DOMAIN q : q[i] = x

(* SetToSeq lists every element once. *)
LEMMA ListedOnce ==
  ASSUME NEW S, IsFiniteSet(S)
  PROVE  Lists(SetToSeq(S), S)
  <1> DEFINE c == Cardinality(S)
             q == SetToSeq(S)
  <1>1. c \in Nat /\ ExistsBijection(1..c, S)
    BY FS_CardinalityType
  <1>2. \E f \in [1..c -> S] : IsInjective(f)
    BY <1>1 DEF ExistsBijection, Bijection, Injection
  <1>3. q \in [1..c -> S] /\ IsInjective(q)
    BY <1>2 DEF SetToSeq
  <1>4. q \in Seq(S)
    BY <1>1, <1>3
  <1> HIDE DEF q
  <1>5. q \in Injection(1..c, S) /\ DOMAIN q = 1..c
    BY <1>3 DEF Injection
  <1>6. Cardinality(1..c) = c
    <2>1. 1 \in Int /\ c \in Int
      BY <1>1
    <2>2. Cardinality(1..c) = IF 1 > c THEN 0 ELSE c - 1 + 1
      BY <2>1, FS_Interval
    <2> HIDE DEF c
    <2> QED BY <1>1, <2>2
  <1>7. q \in Surjection(1..c, S)
    BY <1>5, <1>6, FS_Injection
  <1>8. \A x \in S : \E i \in DOMAIN q : q[i] = x
    BY <1>5, <1>7 DEF Surjection
  <1>9. \A i, j \in DOMAIN q : q[i] = q[j] => i = j
    BY <1>3 DEF IsInjective
  <1>10. Lists(q, S)
    BY <1>4, <1>8, <1>9 DEF Lists
  <1> QED BY <1>10 DEF q

(* What getFullUserData can read. *)
Readable(view) ==
  /\ view.members \in SUBSET (GroupId \X UserId)
  /\ view.invited \in SUBSET (GroupId \X UserId)
  /\ view.pinned \in SUBSET GroupId /\ view.pending \in SUBSET GroupId
  /\ view.tasks \in SUBSET TaskRow /\ IsFiniteSet(view.tasks) /\ IsFiniteSet(view.messages)

(* What loadFromPayload makes of the payload: a row per group, invitation, pin and
   task. *)
LEMMA LoadedRows ==
  ASSUME NEW view, Readable(view)
  PROVE  LET w == Loaded(view)
             mine == {m[1] : m \in view.members}
         IN
         /\ w.groups \in Seq(LocalGroup)
         /\ \A i \in DOMAIN w.groups :
               /\ w.groups[i].id \in mine
               /\ \A u : u \in w.groups[i].members <=> <<w.groups[i].id, u>> \in view.members
               /\ \A u : u \in w.groups[i].invited <=> <<w.groups[i].id, u>> \in view.invited
               /\ w.groups[i].chat =
                     Cardinality({x \in view.messages : x.group = w.groups[i].id})
         /\ \A i, j \in DOMAIN w.groups : w.groups[i].id = w.groups[j].id => i = j
         /\ \A g \in mine : \E i \in DOMAIN w.groups : w.groups[i].id = g
         /\ Lists(w.pending, view.pending) /\ Lists(w.tasks, view.tasks)
         /\ w.pins = view.pinned
  <1> DEFINE w == Loaded(view)
             mine == {m[1] : m \in view.members}
             row(g) == [id      |-> g,
                        members |-> {m[2] : m \in {x \in view.members : x[1] = g}},
                        invited |-> {i[2] : i \in {x \in view.invited : x[1] = g}},
                        chat    |-> Cardinality({x \in view.messages : x.group = g})]
             f == [g \in mine |-> row(g)]
             rows == {row(g) : g \in mine}
  <1>1. /\ w.groups = SetToSeq(rows) /\ w.pending = SetToSeq(view.pending)
        /\ w.tasks = SetToSeq(view.tasks) /\ w.pins = view.pinned
    <2>1. w = [groups |-> SetToSeq(rows), pending |-> SetToSeq(view.pending),
               pins |-> view.pinned, tasks |-> SetToSeq(view.tasks)]
      BY DEF Loaded
    <2> HIDE DEF w, rows
    <2> QED BY <2>1
  <1>2. w \in Local
    BY ViewType DEF Readable
  <1>3. IsFiniteSet(rows)
    <2>1. view.members \in SUBSET (GroupId \X UserId)
      BY DEF Readable
    <2>2. IsFiniteSet(mine)
      BY <2>1, PairsFinite
    <2> HIDE DEF mine, row
    <2>3. DOMAIN f = mine /\ f = [g \in mine |-> f[g]] /\ rows = {f[g] : g \in mine}
      OBVIOUS
    <2> HIDE DEF f, rows
    <2> QED BY <2>2, <2>3, FiniteValues
  <1>4. ASSUME NEW g
        PROVE  /\ \A u : u \in row(g).members <=> <<g, u>> \in view.members
               /\ \A u : u \in row(g).invited <=> <<g, u>> \in view.invited
    <2>1. /\ \A m \in view.members : m = <<m[1], m[2]>>
          /\ \A m \in view.invited : m = <<m[1], m[2]>>
      BY DEF Readable
    <2> QED BY <2>1
  <1>5. Lists(w.groups, rows)
    BY <1>1, <1>3, ListedOnce
  <1>6. Lists(w.tasks, view.tasks)
    BY <1>1, ListedOnce DEF Readable
  <1>7. Lists(w.pending, view.pending)
    <2>1. IsFiniteSet(GroupId)
      <3>1. 1 \in Int /\ MaxGroup \in Int
        BY BoundsAssumption
      <3> QED BY <3>1, FS_Interval DEF GroupId
    <2>2. IsFiniteSet(view.pending)
      BY <2>1, FS_Subset DEF Readable
    <2> QED BY <1>1, <2>2, ListedOnce
  <1>8. \A g : row(g).id = g /\ row(g).chat = Cardinality({x \in view.messages : x.group = g})
    OBVIOUS
  <1>9. \A x \in rows : x.id \in mine /\ x = row(x.id)
    BY <1>8
  <1>10. \A g \in mine : row(g) \in rows
    OBVIOUS
  <1> HIDE DEF row, rows, w
  <1>11. \A i \in DOMAIN w.groups : w.groups[i] \in rows
    BY <1>5 DEF Lists
  <1>12. ASSUME NEW i \in DOMAIN w.groups
         PROVE  /\ w.groups[i].id \in mine
                /\ \A u : u \in w.groups[i].members <=> <<w.groups[i].id, u>> \in view.members
                /\ \A u : u \in w.groups[i].invited <=> <<w.groups[i].id, u>> \in view.invited
                /\ w.groups[i].chat =
                      Cardinality({x \in view.messages : x.group = w.groups[i].id})
    <2> DEFINE g == w.groups[i].id
    <2>1. w.groups[i] = row(g) /\ g \in mine
      BY <1>9, <1>11
    <2> HIDE DEF g
    <2>2. /\ \A u : u \in w.groups[i].members <=> <<g, u>> \in view.members
          /\ \A u : u \in w.groups[i].invited <=> <<g, u>> \in view.invited
          /\ w.groups[i].chat = Cardinality({x \in view.messages : x.group = g})
      BY <1>4, <1>8, <2>1
    <2> QED BY <2>1, <2>2 DEF g
  <1>13. \A i, j \in DOMAIN w.groups : w.groups[i].id = w.groups[j].id => i = j
    BY <1>5, <1>9, <1>11 DEF Lists
  <1>14. ASSUME NEW g \in mine PROVE \E i \in DOMAIN w.groups : w.groups[i].id = g
    <2>1. row(g) \in rows /\ row(g).id = g
      BY <1>8, <1>10
    <2>2. \A x \in rows : \E i \in DOMAIN w.groups : w.groups[i] = x
      BY <1>5 DEF Lists
    <2> QED BY <2>1, <2>2
  <1>15. w.groups \in Seq(LocalGroup)
    BY <1>2 DEF Local
  <1> QED BY <1>1, <1>6, <1>7, <1>12, <1>13, <1>14, <1>15 DEF w

(* s says what view shows. *)
Tells(s, view) ==
  /\ s.mine = {m[1] : m \in view.members}
  /\ s.members = view.members /\ s.invited = view.invited
  /\ s.pending = view.pending /\ s.pins = view.pinned /\ s.tasks = view.tasks
  /\ \A g \in s.mine : s.chat[g] = Cardinality({x \in view.messages : x.group = g})

TasksSound(s) ==
  /\ \A x, y \in s.tasks : x.id = y.id => x = y
  /\ \A x \in s.tasks : x.id < s.nextTask

(* A payload fits what it was read from, with no reply behind it and no request asked
   for. *)
LEMMA LoadedFits ==
  ASSUME NEW view, Readable(view), NEW s, Tells(s, view), TasksSound(s)
  PROVE  Fits(Loaded(view), <<>>, {}, s)
  <1> DEFINE w == Loaded(view)
  <1>1. /\ w.groups \in Seq(LocalGroup)
        /\ \A i \in DOMAIN w.groups :
              /\ w.groups[i].id \in s.mine
              /\ \A u : u \in w.groups[i].members <=> <<w.groups[i].id, u>> \in s.members
              /\ \A u : u \in w.groups[i].invited <=> <<w.groups[i].id, u>> \in s.invited
              /\ w.groups[i].chat = s.chat[w.groups[i].id]
        /\ \A i, j \in DOMAIN w.groups : w.groups[i].id = w.groups[j].id => i = j
        /\ \A g \in s.mine : \E i \in DOMAIN w.groups : w.groups[i].id = g
        /\ Lists(w.pending, s.pending) /\ Lists(w.tasks, s.tasks)
        /\ w.pins = s.pins
    <2> DEFINE mine == {m[1] : m \in view.members}
    <2>1. /\ w.groups \in Seq(LocalGroup)
          /\ \A i \in DOMAIN w.groups :
                /\ w.groups[i].id \in mine
                /\ \A u : u \in w.groups[i].members <=> <<w.groups[i].id, u>> \in view.members
                /\ \A u : u \in w.groups[i].invited <=> <<w.groups[i].id, u>> \in view.invited
                /\ w.groups[i].chat =
                      Cardinality({x \in view.messages : x.group = w.groups[i].id})
          /\ \A i, j \in DOMAIN w.groups : w.groups[i].id = w.groups[j].id => i = j
          /\ \A g \in mine : \E i \in DOMAIN w.groups : w.groups[i].id = g
          /\ Lists(w.pending, view.pending) /\ Lists(w.tasks, view.tasks)
          /\ w.pins = view.pinned
      BY LoadedRows
    <2>2. /\ s.mine = mine /\ s.members = view.members /\ s.invited = view.invited
          /\ s.pending = view.pending /\ s.pins = view.pinned /\ s.tasks = view.tasks
          /\ \A g \in mine : s.chat[g] = Cardinality({x \in view.messages : x.group = g})
      BY DEF Tells
    <2> HIDE DEF mine, w
    <2> QED BY <2>1, <2>2
  <1> HIDE DEF w
  <1>2. DOMAIN <<>> = {}
    OBVIOUS
  <1>3. /\ \A g : ~Made(<<>>, g) /\ Posts(<<>>, g) = 0
        /\ \A t : ~MadeTask(<<>>, t) /\ ~Dropped(<<>>, t)
    <2>1. \A g : Posts(<<>>, g) = Cardinality({})
      BY <1>2 DEF Posts
    <2> QED BY <1>2, <2>1, FS_EmptySet DEF Made, MadeTask, Dropped
  <1>4. GroupsFit(w, <<>>, {}, s)
    BY <1>1 DEF GroupsFit
  <1>5. MadeFits(w, <<>>, {}, s) /\ MadeTasksFit(w, <<>>, {}, s)
    BY <1>2 DEF MadeFits, MadeTasksFit
  <1>6. MembersFit(w, <<>>, {}, s)
    BY <1>1 DEF MembersFit
  <1>7. InvitedFit(w, <<>>, {}, s)
    BY <1>1, <1>2, <1>3 DEF InvitedFit, InvitationFits
  <1>8. ChatFits(w, <<>>, {}, s)
    <2>1. \A i \in DOMAIN w.groups : w.groups[i].chat \in Nat
      <3>1. \A i \in DOMAIN w.groups : w.groups[i] \in LocalGroup
        BY <1>1
      <3> QED BY <3>1 DEF LocalGroup
    <2>2. \A i \in DOMAIN w.groups : w.groups[i].chat + 0 = w.groups[i].chat
      BY <2>1
    <2> QED BY <1>1, <1>3, <2>2 DEF ChatFits
  <1>9. PendingFits(w, <<>>, {}, s)
    BY <1>1 DEF PendingFits, Lists
  <1>10. PinsFit(w, <<>>, {}, s)
    BY <1>1 DEF PinsFit
  <1>11. \A i \in DOMAIN w.tasks : w.tasks[i] \in s.tasks
    BY <1>1 DEF Lists
  <1>12. TasksFit(w, <<>>, {}, s)
    BY <1>1, <1>3, <1>11 DEF TasksFit, TasksSound, Lists
  <1>13. DoneFits(w, <<>>, {}, s) /\ TextFits(w, <<>>, {}, s)
    BY <1>2, <1>3, <1>11 DEF DoneFits, TextFits, ColumnFits, TasksSound
  <1>14. Fits(w, <<>>, {}, s)
    BY <1>4, <1>5, <1>6, <1>7, <1>8, <1>9, <1>10, <1>12, <1>13 DEF Fits
  <1> QED BY <1>14 DEF w

----------------------------------------------------------------------------
(* A copy that fits with nothing under way is the payload *)

LEMMA SameLists ==
  ASSUME NEW S, NEW q \in Seq(S), NEW T, NEW t \in Seq(T),
         \A i, j \in DOMAIN q : q[i] = q[j] => i = j,
         \A i, j \in DOMAIN t : t[i] = t[j] => i = j,
         \A i \in DOMAIN q : \E j \in DOMAIN t : q[i] = t[j],
         \A j \in DOMAIN t : \E i \in DOMAIN q : t[j] = q[i]
  PROVE  SameRows(q, t)
  <1> DEFINE m == Len(q)
             n == Len(t)
             rows == Range(q)
  <1>1. m \in Nat /\ DOMAIN q = 1..m /\ n \in Nat /\ DOMAIN t = 1..n
    OBVIOUS
  <1>2. Range(q) = Range(t)
    BY DEF Range
  <1>3. q \in Bijection(1..m, rows)
    <2>1. q \in [1..m -> rows]
      BY <1>1 DEF Range
    <2> QED BY <1>1, <2>1 DEF Bijection, Injection, Surjection, IsInjective, Range
  <1>4. t \in Bijection(1..n, rows)
    <2>1. t \in [1..n -> rows]
      BY <1>1, <1>2 DEF Range
    <2>2. \A x \in rows : \E j \in 1..n : t[j] = x
      BY <1>1, <1>2 DEF Range
    <2> HIDE DEF rows
    <2> QED BY <1>1, <2>1, <2>2 DEF Bijection, Injection, Surjection, IsInjective
  <1>5. \A k \in Nat : IsFiniteSet(1..k) /\ Cardinality(1..k) = k
    <2> TAKE k \in Nat
    <2>1. 1 \in Int /\ k \in Int
      OBVIOUS
    <2>2. IsFiniteSet(1..k) /\ Cardinality(1..k) = IF 1 > k THEN 0 ELSE k - 1 + 1
      BY <2>1, FS_Interval
    <2> QED BY <2>2
  <1>6. Cardinality(rows) = m
    <2>1. ExistsBijection(1..m, rows)
      BY <1>3 DEF ExistsBijection
    <2> HIDE DEF m, rows
    <2> QED BY <1>1, <1>5, <2>1, FS_Bijection
  <1>7. Cardinality(rows) = n
    <2>1. ExistsBijection(1..n, rows)
      BY <1>4 DEF ExistsBijection
    <2> HIDE DEF n, rows
    <2> QED BY <1>1, <1>5, <2>1, FS_Bijection
  <1> QED BY <1>2, <1>6, <1>7 DEF SameRows

(* No request excuses anything, no reply says anything. *)
LEMMA NothingAsked ==
  /\ \A cmds, g : ~AsksOf({}, cmds, g)
  /\ \A cmds, g, u : ~AsksAbout({}, cmds, g, u)
  /\ \A cmd, t : ~AsksTask({}, cmd, t)
  /\ \A g : ~Made(<<>>, g) /\ Posts(<<>>, g) = 0
  /\ \A t : ~MadeTask(<<>>, t) /\ ~Dropped(<<>>, t)
  /\ \A cmd, x : Untouched(<<>>, cmd, x)
  <1>1. DOMAIN <<>> = {}
    OBVIOUS
  <1>2. \A g : Posts(<<>>, g) = Cardinality({})
    BY <1>1 DEF Posts
  <1>3. \A g : Posts(<<>>, g) = 0
    BY <1>2, FS_EmptySet
  <1>4. /\ \A cmds, g : ~AsksOf({}, cmds, g)
        /\ \A cmds, g, u : ~AsksAbout({}, cmds, g, u)
        /\ \A cmd, t : ~AsksTask({}, cmd, t)
    BY DEF AsksOf, AsksAbout, AsksTask
  <1> QED BY <1>1, <1>3, <1>4 DEF Made, MadeTask, Dropped, Untouched

(* A copy that fits with nothing under way agrees with the payload of that moment. *)
LEMMA FitsAgrees ==
  ASSUME NEW view, Readable(view), NEW s, Tells(s, view), s.joining = {},
         NEW v \in Local, Fits(v, <<>>, {}, s)
  PROVE  Agrees(v, Loaded(view))
  <1> DEFINE w == Loaded(view)
  <1>1. /\ w.groups \in Seq(LocalGroup)
        /\ \A i \in DOMAIN w.groups :
              /\ w.groups[i].id \in s.mine
              /\ \A u : u \in w.groups[i].members <=> <<w.groups[i].id, u>> \in s.members
              /\ \A u : u \in w.groups[i].invited <=> <<w.groups[i].id, u>> \in s.invited
              /\ w.groups[i].chat = s.chat[w.groups[i].id]
        /\ \A i, j \in DOMAIN w.groups : w.groups[i].id = w.groups[j].id => i = j
        /\ \A g \in s.mine : \E i \in DOMAIN w.groups : w.groups[i].id = g
        /\ Lists(w.pending, s.pending) /\ Lists(w.tasks, s.tasks)
        /\ w.pins = s.pins
    <2> DEFINE mine == {m[1] : m \in view.members}
    <2>1. /\ w.groups \in Seq(LocalGroup)
          /\ \A i \in DOMAIN w.groups :
                /\ w.groups[i].id \in mine
                /\ \A u : u \in w.groups[i].members <=> <<w.groups[i].id, u>> \in view.members
                /\ \A u : u \in w.groups[i].invited <=> <<w.groups[i].id, u>> \in view.invited
                /\ w.groups[i].chat =
                      Cardinality({x \in view.messages : x.group = w.groups[i].id})
          /\ \A i, j \in DOMAIN w.groups : w.groups[i].id = w.groups[j].id => i = j
          /\ \A g \in mine : \E i \in DOMAIN w.groups : w.groups[i].id = g
          /\ Lists(w.pending, view.pending) /\ Lists(w.tasks, view.tasks)
          /\ w.pins = view.pinned
      BY LoadedRows
    <2>2. /\ s.mine = mine /\ s.members = view.members /\ s.invited = view.invited
          /\ s.pending = view.pending /\ s.pins = view.pinned /\ s.tasks = view.tasks
          /\ \A g \in mine : s.chat[g] = Cardinality({x \in view.messages : x.group = g})
      BY DEF Tells
    <2> HIDE DEF mine, w
    <2> QED BY <2>1, <2>2
  <1> HIDE DEF w
  <1>2. /\ GroupSide(v, <<>>, {}, s) /\ TaskSide(v, <<>>, {}, s)
        /\ PendingFits(v, <<>>, {}, s) /\ PinsFit(v, <<>>, {}, s)
    BY Sides
  <1>3. /\ v.groups \in Seq(LocalGroup) /\ v.pending \in Seq(GroupId)
        /\ v.pins \in SUBSET GroupId /\ v.tasks \in Seq(TaskRow)
    BY DEF Local
  <1>4. v.pins = w.pins
    <2>1. s.pins \subseteq GroupId
      BY DEF Tells, Readable
    <2>2. \A g \in GroupId : g \in v.pins <=> g \in s.pins
      BY <1>2, NothingAsked DEF PinsFit
    <2>3. v.pins = s.pins
      BY <1>3, <2>1, <2>2
    <2> QED BY <1>1, <2>3
  <1>5. SameRows(v.pending, w.pending)
    <2>1. /\ \A i \in DOMAIN v.pending : v.pending[i] \in s.pending
          /\ \A i, j \in DOMAIN v.pending : v.pending[i] = v.pending[j] => i = j
          /\ \A g \in s.pending : \E i \in DOMAIN v.pending : v.pending[i] = g
      BY <1>2, NothingAsked DEF PendingFits
    <2>2. /\ w.pending \in Seq(s.pending)
          /\ \A i, j \in DOMAIN w.pending : w.pending[i] = w.pending[j] => i = j
          /\ \A g \in s.pending : \E i \in DOMAIN w.pending : w.pending[i] = g
          /\ \A i \in DOMAIN w.pending : w.pending[i] \in s.pending
      BY <1>1 DEF Lists
    <2>3. \A i \in DOMAIN v.pending : \E j \in DOMAIN w.pending : v.pending[i] = w.pending[j]
      BY <2>1, <2>2
    <2>4. \A j \in DOMAIN w.pending : \E i \in DOMAIN v.pending : w.pending[j] = v.pending[i]
      BY <2>1, <2>2
    <2> QED BY <1>3, <2>1, <2>2, <2>3, <2>4, SameLists
  <1>6. SameRows(v.tasks, w.tasks)
    <2>1. /\ \A i \in DOMAIN v.tasks : \E x \in s.tasks : x.id = v.tasks[i].id
          /\ \A i, j \in DOMAIN v.tasks : v.tasks[i].id = v.tasks[j].id => i = j
          /\ \A x \in s.tasks : \E i \in DOMAIN v.tasks : v.tasks[i].id = x.id
          /\ \A i \in DOMAIN v.tasks : \A x \in s.tasks : x.id = v.tasks[i].id =>
                x.group = v.tasks[i].group /\ x.owner = v.tasks[i].owner
      BY <1>2, NothingAsked DEF TaskSide, TasksFit
    <2>2. /\ w.tasks \in Seq(s.tasks)
          /\ \A i, j \in DOMAIN w.tasks : w.tasks[i] = w.tasks[j] => i = j
          /\ \A x \in s.tasks : \E i \in DOMAIN w.tasks : w.tasks[i] = x
          /\ \A i \in DOMAIN w.tasks : w.tasks[i] \in s.tasks
      BY <1>1 DEF Lists
    <2>3. ASSUME NEW i \in DOMAIN v.tasks, NEW x \in s.tasks, x.id = v.tasks[i].id
          PROVE  v.tasks[i] = x
      <3>1. x.body["done"] = v.tasks[i].body["done"]
        BY <1>2, <2>3, NothingAsked DEF TaskSide, DoneFits, ColumnFits
      <3>2. x.body["text"] = v.tasks[i].body["text"]
        BY <1>2, <2>3, NothingAsked DEF TaskSide, TextFits, ColumnFits
      <3>3. x \in TaskRow /\ v.tasks[i] \in TaskRow
        BY <1>3 DEF Tells, Readable
      <3>4. x.body \in [done : BOOLEAN, text : Texts] /\ v.tasks[i].body \in [done : BOOLEAN, text : Texts]
        BY <3>3, ClientSyncAssumption DEF TaskRow
      <3>5. x.body = v.tasks[i].body
        BY <3>1, <3>2, <3>4
      <3>6. x.group = v.tasks[i].group /\ x.owner = v.tasks[i].owner
        BY <2>1, <2>3
      <3> QED BY <2>3, <3>3, <3>5, <3>6 DEF TaskRow
    <2>4. \A i, j \in DOMAIN v.tasks : v.tasks[i] = v.tasks[j] => i = j
      BY <2>1
    <2>5. \A i \in DOMAIN v.tasks : \E j \in DOMAIN w.tasks : v.tasks[i] = w.tasks[j]
      BY <2>1, <2>2, <2>3
    <2>6. \A j \in DOMAIN w.tasks : \E i \in DOMAIN v.tasks : w.tasks[j] = v.tasks[i]
      BY <2>1, <2>2, <2>3
    <2> QED BY <1>3, <2>2, <2>4, <2>5, <2>6, SameLists
  <1> DEFINE vs == [i \in DOMAIN v.groups |-> Listed(v.groups[i])]
             ws == [i \in DOMAIN w.groups |-> Listed(w.groups[i])]
  <1>7. SameRows(vs, ws)
    <2>1. /\ \A i \in DOMAIN v.groups : v.groups[i].id \in s.mine
          /\ \A i, j \in DOMAIN v.groups : v.groups[i].id = v.groups[j].id => i = j
          /\ \A g \in s.mine : \E i \in DOMAIN v.groups : v.groups[i].id = g
      BY <1>2, NothingAsked DEF GroupSide, GroupsFit
    <2>2. /\ \A i \in DOMAIN v.groups : v.groups[i] \in LocalGroup
          /\ \A i \in DOMAIN w.groups : w.groups[i] \in LocalGroup
      BY <1>1, <1>3
    <2>3. \A x \in LocalGroup : Listed(x).id = x.id
      BY DEF Listed, LocalGroup
    <2>4. ASSUME NEW i \in DOMAIN v.groups, NEW j \in DOMAIN w.groups,
                 v.groups[i].id = w.groups[j].id
          PROVE  Listed(v.groups[i]) = Listed(w.groups[j])
      <3> DEFINE x == v.groups[i]
                 y == w.groups[j]
      <3>1. x \in LocalGroup /\ y \in LocalGroup /\ x.id = y.id /\ x.id \in s.mine
        BY <2>1, <2>2, <2>4
      <3>2. \A u \in UserId : u \in x.members <=> <<x.id, u>> \in s.members
        BY <1>2, NothingAsked DEF GroupSide, MembersFit
      <3>3. \A u \in UserId : <<x.id, u>> \in s.members \/ (u \in x.invited <=> <<x.id, u>> \in s.invited)
        <4> SUFFICES ASSUME NEW u \in UserId, <<x.id, u>> \notin s.members
                     PROVE  u \in x.invited <=> <<x.id, u>> \in s.invited
          OBVIOUS
        <4>1. InvitationFits(v, <<>>, s, x.id, u)
          BY <1>2, <3>1, NothingAsked DEF GroupSide, InvitedFit
        <4>2. \A k \in DOMAIN <<>> : ~OnInvite(<<>>[k], x.id, u)
          OBVIOUS
        <4> QED BY <4>1, <4>2 DEF InvitationFits
      <3>4. /\ \A u : u \in y.members <=> <<x.id, u>> \in s.members
            /\ \A u : u \in y.invited <=> <<x.id, u>> \in s.invited
        BY <1>1, <3>1
      <3>5. x.chat = y.chat
        <4>1. x.chat + Posts(<<>>, x.id) = s.chat[x.id]
          BY <1>2, <3>1, NothingAsked DEF GroupSide, ChatFits
        <4>2. x.chat \in Nat /\ x.chat + 0 = x.chat
          BY <3>1 DEF LocalGroup
        <4>3. y.chat = s.chat[x.id]
          BY <1>1, <3>1
        <4> QED BY <4>1, <4>2, <4>3, NothingAsked
      <3>6. /\ x.members \subseteq UserId /\ x.invited \subseteq UserId
            /\ y.members \subseteq UserId /\ y.invited \subseteq UserId
        BY <3>1 DEF LocalGroup
      <3> HIDE DEF x, y
      <3>7. x.members = y.members /\ x.invited \ x.members = y.invited \ y.members
        BY <3>2, <3>3, <3>4, <3>6
      <3>8. Listed(x) = Listed(y)
        <4> DEFINE z == y.invited \ y.members
        <4>1. x.invited \ x.members = z
          BY <3>7
        <4> HIDE DEF z
        <4>2. [x EXCEPT !.invited = z] = [y EXCEPT !.invited = z]
          BY <3>1, <3>5, <3>7 DEF LocalGroup
        <4>3. Listed(x) = [x EXCEPT !.invited = z]
          BY <4>1 DEF Listed
        <4>4. Listed(y) = [y EXCEPT !.invited = z]
          BY DEF Listed, z
        <4> QED BY <4>2, <4>3, <4>4
      <3> QED BY <3>8 DEF x, y
    <2>5. /\ DOMAIN vs = DOMAIN v.groups /\ DOMAIN ws = DOMAIN w.groups
          /\ \A i \in DOMAIN v.groups : vs[i] = Listed(v.groups[i])
          /\ \A i \in DOMAIN w.groups : ws[i] = Listed(w.groups[i])
      OBVIOUS
    <2> DEFINE m == Len(v.groups)
               n == Len(w.groups)
    <2>10. m \in Nat /\ DOMAIN v.groups = 1..m /\ n \in Nat /\ DOMAIN w.groups = 1..n
      BY <1>1, <1>3
    <2>11. vs = [i \in 1..m |-> vs[i]] /\ ws = [i \in 1..n |-> ws[i]]
      BY <2>5, <2>10
    <2> DEFINE S == {Listed(y) : y \in LocalGroup}
    <2>13. (\A i \in 1..m : vs[i] \in S) /\ (\A i \in 1..n : ws[i] \in S)
      BY <2>2, <2>5, <2>10
    <2> HIDE DEF vs, ws, S, m, n
    <2>6. vs \in Seq(S) /\ ws \in Seq(S)
      <3>1. \A k \in Nat : \A q : q = [i \in 1..k |-> q[i]] /\ (\A i \in 1..k : q[i] \in S) => q \in Seq(S)
        OBVIOUS
      <3> QED BY <2>10, <2>11, <2>13, <3>1
    <2>7. /\ \A i, j \in DOMAIN vs : vs[i] = vs[j] => i = j
          /\ \A i, j \in DOMAIN ws : ws[i] = ws[j] => i = j
      BY <1>1, <2>1, <2>2, <2>3, <2>5
    <2>8. ASSUME NEW i \in DOMAIN vs PROVE \E j \in DOMAIN ws : vs[i] = ws[j]
      <3>1. PICK j \in DOMAIN w.groups : w.groups[j].id = v.groups[i].id
        BY <1>1, <2>1, <2>5
      <3>2. Listed(v.groups[i]) = Listed(w.groups[j])
        BY <2>4, <2>5, <3>1
      <3> QED BY <2>5, <3>1, <3>2
    <2>9. ASSUME NEW j \in DOMAIN ws PROVE \E i \in DOMAIN vs : ws[j] = vs[i]
      <3>1. PICK i \in DOMAIN v.groups : v.groups[i].id = w.groups[j].id
        BY <1>1, <2>1, <2>5
      <3>2. Listed(v.groups[i]) = Listed(w.groups[j])
        BY <2>4, <2>5, <3>1
      <3> QED BY <2>5, <3>1, <3>2
    <2> QED BY <2>6, <2>7, <2>8, <2>9, SameLists
  <1>8. Agrees(v, w)
    BY <1>4, <1>5, <1>6, <1>7 DEF Agrees
  <1> QED BY <1>8 DEF w

----------------------------------------------------------------------------
(* What the tables show, read off the tables *)

ChatOf(rows, g) == Cardinality({x \in rows : x.group = g})

ShownRows ==
  LET s == Shown IN
  /\ s.mine = {g \in groups : <<g, Me>> \in members}
  /\ s.members = {m \in members : m[1] \in s.mine}
  /\ s.invited = {i \in invites : i[1] \in s.mine}
  /\ s.pending = {g \in groups : <<g, Me>> \in invites}
  /\ s.joining = Joining
  /\ s.pins = {g \in GroupId : <<g, Me>> \in pins}
  /\ s.tasks = {t \in tasks : t.group \in s.mine}
  /\ \A g \in GroupId : s.chat[g] = ChatOf({m \in messages : m.group \in s.mine}, g)
  /\ s.nextTask = next.task

(* What Shown is, table by table. *)
LEMMA ShownIs == ShownRows
  <1> DEFINE mine == {g \in groups : <<g, Me>> \in members}
             view == View(Me)
  <1>1. /\ view.members = {m \in members : m[1] \in mine}
        /\ view.invited = {i \in invites : i[1] \in mine}
        /\ view.pending = {g \in groups : <<g, Me>> \in invites}
        /\ view.pinned = {g \in GroupId : <<g, Me>> \in pins}
        /\ view.tasks = {t \in tasks : t.group \in mine}
        /\ view.messages = {m \in messages : m.group \in mine}
    BY DEF View
  <1> HIDE DEF view
  <1>2. Shown = [mine |-> mine, members |-> view.members, invited |-> view.invited,
                 pending |-> view.pending, joining |-> Joining, pins |-> view.pinned,
                 tasks |-> view.tasks,
                 chat |-> [g \in GroupId |-> ChatOf(view.messages, g)],
                 nextTask |-> next.task]
    BY DEF Shown, view, ChatOf
  <1> HIDE DEF mine
  <1>3. /\ Shown.mine = mine /\ Shown.members = view.members /\ Shown.invited = view.invited
        /\ Shown.pending = view.pending /\ Shown.joining = Joining /\ Shown.pins = view.pinned
        /\ Shown.tasks = view.tasks /\ Shown.nextTask = next.task
        /\ Shown.chat = [g \in GroupId |-> ChatOf(view.messages, g)]
    BY <1>2
  <1>4. \A g \in GroupId : Shown.chat[g] = ChatOf(view.messages, g)
    BY <1>3
  <1>5. Shown.mine = {g \in groups : <<g, Me>> \in members}
    BY <1>3 DEF mine
  <1> QED BY <1>1, <1>3, <1>4, <1>5 DEF ShownRows

(* The same in the next state. *)
LEMMA ShownIsNext == ShownRows'
  BY ShownIs, PTL

(* Shown tells what a payload read now would show, and it has the types. *)
ShownFine ==
  /\ Readable(View(Me)) /\ Tells(Shown, View(Me))
  /\ Shown.mine \subseteq GroupId /\ Shown.tasks \subseteq TaskRow

(* What Shown reads off the tables is what a payload of the moment would hold. *)
LEMMA ShownReads == TypeOK /\ FiniteTables => ShownFine
  <1> SUFFICES ASSUME TypeOK, FiniteTables PROVE ShownFine
    OBVIOUS
  <1> DEFINE view == View(Me)
             s == Shown
             mine == {g \in groups : <<g, Me>> \in members}
  <1>1. /\ view.members = {m \in members : m[1] \in mine}
        /\ view.invited = {i \in invites : i[1] \in mine}
        /\ view.pending = {g \in groups : <<g, Me>> \in invites}
        /\ view.pinned = {g \in GroupId : <<g, Me>> \in pins}
        /\ view.tasks = {t \in tasks : t.group \in mine}
        /\ view.messages = {m \in messages : m.group \in mine}
    BY DEF View
  <1>2. /\ s.mine = mine
        /\ s.members = {m \in members : m[1] \in mine}
        /\ s.invited = {i \in invites : i[1] \in mine}
        /\ s.pending = {g \in groups : <<g, Me>> \in invites}
        /\ s.pins = {g \in GroupId : <<g, Me>> \in pins}
        /\ s.tasks = {t \in tasks : t.group \in mine}
        /\ \A g \in GroupId : s.chat[g] = ChatOf({m \in messages : m.group \in mine}, g)
    BY ShownIs DEF ShownRows
  <1> HIDE DEF view, s
  <1>3. Readable(view)
    <2>1. IsFiniteSet(view.tasks) /\ IsFiniteSet(view.messages)
      BY <1>1, FS_Subset DEF FiniteTables
    <2>2. /\ view.members \in SUBSET (GroupId \X UserId)
          /\ view.invited \in SUBSET (GroupId \X UserId)
          /\ view.pinned \in SUBSET GroupId /\ view.pending \in SUBSET GroupId
          /\ view.tasks \in SUBSET TaskRow
      BY <1>1 DEF TypeOK
    <2> QED BY <2>1, <2>2 DEF Readable
  <1>4. mine = {m[1] : m \in view.members}
    <2>1. \A g \in mine : <<g, Me>> \in view.members /\ <<g, Me>>[1] = g
      BY <1>1
    <2>2. \A m \in view.members : m[1] \in mine
      BY <1>1
    <2> HIDE DEF mine
    <2> QED BY <2>1, <2>2
  <1>5. mine \subseteq GroupId
    BY DEF TypeOK
  <1>6. s.tasks \subseteq TaskRow
    BY <1>2 DEF TypeOK
  <1> HIDE DEF mine
  <1>7. Tells(s, view)
    BY <1>1, <1>2, <1>4, <1>5 DEF Tells, ChatOf
  <1> QED BY <1>2, <1>3, <1>5, <1>6, <1>7 DEF ShownFine, s, view

(* The same in the next state. *)
LEMMA ShownReadsNext == TypeOK' /\ FiniteTables' => ShownFine'
  BY ShownReads, PTL

(* The tasks shown have ids of their own, all handed out. *)
LEMMA ShownTasksSound == TablesSound => TasksSound(Shown)
  BY ShownIs DEF ShownRows, TablesSound, TasksSound, IdsBelowNext, OneTaskPerId

(* The same in the next state. *)
LEMMA ShownTasksSoundNext == TablesSound' => TasksSound(Shown')
  BY ShownIsNext DEF ShownRows, TablesSound, TasksSound, IdsBelowNext, OneTaskPerId

(* A payload read now fits. *)
LEMMA PayloadFits ==
  ASSUME TypeOK, FiniteTables, TablesSound
  PROVE  Fits(Loaded(View(Me)), <<>>, {}, Shown)
  BY ShownReads, ShownTasksSound, LoadedFits DEF ShownFine

(* A payload read by a step fits what the tables show after it. *)
LEMMA NextPayloadFits ==
  ASSUME TypeOK', FiniteTables', TablesSound'
  PROVE  Fits(Loaded(View(Me)'), <<>>, {}, Shown')
  <1>1. Readable(View(Me)') /\ Tells(Shown', View(Me)')
    BY ShownReadsNext DEF ShownFine
  <1> QED BY <1>1, ShownTasksSoundNext, LoadedFits

----------------------------------------------------------------------------
(* The copy that will be the client's: q is on its way to the client, t is
   still to be sent, l is the client's copy; v is the one that counts, R the
   replies behind it, X the requests that are still to be served. *)

Rest(line, p) == [k \in 1..Len(line) - p |-> line[p + k]]
NoPush(q) == \A i \in DOMAIN q : IsReply(q[i])
LastPush(q, p) ==
  p \in DOMAIN q /\ ~IsReply(q[p]) /\ \A i \in DOMAIN q : ~IsReply(q[i]) => i <= p

Base(q, t, l, A, W, v, R, X) ==
  \/ NoPush(q) /\ v = l /\ R = q \o t /\ X = A
  \/ \E p \in DOMAIN q : LastPush(q, p) /\ v = q[p] /\ R = Rest(q \o t, p) /\ X = W

Coming == IF job = Idle THEN answer ELSE <<>>

(* The places of two queues in a row. *)
LEMMA LineFacts ==
  ASSUME NEW M, NEW q \in Seq(M), NEW t \in Seq(M)
  PROVE  /\ q \o t \in Seq(M)
         /\ Len(q) \in Nat /\ Len(t) \in Nat /\ Len(q \o t) = Len(q) + Len(t)
         /\ DOMAIN q = 1..Len(q) /\ DOMAIN t = 1..Len(t)
         /\ DOMAIN (q \o t) = 1..Len(q) + Len(t)
         /\ \A i \in 1..Len(q) : (q \o t)[i] = q[i]
         /\ \A i \in 1..Len(t) : (q \o t)[Len(q) + i] = t[i]
  <1>1. /\ q \o t \in Seq(M) /\ Len(q \o t) = Len(q) + Len(t)
        /\ \A i \in 1..Len(q) + Len(t) :
              (q \o t)[i] = IF i <= Len(q) THEN q[i] ELSE t[i - Len(q)]
    BY ConcatProperties
  <1>2. Len(q) \in Nat /\ Len(t) \in Nat /\ DOMAIN q = 1..Len(q) /\ DOMAIN t = 1..Len(t)
    BY LenProperties
  <1>3. DOMAIN (q \o t) = 1..Len(q) + Len(t)
    BY <1>1, LenProperties
  <1> DEFINE line == q \o t
  <1> HIDE DEF line
  <1>4. \A i \in 1..Len(q) : line[i] = q[i]
    BY <1>1, <1>2 DEF line
  <1>5. ASSUME NEW i \in 1..Len(t) PROVE line[Len(q) + i] = t[i]
    <2>1. Len(q) + i \in 1..Len(q) + Len(t) /\ ~(Len(q) + i <= Len(q)) /\ Len(q) + i - Len(q) = i
      BY <1>2
    <2>2. line[Len(q) + i] = IF Len(q) + i <= Len(q) THEN q[Len(q) + i] ELSE t[Len(q) + i - Len(q)]
      BY <1>1, <2>1 DEF line
    <2> QED BY <2>1, <2>2
  <1> QED BY <1>1, <1>2, <1>3, <1>4, <1>5 DEF line

(* A payload at the end of the queue is what counts. *)
LEMMA PushedBase ==
  ASSUME NEW M, NEW q \in Seq(M), NEW t \in Seq(M), NEW w \in M, ~IsReply(w),
         NEW l, NEW A, NEW W, NEW v, NEW R, NEW X, Base(Append(q, w), t, l, A, W, v, R, X)
  PROVE  v = w /\ R = t /\ X = W
  <1> DEFINE c == Append(q, w)
             n == Len(q) + 1
  <1>1. /\ c \in Seq(M) /\ n \in DOMAIN c /\ c[n] = w /\ n \in Nat /\ Len(c) = n
        /\ \A i \in DOMAIN c : i \in Nat /\ i <= n
    BY AppendFacts
  <1> HIDE DEF c, n
  <1>2. ~NoPush(c)
    BY <1>1 DEF NoPush
  <1>3. PICK p \in DOMAIN c : LastPush(c, p) /\ v = c[p] /\ R = Rest(c \o t, p) /\ X = W
    BY <1>2 DEF Base, c
  <1>4. p = n
    BY <1>1, <1>3 DEF LastPush
  <1>5. R = t
    <2>1. /\ Len(c \o t) = n + Len(t) /\ Len(t) \in Nat /\ DOMAIN t = 1..Len(t)
          /\ \A i \in 1..Len(t) : (c \o t)[n + i] = t[i]
      BY <1>1, LineFacts
    <2> DEFINE line == c \o t
    <2>2. R = [k \in 1..Len(line) - n |-> line[n + k]]
      BY <1>3, <1>4 DEF Rest
    <2> HIDE DEF line
    <2>3. Len(line) - n = Len(t)
      BY <1>1, <2>1 DEF line
    <2>4. \A i \in 1..Len(t) : line[n + i] = t[i]
      BY <2>1 DEF line
    <2>5. R = [k \in 1..Len(t) |-> t[k]]
      BY <2>2, <2>3, <2>4
    <2> QED BY <2>1, <2>5
  <1> QED BY <1>1, <1>3, <1>4, <1>5

(* Nothing but replies is behind what counts, and each comes from a queue. *)
LEMMA BehindBase ==
  ASSUME NEW M, NEW q \in Seq(M), NEW t \in Seq(M), \A i \in DOMAIN t : IsReply(t[i]),
         NEW l, NEW A, NEW W, NEW v, NEW R, NEW X, Base(q, t, l, A, W, v, R, X)
  PROVE  /\ R \in Seq(M)
         /\ \A k \in DOMAIN R : /\ IsReply(R[k])
                                /\ \/ \E i \in DOMAIN q : R[k] = q[i]
                                   \/ \E i \in DOMAIN t : R[k] = t[i]
  <1> DEFINE line == q \o t
             m == Len(q)
             n == Len(t)
  <1>0. /\ line \in Seq(M) /\ m \in Nat /\ n \in Nat /\ Len(line) = m + n
        /\ DOMAIN q = 1..m /\ DOMAIN t = 1..n /\ DOMAIN line = 1..m + n
        /\ \A i \in 1..m : line[i] = q[i]
        /\ \A i \in 1..n : line[m + i] = t[i]
    BY LineFacts
  <1> HIDE DEF line, m, n
  <1>1. ASSUME NEW k \in 1..m + n
        PROVE  \/ k \in DOMAIN q /\ line[k] = q[k]
               \/ k > m /\ \E i \in DOMAIN t : line[k] = t[i]
    <2>1. CASE k <= m
      BY <1>0, <2>1
    <2>2. CASE k > m
      <3>1. k - m \in 1..n /\ m + (k - m) = k
        BY <1>0, <2>2
      <3> QED BY <1>0, <2>2, <3>1
    <2> QED BY <1>0, <2>1, <2>2
  <1>2. CASE NoPush(q) /\ R = line
    BY <1>0, <1>1, <1>2 DEF NoPush
  <1>3. ASSUME NEW p \in DOMAIN q, LastPush(q, p), R = Rest(line, p)
        PROVE  /\ R \in Seq(M)
               /\ \A k \in DOMAIN R : /\ IsReply(R[k])
                                      /\ \/ \E i \in DOMAIN q : R[k] = q[i]
                                         \/ \E i \in DOMAIN t : R[k] = t[i]
    <2> DEFINE d == m + n - p
    <2>1. p \in 1..m /\ d \in Nat /\ R = [k \in 1..d |-> line[p + k]]
      BY <1>0, <1>3 DEF Rest
    <2>2. \A k \in 1..d : p + k \in 1..m + n /\ p + k > p
      BY <1>0, <2>1
    <2> HIDE DEF d
    <2>3. \A k \in 1..d : line[p + k] \in M
      BY <1>0, <2>2
    <2>4. R \in Seq(M) /\ DOMAIN R = 1..d
      BY <2>1, <2>3
    <2>5. ASSUME NEW k \in 1..d
          PROVE  /\ IsReply(R[k])
                 /\ \/ \E i \in DOMAIN q : R[k] = q[i]
                    \/ \E i \in DOMAIN t : R[k] = t[i]
      <3>1. p + k \in 1..m + n /\ R[k] = line[p + k] /\ ~(p + k <= p)
        BY <2>1, <2>2
      <3>2. \/ p + k \in DOMAIN q /\ line[p + k] = q[p + k]
            \/ p + k > m /\ \E i \in DOMAIN t : line[p + k] = t[i]
        BY <1>1, <3>1
      <3> QED BY <1>3, <3>1, <3>2 DEF LastPush
    <2> QED BY <2>4, <2>5
  <1> QED BY <1>2, <1>3 DEF Base, line

(* The line with no answer, and with one. *)
LEMMA AnswerLine ==
  ASSUME NEW M, NEW q \in Seq(M), NEW a \in M
  PROVE  /\ q \o <<>> = q
         /\ q \o <<a>> = Append(q, a)
         /\ <<a>> \in Seq(M) /\ <<>> \in Seq(M)
         /\ Append(q, a) \o <<>> = Append(q, a)
  <1>1. Append(q, a) \in Seq(M)
    BY AppendProperties
  <1>2. \A s \in Seq(M) : s \o <<>> = s
    BY ConcatEmptySeq
  <1>3. q \o <<a>> = Append(q, a)
    BY AppendIsConcat
  <1>4. <<a>> \in Seq(M) /\ <<>> \in Seq(M)
    OBVIOUS
  <1> QED BY <1>1, <1>2, <1>3, <1>4

(* The server has answered: one reply more is behind the copy. *)
LEMMA AnsweredBase ==
  ASSUME NEW M, NEW q \in Seq(M), NEW a \in M, NEW l, NEW A2, NEW W2,
         NEW v, NEW Q, NEW X, Base(q, <<a>>, l, A2, W2, v, Q, X)
  PROVE  \E R : /\ Longer(R, Q, a)
                /\ \/ X = A2 /\ \A A, W : Base(q, <<>>, l, A, W, v, R, A)
                   \/ X = W2 /\ \A A, W : Base(q, <<>>, l, A, W, v, R, W)
  <1>1. /\ q \o <<>> = q /\ q \o <<a>> = Append(q, a)
        /\ q \in Seq(M) /\ Append(q, a) \in Seq(M)
    BY AnswerLine, AppendProperties
  <1>2. CASE NoPush(q) /\ v = l /\ Q = q \o <<a>> /\ X = A2
    <2>1. Longer(q, Q, a)
      BY <1>1, <1>2, AppendLonger
    <2>2. \A A, W : Base(q, <<>>, l, A, W, v, q, A)
      BY <1>1, <1>2 DEF Base
    <2> QED BY <1>2, <2>1, <2>2
  <1>3. ASSUME NEW p \in DOMAIN q, LastPush(q, p), v = q[p], Q = Rest(q \o <<a>>, p), X = W2
        PROVE  \E R : Longer(R, Q, a) /\ X = W2 /\ \A A, W : Base(q, <<>>, l, A, W, v, R, W)
    <2> DEFINE R == Rest(q, p)
               n == Len(q)
               c == Append(q, a)
    <2>1. /\ n \in Nat /\ p \in 1..n /\ Len(c) = n + 1 /\ c[n + 1] = a
          /\ \A i \in 1..n : c[i] = q[i]
      BY AppendProperties, LenProperties
    <2>2. R = [k \in 1..n - p |-> q[p + k]] /\ Q = [k \in 1..n + 1 - p |-> c[p + k]]
      BY <1>1, <1>3, <2>1 DEF Rest
    <2> HIDE DEF R, n, c
    <2> DEFINE d == n - p
    <2>3. d \in Nat /\ n + 1 - p = d + 1 /\ p + (d + 1) = n + 1
      BY <2>1
    <2>4. DOMAIN R = 1..d /\ DOMAIN Q = 1..d + 1
      BY <2>2, <2>3
    <2>5. ASSUME NEW k \in 1..d PROVE Q[k] = R[k]
      <3>1. k \in 1..d + 1 /\ p + k \in 1..n /\ k \in 1..n - p /\ k \in 1..n + 1 - p
        <4>1. k \in Nat /\ 1 <= k /\ k <= n - p
          BY ONLY <2>1, <2>3, k \in 1..d DEF d
        <4>2. p \in Nat /\ 1 <= p /\ p + k <= n
          BY ONLY <2>1, <4>1
        <4>3. p + k \in 1..n /\ k \in 1..n - p
          BY ONLY <2>1, <4>1, <4>2
        <4>4. k \in 1..d + 1
          BY ONLY <2>3, k \in 1..d
        <4> QED BY ONLY <2>3, <4>3, <4>4
      <3>2. Q[k] = c[p + k] /\ R[k] = q[p + k]
        BY <2>2, <3>1
      <3> QED BY <2>1, <3>1, <3>2
    <2>6. Q[d + 1] = a
      <3>1. d + 1 \in 1..n + 1 - p
        BY <2>3
      <3>2. Q[d + 1] = c[p + (d + 1)]
        BY <2>2, <3>1
      <3> QED BY <2>1, <2>3, <3>2
    <2>7. Longer(R, Q, a)
      BY <2>3, <2>4, <2>5, <2>6 DEF Longer
    <2>8. \A A, W : Base(q, <<>>, l, A, W, v, R, W)
      BY <1>1, <1>3 DEF Base, R
    <2> QED BY <1>3, <2>7, <2>8
  <1> QED BY <1>2, <1>3 DEF Base

(* The reply goes to the end of the queue. *)
LEMMA SentBase ==
  ASSUME NEW M, NEW q \in Seq(M), NEW a \in M, IsReply(a), NEW l, NEW A, NEW W,
         NEW v, NEW R, NEW X, Base(Append(q, a), <<>>, l, A, W, v, R, X)
  PROVE  Base(q, <<a>>, l, A, W, v, R, X)
  <1> DEFINE c == Append(q, a)
             n == Len(q)
  <1>1. c \o <<>> = q \o <<a>>
    BY AnswerLine
  <1>2. /\ n \in Nat /\ DOMAIN q = 1..n /\ DOMAIN c = 1..n + 1 /\ c[n + 1] = a
        /\ \A i \in 1..n : c[i] = q[i]
    BY AppendProperties, LenProperties
  <1> HIDE DEF c, n
  <1>3. NoPush(c) <=> NoPush(q)
    BY <1>2 DEF NoPush
  <1>4. ASSUME NEW p \in DOMAIN c, LastPush(c, p)
        PROVE  p \in DOMAIN q /\ LastPush(q, p) /\ c[p] = q[p]
    BY <1>2, <1>4 DEF LastPush
  <1> QED BY <1>1, <1>3, <1>4 DEF Base, c

(* The first of two queues is taken. *)
LEMMA TakenLine ==
  ASSUME NEW M, NEW q \in Seq(M), NEW t \in Seq(M), q # <<>>
  PROVE  /\ Tail(q) \in Seq(M) /\ Len(q) \in Nat \ {0} /\ Len(Tail(q)) = Len(q) - 1
         /\ DOMAIN q = 1..Len(q) /\ DOMAIN Tail(q) = 1..Len(q) - 1
         /\ \A i \in 1..Len(q) - 1 : Tail(q)[i] = q[i + 1]
         /\ Head(q) = q[1]
         /\ Tail(q) \o t = Tail(q \o t) /\ q \o t \in Seq(M) /\ q \o t # <<>>
  <1>1. /\ Tail(q) \in Seq(M) /\ Len(q) \in Nat \ {0} /\ Len(Tail(q)) = Len(q) - 1
        /\ DOMAIN q = 1..Len(q) /\ DOMAIN Tail(q) = 1..Len(q) - 1
        /\ \A i \in 1..Len(q) - 1 : Tail(q)[i] = q[i + 1]
        /\ Head(q) = q[1]
    OBVIOUS
  <1> DEFINE line == q \o t
             m == Len(q)
             n == Len(t)
             u == Tail(q)
             rest == u \o t
  <1>2. /\ line \in Seq(M) /\ n \in Nat /\ Len(line) = m + n /\ DOMAIN line = 1..m + n
        /\ \A i \in 1..m : line[i] = q[i]
        /\ \A i \in 1..n : line[m + i] = t[i]
    BY LineFacts
  <1>3. /\ rest \in Seq(M) /\ Len(rest) = m - 1 + n /\ DOMAIN rest = 1..m - 1 + n
        /\ \A i \in 1..m - 1 : rest[i] = u[i]
        /\ \A i \in 1..n : rest[m - 1 + i] = t[i]
    BY <1>1, LineFacts
  <1> HIDE DEF line, m, n, u, rest
  <1>4. line # <<>>
    <2>1. Len(line) # 0
      BY <1>1, <1>2 DEF m
    <2> QED BY <2>1
  <1>5. /\ Len(Tail(line)) = m + n - 1 /\ Tail(line) \in Seq(M)
        /\ \A i \in 1..m + n - 1 : Tail(line)[i] = line[i + 1]
    <2>1. \A s \in Seq(M) : s # <<>> =>
             /\ Len(Tail(s)) = Len(s) - 1 /\ Tail(s) \in Seq(M)
             /\ \A i \in 1..Len(s) - 1 : Tail(s)[i] = s[i + 1]
      OBVIOUS
    <2>2. /\ Len(Tail(line)) = Len(line) - 1 /\ Tail(line) \in Seq(M)
          /\ \A i \in 1..Len(line) - 1 : Tail(line)[i] = line[i + 1]
      BY ONLY <1>2, <1>4, <2>1
    <2>3. Len(line) - 1 = m + n - 1
      <3>1. m \in Nat
        BY <1>1 DEF m
      <3> QED BY <1>2, <3>1
    <2> QED BY <2>2, <2>3
  <1>6. ASSUME NEW i \in 1..m + n - 1 PROVE rest[i] = line[i + 1]
    <2>1. CASE i <= m - 1
      <3>1. i \in 1..m - 1 /\ i + 1 \in 1..m
        BY <1>1, <1>2, <2>1 DEF m
      <3>2. u[i] = q[i + 1]
        BY <1>1, <3>1 DEF m, u
      <3> QED BY <1>2, <1>3, <3>1, <3>2
    <2>2. CASE ~(i <= m - 1)
      <3> DEFINE j == i - (m - 1)
      <3>1. j \in 1..n /\ m - 1 + j = i /\ m + j = i + 1
        BY <1>1, <1>2, <2>2 DEF m
      <3>2. rest[m - 1 + j] = t[j] /\ line[m + j] = t[j]
        BY <1>2, <1>3, <3>1
      <3> QED BY <3>1, <3>2
    <2> QED BY <2>1, <2>2
  <1>7. rest = Tail(line)
    <2>1. m \in Nat \ {0}
      BY <1>1 DEF m
    <2>2. Len(rest) = Len(Tail(line)) /\ Len(rest) = m + n - 1
      BY <1>2, <1>3, <1>5, <2>1
    <2>3. \A i \in 1..Len(rest) : rest[i] = Tail(line)[i]
      BY <1>5, <1>6, <2>2
    <2> QED BY <1>3, <1>5, <2>2, <2>3, SeqEqual
  <1> QED BY <1>1, <1>2, <1>4, <1>7 DEF m, n, u, rest, line

(* The rest after a place is the same without the first element. *)
LEMMA RestOfTail ==
  ASSUME NEW M, NEW line \in Seq(M), line # <<>>, NEW p \in Nat
  PROVE  Rest(Tail(line), p) = Rest(line, p + 1)
  <1> DEFINE u == Tail(line)
             n == Len(line)
  <1>1. n \in Nat \ {0} /\ Len(u) = n - 1 /\ \A i \in 1..n - 1 : u[i] = line[i + 1]
    OBVIOUS
  <1> HIDE DEF u, n
  <1>2. n - 1 - p = n - (p + 1)
    BY <1>1
  <1>3. \A k \in 1..n - 1 - p : u[p + k] = line[(p + 1) + k]
    BY <1>1
  <1>4. Rest(u, p) = [k \in 1..n - 1 - p |-> u[p + k]]
    BY <1>1 DEF Rest
  <1>5. Rest(line, p + 1) = [k \in 1..n - (p + 1) |-> line[(p + 1) + k]]
    BY DEF Rest, n
  <1> QED BY <1>2, <1>3, <1>4, <1>5 DEF u

(* The client has taken a reply: it is no more behind the copy. *)
LEMMA TakenBase ==
  ASSUME NEW M, NEW q \in Seq(M), NEW t \in Seq(M), q # <<>>, IsReply(Head(q)),
         NEW l, NEW A, NEW W, NEW l2, NEW A2, NEW v, NEW Q, NEW X,
         Base(Tail(q), t, l2, A2, W, v, Q, X)
  PROVE  \/ /\ v = l2 /\ X = A2 /\ After(q \o t, Q) /\ (q \o t)[1] = Head(q)
            /\ Base(q, t, l, A, W, l, q \o t, A)
         \/ X = W /\ Base(q, t, l, A, W, v, Q, X)
  <1> DEFINE u == Tail(q)
             n == Len(q)
             line == q \o t
  <1>1. /\ n \in Nat \ {0} /\ DOMAIN q = 1..n /\ DOMAIN u = 1..n - 1
        /\ \A i \in 1..n - 1 : u[i] = q[i + 1]
        /\ Head(q) = q[1] /\ u \o t = Tail(line) /\ line \in Seq(M) /\ line # <<>>
    BY TakenLine
  <1>2. line[1] = q[1]
    <2>1. 1 \in 1..n
      BY <1>1
    <2> QED BY <2>1, LineFacts
  <1> HIDE DEF u, n, line
  <1>3. CASE NoPush(u) /\ v = l2 /\ Q = u \o t /\ X = A2
    <2>1. NoPush(q)
      <3> SUFFICES ASSUME NEW i \in 1..n PROVE IsReply(q[i])
        BY <1>1 DEF NoPush
      <3>1. CASE i = 1
        BY <1>1, <3>1
      <3>2. CASE i # 1
        <4>1. i - 1 \in 1..n - 1 /\ i - 1 + 1 = i
          BY <1>1, <3>2
        <4>2. IsReply(u[i - 1]) /\ u[i - 1] = q[i]
          BY <1>1, <1>3, <4>1 DEF NoPush
        <4> QED BY <4>2
      <3> QED BY <3>1, <3>2
    <2>2. After(line, Q)
      BY <1>1, <1>3, TailAfter
    <2>3. Base(q, t, l, A, W, l, line, A)
      BY <2>1 DEF Base, line
    <2> QED BY <1>1, <1>2, <1>3, <2>2, <2>3 DEF line
  <1>4. ASSUME NEW p \in DOMAIN u, LastPush(u, p), v = u[p], Q = Rest(u \o t, p), X = W
        PROVE  Base(q, t, l, A, W, v, Q, X)
    <2>1. p \in Nat /\ p + 1 \in DOMAIN q /\ u[p] = q[p + 1]
      BY <1>1
    <2>2. LastPush(q, p + 1)
      <3>1. ASSUME NEW i \in DOMAIN q, ~IsReply(q[i]) PROVE i <= p + 1
        <4>1. i \in 1..n /\ i # 1
          BY <1>1, <3>1
        <4>2. i - 1 \in DOMAIN u /\ u[i - 1] = q[i] /\ i \in Nat
          BY <1>1, <4>1
        <4>3. i - 1 <= p
          BY <1>4, <3>1, <4>2 DEF LastPush
        <4> QED BY <2>1, <4>2, <4>3
      <3> QED BY <1>4, <2>1, <3>1 DEF LastPush
    <2>3. Q = Rest(line, p + 1)
      BY <1>1, <1>4, <2>1, RestOfTail
    <2> QED BY <1>4, <2>1, <2>2, <2>3 DEF Base, line
  <1> QED BY <1>3, <1>4 DEF Base, u

(* The client has taken a payload: it is the copy now. *)
LEMMA LoadedBase ==
  ASSUME NEW M, NEW q \in Seq(M), NEW t \in Seq(M), q # <<>>, ~IsReply(Head(q)),
         NEW l, NEW A, NEW W, NEW A2, NEW v, NEW R, NEW X,
         Base(Tail(q), t, Head(q), A2, W, v, R, X)
  PROVE  Base(q, t, l, A, W, v, R, W) /\ (X = W \/ X = A2)
  <1> DEFINE u == Tail(q)
             n == Len(q)
             line == q \o t
  <1>1. /\ n \in Nat \ {0} /\ DOMAIN q = 1..n /\ DOMAIN u = 1..n - 1
        /\ \A i \in 1..n - 1 : u[i] = q[i + 1]
        /\ Head(q) = q[1] /\ u \o t = Tail(line) /\ line \in Seq(M) /\ line # <<>>
    BY TakenLine
  <1> HIDE DEF u, n, line
  <1>2. \A i \in DOMAIN q : i = 1 \/ (i \in Nat /\ i - 1 \in DOMAIN u /\ u[i - 1] = q[i])
    BY <1>1
  <1>3. CASE NoPush(u) /\ v = Head(q) /\ R = u \o t /\ X = A2
    <2>1. LastPush(q, 1) /\ 1 \in DOMAIN q
      <3>1. 1 \in DOMAIN q /\ ~IsReply(q[1])
        BY <1>1
      <3>2. \A i \in DOMAIN q : ~IsReply(q[i]) => i = 1
        BY <1>2, <1>3 DEF NoPush
      <3>3. \A i \in DOMAIN q : ~IsReply(q[i]) => i <= 1
        BY <3>2
      <3> QED BY <3>1, <3>3 DEF LastPush
    <2>2. R = Rest(line, 1)
      <3>1. Rest(Tail(line), 0) = Rest(line, 0 + 1)
        BY <1>1, RestOfTail
      <3>2. R \in Seq(M)
        BY <1>1, <1>3
      <3>3. Rest(R, 0) = R
        <4>1. Len(R) \in Nat /\ R = [k \in 1..Len(R) |-> R[k]]
          BY <3>2
        <4>2. Len(R) - 0 = Len(R) /\ \A k \in 1..Len(R) : R[0 + k] = R[k]
          BY <4>1
        <4>3. Rest(R, 0) = [k \in 1..Len(R) - 0 |-> R[0 + k]]
          BY DEF Rest
        <4> QED BY <4>1, <4>2, <4>3
      <3> QED BY <1>1, <1>3, <3>1, <3>3
    <2> QED BY <1>1, <1>3, <2>1, <2>2 DEF Base, line
  <1>4. ASSUME NEW p \in DOMAIN u, LastPush(u, p), v = u[p], R = Rest(u \o t, p), X = W
        PROVE  Base(q, t, l, A, W, v, R, W)
    <2>1. p \in Nat /\ p + 1 \in DOMAIN q /\ u[p] = q[p + 1]
      BY <1>1
    <2>2. LastPush(q, p + 1)
      <3>1. ASSUME NEW i \in DOMAIN q, ~IsReply(q[i]) PROVE i <= p + 1
        <4>1. CASE i = 1
          BY <2>1, <4>1
        <4>2. CASE i # 1
          <5>1. i - 1 \in DOMAIN u /\ u[i - 1] = q[i] /\ i \in Nat /\ i - 1 \in Int
            BY <1>2, <4>2
          <5>2. i - 1 <= p
            BY <1>4, <3>1, <5>1 DEF LastPush
          <5> QED BY <2>1, <5>1, <5>2
        <4> QED BY <4>1, <4>2
      <3> QED BY <1>4, <2>1, <3>1 DEF LastPush
    <2>3. R = Rest(line, p + 1)
      BY <1>1, <1>4, <2>1, RestOfTail
    <2> QED BY <1>4, <2>1, <2>2, <2>3 DEF Base, line
  <1> QED BY <1>3, <1>4 DEF Base, u

(* Another copy, other requests: what counts is the copy or what it was. *)
LEMMA ClickedBase ==
  ASSUME NEW q, NEW t, NEW l, NEW A, NEW W, NEW l2, NEW A2, NEW v, NEW R, NEW X,
         Base(q, t, l2, A2, W, v, R, X)
  PROVE  \/ v = l2 /\ X = A2 /\ Base(q, t, l, A, W, l, R, A)
         \/ Base(q, t, l, A, W, v, R, X)
  BY DEF Base

BasesFit ==
  \A v, R, X : Base(toClient, Coming, local, Asked, Window, v, R, X) => Fits(v, R, X, Shown)

(* CopyFits says of either copy what BasesFit says. *)
LEMMA CopyIsBase == CopyFits <=> BasesFit
  <1>1. Line = toClient \o Coming
    BY DEF Line, Coming
  <1>2. \A p : Behind(p) = Rest(Line, p)
    BY DEF Behind, Rest
  <1>3. Pushes = {} <=> NoPush(toClient)
    BY DEF Pushes, NoPush
  <1>4. \A p : p \in Pushes /\ (\A i \in Pushes : i <= p) <=>
               p \in DOMAIN toClient /\ LastPush(toClient, p)
    BY DEF Pushes, LastPush
  <1>5. ASSUME CopyFits PROVE BasesFit
    <2> SUFFICES ASSUME NEW v, NEW R, NEW X,
                        Base(toClient, Coming, local, Asked, Window, v, R, X)
                 PROVE  Fits(v, R, X, Shown)
      BY DEF BasesFit
    <2>1. CASE NoPush(toClient) /\ v = local /\ R = toClient \o Coming /\ X = Asked
      BY <1>1, <1>3, <1>5, <2>1 DEF CopyFits
    <2>2. ASSUME NEW p \in DOMAIN toClient, LastPush(toClient, p), v = toClient[p],
                 R = Rest(toClient \o Coming, p), X = Window
          PROVE  Fits(v, R, X, Shown)
      BY <1>1, <1>2, <1>4, <1>5, <2>2 DEF CopyFits
    <2> QED BY <2>1, <2>2 DEF Base
  <1>6. ASSUME BasesFit PROVE CopyFits
    <2>1. ASSUME Pushes = {} PROVE Fits(local, Line, Asked, Shown)
      <3>1. Base(toClient, Coming, local, Asked, Window, local, toClient \o Coming, Asked)
        BY <1>3, <2>1 DEF Base
      <3> QED BY <1>1, <1>6, <3>1 DEF BasesFit
    <2>2. ASSUME NEW p \in Pushes, \A i \in Pushes : i <= p
          PROVE  Fits(toClient[p], Behind(p), Window, Shown)
      <3>1. Base(toClient, Coming, local, Asked, Window, toClient[p],
                 Rest(toClient \o Coming, p), Window)
        BY <1>4, <2>2 DEF Base
      <3>2. Behind(p) = Rest(toClient \o Coming, p)
        BY <1>1, <1>2
      <3> QED BY <1>6, <3>1, <3>2 DEF BasesFit
    <2> QED BY <2>1, <2>2 DEF CopyFits
  <1> QED BY <1>5, <1>6

(* The same in the next state. *)
LEMMA CopyIsBaseNext == CopyFits' <=> BasesFit'
  BY CopyIsBase, PTL

Mails == ReplyMail \cup Local

(* The mail of a state, and what counts in it. *)
LEMMA MailTypes ==
  SyncInv => /\ toClient \in Seq(Mails) /\ Coming \in Seq(Mails) /\ local \in Local
             /\ answer \in Seq(ReplyMail) /\ Len(answer) <= 1
             /\ \A i \in DOMAIN Coming : IsReply(Coming[i])
             /\ \A i \in DOMAIN toClient : toClient[i] \in Mails
             /\ \A m \in Mails : IsReply(m) => m \in ReplyMail
             /\ \A m \in Mails : ~IsReply(m) => m \in Local
             /\ toServer \in Seq(RequestMail)
  <1> SUFFICES ASSUME SyncInv
               PROVE  /\ toClient \in Seq(Mails) /\ Coming \in Seq(Mails) /\ local \in Local
                      /\ answer \in Seq(ReplyMail) /\ Len(answer) <= 1
                      /\ \A i \in DOMAIN Coming : IsReply(Coming[i])
                      /\ \A i \in DOMAIN toClient : toClient[i] \in Mails
                      /\ \A m \in Mails : IsReply(m) => m \in ReplyMail
                      /\ \A m \in Mails : ~IsReply(m) => m \in Local
                      /\ toServer \in Seq(RequestMail)
    OBVIOUS
  <1>1. /\ toClient \in Seq(Mails) /\ answer \in Seq(ReplyMail) /\ local \in Local
        /\ Len(answer) <= 1 /\ toServer \in Seq(RequestMail)
    BY DEF SyncInv, SyncTypeOK, Mails
  <1>2. (\A m \in Mails : IsReply(m) => m \in ReplyMail)
        /\ \A m \in Mails : ~IsReply(m) => m \in Local
    BY ReplyOrPayload DEF Mails
  <1>3. \A i \in DOMAIN toClient : toClient[i] \in Mails
    <2> DEFINE S == Mails
    <2> HIDE DEF S
    <2>1. toClient \in Seq(S)
      BY <1>1 DEF S
    <2>2. \A i \in DOMAIN toClient : toClient[i] \in S
      BY <2>1
    <2> QED BY <2>2 DEF S
  <1>4. answer \in Seq(Mails) /\ \A i \in DOMAIN answer : IsReply(answer[i])
    <2>1. \A i \in DOMAIN answer : answer[i] \in ReplyMail
      <3> DEFINE S == ReplyMail
      <3> HIDE DEF S
      <3>1. answer \in Seq(S)
        BY <1>1 DEF S
      <3>2. \A i \in DOMAIN answer : answer[i] \in S
        BY <3>1
      <3> QED BY <3>2 DEF S
    <2>2. answer \in Seq(Mails)
      BY <1>1 DEF Mails
    <2> QED BY <2>1, <2>2, ReplyOrPayload
  <1>5. Coming \in Seq(Mails) /\ \A i \in DOMAIN Coming : IsReply(Coming[i])
    <2>1. CASE job = Idle
      BY <1>4, <2>1 DEF Coming
    <2>2. CASE job # Idle
      <3>1. Coming = <<>>
        BY <2>2 DEF Coming
      <3> QED BY <3>1
    <2> QED BY <2>1, <2>2
  <1> QED BY <1>1, <1>2, <1>3, <1>5

(* The types of the mail in the next state. *)
LEMMA MailTypesNext ==
  SyncInv' => /\ toClient' \in Seq(Mails) /\ Coming' \in Seq(Mails) /\ local' \in Local
              /\ answer' \in Seq(ReplyMail) /\ Len(answer') <= 1
  <1>1. (SyncInv => /\ toClient \in Seq(Mails) /\ Coming \in Seq(Mails) /\ local \in Local
                    /\ answer \in Seq(ReplyMail) /\ Len(answer) <= 1)
    BY MailTypes
  <1>2. SyncInv' => (/\ toClient \in Seq(Mails) /\ Coming \in Seq(Mails) /\ local \in Local
                     /\ answer \in Seq(ReplyMail) /\ Len(answer) <= 1)'
    BY <1>1, PTL
  <1> QED BY <1>2

(* What counts is a copy, and the replies behind it are replies sent. *)
LEMMA BaseTypes ==
  ASSUME SyncInv, NEW l \in Local, NEW A, NEW W, NEW v, NEW R, NEW X,
         Base(toClient, Coming, l, A, W, v, R, X)
  PROVE  /\ v \in Local /\ R \in Seq(Mails)
         /\ \A k \in DOMAIN R : /\ IsReply(R[k])
                                /\ \/ \E i \in DOMAIN toClient : R[k] = toClient[i]
                                   \/ \E i \in DOMAIN Coming : R[k] = Coming[i]
  <1>1. /\ toClient \in Seq(Mails) /\ Coming \in Seq(Mails)
        /\ \A i \in DOMAIN Coming : IsReply(Coming[i])
        /\ \A i \in DOMAIN toClient : toClient[i] \in Mails
        /\ \A m \in Mails : ~IsReply(m) => m \in Local
    BY MailTypes
  <1>2. v \in Local
    BY <1>1 DEF Base, LastPush
  <1> QED BY <1>1, <1>2, BehindBase

----------------------------------------------------------------------------
(* The client's steps *)

LEMMA SameShown ==
  ASSUME UNCHANGED <<tables, next>>, Joining' = Joining
  PROVE  Shown' = Shown
  <1>1. /\ groups' = groups /\ members' = members /\ next' = next
        /\ View(Me)' = View(Me)
    BY DEF tables, View
  <1> QED BY <1>1 DEF Shown

Calls(q) == {q[i].call : i \in DOMAIN q}

(* The requests of a queue when one is added, or the first taken. *)
LEMMA CallsFacts ==
  ASSUME NEW q \in Seq(RequestMail)
  PROVE  /\ \A r \in Call : Calls(Append(q, Sent(r))) = Calls(q) \cup {r}
         /\ q # <<>> => Calls(q) = Calls(Tail(q)) \cup {Head(q).call}
  <1>1. ASSUME NEW r \in Call PROVE Calls(Append(q, Sent(r))) = Calls(q) \cup {r}
    <2>1. Sent(r) \in RequestMail /\ Sent(r).call = r
      BY SentMail DEF Sent
    <2> DEFINE c == Append(q, Sent(r))
               n == Len(q) + 1
    <2>2. /\ n \in DOMAIN c /\ c[n] = Sent(r) /\ DOMAIN c = DOMAIN q \cup {n}
          /\ \A i \in DOMAIN q : c[i] = q[i]
      BY <2>1, AppendFacts
    <2> HIDE DEF c, n
    <2>3. Calls(c) = Calls(q) \cup {r}
      BY <2>1, <2>2 DEF Calls
    <2> QED BY <2>3 DEF c
  <1>2. ASSUME q # <<>> PROVE Calls(q) = Calls(Tail(q)) \cup {Head(q).call}
    <2> DEFINE u == Tail(q)
               n == Len(q)
    <2>1. /\ n \in Nat \ {0} /\ DOMAIN q = 1..n /\ DOMAIN u = 1..n - 1
          /\ \A i \in 1..n - 1 : u[i] = q[i + 1]
          /\ Head(q) = q[1]
      BY <1>2
    <2> HIDE DEF u, n
    <2>2. \A i \in 1..n : i = 1 \/ (i - 1 \in 1..n - 1 /\ u[i - 1] = q[i])
      BY <2>1
    <2>3. \A i \in 1..n - 1 : i + 1 \in 1..n
      BY <2>1
    <2>4. 1 \in 1..n
      BY <2>1
    <2>5. Calls(q) \subseteq Calls(u) \cup {q[1].call}
      <3> SUFFICES ASSUME NEW i \in 1..n PROVE q[i].call \in Calls(u) \cup {q[1].call}
        BY <2>1 DEF Calls
      <3>1. CASE i = 1
        BY <3>1
      <3>2. CASE i - 1 \in 1..n - 1 /\ u[i - 1] = q[i]
        <4>1. u[i - 1].call \in Calls(u)
          BY <2>1, <3>2 DEF Calls
        <4> QED BY <3>2, <4>1
      <3> QED BY <2>2, <3>1, <3>2
    <2>6. Calls(u) \cup {q[1].call} \subseteq Calls(q)
      BY <2>1, <2>3, <2>4 DEF Calls
    <2> QED BY <2>1, <2>5, <2>6 DEF u
  <1> QED BY <1>1, <1>2

(* The requests asked for, by where they are. *)
LEMMA AskedIs == Asked = Window \cup Calls(toServer)
  BY DEF Asked, Calls

(* The same in the next state. *)
LEMMA AskedIsNext == Asked' = Window' \cup Calls(toServer')
  <1>1. (Asked = Window \cup Calls(toServer))'
    BY AskedIs, PTL
  <1> QED BY <1>1

(* BasesFit, for one copy. *)
LEMMA BaseFits ==
  ASSUME BasesFit, NEW v, NEW R, NEW X,
         Base(toClient, Coming, local, Asked, Window, v, R, X)
  PROVE  Fits(v, R, X, Shown)
  BY DEF BasesFit

(* A click: its request is asked for before its change can be missed. *)
LEMMA ClickCopy ==
  ASSUME SyncInv, AllGood, BasesFit, NEW r \in Call, Click(r)
  PROVE  AllGood' /\ BasesFit'
  <1>0. UNCHANGED <<vars, answer, toClient>>
    BY DEF Click
  <1>1. toServer' = Append(toServer, Sent(r)) /\ toServer \in Seq(RequestMail)
    <2>1. CASE r.cmd \in Optimistic /\ Changed(local, r) # local /\ Perform(r)
      BY <2>1, MailTypes DEF Perform
    <2>2. CASE r.cmd \in OnReply /\ toServer' = Append(toServer, Sent(r)) /\ UNCHANGED local
      BY <2>2, MailTypes
    <2> QED BY <2>1, <2>2 DEF Click
  <1>2. Shown' = Shown /\ Window' = Window /\ Coming' = Coming
    <2>1. Joining' = Joining /\ UNCHANGED <<tables, next, job, answer>>
      BY <1>0 DEF Joining, vars, tables
    <2> QED BY <2>1, SameShown DEF Window, Coming
  <1>3. Asked' = Asked \cup {r}
    <2>1. Calls(toServer') = Calls(toServer) \cup {r}
      BY <1>1, CallsFacts
    <2> QED BY <1>2, <2>1, AskedIs, AskedIsNext
  <1>4. AllGood'
    <2>1. \A i \in DOMAIN toServer' : toServer'[i].waited
      <3>1. Sent(r) \in RequestMail /\ Sent(r).waited
        BY SentMail DEF Sent
      <3>2. \A i \in DOMAIN toServer' :
               toServer'[i] = Sent(r) \/ (i \in DOMAIN toServer /\ toServer'[i] = toServer[i])
        BY <1>1, <3>1, AppendFacts
      <3> QED BY <3>1, <3>2 DEF AllGood
    <2> QED BY <1>0, <2>1 DEF AllGood
  <1>5. ASSUME NEW v, NEW R, NEW X, Base(toClient, Coming, local', Asked', Window, v, R, X)
        PROVE  Fits(v, R, X, Shown)
    <2>1. CASE Base(toClient, Coming, local, Asked, Window, v, R, X)
      BY <2>1, BaseFits
    <2>2. CASE v = local' /\ X = Asked' /\ Base(toClient, Coming, local, Asked, Window, local, R, Asked)
      <3>1. Fits(local, R, Asked, Shown)
        BY <2>2, BaseFits
      <3>2. Fits(local, R, Asked', Shown)
        <4>1. Asked \subseteq Asked'
          BY <1>3
        <4> QED BY <3>1, <4>1, FitsMore
      <3>3. CASE r.cmd \in Optimistic /\ local' = Changed(local, r)
        <4>1. local \in Local /\ r \in Asked'
          BY <1>3, MailTypes
        <4> QED BY <2>2, <3>2, <3>3, <4>1, ChangedFits
      <3>4. CASE local' = local
        BY <2>2, <3>2, <3>4
      <3> QED BY <3>3, <3>4 DEF Click, Perform
    <2> QED BY <1>5, <2>1, <2>2, ClickedBase
  <1>6. BasesFit'
    BY <1>0, <1>2, <1>5 DEF BasesFit
  <1> QED BY <1>4, <1>6

(* A state whose mail for the client is the same, but for the first. *)
LEMMA TailGood ==
  ASSUME NEW q \in Seq(Mails), q # <<>>, \A i \in DOMAIN q : Good(q[i])
  PROVE  Good(Head(q)) /\ \A i \in DOMAIN Tail(q) : Good(Tail(q)[i])
  BY TailFacts

(* onReplyReceived with the callback it runs: the copy moves on by one reply. *)
LEMMA TakeReplyCopy ==
  ASSUME SyncInv, AllGood, BasesFit, TakeReply
  PROVE  AllGood' /\ BasesFit'
  <1> DEFINE m == Head(toClient)
             r == m.call
             line == toClient \o Coming
  <1>0. /\ toClient # <<>> /\ toClient' = Tail(toClient) /\ IsReply(m)
        /\ UNCHANGED <<vars, answer>>
        /\ toClient \in Seq(Mails) /\ Coming \in Seq(Mails) /\ local \in Local
        /\ toServer \in Seq(RequestMail)
    BY MailTypes DEF TakeReply
  <1>1. m \in ReplyMail /\ m.waited /\ m.ok /\ m = toClient[1] /\ 1 \in DOMAIN toClient
    <2>1. m = toClient[1] /\ 1 \in DOMAIN toClient
      BY <1>0, TailFacts
    <2>2. Good(m) /\ m \in ReplyMail
      BY <1>0, <2>1, MailTypes DEF AllGood
    <2> QED BY <1>0, <2>1, <2>2 DEF Good
  <1>2. r \in Call
    BY <1>1 DEF ReplyMail
  <1>3. Shown' = Shown /\ Window' = Window /\ Coming' = Coming
    <2>1. Joining' = Joining /\ UNCHANGED <<tables, next, job, answer>>
      BY <1>0 DEF Joining, vars, tables
    <2> QED BY <2>1, SameShown DEF Window, Coming
  <1>4. \/ r.cmd \in Optimistic /\ Perform(r)
        \/ r.cmd \in OnReply /\ local' = Created(local, r, m.id) /\ toServer' = toServer
    BY <1>1 DEF TakeReply
  <1>5. Shown.mine \subseteq GroupId /\ Shown.tasks \subseteq TaskRow
    BY ShownReads DEF ShownFine, SyncInv, SyncTypeOK
  <1>6. IdFits(m)
    BY <1>1 DEF SyncInv, IdsFit
  <1> HIDE DEF m
  <1>7. \/ toServer' = toServer /\ Asked' = Asked
        \/ toServer' = Append(toServer, Sent(r)) /\ Asked' = Asked \cup {r} /\ r.cmd \in Optimistic
    <2>1. CASE toServer' = toServer
      BY <1>3, <2>1, AskedIs, AskedIsNext
    <2>2. CASE toServer' = Append(toServer, Sent(r)) /\ r.cmd \in Optimistic
      <3>1. Calls(toServer') = Calls(toServer) \cup {r}
        BY <1>0, <1>2, <2>2, CallsFacts
      <3> QED BY <1>3, <2>2, <3>1, AskedIs, AskedIsNext
    <2> QED BY <1>4, <2>1, <2>2 DEF Perform
  <1>8. AllGood'
    <2>1. \A i \in DOMAIN toServer' : toServer'[i].waited
      <3>1. Sent(r) \in RequestMail /\ Sent(r).waited
        BY <1>2, SentMail DEF Sent
      <3>2. \A i \in DOMAIN toServer' :
               toServer'[i] = Sent(r) \/ (i \in DOMAIN toServer /\ toServer'[i] = toServer[i])
        BY <1>0, <1>7, <3>1, AppendFacts
      <3> QED BY <3>1, <3>2 DEF AllGood
    <2>2. \A i \in DOMAIN toClient' : Good(toClient'[i])
      BY <1>0, TailGood DEF AllGood
    <2> QED BY <1>0, <2>1, <2>2 DEF AllGood
  <1>9. ASSUME NEW Q, After(line, Q), line[1] = m,
               Base(toClient, Coming, local, Asked, Window, local, line, Asked)
        PROVE  Fits(local', Q, Asked', Shown)
    <2>1. Fits(local, line, Asked, Shown)
      BY <1>9, BaseFits
    <2>2. line[1].call = r
      BY <1>9
    <2> HIDE DEF line, r
    <2>3. CASE r.cmd \in OnReply /\ local' = Created(local, r, m.id) /\ Asked' = Asked
      <3>1. /\ r.cmd = "createGroup" => m.id \in GroupId
            /\ r.cmd = "createTask" => m.id \in TaskId
        BY <1>0, <1>1, <1>6 DEF IdFits, r
      <3>2. line[1].id = m.id
        BY <1>9
      <3>3. Fits(Created(local, r, m.id), Q, Asked, Shown)
        BY <1>0, <1>2, <1>5, <1>9, <2>1, <2>2, <2>3, <3>1, <3>2, CreatedFits
      <3> QED BY <2>3, <3>3
    <2>4. CASE r.cmd \in Optimistic /\ Perform(r)
      <3>1. local' = Changed(local, r)
        BY <2>4 DEF Perform
      <3>2. CASE Changed(local, r) = local
        <4>1. Asked' = Asked
          BY <1>3, <2>4, <3>2, AskedIs, AskedIsNext DEF Perform
        <4>2. Fits(local, Q, Asked, Shown)
          BY <1>0, <1>2, <1>5, <1>9, <2>1, <2>2, <2>4, <3>2, RepeatedFits
        <4> QED BY <3>1, <3>2, <4>1, <4>2
      <3>3. CASE Changed(local, r) # local
        <4> DEFINE w == Changed(local, r)
        <4>1. Asked' = Asked \cup {r}
          <5>1. toServer' = Append(toServer, Sent(r))
            BY <2>4, <3>3 DEF Perform
          <5>2. Calls(toServer') = Calls(toServer) \cup {r}
            BY <1>0, <1>2, <5>1, CallsFacts
          <5> QED BY <1>3, <5>2, AskedIs, AskedIsNext
        <4>2. Asked \subseteq Asked' /\ r \in Asked'
          BY <4>1
        <4>3. Fits(local, line, Asked', Shown)
          BY <2>1, <4>2, FitsMore
        <4>4. Fits(w, line, Asked', Shown)
          BY <1>0, <1>2, <2>4, <4>2, <4>3, ChangedFits
        <4>5. w \in Local
          BY <1>0, <1>2, <2>4, ChangedType
        <4> HIDE DEF w
        <4>6. Fits(w, Q, Asked', Shown)
          BY <1>2, <1>5, <1>9, <2>2, <2>4, <4>2, <4>4, <4>5, RepeatedFits
        <4> QED BY <3>1, <4>6 DEF w
      <3> QED BY <3>2, <3>3
    <2> QED BY <1>4, <1>3, <2>3, <2>4, AskedIs, AskedIsNext DEF r
  <1>10. ASSUME NEW v, NEW Q, NEW X, Base(Tail(toClient), Coming, local', Asked', Window, v, Q, X)
         PROVE  Fits(v, Q, X, Shown)
    <2>1. \/ /\ v = local' /\ X = Asked' /\ After(line, Q) /\ line[1] = m
             /\ Base(toClient, Coming, local, Asked, Window, local, line, Asked)
          \/ X = Window /\ Base(toClient, Coming, local, Asked, Window, v, Q, X)
      BY <1>0, <1>10, TakenBase DEF m
    <2>2. CASE /\ v = local' /\ X = Asked' /\ After(line, Q) /\ line[1] = m
               /\ Base(toClient, Coming, local, Asked, Window, local, line, Asked)
      BY <1>9, <2>2
    <2>3. CASE Base(toClient, Coming, local, Asked, Window, v, Q, X)
      BY <2>3, BaseFits
    <2> QED BY <2>1, <2>2, <2>3
  <1>11. BasesFit'
    BY <1>0, <1>3, <1>10 DEF BasesFit
  <1> QED BY <1>8, <1>11

(* With nothing under way the copy shows what the tables show. *)
QuietFits ==
  /\ job = Idle /\ toServer = <<>> /\ answer = <<>> /\ toClient = <<>>
  /\ Fits(local, <<>>, {}, Shown)

(* With nothing under way the copy itself is the only one to fit. *)
LEMMA QuietIsFit == QuietFits => AllGood /\ BasesFit
  <1> SUFFICES ASSUME QuietFits PROVE AllGood /\ BasesFit
    OBVIOUS
  <1>1. job = Idle /\ toServer = <<>> /\ answer = <<>> /\ toClient = <<>>
    BY DEF QuietFits
  <1>2. DOMAIN toServer = {} /\ DOMAIN answer = {} /\ DOMAIN toClient = {}
    BY <1>1
  <1>3. AllGood
    BY <1>2 DEF AllGood
  <1>4. Window = {} /\ Calls(toServer) = {} /\ Asked = {}
    BY <1>1, <1>2, AskedIs DEF Window, Calls
  <1>5. toClient \o Coming = <<>>
    <2>1. Coming = <<>>
      BY <1>1 DEF Coming
    <2>2. <<>> \o <<>> = <<>>
      OBVIOUS
    <2> QED BY <1>1, <2>1, <2>2
  <1>6. ASSUME NEW v, NEW R, NEW X, Base(toClient, Coming, local, Asked, Window, v, R, X)
        PROVE  v = local /\ R = <<>> /\ X = {}
    BY <1>2, <1>4, <1>5, <1>6 DEF Base
  <1> QED BY <1>3, <1>6 DEF BasesFit, QuietFits

(* The same in the next state. *)
LEMMA QuietIsFitNext == QuietFits' => AllGood' /\ BasesFit'
  BY QuietIsFit, PTL

(* A copy that fits, with nothing under way, fits without excuse. *)
LEMMA QuietCopyFits ==
  ASSUME Quiet, BasesFit
  PROVE  Fits(local, <<>>, {}, Shown) /\ Shown.joining = {}
  <1>1. job = Idle /\ toServer = <<>> /\ answer = <<>> /\ toClient = <<>>
    BY DEF Quiet
  <1>2. DOMAIN toServer = {} /\ DOMAIN answer = {} /\ DOMAIN toClient = {}
    BY <1>1
  <1>3. Asked = {}
    BY <1>1, <1>2, AskedIs DEF Window, Calls
  <1>4. toClient \o Coming = <<>>
    <2>1. Coming = <<>>
      BY <1>1 DEF Coming
    <2>2. <<>> \o <<>> = <<>>
      OBVIOUS
    <2> QED BY <1>1, <2>1, <2>2
  <1>5. Base(toClient, Coming, local, Asked, Window, local, <<>>, {})
    BY <1>2, <1>3, <1>4 DEF Base, NoPush
  <1>6. Shown.joining = Joining /\ Joining = {}
    BY <1>1, ShownIs DEF ShownRows, Joining
  <1> QED BY <1>5, <1>6, BaseFits

(* loadFromPayload: the last payload on its way becomes the copy, an earlier one is
   passed over. *)
LEMMA LoadPushCopy ==
  ASSUME SyncInv, SyncInv', TablesSound, sure => AllGood /\ BasesFit, LoadPush, sure'
  PROVE  AllGood' /\ BasesFit'
  <1> DEFINE p == Head(toClient)
  <1>0. /\ toClient # <<>> /\ ~IsReply(p) /\ local' = p /\ toClient' = Tail(toClient)
        /\ UNCHANGED <<vars, toServer, answer>>
        /\ toClient \in Seq(Mails) /\ Coming \in Seq(Mails)
    BY MailTypes DEF LoadPush
  <1>1. Shown' = Shown /\ Window' = Window /\ Coming' = Coming /\ Asked' = Asked
    <2>1. Joining' = Joining /\ UNCHANGED <<tables, next, job, answer>>
      BY <1>0 DEF Joining, vars, tables
    <2>2. Window' = Window
      BY <2>1 DEF Window
    <2> QED BY <1>0, <2>1, <2>2, SameShown, AskedIs, AskedIsNext DEF Coming
  <1>2. CASE sure
    <2>1. AllGood'
      BY <1>0, <1>2, TailGood DEF AllGood
    <2>2. ASSUME NEW v, NEW R, NEW X, Base(Tail(toClient), Coming, p, Asked, Window, v, R, X)
          PROVE  Fits(v, R, X, Shown)
      <3>0. Base(Tail(toClient), Coming, Head(toClient), Asked, Window, v, R, X)
        BY <2>2
      <3>1. Base(toClient, Coming, local, Asked, Window, v, R, Window) /\ (X = Window \/ X = Asked)
        BY ONLY <1>0, <3>0, LoadedBase
      <3>2. Fits(v, R, Window, Shown)
        BY <1>2, <3>1, BaseFits
      <3>3. Window \subseteq X
        BY <3>1, AskedIs
      <3> QED BY <3>2, <3>3, FitsMore
    <2> HIDE DEF p
    <2>3. BasesFit'
      BY <1>0, <1>1, <2>2 DEF BasesFit
    <2> QED BY <2>1, <2>3
  <1>3. CASE Quiet' /\ p = Loaded(View(Me))
    <2>1. Fits(local', <<>>, {}, Shown')
      <3>1. Fits(p, <<>>, {}, Shown)
        BY <1>3, PayloadFits DEF SyncInv, SyncTypeOK
      <3> QED BY <1>0, <1>1, <3>1
    <2>2. QuietFits'
      BY <1>3, <2>1 DEF QuietFits, Quiet
    <2> QED BY <2>2, QuietIsFitNext
  <1> QED BY <1>2, <1>3 DEF LoadPush

(* At most one answer waits for its route. *)
LEMMA OneAnswer ==
  ASSUME SyncInv, answer # <<>>
  PROVE  answer[1] \in ReplyMail /\ answer = <<answer[1]>> /\ DOMAIN answer = {1}
  <1>1. answer \in Seq(ReplyMail) /\ Len(answer) <= 1
    BY MailTypes
  <1>2. answer[1] \in ReplyMail /\ DOMAIN answer = {1} /\ Len(answer) = 1
    BY <1>1, OneElement
  <1>3. answer = <<answer[1]>>
    <2> DEFINE a == answer[1]
    <2>1. <<a>> \in Seq(ReplyMail) /\ Len(<<a>>) = 1 /\ <<a>>[1] = a
      BY <1>2
    <2> HIDE DEF a
    <2>2. \A i \in 1..Len(answer) : answer[i] = <<a>>[i]
      BY <1>2, <2>1 DEF a
    <2>3. Len(answer) = Len(<<a>>)
      BY <1>2, <2>1
    <2>4. answer = <<a>>
      BY <1>1, <2>1, <2>2, <2>3, SeqEqual
    <2> QED BY <2>4 DEF a
  <1> QED BY <1>2, <1>3

(* The answer of a route that is over goes to the end of the line. *)
LEMMA SendReplyCopy ==
  ASSUME SyncInv, AllGood, BasesFit, SendReply, signedIn
  PROVE  AllGood' /\ BasesFit'
  <1> DEFINE a == answer[1]
  <1>0. /\ job = Idle /\ answer # <<>> /\ answer' = <<>> /\ toClient' = toClient \o answer
        /\ UNCHANGED <<vars, local, toServer>> /\ toClient \in Seq(Mails)
    BY MailTypes DEF SendReply, client
  <1>1. a \in Mails /\ IsReply(a) /\ answer = <<a>> /\ DOMAIN answer = {1} /\ Good(a)
    BY <1>0, OneAnswer, ReplyOrPayload DEF Mails, AllGood
  <1> HIDE DEF a
  <1>2. toClient' = Append(toClient, a)
    BY <1>0, <1>1, AnswerLine
  <1>3. /\ Shown' = Shown /\ Window' = {} /\ Window = {} /\ Coming' = <<>> /\ Coming = <<a>>
        /\ Asked' = Asked
    <2>1. UNCHANGED <<tables, next, job, groups>>
      BY <1>0 DEF vars, tables
    <2>2. Joining' = {} /\ Joining = {}
      BY <1>0, <2>1 DEF Joining, Idle
    <2>3. Window' = {} /\ Window = {}
      BY <1>0, <2>1 DEF Window
    <2>4. Coming' = <<>> /\ Coming = <<a>>
      BY <1>0, <1>1, <2>1 DEF Coming
    <2>5. Shown' = Shown
      BY <2>1, <2>2, SameShown
    <2>6. Asked' = Asked
      BY <1>0, <2>3, AskedIs, AskedIsNext
    <2> QED BY <2>3, <2>4, <2>5, <2>6
  <1>4. AllGood'
    <2>1. \A i \in DOMAIN toClient' :
             toClient'[i] = a \/ (i \in DOMAIN toClient /\ toClient'[i] = toClient[i])
      BY <1>0, <1>1, <1>2, AppendFacts
    <2>2. DOMAIN answer' = {}
      BY <1>0
    <2> QED BY <1>0, <1>1, <2>1, <2>2 DEF AllGood
  <1>5. ASSUME NEW v, NEW R, NEW X, Base(Append(toClient, a), <<>>, local, Asked, {}, v, R, X)
        PROVE  Fits(v, R, X, Shown)
    <2>1. Base(toClient, <<a>>, local, Asked, {}, v, R, X)
      BY <1>0, <1>1, <1>5, SentBase
    <2> QED BY <1>3, <2>1, BaseFits
  <1>6. BasesFit'
    BY <1>0, <1>2, <1>3, <1>5 DEF BasesFit
  <1> QED BY <1>4, <1>6

(* A login shows a copy only if it was read with nothing under way. *)
LEMMA LogInCopy ==
  ASSUME SyncInv, SyncInv', TablesSound, LogIn, sure'
  PROVE  AllGood' /\ BasesFit'
  <1>0. /\ job = Idle /\ UNCHANGED <<tables, next, job, toServer, answer>>
        /\ local' = Loaded(View(Me)) /\ toClient' = <<>> /\ toServer = <<>> /\ answer = <<>>
    BY DEF LogIn, Login
  <1>1. Shown' = Shown
    <2>1. Joining' = Joining
      BY <1>0 DEF Joining, tables
    <2> QED BY <1>0, <2>1, SameShown
  <1>2. Fits(Loaded(View(Me)), <<>>, {}, Shown)
    BY PayloadFits DEF SyncInv, SyncTypeOK
  <1>3. QuietFits'
    BY <1>0, <1>1, <1>2 DEF QuietFits
  <1> QED BY <1>3, QuietIsFitNext

----------------------------------------------------------------------------
(* The server's steps: payloads *)

LEMMA PushedFits ==
  ASSUME SyncInv, SyncInv', TablesSound', toClient' = Append(toClient, Loaded(View(Me)'))
  PROVE  /\ Fits(Loaded(View(Me)'), Coming', Window', Shown') => BasesFit'
         /\ Fits(Loaded(View(Me)'), <<>>, {}, Shown')
         /\ (\A i \in DOMAIN toClient : Good(toClient[i])) =>
               \A i \in DOMAIN toClient' : Good(toClient'[i])
  <1> DEFINE w == Loaded(View(Me)')
  <1>1. w \in Local
    BY NextPayloadType DEF SyncInv, SyncTypeOK
  <1>2. w \in Mails /\ ~IsReply(w)
    BY <1>1, ReplyOrPayload DEF Mails
  <1>3. toClient \in Seq(Mails) /\ Coming' \in Seq(Mails)
    BY MailTypes, MailTypesNext
  <1>4. Fits(w, <<>>, {}, Shown')
    BY NextPayloadFits DEF SyncInv, SyncTypeOK
  <1> HIDE DEF w
  <1>5. toClient' = Append(toClient, w)
    BY DEF w
  <1>6. ASSUME Fits(w, Coming', Window', Shown') PROVE BasesFit'
    <2>1. ASSUME NEW v, NEW R, NEW X,
                 Base(Append(toClient, w), Coming', local', Asked', Window', v, R, X)
          PROVE  Fits(v, R, X, Shown')
      <3>1. v = w /\ R = Coming' /\ X = Window'
        BY <1>2, <1>3, <2>1, PushedBase
      <3> QED BY <1>6, <3>1
    <2> QED BY <1>5, <2>1 DEF BasesFit
  <1>7. ASSUME \A i \in DOMAIN toClient : Good(toClient[i]), NEW i \in DOMAIN toClient'
        PROVE  Good(toClient'[i])
    <2>1. toClient'[i] = w \/ (i \in DOMAIN toClient /\ toClient'[i] = toClient[i])
      BY <1>2, <1>3, <1>5, AppendFacts
    <2> QED BY <1>2, <1>7, <2>1 DEF Good
  <1> QED BY <1>4, <1>6, <1>7 DEF w

(* The refresh pushes what the tables hold: the copy to fit from now on. *)
LEMMA RefreshCopy ==
  ASSUME SyncInv, SyncInv', TablesSound', AllGood, Refresh
  PROVE  AllGood' /\ BasesFit'
  <1>0. /\ answer = <<>> /\ answer' = <<>> /\ UNCHANGED <<toServer, job>>
        /\ toClient' = Append(toClient, Loaded(View(Me)'))
    BY DEF Refresh, PushIf, AutoRefresh
  <1>1. Coming' = <<>> /\ Window' = {}
    <2>1. DOMAIN answer' = {}
      BY <1>0
    <2> QED BY <1>0, <2>1 DEF Coming, Window
  <1>2. BasesFit' /\ \A i \in DOMAIN toClient' : Good(toClient'[i])
    BY <1>0, <1>1, PushedFits DEF AllGood
  <1> QED BY <1>0, <1>2 DEF AllGood

(* A payload half read changes nothing for the client yet. *)
LEMMA AiReadCopy ==
  ASSUME SyncInv, AllGood, BasesFit, AiRead
  PROVE  AllGood' /\ BasesFit'
  <1>0. UNCHANGED <<tables, next, job, local, toServer, answer, toClient>>
    BY DEF AiRead, AiPush, client, wire
  <1>1. Shown' = Shown /\ Window' = Window /\ Coming' = Coming /\ Asked' = Asked
    <2>1. Joining' = Joining
      BY <1>0 DEF Joining, tables
    <2>2. Window' = Window
      BY <1>0 DEF Window
    <2> QED BY <1>0, <2>1, <2>2, SameShown, AskedIs, AskedIsNext DEF Coming
  <1> QED BY <1>0, <1>1 DEF AllGood, BasesFit

----------------------------------------------------------------------------
(* The server's steps: a request served *)

(* Replies that are on their way to the client. *)
Arriving(R) ==
  /\ R \in Seq(Mails)
  /\ \A k \in DOMAIN R : IsReply(R[k]) /\ \E i \in DOMAIN toClient : R[k] = toClient[i]

(* What the step does to the tables is told by one more reply, a, and no more
   asked for by the request r. *)
Answers(a, r) ==
  \A v, R, Q, W, X :
     v \in Local /\ Arriving(R) /\ Longer(R, Q, a) /\ W \subseteq X \cup {r} /\ Fits(v, R, W, Shown)
        => Fits(v, Q, X, Shown')

(* A request served without a push: every copy that may be the last one fits by its
   reply. *)
LEMMA AnsweredCopy ==
  ASSUME SyncInv, BasesFit, NEW a \in Mails, NEW r, Coming = <<>>, Coming' = <<a>>,
         UNCHANGED <<toClient, local>>,
         Asked \subseteq Asked' \cup {r}, Window \subseteq Window' \cup {r}, Answers(a, r)
  PROVE  BasesFit'
  <1>0. toClient \in Seq(Mails) /\ local \in Local /\ DOMAIN Coming = {}
    BY MailTypes
  <1>1. ASSUME NEW v, NEW R, NEW W, Base(toClient, <<>>, local, Asked, Window, v, R, W)
        PROVE  v \in Local /\ Arriving(R) /\ Fits(v, R, W, Shown)
    <2>0. Base(toClient, Coming, local, Asked, Window, v, R, W)
      BY <1>1
    <2>1. /\ v \in Local /\ R \in Seq(Mails)
          /\ \A k \in DOMAIN R : /\ IsReply(R[k])
                                 /\ \/ \E i \in DOMAIN toClient : R[k] = toClient[i]
                                    \/ \E i \in DOMAIN Coming : R[k] = Coming[i]
      BY ONLY <1>0, <2>0, SyncInv, BaseTypes
    <2>2. Fits(v, R, W, Shown)
      BY <2>0, BaseFits
    <2> QED BY <1>0, <2>1, <2>2 DEF Arriving
  <1>2. ASSUME NEW v, NEW Q, NEW X, Base(toClient, <<a>>, local, Asked', Window', v, Q, X)
        PROVE  Fits(v, Q, X, Shown')
    <2>1. \E R : /\ Longer(R, Q, a)
                 /\ \/ X = Asked' /\ \A A, W : Base(toClient, <<>>, local, A, W, v, R, A)
                    \/ X = Window' /\ \A A, W : Base(toClient, <<>>, local, A, W, v, R, W)
      BY ONLY <1>0, <1>2, a \in Mails, AnsweredBase
    <2>2. PICK R : /\ Longer(R, Q, a)
                   /\ \/ Base(toClient, <<>>, local, Asked, Window, v, R, Asked) /\ X = Asked'
                      \/ Base(toClient, <<>>, local, Asked, Window, v, R, Window) /\ X = Window'
      BY <2>1
    <2>3. CASE Base(toClient, <<>>, local, Asked, Window, v, R, Asked) /\ X = Asked'
      BY <1>1, <2>2, <2>3 DEF Answers
    <2>4. CASE Base(toClient, <<>>, local, Asked, Window, v, R, Window) /\ X = Window'
      BY <1>1, <2>2, <2>4 DEF Answers
    <2> QED BY <2>2, <2>3, <2>4
  <1> QED BY <1>2 DEF BasesFit

(* A route that pushes leaves the client with a payload and the reply. *)
LEMMA OneLonger == ASSUME NEW a PROVE Longer(<<>>, <<a>>, a)
  <1>1. DOMAIN <<>> = 1..0 /\ DOMAIN <<a>> = 1..0 + 1 /\ <<a>>[0 + 1] = a /\ 0 \in Nat
    OBVIOUS
  <1> QED BY <1>1 DEF Longer

(* A request served with a push to its author: the payload fits, and the reply behind
   it adds nothing. *)
LEMMA PushAnswered ==
  ASSUME SyncInv, SyncInv', TablesSound', toClient' = Append(toClient, Loaded(View(Me)')),
         NEW a, Coming' = <<a>>, Window' = {},
         a.call.cmd \in {"togglePinGroup", "deleteGroup", "removeMemberFromGroup",
                         "acceptInvite", "denyInvite"}
         \/ (a.call.cmd \in {"cancelInvite", "inviteMemberToGroup"} /\ a.call.user = Me)
  PROVE  BasesFit'
  <1> DEFINE w == Loaded(View(Me)')
  <1>1. Fits(w, <<>>, {}, Shown') /\ (Fits(w, <<a>>, {}, Shown') => BasesFit')
    BY PushedFits
  <1>2. Longer(<<>>, <<a>>, a)
    BY OneLonger
  <1>3. \A g \in Shown'.mine : <<g, Me>> \in Shown'.members
    <2>1. /\ Shown'.mine = {g \in groups' : <<g, Me>> \in members'}
          /\ Shown'.members = {m \in members' : m[1] \in Shown'.mine}
      BY ShownIsNext DEF ShownRows
    <2> QED BY <2>1
  <1> HIDE DEF w
  <1> DEFINE s == Shown'
  <1> HIDE DEF s
  <1>4. Fits(w, <<>>, {}, s) /\ \A g \in s.mine : <<g, Me>> \in s.members
    BY <1>1, <1>3 DEF s
  <1>5. CASE a.call.cmd \in {"togglePinGroup", "deleteGroup", "removeMemberFromGroup",
                             "acceptInvite", "denyInvite"}
    <2>1. Fits(w, <<a>>, {}, s)
      BY <1>2, <1>4, <1>5, NeutralFits
    <2> QED BY <1>1, <2>1 DEF s
  <1>6. CASE a.call.cmd \in {"cancelInvite", "inviteMemberToGroup"} /\ a.call.user = Me
    <2> DEFINE r == a.call
    <2>1. {} \subseteq {} \cup {r}
      OBVIOUS
    <2>2. r.group \in s.mine /\ <<r.group, r.user>> \notin s.members =>
            (r.cmd = "inviteMemberToGroup" <=> <<r.group, r.user>> \in s.invited)
      BY <1>4, <1>6
    <2>3. r.cmd \in {"cancelInvite", "inviteMemberToGroup"} /\ a.call = r
      BY <1>6
    <2> HIDE DEF r
    <2>4. Fits(w, <<a>>, {}, s)
      BY <1>2, <1>4, <2>1, <2>2, <2>3, InviteServedFits
    <2> QED BY <1>1, <2>4 DEF s
  <1> QED BY <1>5, <1>6

(* The common part of every route. *)
Served(r, a) ==
  /\ signedIn /\ answer = <<>> /\ job = Idle /\ toServer # <<>>
  /\ r = Head(toServer).call /\ toServer' = Tail(toServer)
  /\ answer' = <<a>> /\ answer'[1] = a
  /\ a.call = r /\ a.waited /\ a.ok = Succeeds(r) /\ a.id = NewId(r)
  /\ local' = local /\ signedIn' = signedIn /\ ~Outsider(r) /\ Route(r)

(* A request taken while the client is current: it is the first of the queue and is
   answered well. *)
LEMMA ServeFacts ==
  ASSUME SyncInv, SyncInv', AllGood, Serve, signedIn, sure'
  PROVE  \E r \in Call, a \in ReplyMail : Served(r, a)
  <1> DEFINE m == Head(toServer)
             a == [call |-> m.call, waited |-> m.waited, ok |-> Succeeds(m.call),
                   id |-> NewId(m.call)]
  <1>1. /\ job = Idle /\ answer = <<>> /\ toServer # <<>> /\ Route(m.call)
        /\ answer' = <<a>> /\ sure' = (sure /\ ~Outsider(m.call)) /\ toServer' = Tail(toServer)
        /\ UNCHANGED client
    BY DEF Serve
  <1>2. m \in RequestMail /\ m.waited
    <2>1. m = toServer[1] /\ 1 \in DOMAIN toServer /\ m \in RequestMail
      BY <1>1, MailTypes, TailFacts
    <2> QED BY <2>1 DEF AllGood
  <1>3. m.call \in Call /\ m.waited \in BOOLEAN
    BY <1>2 DEF RequestMail
  <1>4. a \in ReplyMail
    <2>1. answer' \in Seq(ReplyMail) /\ 1 \in DOMAIN answer' /\ answer'[1] = a
      BY <1>1 DEF SyncInv, SyncTypeOK
    <2> HIDE DEF a
    <2>2. \A q \in Seq(ReplyMail) : \A i \in DOMAIN q : q[i] \in ReplyMail
      OBVIOUS
    <2> QED BY <2>1, <2>2
  <1>5. answer'[1] = a
    BY <1>1
  <1>6. a.call = m.call /\ a.waited = m.waited /\ a.ok = Succeeds(m.call) /\ a.id = NewId(m.call)
    OBVIOUS
  <1>7. local' = local /\ signedIn' = signedIn
    BY <1>1 DEF client
  <1> HIDE DEF a
  <1>8. Served(m.call, a)
    BY <1>1, <1>2, <1>5, <1>6, <1>7 DEF Served
  <1> QED BY <1>3, <1>4, <1>8

(* Where the request and its answer are after the step. *)
LEMMA ServedFacts ==
  ASSUME SyncInv, AllGood, TablesSound, NEW r \in Call, NEW a \in ReplyMail, Served(r, a)
  PROVE  /\ Coming = <<>> /\ Window = {} /\ Joining = {} /\ a \in Mails /\ IsReply(a) /\ Good(a)
         /\ Asked = Calls(toServer') \cup {r} /\ Asked' = Window' \cup Calls(toServer')
         /\ job' = Idle => /\ Coming' = <<a>> /\ Window' = {} /\ Joining' = {}
                           /\ Asked \subseteq Asked' \cup {r} /\ Window \subseteq Window' \cup {r}
         /\ job' # Idle => /\ Coming' = <<>> /\ Window' = {r} /\ Asked' = Asked
         /\ (\A i \in DOMAIN toClient' : Good(toClient'[i])) => AllGood'
         /\ (UNCHANGED toClient => \A i \in DOMAIN toClient' : Good(toClient'[i]))
  <1>0. /\ signedIn /\ answer = <<>> /\ job = Idle /\ toServer # <<>>
        /\ r = Head(toServer).call /\ toServer' = Tail(toServer)
        /\ answer' = <<a>> /\ a.call = r /\ a.waited /\ a.ok = Succeeds(r)
        /\ ~Outsider(r) /\ Route(r) /\ answer'[1] = a
    BY DEF Served
  <1>1. DOMAIN answer = {} /\ DOMAIN answer' = {1}
    BY <1>0
  <1>2. Coming = <<>> /\ Window = {} /\ Joining = {}
    BY <1>0, <1>1 DEF Coming, Window, Joining
  <1>3. a \in Mails /\ IsReply(a)
    BY ReplyOrPayload DEF Mails
  <1>4. Succeeds(r)
    <2>1. members \subseteq groups \X UserIds
      BY DEF TablesSound, NoDanglingRows
    <2> QED BY <1>0, <2>1 DEF Succeeds, Outsider
  <1>5. Good(a)
    BY <1>0, <1>4 DEF Good
  <1>6. Calls(toServer) = Calls(toServer') \cup {r}
    BY <1>0, MailTypes, CallsFacts
  <1>7. Asked = Calls(toServer') \cup {r} /\ Asked' = Window' \cup Calls(toServer')
    BY <1>2, <1>6, AskedIs, AskedIsNext
  <1>8. ASSUME job' = Idle PROVE Coming' = <<a>> /\ Window' = {} /\ Joining' = {}
    BY <1>0, <1>8 DEF Coming, Window, Joining, Idle
  <1>9. ASSUME job' # Idle PROVE Coming' = <<>> /\ Window' = {r}
    BY <1>0, <1>1, <1>9 DEF Coming, Window
  <1>10. ASSUME \A i \in DOMAIN toClient' : Good(toClient'[i]) PROVE AllGood'
    <2>1. \A i \in DOMAIN answer' : Good(answer'[i])
      BY <1>0, <1>1, <1>5
    <2>2. \A i \in DOMAIN toServer' : toServer'[i].waited
      BY <1>0, MailTypes, TailFacts DEF AllGood
    <2> QED BY <1>10, <2>1, <2>2 DEF AllGood
  <1>11. UNCHANGED toClient => \A i \in DOMAIN toClient' : Good(toClient'[i])
    BY DEF AllGood
  <1>12. job' = Idle => Asked \subseteq Asked' \cup {r} /\ Window \subseteq Window' \cup {r}
    BY <1>2, <1>7
  <1>13. job' # Idle => Asked' = Asked
    BY <1>7, <1>9
  <1> QED BY <1>2, <1>3, <1>5, <1>7, <1>8, <1>9, <1>10, <1>11, <1>12, <1>13

----------------------------------------------------------------------------
(* The server's steps: routes of one statement *)

LEMMA QuietRoute ==
  ASSUME SyncInv, AllGood, BasesFit, TablesSound, NEW r \in Call, NEW a \in ReplyMail,
         Served(r, a), job' = Idle, UNCHANGED toClient, Answers(a, r)
  PROVE  AllGood' /\ BasesFit'
  <1>1. /\ Coming = <<>> /\ a \in Mails
        /\ (\A i \in DOMAIN toClient' : Good(toClient'[i])) => AllGood'
        /\ UNCHANGED toClient => \A i \in DOMAIN toClient' : Good(toClient'[i])
    BY ServedFacts
  <1>2. /\ Coming' = <<a>>
        /\ Asked \subseteq Asked' \cup {r} /\ Window \subseteq Window' \cup {r}
    BY ServedFacts
  <1>3. local' = local
    BY DEF Served
  <1>4. BasesFit'
    BY <1>1, <1>2, <1>3, AnsweredCopy
  <1> QED BY <1>1, <1>4

(* A route that pushes to its author. *)
LEMMA PushRoute ==
  ASSUME SyncInv, SyncInv', AllGood, TablesSound, TablesSound', NEW r \in Call,
         NEW a \in ReplyMail, Served(r, a), job' = Idle,
         toClient' = Append(toClient, Loaded(View(Me)')),
         r.cmd \in {"togglePinGroup", "deleteGroup", "removeMemberFromGroup",
                    "acceptInvite", "denyInvite"}
         \/ (r.cmd \in {"cancelInvite", "inviteMemberToGroup"} /\ r.user = Me)
  PROVE  AllGood' /\ BasesFit'
  <1>1. (\A i \in DOMAIN toClient' : Good(toClient'[i])) => AllGood'
    BY ServedFacts
  <1>2. Coming' = <<a>> /\ Window' = {}
    BY ServedFacts
  <1>3. a.call = r
    BY DEF Served
  <1>4. BasesFit'
    BY <1>2, <1>3, PushAnswered
  <1>5. \A i \in DOMAIN toClient' : Good(toClient'[i])
    BY PushedFits DEF AllGood
  <1> QED BY <1>1, <1>4, <1>5

(* The chats shown are a function on the ids of groups. *)
LEMMA ShownChat == Shown.chat = [g \in GroupId |-> Shown.chat[g]]
  <1> DEFINE f == [g \in GroupId |-> Cardinality({x \in View(Me).messages : x.group = g})]
  <1>1. Shown.chat = f
    BY DEF Shown
  <1>2. f = [g \in GroupId |-> f[g]]
    OBVIOUS
  <1> QED BY <1>1, <1>2

(* The same in the next state. *)
LEMMA ShownChatNext == Shown'.chat = [g \in GroupId |-> Shown'.chat[g]]
  <1>1. (Shown.chat = [g \in GroupId |-> Shown.chat[g]])'
    BY ShownChat, PTL
  <1> QED BY <1>1

(* A step that leaves the groups alone. *)
LEMMA SameGroupsShown ==
  ASSUME UNCHANGED <<groups, members, invites, pins, messages>>, Joining' = Joining
  PROVE  SameGroupTables(Shown, Shown')
  <1> DEFINE s == Shown
             z == Shown'
  <1>1. /\ s.mine = {g \in groups : <<g, Me>> \in members}
        /\ s.members = {m \in members : m[1] \in s.mine}
        /\ s.invited = {i \in invites : i[1] \in s.mine}
        /\ s.pending = {g \in groups : <<g, Me>> \in invites}
        /\ s.joining = Joining
        /\ s.pins = {g \in GroupId : <<g, Me>> \in pins}
        /\ \A g \in GroupId : s.chat[g] = ChatOf({m \in messages : m.group \in s.mine}, g)
        /\ s.chat = [g \in GroupId |-> s.chat[g]]
    BY ShownIs, ShownChat DEF ShownRows
  <1>2. /\ z.mine = {g \in groups : <<g, Me>> \in members}
        /\ z.members = {m \in members : m[1] \in z.mine}
        /\ z.invited = {i \in invites : i[1] \in z.mine}
        /\ z.pending = {g \in groups : <<g, Me>> \in invites}
        /\ z.joining = Joining
        /\ z.pins = {g \in GroupId : <<g, Me>> \in pins}
        /\ \A g \in GroupId : z.chat[g] = ChatOf({m \in messages : m.group \in z.mine}, g)
        /\ z.chat = [g \in GroupId |-> z.chat[g]]
    BY ShownIsNext, ShownChatNext DEF ShownRows
  <1> HIDE DEF s, z
  <1>3. z.mine = s.mine
    BY <1>1, <1>2
  <1>4. z.members = s.members /\ z.invited = s.invited /\ z.pending = s.pending
    <2>1. z.members = {m \in members : m[1] \in s.mine} /\ z.invited = {i \in invites : i[1] \in s.mine}
      BY <1>2, <1>3
    <2>2. z.members = s.members
      BY <1>1, <2>1
    <2>3. z.invited = s.invited
      BY <1>1, <2>1
    <2> QED BY <1>1, <1>2, <2>2, <2>3
  <1>5. \A g \in GroupId : z.chat[g] = s.chat[g]
    <2>1. {m \in messages : m.group \in z.mine} = {m \in messages : m.group \in s.mine}
      BY <1>3
    <2> DEFINE rows == {m \in messages : m.group \in s.mine}
    <2>2. \A g \in GroupId : z.chat[g] = ChatOf(rows, g)
      BY <1>2, <2>1
    <2>3. \A g \in GroupId : s.chat[g] = ChatOf(rows, g)
      BY <1>1
    <2> HIDE DEF rows
    <2> QED BY ONLY <2>2, <2>3
  <1>6. z.chat = s.chat
    BY <1>1, <1>2, <1>5
  <1>7. SameGroupTables(s, z)
    BY <1>1, <1>2, <1>3, <1>4, <1>6 DEF SameGroupTables
  <1> QED BY <1>7 DEF s, z

(* deleteTask pushes to nobody: its reply tells what it did. *)
LEMMA DeleteTaskCopy ==
  ASSUME SyncInv, AllGood, BasesFit, TablesSound, NEW r \in Call, NEW a \in ReplyMail,
         Served(r, a), r.cmd = "deleteTask", DeleteTask(r.task), Quietly
  PROVE  AllGood' /\ BasesFit'
  <1>1. /\ job' = Idle /\ UNCHANGED toClient /\ a.call = r
        /\ UNCHANGED <<groups, members, invites, pins, messages, next>>
        /\ tasks' = {x \in tasks : x.id # r.task}
    BY DEF DeleteTask, Quietly, PushIf, DroppedTask, Served
  <1>2. SameGroupTables(Shown, Shown')
    BY <1>1, ServedFacts, SameGroupsShown
  <1>3. Shown'.nextTask = Shown.nextTask /\ Shown'.tasks = {x \in Shown.tasks : x.id # r.task}
    <2>1. Shown'.mine = Shown.mine
      BY <1>2 DEF SameGroupTables
    <2>2. Shown.tasks = {t \in tasks : t.group \in Shown.mine} /\ Shown.nextTask = next.task
      BY ShownIs DEF ShownRows
    <2>3. Shown'.tasks = {t \in tasks' : t.group \in Shown'.mine} /\ Shown'.nextTask = next'.task
      BY ShownIsNext DEF ShownRows
    <2> QED BY <1>1, <2>1, <2>2, <2>3
  <1> DEFINE s == Shown
             z == Shown'
  <1>4. SameGroupTables(s, z) /\ z.nextTask = s.nextTask /\ z.tasks = {x \in s.tasks : x.id # r.task}
    BY <1>2, <1>3
  <1> HIDE DEF s, z
  <1>5. ASSUME NEW v, NEW R, NEW Q, NEW W, NEW X, v \in Local, Longer(R, Q, a),
               W \subseteq X \cup {r}, Fits(v, R, W, s)
        PROVE  Fits(v, Q, X, z)
    BY ONLY <1>1, <1>4, <1>5, r.cmd = "deleteTask", TaskDeletedFits
  <1>6. Answers(a, r)
    BY <1>5 DEF Answers, s, z
  <1> QED BY <1>1, <1>6, QuietRoute

(* The row a statement that sets a column finds is the one of that id. *)
LEMMA ColumnCopy ==
  ASSUME SyncInv, AllGood, BasesFit, TablesSound, NEW r \in Call, NEW a \in ReplyMail,
         Served(r, a),
         \/ r.cmd = "toggleTaskCompletion" /\ ToggleTaskCompletion(r.task, r.body)
         \/ r.cmd = "editTask" /\ EditTask(r.task, r.body),
         Quietly
  PROVE  AllGood' /\ BasesFit'
  <1> DEFINE old == BodyOf(r.task, r.body)
             b == IF r.cmd = "editTask" THEN [old EXCEPT !.text = r.body.text]
                                        ELSE [old EXCEPT !.done = r.body.done]
  <1>1. /\ job' = Idle /\ UNCHANGED toClient /\ a.call = r
        /\ UNCHANGED <<groups, members, invites, pins, messages, next>>
        /\ tasks' = Updated(r.task, b)
    BY DEF ToggleTaskCompletion, EditTask, UpdateTask, Quietly, PushIf, Served
  <1>2. SameGroupTables(Shown, Shown')
    BY <1>1, ServedFacts, SameGroupsShown
  <1>3. \A x \in tasks : x.id = r.task => old = x.body
    <2> SUFFICES ASSUME NEW x \in tasks, x.id = r.task PROVE old = x.body
      OBVIOUS
    <2>1. r.task \in {y.id : y \in tasks}
      OBVIOUS
    <2>2. \A y \in tasks : y.id = r.task => y = x
      BY DEF TablesSound, OneTaskPerId
    <2>3. (CHOOSE y \in tasks : y.id = r.task) = x
      BY <2>2
    <2> QED BY <2>1, <2>3 DEF BodyOf
  <1>4. tasks \subseteq TaskRow /\ Bodies = [done : BOOLEAN, text : Texts]
    BY ClientSyncAssumption DEF SyncInv, SyncTypeOK, TypeOK
  <1> DEFINE New(x) == IF x.id = r.task THEN [x EXCEPT !.body = b] ELSE x
             Fine(x, y) ==
               /\ x.id = y.id /\ x.group = y.group /\ x.owner = y.owner
               /\ y.body.done = IF r.cmd = "toggleTaskCompletion" /\ x.id = r.task
                                THEN r.body.done ELSE x.body.done
               /\ y.body.text = IF r.cmd = "editTask" /\ x.id = r.task
                                THEN r.body.text ELSE x.body.text
  <1>5. \A x \in tasks : Fine(x, New(x))
    <2> SUFFICES ASSUME NEW x \in tasks PROVE Fine(x, New(x))
      OBVIOUS
    <2>1. x \in TaskRow
      BY <1>4
    <2>2. CASE x.id # r.task
      BY <2>2
    <2>3. CASE x.id = r.task
      <3> DEFINE y == [x EXCEPT !.body = b]
      <3>1. New(x) = y
        BY <2>3
      <3>2. y.id = x.id /\ y.group = x.group /\ y.owner = x.owner /\ y.body = b
        BY <2>1 DEF TaskRow
      <3>3. old = x.body /\ old \in [done : BOOLEAN, text : Texts]
        BY <1>3, <1>4, <2>1, <2>3 DEF TaskRow
      <3> HIDE DEF old, y
      <3>4. CASE r.cmd = "editTask"
        <4>1. b.text = r.body.text /\ b.done = old.done
          BY <3>3, <3>4
        <4> HIDE DEF b, New
        <4> QED BY <2>3, <3>1, <3>2, <3>3, <3>4, <4>1
      <3>5. CASE r.cmd = "toggleTaskCompletion"
        <4>1. b.done = r.body.done /\ b.text = old.text
          BY <3>3, <3>5
        <4> HIDE DEF b, New
        <4> QED BY <2>3, <3>1, <3>2, <3>3, <3>5, <4>1
      <3> QED BY <3>4, <3>5
    <2> QED BY <2>2, <2>3
  <1>6. tasks' = {New(x) : x \in tasks}
    BY <1>1 DEF Updated
  <1> HIDE DEF New, Fine, b, old
  <1> DEFINE s == Shown
             z == Shown'
  <1>7. /\ SameGroupTables(s, z) /\ z.nextTask = s.nextTask
        /\ \A x \in s.tasks : \E y \in z.tasks : Fine(x, y)
        /\ \A y \in z.tasks : \E x \in s.tasks : Fine(x, y)
    <2>1. Shown'.mine = Shown.mine
      BY <1>2 DEF SameGroupTables
    <2>2. Shown.tasks = {t \in tasks : t.group \in Shown.mine} /\ Shown.nextTask = next.task
      BY ShownIs DEF ShownRows
    <2>3. Shown'.tasks = {t \in tasks' : t.group \in Shown'.mine} /\ Shown'.nextTask = next'.task
      BY ShownIsNext DEF ShownRows
    <2>4. \A x \in tasks : New(x).group = x.group
      BY <1>5 DEF Fine
    <2>5. \A x \in s.tasks : New(x) \in z.tasks /\ Fine(x, New(x))
      BY <1>5, <1>6, <2>1, <2>2, <2>3, <2>4
    <2>6. \A y \in z.tasks : \E x \in s.tasks : y = New(x) /\ Fine(x, New(x))
      BY <1>5, <1>6, <2>1, <2>2, <2>3, <2>4
    <2> QED BY <1>1, <1>2, <2>2, <2>3, <2>5, <2>6
  <1> HIDE DEF s, z
  <1>8. ASSUME NEW v, NEW R, NEW Q, NEW W, NEW X, v \in Local, Longer(R, Q, a),
               W \subseteq X \cup {r}, Fits(v, R, W, s)
        PROVE  Fits(v, Q, X, z)
    <2>1. \A x \in s.tasks : \E y \in z.tasks : y.id = x.id
      BY <1>7 DEF Fine
    <2>2. \A y \in z.tasks : \E x \in s.tasks :
            /\ x.id = y.id /\ x.group = y.group /\ x.owner = y.owner
            /\ y.body.done = IF r.cmd = "toggleTaskCompletion" /\ x.id = r.task
                             THEN r.body.done ELSE x.body.done
            /\ y.body.text = IF r.cmd = "editTask" /\ x.id = r.task
                             THEN r.body.text ELSE x.body.text
      BY <1>7 DEF Fine
    <2>3. r.cmd \in {"toggleTaskCompletion", "editTask"}
      OBVIOUS
    <2>4. /\ Longer(R, Q, a) /\ Fits(v, R, W, s) /\ W \subseteq X \cup {r} /\ a.call = r
          /\ SameGroupTables(s, z) /\ z.nextTask = s.nextTask
      BY ONLY <1>1, <1>7, <1>8
    <2> QED BY ONLY <2>1, <2>2, <2>3, <2>4, ColumnServedFits
  <1>9. Answers(a, r)
    BY <1>8 DEF Answers, s, z
  <1> QED BY <1>1, <1>9, QuietRoute

(* createTask pushes to the other members: its reply has the id of the task. *)
LEMMA CreateTaskCopy ==
  ASSUME SyncInv, AllGood, BasesFit, TablesSound, CallsIssued,
         NEW r \in Call, NEW a \in ReplyMail, Served(r, a), r.cmd = "createTask",
         CreateTask(r.group, Me, [r.body EXCEPT !.done = FALSE]), Quietly
  PROVE  AllGood' /\ BasesFit'
  <1> DEFINE b == [r.body EXCEPT !.done = FALSE]
             row == [id |-> next.task, group |-> r.group, owner |-> Me, body |-> b]
  <1>1. /\ job' = Idle /\ UNCHANGED toClient /\ a.call = r /\ a.id = next.task
        /\ UNCHANGED <<groups, members, invites, pins, messages>>
        /\ InsertTask(r.group, Me, b) /\ next.task <= MaxTask /\ ~Outsider(r)
    BY DEF CreateTask, Quietly, PushIf, Served, NewId
  <1>2. <<r.group, Me>> \in members /\ <<r.group, Me>> \in groups \X UserIds
    BY <1>1 DEF Outsider, TablesSound, NoDanglingRows
  <1>3. tasks' = tasks \cup {row} /\ next' = [next EXCEPT !.task = @ + 1]
    BY <1>1, <1>2 DEF InsertTask
  <1>4. next \in Sequence /\ tasks \subseteq TaskRow /\ Bodies = [done : BOOLEAN, text : Texts]
    BY ClientSyncAssumption DEF SyncInv, SyncTypeOK, TypeOK
  <1>5. /\ row.id = next.task /\ row.group = r.group /\ row.owner = Me
        /\ row.body.done = FALSE /\ row.body.text = r.body.text /\ row \in TaskRow
        /\ next'.task = next.task + 1 /\ next.task \in Nat
    <2>1. r.body \in [done : BOOLEAN, text : Texts] /\ r.group \in GroupId
      BY <1>4 DEF Call
    <2>2. b \in [done : BOOLEAN, text : Texts] /\ b.done = FALSE /\ b.text = r.body.text
      BY <2>1
    <2>3. next.task \in 1..MaxTask + 1 /\ next'.task = next.task + 1
      BY <1>3, <1>4 DEF Sequence
    <2>4. next.task \in Nat /\ next.task \in TaskId
      BY <1>1, <2>3, BoundsAssumption DEF TaskId
    <2>5. row.body = b /\ row.id = next.task /\ row.group = r.group /\ row.owner = Me
      OBVIOUS
    <2> HIDE DEF b
    <2>6. row \in TaskRow
      BY <1>4, <2>1, <2>2, <2>4, MeIsUser DEF TaskRow
    <2> QED BY <2>2, <2>3, <2>4, <2>5, <2>6
  <1> HIDE DEF b, row
  <1>6. SameGroupTables(Shown, Shown')
    BY <1>1, ServedFacts, SameGroupsShown
  <1> DEFINE s == Shown
             z == Shown'
             n == next.task
  <1>7. /\ SameGroupTables(s, z) /\ n \in Nat /\ s.nextTask = n /\ z.nextTask = n + 1
        /\ z.tasks = s.tasks \cup {row} /\ s.tasks \subseteq TaskRow
        /\ \A x \in s.tasks : x.id < n
    <2>1. Shown'.mine = Shown.mine
      BY <1>6 DEF SameGroupTables
    <2>2. Shown.tasks = {t \in tasks : t.group \in Shown.mine} /\ Shown.nextTask = next.task
      BY ShownIs DEF ShownRows
    <2>3. Shown'.tasks = {t \in tasks' : t.group \in Shown'.mine} /\ Shown'.nextTask = next'.task
      BY ShownIsNext DEF ShownRows
    <2>4. row.group \in Shown.mine
      BY <1>2, <1>5, ShownIs DEF ShownRows
    <2>5. \A x \in tasks : x.id < n
      BY DEF TablesSound, IdsBelowNext
    <2> QED BY <1>3, <1>4, <1>5, <1>6, <2>1, <2>2, <2>3, <2>4, <2>5
  <1>8. \A R : Arriving(R) => \A k \in DOMAIN R : R[k].call.task < n
    BY DEF Arriving, CallsIssued, IssuedReply, Issued
  <1>9. row.id = n /\ a.id = n
    BY <1>1, <1>5
  <1> HIDE DEF s, z, n
  <1>10. ASSUME NEW v, NEW R, NEW Q, NEW W, NEW X, v \in Local, Arriving(R), Longer(R, Q, a),
                W \subseteq X \cup {r}, Fits(v, R, W, s)
         PROVE  Fits(v, Q, X, z)
    <2>1. \A i \in DOMAIN v.tasks : v.tasks[i].id \in Nat
      <3>1. v.tasks \in Seq(TaskRow)
        BY <1>10 DEF Local
      <3>2. \A i \in DOMAIN v.tasks : v.tasks[i] \in TaskRow
        BY <3>1
      <3> QED BY <3>2 DEF TaskRow, TaskId
    <2>2. \A k \in DOMAIN R : R[k].call.task < s.nextTask
      BY <1>7, <1>8, <1>10
    <2>3. /\ SameGroupTables(s, z) /\ s.nextTask \in Nat /\ z.nextTask = s.nextTask + 1
          /\ z.tasks = s.tasks \cup {row} /\ s.tasks \subseteq TaskRow
          /\ \A x \in s.tasks : x.id < s.nextTask
          /\ row.id = s.nextTask /\ a.id = row.id /\ a.call = r
      BY <1>1, <1>7, <1>9
    <2>4. /\ row \in TaskRow /\ row.group = r.group /\ row.owner = Me
          /\ row.body.done = FALSE /\ row.body.text = r.body.text
      BY <1>5
    <2> QED BY ONLY <1>10, <2>1, <2>2, <2>3, <2>4, r.cmd = "createTask", TaskAddedFits
  <1>11. Answers(a, r)
    BY <1>10 DEF Answers, s, z
  <1> QED BY <1>1, <1>11, QuietRoute

(* One message more in one chat. *)
LEMMA ChatPlusOne ==
  ASSUME NEW rows, IsFiniteSet(rows), NEW m, m \notin rows, NEW g
  PROVE  ChatOf(rows \cup {m}, g) = IF m.group = g THEN ChatOf(rows, g) + 1 ELSE ChatOf(rows, g)
  <1> DEFINE old == {x \in rows : x.group = g}
             new == {x \in rows \cup {m} : x.group = g}
  <1>1. IsFiniteSet(old)
    BY FS_Subset
  <1>2. CASE m.group = g
    <2>1. new = old \cup {m} /\ m \notin old
      BY <1>2
    <2> HIDE DEF old, new
    <2>2. Cardinality(new) = Cardinality(old) + 1
      BY <1>1, <2>1, FS_AddElement
    <2> QED BY <1>2, <2>2 DEF ChatOf, old, new
  <1>3. CASE m.group # g
    <2>1. new = old
      BY <1>3
    <2> QED BY <1>3, <2>1 DEF ChatOf
  <1> QED BY <1>2, <1>3

(* sendMessage pushes to the other members: its reply counts as the message. *)
LEMMA SendMessageCopy ==
  ASSUME SyncInv, AllGood, BasesFit, TablesSound,
         NEW r \in Call, NEW a \in ReplyMail, Served(r, a), r.cmd = "sendMessage",
         SendMessage(r.group, Me), Quietly
  PROVE  AllGood' /\ BasesFit'
  <1> DEFINE row == [id |-> next.message, group |-> r.group, user |-> Me]
  <1>1. /\ job' = Idle /\ UNCHANGED toClient /\ a.call = r
        /\ UNCHANGED <<groups, members, invites, pins, tasks>>
        /\ InsertMessage(r.group, Me)
    BY DEF SendMessage, Quietly, PushIf, Served
  <1>2. Joining' = Joining
    BY <1>1, ServedFacts
  <1>3. next'.task = next.task
    <2>1. next \in Sequence
      BY DEF SyncInv, SyncTypeOK, TypeOK
    <2> QED BY <1>1, <2>1 DEF InsertMessage, Sequence
  <1>4. members \subseteq groups \X UserIds /\ (\A x \in messages : x.id < next.message)
        /\ IsFiniteSet(messages) /\ messages \subseteq MessageRow /\ groups \subseteq GroupId
    BY DEF TablesSound, NoDanglingRows, IdsBelowNext, SyncInv, FiniteTables, SyncTypeOK, TypeOK
  <1> DEFINE s == Shown
             z == Shown'
             mine == s.mine
             seen == {m \in messages : m.group \in mine}
  <1>5. /\ s.mine = {g \in groups : <<g, Me>> \in members}
        /\ s.members = {m \in members : m[1] \in s.mine}
        /\ s.invited = {i \in invites : i[1] \in s.mine}
        /\ s.pending = {g \in groups : <<g, Me>> \in invites}
        /\ s.joining = Joining
        /\ s.pins = {g \in GroupId : <<g, Me>> \in pins}
        /\ s.tasks = {t \in tasks : t.group \in s.mine} /\ s.nextTask = next.task
        /\ \A g \in GroupId : s.chat[g] = ChatOf(seen, g)
    BY ShownIs DEF ShownRows
  <1>6. /\ z.mine = {g \in groups : <<g, Me>> \in members}
        /\ z.members = {m \in members : m[1] \in z.mine}
        /\ z.invited = {i \in invites : i[1] \in z.mine}
        /\ z.pending = {g \in groups : <<g, Me>> \in invites}
        /\ z.joining = Joining
        /\ z.pins = {g \in GroupId : <<g, Me>> \in pins}
        /\ z.tasks = {t \in tasks : t.group \in z.mine} /\ z.nextTask = next.task
        /\ \A g \in GroupId : z.chat[g] = ChatOf({m \in messages' : m.group \in z.mine}, g)
    BY <1>1, <1>2, <1>3, ShownIsNext DEF ShownRows
  <1>7. s.mine \subseteq GroupId /\ z.mine = s.mine /\ mine = s.mine
    BY <1>4, <1>5, <1>6
  <1>8. \A g \in mine : z.chat[g] = IF g = r.group THEN s.chat[g] + 1 ELSE s.chat[g]
    <2>1. z.mine = mine
      BY <1>7
    <2>2. \A g \in mine : z.chat[g] = ChatOf({m \in messages' : m.group \in mine}, g)
      BY <1>6, <1>7, <2>1
    <2>3. \A g \in mine : s.chat[g] = ChatOf(seen, g)
      BY <1>5, <1>7
    <2>4. r.group \in mine => <<r.group, Me>> \in groups \X UserIds
      BY <1>4, <1>5
    <2>5. IsFiniteSet(seen) /\ row \notin seen
      <3>1. IsFiniteSet(seen)
        BY <1>4, FS_Subset
      <3>2. row.id = next.message /\ ~(next.message < next.message)
        <4>1. next.message \in Int
          BY DEF SyncInv, SyncTypeOK, TypeOK, Sequence
        <4> QED BY <4>1
      <3>3. row \notin messages
        BY <1>4, <3>2
      <3> QED BY <3>1, <3>3
    <2> HIDE DEF s, z, mine
    <2>6. CASE r.group \in mine
      <3>1. messages' = messages \cup {row} /\ row.group \in mine
        BY <1>1, <2>4, <2>6 DEF InsertMessage
      <3>2. {m \in messages' : m.group \in mine} = seen \cup {row}
        BY <3>1
      <3> HIDE DEF seen
      <3>3. \A g : ChatOf(seen \cup {row}, g) =
                      IF row.group = g THEN ChatOf(seen, g) + 1 ELSE ChatOf(seen, g)
        BY <2>5, ChatPlusOne
      <3>4. row.group = r.group
        OBVIOUS
      <3> QED BY <2>2, <2>3, <3>2, <3>3, <3>4
    <2>7. CASE r.group \notin mine
      <3>1. messages' = messages \cup {row} \/ messages' = messages
        BY <1>1 DEF InsertMessage
      <3>2. {m \in messages' : m.group \in mine} = seen
        BY <2>7, <3>1
      <3> QED BY <2>2, <2>3, <2>7, <3>2
    <2> QED BY <2>6, <2>7
  <1>9. /\ z.mine = s.mine /\ z.members = s.members /\ z.invited = s.invited
        /\ z.pending = s.pending /\ z.joining = s.joining /\ z.pins = s.pins
        /\ z.tasks = s.tasks /\ z.nextTask = s.nextTask
    <2> HIDE DEF s, z, mine, seen
    <2>1. /\ z.members = {m \in members : m[1] \in s.mine}
          /\ z.invited = {i \in invites : i[1] \in s.mine}
          /\ z.tasks = {t \in tasks : t.group \in s.mine}
      BY <1>6, <1>7
    <2>2. z.members = s.members
      BY <1>5, <2>1
    <2>3. z.invited = s.invited
      BY <1>5, <2>1
    <2>4. z.tasks = s.tasks
      BY <1>5, <2>1
    <2> QED BY <1>5, <1>6, <1>7, <2>2, <2>3, <2>4
  <1>10. \A g \in s.mine : z.chat[g] = IF g = r.group THEN s.chat[g] + 1 ELSE s.chat[g]
    BY <1>8
  <1> HIDE DEF s, z, mine, seen
  <1>11. ASSUME NEW v, NEW R, NEW Q, NEW W, NEW X, v \in Local, Longer(R, Q, a),
                W \subseteq X \cup {r}, Fits(v, R, W, s)
         PROVE  Fits(v, Q, X, z)
    BY ONLY <1>1, <1>9, <1>10, <1>11, r.cmd = "sendMessage", MessageServedFits
  <1>12. Answers(a, r)
    BY <1>11 DEF Answers, s, z
  <1> QED BY <1>1, <1>12, QuietRoute

(* What an invitation of somebody else changes. *)
LEMMA InviteCopy ==
  ASSUME SyncInv, AllGood, BasesFit, TablesSound, CallsIssued,
         NEW r \in Call, NEW a \in ReplyMail, Served(r, a), r.user # Me,
         \/ r.cmd = "cancelInvite" /\ CancelInvite(r.group, r.user)
         \/ r.cmd = "inviteMemberToGroup" /\ InviteMemberToGroup(r.group, r.user),
         UNCHANGED toClient
  PROVE  AllGood' /\ BasesFit'
  <1>1. /\ job' = Idle /\ a.call = r
        /\ UNCHANGED <<groups, members, pins, tasks, messages, next>>
        /\ \/ r.cmd = "cancelInvite" /\ invites' = invites \ {<<r.group, r.user>>}
           \/ r.cmd = "inviteMemberToGroup" /\ invites' = invites \cup Linked(r.group, r.user)
    BY DEF CancelInvite, InviteMemberToGroup, Without, Served
  <1>2. Joining' = Joining
    BY <1>1, ServedFacts
  <1>3. members \subseteq groups \X UserIds
    BY DEF TablesSound, NoDanglingRows
  <1>4. r.user \in UserIds
    <2>1. r = toServer[1].call /\ 1 \in DOMAIN toServer
      BY MailTypes, TailFacts DEF Served
    <2> QED BY <2>1 DEF CallsIssued, Issued
  <1>5. \A g, u : (g = r.group /\ u = r.user) \/ (<<g, u>> \in invites' <=> <<g, u>> \in invites)
    BY <1>1 DEF Linked
  <1>6. r.group \in groups =>
          (r.cmd = "inviteMemberToGroup" <=> <<r.group, r.user>> \in invites')
    BY <1>1, <1>4 DEF Linked
  <1> DEFINE s == Shown
             z == Shown'
  <1>7. /\ s.mine = {g \in groups : <<g, Me>> \in members}
        /\ s.members = {m \in members : m[1] \in s.mine}
        /\ s.invited = {i \in invites : i[1] \in s.mine}
        /\ s.pending = {g \in groups : <<g, Me>> \in invites}
        /\ s.joining = Joining
        /\ s.pins = {g \in GroupId : <<g, Me>> \in pins}
        /\ s.tasks = {t \in tasks : t.group \in s.mine} /\ s.nextTask = next.task
        /\ \A g \in GroupId : s.chat[g] = ChatOf({m \in messages : m.group \in s.mine}, g)
        /\ s.chat = [g \in GroupId |-> s.chat[g]]
    BY ShownIs, ShownChat DEF ShownRows
  <1>8. /\ z.mine = {g \in groups : <<g, Me>> \in members}
        /\ z.members = {m \in members : m[1] \in z.mine}
        /\ z.invited = {i \in invites' : i[1] \in z.mine}
        /\ z.pending = {g \in groups : <<g, Me>> \in invites'}
        /\ z.joining = Joining
        /\ z.pins = {g \in GroupId : <<g, Me>> \in pins}
        /\ z.tasks = {t \in tasks : t.group \in z.mine} /\ z.nextTask = next.task
        /\ \A g \in GroupId : z.chat[g] = ChatOf({m \in messages : m.group \in z.mine}, g)
        /\ z.chat = [g \in GroupId |-> z.chat[g]]
    BY <1>1, <1>2, ShownIsNext, ShownChatNext DEF ShownRows
  <1> HIDE DEF s, z
  <1>9. /\ z.mine = s.mine /\ z.members = s.members /\ z.pending = s.pending
        /\ z.joining = s.joining /\ z.pins = s.pins /\ z.chat = s.chat
        /\ z.tasks = s.tasks /\ z.nextTask = s.nextTask
    <2>1. z.mine = s.mine
      BY <1>7, <1>8
    <2>2. z.members = s.members
      <3>1. z.members = {m \in members : m[1] \in s.mine}
        BY <1>8, <2>1
      <3> QED BY <1>7, <3>1
    <2>3. z.tasks = s.tasks
      <3>1. z.tasks = {t \in tasks : t.group \in s.mine}
        BY <1>8, <2>1
      <3> QED BY <1>7, <3>1
    <2>4. z.pending = s.pending
      <3>1. \A g \in groups : <<g, Me>> \in invites' <=> <<g, Me>> \in invites
        BY <1>5
      <3> QED BY <1>7, <1>8, <3>1
    <2>5. z.chat = s.chat
      <3> DEFINE rows == {m \in messages : m.group \in s.mine}
      <3>1. \A g \in GroupId : z.chat[g] = ChatOf(rows, g)
        <4>1. {m \in messages : m.group \in z.mine} = rows
          BY <2>1
        <4> QED BY <1>8, <4>1
      <3>2. \A g \in GroupId : s.chat[g] = ChatOf(rows, g)
        BY <1>7
      <3> HIDE DEF rows
      <3>3. \A g \in GroupId : z.chat[g] = s.chat[g]
        BY ONLY <3>1, <3>2
      <3> QED BY <1>7, <1>8, <3>3
    <2> QED BY <1>7, <1>8, <2>1, <2>2, <2>3, <2>4, <2>5
  <1>10. /\ \A g \in s.mine, u \in UserId :
               (g = r.group /\ u = r.user) \/ (<<g, u>> \in z.invited <=> <<g, u>> \in s.invited)
         /\ r.group \in s.mine /\ <<r.group, r.user>> \notin s.members =>
               (r.cmd = "inviteMemberToGroup" <=> <<r.group, r.user>> \in z.invited)
    <2>1. \A g \in s.mine : \A u : /\ <<g, u>> \in z.invited <=> <<g, u>> \in invites'
                                   /\ <<g, u>> \in s.invited <=> <<g, u>> \in invites
      BY <1>7, <1>8, <1>9
    <2>2. s.mine \subseteq groups
      BY <1>7
    <2> QED BY <1>5, <1>6, <2>1, <2>2
  <1>11. ASSUME NEW v, NEW R, NEW Q, NEW W, NEW X, v \in Local, Longer(R, Q, a),
                W \subseteq X \cup {r}, Fits(v, R, W, s)
         PROVE  Fits(v, Q, X, z)
    <2>1. r.cmd \in {"cancelInvite", "inviteMemberToGroup"}
      BY <1>1
    <2> QED BY ONLY <1>1, <1>9, <1>10, <1>11, <2>1, InviteServedFits
  <1>12. Answers(a, r)
    BY <1>11 DEF Answers, s, z
  <1> QED BY <1>1, <1>12, QuietRoute

(* A step that changes nothing the client's groups hold. *)
LEMMA ShownRecord ==
  Shown = [mine |-> Shown.mine, members |-> Shown.members, invited |-> Shown.invited,
           pending |-> Shown.pending, joining |-> Shown.joining, pins |-> Shown.pins,
           tasks |-> Shown.tasks, chat |-> Shown.chat, nextTask |-> Shown.nextTask]
  <1> DEFINE view == View(Me)
             mine == {g \in groups : <<g, Me>> \in members}
             chat == [g \in GroupId |-> Cardinality({x \in view.messages : x.group = g})]
  <1> HIDE DEF view, mine, chat
  <1>1. Shown = [mine |-> mine, members |-> view.members, invited |-> view.invited,
                 pending |-> view.pending, joining |-> Joining, pins |-> view.pinned,
                 tasks |-> view.tasks, chat |-> chat, nextTask |-> next.task]
    BY DEF Shown, view, mine, chat
  <1> QED BY <1>1

(* What is shown after the step, as a record. *)
LEMMA ShownRecordNext ==
  Shown' = [mine |-> Shown'.mine, members |-> Shown'.members, invited |-> Shown'.invited,
            pending |-> Shown'.pending, joining |-> Shown'.joining, pins |-> Shown'.pins,
            tasks |-> Shown'.tasks, chat |-> Shown'.chat, nextTask |-> Shown'.nextTask]
  <1>1. (Shown = [mine |-> Shown.mine, members |-> Shown.members, invited |-> Shown.invited,
           pending |-> Shown.pending, joining |-> Shown.joining, pins |-> Shown.pins,
           tasks |-> Shown.tasks, chat |-> Shown.chat, nextTask |-> Shown.nextTask])'
    BY ShownRecord, PTL
  <1> QED BY <1>1

MyGroups == {g \in groups : <<g, Me>> \in members}

(* A step outside the groups of the user leaves what is shown. *)
LEMMA OutOfSight ==
  ASSUME Joining' = Joining, next'.task = next.task,
         \A g : (g \in groups' /\ <<g, Me>> \in members') <=> (g \in groups /\ <<g, Me>> \in members),
         \A g : (g \in groups' /\ <<g, Me>> \in invites') <=> (g \in groups /\ <<g, Me>> \in invites),
         \A g \in GroupId : <<g, Me>> \in pins' <=> <<g, Me>> \in pins,
         \A m : m[1] \in MyGroups => /\ m \in members' <=> m \in members
                                     /\ m \in invites' <=> m \in invites,
         \A t : t.group \in MyGroups => /\ t \in tasks' <=> t \in tasks
                                        /\ t \in messages' <=> t \in messages
  PROVE  Shown' = Shown
  <1> DEFINE s == Shown
             z == Shown'
  <1>1. /\ s.mine = MyGroups
        /\ s.members = {m \in members : m[1] \in MyGroups}
        /\ s.invited = {i \in invites : i[1] \in MyGroups}
        /\ s.pending = {g \in groups : <<g, Me>> \in invites}
        /\ s.joining = Joining
        /\ s.pins = {g \in GroupId : <<g, Me>> \in pins}
        /\ s.tasks = {t \in tasks : t.group \in MyGroups} /\ s.nextTask = next.task
        /\ \A g \in GroupId : s.chat[g] = ChatOf({m \in messages : m.group \in MyGroups}, g)
        /\ s.chat = [g \in GroupId |-> s.chat[g]]
    BY ShownIs, ShownChat DEF ShownRows, MyGroups
  <1>2. MyGroups' = MyGroups
    BY DEF MyGroups
  <1>3. /\ z.mine = MyGroups'
        /\ z.members = {m \in members' : m[1] \in MyGroups'}
        /\ z.invited = {i \in invites' : i[1] \in MyGroups'}
        /\ z.pending = {g \in groups' : <<g, Me>> \in invites'}
        /\ z.joining = Joining'
        /\ z.pins = {g \in GroupId : <<g, Me>> \in pins'}
        /\ z.tasks = {t \in tasks' : t.group \in MyGroups'} /\ z.nextTask = next'.task
        /\ \A g \in GroupId : z.chat[g] = ChatOf({m \in messages' : m.group \in MyGroups'}, g)
        /\ z.chat = [g \in GroupId |-> z.chat[g]]
    BY ShownIsNext, ShownChatNext DEF ShownRows, MyGroups
  <1> HIDE DEF s, z
  <1>4. {m \in members' : m[1] \in MyGroups'} = {m \in members : m[1] \in MyGroups}
    <2>1. {m \in members' : m[1] \in MyGroups} = {m \in members : m[1] \in MyGroups}
      OBVIOUS
    <2> QED BY <1>2, <2>1
  <1>5. {m \in invites' : m[1] \in MyGroups'} = {m \in invites : m[1] \in MyGroups}
    <2>1. {m \in invites' : m[1] \in MyGroups} = {m \in invites : m[1] \in MyGroups}
      OBVIOUS
    <2> QED BY <1>2, <2>1
  <1>6. {m \in tasks' : m.group \in MyGroups'} = {m \in tasks : m.group \in MyGroups}
    <2>1. {m \in tasks' : m.group \in MyGroups} = {m \in tasks : m.group \in MyGroups}
      OBVIOUS
    <2> QED BY <1>2, <2>1
  <1>7. {m \in messages' : m.group \in MyGroups'} = {m \in messages : m.group \in MyGroups}
    <2>1. {m \in messages' : m.group \in MyGroups} = {m \in messages : m.group \in MyGroups}
      OBVIOUS
    <2> QED BY <1>2, <2>1
  <1>8. {g \in groups' : <<g, Me>> \in invites'} = {g \in groups : <<g, Me>> \in invites}
    OBVIOUS
  <1>9. {g \in GroupId : <<g, Me>> \in pins'} = {g \in GroupId : <<g, Me>> \in pins}
    OBVIOUS
  <1>10. z.chat = s.chat
    <2> DEFINE rows == {m \in messages : m.group \in MyGroups}
    <2>1. \A g \in GroupId : z.chat[g] = ChatOf(rows, g)
      BY <1>3, <1>7
    <2>2. \A g \in GroupId : s.chat[g] = ChatOf(rows, g)
      BY <1>1
    <2> HIDE DEF rows
    <2>3. \A g \in GroupId : z.chat[g] = s.chat[g]
      BY ONLY <2>1, <2>2
    <2> QED BY <1>1, <1>3, <2>3
  <1>11. /\ z.mine = s.mine /\ z.members = s.members /\ z.invited = s.invited
         /\ z.pending = s.pending /\ z.joining = s.joining /\ z.pins = s.pins
         /\ z.tasks = s.tasks /\ z.nextTask = s.nextTask
    BY <1>1, <1>2, <1>3, <1>4, <1>5, <1>6, <1>8, <1>9
  <1> QED BY <1>10, <1>11, ShownRecord, ShownRecordNext DEF s, z

(* Who was removed from, or joins, a group the client does not see. *)
LEMMA RemoveMemberCopy ==
  ASSUME SyncInv, AllGood, BasesFit, TablesSound, NEW r \in Call, NEW a \in ReplyMail,
         Served(r, a), r.cmd = "removeMemberFromGroup",
         RemoveMemberFromGroup(r.group, r.user), UNCHANGED toClient,
         Me \notin UsersInGroupAfter(r.group) \cup {r.user}
  PROVE  AllGood' /\ BasesFit'
  <1>1. /\ job' = Idle /\ a.call = r
        /\ UNCHANGED <<groups, invites, pins, tasks, messages, next>>
        /\ members' = members \ {<<r.group, r.user>>}
    BY DEF RemoveMemberFromGroup, Without, Served
  <1>2. Joining' = {} /\ Joining = {}
    BY <1>1, ServedFacts
  <1>3. <<r.group, Me>> \notin members /\ <<r.group, Me>> \notin invites
    BY <1>1, MeIsUser DEF UsersInGroupAfter, UsersInGroup
  <1>4. Shown' = Shown
    <2>1. r.group \notin MyGroups
      BY <1>3 DEF MyGroups
    <2>2. \A m : m[1] \in MyGroups => (m \in members' <=> m \in members)
      BY <1>1, <2>1
    <2>3. \A g : <<g, Me>> \in members' <=> <<g, Me>> \in members
      BY <1>1
    <2> QED BY <1>1, <1>2, <2>2, <2>3, OutOfSight
  <1>5. r.group \notin Shown.mine \cup Shown.pending \cup Shown.joining
    BY <1>2, <1>3, ShownIs DEF ShownRows
  <1> DEFINE s == Shown
  <1>6. r.group \notin s.mine \cup s.pending \cup s.joining
    BY <1>5
  <1> HIDE DEF s
  <1>7. ASSUME NEW v, NEW R, NEW Q, NEW W, NEW X, v \in Local, Longer(R, Q, a),
                W \subseteq X \cup {r}, Fits(v, R, W, s)
         PROVE  Fits(v, Q, X, s)
    <2>1. r.cmd \in {"removeMemberFromGroup", "acceptInvite"}
      OBVIOUS
    <2>2. Fits(v, R, X, s)
      BY ONLY <1>6, <1>7, <2>1, AbsentGroupFits
    <2>3. a.call.cmd \in {"togglePinGroup", "deleteGroup", "removeMemberFromGroup",
                         "acceptInvite", "denyInvite"}
      BY <1>1
    <2> QED BY ONLY <1>7, <2>2, <2>3, NeutralFits
  <1>8. Answers(a, r)
    BY <1>4, <1>7 DEF Answers, s
  <1> QED BY <1>1, <1>8, QuietRoute

(* The first statement of a route of two: the request is still asked for. *)
LEMMA BegunCopy ==
  ASSUME SyncInv, AllGood, BasesFit, TablesSound, NEW r \in Call, NEW a \in ReplyMail,
         Served(r, a), job' # Idle, UNCHANGED toClient,
         \A v, R, X : r \in X /\ Fits(v, R, X, Shown) => Fits(v, R, X, Shown')
  PROVE  AllGood' /\ BasesFit'
  <1>1. /\ Coming = <<>> /\ Window = {} /\ Asked = Calls(toServer') \cup {r}
        /\ (\A i \in DOMAIN toClient' : Good(toClient'[i])) => AllGood'
        /\ UNCHANGED toClient => \A i \in DOMAIN toClient' : Good(toClient'[i])
    BY ServedFacts
  <1>2. Coming' = <<>> /\ Window' = {r} /\ Asked' = Asked
    BY ServedFacts
  <1>3. local' = local /\ toClient' = toClient
    BY DEF Served
  <1>4. ASSUME NEW v, NEW R, NEW X, Base(toClient, <<>>, local, Asked, {r}, v, R, X)
        PROVE  Fits(v, R, X, Shown')
    <2>1. \/ Base(toClient, <<>>, local, Asked, {}, v, R, Asked) /\ X = Asked
          \/ Base(toClient, <<>>, local, Asked, {}, v, R, {}) /\ X = {r}
      BY <1>4 DEF Base
    <2>2. CASE Base(toClient, <<>>, local, Asked, {}, v, R, Asked) /\ X = Asked
      <3>1. Fits(v, R, Asked, Shown)
        BY <1>1, <2>2, BaseFits
      <3> QED BY <1>1, <2>2, <3>1
    <2>3. CASE Base(toClient, <<>>, local, Asked, {}, v, R, {}) /\ X = {r}
      <3>1. Fits(v, R, {}, Shown)
        BY <1>1, <2>3, BaseFits
      <3>2. Fits(v, R, {r}, Shown)
        BY <3>1, FitsMore
      <3> QED BY <2>3, <3>2
    <2> QED BY <2>1, <2>2, <2>3
  <1>5. BasesFit'
    BY <1>2, <1>3, <1>4 DEF BasesFit
  <1> QED BY <1>1, <1>5

(* The first statement of createGroup makes a group nobody is in yet. *)
LEMMA CreateGroupCopy ==
  ASSUME SyncInv, AllGood, BasesFit, TablesSound, NEW r \in Call, NEW a \in ReplyMail,
         Served(r, a), CreateGroup(Me), Quietly
  PROVE  AllGood' /\ BasesFit'
  <1>1. /\ UNCHANGED <<members, invites, pins, tasks, messages, toClient>>
        /\ groups' = groups \cup {next.group} /\ next' = [next EXCEPT !.group = @ + 1]
        /\ job'.pc = "creatorMember" /\ job' # Idle
    BY DEF CreateGroup, InsertGroup, Quietly, PushIf, Idle
  <1>2. Joining' = {} /\ Joining = {}
    <2>1. Joining' = {}
      BY <1>1 DEF Joining
    <2> QED BY <2>1, ServedFacts
  <1>3. next.group \notin groups /\ members \cup invites \subseteq groups \X UserIds
    <2>1. next.group \in Int
      BY DEF SyncInv, SyncTypeOK, TypeOK, Sequence
    <2>2. \A g \in groups : g < next.group
      BY DEF TablesSound, IdsBelowNext
    <2> QED BY <2>1, <2>2 DEF TablesSound, NoDanglingRows
  <1>4. next'.task = next.task
    BY <1>1 DEF SyncInv, SyncTypeOK, TypeOK, Sequence
  <1>5. Shown' = Shown
    <2>1. \A g, t : t = members \/ t = invites =>
             ((g \in groups' /\ <<g, Me>> \in t) <=> (g \in groups /\ <<g, Me>> \in t))
      BY <1>1, <1>3
    <2>2. \A g : (g \in groups' /\ <<g, Me>> \in members') <=> (g \in groups /\ <<g, Me>> \in members)
      BY <1>1, <2>1
    <2>3. \A g : (g \in groups' /\ <<g, Me>> \in invites') <=> (g \in groups /\ <<g, Me>> \in invites)
      BY <1>1, <2>1
    <2> QED BY <1>1, <1>2, <1>4, <2>2, <2>3, OutOfSight
  <1> QED BY <1>1, <1>5, BegunCopy

(* The first statement of acceptInvite takes the invitation; the member is still to
   come. *)
LEMMA AcceptInviteCopy ==
  ASSUME SyncInv, AllGood, BasesFit, TablesSound, NEW r \in Call, NEW a \in ReplyMail,
         Served(r, a), r.cmd = "acceptInvite", AcceptInvite(r.group, Me), Quietly
  PROVE  AllGood' /\ BasesFit'
  <1> DEFINE begun == [pc |-> "acceptMember", user |-> Me, group |-> r.group]
  <1>1. /\ UNCHANGED <<groups, members, pins, tasks, messages, next, toClient>>
        /\ invites' = invites \ {<<r.group, Me>>} /\ job' = begun /\ answer' # <<>>
    BY DEF AcceptInvite, Without, Quietly, PushIf, Served
  <1>2. job' # Idle
    BY <1>1 DEF Idle
  <1>3. Joining = {} /\ Joining' = {g \in groups : g = r.group}
    <2>1. \A g : begun = [pc |-> "acceptMember", user |-> Me, group |-> g] <=> g = r.group
      <3>1. \A g : [pc |-> "acceptMember", user |-> Me, group |-> g].group = g
        OBVIOUS
      <3> QED BY <3>1
    <2>2. Joining' = {g \in groups' : answer' # <<>> /\
                                       job' = [pc |-> "acceptMember", user |-> Me, group |-> g]}
      BY DEF Joining
    <2> HIDE DEF begun
    <2>3. Joining' = {g \in groups : g = r.group}
      BY <1>1, <2>1, <2>2
    <2> QED BY <2>3, ServedFacts
  <1> HIDE DEF begun
  <1> DEFINE s == Shown
             z == Shown'
  <1>4. /\ s.mine = {g \in groups : <<g, Me>> \in members}
        /\ s.members = {m \in members : m[1] \in s.mine}
        /\ s.invited = {i \in invites : i[1] \in s.mine}
        /\ s.pending = {g \in groups : <<g, Me>> \in invites}
        /\ s.joining = {}
        /\ s.pins = {g \in GroupId : <<g, Me>> \in pins}
        /\ s.tasks = {t \in tasks : t.group \in s.mine} /\ s.nextTask = next.task
        /\ \A g \in GroupId : s.chat[g] = ChatOf({m \in messages : m.group \in s.mine}, g)
        /\ s.chat = [g \in GroupId |-> s.chat[g]]
    BY <1>3, ShownIs, ShownChat DEF ShownRows
  <1>5. /\ z.mine = {g \in groups : <<g, Me>> \in members}
        /\ z.members = {m \in members : m[1] \in z.mine}
        /\ z.invited = {i \in invites' : i[1] \in z.mine}
        /\ z.pending = {g \in groups : <<g, Me>> \in invites'}
        /\ z.joining = {g \in groups : g = r.group}
        /\ z.pins = {g \in GroupId : <<g, Me>> \in pins}
        /\ z.tasks = {t \in tasks : t.group \in z.mine} /\ z.nextTask = next.task
        /\ \A g \in GroupId : z.chat[g] = ChatOf({m \in messages : m.group \in z.mine}, g)
        /\ z.chat = [g \in GroupId |-> z.chat[g]]
    BY <1>1, <1>3, ShownIsNext, ShownChatNext DEF ShownRows
  <1> HIDE DEF s, z
  <1>6. /\ z.mine = s.mine /\ z.members = s.members /\ z.pins = s.pins /\ z.chat = s.chat
        /\ z.tasks = s.tasks /\ z.nextTask = s.nextTask
    <2>1. z.mine = s.mine
      BY <1>4, <1>5
    <2>2. z.members = s.members
      <3>1. z.members = {m \in members : m[1] \in s.mine}
        BY <1>5, <2>1
      <3> QED BY <1>4, <3>1
    <2>3. z.tasks = s.tasks
      <3>1. z.tasks = {t \in tasks : t.group \in s.mine}
        BY <1>5, <2>1
      <3> QED BY <1>4, <3>1
    <2>5. z.chat = s.chat
      <3> DEFINE rows == {m \in messages : m.group \in s.mine}
      <3>1. \A g \in GroupId : z.chat[g] = ChatOf(rows, g)
        <4>1. {m \in messages : m.group \in z.mine} = rows
          BY <2>1
        <4> QED BY <1>5, <4>1
      <3>2. \A g \in GroupId : s.chat[g] = ChatOf(rows, g)
        BY <1>4
      <3> HIDE DEF rows
      <3>3. \A g \in GroupId : z.chat[g] = s.chat[g]
        BY ONLY <3>1, <3>2
      <3> QED BY <1>4, <1>5, <3>3
    <2> QED BY <1>4, <1>5, <2>1, <2>2, <2>3, <2>5
  <1>7. /\ z.pending = s.pending \ {r.group}
        /\ s.pending \cup s.joining \subseteq z.pending \cup z.joining
    <2>1. \A g : <<g, Me>> \in invites' <=> <<g, Me>> \in invites /\ g # r.group
      BY <1>1
    <2>2. z.pending = s.pending \ {r.group}
      BY <1>4, <1>5, <2>1
    <2> QED BY <1>4, <1>5, <2>2
  <1>8. \A g \in s.mine, u \in UserId :
           g = r.group \/ (<<g, u>> \in z.invited <=> <<g, u>> \in s.invited)
    <2>1. \A g \in s.mine : \A u : /\ <<g, u>> \in z.invited <=> <<g, u>> \in invites'
                                   /\ <<g, u>> \in s.invited <=> <<g, u>> \in invites
      BY <1>4, <1>5, <1>6
    <2>2. \A g, u : g = r.group \/ (<<g, u>> \in invites' <=> <<g, u>> \in invites)
      BY <1>1
    <2> QED BY <2>1, <2>2
  <1>9. ASSUME NEW v, NEW R, NEW X, r \in X, Fits(v, R, X, s)
        PROVE  Fits(v, R, X, z)
    BY ONLY <1>6, <1>7, <1>8, <1>9, r.cmd = "acceptInvite", InvitationTakenFits
  <1>10. \A v, R, X : r \in X /\ Fits(v, R, X, Shown) => Fits(v, R, X, Shown')
    BY <1>9 DEF s, z
  <1> QED BY <1>1, <1>2, <1>10, BegunCopy

(* Every route, as Route lists them. *)
LEMMA RouteCopy ==
  ASSUME SyncInv, SyncInv', AllGood, BasesFit, TablesSound, TablesSound', CallsIssued,
         NEW r \in Call, NEW a \in ReplyMail, Served(r, a)
  PROVE  AllGood' /\ BasesFit'
  <1> DEFINE g == r.group
             u == r.user
  <1>0. signedIn /\ Route(r) /\ ~Outsider(r) /\ job = Idle
    BY DEF Served
  <1>1. /\ PushIf(TRUE) => toClient' = Append(toClient, Loaded(View(Me)'))
        /\ PushIf(FALSE) => toClient' = toClient
    BY <1>0 DEF PushIf
  <1>2. CASE r.cmd = "togglePinGroup" /\ TogglePinGroup(g, Me) /\ PushIf(TRUE)
    <2>1. job' = Idle
      BY <1>0, <1>2 DEF TogglePinGroup
    <2>2. r.cmd \in {"togglePinGroup", "deleteGroup", "removeMemberFromGroup",
                  "acceptInvite", "denyInvite"}
      BY <1>2
    <2>3. toClient' = Append(toClient, Loaded(View(Me)'))
      BY <1>1, <1>2
    <2> QED BY <2>1, <2>2, <2>3, PushRoute
  <1>3. CASE r.cmd = "deleteGroup" /\ DeleteGroup(g) /\ PushIf(Me \in UsersInGroup(g))
    <2>1. job' = Idle
      BY <1>0, <1>3 DEF DeleteGroup
    <2>2. Me \in UsersInGroup(g)
      BY <1>0, <1>3, MeIsUser DEF UsersInGroup, Outsider
    <2>3. toClient' = Append(toClient, Loaded(View(Me)'))
      BY <1>0, <1>3, <2>2 DEF PushIf
    <2>4. r.cmd \in {"togglePinGroup", "deleteGroup", "removeMemberFromGroup",
                  "acceptInvite", "denyInvite"}
      BY <1>3
    <2> QED BY <2>1, <2>3, <2>4, PushRoute
  <1>4. CASE r.cmd = "deleteTask" /\ DeleteTask(r.task) /\ Quietly
    BY <1>4, DeleteTaskCopy
  <1>5. CASE \/ r.cmd = "toggleTaskCompletion" /\ ToggleTaskCompletion(r.task, r.body) /\ Quietly
             \/ r.cmd = "editTask" /\ EditTask(r.task, r.body) /\ Quietly
    BY <1>5, ColumnCopy
  <1>6. CASE /\ r.cmd = "removeMemberFromGroup" /\ RemoveMemberFromGroup(g, u)
             /\ PushIf(Me \in UsersInGroupAfter(g) \cup {u})
    <2>1. job' = Idle
      BY <1>0, <1>6 DEF RemoveMemberFromGroup
    <2>2. CASE Me \in UsersInGroupAfter(g) \cup {u}
      <3>1. toClient' = Append(toClient, Loaded(View(Me)'))
        BY <1>0, <1>6, <2>2 DEF PushIf
      <3>2. r.cmd \in {"togglePinGroup", "deleteGroup", "removeMemberFromGroup",
                  "acceptInvite", "denyInvite"}
        BY <1>6
      <3> QED BY <2>1, <3>1, <3>2, PushRoute
    <2>3. CASE Me \notin UsersInGroupAfter(g) \cup {u}
      <3>1. toClient' = toClient
        BY <1>6, <2>3 DEF PushIf
      <3> QED BY <1>6, <2>3, <3>1, RemoveMemberCopy
    <2> QED BY <2>2, <2>3
  <1>7. CASE \/ r.cmd = "cancelInvite" /\ CancelInvite(g, u) /\ PushIf(u = Me)
             \/ r.cmd = "inviteMemberToGroup" /\ InviteMemberToGroup(g, u) /\ PushIf(u = Me)
    <2>1. job' = Idle
      BY <1>0, <1>7 DEF CancelInvite, InviteMemberToGroup
    <2>2. CASE u = Me
      <3>1. toClient' = Append(toClient, Loaded(View(Me)'))
        BY <1>0, <1>7, <2>2 DEF PushIf
      <3>2. r.cmd \in {"cancelInvite", "inviteMemberToGroup"} /\ r.user = Me
        BY <1>7, <2>2
      <3> QED BY <2>1, <3>1, <3>2, PushRoute
    <2>3. CASE u # Me
      <3>1. toClient' = toClient
        BY <1>7, <2>3 DEF PushIf
      <3> QED BY <1>7, <2>3, <3>1, InviteCopy
    <2> QED BY <2>2, <2>3
  <1>8. CASE r.cmd = "denyInvite" /\ CancelInvite(g, Me) /\ PushIf(TRUE)
    <2>1. job' = Idle
      BY <1>0, <1>8 DEF CancelInvite
    <2>2. r.cmd \in {"togglePinGroup", "deleteGroup", "removeMemberFromGroup",
                  "acceptInvite", "denyInvite"}
      BY <1>8
    <2>3. toClient' = Append(toClient, Loaded(View(Me)'))
      BY <1>1, <1>8
    <2> QED BY <2>1, <2>2, <2>3, PushRoute
  <1>9. CASE r.cmd = "acceptInvite" /\ AcceptInvite(g, Me) /\ Quietly
    BY <1>9, AcceptInviteCopy
  <1>10. CASE r.cmd = "createGroup" /\ CreateGroup(Me) /\ Quietly
    BY <1>10, CreateGroupCopy
  <1>11. CASE /\ r.cmd = "createTask" /\ Quietly
              /\ CreateTask(g, Me, [r.body EXCEPT !.done = FALSE])
    BY <1>11, CreateTaskCopy
  <1>12. CASE r.cmd = "sendMessage" /\ SendMessage(g, Me) /\ Quietly
    BY <1>12, SendMessageCopy
  <1> HIDE DEF g, u
  <1>13. \/ r.cmd = "togglePinGroup" /\ TogglePinGroup(g, Me) /\ PushIf(TRUE)
         \/ r.cmd = "deleteGroup" /\ DeleteGroup(g) /\ PushIf(Me \in UsersInGroup(g))
         \/ r.cmd = "deleteTask" /\ DeleteTask(r.task) /\ Quietly
         \/ r.cmd = "toggleTaskCompletion" /\ ToggleTaskCompletion(r.task, r.body) /\ Quietly
         \/ r.cmd = "editTask" /\ EditTask(r.task, r.body) /\ Quietly
         \/ /\ r.cmd = "removeMemberFromGroup" /\ RemoveMemberFromGroup(g, u)
            /\ PushIf(Me \in UsersInGroupAfter(g) \cup {u})
         \/ r.cmd = "cancelInvite" /\ CancelInvite(g, u) /\ PushIf(u = Me)
         \/ r.cmd = "denyInvite" /\ CancelInvite(g, Me) /\ PushIf(TRUE)
         \/ r.cmd = "acceptInvite" /\ AcceptInvite(g, Me) /\ Quietly
         \/ r.cmd = "createGroup" /\ CreateGroup(Me) /\ Quietly
         \/ /\ r.cmd = "createTask" /\ Quietly
            /\ CreateTask(g, Me, [r.body EXCEPT !.done = FALSE])
         \/ r.cmd = "sendMessage" /\ SendMessage(g, Me) /\ Quietly
         \/ r.cmd = "inviteMemberToGroup" /\ InviteMemberToGroup(g, u) /\ PushIf(u = Me)
    BY <1>0 DEF Route, g, u
  <1>14. CASE r.cmd \in {"togglePinGroup", "deleteGroup", "deleteTask",
                         "toggleTaskCompletion", "editTask"}
    BY ONLY <1>2, <1>3, <1>4, <1>5, <1>13, <1>14
  <1>15. CASE r.cmd \in {"removeMemberFromGroup", "cancelInvite", "denyInvite", "acceptInvite"}
    BY ONLY <1>6, <1>7, <1>8, <1>9, <1>13, <1>15
  <1>16. CASE r.cmd \in {"createGroup", "createTask", "sendMessage", "inviteMemberToGroup"}
    BY ONLY <1>7, <1>10, <1>11, <1>12, <1>13, <1>16
  <1> QED BY ONLY <1>13, <1>14, <1>15, <1>16

(* A request served, by its command. *)
LEMMA ServeCopy ==
  ASSUME SyncInv, SyncInv', AllGood, BasesFit, TablesSound, TablesSound', CallsIssued,
         Serve, signedIn, sure'
  PROVE  AllGood' /\ BasesFit'
  BY ServeFacts, RouteCopy

----------------------------------------------------------------------------
(* The server's steps: what others do, when the client does not see it *)

(* Ids that are handed out to others do not matter. *)
LEMMA LaterFits ==
  ASSUME NEW s, NEW z, SameGroupTables(s, z), z.tasks = s.tasks,
         s.nextTask \in Nat, z.nextTask \in Nat, s.nextTask <= z.nextTask,
         NEW v \in Local, NEW R, NEW W, Fits(v, R, W, s)
  PROVE  Fits(v, R, W, z)
  <1>1. /\ GroupParts(v, R, W, s) /\ TasksFit(v, R, W, s) /\ MadeTasksFit(v, R, W, s)
        /\ DoneFits(v, R, W, s) /\ TextFits(v, R, W, s)
    BY PartsOfFits DEF TaskSide
  <1>2. GroupParts(v, R, W, z)
    <2>1. /\ GroupsFit(v, R, W, s) /\ MembersFit(v, R, W, s) /\ InvitedFit(v, R, W, s)
          /\ ChatFits(v, R, W, s) /\ MadeFits(v, R, W, s)
          /\ PendingFits(v, R, W, s) /\ PinsFit(v, R, W, s)
      BY <1>1 DEF GroupParts, GroupSide
    <2>2. GroupsFit(v, R, W, z) /\ MembersFit(v, R, W, z) /\ ChatFits(v, R, W, z)
      BY <2>1 DEF SameGroupTables, GroupsFit, MembersFit, ChatFits
    <2>3. InvitedFit(v, R, W, z)
      BY <2>1 DEF SameGroupTables, InvitedFit, InvitationFits
    <2>4. MadeFits(v, R, W, z)
      BY <2>1 DEF SameGroupTables, MadeFits
    <2>5. PendingFits(v, R, W, z) /\ PinsFit(v, R, W, z)
      BY <2>1 DEF SameGroupTables, PendingFits, PinsFit
    <2> QED BY <2>2, <2>3, <2>4, <2>5 DEF GroupParts, GroupSide
  <1>3. TasksFit(v, R, W, z)
    <2>1. \A i \in DOMAIN v.tasks : v.tasks[i].id \in Nat
      <3>1. v.tasks \in Seq(TaskRow)
        BY DEF Local
      <3>2. \A i \in DOMAIN v.tasks : v.tasks[i] \in TaskRow
        BY <3>1
      <3> QED BY <3>2 DEF TaskRow, TaskId
    <2>2. \A i \in DOMAIN v.tasks : v.tasks[i].id < z.nextTask
      BY <1>1, <2>1 DEF TasksFit
    <2> QED BY <1>1, <2>2 DEF TasksFit
  <1>4. MadeTasksFit(v, R, W, z)
    <2>1. \A t \in TaskId : t < s.nextTask => t < z.nextTask
      BY DEF TaskId
    <2> QED BY <1>1, <2>1 DEF MadeTasksFit
  <1>5. DoneFits(v, R, W, z) /\ TextFits(v, R, W, z)
    BY <1>1 DEF DoneFits, TextFits
  <1> QED BY <1>2, <1>3, <1>4, <1>5, PartsOfFits DEF TaskSide

ShownOfView ==
  /\ Shown.members = View(Me).members /\ Shown.invited = View(Me).invited
  /\ Shown.pending = View(Me).pending /\ Shown.pins = View(Me).pinned
  /\ Shown.tasks = View(Me).tasks /\ Shown.joining = Joining /\ Shown.nextTask = next.task
  /\ Shown.chat = [g \in GroupId |-> ChatOf(View(Me).messages, g)]

(* What is shown, by the payload of the moment. *)
LEMMA ShownIsView == ShownOfView
  <1> DEFINE view == View(Me)
             mine == {g \in groups : <<g, Me>> \in members}
             chat == [g \in GroupId |-> ChatOf(view.messages, g)]
  <1>1. Shown = [mine |-> mine, members |-> view.members, invited |-> view.invited,
                 pending |-> view.pending, joining |-> Joining, pins |-> view.pinned,
                 tasks |-> view.tasks, chat |-> chat, nextTask |-> next.task]
    BY DEF Shown, ChatOf
  <1> HIDE DEF view, mine, chat
  <1>2. /\ Shown.members = view.members /\ Shown.invited = view.invited
        /\ Shown.pending = view.pending /\ Shown.pins = view.pinned
        /\ Shown.tasks = view.tasks /\ Shown.joining = Joining /\ Shown.nextTask = next.task
        /\ Shown.chat = chat
    BY <1>1
  <1> QED BY <1>2 DEF ShownOfView, view, chat

(* The same in the next state. *)
LEMMA ShownIsViewNext == ShownOfView'
  BY ShownIsView, PTL

(* A step that leaves the user's view leaves what is shown. *)
LEMMA SameViewShown ==
  ASSUME SyncInv, SyncInv', View(Me)' = View(Me), Joining' = Joining
  PROVE  /\ SameGroupTables(Shown, Shown') /\ Shown'.tasks = Shown.tasks
         /\ Shown.nextTask = next.task /\ Shown'.nextTask = next'.task
         /\ next.task \in Nat /\ next'.task \in Nat
  <1> DEFINE s == Shown
             z == Shown'
             view == View(Me)
             chat == [g \in GroupId |-> ChatOf(view.messages, g)]
  <1>1. /\ s.members = view.members /\ s.invited = view.invited
        /\ s.pending = view.pending /\ s.pins = view.pinned
        /\ s.tasks = view.tasks /\ s.joining = Joining /\ s.nextTask = next.task
        /\ s.chat = chat
    BY ShownIsView DEF ShownOfView
  <1>2. /\ z.members = view.members /\ z.invited = view.invited
        /\ z.pending = view.pending /\ z.pins = view.pinned
        /\ z.tasks = view.tasks /\ z.joining = Joining /\ z.nextTask = next'.task
        /\ z.chat = chat
    BY ShownIsViewNext DEF ShownOfView
  <1>3. s.mine = {m[1] : m \in view.members}
    BY ShownReads DEF ShownFine, Tells, SyncInv, SyncTypeOK
  <1>4. z.mine = {m[1] : m \in view.members}
    BY ShownReadsNext DEF ShownFine, Tells, SyncInv, SyncTypeOK
  <1>5. next.task \in Nat /\ next'.task \in Nat
    <2>1. next \in Sequence /\ next' \in Sequence
      BY DEF SyncInv, SyncTypeOK, TypeOK
    <2> QED BY <2>1, BoundsAssumption DEF Sequence
  <1> HIDE DEF s, z, view, chat
  <1>6. SameGroupTables(s, z) /\ z.tasks = s.tasks
    BY <1>1, <1>2, <1>3, <1>4 DEF SameGroupTables
  <1> QED BY <1>1, <1>2, <1>5, <1>6 DEF s, z

(* A step that leaves the user's view leaves how the copy fits, whether it pushes or
   not. *)
LEMMA UnseenCopy ==
  ASSUME SyncInv, SyncInv', TablesSound', AllGood, BasesFit, answer = <<>>,
         UNCHANGED <<toServer, answer, local>>, next'.task >= next.task,
         View(Me)' = View(Me), MaybePushed
  PROVE  AllGood' /\ BasesFit'
  <1>1. /\ Coming = <<>> /\ Coming' = <<>> /\ Window = {} /\ Window' = {}
        /\ Joining = {} /\ Joining' = {} /\ DOMAIN answer' = {}
    <2>1. DOMAIN answer = {} /\ DOMAIN answer' = {} /\ answer' = <<>>
      OBVIOUS
    <2> QED BY <2>1 DEF Coming, Window, Joining
  <1>2. Asked' = Asked
    BY <1>1, AskedIs, AskedIsNext
  <1> DEFINE s == Shown
             z == Shown'
  <1>3. /\ SameGroupTables(s, z) /\ z.tasks = s.tasks
        /\ s.nextTask \in Nat /\ z.nextTask \in Nat /\ s.nextTask <= z.nextTask
    BY <1>1, SameViewShown
  <1> HIDE DEF s, z
  <1>4. CASE toClient' = toClient
    <2>1. ASSUME NEW v, NEW R, NEW X, Base(toClient, Coming, local, Asked, Window, v, R, X)
          PROVE  Fits(v, R, X, Shown')
      <3>1. v \in Local
        BY <2>1, MailTypes, BaseTypes
      <3>2. Fits(v, R, X, s)
        BY <2>1, BaseFits DEF s
      <3>3. Fits(v, R, X, z)
        BY ONLY <1>3, <3>1, <3>2, LaterFits
      <3> QED BY <3>3 DEF z
    <2>2. BasesFit'
      BY <1>1, <1>2, <1>4, <2>1 DEF BasesFit
    <2> QED BY <1>4, <2>2 DEF AllGood
  <1>5. CASE toClient' = Append(toClient, Loaded(View(Me)'))
    <2>1. BasesFit' /\ \A i \in DOMAIN toClient' : Good(toClient'[i])
      BY <1>1, <1>5, PushedFits DEF AllGood
    <2> QED BY <1>1, <2>1 DEF AllGood
  <1> QED BY <1>4, <1>5 DEF MaybePushed

(* A request of another client that leaves the user's view. *)
LEMMA OthersCopy ==
  ASSUME SyncInv, SyncInv', TablesSound', AllGood, BasesFit, OthersWrite, sure',
         next'.task >= next.task
  PROVE  AllGood' /\ BasesFit'
  <1>1. /\ answer = <<>> /\ View(Me)' = View(Me)
        /\ UNCHANGED <<toServer, answer, local>>
    BY DEF OthersWrite, client
  <1>2. MaybePushed
    BY PushIsAppend DEF OthersWrite
  <1> QED BY <1>1, <1>2, UnseenCopy

----------------------------------------------------------------------------
(* The server's steps: the last statement of a route of two *)

Concluded(r, a) ==
  /\ answer = <<a>> /\ answer' = answer /\ a.call = r
  /\ job # Idle /\ job' = Idle
  /\ UNCHANGED <<local, toServer, signedIn>>

(* Where the answer is when the second statement is done. *)
LEMMA ConcludedFacts ==
  ASSUME SyncInv, AllGood, NEW r \in Call, NEW a \in ReplyMail, Concluded(r, a)
  PROVE  /\ Coming = <<>> /\ Coming' = <<a>> /\ Window' = {} /\ Joining' = {} /\ a \in Mails
         /\ Asked \subseteq Asked' \cup {r} /\ Window \subseteq Window' \cup {r}
         /\ (\A i \in DOMAIN toClient' : Good(toClient'[i])) => AllGood'
         /\ UNCHANGED toClient => \A i \in DOMAIN toClient' : Good(toClient'[i])
  <1>0. /\ answer = <<a>> /\ answer' = answer /\ a.call = r /\ job # Idle /\ job' = Idle
        /\ UNCHANGED <<local, toServer>>
    BY DEF Concluded
  <1>1. DOMAIN answer = {1} /\ answer[1] = a
    BY <1>0
  <1>2. Coming = <<>> /\ Coming' = <<a>> /\ Window' = {} /\ Joining' = {}
    BY <1>0 DEF Coming, Window, Joining, Idle
  <1>3. Window = {r}
    BY <1>0, <1>1 DEF Window
  <1>4. Asked \subseteq Asked' \cup {r}
    BY <1>0, <1>2, <1>3, AskedIs, AskedIsNext
  <1>5. a \in Mails
    BY DEF Mails
  <1>6. (\A i \in DOMAIN toClient' : Good(toClient'[i])) => AllGood'
    BY <1>0 DEF AllGood
  <1>7. UNCHANGED toClient => \A i \in DOMAIN toClient' : Good(toClient'[i])
    BY DEF AllGood
  <1> QED BY <1>2, <1>3, <1>4, <1>5, <1>6, <1>7

(* The second statement of createGroup: the group is shown, and its reply tells of it. *)
LEMMA GroupMadeCopy ==
  ASSUME SyncInv, AllGood, BasesFit, TablesSound, NEW r \in Call, NEW a \in ReplyMail,
         Concluded(r, a), r.cmd = "createGroup", Creates, CreatorMember, UNCHANGED toClient
  PROVE  AllGood' /\ BasesFit'
  <1> DEFINE g == job.group
             s == Shown
             z == Shown'
  <1>1. /\ job.user = Me /\ a.id = g /\ g \in groups /\ job.pc = "creatorMember"
        /\ \A m \in members \cup invites : m[1] # g
        /\ \A x \in tasks \cup messages : x.group # g
        /\ \A i \in DOMAIN toClient : IsReply(toClient[i]) =>
              toClient[i].call.group # g /\ ~MakesGroup(toClient[i], g)
    <2>1. answer[1] = a
      BY DEF Concluded
    <2>2. job = [pc |-> "creatorMember", user |-> Me, group |-> a.id]
      BY <2>1 DEF Creates
    <2> QED BY <2>2 DEF Creates
  <1>2. g \in GroupId
    BY <1>1 DEF SyncInv, SyncTypeOK, TypeOK
  <1>3. /\ members' = members \cup {<<g, Me>>}
        /\ UNCHANGED <<groups, invites, pins, tasks, messages, next>>
    <2>1. <<g, Me>> \in groups \X UserIds
      BY <1>1 DEF TablesSound
    <2> QED BY <1>1, <2>1 DEF CreatorMember, Linked
  <1>4. Joining = {} /\ Joining' = {}
    <2>1. Joining = {}
      BY <1>1 DEF Joining
    <2> QED BY <2>1, ConcludedFacts
  <1>5. /\ s.mine = {h \in groups : <<h, Me>> \in members}
        /\ s.members = {m \in members : m[1] \in s.mine}
        /\ s.invited = {i \in invites : i[1] \in s.mine}
        /\ s.pending = {h \in groups : <<h, Me>> \in invites}
        /\ s.joining = {}
        /\ s.pins = {h \in GroupId : <<h, Me>> \in pins}
        /\ s.tasks = {t \in tasks : t.group \in s.mine} /\ s.nextTask = next.task
        /\ \A h \in GroupId : s.chat[h] = ChatOf({m \in messages : m.group \in s.mine}, h)
    BY <1>4, ShownIs DEF ShownRows
  <1>6. /\ z.mine = {h \in groups : <<h, Me>> \in members'}
        /\ z.members = {m \in members' : m[1] \in z.mine}
        /\ z.invited = {i \in invites : i[1] \in z.mine}
        /\ z.pending = {h \in groups : <<h, Me>> \in invites}
        /\ z.joining = {}
        /\ z.pins = {h \in GroupId : <<h, Me>> \in pins}
        /\ z.tasks = {t \in tasks : t.group \in z.mine} /\ z.nextTask = next.task
        /\ \A h \in GroupId : z.chat[h] = ChatOf({m \in messages : m.group \in z.mine}, h)
    BY <1>3, <1>4, ShownIsNext DEF ShownRows
  <1>7. groups \subseteq GroupId
    BY DEF SyncInv, SyncTypeOK, TypeOK
  <1> HIDE DEF s, z, g
  <1>8. z.mine = s.mine \cup {g} /\ s.mine \subseteq GroupId /\ g \notin s.mine
    <2>1. \A h : <<h, Me>> \in members' <=> <<h, Me>> \in members \/ h = g
      BY <1>3
    <2>2. <<g, Me>>[1] = g
      OBVIOUS
    <2> QED BY <1>1, <1>5, <1>6, <1>7, <2>1, <2>2
  <1>9. z.members = s.members \cup {<<g, Me>>}
    <2>1. z.members = {m \in members' : m[1] \in s.mine \cup {g}}
      BY <1>6, <1>8
    <2>2. \A m : m \in members' <=> m \in members \/ m = <<g, Me>>
      BY <1>3
    <2>3. <<g, Me>>[1] = g
      OBVIOUS
    <2>4. \A m \in members : m[1] # g
      BY <1>1
    <2> QED BY <1>5, <2>1, <2>2, <2>3, <2>4
  <1>10. z.invited = s.invited /\ z.tasks = s.tasks
    <2>1. z.invited = {i \in invites : i[1] \in s.mine \cup {g}}
      BY <1>6, <1>8
    <2>2. z.invited = s.invited
      BY <1>1, <1>5, <2>1
    <2>3. z.tasks = {t \in tasks : t.group \in s.mine \cup {g}}
      BY <1>6, <1>8
    <2>4. z.tasks = s.tasks
      BY <1>1, <1>5, <2>3
    <2> QED BY <2>2, <2>4
  <1>11. /\ z.pending = s.pending /\ z.joining = s.joining /\ z.pins = s.pins
         /\ z.nextTask = s.nextTask
    BY <1>5, <1>6
  <1>12. (\A h \in s.mine : z.chat[h] = s.chat[h]) /\ z.chat[g] = 0
    <2> DEFINE rows == {m \in messages : m.group \in s.mine}
    <2>1. {m \in messages : m.group \in z.mine} = rows
      BY <1>1, <1>8
    <2>2. \A h \in GroupId : z.chat[h] = ChatOf(rows, h)
      BY <1>6, <2>1
    <2>3. \A h \in GroupId : s.chat[h] = ChatOf(rows, h)
      BY <1>5
    <2>4. {x \in rows : x.group = g} = {}
      BY <1>8
    <2>5. ChatOf(rows, g) = 0
      BY <2>4, FS_EmptySet DEF ChatOf
    <2> HIDE DEF rows
    <2> QED BY <1>2, <1>8, <2>2, <2>3, <2>5
  <1>13. /\ g \notin s.mine \cup s.pending \cup s.joining
         /\ \A u \in UserId : <<g, u>> \notin s.members /\ <<g, u>> \notin s.invited
    <2>1. \A u : <<g, u>> \notin members /\ <<g, u>> \notin invites
      <3>1. \A u : <<g, u>>[1] = g
        OBVIOUS
      <3> QED BY <1>1, <3>1
    <2> QED BY <1>5, <1>8, <2>1
  <1>14. \A R : Arriving(R) => \A k \in DOMAIN R : R[k].call.group # g /\ ~MakesGroup(R[k], g)
    BY <1>1 DEF Arriving
  <1>15. a.call = r
    BY DEF Concluded
  <1>16. ASSUME NEW v, NEW R, NEW Q, NEW W, NEW X, v \in Local, Arriving(R), Longer(R, Q, a),
                W \subseteq X \cup {r}, Fits(v, R, W, s)
         PROVE  Fits(v, Q, X, z)
    <2>1. \A k \in DOMAIN R : R[k].call.group # g /\ ~MakesGroup(R[k], g)
      BY <1>14, <1>16
    <2>2. a.id = g
      BY <1>1
    <2> QED BY ONLY <1>2, <1>8, <1>9, <1>10, <1>11, <1>12, <1>13, <1>15, <1>16, <2>1, <2>2,
                    r.cmd = "createGroup", GroupAddedFits
  <1>17. Answers(a, r)
    BY <1>16 DEF Answers, s, z
  <1>18. local' = local /\ toClient' = toClient
    BY DEF Concluded
  <1>19. BasesFit'
    BY <1>17, <1>18, ConcludedFacts, AnsweredCopy
  <1> QED BY <1>18, <1>19, ConcludedFacts

(* The second statement of acceptInvite: the group is shown, and the push tells of it. *)
LEMMA JoinedCopy ==
  ASSUME SyncInv, SyncInv', AllGood, BasesFit, TablesSound, TablesSound', NEW r \in Call,
         NEW a \in ReplyMail, Concluded(r, a), r.cmd = "acceptInvite", Joins, AcceptMember,
         signedIn, NEW g, g = job.group, PushIf(Me \in UsersInGroupAfter(g))
  PROVE  AllGood' /\ BasesFit'
  <1>1. job = [pc |-> "acceptMember", user |-> Me, group |-> r.group] /\ g = r.group
    <2>1. answer[1] = a /\ a.call = r
      BY DEF Concluded
    <2>2. job = [pc |-> "acceptMember", user |-> Me, group |-> r.group]
      BY <2>1 DEF Joins
    <2> QED BY <2>2
  <1>2. /\ members' = members \cup Linked(g, Me)
        /\ UNCHANGED <<groups, invites, pins, tasks, messages, next>>
    BY <1>1 DEF AcceptMember
  <1>3. CASE Me \in UsersInGroupAfter(g)
    <2>1. toClient' = Append(toClient, Loaded(View(Me)'))
      BY <1>3 DEF PushIf
    <2>2. a.call.cmd \in {"togglePinGroup", "deleteGroup", "removeMemberFromGroup",
                          "acceptInvite", "denyInvite"}
      BY DEF Concluded
    <2>3. Coming' = <<a>> /\ Window' = {}
      BY ConcludedFacts
    <2>4. BasesFit'
      BY <2>1, <2>2, <2>3, PushAnswered
    <2>5. \A i \in DOMAIN toClient' : Good(toClient'[i])
      BY <2>1, PushedFits DEF AllGood
    <2> QED BY <2>4, <2>5, ConcludedFacts
  <1>4. CASE Me \notin UsersInGroupAfter(g)
    <2>1. toClient' = toClient
      BY <1>4 DEF PushIf
    <2>2. <<g, Me>> \notin members' /\ <<g, Me>> \notin invites'
      BY <1>4, MeIsUser DEF UsersInGroupAfter, UsersInGroup
    <2>3. g \notin groups /\ members' = members
      <3>1. <<g, Me>> \notin Linked(g, Me)
        BY <1>2, <2>2
      <3>2. Me \in UserIds
        BY DEF TablesSound
      <3> QED BY <1>2, <3>1, <3>2 DEF Linked
    <2>4. Joining = {} /\ Joining' = {}
      <3>1. \A h : job = [pc |-> "acceptMember", user |-> Me, group |-> h] => h = g
        <4>1. \A h : [pc |-> "acceptMember", user |-> Me, group |-> h].group = h
          OBVIOUS
        <4> QED BY <4>1
      <3>2. Joining = {}
        BY <2>3, <3>1 DEF Joining
      <3> QED BY <3>2, ConcludedFacts
    <2>5. Shown' = Shown
      BY <1>2, <2>3, <2>4, OutOfSight
    <2> DEFINE s == Shown
    <2>6. r.group \notin s.mine \cup s.pending \cup s.joining
      BY <1>1, <2>3, <2>4, ShownIs DEF ShownRows
    <2> HIDE DEF s
    <2>7. ASSUME NEW v, NEW R, NEW Q, NEW W, NEW X, v \in Local, Longer(R, Q, a),
                  W \subseteq X \cup {r}, Fits(v, R, W, s)
           PROVE  Fits(v, Q, X, s)
      <3>1. r.cmd \in {"removeMemberFromGroup", "acceptInvite"}
        OBVIOUS
      <3>2. Fits(v, R, X, s)
        BY ONLY <2>6, <2>7, <3>1, AbsentGroupFits
      <3>3. a.call.cmd \in {"togglePinGroup", "deleteGroup", "removeMemberFromGroup",
                           "acceptInvite", "denyInvite"}
        BY DEF Concluded
      <3> QED BY ONLY <2>7, <3>2, <3>3, NeutralFits
    <2>8. Answers(a, r)
      BY <2>5, <2>7 DEF Answers, s
    <2>9. local' = local
      BY DEF Concluded
    <2>10. BasesFit'
      BY <2>1, <2>8, <2>9, ConcludedFacts, AnsweredCopy
    <2> QED BY <2>1, <2>10, ConcludedFacts
  <1> QED BY <1>3, <1>4

(* The second statement of a route. *)
LEMMA FinishCopy ==
  ASSUME SyncInv, SyncInv', AllGood, BasesFit, TablesSound, TablesSound', RouteBegun,
         Finish, signedIn, sure'
  PROVE  AllGood' /\ BasesFit'
  <1>0. /\ UNCHANGED <<local, signedIn, toServer, answer>>
        /\ answer = <<>> => View(Me)' = View(Me)
    BY DEF Finish, client
  <1>1. job # Idle /\ job' = Idle /\ next' = next /\ job.pc \in {"creatorMember", "acceptMember"}
    BY DEF Finish, CreatorMember, AcceptMember, Idle
  <1>2. CASE answer = <<>>
    <2>1. MaybePushed
      BY PushIsAppend DEF Finish, Quietly
    <2>2. next'.task >= next.task
      <3>1. next.task \in Int
        BY DEF SyncInv, SyncTypeOK, TypeOK, Sequence
      <3> QED BY <1>1, <3>1
    <2> QED BY <1>0, <1>2, <2>1, <2>2, UnseenCopy
  <1>3. CASE answer # <<>>
    <2> DEFINE a == answer[1]
               r == a.call
    <2>1. a \in ReplyMail /\ answer = <<a>> /\ r \in Call
      <3>1. a \in ReplyMail /\ answer = <<a>>
        BY <1>3, OneAnswer
      <3> QED BY <3>1 DEF ReplyMail
    <2>2. (r.cmd = "acceptInvite" /\ Joins) \/ (r.cmd = "createGroup" /\ Creates)
      BY <1>1, <1>3 DEF RouteBegun
    <2> HIDE DEF a
    <2>3. Concluded(r, a)
      BY <1>0, <1>1, <2>1 DEF Concluded
    <2>4. CASE CreatorMember /\ Quietly
      <3>1. r.cmd = "createGroup" /\ Creates
        <4>1. job.pc = "creatorMember"
          BY <2>4 DEF CreatorMember
        <4> QED BY <2>2, <4>1 DEF Joins
      <3>2. toClient' = toClient
        BY <2>4 DEF Quietly, PushIf
      <3> QED BY <2>1, <2>3, <2>4, <3>1, <3>2, GroupMadeCopy
    <2>5. CASE AcceptMember /\ \E g \in GroupId : g = job.group /\ PushIf(Me \in UsersInGroupAfter(g))
      <3>1. r.cmd = "acceptInvite" /\ Joins
        <4>1. job.pc = "acceptMember"
          BY <2>5 DEF AcceptMember
        <4> QED BY <2>2, <4>1 DEF Creates
      <3>2. PICK g \in GroupId : g = job.group /\ PushIf(Me \in UsersInGroupAfter(g))
        BY <2>5
      <3> QED BY <2>1, <2>3, <2>5, <3>1, <3>2, JoinedCopy
    <2> QED BY <2>4, <2>5 DEF Finish
  <1> QED BY <1>2, <1>3

----------------------------------------------------------------------------
(* What the steps of the server leave of the tables *)

Kept ==
  /\ NoDanglingRows' /\ IdsBelowNext' /\ OneRowPerId /\ OneTaskPerId' /\ UserIds' = UserIds

(* A deletion leaves each id to one task. *)
LEMMA FewerTasks == ASSUME OneTaskPerId, tasks' \subseteq tasks PROVE OneTaskPerId'
  BY DEF OneTaskPerId

(* A new task has an id of its own. *)
LEMMA OneMoreTask ==
  ASSUME TypeOK, IdsBelowNext, OneTaskPerId, NEW g, NEW u, NEW b, InsertTask(g, u, b)
  PROVE  OneTaskPerId'
  <1>1. CASE <<g, u>> \in groups \X UserIds
    <2> DEFINE row == [id |-> next.task, group |-> g, owner |-> u, body |-> b]
    <2>1. tasks' = tasks \cup {row}
      BY <1>1 DEF InsertTask
    <2>2. row.id = next.task
      OBVIOUS
    <2>3. \A x \in tasks : x.id # next.task
      <3>1. next.task \in Nat /\ \A x \in tasks : x.id \in Nat
        BY BoundsAssumption DEF TypeOK, Sequence, TaskRow, TaskId
      <3> QED BY <3>1 DEF IdsBelowNext
    <2> HIDE DEF row
    <2> QED BY <2>1, <2>2, <2>3 DEF OneTaskPerId
  <1>2. CASE <<g, u>> \notin groups \X UserIds
    BY <1>2 DEF InsertTask, OneTaskPerId
  <1> QED BY <1>1, <1>2

(* An update leaves the ids. *)
LEMMA UpdatedTasks ==
  ASSUME TypeOK, OneTaskPerId, NEW t, NEW b, UpdateTask(t, b)
  PROVE  OneTaskPerId'
  <1>1. SUFFICES ASSUME NEW x \in tasks', NEW y \in tasks', x.id = y.id PROVE x = y
    BY DEF OneTaskPerId
  <1>2. PICK v \in tasks : x = IF v.id = t THEN [v EXCEPT !.body = b] ELSE v
    BY DEF UpdateTask, Updated
  <1>3. PICK w \in tasks : y = IF w.id = t THEN [w EXCEPT !.body = b] ELSE w
    BY DEF UpdateTask, Updated
  <1>4. v \in TaskRow /\ w \in TaskRow
    BY DEF TypeOK
  <1>5. x.id = v.id /\ y.id = w.id
    BY <1>2, <1>3, <1>4 DEF TaskRow
  <1>6. v = w
    BY <1>1, <1>5 DEF OneTaskPerId
  <1> QED BY <1>2, <1>3, <1>6

(* The routes about members, invitations and pins. *)
LEMMA GroupRouteKeeps ==
  ASSUME TypeOK, NoDanglingRows, IdsBelowNext, OneTaskPerId, NEW g, NEW u,
         \/ AddMemberToGroup(g, u) \/ InviteMemberToGroup(g, u) \/ TogglePinGroup(g, u)
         \/ RemoveMemberFromGroup(g, u) \/ CancelInvite(g, u) \/ AcceptInvite(g, u)
  PROVE  Kept
  <1>1. users' = users /\ groups' = groups /\ tasks' = tasks /\ messages' = messages /\ next' = next
    BY DEF AddMemberToGroup, InviteMemberToGroup, TogglePinGroup, RemoveMemberFromGroup,
           CancelInvite, AcceptInvite
  <1>2. UserIds' = UserIds
    BY <1>1, SameUsers
  <1>3. IdsBelowNext' /\ OneRowPerId
    BY <1>1, NoNewRow
  <1>4. (members \cup invites \cup pins)' \subseteq groups \X UserIds
    <2>1. CASE AddMemberToGroup(g, u) \/ InviteMemberToGroup(g, u)
      BY <2>1, LinkedType DEF AddMemberToGroup, InviteMemberToGroup, NoDanglingRows
    <2>2. CASE TogglePinGroup(g, u)
      BY <2>2, TogglePinReferences DEF TogglePinGroup, NoDanglingRows
    <2>3. CASE RemoveMemberFromGroup(g, u) \/ CancelInvite(g, u) \/ AcceptInvite(g, u)
      BY <2>3 DEF RemoveMemberFromGroup, CancelInvite, AcceptInvite, Without, NoDanglingRows
    <2> QED BY <2>1, <2>2, <2>3
  <1>5. NoDanglingRows'
    BY <1>1, <1>2, <1>4 DEF NoDanglingRows
  <1>6. OneTaskPerId'
    BY <1>1, FewerTasks
  <1> QED BY <1>2, <1>3, <1>5, <1>6 DEF Kept

(* The deletion of a group with all that refers to it. *)
LEMMA DeleteGroupKeeps ==
  ASSUME TypeOK, NoDanglingRows, IdsBelowNext, OneTaskPerId, NEW g, DeleteGroup(g)
  PROVE  Kept
  <1>1. DropGroup(g) /\ next' = next
    BY DEF DeleteGroup
  <1>2. /\ users' = users /\ groups' \subseteq groups /\ messages' \subseteq messages
        /\ tasks' \subseteq tasks
    BY <1>1 DEF DropGroup
  <1>3. UserIds' = UserIds
    BY <1>2, SameUsers
  <1>4. NoDanglingRows'
    BY <1>1, DropReferences
  <1>5. IdsBelowNext' /\ OneRowPerId
    BY <1>1, <1>2, NoNewRow
  <1>6. OneTaskPerId'
    BY <1>2, FewerTasks
  <1> QED BY <1>3, <1>4, <1>5, <1>6 DEF Kept

(* A new message. *)
LEMMA SendMessageKeeps ==
  ASSUME TypeOK, NoDanglingRows, IdsBelowNext, OneTaskPerId, NEW g, NEW u, SendMessage(g, u)
  PROVE  Kept
  <1>1. /\ UNCHANGED <<users, groups, members, invites, pins, tasks>>
        /\ InsertMessage(g, u)
    BY DEF SendMessage
  <1>2. UserIds' = UserIds
    BY <1>1, SameUsers
  <1>3. NoDanglingRows'
    BY <1>1, <1>2, InsertMessageReferences DEF NoDanglingRows
  <1>4. IdsBelowNext' /\ OneRowPerId
    BY <1>1, InsertMessageIds
  <1>5. OneTaskPerId'
    BY <1>1, FewerTasks
  <1> QED BY <1>2, <1>3, <1>4, <1>5 DEF Kept

(* A new task. *)
LEMMA CreateTaskKeeps ==
  ASSUME TypeOK, NoDanglingRows, IdsBelowNext, OneTaskPerId, NEW g, NEW u, NEW b,
         CreateTask(g, u, b)
  PROVE  Kept
  <1>1. /\ UNCHANGED <<users, groups, members, invites, pins, messages>>
        /\ InsertTask(g, u, b)
    BY DEF CreateTask
  <1>2. UserIds' = UserIds
    BY <1>1, SameUsers
  <1>3. NoDanglingRows'
    BY <1>1, <1>2, InsertTaskReferences DEF NoDanglingRows
  <1>4. IdsBelowNext' /\ OneRowPerId
    BY <1>1, InsertTaskIds
  <1>5. OneTaskPerId'
    BY <1>1, OneMoreTask
  <1> QED BY <1>2, <1>3, <1>4, <1>5 DEF Kept

(* A task deleted or changed. *)
LEMMA TaskRouteKeeps ==
  ASSUME TypeOK, NoDanglingRows, IdsBelowNext, OneTaskPerId, NEW t, NEW b,
         DeleteTask(t) \/ UpdateTask(t, b)
  PROVE  Kept
  <1>1. UNCHANGED <<users, groups, members, invites, pins, messages, next>>
    BY DEF DeleteTask, UpdateTask
  <1>2. UserIds' = UserIds
    BY <1>1, SameUsers
  <1>3. \A x \in tasks' : \E old \in tasks :
            old.id = x.id /\ old.group = x.group /\ old.owner = x.owner
    <2>1. CASE DeleteTask(t)
      BY <2>1 DEF DeleteTask, DroppedTask
    <2>2. CASE UpdateTask(t, b)
      BY <2>2, UpdateTaskRows
    <2> QED BY <2>1, <2>2
  <1>4. NoDanglingRows'
    BY <1>1, <1>2, <1>3 DEF NoDanglingRows
  <1>5. IdsBelowNext' /\ OneRowPerId
    BY <1>1, <1>3, NoNewRow
  <1>6. OneTaskPerId'
    <2>1. CASE DeleteTask(t)
      <3>1. tasks' \subseteq tasks
        BY <2>1 DEF DeleteTask, DroppedTask
      <3> QED BY <3>1, FewerTasks
    <2>2. CASE UpdateTask(t, b)
      BY <2>2, UpdatedTasks
    <2> QED BY <2>1, <2>2
  <1> QED BY <1>2, <1>4, <1>5, <1>6 DEF Kept

(* A new group. *)
LEMMA CreateGroupKeeps ==
  ASSUME TypeOK, NoDanglingRows, IdsBelowNext, OneTaskPerId, NEW u, CreateGroup(u)
  PROVE  Kept
  <1>1. UNCHANGED <<users, members, invites, pins, tasks, messages>> /\ InsertGroup
    BY DEF CreateGroup
  <1>2. UserIds' = UserIds
    BY <1>1, SameUsers
  <1>3. groups \subseteq groups'
    BY <1>1 DEF InsertGroup
  <1>4. NoDanglingRows'
    BY <1>1, <1>2, <1>3 DEF NoDanglingRows
  <1>5. IdsBelowNext' /\ OneRowPerId
    BY <1>1, InsertGroupIds
  <1>6. OneTaskPerId'
    BY <1>1, FewerTasks
  <1> QED BY <1>2, <1>4, <1>5, <1>6 DEF Kept

(* The second statement of createGroup and of acceptInvite. *)
LEMMA MemberKeeps ==
  ASSUME TypeOK, NoDanglingRows, IdsBelowNext, OneTaskPerId, CreatorMember \/ AcceptMember
  PROVE  Kept
  <1>1. /\ UNCHANGED <<users, groups, invites, pins, tasks, messages, next>>
        /\ \E g, u : members' = members \cup Linked(g, u)
    BY DEF CreatorMember, AcceptMember
  <1>2. UserIds' = UserIds
    BY <1>1, SameUsers
  <1>3. members' \subseteq groups \X UserIds
    BY <1>1, LinkedType DEF NoDanglingRows
  <1>4. NoDanglingRows'
    BY <1>1, <1>2, <1>3 DEF NoDanglingRows
  <1>5. IdsBelowNext' /\ OneRowPerId
    BY <1>1, NoNewRow
  <1>6. OneTaskPerId'
    BY <1>1, FewerTasks
  <1> QED BY <1>2, <1>4, <1>5, <1>6 DEF Kept

(* Whatever a route of this client's does, the tables stay sound. *)
LEMMA RouteKeeps ==
  ASSUME TypeOK, TablesSound, NEW r, Route(r)
  PROVE  Kept
  <1>0. NoDanglingRows /\ IdsBelowNext /\ OneTaskPerId
    BY DEF TablesSound
  <1>1. CASE r.cmd \in {"deleteTask", "toggleTaskCompletion", "editTask"}
    <2>1. \E b : DeleteTask(r.task) \/ UpdateTask(r.task, b)
      BY <1>1 DEF Route, ToggleTaskCompletion, EditTask
    <2> QED BY <1>0, <2>1, TaskRouteKeeps
  <1>2. CASE r.cmd = "createGroup"
    <2>1. CreateGroup(Me)
      BY <1>2 DEF Route
    <2> QED BY <1>0, <2>1, CreateGroupKeeps
  <1>3. CASE r.cmd = "deleteGroup"
    <2>1. DeleteGroup(r.group)
      BY <1>3 DEF Route
    <2> QED BY <1>0, <2>1, DeleteGroupKeeps
  <1>4. CASE r.cmd = "sendMessage"
    <2>1. SendMessage(r.group, Me)
      BY <1>4 DEF Route
    <2> QED BY <1>0, <2>1, SendMessageKeeps
  <1>5. CASE r.cmd = "createTask"
    <2>1. \E b : CreateTask(r.group, Me, b)
      BY <1>5 DEF Route
    <2> QED BY <1>0, <2>1, CreateTaskKeeps
  <1>6. CASE r.cmd \notin {"deleteTask", "toggleTaskCompletion", "editTask", "createGroup",
                           "deleteGroup", "sendMessage", "createTask"}
    <2>1. \E u : \/ InviteMemberToGroup(r.group, u) \/ TogglePinGroup(r.group, u)
                 \/ RemoveMemberFromGroup(r.group, u) \/ CancelInvite(r.group, u)
                 \/ AcceptInvite(r.group, u)
      BY <1>6 DEF Route
    <2> QED BY <1>0, <2>1, GroupRouteKeeps
  <1> QED BY <1>1, <1>2, <1>3, <1>4, <1>5, <1>6

(* Nor do the routes of others harm them. *)
LEMMA OthersKeep ==
  ASSUME TypeOK, TablesSound, GroupRoutes \/ TaskRoutes
  PROVE  Kept
  <1>0. NoDanglingRows /\ IdsBelowNext /\ OneTaskPerId
    BY DEF TablesSound
  <1>1. CASE GroupRoutes
    <2>1. PICK g \in IssuedGroups :
             \/ DeleteGroup(g)
             \/ \E u \in UserIds : AddMemberToGroup(g, u) \/ InviteMemberToGroup(g, u)
             \/ \E u \in IssuedUsers :
                   \/ TogglePinGroup(g, u) \/ RemoveMemberFromGroup(g, u)
                   \/ CancelInvite(g, u) \/ AcceptInvite(g, u) \/ SendMessage(g, u)
                   \/ \E b \in Bodies : CreateTask(g, u, b)
      BY <1>1 DEF GroupRoutes
    <2>2. \/ DeleteGroup(g)
          \/ \E u, b : SendMessage(g, u) \/ CreateTask(g, u, b)
          \/ \E u : \/ AddMemberToGroup(g, u) \/ InviteMemberToGroup(g, u) \/ TogglePinGroup(g, u)
                    \/ RemoveMemberFromGroup(g, u) \/ CancelInvite(g, u) \/ AcceptInvite(g, u)
      BY <2>1
    <2>3. CASE DeleteGroup(g)
      BY <1>0, <2>3, DeleteGroupKeeps
    <2>4. CASE \E u, b : SendMessage(g, u) \/ CreateTask(g, u, b)
      BY <1>0, <2>4, SendMessageKeeps, CreateTaskKeeps
    <2>5. CASE \E u : \/ AddMemberToGroup(g, u) \/ InviteMemberToGroup(g, u)
                      \/ TogglePinGroup(g, u) \/ RemoveMemberFromGroup(g, u)
                      \/ CancelInvite(g, u) \/ AcceptInvite(g, u)
      BY <1>0, <2>5, GroupRouteKeeps
    <2> QED BY <2>2, <2>3, <2>4, <2>5
  <1>2. CASE TaskRoutes
    <2>1. \E t, b : DeleteTask(t) \/ UpdateTask(t, b)
      BY <1>2 DEF TaskRoutes
    <2> QED BY <1>0, <2>1, TaskRouteKeeps
  <1> QED BY <1>1, <1>2

(* The tables and the sequences go on. *)
Onward ==
  /\ TablesSound' /\ UserIds' = UserIds
  /\ next'.group >= next.group /\ next'.task >= next.task

(* What the routes keep is what the client counts on. *)
LEMMA KeptOnward == ASSUME TablesSound, Kept PROVE Onward
  <1>1. next'["group"] >= next["group"] /\ next'["task"] >= next["task"]
    BY DEF Kept, OneRowPerId
  <1> QED BY <1>1 DEF Kept, Onward, TablesSound

(* A step that leaves the tables. *)
LEMMA SameOnward == ASSUME TypeOK, TablesSound, UNCHANGED <<tables, next>> PROVE Onward
  <1>1. next.group \in Int /\ next.task \in Int
    BY DEF TypeOK, Sequence
  <1>2. UserIds' = UserIds
    BY SameUsers DEF tables
  <1>3. TablesSound'
    BY <1>2 DEF TablesSound, NoDanglingRows, IdsBelowNext, OneTaskPerId, tables
  <1> QED BY <1>1, <1>2, <1>3 DEF Onward

(* Every step. *)
LEMMA TablesStep == ASSUME SyncInv, TablesSound, SyncNext PROVE Onward
  <1>0. TypeOK /\ NoDanglingRows /\ IdsBelowNext /\ OneTaskPerId
    BY DEF SyncInv, SyncTypeOK, TablesSound
  <1>1. CASE AnyClick \/ LoadPush \/ TakeReply \/ Timeout \/ LogOut \/ SendReply \/ AiSend
    <2>1. UNCHANGED vars
      BY <1>1 DEF AnyClick, Click, LoadPush, TakeReply, Timeout, GiveUp, LogOut, SendReply, AiSend
    <2> QED BY <1>0, <2>1, SameOnward DEF vars
  <1>2. CASE LogIn \/ Refresh \/ AiRead
    <2>1. UNCHANGED <<tables, next>>
      BY <1>2 DEF LogIn, Login, Refresh, AutoRefresh, AiRead, AiPush
    <2> QED BY <1>0, <2>1, SameOnward
  <1>3. CASE Serve
    <2>1. \E r : Route(r)
      BY <1>3 DEF Serve
    <2> QED BY <1>0, <2>1, RouteKeeps, KeptOnward
  <1>4. CASE Finish
    <2>1. CreatorMember \/ AcceptMember
      BY <1>4 DEF Finish
    <2> QED BY <1>0, <2>1, MemberKeeps, KeptOnward
  <1>5. CASE OthersWrite
    <2>1. GroupRoutes \/ TaskRoutes
      BY <1>5 DEF OthersWrite
    <2> QED BY <1>0, <2>1, OthersKeep, KeptOnward
  <1> QED BY <1>1, <1>2, <1>3, <1>4, <1>5 DEF SyncNext

----------------------------------------------------------------------------
(* The ids in the mail were handed out before *)

SameReply(m, n) ==
  IsReply(m) /\ IsReply(n) /\ m.call = n.call /\ m.ok = n.ok /\ m.id = n.id

(* How the mail moves in the steps that serve no request. *)
AskedBefore == \A i \in DOMAIN toServer' : Issued(toServer'[i].call)

SentBefore ==
  \A i \in DOMAIN toClient' : IsReply(toClient'[i]) =>
     \/ \E j \in DOMAIN toClient : SameReply(toClient'[i], toClient[j])
     \/ job = Idle /\ \E j \in DOMAIN answer : SameReply(toClient'[i], answer[j])

AnsweredBefore ==
  \/ answer' = <<>> /\ job = Idle
  \/ DOMAIN answer' = DOMAIN answer /\ \A j \in DOMAIN answer : SameReply(answer'[j], answer[j])

MailMoves == AskedBefore /\ SentBefore /\ AnsweredBefore

(* The types of the mail, reply by reply. *)
LEMMA Replies ==
  ASSUME SyncInv
  PROVE  /\ \A i \in DOMAIN answer : answer[i] \in ReplyMail /\ IsReply(answer[i])
         /\ \A i \in DOMAIN toServer : toServer[i] \in RequestMail
         /\ \A i \in DOMAIN toClient : IsReply(toClient[i]) => toClient[i] \in ReplyMail
         /\ \A i \in DOMAIN toClient : SameReply(toClient[i], toClient[i]) \/ ~IsReply(toClient[i])
         /\ \A i \in DOMAIN answer : SameReply(answer[i], answer[i])
  <1>1. answer \in Seq(ReplyMail) /\ toServer \in Seq(RequestMail)
    BY MailTypes
  <1>2. \A i \in DOMAIN answer : answer[i] \in ReplyMail
    <2> DEFINE S == ReplyMail
    <2> HIDE DEF S
    <2>1. answer \in Seq(S)
      BY <1>1 DEF S
    <2>2. \A i \in DOMAIN answer : answer[i] \in S
      BY <2>1
    <2> QED BY <2>2 DEF S
  <1>3. \A i \in DOMAIN toServer : toServer[i] \in RequestMail
    <2> DEFINE S == RequestMail
    <2> HIDE DEF S
    <2>1. toServer \in Seq(S)
      BY <1>1 DEF S
    <2>2. \A i \in DOMAIN toServer : toServer[i] \in S
      BY <2>1
    <2> QED BY <2>2 DEF S
  <1>4. \A i \in DOMAIN toClient : IsReply(toClient[i]) => toClient[i] \in ReplyMail
    BY MailTypes
  <1>5. \A i \in DOMAIN answer : IsReply(answer[i])
    BY <1>2, ReplyOrPayload
  <1> QED BY <1>2, <1>3, <1>4, <1>5 DEF SameReply

(* A step that leaves the answer. *)
LEMMA SameAnswer == ASSUME SyncInv, UNCHANGED answer PROVE AnsweredBefore
  BY Replies DEF AnsweredBefore

(* A step that leaves the mail to the client. *)
LEMMA SameSent == ASSUME SyncInv, UNCHANGED toClient PROVE SentBefore
  BY Replies DEF SentBefore

(* A step that leaves the mail to the server. *)
LEMMA SameAsked == ASSUME CallsIssued, UNCHANGED toServer PROVE AskedBefore
  BY DEF CallsIssued, AskedBefore

(* The first of the mail to the client is taken. *)
LEMMA TailSent == ASSUME SyncInv, toClient # <<>>, toClient' = Tail(toClient) PROVE SentBefore
  <1>1. toClient \in Seq(Mails)
    BY MailTypes
  <1>2. \A i \in DOMAIN Tail(toClient) :
           i + 1 \in DOMAIN toClient /\ Tail(toClient)[i] = toClient[i + 1]
    BY <1>1, TailFacts
  <1> QED BY <1>2, Replies DEF SentBefore

(* A payload is sent. *)
LEMMA PayloadSent ==
  ASSUME SyncInv, NEW w \in Local, toClient' = Append(toClient, w)
  PROVE  SentBefore
  <1>1. toClient \in Seq(Mails) /\ w \in Mails /\ ~IsReply(w)
    BY MailTypes, ReplyOrPayload DEF Mails
  <1>2. \A i \in DOMAIN toClient' :
           toClient'[i] = w \/ (i \in DOMAIN toClient /\ toClient'[i] = toClient[i])
    BY <1>1, AppendFacts
  <1> QED BY <1>1, <1>2, Replies DEF SentBefore

(* A payload may be pushed. *)
LEMMA PushedSent ==
  ASSUME SyncInv, TypeOK', FiniteTables', MaybePushed
  PROVE  SentBefore
  <1>1. CASE toClient' = toClient
    BY <1>1, SameSent
  <1>2. CASE toClient' = Append(toClient, Loaded(View(Me)'))
    <2> DEFINE w == Loaded(View(Me)')
    <2>1. w \in Local
      BY NextPayloadType
    <2> HIDE DEF w
    <2>2. toClient' = Append(toClient, w)
      BY <1>2 DEF w
    <2> QED BY <2>1, <2>2, PayloadSent
  <1> QED BY <1>1, <1>2 DEF MaybePushed

(* A request is sent. *)
LEMMA AppendAsked ==
  ASSUME SyncInv, CallsIssued, NEW r \in Call, Issued(r), toServer' = Append(toServer, Sent(r))
  PROVE  AskedBefore
  <1> DEFINE m == Sent(r)
  <1>1. m \in RequestMail /\ m.call = r
    BY SentMail DEF Sent
  <1> HIDE DEF m
  <1>2. toServer' = Append(toServer, m) /\ toServer \in Seq(RequestMail)
    BY MailTypes DEF m
  <1>3. \A i \in DOMAIN toServer' :
           toServer'[i] = m \/ (i \in DOMAIN toServer /\ toServer'[i] = toServer[i])
    BY <1>1, <1>2, AppendFacts
  <1> QED BY <1>1, <1>3 DEF CallsIssued, AskedBefore

(* A change of the copy, and the request it sends. *)
LEMMA PerformAsked ==
  ASSUME SyncInv, CallsIssued, NEW r \in Call, Issued(r), Perform(r)
  PROVE  AskedBefore
  <1>1. CASE toServer' = toServer
    BY <1>1, SameAsked
  <1>2. CASE toServer' = Append(toServer, Sent(r))
    BY <1>2, AppendAsked
  <1> QED BY <1>1, <1>2 DEF Perform

(* The ids of a click were handed out. *)
LEMMA ClicksAreIssued ==
  ASSUME SyncInv, CallsIssued, TablesSound
  PROVE  \A r \in GroupClicks \cup MemberClicks \cup TaskClicks \cup NewClicks : Issued(r)
  <1>0. /\ next.group \in Int /\ next.task \in Int /\ Me \in UserIds
        /\ next.group > 1 /\ next.task > 1
    BY DEF SyncInv, SyncTypeOK, TypeOK, Sequence, TablesSound, CallsIssued
  <1>1. (\A g \in IssuedGroups : g < next.group) /\ \A t \in IssuedTasks : t < next.task
    BY <1>0 DEF IssuedGroups, IssuedTasks
  <1>2. \A r \in GroupClicks : Issued(r)
    <2> DEFINE F(cmd, g) == With(cmd, [NoArgs EXCEPT !.group = g])
    <2>1. GroupClicks =
             {F(cmd, g) : cmd \in plan.clicks \cap {"togglePinGroup", "deleteGroup", "acceptInvite",
                                                    "denyInvite", "sendMessage"},
                          g \in IssuedGroups}
      BY DEF GroupClicks
    <2>2. \A cmd, g : g \in IssuedGroups => Issued(F(cmd, g))
      BY <1>0, <1>1 DEF With, NoArgs, Issued
    <2> HIDE DEF F
    <2> QED BY <2>1, <2>2
  <1>3. \A r \in MemberClicks : Issued(r)
    <2> DEFINE F(cmd, g, u) == With(cmd, [NoArgs EXCEPT !.group = g, !.user = u])
    <2>1. MemberClicks =
             {F(cmd, g, u) : cmd \in plan.clicks \cap {"removeMemberFromGroup", "cancelInvite",
                                                       "inviteMemberToGroup"},
                             g \in IssuedGroups, u \in UserIds}
      BY DEF MemberClicks
    <2>2. \A cmd, g, u : g \in IssuedGroups /\ u \in UserIds => Issued(F(cmd, g, u))
      BY <1>0, <1>1 DEF With, NoArgs, Issued
    <2> HIDE DEF F
    <2> QED BY <2>1, <2>2
  <1>4. \A r \in TaskClicks : Issued(r)
    <2> DEFINE D(cmd, t, d) == With(cmd, [NoArgs EXCEPT !.task = t, !.body.done = d])
               E(cmd, t, x) == With(cmd, [NoArgs EXCEPT !.task = t, !.body.text = x])
               F(cmd, t) == With(cmd, [NoArgs EXCEPT !.task = t])
    <2>1. TaskClicks =
             {D(cmd, t, d) : cmd \in plan.clicks \cap {"toggleTaskCompletion"},
                             t \in IssuedTasks, d \in BOOLEAN}
             \cup {E(cmd, t, x) : cmd \in plan.clicks \cap {"editTask"},
                                  t \in IssuedTasks, x \in Texts}
             \cup {F(cmd, t) : cmd \in plan.clicks \cap {"deleteTask"}, t \in IssuedTasks}
      BY DEF TaskClicks
    <2>2. \A cmd, d : \A t \in IssuedTasks : Issued(D(cmd, t, d))
      BY <1>0, <1>1 DEF With, NoArgs, Issued
    <2>3. \A cmd, x : \A t \in IssuedTasks : Issued(E(cmd, t, x))
      BY <1>0, <1>1 DEF With, NoArgs, Issued
    <2>4. \A cmd : \A t \in IssuedTasks : Issued(F(cmd, t))
      BY <1>0, <1>1 DEF With, NoArgs, Issued
    <2> HIDE DEF D, E, F
    <2>5. TAKE r \in TaskClicks
    <2>6. \/ \E cmd, d : \E t \in IssuedTasks : r = D(cmd, t, d)
          \/ \E cmd, x : \E t \in IssuedTasks : r = E(cmd, t, x)
          \/ \E cmd : \E t \in IssuedTasks : r = F(cmd, t)
      BY <2>1, <2>5
    <2> QED BY <2>2, <2>3, <2>4, <2>6
  <1>5. \A r \in NewClicks : Issued(r)
    <2>1. ASSUME NEW cmd, NEW g \in IssuedGroups
          PROVE  Issued(With(cmd, NoArgs)) /\ Issued(With(cmd, [NoArgs EXCEPT !.group = g]))
      BY <1>0, <1>1 DEF With, NoArgs, Issued
    <2>2. Issued(With("createGroup", NoArgs))
      BY <1>0 DEF With, NoArgs, Issued
    <2> SUFFICES ASSUME NEW r \in NewClicks PROVE Issued(r)
      OBVIOUS
    <2>3. CASE r = With("createGroup", NoArgs)
      BY <2>2, <2>3, Zenon
    <2>4. CASE \E g \in IssuedGroups : r = With("createTask", [NoArgs EXCEPT !.group = g])
      BY <2>1, <2>4, Zenon
    <2> QED BY <2>3, <2>4 DEF NewClicks
  <1> QED BY <1>2, <1>3, <1>4, <1>5

(* A click. *)
LEMMA ClickMoves ==
  ASSUME SyncInv, CallsIssued, NEW r \in Call, Issued(r), Click(r)
  PROVE  MailMoves
  <1>1. UNCHANGED <<answer, toClient>>
    BY DEF Click
  <1>2. AskedBefore
    BY PerformAsked, AppendAsked DEF Click
  <1> QED BY <1>1, <1>2, SameAnswer, SameSent DEF MailMoves

(* A reply is taken; its callback may send the next request. *)
LEMMA TakeReplyMoves ==
  ASSUME SyncInv, CallsIssued, TakeReply
  PROVE  MailMoves
  <1> DEFINE m == Head(toClient)
  <1>0. /\ toClient # <<>> /\ IsReply(m) /\ toClient' = Tail(toClient) /\ UNCHANGED answer
        /\ UNCHANGED toServer \/ Perform(m.call)
    BY DEF TakeReply
  <1>1. m = toClient[1] /\ 1 \in DOMAIN toClient
    BY <1>0, MailTypes, TailFacts
  <1>2. m.call \in Call /\ Issued(m.call)
    <2>1. m \in ReplyMail /\ IssuedReply(m)
      BY <1>0, <1>1, Replies DEF CallsIssued
    <2> QED BY <1>0, <2>1 DEF ReplyMail, IssuedReply
  <1> HIDE DEF m
  <1>3. AskedBefore
    BY <1>0, <1>2, SameAsked, PerformAsked
  <1> QED BY <1>0, <1>3, SameAnswer, TailSent DEF MailMoves

(* A callback that no longer waits leaves the rest of the reply. *)
LEMMA ForgottenReply ==
  ASSUME NEW q, NEW i \in DOMAIN q, q[i] \in ReplyMail, NEW j \in DOMAIN q
  PROVE  /\ DOMAIN Forgotten(q, i) = DOMAIN q
         /\ SameReply(q[j], q[j]) => SameReply(Forgotten(q, i)[j], q[j])
         /\ ~IsReply(q[j]) => ~IsReply(Forgotten(q, i)[j])
  <1>1. \A x \in ReplyMail : SameReply([x EXCEPT !.waited = FALSE], x)
    BY DEF ReplyMail, SameReply, IsReply
  <1>2. IsReply(q[i])
    BY ReplyOrPayload
  <1> QED BY <1>1, <1>2 DEF Forgotten

(* A callback times out. *)
LEMMA TimeoutMoves ==
  ASSUME SyncInv, CallsIssued, Timeout
  PROVE  MailMoves
  <1>1. ASSUME NEW i \in DOMAIN toServer, toServer' = Forgotten(toServer, i),
               UNCHANGED <<answer, toClient>>
        PROVE  MailMoves
    <2>1. \A x \in RequestMail : [x EXCEPT !.waited = FALSE].call = x.call
      BY DEF RequestMail
    <2>2. \A j \in DOMAIN toServer' : j \in DOMAIN toServer /\ toServer'[j].call = toServer[j].call
      BY <1>1, <2>1, Replies DEF Forgotten
    <2>3. AskedBefore
      BY <2>2 DEF AskedBefore, CallsIssued
    <2> QED BY <1>1, <2>3, SameAnswer, SameSent DEF MailMoves
  <1>2. ASSUME NEW i \in DOMAIN answer, answer' = Forgotten(answer, i),
               UNCHANGED <<toServer, toClient>>
        PROVE  MailMoves
    <2>1. AnsweredBefore
      BY <1>2, Replies, ForgottenReply DEF AnsweredBefore
    <2> QED BY <1>2, <2>1, SameAsked, SameSent DEF MailMoves
  <1>3. ASSUME NEW i \in DOMAIN toClient, Waited(toClient, i), toClient' = Forgotten(toClient, i),
               UNCHANGED <<toServer, answer>>
        PROVE  MailMoves
    <2>1. toClient[i] \in ReplyMail
      BY <1>3, Replies DEF Waited
    <2>2. \A j \in DOMAIN toClient : SameReply(toClient'[j], toClient[j]) \/ ~IsReply(toClient'[j])
      BY <1>3, <2>1, Replies, ForgottenReply
    <2>3. DOMAIN toClient' = DOMAIN toClient
      BY <1>3, <2>1, ForgottenReply
    <2>4. SentBefore
      BY <2>2, <2>3 DEF SentBefore
    <2> QED BY <1>3, <2>4, SameAsked, SameAnswer DEF MailMoves
  <1> QED BY <1>1, <1>2, <1>3 DEF Timeout

(* The user logs out. *)
LEMMA LogOutMoves ==
  ASSUME SyncInv, CallsIssued, LogOut
  PROVE  MailMoves
  <1>1. DOMAIN toClient' = {}
    BY DEF LogOut
  <1>2. AskedBefore
    <2>1. PICK n \in 0..Len(toServer) :
             toServer' = [i \in 1..n |-> [toServer[i] EXCEPT !.waited = FALSE]]
      BY DEF LogOut
    <2>2. \A x \in RequestMail : [x EXCEPT !.waited = FALSE].call = x.call
      BY DEF RequestMail
    <2>3. DOMAIN toServer = 1..Len(toServer) /\ Len(toServer) \in Nat
      BY MailTypes, LenProperties
    <2>4. \A i \in 1..n : i \in DOMAIN toServer
      BY <2>3
    <2>5. \A i \in DOMAIN toServer' :
             i \in DOMAIN toServer /\ toServer'[i].call = toServer[i].call
      BY <2>1, <2>2, <2>4, Replies
    <2> QED BY <2>5 DEF AskedBefore, CallsIssued
  <1>3. AnsweredBefore
    <2>1. answer' = [i \in DOMAIN answer |-> [answer[i] EXCEPT !.waited = FALSE]]
      BY DEF LogOut
    <2>2. \A x \in ReplyMail : SameReply([x EXCEPT !.waited = FALSE], x)
      BY DEF ReplyMail, SameReply, IsReply
    <2> QED BY <2>1, <2>2, Replies DEF AnsweredBefore
  <1>4. SentBefore
    BY <1>1 DEF SentBefore
  <1> QED BY <1>2, <1>3, <1>4 DEF MailMoves

(* The answer is sent. *)
LEMMA SendReplyMoves ==
  ASSUME SyncInv, CallsIssued, SendReply
  PROVE  MailMoves
  <1> DEFINE a == answer[1]
  <1>0. job = Idle /\ answer' = <<>> /\ UNCHANGED toServer /\ answer # <<>>
    BY DEF SendReply
  <1>1. a \in ReplyMail /\ 1 \in DOMAIN answer /\ SameReply(a, a)
    BY <1>0, MailTypes, ConcatOne, Replies
  <1>2. CASE signedIn
    <2>1. toClient' = Append(toClient, a)
      BY <1>0, <1>2, MailTypes, ConcatOne DEF SendReply
    <2> HIDE DEF a
    <2>2. a \in Mails /\ toClient \in Seq(Mails)
      BY <1>1, MailTypes DEF Mails
    <2>3. \A i \in DOMAIN toClient' :
             toClient'[i] = a \/ (i \in DOMAIN toClient /\ toClient'[i] = toClient[i])
      BY <2>1, <2>2, AppendFacts
    <2>4. \E j \in DOMAIN answer : SameReply(a, answer[j])
      BY <1>1 DEF a
    <2>5. SentBefore
      BY <1>0, <2>3, <2>4, Replies DEF SentBefore
    <2> QED BY <1>0, <2>5, SameAsked DEF MailMoves, AnsweredBefore
  <1>3. CASE ~signedIn
    <2>1. toClient' = toClient
      BY <1>3 DEF SendReply
    <2> QED BY <1>0, <2>1, SameAsked, SameSent DEF MailMoves, AnsweredBefore
  <1> QED BY <1>2, <1>3

(* The AI thread sends its payload. *)
LEMMA AiSendMoves ==
  ASSUME SyncInv, CallsIssued, AiSend
  PROVE  MailMoves
  <1>0. UNCHANGED <<toServer, answer>> /\ aiPayload # <<>>
    BY DEF AiSend
  <1>1. aiPayload \in Seq(Local) /\ Len(aiPayload) <= 1
    BY DEF SyncInv, SyncTypeOK
  <1>2. CASE signedIn
    <2> DEFINE w == aiPayload[1]
    <2>1. toClient' = Append(toClient, w) /\ w \in Local
      BY <1>0, <1>1, <1>2, MailTypes, ConcatOne DEF AiSend
    <2> HIDE DEF w
    <2>2. SentBefore
      BY <2>1, PayloadSent
    <2> QED BY <1>0, <2>2, SameAsked, SameAnswer DEF MailMoves
  <1>3. CASE ~signedIn
    <2>1. toClient' = toClient
      BY <1>3 DEF AiSend
    <2> QED BY <1>0, <2>1, SameAsked, SameAnswer, SameSent DEF MailMoves
  <1> QED BY <1>2, <1>3

(* Every step but Serve moves the mail on, no more. *)
LEMMA MovesStep ==
  ASSUME SyncInv, SyncInv', CallsIssued, TablesSound, SyncNext, ~Serve
  PROVE  MailMoves
  <1>1. CASE AnyClick
    <2>1. PICK r \in GroupClicks \cup MemberClicks \cup TaskClicks \cup NewClicks : Click(r)
      BY <1>1 DEF AnyClick
    <2>2. r \in Call
      BY <2>1, ClicksAreCalls DEF SyncInv, SyncTypeOK
    <2>3. Issued(r)
      BY ClicksAreIssued
    <2> QED BY <2>1, <2>2, <2>3, ClickMoves
  <1>2. CASE LoadPush
    BY <1>2, TailSent, SameAsked, SameAnswer DEF LoadPush, MailMoves
  <1>3. CASE Finish \/ OthersWrite \/ Refresh
    <2>1. MaybePushed /\ UNCHANGED <<toServer, answer>>
      BY <1>3, PushIsAppend DEF Finish, Quietly, OthersWrite, Refresh
    <2>2. TypeOK' /\ FiniteTables'
      BY DEF SyncInv, SyncTypeOK
    <2> QED BY <2>1, <2>2, PushedSent, SameAsked, SameAnswer DEF MailMoves
  <1>4. CASE LogIn
    <2>1. DOMAIN toClient' = {} /\ UNCHANGED <<toServer, answer>>
      BY <1>4 DEF LogIn
    <2> QED BY <2>1, SameAsked, SameAnswer DEF MailMoves, SentBefore
  <1>5. CASE AiRead
    BY <1>5, SameAsked, SameAnswer, SameSent DEF AiRead, wire, MailMoves
  <1> QED BY <1>1, <1>2, <1>3, <1>4, <1>5, TakeReplyMoves, TimeoutMoves, LogOutMoves,
             SendReplyMoves, AiSendMoves DEF SyncNext

NowIssued(call) ==
  call.task < next'.task /\ call.group < next'.group /\ call.user \in UserIds'

NowIssuedReply(mail) ==
  IsReply(mail) =>
    /\ NowIssued(mail.call)
    /\ mail.call.cmd = "createGroup" => mail.id < next'.group
    /\ mail.ok /\ mail.call.cmd = "createTask" => mail.id < next'.task

(* What was handed out stays so. *)
LEMMA IssuedLater ==
  ASSUME SyncInv, SyncInv', Onward
  PROVE  /\ \A c \in Call : Issued(c) => NowIssued(c)
         /\ \A n \in ReplyMail : \A m : SameReply(m, n) /\ IssuedReply(n) => NowIssuedReply(m)
  <1>0. /\ next.group \in Int /\ next.task \in Int /\ next'.group \in Int /\ next'.task \in Int
        /\ next'.group >= next.group /\ next'.task >= next.task /\ UserIds' = UserIds
    BY DEF SyncInv, SyncTypeOK, TypeOK, Sequence, Onward
  <1>1. ASSUME NEW c \in Call, Issued(c) PROVE NowIssued(c)
    <2>1. c.task \in Int /\ c.group \in Int
      BY DEF Call, TaskId, GroupId
    <2> QED BY <1>0, <1>1, <2>1 DEF Issued, NowIssued
  <1>2. ASSUME NEW n \in ReplyMail, NEW m, SameReply(m, n), IssuedReply(n)
        PROVE  NowIssuedReply(m)
    <2>1. n.call \in Call /\ n.id \in Int
      BY DEF ReplyMail
    <2>2. IsReply(n) /\ m.call = n.call /\ m.ok = n.ok /\ m.id = n.id
      BY <1>2 DEF SameReply
    <2>3. NowIssued(n.call)
      BY <1>1, <1>2, <2>1, <2>2 DEF IssuedReply
    <2>4. n.call.cmd = "createGroup" => n.id < next'.group
      BY <1>0, <1>2, <2>1, <2>2 DEF IssuedReply
    <2>5. n.ok /\ n.call.cmd = "createTask" => n.id < next'.task
      BY <1>0, <1>2, <2>1, <2>2 DEF IssuedReply
    <2> QED BY <2>2, <2>3, <2>4, <2>5 DEF NowIssuedReply
  <1> QED BY <1>1, <1>2

(* CallsIssued after a step, said of each queue. *)
LEMMA NowIssuedAll ==
  ASSUME CallsIssued, Onward, SyncInv, SyncInv',
         \A i \in DOMAIN toServer' : NowIssued(toServer'[i].call),
         \A i \in DOMAIN answer' : NowIssuedReply(answer'[i]),
         \A i \in DOMAIN toClient' : NowIssuedReply(toClient'[i])
  PROVE  CallsIssued'
  <1>1. next'.group > 1 /\ next'.task > 1
    <2>1. /\ next.group \in Int /\ next.task \in Int /\ next'.group \in Int /\ next'.task \in Int
      BY DEF SyncInv, SyncTypeOK, TypeOK, Sequence
    <2> QED BY <2>1 DEF CallsIssued, Onward
  <1> QED BY <1>1 DEF CallsIssued, IssuedReply, Issued, NowIssuedReply, NowIssued

(* What is sent to the client names ids that were handed out. *)
LEMMA SentIssued ==
  ASSUME SyncInv, SyncInv', CallsIssued, Onward, SentBefore
  PROVE  \A i \in DOMAIN toClient' : NowIssuedReply(toClient'[i])
  <1>1. TAKE i \in DOMAIN toClient'
  <1> DEFINE m == toClient'[i]
  <1>2. CASE ~IsReply(m)
    BY <1>2 DEF NowIssuedReply
  <1>3. CASE \E j \in DOMAIN toClient : SameReply(m, toClient[j])
    <2>1. PICK j \in DOMAIN toClient : SameReply(m, toClient[j])
      BY <1>3
    <2>2. toClient[j] \in ReplyMail /\ IssuedReply(toClient[j])
      BY <2>1, Replies DEF CallsIssued, SameReply
    <2> QED BY <2>1, <2>2, IssuedLater
  <1>4. CASE \E j \in DOMAIN answer : SameReply(m, answer[j])
    <2>1. PICK j \in DOMAIN answer : SameReply(m, answer[j])
      BY <1>4
    <2>2. answer[j] \in ReplyMail /\ IssuedReply(answer[j])
      BY <2>1, Replies DEF CallsIssued
    <2> QED BY <2>1, <2>2, IssuedLater
  <1> QED BY <1>2, <1>3, <1>4 DEF SentBefore

(* So does the mail after a step that only moves it. *)
LEMMA MovedCalls ==
  ASSUME SyncInv, SyncInv', CallsIssued, Onward, MailMoves
  PROVE  CallsIssued'
  <1>1. \A i \in DOMAIN toClient' : NowIssuedReply(toClient'[i])
    BY SentIssued DEF MailMoves
  <1>2. \A i \in DOMAIN toServer' : NowIssued(toServer'[i].call)
    <2>1. TAKE i \in DOMAIN toServer'
    <2>2. toServer'[i].call \in Call
      <3>1. toServer' \in Seq(RequestMail)
        BY DEF SyncInv, SyncTypeOK
      <3> DEFINE S == RequestMail
      <3> HIDE DEF S
      <3>2. toServer' \in Seq(S)
        BY <3>1 DEF S
      <3>3. toServer'[i] \in S
        BY <3>2
      <3> QED BY <3>3 DEF S, RequestMail
    <2> QED BY <2>2, IssuedLater DEF MailMoves, AskedBefore
  <1>3. \A i \in DOMAIN answer' : NowIssuedReply(answer'[i])
    <2>1. TAKE i \in DOMAIN answer'
    <2>2. CASE answer' = <<>>
      BY <2>2
    <2>3. CASE DOMAIN answer' = DOMAIN answer /\ \A j \in DOMAIN answer : SameReply(answer'[j], answer[j])
      <3>1. answer[i] \in ReplyMail /\ IssuedReply(answer[i]) /\ SameReply(answer'[i], answer[i])
        BY <2>3, Replies DEF CallsIssued
      <3> QED BY <3>1, IssuedLater
    <2> QED BY <2>2, <2>3 DEF MailMoves, AnsweredBefore
  <1> QED BY <1>1, <1>2, <1>3, NowIssuedAll

(* So does the answer of a request served. *)
LEMMA ServedCalls ==
  ASSUME SyncInv, SyncInv', CallsIssued, Onward, Serve
  PROVE  CallsIssued'
  <1> DEFINE m == Head(toServer)
             r == m.call
             a == [call |-> r, waited |-> m.waited, ok |-> Succeeds(r), id |-> NewId(r)]
  <1>0. /\ toServer # <<>> /\ Route(r) /\ answer' = <<a>> /\ toServer' = Tail(toServer)
    BY DEF Serve
  <1>1. m = toServer[1] /\ 1 \in DOMAIN toServer /\ m \in RequestMail
    BY <1>0, MailTypes, TailFacts
  <1>2. r \in Call /\ Issued(r)
    BY <1>1 DEF RequestMail, CallsIssued
  <1>3. next.group \in Int /\ next.task \in Int
    BY DEF SyncInv, SyncTypeOK, TypeOK, Sequence
  <1>4. DOMAIN answer' = {1} /\ answer'[1] = a
    BY <1>0
  <1>5. a.call = r /\ a.ok = Succeeds(r) /\ a.id = NewId(r)
    OBVIOUS
  <1> HIDE DEF a, m
  <1>6. r.cmd = "createGroup" => NewId(r) < next'.group
    <2> SUFFICES ASSUME r.cmd = "createGroup" PROVE NewId(r) < next'.group
      OBVIOUS
    <2>1. next' = [next EXCEPT !.group = @ + 1]
      BY <1>0 DEF Route, CreateGroup, InsertGroup
    <2>2. next'.group = next.group + 1
      BY <2>1 DEF SyncInv, SyncTypeOK, TypeOK, Sequence
    <2> QED BY <1>3, <2>2 DEF NewId
  <1>7. Succeeds(r) /\ r.cmd = "createTask" => NewId(r) < next'.task
    <2> SUFFICES ASSUME r.cmd = "createTask", Succeeds(r) PROVE NewId(r) < next'.task
      OBVIOUS
    <2>1. next' = [next EXCEPT !.task = @ + 1]
      BY <1>0 DEF Route, CreateTask, InsertTask, Succeeds
    <2>2. next'.task = next.task + 1
      BY <2>1 DEF SyncInv, SyncTypeOK, TypeOK, Sequence
    <2> QED BY <1>3, <2>2 DEF NewId
  <1>8. \A i \in DOMAIN answer' : NowIssuedReply(answer'[i])
    BY <1>2, <1>4, <1>5, <1>6, <1>7, IssuedLater DEF NowIssuedReply
  <1>9. \A i \in DOMAIN toClient' : NowIssuedReply(toClient'[i])
    <2>1. MaybePushed
      BY <1>0, PushIsAppend DEF Route, Quietly
    <2>2. TypeOK' /\ FiniteTables'
      BY DEF SyncInv, SyncTypeOK
    <2> QED BY <2>1, <2>2, PushedSent, SentIssued
  <1>10. \A i \in DOMAIN toServer' : NowIssued(toServer'[i].call)
    <2>1. \A i \in DOMAIN toServer' : i + 1 \in DOMAIN toServer /\ toServer'[i] = toServer[i + 1]
      BY <1>0, MailTypes, TailFacts
    <2>2. \A i \in DOMAIN toServer : toServer[i].call \in Call
      BY Replies DEF RequestMail
    <2> QED BY <2>1, <2>2, IssuedLater DEF CallsIssued
  <1> QED BY <1>8, <1>9, <1>10, NowIssuedAll

(* Every step. *)
LEMMA CallsStep ==
  ASSUME SyncInv, SyncInv', CallsIssued, TablesSound, SyncNext
  PROVE  CallsIssued'
  BY TablesStep, MovesStep, MovedCalls, ServedCalls

----------------------------------------------------------------------------
(* Where a route of this client's stands *)

(* A group made now is nowhere yet. *)
LEMMA ServedRoute ==
  ASSUME SyncInv, SyncInv', CallsIssued, TablesSound, Serve
  PROVE  RouteBegun'
  <1> DEFINE m == Head(toServer)
             r == m.call
             a == [call |-> r, waited |-> m.waited, ok |-> Succeeds(r), id |-> NewId(r)]
  <1>0. /\ job = Idle /\ Route(r) /\ answer' = <<a>>
    BY DEF Serve
  <1>1. answer' # <<>> /\ answer'[1] = a /\ a.call = r /\ a.id = NewId(r)
    BY <1>0
  <1>2. Idle.pc = "idle"
    BY DEF Idle
  <1> HIDE DEF a, m
  <1>3. CASE r.cmd = "createGroup"
    <2> DEFINE g == next.group
    <2>1. /\ job' = [pc |-> "creatorMember", user |-> Me, group |-> g]
          /\ groups' = groups \cup {g} /\ a.id = g
          /\ UNCHANGED <<members, invites, tasks, messages, toClient>>
      BY <1>0, <1>1, <1>3 DEF Route, CreateGroup, InsertGroup, NewId, Quietly, PushIf
    <2>2. g \in Int /\ \A h \in groups : h \in Int /\ h # g
      <3>1. g \in Int /\ groups \subseteq GroupId
        BY DEF SyncInv, SyncTypeOK, TypeOK, Sequence
      <3> QED BY <3>1 DEF TablesSound, IdsBelowNext, GroupId
    <2>3. \A x \in members \cup invites : x[1] # g
      BY <2>2 DEF TablesSound, NoDanglingRows
    <2>4. \A x \in tasks \cup messages : x.group # g
      BY <2>2 DEF TablesSound, NoDanglingRows
    <2>5. \A i \in DOMAIN toClient : IsReply(toClient[i]) =>
             toClient[i].call.group # g /\ ~MakesGroup(toClient[i], g)
      <3>1. TAKE i \in DOMAIN toClient
      <3>2. HAVE IsReply(toClient[i])
      <3>3. toClient[i] \in ReplyMail /\ IssuedReply(toClient[i])
        BY <3>2, Replies DEF CallsIssued
      <3>4. toClient[i].call.group \in Int /\ toClient[i].id \in Int
        BY <3>3 DEF ReplyMail, Call, GroupId
      <3> QED BY <2>2, <3>2, <3>3, <3>4 DEF IssuedReply, Issued, MakesGroup
    <2>6. job'.group = g /\ job'.pc = "creatorMember" /\ answer'[1].id = g
      BY <1>1, <2>1
    <2> HIDE DEF g
    <2>7. Creates'
      BY <2>1, <2>3, <2>4, <2>5, <2>6 DEF Creates
    <2> QED BY <1>1, <1>3, <2>6, <2>7 DEF RouteBegun
  <1>4. CASE r.cmd = "acceptInvite"
    <2>1. job' = [pc |-> "acceptMember", user |-> Me, group |-> r.group]
      BY <1>0, <1>4 DEF Route, AcceptInvite
    <2>2. Joins' /\ job'.pc = "acceptMember"
      BY <1>1, <2>1 DEF Joins
    <2> QED BY <1>1, <1>4, <2>2 DEF RouteBegun
  <1>5. CASE r.cmd \notin {"createGroup", "acceptInvite"}
    <2>1. job' = job
      BY <1>0, <1>5 DEF Route, TogglePinGroup, DeleteGroup, DeleteTask, ToggleTaskCompletion,
         EditTask, UpdateTask, RemoveMemberFromGroup, CancelInvite, CreateTask, SendMessage,
         InviteMemberToGroup
    <2> QED BY <1>0, <1>2, <2>1 DEF RouteBegun
  <1> QED BY <1>3, <1>4, <1>5

(* A request of another client begins no route of this one's. *)
LEMMA OthersRoute ==
  ASSUME OthersWrite
  PROVE  RouteBegun'
  <1>1. answer' = <<>>
    BY DEF OthersWrite
  <1>2. \/ job' = Idle
        \/ \E g, u : job' = [pc |-> "acceptMember", user |-> u, group |-> g]
    <2>1. GroupRoutes \/ TaskRoutes
      BY DEF OthersWrite
    <2> QED BY <2>1 DEF GroupRoutes, TaskRoutes, TogglePinGroup, DeleteGroup, DeleteTask, UpdateTask,
         RemoveMemberFromGroup, CancelInvite, CreateTask, SendMessage, InviteMemberToGroup,
         AddMemberToGroup, AcceptInvite
  <1> QED BY <1>1, <1>2 DEF RouteBegun, Idle

(* A step that leaves the tables leaves where the route stands. *)
LEMMA MovedRoute ==
  ASSUME SyncInv, SyncInv', RouteBegun, SentBefore, AnsweredBefore, UNCHANGED <<tables, job>>
  PROVE  RouteBegun'
  <1>1. CASE job = Idle
    BY <1>1 DEF RouteBegun, Idle
  <1>2. CASE job # Idle
    <2>1. DOMAIN answer' = DOMAIN answer /\ \A j \in DOMAIN answer : SameReply(answer'[j], answer[j])
      BY <1>2 DEF AnsweredBefore
    <2>2. answer # <<>> => DOMAIN answer = {1}
      BY MailTypes, OneElement
    <2>3. answer' # <<>> => DOMAIN answer' = {1}
      BY MailTypesNext, OneElement
    <2>4. answer' # <<>> => answer # <<>>
      BY <2>1, <2>3
    <2>5. answer # <<>> => answer' # <<>>
      BY <2>1, <2>2
    <2>6. answer' # <<>> => answer'[1].call = answer[1].call /\ answer'[1].id = answer[1].id
      BY <2>1, <2>2, <2>4 DEF SameReply
    <2>7. ASSUME answer' # <<>>, Joins PROVE Joins'
      BY <2>6, <2>7 DEF Joins
    <2>8. ASSUME answer' # <<>>, Creates PROVE Creates'
      <3>1. /\ job' = [pc |-> "creatorMember", user |-> Me, group |-> answer'[1].id]
            /\ job'.group \in groups' /\ job' = job
        BY <2>6, <2>8 DEF Creates, tables
      <3>2. /\ \A m \in members' \cup invites' : m[1] # job'.group
            /\ \A x \in tasks' \cup messages' : x.group # job'.group
        BY <2>8 DEF Creates, tables
      <3>3. \A i \in DOMAIN toClient' : IsReply(toClient'[i]) =>
               toClient'[i].call.group # job'.group /\ ~MakesGroup(toClient'[i], job'.group)
        <4>1. TAKE i \in DOMAIN toClient'
        <4>2. HAVE IsReply(toClient'[i])
        <4>3. PICK j \in DOMAIN toClient : SameReply(toClient'[i], toClient[j])
          BY <1>2, <4>2 DEF SentBefore
        <4> QED BY <2>8, <3>1, <4>3 DEF SameReply, Creates, MakesGroup
      <3> QED BY <3>1, <3>2, <3>3 DEF Creates
    <2> QED BY <2>4, <2>5, <2>6, <2>7, <2>8 DEF RouteBegun
  <1> QED BY <1>1, <1>2

(* Every step. *)
LEMMA RouteStep ==
  ASSUME SyncInv, SyncInv', CallsIssued, TablesSound, RouteBegun, SyncNext
  PROVE  RouteBegun'
  <1>1. CASE Serve
    BY <1>1, ServedRoute
  <1>2. CASE OthersWrite
    BY <1>2, OthersRoute
  <1>3. CASE Finish
    <2>1. job' = Idle
      BY <1>3 DEF Finish, CreatorMember, AcceptMember
    <2> QED BY <2>1 DEF RouteBegun, Idle
  <1>4. CASE ~Serve /\ ~OthersWrite /\ ~Finish
    <2>1. UNCHANGED <<tables, job>>
      BY <1>4 DEF SyncNext, vars, AnyClick, Click, LoadPush, TakeReply, Timeout, GiveUp, LogOut,
         SendReply, AiSend, LogIn, Login, Refresh, AutoRefresh, AiRead, AiPush
    <2> QED BY <1>4, <2>1, MovesStep, MovedRoute DEF MailMoves
  <1> QED BY <1>1, <1>2, <1>3, <1>4

----------------------------------------------------------------------------
(* The copy fits the tables, step by step *)

Current == sure /\ signedIn => AllGood /\ BasesFit

(* Each action of ClientSync keeps the copy of a current client fitting. *)
LEMMA CurrentStep ==
  ASSUME SyncInv, SyncInv', TablesSound, TablesSound', Onward, CallsIssued, RouteBegun, Current,
         SyncNext
  PROVE  Current'
  <1> SUFFICES ASSUME sure', signedIn' PROVE AllGood' /\ BasesFit'
    BY DEF Current
  <1>1. CASE AnyClick
    <2>1. PICK r \in GroupClicks \cup MemberClicks \cup TaskClicks \cup NewClicks : Click(r)
      BY <1>1 DEF AnyClick
    <2>2. r \in Call
      BY <2>1, ClicksAreCalls DEF SyncInv, SyncTypeOK
    <2>3. AllGood /\ BasesFit
      BY <2>1 DEF Click, Current
    <2> QED BY <2>1, <2>2, <2>3, ClickCopy
  <1>2. CASE LoadPush
    <2>1. sure => AllGood /\ BasesFit
      BY <1>2 DEF LoadPush, Current
    <2> QED BY <1>2, <2>1, LoadPushCopy
  <1>3. CASE TakeReply
    <2>1. AllGood /\ BasesFit
      BY <1>3 DEF TakeReply, Current
    <2> QED BY <1>3, <2>1, TakeReplyCopy
  <1>4. CASE Timeout \/ LogOut \/ AiSend
    BY <1>4 DEF Timeout, GiveUp, LogOut, AiSend
  <1>5. CASE LogIn
    BY <1>5, LogInCopy
  <1>6. CASE Serve
    <2>1. signedIn /\ AllGood /\ BasesFit
      BY <1>6 DEF Serve, client, Current
    <2> QED BY <1>6, <2>1, ServeCopy
  <1>7. CASE Finish
    <2>1. signedIn /\ AllGood /\ BasesFit
      BY <1>7 DEF Finish, client, Current
    <2> QED BY <1>7, <2>1, FinishCopy
  <1>8. CASE SendReply
    <2>1. signedIn /\ AllGood /\ BasesFit
      BY <1>8 DEF SendReply, client, Current
    <2> QED BY <1>8, <2>1, SendReplyCopy
  <1>9. CASE OthersWrite
    <2>1. AllGood /\ BasesFit
      BY <1>9 DEF OthersWrite, client, Current
    <2>2. next'.task >= next.task
      BY DEF Onward
    <2> QED BY <1>9, <2>1, <2>2, OthersCopy
  <1>10. CASE Refresh
    <2>1. AllGood
      BY <1>10 DEF Refresh, client, Current
    <2> QED BY <1>10, <2>1, RefreshCopy
  <1>11. CASE AiRead
    <2>1. AllGood /\ BasesFit
      BY <1>11 DEF AiRead, client, Current
    <2> QED BY <1>11, <2>1, AiReadCopy
  <1> QED BY <1>1, <1>2, <1>3, <1>4, <1>5, <1>6, <1>7, <1>8, <1>9, <1>10, <1>11 DEF SyncNext

(* CopyInv, with the copies by their bases. *)
LEMMA CurrentIsCopy == CopyInv <=> /\ SyncInv /\ TablesSound /\ CallsIssued /\ RouteBegun /\ Current
  BY CopyIsBase DEF CopyInv, Current

(* The same in the next state. *)
LEMMA CurrentIsCopyNext ==
  CopyInv' <=> SyncInv' /\ TablesSound' /\ CallsIssued' /\ RouteBegun' /\ Current'
  BY CurrentIsCopy, PTL

(* A step that changes nothing. *)
LEMMA StillCopy == ASSUME CopyInv, SyncInv', UNCHANGED syncVars PROVE CopyInv'
  <1>1. /\ UNCHANGED <<tables, next, job, served>> /\ UNCHANGED <<toServer, answer, toClient>>
        /\ UNCHANGED <<local, sure, signedIn>>
    BY DEF syncVars, vars, client, wire
  <1>2. SyncInv /\ TablesSound /\ CallsIssued /\ RouteBegun /\ Current
    BY CurrentIsCopy
  <1>3. TypeOK
    BY <1>2 DEF SyncInv, SyncTypeOK
  <1>4. Onward
    BY <1>1, <1>2, <1>3, SameOnward
  <1>5. MailMoves
    BY <1>1, <1>2, SameAsked, SameAnswer, SameSent DEF MailMoves
  <1>6. CallsIssued' /\ RouteBegun'
    BY <1>1, <1>2, <1>4, <1>5, MovedCalls, MovedRoute DEF MailMoves
  <1>7. Current'
    <2>1. AllGood => AllGood'
      BY <1>1 DEF AllGood
    <2>2. Shown' = Shown /\ Window' = Window /\ Coming' = Coming /\ Asked' = Asked
      <3>1. Joining' = Joining
        BY <1>1 DEF Joining, tables
      <3>2. Window' = Window /\ Coming' = Coming
        BY <1>1 DEF Window, Coming
      <3>3. Asked' = Asked
        BY <1>1, <3>2, AskedIs, AskedIsNext DEF Calls
      <3> QED BY <1>1, <3>1, <3>2, <3>3, SameShown DEF tables
    <2>3. BasesFit => BasesFit'
      BY <1>1, <2>2 DEF BasesFit
    <2> QED BY <1>1, <1>2, <2>1, <2>3 DEF Current
  <1> QED BY <1>4, <1>6, <1>7, CurrentIsCopyNext DEF Onward

(* CopyInv is inductive. *)
LEMMA CopyStep == CopyInv /\ [SyncNext]_syncVars => CopyInv'
  <1> SUFFICES ASSUME CopyInv, [SyncNext]_syncVars PROVE CopyInv'
    OBVIOUS
  <1>1. SyncInv /\ TablesSound /\ CallsIssued /\ RouteBegun /\ Current
    BY CurrentIsCopy
  <1>2. SyncInv'
    BY <1>1, SyncStep
  <1>3. CASE UNCHANGED syncVars
    BY <1>2, <1>3, StillCopy
  <1>4. CASE SyncNext
    <2>1. Onward /\ TablesSound'
      BY <1>1, <1>4, TablesStep DEF Onward
    <2>2. CallsIssued' /\ RouteBegun'
      BY <1>1, <1>2, <1>4, CallsStep, RouteStep
    <2>3. Current'
      BY <1>1, <1>2, <1>4, <2>1, CurrentStep
    <2> QED BY <1>2, <2>1, <2>2, <2>3, CurrentIsCopyNext
  <1> QED BY <1>3, <1>4

(* The tables the program starts with. *)
LEMMA InitTables == SyncInit => TablesSound
  <1> SUFFICES ASSUME SyncInit PROVE TablesSound
    OBVIOUS
  <1> DEFINE names == CHOOSE f \in [{1, 2} -> Names] : f[1] # f[2]
             n(u) == [id |-> u, name |-> names[u]]
             t(u) == [id |-> u, group |-> u, owner |-> u, body |-> FirstBody]
             m(u) == [id |-> u, group |-> u, user |-> u]
  <1>1. /\ users = {n(1), n(2)} /\ groups = {1, 2}
        /\ tasks = {t(1), t(2)} /\ messages = {m(1), m(2)}
        /\ next = [user |-> 3, group |-> 3, task |-> 3, message |-> 3]
    BY DEF SyncInit
  <1>2. /\ \A u \in {1, 2} : n(u).id = u
        /\ \A u \in {1, 2} : t(u).id = u /\ t(u).group = u /\ t(u).owner = u
        /\ \A u \in {1, 2} : m(u).id = u /\ m(u).group = u /\ m(u).user = u
    OBVIOUS
  <1> HIDE DEF n, t, m, names
  <1>3. UserIds = {1, 2}
    BY <1>1, <1>2 DEF UserIds
  <1>4. members \cup invites \cup pins \subseteq groups \X UserIds
    <2>1. {<<1, 1>>, <<2, 2>>, <<1, 2>>, <<2, 1>>} \subseteq {1, 2} \X {1, 2}
      OBVIOUS
    <2>2. \A x : /\ x \in members => x \in {<<1, 1>>, <<2, 2>>, <<1, 2>>, <<2, 1>>}
                 /\ x \in invites => x \in {<<1, 1>>, <<2, 2>>, <<1, 2>>, <<2, 1>>}
                 /\ x \in pins => x \in {<<1, 1>>, <<2, 2>>, <<1, 2>>, <<2, 1>>}
      BY DEF SyncInit
    <2> QED BY <1>1, <1>3, <2>1, <2>2
  <1>5. NoDanglingRows
    BY <1>1, <1>2, <1>3, <1>4 DEF NoDanglingRows
  <1>6. IdsBelowNext
    BY <1>1, <1>2 DEF IdsBelowNext
  <1>7. OneTaskPerId
    BY <1>1, <1>2 DEF OneTaskPerId
  <1> QED BY <1>3, <1>5, <1>6, <1>7, ClientSyncAssumption DEF TablesSound

(* CopyInv holds at the start. *)
LEMMA InitCopy == SyncInit => CopyInv
  <1> SUFFICES ASSUME SyncInit PROVE CopyInv
    OBVIOUS
  <1>1. SyncInv /\ TablesSound
    BY InitSync, InitTables
  <1>2. /\ job = Idle /\ toServer = <<>> /\ answer = <<>> /\ toClient = <<>>
        /\ local = Loaded(View(Me)) /\ next.group = 3 /\ next.task = 3
    BY DEF SyncInit
  <1>3. DOMAIN toServer = {} /\ DOMAIN answer = {} /\ DOMAIN toClient = {}
    BY <1>2
  <1>4. CallsIssued
    BY <1>2, <1>3 DEF CallsIssued
  <1>5. RouteBegun
    BY <1>2 DEF RouteBegun, Idle
  <1>6. TypeOK /\ FiniteTables
    BY <1>1 DEF SyncInv, SyncTypeOK
  <1>7. QuietFits
    BY <1>1, <1>2, <1>6, PayloadFits DEF QuietFits
  <1>8. Current
    BY <1>7, QuietIsFit DEF Current
  <1> QED BY <1>1, <1>4, <1>5, <1>8, CurrentIsCopy

----------------------------------------------------------------------------
(* Theorems *)

(* What the client shows and what is on its way to it fit together with the
   tables, in every state. *)
THEOREM CopyInvHolds == SyncSafe => []CopyInv
  BY InitCopy, CopyStep, PTL DEF SyncSafe

(* With nothing under way, and nothing but its own clicks since the last
   payload that found it at rest, the client shows the tables. *)
THEOREM OptimismHolds == SyncSafe => []OptimismIsRight
  <1>1. CopyInv => OptimismIsRight
    <2> SUFFICES ASSUME CopyInv, signedIn, sure, Quiet PROVE UpToDate
      BY DEF OptimismIsRight
    <2>1. SyncInv /\ BasesFit
      BY CurrentIsCopy DEF Current
    <2>2. Fits(local, <<>>, {}, Shown) /\ Shown.joining = {}
      BY <2>1, QuietCopyFits
    <2>3. Readable(View(Me)) /\ Tells(Shown, View(Me)) /\ local \in Local
      BY <2>1, ShownReads DEF SyncInv, SyncTypeOK, ShownFine
    <2> DEFINE view == View(Me)
               s == Shown
    <2> HIDE DEF view, s
    <2>4. Readable(view) /\ Tells(s, view) /\ s.joining = {} /\ Fits(local, <<>>, {}, s)
      BY <2>2, <2>3 DEF view, s
    <2>5. Agrees(local, Loaded(view))
      BY <2>3, <2>4, FitsAgrees
    <2> QED BY <2>5 DEF view, UpToDate
  <1> QED BY <1>1, CopyInvHolds, PTL
=============================================================================
