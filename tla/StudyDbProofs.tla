--------------------------- MODULE StudyDbProofs ---------------------------
(***************************************************************************)
(* Proofs about StudyDb for every value of its constants.  Inv is the      *)
(* inductive invariant: types, references, ids below the sequences, and    *)
(* where a route of several statements stands.  Each of its conjuncts is   *)
(* carried over a step by a lemma of its own, one step per action.         *)
(***************************************************************************)
EXTENDS StudyDb, TLAPS

(* Every push leaves a set of users, whatever it was given. *)
LEMMA PushType == ASSUME NEW S, Push(S) PROVE stale' \subseteq UserId
  BY DEF Push

(* What an INSERT into a (group, user) table adds refers to existing rows. *)
LEMMA LinkedType ==
  ASSUME TypeOK, NEW g, NEW u
  PROVE  /\ Linked(g, u) \subseteq groups \X UserIds
         /\ Linked(g, u) \subseteq GroupId \X UserId
         /\ Linked(g, u) \subseteq {<<g, u>>}
  <1>1. UserIds \subseteq UserId
    BY DEF TypeOK, UserRow, UserIds
  <1> QED BY <1>1 DEF Linked, TypeOK

(* The tables start empty. *)
LEMMA InitInv == Init => Inv
  BY BoundsAssumption
     DEF Init, Inv, TypeOK, NoDanglingRows, IdsBelowNext, JobInProgress, Idle,
         UserRow, TaskRow, MessageRow, Sequence, Job, Steps, UserIds, UserId,
         GroupId, TaskId, MessageId, Welcoming, GroupMade, BeforeTask, BeforeMessage

(* The statements keep the types of the tables they write. *)
LEMMA DropType ==
  ASSUME TypeOK, NEW i, DropUser(i) \/ DropGroup(i)
  PROVE  /\ users' \subseteq UserRow /\ groups' \subseteq GroupId
         /\ members' \subseteq GroupId \X UserId
         /\ invites' \subseteq GroupId \X UserId
         /\ pins' \subseteq GroupId \X UserId
         /\ tasks' \subseteq TaskRow /\ messages' \subseteq MessageRow
  BY DEF TypeOK, DropUser, DropGroup

LEMMA InsertTaskType ==
  ASSUME TypeOK, next.task <= MaxTask,
         NEW g, NEW u, NEW b \in Bodies, InsertTask(g, u, b)
  PROVE  tasks' \subseteq TaskRow /\ next' \in Sequence
  <1>1. CASE <<g, u>> \in groups \X UserIds
    <2>1. g \in GroupId /\ u \in UserId
      BY <1>1 DEF TypeOK, UserIds, UserRow
    <2>2. next.task \in TaskId /\ next.task + 1 \in 1..MaxTask + 1
      BY BoundsAssumption DEF TypeOK, Sequence, TaskId
    <2>3. [id |-> next.task, group |-> g, owner |-> u, body |-> b] \in TaskRow
      BY <2>1, <2>2 DEF TaskRow
    <2>4. next' \in Sequence
      BY <1>1, <2>2 DEF InsertTask, TypeOK, Sequence
    <2> QED BY <1>1, <2>3, <2>4 DEF InsertTask, TypeOK
  <1>2. CASE <<g, u>> \notin groups \X UserIds
    BY <1>2 DEF InsertTask, TypeOK
  <1> QED BY <1>1, <1>2

LEMMA InsertMessageType ==
  ASSUME TypeOK, next.message <= MaxMessage, NEW g, NEW u, InsertMessage(g, u)
  PROVE  messages' \subseteq MessageRow /\ next' \in Sequence
  <1>1. CASE <<g, u>> \in groups \X UserIds
    <2>1. g \in GroupId /\ u \in UserId
      BY <1>1 DEF TypeOK, UserIds, UserRow
    <2>2. next.message \in MessageId /\ next.message + 1 \in 1..MaxMessage + 1
      BY BoundsAssumption DEF TypeOK, Sequence, MessageId
    <2>3. [id |-> next.message, group |-> g, user |-> u] \in MessageRow
      BY <2>1, <2>2 DEF MessageRow
    <2>4. next' \in Sequence
      BY <1>1, <2>2 DEF InsertMessage, TypeOK, Sequence
    <2> QED BY <1>1, <2>3, <2>4 DEF InsertMessage, TypeOK
  <1>2. CASE <<g, u>> \notin groups \X UserIds
    BY <1>2 DEF InsertMessage, TypeOK
  <1> QED BY <1>1, <1>2

LEMMA InsertGroupType ==
  ASSUME TypeOK, next.group <= MaxGroup, InsertGroup
  PROVE  groups' \subseteq GroupId /\ next' \in Sequence /\ next.group \in GroupId
  <1>1. next.group \in GroupId /\ next.group + 1 \in 1..MaxGroup + 1
    BY BoundsAssumption DEF TypeOK, Sequence, GroupId
  <1> QED BY <1>1 DEF InsertGroup, TypeOK, Sequence

LEMMA TogglePinType ==
  ASSUME TypeOK, NEW g, NEW u, TogglePinRow(g, u)
  PROVE  pins' \subseteq GroupId \X UserId
  BY LinkedType DEF TogglePinRow, TypeOK

(* The ids that can stand in a job, and the jobs a step can leave. *)
LEMMA JobType ==
  ASSUME TypeOK
  PROVE  /\ Idle \in Job
         /\ IssuedUsers \subseteq UserId /\ IssuedGroups \subseteq GroupId
         /\ UserIds \subseteq UserId
         /\ \A p \in Steps, u \in UserId, g \in GroupId \cup {0} :
               [pc |-> p, user |-> u, group |-> g] \in Job
         /\ \A p \in Steps : [job EXCEPT !.pc = p] \in Job
         /\ \A p \in Steps, g \in GroupId : [job EXCEPT !.pc = p, !.group = g] \in Job
  <1>1. Idle \in Job
    BY BoundsAssumption DEF Idle, Job, Steps
  <1>2. IssuedUsers \subseteq UserId /\ IssuedGroups \subseteq GroupId
    BY BoundsAssumption DEF TypeOK, Sequence, IssuedUsers, IssuedGroups, UserId, GroupId
  <1>3. UserIds \subseteq UserId
    BY DEF TypeOK, UserIds, UserRow
  <1>4. UserId \subseteq 0..MaxUser /\ GroupId \cup {0} \subseteq 0..MaxGroup
    BY BoundsAssumption DEF UserId, GroupId
  <1>5. \A p \in Steps, u \in UserId, g \in GroupId \cup {0} :
           [pc |-> p, user |-> u, group |-> g] \in Job
    BY <1>4 DEF Job
  <1>6. \A p \in Steps : [job EXCEPT !.pc = p] \in Job
    BY DEF TypeOK, Job
  <1>7. \A p \in Steps, g \in GroupId : [job EXCEPT !.pc = p, !.group = g] \in Job
    BY <1>4 DEF TypeOK, Job
  <1> QED BY <1>1, <1>2, <1>3, <1>5, <1>6, <1>7

(* The routes keep the types, whatever rows the ids in their requests name. *)
LEMMA UserRouteTypes ==
  ASSUME TypeOK, served' \in 0..MaxRoutes,
         NEW u \in UserId, DeleteUser(u) \/ CreateGroup(u)
  PROVE  TypeOK'
  <1>1. CASE DeleteUser(u)
    BY <1>1, DropType, PushType DEF DeleteUser, TypeOK
  <1>2. CASE CreateGroup(u)
    <2>1. groups' \subseteq GroupId /\ next' \in Sequence /\ next.group \in GroupId
      BY <1>2, InsertGroupType DEF CreateGroup
    <2>2. job' \in Job
      BY <1>2, <2>1, JobType DEF CreateGroup, Steps
    <2> QED BY <1>2, <2>1, <2>2, PushType DEF CreateGroup, TypeOK
  <1> QED BY <1>1, <1>2

LEMMA GroupRouteTypes ==
  ASSUME TypeOK, served' \in 0..MaxRoutes,
         NEW g \in GroupId, NEW u \in UserId, NEW b \in Bodies,
         \/ DeleteGroup(g) \/ AddMemberToGroup(g, u) \/ InviteMemberToGroup(g, u)
         \/ TogglePinGroup(g, u) \/ RemoveMemberFromGroup(g, u) \/ CancelInvite(g, u)
         \/ AcceptInvite(g, u) \/ SendMessage(g, u) \/ CreateTask(g, u, b)
  PROVE  TypeOK'
  <1>1. CASE DeleteGroup(g)
    BY <1>1, DropType, PushType DEF DeleteGroup, TypeOK
  <1>2. CASE AddMemberToGroup(g, u)
    BY <1>2, LinkedType, PushType DEF AddMemberToGroup, TypeOK
  <1>3. CASE InviteMemberToGroup(g, u)
    BY <1>3, LinkedType, PushType DEF InviteMemberToGroup, TypeOK
  <1>4. CASE TogglePinGroup(g, u)
    BY <1>4, TogglePinType, PushType DEF TogglePinGroup, TypeOK
  <1>5. CASE RemoveMemberFromGroup(g, u) \/ CancelInvite(g, u)
    BY <1>5, PushType DEF RemoveMemberFromGroup, Without, CancelInvite, TypeOK
  <1>6. CASE AcceptInvite(g, u)
    <2>1. job' \in Job
      BY <1>6, JobType DEF AcceptInvite, Without, Steps
    <2> QED BY <1>6, <2>1, PushType DEF AcceptInvite, Without, TypeOK
  <1>7. CASE SendMessage(g, u)
    BY <1>7, InsertMessageType, PushType DEF SendMessage, TypeOK
  <1>8. CASE CreateTask(g, u, b)
    BY <1>8, InsertTaskType, PushType DEF CreateTask, TypeOK
  <1> QED BY <1>1, <1>2, <1>3, <1>4, <1>5, <1>6, <1>7, <1>8

LEMMA TaskRouteTypes ==
  ASSUME TypeOK, served' \in 0..MaxRoutes,
         NEW t, NEW b \in Bodies, DeleteTask(t) \/ UpdateTask(t, b)
  PROVE  TypeOK'
  <1>1. CASE DeleteTask(t)
    BY <1>1, PushType DEF DeleteTask, DroppedTask, TypeOK
  <1>2. CASE UpdateTask(t, b)
    <2>1. \A x \in TaskRow : [x EXCEPT !.body = b] \in TaskRow
      BY DEF TaskRow
    <2>2. tasks' \subseteq TaskRow
      BY <1>2, <2>1 DEF UpdateTask, Updated, TypeOK
    <2> QED BY <1>2, <2>2, PushType DEF UpdateTask, Updated, TypeOK
  <1> QED BY <1>1, <1>2

(* So do the statements that end createGroup and acceptInvite. *)
LEMMA MemberTypes ==
  ASSUME TypeOK, served' \in 0..MaxRoutes, CreatorMember \/ AcceptMember
  PROVE  TypeOK'
  <1>1. CASE CreatorMember
    BY <1>1, LinkedType, JobType, PushType DEF CreatorMember, TypeOK
  <1>2. CASE AcceptMember
    BY <1>2, LinkedType, JobType, PushType DEF AcceptMember, TypeOK
  <1> QED BY <1>1, <1>2

(* The ids other clients put into their requests have the types they should. *)
LEMMA OthersTypes ==
  ASSUME TypeOK, served' \in 0..MaxRoutes, GroupRoutes \/ TaskRoutes
  PROVE  TypeOK'
  <1>1. CASE GroupRoutes
    <2>1. PICK g \in IssuedGroups :
             \/ DeleteGroup(g)
             \/ \E u \in UserIds : AddMemberToGroup(g, u) \/ InviteMemberToGroup(g, u)
             \/ \E u \in IssuedUsers :
                   \/ TogglePinGroup(g, u) \/ RemoveMemberFromGroup(g, u)
                   \/ CancelInvite(g, u) \/ AcceptInvite(g, u) \/ SendMessage(g, u)
                   \/ \E b \in Bodies : CreateTask(g, u, b)
      BY <1>1 DEF GroupRoutes
    <2>2. CASE DeleteGroup(g)
      BY <2>2, DropType, PushType DEF DeleteGroup, TypeOK
    <2>3. CASE ~DeleteGroup(g)
      BY <2>1, <2>3, JobType, BodyAssumption, GroupRouteTypes
    <2> QED BY <2>2, <2>3
  <1>2. CASE TaskRoutes
    BY <1>2, BodyAssumption, TaskRouteTypes DEF TaskRoutes
  <1> QED BY <1>1, <1>2

(* The types, action by action. *)
LEMMA TypeStep == Inv /\ [Next]_vars => TypeOK'
  <1> SUFFICES ASSUME Inv, [Next]_vars PROVE TypeOK'
    OBVIOUS
  <1>0. TypeOK
    BY DEF Inv
  <1>1. CASE Request
    <2>0. served' \in 0..MaxRoutes
      BY <1>0, <1>1, BoundsAssumption DEF Request, TypeOK
    <2>1. ASSUME NEW n \in Names, CreateUser(n) PROVE TypeOK'
      <3>1. next.user \in UserId /\ next.user + 1 \in 1..MaxUser + 1
        BY <1>0, <2>1, BoundsAssumption DEF CreateUser, InsertUser, TypeOK, Sequence, UserId
      <3>2. users' \subseteq UserRow
        BY <1>0, <2>1, <3>1 DEF CreateUser, InsertUser, TypeOK, UserRow
      <3>3. next' \in Sequence
        BY <1>0, <2>1, <3>1 DEF CreateUser, InsertUser, TypeOK, Sequence
      <3>4. job' \in Job
        BY <1>0, <2>1, <3>1, JobType DEF CreateUser, InsertUser, Steps
      <3> QED BY <1>0, <2>0, <2>1, <3>2, <3>3, <3>4, PushType DEF CreateUser, InsertUser, TypeOK
    <2>2. ASSUME NEW u \in IssuedUsers, DeleteUser(u) \/ CreateGroup(u) PROVE TypeOK'
      BY <1>0, <2>0, <2>2, JobType, UserRouteTypes
    <2>3. CASE GroupRoutes \/ TaskRoutes
      BY <1>0, <2>0, <2>3, OthersTypes
    <2> QED BY <1>1, <2>1, <2>2, <2>3 DEF Request, UserRoutes
  <1>2. CASE JobSteps
    <2>0. served' \in 0..MaxRoutes
      BY <1>0, <1>2 DEF JobSteps, TypeOK
    <2>1. CASE CreatorMember \/ AcceptMember
      BY <1>0, <2>0, <2>1, MemberTypes
    <2>3. CASE WelcomeGroup
      <3>1. groups' \subseteq GroupId /\ next' \in Sequence /\ next.group \in GroupId
        BY <1>0, <2>3, InsertGroupType DEF WelcomeGroup, Inv, JobInProgress
      <3>2. job' \in Job
        BY <1>0, <2>3, <3>1, JobType DEF WelcomeGroup, Steps
      <3> QED BY <1>0, <2>0, <2>3, <3>1, <3>2, PushType DEF WelcomeGroup, TypeOK
    <2>4. CASE WelcomeMember
      <3>1. job' \in Job
        BY <1>0, <2>4, JobType DEF WelcomeMember, Steps
      <3> QED BY <1>0, <2>0, <2>4, <3>1, LinkedType, PushType DEF WelcomeMember, TypeOK
    <2>5. CASE WelcomeTask
      <3>1. tasks' \subseteq TaskRow /\ next' \in Sequence
        BY <1>0, <2>5, InsertTaskType, BodyAssumption
           DEF WelcomeTask, Inv, JobInProgress, BeforeTask
      <3>2. job' \in Job
        BY <1>0, <2>5, JobType DEF WelcomeTask, Steps
      <3> QED BY <1>0, <2>0, <2>5, <3>1, <3>2, PushType DEF WelcomeTask, TypeOK
    <2>6. CASE WelcomeMessage
      <3>1. messages' \subseteq MessageRow /\ next' \in Sequence
        BY <1>0, <2>6, InsertMessageType
           DEF WelcomeMessage, Inv, JobInProgress, BeforeMessage
      <3>2. job' \in Job
        BY <1>0, <2>6, JobType DEF WelcomeMessage, Steps
      <3> QED BY <1>0, <2>0, <2>6, <3>1, <3>2, PushType DEF WelcomeMessage, TypeOK
    <2>7. CASE WelcomePin
      BY <1>0, <2>0, <2>7, TogglePinType, JobType, PushType DEF WelcomePin, TypeOK
    <2> QED BY <1>2, <2>1, <2>3, <2>4, <2>5, <2>6, <2>7 DEF JobSteps
  <1>3. CASE Payloads
    BY <1>0, <1>3, PushType DEF Payloads, Login, AutoRefresh, AiPush, tables, TypeOK
  <1>4. CASE Restart
    BY <1>0, <1>4, JobType DEF Restart, Crash, tables, TypeOK
  <1>5. CASE UNCHANGED vars
    BY <1>0, <1>5 DEF vars, tables, TypeOK
  <1> QED BY <1>1, <1>2, <1>3, <1>4, <1>5 DEF Next

----------------------------------------------------------------------------
(* References *)

LEMMA SameUsers == users' = users => UserIds' = UserIds
  BY DEF UserIds

(* A deletion takes along every row that refers to what it deletes. *)
LEMMA DropReferences ==
  ASSUME TypeOK, NoDanglingRows, NEW i, DropUser(i) \/ DropGroup(i)
  PROVE  NoDanglingRows'
  <1>1. CASE DropUser(i)
    <2>1. UserIds' = UserIds \ {i}
      BY <1>1 DEF DropUser, UserIds
    <2>2. (members \cup invites \cup pins)' \subseteq groups' \X UserIds'
      BY <1>1, <2>1 DEF DropUser, NoDanglingRows, TypeOK
    <2>3. \A t \in tasks' : t.group \in groups' /\ t.owner \in UserIds'
      BY <1>1, <2>1 DEF DropUser, NoDanglingRows
    <2>4. \A m \in messages' : m.group \in groups' /\ m.user \in UserIds'
      BY <1>1, <2>1 DEF DropUser, NoDanglingRows
    <2> QED BY <2>2, <2>3, <2>4 DEF NoDanglingRows
  <1>2. CASE DropGroup(i)
    <2>1. UserIds' = UserIds
      BY <1>2, SameUsers DEF DropGroup
    <2>2. (members \cup invites \cup pins)' \subseteq groups' \X UserIds'
      BY <1>2, <2>1 DEF DropGroup, NoDanglingRows, TypeOK
    <2>3. \A t \in tasks' : t.group \in groups' /\ t.owner \in UserIds'
      BY <1>2, <2>1 DEF DropGroup, NoDanglingRows
    <2>4. \A m \in messages' : m.group \in groups' /\ m.user \in UserIds'
      BY <1>2, <2>1 DEF DropGroup, NoDanglingRows
    <2> QED BY <2>2, <2>3, <2>4 DEF NoDanglingRows
  <1> QED BY <1>1, <1>2

(* The insertions check their foreign keys. *)
LEMMA InsertTaskReferences ==
  ASSUME NoDanglingRows, NEW g, NEW u, NEW b, InsertTask(g, u, b)
  PROVE  \A t \in tasks' : t.group \in groups /\ t.owner \in UserIds
  BY DEF InsertTask, NoDanglingRows

LEMMA InsertMessageReferences ==
  ASSUME NoDanglingRows, NEW g, NEW u, InsertMessage(g, u)
  PROVE  \A m \in messages' : m.group \in groups /\ m.user \in UserIds
  BY DEF InsertMessage, NoDanglingRows

LEMMA TogglePinReferences ==
  ASSUME TypeOK, NoDanglingRows, NEW g, NEW u, TogglePinRow(g, u)
  PROVE  pins' \subseteq groups \X UserIds
  BY LinkedType DEF TogglePinRow, NoDanglingRows

(* An update changes what a task says, never which row it is. *)
LEMMA UpdateTaskRows ==
  ASSUME TypeOK, NEW t, NEW b, UpdateTask(t, b)
  PROVE  \A x \in tasks' : \E old \in tasks :
            old.id = x.id /\ old.group = x.group /\ old.owner = x.owner
  <1>1. TAKE x \in tasks'
  <1>2. PICK old \in tasks : x = IF old.id = t THEN [old EXCEPT !.body = b] ELSE old
    BY DEF UpdateTask, Updated
  <1>3. old \in TaskRow
    BY DEF TypeOK
  <1> QED BY <1>2, <1>3 DEF TaskRow

(* The references, action by action. *)
LEMMA ReferenceStep == Inv /\ [Next]_vars => NoDanglingRows'
  <1> SUFFICES ASSUME Inv, [Next]_vars PROVE NoDanglingRows'
    OBVIOUS
  <1>0. TypeOK /\ NoDanglingRows
    BY DEF Inv
  <1>1. CASE Request
    <2>1. ASSUME NEW n \in Names, CreateUser(n) PROVE NoDanglingRows'
      <3>1. UserIds \subseteq UserIds'
        BY <2>1 DEF CreateUser, InsertUser, UserIds
      <3> QED BY <1>0, <2>1, <3>1 DEF CreateUser, InsertUser, NoDanglingRows
    <2>2. ASSUME NEW u \in IssuedUsers, DeleteUser(u) PROVE NoDanglingRows'
      BY <1>0, <2>2, DropReferences DEF DeleteUser
    <2>3. ASSUME NEW u \in IssuedUsers, CreateGroup(u) PROVE NoDanglingRows'
      BY <1>0, <2>3, SameUsers DEF CreateGroup, InsertGroup, NoDanglingRows
    <2>4. ASSUME NEW g \in IssuedGroups, DeleteGroup(g) PROVE NoDanglingRows'
      BY <1>0, <2>4, DropReferences DEF DeleteGroup
    <2>5. ASSUME NEW g \in IssuedGroups, NEW u \in UserIds,
                 AddMemberToGroup(g, u) \/ InviteMemberToGroup(g, u)
          PROVE  NoDanglingRows'
      <3>1. CASE AddMemberToGroup(g, u)
        BY <1>0, <3>1, LinkedType, SameUsers DEF AddMemberToGroup, NoDanglingRows
      <3>2. CASE InviteMemberToGroup(g, u)
        BY <1>0, <3>2, LinkedType, SameUsers DEF InviteMemberToGroup, NoDanglingRows
      <3> QED BY <2>5, <3>1, <3>2
    <2>6. ASSUME NEW g \in IssuedGroups, NEW u \in IssuedUsers, TogglePinGroup(g, u)
          PROVE  NoDanglingRows'
      BY <1>0, <2>6, TogglePinReferences, SameUsers DEF TogglePinGroup, NoDanglingRows
    <2>7. ASSUME NEW g \in IssuedGroups, NEW u \in IssuedUsers,
                 RemoveMemberFromGroup(g, u) \/ CancelInvite(g, u) \/ AcceptInvite(g, u)
          PROVE  NoDanglingRows'
      BY <1>0, <2>7, SameUsers
         DEF RemoveMemberFromGroup, Without, CancelInvite, AcceptInvite, NoDanglingRows
    <2>8. ASSUME NEW g \in IssuedGroups, NEW u \in IssuedUsers, SendMessage(g, u)
          PROVE  NoDanglingRows'
      BY <1>0, <2>8, InsertMessageReferences, SameUsers DEF SendMessage, NoDanglingRows
    <2>9. ASSUME NEW g \in IssuedGroups, NEW u \in IssuedUsers, NEW b \in Bodies,
                 CreateTask(g, u, b)
          PROVE  NoDanglingRows'
      BY <1>0, <2>9, InsertTaskReferences, SameUsers DEF CreateTask, NoDanglingRows
    <2>10. ASSUME NEW t \in IssuedTasks, DeleteTask(t) PROVE NoDanglingRows'
      BY <1>0, <2>10, SameUsers DEF DeleteTask, DroppedTask, NoDanglingRows
    <2>11. ASSUME NEW t \in IssuedTasks, NEW b \in Bodies, UpdateTask(t, b)
           PROVE  NoDanglingRows'
      <3>1. \A x \in tasks' : x.group \in groups /\ x.owner \in UserIds
        BY <1>0, <2>11, UpdateTaskRows DEF NoDanglingRows
      <3>2. /\ users' = users /\ groups' = groups /\ messages' = messages
            /\ members' = members /\ invites' = invites /\ pins' = pins
        BY <2>11 DEF UpdateTask, Updated
      <3> QED BY <1>0, <3>1, <3>2, SameUsers DEF NoDanglingRows
    <2> QED
      BY <1>1, <2>1, <2>2, <2>3, <2>4, <2>5, <2>6, <2>7, <2>8, <2>9, <2>10, <2>11
         DEF Request, UserRoutes, GroupRoutes, TaskRoutes
  <1>2. CASE JobSteps
    <2>1. CASE CreatorMember
      BY <1>0, <2>1, LinkedType, SameUsers DEF CreatorMember, NoDanglingRows
    <2>2. CASE AcceptMember
      BY <1>0, <2>2, LinkedType, SameUsers DEF AcceptMember, NoDanglingRows
    <2>3. CASE WelcomeGroup
      BY <1>0, <2>3, SameUsers DEF WelcomeGroup, InsertGroup, NoDanglingRows
    <2>4. CASE WelcomeMember
      BY <1>0, <2>4, LinkedType, SameUsers DEF WelcomeMember, NoDanglingRows
    <2>5. CASE WelcomeTask
      BY <1>0, <2>5, InsertTaskReferences, SameUsers DEF WelcomeTask, NoDanglingRows
    <2>6. CASE WelcomeMessage
      BY <1>0, <2>6, InsertMessageReferences, SameUsers DEF WelcomeMessage, NoDanglingRows
    <2>7. CASE WelcomePin
      BY <1>0, <2>7, TogglePinReferences, SameUsers DEF WelcomePin, NoDanglingRows
    <2> QED BY <1>2, <2>1, <2>2, <2>3, <2>4, <2>5, <2>6, <2>7 DEF JobSteps
  <1>3. CASE Payloads
    BY <1>0, <1>3, SameUsers DEF Payloads, Login, AutoRefresh, AiPush, tables, NoDanglingRows
  <1>4. CASE Restart
    BY <1>0, <1>4, SameUsers DEF Restart, Crash, tables, NoDanglingRows
  <1>5. CASE UNCHANGED vars
    BY <1>0, <1>5, SameUsers DEF vars, tables, NoDanglingRows
  <1> QED BY <1>1, <1>2, <1>3, <1>4, <1>5 DEF Next

----------------------------------------------------------------------------
(* Ids *)

(* A table that takes a new row moves its own sequence, by one. *)
LEMMA SequenceStep ==
  ASSUME TypeOK, NEW s \in {"user", "group", "task", "message"},
         next' = [next EXCEPT ![s] = @ + 1]
  PROVE  /\ \A r \in {"user", "group", "task", "message"} : next'[r] >= next[r]
         /\ next'[s] = next[s] + 1
  BY DEF TypeOK, Sequence

(* The steps that leave the sequences alone add no row with an id. *)
LEMMA NoNewRow ==
  ASSUME TypeOK, IdsBelowNext, next' = next, users' \subseteq users, groups' \subseteq groups,
         messages' \subseteq messages,
         \A t \in tasks' : \E old \in tasks :
            old.id = t.id /\ old.group = t.group /\ old.owner = t.owner
  PROVE  IdsBelowNext' /\ OneRowPerId
  <1>1. \A r \in {"user", "group", "task", "message"} : next'[r] >= next[r]
    BY DEF TypeOK, Sequence
  <1>2. IdsBelowNext'
    BY DEF IdsBelowNext
  <1> QED BY <1>1, <1>2 DEF OneRowPerId

LEMMA InsertTaskIds ==
  ASSUME TypeOK, IdsBelowNext, NEW g, NEW u, NEW b, InsertTask(g, u, b),
         users' = users, groups' = groups, messages' = messages
  PROVE  IdsBelowNext' /\ OneRowPerId
  <1>1. CASE <<g, u>> \in groups \X UserIds
    <2> DEFINE row == [id |-> next.task, group |-> g, owner |-> u, body |-> b]
    <2>1. tasks' = tasks \cup {row} /\ next' = [next EXCEPT !.task = @ + 1]
      BY <1>1 DEF InsertTask
    <2>2. /\ next'.user = next.user /\ next'.group = next.group
          /\ next'.message = next.message /\ next'.task = next.task + 1
      BY <2>1 DEF TypeOK, Sequence
    <2>3. \A r \in {"user", "group", "task", "message"} : next'[r] >= next[r]
      BY <2>1, SequenceStep
    <2>4. row.id = next.task /\ next.task \in Nat
      BY BoundsAssumption DEF TypeOK, Sequence
    <2>5. \A t \in tasks : t.id \in Nat
      BY DEF TypeOK, TaskRow, TaskId
    <2>6. \A t \in tasks' : t.id < next'.task
      BY <2>1, <2>2, <2>4, <2>5 DEF IdsBelowNext
    <2>7. \A t \in tasks' : t.id \in IssuedTasks => t \in tasks
      BY <2>1, <2>4 DEF IssuedTasks
    <2> HIDE DEF row
    <2> QED BY <2>2, <2>3, <2>6, <2>7 DEF IdsBelowNext, OneRowPerId
  <1>2. CASE <<g, u>> \notin groups \X UserIds
    BY <1>2, NoNewRow DEF InsertTask
  <1> QED BY <1>1, <1>2

LEMMA InsertMessageIds ==
  ASSUME TypeOK, IdsBelowNext, NEW g, NEW u, InsertMessage(g, u),
         users' = users, groups' = groups, tasks' = tasks
  PROVE  IdsBelowNext' /\ OneRowPerId
  <1>1. CASE <<g, u>> \in groups \X UserIds
    <2> DEFINE row == [id |-> next.message, group |-> g, user |-> u]
    <2>1. messages' = messages \cup {row} /\ next' = [next EXCEPT !.message = @ + 1]
      BY <1>1 DEF InsertMessage
    <2>2. /\ next'.user = next.user /\ next'.group = next.group
          /\ next'.task = next.task /\ next'.message = next.message + 1
      BY <2>1 DEF TypeOK, Sequence
    <2>3. \A r \in {"user", "group", "task", "message"} : next'[r] >= next[r]
      BY <2>1, SequenceStep
    <2>4. row.id = next.message /\ next.message \in Nat
      BY BoundsAssumption DEF TypeOK, Sequence
    <2>5. \A m \in messages : m.id \in Nat
      BY DEF TypeOK, MessageRow, MessageId
    <2>6. \A m \in messages' : m.id < next'.message
      BY <2>1, <2>2, <2>4, <2>5 DEF IdsBelowNext
    <2>7. \A m \in messages' : m.id < next.message => m \in messages
      BY <2>1, <2>4
    <2> HIDE DEF row
    <2> QED BY <2>2, <2>3, <2>6, <2>7 DEF IdsBelowNext, OneRowPerId
  <1>2. CASE <<g, u>> \notin groups \X UserIds
    BY <1>2, NoNewRow DEF InsertMessage
  <1> QED BY <1>1, <1>2

LEMMA InsertGroupIds ==
  ASSUME TypeOK, IdsBelowNext, InsertGroup,
         users' = users, tasks' = tasks, messages' = messages
  PROVE  IdsBelowNext' /\ OneRowPerId
  <1>1. groups' = groups \cup {next.group} /\ next' = [next EXCEPT !.group = @ + 1]
    BY DEF InsertGroup
  <1>2. /\ next'.user = next.user /\ next'.message = next.message
        /\ next'.task = next.task /\ next'.group = next.group + 1
    BY <1>1 DEF TypeOK, Sequence
  <1>3. \A r \in {"user", "group", "task", "message"} : next'[r] >= next[r]
    BY <1>1, SequenceStep
  <1>4. next.group \in Nat /\ \A g \in groups : g \in Nat
    BY BoundsAssumption DEF TypeOK, Sequence, GroupId
  <1>5. \A g \in groups' : g < next'.group
    BY <1>1, <1>2, <1>4 DEF IdsBelowNext
  <1>6. groups' \cap IssuedGroups \subseteq groups
    BY <1>1, <1>4 DEF IssuedGroups
  <1> QED BY <1>2, <1>3, <1>5, <1>6 DEF IdsBelowNext, OneRowPerId

(* The ids, action by action. *)
LEMMA IdStep == Inv /\ [Next]_vars => IdsBelowNext' /\ OneRowPerId
  <1> SUFFICES ASSUME Inv, [Next]_vars PROVE IdsBelowNext' /\ OneRowPerId
    OBVIOUS
  <1>0. TypeOK /\ IdsBelowNext
    BY DEF Inv
  <1>1. CASE Request
    <2>1. ASSUME NEW n \in Names, CreateUser(n) PROVE IdsBelowNext' /\ OneRowPerId
      <3> DEFINE row == [id |-> next.user, name |-> n]
      <3>1. users' = users \cup {row} /\ next' = [next EXCEPT !.user = @ + 1]
        BY <2>1 DEF CreateUser, InsertUser
      <3>2. /\ next'.group = next.group /\ next'.message = next.message
            /\ next'.task = next.task /\ next'.user = next.user + 1
        BY <1>0, <3>1 DEF TypeOK, Sequence
      <3>3. \A r \in {"user", "group", "task", "message"} : next'[r] >= next[r]
        BY <1>0, <3>1, SequenceStep
      <3>4. row.id = next.user /\ next.user \in Nat
        BY <1>0, BoundsAssumption DEF TypeOK, Sequence
      <3>5. \A x \in users : x.id \in Nat
        BY <1>0 DEF TypeOK, UserRow, UserId
      <3>6. \A x \in users' : x.id < next'.user
        BY <1>0, <3>1, <3>2, <3>4, <3>5 DEF IdsBelowNext
      <3>7. \A x \in users' : x.id \in IssuedUsers => x \in users
        BY <3>1, <3>4 DEF IssuedUsers
      <3> HIDE DEF row
      <3> QED BY <1>0, <2>1, <3>2, <3>3, <3>6, <3>7 DEF CreateUser, InsertUser, IdsBelowNext, OneRowPerId
    <2>2. ASSUME NEW u \in IssuedUsers, DeleteUser(u) PROVE IdsBelowNext' /\ OneRowPerId
      BY <1>0, <2>2, NoNewRow DEF DeleteUser, DropUser
    <2>3. ASSUME NEW u \in IssuedUsers, CreateGroup(u) PROVE IdsBelowNext' /\ OneRowPerId
      BY <1>0, <2>3, InsertGroupIds DEF CreateGroup
    <2>4. ASSUME NEW g \in IssuedGroups, DeleteGroup(g) PROVE IdsBelowNext' /\ OneRowPerId
      BY <1>0, <2>4, NoNewRow DEF DeleteGroup, DropGroup
    <2>5. ASSUME NEW g \in IssuedGroups, NEW u,
                 \/ AddMemberToGroup(g, u) \/ InviteMemberToGroup(g, u)
                 \/ TogglePinGroup(g, u) \/ RemoveMemberFromGroup(g, u)
                 \/ CancelInvite(g, u) \/ AcceptInvite(g, u)
          PROVE  IdsBelowNext' /\ OneRowPerId
      BY <1>0, <2>5, NoNewRow
         DEF AddMemberToGroup, InviteMemberToGroup, TogglePinGroup, RemoveMemberFromGroup, Without,
             CancelInvite, AcceptInvite
    <2>6. ASSUME NEW g \in IssuedGroups, NEW u \in IssuedUsers, SendMessage(g, u)
          PROVE  IdsBelowNext' /\ OneRowPerId
      BY <1>0, <2>6, InsertMessageIds DEF SendMessage
    <2>7. ASSUME NEW g \in IssuedGroups, NEW u \in IssuedUsers, NEW b \in Bodies,
                 CreateTask(g, u, b)
          PROVE  IdsBelowNext' /\ OneRowPerId
      BY <1>0, <2>7, InsertTaskIds DEF CreateTask
    <2>8. ASSUME NEW t \in IssuedTasks, DeleteTask(t) PROVE IdsBelowNext' /\ OneRowPerId
      BY <1>0, <2>8, NoNewRow DEF DeleteTask, DroppedTask
    <2>9. ASSUME NEW t \in IssuedTasks, NEW b \in Bodies, UpdateTask(t, b)
          PROVE  IdsBelowNext' /\ OneRowPerId
      <3>1. /\ users' = users /\ groups' = groups
            /\ messages' = messages /\ next' = next
        BY <2>9 DEF UpdateTask, Updated
      <3> QED BY <1>0, <2>9, <3>1, UpdateTaskRows, NoNewRow
    <2> QED
      BY <1>1, <2>1, <2>2, <2>3, <2>4, <2>5, <2>6, <2>7, <2>8, <2>9
         DEF Request, UserRoutes, GroupRoutes, TaskRoutes
  <1>2. CASE JobSteps
    <2>1. CASE CreatorMember \/ AcceptMember \/ WelcomeMember \/ WelcomePin
      BY <1>0, <2>1, NoNewRow DEF CreatorMember, AcceptMember, WelcomeMember, WelcomePin
    <2>2. CASE WelcomeGroup
      BY <1>0, <2>2, InsertGroupIds DEF WelcomeGroup
    <2>3. CASE WelcomeTask
      BY <1>0, <2>3, InsertTaskIds DEF WelcomeTask
    <2>4. CASE WelcomeMessage
      BY <1>0, <2>4, InsertMessageIds DEF WelcomeMessage
    <2> QED BY <1>2, <2>1, <2>2, <2>3, <2>4 DEF JobSteps
  <1>3. CASE Payloads \/ Restart \/ UNCHANGED vars
    BY <1>0, <1>3, NoNewRow DEF Payloads, Login, AutoRefresh, AiPush, Restart, Crash, tables, vars
  <1> QED BY <1>1, <1>2, <1>3 DEF Next

----------------------------------------------------------------------------
(* Jobs *)

(* Where jobs stand, action by action: the main thread runs one at a time. *)
LEMMA JobStep == Inv /\ [Next]_vars => JobInProgress'
  <1> SUFFICES ASSUME Inv, [Next]_vars PROVE JobInProgress'
    OBVIOUS
  <1>0. TypeOK /\ NoDanglingRows /\ IdsBelowNext /\ JobInProgress
    BY DEF Inv
  <1>1. CASE job' = Idle
    BY <1>1 DEF Idle, JobInProgress, Welcoming, GroupMade, BeforeTask, BeforeMessage
  <1>2. CASE Request
    <2>1. ASSUME NEW n \in Names, CreateUser(n) PROVE JobInProgress'
      <3>1. job' = [pc |-> "welcomeGroup", user |-> next.user, group |-> 0]
        BY <2>1 DEF CreateUser, InsertUser
      <3>2. next.user \in UserIds'
        <4>1. [id |-> next.user, name |-> n] \in users'
          BY <2>1 DEF CreateUser, InsertUser
        <4>2. [id |-> next.user, name |-> n].id = next.user
          OBVIOUS
        <4> QED BY <4>1, <4>2 DEF UserIds
      <3>3. /\ next'.group = next.group /\ next'.task = next.task
            /\ next'.message = next.message
        BY <1>0, <2>1 DEF CreateUser, InsertUser, TypeOK, Sequence
      <3>4. next.group <= MaxGroup /\ next.task <= MaxTask /\ next.message <= MaxMessage
        BY <2>1 DEF CreateUser, InsertUser
      <3>5. /\ job'.pc = "welcomeGroup" /\ job'.user = next.user
        BY <3>1
      <3> QED BY <3>2, <3>3, <3>4, <3>5
                 DEF JobInProgress, Welcoming, GroupMade, BeforeTask, BeforeMessage
    <2>2. ASSUME NEW u \in IssuedUsers, CreateGroup(u) PROVE JobInProgress'
      <3>1. next.group \in GroupId /\ u \in UserId
        BY <1>0, <2>2, InsertGroupType, JobType DEF CreateGroup
      <3> QED BY <2>2, <3>1 DEF CreateGroup, JobInProgress, Welcoming, GroupMade,
                 BeforeTask, BeforeMessage, UserId, GroupId
    <2>3. ASSUME NEW g \in IssuedGroups, NEW u \in IssuedUsers, AcceptInvite(g, u)
          PROVE  JobInProgress'
      <3>1. g \in GroupId /\ u \in UserId
        BY <1>0, JobType
      <3> QED BY <2>3, <3>1 DEF AcceptInvite, Without, JobInProgress, Welcoming, GroupMade,
                 BeforeTask, BeforeMessage, UserId, GroupId
    <2>4. \/ job' = Idle
          \/ \E n \in Names : CreateUser(n)
          \/ \E u \in IssuedUsers : CreateGroup(u)
          \/ \E g \in IssuedGroups, u \in IssuedUsers : AcceptInvite(g, u)
      BY <1>2 DEF Request, UserRoutes, GroupRoutes, TaskRoutes, DeleteUser, DeleteGroup,
         AddMemberToGroup, InviteMemberToGroup, TogglePinGroup, RemoveMemberFromGroup, Without,
         CancelInvite, SendMessage, CreateTask, DeleteTask, DroppedTask, UpdateTask, Updated
    <2> QED BY <1>1, <2>1, <2>2, <2>3, <2>4
  <1>3. CASE WelcomeGroup
    <2>1. job' = [job EXCEPT !.pc = "welcomeMember", !.group = next.group]
      BY <1>3 DEF WelcomeGroup
    <2>2. /\ job'.pc = "welcomeMember" /\ job'.group = next.group
          /\ job'.user = job.user
      BY <1>0, <2>1 DEF TypeOK, Job
    <2>3. next.group \in groups' /\ UserIds' = UserIds
      BY <1>3, SameUsers DEF WelcomeGroup, InsertGroup
    <2>4. \A g \in groups : g # next.group
      BY <1>0, BoundsAssumption DEF IdsBelowNext, TypeOK, Sequence, GroupId
    <2>5. \A p \in pins \cup members : p[1] # next.group
      BY <1>0, <2>4 DEF NoDanglingRows
    <2>6. next'.task = next.task /\ next'.message = next.message
      BY <1>0, <1>3 DEF WelcomeGroup, InsertGroup, TypeOK, Sequence
    <2> QED BY <1>0, <1>3, <2>2, <2>3, <2>5, <2>6
               DEF WelcomeGroup, JobInProgress, Welcoming, GroupMade, BeforeTask, BeforeMessage
  <1>4. CASE WelcomeMember
    <2>1. /\ job'.pc \in {"welcomeAgain", "welcomeTask"}
          /\ job'.group = job.group /\ job'.user = job.user
      BY <1>0, <1>4 DEF WelcomeMember, TypeOK, Job
    <2>2. job.group \in groups /\ job.user \in UserIds
      BY <1>0, <1>4 DEF WelcomeMember, JobInProgress, GroupMade, Welcoming, BeforeMessage,
         BeforeTask
    <2>3. members' = members \cup {<<job.group, job.user>>}
      BY <1>4, <2>2 DEF WelcomeMember, Linked
    <2>4. UserIds' = UserIds
      BY <1>4, SameUsers DEF WelcomeMember
    <2> QED BY <1>0, <1>4, <2>1, <2>2, <2>3, <2>4
               DEF WelcomeMember, JobInProgress, Welcoming, GroupMade, BeforeTask, BeforeMessage
  <1>5. CASE WelcomeTask
    <2>1. /\ job'.pc = "welcomeMessage"
          /\ job'.group = job.group /\ job'.user = job.user
      BY <1>0, <1>5 DEF WelcomeTask, TypeOK, Job
    <2>2. /\ job.group \in groups /\ job.user \in UserIds
          /\ \A p \in pins : p[1] # job.group
          /\ \A m \in members : m[1] = job.group => m[2] = job.user
          /\ <<job.group, job.user>> \in members
          /\ next.message <= MaxMessage
      BY <1>0, <1>5 DEF WelcomeTask, JobInProgress, GroupMade, Welcoming, BeforeMessage,
         BeforeTask
    <2>3. \E t \in tasks' : t.group = job.group /\ t.owner = job.user
      <3> DEFINE row == [id |-> next.task, group |-> job.group,
                         owner |-> job.user, body |-> FirstBody]
      <3>1. row \in tasks'
        BY <1>5, <2>2 DEF WelcomeTask, InsertTask
      <3>2. row.group = job.group /\ row.owner = job.user
        OBVIOUS
      <3> QED BY <3>1, <3>2
    <2>4. UserIds' = UserIds
      BY <1>5, SameUsers DEF WelcomeTask
    <2>5. next'.message = next.message
      BY <1>0, <1>5 DEF WelcomeTask, InsertTask, TypeOK, Sequence
    <2>6. groups' = groups /\ members' = members /\ pins' = pins
      BY <1>5 DEF WelcomeTask
    <2> QED BY <2>1, <2>2, <2>3, <2>4, <2>5, <2>6
               DEF JobInProgress, Welcoming, GroupMade, BeforeTask, BeforeMessage
  <1>6. CASE WelcomeMessage
    <2>1. /\ job'.pc = "welcomePin"
          /\ job'.group = job.group /\ job'.user = job.user
      BY <1>0, <1>6 DEF WelcomeMessage, TypeOK, Job
    <2>2. /\ job.group \in groups /\ job.user \in UserIds
          /\ \A p \in pins : p[1] # job.group
          /\ \A m \in members : m[1] = job.group => m[2] = job.user
          /\ <<job.group, job.user>> \in members
          /\ \E t \in tasks : t.group = job.group /\ t.owner = job.user
      BY <1>0, <1>6 DEF WelcomeMessage, JobInProgress, GroupMade, Welcoming, BeforeMessage
    <2>3. \E m \in messages' : m.group = job.group /\ m.user = job.user
      <3> DEFINE row == [id |-> next.message, group |-> job.group, user |-> job.user]
      <3>1. row \in messages'
        BY <1>6, <2>2 DEF WelcomeMessage, InsertMessage
      <3>2. row.group = job.group /\ row.user = job.user
        OBVIOUS
      <3> QED BY <3>1, <3>2
    <2>4. UserIds' = UserIds
      BY <1>6, SameUsers DEF WelcomeMessage
    <2>5. groups' = groups /\ members' = members /\ pins' = pins /\ tasks' = tasks
      BY <1>6 DEF WelcomeMessage
    <2> QED BY <2>1, <2>2, <2>3, <2>4, <2>5
               DEF JobInProgress, Welcoming, GroupMade, BeforeTask, BeforeMessage
  <1>7. CASE CreatorMember \/ AcceptMember \/ WelcomePin \/ Restart
    BY <1>1, <1>7 DEF CreatorMember, AcceptMember, WelcomePin, Restart, Crash
  <1>8. CASE Payloads \/ UNCHANGED vars
    <2>1. UserIds' = UserIds
      BY <1>8, SameUsers DEF Payloads, Login, AutoRefresh, AiPush, tables, vars
    <2>2. /\ groups' = groups /\ members' = members /\ pins' = pins
          /\ tasks' = tasks /\ messages' = messages /\ next' = next /\ job' = job
      BY <1>8 DEF Payloads, Login, AutoRefresh, AiPush, tables, vars
    <2> QED BY <1>0, <2>1, <2>2 DEF JobInProgress
  <1> QED BY <1>2, <1>3, <1>4, <1>5, <1>6, <1>7, <1>8 DEF Next, JobSteps

----------------------------------------------------------------------------
(* Theorems *)

THEOREM Invariance == Spec => []Inv
  <1>1. Inv /\ [Next]_vars => Inv'
    BY TypeStep, ReferenceStep, IdStep, JobStep DEF Inv
  <1> QED BY InitInv, <1>1, PTL DEF Spec

(* Every variable keeps its type. *)
THEOREM TypeCorrect == Spec => []TypeOK
  BY Invariance, PTL DEF Inv

(* No row ever refers to a row that is gone, for any number of users, groups,
   tasks and messages, and wherever the process dies. *)
THEOREM ReferencesSound == Spec => []NoDanglingRows
  BY Invariance, PTL DEF Inv

(* An id handed out once names the same row for ever. *)
THEOREM IdsNeverReused == Spec => IdsNameOneRowForEver
  <1>1. Inv /\ [Next]_vars => [OneRowPerId]_vars
    BY IdStep
  <1> QED BY Invariance, <1>1, PTL DEF Spec, IdsNameOneRowForEver

(* The last statement of a registration finds the template whole. *)
LEMMA WelcomeStep ==
  Inv /\ [Next]_vars =>
    (WelcomePin => \E u \in UserId, g \in GroupId :
                      u = job.user /\ g = job.group /\ Welcomed(u, g)')
  <1> SUFFICES ASSUME Inv, WelcomePin
               PROVE  \E u \in UserId, g \in GroupId :
                         u = job.user /\ g = job.group /\ Welcomed(u, g)'
    OBVIOUS
  <1>0. TypeOK /\ JobInProgress /\ job.pc = "welcomePin"
    BY DEF Inv, WelcomePin
  <1>1. /\ job.user \in UserIds /\ job.group \in groups
        /\ \A p \in pins : p[1] # job.group
        /\ \A m \in members : m[1] = job.group => m[2] = job.user
        /\ <<job.group, job.user>> \in members
        /\ \E t \in tasks : t.group = job.group /\ t.owner = job.user
        /\ \E m \in messages : m.group = job.group /\ m.user = job.user
    BY <1>0 DEF JobInProgress, Welcoming, GroupMade, BeforeMessage, BeforeTask
  <1>2. job.user \in UserId /\ job.group \in GroupId
    BY <1>0, <1>1, JobType DEF TypeOK
  <1>3. <<job.group, job.user>> \in pins'
    <2>1. <<job.group, job.user>> \notin pins
      BY <1>1
    <2>2. <<job.group, job.user>> \in Linked(job.group, job.user)
      BY <1>1 DEF Linked
    <2> QED BY <2>1, <2>2 DEF WelcomePin, TogglePinRow
  <1>4. UserIds' = UserIds
    BY SameUsers DEF WelcomePin
  <1>5. \A v \in UserId : <<job.group, v>> \in members' <=> v = job.user
    BY <1>1 DEF WelcomePin
  <1> QED BY <1>1, <1>2, <1>3, <1>4, <1>5 DEF Welcomed, WelcomePin

(* A registration that runs to its end leaves the complete template. *)
THEOREM RegistrationWelcomes == Spec => WelcomeComplete
  <1>1. Inv /\ [Next]_vars =>
          [WelcomePin => \E u \in UserId, g \in GroupId :
                            u = job.user /\ g = job.group /\ Welcomed(u, g)']_vars
    BY WelcomeStep
  <1> QED BY Invariance, <1>1, PTL DEF Spec, WelcomeComplete

----------------------------------------------------------------------------
(* Views *)

Mine(u) == {g \in groups : <<g, u>> \in members}

(* What a user sees depends on the rows of the user's own groups. *)
LEMMA SameView ==
  ASSUME NEW u, users' = users, Mine(u)' = Mine(u),
         \A g \in GroupId : <<g, u>> \in pins' <=> <<g, u>> \in pins,
         \A g : (g \in groups' /\ <<g, u>> \in invites') <=> (g \in groups /\ <<g, u>> \in invites),
         \A m : m[1] \in Mine(u) => /\ m \in members' <=> m \in members
                                    /\ m \in invites' <=> m \in invites,
         \A t : t.group \in Mine(u) => /\ t \in tasks' <=> t \in tasks
                                       /\ t \in messages' <=> t \in messages
  PROVE  View(u)' = View(u)
  <1>1. {x \in users' : x.id = u} = {x \in users : x.id = u}
    OBVIOUS
  <1>2. {g \in GroupId : <<g, u>> \in pins'} = {g \in GroupId : <<g, u>> \in pins}
    OBVIOUS
  <1>3. /\ {m \in members' : m[1] \in Mine(u)'} = {m \in members : m[1] \in Mine(u)}
        /\ {m \in invites' : m[1] \in Mine(u)'} = {m \in invites : m[1] \in Mine(u)}
    OBVIOUS
  <1>4. /\ {t \in tasks' : t.group \in Mine(u)'} = {t \in tasks : t.group \in Mine(u)}
        /\ {t \in messages' : t.group \in Mine(u)'} = {t \in messages : t.group \in Mine(u)}
    OBVIOUS
  <1>5. {g \in groups' : <<g, u>> \in invites'} = {g \in groups : <<g, u>> \in invites}
    OBVIOUS
  <1> QED BY <1>1, <1>2, <1>3, <1>4, <1>5 DEF View, Mine

(* Rows of a group are seen by its members alone. *)
LEMMA MessageReaches ==
  ASSUME NEW g, NEW u, SendMessage(g, u)
  PROVE  NewlyStale \subseteq {u}
  <1>1. ASSUME NEW v \in UserId, v \notin UsersInGroup(g) PROVE View(v)' = View(v)
    <2> DEFINE row == [id |-> next.message, group |-> g, user |-> u]
    <2>1. g \notin Mine(v) /\ row.group = g
      BY <1>1 DEF UsersInGroup, Mine
    <2> HIDE DEF row
    <2>2. UNCHANGED <<users, groups, members, invites, pins, tasks>> /\ InsertMessage(g, u)
      BY DEF SendMessage
    <2>3. messages' = messages \/ messages' = messages \cup {row}
      <3>1. CASE <<g, u>> \in groups \X UserIds
        BY <2>2, <3>1 DEF InsertMessage, row
      <3>2. CASE <<g, u>> \notin groups \X UserIds
        BY <2>2, <3>2 DEF InsertMessage
      <3> QED BY <3>1, <3>2
    <2>4. Mine(v)' = Mine(v)
      BY <2>2 DEF Mine
    <2>5. \A t : t.group \in Mine(v) => (t \in messages' <=> t \in messages)
      BY <2>1, <2>3
    <2> QED BY <2>2, <2>4, <2>5, SameView
  <1>2. Push(UsersInGroup(g) \ {u})
    BY DEF SendMessage
  <1> QED BY <1>1, <1>2 DEF Push, NewlyStale

LEMMA TaskReaches ==
  ASSUME NEW g, NEW u, NEW b, CreateTask(g, u, b)
  PROVE  NewlyStale \subseteq {u}
  <1>1. ASSUME NEW v \in UserId, v \notin UsersInGroup(g) PROVE View(v)' = View(v)
    <2> DEFINE row == [id |-> next.task, group |-> g, owner |-> u, body |-> b]
    <2>1. g \notin Mine(v) /\ row.group = g
      BY <1>1 DEF UsersInGroup, Mine
    <2> HIDE DEF row
    <2>2. UNCHANGED <<users, groups, members, invites, pins, messages>> /\ InsertTask(g, u, b)
      BY DEF CreateTask
    <2>3. tasks' = tasks \/ tasks' = tasks \cup {row}
      <3>1. CASE <<g, u>> \in groups \X UserIds
        BY <2>2, <3>1 DEF InsertTask, row
      <3>2. CASE <<g, u>> \notin groups \X UserIds
        BY <2>2, <3>2 DEF InsertTask
      <3> QED BY <3>1, <3>2
    <2>4. Mine(v)' = Mine(v)
      BY <2>2 DEF Mine
    <2>5. \A t : t.group \in Mine(v) => (t \in tasks' <=> t \in tasks)
      BY <2>1, <2>3
    <2> QED BY <2>2, <2>4, <2>5, SameView
  <1>2. Push(UsersInGroup(g) \ {u})
    BY DEF CreateTask
  <1> QED BY <1>1, <1>2 DEF Push, NewlyStale

(* A change of members is seen by the members after it and by the one who
   left. *)
LEMMA MembersReach ==
  ASSUME TypeOK, NEW g, NEW u, AddMemberToGroup(g, u) \/ RemoveMemberFromGroup(g, u)
  PROVE  NewlyStale \subseteq {}
  <1>1. ASSUME NEW v \in UserId \ (UsersInGroup(g)' \cup {u}) PROVE View(v)' = View(v)
    <2>1. v # u /\ <<g, v>> \notin members' /\ UNCHANGED <<users, groups, invites, pins, tasks, messages>>
      BY <1>1 DEF UsersInGroup, AddMemberToGroup, RemoveMemberFromGroup
    <2>2. \A m : m # <<g, u>> => (m \in members' <=> m \in members)
      <3>1. CASE AddMemberToGroup(g, u)
        BY <3>1, LinkedType DEF AddMemberToGroup
      <3>2. CASE RemoveMemberFromGroup(g, u)
        BY <3>2 DEF RemoveMemberFromGroup, Without
      <3> QED BY <3>1, <3>2
    <2>3. \A h : <<h, v>> # <<g, u>>
      BY <2>1
    <2>4. Mine(v)' = Mine(v)
      BY <2>1, <2>2, <2>3 DEF Mine
    <2>5. g \notin Mine(v)
      BY <2>1, <2>4 DEF Mine
    <2>6. \A m : m[1] \in Mine(v) => (m \in members' <=> m \in members)
      BY <2>2, <2>5
    <2> QED BY <2>1, <2>4, <2>6, SameView
  <1>2. Push(UsersInGroup(g)' \cup {u})
    BY DEF AddMemberToGroup, RemoveMemberFromGroup, UsersInGroupAfter
  <1> QED BY <1>1, <1>2 DEF Push, NewlyStale

(* The deletion of a group is seen by its members and invited, and by whoever
   still has the group pinned. *)
LEMMA DeletionReaches ==
  ASSUME TypeOK, NEW g, DeleteGroup(g)
  PROVE  /\ NewlyStale \subseteq {u \in UserId : <<g, u>> \in pins}
         /\ NewlyStale \cap UsersInGroup(g) = {}
  <1> DEFINE T == {u \in UserId : <<g, u>> \in pins}
  <1>1. ASSUME NEW v \in UserId \ (UsersInGroup(g) \cup T) PROVE View(v)' = View(v)
    <2>1. <<g, v>> \notin members /\ <<g, v>> \notin invites /\ <<g, v>> \notin pins
      BY <1>1 DEF UsersInGroup
    <2>2. /\ users' = users
          /\ \A h : h \in groups' <=> h \in groups /\ h # g
          /\ \A m : /\ m \in members' <=> m \in members /\ m[1] # g
                    /\ m \in invites' <=> m \in invites /\ m[1] # g
                    /\ m \in pins' <=> m \in pins /\ m[1] # g
          /\ \A t : /\ t \in tasks' <=> t \in tasks /\ t.group # g
                    /\ t \in messages' <=> t \in messages /\ t.group # g
      BY DEF DeleteGroup, DropGroup
    <2>3. \A h : <<h, v>>[1] = h
      OBVIOUS
    <2>4. Mine(v)' = Mine(v)
      BY <2>1, <2>2, <2>3 DEF Mine
    <2>5. g \notin Mine(v)
      BY <2>1 DEF Mine
    <2>6. \A h : /\ <<h, v>> \in pins' <=> <<h, v>> \in pins
                 /\ (h \in groups' /\ <<h, v>> \in invites') <=> (h \in groups /\ <<h, v>> \in invites)
      BY <2>1, <2>2, <2>3
    <2> QED BY <2>2, <2>4, <2>5, <2>6, SameView
  <1>2. Push(UsersInGroup(g))
    BY DEF DeleteGroup
  <1>3. NewlyStale \subseteq T /\ stale' \cap UsersInGroup(g) = {}
    BY <1>1, <1>2 DEF Push, NewlyStale
  <1> QED BY <1>3 DEF NewlyStale

(* A pin is seen by its user alone. *)
LEMMA PinReaches ==
  ASSUME TypeOK, NEW g, NEW u, TogglePinGroup(g, u)
  PROVE  NewlyStale = {}
  <1>1. ASSUME NEW v \in UserId \ {u} PROVE View(v)' = View(v)
    <2>1. UNCHANGED <<users, groups, members, invites, tasks, messages>>
      BY DEF TogglePinGroup
    <2>2. \A h : <<h, v>> # <<g, u>>
      BY <1>1
    <2>3. \A h : <<h, v>> \in pins' <=> <<h, v>> \in pins
      BY <2>2, LinkedType DEF TogglePinGroup, TogglePinRow
    <2>4. Mine(v)' = Mine(v)
      BY <2>1 DEF Mine
    <2> QED BY <2>1, <2>3, <2>4, SameView
  <1>2. Push({u})
    BY DEF TogglePinGroup
  <1> QED BY <1>1, <1>2 DEF Push, NewlyStale

(* An invitation that comes or goes is shown to the invited, who gets a payload,
   and in the lists of the group's members, who get none. *)
LEMMA InvitationReaches ==
  ASSUME TypeOK, NEW g, NEW u, InviteMemberToGroup(g, u) \/ CancelInvite(g, u),
         NEW v \in NewlyStale
  PROVE  v # u /\ <<g, v>> \in members /\ OnlyInvitedChanges(v)
  <1>0. UNCHANGED <<users, groups, members, pins, tasks, messages>> /\ Push({u})
    BY DEF InviteMemberToGroup, CancelInvite
  <1>1. v \in UserId /\ v # u /\ View(v)' # View(v)
    BY <1>0 DEF Push, NewlyStale
  <1>2. \A m : m # <<g, u>> => (m \in invites' <=> m \in invites)
    <2>1. CASE InviteMemberToGroup(g, u)
      BY <2>1, LinkedType DEF InviteMemberToGroup
    <2>2. CASE CancelInvite(g, u)
      BY <2>2 DEF CancelInvite, Without
    <2> QED BY <2>1, <2>2
  <1>3. Mine(v)' = Mine(v)
    BY <1>0 DEF Mine
  <1>4. \A h : <<h, v>> \in invites' <=> <<h, v>> \in invites
    <2>1. \A h : <<h, v>> # <<g, u>>
      BY <1>1
    <2> QED BY <2>1, <1>2
  <1>5. <<g, v>> \in members
    <2> SUFFICES ASSUME <<g, v>> \notin members PROVE View(v)' = View(v)
      BY <1>1
    <2>1. g \notin Mine(v) /\ <<g, u>>[1] = g
      BY DEF Mine
    <2>2. \A m : m[1] \in Mine(v) => (m \in invites' <=> m \in invites)
      BY <1>2, <2>1
    <2> QED BY <1>0, <1>3, <1>4, <2>2, SameView
  <1>6. {h \in groups : <<h, v>> \in invites'} = {h \in groups : <<h, v>> \in invites}
    BY <1>4
  <1>7. OnlyInvitedChanges(v)
    <2> SUFFICES ASSUME NEW part \in DOMAIN View(v), part # "invited"
                 PROVE  View(v)'[part] = View(v)[part]
      BY DEF OnlyInvitedChanges
    <2>1. part \in {"name", "pinned", "members", "tasks", "messages", "pending"}
      BY DEF View
    <2>2. View(v)'.name = View(v).name /\ View(v)'.pinned = View(v).pinned
      BY <1>0 DEF View
    <2>3. View(v)'.members = View(v).members
      BY <1>0, <1>3 DEF View, Mine
    <2>4. View(v)'.tasks = View(v).tasks
      BY <1>0, <1>3 DEF View, Mine
    <2>5. View(v)'.messages = View(v).messages
      BY <1>0, <1>3 DEF View, Mine
    <2>6. View(v)'.pending = View(v).pending
      BY <1>0, <1>6 DEF View
    <2> QED BY <2>1, <2>2, <2>3, <2>4, <2>5, <2>6
  <1> QED BY <1>1, <1>5, <1>7

(* The routes that push reach everybody who sees what they changed, but for the
   lists of the invited. *)
THEOREM PushesReachViewers == Spec => LiveRoutesReachEveryViewer
  <1> DEFINE Reaches ==
        \A g \in IssuedGroups :
          /\ AcceptMember /\ job.group = g => stale' \cap UsersInGroup(g)' = {}
          /\ DeleteGroup(g) =>
                NewlyStale \cap UsersInGroup(g) = {}
                /\ \A u \in NewlyStale : <<g, u>> \in pins
          /\ \A u \in IssuedUsers :
                /\ \/ AddMemberToGroup(g, u) \/ RemoveMemberFromGroup(g, u)
                   \/ TogglePinGroup(g, u)
                   => NewlyStale = {}
                /\ InviteMemberToGroup(g, u) \/ CancelInvite(g, u) =>
                      \A v \in NewlyStale :
                         v # u /\ <<g, v>> \in members /\ OnlyInvitedChanges(v)
                /\ SendMessage(g, u) => NewlyStale \subseteq {u}
                /\ \A b \in Bodies : CreateTask(g, u, b) => NewlyStale \subseteq {u}
  <1>1. Inv /\ [Next]_vars => [Reaches]_vars
    <2> SUFFICES ASSUME TypeOK, NEW g \in IssuedGroups
                 PROVE  /\ AcceptMember /\ job.group = g => stale' \cap UsersInGroup(g)' = {}
                        /\ DeleteGroup(g) =>
                              NewlyStale \cap UsersInGroup(g) = {}
                              /\ \A u \in NewlyStale : <<g, u>> \in pins
                        /\ \A u \in IssuedUsers :
                              /\ \/ AddMemberToGroup(g, u) \/ RemoveMemberFromGroup(g, u)
                                 \/ TogglePinGroup(g, u)
                                 => NewlyStale = {}
                              /\ InviteMemberToGroup(g, u) \/ CancelInvite(g, u) =>
                                    \A v \in NewlyStale :
                                       v # u /\ <<g, v>> \in members /\ OnlyInvitedChanges(v)
                              /\ SendMessage(g, u) => NewlyStale \subseteq {u}
                              /\ \A b \in Bodies : CreateTask(g, u, b) => NewlyStale \subseteq {u}
      BY DEF Inv
    <2>1. ASSUME AcceptMember, job.group = g PROVE stale' \cap UsersInGroup(g)' = {}
      <3>1. Push(UsersInGroup(g)')
        BY <2>1 DEF AcceptMember, UsersInGroupAfter
      <3> QED BY <3>1 DEF Push
    <2>2. ASSUME DeleteGroup(g)
          PROVE  /\ NewlyStale \cap UsersInGroup(g) = {}
                 /\ \A u \in NewlyStale : <<g, u>> \in pins
      BY <2>2, DeletionReaches
    <2>3. ASSUME NEW u \in IssuedUsers
          PROVE  /\ \/ AddMemberToGroup(g, u) \/ RemoveMemberFromGroup(g, u)
                    \/ TogglePinGroup(g, u)
                    => NewlyStale = {}
                 /\ InviteMemberToGroup(g, u) \/ CancelInvite(g, u) =>
                       \A v \in NewlyStale :
                          v # u /\ <<g, v>> \in members /\ OnlyInvitedChanges(v)
                 /\ SendMessage(g, u) => NewlyStale \subseteq {u}
                 /\ \A b \in Bodies : CreateTask(g, u, b) => NewlyStale \subseteq {u}
      <3>1. \/ AddMemberToGroup(g, u) \/ RemoveMemberFromGroup(g, u) \/ TogglePinGroup(g, u)
            => NewlyStale = {}
        BY MembersReach, PinReaches
      <3>2. InviteMemberToGroup(g, u) \/ CancelInvite(g, u) =>
              \A v \in NewlyStale : v # u /\ <<g, v>> \in members /\ OnlyInvitedChanges(v)
        BY InvitationReaches
      <3>3. SendMessage(g, u) => NewlyStale \subseteq {u}
        BY MessageReaches
      <3>4. \A b \in Bodies : CreateTask(g, u, b) => NewlyStale \subseteq {u}
        BY TaskReaches
      <3> QED BY <3>1, <3>2, <3>3, <3>4
    <2> QED BY <2>1, <2>2, <2>3
  <1> QED BY Invariance, <1>1, PTL DEF Spec, LiveRoutesReachEveryViewer
============================================================================
