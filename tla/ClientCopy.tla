----------------------------- MODULE ClientCopy -----------------------------
(***************************************************************************)
(* The inductive invariant behind OptimismIsRight of ClientSync.  The copy *)
(* that will be the client's in the end is `local`, or the last payload on *)
(* its way; what the tables show differs from it by the replies behind it  *)
(* and, if it is `local`, by the requests still to be served.              *)
(***************************************************************************)
EXTENDS ClientSync

(* The requests of which the tables do not show everything yet; a route that
   has begun is one of them. *)
Window == IF job = Idle THEN {} ELSE {answer[i].call : i \in DOMAIN answer}
Asked == Window \cup {toServer[i].call : i \in DOMAIN toServer}

(* What will reach the client of what the server has done. *)
Line == toClient \o (IF job = Idle THEN answer ELSE <<>>)
Behind(p) == [k \in 1..Len(Line) - p |-> Line[p + k]]
Pushes == {i \in DOMAIN toClient : ~IsReply(toClient[i])}

(* What a payload read now would show, the group this client's acceptInvite is
   about to join, and the id of the next task. *)
Joining ==
    {g \in groups : answer # <<>> /\ job = [pc |-> "acceptMember", user |-> Me, group |-> g]}

Shown ==
    LET view == View(Me) IN
    [mine    |-> {g \in groups : <<g, Me>> \in members},
     members |-> view.members, invited |-> view.invited,
     pending |-> view.pending, joining |-> Joining, pins |-> view.pinned,
     tasks   |-> view.tasks,
     chat    |-> [g \in GroupId |-> Cardinality({x \in view.messages : x.group = g})],
     nextTask |-> next.task]

AsksOf(calls, cmds, g) == \E r \in calls : r.cmd \in cmds /\ r.group = g
AsksAbout(calls, cmds, g, u) == \E r \in calls : r.cmd \in cmds /\ r.group = g /\ r.user = u
AsksTask(calls, cmd, t) == \E r \in calls : r.cmd = cmd /\ r.task = t

MakesGroup(m, g) == m.call.cmd = "createGroup" /\ m.id = g
MakesTask(m, t) == m.call.cmd = "createTask" /\ m.id = t
OnTask(m, cmd, t) == m.call.cmd = cmd /\ m.call.task = t
OnInvite(m, g, u) ==
    /\ m.call.cmd \in {"cancelInvite", "inviteMemberToGroup"}
    /\ m.call.group = g /\ m.call.user = u

Made(replies, g) == \E k \in DOMAIN replies : MakesGroup(replies[k], g)
MadeTask(replies, t) == \E k \in DOMAIN replies : MakesTask(replies[k], t)
Dropped(replies, t) == \E k \in DOMAIN replies : OnTask(replies[k], "deleteTask", t)

Posts(replies, g) ==
    Cardinality({k \in DOMAIN replies : /\ replies[k].call.cmd = "sendMessage"
                                        /\ replies[k].call.group = g})

(* A row of a group the user is not in is there only while an acceptInvite is
   under way, which may also have made a second row. *)
GroupsFit(v, replies, calls, s) ==
    /\ \A i \in DOMAIN v.groups : v.groups[i].id \in s.mine \cup s.pending \cup s.joining
    /\ \A i \in DOMAIN v.groups :
          \/ AsksOf(calls, {"acceptInvite"}, v.groups[i].id)
          \/ /\ v.groups[i].id \in s.mine
             /\ \A j \in DOMAIN v.groups : v.groups[j].id = v.groups[i].id => i = j
    /\ \A g \in s.mine :
          \/ AsksOf(calls, {"deleteGroup"}, g)
          \/ \E i \in DOMAIN v.groups : v.groups[i].id = g
          \/ Made(replies, g)

(* A group made by a request still to be answered is in no copy. *)
MadeFits(v, replies, calls, s) ==
    \A k \in DOMAIN replies, g \in GroupId : MakesGroup(replies[k], g) =>
        /\ g \in s.mine
        /\ \A u \in UserId : <<g, u>> \in s.members <=> u = Me
        /\ \A i \in DOMAIN v.groups : v.groups[i].id # g
        /\ \A i \in DOMAIN v.pending : v.pending[i] # g
        /\ \A j \in DOMAIN replies : MakesGroup(replies[j], g) => j = k
        /\ \A j \in 1..k - 1 : replies[j].call.group # g

MembersFit(v, replies, calls, s) ==
    \A i \in DOMAIN v.groups, u \in UserId :
        LET g == v.groups[i].id IN
        \/ AsksOf(calls, {"acceptInvite"}, g)
        \/ AsksAbout(calls, {"removeMemberFromGroup"}, g, u)
        \/ (u \in v.groups[i].members <=> <<g, u>> \in s.members)

(* The last reply about an invitation, or else the row, tells whether it is
   in the table, but for members, who are not listed. *)
InvitationFits(v, replies, s, g, u) ==
    /\ \A k \in DOMAIN replies :
          /\ OnInvite(replies[k], g, u)
          /\ \A j \in DOMAIN replies : j > k => ~OnInvite(replies[j], g, u)
          => (replies[k].call.cmd = "inviteMemberToGroup" <=> <<g, u>> \in s.invited)
    /\ (\A k \in DOMAIN replies : ~OnInvite(replies[k], g, u)) =>
          /\ \A i \in DOMAIN v.groups : v.groups[i].id = g =>
                (u \in v.groups[i].invited <=> <<g, u>> \in s.invited)
          /\ Made(replies, g) => <<g, u>> \notin s.invited

InvitedFit(v, replies, calls, s) ==
    \A g \in s.mine, u \in UserId :
        \/ AsksOf(calls, {"acceptInvite"}, g)
        \/ AsksAbout(calls, {"removeMemberFromGroup", "cancelInvite", "inviteMemberToGroup"}, g, u)
        \/ <<g, u>> \in s.members
        \/ InvitationFits(v, replies, s, g, u)

ChatFits(v, replies, calls, s) ==
    \A g \in s.mine :
        \/ AsksOf(calls, {"acceptInvite"}, g)
        \/ /\ \A i \in DOMAIN v.groups :
                 v.groups[i].id = g => v.groups[i].chat + Posts(replies, g) = s.chat[g]
           /\ Made(replies, g) => Posts(replies, g) = s.chat[g]

PendingFits(v, replies, calls, s) ==
    /\ \A i \in DOMAIN v.pending : v.pending[i] \in s.pending \cup s.joining
    /\ \A i, j \in DOMAIN v.pending : v.pending[i] = v.pending[j] => i = j
    /\ \A g \in s.pending :
          \/ AsksOf(calls, {"acceptInvite", "denyInvite"}, g)
          \/ \E i \in DOMAIN v.pending : v.pending[i] = g

PinsFit(v, replies, calls, s) ==
    \A g \in GroupId :
        \/ AsksOf(calls, {"togglePinGroup", "deleteGroup"}, g)
        \/ (g \in v.pins <=> g \in s.pins)

TasksFit(v, replies, calls, s) ==
    /\ \A i, j \in DOMAIN v.tasks : v.tasks[i].id = v.tasks[j].id => i = j
    /\ \A i \in DOMAIN v.tasks :
          /\ v.tasks[i].id < s.nextTask
          /\ \A x \in s.tasks : x.id = v.tasks[i].id =>
                x.group = v.tasks[i].group /\ x.owner = v.tasks[i].owner
          /\ \/ \E x \in s.tasks : x.id = v.tasks[i].id
             \/ Dropped(replies, v.tasks[i].id)
             \/ AsksTask(calls, "deleteTask", v.tasks[i].id)
    /\ \A x \in s.tasks :
          \/ AsksTask(calls, "deleteTask", x.id)
          \/ AsksOf(calls, {"deleteGroup"}, x.group)
          \/ \E i \in DOMAIN v.tasks : v.tasks[i].id = x.id
          \/ MadeTask(replies, x.id)
    /\ \A x \in s.tasks : ~Dropped(replies, x.id)

(* So is a task made by a request still to be answered. *)
MadeTasksFit(v, replies, calls, s) ==
    \A k \in DOMAIN replies, t \in TaskId : MakesTask(replies[k], t) =>
        /\ t < s.nextTask
        /\ \A i \in DOMAIN v.tasks : v.tasks[i].id # t
        /\ \A j \in DOMAIN replies : MakesTask(replies[j], t) => j = k
        /\ \A j \in 1..k - 1 : replies[j].call.task # t
        /\ \A x \in s.tasks : x.id = t => x.group = replies[k].call.group /\ x.owner = Me
        /\ (\E x \in s.tasks : x.id = t) \/ Dropped(replies, t) \/ AsksTask(calls, "deleteTask", t)

(* The last reply about a column of task x, or else the row, tells what is in
   it. *)
Untouched(replies, cmd, x) == \A k \in DOMAIN replies : ~OnTask(replies[k], cmd, x.id)

ColumnFits(v, replies, cmd, column, x) ==
    /\ \A k \in DOMAIN replies :
          /\ OnTask(replies[k], cmd, x.id)
          /\ \A j \in DOMAIN replies : j > k => ~OnTask(replies[j], cmd, x.id)
          => replies[k].call.body[column] = x.body[column]
    /\ Untouched(replies, cmd, x) => \A i \in DOMAIN v.tasks :
          v.tasks[i].id = x.id => v.tasks[i].body[column] = x.body[column]

DoneFits(v, replies, calls, s) ==
    \A x \in s.tasks :
        \/ AsksTask(calls, "toggleTaskCompletion", x.id)
        \/ /\ ColumnFits(v, replies, "toggleTaskCompletion", "done", x)
           /\ Untouched(replies, "toggleTaskCompletion", x) /\ MadeTask(replies, x.id) =>
                 x.body.done = FALSE

TextFits(v, replies, calls, s) ==
    \A x \in s.tasks :
        \/ AsksTask(calls, "editTask", x.id)
        \/ /\ ColumnFits(v, replies, "editTask", "text", x)
           /\ Untouched(replies, "editTask", x) => \A k \in DOMAIN replies :
                 MakesTask(replies[k], x.id) => replies[k].call.body.text = x.body.text

Fits(v, replies, calls, s) ==
    /\ GroupsFit(v, replies, calls, s) /\ MadeFits(v, replies, calls, s)
    /\ MembersFit(v, replies, calls, s) /\ InvitedFit(v, replies, calls, s)
    /\ ChatFits(v, replies, calls, s) /\ PendingFits(v, replies, calls, s)
    /\ PinsFit(v, replies, calls, s)
    /\ TasksFit(v, replies, calls, s) /\ MadeTasksFit(v, replies, calls, s)
    /\ DoneFits(v, replies, calls, s) /\ TextFits(v, replies, calls, s)

CopyFits ==
    /\ Pushes = {} => Fits(local, Line, Asked, Shown)
    /\ \A p \in Pushes : (\A i \in Pushes : i <= p) => Fits(toClient[p], Behind(p), Window, Shown)

(* While nothing is late every callback waits, and no request fails. *)
Good(mail) == IsReply(mail) => mail.waited /\ mail.ok

AllGood ==
    /\ \A i \in DOMAIN toServer : toServer[i].waited
    /\ \A i \in DOMAIN answer : Good(answer[i])
    /\ \A i \in DOMAIN toClient : Good(toClient[i])

Issued(call) == call.task < next.task /\ call.group < next.group /\ call.user \in UserIds

(* Requests name rows that were made before, replies rows that are made. *)
IssuedReply(mail) ==
    IsReply(mail) =>
        /\ Issued(mail.call)
        /\ mail.call.cmd = "createGroup" => mail.id < next.group
        /\ mail.ok /\ mail.call.cmd = "createTask" => mail.id < next.task

CallsIssued ==
    /\ next.group > 1 /\ next.task > 1
    /\ \A i \in DOMAIN toServer : Issued(toServer[i].call)
    /\ \A i \in DOMAIN answer : IssuedReply(answer[i])
    /\ \A i \in DOMAIN toClient : IssuedReply(toClient[i])

(* Where a route of this client's stands that has begun; the group createGroup
   has made is in no table but StudyGroups and in no reply sent. *)
Joins == job = [pc |-> "acceptMember", user |-> Me, group |-> answer[1].call.group]
Creates ==
    /\ job = [pc |-> "creatorMember", user |-> Me, group |-> answer[1].id]
    /\ job.group \in groups
    /\ \A m \in members \cup invites : m[1] # job.group
    /\ \A x \in tasks \cup messages : x.group # job.group
    /\ \A i \in DOMAIN toClient : IsReply(toClient[i]) =>
          toClient[i].call.group # job.group /\ ~MakesGroup(toClient[i], job.group)

RouteBegun ==
    /\ job.pc \in {"idle", "creatorMember", "acceptMember"}
    /\ job.pc = "idle" => job = Idle
    /\ job.pc = "creatorMember" => answer # <<>>
    /\ job # Idle /\ answer # <<>> =>
          \/ answer[1].call.cmd = "acceptInvite" /\ Joins
          \/ answer[1].call.cmd = "createGroup" /\ Creates

(* The tables are sound, and this client's user is in them. *)
OneTaskPerId == \A x, y \in tasks : x.id = y.id => x = y

TablesSound == NoDanglingRows /\ IdsBelowNext /\ Me \in UserIds /\ OneTaskPerId

(* From the last moment the window was known to be right until something the client
   cannot know of may have changed its view (`sure`): what ClientState holds, or the
   last payload that loadFromPayload will take, with the replies behind it applied
   and the requests not yet served left out, is what getFullUserData would read.
   That this survives every interleaving rests on the order of statement, pushes and
   answer in ServerRoutes.cpp, and of change, request and callback in
   ClientState.cpp. *)
CopyInv ==
    /\ SyncInv /\ TablesSound /\ CallsIssued /\ RouteBegun
    /\ sure /\ signedIn => AllGood /\ CopyFits
=============================================================================
