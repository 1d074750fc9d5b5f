------------------------------ MODULE StudyDb ------------------------------
(***************************************************************************)
(* The SQLite tables of the StudySync server (server/src/Database.cpp) and *)
(* the routes that write them (server/src/ServerRoutes.cpp).               *)
(*                                                                         *)
(* Every route runs on the single io_context thread, so a route that       *)
(* issues one SQL statement is one action.  A route that issues several    *)
(* is a job: one action per statement, because each statement commits by   *)
(* itself, the process may die between two of them, and the AI client's    *)
(* own thread may read the tables in between to push a payload.            *)
(*                                                                         *)
(* Rows hold the columns that decide which rows exist and who sees them;   *)
(* a task's title, tag, assignee and completion are one value, its body,   *)
(* and texts of messages are left out.                                     *)
(***************************************************************************)
EXTENDS Integers

CONSTANTS
    Names,          \* the usernames people register with
    Bodies,         \* what a task row says besides its id, group and owner
    FirstBody,      \* the body of the task createTemplateForUser writes
    MaxUser, MaxGroup, MaxTask, MaxMessage,  \* bounds on the ids handed out
    MaxRoutes       \* bound on the writing requests a behaviour serves

ASSUME BoundsAssumption ==
    /\ MaxUser \in Nat /\ MaxGroup \in Nat
    /\ MaxTask \in Nat /\ MaxMessage \in Nat
    /\ MaxRoutes \in Nat

ASSUME BodyAssumption == FirstBody \in Bodies

VARIABLES
    users,       \* Users: [id, name]
    groups,      \* StudyGroups: ids
    members,     \* GroupMembers: <<group, user>>
    invites,     \* GroupInvites: <<group, user>>
    pins,        \* PinnedGroups: <<group, user>>
    tasks,       \* Tasks: [id, group, owner, body]
    messages,    \* Messages: [id, group, user]
    next,        \* sqlite_sequence: the id the next row of a table gets
    job,         \* what is left of the route the main thread is running
    stale,       \* users whose view changed after the last payload sent to them
    served       \* writing requests started so far

tables == <<users, groups, members, invites, pins, tasks, messages>>
vars == <<tables, next, job, stale, served>>

UserId == 1..MaxUser
GroupId == 1..MaxGroup
TaskId == 1..MaxTask
MessageId == 1..MaxMessage

UserRow == [id : UserId, name : Names]
TaskRow == [id : TaskId, group : GroupId, owner : UserId, body : Bodies]
MessageRow == [id : MessageId, group : GroupId, user : UserId]

Sequence == [user : 1..MaxUser + 1, group : 1..MaxGroup + 1,
             task : 1..MaxTask + 1, message : 1..MaxMessage + 1]

(* The statements a compound route still has to run. *)
Steps == {"idle", "creatorMember", "acceptMember",
          "welcomeGroup", "welcomeMember", "welcomeAgain",
          "welcomeTask", "welcomeMessage", "welcomePin"}

Job == [pc : Steps, user : 0..MaxUser, group : 0..MaxGroup]

Idle == [pc |-> "idle", user |-> 0, group |-> 0]

TypeOK ==
    /\ users \subseteq UserRow
    /\ groups \subseteq GroupId
    /\ members \subseteq GroupId \X UserId
    /\ invites \subseteq GroupId \X UserId
    /\ pins \subseteq GroupId \X UserId
    /\ tasks \subseteq TaskRow
    /\ messages \subseteq MessageRow
    /\ next \in Sequence
    /\ job \in Job
    /\ stale \subseteq UserId
    /\ served \in 0..MaxRoutes

UserIds == {x.id : x \in users}

(* Ids a client can hold: handed out at some time, the row perhaps gone. *)
IssuedUsers == 1..next.user - 1
IssuedGroups == 1..next.group - 1
IssuedTasks == 1..next.task - 1

----------------------------------------------------------------------------
(* Who sees what *)

(* Database::getFullUserData, without the AI columns. *)
View(u) ==
    LET mine == {g \in groups : <<g, u>> \in members} IN
    [name     |-> {x \in users : x.id = u},
     pinned   |-> {g \in GroupId : <<g, u>> \in pins},
     members  |-> {m \in members : m[1] \in mine},
     invited  |-> {i \in invites : i[1] \in mine},
     tasks    |-> {t \in tasks : t.group \in mine},
     messages |-> {m \in messages : m.group \in mine},
     pending  |-> {g \in groups : <<g, u>> \in invites}]

(* Mutant of UsersInGroup: the second query is missing. *)
UsersInGroupMembersOnly(g) == {u \in UserId : <<g, u>> \in members}

(* Database::getUsersInGroup: the members, then the invited. *)
UsersInGroup(g) == {u \in UserId : <<g, u>> \in members \cup invites}

(* The same, read after the statement of a route. *)
UsersInGroupAfter(g) == UsersInGroup(g)'

(* pushUpdateToUser for every user of `pushed`: each gets a payload of the
   tables as they are when the step ends. *)
Push(pushed) ==
    stale' = {u \in UserId : (u \in stale \/ View(u)' # View(u)) /\ u \notin pushed}

----------------------------------------------------------------------------
(* Statements *)

(* The row an INSERT into a (group, user) table can add: none when a foreign
   key fails, and then the statement has no effect. *)
Linked(g, u) == {<<g, u>>} \cap (groups \X UserIds)

(* Mutant of DropGroup: PinnedGroups without its cascade. *)
DropGroupKeepingPins(g) ==
    /\ groups' = groups \ {g}
    /\ members' = {m \in members : m[1] # g}
    /\ invites' = {i \in invites : i[1] # g}
    /\ tasks' = {t \in tasks : t.group # g}
    /\ messages' = {m \in messages : m.group # g}
    /\ UNCHANGED <<users, pins>>

(* DELETE FROM StudyGroups with every ON DELETE CASCADE that follows. *)
DropGroup(g) ==
    /\ groups' = groups \ {g}
    /\ members' = {m \in members : m[1] # g}
    /\ invites' = {i \in invites : i[1] # g}
    /\ pins' = {p \in pins : p[1] # g}
    /\ tasks' = {t \in tasks : t.group # g}
    /\ messages' = {m \in messages : m.group # g}
    /\ UNCHANGED users

(* DELETE FROM Users with every ON DELETE CASCADE that follows.  A task's
   assignee has no foreign key, so only owned tasks go. *)
DropUser(u) ==
    /\ users' = {x \in users : x.id # u}
    /\ members' = {m \in members : m[2] # u}
    /\ invites' = {i \in invites : i[2] # u}
    /\ pins' = {p \in pins : p[2] # u}
    /\ tasks' = {t \in tasks : t.owner # u}
    /\ messages' = {m \in messages : m.user # u}
    /\ UNCHANGED groups

(* Mutant of InsertTask: no AUTOINCREMENT, the id is one above the largest in
   the table. *)
InsertTaskReusingIds(g, u, b) ==
    LET id == CHOOSE i \in 1..MaxTask + 1 :
                 /\ \A t \in tasks : t.id < i
                 /\ i = 1 \/ \E t \in tasks : t.id = i - 1
    IN  IF <<g, u>> \in groups \X UserIds
        THEN /\ tasks' = tasks \cup {[id |-> id, group |-> g, owner |-> u, body |-> b]}
             /\ next' = [next EXCEPT !.task = id + 1]
        ELSE UNCHANGED <<tasks, next>>

(* INSERT INTO Tasks, owner_id and group_id being foreign keys. *)
InsertTask(g, u, b) ==
    IF <<g, u>> \in groups \X UserIds
    THEN /\ tasks' = tasks \cup {[id |-> next.task, group |-> g, owner |-> u, body |-> b]}
         /\ next' = [next EXCEPT !.task = @ + 1]
    ELSE UNCHANGED <<tasks, next>>

(* INSERT INTO Messages. *)
InsertMessage(g, u) ==
    IF <<g, u>> \in groups \X UserIds
    THEN /\ messages' = messages \cup {[id |-> next.message, group |-> g, user |-> u]}
         /\ next' = [next EXCEPT !.message = @ + 1]
    ELSE UNCHANGED <<messages, next>>

(* A DELETE by group and user from GroupMembers or GroupInvites. *)
Without(table, g, u) == table \ {<<g, u>>}

(* An UPDATE by id, and a DELETE by id, of Tasks. *)
Updated(t, b) == {IF x.id = t THEN [x EXCEPT !.body = b] ELSE x : x \in tasks}
DroppedTask(t) == {x \in tasks : x.id # t}

(* INSERT INTO Users, which fails on a username in use. *)
InsertUser(n) ==
    /\ n \notin {x.name : x \in users}
    /\ users' = users \cup {[id |-> next.user, name |-> n]}
    /\ next' = [next EXCEPT !.user = @ + 1]

(* INSERT INTO StudyGroups. *)
InsertGroup ==
    /\ groups' = groups \cup {next.group}
    /\ next' = [next EXCEPT !.group = @ + 1]

(* Database::togglePinGroup: isGroupPinned, then a DELETE or an INSERT. *)
TogglePinRow(g, u) ==
    \/ <<g, u>> \in pins /\ pins' = pins \ {<<g, u>>}
    \/ <<g, u>> \notin pins /\ pins' = pins \cup Linked(g, u)

----------------------------------------------------------------------------
(* Routes of one statement.  Their ids come from clients, which may hold the
   id of a row that is gone; -1 and the ids of gone rows fail alike. *)

DeleteUser(u) ==
    /\ job = Idle
    /\ DropUser(u)
    /\ UNCHANGED <<next, job>>
    /\ Push({})

(* The users to notify are read before the group and its rows go. *)
DeleteGroup(g) ==
    /\ job = Idle
    /\ DropGroup(g)
    /\ UNCHANGED <<next, job>>
    /\ Push(UsersInGroup(g))

TogglePinGroup(g, u) ==
    /\ job = Idle
    /\ TogglePinRow(g, u)
    /\ UNCHANGED <<users, groups, members, invites, tasks, messages, next, job>>
    /\ Push({u})

(* Pushes to the group even when the INSERT failed, never to the owner. *)
CreateTask(g, u, b) ==
    /\ job = Idle
    /\ next.task <= MaxTask
    /\ InsertTask(g, u, b)
    /\ UNCHANGED <<users, groups, members, invites, pins, messages, job>>
    /\ Push(UsersInGroup(g) \ {u})

(* toggleTaskCompletion and editTask: one UPDATE by id, and no push. *)
UpdateTask(t, b) ==
    /\ job = Idle
    /\ tasks' = Updated(t, b)
    /\ UNCHANGED <<users, groups, members, invites, pins, messages, next, job>>
    /\ Push({})

DeleteTask(t) ==
    /\ job = Idle
    /\ tasks' = DroppedTask(t)
    /\ UNCHANGED <<users, groups, members, invites, pins, messages, next, job>>
    /\ Push({})

SendMessage(g, u) ==
    /\ job = Idle
    /\ next.message <= MaxMessage
    /\ InsertMessage(g, u)
    /\ UNCHANGED <<users, groups, members, invites, pins, tasks, job>>
    /\ Push(UsersInGroup(g) \ {u})

(* The user is looked up by name just before, so the row exists. *)
AddMemberToGroup(g, u) ==
    /\ job = Idle
    /\ members' = members \cup Linked(g, u)
    /\ UNCHANGED <<users, groups, invites, pins, tasks, messages, next, job>>
    /\ Push(UsersInGroupAfter(g) \cup {u})

(* The pin of the member who leaves stays. *)
RemoveMemberFromGroup(g, u) ==
    /\ job = Idle
    /\ members' = Without(members, g, u)
    /\ UNCHANGED <<users, groups, invites, pins, tasks, messages, next, job>>
    /\ Push(UsersInGroupAfter(g) \cup {u})

(* Nothing stops the invitation of a user who is a member already. *)
InviteMemberToGroup(g, u) ==
    /\ job = Idle
    /\ invites' = invites \cup Linked(g, u)
    /\ UNCHANGED <<users, groups, members, pins, tasks, messages, next, job>>
    /\ Push({u})

(* The routes cancelInvite and denyInvite. *)
CancelInvite(g, u) ==
    /\ job = Idle
    /\ invites' = Without(invites, g, u)
    /\ UNCHANGED <<users, groups, members, pins, tasks, messages, next, job>>
    /\ Push({u})

----------------------------------------------------------------------------
(* Routes of several statements *)

(* createGroup: the group, then its creator's membership.  No push. *)
CreateGroup(u) ==
    /\ job = Idle
    /\ next.group <= MaxGroup
    /\ InsertGroup
    /\ job' = [pc |-> "creatorMember", user |-> u, group |-> next.group]
    /\ UNCHANGED <<users, members, invites, pins, tasks, messages>>
    /\ Push({})

CreatorMember ==
    /\ job.pc = "creatorMember"
    /\ members' = members \cup Linked(job.group, job.user)
    /\ job' = Idle
    /\ UNCHANGED <<users, groups, invites, pins, tasks, messages, next>>
    /\ Push({})

(* acceptInvite: the invitation goes, whether or not there was one ... *)
AcceptInvite(g, u) ==
    /\ job = Idle
    /\ invites' = Without(invites, g, u)
    /\ job' = [pc |-> "acceptMember", user |-> u, group |-> g]
    /\ UNCHANGED <<users, groups, members, pins, tasks, messages, next>>
    /\ Push({})

(* ... and the user becomes a member; then the group is notified. *)
AcceptMember ==
    \E g \in GroupId, u \in UserId :
        /\ job = [pc |-> "acceptMember", user |-> u, group |-> g]
        /\ members' = members \cup Linked(g, u)
        /\ job' = Idle
        /\ UNCHANGED <<users, groups, invites, pins, tasks, messages, next>>
        /\ Push(UsersInGroupAfter(g))

(* createUser: fails on a username in use; otherwise the row, and then
   createTemplateForUser statement by statement. *)
CreateUser(n) ==
    /\ job = Idle
    /\ next.user <= MaxUser /\ next.group <= MaxGroup
    /\ next.task <= MaxTask /\ next.message <= MaxMessage
    /\ InsertUser(n)
    /\ job' = [pc |-> "welcomeGroup", user |-> next.user, group |-> 0]
    /\ UNCHANGED <<groups, members, invites, pins, tasks, messages>>
    /\ Push({})

(* Mutant of WelcomeGroup: the id is read after the sequence moved on. *)
WelcomeGroupLateId ==
    /\ job.pc = "welcomeGroup"
    /\ InsertGroup
    /\ job' = [job EXCEPT !.pc = "welcomeMember", !.group = next.group + 1]
    /\ UNCHANGED <<users, members, invites, pins, tasks, messages>>
    /\ Push({})

WelcomeGroup ==
    /\ job.pc = "welcomeGroup"
    /\ InsertGroup
    /\ job' = [job EXCEPT !.pc = "welcomeMember", !.group = next.group]
    /\ UNCHANGED <<users, members, invites, pins, tasks, messages>>
    /\ Push({})

(* createGroup makes the creator a member, and addMemberToGroup tries again. *)
WelcomeMember ==
    /\ job.pc \in {"welcomeMember", "welcomeAgain"}
    /\ members' = members \cup Linked(job.group, job.user)
    /\ job' = [job EXCEPT !.pc = IF @ = "welcomeMember" THEN "welcomeAgain"
                                                        ELSE "welcomeTask"]
    /\ UNCHANGED <<users, groups, invites, pins, tasks, messages, next>>
    /\ Push({})

(* Mutant of WelcomeTask: group and owner in each other's place. *)
WelcomeTaskSwapped ==
    /\ job.pc = "welcomeTask"
    /\ InsertTask(job.user, job.group, FirstBody)
    /\ job' = [job EXCEPT !.pc = "welcomeMessage"]
    /\ UNCHANGED <<users, groups, members, invites, pins, messages>>
    /\ Push({})

WelcomeTask ==
    /\ job.pc = "welcomeTask"
    /\ InsertTask(job.group, job.user, FirstBody)
    /\ job' = [job EXCEPT !.pc = "welcomeMessage"]
    /\ UNCHANGED <<users, groups, members, invites, pins, messages>>
    /\ Push({})

WelcomeMessage ==
    /\ job.pc = "welcomeMessage"
    /\ InsertMessage(job.group, job.user)
    /\ job' = [job EXCEPT !.pc = "welcomePin"]
    /\ UNCHANGED <<users, groups, members, invites, pins, tasks>>
    /\ Push({})

WelcomePin ==
    /\ job.pc = "welcomePin"
    /\ TogglePinRow(job.group, job.user)
    /\ job' = Idle
    /\ UNCHANGED <<users, groups, members, invites, tasks, messages, next>>
    /\ Push({})

----------------------------------------------------------------------------
(* Payloads sent without a write, and the end of the process *)

(* login answers with the user's data. *)
Login(u) ==
    /\ job = Idle
    /\ UNCHANGED <<tables, next, job>>
    /\ Push({u})

(* startAutoRefreshTimer: every five seconds, to every active user. *)
AutoRefresh ==
    /\ job = Idle
    /\ UNCHANGED <<tables, next, job>>
    /\ Push(UserId)

(* The AI client's thread pushes after an answer, at any point of a route. *)
AiPush(u) ==
    /\ UNCHANGED <<tables, next, job>>
    /\ Push({u})

(* The process dies and starts again: committed rows stay, initTables finds
   its tables, and the route in progress is forgotten. *)
Crash ==
    /\ job # Idle
    /\ job' = Idle
    /\ UNCHANGED <<tables, next, stale>>

----------------------------------------------------------------------------
Init ==
    /\ users = {} /\ groups = {} /\ members = {} /\ invites = {} /\ pins = {}
    /\ tasks = {} /\ messages = {}
    /\ next = [user |-> 1, group |-> 1, task |-> 1, message |-> 1]
    /\ job = Idle
    /\ stale = {}
    /\ served = 0

UserRoutes ==
    \/ \E n \in Names : CreateUser(n)
    \/ \E u \in IssuedUsers : DeleteUser(u) \/ CreateGroup(u)

GroupRoutes ==
    \E g \in IssuedGroups :
        \/ DeleteGroup(g)
        \/ \E u \in UserIds : AddMemberToGroup(g, u) \/ InviteMemberToGroup(g, u)
        \/ \E u \in IssuedUsers :
              \/ TogglePinGroup(g, u)
              \/ RemoveMemberFromGroup(g, u)
              \/ CancelInvite(g, u)
              \/ AcceptInvite(g, u)
              \/ SendMessage(g, u)
              \/ \E b \in Bodies : CreateTask(g, u, b)

TaskRoutes ==
    \E t \in IssuedTasks : DeleteTask(t) \/ \E b \in Bodies : UpdateTask(t, b)

(* A request that writes is read from a connection and its route begins. *)
Request ==
    /\ served < MaxRoutes
    /\ served' = served + 1
    /\ UserRoutes \/ GroupRoutes \/ TaskRoutes

JobSteps ==
    /\ \/ CreatorMember \/ AcceptMember
       \/ WelcomeGroup \/ WelcomeMember \/ WelcomeTask \/ WelcomeMessage \/ WelcomePin
    /\ UNCHANGED served

Payloads ==
    /\ \/ \E u \in UserIds : Login(u)
       \/ AutoRefresh
       \/ \E u \in IssuedUsers : AiPush(u)
    /\ UNCHANGED served

Restart == Crash /\ UNCHANGED served

Next == Request \/ JobSteps \/ Payloads \/ Restart

Spec == Init /\ [][Next]_vars

----------------------------------------------------------------------------
(* Properties *)

(* No row refers to a row that is gone: every membership, invitation, pin,
   task and message has its group and its user, however deletions cascade
   and wherever a route was cut off.  (initTables, the foreign keys.) *)
NoDanglingRows ==
    /\ members \cup invites \cup pins \subseteq groups \X UserIds
    /\ \A t \in tasks : t.group \in groups /\ t.owner \in UserIds
    /\ \A m \in messages : m.group \in groups /\ m.user \in UserIds

(* An id names one row for ever: a client that still holds the id of a
   deleted task, group or user can never hit another one with it, and a task
   never moves to another group or owner.  (AUTOINCREMENT in initTables.) *)
OneRowPerId ==
    /\ \A s \in {"user", "group", "task", "message"} : next'[s] >= next[s]
    /\ \A x \in users' : x.id \in IssuedUsers => x \in users
    /\ groups' \cap IssuedGroups \subseteq groups
    /\ \A t \in tasks' : t.id \in IssuedTasks =>
          \E old \in tasks : /\ old.id = t.id
                             /\ old.group = t.group
                             /\ old.owner = t.owner
    /\ \A m \in messages' : m.id < next.message => m \in messages

IdsNameOneRowForEver == [][OneRowPerId]_vars

(* What the proofs add to make NoDanglingRows inductive: no table holds an id
   that is still to be handed out ... *)
IdsBelowNext ==
    /\ \A x \in users : x.id < next.user
    /\ \A g \in groups : g < next.group
    /\ \A t \in tasks : t.id < next.task
    /\ \A m \in messages : m.id < next.message

(* ... and where a route of several statements stands: nobody touches the new
   user or the new group while the main thread fills the template. *)
BeforeTask == {"welcomeGroup", "welcomeMember", "welcomeAgain", "welcomeTask"}
BeforeMessage == BeforeTask \cup {"welcomeMessage"}
Welcoming == BeforeMessage \cup {"welcomePin"}
GroupMade == Welcoming \ {"welcomeGroup"}

JobInProgress ==
    /\ job.pc \in {"creatorMember", "acceptMember"} =>
          job.user \in UserId /\ job.group \in GroupId
    /\ job.pc = "welcomeGroup" => next.group <= MaxGroup
    /\ job.pc \in BeforeTask => next.task <= MaxTask
    /\ job.pc \in BeforeMessage => next.message <= MaxMessage
    /\ job.pc \in Welcoming => job.user \in UserIds
    /\ job.pc \in GroupMade =>
          /\ job.group \in groups
          /\ \A p \in pins : p[1] # job.group
          /\ \A m \in members : m[1] = job.group => m[2] = job.user
    /\ job.pc \in GroupMade \ {"welcomeMember"} => <<job.group, job.user>> \in members
    /\ job.pc \in {"welcomeMessage", "welcomePin"} =>
          \E t \in tasks : t.group = job.group /\ t.owner = job.user
    /\ job.pc = "welcomePin" =>
          \E m \in messages : m.group = job.group /\ m.user = job.user

Inv == TypeOK /\ NoDanglingRows /\ IdsBelowNext /\ JobInProgress

(* What createTemplateForUser promises a new user when createUser returns:
   one group, which the user is the only member of and has pinned, holding a
   task and a message of the user. *)
Welcomed(u, g) ==
    /\ u \in UserIds /\ g \in groups
    /\ <<g, u>> \in pins
    /\ \A v \in UserId : <<g, v>> \in members <=> v = u
    /\ \E t \in tasks : t.group = g /\ t.owner = u
    /\ \E m \in messages : m.group = g /\ m.user = u

(* Whatever else the server did before, a registration that runs to its end
   leaves the complete template.  (ServerRoutes.cpp createUser.) *)
WelcomeComplete ==
    [][WelcomePin => \E u \in UserId, g \in GroupId :
                        u = job.user /\ g = job.group /\ Welcomed(u, g)']_vars

(* Users a step leaves with a view that differs from the last payload sent to
   them, though it did not before. *)
NewlyStale == stale' \ stale

(* Nothing but who is invited to u's groups changes in what u sees. *)
OnlyInvitedChanges(u) ==
    \A part \in DOMAIN View(u) \ {"invited"} : UNCHANGED View(u)[part]

(* Who is left with an old view by a route that pushes.  A message or a task
   leaves nobody behind but its author; a change of members or of a pin,
   nobody at all; the deletion of a group, only a former member whose pin
   outlived the membership.  The invitations are the exception: inviting,
   cancelling and denying push to the invited user alone, so members of the
   group are left with an old list of who is invited, but with nothing else.
   (ServerRoutes.cpp, the pushes after the statements.) *)
LiveRoutesReachEveryViewer ==
    [][\A g \in IssuedGroups :
             /\ AcceptMember /\ job.group = g => stale' \cap UsersInGroup(g)' = {}
             /\ DeleteGroup(g) =>
                   NewlyStale \cap UsersInGroup(g) = {}
                   /\ \A u \in NewlyStale : <<g, u>> \in pins
             /\ \A u \in IssuedUsers :
                   /\ \/ AddMemberToGroup(g, u) \/ RemoveMemberFromGroup(g, u)
                      \/ TogglePinGroup(g, u)
                      => NewlyStale = {}
                   /\ InviteMemberToGroup(g, u) \/ CancelInvite(g, u) =>
                         \A v \in NewlyStale :
                            v # u /\ <<g, v>> \in members /\ OnlyInvitedChanges(v)
                   /\ SendMessage(g, u) => NewlyStale \subseteq {u}
                   /\ \A b \in Bodies : CreateTask(g, u, b) => NewlyStale \subseteq {u}]_vars
============================================================================
