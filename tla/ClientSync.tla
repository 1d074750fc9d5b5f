----------------------------- MODULE ClientSync -----------------------------
(***************************************************************************)
(* A client of StudySync and the tables it shows.  ClientState.cpp keeps a *)
(* copy of the user's data: a click changes the copy at once and sends a   *)
(* request (ServerAPI.cpp), the reply applies the same function to the     *)
(* copy again, and payloads of the server, pushed by a route, by the       *)
(* five-second refresh or by the AI client's thread, replace the copy at   *)
(* any time in between.                                                    *)
(*                                                                         *)
(* The tables and the routes are StudyDb's; other users write them too.    *)
(* The connection stays up (Sessions has the ones that break) and loses    *)
(* nothing, but an answer may come after its five seconds.                 *)
(***************************************************************************)
EXTENDS StudyDb, Sequences, FiniteSets, SequencesExt

CONSTANTS
    Me,          \* the user of this client
    Texts,       \* title, tag and assignee of a task
    Plans        \* what may happen in one behaviour: what the user clicks on and
                 \* how often, which tables the other clients write, and what the
                 \* second user is to the first's group at first

Optimistic == {"togglePinGroup", "deleteGroup", "deleteTask", "toggleTaskCompletion",
               "editTask", "removeMemberFromGroup", "cancelInvite", "acceptInvite",
               "denyInvite"}
OnReply == {"createGroup", "createTask", "sendMessage", "inviteMemberToGroup"}

Commands == Optimistic \cup OnReply \cup {"logOut"}

ASSUME ClientSyncAssumption ==
    /\ Me \in {1, 2}
    /\ {MaxUser, MaxGroup, MaxTask, MaxMessage} \cap {0, 1} = {}
    /\ \E n, o \in Names : n # o
    /\ Bodies = [done : BOOLEAN, text : Texts]
    /\ Plans \subseteq [clicks : SUBSET Commands, limit : Nat,
                        foreign : SUBSET {"tasks", "groups"},
                        relation : {"member", "invited", "none"}]

VARIABLES
    local,       \* ClientState: the copy of the user's data
    toggling,    \* togglingGroups of ClientState::togglePinGroup
    signedIn,    \* the main window is shown
    toServer,    \* requests on their way, in order
    answer,      \* the reply of the route in progress, not yet sent
    toClient,    \* replies and payloads on their way, in order
    aiPayload,   \* what the AI client's thread has read and not yet sent
    plan,        \* the one of Plans this behaviour follows
    clicks,      \* clicks so far
    crossed,     \* history: a click contradicted a request under way
    sure,        \* history: nothing but this client changed what it shows
    orphaned     \* history: marks in toggling whose request a logout dropped

client == <<local, toggling, signedIn, clicks, crossed, orphaned>>
wire == <<toServer, answer, toClient>>
syncVars == <<vars, client, wire, aiPayload, sure, plan>>

Call == [cmd : Optimistic \cup OnReply, group : GroupId, task : TaskId, user : UserId,
         body : Bodies]

(* waited: the callback is still in pending_requests_. *)
RequestMail == [call : Call, waited : BOOLEAN]
ReplyMail == [call : Call, waited : BOOLEAN, ok : BOOLEAN, id : Nat]

LocalGroup == [id : GroupId, members : SUBSET UserId, invited : SUBSET UserId, chat : Nat]

Local == [groups : Seq(LocalGroup), pending : Seq(GroupId), pins : SUBSET GroupId,
          tasks : Seq(TaskRow)]

IsReply(mail) == "call" \in DOMAIN mail

SyncTypeOK ==
    /\ TypeOK
    /\ local \in Local
    /\ toggling \subseteq GroupId /\ orphaned \subseteq GroupId
    /\ signedIn \in BOOLEAN /\ crossed \in BOOLEAN /\ sure \in BOOLEAN
    /\ toServer \in Seq(RequestMail)
    /\ answer \in Seq(ReplyMail) /\ Len(answer) <= 1
    /\ toClient \in Seq(ReplyMail \cup Local)
    /\ aiPayload \in Seq(Local) /\ Len(aiPayload) <= 1
    /\ plan \in Plans /\ clicks \in 0..plan.limit

----------------------------------------------------------------------------
(* ClientState's functions, on the copy v.  A row that is not found leaves
   the copy as it is; of two copies of a row the first is meant. *)

GroupAt(v, g) == SelectInSeq(v.groups, LAMBDA x : x.id = g)
TaskAt(v, t) == SelectInSeq(v.tasks, LAMBDA x : x.id = t)
PendingAt(v, g) == SelectInSeq(v.pending, LAMBDA x : x = g)

(* loadFromPayload of what getFullUserData read. *)
Loaded(view) ==
    [groups  |-> SetToSeq({[id      |-> g,
                            members |-> {m[2] : m \in {x \in view.members : x[1] = g}},
                            invited |-> {i[2] : i \in {x \in view.invited : x[1] = g}},
                            chat    |-> Cardinality({x \in view.messages : x.group = g})]
                              : g \in {m[1] : m \in view.members}}),
     pending |-> SetToSeq(view.pending),
     pins    |-> view.pinned,
     tasks   |-> SetToSeq(view.tasks)]

(* Mutant of Pinned: no look at togglingGroups. *)
PinnedUnguarded(v, g) ==
    [v EXCEPT !.pins = IF g \in @ THEN @ \ {g} ELSE @ \cup {g}]

(* togglePinGroup returns at once while an earlier toggle is unanswered. *)
Pinned(v, g) ==
    IF g \in toggling THEN v
    ELSE [v EXCEPT !.pins = IF g \in @ THEN @ \ {g} ELSE @ \cup {g}]

(* The tasks of s that are not of group g, in their order. *)
OfOtherGroups(s, g) ==
    LET left == {i \in DOMAIN s : s[i].group # g}
        place == CHOOSE p \in [1..Cardinality(left) -> left] :
                    \A i, j \in DOMAIN p : i < j => p[i] < p[j]
    IN  [i \in DOMAIN place |-> s[place[i]]]

WithoutGroup(v, g) ==
    IF GroupAt(v, g) = 0 THEN v
    ELSE [v EXCEPT !.groups = RemoveAt(@, GroupAt(v, g)),
                   !.tasks = OfOtherGroups(@, g),
                   !.pins = @ \ {g}]

WithColumn(v, t, column, value) ==
    IF TaskAt(v, t) = 0 THEN v ELSE [v EXCEPT !.tasks[TaskAt(v, t)].body[column] = value]

WithoutTask(v, t) ==
    IF TaskAt(v, t) = 0 THEN v ELSE [v EXCEPT !.tasks = RemoveAt(@, TaskAt(v, t))]

WithoutUser(v, g, role, u) ==
    IF GroupAt(v, g) = 0 THEN v ELSE [v EXCEPT !.groups[GroupAt(v, g)][role] = @ \ {u}]

WithInvited(v, g, u) ==
    IF GroupAt(v, g) = 0 \/ u \in v.groups[GroupAt(v, g)].members THEN v
    ELSE [v EXCEPT !.groups[GroupAt(v, g)].invited = @ \cup {u}]

WithMessage(v, g) ==
    IF GroupAt(v, g) = 0 THEN v ELSE [v EXCEPT !.groups[GroupAt(v, g)].chat = @ + 1]

(* The copy an invitation holds has no members, tasks or messages. *)
NewLocalGroup(g) == [id |-> g, members |-> {Me}, invited |-> {}, chat |-> 0]

WithoutPending(v, g) ==
    IF PendingAt(v, g) = 0 THEN v ELSE [v EXCEPT !.pending = RemoveAt(@, PendingAt(v, g))]

Accepted(v, g) ==
    IF PendingAt(v, g) = 0 THEN v
    ELSE [WithoutPending(v, g) EXCEPT !.groups = Append(@, NewLocalGroup(g))]

(* The function of a click that changes the copy before the request is sent. *)
Changed(v, r) ==
    CASE r.cmd = "togglePinGroup" -> Pinned(v, r.group)
      [] r.cmd = "deleteGroup" -> WithoutGroup(v, r.group)
      [] r.cmd = "deleteTask" -> WithoutTask(v, r.task)
      [] r.cmd = "toggleTaskCompletion" -> WithColumn(v, r.task, "done", r.body.done)
      [] r.cmd = "editTask" -> WithColumn(v, r.task, "text", r.body.text)
      [] r.cmd = "removeMemberFromGroup" -> WithoutUser(v, r.group, "members", r.user)
      [] r.cmd = "cancelInvite" -> WithoutUser(v, r.group, "invited", r.user)
      [] r.cmd = "acceptInvite" -> Accepted(v, r.group)
      [] r.cmd = "denyInvite" -> WithoutPending(v, r.group)

(* The overload of a function that a successful reply calls, with the id the
   server gave. *)
Created(v, r, id) ==
    CASE r.cmd = "createGroup" -> [v EXCEPT !.groups = Append(@, NewLocalGroup(id))]
      [] r.cmd = "createTask" ->
            [v EXCEPT !.tasks = Append(@, [id |-> id, group |-> r.group, owner |-> Me,
                                           body |-> [r.body EXCEPT !.done = FALSE]])]
      [] r.cmd = "sendMessage" -> WithMessage(v, r.group)
      [] r.cmd = "inviteMemberToGroup" -> WithInvited(v, r.group, r.user)

----------------------------------------------------------------------------
(* The client's threads *)

Sent(r) == [call |-> r, waited |-> TRUE]

(* Mutant of Perform: the request goes out whatever was found. *)
PerformAlways(r) ==
    /\ local' = Changed(local, r)
    /\ toServer' = Append(toServer, Sent(r))

(* An optimistic function of ClientState: it sends a request if, and only if,
   it found something to change. *)
Perform(r) ==
    /\ local' = Changed(local, r)
    /\ toServer' = IF Changed(local, r) = local THEN toServer ELSE Append(toServer, Sent(r))

(* togglePinGroup's callback in ClientState ends the mark of its group. *)
Unmarked(r) == IF r.cmd = "togglePinGroup" THEN toggling \ {r.group} ELSE toggling

(* Requests somebody still waits for, wherever they or their replies are. *)
UnderWay ==
    {m.call : m \in {x \in Range(toServer) \cup Range(answer)
                           \cup {y \in Range(toClient) : IsReply(y)} : x.waited}}

Contradicts(r, s) ==
    /\ r.cmd = s.cmd /\ r.task = s.task
    /\ \/ r.cmd = "toggleTaskCompletion" /\ r.body.done # s.body.done
       \/ r.cmd = "editTask" /\ r.body.text # s.body.text

(* A click that finds nothing to change is no step. *)
Click(r) ==
    /\ signedIn /\ clicks < plan.limit
    /\ \/ r.cmd \in Optimistic /\ Changed(local, r) # local /\ Perform(r)
       \/ r.cmd \in OnReply /\ toServer' = Append(toServer, Sent(r)) /\ UNCHANGED local
    /\ toggling' = IF r.cmd = "togglePinGroup" THEN toggling \cup {r.group} ELSE toggling
    /\ clicks' = clicks + 1
    /\ crossed' = (crossed \/ \E s \in UnderWay : Contradicts(r, s))
    /\ UNCHANGED <<vars, signedIn, answer, toClient, aiPayload, sure, orphaned>>

Quiet ==
    /\ job = Idle /\ toServer = <<>> /\ answer = <<>> /\ toClient = <<>> /\ aiPayload = <<>>

(* A payload replaces everything. *)
LoadPush ==
    /\ signedIn /\ toClient # <<>> /\ ~IsReply(Head(toClient))
    /\ local' = Head(toClient)
    /\ toClient' = Tail(toClient)
    /\ UNCHANGED <<vars, toServer, answer, aiPayload, toggling, signedIn, clicks, crossed,
                   orphaned>>
    /\ sure' = (sure \/ (Quiet' /\ Head(toClient) = Loaded(View(Me))))

(* The callback of a reply calls ClientState's function again, which may send
   again; then comes the caller's own callback. *)
TakeReply ==
    /\ signedIn /\ toClient # <<>> /\ IsReply(Head(toClient))
    /\ LET m == Head(toClient) IN
          \/ /\ ~m.waited
             /\ UNCHANGED <<local, toServer, toggling>>
          \/ /\ m.waited
             /\ \/ ~m.ok /\ UNCHANGED <<local, toServer>>
                \/ m.ok /\ m.call.cmd \in Optimistic /\ Perform(m.call)
                \/ /\ m.ok /\ m.call.cmd \in OnReply
                   /\ local' = Created(local, m.call, m.id)
                   /\ UNCHANGED toServer
             /\ toggling' = Unmarked(m.call)
    /\ toClient' = Tail(toClient)
    /\ UNCHANGED <<vars, answer, aiPayload, signedIn, clicks, crossed, sure, orphaned>>

(* Mutant of GiveUp: the error does not reach the caller's callback. *)
GiveUpSilently(r) ==
    /\ sure' = FALSE
    /\ UNCHANGED <<vars, local, toggling, signedIn, aiPayload, clicks, crossed, orphaned>>

(* A timer thread comes first: it runs the callback with an error, and what
   the server may still answer finds no callback. *)
GiveUp(r) ==
    /\ toggling' = Unmarked(r)
    /\ sure' = FALSE
    /\ UNCHANGED <<vars, local, signedIn, aiPayload, clicks, crossed, orphaned>>

Waited(queue, i) == IsReply(queue[i]) /\ queue[i].waited
Forgotten(queue, i) == [queue EXCEPT ![i].waited = FALSE]

Timeout ==
    \/ \E i \in DOMAIN toServer :
          /\ Waited(toServer, i) /\ GiveUp(toServer[i].call)
          /\ toServer' = Forgotten(toServer, i)
          /\ UNCHANGED <<answer, toClient>>
    \/ \E i \in DOMAIN answer :
          /\ Waited(answer, i) /\ GiveUp(answer[i].call)
          /\ answer' = Forgotten(answer, i)
          /\ UNCHANGED <<toServer, toClient>>
    \/ \E i \in DOMAIN toClient :
          /\ Waited(toClient, i) /\ GiveUp(toClient[i].call)
          /\ toClient' = Forgotten(toClient, i)
          /\ UNCHANGED <<toServer, answer>>

(* The window closes: disconnect, and the next login window takes another
   ServerAPI; the old one's callbacks are gone with their timers.  The server
   may have received some of the requests.  ClientState and togglingGroups
   are static and stay. *)
LogOut ==
    /\ "logOut" \in plan.clicks /\ signedIn /\ clicks < plan.limit
    /\ clicks' = clicks + 1
    /\ signedIn' = FALSE
    /\ \E n \in 0..Len(toServer) :
          toServer' = [i \in 1..n |-> [toServer[i] EXCEPT !.waited = FALSE]]
    /\ answer' = [i \in DOMAIN answer |-> [answer[i] EXCEPT !.waited = FALSE]]
    /\ toClient' = <<>>
    /\ orphaned' = toggling
    /\ UNCHANGED <<vars, local, toggling, aiPayload, crossed, sure>>

(* A login of the same user, from request to reply. *)
LogIn ==
    /\ ~signedIn /\ answer = <<>>
    /\ Login(Me) /\ UNCHANGED served
    /\ signedIn' = TRUE
    /\ local' = Loaded(View(Me))
    /\ toClient' = <<>>
    /\ sure' = (toServer = <<>> /\ aiPayload = <<>>)
    /\ UNCHANGED <<toServer, answer, aiPayload, toggling, clicks, crossed, orphaned>>

----------------------------------------------------------------------------
(* The server's threads *)

(* Mutant of PushIf: the payload was read before the route's statement. *)
PushOld(pushed) ==
    toClient' = IF pushed /\ signedIn THEN Append(toClient, Loaded(View(Me))) ELSE toClient

(* What the main thread sends to this client at the end of a step: a closed
   window has no connection. *)
PushIf(pushed) ==
    toClient' = IF pushed /\ signedIn THEN Append(toClient, Loaded(View(Me)')) ELSE toClient

Quietly == PushIf(FALSE)

(* Two statements on Tasks, each setting some of the columns. *)
BodyOf(t, otherwise) ==
    IF t \in {x.id : x \in tasks} THEN (CHOOSE x \in tasks : x.id = t).body ELSE otherwise

ToggleTaskCompletion(t, b) == UpdateTask(t, [BodyOf(t, b) EXCEPT !.done = b.done])

EditTask(t, b) == UpdateTask(t, [BodyOf(t, b) EXCEPT !.text = b.text])

(* The route of request r, to its end or to its first statement. *)
Route(r) ==
    LET g == r.group
        u == r.user
    IN \/ r.cmd = "togglePinGroup" /\ TogglePinGroup(g, Me) /\ PushIf(TRUE)
       \/ r.cmd = "deleteGroup" /\ DeleteGroup(g) /\ PushIf(Me \in UsersInGroup(g))
       \/ r.cmd = "deleteTask" /\ DeleteTask(r.task) /\ Quietly
       \/ r.cmd = "toggleTaskCompletion" /\ ToggleTaskCompletion(r.task, r.body) /\ Quietly
       \/ r.cmd = "editTask" /\ EditTask(r.task, r.body) /\ Quietly
       \/ /\ r.cmd = "removeMemberFromGroup" /\ RemoveMemberFromGroup(g, u)
          /\ PushIf(Me \in UsersInGroupAfter(g) \cup {u})
       \/ r.cmd = "cancelInvite" /\ CancelInvite(g, u) /\ PushIf(u = Me)
       \/ r.cmd = "denyInvite" /\ CancelInvite(g, Me) /\ PushIf(TRUE)
       \/ r.cmd = "acceptInvite" /\ AcceptInvite(g, Me) /\ Quietly
       \/ r.cmd = "createGroup" /\ CreateGroup(Me) /\ Quietly
       \/ /\ r.cmd = "createTask" /\ Quietly
          /\ CreateTask(g, Me, [r.body EXCEPT !.done = FALSE])
       \/ r.cmd = "sendMessage" /\ SendMessage(g, Me) /\ Quietly
       \/ r.cmd = "inviteMemberToGroup" /\ InviteMemberToGroup(g, u) /\ PushIf(u = Me)

(* Only createTask looks at whether its statement did anything. *)
Succeeds(r) == r.cmd = "createTask" => <<r.group, Me>> \in groups \X UserIds

NewId(r) == CASE r.cmd = "createGroup" -> next.group
              [] r.cmd = "createTask" -> next.task
              [] OTHER -> 0

(* Nobody stops a user who left a group, and still saw it or had a dialog open,
   from adding a task to it or deleting it; nobody then tells the user. *)
Outsider(r) == r.cmd \in {"createTask", "deleteGroup"} /\ <<r.group, Me>> \notin members

(* Mutant of Serve: a handler starts before the last one has answered. *)
ServeAtOnce ==
    /\ job = Idle /\ toServer # <<>>
    /\ \E m \in {Head(toServer)} :
          /\ Route(m.call)
          /\ answer' = Append(answer, [call |-> m.call, waited |-> m.waited,
                                       ok |-> Succeeds(m.call), id |-> NewId(m.call)])
          /\ sure' = (sure /\ ~Outsider(m.call))
    /\ toServer' = Tail(toServer)
    /\ UNCHANGED <<served, client, aiPayload>>

(* The main thread takes the next request. *)
Serve ==
    /\ job = Idle /\ answer = <<>> /\ toServer # <<>>
    /\ \E m \in {Head(toServer)} :
          /\ Route(m.call)
          /\ answer' = <<[call |-> m.call, waited |-> m.waited, ok |-> Succeeds(m.call),
                          id |-> NewId(m.call)]>>
          /\ sure' = (sure /\ ~Outsider(m.call))
    /\ toServer' = Tail(toServer)
    /\ UNCHANGED <<served, client, aiPayload>>

(* The last statement of createGroup or acceptInvite, of this client's request
   or of another's. *)
Finish ==
    /\ \/ CreatorMember /\ Quietly
       \/ AcceptMember /\ \E g \in GroupId : g = job.group /\ PushIf(Me \in UsersInGroupAfter(g))
    /\ sure' = (sure /\ (answer = <<>> => View(Me)' = View(Me)))
    /\ UNCHANGED <<served, client, toServer, answer, aiPayload>>

(* The handler is over, and the connection sends what it returned. *)
SendReply ==
    /\ job = Idle /\ answer # <<>>
    /\ answer' = <<>>
    /\ toClient' = IF signedIn THEN toClient \o answer ELSE toClient
    /\ UNCHANGED <<vars, client, toServer, aiPayload, sure>>

(* A request of another client.  Whether it pushes to this one is StudyDb's
   subject; here it may or may not. *)
OthersWrite ==
    /\ answer = <<>> /\ served < MaxRoutes
    /\ served' = served + 1
    /\ \/ "tasks" \in plan.foreign /\ TaskRoutes
       \/ "groups" \in plan.foreign /\ GroupRoutes
    /\ \E pushed \in BOOLEAN : PushIf(pushed /\ job' = Idle)
    /\ sure' = (sure /\ View(Me)' = View(Me))
    /\ UNCHANGED <<client, toServer, answer, aiPayload>>

NoPushUnderWay == \A i \in DOMAIN toClient : IsReply(toClient[i])

(* The refresh; the one before has arrived. *)
Refresh ==
    /\ answer = <<>> /\ signedIn /\ NoPushUnderWay
    /\ AutoRefresh /\ PushIf(TRUE)
    /\ UNCHANGED <<served, client, toServer, answer, aiPayload, sure>>

(* The AI client's thread pushes an answer: it reads the tables, at any point
   of a route, and sends what it read some time later. *)
AiRead ==
    /\ aiPayload = <<>> /\ signedIn /\ NoPushUnderWay
    /\ AiPush(Me)
    /\ aiPayload' = <<Loaded(View(Me))>>
    /\ UNCHANGED <<served, client, wire, sure>>

AiSend ==
    /\ aiPayload # <<>>
    /\ aiPayload' = <<>>
    /\ toClient' = IF signedIn THEN toClient \o aiPayload ELSE toClient
    /\ sure' = FALSE
    /\ UNCHANGED <<vars, client, toServer, answer>>

----------------------------------------------------------------------------
(* Two people have registered; the second has invited the first into the
   group made at registration, and is, or is invited to be, or is not in the
   first one's. *)
SyncInit ==
    /\ LET names == CHOOSE f \in [{1, 2} -> Names] : f[1] # f[2]
       IN  users = {[id |-> u, name |-> names[u]] : u \in {1, 2}}
    /\ groups = {1, 2}
    /\ plan \in Plans
    /\ members = {<<1, 1>>, <<2, 2>>}
                  \cup (IF plan.relation = "member" THEN {<<1, 2>>} ELSE {})
    /\ invites = {<<2, 1>>} \cup (IF plan.relation = "invited" THEN {<<1, 2>>} ELSE {})
    /\ pins = {<<1, 1>>, <<2, 2>>}
    /\ tasks = {[id |-> u, group |-> u, owner |-> u, body |-> FirstBody] : u \in {1, 2}}
    /\ messages = {[id |-> u, group |-> u, user |-> u] : u \in {1, 2}}
    /\ next = [user |-> 3, group |-> 3, task |-> 3, message |-> 3]
    /\ job = Idle /\ stale = {} /\ served = 0
    /\ local = Loaded(View(Me))
    /\ signedIn = TRUE /\ sure = TRUE /\ crossed = FALSE
    /\ toggling = {} /\ orphaned = {}
    /\ toServer = <<>> /\ answer = <<>> /\ toClient = <<>> /\ aiPayload = <<>>
    /\ clicks = 0

NoArgs == [group |-> 1, task |-> 1, user |-> Me, body |-> FirstBody]
With(cmd, args) ==
    [cmd |-> cmd, group |-> args.group, task |-> args.task, user |-> args.user,
     body |-> args.body]

(* What the user may click on.  A page or a dialog may be older than the copy,
   so the ids are those handed out at some time. *)
GroupClicks ==
    {With(cmd, [NoArgs EXCEPT !.group = g]) :
        cmd \in plan.clicks \cap {"togglePinGroup", "deleteGroup", "acceptInvite", "denyInvite",
                            "sendMessage"}, g \in IssuedGroups}
MemberClicks ==
    {With(cmd, [NoArgs EXCEPT !.group = g, !.user = u]) :
        cmd \in plan.clicks \cap {"removeMemberFromGroup", "cancelInvite", "inviteMemberToGroup"},
        g \in IssuedGroups, u \in UserIds}
TaskClicks ==
    {With(cmd, [NoArgs EXCEPT !.task = t, !.body.done = d]) :
        cmd \in plan.clicks \cap {"toggleTaskCompletion"}, t \in IssuedTasks, d \in BOOLEAN}
    \cup {With(cmd, [NoArgs EXCEPT !.task = t, !.body.text = x]) :
             cmd \in plan.clicks \cap {"editTask"}, t \in IssuedTasks, x \in Texts}
    \cup {With(cmd, [NoArgs EXCEPT !.task = t]) :
             cmd \in plan.clicks \cap {"deleteTask"}, t \in IssuedTasks}
NewClicks ==
    {With(cmd, NoArgs) : cmd \in plan.clicks \cap {"createGroup"}}
    \cup {With(cmd, [NoArgs EXCEPT !.group = g]) :
             cmd \in plan.clicks \cap {"createTask"}, g \in IssuedGroups}

AnyClick == \E r \in GroupClicks \cup MemberClicks \cup TaskClicks \cup NewClicks : Click(r)

Planned(A) == A /\ UNCHANGED plan

SyncNext ==
    /\ \/ AnyClick \/ LoadPush \/ TakeReply \/ Timeout \/ LogOut \/ LogIn
       \/ Serve \/ Finish \/ SendReply \/ OthersWrite \/ Refresh
       \/ AiRead \/ AiSend
    /\ UNCHANGED plan

(* The server's threads and the client's go on and the refresh comes round;
   nobody has to click, to write, to log in or to be late. *)
SyncFairness ==
    /\ WF_syncVars(Planned(Serve)) /\ WF_syncVars(Planned(Finish))
    /\ WF_syncVars(Planned(SendReply)) /\ WF_syncVars(Planned(LoadPush))
    /\ WF_syncVars(Planned(TakeReply)) /\ WF_syncVars(Planned(AiSend))
    /\ SF_syncVars(Planned(Refresh))

SyncSafe == SyncInit /\ [][SyncNext]_syncVars

SyncSpec == SyncSafe /\ SyncFairness

----------------------------------------------------------------------------
(* Properties *)

SameRows(s, t) == Len(s) = Len(t) /\ Range(s) = Range(t)

(* A member who is invited once more is not shown as invited before the next
   payload: InviteMemberToGroup of the tables does not look at the members,
   ClientState::inviteMemberToGroup does. *)
Listed(group) == [group EXCEPT !.invited = @ \ group.members]

Agrees(v, w) ==
    /\ SameRows([i \in DOMAIN v.groups |-> Listed(v.groups[i])],
                [i \in DOMAIN w.groups |-> Listed(w.groups[i])])
    /\ SameRows(v.pending, w.pending)
    /\ SameRows(v.tasks, w.tasks)
    /\ v.pins = w.pins

UpToDate == Agrees(local, Loaded(View(Me)))

(* What the client changes by itself is what the server changes: with nothing
   under way, and nobody else's write, no late answer and no payload of the
   AI client's thread since the last payload that found the client at rest,
   the window shows the tables, each row once, though no route told it.
   (Every pair of ClientState.cpp and Database.cpp.) *)
OptimismIsRight == signedIn /\ sure /\ Quiet => UpToDate

(* However replies, refreshes and the AI thread's payloads cross the clicks,
   the window ends up showing the tables, and the replies of old clicks stop
   sending new requests; unless a click contradicted a request under way: two
   such replies go on undoing each other.  (ServerAPI.cpp, the callbacks.) *)
ClicksSettle ==
    <>[](~signedIn \/ (UpToDate /\ UnderWay = {})) \/ <>crossed

(* A pin button is dead only while the answer to its click is awaited, or
   after a logout dropped that answer: then it is dead until the program
   ends.  (togglingGroups in ClientState::togglePinGroup.) *)
DeadPinsAreAwaited ==
    \A g \in toggling \ orphaned :
        \E r \in UnderWay : r.cmd = "togglePinGroup" /\ r.group = g

(* The server's toggle undoes itself, so a reply may never send it again: of
   one group one is awaited at most, and only a click adds one.
   (togglingGroups in ClientState::togglePinGroup.) *)
PinRequests(g) ==
    Cardinality({i \in DOMAIN toServer : toServer[i].call.cmd = "togglePinGroup"
                                         /\ toServer[i].call.group = g})

PinsFollowClicks ==
    [][\A g \in GroupId : PinRequests(g)' > PinRequests(g) => clicks' = clicks + 1]_syncVars

----------------------------------------------------------------------------
(* The inductive invariant behind SyncTypeOK, DeadPinsAreAwaited and
   PinsFollowClicks *)

(* A toggle of group g the callback of which is still to run. *)
Toggles(mail, g) ==
    /\ IsReply(mail) /\ mail.waited
    /\ mail.call.cmd = "togglePinGroup" /\ mail.call.group = g

Awaits(queue, g) == \E i \in DOMAIN queue : Toggles(queue[i], g)
Once(queue, g) ==
    \A i, j \in DOMAIN queue : Toggles(queue[i], g) /\ Toggles(queue[j], g) => i = j

Awaited(g) == Awaits(toServer, g) \/ Awaits(answer, g) \/ Awaits(toClient, g)

(* Of each group one toggle is awaited at most, in one place. *)
OneToggle(g) ==
    /\ Once(toServer, g) /\ Once(answer, g) /\ Once(toClient, g)
    /\ Awaits(toServer, g) => ~Awaits(answer, g) /\ ~Awaits(toClient, g)
    /\ Awaits(answer, g) => ~Awaits(toClient, g)

(* The mark of a group stands for it. *)
Marked(g) ==
    /\ Awaited(g) => g \in toggling
    /\ g \in toggling \ orphaned => Awaited(g)

(* The id in a reply is the one of a new row. *)
IdFits(mail) ==
    IsReply(mail) /\ mail.ok =>
        /\ mail.call.cmd = "createGroup" => mail.id \in GroupId
        /\ mail.call.cmd = "createTask" => mail.id \in TaskId

IdsFit ==
    /\ \A i \in DOMAIN answer : IdFits(answer[i])
    /\ \A i \in DOMAIN toClient : IdFits(toClient[i])

FiniteTables == IsFiniteSet(tasks) /\ IsFiniteSet(messages)

SyncInv ==
    /\ SyncTypeOK /\ FiniteTables /\ IdsFit
    /\ ~signedIn => toClient = <<>> /\ \A g \in GroupId : ~Awaited(g)
    /\ \A g \in GroupId : OneToggle(g) /\ Marked(g)
============================================================================
