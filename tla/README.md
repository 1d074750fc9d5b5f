# StudySync in TLA+

Specifications of StudySync (a Qt client, a Boost.Asio server with SQLite, and a
Python backend for the AI tutor), model-checked with TLC and in part proved with
TLAPS. Paths are relative to the root of the repository.

## The system

| part | source | state it keeps | operations |
|---|---|---|---|
| database | `server/src/Database.cpp` | SQLite tables; one static map of AI cancellation flags | one method per statement or group of statements, each under `dbMutex` |
| routes | `server/src/ServerRoutes.cpp` | the client of the AI backend, the refresh timer | one handler per command, three ways to push |
| connections | `server/src/TcpServer.cpp`, `ConnectionManager.cpp` | sockets with a user each, map user -> connection | accept, read, handle a line, send, end of file |
| AI backend | `ai_backend.py` | none | one answer, or one error, per line read |
| TCP client | `shared/src/TcpClient.cpp` | write queue, `connected`, reconnect timer | send, connect, reconnect, disconnect, change of address |
| request layer | `client/src/ClientNetworkManager.cpp` | `pending_requests_`, next number | sendRequest, timer thread of each request, onMessageReceived |
| client state | `client/src/ServerAPI.cpp`, `client/src/ui/ClientState.cpp` | the user's copy of the data | one optimistic change and one callback per command, loadFromPayload |
| focus timer | `client/src/ui/page/FocusPage.cpp` | time that remains, selected group, three buttons | start, pause, reset, tick |
| windows | `client/src/ui/**` | login window, chat pages, dialogs | clicks |

How they interact. The server has two threads that matter: the main thread runs
the `io_context` with every connection, route and the five-second refresh; the
AI client's own thread runs the callback that stores an answer and pushes it.
They meet in the tables (`dbMutex`, one method or block at a time) and in
`ConnectionManager`. The client has the GUI thread, the I/O thread of its
`TcpClient`, and one detached thread per request that sleeps five seconds; they
meet in `pending_requests_` (a mutex) and in `ClientState` (nothing).

What is hard, and what makes each part correct:

* **Database**: routes of several statements are cut off by a crash, or observed
  half-way by the AI thread; deletions cascade. Correct: references stay sound,
  an id never comes to mean another row, a registration is whole when it
  returns.
* **Pushes**: which users a change concerns, read before or after it. Correct:
  a message or a task leaves nobody but its author with an old payload, a change of
  members or pins nobody. Inviting, cancelling and denying push to the invited user
  alone: members keep an old list of who is invited until the next payload.
* **AI tutor**: `addAiMessage` releases the lock between its look at the flag and
  its INSERT; `cancelAi` reads and then acts; answers come late or never.
  Correct: questions are paid, answers follow their questions once, a
  cancellation ends the wait and costs no answer to a later question.
* **Connections**: late discovery of dead connections, removal by user, payloads
  sent out of order by two threads. Correct: a connection
  that logged in is pushed to until its user logs in over another one or another one
  of its user is found dead; the client shows its own user's data, and catches up while it is
  pushed to. The removal by user is not right in itself: a dead connection found late
  takes the entry of a live one (`SessionsLateEnd`).
* **TCP client**: handlers of an old connection run after those of a new one, aborts
  look like failures, lines queue up while there is no connection. Correct: lines go
  out in order, none is left out, the attempts end in a connection.
* **Focus timer**: six places set three buttons, each some of them. Correct: a button
  to go on with, one announcement per session.
* **Request layer**: reply against timeout, several numbering threads, lost and
  repeated messages, the end of a session. Correct: one outcome per call, the
  right reply, nothing left behind.

`PROJECT.json` lists these hazards line by line with the properties aimed at
them, or with the reason why none is.

## Modules

| module | models | run by |
|---|---|---|
| `StudyDb` | tables, routes that write them, who is pushed to | `StudyDb.cfg` (`StudyDbMC`) |
| `StudyDbProofs` | theorems about `StudyDb` | |
| `AiTutor` | tutor routes, AI thread, flags, backend | `AiTutor.cfg`, `AiTutorDelayed.cfg` (`AiTutorMC`) |
| `AiTutorProofs` | theorems about `AiTutor` and `TutorPage` | |
| `RemoteCall` | what sendRequest promises (abstract) | through `Requests` |
| `Requests` | request layer over the write queue and the wire | `Requests.cfg` (`RequestsMC`) |
| `RequestsProofs` | theorems about `Requests`, among them the refinement | |
| `LineQueue` | what TcpClient promises about lines (abstract) | through `TcpClient` |
| `TcpClient` | the object of TcpClient.cpp, handler by handler | `TcpClient.cfg` (`TcpClientMC`) |
| `TcpClientProofs` | theorems about `TcpClient`, among them the refinement | |
| `Sessions` | connections, logins, registry, pushes | `Sessions.cfg`, `SessionsLateEnd.cfg`, `SessionsLiveChat.cfg` (`SessionsMC`) |
| `SessionsProofs` | theorems about `Sessions` | |
| `ClientSync` | one client's copy against the tables of `StudyDb` | `ClientSync.cfg` (`ClientSyncMC`) |
| `ClientSyncProofs` | theorems about `ClientSync`, over those about `StudyDb` | |
| `ClientCopy` | the inductive invariant of the copy in `ClientSync` | `ClientSync.cfg` |
| `ClientCopyProofs` | theorems about `ClientCopy`, over those about `ClientSync` | |
| `TutorPage` | the page of the tutor over `AiTutor` | `TutorPage.cfg`, `TutorPageLoading.cfg` (`TutorPageMC`) |
| `FocusTimer` | the focus page | `FocusTimer.cfg` (`FocusTimerMC`) |
| `FocusTimerProofs` | theorems about `FocusTimer` | |

### StudyDb

One variable per table, `next` for SQLite's AUTOINCREMENT sequences, `job` for
what is left of the route in progress. A route of one statement is one action:
the main thread runs one route at a time, and between its statement and its
pushes only reads follow. A route of several statements (createGroup,
acceptInvite, createUser with its template) is one action per statement;
`Crash` may come between any two, since every statement commits by itself, and
`AiPush` may read half of it. INSERTs fail as the foreign keys make them fail
(`Linked`), `OR IGNORE` is the union of sets, deletions cascade in `DropGroup`
and `DropUser` as declared in initTables. Requests carry any id that was ever
handed out, the rows of which may be gone.

`stale` holds the users whose `View` (what getFullUserData would return) changed
after the last payload made for them; `Push` empties it for the users pushed to.
`LiveRoutesReachEveryViewer` reads off it whom a pushing route leaves behind: nobody but
the author of a message or a task, a former member whose pin outlived the membership
when a group is deleted, and, when somebody is invited or an invitation is cancelled
or denied, members of the group, for whom nothing changed but who is invited. The routes that never push (editTask, deleteTask,
toggleTaskCompletion, createGroup, deleteUser) leave users stale until the
refresh, and the model says so.

Left out: texts, e-mail and password; the AI columns (in `AiTutor`);
`sync_counter`, which is sent and which no client reads.

### AiTutor

An action is one block under `dbMutex`. `main` and `ai` are the places where the
two threads stand between blocks. A question is a number in the order of
acceptance, its answer the same number in an entry of role `ai`, the text of a
cancellation is 0. The backend answers requests in order or fails, in which case
its reply names no user and the callback gives up on it (`Fail`); `LinkDown` loses
what the connection carries; `Crash` keeps the tables and loses the flags.
`cancelledBefore` and `abandoned` are history variables, written when cancelAi sets the
flag, read by properties only. The definitions after the properties are the
inductive invariant of `AiTutorProofs`.

### RemoteCall and Requests

`RemoteCall` is the promise of sendRequest: each call gets one outcome, `reply`
only if the server ran the request. `Requests` is the code: numbering, storing
the callback, posting to the write queue and starting the timer are four steps
of the calling thread, each of several calls at once; a timer thread takes the
callback or finds it gone; the I/O thread takes a reply, finds its callback or
not, and runs it; the front of the write queue stays until the write handler
ran, so after a loss it may go out again. `Serve` goes on for connections the
client has left. The refinement mapping reads `started` off the stages, `ran` off
the counter of executions, `open` off the ownership of the manager.

`Release` (main.cpp replaces the `ServerAPI` at the next login window) is modelled
when no thread is inside sendRequest, and a released manager does nothing more
unless a timer thread keeps it alive; what a thread inside the object at that moment
would do is undefined and outside the model. So is what follows when `DropQueue`
empties the queue under a completed write, which `TcpClient` shows.

### TcpClient and LineQueue

`TcpClient` is the class as its I/O thread runs it, for both programs. `io` is the
object with its pending operations: the socket, resolves under way, the read, the
writes, the timer, and `ready`, the first-in first-out list of posted functions and
completion handlers of the `io_context`. `RunHandler` runs the first of them; each
handler is an operator on `io` (`OnSend`, `OnSetServerAddress`, `OnDisconnect`,
`OnResolve`, `OnConnect`, `OnRead`, `OnWrite`, and `Connect` for the timer's), and the members they call
(`Connect`, `DoRead`, `DoWrite`, `CheckReconnect`) are operators too. Boost.Asio and
the network are external: operations complete, fail, or are aborted by `Close`. A name
has one address. `TimerFires` only when `ready` is empty, since the I/O thread is
never three seconds behind. Some systems let an operation fail while the socket is
connecting; that counts as a fault.

`LineQueue` is the promise to the owner: lines in order, one at a time, only the
front written again on a new connection, all dropped by a change of address.
`KeepsOrder` maps the steps of the detailed module to it.

Two writes or two reads at a time, and a pop of the empty queue, are undefined; `io.undefined`
records the first and behaviour stops there. The model shows that a command can
bring this about, and `overtaken` exempts exactly that from `Defined` and
`KeepsOrder`: every login calls setServerAddress (LoginWindow.cpp:153), and the program has been
trying 127.0.0.1:8080 since its start, so an attempt is usually under way. Two chains
of handlers then run side by side. The connection that is made first is closed three
seconds later by the aborted chain's timer; `connected` stays true while the client
connects again, so a send may start a write beside another. A disconnect that finds
a completed write waiting empties the queue that the handler pops. A disconnect
during an attempt connects again anyway. `ReachesTheServer` and `QueueEmpties` say
that, short of undefined behaviour, all this comes to an end.

The bytes of lines are left out: `lines` counts whole ones. The start of a line that
stays in `readBuffer` when a connection breaks (TcpClient.cpp:103) spoils the first
line of the next, which is a lost message to `Requests`.

### Sessions

A connection is unused, open, closed by the client, or seen to be closed by the
server (`gone`). The login handler is three steps (payload, registration, reply),
a push is a look into the registry, a read of the tables and a send, because the
AI thread does the same in between; the tables are a version number. `EndOfFile`
removes the entry of the connection's user, whichever connection it names.
Clients log in, fail, register, reconnect without logging in (nothing sets the on-connect
callback), log out. `HandleRegistration` drops the connection like a login does, before
it looks at its fields, and may do so under a login that is waited for; createUser
itself touches neither connections nor registry. `unseated` is a history: the connections whose user, after
they logged in, logged in over another one or had another one found dead.
`PushedToUntilUnseated` says that the registry loses a live connection in these two cases and
in no other. The second is the one that hurts: who logs out and in again has an old
connection the server may find dead after it registered the new one
(TcpServer.cpp:36), and then gets no push before another login. `SessionsLateEnd` shows it.

### ClientSync

Extends `StudyDb` with the client that shows its tables. A behaviour follows one of
`Plans`: which clicks its user makes, how many, what another client writes, and whether
the user begins as a member or invited; the plans of the run cover every click. `local` is the client's copy,
with lists where the code has lists, so that a row shown twice is seen;
`toServer` and `toClient` are the connection, in order and lossless here
(`Sessions` and `Requests` have the rest). A click runs the function of
ClientState on the copy (`Changed`) and sends the request if that found something to
change (`Perform`), or only sends it and waits for the id (`Created`); the reply of an
optimistic click performs the click again, which is what every callback in
ServerAPI.cpp does. `waited` on a message says that its callback is still in
`pending_requests_`; `Timeout` takes it away, wherever the message is. `Serve` runs the
route of StudyDb, `answer` is the reply while that route has statements to go, pushes
are sent before it as the handlers do. The AI thread reads the tables at any point
of a route and sends later. `OthersWrite` is any route of another client; whether it
pushes to this one is decided by `StudyDb`'s properties and arbitrary here.

`deleteGroup` keeps the tasks of other groups in their order (`OfOtherGroups`); a payload
lists rows in some order, which nothing depends on. `UsersInGroupAfter` of `StudyDb` is the
list of viewers a route reads after its statement.

Three history variables say what happened: `sure` until something the client cannot
know of may have changed its view (another's write, a late answer, a
payload of the AI thread, an action on a group the user has left) and again
when a payload finds everything at rest; `crossed` when a click contradicted a
request under way; `orphaned` the pins whose answer a logout dropped.

What the model shows of the code besides its properties. Two contradictory clicks on
a task's box within one round trip make two replies that undo each other and send
again, for ever (`crossed`). Someone who was removed from a group and deletes it from
an old dialog is told of it by nobody (`Outsider`). A member who is invited again is
shown as invited by the server and not by the inviting client (`Listed`). A pin
button whose answer a logout dropped is dead until the program ends (`orphaned`).

Left out: getUsername, deleteUser, the members' names, history of the tutor.

### TutorPage

Extends `AiTutor` with its one user's client. `local` is the copy of history and
credits, `page` the static flag `isWaitingForAi`, the loading message (`bubble`, which
holds the stop button), the line and the answers on the page. Signals from other
threads wait in `guiQueue`, as Qt queues them; `Refreshed` is refreshMessages with
its order of reading and clearing the flag. The pushes of `AiTutor`'s two threads are
added (`push`, `payload`): each reads the credits, reads the history and sends, in
three steps. `LogInAgain` is a log out with the login after it: the old connection is
lost with all or some of the requests on it, the new page starts from the tables and
from the old flag, which is static. `stray` is a history: the user cleared the history, or
logged out, in the wait that the page is in. Then the page may wait for an answer to
nothing, with an empty history. The stop button does not end such a wait: cancelAi adds nothing to an
empty history, onCancelGeneration leaves `isWaitingForAi` set, and the next payload draws
the wait again; only another question ends it, asked in the moment in which the stop
has opened the line. `PageSettles` allows this wait to those users only; every
other wait has a question at the end of its history. `LateClicks` are the clicks whose
reply may come after its timeout. `spared` is a history
too. Left out: attachments, a server without tutor (credits of -1), the refreshes
that names cause, another user logging in, and a backend connection that breaks after it
was found (`Fail` loses the same).

### FocusTimer

One variable per widget state and one action per slot. `GroupsChange` replaces the
client's groups and `RefreshGroupList` comes later, as the queued signal does; a
selection that changes in it calls updateButtons through its signal.
`StartFocusFromDashboard` is refreshGroupList, which may change the selection, then reset and start, in one call. `announced` counts the chat
messages since the last reset, `early` the pauses before a second had passed, after
which the code takes the next start for the first. The label is left out.

## What is checked

| run | bounds | shows |
|---|---|---|
| `StudyDb` | 2 names, ids up to 2 per table, 4 writing requests | `NoDanglingRows`, `IdsNameOneRowForEver`, `WelcomeComplete`, `LiveRoutesReachEveryViewer` |
| `AiTutor` | 2 users, 2 credits, 3 questions | `PaidQuestions`, `AnswersFollowQuestions`, `CancelEndsTheWait`, `OnlyCancelledAnswersDropped` |
| `AiTutorDelayed` | 1 user, 2 questions | violates `DelayedAnswersIgnored` (below) |
| `Requests` | 2 calls, 2 connections | `RepliesMeetTheirCall`, `NoneLeftBehind`, `KeepsPromise`, `EveryCallEnds` |
| `Sessions` | 1 client, 2 users, 2 connections, 1 write | `PushedToUntilUnseated`, `TheUserStays`, `ReachedClientsCatchUp`, `DeadConnectionsAreForgotten` |
| `SessionsLateEnd` | 1 client, 1 user, 2 connections, 1 write | violates `LiveChatOverOneConnection` (below) |
| `ClientSync` | 2 clicks of one user, or 1 click and 1 request of another client | `OptimismIsRight`, `CopyInv`, `DeadPinsAreAwaited`, `ClicksSettle`, `PinsFollowClicks` |
| `TcpClient` | 2 hosts (one unreachable), 2 messages, 2 commands, 1 fault, 1 arrival | `Defined`, `KeepsOrder`, `ReachesTheServer`, `QueueEmpties` |
| `FocusTimer` | 2 groups, 3 seconds, 2 early pauses | `ButtonsFit`, `AnnouncedOnce`, `RunsOut` |
| `TutorPage` | 2 credits, 2 questions, 3 clicks, a late answer to the third only | `PageSettles`, `SeenAnswersStay` |
| `TutorPageLoading` | 2 credits, 2 questions, 3 clicks, no late answer | violates `LoadingSurvivesRefresh` (below) |
| `SessionsLiveChat` | 2 clients, 1 user, 2 connections, 1 write | violates `LiveChat` (below) |

Why the bounds are enough. Two users suffice to have an author and another, a
member and an invited, an owner and a stranger; ids up to 2 let a row be deleted
and another be created after it; four requests reach from a registration over a
second one to the deletion of a group with everything in it. The history of an
answer concerns one question and a later one, three questions leave one for the
other user. A race for a callback needs one call, a mix-up two. A stale entry of
the registry needs an old and a new connection, which one client program makes one after the other;
one write makes the payload of one thread old while the other sends the new one. Several
client programs are in the theorems about `Sessions` and in `SessionsLiveChat`. `MailArrived` in Sessions and `NoPushUnderWay` in ClientSync bound the mail under
way: refreshes and the AI thread wait until the payload before has arrived. Two
clicks cross each other's replies and those of the requests their replies send;
one click and one foreign request are what a payload in between needs. With two
credits, two questions and three clicks a user of TutorPage can see an answer, ask again and
stop with that answer on the page (what `SeenAnswersStay` is about), find the line open after
an answer, stop and ask again, clear the history while waiting, or log out while waiting and come
back. A late answer to the third click is one to a page that already shows something;
more late answers multiply the states and reach the same handlers.
In TcpClient one fault and two commands make three generations of handlers that
overlap, and two messages let one be in flight while another waits. Three seconds are
a first, a middle and a last one.
`Permutations` are used in `AiTutor` only, where the users are interchangeable and no
liveness is checked. `CHECK_DEADLOCK FALSE` where the system may stop: in Requests a released manager with every
timer over does nothing more, in ClientSync and TutorPage the model's clicks run out,
in TcpClient a connected or disconnected client waits for commands. Every property has a
mutant of a mapped definition, written beside it, that TLC finds violating it.

Fairness. In `Requests`: a thread inside sendRequest goes on, a sleeping timer thread
wakes up, a callback returns; nothing is asked of the network or the server. In
`Sessions`: weak fairness for the two server threads and for the delivery of mail on a
connection the client keeps; strong fairness for the refresh (a timer of the main
thread comes round although handlers keep the thread busy in between) and for
the discovery of a dead connection (a read of a closed socket completes with an
error; the handler waits for the main thread). In `ClientSync`: weak fairness for
the server's steps, the client's I/O thread and a payload of the AI thread that
was read, strong fairness for the refresh; timeouts may never come. In `TutorPage` the same, with
strong fairness for the requests too: the refresh shares their thread, and the
`io_context` runs what is ready in turn. In `TcpClient`: weak fairness for the I/O
thread, and for what Boost.Asio and the system owe: a resolve or an attempt
completes, a write on a good connection is transmitted, an operation on a broken one
fails, a timer fires. In `FocusTimer`: weak fairness for the tick of an active QTimer. No fairness for users: nobody has
to log in, connect, write or answer.

Four statements of the repository that the code does not keep, each a run of its
own:

* `DelayedAnswersIgnored`: Database.cpp:543 promises to ignore a delayed answer
  after a cancellation. The next question resets the flag (line 549), so an
  answer that comes after it is stored.
* `LoadingSurvivesRefresh`: changelog.md:1 says that the AI loading message no longer
  goes away when a refresh occurs. AiTutorPage.cpp:50 takes any last entry of role
  `ai` for the answer, also the cancellation of the question before.
* `LiveChatOverOneConnection`: README.md:17 promises messages in real time. A user logs in,
  out, and in again; the server reads the end of the first connection last and removes the
  user's entry, which names the second (TcpServer.cpp:36). The client keeps its connection
  and is not pushed to.
* `LiveChat`: README.md:17 promises messages in real time. A client whose
  connection was replaced stays logged in and connected, and is not pushed to
  until it logs in again.

## What is proved

All proofs are for every value of the constants, under the named assumptions of
the modules: bounds are naturals, `NoCall` is no call, `NoUser` no user, `NoGroup` no
group, calls are a finite set, `FirstBody` is a body, a session of the timer lasts at least a second;
`ClientSync` needs bounds above 1 because its users start with a group, a task and a message,
and `Me` is one of the two users registered at the start;
`TutorPage` has one user. Each invariant stands at the end of the module it is about or of
its module of proofs, `CopyInv` in `ClientCopy`; TLC found each to hold on the instances of the runs before it was proved.
What Append, Tail and SubSeq do to the elements of a queue stands at the head of each
module of proofs that needs it.

* `StudyDbProofs`. `Inv` adds to `NoDanglingRows` that no table holds an id still to be
  handed out (`IdsBelowNext`: without it an INSERT could revive a dangling
  reference) and what the route in progress has done so far (`JobInProgress`: the
  template's group exists, nobody else is in it or has pinned it, which holds because no
  other route runs before the job ends). From it: `TypeCorrect`,
  `ReferencesSound`, `IdsNeverReused`, `RegistrationWelcomes`. `PushesReachViewers` compares
  views: a table enters a user's view only through the rows of its groups (`SameView`),
  so whoever's view a route changes is a member, is invited, or is the one that left, and
  the route reads exactly these, before a deletion and after any other change; an
  invitation enters the view of the invited user and, in the members', the list of the invited only.
* `RequestsProofs`. `Inv` says that numbers are given out once (`Numbering`), that a
  callback is in one place at a time: not stored yet, in the map, with a timer
  thread, with the I/O thread, or done (`OnePlace`), and that every message under
  way is the request of the call it names (`Traffic`). From it: `TypeCorrect`,
  `RepliesCorrect`, `NothingLeaks`, and step by step (`RefinementStep`) `PromiseKept`:
  Requests implements RemoteCall.
* `AiTutorProofs`. `Inv` says that a question is in one place on its way (`OnePlace`: in the
  route, in one of three queues, or with the AI thread), that it has no answer as long
  as it is under way (`AnswersPlaced`: without it an answer could be stored twice),
  that a question that is paid and not yet stored counts as one (`Charged`: the route
  may be cut off between the two), and that what is under way while a flag is set is
  older than the cancellation (`FlagsFit`: askAi resets the flag before the question
  leaves). From it: `TypeCorrect`, `NobodyAsksForFree`, `AnswersInOrder`,
  `CancelStopsTheWait`, `DropsAreCancelled`.
* The second part of `AiTutorProofs` is about `TutorPage`. Every step of the page is a step of `AiTutor` or none, so `AiTutor`'s `Inv`
  holds here as well. `PageInv` adds that the answers in any copy are over (`Over`: none will be
  stored again), and why the stop button spares what is shown: an answer is buried under
  a later entry, or a question that can be paid goes before the stop (`SafeBehind`). That a
  question is not refused there rests on the credits in a copy (`CopyFits`): an old payload
  shows a credit that is gone only if the question that took it buries what the payload
  shows, and a payload half read (`HalfRead`) obeys this because its thread neither
  charges nor stores meanwhile. From it: `PageTypesCorrect`, `StopsSpareWhatIsSeen`.
* `SessionsProofs`. `Inv` says that a connection belongs to one client and carries one
  login in its life (`OneLogin`: a client leaves a connection before it makes another
  login, also one that failed), that registry, threads and payloads name the user of
  the connection they name (`MailFits`), that a window shown has nothing left of earlier
  logins (`SignedIn`), that a connection loses its place only after it got a user
  (`UnseatedLoggedIn`), and `PushedToUntilUnseated` itself. From it: `TypeCorrect`,
  `PlacesKept`, `UsersStay`.
* `TcpClientProofs`. Until a command overtakes a connection, the object is at one stage of
  connecting (`At`: a timer, a resolve, an attempt or a connection, or none), no
  operation calls back twice (`OnceEach`), and the line being written is the front of the
  queue (`OneOperation`). One lemma per handler shows that it hands the stage on. From it:
  `TypeCorrect`, `StaysDefined`, and step by step `OrderKept`: TcpClient implements
  LineQueue as long as it is not overtaken.
* `ClientSyncProofs`. `SyncInv` follows a click on a pin: of each group at most one toggle is
  awaited, in one place, on its way to the server, as the answer of the route in
  progress, or on its way back (`OneToggle`), and the mark stands for it unless a logout dropped
  it (`Marked`: the mark is what keeps a second click, and a reply, from sending
  another); ids in replies are ids of rows, and tables are finite, so a payload can list them.
  From it: `SyncTypeCorrect`, `DeadPinsEnd`, `PinsAreClicks`.
* `ClientCopyProofs`. `OptimismIsRight` compares the copy with the tables only when nothing is
  under way, and nothing about such a state says why the two agree: the invariant must say it
  of every state before. `CopyInv` speaks of the copy the client will have in the end,
  which is `local`, or the last payload on its way (a payload replaces all that was
  before it). What the tables show (`Shown`) may differ from that copy in two ways. The replies
  behind the copy (`Line`, `Behind`) still add to it what `onReply` functions add, and each
  group, task, message or invitation they tell of is missing from the copy until then. And
  the requests not yet served (`Asked`; `Window` for a payload, which was read when only the
  route in progress could still change the tables) excuse exactly the rows, columns and list
  entries they are about. So `Fits` says of each row that it agrees, or is told by a reply
  behind, or is asked about; no sequence of effects is folded, since the last reply about a
  thing, or else the row, tells what it is (`InvitationFits`, `ColumnFits`). With nothing behind
  and nothing asked for, no excuse is left, and the copy agrees with a payload read now
  (`FitsAgrees`).
  The rest of `CopyInv` is what the steps need: ids in the mail were handed out, so a new row
  is told by its own reply only (`CallsIssued`); no request fails while nothing is late
  (`AllGood`); where a route of two statements stands and that nobody else knows of the
  group it makes (`RouteBegun`); one row per task, and no dangling ones (`TablesSound`).
  The proof has four kinds of lemmas: what a function of ClientState does to the rows (`...Rows`);
  how a copy fits after it, with its request among those asked for (`...Fits` up to
  `ChangedFits`); how it fits when the first reply is taken, or the last one appended
  (`...After`, `...Longer`), which is a click's reply applied and a request served; and one lemma
  per action of `ClientSync` (`...Copy`), where a route that pushes to its author is proved by the
  payload it pushes and one that does not by its reply. From it: `CopyInvHolds`, `OptimismHolds`.
* `FocusTimerProofs`. `Inv` adds to the two properties that a timer which stands at its
  full time owes no announcement (`Begun`), because that is what startTimer reads off
  the time. From it: `TypeCorrect`, `ButtonsAlwaysFit`, `OneAnnouncement`.

Only model-checked: liveness (`EveryCallEnds`, `ReachedClientsCatchUp`,
`DeadConnectionsAreForgotten`, `ClicksSettle`, `ReachesTheServer`, `QueueEmpties`, `RunsOut`,
`PageSettles`), which needs fairness and ENABLED. Every other property of a passing run is
a theorem.

## Plan

Done: every module above, and the proof of every safety property the runs check. What would
come next: the cache of user names in `ClientSync`, and another user's login in `TutorPage`.

## Not modelled

* JSON forms of the shared records (`DataStructures.cpp`): field-by-field copies of plain
  records, without state or branches that a property could be about.
* Dialogs, cards, other pages, languages, highlighting, most of MainWindow, AbstractChatPage and
  LoginWindow: Qt layout that calls what is modelled.
* SQLite (`server/src/sqlite/sqlite3.c` and its header): vendored, and modelled by what the
  program's statements do to the tables. It is 97 per cent of the repository's
  lines, so whatever is mapped of StudySync's own code is a small share of the whole.
* Data races inside containers of `ClientState` (each of its functions is taken as one
  step), and the order in which a C++ object's members are destroyed.
* ping, time and getUsername, which change nothing; deleteUser in `Sessions`, since no
  window calls it.
