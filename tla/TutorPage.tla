----------------------------- MODULE TutorPage -----------------------------
(***************************************************************************)
(* The page of the client on which a user talks to the AI tutor:           *)
(* AiTutorPage.cpp and the loading message of AbstractChatPage.cpp, over   *)
(* the client's copy of history and credits (ClientState.cpp), which the   *)
(* I/O thread replaces with every payload and the GUI thread shows when    *)
(* the queued userChanged reaches it.                                      *)
(*                                                                         *)
(* The server is AiTutor with this one user, and with the pushes AiTutor   *)
(* leaves out: the main thread and the AI client's thread each read the    *)
(* tables and send what they read some time later.  The connection lasts   *)
(* from login to log out, and the server stays up; an answer may come      *)
(* after its five seconds.                                                 *)
(***************************************************************************)
EXTENDS AiTutor

CONSTANTS
    Me,          \* the user of this client
    Clicks,      \* what the user may click on
    LateClicks,  \* clicks whose reply may come after its five seconds
    MaxClicks    \* bound on the clicks

ASSUME TutorPageAssumption ==
    /\ Users = {Me} /\ MaxClicks \in Nat /\ LateClicks \subseteq Nat
    /\ Clicks \subseteq {"askAi", "cancelAi", "clearAiHistory", "logOut"}

VARIABLES
    local,       \* aiMessages and aiCredits of ClientState
    page,        \* the page, and isWaitingForAi
    guiQueue,    \* signals queued for the GUI thread
    awaited,     \* questions whose callback is in pending_requests_
    toServer,    \* requests on their way, in order
    asking,      \* the click behind the route askAi in progress
    push,        \* what each thread still has to read for its pushUpdateToUser
    payload,     \* what it has read and not sent
    toClient,    \* replies and payloads on their way, in order
    clicks,      \* clicks so far
    stray,       \* history: the user cleared the history or logged out in the
                 \* wait that goes on, which may have lost its question
    spared       \* history: what was shown when the stop now served was clicked

server == <<vars, asking, push, payload, spared>>
client == <<local, page, guiQueue, awaited, clicks, stray>>
tutorVars == <<server, client, toServer, toClient>>

Threads == {"main", "ai"}
NoClick == 0

(* A question shown before the server numbered it has the text 0. *)
LocalEntry == [role : {"user", "ai"}, text : Question \cup {Cancelled}]
Payload == [messages : Seq(LocalEntry), credits : 0..StartCredits]

Page == [waiting : BOOLEAN,            \* isWaitingForAi
         bubble  : BOOLEAN,            \* currentLoadingBubble, with its stop button
         input   : BOOLEAN,            \* the line and its button are enabled
         shown   : SUBSET Question]    \* answers on the page

Request == [cmd : Clicks \ {"logOut"}, click : 1..MaxClicks,
            shown : SUBSET Question]
Reply == [click : 1..MaxClicks, ok : BOOLEAN]

PageTypeOK ==
    /\ TypeOK
    /\ local \in Payload
    /\ page \in Page
    /\ guiQueue \in Seq({"userChanged", "aiFailed"})
    /\ awaited \subseteq 1..MaxClicks
    /\ toServer \in Seq(Request)
    /\ asking \in 0..MaxClicks
    /\ push \in [Threads -> {"nothing", "all", "messages"}]
    /\ payload \in [Threads -> Seq(Payload)]
    /\ \A t \in Threads : Len(payload[t]) <= 1 /\ (push[t] = "messages" => payload[t] # <<>>)
    /\ \A i \in DOMAIN toClient : toClient[i] \in Reply \cup Payload
    /\ clicks \in 0..MaxClicks
    /\ stray \in BOOLEAN
    /\ spared \subseteq Question

IsReply(mail) == "click" \in DOMAIN mail

Answers(messages) ==
    {messages[i].text : i \in {j \in DOMAIN messages : messages[j].role = "ai"}} \ {Cancelled}

(* What a payload shows. *)
Here == [messages |-> log[Me], credits |-> credits[Me]]

(* Thread t has no pushUpdateToUser to finish. *)
Free(t) == push[t] = "nothing" /\ payload[t] = <<>>

EndsInAnswer(messages) == messages # <<>> /\ messages[Len(messages)].role = "ai"

----------------------------------------------------------------------------
(* The GUI thread *)

(* Mutant of Refreshed: an answer does not end the wait. *)
RefreshedForGood(p, l) ==
    [waiting |-> p.waiting,
     bubble  |-> p.waiting,
     input   |-> l.credits > 0 /\ ~p.waiting,
     shown   |-> Answers(l.messages)]

(* Mutant of Refreshed: the last credit does not open the line. *)
RefreshedForSpare(p, l) ==
    LET waits == p.waiting /\ ~EndsInAnswer(l.messages)
    IN  [waiting |-> waits,
         bubble  |-> waits,
         input   |-> l.credits > 1 /\ ~p.waiting,
         shown   |-> Answers(l.messages)]

(* refreshMessages draws the page anew.  The input looks at the flag before
   the last message ends the wait. *)
Refreshed(p, l) ==
    LET waits == p.waiting /\ ~EndsInAnswer(l.messages)
    IN  [waiting |-> waits,
         bubble  |-> waits,
         input   |-> l.credits > 0 /\ ~p.waiting,
         shown   |-> Answers(l.messages)]

(* finishLoadingMessage with an error: without a bubble it does nothing. *)
Finished(p) ==
    IF p.bubble THEN [p EXCEPT !.bubble = FALSE, !.input = TRUE] ELSE p

(* ClientState::askAi; its userChanged is handled at once. *)
Asked(l) ==
    [messages |-> Append(l.messages, [role |-> "user", text |-> Cancelled]),
     credits  |-> l.credits - 1]

SendRequest(cmd) ==
    /\ cmd \in Clicks /\ clicks < MaxClicks
    /\ clicks' = clicks + 1
    /\ toServer' = Append(toServer, [cmd   |-> cmd, click |-> clicks + 1,
                                     shown |-> IF cmd = "cancelAi" THEN page.shown ELSE {}])

(* Mutant of ClickSend: the credits are not looked at. *)
ClickSendUnchecked ==
    /\ page.input
    /\ SendRequest("askAi")
    /\ local' = Asked(local)
    /\ page' = [Refreshed([page EXCEPT !.waiting = TRUE], local')
                   EXCEPT !.bubble = TRUE, !.input = FALSE]
    /\ awaited' = awaited \cup {clicks'}
    /\ stray' = FALSE
    /\ UNCHANGED <<server, guiQueue, toClient>>

(* The send button, or the return key; without credits nothing happens. *)
ClickSend ==
    /\ page.input /\ local.credits > 0
    /\ SendRequest("askAi")
    /\ local' = Asked(local)
    /\ page' = [Refreshed([page EXCEPT !.waiting = TRUE], local')
                   EXCEPT !.bubble = TRUE, !.input = FALSE]
    /\ awaited' = awaited \cup {clicks'}
    /\ stray' = FALSE
    /\ UNCHANGED <<server, guiQueue, toClient>>

(* The stop button of the bubble: isWaitingForAi is left to the next payload. *)
ClickStop ==
    /\ page.bubble
    /\ SendRequest("cancelAi")
    /\ page' = Finished([page EXCEPT !.input = TRUE])
    /\ UNCHANGED <<server, local, guiQueue, awaited, toClient, stray>>

ClickClear ==
    /\ SendRequest("clearAiHistory")
    /\ stray' = page.waiting
    /\ UNCHANGED <<server, local, page, guiQueue, awaited, toClient>>

(* Log out, and the login after it.  Requests under way may be lost with the old
   connection, everything else is, with what a thread has read for it; the new
   page starts from the payload of the login, and from the old flag. *)
LogInAgain ==
    /\ "logOut" \in Clicks /\ clicks < MaxClicks
    /\ clicks' = clicks + 1
    /\ main = MainIdle /\ Free("main")
    /\ toServer' \in {SubSeq(toServer, 1, n) : n \in 0..Len(toServer)}
    /\ guiQueue' = <<>> /\ awaited' = {} /\ toClient' = <<>>
    /\ push' = [t \in Threads |-> IF push[t] = "messages" THEN "nothing" ELSE push[t]]
    /\ payload' = [t \in Threads |-> <<>>]
    /\ local' = Here
    /\ page' = Refreshed(page, Here)
    /\ stray' = page'.waiting
    /\ UNCHANGED <<vars, asking, spared>>

(* aiResponseReceived(false, ...). *)
ShowFailure ==
    /\ guiQueue # <<>> /\ Head(guiQueue) = "aiFailed"
    /\ guiQueue' = Tail(guiQueue)
    /\ page' = Finished([page EXCEPT !.waiting = FALSE])
    /\ stray' = FALSE
    /\ UNCHANGED <<server, local, awaited, toServer, toClient, clicks>>

ShowHistory ==
    /\ guiQueue # <<>> /\ Head(guiQueue) = "userChanged"
    /\ guiQueue' = Tail(guiQueue)
    /\ page' = Refreshed(page, local)
    /\ stray' = (stray /\ page'.waiting)
    /\ UNCHANGED <<server, local, awaited, toServer, toClient, clicks>>

----------------------------------------------------------------------------
(* The I/O thread and the timer threads of the client *)

LoadPush ==
    /\ toClient # <<>> /\ ~IsReply(Head(toClient))
    /\ local' = Head(toClient)
    /\ guiQueue' = Append(guiQueue, "userChanged")
    /\ toClient' = Tail(toClient)
    /\ UNCHANGED <<server, page, awaited, toServer, clicks, stray>>

TakeReply ==
    /\ toClient # <<>> /\ IsReply(Head(toClient))
    /\ guiQueue' = IF Head(toClient).click \in awaited /\ ~Head(toClient).ok
                   THEN Append(guiQueue, "aiFailed") ELSE guiQueue
    /\ awaited' = awaited \ {Head(toClient).click}
    /\ toClient' = Tail(toClient)
    /\ UNCHANGED <<server, local, page, toServer, clicks, stray>>

Timeout ==
    /\ \E click \in awaited \cap LateClicks : awaited' = awaited \ {click}
    /\ guiQueue' = Append(guiQueue, "aiFailed")
    /\ UNCHANGED <<server, local, page, toServer, toClient, clicks, stray>>

----------------------------------------------------------------------------
(* The server *)

(* Thread t comes to a pushUpdateToUser. *)
Pushes(t) == push' = [push EXCEPT ![t] = "all"]

(* getFullUserData takes dbMutex once for the credits and once for the
   history. *)
ReadCredits(t) ==
    /\ push[t] = "all"
    /\ push' = [push EXCEPT ![t] = "messages"]
    /\ payload' = [payload EXCEPT ![t] = <<[Here EXCEPT !.messages = <<>>]>>]
    /\ UNCHANGED <<vars, asking, spared, client, toServer, toClient>>

ReadMessages(t) ==
    /\ push[t] = "messages"
    /\ push' = [push EXCEPT ![t] = "nothing"]
    /\ payload' = [payload EXCEPT ![t][1].messages = log[Me]]
    /\ UNCHANGED <<vars, asking, spared, client, toServer, toClient>>

PushSend(t) ==
    /\ push[t] = "nothing" /\ payload[t] # <<>>
    /\ payload' = [payload EXCEPT ![t] = <<>>]
    /\ toClient' = toClient \o payload[t]
    /\ UNCHANGED <<vars, asking, push, spared, client, toServer>>

(* A request that is taken reaches its route at once. *)
Serving(cmd) ==
    /\ main = MainIdle /\ Free("main")
    /\ toServer # <<>> /\ Head(toServer).cmd = cmd
    /\ toServer' = Tail(toServer)

Answered(click, ok) == toClient' = Append(toClient, [click |-> click, ok |-> ok])

ServeAsk ==
    /\ Serving("askAi") /\ Ask(Me)
    /\ asking' = Head(toServer).click
    /\ UNCHANGED <<push, payload, spared, client, toClient>>

(* Without credits: an error, and nothing changes. *)
RefuseAsk ==
    /\ Serving("askAi") /\ credits[Me] = 0
    /\ Answered(Head(toServer).click, FALSE)
    /\ UNCHANGED <<vars, asking, push, payload, spared, client>>

ServeCancel ==
    /\ Serving("cancelAi") /\ Cancel(Me)
    /\ spared' = Head(toServer).shown
    /\ UNCHANGED <<asking, push, payload, client, toClient>>

ServeClear ==
    /\ Serving("clearAiHistory") /\ ClearHistory(Me) /\ Pushes("main")
    /\ UNCHANGED <<asking, payload, spared, client, toClient>>

(* The steps of a route, between its pushes. *)
MainStep ==
    /\ Free("main")
    /\ \/ (ResetFlag \/ ReplaceLast \/ AddCancelled) /\ UNCHANGED <<push, asking, toClient>>
       \/ (StoreQuestion \/ SetFlag) /\ Pushes("main") /\ UNCHANGED <<asking, toClient>>
       \/ SendQuestion /\ Answered(asking, linkUp) /\ asking' = NoClick /\ UNCHANGED push
    /\ UNCHANGED <<payload, spared, client, toServer>>

(* A dropped answer is pushed like a stored one. *)
AiStep ==
    /\ Free("ai")
    /\ \/ PassAnswer /\ UNCHANGED push
       \/ (DropAnswer \/ StoreAnswer) /\ Pushes("ai")
    /\ UNCHANGED <<payload, asking, spared, client, toServer, toClient>>

(* The refresh; the payload before has been shown. *)
Refresh ==
    /\ main = MainIdle /\ Free("main")
    /\ \A i \in DOMAIN toClient : IsReply(toClient[i])
    /\ guiQueue = <<>>
    /\ Pushes("main")
    /\ UNCHANGED <<vars, payload, asking, spared, client, toServer, toClient>>

(* The backend is found up at some time, and then stays up: what a broken
   connection loses, Fail loses. *)
Backend ==
    /\ Write \/ Answer \/ Fail \/ LinkUp
    /\ UNCHANGED <<push, payload, asking, spared, client, toServer, toClient>>

----------------------------------------------------------------------------
(* The page of a user who has just logged in. *)
PageInit ==
    /\ Init
    /\ local = Here
    /\ page = [waiting |-> FALSE, bubble |-> FALSE, input |-> credits[Me] > 0, shown |-> {}]
    /\ guiQueue = <<>> /\ awaited = {} /\ toServer = <<>> /\ toClient = <<>>
    /\ asking = NoClick
    /\ push = [t \in Threads |-> "nothing"] /\ payload = [t \in Threads |-> <<>>]
    /\ clicks = 0 /\ stray = FALSE /\ spared = {}

PageNext ==
    \/ ClickSend \/ ClickStop \/ ClickClear \/ LogInAgain
    \/ ShowFailure \/ ShowHistory
    \/ LoadPush \/ TakeReply \/ Timeout
    \/ ServeAsk \/ RefuseAsk \/ ServeCancel \/ ServeClear
    \/ MainStep \/ AiStep \/ Refresh \/ Backend
    \/ \E t \in Threads : ReadCredits(t) \/ ReadMessages(t) \/ PushSend(t)

(* Threads go on, and the main thread's io_context takes requests and the
   refresh in turn; nobody has to click, no answer has to come from the
   backend, and none has to be late. *)
PageFairness ==
    /\ WF_tutorVars(ShowFailure \/ ShowHistory)
    /\ WF_tutorVars(LoadPush \/ TakeReply)
    /\ SF_tutorVars(ServeAsk \/ RefuseAsk \/ ServeCancel \/ ServeClear)
    /\ WF_tutorVars(MainStep) /\ WF_tutorVars(AiStep)
    /\ \A t \in Threads : WF_tutorVars(ReadCredits(t) \/ ReadMessages(t) \/ PushSend(t))
    /\ SF_tutorVars(Refresh)

PageSafe == PageInit /\ [][PageNext]_tutorVars

PageSpec == PageSafe /\ PageFairness

----------------------------------------------------------------------------
(* Properties *)

(* However payloads, failures, clicks and logins cross, the page comes to rest:
   it shows the server's answers and credits, the line is open exactly when the
   user may ask, also after an answer, and whoever waits has a stop button and
   a history that does not end in an answer.  It ends in a question then, or is
   empty, and empty only for who cleared it or logged out in this wait.  Such a
   wait for nothing does not end by the stop button: with no history cancelAi
   adds nothing, the flag stays, and the next payload draws the wait again.  It
   ends when the user asks in the moment the stop opens the line.
   (isWaitingForAi in AiTutorPage.cpp, cancelAi in ServerRoutes.cpp.) *)
PageSettles ==
    <>[](/\ local = Here /\ page.shown = Answers(log[Me])
         /\ page.bubble = page.waiting
         /\ page.input = (credits[Me] > 0 /\ ~page.waiting)
         /\ page.waiting => ~EndsInAnswer(log[Me])
         /\ page.waiting /\ ~stray => log[Me] # <<>>)

(* The stop button costs no answer that was on the page when it was clicked:
   what cancelAi replaces came later.  (cancelAi replaces the last entry,
   whatever it answers.) *)
SeenAnswersStay ==
    [][ReplaceLast => Last(Me).text \notin spared]_tutorVars

(* changelog.md says that the loading message does not go away when a refresh
   occurs: while the user waits for a question that has not even reached the
   server, drawing the page anew keeps the loading message. *)
LoadingSurvivesRefresh ==
    [][\A i \in DOMAIN toServer :
         ShowHistory /\ page.bubble /\ toServer[i].cmd = "askAi" /\ toServer[i].click \in awaited
         => page.bubble']_tutorVars
----------------------------------------------------------------------------
(* The inductive invariant behind PageTypeOK and SeenAnswersStay *)

(* No answer to q is still to be stored. *)
Over(q) == q \in Question /\ q < nextQuestion /\ q \notin Unfinished

(* What cancelAi would replace is not the answer to q, or will not be when
   the route in progress has stored its question. *)
Buried(q) == log[Me] = <<>> \/ Last(Me) # [role |-> "ai", text |-> q]
Sinking(q) == Buried(q) \/ main.pc \in {"resetFlag", "storeQuestion"}

(* The same of a request behind the first n: a question with a credit to pay
   for it goes before. *)
SafeBehind(q, n) ==
    Sinking(q) \/ (credits[Me] > 0 /\ \E i \in 1..n : toServer[i].cmd = "askAi")

(* Of what a copy shows: with a credit left, the next question can be paid or
   others have been; and the user waits only for what comes after it. *)
CopyFits(l) ==
    \A q \in Answers(l.messages) :
        /\ Over(q)
        /\ l.credits > 0 => Sinking(q) \/ credits[Me] > 0
        /\ EndsInAnswer(l.messages) \/ SafeBehind(q, Len(toServer))

CopiesFit ==
    /\ CopyFits(local)
    /\ \A i \in DOMAIN toClient : ~IsReply(toClient[i]) => CopyFits(toClient[i])
    /\ \A t \in Threads : payload[t] # <<>> => CopyFits(payload[t][1])

(* A payload half read: the main thread alone takes credits, and a thread that
   is reading stores nothing. *)
HalfRead ==
    \A t \in Threads : push[t] = "messages" =>
        /\ payload[t][1].messages = <<>>
        /\ payload[t][1].credits > 0 =>
              credits[Me] > 0 \/ (t = "ai" /\ \A q \in AnswersOf(Me) : Sinking(q))

(* With the stop button on the page, what it shows is safe from it; so is what
   was shown when a stop was clicked, until the stop is served. *)
StopsFit ==
    /\ \A q \in page.shown : Over(q) /\ (page.bubble => SafeBehind(q, Len(toServer)))
    /\ \A i \in DOMAIN toServer : \A q \in toServer[i].shown : Over(q) /\ SafeBehind(q, i - 1)
    /\ main.pc = "replaceLast" =>
          log[Me] # <<>> /\ \A q \in spared : Over(q) /\ Buried(q)

PageInv ==
    /\ Inv /\ PageTypeOK
    /\ toClient \in Seq(Reply \cup Payload)
    /\ Asking => asking # NoClick
    /\ CopiesFit /\ HalfRead /\ StopsFit
============================================================================
