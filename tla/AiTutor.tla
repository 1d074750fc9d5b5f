------------------------------ MODULE AiTutor ------------------------------
(***************************************************************************)
(* The AI tutor of the StudySync server: the routes askAi, cancelAi and    *)
(* clearAiHistory on the main thread, the AI client's own thread that      *)
(* stores the answers (server/src/ServerRoutes.cpp), the tables and the    *)
(* cancellation flags they share (server/src/Database.cpp), and the Python *)
(* backend behind one TCP connection (ai_backend.py), which answers one    *)
(* request after the other.                                                *)
(*                                                                         *)
(* dbMutex is held for one block of one Database method at a time, so an   *)
(* action is one such block.  A question is a number, given out in the     *)
(* order the questions are accepted; the answer to question q is the text  *)
(* q in an entry of role "ai".  History and attached tasks of a request    *)
(* and the pushes, which only read, are left out.                          *)
(***************************************************************************)
EXTENDS Integers, Sequences, FiniteSets

CONSTANTS
    Users,
    NoUser,            \* the user of a thread that runs no route
    StartCredits,      \* ai_credits of a new user (50 in initTables)
    MaxQuestions       \* bound on the questions accepted

ASSUME NoUserAssumption == NoUser \notin Users

ASSUME CreditsAssumption == StartCredits \in Nat /\ MaxQuestions \in Nat

VARIABLES
    credits,     \* Users.ai_credits
    log,         \* AiMessages of each user, by id
    cancelFlag,  \* s_userAiCancellationFlags
    main,        \* where the main thread stands in its route
    ai,          \* where the AI client's thread stands in addAiMessage
    outbox,      \* aiPythonClient's write queue
    requests,    \* written to the backend, not answered yet
    replies,     \* answered by the backend, not read yet
    linkUp,      \* aiPythonClient->isConnected()
    nextQuestion,
    \* history: what was asked before the last cancellation, and which of it
    \* was unanswered then
    cancelledBefore, abandoned

data == <<credits, log, cancelFlag>>
link == <<outbox, requests, replies, linkUp>>
history == <<cancelledBefore, abandoned>>
vars == <<data, main, ai, link, nextQuestion, history>>

Question == 1..MaxQuestions
Cancelled == 0          \* the text "Response cancelled by user"

Entry == [role : {"user", "ai"}, text : Question \cup {Cancelled}]
Mail == [user : Users, text : Question]

MainSteps == {"idle", "resetFlag", "storeQuestion", "sendQuestion",
              "replaceLast", "addCancelled", "setFlag"}
MainAt == [pc : MainSteps, user : Users \cup {NoUser}, text : Question \cup {Cancelled}]
MainIdle == [pc |-> "idle", user |-> NoUser, text |-> Cancelled]

AiAt == [pc : {"idle", "store"}, user : Users \cup {NoUser}, text : Question \cup {Cancelled}]
AiIdle == [pc |-> "idle", user |-> NoUser, text |-> Cancelled]

TypeOK ==
    /\ credits \in [Users -> 0..StartCredits]
    /\ log \in [Users -> Seq(Entry)]
    /\ cancelFlag \in [Users -> BOOLEAN]
    /\ main \in MainAt
    /\ ai \in AiAt
    /\ outbox \in Seq(Mail) /\ requests \in Seq(Mail) /\ replies \in Seq(Mail)
    /\ linkUp \in BOOLEAN
    /\ nextQuestion \in 1..MaxQuestions + 1
    /\ cancelledBefore \in [Users -> 1..MaxQuestions + 1]
    /\ abandoned \subseteq Question

Last(u) == log[u][Len(log[u])]
Has(u, entry) == \E i \in DOMAIN log[u] : log[u][i] = entry

(* INSERT INTO AiMessages. *)
Store(u, role, text) ==
    log' = [log EXCEPT ![u] = Append(@, [role |-> role, text |-> text])]

----------------------------------------------------------------------------
(* askAi *)

(* getAiCredits and decrementAiCredits: only the main thread touches the
   credits, so MAX(0, ...) has nothing to do. *)
Charge(u) ==
    /\ credits[u] > 0
    /\ credits' = [credits EXCEPT ![u] = @ - 1]

(* Mutants of Ask: the credits are not looked at; the charge waits for a
   backend that is up. *)
AskUnchecked(u) ==
    /\ main = MainIdle
    /\ nextQuestion <= MaxQuestions
    /\ credits' = [credits EXCEPT ![u] = @ - 1]
    /\ main' = [pc |-> "resetFlag", user |-> u, text |-> nextQuestion]
    /\ nextQuestion' = nextQuestion + 1
    /\ UNCHANGED <<log, cancelFlag, ai, link, history>>

AskFreeOffline(u) ==
    /\ main = MainIdle
    /\ nextQuestion <= MaxQuestions
    /\ credits[u] > 0
    /\ credits' = [credits EXCEPT ![u] = IF linkUp THEN @ - 1 ELSE @]
    /\ main' = [pc |-> "resetFlag", user |-> u, text |-> nextQuestion]
    /\ nextQuestion' = nextQuestion + 1
    /\ UNCHANGED <<log, cancelFlag, ai, link, history>>

(* The question is paid, or without credits the route ends in an error and
   changes nothing. *)
Ask(u) ==
    /\ main = MainIdle
    /\ nextQuestion <= MaxQuestions
    /\ Charge(u)
    /\ main' = [pc |-> "resetFlag", user |-> u, text |-> nextQuestion]
    /\ nextQuestion' = nextQuestion + 1
    /\ UNCHANGED <<log, cancelFlag, ai, link, history>>

(* Mutant of ResetFlag: the flag is left as it is. *)
ResetNothing ==
    /\ main.pc = "resetFlag"
    /\ main' = [main EXCEPT !.pc = "storeQuestion"]
    /\ UNCHANGED <<data, ai, link, nextQuestion, history>>

(* addAiMessage with role "user", first block: a new question takes back the
   cancellation. *)
ResetFlag ==
    /\ main.pc = "resetFlag"
    /\ cancelFlag' = [cancelFlag EXCEPT ![main.user] = FALSE]
    /\ main' = [main EXCEPT !.pc = "storeQuestion"]
    /\ UNCHANGED <<credits, log, ai, link, nextQuestion, history>>

(* addAiMessage, second block. *)
StoreQuestion ==
    /\ main.pc = "storeQuestion"
    /\ Store(main.user, "user", main.text)
    /\ main' = [main EXCEPT !.pc = "sendQuestion"]
    /\ UNCHANGED <<credits, cancelFlag, ai, link, nextQuestion, history>>

(* The request goes to the backend, or the route ends with "AI Backend is
   offline.", the question stored and paid for. *)
SendQuestion ==
    /\ main.pc = "sendQuestion"
    /\ main' = MainIdle
    /\ outbox' = IF linkUp
                 THEN Append(outbox, [user |-> main.user, text |-> main.text])
                 ELSE outbox
    /\ UNCHANGED <<data, ai, requests, replies, linkUp, nextQuestion, history>>

----------------------------------------------------------------------------
(* cancelAi and clearAiHistory *)

(* Mutant of Cancel: only an answer is looked for, to replace it. *)
CancelReplacing(u) ==
    /\ main = MainIdle
    /\ main' = [pc   |-> IF log[u] # <<>> /\ Last(u).role = "ai" THEN "replaceLast"
                         ELSE "setFlag",
                user |-> u, text |-> Cancelled]
    /\ UNCHANGED <<data, ai, link, nextQuestion, history>>

(* getAiMessages: the last entry decides what the route does next. *)
Cancel(u) ==
    /\ main = MainIdle
    /\ main' = [pc   |-> IF log[u] = <<>> THEN "setFlag"
                         ELSE IF Last(u).role = "user" THEN "addCancelled"
                         ELSE IF Last(u).text # Cancelled THEN "replaceLast"
                         ELSE "setFlag",
                user |-> u, text |-> Cancelled]
    /\ UNCHANGED <<data, ai, link, nextQuestion, history>>

(* replaceLastAiMessage: whatever the last entry is by now. *)
ReplaceLast ==
    /\ main.pc = "replaceLast"
    /\ log' = [log EXCEPT ![main.user] =
                 IF @ = <<>> THEN @ ELSE [@ EXCEPT ![Len(@)].text = Cancelled]]
    /\ main' = [main EXCEPT !.pc = "setFlag"]
    /\ UNCHANGED <<credits, cancelFlag, ai, link, nextQuestion, history>>

(* addAiMessage with the text of a cancellation, which the first block lets
   through. *)
AddCancelled ==
    /\ main.pc = "addCancelled"
    /\ Store(main.user, "ai", Cancelled)
    /\ main' = [main EXCEPT !.pc = "setFlag"]
    /\ UNCHANGED <<credits, cancelFlag, ai, link, nextQuestion, history>>

(* Questions of u in its log the answers to which are neither there nor past
   the first block of addAiMessage. *)
Unanswered(u) ==
    {q \in Question : /\ Has(u, [role |-> "user", text |-> q])
                      /\ ~Has(u, [role |-> "ai", text |-> q])
                      /\ q # ai.text}

(* setAiCancellationFlag(userId, true). *)
SetFlag ==
    /\ main.pc = "setFlag"
    /\ cancelFlag' = [cancelFlag EXCEPT ![main.user] = TRUE]
    /\ main' = MainIdle
    /\ cancelledBefore' = [cancelledBefore EXCEPT ![main.user] = nextQuestion]
    /\ abandoned' = abandoned \cup Unanswered(main.user)
    /\ UNCHANGED <<credits, log, ai, link, nextQuestion>>

ClearHistory(u) ==
    /\ main = MainIdle
    /\ log' = [log EXCEPT ![u] = <<>>]
    /\ UNCHANGED <<credits, cancelFlag, main, ai, link, nextQuestion, history>>

----------------------------------------------------------------------------
(* The AI client's thread: addAiMessage with role "ai" *)

(* First block, the flag is set: the answer is dropped and the flag reset. *)
DropAnswer ==
    /\ ai = AiIdle /\ replies # <<>>
    /\ cancelFlag[Head(replies).user]
    /\ cancelFlag' = [cancelFlag EXCEPT ![Head(replies).user] = FALSE]
    /\ replies' = Tail(replies)
    /\ UNCHANGED <<credits, log, main, ai, outbox, requests, linkUp, nextQuestion, history>>

(* Mutant of PassAnswer: the reply stays in the read buffer. *)
PassAnswerTwice ==
    /\ ai = AiIdle /\ replies # <<>>
    /\ ~cancelFlag[Head(replies).user]
    /\ ai' = [pc |-> "store", user |-> Head(replies).user, text |-> Head(replies).text]
    /\ UNCHANGED <<data, main, link, nextQuestion, history>>

(* First block, the flag is not set; dbMutex is released before the second. *)
PassAnswer ==
    /\ ai = AiIdle /\ replies # <<>>
    /\ ~cancelFlag[Head(replies).user]
    /\ ai' = [pc |-> "store", user |-> Head(replies).user, text |-> Head(replies).text]
    /\ replies' = Tail(replies)
    /\ UNCHANGED <<data, main, outbox, requests, linkUp, nextQuestion, history>>

(* Second block. *)
StoreAnswer ==
    /\ ai.pc = "store"
    /\ Store(ai.user, "ai", ai.text)
    /\ ai' = AiIdle
    /\ UNCHANGED <<credits, cancelFlag, main, link, nextQuestion, history>>

----------------------------------------------------------------------------
(* The backend, the connection to it, and the server process *)

(* TcpClient::doWrite; a request that waits survives a reconnection. *)
Write ==
    /\ linkUp /\ outbox # <<>>
    /\ outbox' = Tail(outbox)
    /\ requests' = Append(requests, Head(outbox))
    /\ UNCHANGED <<data, main, ai, replies, linkUp, nextQuestion, history>>

Answer ==
    /\ requests # <<>>
    /\ requests' = Tail(requests)
    /\ replies' = Append(replies, Head(requests))
    /\ UNCHANGED <<data, main, ai, outbox, linkUp, nextQuestion, history>>

(* No model answers.  The reply then names no user, and the callback gives it
   up at parsed.at("user_id"). *)
Fail ==
    /\ requests # <<>>
    /\ requests' = Tail(requests)
    /\ UNCHANGED <<data, main, ai, outbox, replies, linkUp, nextQuestion, history>>

(* The connection breaks, with everything in it. *)
LinkDown ==
    /\ linkUp
    /\ linkUp' = FALSE
    /\ requests' = <<>> /\ replies' = <<>>
    /\ UNCHANGED <<data, main, ai, outbox, nextQuestion, history>>

LinkUp ==
    /\ ~linkUp
    /\ linkUp' = TRUE
    /\ UNCHANGED <<data, main, ai, outbox, requests, replies, nextQuestion, history>>

(* The server dies and starts again: the tables stay, the flags were only in
   memory. *)
Crash ==
    /\ cancelFlag' = [u \in Users |-> FALSE]
    /\ main' = MainIdle /\ ai' = AiIdle
    /\ outbox' = <<>> /\ requests' = <<>> /\ replies' = <<>> /\ linkUp' = FALSE
    /\ UNCHANGED <<credits, log, nextQuestion, history>>

----------------------------------------------------------------------------
Init ==
    /\ credits = [u \in Users |-> StartCredits]
    /\ log = [u \in Users |-> <<>>]
    /\ cancelFlag = [u \in Users |-> FALSE]
    /\ main = MainIdle /\ ai = AiIdle
    /\ outbox = <<>> /\ requests = <<>> /\ replies = <<>> /\ linkUp = FALSE
    /\ nextQuestion = 1
    /\ cancelledBefore = [u \in Users |-> 1]
    /\ abandoned = {}

Next ==
    \/ \E u \in Users : Ask(u) \/ Cancel(u) \/ ClearHistory(u)
    \/ ResetFlag \/ StoreQuestion \/ SendQuestion
    \/ ReplaceLast \/ AddCancelled \/ SetFlag
    \/ DropAnswer \/ PassAnswer \/ StoreAnswer
    \/ Write \/ Answer \/ Fail \/ LinkDown \/ LinkUp
    \/ Crash

Spec == Init /\ [][Next]_vars

----------------------------------------------------------------------------
(* Properties *)

(* Nobody asks for free: however a route is cut off, a user's history never
   holds more questions than the user has paid credits for.  (askAi charges
   before it stores.) *)
Questions(u) == {q \in Question : Has(u, [role |-> "user", text |-> q])}

PaidQuestions ==
    \A u \in Users : Cardinality(Questions(u)) <= StartCredits - credits[u]

(* The answer to a question stands after it, and only once, although another
   thread writes it: askAi stores the question before it sends it.  An answer
   without its question is possible, when the history was cleared. *)
AnswersFollowQuestions ==
    \A u \in Users : \A i, j \in DOMAIN log[u] :
        log[u][i].role = "ai" /\ log[u][i].text # Cancelled
        /\ log[u][j].text = log[u][i].text
        => j <= i /\ (log[u][j].role = "ai" => j = i)

(* A cancellation only ever costs answers to questions asked before it: the
   answer to a question asked later is never the one that is dropped, however
   late the earlier answers come.  (The flag in addAiMessage.) *)
OnlyCancelledAnswersDropped ==
    [][DropAnswer => Head(replies).text < cancelledBefore[Head(replies).user]]_vars

(* When cancelAi is about to set the flag, the history of the user does not
   end in a question: a client that waits for an entry of role "ai" stops
   waiting, whatever the AI thread stored since cancelAi looked. *)
CancelEndsTheWait ==
    main.pc = "setFlag" =>
        log[main.user] = <<>> \/ Last(main.user).role = "ai"

(* Database.cpp says of an answer that comes after a cancellation "Ignore the
   delayed AI response": the answer to a question that was cancelled before
   addAiMessage was called with the answer never enters the history. *)
DelayedAnswersIgnored ==
    \A u \in Users, q \in abandoned : ~Has(u, [role |-> "ai", text |-> q])

----------------------------------------------------------------------------
(* The inductive invariant behind these properties *)

Asking == main.pc \in {"resetFlag", "storeQuestion", "sendQuestion"}

(* A thread in a route works for a user, and on a question if it has one. *)
InRoute ==
    /\ main.pc # "idle" => main.user \in Users
    /\ Asking => main.text \in Question /\ main.text < nextQuestion
    /\ IF ai.pc = "store"
       THEN ai.user \in Users /\ ai.text \in Question /\ ai.text < nextQuestion
       ELSE ai.text = Cancelled

(* A question that is paid and not stored counts too. *)
Unstored(u) ==
    IF main.pc \in {"resetFlag", "storeQuestion"} /\ main.user = u THEN 1 ELSE 0

Charged ==
    \A u \in Users : Cardinality(Questions(u)) + Unstored(u) <= StartCredits - credits[u]

LastAnswered ==
    main.pc \in {"replaceLast", "setFlag"} =>
        log[main.user] = <<>> \/ Last(main.user).role = "ai"

Mails(s) == {s[i] : i \in DOMAIN s}
UnderWay == Mails(outbox) \cup Mails(requests) \cup Mails(replies)

(* While the flag of a user is set, all that is under way is older. *)
FlagsFit ==
    /\ \A m \in UnderWay :
          m.text < nextQuestion /\ (cancelFlag[m.user] => m.text < cancelledBefore[m.user])
    /\ main.pc \in {"storeQuestion", "sendQuestion"} => ~cancelFlag[main.user]

Texts(s) == {m.text : m \in Mails(s)}
TextsUnderWay == Texts(outbox) \cup Texts(requests) \cup Texts(replies)
Distinct(s) == \A i, j \in DOMAIN s : s[i].text = s[j].text => i = j

(* A question is in one place: in the route, in one of the queues, with the AI
   client's thread, or answered. *)
OnePlace ==
    /\ Distinct(outbox) /\ Distinct(requests) /\ Distinct(replies)
    /\ Texts(outbox) \cap Texts(requests) = {}
    /\ Texts(outbox) \cap Texts(replies) = {}
    /\ Texts(requests) \cap Texts(replies) = {}
    /\ ai.text \notin TextsUnderWay
    /\ Asking => main.text \notin TextsUnderWay \cup {ai.text}

(* The questions whose answers may still be stored: none of them has one. *)
Unfinished ==
    TextsUnderWay \cup {ai.text} \cup {q \in Question : Asking /\ q = main.text}

AnswersOf(u) ==
    {q \in Question : Has(u, [role |-> "ai", text |-> q])}

AnswersPlaced ==
    \A u \in Users : \A q \in AnswersOf(u) : q < nextQuestion /\ q \notin Unfinished

Inv ==
    /\ TypeOK /\ InRoute /\ Charged /\ LastAnswered /\ FlagsFit
    /\ OnePlace /\ AnswersPlaced /\ AnswersFollowQuestions
============================================================================
