---------------------------- MODULE AiTutorProofs ----------------------------
(***************************************************************************)
(* Proofs about AiTutor, and then about TutorPage, for any number of       *)
(* users, questions, credits and clicks.  Each conjunct of AiTutor's Inv   *)
(* is carried over a step by a lemma of its own, one step per action that  *)
(* can disturb it.  A step of the page is a step of AiTutor or leaves the  *)
(* server as it is, so Inv holds there too.                                *)
(***************************************************************************)
EXTENDS TutorPage, SequenceTheorems, TLAPS, FiniteSetTheorems

(* An element appended comes last, the others stay where they are. *)
LEMMA AppendFacts ==
  ASSUME NEW S, NEW s \in Seq(S), NEW x \in S
  PROVE  /\ Append(s, x) \in Seq(S) /\ Append(s, x) # <<>>
         /\ Len(Append(s, x)) = Len(s) + 1 /\ Append(s, x)[Len(s) + 1] = x
         /\ DOMAIN Append(s, x) = DOMAIN s \cup {Len(s) + 1}
         /\ Len(s) \in Nat /\ Len(s) + 1 \notin DOMAIN s
         /\ \A i \in DOMAIN s : i \in Nat /\ i <= Len(s) /\ Append(s, x)[i] = s[i]
         /\ \A i \in DOMAIN Append(s, x) :
               Append(s, x)[i] = x \/ (i \in DOMAIN s /\ Append(s, x)[i] = s[i])
  <1>1. /\ Append(s, x) \in Seq(S) /\ Append(s, x) # <<>>
        /\ Len(Append(s, x)) = Len(s) + 1
        /\ \A i \in 1..Len(s) : Append(s, x)[i] = s[i]
        /\ Append(s, x)[Len(s) + 1] = x
    BY AppendProperties
  <1>2. DOMAIN Append(s, x) = 1..Len(s) + 1 /\ DOMAIN s = 1..Len(s) /\ Len(s) \in Nat
    BY <1>1, LenProperties
  <1> QED BY <1>1, <1>2

(* The tail holds the elements after the first. *)
LEMMA TailFacts ==
  ASSUME NEW S, NEW s \in Seq(S), s # <<>>
  PROVE  /\ Head(s) \in S /\ 1 \in DOMAIN s /\ Head(s) = s[1]
         /\ Tail(s) \in Seq(S)
         /\ \A i \in DOMAIN Tail(s) :
               i \in Nat \ {0} /\ i + 1 \in DOMAIN s /\ Tail(s)[i] = s[i + 1]
  OBVIOUS

(* What is in a queue after an element was added, or the first taken. *)
LEMMA MailsAppend ==
  ASSUME NEW s \in Seq(Mail), NEW x \in Mail
  PROVE  /\ Mails(Append(s, x)) = Mails(s) \cup {x}
         /\ Texts(Append(s, x)) = Texts(s) \cup {x.text}
         /\ Distinct(s) /\ x.text \notin Texts(s) => Distinct(Append(s, x))
  <1> DEFINE t == Append(s, x)
  <1>1. /\ t[Len(s) + 1] = x /\ DOMAIN t = DOMAIN s \cup {Len(s) + 1}
        /\ Len(s) + 1 \notin DOMAIN s /\ \A i \in DOMAIN s : t[i] = s[i]
    BY AppendFacts
  <1>2. Mails(t) = Mails(s) \cup {x}
    BY <1>1 DEF Mails
  <1>3. Texts(t) = Texts(s) \cup {x.text}
    BY <1>2 DEF Texts
  <1>4. ASSUME Distinct(s), x.text \notin Texts(s) PROVE Distinct(t)
    <2>1. \A i \in DOMAIN s : s[i].text # x.text
      BY <1>4 DEF Texts, Mails
    <2> QED BY <1>1, <1>4, <2>1 DEF Distinct
  <1> QED BY <1>2, <1>3, <1>4

LEMMA MailsTail ==
  ASSUME NEW s \in Seq(Mail), s # <<>>
  PROVE  /\ Head(s) \in Mails(s) /\ Head(s) \in Mail /\ Tail(s) \in Seq(Mail)
         /\ Mails(Tail(s)) \subseteq Mails(s)
         /\ Texts(Tail(s)) \subseteq Texts(s) /\ Head(s).text \in Texts(s)
         /\ Distinct(s) => Distinct(Tail(s)) /\ Head(s).text \notin Texts(Tail(s))
  <1>1. /\ Head(s) \in Mail /\ 1 \in DOMAIN s /\ Head(s) = s[1] /\ Tail(s) \in Seq(Mail)
        /\ \A i \in DOMAIN Tail(s) :
              i \in Nat \ {0} /\ i + 1 \in DOMAIN s /\ Tail(s)[i] = s[i + 1]
    BY TailFacts
  <1>2. Head(s) \in Mails(s) /\ Mails(Tail(s)) \subseteq Mails(s)
    BY <1>1 DEF Mails
  <1>3. Texts(Tail(s)) \subseteq Texts(s) /\ Head(s).text \in Texts(s)
    BY <1>2 DEF Texts
  <1>4. ASSUME Distinct(s) PROVE Distinct(Tail(s)) /\ Head(s).text \notin Texts(Tail(s))
    <2>1. ASSUME NEW i \in DOMAIN Tail(s), NEW j \in DOMAIN Tail(s),
                 Tail(s)[i].text = Tail(s)[j].text
          PROVE  i = j
      <3>1. i + 1 = j + 1
        BY <1>1, <1>4, <2>1 DEF Distinct
      <3> QED BY <1>1, <3>1
    <2>2. ASSUME NEW i \in DOMAIN Tail(s), Tail(s)[i].text = Head(s).text PROVE FALSE
      <3>1. i + 1 = 1
        BY <1>1, <1>4, <2>2 DEF Distinct
      <3> QED BY <1>1, <3>1
    <2> QED BY <2>1, <2>2 DEF Distinct, Texts, Mails
  <1> QED BY <1>1, <1>2, <1>3, <1>4

LEMMA MailsEmpty == Mails(<<>>) = {} /\ Texts(<<>>) = {} /\ Distinct(<<>>)
  BY DEF Mails, Texts, Distinct

(* A history after an entry was stored. *)
LEMMA StoreFacts ==
  ASSUME log \in [Users -> Seq(Entry)], NEW u \in Users, NEW r \in {"user", "ai"},
         NEW q \in Question \cup {Cancelled}, Store(u, r, q)
  PROVE  /\ log' \in [Users -> Seq(Entry)]
         /\ \A v \in Users \ {u} : log'[v] = log[v]
         /\ log'[u] # <<>> /\ Len(log'[u]) = Len(log[u]) + 1
         /\ Len(log[u]) \in Nat
         /\ log'[u][Len(log[u]) + 1] = [role |-> r, text |-> q]
         /\ DOMAIN log'[u] = DOMAIN log[u] \cup {Len(log[u]) + 1}
         /\ \A i \in DOMAIN log[u] : i \in Nat /\ i <= Len(log[u]) /\ log'[u][i] = log[u][i]
  <1>1. [role |-> r, text |-> q] \in Entry
    BY DEF Entry
  <1>2. log[u] \in Seq(Entry) /\ log'[u] = Append(log[u], [role |-> r, text |-> q])
    BY DEF Store
  <1>3. log' \in [Users -> Seq(Entry)] /\ \A v \in Users \ {u} : log'[v] = log[v]
    BY <1>1, <1>2, AppendFacts DEF Store
  <1> QED BY <1>1, <1>2, <1>3, AppendFacts

LEMMA StoreHas ==
  ASSUME log \in [Users -> Seq(Entry)], NEW u \in Users, NEW r \in {"user", "ai"},
         NEW q \in Question \cup {Cancelled}, Store(u, r, q),
         NEW v \in Users, NEW e, Has(v, e)'
  PROVE  Has(v, e) \/ (v = u /\ e = [role |-> r, text |-> q])
  <1>1. PICK i \in DOMAIN log'[v] : log'[v][i] = e
    BY DEF Has
  <1>2. CASE v # u
    <2>1. log'[v] = log[v]
      BY <1>2, StoreFacts
    <2> QED BY <1>1, <2>1 DEF Has
  <1>3. CASE v = u
    <2>1. /\ log'[u][Len(log[u]) + 1] = [role |-> r, text |-> q]
          /\ DOMAIN log'[u] = DOMAIN log[u] \cup {Len(log[u]) + 1}
          /\ \A j \in DOMAIN log[u] : log'[u][j] = log[u][j]
      BY StoreFacts
    <2> QED BY <1>1, <1>3, <2>1 DEF Has
  <1> QED BY <1>2, <1>3

(* What is stored for the AI adds no question. *)
LEMMA StoreOther ==
  ASSUME log \in [Users -> Seq(Entry)], NEW u \in Users,
         NEW q \in Question \cup {Cancelled}, Store(u, "ai", q), NEW v \in Users
  PROVE  Questions(v)' \subseteq Questions(v)
  <1>1. ASSUME NEW p \in Question, Has(v, [role |-> "user", text |-> p])'
        PROVE  Has(v, [role |-> "user", text |-> p])
    <2>1. \/ Has(v, [role |-> "user", text |-> p])
          \/ [role |-> "user", text |-> p] = [role |-> "ai", text |-> q]
      BY <1>1, StoreHas
    <2>2. [role |-> "user", text |-> p].role # [role |-> "ai", text |-> q].role
      OBVIOUS
    <2> QED BY <2>1, <2>2
  <1> QED BY <1>1 DEF Questions

(* replaceLastAiMessage changes the text of one entry to a cancellation. *)
LEMMA ReplaceFacts ==
  ASSUME log \in [Users -> Seq(Entry)], ReplaceLast, NEW v \in Users
  PROVE  /\ DOMAIN log'[v] = DOMAIN log[v] /\ Len(log'[v]) = Len(log[v])
         /\ log'[v] = <<>> <=> log[v] = <<>>
         /\ \A i \in DOMAIN log[v] :
               /\ log'[v][i].role = log[v][i].role
               /\ log'[v][i] = log[v][i] \/ log'[v][i].text = Cancelled
  <1>1. CASE v # main.user \/ log[v] = <<>>
    BY <1>1 DEF ReplaceLast
  <1>2. CASE v = main.user /\ log[v] # <<>>
    <2> DEFINE n == Len(log[v])
               e == [log[v][n] EXCEPT !.text = Cancelled]
    <2>1. log[v] \in Seq(Entry) /\ n \in 1..n /\ n \in Nat /\ DOMAIN log[v] = 1..n
      BY <1>2
    <2>2. log[v][n] \in Entry
      BY <2>1
    <2>3. e \in Entry /\ e.role = log[v][n].role /\ e.text = Cancelled
      BY <2>2 DEF Entry
    <2>4. log'[v] = [log[v] EXCEPT ![n] = e]
      BY <1>2 DEF ReplaceLast
    <2> HIDE DEF e
    <2>5. /\ log'[v] \in Seq(Entry) /\ Len(log'[v]) = n
          /\ \A j \in 1..n : log'[v][j] = IF j = n THEN e ELSE log[v][j]
      BY <2>1, <2>3, <2>4, ExceptSeq
    <2>6. DOMAIN log'[v] = 1..n
      BY <2>5
    <2> QED BY <1>2, <2>1, <2>3, <2>5, <2>6
  <1> QED BY <1>1, <1>2

LEMMA InitInv == Init => Inv
  <1> SUFFICES ASSUME Init PROVE Inv
    OBVIOUS
  <1> USE CreditsAssumption, NoUserAssumption, MailsEmpty DEF Init, MainIdle, AiIdle
  <1>1. TypeOK
    <2>1. <<>> \in Seq(Entry) /\ <<>> \in Seq(Mail)
      OBVIOUS
    <2>2. credits \in [Users -> 0..StartCredits] /\ log \in [Users -> Seq(Entry)]
      BY <2>1
    <2>3. main \in MainAt /\ ai \in AiAt
      BY DEF MainAt, MainSteps, AiAt
    <2>4. cancelFlag \in [Users -> BOOLEAN] /\ linkUp \in BOOLEAN
      OBVIOUS
    <2>5. /\ nextQuestion \in 1..MaxQuestions + 1
          /\ cancelledBefore \in [Users -> 1..MaxQuestions + 1]
      OBVIOUS
    <2> QED BY <2>1, <2>2, <2>3, <2>4, <2>5 DEF TypeOK
  <1>2. InRoute /\ LastAnswered
    BY DEF InRoute, LastAnswered, Asking
  <1>3. Charged
    <2>1. \A u \in Users : Questions(u) = {}
      BY DEF Questions, Has
    <2>2. ASSUME NEW u \in Users
          PROVE  Cardinality(Questions(u)) = 0 /\ Unstored(u) = 0 /\ credits[u] = StartCredits
      BY <2>1, FS_EmptySet DEF Unstored
    <2> QED BY <2>2 DEF Charged
  <1>4. UnderWay = {}
    BY DEF UnderWay
  <1>5. FlagsFit /\ OnePlace
    BY <1>4 DEF FlagsFit, OnePlace, Asking, TextsUnderWay
  <1>6. AnswersPlaced /\ AnswersFollowQuestions
    BY DEF AnswersPlaced, AnswersOf, Has, AnswersFollowQuestions
  <1> QED BY <1>1, <1>2, <1>3, <1>5, <1>6 DEF Inv

(* A question takes one credit and the next number. *)
LEMMA AskFacts ==
  ASSUME credits \in [Users -> 0..StartCredits], nextQuestion \in 1..MaxQuestions + 1,
         NEW u \in Users, Ask(u)
  PROVE  /\ credits' \in [Users -> 0..StartCredits]
         /\ nextQuestion' \in 1..MaxQuestions + 1
         /\ main' \in MainAt
  <1>1. credits[u] - 1 \in 0..StartCredits
    BY CreditsAssumption DEF Ask, Charge
  <1>2. credits' = [credits EXCEPT ![u] = credits[u] - 1]
    BY DEF Ask, Charge
  <1>3. nextQuestion \in Question /\ nextQuestion' = nextQuestion + 1
    BY CreditsAssumption DEF Ask, Question
  <1>4. main' = [pc |-> "resetFlag", user |-> u, text |-> nextQuestion]
    BY DEF Ask
  <1>5. main' \in MainAt
    BY <1>3, <1>4 DEF MainAt, MainSteps
  <1> QED BY <1>1, <1>2, <1>3, <1>5, CreditsAssumption DEF Question

(* Types, one step per action. *)
LEMMA TypeStep == TypeOK /\ InRoute /\ [Next]_vars => TypeOK'
  <1> SUFFICES ASSUME TypeOK, InRoute, [Next]_vars PROVE TypeOK'
    OBVIOUS
  <1> USE CreditsAssumption, NoUserAssumption
      DEF TypeOK, MainAt, MainSteps, MainIdle, AiAt, AiIdle, Question, Cancelled,
          data, link, history
  <1>1. ASSUME NEW u \in Users, Ask(u) PROVE TypeOK'
    <2>1. /\ credits' \in [Users -> 0..StartCredits]
          /\ nextQuestion' \in 1..MaxQuestions + 1
          /\ main' \in MainAt
      BY <1>1, AskFacts, Zenon
    <2>2. UNCHANGED <<log, cancelFlag, ai, link, history>>
      BY <1>1 DEF Ask
    <2> QED BY <2>1, <2>2
  <1>2. ASSUME NEW u \in Users, Cancel(u) PROVE TypeOK'
    BY <1>2 DEF Cancel
  <1>3. ASSUME NEW u \in Users, ClearHistory(u) PROVE TypeOK'
    <2>1. <<>> \in Seq(Entry)
      OBVIOUS
    <2>2. log' \in [Users -> Seq(Entry)]
      BY <1>3, <2>1 DEF ClearHistory
    <2> QED BY <1>3, <2>2 DEF ClearHistory
  <1>4. CASE ResetFlag
    BY <1>4 DEF ResetFlag
  <1>5. CASE StoreQuestion
    <2>1. main.user \in Users
      BY <1>5 DEF InRoute, StoreQuestion
    <2>2. log' \in [Users -> Seq(Entry)]
      BY <1>5, <2>1, StoreFacts DEF StoreQuestion
    <2> QED BY <1>5, <2>2 DEF StoreQuestion
  <1>6. CASE SendQuestion
    <2>1. [user |-> main.user, text |-> main.text] \in Mail
      BY <1>6 DEF SendQuestion, InRoute, Asking, Mail
    <2>2. outbox' \in Seq(Mail)
      BY <1>6, <2>1, AppendFacts DEF SendQuestion
    <2> QED BY <1>6, <2>2 DEF SendQuestion
  <1>7. CASE ReplaceLast
    <2>1. ASSUME NEW u \in Users
          PROVE  (IF log[u] = <<>> THEN log[u]
                  ELSE [log[u] EXCEPT ![Len(log[u])].text = Cancelled]) \in Seq(Entry)
      <3>1. CASE log[u] # <<>>
        <4>1. Len(log[u]) \in 1..Len(log[u]) /\ Last(u) \in Entry
          BY <3>1 DEF Last
        <4>2. [Last(u) EXCEPT !.text = Cancelled] \in Entry
          BY <4>1 DEF Entry
        <4> QED BY <3>1, <4>1, <4>2, ExceptSeq DEF Last
      <3> QED BY <3>1
    <2>2. log' \in [Users -> Seq(Entry)]
      BY <1>7, <2>1 DEF ReplaceLast
    <2> QED BY <1>7, <2>2 DEF ReplaceLast
  <1>8. CASE AddCancelled
    <2>1. main.user \in Users
      BY <1>8 DEF InRoute, AddCancelled
    <2>2. log' \in [Users -> Seq(Entry)]
      BY <1>8, <2>1, StoreFacts DEF AddCancelled
    <2> QED BY <1>8, <2>2 DEF AddCancelled
  <1>9. CASE SetFlag
    <2>1. Unanswered(main.user) \subseteq Question
      BY DEF Unanswered
    <2> QED BY <1>9, <2>1 DEF SetFlag
  <1>10. CASE DropAnswer
    BY <1>10, MailsTail DEF DropAnswer
  <1>11. CASE PassAnswer
    <2>1. Head(replies) \in Mail /\ Tail(replies) \in Seq(Mail)
      BY <1>11, MailsTail DEF PassAnswer
    <2> QED BY <1>11, <2>1 DEF PassAnswer, Mail
  <1>12. CASE StoreAnswer
    <2>1. ai.user \in Users
      BY <1>12 DEF InRoute, StoreAnswer
    <2>2. log' \in [Users -> Seq(Entry)]
      BY <1>12, <2>1, StoreFacts DEF StoreAnswer
    <2> QED BY <1>12, <2>2 DEF StoreAnswer
  <1>13. CASE Write
    BY <1>13, MailsTail, AppendFacts DEF Write
  <1>14. CASE Answer
    BY <1>14, MailsTail, AppendFacts DEF Answer
  <1>15. CASE Fail
    BY <1>15, MailsTail DEF Fail
  <1>16. CASE LinkDown
    <2>1. <<>> \in Seq(Mail)
      OBVIOUS
    <2> QED BY <1>16, <2>1 DEF LinkDown
  <1>17. CASE LinkUp
    BY <1>17 DEF LinkUp
  <1>18. CASE Crash
    <2>1. <<>> \in Seq(Mail)
      OBVIOUS
    <2> QED BY <1>18, <2>1 DEF Crash
  <1>19. CASE UNCHANGED vars
    BY <1>19 DEF vars
  <1> QED BY <1>1, <1>2, <1>3, <1>4, <1>5, <1>6, <1>7, <1>8, <1>9, <1>10, <1>11, <1>12,
             <1>13, <1>14, <1>15, <1>16, <1>17, <1>18, <1>19 DEF Next


(* Where the threads stand. *)
LEMMA RouteStep == TypeOK /\ InRoute /\ FlagsFit /\ [Next]_vars => InRoute'
  <1> SUFFICES ASSUME TypeOK, InRoute, FlagsFit, [Next]_vars PROVE InRoute'
    OBVIOUS
  <1> USE CreditsAssumption
      DEF InRoute, Asking, MainIdle, AiIdle, Question, Cancelled, data, link, history
  <1>0. /\ nextQuestion \in 1..MaxQuestions + 1
        /\ main \in MainAt /\ ai \in AiAt
    BY DEF TypeOK
  <1>1. ASSUME NEW u \in Users, Ask(u) PROVE InRoute'
    BY <1>0, <1>1 DEF Ask
  <1>2. ASSUME NEW u \in Users, Cancel(u) PROVE InRoute'
    <2>1. main'.pc \in {"setFlag", "addCancelled", "replaceLast"} /\ main'.user = u
      BY <1>2 DEF Cancel
    <2> QED BY <1>2, <2>1 DEF Cancel
  <1>3. CASE ResetFlag \/ StoreQuestion \/ ReplaceLast \/ AddCancelled
    BY <1>0, <1>3
       DEF ResetFlag, StoreQuestion, ReplaceLast, AddCancelled, MainAt
  <1>4. CASE SendQuestion \/ SetFlag
    BY <1>4 DEF SendQuestion, SetFlag
  <1>5. CASE PassAnswer
    <2>1. /\ Head(replies) \in Mail
          /\ Head(replies).text < nextQuestion
      BY <1>5, MailsTail DEF PassAnswer, TypeOK, FlagsFit, UnderWay
    <2>2. ai' = [pc |-> "store", user |-> Head(replies).user, text |-> Head(replies).text]
      BY <1>5 DEF PassAnswer
    <2>3. ai'.user \in Users /\ ai'.text \in Question /\ ai'.text < nextQuestion
      BY <2>1, <2>2 DEF Mail
    <2> QED BY <1>5, <2>2, <2>3 DEF PassAnswer
  <1>6. CASE StoreAnswer \/ Crash
    BY <1>6 DEF StoreAnswer, Crash
  <1>7. CASE DropAnswer \/ Write \/ Answer \/ Fail \/ LinkDown \/ LinkUp \/ UNCHANGED vars
    BY <1>7 DEF DropAnswer, Write, Answer, Fail, LinkDown, LinkUp, vars
  <1>8. ASSUME NEW u \in Users, ClearHistory(u) PROVE InRoute'
    BY <1>8 DEF ClearHistory
  <1> QED BY <1>1, <1>2, <1>3, <1>4, <1>5, <1>6, <1>7, <1>8 DEF Next

(* What is charged is never less than what is stored. *)
LEMMA ChargedStep == TypeOK /\ InRoute /\ Charged /\ [Next]_vars => Charged'
  <1> SUFFICES ASSUME TypeOK, InRoute, Charged, [Next]_vars, NEW v \in Users
               PROVE  Cardinality(Questions(v)') + Unstored(v)' <= StartCredits - credits'[v]
    BY DEF Charged
  <1> USE CreditsAssumption DEF data, link, history
  <1>0. /\ IsFiniteSet(Questions(v)) /\ Cardinality(Questions(v)) \in Nat
        /\ Unstored(v) \in 0..1 /\ credits[v] \in 0..StartCredits
        /\ Cardinality(Questions(v)) + Unstored(v) <= StartCredits - credits[v]
    <2>1. Questions(v) \subseteq 1..MaxQuestions /\ IsFiniteSet(1..MaxQuestions)
      BY FS_Interval DEF Questions, Question
    <2>2. IsFiniteSet(Questions(v)) /\ Cardinality(Questions(v)) \in Nat
      BY <2>1, FS_Subset, FS_CardinalityType
    <2> QED BY <2>2 DEF Charged, TypeOK, Unstored
  <1>1. ASSUME Questions(v)' \subseteq Questions(v)
        PROVE  Cardinality(Questions(v)') \in Nat
               /\ Cardinality(Questions(v)') <= Cardinality(Questions(v))
    BY <1>0, <1>1, FS_Subset, FS_CardinalityType
  <1>2. ASSUME log' = log PROVE Questions(v)' \subseteq Questions(v)
    BY <1>2 DEF Questions, Has
  <1>3. ASSUME NEW u \in Users, Ask(u) PROVE
               Cardinality(Questions(v)') + Unstored(v)' <= StartCredits - credits'[v]
    <2>1. Questions(v)' \subseteq Questions(v)
      BY <1>2, <1>3 DEF Ask
    <2>2. CASE u = v
      <3>1. credits'[v] = credits[v] - 1 /\ Unstored(v)' = 1 /\ Unstored(v) = 0
        BY <1>3, <2>2 DEF Ask, Charge, TypeOK, Unstored, MainIdle
      <3> QED BY <1>0, <1>1, <2>1, <3>1
    <2>3. CASE u # v
      <3>1. credits'[v] = credits[v] /\ Unstored(v)' = 0
        BY <1>3, <2>3 DEF Ask, Charge, TypeOK, Unstored
      <3> QED BY <1>0, <1>1, <2>1, <3>1
    <2> QED BY <2>2, <2>3
  <1>4. CASE StoreQuestion
    <2>0. /\ main.pc = "storeQuestion" /\ main.user \in Users /\ main.text \in Question
          /\ credits' = credits /\ Unstored(v)' = 0
          /\ Store(main.user, "user", main.text)
          /\ log \in [Users -> Seq(Entry)]
      BY <1>4 DEF StoreQuestion, InRoute, Asking, Unstored, TypeOK, MainAt
    <2>1. CASE main.user = v
      <3>1. Questions(v)' \subseteq Questions(v) \cup {main.text}
        <4>1. ASSUME NEW q \in Question, Has(v, [role |-> "user", text |-> q])'
              PROVE  q \in Questions(v) \/ q = main.text
          <5>1. \/ Has(v, [role |-> "user", text |-> q])
                \/ [role |-> "user", text |-> q] = [role |-> "user", text |-> main.text]
            BY <2>0, <4>1, StoreHas
          <5> QED BY <5>1 DEF Questions
        <4> QED BY <4>1 DEF Questions
      <3>2. /\ IsFiniteSet(Questions(v) \cup {main.text})
            /\ Cardinality(Questions(v) \cup {main.text}) <= Cardinality(Questions(v)) + 1
        <4>1. /\ IsFiniteSet(Questions(v) \cup {main.text})
              /\ Cardinality(Questions(v) \cup {main.text}) =
                   IF main.text \in Questions(v) THEN Cardinality(Questions(v))
                   ELSE Cardinality(Questions(v)) + 1
          BY <1>0, FS_AddElement
        <4> QED BY <1>0, <4>1
      <3>3. /\ Cardinality(Questions(v)') \in Nat
            /\ Cardinality(Questions(v)') <= Cardinality(Questions(v) \cup {main.text})
            /\ Cardinality(Questions(v) \cup {main.text}) \in Nat
        BY <3>1, <3>2, FS_Subset, FS_CardinalityType
      <3>4. Unstored(v) = 1
        BY <2>0, <2>1 DEF Unstored
      <3> QED BY <1>0, <2>0, <3>2, <3>3, <3>4
    <2>2. CASE main.user # v
      <3>1. Questions(v)' \subseteq Questions(v)
        <4>1. log'[v] = log[v]
          BY <2>0, <2>2 DEF Store
        <4> QED BY <4>1 DEF Questions, Has
      <3> QED BY <1>0, <1>1, <2>0, <3>1
    <2> QED BY <2>1, <2>2
  <1>5. ASSUME Questions(v)' \subseteq Questions(v), credits' = credits,
               Unstored(v)' <= Unstored(v), Unstored(v)' \in Nat
        PROVE  Cardinality(Questions(v)') + Unstored(v)' <= StartCredits - credits'[v]
    BY <1>0, <1>1, <1>5
  <1>6. CASE ReplaceLast
    <2>1. Questions(v)' \subseteq Questions(v)
      <3> SUFFICES ASSUME NEW q \in Question, NEW i \in DOMAIN log'[v],
                          log'[v][i] = [role |-> "user", text |-> q]
                   PROVE  Has(v, [role |-> "user", text |-> q])
        BY DEF Questions, Has
      <3>1. i \in DOMAIN log[v] /\ (log'[v][i] = log[v][i] \/ log'[v][i].text = Cancelled)
        BY <1>6, ReplaceFacts DEF TypeOK
      <3> QED BY <3>1 DEF Has, Question, Cancelled
    <2>2. credits' = credits /\ Unstored(v)' <= Unstored(v) /\ Unstored(v)' \in Nat
      BY <1>6 DEF ReplaceLast, Unstored
    <2> QED BY <1>5, <2>1, <2>2
  <1>7. CASE AddCancelled
    <2>1. /\ main.user \in Users /\ Store(main.user, "ai", Cancelled)
          /\ log \in [Users -> Seq(Entry)]
      BY <1>7 DEF AddCancelled, InRoute, TypeOK
    <2>2. Questions(v)' \subseteq Questions(v)
      BY <2>1, StoreOther
    <2>3. credits' = credits /\ Unstored(v)' <= Unstored(v) /\ Unstored(v)' \in Nat
      BY <1>7 DEF AddCancelled, Unstored
    <2> QED BY <1>5, <2>2, <2>3
  <1>8. CASE StoreAnswer
    <2>1. /\ ai.user \in Users /\ ai.text \in Question /\ Store(ai.user, "ai", ai.text)
          /\ log \in [Users -> Seq(Entry)]
      BY <1>8 DEF StoreAnswer, InRoute, TypeOK
    <2>2. Questions(v)' \subseteq Questions(v)
      BY <2>1, StoreOther
    <2>3. credits' = credits /\ Unstored(v)' <= Unstored(v) /\ Unstored(v)' \in Nat
      BY <1>8 DEF StoreAnswer, Unstored
    <2> QED BY <1>5, <2>2, <2>3
  <1>9. ASSUME NEW u \in Users, ClearHistory(u) PROVE
               Cardinality(Questions(v)') + Unstored(v)' <= StartCredits - credits'[v]
    <2>1. log'[v] = <<>> \/ log'[v] = log[v]
      BY <1>9 DEF ClearHistory, TypeOK
    <2>2. Questions(v)' \subseteq Questions(v)
      BY <2>1 DEF Questions, Has
    <2>3. credits' = credits /\ Unstored(v)' <= Unstored(v) /\ Unstored(v)' \in Nat
      BY <1>9 DEF ClearHistory, Unstored
    <2> QED BY <1>5, <2>2, <2>3
  <1>10. ASSUME log' = log, credits' = credits,
                \/ main' = main
                \/ main' = [main EXCEPT !.pc = "storeQuestion"] /\ main.pc = "resetFlag"
                \/ main'.pc \notin {"resetFlag", "storeQuestion"}
         PROVE  Cardinality(Questions(v)') + Unstored(v)' <= StartCredits - credits'[v]
    <2>1. Unstored(v)' <= Unstored(v) /\ Unstored(v)' \in Nat
      BY <1>10 DEF Unstored, TypeOK, MainAt
    <2> QED BY <1>2, <1>5, <1>10, <2>1
  <1>11. ASSUME NEW u \in Users, Cancel(u) PROVE
               Cardinality(Questions(v)') + Unstored(v)' <= StartCredits - credits'[v]
    <2>1. main'.pc \notin {"resetFlag", "storeQuestion"}
      BY <1>11 DEF Cancel
    <2> QED BY <1>10, <1>11, <2>1 DEF Cancel
  <1>12. CASE ResetFlag
    BY <1>10, <1>12 DEF ResetFlag
  <1>13. CASE SendQuestion \/ SetFlag \/ Crash
    BY <1>10, <1>13 DEF SendQuestion, SetFlag, Crash, MainIdle
  <1>14. CASE DropAnswer \/ PassAnswer \/ Write \/ Answer \/ Fail \/ LinkDown \/ LinkUp
              \/ UNCHANGED vars
    BY <1>10, <1>14
       DEF DropAnswer, PassAnswer, Write, Answer, Fail, LinkDown, LinkUp, vars
  <1> QED BY <1>3, <1>4, <1>6, <1>7, <1>8, <1>9, <1>11, <1>12, <1>13, <1>14 DEF Next

(* What the history ends in when cancelAi is about to set the flag. *)
LEMMA LastStep == TypeOK /\ InRoute /\ LastAnswered /\ [Next]_vars => LastAnswered'
  <1> SUFFICES ASSUME TypeOK, InRoute, LastAnswered, [Next]_vars PROVE LastAnswered'
    OBVIOUS
  <1> USE DEF data, link, history
  <1>0. log \in [Users -> Seq(Entry)]
    BY DEF TypeOK
  <1>1. ASSUME main'.pc \notin {"replaceLast", "setFlag"} PROVE LastAnswered'
    BY <1>1 DEF LastAnswered
  <1>2. ASSUME main' = main, log' = log PROVE LastAnswered'
    BY <1>2 DEF LastAnswered, Last
  <1>3. ASSUME NEW u \in Users, Cancel(u) PROVE LastAnswered'
    <2>1. CASE log[u] = <<>>
      BY <1>3, <2>1 DEF Cancel, LastAnswered
    <2>2. CASE log[u] # <<>>
      <3>1. Last(u) \in Entry
        BY <1>0, <2>2 DEF Last
      <3>2. Last(u).role \in {"user", "ai"}
        BY <3>1 DEF Entry
      <3>3. main'.user = u /\ log' = log
            /\ (main'.pc \in {"replaceLast", "setFlag"} => Last(u).role # "user")
        BY <1>3, <2>2 DEF Cancel
      <3> QED BY <3>2, <3>3 DEF LastAnswered, Last
    <2> QED BY <2>1, <2>2
  <1>4. CASE ReplaceLast
    <2>1. /\ main'.user = main.user /\ main.user \in Users
          /\ log[main.user] = <<>> \/ Last(main.user).role = "ai"
      BY <1>4 DEF ReplaceLast, LastAnswered, InRoute, TypeOK, MainAt
    <2>2. /\ Len(log'[main.user]) = Len(log[main.user])
          /\ log'[main.user] = <<>> <=> log[main.user] = <<>>
          /\ \A i \in DOMAIN log[main.user] :
                log'[main.user][i].role = log[main.user][i].role
      BY <1>0, <1>4, <2>1, ReplaceFacts
    <2>3. log[main.user] # <<>> => Len(log[main.user]) \in DOMAIN log[main.user]
      BY <1>0, <2>1
    <2> QED BY <2>1, <2>2, <2>3 DEF LastAnswered, Last
  <1>5. ASSUME NEW u \in Users, NEW q \in Question \cup {Cancelled}, Store(u, "ai", q),
               main'.user = main.user, main.user \in Users,
               u # main.user => LastAnswered /\ main' = main
        PROVE  LastAnswered'
    <2>1. CASE u = main.user
      <3>1. log'[u][Len(log'[u])] = [role |-> "ai", text |-> q]
        BY <1>0, <1>5, StoreFacts
      <3> QED BY <1>5, <2>1, <3>1 DEF LastAnswered, Last
    <2>2. CASE u # main.user
      <3>1. log'[main.user] = log[main.user]
        <4>1. \A v \in Users \ {u} : log'[v] = log[v]
          BY <1>0, <1>5, StoreFacts
        <4> QED BY <1>5, <2>2, <4>1
      <3> QED BY <1>5, <2>2, <3>1 DEF LastAnswered, Last
    <2> QED BY <2>1, <2>2
  <1>6. CASE AddCancelled
    <2>1. /\ Store(main.user, "ai", Cancelled) /\ main'.user = main.user
          /\ main.user \in Users
      BY <1>6 DEF AddCancelled, InRoute, TypeOK, MainAt
    <2> QED BY <1>5, <2>1
  <1>7. CASE StoreAnswer
    <2>1. /\ Store(ai.user, "ai", ai.text) /\ main' = main
          /\ ai.user \in Users /\ ai.text \in Question
      BY <1>7 DEF StoreAnswer, InRoute
    <2>2. CASE main.pc = "idle"
      BY <1>1, <2>1, <2>2
    <2>3. CASE main.pc # "idle"
      BY <1>5, <2>1, <2>3 DEF InRoute
    <2> QED BY <2>2, <2>3
  <1>8. ASSUME NEW u \in Users, Ask(u) \/ ClearHistory(u) PROVE LastAnswered'
    BY <1>1, <1>8 DEF Ask, ClearHistory, MainIdle
  <1>9. CASE ResetFlag \/ StoreQuestion
    <2>1. main'.pc \in {"storeQuestion", "sendQuestion"}
      BY <1>9 DEF ResetFlag, StoreQuestion, TypeOK, MainAt
    <2> QED BY <1>1, <2>1
  <1>10. CASE SendQuestion \/ SetFlag \/ Crash
    BY <1>1, <1>10 DEF SendQuestion, SetFlag, Crash, MainIdle
  <1>11. CASE DropAnswer \/ PassAnswer \/ Write \/ Answer \/ Fail \/ LinkDown \/ LinkUp
              \/ UNCHANGED vars
    BY <1>2, <1>11
       DEF DropAnswer, PassAnswer, Write, Answer, Fail, LinkDown, LinkUp, vars
  <1> QED BY <1>3, <1>4, <1>6, <1>7, <1>8, <1>9, <1>10, <1>11 DEF Next

(* The queues, by the actions that move what is in them. *)
LEMMA UnderWayStep ==
  ASSUME TypeOK, InRoute, [Next]_vars
  PROVE  \A m \in UnderWay' :
            m \in UnderWay \/ (SendQuestion /\ m = [user |-> main.user, text |-> main.text])
  <1> USE DEF TypeOK, UnderWay, data, link, history
  <1>1. CASE SendQuestion
    <2>1. [user |-> main.user, text |-> main.text] \in Mail
      BY <1>1 DEF SendQuestion, InRoute, Asking, Mail
    <2> QED BY <1>1, <2>1, MailsAppend DEF SendQuestion
  <1>2. CASE DropAnswer \/ PassAnswer
    BY <1>2, MailsTail DEF DropAnswer, PassAnswer
  <1>3. CASE Write
    BY <1>3, MailsTail, MailsAppend DEF Write
  <1>4. CASE Answer
    BY <1>4, MailsTail, MailsAppend DEF Answer
  <1>5. CASE Fail
    BY <1>5, MailsTail DEF Fail
  <1>6. CASE LinkDown \/ Crash
    BY <1>6, MailsEmpty DEF LinkDown, Crash
  <1>7. CASE UNCHANGED <<outbox, requests, replies>>
    BY <1>7
  <1>8. ASSUME NEW u \in Users, Ask(u) \/ Cancel(u) \/ ClearHistory(u)
        PROVE  UNCHANGED <<outbox, requests, replies>>
    BY <1>8 DEF Ask, Cancel, ClearHistory
  <1>9. CASE ResetFlag \/ StoreQuestion \/ ReplaceLast \/ AddCancelled \/ SetFlag
             \/ StoreAnswer \/ LinkUp \/ UNCHANGED vars
    BY <1>7, <1>9 DEF ResetFlag, StoreQuestion, ReplaceLast, AddCancelled, SetFlag,
                      StoreAnswer, LinkUp, vars
  <1> QED BY <1>1, <1>2, <1>3, <1>4, <1>5, <1>6, <1>7, <1>8, <1>9 DEF Next

(* A request has a number that was given out. *)
LEMMA UnderWayType ==
  ASSUME TypeOK, NEW m \in UnderWay
  PROVE  m \in Mail /\ m.user \in Users /\ m.text \in Question /\ m.text \in Nat
  <1>1. m \in Mail
    BY DEF UnderWay, Mails, TypeOK
  <1> QED BY <1>1 DEF Mail, Question

(* Flags and cancellations. *)
LEMMA FlagsStep ==
  TypeOK /\ InRoute /\ FlagsFit /\ [Next]_vars => FlagsFit'
  <1> SUFFICES ASSUME TypeOK, InRoute, FlagsFit, [Next]_vars PROVE FlagsFit'
    OBVIOUS
  <1> USE DEF data, link, history
  <1>0. /\ nextQuestion \in Nat /\ \A u \in Users : cancelledBefore[u] \in Nat
        /\ cancelFlag \in [Users -> BOOLEAN]
        /\ cancelledBefore \in [Users -> 1..MaxQuestions + 1] /\ main \in MainAt
    BY CreditsAssumption DEF TypeOK
  <1>1. \A m \in UnderWay :
          /\ m.user \in Users /\ m.text \in Nat /\ m.text < nextQuestion
          /\ cancelFlag[m.user] => m.text < cancelledBefore[m.user]
    BY UnderWayType DEF FlagsFit
  <1>2. ASSUME UnderWay' \subseteq UnderWay, nextQuestion' = nextQuestion,
               cancelledBefore' = cancelledBefore,
               \A u \in Users : cancelFlag'[u] => cancelFlag[u],
               main'.pc \in {"storeQuestion", "sendQuestion"} =>
                  ~cancelFlag'[main'.user]
        PROVE  FlagsFit'
    BY <1>1, <1>2 DEF FlagsFit
  <1>3. ~SendQuestion => UnderWay' \subseteq UnderWay
    BY UnderWayStep
  <1>4. ASSUME NEW u \in Users, Ask(u) PROVE FlagsFit'
    <2>1. UnderWay' = UnderWay /\ nextQuestion' = nextQuestion + 1
          /\ cancelFlag' = cancelFlag /\ cancelledBefore' = cancelledBefore
          /\ main'.pc = "resetFlag"
      BY <1>4 DEF Ask, UnderWay
    <2>2. \A m \in UnderWay' :
             m.text < nextQuestion' /\ (cancelFlag'[m.user] => m.text < cancelledBefore'[m.user])
      BY <1>0, <1>1, <2>1
    <2> QED BY <2>1, <2>2 DEF FlagsFit
  <1>5. ASSUME NEW u \in Users, Cancel(u) \/ ClearHistory(u) PROVE FlagsFit'
    <2>1. main'.pc \notin {"storeQuestion", "sendQuestion"}
      BY <1>5 DEF Cancel, ClearHistory, MainIdle
    <2>2. UnderWay' = UnderWay
      BY <1>5 DEF Cancel, ClearHistory, UnderWay
    <2> QED BY <1>2, <1>5, <2>1, <2>2 DEF Cancel, ClearHistory
  <1>6. CASE ResetFlag
    <2>1. /\ main.user \in Users /\ main'.user = main.user
          /\ cancelFlag' = [cancelFlag EXCEPT ![main.user] = FALSE]
      BY <1>0, <1>6 DEF ResetFlag, InRoute, MainAt
    <2>2. UnderWay' = UnderWay
      BY <1>6 DEF ResetFlag, UnderWay
    <2> QED BY <1>0, <1>2, <1>6, <2>1, <2>2 DEF ResetFlag
  <1>7. CASE StoreQuestion
    <2>1. /\ ~cancelFlag[main.user] /\ main'.user = main.user /\ cancelFlag' = cancelFlag
      BY <1>0, <1>7 DEF StoreQuestion, FlagsFit, MainAt
    <2>2. UnderWay' = UnderWay
      BY <1>7 DEF StoreQuestion, UnderWay
    <2> QED BY <1>2, <1>7, <2>1, <2>2 DEF StoreQuestion
  <1>8. CASE SendQuestion
    <2> DEFINE x == [user |-> main.user, text |-> main.text]
    <2>1. /\ ~cancelFlag[main.user] /\ main.text < nextQuestion /\ main'.pc = "idle"
          /\ cancelFlag' = cancelFlag /\ cancelledBefore' = cancelledBefore
          /\ nextQuestion' = nextQuestion
      BY <1>8 DEF SendQuestion, FlagsFit, InRoute, Asking, MainIdle
    <2>2. x.text < nextQuestion' /\ ~cancelFlag'[x.user]
      BY <2>1
    <2>3. \A m \in UnderWay' : m \in UnderWay \/ m = x
      BY UnderWayStep
    <2> HIDE DEF x
    <2> QED BY <1>1, <2>1, <2>2, <2>3 DEF FlagsFit
  <1>9. CASE SetFlag
    <2>1. UnderWay' = UnderWay /\ nextQuestion' = nextQuestion /\ main'.pc = "idle"
      BY <1>9 DEF SetFlag, UnderWay, MainIdle
    <2>2. /\ cancelFlag' = [cancelFlag EXCEPT ![main.user] = TRUE]
          /\ cancelledBefore' = [cancelledBefore EXCEPT ![main.user] = nextQuestion]
      BY <1>9 DEF SetFlag
    <2>3. ASSUME NEW m \in UnderWay, cancelFlag'[m.user]
          PROVE  m.text < cancelledBefore'[m.user]
      BY <1>0, <1>1, <2>2, <2>3
    <2> QED BY <1>1, <2>1, <2>3 DEF FlagsFit
  <1>10. CASE ReplaceLast \/ AddCancelled
    <2>1. main'.pc = "setFlag" /\ UnderWay' = UnderWay
      BY <1>0, <1>10 DEF ReplaceLast, AddCancelled, MainAt, UnderWay
    <2> QED BY <1>2, <1>10, <2>1 DEF ReplaceLast, AddCancelled
  <1>11. CASE DropAnswer
    <2>1. Head(replies).user \in Users
      BY <1>11, MailsTail DEF DropAnswer, TypeOK, Mail
    <2>2. \A u \in Users : cancelFlag'[u] => cancelFlag[u]
      BY <1>0, <1>11, <2>1 DEF DropAnswer
    <2>3. main' = main /\ UnderWay' \subseteq UnderWay
      BY <1>11, MailsTail DEF DropAnswer, UnderWay, TypeOK
    <2>4. main.pc \in {"storeQuestion", "sendQuestion"} =>
             main.user \in Users /\ ~cancelFlag[main.user]
      BY DEF FlagsFit, InRoute
    <2> QED BY <1>2, <1>11, <2>2, <2>3, <2>4 DEF DropAnswer
  <1>12. CASE Crash
    <2>1. \A u \in Users : ~cancelFlag'[u]
      BY <1>12 DEF Crash
    <2>2. main'.pc = "idle" /\ UnderWay' = {}
      BY <1>12, MailsEmpty DEF Crash, MainIdle, UnderWay
    <2> QED BY <1>2, <1>12, <2>1, <2>2 DEF Crash
  <1>13. ASSUME PassAnswer \/ StoreAnswer \/ Write \/ Answer \/ Fail \/ LinkDown \/ LinkUp
                \/ UNCHANGED vars
         PROVE  FlagsFit'
    <2>1. /\ main' = main /\ cancelFlag' = cancelFlag /\ nextQuestion' = nextQuestion
          /\ cancelledBefore' = cancelledBefore
      BY <1>13 DEF PassAnswer, StoreAnswer, Write, Answer, Fail, LinkDown, LinkUp, vars
    <2>2. ASSUME SendQuestion PROVE UnderWay' \subseteq UnderWay
      <3>1. main.pc = "sendQuestion" /\ main'.pc = "idle"
        BY <2>2 DEF SendQuestion, MainIdle
      <3> QED BY <2>1, <3>1
    <2> QED BY <1>2, <1>3, <2>1, <2>2 DEF FlagsFit
  <1> QED BY <1>4, <1>5, <1>6, <1>7, <1>8, <1>9, <1>10, <1>11, <1>12, <1>13 DEF Next

(* The queues apart, after each action that moves what is in them. *)
Apart ==
  /\ Distinct(outbox) /\ Distinct(requests) /\ Distinct(replies)
  /\ Texts(outbox) \cap Texts(requests) = {}
  /\ Texts(outbox) \cap Texts(replies) = {}
  /\ Texts(requests) \cap Texts(replies) = {}

LEMMA ApartStep ==
  ASSUME TypeOK, InRoute, Apart, Asking => main.text \notin TextsUnderWay, [Next]_vars
  PROVE  /\ Apart'
         /\ \A t \in TextsUnderWay' :
               t \in TextsUnderWay \/ (SendQuestion /\ t = main.text)
  <1> USE DEF TypeOK, Apart, TextsUnderWay, data, link, history
  <1>1. CASE SendQuestion
    <2>1. /\ [user |-> main.user, text |-> main.text] \in Mail
          /\ main.text \notin TextsUnderWay
      BY <1>1 DEF SendQuestion, InRoute, Asking, Mail
    <2> QED BY <1>1, <2>1, MailsAppend DEF SendQuestion
  <1>2. CASE DropAnswer \/ PassAnswer
    <2>1. Distinct(Tail(replies)) /\ Texts(Tail(replies)) \subseteq Texts(replies)
      BY <1>2, MailsTail DEF DropAnswer, PassAnswer
    <2> QED BY <1>2, <2>1 DEF DropAnswer, PassAnswer
  <1>3. CASE Write
    <2>1. /\ Head(outbox) \in Mail /\ Tail(outbox) \in Seq(Mail)
          /\ Head(outbox).text \in Texts(outbox) /\ Texts(Tail(outbox)) \subseteq Texts(outbox)
          /\ Distinct(Tail(outbox)) /\ Head(outbox).text \notin Texts(Tail(outbox))
      BY <1>3, MailsTail DEF Write
    <2>2. /\ Texts(requests') = Texts(requests) \cup {Head(outbox).text}
          /\ Distinct(requests')
      BY <1>3, <2>1, MailsAppend DEF Write
    <2> QED BY <1>3, <2>1, <2>2 DEF Write
  <1>4. CASE Answer
    <2>1. /\ Head(requests) \in Mail /\ Tail(requests) \in Seq(Mail)
          /\ Head(requests).text \in Texts(requests)
          /\ Texts(Tail(requests)) \subseteq Texts(requests)
          /\ Distinct(Tail(requests)) /\ Head(requests).text \notin Texts(Tail(requests))
      BY <1>4, MailsTail DEF Answer
    <2>2. /\ Texts(replies') = Texts(replies) \cup {Head(requests).text}
          /\ Distinct(replies')
      BY <1>4, <2>1, MailsAppend DEF Answer
    <2> QED BY <1>4, <2>1, <2>2 DEF Answer
  <1>5. CASE Fail
    <2>1. Distinct(Tail(requests)) /\ Texts(Tail(requests)) \subseteq Texts(requests)
      BY <1>5, MailsTail DEF Fail
    <2> QED BY <1>5, <2>1 DEF Fail
  <1>6. CASE LinkDown \/ Crash
    BY <1>6, MailsEmpty DEF LinkDown, Crash
  <1>7. ASSUME UNCHANGED <<outbox, requests, replies>>
        PROVE  Apart' /\ TextsUnderWay' = TextsUnderWay
    BY <1>7
  <1>8. ASSUME NEW u \in Users, Ask(u) \/ Cancel(u) \/ ClearHistory(u)
        PROVE  UNCHANGED <<outbox, requests, replies>>
    BY <1>8 DEF Ask, Cancel, ClearHistory
  <1>9. CASE ResetFlag \/ StoreQuestion \/ ReplaceLast \/ AddCancelled \/ SetFlag
             \/ StoreAnswer \/ LinkUp \/ UNCHANGED vars
    BY <1>7, <1>9 DEF ResetFlag, StoreQuestion, ReplaceLast, AddCancelled, SetFlag,
                      StoreAnswer, LinkUp, vars
  <1> QED BY <1>1, <1>2, <1>3, <1>4, <1>5, <1>6, <1>7, <1>8, <1>9 DEF Next

(* Numbers under way were given out. *)
LEMMA TextsType ==
  ASSUME TypeOK, FlagsFit, NEW t \in TextsUnderWay
  PROVE  t \in Question /\ t \in Nat \ {0} /\ t < nextQuestion
  <1>1. PICK m \in UnderWay : m.text = t
    BY DEF TextsUnderWay, UnderWay, Texts
  <1> QED BY <1>1, UnderWayType DEF FlagsFit, Question

(* A question is in one place. *)
LEMMA PlaceStep ==
  TypeOK /\ InRoute /\ FlagsFit /\ OnePlace /\ [Next]_vars => OnePlace'
  <1> SUFFICES ASSUME TypeOK, InRoute, FlagsFit, OnePlace, [Next]_vars PROVE OnePlace'
    OBVIOUS
  <1> USE DEF data, link, history
  <1>0. /\ Apart /\ nextQuestion \in Nat \ {0} /\ main \in MainAt /\ ai \in AiAt
        /\ replies \in Seq(Mail)
        /\ ai.text \notin TextsUnderWay
        /\ Asking => main.text \notin TextsUnderWay \cup {ai.text}
    BY CreditsAssumption DEF TypeOK, OnePlace, Apart
  <1>1. /\ Apart'
        /\ \A t \in TextsUnderWay' :
              t \in TextsUnderWay \/ (SendQuestion /\ t = main.text)
    BY <1>0, ApartStep
  <1>2. ASSUME (ai.text \notin TextsUnderWay)',
               (Asking => main.text \notin TextsUnderWay \cup {ai.text})'
        PROVE  OnePlace'
    BY <1>1, <1>2 DEF OnePlace, Apart
  <1>3. ASSUME TextsUnderWay' \subseteq TextsUnderWay, ai' = ai \/ ai' = AiIdle,
               Asking' => Asking /\ main'.text = main.text
        PROVE  OnePlace'
    <2>1. ai'.text = ai.text \/ ai'.text = 0
      BY <1>3 DEF AiIdle, Cancelled
    <2>2. ai'.text \notin TextsUnderWay'
      BY <1>0, <1>3, <2>1, TextsType
    <2>3. Asking' => main'.text \notin TextsUnderWay' \cup {ai'.text}
      BY <1>0, <1>3, <2>1 DEF InRoute, Question
    <2> QED BY <1>2, <2>2, <2>3
  <1>4. ASSUME main.pc # "sendQuestion" PROVE TextsUnderWay' \subseteq TextsUnderWay
    BY <1>1, <1>4 DEF SendQuestion
  <1>5. ASSUME NEW u \in Users, Ask(u) PROVE OnePlace'
    <2>1. /\ TextsUnderWay' = TextsUnderWay /\ ai' = ai /\ main'.text = nextQuestion
      BY <1>5 DEF Ask, TextsUnderWay
    <2>2. nextQuestion \notin TextsUnderWay
      BY <1>0, TextsType
    <2>3. nextQuestion # ai.text
      BY <1>0 DEF InRoute, Cancelled, Question
    <2> QED BY <1>0, <1>2, <2>1, <2>2, <2>3
  <1>6. ASSUME NEW u \in Users, Cancel(u) \/ ClearHistory(u) PROVE OnePlace'
    <2>1. main.pc = "idle" /\ ai' = ai /\ ~Asking'
      BY <1>6 DEF Cancel, ClearHistory, Asking, MainIdle
    <2> QED BY <1>3, <1>4, <2>1
  <1>7. CASE ResetFlag \/ StoreQuestion
    <2>1. main.pc # "sendQuestion" /\ ai' = ai /\ Asking /\ main'.text = main.text
      BY <1>0, <1>7 DEF ResetFlag, StoreQuestion, Asking, MainAt
    <2> QED BY <1>3, <1>4, <2>1
  <1>8. CASE SendQuestion
    <2>1. ai' = ai /\ ~Asking' /\ Asking
      BY <1>8 DEF SendQuestion, Asking, MainIdle
    <2> QED BY <1>0, <1>1, <1>2, <2>1
  <1>9. CASE ReplaceLast \/ AddCancelled \/ SetFlag
    <2>1. main.pc # "sendQuestion" /\ ai' = ai /\ ~Asking'
      BY <1>0, <1>9 DEF ReplaceLast, AddCancelled, SetFlag, Asking, MainIdle, MainAt
    <2> QED BY <1>3, <1>4, <2>1
  <1>10. CASE PassAnswer
    <2>1. /\ Head(replies).text \in TextsUnderWay /\ main' = main
          /\ ai'.text = Head(replies).text
      BY <1>0, <1>10, MailsTail DEF PassAnswer, TextsUnderWay
    <2>2. ai'.text \notin TextsUnderWay'
      BY <1>0, <1>10, MailsTail DEF PassAnswer, TextsUnderWay, Apart
    <2>3. TextsUnderWay' \subseteq TextsUnderWay
      BY <1>0, <1>10, MailsTail DEF PassAnswer, TextsUnderWay
    <2> QED BY <1>0, <1>2, <2>1, <2>2, <2>3 DEF Asking
  <1>11. CASE Crash
    <2>1. ai' = AiIdle /\ ~Asking' /\ TextsUnderWay' = {}
      BY <1>11, MailsEmpty DEF Crash, Asking, MainIdle, TextsUnderWay
    <2> QED BY <1>3, <2>1
  <1>12. ASSUME DropAnswer \/ StoreAnswer \/ Write \/ Answer \/ Fail \/ LinkDown
                \/ LinkUp \/ UNCHANGED vars
         PROVE  OnePlace'
    <2>1. main' = main /\ (ai' = ai \/ ai' = AiIdle)
      BY <1>12 DEF DropAnswer, StoreAnswer, Write, Answer, Fail, LinkDown, LinkUp, vars
    <2>2. TextsUnderWay' \subseteq TextsUnderWay
      <3>1. ASSUME SendQuestion PROVE FALSE
        BY <2>1, <3>1 DEF SendQuestion, MainIdle
      <3> QED BY <1>1, <3>1
    <2>3. Asking' => Asking
      BY <2>1 DEF Asking
    <2> QED BY <1>3, <2>1, <2>2, <2>3
  <1> QED BY <1>5, <1>6, <1>7, <1>8, <1>9, <1>10, <1>11, <1>12 DEF Next

(* The order of questions and answers after an entry was stored. *)
Ordered(u) ==
  \A i, j \in DOMAIN log[u] :
      log[u][i].role = "ai" /\ log[u][i].text # Cancelled
      /\ log[u][j].text = log[u][i].text
      => j <= i /\ (log[u][j].role = "ai" => j = i)

LEMMA OrderedStore ==
  ASSUME log \in [Users -> Seq(Entry)], NEW u \in Users, NEW r \in {"user", "ai"},
         NEW q \in Question \cup {Cancelled}, Store(u, r, q),
         Ordered(u), q \notin AnswersOf(u)
  PROVE  Ordered(u)'
  <1> DEFINE n == Len(log[u]) + 1
  <1>1. /\ log'[u][n] = [role |-> r, text |-> q] /\ DOMAIN log'[u] = DOMAIN log[u] \cup {n}
        /\ Len(log[u]) \in Nat
        /\ \A i \in DOMAIN log[u] :
              i \in Nat /\ i <= Len(log[u]) /\ log'[u][i] = log[u][i]
    BY StoreFacts
  <1>2. ASSUME NEW i \in DOMAIN log[u], log[u][i].role = "ai", log[u][i].text # Cancelled
        PROVE  log[u][i].text # q
    <2>1. log[u][i] \in Entry
      OBVIOUS
    <2>2. /\ log[u][i].text \in Question
          /\ log[u][i] = [role |-> "ai", text |-> log[u][i].text]
      BY <1>2, <2>1 DEF Entry
    <2> QED BY <2>2 DEF AnswersOf, Has
  <1> SUFFICES ASSUME NEW i \in DOMAIN log'[u], NEW j \in DOMAIN log'[u],
                      log'[u][i].role = "ai", log'[u][i].text # Cancelled,
                      log'[u][j].text = log'[u][i].text
               PROVE  j <= i /\ (log'[u][j].role = "ai" => j = i)
    BY DEF Ordered
  <1>3. CASE i = n /\ j = n
    BY <1>1, <1>3
  <1>4. CASE i = n /\ j \in DOMAIN log[u]
    BY <1>1, <1>2, <1>4
  <1>5. CASE i \in DOMAIN log[u] /\ j = n
    BY <1>1, <1>2, <1>5
  <1>6. CASE i \in DOMAIN log[u] /\ j \in DOMAIN log[u]
    BY <1>1, <1>6 DEF Ordered
  <1> QED BY <1>1, <1>3, <1>4, <1>5, <1>6

(* AnswersOf stand after their questions, and once. *)
LEMMA OrderStep ==
  Inv /\ [Next]_vars => AnswersFollowQuestions'
  <1> SUFFICES ASSUME Inv, [Next]_vars, NEW u \in Users PROVE Ordered(u)'
    BY DEF AnswersFollowQuestions, Ordered
  <1> USE DEF data, link, history
  <1>0. log \in [Users -> Seq(Entry)] /\ Ordered(u) /\ \A q \in AnswersOf(u) : q \notin Unfinished
    BY DEF Inv, TypeOK, AnswersFollowQuestions, Ordered, AnswersPlaced
  <1>1. ASSUME NEW v \in Users, NEW r \in {"user", "ai"}, NEW q \in Question \cup {Cancelled},
               Store(v, r, q), q \in Unfinished \cup {Cancelled}
        PROVE  Ordered(u)'
    <2>1. CASE v = u
      <3>1. q \notin AnswersOf(u)
        BY <1>0, <1>1 DEF AnswersOf, Question, Cancelled
      <3> QED BY <1>0, <1>1, <2>1, <3>1, OrderedStore
    <2>2. CASE v # u
      <3>1. \A w \in Users \ {v} : log'[w] = log[w]
        BY <1>0, <1>1, StoreFacts
      <3>2. log'[u] = log[u]
        BY <2>2, <3>1
      <3> QED BY <1>0, <3>2 DEF Ordered
    <2> QED BY <2>1, <2>2
  <1>2. CASE StoreQuestion
    <2>1. main.user \in Users /\ main.text \in Question /\ main.text \in Unfinished
          /\ Store(main.user, "user", main.text)
      BY <1>2 DEF StoreQuestion, Inv, InRoute, Asking, Unfinished
    <2> QED BY <1>1, <2>1
  <1>3. CASE AddCancelled
    <2>1. main.user \in Users /\ Store(main.user, "ai", Cancelled)
      BY <1>3 DEF AddCancelled, Inv, InRoute
    <2> QED BY <1>1, <2>1
  <1>4. CASE StoreAnswer
    <2>1. ai.user \in Users /\ ai.text \in Question /\ ai.text \in Unfinished
          /\ Store(ai.user, "ai", ai.text)
      BY <1>4 DEF StoreAnswer, Inv, InRoute, Unfinished
    <2> QED BY <1>1, <2>1
  <1>5. CASE ReplaceLast
    <2>1. /\ DOMAIN log'[u] = DOMAIN log[u]
          /\ \A i \in DOMAIN log[u] :
               /\ log'[u][i].role = log[u][i].role
               /\ log'[u][i] = log[u][i] \/ log'[u][i].text = Cancelled
      BY <1>0, <1>5, ReplaceFacts
    <2> QED BY <1>0, <2>1 DEF Ordered
  <1>6. ASSUME NEW v \in Users, ClearHistory(v) PROVE Ordered(u)'
    <2>1. log'[u] = log[u] \/ log'[u] = <<>>
      BY <1>0, <1>6 DEF ClearHistory
    <2> QED BY <1>0, <2>1 DEF Ordered
  <1>7. ASSUME log' = log PROVE Ordered(u)'
    BY <1>0, <1>7 DEF Ordered
  <1>8. ASSUME NEW v \in Users, Ask(v) \/ Cancel(v) PROVE Ordered(u)'
    BY <1>7, <1>8 DEF Ask, Cancel
  <1>9. CASE ResetFlag \/ SendQuestion \/ SetFlag \/ DropAnswer \/ PassAnswer \/ Write
             \/ Answer \/ Fail \/ LinkDown \/ LinkUp \/ Crash \/ UNCHANGED vars
    BY <1>7, <1>9 DEF ResetFlag, SendQuestion, SetFlag, DropAnswer, PassAnswer, Write,
                      Answer, Fail, LinkDown, LinkUp, Crash, vars
  <1> QED BY <1>2, <1>3, <1>4, <1>5, <1>6, <1>8, <1>9 DEF Next

(* What comes to be unfinished is a new question. *)
LEMMA UnfinishedStep ==
  ASSUME Inv, [Next]_vars, NEW t \in Unfinished', t # Cancelled
  PROVE  t \in Unfinished \/ t = nextQuestion
  <1> USE DEF data, link, history
  <1>0. /\ TypeOK /\ InRoute /\ FlagsFit /\ AnswersPlaced /\ OnePlace
        /\ log \in [Users -> Seq(Entry)] /\ nextQuestion \in Nat \ {0}
        /\ main \in MainAt
    BY CreditsAssumption DEF Inv, TypeOK
  <1>1. \A x \in TextsUnderWay' :
           x \in TextsUnderWay \/ (SendQuestion /\ x = main.text)
    BY <1>0, ApartStep DEF OnePlace, Apart
  <1>2. CASE t \in TextsUnderWay'
    BY <1>0, <1>1, <1>2 DEF Unfinished, SendQuestion, InRoute, Asking
  <1>3. CASE t = ai'.text
    <2>1. ai' = ai \/ ai' = AiIdle \/ PassAnswer
      BY DEF Next, Ask, Cancel, ClearHistory, ResetFlag, StoreQuestion, SendQuestion,
             ReplaceLast, AddCancelled, SetFlag, DropAnswer, StoreAnswer, Write,
             Answer, Fail, LinkDown, LinkUp, Crash, vars
    <2>2. CASE PassAnswer
      BY <1>0, <1>3, <2>2, MailsTail DEF PassAnswer, Unfinished, TextsUnderWay, TypeOK
    <2> QED BY <1>3, <2>1, <2>2 DEF Unfinished, AiIdle
  <1>4. CASE Asking' /\ t = main'.text
    <2>1. CASE main' = main
      BY <1>0, <1>4, <2>1 DEF Unfinished, Asking, InRoute
    <2>2. ASSUME NEW u \in Users, Ask(u) PROVE t = nextQuestion
      BY <1>4, <2>2 DEF Ask
    <2>3. CASE ResetFlag \/ StoreQuestion
      <3>1. main'.text = main.text /\ Asking
        BY <1>0, <2>3 DEF ResetFlag, StoreQuestion, Asking, MainAt
      <3> QED BY <1>0, <1>4, <3>1 DEF Unfinished, InRoute
    <2>4. ASSUME NEW u \in Users, Cancel(u) PROVE FALSE
      BY <1>4, <2>4 DEF Cancel, Asking
    <2>5. CASE SendQuestion \/ ReplaceLast \/ AddCancelled \/ SetFlag \/ Crash
      BY <1>0, <1>4, <2>5 DEF SendQuestion, ReplaceLast, AddCancelled, SetFlag, Crash,
                              Asking, MainIdle, MainAt
    <2> QED BY <2>1, <2>2, <2>3, <2>4, <2>5
            DEF Next, ClearHistory, DropAnswer, PassAnswer, StoreAnswer, Write, Answer,
                Fail, LinkDown, LinkUp, vars
  <1> QED BY <1>2, <1>3, <1>4 DEF Unfinished

(* An answer that comes to a history is the one the AI thread holds. *)
LEMMA AnswersStep ==
  ASSUME Inv, [Next]_vars, NEW u \in Users, NEW q \in Question,
         Has(u, [role |-> "ai", text |-> q])'
  PROVE  q \in AnswersOf(u) \/ (StoreAnswer /\ q = ai.text)
  <1> USE DEF data, link, history
  <1>0. /\ TypeOK /\ InRoute /\ FlagsFit /\ AnswersPlaced /\ OnePlace
        /\ log \in [Users -> Seq(Entry)] /\ nextQuestion \in Nat \ {0}
        /\ main \in MainAt
    BY CreditsAssumption DEF Inv, TypeOK
  <1>1. CASE log' = log \/ \E v \in Users : ClearHistory(v)
    <2>1. log'[u] = log[u] \/ log'[u] = <<>>
      BY <1>0, <1>1 DEF ClearHistory
    <2> QED BY <2>1 DEF AnswersOf, Has
  <1>2. ASSUME NEW v \in Users, NEW r \in {"user", "ai"}, NEW p \in Question \cup {Cancelled},
               Store(v, r, p)
        PROVE  q \in AnswersOf(u) \/ (r = "ai" /\ q = p)
    <2>1. \/ Has(u, [role |-> "ai", text |-> q])
          \/ [role |-> "ai", text |-> q] = [role |-> r, text |-> p]
      BY <1>0, <1>2, StoreHas
    <2>2. [role |-> "ai", text |-> q].role = "ai" /\ [role |-> "ai", text |-> q].text = q
          /\ [role |-> r, text |-> p].role = r /\ [role |-> r, text |-> p].text = p
      OBVIOUS
    <2> QED BY <2>1, <2>2 DEF AnswersOf
  <1>3. CASE StoreQuestion
    BY <1>0, <1>2, <1>3 DEF StoreQuestion, InRoute, Asking
  <1>4. CASE AddCancelled
    <2>1. q \in AnswersOf(u) \/ q = Cancelled
      BY <1>0, <1>2, <1>4 DEF AddCancelled, InRoute
    <2> QED BY <2>1 DEF Question, Cancelled
  <1>5. CASE StoreAnswer
    <2>1. q \in AnswersOf(u) \/ q = ai.text
      BY <1>0, <1>2, <1>5 DEF StoreAnswer, InRoute
    <2> QED BY <1>5, <2>1
  <1>6. CASE ReplaceLast
    <2>1. PICK i \in DOMAIN log'[u] : log'[u][i] = [role |-> "ai", text |-> q]
      BY DEF Has
    <2>2. i \in DOMAIN log[u] /\ (log'[u][i] = log[u][i] \/ log'[u][i].text = Cancelled)
      BY <1>0, <1>6, <2>1, ReplaceFacts
    <2>3. q # Cancelled
      BY DEF Question, Cancelled
    <2> QED BY <2>1, <2>2, <2>3 DEF Has, AnswersOf
  <1> QED BY <1>1, <1>3, <1>4, <1>5, <1>6
          DEF Next, Ask, Cancel, ResetFlag, SendQuestion, SetFlag, DropAnswer, PassAnswer,
              Write, Answer, Fail, LinkDown, LinkUp, Crash, vars

(* Questions are numbered in order. *)
LEMMA NumberStep ==
  [Next]_vars => nextQuestion' = nextQuestion \/ nextQuestion' = nextQuestion + 1
  BY DEF Next, Ask, Cancel, ClearHistory, ResetFlag, StoreQuestion, SendQuestion,
         ReplaceLast, AddCancelled, SetFlag, DropAnswer, PassAnswer, StoreAnswer, Write,
         Answer, Fail, LinkDown, LinkUp, Crash, vars, data, link, history

(* Nothing that is answered comes to be unfinished again. *)
LEMMA AnsweredStep ==
  Inv /\ [Next]_vars => AnswersPlaced'
  <1> SUFFICES ASSUME Inv, [Next]_vars PROVE AnswersPlaced'
    OBVIOUS
  <1> USE DEF data, link, history
  <1>0. /\ TypeOK /\ InRoute /\ FlagsFit /\ AnswersPlaced /\ OnePlace
        /\ log \in [Users -> Seq(Entry)] /\ nextQuestion \in Nat \ {0}
        /\ main \in MainAt
    BY CreditsAssumption DEF Inv, TypeOK
  <1>1. ASSUME StoreAnswer
        PROVE  ai.text < nextQuestion /\ ai.text \notin Unfinished' /\ ai.text \in Question
    <2>1. ai.text \in Question /\ ai.text < nextQuestion /\ ai.text # 0
      BY <1>0, <1>1 DEF InRoute, StoreAnswer, Question
    <2>2. /\ ai'.text = 0 /\ TextsUnderWay' = TextsUnderWay /\ main' = main
      BY <1>1 DEF StoreAnswer, AiIdle, Cancelled, TextsUnderWay
    <2> QED BY <1>0, <2>1, <2>2 DEF Unfinished, OnePlace, Asking
  <1>2. ASSUME NEW u \in Users, NEW q \in Question, Has(u, [role |-> "ai", text |-> q])'
        PROVE  q < nextQuestion' /\ q \notin Unfinished'
    <2>1. q \in Nat /\ q # Cancelled
      BY DEF Question, Cancelled
    <2>2. CASE q \in AnswersOf(u)
      <3>1. q < nextQuestion /\ q \notin Unfinished
        BY <1>0, <2>2 DEF AnswersPlaced
      <3> QED BY <1>0, NumberStep, UnfinishedStep, <2>1, <3>1
    <2>3. CASE StoreAnswer /\ q = ai.text
      BY <1>0, NumberStep, <1>1, <2>1, <2>3
    <2> QED BY AnswersStep, <1>2, <2>2, <2>3
  <1> QED BY <1>2 DEF AnswersPlaced, AnswersOf

LEMMA InvStep == Inv /\ [Next]_vars => Inv'
  BY TypeStep, RouteStep, ChargedStep, LastStep, FlagsStep, PlaceStep, AnsweredStep, OrderStep
     DEF Inv

(* The invariant holds in every state, and every property follows from it. *)
THEOREM InvHolds == Spec => []Inv
  BY InitInv, InvStep, PTL DEF Spec

(* Variables keep their types. *)
THEOREM TypeCorrect == Spec => []TypeOK
  <1>1. Inv => TypeOK
    BY DEF Inv
  <1> QED BY InvHolds, <1>1, PTL

(* A history never holds more questions than its user has paid for, wherever
   askAi is cut off. *)
THEOREM NobodyAsksForFree == Spec => []PaidQuestions
  <1>1. Inv => PaidQuestions
    <2> SUFFICES ASSUME Inv, NEW u \in Users
                 PROVE  Cardinality(Questions(u)) <= StartCredits - credits[u]
      BY DEF PaidQuestions
    <2>1. Questions(u) \subseteq 1..MaxQuestions /\ IsFiniteSet(1..MaxQuestions)
      BY FS_Interval, CreditsAssumption DEF Questions, Question
    <2>2. Cardinality(Questions(u)) \in Nat
      BY <2>1, FS_Subset, FS_CardinalityType
    <2>3. /\ Cardinality(Questions(u)) + Unstored(u) <= StartCredits - credits[u]
          /\ Unstored(u) \in Nat /\ credits[u] \in 0..StartCredits
      BY DEF Inv, Charged, Unstored, TypeOK
    <2> QED BY <2>2, <2>3, CreditsAssumption
  <1> QED BY InvHolds, <1>1, PTL

(* An answer stands after its question, and once, although another thread
   stores it. *)
THEOREM AnswersInOrder == Spec => []AnswersFollowQuestions
  <1>1. Inv => AnswersFollowQuestions
    BY DEF Inv
  <1> QED BY InvHolds, <1>1, PTL

(* cancelAi leaves no history that ends in a question, whatever the AI thread
   stores while it runs. *)
THEOREM CancelStopsTheWait == Spec => []CancelEndsTheWait
  <1>1. Inv => CancelEndsTheWait
    BY DEF Inv, LastAnswered, CancelEndsTheWait
  <1> QED BY InvHolds, <1>1, PTL

(* An answer that is dropped is one to a question asked before the user's last
   cancellation. *)
THEOREM DropsAreCancelled == Spec => OnlyCancelledAnswersDropped
  <1>1. Inv /\ DropAnswer => Head(replies).text < cancelledBefore[Head(replies).user]
    <2> SUFFICES ASSUME Inv, DropAnswer
                 PROVE  Head(replies).text < cancelledBefore[Head(replies).user]
      OBVIOUS
    <2>1. Head(replies) \in UnderWay /\ cancelFlag[Head(replies).user]
      BY MailsTail DEF DropAnswer, Inv, TypeOK, UnderWay
    <2> QED BY <2>1 DEF Inv, FlagsFit
  <1>2. Inv /\ [Next]_vars =>
          [DropAnswer => Head(replies).text < cancelledBefore[Head(replies).user]]_vars
    BY <1>1
  <1> QED BY InvHolds, <1>2, PTL DEF Spec, OnlyCancelledAnswersDropped

------------------------------------------------------------------------------
(* TutorPage *)

(* A prefix holds the elements up to its length. *)
LEMMA PrefixFacts ==
  ASSUME NEW S, NEW s \in Seq(S), NEW n \in 0..Len(s)
  PROVE  /\ SubSeq(s, 1, n) \in Seq(S)
         /\ \A i \in DOMAIN SubSeq(s, 1, n) : i \in DOMAIN s /\ SubSeq(s, 1, n)[i] = s[i]
  OBVIOUS

(* A queue of at most one element, which is not empty. *)
LEMMA OneElement ==
  ASSUME NEW T, NEW a \in Seq(T), a # <<>>, Len(a) <= 1
  PROVE  Len(a) = 1 /\ a[1] \in T /\ DOMAIN a = {1}
  <1>1. Len(a) # 0
    BY EmptySeq, LenProperties, SeqEqual
  <1>2. Len(a) \in Nat /\ DOMAIN a = 1..Len(a)
    BY LenProperties
  <1>3. Len(a) = 1
    BY <1>1, <1>2
  <1> QED BY <1>2, <1>3

(* A queue of at most one element, which is not empty, at the end of another. *)
LEMMA ConcatOne ==
  ASSUME NEW S, NEW q \in Seq(S), NEW T, NEW a \in Seq(T), a # <<>>, Len(a) <= 1
  PROVE  q \o a = Append(q, a[1]) /\ a[1] \in T /\ DOMAIN a = {1}
  <1> DEFINE U == S \cup T
  <1>1. Len(q) \in Nat /\ DOMAIN q = 1..Len(q)
    BY LenProperties
  <1>2. Len(a) = 1
    BY OneElement
  <1>3. DOMAIN a = {1} /\ a[1] \in T
    BY OneElement
  <1>4. q \in Seq(U) /\ a \in Seq(U) /\ a[1] \in U
    BY <1>3
  <1> HIDE DEF U
  <1>5. /\ q \o a \in Seq(U) /\ Len(q \o a) = Len(q) + Len(a)
        /\ \A i \in 1..Len(q) + Len(a) :
              (q \o a)[i] = IF i <= Len(q) THEN q[i] ELSE a[i - Len(q)]
    <2> HIDE <1>2
    <2> QED BY <1>4, ConcatProperties, Zenon
  <1>6. /\ Append(q, a[1]) \in Seq(U) /\ Len(Append(q, a[1])) = Len(q) + 1
        /\ \A i \in 1..Len(q) : Append(q, a[1])[i] = q[i]
        /\ Append(q, a[1])[Len(q) + 1] = a[1]
    BY <1>4, AppendProperties
  <1>7. Len(q \o a) = Len(Append(q, a[1]))
    BY <1>1, <1>2, <1>5, <1>6
  <1>8. ASSUME NEW i \in 1..Len(q) + 1 PROVE (q \o a)[i] = Append(q, a[1])[i]
    <2>1. CASE i <= Len(q)
      BY <1>1, <1>2, <1>5, <1>6, <2>1
    <2>2. CASE i = Len(q) + 1
      BY <1>1, <1>2, <1>5, <1>6, <2>2
    <2> QED BY <1>1, <2>1, <2>2
  <1>9. q \o a = Append(q, a[1])
    BY <1>5, <1>6, <1>7, <1>8, SeqEqual
  <1> QED BY <1>3, <1>9

(* AiTutor's steps but those this page's server does not take: it stays up,
   and so does its backend once found. *)
ServerStep ==
    \/ Ask(Me) \/ Cancel(Me) \/ ClearHistory(Me)
    \/ ResetFlag \/ StoreQuestion \/ SendQuestion
    \/ ReplaceLast \/ AddCancelled \/ SetFlag
    \/ DropAnswer \/ PassAnswer \/ StoreAnswer
    \/ Write \/ Answer \/ Fail \/ LinkUp

LEMMA MeIsAUser == Me \in Users /\ Users = {Me}
  BY TutorPageAssumption

LEMMA StepOfServer ==
  ASSUME [PageNext]_tutorVars
  PROVE  ServerStep \/ UNCHANGED vars
  <1>1. CASE ClickSend \/ ClickStop \/ ClickClear \/ LogInAgain \/ ShowFailure \/ ShowHistory
             \/ LoadPush \/ TakeReply \/ Timeout
    BY <1>1 DEF ClickSend, ClickStop, ClickClear, LogInAgain, ShowFailure, ShowHistory,
                LoadPush, TakeReply, Timeout, server
  <1>2. CASE ServeAsk \/ RefuseAsk \/ ServeCancel \/ ServeClear
    BY <1>2 DEF ServeAsk, RefuseAsk, ServeCancel, ServeClear, ServerStep
  <1>3. CASE MainStep \/ AiStep \/ Refresh \/ Backend
    BY <1>3 DEF MainStep, AiStep, Refresh, Backend, ServerStep
  <1>4. ASSUME NEW t \in Threads, ReadCredits(t) \/ ReadMessages(t) \/ PushSend(t)
        PROVE  UNCHANGED vars
    BY <1>4 DEF ReadCredits, ReadMessages, PushSend
  <1>5. CASE UNCHANGED tutorVars
    BY <1>5 DEF tutorVars, server
  <1> QED BY <1>1, <1>2, <1>3, <1>4, <1>5 DEF PageNext

LEMMA ServerInvStep ==
  ASSUME Inv, [PageNext]_tutorVars
  PROVE  Inv' /\ [Next]_vars
  <1>1. ServerStep => Next
    BY MeIsAUser DEF ServerStep, Next
  <1> QED BY <1>1, StepOfServer, InvStep

(* What Inv says of the server, with what the proofs here need of the types. *)
LEMMA InvTypes ==
  ASSUME Inv
  PROVE  /\ TypeOK /\ InRoute /\ AnswersPlaced
         /\ log \in [Users -> Seq(Entry)] /\ log[Me] \in Seq(Entry)
         /\ credits \in [Users -> 0..StartCredits] /\ credits[Me] \in 0..StartCredits
         /\ nextQuestion \in Nat \ {0} /\ main \in MainAt /\ ai \in AiAt
  BY MeIsAUser, CreditsAssumption DEF Inv, TypeOK

(* A payload that shows the tables shows the answers in them. *)
LEMMA AnswersLogged ==
  ASSUME Inv
  PROVE  /\ Answers(log[Me]) = AnswersOf(Me)
         /\ \A q \in Answers(log[Me]) : Over(q)
         /\ EndsInAnswer(log[Me]) \/ \A q \in Question : Buried(q)
  <1>1. /\ log[Me] \in Seq(Entry) /\ DOMAIN log[Me] = 1..Len(log[Me])
        /\ \A i \in DOMAIN log[Me] : log[Me][i] \in Entry
    BY InvTypes
  <1>2. ASSUME NEW q \in Answers(log[Me]) PROVE q \in AnswersOf(Me)
    <2>1. PICK i \in DOMAIN log[Me] : log[Me][i].role = "ai" /\ log[Me][i].text = q
      BY DEF Answers
    <2>2. log[Me][i] = [role |-> "ai", text |-> q] /\ q \in Question \cup {Cancelled}
      BY <1>1, <2>1 DEF Entry
    <2>3. q # Cancelled
      BY DEF Answers
    <2> QED BY <2>2, <2>3 DEF AnswersOf, Has
  <1>3. ASSUME NEW q \in AnswersOf(Me) PROVE q \in Answers(log[Me])
    <2>1. PICK i \in DOMAIN log[Me] : log[Me][i] = [role |-> "ai", text |-> q]
      BY DEF AnswersOf, Has
    <2>2. log[Me][i].role = "ai" /\ log[Me][i].text = q /\ q # Cancelled
      BY <2>1 DEF AnswersOf, Question, Cancelled
    <2> QED BY <2>2 DEF Answers
  <1>4. \A q \in AnswersOf(Me) : Over(q)
    BY InvTypes, MeIsAUser DEF AnswersPlaced, AnswersOf, Over
  <1>5. ASSUME ~EndsInAnswer(log[Me]), NEW q \in Question PROVE Buried(q)
    <2>1. log[Me] = <<>> \/ Last(Me).role # "ai"
      BY <1>5 DEF EndsInAnswer, Last
    <2> QED BY <2>1 DEF Buried
  <1> QED BY <1>2, <1>3, <1>4, <1>5

----------------------------------------------------------------------------
(* What the server's steps leave of Over, Buried and Sinking *)

LEMMA OverStays ==
  ASSUME Inv, [Next]_vars, NEW q, Over(q)
  PROVE  Over(q)'
  <1>1. q # Cancelled /\ q \in Nat
    BY DEF Over, Question, Cancelled
  <1>2. q \notin Unfinished'
    BY <1>1, UnfinishedStep, InvTypes DEF Over
  <1>3. q < nextQuestion'
    BY <1>1, NumberStep, InvTypes DEF Over
  <1> QED BY <1>2, <1>3 DEF Over

(* The last entry after a step that stores one. *)
LEMMA StoredLast ==
  ASSUME Inv, NEW u \in Users, NEW r \in {"user", "ai"}, NEW p \in Question \cup {Cancelled},
         Store(u, r, p)
  PROVE  log[Me]' # <<>> /\ Last(Me)' = [role |-> r, text |-> p]
  <1>1. u = Me
    BY MeIsAUser
  <1>2. /\ log'[Me] # <<>> /\ Len(log'[Me]) = Len(log[Me]) + 1
        /\ log'[Me][Len(log[Me]) + 1] = [role |-> r, text |-> p]
    BY <1>1, InvTypes, StoreFacts
  <1> QED BY <1>2 DEF Last

LEMMA BuriedStays ==
  ASSUME Inv, ServerStep, NEW q, Over(q), Buried(q)
  PROVE  Buried(q)'
  <1>1. q \in Question /\ q # Cancelled /\ q # ai.text
    BY DEF Over, Question, Cancelled, Unfinished
  <1>2. CASE log' = log
    BY <1>2 DEF Buried, Last
  <1>3. ASSUME NEW u \in Users, NEW r \in {"user", "ai"}, NEW p \in Question \cup {Cancelled},
               Store(u, r, p), r = "user" \/ p # q
        PROVE  Buried(q)'
    <2>1. Last(Me)' = [role |-> r, text |-> p]
      BY <1>3, StoredLast
    <2>2. [role |-> r, text |-> p] # [role |-> "ai", text |-> q]
      <3>1. /\ [role |-> r, text |-> p].role = r /\ [role |-> r, text |-> p].text = p
            /\ [role |-> "ai", text |-> q].role = "ai" /\ [role |-> "ai", text |-> q].text = q
        OBVIOUS
      <3> QED BY <1>3, <3>1
    <2> QED BY <2>1, <2>2 DEF Buried
  <1>4. CASE ClearHistory(Me)
    BY <1>4, InvTypes, MeIsAUser DEF ClearHistory, Buried
  <1>5. CASE StoreQuestion
    <2>1. main.user \in Users /\ main.text \in Question
      BY <1>5, InvTypes DEF StoreQuestion, InRoute, Asking
    <2> QED BY <1>3, <1>5, <2>1 DEF StoreQuestion
  <1>6. CASE AddCancelled
    <2>1. main.user \in Users
      BY <1>6, InvTypes DEF AddCancelled, InRoute
    <2> QED BY <1>1, <1>3, <1>6, <2>1 DEF AddCancelled
  <1>7. CASE StoreAnswer
    <2>1. ai.user \in Users /\ ai.text \in Question
      BY <1>7, InvTypes DEF StoreAnswer, InRoute
    <2> QED BY <1>1, <1>3, <1>7, <2>1 DEF StoreAnswer
  <1>8. CASE ReplaceLast
    <2>1. /\ Len(log'[Me]) = Len(log[Me]) /\ (log'[Me] = <<>> <=> log[Me] = <<>>)
          /\ \A i \in DOMAIN log[Me] : log'[Me][i] = log[Me][i] \/ log'[Me][i].text = Cancelled
      BY <1>8, InvTypes, MeIsAUser, ReplaceFacts
    <2>2. CASE log[Me] = <<>>
      BY <2>1, <2>2 DEF Buried
    <2>3. CASE log[Me] # <<>>
      <3>1. Len(log[Me]) \in DOMAIN log[Me]
        BY <2>3, InvTypes
      <3>2. Last(Me)' = Last(Me) \/ Last(Me)'.text = Cancelled
        BY <2>1, <3>1 DEF Last
      <3>3. [role |-> "ai", text |-> q].text = q
        OBVIOUS
      <3> QED BY <1>1, <2>3, <3>2, <3>3 DEF Buried
    <2> QED BY <2>2, <2>3
  <1>9. CASE Ask(Me) \/ Cancel(Me) \/ ResetFlag \/ SendQuestion \/ SetFlag \/ DropAnswer
             \/ PassAnswer \/ Write \/ Answer \/ Fail \/ LinkUp
    BY <1>2, <1>9 DEF Ask, Cancel, ResetFlag, SendQuestion, SetFlag, DropAnswer, PassAnswer,
                      Write, Answer, Fail, LinkUp, data
  <1> QED BY <1>4, <1>5, <1>6, <1>7, <1>8, <1>9 DEF ServerStep

LEMMA SinkingStays ==
  ASSUME Inv, ServerStep, NEW q, Over(q), Sinking(q)
  PROVE  Sinking(q)'
  <1>1. CASE Buried(q)
    BY <1>1, BuriedStays DEF Sinking
  <1>2. CASE main.pc \in {"resetFlag", "storeQuestion"} /\ main' = main
    BY <1>2 DEF Sinking
  <1>3. CASE ResetFlag
    BY <1>3, InvTypes DEF ResetFlag, Sinking, MainAt
  <1>4. CASE StoreQuestion
    <2>1. main.user \in Users /\ main.text \in Question
      BY <1>4, InvTypes DEF StoreQuestion, InRoute, Asking
    <2>2. Last(Me)' = [role |-> "user", text |-> main.text]
      BY <1>4, <2>1, StoredLast DEF StoreQuestion
    <2>3. [role |-> "user", text |-> main.text].role # [role |-> "ai", text |-> q].role
      OBVIOUS
    <2> QED BY <2>2, <2>3 DEF Sinking, Buried
  <1>5. CASE main.pc \in {"resetFlag", "storeQuestion"} /\ ~ResetFlag /\ ~StoreQuestion
    <2>1. main' = main
      BY <1>5 DEF ServerStep, Ask, Cancel, ClearHistory, SendQuestion, ReplaceLast,
                  AddCancelled, SetFlag, DropAnswer, PassAnswer, StoreAnswer, Write, Answer,
                  Fail, LinkUp, MainIdle
    <2> QED BY <1>2, <1>5, <2>1
  <1> QED BY <1>1, <1>3, <1>4, <1>5 DEF Sinking
----------------------------------------------------------------------------
(* Copies of the client's state, and pages *)

LEMMA HereType ==
  ASSUME Inv
  PROVE  Here \in Payload /\ Here.messages = log[Me] /\ Here.credits = credits[Me]
  <1>1. log[Me] \in Seq(LocalEntry) /\ credits[Me] \in 0..StartCredits
    BY InvTypes DEF Entry, LocalEntry
  <1> QED BY <1>1 DEF Here, Payload

LEMMA AnswersType ==
  ASSUME NEW l \in Payload
  PROVE  /\ l.messages \in Seq(LocalEntry) /\ l.credits \in 0..StartCredits
         /\ Answers(l.messages) \subseteq Question
  <1>1. /\ l.messages \in Seq(LocalEntry) /\ l.credits \in 0..StartCredits
        /\ \A i \in DOMAIN l.messages : l.messages[i] \in LocalEntry
    BY DEF Payload
  <1> QED BY <1>1 DEF Answers, LocalEntry

LEMMA NoAnswers == Answers(<<>>) = {} /\ ~EndsInAnswer(<<>>)
  BY DEF Answers, EndsInAnswer

(* An optimistic question hides the last answer and spends a credit. *)
LEMMA AskedFacts ==
  ASSUME NEW l \in Payload, l.credits > 0
  PROVE  /\ Asked(l) \in Payload
         /\ Answers(Asked(l).messages) = Answers(l.messages)
         /\ Asked(l).credits < l.credits
  <1> DEFINE e == [role |-> "user", text |-> Cancelled]
             s == l.messages
             m == Append(s, e)
  <1>1. /\ s \in Seq(LocalEntry) /\ l.credits \in 0..StartCredits
        /\ l.credits - 1 \in 0..StartCredits /\ l.credits - 1 < l.credits
    BY CreditsAssumption, AnswersType
  <1>2. e \in LocalEntry /\ e.role = "user"
    BY DEF LocalEntry
  <1>3. /\ m \in Seq(LocalEntry) /\ m[Len(s) + 1] = e
        /\ DOMAIN m = DOMAIN s \cup {Len(s) + 1}
        /\ Len(s) + 1 \notin DOMAIN s /\ \A i \in DOMAIN s : m[i] = s[i]
    BY <1>1, <1>2, AppendFacts
  <1>4. Asked(l) = [messages |-> m, credits |-> l.credits - 1]
    BY DEF Asked
  <1> HIDE DEF m, e, s
  <1>5. Asked(l) \in Payload /\ Asked(l).messages = m /\ Asked(l).credits < l.credits
    BY <1>1, <1>3, <1>4 DEF Payload
  <1>6. {i \in DOMAIN m : m[i].role = "ai"} = {i \in DOMAIN s : s[i].role = "ai"}
    <2>1. "user" # "ai"
      OBVIOUS
    <2> QED BY <1>2, <1>3, <2>1
  <1>7. Answers(m) = Answers(s)
    BY <1>3, <1>6 DEF Answers
  <1> QED BY <1>5, <1>7 DEF s

LEMMA RefreshedFacts ==
  ASSUME NEW p \in Page, NEW l \in Payload
  PROVE  /\ Refreshed(p, l) \in Page
         /\ Refreshed(p, l).shown = Answers(l.messages)
         /\ Refreshed(p, l).bubble => ~EndsInAnswer(l.messages)
  <1> DEFINE w == p.waiting /\ ~EndsInAnswer(l.messages)
             n == l.credits > 0 /\ ~p.waiting
  <1>1. Refreshed(p, l) = [waiting |-> w, bubble |-> w, input |-> n, shown |-> Answers(l.messages)]
    BY DEF Refreshed
  <1>2. w \in BOOLEAN /\ n \in BOOLEAN /\ (w => ~EndsInAnswer(l.messages))
    BY Zenon
  <1>3. Answers(l.messages) \in SUBSET Question
    BY AnswersType
  <1> HIDE DEF w, n
  <1>4. Refreshed(p, l) \in Page
    BY <1>1, <1>2, <1>3 DEF Page
  <1>5. Refreshed(p, l).bubble = w /\ Refreshed(p, l).shown = Answers(l.messages)
    BY <1>1
  <1> QED BY <1>2, <1>4, <1>5

LEMMA FinishedFacts ==
  ASSUME NEW p \in Page
  PROVE  Finished(p) \in Page /\ Finished(p).shown = p.shown /\ ~Finished(p).bubble
  <1>1. CASE p.bubble
    <2>1. Finished(p) = [p EXCEPT !.bubble = FALSE, !.input = TRUE]
      BY <1>1 DEF Finished
    <2>2. [p EXCEPT !.bubble = FALSE] \in Page
      BY DEF Page
    <2>3. [p EXCEPT !.bubble = FALSE, !.input = TRUE] \in Page
      BY <2>2 DEF Page
    <2>4. /\ [p EXCEPT !.bubble = FALSE, !.input = TRUE].bubble = FALSE
          /\ [p EXCEPT !.bubble = FALSE, !.input = TRUE].shown = p.shown
      BY DEF Page
    <2> QED BY <2>1, <2>3, <2>4
  <1>2. CASE ~p.bubble
    BY <1>2 DEF Finished
  <1> QED BY <1>1, <1>2

LEMMA SetOnPage ==
  ASSUME NEW p \in Page, NEW b \in BOOLEAN
  PROVE  /\ [p EXCEPT !.waiting = b] \in Page /\ [p EXCEPT !.waiting = b].shown = p.shown
         /\ [p EXCEPT !.bubble = b] \in Page /\ [p EXCEPT !.bubble = b].shown = p.shown
         /\ [p EXCEPT !.input = b] \in Page /\ [p EXCEPT !.input = b].shown = p.shown
         /\ [p EXCEPT !.input = b].bubble = p.bubble
  BY DEF Page

(* The page after the send button. *)
LEMMA SentFacts ==
  ASSUME NEW p \in Page, NEW l \in Payload
  PROVE  LET sent == [Refreshed([p EXCEPT !.waiting = TRUE], l)
                         EXCEPT !.bubble = TRUE, !.input = FALSE]
         IN  sent \in Page /\ sent.shown = Answers(l.messages)
  <1> DEFINE a == [p EXCEPT !.waiting = TRUE]
             b == Refreshed(a, l)
             c == [b EXCEPT !.bubble = TRUE]
             d == [c EXCEPT !.input = FALSE]
  <1>1. a \in Page
    BY SetOnPage
  <1> HIDE DEF a
  <1>2. b \in Page /\ b.shown = Answers(l.messages)
    BY <1>1, RefreshedFacts
  <1> HIDE DEF b
  <1>3. c \in Page /\ c.shown = b.shown
    BY <1>2, SetOnPage
  <1>4. [b EXCEPT !.bubble = TRUE, !.input = FALSE] = d
    BY DEF c, d
  <1> HIDE DEF c
  <1>5. d \in Page /\ d.shown = c.shown
    BY <1>3, SetOnPage
  <1> QED BY <1>2, <1>3, <1>4, <1>5 DEF a, b
----------------------------------------------------------------------------
(* Types: the client, the wire, and the threads of the server with what they
   push *)

ClientOK ==
  /\ local \in Payload
  /\ page \in Page
  /\ guiQueue \in Seq({"userChanged", "aiFailed"})
  /\ awaited \subseteq 1..MaxClicks
  /\ clicks \in 0..MaxClicks
  /\ stray \in BOOLEAN

WireOK ==
  /\ toServer \in Seq(Request)
  /\ toClient \in Seq(Reply \cup Payload)

PushOK ==
  /\ asking \in 0..MaxClicks /\ (Asking => asking # NoClick)
  /\ push \in [Threads -> {"nothing", "all", "messages"}]
  /\ payload \in [Threads -> Seq(Payload)]
  /\ \A t \in Threads : Len(payload[t]) <= 1 /\ (push[t] = "messages" => payload[t] # <<>>)
  /\ spared \subseteq Question

TypesOK == ClientOK /\ WireOK /\ PushOK

LEMMA MailKinds ==
  /\ \A m \in Reply : IsReply(m) /\ m.click \in 1..MaxClicks /\ m.ok \in BOOLEAN
  /\ \A m \in Payload : ~IsReply(m)
  <1>1. ASSUME NEW m \in Reply PROVE IsReply(m) /\ m.click \in 1..MaxClicks /\ m.ok \in BOOLEAN
    BY DEF Reply, IsReply
  <1>2. ASSUME NEW m \in Payload PROVE "click" \notin DOMAIN m
    <2>1. PICK a \in Seq(LocalEntry), b \in 0..StartCredits : m = [messages |-> a, credits |-> b]
      BY DEF Payload
    <2>2. DOMAIN m = {"messages", "credits"}
      BY <2>1
    <2> QED BY <2>2
  <1> QED BY <1>1, <1>2 DEF IsReply

LEMMA TypesAre == Inv => (TypesOK <=> PageTypeOK /\ toClient \in Seq(Reply \cup Payload)
                                      /\ (Asking => asking # NoClick))
  <1> SUFFICES ASSUME Inv
               PROVE  TypesOK <=> PageTypeOK /\ toClient \in Seq(Reply \cup Payload)
                                  /\ (Asking => asking # NoClick)
    OBVIOUS
  <1>1. TypeOK
    BY InvTypes
  <1>2. toClient \in Seq(Reply \cup Payload) =>
          \A i \in DOMAIN toClient : toClient[i] \in Reply \cup Payload
    OBVIOUS
  <1> QED BY <1>1, <1>2, Zenon DEF TypesOK, ClientOK, WireOK, PushOK, PageTypeOK

(* A request, as SendRequest makes it. *)
LEMMA RequestFacts ==
  ASSUME TypesOK, NEW cmd, SendRequest(cmd), cmd # "logOut"
  PROVE  LET shown == IF cmd = "cancelAi" THEN page.shown ELSE {}
             r == [cmd |-> cmd, click |-> clicks + 1, shown |-> shown]
         IN  /\ r \in Request /\ toServer' = Append(toServer, r) /\ toServer' \in Seq(Request)
             /\ clicks' = clicks + 1 /\ clicks' \in 1..MaxClicks
  <1> DEFINE shown == IF cmd = "cancelAi" THEN page.shown ELSE {}
             r == [cmd |-> cmd, click |-> clicks + 1, shown |-> shown]
  <1>1. shown \in SUBSET Question
    BY DEF TypesOK, ClientOK, Page
  <1>2. clicks + 1 \in 1..MaxClicks /\ cmd \in Clicks \ {"logOut"}
    BY TutorPageAssumption DEF SendRequest, TypesOK, ClientOK
  <1>3. toServer' = Append(toServer, r) /\ clicks' = clicks + 1
    BY DEF SendRequest
  <1> HIDE DEF shown
  <1>4. r \in Request
    BY <1>1, <1>2 DEF Request
  <1>5. toServer' \in Seq(Request)
    BY <1>3, <1>4, AppendFacts DEF TypesOK, WireOK
  <1> QED BY <1>2, <1>3, <1>4, <1>5 DEF shown

LEMMA ClientTypeStep ==
  ASSUME Inv, TypesOK, [PageNext]_tutorVars
  PROVE  ClientOK'
  <1> USE DEF ClientOK
  <1>0. ClientOK /\ WireOK
    BY DEF TypesOK
  <1>1. CASE ClickSend
    <2>1. clicks' \in 1..MaxClicks
      BY <1>1, RequestFacts DEF ClickSend
    <2>2. local' \in Payload
      BY <1>0, <1>1, AskedFacts DEF ClickSend
    <2>3. page' \in Page
      BY <1>0, <1>1, <2>2, SentFacts DEF ClickSend
    <2>4. awaited' \subseteq 1..MaxClicks
      BY <1>0, <1>1, <2>1 DEF ClickSend
    <2>5. clicks' \in 0..MaxClicks
      BY <2>1
    <2> QED BY <1>0, <1>1, <2>2, <2>3, <2>4, <2>5 DEF ClickSend
  <1>2. CASE ClickStop
    <2>1. clicks' \in 1..MaxClicks
      BY <1>2, RequestFacts DEF ClickStop
    <2>2. [page EXCEPT !.input = TRUE] \in Page
      BY <1>0, SetOnPage
    <2>3. page' \in Page
      BY <1>2, <2>2, FinishedFacts DEF ClickStop
    <2>4. clicks' \in 0..MaxClicks
      BY <2>1
    <2> QED BY <1>0, <1>2, <2>3, <2>4 DEF ClickStop
  <1>3. CASE ClickClear
    <2>1. clicks' \in 1..MaxClicks
      BY <1>3, RequestFacts DEF ClickClear
    <2>2. clicks' \in 0..MaxClicks
      BY <2>1
    <2>3. stray' \in BOOLEAN
      BY <1>0, <1>3 DEF ClickClear, Page
    <2> QED BY <1>0, <1>3, <2>2, <2>3 DEF ClickClear
  <1>4. CASE LogInAgain
    <2>1. clicks' \in 0..MaxClicks
      BY <1>0, <1>4, TutorPageAssumption DEF LogInAgain
    <2>2. local' \in Payload /\ page' \in Page
      BY <1>0, <1>4, HereType, RefreshedFacts DEF LogInAgain
    <2>3. stray' \in BOOLEAN
      <3>1. stray' = page'.waiting
        BY <1>4, Zenon DEF LogInAgain
      <3> QED BY <2>2, <3>1 DEF Page
    <2>4. guiQueue' \in Seq({"userChanged", "aiFailed"}) /\ awaited' \subseteq 1..MaxClicks
      BY <1>4 DEF LogInAgain
    <2> QED BY <2>1, <2>2, <2>3, <2>4
  <1>5. CASE ShowFailure
    <2>1. page' \in Page
      BY <1>0, <1>5, SetOnPage, FinishedFacts DEF ShowFailure
    <2>2. guiQueue' \in Seq({"userChanged", "aiFailed"})
      BY <1>0, <1>5 DEF ShowFailure
    <2> QED BY <1>0, <1>5, <2>1, <2>2 DEF ShowFailure
  <1>6. CASE ShowHistory
    <2>1. page' \in Page
      BY <1>0, <1>6, RefreshedFacts DEF ShowHistory
    <2>2. guiQueue' \in Seq({"userChanged", "aiFailed"})
      BY <1>0, <1>6 DEF ShowHistory
    <2> QED BY <1>0, <1>6, <2>1, <2>2 DEF ShowHistory
  <1>7. CASE LoadPush
    <2>1. Head(toClient) \in Reply \cup Payload
      BY <1>0, <1>7, TailFacts DEF LoadPush, WireOK
    <2>2. local' \in Payload
      BY <1>7, <2>1, MailKinds DEF LoadPush
    <2>3. guiQueue' \in Seq({"userChanged", "aiFailed"})
      BY <1>0, <1>7 DEF LoadPush
    <2> QED BY <1>0, <1>7, <2>2, <2>3 DEF LoadPush
  <1>8. CASE TakeReply
    <2>1. guiQueue' \in Seq({"userChanged", "aiFailed"})
      BY <1>0, <1>8 DEF TakeReply
    <2> QED BY <1>0, <1>8, <2>1 DEF TakeReply
  <1>9. CASE Timeout
    <2>1. guiQueue' \in Seq({"userChanged", "aiFailed"})
      BY <1>0, <1>9 DEF Timeout
    <2> QED BY <1>0, <1>9, <2>1 DEF Timeout
  <1>10. CASE UNCHANGED client
    BY <1>0, <1>10 DEF client
  <1>11. CASE ServeAsk \/ RefuseAsk \/ ServeCancel \/ ServeClear \/ MainStep \/ AiStep
              \/ Refresh \/ Backend
    BY <1>10, <1>11 DEF ServeAsk, RefuseAsk, ServeCancel, ServeClear, MainStep, AiStep,
                        Refresh, Backend
  <1>12. ASSUME NEW t \in Threads, ReadCredits(t) \/ ReadMessages(t) \/ PushSend(t)
         PROVE  UNCHANGED client
    BY <1>12 DEF ReadCredits, ReadMessages, PushSend
  <1> QED BY <1>1, <1>2, <1>3, <1>4, <1>5, <1>6, <1>7, <1>8, <1>9, <1>10, <1>11, <1>12
          DEF PageNext, tutorVars

LEMMA WireTypeStep ==
  ASSUME Inv, TypesOK, [PageNext]_tutorVars
  PROVE  WireOK'
  <1> USE DEF WireOK
  <1>0. ClientOK /\ WireOK /\ PushOK
    BY DEF TypesOK
  <1>1. CASE ClickSend \/ ClickStop \/ ClickClear
    <2>1. PICK cmd : SendRequest(cmd) /\ cmd # "logOut" /\ UNCHANGED toClient
      BY <1>1 DEF ClickSend, ClickStop, ClickClear
    <2> QED BY <1>0, <2>1, RequestFacts
  <1>2. CASE LogInAgain
    <2>1. PICK n \in 0..Len(toServer) : toServer' = SubSeq(toServer, 1, n)
      BY <1>2 DEF LogInAgain
    <2>2. toServer' \in Seq(Request)
      BY <1>0, <2>1, PrefixFacts
    <2> QED BY <1>2, <2>2 DEF LogInAgain
  <1>3. CASE LoadPush \/ TakeReply
    <2>1. Tail(toClient) \in Seq(Reply \cup Payload)
      BY <1>0, <1>3, TailFacts DEF LoadPush, TakeReply
    <2> QED BY <1>0, <1>3, <2>1 DEF LoadPush, TakeReply
  <1>4. ASSUME NEW cmd, Serving(cmd)
        PROVE  toServer' \in Seq(Request) /\ Head(toServer).click \in 1..MaxClicks
    <2>1. Head(toServer) \in Request /\ Tail(toServer) \in Seq(Request)
      BY <1>0, <1>4, TailFacts DEF Serving
    <2> QED BY <1>4, <2>1 DEF Serving, Request
  <1>5. ASSUME NEW click \in 1..MaxClicks, NEW ok \in BOOLEAN, Answered(click, ok)
        PROVE  toClient' \in Seq(Reply \cup Payload)
    <2>1. [click |-> click, ok |-> ok] \in Reply \cup Payload
      BY DEF Reply
    <2> QED BY <1>0, <1>5, <2>1, AppendFacts DEF Answered
  <1>6. CASE ServeAsk \/ ServeCancel \/ ServeClear
    BY <1>0, <1>4, <1>6 DEF ServeAsk, ServeCancel, ServeClear
  <1>7. CASE RefuseAsk
    BY <1>0, <1>4, <1>5, <1>7 DEF RefuseAsk
  <1>8. CASE MainStep
    <2>1. CASE SendQuestion /\ Answered(asking, linkUp)
      <3>1. linkUp \in BOOLEAN
        BY InvTypes DEF TypeOK
      <3>2. asking \in 1..MaxClicks
        BY <1>0, <2>1, TutorPageAssumption DEF SendQuestion, Asking, PushOK, NoClick
      <3> QED BY <1>0, <1>5, <1>8, <2>1, <3>1, <3>2 DEF MainStep
    <2> QED BY <1>0, <1>8, <2>1 DEF MainStep
  <1>9. ASSUME NEW t \in Threads, PushSend(t) PROVE WireOK'
    <2>1. payload[t] \in Seq(Payload) /\ payload[t] # <<>> /\ Len(payload[t]) <= 1
      BY <1>0, <1>9 DEF PushSend, PushOK
    <2>2. toClient' = Append(toClient, payload[t][1]) /\ payload[t][1] \in Payload
      BY <1>0, <1>9, <2>1, ConcatOne DEF PushSend
    <2>3. toClient' \in Seq(Reply \cup Payload)
      BY <1>0, <2>2, AppendFacts
    <2> QED BY <1>0, <1>9, <2>3 DEF PushSend
  <1>10. ASSUME NEW t \in Threads, ReadCredits(t) \/ ReadMessages(t) PROVE WireOK'
    BY <1>0, <1>10 DEF ReadCredits, ReadMessages
  <1>11. CASE ShowFailure \/ ShowHistory \/ Timeout \/ AiStep \/ Refresh \/ Backend
              \/ UNCHANGED tutorVars
    BY <1>0, <1>11 DEF ShowFailure, ShowHistory, Timeout, AiStep, Refresh, Backend, tutorVars
  <1> QED BY <1>1, <1>2, <1>3, <1>6, <1>7, <1>8, <1>9, <1>10, <1>11 DEF PageNext
(* A payload that is read: a copy of the tables in two steps. *)
LEMMA ReadFacts ==
  ASSUME Inv, TypesOK, NEW t \in Threads
  PROVE  /\ ReadCredits(t) =>
              /\ payload'[t] \in Seq(Payload) /\ Len(payload'[t]) = 1 /\ payload'[t] # <<>>
              /\ payload'[t][1].messages = <<>> /\ payload'[t][1].credits = credits[Me]
         /\ ReadMessages(t) =>
              /\ payload'[t] \in Seq(Payload) /\ Len(payload'[t]) = 1
              /\ payload'[t][1].messages = log[Me]
              /\ payload'[t][1].credits = payload[t][1].credits
  <1>0. PushOK
    BY DEF TypesOK
  <1>1. ASSUME ReadCredits(t)
        PROVE  /\ payload'[t] \in Seq(Payload) /\ Len(payload'[t]) = 1 /\ payload'[t] # <<>>
               /\ payload'[t][1].messages = <<>> /\ payload'[t][1].credits = credits[Me]
    <2> DEFINE m == [Here EXCEPT !.messages = <<>>]
    <2>1. Here \in Payload /\ Here.credits = credits[Me] /\ <<>> \in Seq(LocalEntry)
      BY HereType
    <2>2. m \in Payload /\ m.messages = <<>> /\ m.credits = credits[Me]
      BY <2>1 DEF Payload
    <2>3. payload'[t] = <<m>>
      BY <1>0, <1>1 DEF ReadCredits, PushOK
    <2> HIDE DEF m
    <2> QED BY <2>2, <2>3
  <1>2. ASSUME ReadMessages(t)
        PROVE  /\ payload'[t] \in Seq(Payload) /\ Len(payload'[t]) = 1
               /\ payload'[t][1].messages = log[Me]
               /\ payload'[t][1].credits = payload[t][1].credits
    <2> DEFINE p == payload[t]
               m == [p[1] EXCEPT !.messages = log[Me]]
    <2>1. p \in Seq(Payload) /\ p # <<>> /\ Len(p) <= 1
      BY <1>0, <1>2 DEF ReadMessages, PushOK
    <2>2. p[1] \in Payload /\ Len(p) = 1 /\ 1 \in 1..Len(p)
      BY <2>1, OneElement
    <2>3. m \in Payload /\ m.messages = log[Me] /\ m.credits = p[1].credits
      <3>1. log[Me] \in Seq(LocalEntry)
        BY InvTypes DEF Entry, LocalEntry
      <3> QED BY <2>2, <3>1 DEF Payload
    <2>4. payload'[t] = [p EXCEPT ![1] = m]
      BY <1>0, <1>2 DEF ReadMessages, PushOK
    <2> HIDE DEF m, p
    <2>5. payload'[t] \in Seq(Payload) /\ Len(payload'[t]) = Len(p) /\ payload'[t][1] = m
      BY <2>1, <2>2, <2>3, <2>4, ExceptSeq
    <2> QED BY <2>2, <2>3, <2>5 DEF p
  <1> QED BY <1>1, <1>2

(* The route of a question goes on, or the main thread is not asking. *)
LEMMA AskingStep ==
  ASSUME Inv, TypesOK, [PageNext]_tutorVars
  PROVE  asking' \in 0..MaxClicks /\ (Asking' => asking' # NoClick)
  <1>0. /\ WireOK /\ PushOK /\ main \in MainAt
        /\ asking \in 0..MaxClicks /\ (Asking => asking # NoClick)
    BY InvTypes DEF TypesOK, PushOK
  <1>1. CASE ServeAsk
    <2>1. Head(toServer) \in Request
      BY <1>0, <1>1, TailFacts DEF ServeAsk, Serving, WireOK
    <2>2. Head(toServer).click \in 1..MaxClicks
      BY <2>1 DEF Request
    <2> QED BY <1>1, <2>2, TutorPageAssumption DEF ServeAsk, NoClick
  <1>2. CASE ServeCancel
    BY <1>0, <1>2 DEF ServeCancel, Cancel, Asking
  <1>3. ASSUME main' = main, asking' = asking
        PROVE  asking' \in 0..MaxClicks /\ (Asking' => asking' # NoClick)
    BY <1>0, <1>3 DEF Asking
  <1>4. CASE ServeClear
    BY <1>3, <1>4 DEF ServeClear, ClearHistory
  <1>5. CASE MainStep
    <2>1. CASE (ResetFlag \/ ReplaceLast \/ AddCancelled) /\ asking' = asking
      BY <1>0, <2>1 DEF ResetFlag, ReplaceLast, AddCancelled, Asking, MainAt
    <2>2. CASE (StoreQuestion \/ SetFlag) /\ asking' = asking
      BY <1>0, <2>2 DEF StoreQuestion, SetFlag, Asking, MainAt, MainIdle
    <2>3. CASE SendQuestion /\ asking' = NoClick
      BY <2>3, TutorPageAssumption DEF SendQuestion, Asking, MainIdle, NoClick
    <2> QED BY <1>5, <2>1, <2>2, <2>3 DEF MainStep
  <1>6. CASE AiStep \/ Refresh \/ Backend
    BY <1>3, <1>6 DEF AiStep, Refresh, Backend, PassAnswer, DropAnswer, StoreAnswer, Write,
                      Answer, Fail, LinkUp, vars
  <1>7. CASE ClickSend \/ ClickStop \/ ClickClear \/ LogInAgain \/ ShowFailure \/ ShowHistory
             \/ LoadPush \/ TakeReply \/ Timeout \/ RefuseAsk \/ UNCHANGED tutorVars
    BY <1>3, <1>7 DEF ClickSend, ClickStop, ClickClear, LogInAgain, ShowFailure, ShowHistory,
                      LoadPush, TakeReply, Timeout, RefuseAsk, tutorVars, server, vars
  <1>8. ASSUME NEW t \in Threads, ReadCredits(t) \/ ReadMessages(t) \/ PushSend(t)
        PROVE  main' = main /\ asking' = asking
    BY <1>8 DEF ReadCredits, ReadMessages, PushSend, vars
  <1> QED BY <1>1, <1>2, <1>3, <1>4, <1>5, <1>6, <1>7, <1>8 DEF PageNext

LEMMA PushTypeStep ==
  ASSUME Inv, TypesOK, [PageNext]_tutorVars
  PROVE  PushOK'
  <1>0. WireOK /\ PushOK
    BY DEF TypesOK
  <1> DEFINE Pushing ==
        /\ push \in [Threads -> {"nothing", "all", "messages"}]
        /\ payload \in [Threads -> Seq(Payload)]
        /\ \A t \in Threads : Len(payload[t]) <= 1 /\ (push[t] = "messages" => payload[t] # <<>>)
  <1>1. Pushing
    BY <1>0 DEF PushOK
  <1>2. spared \in SUBSET Question
    BY <1>0 DEF PushOK
  <1>3. ASSUME UNCHANGED <<push, payload>> PROVE Pushing'
    BY <1>1, <1>3
  <1>4. ASSUME NEW t \in Threads, Pushes(t), payload' = payload PROVE Pushing'
    <2>1. "all" \in {"nothing", "all", "messages"} /\ "all" # "messages"
      OBVIOUS
    <2> QED BY <1>1, <1>4, <2>1 DEF Pushes
  <1>5. ASSUME NEW t \in Threads, ReadCredits(t) PROVE Pushing'
    <2>1. payload'[t] \in Seq(Payload) /\ Len(payload'[t]) = 1 /\ payload'[t] # <<>>
      BY <1>0, <1>5, ReadFacts
    <2>2. payload' \in [Threads -> Seq(Payload)]
      BY <1>1, <1>5, <2>1 DEF ReadCredits
    <2>3. /\ push' \in [Threads -> {"nothing", "all", "messages"}] /\ push'[t] = "messages"
          /\ \A u \in Threads \ {t} : push'[u] = push[u] /\ payload'[u] = payload[u]
      BY <1>1, <1>5 DEF ReadCredits
    <2>4. ASSUME NEW u \in Threads
          PROVE  Len(payload'[u]) <= 1 /\ (push'[u] = "messages" => payload'[u] # <<>>)
      <3>1. CASE u = t
        <4>1. Len(payload'[t]) <= 1
          BY <2>1
        <4>2. push'[t] = "messages" => payload'[t] # <<>>
          BY <2>1, <2>3
        <4> QED BY <3>1, <4>1, <4>2
      <3>2. CASE u # t
        BY <1>1, <2>3, <3>2
      <3> QED BY <3>1, <3>2
    <2> QED BY <2>2, <2>3, <2>4
  <1>6. ASSUME NEW t \in Threads, ReadMessages(t) PROVE Pushing'
    <2>1. payload'[t] \in Seq(Payload) /\ Len(payload'[t]) = 1
      BY <1>0, <1>6, ReadFacts
    <2>2. payload' \in [Threads -> Seq(Payload)]
      BY <1>1, <1>6, <2>1 DEF ReadMessages
    <2>3. /\ push' \in [Threads -> {"nothing", "all", "messages"}] /\ push'[t] = "nothing"
          /\ \A u \in Threads \ {t} : push'[u] = push[u] /\ payload'[u] = payload[u]
      BY <1>1, <1>6 DEF ReadMessages
    <2>4. ASSUME NEW u \in Threads
          PROVE  Len(payload'[u]) <= 1 /\ (push'[u] = "messages" => payload'[u] # <<>>)
      <3>1. CASE u = t
        <4>1. Len(payload'[t]) <= 1
          BY <2>1
        <4>2. push'[t] = "messages" => payload'[t] # <<>>
          BY <2>1, <2>3
        <4> QED BY <3>1, <4>1, <4>2
      <3>2. CASE u # t
        BY <1>1, <2>3, <3>2
      <3> QED BY <3>1, <3>2
    <2> QED BY <2>2, <2>3, <2>4
  <1>7. ASSUME NEW t \in Threads, PushSend(t) PROVE Pushing'
    <2>1. <<>> \in Seq(Payload) /\ Len(<<>>) <= 1
      OBVIOUS
    <2> QED BY <1>1, <1>7, <2>1 DEF PushSend
  <1>8. CASE LogInAgain
    <2>1. <<>> \in Seq(Payload) /\ Len(<<>>) <= 1
      OBVIOUS
    <2>2. Pushing'
      BY <1>1, <1>8, <2>1 DEF LogInAgain
    <2> QED BY <1>8, <1>2, <2>2, AskingStep DEF LogInAgain, PushOK
  <1>9. CASE ServeCancel
    <2>1. Head(toServer) \in Request
      BY <1>0, <1>9, TailFacts DEF ServeCancel, Serving, WireOK
    <2>2. spared' \subseteq Question
      BY <1>9, <2>1 DEF ServeCancel, Request
    <2> QED BY <1>3, <1>9, <2>2, AskingStep DEF ServeCancel, PushOK
  <1> HIDE DEF Pushing
  <1>10. ASSUME Pushing', spared' = spared PROVE PushOK'
    BY <1>2, <1>10, AskingStep DEF Pushing, PushOK
  <1>11. "main" \in Threads /\ "ai" \in Threads
    BY DEF Threads
  <1>12. CASE ServeClear \/ Refresh
    BY <1>4, <1>10, <1>11, <1>12 DEF ServeClear, Refresh
  <1>13. CASE MainStep
    BY <1>3, <1>4, <1>10, <1>11, <1>13 DEF MainStep
  <1>14. CASE AiStep
    BY <1>3, <1>4, <1>10, <1>11, <1>14 DEF AiStep
  <1>15. ASSUME NEW t \in Threads, ReadCredits(t) \/ ReadMessages(t) \/ PushSend(t)
         PROVE  PushOK'
    BY <1>5, <1>6, <1>7, <1>10, <1>15 DEF ReadCredits, ReadMessages, PushSend
  <1>16. CASE ClickSend \/ ClickStop \/ ClickClear \/ ShowFailure \/ ShowHistory \/ LoadPush
              \/ TakeReply \/ Timeout \/ ServeAsk \/ RefuseAsk \/ Backend \/ UNCHANGED tutorVars
    BY <1>3, <1>10, <1>16
       DEF ClickSend, ClickStop, ClickClear, ShowFailure, ShowHistory, LoadPush, TakeReply,
           Timeout, ServeAsk, RefuseAsk, Backend, tutorVars, server
  <1> QED BY <1>8, <1>9, <1>12, <1>13, <1>14, <1>15, <1>16 DEF PageNext

LEMMA PageTypeStep ==
  ASSUME Inv, TypesOK, [PageNext]_tutorVars
  PROVE  TypesOK'
  BY ClientTypeStep, WireTypeStep, PushTypeStep DEF TypesOK
----------------------------------------------------------------------------
(* What a step keeps of an answer that is over *)

Kept(q) ==
  /\ Over(q)'
  /\ Sinking(q) => Sinking(q)'
  /\ credits[Me] > 0 => credits'[Me] > 0 \/ Sinking(q)'

LEMMA KeptStep ==
  ASSUME Inv, [PageNext]_tutorVars, NEW q, Over(q)
  PROVE  Kept(q)
  <1>1. Over(q)'
    BY ServerInvStep, OverStays
  <1>2. CASE UNCHANGED vars
    <2>1. Sinking(q) => Sinking(q)'
      BY <1>2 DEF vars, data, Sinking, Buried, Last
    <2> QED BY <1>1, <1>2, <2>1 DEF Kept, vars, data
  <1>3. CASE ServerStep
    <2>1. Sinking(q) => Sinking(q)'
      BY <1>3, SinkingStays
    <2>2. CASE Ask(Me)
      BY <1>1, <2>1, <2>2 DEF Kept, Ask, Sinking
    <2>3. CASE ~Ask(Me)
      <3>1. credits' = credits
        BY <1>3, <2>3 DEF ServerStep, Cancel, ClearHistory, ResetFlag, StoreQuestion,
                          SendQuestion, ReplaceLast, AddCancelled, SetFlag, DropAnswer,
                          PassAnswer, StoreAnswer, Write, Answer, Fail, LinkUp, data
      <3> QED BY <1>1, <2>1, <3>1 DEF Kept
    <2> QED BY <2>2, <2>3
  <1> QED BY <1>2, <1>3, StepOfServer

(* As long as the first n requests stay where they are, *)
LEMMA SafePrefix ==
  ASSUME NEW q, Kept(q), NEW n, SafeBehind(q, n),
         \A i \in 1..n : toServer'[i].cmd = toServer[i].cmd
  PROVE  SafeBehind(q, n)'
  BY DEF Kept, SafeBehind

(* and when the first of them is served, unless it is the question. *)
LEMMA SafeServed ==
  ASSUME TypesOK, NEW q, Kept(q), NEW n \in 0..Len(toServer), SafeBehind(q, n), NEW cmd,
         Serving(cmd), cmd # "askAi" \/ credits[Me] = 0 \/ Sinking(q)'
  PROVE  SafeBehind(q, n - 1)'
  <1>1. CASE Sinking(q) \/ Sinking(q)'
    BY <1>1 DEF Kept, SafeBehind
  <1>2. CASE ~Sinking(q) /\ ~Sinking(q)'
    <2>1. /\ toServer \in Seq(Request) /\ toServer # <<>> /\ toServer' = Tail(toServer)
          /\ Head(toServer).cmd = cmd
      BY DEF TypesOK, WireOK, Serving
    <2>2. credits[Me] > 0 /\ credits'[Me] > 0 /\ \E i \in 1..n : toServer[i].cmd = "askAi"
      BY <1>2 DEF SafeBehind, Kept
    <2>3. PICK i \in 1..n : toServer[i].cmd = "askAi"
      BY <2>2
    <2>4. Head(toServer) = toServer[1] /\ Len(toServer') = Len(toServer) - 1
          /\ \A k \in 1..Len(toServer) - 1 : toServer'[k] = toServer[k + 1]
      BY <2>1
    <2>5. cmd # "askAi"
      BY <1>2, <2>2
    <2>6. i # 1
      BY <2>1, <2>3, <2>4, <2>5
    <2>7. i - 1 \in 1..n - 1 /\ i - 1 \in 1..Len(toServer) - 1 /\ i - 1 + 1 = i
      BY <2>1, <2>3, <2>6
    <2>8. toServer'[i - 1].cmd = "askAi"
      BY <2>3, <2>4, <2>7
    <2> QED BY <2>2, <2>7, <2>8 DEF SafeBehind
  <1> QED BY <1>1, <1>2

(* The requests under way, by the actions that change them. *)
LEMMA RequestsStep ==
  ASSUME TypesOK, [PageNext]_tutorVars
  PROVE  \/ LogInAgain
         \/ UNCHANGED toServer
         \/ ClickSend \/ ClickStop \/ ClickClear
         \/ ServeAsk \/ RefuseAsk \/ ServeCancel \/ ServeClear
  <1>1. CASE ShowFailure \/ ShowHistory \/ LoadPush \/ TakeReply \/ Timeout \/ MainStep
             \/ AiStep \/ Refresh \/ Backend \/ UNCHANGED tutorVars
    BY <1>1 DEF ShowFailure, ShowHistory, LoadPush, TakeReply, Timeout, MainStep, AiStep,
                Refresh, Backend, tutorVars
  <1>2. ASSUME NEW t \in Threads, ReadCredits(t) \/ ReadMessages(t) \/ PushSend(t)
        PROVE  UNCHANGED toServer
    BY <1>2 DEF ReadCredits, ReadMessages, PushSend
  <1> QED BY <1>1, <1>2 DEF PageNext

(* A click leaves the requests before it where they are. *)
LEMMA ClickAppends ==
  ASSUME TypesOK, NEW cmd, SendRequest(cmd), cmd # "logOut"
  PROVE  LET n == Len(toServer) IN
         /\ n \in Nat /\ Len(toServer') = n + 1 /\ DOMAIN toServer' = 1..n + 1
         /\ \A i \in 1..n : toServer'[i] = toServer[i]
         /\ toServer'[n + 1].cmd = cmd
         /\ toServer'[n + 1].shown = IF cmd = "cancelAi" THEN page.shown ELSE {}
  <1> DEFINE shown == IF cmd = "cancelAi" THEN page.shown ELSE {}
             r == [cmd |-> cmd, click |-> clicks + 1, shown |-> shown]
  <1>1. toServer \in Seq(Request) /\ r \in Request /\ toServer' = Append(toServer, r)
    BY RequestFacts DEF TypesOK, WireOK
  <1>2. r.cmd = cmd /\ r.shown = shown
    OBVIOUS
  <1> HIDE DEF r
  <1>3. /\ Len(toServer') = Len(toServer) + 1 /\ toServer'[Len(toServer) + 1] = r
        /\ Len(toServer) \in Nat /\ DOMAIN toServer = 1..Len(toServer)
        /\ \A i \in DOMAIN toServer : toServer'[i] = toServer[i]
        /\ toServer' \in Seq(Request)
    BY <1>1, AppendFacts
  <1> QED BY <1>2, <1>3

Keeping ==
  \A q : Over(q) /\ SafeBehind(q, Len(toServer)) => SafeBehind(q, Len(toServer))'

LEMMA KeepingStep ==
  ASSUME Inv, TypesOK, [PageNext]_tutorVars
  PROVE  LogInAgain \/ Keeping
  <1>0. toServer \in Seq(Request) /\ Len(toServer) \in Nat
    BY DEF TypesOK, WireOK
  <1>1. SUFFICES ASSUME ~LogInAgain, NEW q, Over(q), SafeBehind(q, Len(toServer))
                 PROVE  SafeBehind(q, Len(toServer))'
    BY DEF Keeping
  <1>2. Kept(q)
    BY <1>1, KeptStep
  <1>3. CASE UNCHANGED toServer
    BY <1>1, <1>2, <1>3 DEF Kept, SafeBehind
  <1>4. CASE ClickSend \/ ClickStop \/ ClickClear
    <2>1. PICK cmd : SendRequest(cmd) /\ cmd # "logOut"
      BY <1>4 DEF ClickSend, ClickStop, ClickClear
    <2>2. /\ \A i \in 1..Len(toServer) : toServer'[i].cmd = toServer[i].cmd
          /\ Len(toServer') = Len(toServer) + 1
      BY <2>1, ClickAppends
    <2>3. CASE Sinking(q)
      BY <1>2, <2>3 DEF Kept, SafeBehind
    <2>4. CASE ~Sinking(q)
      <3>1. (credits'[Me] > 0 \/ Sinking(q)')
        BY <1>1, <1>2, <2>4 DEF Kept, SafeBehind
      <3>2. PICK i \in 1..Len(toServer) : toServer[i].cmd = "askAi"
        BY <1>1, <2>4 DEF SafeBehind
      <3>3. i \in 1..Len(toServer') /\ toServer'[i].cmd = "askAi"
        BY <1>0, <2>2, <3>2
      <3> QED BY <3>1, <3>3 DEF SafeBehind
    <2> QED BY <2>3, <2>4
  <1>5. ASSUME NEW cmd, Serving(cmd), cmd # "askAi" \/ credits[Me] = 0 \/ Sinking(q)'
        PROVE  SafeBehind(q, Len(toServer))'
    <2>1. Len(toServer') = Len(toServer) - 1
      BY <1>0, <1>5 DEF Serving
    <2>2. Len(toServer) \in 0..Len(toServer)
      BY <1>0
    <2>3. \A n \in 0..Len(toServer) : SafeBehind(q, n) =>
             Sinking(q)' \/ (credits'[Me] > 0 /\ \E i \in 1..n - 1 : toServer'[i].cmd = "askAi")
      BY <1>2, <1>5, SafeServed DEF SafeBehind
    <2>4. Sinking(q)' \/ (credits'[Me] > 0 /\ \E i \in 1..Len(toServer) - 1 :
                                                  toServer'[i].cmd = "askAi")
      BY <1>1, <2>2, <2>3
    <2> QED BY <2>1, <2>4 DEF SafeBehind
  <1>6. CASE ServeAsk
    <2>1. Sinking(q)'
      BY <1>6 DEF ServeAsk, Ask, Sinking
    <2> QED BY <2>1 DEF SafeBehind
  <1>7. CASE RefuseAsk
    BY <1>5, <1>7 DEF RefuseAsk
  <1>8. CASE ServeCancel \/ ServeClear
    BY <1>5, <1>8 DEF ServeCancel, ServeClear
  <1> QED BY <1>1, <1>3, <1>4, <1>6, <1>7, <1>8, RequestsStep
----------------------------------------------------------------------------
(* Copies: kept, read anew, or with a question added *)

LEMMA CopyKept ==
  ASSUME Inv, [PageNext]_tutorVars, Keeping, NEW l, CopyFits(l)
  PROVE  CopyFits(l)'
  <1>1. ASSUME NEW q \in Answers(l.messages)
        PROVE  /\ Over(q)'
               /\ l.credits > 0 => Sinking(q)' \/ credits'[Me] > 0
               /\ EndsInAnswer(l.messages) \/ SafeBehind(q, Len(toServer))'
    <2>1. Over(q)
      BY DEF CopyFits
    <2>2. Kept(q)
      BY <2>1, KeptStep
    <2>3. l.credits > 0 => Sinking(q) \/ credits[Me] > 0
      BY DEF CopyFits
    <2>4. EndsInAnswer(l.messages) \/ SafeBehind(q, Len(toServer))
      BY DEF CopyFits
    <2> QED BY <2>1, <2>2, <2>3, <2>4 DEF Kept, Keeping
  <1> QED BY <1>1 DEF CopyFits

LEMMA AskedFits ==
  ASSUME Inv, TypesOK, CopyFits(local), ClickSend
  PROVE  /\ CopyFits(local)'
         /\ \A q \in Answers(local'.messages) : Over(q)' /\ SafeBehind(q, Len(toServer))'
  <1>1. /\ Answers(local'.messages) = Answers(local.messages)
        /\ local'.credits \in Nat /\ local.credits \in Nat /\ local'.credits < local.credits
    <2>1. local \in Payload /\ local.credits > 0 /\ local' = Asked(local)
      BY DEF ClickSend, TypesOK, ClientOK
    <2>2. local' \in Payload
      BY <2>1, AskedFacts
    <2> QED BY <2>1, <2>2, AskedFacts, AnswersType, CreditsAssumption
  <1>2. ASSUME NEW q \in Answers(local.messages)
        PROVE  /\ Over(q)' /\ (Sinking(q)' \/ credits'[Me] > 0)
               /\ SafeBehind(q, Len(toServer))'
    <2>1. Over(q) /\ (Sinking(q) \/ credits[Me] > 0)
      <3>1. local.credits > 0
        BY DEF ClickSend
      <3> QED BY <3>1 DEF CopyFits
    <2>2. Kept(q)
      BY <2>1, KeptStep DEF PageNext
    <2>3. Sinking(q)' \/ credits'[Me] > 0
      BY <2>1, <2>2 DEF Kept
    <2>4. \E i \in 1..Len(toServer') : toServer'[i].cmd = "askAi"
      <3>1. SendRequest("askAi") /\ "askAi" # "logOut"
        BY DEF ClickSend
      <3>2. /\ Len(toServer) \in Nat /\ Len(toServer') = Len(toServer) + 1
            /\ toServer'[Len(toServer) + 1].cmd = "askAi"
        BY <3>1, ClickAppends
      <3>3. Len(toServer) + 1 \in 1..Len(toServer')
        BY <3>2
      <3> QED BY <3>2, <3>3
    <2> QED BY <2>2, <2>3, <2>4 DEF Kept, SafeBehind
  <1> QED BY <1>1, <1>2 DEF CopyFits

(* What reaches the client was sent before, is a reply, or is a payload that
   was read. *)
LEMMA MailStep ==
  ASSUME Inv, TypesOK, [PageNext]_tutorVars, NEW i \in DOMAIN toClient', ~IsReply(toClient'[i])
  PROVE  \/ \E j \in DOMAIN toClient : toClient'[i] = toClient[j]
         \/ \E t \in Threads : payload[t] # <<>> /\ toClient'[i] = payload[t][1]
  <1>0. toClient \in Seq(Reply \cup Payload) /\ PushOK
    BY DEF TypesOK, WireOK
  <1>1. CASE UNCHANGED toClient
    BY <1>1
  <1>2. CASE LoadPush \/ TakeReply
    <2>1. toClient # <<>> /\ toClient' = Tail(toClient)
      BY <1>2 DEF LoadPush, TakeReply
    <2> QED BY <1>0, <2>1, TailFacts
  <1>3. ASSUME NEW click, NEW ok, Answered(click, ok), click \in 1..MaxClicks, ok \in BOOLEAN
        PROVE  \E j \in DOMAIN toClient : toClient'[i] = toClient[j]
    <2> DEFINE m == [click |-> click, ok |-> ok]
    <2>1. m \in Reply
      BY <1>3 DEF Reply
    <2>2. IsReply(m)
      BY <2>1, MailKinds
    <2>3. toClient' = Append(toClient, m) /\ m \in Reply \cup Payload
      BY <1>3, <2>1 DEF Answered
    <2> HIDE DEF m
    <2>4. toClient'[i] = m \/ (i \in DOMAIN toClient /\ toClient'[i] = toClient[i])
      BY <1>0, <2>3, AppendFacts
    <2> QED BY <2>2, <2>4
  <1>4. CASE RefuseAsk
    <2>1. Head(toServer) \in Request
      BY <1>4, TailFacts DEF RefuseAsk, Serving, TypesOK, WireOK
    <2>2. Head(toServer).click \in 1..MaxClicks
      BY <2>1 DEF Request
    <2> QED BY <1>3, <1>4, <2>2 DEF RefuseAsk
  <1>5. CASE MainStep /\ SendQuestion /\ Answered(asking, linkUp)
    <2>1. linkUp \in BOOLEAN
      BY InvTypes DEF TypeOK
    <2>2. asking \in 1..MaxClicks
      BY <1>0, <1>5, TutorPageAssumption DEF SendQuestion, Asking, PushOK, NoClick
    <2> QED BY <1>3, <1>5, <2>1, <2>2
  <1>6. ASSUME NEW t \in Threads, PushSend(t)
        PROVE  \/ \E j \in DOMAIN toClient : toClient'[i] = toClient[j]
               \/ payload[t] # <<>> /\ toClient'[i] = payload[t][1]
    <2>1. payload[t] \in Seq(Payload) /\ payload[t] # <<>> /\ Len(payload[t]) <= 1
      BY <1>0, <1>6 DEF PushSend, PushOK
    <2>2. toClient' = Append(toClient, payload[t][1]) /\ payload[t][1] \in Reply \cup Payload
      BY <1>0, <1>6, <2>1, ConcatOne DEF PushSend
    <2>3. \/ toClient'[i] = payload[t][1]
          \/ i \in DOMAIN toClient /\ toClient'[i] = toClient[i]
      BY <1>0, <2>2, AppendFacts
    <2> QED BY <2>1, <2>3
  <1>7. CASE LogInAgain
    BY <1>7 DEF LogInAgain
  <1>8. CASE MainStep /\ UNCHANGED toClient
    BY <1>1, <1>8
  <1>9. MainStep => UNCHANGED toClient \/ (SendQuestion /\ Answered(asking, linkUp))
    BY DEF MainStep
  <1>10. CASE ClickSend \/ ClickStop \/ ClickClear \/ ShowFailure \/ ShowHistory \/ Timeout
              \/ ServeAsk \/ ServeCancel \/ ServeClear \/ AiStep \/ Refresh \/ Backend
              \/ UNCHANGED tutorVars
    BY <1>1, <1>10 DEF ClickSend, ClickStop, ClickClear, ShowFailure, ShowHistory, Timeout,
         ServeAsk, ServeCancel, ServeClear, AiStep, Refresh, Backend, tutorVars
  <1>11. ASSUME NEW t \in Threads, ReadCredits(t) \/ ReadMessages(t) PROVE UNCHANGED toClient
    BY <1>11 DEF ReadCredits, ReadMessages
  <1> QED BY <1>1, <1>2, <1>4, <1>5, <1>6, <1>7, <1>8, <1>9, <1>10, <1>11 DEF PageNext
LEMMA ReadFits ==
  ASSUME Inv, TypesOK, CopiesFit, HalfRead, [PageNext]_tutorVars, Keeping,
         NEW t \in Threads, ReadCredits(t) \/ ReadMessages(t)
  PROVE  CopyFits(payload[t][1])'
  <1>1. CASE ReadCredits(t)
    <2>1. payload'[t][1].messages = <<>>
      BY <1>1, ReadFacts
    <2> QED BY <2>1, NoAnswers DEF CopyFits
  <1>2. CASE ReadMessages(t)
    <2>1. /\ payload'[t][1].messages = log[Me]
          /\ payload'[t][1].credits = payload[t][1].credits
      BY <1>2, ReadFacts
    <2>2. ASSUME NEW q \in Answers(log[Me])
          PROVE  /\ Over(q)'
                 /\ payload[t][1].credits > 0 => Sinking(q)' \/ credits'[Me] > 0
                 /\ EndsInAnswer(log[Me]) \/ SafeBehind(q, Len(toServer))'
      <3>1. Over(q) /\ q \in AnswersOf(Me)
        BY AnswersLogged
      <3>2. Kept(q)
        BY <3>1, KeptStep
      <3>3. payload[t][1].credits > 0 => Sinking(q) \/ credits[Me] > 0
        BY <1>2, <3>1 DEF HalfRead, ReadMessages
      <3>4. EndsInAnswer(log[Me]) \/ Sinking(q)
        BY <3>1, AnswersLogged DEF Over, Sinking
      <3> QED BY <3>2, <3>3, <3>4 DEF Kept, SafeBehind
    <2> QED BY <2>1, <2>2 DEF CopyFits
  <1> QED BY <1>1, <1>2

LEMMA CopiesStep ==
  ASSUME Inv, TypesOK, CopiesFit, HalfRead, [PageNext]_tutorVars
  PROVE  CopiesFit'
  <1>1. CASE LogInAgain
    <2>1. /\ local'.messages = log[Me] /\ local'.credits = credits[Me] /\ credits' = credits
          /\ toClient' = <<>> /\ \A t \in Threads : payload'[t] = <<>>
      BY <1>1, HereType DEF LogInAgain, vars, data
    <2>2. ASSUME NEW q \in Answers(log[Me])
          PROVE  Over(q)' /\ (EndsInAnswer(log[Me]) \/ SafeBehind(q, Len(toServer))')
      <3>1. Over(q) /\ (EndsInAnswer(log[Me]) \/ Sinking(q))
        BY AnswersLogged DEF Over, Sinking
      <3>2. Kept(q)
        BY <3>1, KeptStep
      <3> QED BY <3>1, <3>2 DEF Kept, SafeBehind
    <2>3. CopyFits(local)'
      BY <2>1, <2>2 DEF CopyFits
    <2> QED BY <2>1, <2>3 DEF CopiesFit
  <1>2. CASE ~LogInAgain
    <2>1. Keeping
      BY <1>2, KeepingStep
    <2>2. ASSUME NEW l, CopyFits(l) PROVE CopyFits(l)'
      BY <2>1, <2>2, CopyKept
    <2>3. CopyFits(local)'
      <3>1. CASE local' = local
        BY <2>2, <3>1 DEF CopiesFit, CopyFits
      <3>2. CASE ClickSend
        BY <3>2, AskedFits DEF CopiesFit
      <3>3. CASE LoadPush
        <4>1. Head(toClient) = toClient[1] /\ 1 \in DOMAIN toClient
          BY <3>3, TailFacts DEF LoadPush, TypesOK, WireOK
        <4>2. CopyFits(Head(toClient))
          BY <3>3, <4>1 DEF LoadPush, CopiesFit
        <4> QED BY <2>2, <3>3, <4>2 DEF LoadPush, CopyFits
      <3>4. CASE ClickStop \/ ClickClear \/ ShowFailure \/ ShowHistory \/ TakeReply \/ Timeout
        BY <3>1, <3>4 DEF ClickStop, ClickClear, ShowFailure, ShowHistory, TakeReply, Timeout
      <3>5. CASE ServeAsk \/ RefuseAsk \/ ServeCancel \/ ServeClear \/ MainStep \/ AiStep
                 \/ Refresh \/ Backend \/ UNCHANGED tutorVars
        BY <3>1, <3>5 DEF ServeAsk, RefuseAsk, ServeCancel, ServeClear, MainStep, AiStep,
                          Refresh, Backend, tutorVars, client
      <3>6. ASSUME NEW t \in Threads, ReadCredits(t) \/ ReadMessages(t) \/ PushSend(t)
            PROVE  local' = local
        BY <3>6 DEF ReadCredits, ReadMessages, PushSend, client
      <3> QED BY <1>2, <3>1, <3>2, <3>3, <3>4, <3>5, <3>6 DEF PageNext
    <2>4. ASSUME NEW i \in DOMAIN toClient', ~IsReply(toClient'[i])
          PROVE  CopyFits(toClient[i])'
      <3>1. CASE \E j \in DOMAIN toClient : toClient'[i] = toClient[j]
        <4>1. PICK j \in DOMAIN toClient : toClient'[i] = toClient[j]
          BY <3>1
        <4>2. CopyFits(toClient[j])
          BY <2>4, <4>1 DEF CopiesFit
        <4> QED BY <2>2, <4>1, <4>2 DEF CopyFits
      <3>2. CASE \E t \in Threads : payload[t] # <<>> /\ toClient'[i] = payload[t][1]
        <4>1. PICK t \in Threads : payload[t] # <<>> /\ toClient'[i] = payload[t][1]
          BY <3>2
        <4>2. CopyFits(payload[t][1])
          BY <4>1 DEF CopiesFit
        <4> QED BY <2>2, <4>1, <4>2 DEF CopyFits
      <3> QED BY <2>4, <3>1, <3>2, MailStep
    <2>5. ASSUME NEW t \in Threads, payload'[t] # <<>>
          PROVE  CopyFits(payload[t][1])'
      <3>1. CASE payload'[t] = payload[t]
        <4>1. CopyFits(payload[t][1])
          BY <2>5, <3>1 DEF CopiesFit
        <4> QED BY <2>2, <3>1, <4>1 DEF CopyFits
      <3>2. CASE ReadCredits(t) \/ ReadMessages(t)
        BY <2>1, <3>2, ReadFits
      <3>3. CASE PushSend(t)
        BY <2>5, <3>3 DEF PushSend, TypesOK, PushOK
      <3>4. ASSUME NEW u \in Threads, ReadCredits(u) \/ ReadMessages(u) \/ PushSend(u), u # t
            PROVE  payload'[t] = payload[t]
        BY <3>4 DEF ReadCredits, ReadMessages, PushSend, TypesOK, PushOK
      <3>5. CASE ClickSend \/ ClickStop \/ ClickClear \/ ShowFailure \/ ShowHistory \/ LoadPush
                 \/ TakeReply \/ Timeout \/ UNCHANGED tutorVars
        BY <3>1, <3>5 DEF ClickSend, ClickStop, ClickClear, ShowFailure, ShowHistory, LoadPush,
                          TakeReply, Timeout, tutorVars, server
      <3>6. CASE ServeAsk \/ RefuseAsk \/ ServeCancel \/ ServeClear \/ MainStep \/ AiStep
                 \/ Refresh \/ Backend
        BY <3>1, <3>6 DEF ServeAsk, RefuseAsk, ServeCancel, ServeClear, MainStep, AiStep,
                          Refresh, Backend
      <3> QED BY <1>2, <3>1, <3>2, <3>3, <3>4, <3>5, <3>6 DEF PageNext
    <2> QED BY <2>3, <2>4, <2>5 DEF CopiesFit
  <1> QED BY <1>1, <1>2
----------------------------------------------------------------------------
(* A payload half read: its thread does nothing else meanwhile *)

LEMMA OtherThread ==
  ASSUME [PageNext]_tutorVars
  PROVE  /\ Free("main") \/ UNCHANGED <<credits, main>>
         /\ Free("ai") \/ UNCHANGED ai
  <1>1. CASE ClickSend \/ ClickStop \/ ClickClear \/ LogInAgain \/ ShowFailure \/ ShowHistory
             \/ LoadPush \/ TakeReply \/ Timeout \/ RefuseAsk \/ Refresh \/ UNCHANGED tutorVars
    BY <1>1 DEF ClickSend, ClickStop, ClickClear, LogInAgain, ShowFailure, ShowHistory, LoadPush,
                TakeReply, Timeout, RefuseAsk, Refresh, tutorVars, server, vars, data
  <1>2. CASE ServeAsk \/ ServeCancel \/ ServeClear
    BY <1>2 DEF ServeAsk, ServeCancel, ServeClear, Serving, Ask, Cancel, ClearHistory
  <1>3. CASE MainStep
    BY <1>3 DEF MainStep, ResetFlag, StoreQuestion, SendQuestion, ReplaceLast, AddCancelled,
                SetFlag
  <1>4. CASE AiStep
    BY <1>4 DEF AiStep, PassAnswer, DropAnswer, StoreAnswer, data
  <1>5. CASE Backend
    BY <1>5 DEF Backend, Write, Answer, Fail, LinkUp, data
  <1>6. ASSUME NEW t \in Threads, ReadCredits(t) \/ ReadMessages(t) \/ PushSend(t)
        PROVE  UNCHANGED vars
    BY <1>6 DEF ReadCredits, ReadMessages, PushSend
  <1> QED BY <1>1, <1>2, <1>3, <1>4, <1>5, <1>6 DEF PageNext, vars, data

(* The state of a push, by the actions that change it. *)
LEMMA ReadingStep ==
  ASSUME TypesOK, [PageNext]_tutorVars, NEW t \in Threads, push'[t] = "messages"
  PROVE  ReadCredits(t) \/ (push[t] = "messages" /\ payload'[t] = payload[t])
  <1>0. PushOK
    BY DEF TypesOK
  <1>1. CASE LogInAgain
    BY <1>1 DEF LogInAgain
  <1>2. ASSUME NEW u \in Threads, Pushes(u) \/ UNCHANGED push, UNCHANGED payload
        PROVE  push[t] = "messages" /\ payload'[t] = payload[t]
    BY <1>0, <1>2 DEF Pushes, PushOK
  <1>3. ASSUME NEW u \in Threads, ReadCredits(u) \/ ReadMessages(u) \/ PushSend(u)
        PROVE  ReadCredits(t) \/ (push[t] = "messages" /\ payload'[t] = payload[t])
    <2>1. CASE u = t
      BY <1>0, <1>3, <2>1 DEF ReadMessages, PushSend, PushOK
    <2>2. CASE u # t
      BY <1>0, <1>3, <2>2 DEF ReadCredits, ReadMessages, PushSend, PushOK
    <2> QED BY <2>1, <2>2
  <1>4. "main" \in Threads /\ "ai" \in Threads
    BY DEF Threads
  <1>5. CASE ClickSend \/ ClickStop \/ ClickClear \/ ShowFailure \/ ShowHistory \/ LoadPush
             \/ TakeReply \/ Timeout \/ UNCHANGED tutorVars
    BY <1>2, <1>4, <1>5 DEF ClickSend, ClickStop, ClickClear, ShowFailure, ShowHistory, LoadPush,
                            TakeReply, Timeout, tutorVars, server
  <1>6. CASE ServeAsk \/ RefuseAsk \/ ServeCancel \/ ServeClear \/ MainStep \/ AiStep \/ Refresh
             \/ Backend
    BY <1>2, <1>4, <1>6 DEF ServeAsk, RefuseAsk, ServeCancel, ServeClear, MainStep, AiStep,
                            Refresh, Backend
  <1> QED BY <1>1, <1>3, <1>5, <1>6 DEF PageNext

LEMMA HalfReadStep ==
  ASSUME Inv, TypesOK, HalfRead, [PageNext]_tutorVars
  PROVE  HalfRead'
  <1>1. SUFFICES ASSUME NEW t \in Threads, push'[t] = "messages"
                 PROVE  /\ payload'[t][1].messages = <<>>
                        /\ payload'[t][1].credits > 0 =>
                              \/ credits'[Me] > 0
                              \/ t = "ai" /\ \A q \in AnswersOf(Me)' : Sinking(q)'
    BY DEF HalfRead
  <1>2. CASE ReadCredits(t)
    <2>1. /\ payload'[t][1].messages = <<>> /\ payload'[t][1].credits = credits[Me]
          /\ credits' = credits
      BY <1>2, ReadFacts DEF ReadCredits, vars, data
    <2> QED BY <2>1
  <1>3. CASE push[t] = "messages" /\ payload'[t] = payload[t]
    <2>1. /\ payload[t][1].messages = <<>>
          /\ payload[t][1].credits > 0 =>
                credits[Me] > 0 \/ (t = "ai" /\ \A q \in AnswersOf(Me) : Sinking(q))
      BY <1>3 DEF HalfRead
    <2>2. CASE t = "main"
      <3>1. credits' = credits
        BY <1>3, <2>2, OtherThread DEF Free
      <3> QED BY <1>3, <2>1, <2>2, <3>1
    <2>3. CASE t = "ai"
      <3>1. ai' = ai
        BY <1>3, <2>3, OtherThread DEF Free
      <3>2. ~StoreAnswer
        BY <3>1 DEF StoreAnswer, AiIdle
      <3>3. ASSUME NEW q \in AnswersOf(Me)'
            PROVE  q \in AnswersOf(Me) /\ Kept(q)
        <4>1. q \in Question /\ Has(Me, [role |-> "ai", text |-> q])'
          BY DEF AnswersOf
        <4>2. q \in AnswersOf(Me)
          BY <3>2, <4>1, ServerInvStep, AnswersStep, MeIsAUser
        <4>3. Over(q)
          BY <4>2, AnswersLogged
        <4> QED BY <4>2, <4>3, KeptStep
      <3>4. CASE credits[Me] > 0
        BY <1>3, <2>1, <2>3, <3>3, <3>4 DEF Kept
      <3>5. CASE \A q \in AnswersOf(Me) : Sinking(q)
        BY <1>3, <2>1, <2>3, <3>3, <3>5 DEF Kept
      <3> QED BY <1>3, <2>1, <3>4, <3>5
    <2> QED BY <2>2, <2>3 DEF Threads
  <1> QED BY <1>1, <1>2, <1>3, ReadingStep
----------------------------------------------------------------------------
(* The stop button: the page, the requests under way, the route *)

PageShows == \A q \in page.shown : Over(q) /\ (page.bubble => SafeBehind(q, Len(toServer)))

RequestsSafe ==
  \A i \in DOMAIN toServer : \A q \in toServer[i].shown : Over(q) /\ SafeBehind(q, i - 1)

RouteSafe ==
  main.pc = "replaceLast" => log[Me] # <<>> /\ \A q \in spared : Over(q) /\ Buried(q)

LEMMA ShownStep ==
  ASSUME Inv, TypesOK, CopiesFit, PageShows, [PageNext]_tutorVars
  PROVE  PageShows'
  <1>0. /\ page \in Page /\ local \in Payload /\ CopyFits(local)
        /\ \A q \in page.shown : Over(q) /\ (page.bubble => SafeBehind(q, Len(toServer)))
    BY DEF TypesOK, ClientOK, CopiesFit, PageShows
  <1>1. CASE LogInAgain
    <2>1. /\ page'.shown = Answers(log[Me]) /\ (page'.bubble => ~EndsInAnswer(log[Me]))
      BY <1>0, <1>1, HereType, RefreshedFacts DEF LogInAgain
    <2>2. ASSUME NEW q \in Answers(log[Me])
          PROVE  Over(q)' /\ (~EndsInAnswer(log[Me]) => Sinking(q)')
      <3>1. Over(q) /\ (EndsInAnswer(log[Me]) \/ Sinking(q))
        BY AnswersLogged DEF Over, Sinking
      <3> QED BY <3>1, KeptStep DEF Kept
    <2> QED BY <2>1, <2>2 DEF PageShows, SafeBehind
  <1>2. CASE ~LogInAgain
    <2>1. Keeping
      BY <1>2, KeepingStep
    <2>2. ASSUME NEW q, Over(q)
          PROVE  Over(q)' /\ (SafeBehind(q, Len(toServer)) => SafeBehind(q, Len(toServer))')
      BY <2>1, <2>2, KeptStep DEF Kept, Keeping
    <2>3. CASE page' = page
      BY <1>0, <2>2, <2>3 DEF PageShows
    <2>4. CASE page'.shown = page.shown /\ ~page'.bubble
      BY <1>0, <2>2, <2>4 DEF PageShows
    <2>5. CASE ClickSend
      <3>1. page'.shown = Answers(local'.messages)
        <4>1. local' \in Payload
          BY <1>0, <2>5, AskedFacts DEF ClickSend
        <4> QED BY <1>0, <2>5, <4>1, SentFacts DEF ClickSend
      <3> QED BY <1>0, <2>5, <3>1, AskedFits DEF PageShows
    <2>6. CASE ClickStop
      <3>1. [page EXCEPT !.input = TRUE] \in Page /\ [page EXCEPT !.input = TRUE].shown = page.shown
        BY <1>0, SetOnPage
      <3> QED BY <2>4, <2>6, <3>1, FinishedFacts DEF ClickStop
    <2>7. CASE ShowFailure
      <3>1. [page EXCEPT !.waiting = FALSE] \in Page
            /\ [page EXCEPT !.waiting = FALSE].shown = page.shown
        BY <1>0, SetOnPage
      <3> QED BY <2>4, <2>7, <3>1, FinishedFacts DEF ShowFailure
    <2>8. CASE ShowHistory
      <3>1. /\ page'.shown = Answers(local.messages)
            /\ page'.bubble => ~EndsInAnswer(local.messages)
        BY <1>0, <2>8, RefreshedFacts DEF ShowHistory
      <3>2. \A q \in Answers(local.messages) :
              Over(q) /\ (EndsInAnswer(local.messages) \/ SafeBehind(q, Len(toServer)))
        BY <1>0 DEF CopyFits
      <3> QED BY <2>2, <3>1, <3>2 DEF PageShows
    <2>9. CASE ClickClear \/ LoadPush \/ TakeReply \/ Timeout \/ UNCHANGED tutorVars
      BY <2>3, <2>9 DEF ClickClear, LoadPush, TakeReply, Timeout, tutorVars, client
    <2>10. CASE ServeAsk \/ RefuseAsk \/ ServeCancel \/ ServeClear \/ MainStep \/ AiStep
                \/ Refresh \/ Backend
      BY <2>3, <2>10 DEF ServeAsk, RefuseAsk, ServeCancel, ServeClear, MainStep, AiStep,
                         Refresh, Backend, client
    <2>11. ASSUME NEW t \in Threads, ReadCredits(t) \/ ReadMessages(t) \/ PushSend(t)
           PROVE  page' = page
      BY <2>11 DEF ReadCredits, ReadMessages, PushSend, client
    <2> QED BY <1>2, <2>3, <2>5, <2>6, <2>7, <2>8, <2>9, <2>10, <2>11 DEF PageNext
  <1> QED BY <1>1, <1>2

LEMMA RequestsSafeStep ==
  ASSUME Inv, TypesOK, PageShows, RequestsSafe, [PageNext]_tutorVars
  PROVE  RequestsSafe'
  <1>0. toServer \in Seq(Request) /\ Len(toServer) \in Nat /\ DOMAIN toServer = 1..Len(toServer)
    BY DEF TypesOK, WireOK
  <1>1. ASSUME NEW i \in DOMAIN toServer, NEW q \in toServer[i].shown
        PROVE  Over(q) /\ SafeBehind(q, i - 1) /\ Kept(q)
    BY <1>1, KeptStep DEF RequestsSafe
  <1>2. ASSUME NEW i \in DOMAIN toServer, NEW q \in toServer[i].shown,
               \A j \in 1..i - 1 : toServer'[j].cmd = toServer[j].cmd
        PROVE  Over(q)' /\ SafeBehind(q, i - 1)'
    <2>1. SafeBehind(q, i - 1) /\ Kept(q)
      BY <1>1, <1>2
    <2> QED BY <1>2, <2>1 DEF Kept, SafeBehind
  <1>3. CASE UNCHANGED toServer
    BY <1>0, <1>2, <1>3 DEF RequestsSafe
  <1>4. CASE LogInAgain
    <2>1. PICK n \in 0..Len(toServer) : toServer' = SubSeq(toServer, 1, n)
      BY <1>4 DEF LogInAgain
    <2>2. /\ Len(toServer') = n /\ DOMAIN toServer' = 1..n /\ n \in Nat /\ n <= Len(toServer)
          /\ \A i \in 1..n : toServer'[i] = toServer[i]
      BY <1>0, <2>1
    <2>3. ASSUME NEW i \in DOMAIN toServer', NEW q \in toServer'[i].shown
          PROVE  Over(q)' /\ SafeBehind(q, i - 1)'
      <3>1. /\ i \in DOMAIN toServer /\ q \in toServer[i].shown
            /\ \A j \in 1..i - 1 : toServer'[j].cmd = toServer[j].cmd
        BY <1>0, <2>2, <2>3
      <3> QED BY <1>2, <3>1
    <2> QED BY <2>3 DEF RequestsSafe
  <1>5. ASSUME NEW cmd, SendRequest(cmd), cmd # "logOut", cmd = "cancelAi" => page.bubble
        PROVE  RequestsSafe'
    <2> DEFINE n == Len(toServer)
    <2>1. /\ DOMAIN toServer' = 1..n + 1
          /\ \A i \in 1..n : toServer'[i] = toServer[i]
          /\ toServer'[n + 1].shown = IF cmd = "cancelAi" THEN page.shown ELSE {}
      BY <1>5, ClickAppends
    <2>2. ASSUME NEW i \in DOMAIN toServer', NEW q \in toServer'[i].shown
          PROVE  Over(q)' /\ SafeBehind(q, i - 1)'
      <3>1. CASE i \in 1..n
        <4>1. /\ i \in DOMAIN toServer /\ q \in toServer[i].shown
              /\ \A j \in 1..i - 1 : toServer'[j].cmd = toServer[j].cmd
          BY <1>0, <2>1, <2>2, <3>1
        <4> QED BY <1>2, <4>1
      <3>2. CASE i = n + 1
        <4>1. q \in page.shown /\ page.bubble
          BY <1>5, <2>1, <2>2, <3>2
        <4>2. Over(q) /\ SafeBehind(q, n)
          BY <4>1 DEF PageShows
        <4>3. Kept(q)
          BY <4>2, KeptStep
        <4>4. Sinking(q)' \/ (credits'[Me] > 0 /\ \E j \in 1..n : toServer'[j].cmd = "askAi")
          BY <2>1, <4>2, <4>3 DEF Kept, SafeBehind
        <4>5. i - 1 = n
          BY <1>0, <3>2
        <4> QED BY <4>3, <4>4, <4>5 DEF Kept, SafeBehind
      <3> QED BY <1>0, <2>1, <3>1, <3>2
    <2> QED BY <2>2 DEF RequestsSafe
  <1>6. CASE ClickSend \/ ClickStop \/ ClickClear
    BY <1>5, <1>6 DEF ClickSend, ClickStop, ClickClear
  <1>7. ASSUME NEW cmd, Serving(cmd),
               \A q : Over(q) => cmd # "askAi" \/ credits[Me] = 0 \/ Sinking(q)'
        PROVE  RequestsSafe'
    <2>1. /\ toServer # <<>> /\ toServer' = Tail(toServer)
      BY <1>7 DEF Serving
    <2>2. ASSUME NEW i \in DOMAIN toServer', NEW q \in toServer'[i].shown
          PROVE  Over(q)' /\ SafeBehind(q, i - 1)'
      <3>1. i \in Nat \ {0} /\ i + 1 \in DOMAIN toServer /\ toServer'[i] = toServer[i + 1]
        BY <1>0, <2>1, TailFacts
      <3>2. i \in 0..Len(toServer) /\ (i + 1) - 1 = i
        BY <1>0, <3>1
      <3>3. Over(q) /\ SafeBehind(q, i) /\ Kept(q)
        BY <1>1, <2>2, <3>1, <3>2
      <3>4. cmd # "askAi" \/ credits[Me] = 0 \/ Sinking(q)'
        BY <1>7, <3>3
      <3>5. SafeBehind(q, i - 1)'
        BY <1>7, <3>2, <3>3, <3>4, SafeServed
      <3> QED BY <3>3, <3>5 DEF Kept
    <2> QED BY <2>2 DEF RequestsSafe
  <1>8. CASE ServeAsk
    <2>1. \A q : Sinking(q)'
      BY <1>8 DEF ServeAsk, Ask, Sinking
    <2> QED BY <1>7, <1>8, <2>1 DEF ServeAsk
  <1>9. CASE RefuseAsk
    BY <1>7, <1>9 DEF RefuseAsk
  <1>10. CASE ServeCancel \/ ServeClear
    BY <1>7, <1>10 DEF ServeCancel, ServeClear
  <1> QED BY <1>3, <1>4, <1>6, <1>8, <1>9, <1>10, RequestsStep
LEMMA RouteSafeStep ==
  ASSUME Inv, TypesOK, RequestsSafe, RouteSafe, [PageNext]_tutorVars
  PROVE  RouteSafe'
  <1>1. SUFFICES ASSUME main'.pc = "replaceLast"
                 PROVE  log'[Me] # <<>> /\ \A q \in spared' : Over(q)' /\ Buried(q)'
    BY DEF RouteSafe
  <1>2. CASE ServeCancel
    <2>1. /\ toServer \in Seq(Request) /\ toServer # <<>> /\ spared' = toServer[1].shown
          /\ 1 \in DOMAIN toServer
      BY <1>2, TailFacts DEF ServeCancel, Serving, TypesOK, WireOK
    <2>2. main.pc = "idle" /\ log[Me] # <<>> /\ log' = log
      BY <1>1, <1>2 DEF ServeCancel, Cancel, MainIdle, data
    <2>3. ASSUME NEW q \in toServer[1].shown PROVE Over(q)' /\ Buried(q)'
      <3>1. Over(q) /\ SafeBehind(q, 1 - 1)
        BY <2>1 DEF RequestsSafe
      <3>2. Buried(q)
        BY <2>2, <3>1 DEF SafeBehind, Sinking
      <3> QED BY <2>2, <3>1, <3>2, KeptStep DEF Kept, Buried, Last
    <2> QED BY <2>1, <2>2, <2>3
  <1>3. CASE main' = main /\ spared' = spared
    <2>1. log[Me] # <<>> /\ \A q \in spared : Over(q) /\ Buried(q)
      BY <1>1, <1>3 DEF RouteSafe
    <2>2. ASSUME NEW q \in spared PROVE Over(q)' /\ Buried(q)'
      <3>1. UNCHANGED vars => Buried(q)'
        BY <2>1 DEF vars, data, Buried, Last
      <3> QED BY <2>1, <3>1, StepOfServer, ServerInvStep, OverStays, BuriedStays
    <2>3. log'[Me] # <<>>
      <3>1. CASE StoreAnswer
        <4>1. ai.user \in Users /\ ai.text \in Question
          BY <3>1, InvTypes DEF StoreAnswer, InRoute
        <4> QED BY <3>1, <4>1, StoredLast DEF StoreAnswer
      <3>2. CASE ReplaceLast
        BY <2>1, <3>2, InvTypes, MeIsAUser, ReplaceFacts
      <3>3. CASE log' = log
        BY <2>1, <3>3
      <3>4. main.pc = "replaceLast" /\ main # MainIdle
        BY <1>1, <1>3 DEF MainIdle
      <3>5. CASE DropAnswer \/ PassAnswer \/ Write \/ Answer \/ Fail \/ LinkUp \/ UNCHANGED vars
        BY <3>3, <3>5 DEF DropAnswer, PassAnswer, Write, Answer, Fail, LinkUp, data, vars
      <3>6. ~(Ask(Me) \/ Cancel(Me) \/ ClearHistory(Me))
        BY <3>4 DEF Ask, Cancel, ClearHistory
      <3>7. ~(ResetFlag \/ StoreQuestion \/ SendQuestion \/ AddCancelled \/ SetFlag)
        BY <3>4 DEF ResetFlag, StoreQuestion, SendQuestion, AddCancelled, SetFlag
      <3> QED BY <3>1, <3>2, <3>5, <3>6, <3>7, StepOfServer DEF ServerStep
    <2> QED BY <1>3, <2>2, <2>3
  <1>4. CASE ServeAsk
    BY <1>1, <1>4 DEF ServeAsk, Ask
  <1>5. CASE ServeClear
    BY <1>3, <1>5 DEF ServeClear, ClearHistory
  <1>6. CASE MainStep
    <2>1. main \in MainAt
      BY InvTypes
    <2> QED BY <1>1, <1>6, <2>1 DEF MainStep, ResetFlag, StoreQuestion, SendQuestion,
                 ReplaceLast, AddCancelled, SetFlag, MainAt, MainIdle
  <1>7. CASE AiStep \/ Refresh \/ Backend
    BY <1>3, <1>7 DEF AiStep, Refresh, Backend, PassAnswer, DropAnswer, StoreAnswer, Write,
                      Answer, Fail, LinkUp, vars
  <1>8. CASE ClickSend \/ ClickStop \/ ClickClear \/ LogInAgain \/ ShowFailure \/ ShowHistory
             \/ LoadPush \/ TakeReply \/ Timeout \/ RefuseAsk \/ UNCHANGED tutorVars
    BY <1>3, <1>8 DEF ClickSend, ClickStop, ClickClear, LogInAgain, ShowFailure, ShowHistory,
                      LoadPush, TakeReply, Timeout, RefuseAsk, tutorVars, server, vars
  <1>9. ASSUME NEW t \in Threads, ReadCredits(t) \/ ReadMessages(t) \/ PushSend(t)
        PROVE  main' = main /\ spared' = spared
    BY <1>9 DEF ReadCredits, ReadMessages, PushSend, vars
  <1> QED BY <1>2, <1>3, <1>4, <1>5, <1>6, <1>7, <1>8, <1>9 DEF PageNext

----------------------------------------------------------------------------
(* The invariant and what follows from it *)

LEMMA PageParts ==
  PageInv <=> Inv /\ TypesOK /\ CopiesFit /\ HalfRead /\ PageShows /\ RequestsSafe /\ RouteSafe
  <1>1. StopsFit <=> PageShows /\ RequestsSafe /\ RouteSafe
    BY Zenon DEF StopsFit, PageShows, RequestsSafe, RouteSafe
  <1> QED BY <1>1, TypesAre, Zenon DEF PageInv

LEMMA PageStep == PageInv /\ [PageNext]_tutorVars => PageInv'
  <1> SUFFICES ASSUME PageInv, [PageNext]_tutorVars PROVE PageInv'
    OBVIOUS
  <1>1. /\ Inv /\ TypesOK /\ CopiesFit /\ HalfRead
        /\ PageShows /\ RequestsSafe /\ RouteSafe
    BY PageParts
  <1>2. Inv'
    BY <1>1, ServerInvStep
  <1>3. TypesOK'
    BY <1>1, PageTypeStep
  <1>4. CopiesFit' /\ HalfRead'
    BY <1>1, CopiesStep, HalfReadStep
  <1>5. PageShows' /\ RequestsSafe' /\ RouteSafe'
    BY <1>1, ShownStep, RequestsSafeStep, RouteSafeStep
  <1> QED BY <1>2, <1>3, <1>4, <1>5, PageParts, PTL

LEMMA PageStart == PageInit => PageInv
  <1> SUFFICES ASSUME PageInit PROVE PageInv
    OBVIOUS
  <1>1. Inv
    BY InitInv DEF PageInit
  <1>2. /\ local = Here /\ local \in Payload /\ local.messages = <<>>
        /\ guiQueue = <<>> /\ awaited = {} /\ toServer = <<>> /\ toClient = <<>>
        /\ asking = 0 /\ clicks = 0 /\ stray = FALSE /\ spared = {}
        /\ push = [t \in Threads |-> "nothing"] /\ payload = [t \in Threads |-> <<>>]
        /\ main.pc = "idle"
    BY <1>1, HereType, MeIsAUser DEF PageInit, Init, NoClick, MainIdle
  <1>3. page \in Page /\ page.shown = {}
    <2> DEFINE n == credits[Me] > 0
    <2>1. page = [waiting |-> FALSE, bubble |-> FALSE, input |-> n, shown |-> {}]
      BY DEF PageInit
    <2>2. n \in BOOLEAN
      OBVIOUS
    <2> HIDE DEF n
    <2> QED BY <2>1, <2>2 DEF Page
  <1>4. ClientOK
    <2>1. /\ guiQueue \in Seq({"userChanged", "aiFailed"}) /\ awaited \subseteq 1..MaxClicks
          /\ clicks \in 0..MaxClicks
      BY <1>2, TutorPageAssumption
    <2> QED BY <1>2, <1>3, <2>1, Zenon DEF ClientOK
  <1>5. WireOK /\ PushOK
    BY <1>2, TutorPageAssumption DEF WireOK, PushOK, Asking, NoClick
  <1>6. CopiesFit
    BY <1>2, NoAnswers DEF CopiesFit, CopyFits
  <1>7. HalfRead /\ PageShows /\ RequestsSafe /\ RouteSafe
    BY <1>2, <1>3 DEF HalfRead, PageShows, RequestsSafe, RouteSafe
  <1> QED BY <1>1, <1>4, <1>5, <1>6, <1>7, PageParts DEF TypesOK

(* Every answer on the page, in a copy or under way is over, and is buried
   before a stop that was clicked on it can be served. *)
THEOREM PageInvHolds == PageSafe => []PageInv
  BY PageStart, PageStep, PTL DEF PageSafe

(* The page, the client's copy, the mail and the pushes keep their types: the
   credits shown never fall below zero, whatever payloads come between. *)
THEOREM PageTypesCorrect == PageSafe => []PageTypeOK
  <1>1. PageInv => PageTypeOK
    BY DEF PageInv
  <1> QED BY PageInvHolds, <1>1, PTL

(* A stop replaces no answer that was on the page when it was clicked. *)
THEOREM StopsSpareWhatIsSeen == PageSafe => SeenAnswersStay
  <1>1. PageInv => (ReplaceLast => Last(Me).text \notin spared)
    <2>1. SUFFICES ASSUME PageInv, ReplaceLast, Last(Me).text \in spared PROVE FALSE
      OBVIOUS
    <2>2. Inv /\ RouteSafe /\ main.pc = "replaceLast" /\ LastAnswered
      BY <2>1, PageParts DEF ReplaceLast, Inv
    <2>3. main.user = Me
      BY <2>2, InvTypes, MeIsAUser DEF InRoute
    <2>4. log[Me] # <<>> /\ Last(Me).role = "ai"
      BY <2>2, <2>3 DEF RouteSafe, LastAnswered
    <2>5. Last(Me) \in Entry
      <3>1. Len(log[Me]) \in DOMAIN log[Me] /\ log[Me] \in Seq(Entry)
        BY <2>2, <2>4, InvTypes
      <3> QED BY <3>1 DEF Last
    <2>6. Last(Me) = [role |-> "ai", text |-> Last(Me).text]
      BY <2>4, <2>5 DEF Entry
    <2>7. Buried(Last(Me).text)
      BY <2>1, <2>2 DEF RouteSafe
    <2> QED BY <2>4, <2>6, <2>7 DEF Buried
  <1> QED BY PageInvHolds, <1>1, PTL DEF SeenAnswersStay
==============================================================================
