--------------------------- MODULE AnswersProofs ---------------------------
(***************************************************************************)
(* The registry of permission answers for any number of requests, hook     *)
(* calls and answerers, and any memory of answers.                         *)
(***************************************************************************)
EXTENDS PendingAnswers, TLAPS

(***************************************************************************)
(* What makes the invariants inductive: where a request's entry is at each *)
(* stage of the one call about it.                                         *)
(***************************************************************************)

\* Nothing is open, registered or left under r.
Settled(r) == open[r] = None /\ waiters[r] = None /\ delivered[r] = None

\* The entry of c is open under r, or an answer has taken it.
HeldOrTaken(c, r) ==
    /\ delivered[r] = None
    /\ \/ open[r] = c /\ waiters[r] = c /\ inbox[c] = None /\ accepted[r] = << >>
       \/ open[r] = None /\ waiters[r] = None /\ inbox[c] # None /\ accepted[r] = <<inbox[c]>>

OpenOrLeft(c, r) ==
    /\ waiters[r] = None
    /\ \/ open[r] = c /\ delivered[r] = None /\ accepted[r] = << >>
       \/ open[r] = None /\ delivered[r] # None /\ accepted[r] = <<delivered[r]>>

CallInv(c, r) ==
    /\ at[c] \in {"found", "refused"} => Settled(r) /\ accepted[r] = << >>
    /\ at[c] \in {"found", "opened"} => inbox[c] = None
    /\ at[c] = "opened" => OpenOrLeft(c, r)
    /\ at[c] \in {"waiting", "expired", "gone"} => HeldOrTaken(c, r)
    /\ at[c] \in {"waiting", "expired"} => seen[c] = c
    /\ at[c] = "answered" => Settled(r) /\ accepted[r] = <<inbox[c]>>
    /\ at[c] = "timedOut" => Settled(r) /\ accepted[r] = << >>

\* A call that has not begun is about nothing, and a wake-up is of a call about
\* the request it is registered under.
IdleInv ==
    /\ \A c \in Call : at[c] = "idle" <=> req[c] = None
    /\ \A c \in Call : at[c] = "idle" => inbox[c] = None
    /\ \A r \in Req : waiters[r] # None => req[waiters[r]] = r

ReqInv(r) ==
    Alone(r) =>
        /\ (\A c \in Call : req[c] # r) => Settled(r) /\ accepted[r] = << >>
        /\ \A c \in Call : req[c] = r => CallInv(c, r)

RequestInv == \A r \in Req : ReqInv(r)

(***************************************************************************)
(* Types.                                                                  *)
(***************************************************************************)
LEMMA TypeInit == Init => TypeOK
  <1> SUFFICES ASSUME Init PROVE TypeOK
    OBVIOUS
  <1>1. order \in Seq(Req) /\ accepted \in [Req -> Seq(Answerer)]
    BY DEF Init
  <1>2. at \in [Call -> CallState] /\ \A c \in Call : at[c] = "idle"
    BY DEF Init, CallState
  <1>3. /\ step \in [Answerer -> {"idle", "checked", "found", "told", "clearing"}]
        /\ \A a \in Answerer : step[a] = "idle"
    BY DEF Init
  <1> QED BY <1>1, <1>2, <1>3 DEF Init, TypeOK

\* The queue an answer is remembered in.
LEMMA RememberType ==
  ASSUME TypeOK, NEW r \in Req, NEW a \in Answerer, RememberAnswer(r, a)
  PROVE  order' \in Seq(Req) /\ answered' \in [Req -> Answerer \cup {None}]
  <1> USE AnswersAssumption
  <1> DEFINE queue == Append(order, r)
             over  == IF Len(queue) > Kept THEN Len(queue) - Kept ELSE 0
  <1>1. queue \in Seq(Req) /\ Len(queue) \in Nat
    BY DEF TypeOK
  <1>2. over \in Nat /\ over <= Len(queue)
    BY <1>1
  <1>3. order' = SubSeq(queue, over + 1, Len(queue))
    BY DEF RememberAnswer
  <1>4. order' \in Seq(Req)
    <2> HIDE DEF queue, over
    <2> QED BY <1>1, <1>2, <1>3
  <1>5. answered' \in [Req -> Answerer \cup {None}]
    BY DEF RememberAnswer, TypeOK
  <1> QED BY <1>4, <1>5

LEMMA TypeStep == TypeOK /\ [Next]_vars => TypeOK'
  <1> SUFFICES ASSUME TypeOK, [Next]_vars PROVE TypeOK'
    OBVIOUS
  <1> USE AnswersAssumption
  <1>1. CASE UNCHANGED vars
    BY <1>1 DEF TypeOK, vars, registry, callVars, answerVars
  <1>2. ASSUME NEW r \in Req, ReportsQuestion(r)
        PROVE  TypeOK'
    BY <1>2 DEF ReportsQuestion, TypeOK, registry, callVars, answerVars
  <1>3. CASE NoticeReads \/ NoticeWrites \/ ReportsProgress
    BY <1>3 DEF NoticeReads, NoticeWrites, ReportsProgress, TypeOK, registry, callVars, answerVars
  <1>4. ASSUME NEW c \in Call, NEW r \in Req, NEW present \in BOOLEAN, AwaitBegins(c, r, present)
        PROVE  TypeOK'
    BY <1>4 DEF AwaitBegins, CallGoes, TypeOK, CallState, registry, answerVars
  <1>5. ASSUME NEW c \in Call, Opens(c)
        PROVE  TypeOK'
    BY <1>5 DEF Opens, CallGoes, TypeOK, CallState, answerVars
  <1>6. ASSUME NEW c \in Call, WaitBegins(c)
        PROVE  TypeOK'
    <2>1. req[c] \in Req
      BY <1>6 DEF WaitBegins, TypeOK
    <2>2. at[c] = "opened" /\
          UNCHANGED <<asked, file, notice, open, answered, order, req, step, about, uncleared, accepted>>
      BY <1>6 DEF WaitBegins, answerVars
    <2>3. CASE delivered[req[c]] # None
      <3>1. /\ inbox' = [inbox EXCEPT ![c] = delivered[req[c]]]
            /\ delivered' = [delivered EXCEPT ![req[c]] = None]
            /\ at' = [at EXCEPT ![c] = "answered"]
            /\ UNCHANGED <<waiters, seen>>
        BY <1>6, <2>3 DEF WaitBegins, CallGoes
      <3> QED BY <2>1, <2>2, <3>1 DEF TypeOK, CallState
    <2>4. CASE delivered[req[c]] = None /\ open[req[c]] = None
      <3>1. at' = [at EXCEPT ![c] = "timedOut"] /\ UNCHANGED <<waiters, seen, inbox, delivered>>
        BY <1>6, <2>4 DEF WaitBegins, CallGoes
      <3> QED BY <2>1, <2>2, <3>1 DEF TypeOK, CallState
    <2>5. CASE delivered[req[c]] = None /\ open[req[c]] # None
      <3>1. /\ seen' = [seen EXCEPT ![c] = open[req[c]]]
            /\ waiters' = [waiters EXCEPT ![req[c]] = c]
            /\ at' = [at EXCEPT ![c] = "waiting"]
            /\ UNCHANGED <<inbox, delivered>>
        BY <1>6, <2>5 DEF WaitBegins, CallGoes
      <3> QED BY <2>1, <2>2, <2>5, <3>1 DEF TypeOK, CallState
    <2> QED BY <2>3, <2>4, <2>5
  <1>7. ASSUME NEW c \in Call, Woken(c) \/ DeadlinePasses(c) \/ HookGone(c)
        PROVE  TypeOK'
    BY <1>7 DEF Woken, DeadlinePasses, HookGone, CallGoes, TypeOK, CallState, registry, answerVars
  <1>8. ASSUME NEW c \in Call, GivesUp(c)
        PROVE  TypeOK'
    BY <1>8 DEF GivesUp, CallGoes, TypeOK, CallState, answerVars
  <1>9. ASSUME NEW a \in Answerer, NEW r \in Req, answer_permission(a, r)
        PROVE  TypeOK'
    BY <1>9 DEF answer_permission, TypeOK, registry, callVars
  <1>10. ASSUME NEW a \in Answerer, FindsOpen(a) \/ ClearReads(a)
         PROVE  TypeOK'
    BY <1>10 DEF FindsOpen, ClearReads, AnswerGoes, TypeOK, registry, callVars
  <1>11. ASSUME NEW a \in Answerer, ClearRemoves(a)
         PROVE  TypeOK'
    BY <1>11 DEF ClearRemoves, AnswerGoes, TypeOK, registry, callVars
  <1>12. ASSUME NEW a \in Answerer, answer_with_message(a)
         PROVE  TypeOK'
    <2> DEFINE r == about[a]
               w == waiters[r]
    <2>1. r \in Req /\ w \in Call \cup {None}
      BY <1>12 DEF answer_with_message, TypeOK
    <2>2. UNCHANGED <<asked, file, notice, at, req, seen, uncleared>>
      BY <1>12 DEF answer_with_message
    <2>3. /\ step' \in [Answerer -> {"idle", "checked", "found", "told", "clearing"}]
          /\ about' \in [Answerer -> Req \cup {None}]
          /\ \A b \in Answerer : step'[b] # "idle" => about'[b] \in Req
      <3>1. step[a] = "found" /\ (AnswerGoes(a, "told") \/ AnswerGoes(a, "idle"))
        BY <1>12 DEF answer_with_message
      <3> QED BY <2>1, <3>1 DEF AnswerGoes, TypeOK
    <2>4. CASE Claims(r)
      <3>1. /\ open' = [open EXCEPT ![r] = None]
            /\ RememberAnswer(r, a)
            /\ waiters' = [waiters EXCEPT ![r] = None]
            /\ inbox' = IF w = None THEN inbox ELSE [inbox EXCEPT ![w] = a]
            /\ delivered' = IF w = None THEN [delivered EXCEPT ![r] = a] ELSE delivered
            /\ accepted' = [accepted EXCEPT ![r] = Append(@, a)]
        BY <1>12, <2>4 DEF answer_with_message
      <3>2. order' \in Seq(Req) /\ answered' \in [Req -> Answerer \cup {None}]
        BY <2>1, <3>1, RememberType
      <3> HIDE DEF r, w
      <3>3. open' \in [Req -> Call \cup {None}] /\ waiters' \in [Req -> Call \cup {None}]
        BY <2>1, <3>1 DEF TypeOK
      <3>4. inbox' \in [Call -> Answerer \cup {None}] /\ delivered' \in [Req -> Answerer \cup {None}]
        BY <2>1, <3>1 DEF TypeOK
      <3>5. accepted' \in [Req -> Seq(Answerer)]
        <4>1. Append(accepted[r], a) \in Seq(Answerer)
          BY <2>1 DEF TypeOK
        <4> QED BY <2>1, <3>1, <4>1 DEF TypeOK
      <3> QED BY <2>2, <2>3, <3>2, <3>3, <3>4, <3>5 DEF TypeOK
    <2>5. CASE ~Claims(r)
      <3>1. UNCHANGED <<registry, inbox, accepted>>
        BY <1>12, <2>5 DEF answer_with_message
      <3> QED BY <2>2, <2>3, <3>1 DEF TypeOK, registry
    <2> QED BY <2>4, <2>5
  <1> QED
    BY <1>1, <1>2, <1>3, <1>4, <1>5, <1>6, <1>7, <1>8, <1>9, <1>10, <1>11, <1>12
    DEF Next, CallStep, AnswerStep

\* Every variable of the registry keeps the shape the code gives it, and calls and
\* answers under way are about requests.
THEOREM TypeCorrect == Spec => []TypeOK
  BY TypeInit, TypeStep, PTL DEF Spec

(***************************************************************************)
(* One request and the call about it.                                      *)
(***************************************************************************)
LEMMA RequestInit == Init => IdleInv /\ RequestInv
  <1> SUFFICES ASSUME Init PROVE IdleInv /\ RequestInv
    OBVIOUS
  <1>1. IdleInv
    BY DEF Init, IdleInv
  <1>2. \A r \in Req : Settled(r) /\ accepted[r] = << >>
    BY DEF Init, Settled
  <1>3. \A c \in Call, r \in Req : req[c] # r
    BY AnswersAssumption DEF Init
  <1> QED BY <1>1, <1>2, <1>3 DEF RequestInv, ReqInv

\* A step that leaves a request's slots and the calls about it alone.
LEMMA Elsewhere ==
  ASSUME NEW r \in Req, ReqInv(r),
         open'[r] = open[r], waiters'[r] = waiters[r], delivered'[r] = delivered[r],
         accepted'[r] = accepted[r],
         \A d \in Call : req'[d] = r <=> req[d] = r,
         \A d \in Call : req[d] = r =>
             at'[d] = at[d] /\ seen'[d] = seen[d] /\ inbox'[d] = inbox[d]
  PROVE  ReqInv(r)'
  <1> SUFFICES ASSUME Alone(r)'
               PROVE  /\ (\A c \in Call : req'[c] # r) => Settled(r)' /\ accepted'[r] = << >>
                      /\ \A c \in Call : req'[c] = r => CallInv(c, r)'
    BY DEF ReqInv
  <1>1. Alone(r)
    BY DEF Alone
  <1>2. Settled(r)' <=> Settled(r)
    BY DEF Settled
  <1>3. ASSUME NEW c \in Call, req'[c] = r
        PROVE  CallInv(c, r)'
    <2>1. CallInv(c, r) /\ at'[c] = at[c] /\ seen'[c] = seen[c] /\ inbox'[c] = inbox[c]
      BY <1>1, <1>3 DEF ReqInv
    <2> QED BY <2>1 DEF CallInv, HeldOrTaken, OpenOrLeft, Settled
  <1> QED BY <1>1, <1>2, <1>3 DEF ReqInv

\* The one call about a request decides.
LEMMA Here ==
  ASSUME NEW r \in Req, NEW c \in Call, ReqInv(r), req[c] = r, req' = req,
         Alone(r) /\ CallInv(c, r) => CallInv(c, r)'
  PROVE  ReqInv(r)'
  <1> SUFFICES ASSUME Alone(r)'
               PROVE  /\ (\A d \in Call : req'[d] # r) => Settled(r)' /\ accepted'[r] = << >>
                      /\ \A d \in Call : req'[d] = r => CallInv(d, r)'
    BY DEF ReqInv
  <1>1. Alone(r) /\ \A d \in Call : req[d] = r => d = c
    BY DEF Alone
  <1>2. CallInv(c, r)'
    BY <1>1 DEF ReqInv
  <1> QED BY <1>1, <1>2

\* A step that leaves the registry, the calls and the answers alone.
LEMMA NoChange ==
  ASSUME RequestInv, IdleInv,
         UNCHANGED <<open, waiters, delivered, accepted, at, req, seen, inbox>>
  PROVE  IdleInv' /\ RequestInv'
  <1>1. IdleInv'
    BY DEF IdleInv
  <1>2. \A r \in Req : ReqInv(r)'
    BY Elsewhere DEF RequestInv
  <1> QED BY <1>1, <1>2 DEF RequestInv

\* A step of one call about r, which touches r's slots alone.
LEMMA OneCall ==
  ASSUME IdleInv, RequestInv, NEW r \in Req, NEW c \in Call, req[c] = r, r # None,
         UNCHANGED <<req, accepted>>, at[c] # "idle", at'[c] # "idle",
         \A q \in Req : q # r => /\ open'[q] = open[q] /\ waiters'[q] = waiters[q]
                                 /\ delivered'[q] = delivered[q],
         \A d \in Call : d # c => /\ at'[d] = at[d] /\ seen'[d] = seen[d]
                                  /\ inbox'[d] = inbox[d],
         waiters'[r] \in {waiters[r], None, c},
         CallInv(c, r) => CallInv(c, r)'
  PROVE  IdleInv' /\ RequestInv'
  <1>1. IdleInv'
    <2>1. \A d \in Call : at'[d] = "idle" <=> req'[d] = None
      BY DEF IdleInv
    <2>2. \A d \in Call : at'[d] = "idle" => inbox'[d] = None
      BY DEF IdleInv
    <2>3. \A q \in Req : waiters'[q] # None => req'[waiters'[q]] = q
      BY DEF IdleInv
    <2> QED BY <2>1, <2>2, <2>3 DEF IdleInv
  <1>2. ASSUME NEW q \in Req
        PROVE  ReqInv(q)'
    <2>1. ReqInv(q)
      BY DEF RequestInv
    <2>2. CASE q = r
      BY <2>1, <2>2, Here
    <2>3. CASE q # r
      <3>1. \A d \in Call : req[d] = q => d # c
        BY <2>3
      <3> QED BY <2>1, <2>3, <3>1, Elsewhere
    <2> QED BY <2>2, <2>3
  <1> QED BY <1>1, <1>2 DEF RequestInv

LEMMA RequestStep == TypeOK /\ IdleInv /\ RequestInv /\ [Next]_vars => IdleInv' /\ RequestInv'
  <1> SUFFICES ASSUME TypeOK, IdleInv, RequestInv, [Next]_vars PROVE IdleInv' /\ RequestInv'
    OBVIOUS
  <1> USE AnswersAssumption
  <1>0. \A r \in Req : ReqInv(r)
    BY DEF RequestInv
  <1>1. CASE UNCHANGED vars
    BY <1>1, NoChange DEF vars, registry, callVars, answerVars
  <1>2. ASSUME NEW r \in Req, ReportsQuestion(r)
        PROVE  IdleInv' /\ RequestInv'
    BY <1>2, NoChange DEF ReportsQuestion, registry, callVars, answerVars
  <1>3. CASE NoticeReads \/ NoticeWrites \/ ReportsProgress
    BY <1>3, NoChange DEF NoticeReads, NoticeWrites, ReportsProgress, registry, callVars
  <1>4. ASSUME NEW a \in Answerer,
               \/ FindsOpen(a) \/ ClearReads(a) \/ ClearRemoves(a)
               \/ \E r \in Req : answer_permission(a, r)
        PROVE  IdleInv' /\ RequestInv'
    <2>1. UNCHANGED <<registry, callVars, accepted>>
      BY <1>4 DEF FindsOpen, ClearReads, ClearRemoves, answer_permission
    <2> QED BY <2>1, NoChange DEF registry, callVars
  <1>5. ASSUME NEW c \in Call, NEW r \in Req, NEW present \in BOOLEAN, AwaitBegins(c, r, present)
        PROVE  IdleInv' /\ RequestInv'
    <2>1. /\ at[c] = "idle" /\ req' = [req EXCEPT ![c] = r]
          /\ \E to \in {"found", "refused"} : at' = [at EXCEPT ![c] = to]
          /\ UNCHANGED <<open, waiters, delivered, accepted, seen, inbox>>
      BY <1>5 DEF AwaitBegins, CallGoes, registry
    <2>2. req[c] = None /\ inbox[c] = None
      BY <2>1 DEF IdleInv
    <2>3. /\ req'[c] = r /\ at'[c] \in {"found", "refused"}
          /\ \A d \in Call : d # c => req'[d] = req[d] /\ at'[d] = at[d]
      BY <2>1 DEF TypeOK
    <2>4. IdleInv'
      BY <2>1, <2>2, <2>3 DEF IdleInv, TypeOK
    <2>5. ASSUME NEW q \in Req, q # r
          PROVE  ReqInv(q)'
      <3>1. \A d \in Call : req'[d] = q <=> req[d] = q
        BY <2>2, <2>3, <2>5
      <3>2. \A d \in Call : req[d] = q => at'[d] = at[d]
        BY <2>2, <2>3
      <3> QED BY <1>0, <2>1, <3>1, <3>2, Elsewhere
    <2>6. ReqInv(r)'
      <3> SUFFICES ASSUME Alone(r)'
                   PROVE  CallInv(c, r)'
        BY <2>3 DEF ReqInv, Alone
      <3>1. \A d \in Call : req[d] # r
        BY <2>2, <2>3 DEF Alone
      <3>2. Alone(r)
        BY <3>1 DEF Alone
      <3>3. Settled(r) /\ accepted[r] = << >>
        BY <1>0, <3>1, <3>2 DEF ReqInv
      <3> QED BY <2>1, <2>2, <2>3, <3>3 DEF CallInv, Settled
    <2> QED BY <2>4, <2>5, <2>6 DEF RequestInv
  <1>6. ASSUME NEW c \in Call, Opens(c)
        PROVE  IdleInv' /\ RequestInv'
    <2>1. PICK r \in Req : req[c] = r
      BY <1>6 DEF Opens, TypeOK
    <2>2. /\ at[c] = "found" /\ at' = [at EXCEPT ![c] = "opened"]
          /\ open' = [open EXCEPT ![r] = c] /\ waiters' = [waiters EXCEPT ![r] = None]
          /\ delivered' = [delivered EXCEPT ![r] = None]
          /\ UNCHANGED <<req, seen, inbox, accepted>>
      BY <1>6, <2>1 DEF Opens, CallGoes
    <2>3. ASSUME CallInv(c, r)
          PROVE  CallInv(c, r)'
      <3>1. accepted[r] = << >> /\ inbox[c] = None
        BY <2>2, <2>3 DEF CallInv
      <3>2. /\ at'[c] = "opened" /\ open'[r] = c /\ waiters'[r] = None /\ delivered'[r] = None
            /\ accepted'[r] = << >> /\ inbox'[c] = None
        BY <2>2, <3>1 DEF TypeOK
      <3> QED BY <3>2 DEF CallInv, OpenOrLeft
    <2>4. /\ at'[c] # "idle" /\ waiters'[r] = None
          /\ \A q \in Req : q # r => /\ open'[q] = open[q] /\ waiters'[q] = waiters[q]
                                     /\ delivered'[q] = delivered[q]
          /\ \A d \in Call : d # c => at'[d] = at[d]
      BY <2>2 DEF TypeOK
    <2> QED BY <2>1, <2>2, <2>3, <2>4, OneCall
  <1>7. ASSUME NEW c \in Call, WaitBegins(c)
        PROVE  IdleInv' /\ RequestInv'
    <2>1. PICK r \in Req : req[c] = r
      BY <1>7 DEF WaitBegins, TypeOK
    <2>2. at[c] = "opened" /\ UNCHANGED <<open, req, accepted>>
      BY <1>7 DEF WaitBegins
    <2>3. CASE delivered[r] # None
      <3>1. /\ inbox' = [inbox EXCEPT ![c] = delivered[r]]
            /\ delivered' = [delivered EXCEPT ![r] = None]
            /\ at' = [at EXCEPT ![c] = "answered"]
            /\ UNCHANGED <<waiters, seen>>
        BY <1>7, <2>1, <2>3 DEF WaitBegins, CallGoes
      <3>2. /\ at'[c] = "answered" /\ delivered'[r] = None /\ inbox'[c] = delivered[r]
            /\ \A q \in Req : q # r => delivered'[q] = delivered[q]
            /\ \A d \in Call : d # c => at'[d] = at[d] /\ inbox'[d] = inbox[d]
        BY <3>1 DEF TypeOK
      <3>3. ASSUME CallInv(c, r)
            PROVE  CallInv(c, r)'
        <4>1. waiters[r] = None /\ open[r] = None /\ accepted[r] = <<delivered[r]>>
          BY <2>2, <2>3, <3>3 DEF CallInv, OpenOrLeft
        <4> QED BY <2>2, <3>1, <3>2, <4>1 DEF CallInv, Settled
      <3> QED BY <2>1, <2>2, <3>1, <3>2, <3>3, OneCall
    <2>4. CASE delivered[r] = None /\ open[r] = None
      <3>1. at' = [at EXCEPT ![c] = "timedOut"] /\ UNCHANGED <<waiters, seen, inbox, delivered>>
        BY <1>7, <2>1, <2>4 DEF WaitBegins, CallGoes
      <3>2. at'[c] = "timedOut" /\ \A d \in Call : d # c => at'[d] = at[d]
        BY <3>1 DEF TypeOK
      <3>3. ~CallInv(c, r)
        BY <2>2, <2>4 DEF CallInv, OpenOrLeft
      <3> QED BY <2>1, <2>2, <3>1, <3>2, <3>3, OneCall
    <2>5. CASE delivered[r] = None /\ open[r] # None
      <3>1. /\ seen' = [seen EXCEPT ![c] = open[r]]
            /\ waiters' = [waiters EXCEPT ![r] = c]
            /\ at' = [at EXCEPT ![c] = "waiting"]
            /\ UNCHANGED <<inbox, delivered>>
        BY <1>7, <2>1, <2>5 DEF WaitBegins, CallGoes
      <3>2. /\ at'[c] = "waiting" /\ waiters'[r] = c /\ seen'[c] = open[r]
            /\ \A q \in Req : q # r => waiters'[q] = waiters[q]
            /\ \A d \in Call : d # c => at'[d] = at[d] /\ seen'[d] = seen[d]
        BY <3>1 DEF TypeOK
      <3>3. ASSUME CallInv(c, r)
            PROVE  CallInv(c, r)'
        <4>1. open[r] = c /\ accepted[r] = << >> /\ inbox[c] = None
          BY <2>2, <2>5, <3>3 DEF CallInv, OpenOrLeft
        <4> QED BY <2>2, <2>5, <3>1, <3>2, <4>1 DEF CallInv, HeldOrTaken
      <3> QED BY <2>1, <2>2, <3>1, <3>2, <3>3, OneCall
    <2> QED BY <2>3, <2>4, <2>5
  <1>8. ASSUME NEW c \in Call, Woken(c) \/ DeadlinePasses(c) \/ HookGone(c)
        PROVE  IdleInv' /\ RequestInv'
    <2>1. PICK r \in Req : req[c] = r
      BY <1>8 DEF Woken, DeadlinePasses, HookGone, TypeOK
    <2>2. /\ at[c] = "waiting"
          /\ \/ inbox[c] # None /\ at' = [at EXCEPT ![c] = "answered"]
             \/ at' = [at EXCEPT ![c] = "expired"]
             \/ at' = [at EXCEPT ![c] = "gone"]
          /\ UNCHANGED <<open, waiters, delivered, req, seen, inbox, accepted>>
      BY <1>8 DEF Woken, DeadlinePasses, HookGone, CallGoes, registry
    <2>3. /\ at'[c] \in {"expired", "gone"} \/ (at'[c] = "answered" /\ inbox[c] # None)
          /\ \A d \in Call : d # c => at'[d] = at[d]
      BY <2>2 DEF TypeOK
    <2>4. ASSUME CallInv(c, r)
          PROVE  CallInv(c, r)'
      <3>1. HeldOrTaken(c, r) /\ seen[c] = c
        BY <2>2, <2>4 DEF CallInv
      <3>2. CASE at'[c] \in {"expired", "gone"}
        BY <2>2, <3>1, <3>2 DEF CallInv, HeldOrTaken
      <3>3. CASE at'[c] = "answered" /\ inbox[c] # None
        BY <2>2, <3>1, <3>3 DEF CallInv, HeldOrTaken, Settled
      <3> QED BY <2>3, <3>2, <3>3
    <2> QED BY <2>1, <2>2, <2>3, <2>4, OneCall
  <1>9. ASSUME NEW c \in Call, GivesUp(c)
        PROVE  IdleInv' /\ RequestInv'
    <2>1. PICK r \in Req : req[c] = r
      BY <1>9 DEF GivesUp, TypeOK
    <2> DEFINE closes == inbox[c] = None /\ open[r] # None /\ open[r] = seen[c]
    <2>2. /\ at[c] = "expired"
          /\ at' = [at EXCEPT ![c] = IF inbox[c] = None THEN "timedOut" ELSE "answered"]
          /\ open' = IF closes THEN [open EXCEPT ![r] = None] ELSE open
          /\ waiters' = IF closes THEN [waiters EXCEPT ![r] = None] ELSE waiters
          /\ UNCHANGED <<delivered, req, seen, inbox, accepted>>
      BY <1>9, <2>1 DEF GivesUp, CallGoes
    <2>3. /\ at'[c] = (IF inbox[c] = None THEN "timedOut" ELSE "answered")
          /\ \A d \in Call : d # c => at'[d] = at[d]
          /\ open'[r] = (IF closes THEN None ELSE open[r])
          /\ waiters'[r] = (IF closes THEN None ELSE waiters[r])
          /\ \A q \in Req : q # r => open'[q] = open[q] /\ waiters'[q] = waiters[q]
      BY <2>2 DEF TypeOK
    <2>4. ASSUME CallInv(c, r)
          PROVE  CallInv(c, r)'
      <3>1. HeldOrTaken(c, r) /\ seen[c] = c
        BY <2>2, <2>4 DEF CallInv
      <3> QED BY <2>2, <2>3, <3>1 DEF CallInv, HeldOrTaken, Settled
    <2> QED BY <2>1, <2>2, <2>3, <2>4, OneCall
  <1>10. ASSUME NEW a \in Answerer, answer_with_message(a)
         PROVE  IdleInv' /\ RequestInv'
    <2>1. PICK r \in Req : about[a] = r
      BY <1>10 DEF answer_with_message, TypeOK
    <2> DEFINE w == waiters[r]
    <2>2. CASE ~Claims(r)
      <3>1. UNCHANGED <<registry, inbox, accepted, at, req, seen>>
        BY <1>10, <2>1, <2>2 DEF answer_with_message
      <3> QED BY <3>1, NoChange DEF registry
    <2>3. CASE Claims(r)
      <3>1. /\ open' = [open EXCEPT ![r] = None]
            /\ waiters' = [waiters EXCEPT ![r] = None]
            /\ inbox' = IF w = None THEN inbox ELSE [inbox EXCEPT ![w] = a]
            /\ delivered' = IF w = None THEN [delivered EXCEPT ![r] = a] ELSE delivered
            /\ accepted' = [accepted EXCEPT ![r] = Append(@, a)]
            /\ UNCHANGED <<at, req, seen>> /\ open[r] # None
        BY <1>10, <2>1, <2>3 DEF answer_with_message, Claims
      <3>2. w \in Call \cup {None} /\ (w # None => req[w] = r)
        BY DEF TypeOK, IdleInv
      <3>3. /\ open'[r] = None /\ waiters'[r] = None
            /\ delivered'[r] = (IF w = None THEN a ELSE delivered[r])
            /\ accepted'[r] = Append(accepted[r], a)
            /\ \A q \in Req : q # r => /\ open'[q] = open[q] /\ waiters'[q] = waiters[q]
                                       /\ delivered'[q] = delivered[q] /\ accepted'[q] = accepted[q]
            /\ \A d \in Call : inbox'[d] = IF d = w THEN a ELSE inbox[d]
        BY <3>1, <3>2 DEF TypeOK
      <3> HIDE DEF w
      <3>4. IdleInv'
        BY <3>1, <3>2, <3>3 DEF IdleInv, TypeOK
      <3>5. ASSUME NEW q \in Req, q # r
            PROVE  ReqInv(q)'
        <4>1. \A d \in Call : req[d] = q => inbox'[d] = inbox[d]
          BY <3>2, <3>3, <3>5
        <4> QED BY <1>0, <3>1, <3>3, <3>5, <4>1, Elsewhere
      <3>6. ReqInv(r)'
        <4> SUFFICES ASSUME Alone(r)
                     PROVE  /\ \E c \in Call : req[c] = r
                            /\ \A c \in Call : req[c] = r => CallInv(c, r)'
          BY <3>1 DEF ReqInv, Alone
        <4>1. \E c \in Call : req[c] = r
          BY <1>0, <3>1 DEF ReqInv, Settled
        <4>2. ASSUME NEW c \in Call, req[c] = r
              PROVE  CallInv(c, r)'
          <5>1. CallInv(c, r) /\ at[c] \in CallState /\ at[c] # "idle"
            BY <1>0, <4>2 DEF ReqInv, TypeOK, IdleInv
          <5>2. at[c] \in {"opened", "waiting", "expired", "gone"} /\ accepted[r] = << >>
            BY <3>1, <5>1 DEF CallInv, Settled, OpenOrLeft, HeldOrTaken, CallState
          <5>3. accepted'[r] = <<a>>
            BY <3>3, <5>2
          <5>4. CASE at[c] = "opened"
            <6>1. w = None /\ inbox[c] = None
              BY <5>1, <5>4 DEF CallInv, OpenOrLeft, w
            <6> QED BY <3>1, <3>3, <5>3, <5>4, <6>1 DEF CallInv, OpenOrLeft
          <5>5. CASE at[c] \in {"waiting", "expired", "gone"}
            <6>1. w = c /\ delivered[r] = None
              BY <3>1, <5>1, <5>5 DEF CallInv, HeldOrTaken, w
            <6>2. inbox'[c] = a /\ delivered'[r] = None
              BY <3>3, <6>1
            <6> QED BY <3>1, <3>3, <5>1, <5>3, <5>5, <6>2 DEF CallInv, HeldOrTaken
          <5> QED BY <5>2, <5>4, <5>5
        <4> QED BY <4>1, <4>2
      <3> QED BY <3>4, <3>5, <3>6 DEF RequestInv
    <2> QED BY <2>2, <2>3
  <1> QED
    BY <1>1, <1>2, <1>3, <1>4, <1>5, <1>6, <1>7, <1>8, <1>9, <1>10
    DEF Next, CallStep, AnswerStep

\* A wait never times out on a request whose answer was reported delivered, and the
\* answer it returns is that one.
THEOREM AcceptedAnswersArrive == Spec => []AcceptedIsReceived
  <1>1. TypeOK /\ RequestInv => AcceptedIsReceived
    BY DEF TypeOK, RequestInv, ReqInv, CallInv, AcceptedIsReceived
  <1> QED BY <1>1, TypeInit, TypeStep, RequestInit, RequestStep, PTL DEF Spec

\* A request with one hook is answered at most once, whatever the registry forgets.
THEOREM OneAnswerWins == Spec => []FirstAnswerWins
  <1>1. TypeOK /\ IdleInv /\ RequestInv => FirstAnswerWins
    <2> SUFFICES ASSUME TypeOK, IdleInv, RequestInv, NEW r \in Req, Alone(r)
                 PROVE  Len(accepted[r]) <= 1
      BY DEF FirstAnswerWins
    <2>1. ReqInv(r)
      BY DEF RequestInv
    <2>2. accepted[r] = << >> \/ \E b : accepted[r] = <<b>>
      <3>1. CASE \A c \in Call : req[c] # r
        BY <2>1, <3>1 DEF ReqInv
      <3>2. ASSUME NEW c \in Call, req[c] = r
            PROVE  accepted[r] = << >> \/ \E b : accepted[r] = <<b>>
        <4>1. CallInv(c, r)
          BY <2>1, <3>2 DEF ReqInv
        <4>2. at[c] \in CallState /\ at[c] # "idle"
          BY <3>2, AnswersAssumption DEF IdleInv, TypeOK
        <4> QED BY <4>1, <4>2 DEF CallInv, OpenOrLeft, HeldOrTaken, CallState
      <3> QED BY <3>1, <3>2
    <2>3. Len(<< >>) = 0
      OBVIOUS
    <2>4. CASE accepted[r] = << >>
      <3>1. Len(accepted[r]) = 0
        BY <2>3, <2>4
      <3> QED BY <3>1
    <2>5. CASE \E b : accepted[r] = <<b>>
      BY <2>5
    <2> QED BY <2>2, <2>4, <2>5
  <1> QED BY <1>1, TypeInit, TypeStep, RequestInit, RequestStep, PTL DEF Spec

\* A wait that has ended leaves no entry, wake-up or answer behind.
THEOREM EndedWaitsAreClosed == Spec => []EndedWaitIsClosed
  <1>1. TypeOK /\ RequestInv => EndedWaitIsClosed
    BY DEF TypeOK, RequestInv, ReqInv, CallInv, Settled, EndedWaitIsClosed
  <1> QED BY <1>1, TypeInit, TypeStep, RequestInit, RequestStep, PTL DEF Spec

(***************************************************************************)
(* The memory of answers.                                                  *)
(***************************************************************************)
Remembered(q) == {q[i] : i \in 1 .. Len(q)}

LEMMA Remembers ==
  ASSUME TypeOK, MemoryIsExact, NEW r \in Req, NEW a \in Answerer, answered[r] = None,
         RememberAnswer(r, a)
  PROVE  MemoryIsExact'
  <1> USE AnswersAssumption
  <1> DEFINE queue == Append(order, r)
             over  == IF Len(queue) > Kept THEN Len(queue) - Kept ELSE 0
             gone  == {queue[i] : i \in 1 .. over}
             n     == Len(order)
  <1>1. /\ order' = SubSeq(queue, over + 1, Len(queue))
        /\ answered' = [q \in Req |-> IF q \in gone THEN None
                                      ELSE IF q = r THEN a ELSE answered[q]]
    BY DEF RememberAnswer
  <1>2. n \in Nat /\ n <= Kept /\ order \in Seq(Req) /\ Kept \in Nat \ {0}
    BY DEF TypeOK, MemoryIsExact
  <1>3. /\ queue \in Seq(Req) /\ Len(queue) = n + 1 /\ queue[n + 1] = r
        /\ \A i \in 1 .. n : queue[i] = order[i]
    BY <1>2
  <1>4. /\ Remembered(order) = {q \in Req : answered[q] # None}
        /\ \A i, j \in 1 .. n : order[i] = order[j] => i = j
    BY DEF MemoryIsExact, Remembered
  <1>5. \A i \in 1 .. n : order[i] # r
    BY <1>4 DEF Remembered
  <1>6. \A i \in 1 .. n + 1 : i \in 1 .. n \/ i = n + 1
    BY <1>2
  <1>7. \A i, j \in 1 .. n + 1 : queue[i] = queue[j] => i = j
    <2> HIDE DEF queue
    <2> QED BY <1>3, <1>4, <1>5, <1>6
  <1>8. Remembered(queue) = Remembered(order) \cup {r}
    <2> HIDE DEF queue
    <2>1. n + 1 \in 1 .. n + 1 /\ \A i \in 1 .. n : i \in 1 .. n + 1
      BY <1>2
    <2> QED BY <1>3, <1>6, <2>1 DEF Remembered
  <1>9. over = (IF n = Kept THEN 1 ELSE 0)
    BY <1>2, <1>3
  <1> HIDE DEF queue, over
  <1>10. ASSUME Remembered(order') = Remembered(queue) \ gone, gone \subseteq Remembered(order),
                \A i, j \in 1 .. Len(order') : order'[i] = order'[j] => i = j,
                Len(order') <= Kept
         PROVE  MemoryIsExact'
    <2> HIDE DEF gone
    <2>1. r \notin gone /\ a # None
      BY <1>5, <1>10 DEF Remembered
    <2>2. \A q \in Req : answered'[q] # None <=> q \in Remembered(queue) \ gone
      BY <1>1, <1>4, <1>8, <2>1
    <2>3. Remembered(queue) \subseteq Req
      BY <1>4, <1>8
    <2>4. Remembered(order') = {q \in Req : answered'[q] # None}
      BY <1>10, <2>2, <2>3
    <2> QED BY <1>10, <2>4 DEF MemoryIsExact, Remembered
  <1>11. CASE n # Kept
    <2>1. order' = queue /\ gone = {}
      BY <1>1, <1>3, <1>9, <1>11
    <2>2. \A i, j \in 1 .. Len(order') : order'[i] = order'[j] => i = j
      BY <1>3, <1>7, <2>1
    <2>3. Len(order') <= Kept
      BY <1>2, <1>3, <1>11, <2>1
    <2> QED BY <1>10, <2>1, <2>2, <2>3
  <1>12. CASE n = Kept
    <2>1. gone = {order[1]} /\ 1 \in 1 .. n
      BY <1>2, <1>3, <1>9, <1>12
    <2>2. Len(order') = n /\ \A i \in 1 .. n : order'[i] = queue[i + 1]
      BY <1>1, <1>2, <1>3, <1>9, <1>12
    <2>3. \A i \in 1 .. n : i + 1 \in 1 .. n + 1 /\ i + 1 # 1
      BY <1>2
    <2>4. \A i, j \in 1 .. Len(order') : order'[i] = order'[j] => i = j
      <3> SUFFICES ASSUME NEW i \in 1 .. n, NEW j \in 1 .. n, queue[i + 1] = queue[j + 1]
                   PROVE  i = j
        BY <2>2
      <3>1. i + 1 = j + 1
        BY <1>7, <2>3
      <3> QED BY <1>2, <3>1
    <2>5. Remembered(order') = Remembered(queue) \ gone
      <3>1. 1 \in 1 .. n + 1 /\ queue[1] = order[1]
        <4>1. queue[1] = order[1]
          BY <1>3, <2>1
        <4> HIDE DEF n
        <4> QED BY <1>2, <4>1
      <3>2. \A i \in 1 .. n + 1 : i = 1 \/ (i - 1 \in 1 .. n /\ (i - 1) + 1 = i)
        BY <1>2
      <3>3. ASSUME NEW x \in Remembered(order') PROVE x \in Remembered(queue) \ gone
        <4>1. PICK i \in 1 .. n : x = queue[i + 1]
          BY <2>2, <3>3 DEF Remembered
        <4>2. i + 1 \in 1 .. Len(queue) /\ queue[i + 1] # order[1]
          BY <1>3, <1>7, <2>3, <3>1
        <4>3. x \in Remembered(queue)
          BY <4>1, <4>2 DEF Remembered
        <4> QED BY <2>1, <4>1, <4>2, <4>3
      <3>4. ASSUME NEW x \in Remembered(queue) \ gone PROVE x \in Remembered(order')
        <4>1. PICK i \in 1 .. n + 1 : x = queue[i]
          BY <1>3, <3>4 DEF Remembered
        <4>2. i # 1
          BY <2>1, <3>1, <3>4, <4>1
        <4>3. i - 1 \in 1 .. n /\ order'[i - 1] = x
          BY <2>2, <3>2, <4>1, <4>2
        <4> QED BY <2>2, <4>3 DEF Remembered
      <3> HIDE DEF gone
      <3> QED BY <3>3, <3>4
    <2>6. gone \subseteq Remembered(order)
      BY <2>1 DEF Remembered
    <2>7. Len(order') <= Kept
      BY <1>2, <1>12, <2>2
    <2> QED BY <1>10, <2>4, <2>5, <2>6, <2>7
  <1> QED BY <1>11, <1>12

LEMMA MemoryStep == TypeOK /\ MemoryIsExact /\ [Next]_vars => MemoryIsExact'
  <1> SUFFICES ASSUME TypeOK, MemoryIsExact, [Next]_vars PROVE MemoryIsExact'
    OBVIOUS
  <1>1. ASSUME UNCHANGED <<answered, order>>
        PROVE  MemoryIsExact'
    BY <1>1 DEF MemoryIsExact
  <1>2. ASSUME NEW a \in Answerer, answer_with_message(a)
        PROVE  MemoryIsExact'
    <2>1. about[a] \in Req
      BY <1>2 DEF answer_with_message, TypeOK
    <2>2. CASE Claims(about[a])
      <3>1. answered[about[a]] = None /\ RememberAnswer(about[a], a)
        BY <1>2, <2>2 DEF answer_with_message, Claims
      <3> QED BY <2>1, <3>1, Remembers
    <2>3. CASE ~Claims(about[a])
      BY <1>1, <1>2, <2>3 DEF answer_with_message, registry
    <2> QED BY <2>2, <2>3
  <1>3. ASSUME NEW c \in Call,
               \/ CallStep(c) \/ HookGone(c)
               \/ \E r \in Req, present \in BOOLEAN : AwaitBegins(c, r, present)
        PROVE  UNCHANGED <<answered, order>>
    BY <1>3 DEF CallStep, Opens, WaitBegins, Woken, DeadlinePasses, GivesUp, HookGone,
         AwaitBegins, registry
  <1>4. ASSUME NEW a \in Answerer,
               \/ FindsOpen(a) \/ ClearReads(a) \/ ClearRemoves(a)
               \/ \E r \in Req : answer_permission(a, r)
        PROVE  UNCHANGED <<answered, order>>
    BY <1>4 DEF FindsOpen, ClearReads, ClearRemoves, answer_permission, registry
  <1>5. ASSUME \/ NoticeReads \/ NoticeWrites \/ ReportsProgress
               \/ \E r \in Req : ReportsQuestion(r)
        PROVE  UNCHANGED <<answered, order>>
    BY <1>5 DEF NoticeReads, NoticeWrites, ReportsProgress, ReportsQuestion, registry
  <1>6. CASE UNCHANGED vars
    BY <1>1, <1>6 DEF vars, registry
  <1> QED BY <1>1, <1>2, <1>3, <1>4, <1>5, <1>6 DEF Next, AnswerStep

\* The queue of remembered answers is exactly the memory, within its limit, for
\* any limit and however answers, evictions and re-opened requests interleave.
THEOREM MemoryStaysExact == Spec => []MemoryIsExact
  <1>1. Init => MemoryIsExact
    BY AnswersAssumption DEF Init, MemoryIsExact
  <1> QED BY <1>1, TypeInit, TypeStep, MemoryStep, PTL DEF Spec
=============================================================================
