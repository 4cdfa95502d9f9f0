--------------------------- MODULE PendingAnswers ---------------------------
(***************************************************************************)
(* A session's agent asks for a permission: its hook reports the question, *)
(* which is kept in the session directory, then calls AwaitQuestionAnswer  *)
(* and is held on the daemon until the session's orchestrator answers or   *)
(* a deadline passes.  Hooks, status reports and answers run concurrently. *)
(*                                                                         *)
(* The registry of held hooks is locked for each of its operations; the    *)
(* file is read, written and removed without a lock.  A wait's wake-up is  *)
(* a oneshot channel: inbox is what its receiver will find.  An entry is   *)
(* identified by the call that opened it, which stands for its seq.        *)
(***************************************************************************)
EXTENDS Naturals, Sequences

CONSTANTS Req,       \* request ids, each minted for one report
          Call,      \* AwaitQuestionAnswer calls
          Answerer,  \* callers of AnswerSessionPermission; an answer is its answerer
          Kept,      \* ANSWERED_REQUESTS_KEPT
          None       \* Option::None

ASSUME AnswersAssumption ==
    /\ Kept \in Nat \ {0}
    /\ None \notin Req \cup Call \cup Answerer
    /\ "message" \notin Req

VARIABLES
    asked,      \* request ids minted so far
    file,       \* pending-question.json: a request, a bare message, or nothing
    notice,     \* a status report has found no question on file
    open,       \* open[r]: the call whose entry is open under r
    waiters,    \* waiters[r]: the call whose wake-up is registered under r
    delivered,  \* delivered[r]: an answer that came before its wait
    answered,   \* answered[r]: who answered r first, as long as it is remembered
    order,      \* the remembered requests, oldest first
    at, req,    \* at[c], req[c]: where a call is, and the request it is about
    seen,       \* seen[c]: the entry the wait found
    inbox,      \* inbox[c]: the answer in the wait's channel, or the one it returned
    step, about,\* step[a], about[a]: where an answering call is, and its request
    uncleared,  \* requests whose question an answering call failed to clear
    accepted    \* accepted[r]: who has been told that their answer to r was delivered

registry == <<open, waiters, delivered, answered, order>>
callVars == <<at, req, seen, inbox>>
answerVars == <<step, about, uncleared>>
vars == <<asked, file, notice, registry, callVars, answerVars, accepted>>

CallState == {"idle", "found", "opened", "waiting", "expired",
              "answered", "timedOut", "refused", "gone"}

\* Every variable has the shape the code gives it; a wait that is under way has
\* found an entry, and a call or an answer that has begun is about a request.
TypeOK ==
    /\ asked \subseteq Req
    /\ file \in Req \cup {"message", None}
    /\ notice \in BOOLEAN
    /\ open \in [Req -> Call \cup {None}]
    /\ waiters \in [Req -> Call \cup {None}]
    /\ delivered \in [Req -> Answerer \cup {None}]
    /\ answered \in [Req -> Answerer \cup {None}]
    /\ order \in Seq(Req)
    /\ at \in [Call -> CallState]
    /\ req \in [Call -> Req \cup {None}]
    /\ seen \in [Call -> Call \cup {None}]
    /\ inbox \in [Call -> Answerer \cup {None}]
    /\ step \in [Answerer -> {"idle", "checked", "found", "told", "clearing"}]
    /\ about \in [Answerer -> Req \cup {None}]
    /\ uncleared \subseteq Req
    /\ accepted \in [Req -> Seq(Answerer)]
    /\ \A c \in Call : /\ at[c] \in {"waiting", "expired"} => seen[c] \in Call
                       /\ at[c] # "idle" => req[c] \in Req
    /\ \A a \in Answerer : step[a] # "idle" => about[a] \in Req

Init ==
    /\ asked = {}
    /\ file = None
    /\ notice = FALSE
    /\ open = [r \in Req |-> None]
    /\ waiters = [r \in Req |-> None]
    /\ delivered = [r \in Req |-> None]
    /\ answered = [r \in Req |-> None]
    /\ order = << >>
    /\ at = [c \in Call |-> "idle"]
    /\ req = [c \in Call |-> None]
    /\ seen = [c \in Call |-> None]
    /\ inbox = [c \in Call |-> None]
    /\ step = [a \in Answerer |-> "idle"]
    /\ about = [a \in Answerer |-> None]
    /\ uncleared = {}
    /\ accepted = [r \in Req |-> << >>]

(***************************************************************************)
(* ReportSessionStatus.                                                    *)
(***************************************************************************)

\* A permission prompt: its question replaces the one on file, under a new id.
ReportsQuestion(r) ==
    /\ r \notin asked
    /\ asked' = asked \cup {r}
    /\ file' = r
    /\ UNCHANGED <<notice, registry, callVars, answerVars, accepted>>

\* The notification that follows a prompt finds no question on file.  (When it
\* finds one it keeps it, and a permission's question always has its text.)  The
\* notice in flight stands for any number of them.
NoticeReads ==
    /\ ~notice
    /\ file \notin Req
    /\ notice' = TRUE
    /\ UNCHANGED <<asked, file, registry, callVars, answerVars, accepted>>

\* ... and writes its message alone, or clears the file when it has none, whatever
\* was recorded there meanwhile, or fails to.
NoticeWrites ==
    /\ notice
    /\ notice' = FALSE
    /\ file' \in {"message", None, file}
    /\ UNCHANGED <<asked, registry, callVars, answerVars, accepted>>

\* Any other status: the session no longer waits.
ReportsProgress ==
    /\ file' = None
    /\ UNCHANGED <<asked, notice, registry, callVars, answerVars, accepted>>

(***************************************************************************)
(* AwaitQuestionAnswer.                                                    *)
(***************************************************************************)
CallGoes(c, to) == at' = [at EXCEPT ![c] = to]

\* Nobody is there to answer, or the question on file is another one, or the
\* hook will be held.
AwaitBegins(c, r, present) ==
    /\ at[c] = "idle"
    /\ r \in asked
    /\ req' = [req EXCEPT ![c] = r]
    /\ CallGoes(c, IF present /\ file = r THEN "found" ELSE "refused")
    /\ UNCHANGED <<asked, file, notice, registry, seen, inbox, answerVars, accepted>>

\* PendingAnswers::open: an earlier waiter under the id is dropped with whatever
\* was delivered to it.
Opens(c) ==
    /\ at[c] = "found"
    /\ open' = [open EXCEPT ![req[c]] = c]
    /\ waiters' = [waiters EXCEPT ![req[c]] = None]
    /\ delivered' = [delivered EXCEPT ![req[c]] = None]
    /\ CallGoes(c, "opened")
    /\ UNCHANGED <<asked, file, notice, answered, order, req, seen, inbox, answerVars, accepted>>

\* A wait that does not ask whether its request is still open.
WaitsUnopened(c) ==
    LET r == req[c] IN
    /\ at[c] = "opened"
    /\ IF delivered[r] # None
       THEN /\ inbox' = [inbox EXCEPT ![c] = delivered[r]]
            /\ delivered' = [delivered EXCEPT ![r] = None]
            /\ CallGoes(c, "answered")
            /\ UNCHANGED <<waiters, seen>>
       ELSE /\ seen' = [seen EXCEPT ![c] = open[r]]
            /\ waiters' = [waiters EXCEPT ![r] = c]
            /\ CallGoes(c, "waiting")
            /\ UNCHANGED <<inbox, delivered>>
    /\ UNCHANGED <<asked, file, notice, open, answered, order, req, answerVars, accepted>>

\* The first half of PendingAnswers::wait, under the lock: an answer is there
\* already, the entry is gone, or the wake-up is registered.
WaitBegins(c) ==
    LET r == req[c] IN
    /\ at[c] = "opened"
    /\ \/ /\ delivered[r] # None
          /\ inbox' = [inbox EXCEPT ![c] = delivered[r]]
          /\ delivered' = [delivered EXCEPT ![r] = None]
          /\ CallGoes(c, "answered")
          /\ UNCHANGED <<waiters, seen>>
       \/ /\ delivered[r] = None /\ open[r] = None
          /\ CallGoes(c, "timedOut")
          /\ UNCHANGED <<waiters, seen, inbox, delivered>>
       \/ /\ delivered[r] = None /\ open[r] # None
          /\ seen' = [seen EXCEPT ![c] = open[r]]
          /\ waiters' = [waiters EXCEPT ![r] = c]
          /\ CallGoes(c, "waiting")
          /\ UNCHANGED <<inbox, delivered>>
    /\ UNCHANGED <<asked, file, notice, open, answered, order, req, answerVars, accepted>>

\* The answer is in the channel.
Woken(c) ==
    /\ at[c] = "waiting"
    /\ inbox[c] # None
    /\ CallGoes(c, "answered")
    /\ UNCHANGED <<asked, file, notice, registry, req, seen, inbox, answerVars, accepted>>

\* A wait without a deadline: it ends only when its wake-up is dropped.
NeverPasses(c) ==
    /\ at[c] = "waiting"
    /\ inbox[c] = None /\ waiters[req[c]] # c
    /\ CallGoes(c, "expired")
    /\ UNCHANGED <<asked, file, notice, registry, req, seen, inbox, answerVars, accepted>>

\* The deadline passes with nothing in the channel, or another open has dropped
\* the wake-up.  The lock is not held yet, so an answer can still come.
DeadlinePasses(c) ==
    /\ at[c] = "waiting"
    /\ inbox[c] = None
    /\ CallGoes(c, "expired")
    /\ UNCHANGED <<asked, file, notice, registry, req, seen, inbox, answerVars, accepted>>

\* A wait that gives up without another look into its channel.
GivesUpBlindly(c) ==
    /\ at[c] = "expired"
    /\ CallGoes(c, "timedOut")
    /\ UNCHANGED <<open, waiters, asked, file, notice, delivered, answered, order, req, seen,
                   inbox, answerVars, accepted>>

\* A wait that gives up and leaves its entry behind.
GivesUpOpen(c) ==
    /\ at[c] = "expired"
    /\ CallGoes(c, IF inbox[c] = None THEN "timedOut" ELSE "answered")
    /\ UNCHANGED <<open, waiters, asked, file, notice, delivered, answered, order, req, seen,
                   inbox, answerVars, accepted>>

\* The second half of wait, under the lock: an answer that came after all is
\* taken; otherwise the entry is closed if it is still the one the wait found.
GivesUp(c) ==
    LET r == req[c]
        closes == inbox[c] = None /\ open[r] # None /\ open[r] = seen[c]
    IN  /\ at[c] = "expired"
        /\ CallGoes(c, IF inbox[c] = None THEN "timedOut" ELSE "answered")
        /\ open' = IF closes THEN [open EXCEPT ![r] = None] ELSE open
        /\ waiters' = IF closes THEN [waiters EXCEPT ![r] = None] ELSE waiters
        /\ UNCHANGED <<asked, file, notice, delivered, answered, order, req, seen, inbox,
                       answerVars, accepted>>

\* The hook goes away and its held request with it; the registry is not told.
HookGone(c) ==
    /\ at[c] = "waiting"
    /\ CallGoes(c, "gone")
    /\ UNCHANGED <<asked, file, notice, registry, req, seen, inbox, answerVars, accepted>>

(***************************************************************************)
(* AnswerSessionPermission by the session's orchestrator.  A refusal ends  *)
(* the call and changes nothing.                                           *)
(***************************************************************************)
AnswerGoes(a, to) ==
    /\ step' = [step EXCEPT ![a] = to]
    /\ about' = IF to = "idle" THEN [about EXCEPT ![a] = None] ELSE about

\* Nobody answered it first, and it is the question on file.
answer_permission(a, r) ==
    /\ step[a] = "idle"
    /\ r \in asked
    /\ answered[r] = None
    /\ file = r
    /\ step' = [step EXCEPT ![a] = "checked"]
    /\ about' = [about EXCEPT ![a] = r]
    /\ UNCHANGED <<asked, file, notice, registry, callVars, uncleared, accepted>>

\* A hook is waiting on it.
FindsOpen(a) ==
    /\ step[a] = "checked"
    /\ AnswerGoes(a, IF open[about[a]] # None THEN "found" ELSE "idle")
    /\ UNCHANGED <<asked, file, notice, registry, callVars, uncleared, accepted>>

\* An answer that does not ask who answered first.
ClaimsUnasked(r) == open[r] # None

\* An answer that is refused only while the first one is remembered.
ClaimsAny(r) == answered[r] = None

\* What the registry demands under its lock.
Claims(r) == answered[r] = None /\ open[r] # None

\* remember_answer: the oldest answers beyond Kept are forgotten.
RememberAnswer(r, a) ==
    LET queue == Append(order, r)
        over  == IF Len(queue) > Kept THEN Len(queue) - Kept ELSE 0
        gone  == {queue[i] : i \in 1 .. over}
    IN  /\ order' = SubSeq(queue, over + 1, Len(queue))
        /\ answered' = [q \in Req |-> IF q \in gone THEN None
                                      ELSE IF q = r THEN a ELSE answered[q]]

\* The entry is taken, the answer remembered, and the waiter woken, or the answer
\* left for the wait to come.
answer_with_message(a) ==
    LET r == about[a]
        w == waiters[r]
    IN  /\ step[a] = "found"
        /\ \/ /\ Claims(r)
              /\ open' = [open EXCEPT ![r] = None]
              /\ RememberAnswer(r, a)
              /\ waiters' = [waiters EXCEPT ![r] = None]
              /\ inbox' = IF w = None THEN inbox ELSE [inbox EXCEPT ![w] = a]
              /\ delivered' = IF w = None THEN [delivered EXCEPT ![r] = a] ELSE delivered
              /\ accepted' = [accepted EXCEPT ![r] = Append(@, a)]
              /\ AnswerGoes(a, "told")
           \/ /\ ~Claims(r)
              /\ AnswerGoes(a, "idle")
              /\ UNCHANGED <<registry, inbox, accepted>>
        /\ UNCHANGED <<asked, file, notice, at, req, seen, uncleared>>

\* A clean-up that looks for the wrong question.
NotCurrent(a) == file # about[a]

\* clear_answered_pending_question: is the answered question still on file?
StillPending(a) == file = about[a]

\* A file that cannot be read counts as none: the question stays where it is.
ClearReads(a) ==
    /\ step[a] = "told"
    /\ \/ /\ AnswerGoes(a, IF StillPending(a) THEN "clearing" ELSE "idle")
          /\ UNCHANGED uncleared
       \/ /\ AnswerGoes(a, "idle")
          /\ uncleared' = uncleared \cup {about[a]}
    /\ UNCHANGED <<asked, file, notice, registry, callVars, accepted>>

\* ... then the file is removed, whatever it holds by now, or stays where it is,
\* which is logged.
ClearRemoves(a) ==
    /\ step[a] = "clearing"
    /\ AnswerGoes(a, "idle")
    /\ \/ /\ file' = None
          /\ UNCHANGED uncleared
       \/ /\ uncleared' = uncleared \cup {about[a]}
          /\ UNCHANGED file
    /\ UNCHANGED <<asked, notice, registry, callVars, accepted>>

CallStep(c) == Opens(c) \/ WaitBegins(c) \/ Woken(c) \/ DeadlinePasses(c) \/ GivesUp(c)

AnswerStep(a) == FindsOpen(a) \/ answer_with_message(a) \/ ClearReads(a) \/ ClearRemoves(a)

Next ==
    \/ \E r \in Req : ReportsQuestion(r)
    \/ NoticeReads \/ NoticeWrites \/ ReportsProgress
    \/ \E c \in Call : CallStep(c) \/ HookGone(c)
    \/ \E c \in Call, r \in Req, present \in BOOLEAN : AwaitBegins(c, r, present)
    \/ \E a \in Answerer : AnswerStep(a) \/ \E r \in Req : answer_permission(a, r)

Spec == Init /\ [][Next]_vars

\* A call the daemon has taken up goes on, and the deadline of a wait passes;
\* nobody has to report, to ask or to answer.
Fairness ==
    /\ \A c \in Call : WF_vars(CallStep(c))
    /\ \A a \in Answerer : WF_vars(AnswerStep(a))

FairSpec == Spec /\ Fairness

(***************************************************************************)
(* Safety.  A hook awaits its own report's request, once; where an         *)
(* invariant depends on that it says so.                                   *)
(***************************************************************************)
Alone(r) == \A c, d \in Call : req[c] = r /\ req[d] = r => c = d

\* An orchestrator that was told its answer was delivered is not contradicted by
\* the hook: a wait never times out on a request whose answer was accepted, even
\* when the answer lands between the deadline and the wait's last look, and what the
\* hook gets is the one answer that was accepted.
AcceptedIsReceived ==
    \A c \in Call : Alone(req[c]) =>
        /\ at[c] = "timedOut" => accepted[req[c]] = << >>
        /\ at[c] = "answered" => accepted[req[c]] = <<inbox[c]>>

\* A request is answered once, also after the registry has forgotten the answer.
FirstAnswerWins == \A r \in Req : Alone(r) => Len(accepted[r]) <= 1

\* A wait that has ended leaves nothing that a later answer could be given to.
EndedWaitIsClosed ==
    \A c \in Call : at[c] \in {"answered", "timedOut"} /\ Alone(req[c]) =>
        open[req[c]] = None /\ waiters[req[c]] = None /\ delivered[req[c]] = None

\* The queue of remembered answers lists each of them once, and no more than Kept,
\* however answers, evictions and re-opened requests follow one another.
MemoryIsExact ==
    /\ Len(order) <= Kept
    /\ \A i, j \in 1 .. Len(order) : order[i] = order[j] => i = j
    /\ {order[i] : i \in 1 .. Len(order)} = {r \in Req : answered[r] # None}

(***************************************************************************)
(* What the repository says and the code does not do.                      *)
(***************************************************************************)

\* "Claude may have recorded its next question, and that one is not this answer's
\* to clear" (answers.rs:320-321).
ClearSparesTheNext ==
    [][\A a \in Answerer :
        step[a] = "clearing" /\ step'[a] = "idle" /\ file' # file => file = about[a]]_vars

(***************************************************************************)
(* Liveness, under Fairness.                                               *)
(***************************************************************************)

\* A held hook is let go: no hook waits for ever, answered or not.
HoldEnds == \A c \in Call : at[c] = "opened" ~> at[c] \in {"answered", "timedOut", "gone"}

\* An answered question does not stay on file, unless the file could not be read or
\* removed; then it waits for the session's next status report.
AnsweredIsCleared ==
    \A r \in Req : (file = r /\ accepted[r] # << >>) ~> (file # r \/ r \in uncleared)
=============================================================================
