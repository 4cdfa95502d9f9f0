---------------------------- MODULE TaskRegistry ----------------------------
(***************************************************************************)
(* The daemon's registry of background tasks: tasks are spawned (or        *)
(* recorded when they are over already), run, are retained for a while     *)
(* after they end, and are removed, by age when too many have ended.  Each *)
(* task has a body and an exit monitor, both tasks of the runtime, and the *)
(* registry announces every change on a broadcast channel.                 *)
(*                                                                         *)
(* A watcher is a browser that shows the list: its stream subscribes,      *)
(* replays a snapshot, and forwards the channel.  An event says which task *)
(* it is about; its status is read from the task when it is forwarded.     *)
(* The map behind the registry is locked for each change, never across the *)
(* announcement of it, so announcements of different tasks' monitors cross.*)
(***************************************************************************)
EXTENDS Naturals, Sequences, FiniteSets

CONSTANTS Task, Watcher,
          Terminal,       \* the terminal statuses: Completed, Failed, Cancelled
          Time,           \* creation timestamps (wall clock: they may tie or step back)
          Cap,            \* TERMINAL_TASK_CAP
          Backlog,        \* events the broadcast channel keeps for a slow receiver
          MaxReconnects   \* bound: streams that break and are opened again

ASSUME TaskAssumption ==
    /\ Time \subseteq Nat
    /\ Cap \in Nat
    /\ Backlog \in Nat \ {0}
    /\ MaxReconnects \in Nat
    /\ {"Pending", "Running", "none"} \cap Terminal = {}

VARIABLES
    tasks,       \* the tasks in the registry
    status,      \* status[t], "none" before t exists
    created,     \* created[t]: created_unix_ms
    fresh,       \* fresh[t]: the monitor's watch has a status it has not been woken for
    unannounced, \* tasks inserted whose Added has not been sent
    body,        \* body[t]: where the body is
    monitor,     \* monitor[t]: where the exit monitor is
    evicted,     \* evicted[t]: tasks t's monitor evicted, Removed not sent yet
    stream,      \* stream[w]: where the watcher's stream is
    snapshot,    \* snapshot[w]: the list it read and has not delivered yet
    queue,       \* queue[w]: events sent and not forwarded yet
    view,        \* view[w][t]: what the watcher shows for t, "none" for nothing
    lagged,      \* lagged[w]: this stream has lost events
    gaps,        \* gaps[w]: w has lost events, in this stream or between two
    reconnects

taskVars == <<tasks, status, created, fresh, unannounced, body>>
monitorVars == <<monitor, evicted>>
sendVars == <<queue, lagged, gaps>>
watchVars == <<stream, snapshot, view, reconnects>>
vars == <<taskVars, monitorVars, sendVars, watchVars>>

Status == {"Pending", "Running"} \cup Terminal
Event == {"Added", "Updated", "Removed"} \X Task
MonitorState == {"none", "top", "waiting", "final", "evict", "tell", "ttl", "remove", "done"}

\* Every variable has the shape the code gives it; the channel keeps its limit.
TypeOK ==
    /\ tasks \subseteq Task
    /\ status \in [Task -> Status \cup {"none"}]
    /\ created \in [Task -> Time \cup {0}]
    /\ fresh \in [Task -> BOOLEAN]
    /\ unannounced \subseteq Task
    /\ body \in [Task -> {"none", "queued", "running", "returned", "panicked"}]
    /\ monitor \in [Task -> MonitorState]
    /\ evicted \in [Task -> SUBSET Task]
    /\ stream \in [Watcher -> {"off", "subscribed", "replaying", "live"}]
    /\ snapshot \in [Watcher -> SUBSET Task]
    /\ queue \in [Watcher -> Seq(Event)]
    /\ \A w \in Watcher : Len(queue[w]) <= Backlog
    /\ view \in [Watcher -> [Task -> Status \cup {"none"}]]
    /\ lagged \in [Watcher -> BOOLEAN]
    /\ gaps \in [Watcher -> BOOLEAN]
    /\ reconnects \in 0 .. MaxReconnects

Init ==
    /\ tasks = {}
    /\ status = [t \in Task |-> "none"]
    /\ created = [t \in Task |-> 0]
    /\ fresh = [t \in Task |-> FALSE]
    /\ unannounced = {}
    /\ body = [t \in Task |-> "none"]
    /\ monitor = [t \in Task |-> "none"]
    /\ evicted = [t \in Task |-> {}]
    /\ stream = [w \in Watcher |-> "off"]
    /\ snapshot = [w \in Watcher |-> {}]
    /\ queue = [w \in Watcher |-> << >>]
    /\ view = [w \in Watcher |-> [t \in Task |-> "none"]]
    /\ lagged = [w \in Watcher |-> FALSE]
    /\ gaps = [w \in Watcher |-> FALSE]
    /\ reconnects = 0

(***************************************************************************)
(* task_events.send: every subscribed receiver gets the event; one whose   *)
(* backlog is full loses its oldest.                                       *)
(***************************************************************************)
\* A channel that never drops.
NeverFull(w) == FALSE

Full(w) == stream[w] # "off" /\ Len(queue[w]) = Backlog

Send(kind, t) ==
    /\ queue' = [w \in Watcher |->
                   IF stream[w] = "off" THEN queue[w]
                   ELSE Append(IF Full(w) THEN Tail(queue[w]) ELSE queue[w], <<kind, t>>)]
    /\ lagged' = [w \in Watcher |-> lagged[w] \/ Full(w)]
    /\ gaps' = [w \in Watcher |-> gaps[w] \/ Full(w)]

(***************************************************************************)
(* spawn, and create_terminal_task for what is over already.               *)
(***************************************************************************)
Insert(t, first, at) ==
    /\ status[t] = "none"
    /\ status' = [status EXCEPT ![t] = first]
    /\ created' = [created EXCEPT ![t] = at]
    /\ fresh' = [fresh EXCEPT ![t] = first # "Pending"]
    /\ tasks' = tasks \cup {t}
    /\ unannounced' = unannounced \cup {t}
    /\ UNCHANGED <<body, monitorVars, sendVars, watchVars>>

spawn(t, at) == Insert(t, "Pending", at)

create_terminal_task(t, ending, at) == Insert(t, ending, at)

\* Added is sent, then the body (if there is one) and the monitor are spawned.
Announce(t) ==
    /\ t \in unannounced
    /\ unannounced' = unannounced \ {t}
    /\ Send("Added", t)
    /\ body' = [body EXCEPT ![t] = IF status[t] = "Pending" THEN "queued" ELSE @]
    /\ monitor' = [monitor EXCEPT ![t] = "top"]
    /\ UNCHANGED <<tasks, status, created, fresh, evicted, watchVars>>

(***************************************************************************)
(* The body.                                                               *)
(***************************************************************************)
SetStatus(t, next) ==
    /\ status' = [status EXCEPT ![t] = next]
    /\ fresh' = [fresh EXCEPT ![t] = TRUE]
    /\ UNCHANGED <<tasks, created, unannounced, monitorVars, sendVars, watchVars>>

\* set_running, then run.
BodyStarts(t) ==
    /\ body[t] = "queued"
    /\ body' = [body EXCEPT ![t] = "running"]
    /\ SetStatus(t, "Running")

\* run returns and set_terminal stores what it returned.
BodyReturns(t, ending) ==
    /\ body[t] = "running"
    /\ body' = [body EXCEPT ![t] = "returned"]
    /\ SetStatus(t, ending)

\* run panics: the runtime's task ends and set_terminal is never reached.
BodyPanics(t) ==
    /\ body[t] = "running"
    /\ body' = [body EXCEPT ![t] = "panicked"]
    /\ UNCHANGED <<tasks, status, created, fresh, unannounced, monitorVars,
                   sendVars, watchVars>>

(***************************************************************************)
(* exit_monitor.                                                           *)
(***************************************************************************)
MonitorGoes(t, to) ==
    /\ monitor' = [monitor EXCEPT ![t] = to]
    /\ UNCHANGED <<tasks, status, created, unannounced, body, watchVars>>

\* The top of the loop: borrow() looks without marking the status as seen.
MonitorLooks(t) ==
    /\ monitor[t] = "top"
    /\ MonitorGoes(t, IF status[t] \in Terminal THEN "final" ELSE "waiting")
    /\ UNCHANGED <<fresh, evicted, sendVars>>

\* A loop that waits for the next change without looking at this one.
MonitorWaitsAgain(t) ==
    /\ monitor[t] = "waiting"
    /\ fresh[t]
    /\ fresh' = [fresh EXCEPT ![t] = FALSE]
    /\ Send("Updated", t)
    /\ MonitorGoes(t, "waiting")
    /\ UNCHANGED evicted

\* changed() returns and the change is announced.
MonitorSeesChange(t) ==
    /\ monitor[t] = "waiting"
    /\ fresh[t]
    /\ fresh' = [fresh EXCEPT ![t] = FALSE]
    /\ Send("Updated", t)
    /\ MonitorGoes(t, "top")
    /\ UNCHANGED evicted

\* A monitor that relies on the loop's announcements for the last status too.
MonitorSkipsFinal(t) ==
    /\ monitor[t] = "final"
    /\ MonitorGoes(t, "evict")
    /\ UNCHANGED <<fresh, evicted, sendVars>>

MonitorAnnouncesEnd(t) ==
    /\ monitor[t] = "final"
    /\ Send("Updated", t)
    /\ MonitorGoes(t, "evict")
    /\ UNCHANGED <<fresh, evicted>>

\* A filter that takes every task for an ended one.
AnyTask == tasks

\* The tasks an eviction counts.
TerminalTasks == {t \in tasks : status[t] \in Terminal}

\* A cap that is exceeded by one before anything is evicted.
ExcessOffByOne == IF Cardinality(TerminalTasks) > Cap + 1 THEN 1 ELSE 0

Excess == IF Cardinality(TerminalTasks) > Cap THEN Cardinality(TerminalTasks) - Cap ELSE 0

\* evict_over_cap under the write lock: the oldest beyond the cap; ties are
\* broken by the map's order, which is arbitrary.
evict_over_cap(t) ==
    /\ monitor[t] = "evict"
    /\ \E oldest \in SUBSET TerminalTasks :
        /\ Cardinality(oldest) = Excess
        /\ \A a \in oldest, b \in TerminalTasks \ oldest : created[a] <= created[b]
        /\ tasks' = tasks \ oldest
        /\ evicted' = [evicted EXCEPT ![t] = oldest]
        /\ monitor' = [monitor EXCEPT ![t] = IF oldest = {} THEN "ttl" ELSE "tell"]
    /\ UNCHANGED <<status, created, fresh, unannounced, body, sendVars, watchVars>>

\* ... and the announcements, one by one, after the unlock.
TellEvicted(t, u) ==
    /\ monitor[t] = "tell"
    /\ u \in evicted[t]
    /\ evicted' = [evicted EXCEPT ![t] = @ \ {u}]
    /\ Send("Removed", u)
    /\ MonitorGoes(t, IF evicted[t] = {u} THEN "ttl" ELSE "tell")
    /\ UNCHANGED fresh

\* A monitor that ends when an eviction has taken its task already.
TtlOfTheRetained(t) ==
    /\ monitor[t] = "ttl"
    /\ tasks' = tasks \ {t}
    /\ monitor' = [monitor EXCEPT ![t] = IF t \in tasks THEN "remove" ELSE "done"]
    /\ UNCHANGED <<status, created, fresh, unannounced, body, evicted, sendVars, watchVars>>

\* The TTL is over: the task is removed, whether or not it was evicted before,
TtlExpires(t) ==
    /\ monitor[t] = "ttl"
    /\ tasks' = tasks \ {t}
    /\ monitor' = [monitor EXCEPT ![t] = "remove"]
    /\ UNCHANGED <<status, created, fresh, unannounced, body, evicted, sendVars, watchVars>>

\* ... and that is announced, even if it was before.
TellRemoved(t) ==
    /\ monitor[t] = "remove"
    /\ Send("Removed", t)
    /\ MonitorGoes(t, "done")
    /\ UNCHANGED <<fresh, evicted>>

(***************************************************************************)
(* A watcher: the stream of watch_task_list and the browser's map, which   *)
(* it only ever upserts into and deletes from.                             *)
(***************************************************************************)

\* list_and_subscribe: the subscription comes first,
Subscribes(w) ==
    /\ stream[w] = "off"
    /\ stream' = [stream EXCEPT ![w] = "subscribed"]
    /\ UNCHANGED <<taskVars, monitorVars, sendVars, snapshot, view, reconnects>>

\* ... the list is read after it,
ReadsSnapshot(w) ==
    /\ stream[w] = "subscribed"
    /\ stream' = [stream EXCEPT ![w] = IF tasks = {} THEN "live" ELSE "replaying"]
    /\ snapshot' = [snapshot EXCEPT ![w] = tasks]
    /\ UNCHANGED <<taskVars, monitorVars, sendVars, view, reconnects>>

\* ... and delivered task by task, with the status of now, before the first event.
ReplaysSnapshot(w, t) ==
    /\ t \in snapshot[w]
    /\ view' = [view EXCEPT ![w][t] = status[t]]
    /\ snapshot' = [snapshot EXCEPT ![w] = @ \ {t}]
    /\ stream' = [stream EXCEPT ![w] = IF snapshot[w] = {t} THEN "live" ELSE @]
    /\ UNCHANGED <<taskVars, monitorVars, sendVars, reconnects>>

\* The next event is forwarded: an upsert with the status of now, or a delete.
Forwards(w) ==
    /\ stream[w] = "live"
    /\ queue[w] # << >>
    /\ LET event == Head(queue[w]) IN
        view' = [view EXCEPT ![w][event[2]] =
                   IF event[1] = "Removed" THEN "none" ELSE status[event[2]]]
    /\ queue' = [queue EXCEPT ![w] = Tail(@)]
    /\ UNCHANGED <<taskVars, monitorVars, lagged, gaps, stream, snapshot, reconnects>>

\* The stream breaks; useTaskListStream will open another and keeps its map.
Disconnects(w) ==
    /\ reconnects < MaxReconnects
    /\ reconnects' = reconnects + 1
    /\ stream[w] # "off"
    /\ stream' = [stream EXCEPT ![w] = "off"]
    /\ queue' = [queue EXCEPT ![w] = << >>]
    /\ snapshot' = [snapshot EXCEPT ![w] = {}]
    /\ lagged' = [lagged EXCEPT ![w] = FALSE]
    /\ gaps' = [gaps EXCEPT ![w] = TRUE]
    /\ UNCHANGED <<taskVars, monitorVars, view>>

BodyStep(t) == BodyStarts(t) \/ BodyPanics(t) \/ \E e \in Terminal : BodyReturns(t, e)

MonitorStep(t) ==
    \/ MonitorLooks(t) \/ MonitorSeesChange(t) \/ MonitorAnnouncesEnd(t)
    \/ evict_over_cap(t) \/ TtlExpires(t) \/ TellRemoved(t)
    \/ \E u \in Task : TellEvicted(t, u)

WatcherStep(w) ==
    \/ Subscribes(w) \/ ReadsSnapshot(w) \/ Forwards(w)
    \/ \E t \in Task : ReplaysSnapshot(w, t)

Next ==
    \/ \E t \in Task, at \in Time :
        spawn(t, at) \/ \E e \in Terminal : create_terminal_task(t, e, at)
    \/ \E t \in Task : Announce(t) \/ BodyStep(t) \/ MonitorStep(t)
    \/ \E w \in Watcher : WatcherStep(w) \/ Disconnects(w)

Spec == Init /\ [][Next]_vars

\* Every task of the runtime that can go on does, and a stream is drained; a
\* body need not end, and nobody has to spawn a task.
Fairness ==
    /\ \A t \in Task : WF_vars(Announce(t)) /\ WF_vars(BodyStarts(t)) /\ WF_vars(MonitorStep(t))
    /\ \A w \in Watcher : WF_vars(WatcherStep(w))

FairSpec == Spec /\ Fairness

(***************************************************************************)
(* Safety.                                                                 *)
(***************************************************************************)

\* Only a task that has ended leaves the registry, whoever's monitor removes it.
OnlyTheEndedLeave ==
    [][\A t \in tasks \ tasks' : status[t] \in Terminal]_vars

\* Ended tasks exceed the cap only by those whose monitor has yet to evict.
CapIsKept ==
    Cardinality(TerminalTasks) <=
        Cap + Cardinality({t \in TerminalTasks :
                             monitor[t] \in {"none", "top", "waiting", "final", "evict"}})

\* An event among those in q will show t with its status.
Queued(q, t) == \E i \in 1 .. Len(q) : q[i] \in {"Added", "Updated"} \X {t}

\* Something is on its way that will tell w about the present status of t.  A monitor
\* at the top of its loop counts only if it will announce: it is going to find the
\* end, or has yet to be woken for this status.
NewsComing(w, t) ==
    \/ Queued(queue[w], t)
    \/ t \in unannounced
    \/ monitor[t] = "final"
    \/ monitor[t] = "top" /\ status[t] \in Terminal
    \/ monitor[t] \in {"top", "waiting"} /\ fresh[t]

\* A live stream that has not lagged shows every task of the registry with its
\* status, or will: subscribing before the snapshot leaves no gap, and the
\* monitor's announcements leave no status behind.
WatcherMissesNothing ==
    \A w \in Watcher, t \in Task :
        stream[w] = "live" /\ ~lagged[w] /\ t \in tasks =>
            view[w][t] = status[t] \/ NewsComing(w, t)

(***************************************************************************)
(* Liveness, under Fairness.                                               *)
(***************************************************************************)

\* A task that has ended is removed, be it by age or by its TTL.
EndedTasksLeave ==
    \A t \in Task : (t \in tasks /\ status[t] \in Terminal) ~> t \notin tasks

\* A watcher that has lost no event does not go on showing a task that is gone,
\* although Updated or Added may be forwarded after Removed: the Removed at the
\* end of the TTL is always the last word.
GhostsVanish ==
    \A w \in Watcher, t \in Task :
        (view[w][t] # "none" /\ t \notin tasks) ~> (view[w][t] = "none" \/ gaps[w])

(***************************************************************************)
(* What the repository says and the code does not do.                      *)
(***************************************************************************)

\* "The left pane lists tasks with live status updates"
\* (docs/ft/web/tasks-ui-realtime.md:11): a stream that was broken, reopened and
\* has not lagged since stops showing the tasks that are gone.
ReopenedListIsLive ==
    \A w \in Watcher, t \in Task :
        (view[w][t] # "none" /\ t \notin tasks) ~> (view[w][t] = "none" \/ lagged[w])
=============================================================================
