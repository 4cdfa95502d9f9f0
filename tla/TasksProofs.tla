---------------------------- MODULE TasksProofs ----------------------------
(***************************************************************************)
(* The registry of tasks and its watchers for any number of tasks and      *)
(* watchers, any cap and any backlog.                                      *)
(***************************************************************************)
EXTENDS TaskRegistry, FiniteSetTheorems, TLAPS

(***************************************************************************)
(* Types.                                                                  *)
(***************************************************************************)

\* A send keeps the channel within its backlog.
LEMMA SendTypes ==
  ASSUME TypeOK, NEW kind \in {"Added", "Updated", "Removed"}, NEW t \in Task, Send(kind, t)
  PROVE  /\ queue' \in [Watcher -> Seq(Event)]
         /\ \A w \in Watcher : Len(queue'[w]) <= Backlog
         /\ lagged' \in [Watcher -> BOOLEAN]
         /\ gaps' \in [Watcher -> BOOLEAN]
  <1> USE TaskAssumption
  <1> DEFINE e == <<kind, t>>
             next(w) == IF stream[w] = "off" THEN queue[w]
                        ELSE Append(IF Full(w) THEN Tail(queue[w]) ELSE queue[w], e)
  <1>1. e \in Event
    BY DEF Event
  <1>2. queue' = [w \in Watcher |-> next(w)]
    BY DEF Send
  <1>3. lagged' \in [Watcher -> BOOLEAN] /\ gaps' \in [Watcher -> BOOLEAN]
    BY DEF Send, Full
  <1>4. ASSUME NEW w \in Watcher
        PROVE  next(w) \in Seq(Event) /\ Len(next(w)) <= Backlog
    <2> HIDE DEF e
    <2>1. queue[w] \in Seq(Event) /\ Len(queue[w]) \in Nat /\ Len(queue[w]) <= Backlog
      BY DEF TypeOK
    <2>2. CASE stream[w] = "off"
      BY <2>1, <2>2
    <2>3. CASE stream[w] # "off" /\ Full(w)
      <3>1. Len(queue[w]) = Backlog /\ queue[w] # << >>
        BY <2>1, <2>3 DEF Full
      <3>2. Tail(queue[w]) \in Seq(Event) /\ Len(Tail(queue[w])) = Backlog - 1
        BY <2>1, <3>1
      <3> QED BY <1>1, <2>3, <3>2
    <2>4. CASE stream[w] # "off" /\ ~Full(w)
      <3>1. Len(queue[w]) < Backlog
        BY <2>1, <2>4 DEF Full
      <3> QED BY <1>1, <2>1, <2>4, <3>1
    <2> QED BY <2>2, <2>3, <2>4
  <1> HIDE DEF next
  <1> QED BY <1>2, <1>3, <1>4

LEMMA TypeInit == Init => TypeOK
  <1> SUFFICES ASSUME Init PROVE TypeOK
    OBVIOUS
  <1> USE TaskAssumption DEF Init
  <1>1. queue \in [Watcher -> Seq(Event)] /\ \A w \in Watcher : Len(queue[w]) <= Backlog
    OBVIOUS
  <1>2. /\ status \in [Task -> Status \cup {"none"}]
        /\ created \in [Task -> Time \cup {0}]
        /\ fresh \in [Task -> BOOLEAN]
        /\ body \in [Task -> {"none", "queued", "running", "returned", "panicked"}]
        /\ monitor \in [Task -> MonitorState]
        /\ evicted \in [Task -> SUBSET Task]
    BY DEF MonitorState
  <1>3. /\ stream \in [Watcher -> {"off", "subscribed", "replaying", "live"}]
        /\ snapshot \in [Watcher -> SUBSET Task]
        /\ view \in [Watcher -> [Task -> Status \cup {"none"}]]
        /\ lagged \in [Watcher -> BOOLEAN]
        /\ gaps \in [Watcher -> BOOLEAN]
        /\ reconnects \in 0 .. MaxReconnects
    OBVIOUS
  <1>4. tasks \subseteq Task /\ unannounced \subseteq Task
    OBVIOUS
  <1> QED BY <1>1, <1>2, <1>3, <1>4 DEF TypeOK

LEMMA TypeStep == TypeOK /\ [Next]_vars => TypeOK'
  <1> SUFFICES ASSUME TypeOK, [Next]_vars PROVE TypeOK'
    OBVIOUS
  <1> USE TaskAssumption DEF taskVars, monitorVars, sendVars, watchVars
  <1>1. ASSUME NEW t \in Task, NEW at \in Time, NEW first \in Status, Insert(t, first, at)
        PROVE  TypeOK'
    BY <1>1 DEF Insert, TypeOK
  <1>2. ASSUME NEW t \in Task, Announce(t) PROVE TypeOK'
    <2>1. Send("Added", t)
      BY <1>2 DEF Announce
    <2>2. /\ body' \in [Task -> {"none", "queued", "running", "returned", "panicked"}]
          /\ monitor' \in [Task -> MonitorState] /\ unannounced' \subseteq Task
      BY <1>2 DEF Announce, TypeOK, MonitorState
    <2> QED BY <1>2, <2>1, <2>2, SendTypes DEF Announce, TypeOK
  <1>3. ASSUME NEW t \in Task, BodyStep(t) PROVE TypeOK'
    <2>1. ASSUME NEW next \in Status, SetStatus(t, next),
                 NEW to \in {"running", "returned"}, body' = [body EXCEPT ![t] = to]
          PROVE  TypeOK'
      BY <2>1 DEF SetStatus, TypeOK
    <2>2. CASE BodyStarts(t)
      BY <2>1, <2>2 DEF BodyStarts, Status
    <2>3. CASE BodyPanics(t)
      BY <2>3 DEF BodyPanics, TypeOK
    <2>4. ASSUME NEW e \in Terminal, BodyReturns(t, e) PROVE TypeOK'
      BY <2>1, <2>4 DEF BodyReturns, Status
    <2> QED BY <1>3, <2>2, <2>3, <2>4 DEF BodyStep
  <1>4. ASSUME NEW t \in Task, NEW kind \in {"Added", "Updated", "Removed"}, NEW u \in Task,
               NEW to \in MonitorState, Send(kind, u), MonitorGoes(t, to),
               fresh' \in [Task -> BOOLEAN], evicted' \in [Task -> SUBSET Task]
        PROVE  TypeOK'
    <2>1. monitor' \in [Task -> MonitorState]
      BY <1>4 DEF MonitorGoes, TypeOK
    <2> QED BY <1>4, <2>1, SendTypes DEF MonitorGoes, TypeOK
  <1>5. ASSUME NEW t \in Task, MonitorStep(t) PROVE TypeOK'
    <2>1. CASE MonitorLooks(t)
      BY <2>1 DEF MonitorLooks, MonitorGoes, TypeOK, MonitorState
    <2>2. CASE MonitorSeesChange(t)
      <3>1. fresh' \in [Task -> BOOLEAN] /\ evicted' \in [Task -> SUBSET Task]
        BY <2>2 DEF MonitorSeesChange, TypeOK
      <3> QED BY <1>4, <2>2, <3>1 DEF MonitorSeesChange, MonitorState
    <2>3. CASE MonitorAnnouncesEnd(t)
      <3>1. fresh' \in [Task -> BOOLEAN] /\ evicted' \in [Task -> SUBSET Task]
        BY <2>3 DEF MonitorAnnouncesEnd, TypeOK
      <3> QED BY <1>4, <2>3, <3>1 DEF MonitorAnnouncesEnd, MonitorState
    <2>4. CASE evict_over_cap(t)
      BY <2>4 DEF evict_over_cap, TerminalTasks, TypeOK, MonitorState
    <2>5. CASE TtlExpires(t)
      BY <2>5 DEF TtlExpires, TypeOK, MonitorState
    <2>6. CASE TellRemoved(t)
      <3>1. fresh' \in [Task -> BOOLEAN] /\ evicted' \in [Task -> SUBSET Task]
        BY <2>6 DEF TellRemoved, TypeOK
      <3> QED BY <1>4, <2>6, <3>1 DEF TellRemoved, MonitorState
    <2>7. ASSUME NEW u \in Task, TellEvicted(t, u) PROVE TypeOK'
      <3>1. fresh' \in [Task -> BOOLEAN] /\ evicted' \in [Task -> SUBSET Task]
        BY <2>7 DEF TellEvicted, TypeOK
      <3>2. \E to \in MonitorState : MonitorGoes(t, to)
        BY <2>7 DEF TellEvicted, MonitorState
      <3> QED BY <1>4, <2>7, <3>1, <3>2 DEF TellEvicted
    <2> QED BY <1>5, <2>1, <2>2, <2>3, <2>4, <2>5, <2>6, <2>7 DEF MonitorStep
  <1>6. ASSUME NEW w \in Watcher, \/ Subscribes(w) \/ ReadsSnapshot(w)
                                  \/ \E t \in Task : ReplaysSnapshot(w, t)
        PROVE  TypeOK'
    <2>1. CASE Subscribes(w)
      BY <2>1 DEF Subscribes, TypeOK
    <2>2. CASE ReadsSnapshot(w)
      BY <2>2 DEF ReadsSnapshot, TypeOK
    <2>3. ASSUME NEW t \in Task, ReplaysSnapshot(w, t) PROVE TypeOK'
      <3>1. status[t] \in Status \cup {"none"} /\ view' = [view EXCEPT ![w][t] = status[t]]
        BY <2>3 DEF ReplaysSnapshot, TypeOK
      <3>2. view' \in [Watcher -> [Task -> Status \cup {"none"}]]
        BY <3>1 DEF TypeOK
      <3> QED BY <2>3, <3>2 DEF ReplaysSnapshot, TypeOK
    <2> QED BY <1>6, <2>1, <2>2, <2>3
  <1>7. ASSUME NEW w \in Watcher, Forwards(w) PROVE TypeOK'
    <2> DEFINE q == queue[w]
               e == Head(q)
               shown == IF e[1] = "Removed" THEN "none" ELSE status[e[2]]
    <2>1. q \in Seq(Event) /\ q # << >> /\ Len(q) <= Backlog
      BY <1>7 DEF Forwards, TypeOK
    <2>2. e \in Event /\ Tail(q) \in Seq(Event) /\ Len(Tail(q)) <= Backlog
      BY <2>1
    <2>3. e[2] \in Task /\ shown \in Status \cup {"none"}
      BY <2>2 DEF Event, TypeOK
    <2>4. /\ view' = [view EXCEPT ![w][e[2]] = shown]
          /\ queue' = [queue EXCEPT ![w] = Tail(q)]
          /\ UNCHANGED <<taskVars, monitorVars, lagged, gaps, stream, snapshot, reconnects>>
      BY <1>7 DEF Forwards
    <2> HIDE DEF e, shown
    <2>5. view' \in [Watcher -> [Task -> Status \cup {"none"}]]
      BY <2>3, <2>4 DEF TypeOK
    <2>6. queue' \in [Watcher -> Seq(Event)] /\ \A v \in Watcher : Len(queue'[v]) <= Backlog
      BY <2>2, <2>4 DEF TypeOK
    <2> QED BY <2>4, <2>5, <2>6 DEF TypeOK
  <1>8. ASSUME NEW w \in Watcher, Disconnects(w) PROVE TypeOK'
    <2>1. << >> \in Seq(Event) /\ Len(<< >>) = 0
      OBVIOUS
    <2>2. queue' \in [Watcher -> Seq(Event)] /\ \A v \in Watcher : Len(queue'[v]) <= Backlog
      BY <1>8, <2>1 DEF Disconnects, TypeOK
    <2> QED BY <1>8, <2>2 DEF Disconnects, TypeOK
  <1>9. CASE UNCHANGED vars
    BY <1>9 DEF vars, TypeOK
  <1> QED BY <1>1, <1>2, <1>3, <1>5, <1>6, <1>7, <1>8, <1>9
          DEF Next, WatcherStep, spawn, create_terminal_task, Status

\* The variables always have the types the code gives them, the channel's limit
\* included.
THEOREM TypeCorrect == Spec => []TypeOK
  BY TypeInit, TypeStep, PTL DEF Spec

(***************************************************************************)
(* A task's life.                                                          *)
(***************************************************************************)

\* The stages of a monitor that has seen its task's end.
Ending == {"final", "evict", "tell", "ttl", "remove", "done"}

\* Status, body and monitor of a task go together.
LifeInv ==
    \A t \in Task :
        /\ status[t] = "none" => /\ t \notin tasks /\ t \notin unannounced
                                 /\ body[t] = "none" /\ monitor[t] = "none"
        /\ t \in unannounced => body[t] = "none" /\ monitor[t] = "none"
        /\ body[t] = "queued" => status[t] = "Pending" /\ monitor[t] \in {"top", "waiting"}
        /\ body[t] = "running" => status[t] = "Running" /\ monitor[t] \in {"top", "waiting"}
        /\ monitor[t] \in Ending => status[t] \in Terminal

\* What any step does to the tasks: new ones come, a status that is final stays.
LifeKept ==
    /\ \A t \in Task : status[t] \in Terminal => status'[t] = status[t]
    /\ \A t \in Task : status[t] # "none" => status'[t] # "none" /\ (t \in tasks' => t \in tasks)
    /\ \A t \in tasks \ tasks' : status[t] \in Terminal

LEMMA LifeStep == TypeOK /\ LifeInv /\ [Next]_vars => LifeInv' /\ LifeKept
  <1> SUFFICES ASSUME TypeOK, LifeInv, [Next]_vars PROVE LifeInv' /\ LifeKept
    OBVIOUS
  <1> USE TaskAssumption DEF taskVars, monitorVars, Ending
  <1>1. CASE UNCHANGED <<tasks, status, unannounced, body, monitor>>
    BY <1>1 DEF LifeInv, LifeKept
  <1>2. ASSUME NEW t \in Task, NEW at \in Time, NEW first \in Status \ {"Running"},
               Insert(t, first, at)
        PROVE  LifeInv' /\ LifeKept
    <2>1. /\ status[t] = "none" /\ first # "none"
          /\ status' = [status EXCEPT ![t] = first]
          /\ tasks' = tasks \cup {t} /\ unannounced' = unannounced \cup {t}
          /\ UNCHANGED <<body, monitor>>
      BY <1>2 DEF Insert, Status
    <2>2. LifeInv'
      BY <2>1 DEF LifeInv, TypeOK
    <2>3. LifeKept
      BY <2>1 DEF LifeKept, TypeOK
    <2> QED BY <2>2, <2>3
  <1>3. ASSUME NEW t \in Task, Announce(t) PROVE LifeInv' /\ LifeKept
    <2>1. /\ t \in unannounced /\ unannounced' = unannounced \ {t}
          /\ body' = [body EXCEPT ![t] = IF status[t] = "Pending" THEN "queued" ELSE @]
          /\ monitor' = [monitor EXCEPT ![t] = "top"]
          /\ UNCHANGED <<tasks, status>>
      BY <1>3 DEF Announce
    <2>2. LifeInv'
      BY <2>1 DEF LifeInv, TypeOK
    <2>3. LifeKept
      BY <2>1 DEF LifeKept
    <2> QED BY <2>2, <2>3
  <1>4. ASSUME NEW t \in Task, BodyStep(t) PROVE LifeInv' /\ LifeKept
    <2>1. ASSUME NEW next \in Status, next # "none", SetStatus(t, next), body[t] \in {"queued", "running"},
                 NEW to \in {"running", "returned"}, body' = [body EXCEPT ![t] = to],
                 to = "running" => next = "Running"
          PROVE  LifeInv' /\ LifeKept
      <3>1. /\ status' = [status EXCEPT ![t] = next]
            /\ UNCHANGED <<tasks, unannounced, monitor>>
        BY <2>1 DEF SetStatus
      <3>2. /\ t \notin unannounced /\ status[t] \in {"Pending", "Running"}
            /\ monitor[t] \in {"top", "waiting"}
        BY <2>1 DEF LifeInv
      <3>3. LifeInv'
        BY <2>1, <3>1, <3>2 DEF LifeInv, TypeOK
      <3>4. LifeKept
        BY <2>1, <3>1, <3>2 DEF LifeKept, TypeOK
      <3> QED BY <3>3, <3>4
    <2>2. CASE BodyStarts(t)
      BY <2>1, <2>2 DEF BodyStarts, Status
    <2>3. CASE BodyPanics(t)
      <3>1. body' = [body EXCEPT ![t] = "panicked"] /\ body[t] = "running"
            /\ UNCHANGED <<tasks, status, unannounced, monitor>>
        BY <2>3 DEF BodyPanics
      <3> QED BY <3>1 DEF LifeInv, LifeKept, TypeOK
    <2>4. ASSUME NEW e \in Terminal, BodyReturns(t, e) PROVE LifeInv' /\ LifeKept
      BY <2>1, <2>4 DEF BodyReturns, Status
    <2> QED BY <1>4, <2>2, <2>3, <2>4 DEF BodyStep
  <1>5. ASSUME NEW t \in Task, NEW to \in {"top", "waiting"} \cup Ending,
               monitor[t] # "none", monitor' = [monitor EXCEPT ![t] = to],
               status[t] \in Terminal \/ to \in {"top", "waiting"},
               to \in {"top", "waiting"} => monitor[t] \in {"top", "waiting"},
               tasks' \subseteq tasks, \A u \in tasks \ tasks' : status[u] \in Terminal,
               UNCHANGED <<status, unannounced, body>>
        PROVE  LifeInv' /\ LifeKept
    <2>1. LifeInv'
      BY <1>5 DEF LifeInv, TypeOK
    <2>2. LifeKept
      BY <1>5 DEF LifeKept
    <2> QED BY <2>1, <2>2
  <1>6. ASSUME NEW t \in Task, MonitorStep(t) PROVE LifeInv' /\ LifeKept
    <2>1. monitor[t] \in Ending => status[t] \in Terminal
      BY DEF LifeInv
    <2>2. CASE MonitorLooks(t)
      BY <1>5, <2>2 DEF MonitorLooks, MonitorGoes
    <2>3. CASE MonitorSeesChange(t)
      BY <1>5, <2>3 DEF MonitorSeesChange, MonitorGoes
    <2>4. CASE MonitorAnnouncesEnd(t) \/ TellRemoved(t)
      BY <1>5, <2>1, <2>4 DEF MonitorAnnouncesEnd, TellRemoved, MonitorGoes
    <2>5. CASE evict_over_cap(t)
      <3>1. PICK oldest \in SUBSET TerminalTasks :
                   /\ tasks' = tasks \ oldest
                   /\ monitor' = [monitor EXCEPT ![t] = IF oldest = {} THEN "ttl" ELSE "tell"]
        BY <2>5 DEF evict_over_cap
      <3> QED BY <1>5, <2>1, <2>5, <3>1 DEF evict_over_cap, TerminalTasks
    <2>6. CASE TtlExpires(t)
      BY <1>5, <2>1, <2>6 DEF TtlExpires
    <2>7. ASSUME NEW u \in Task, TellEvicted(t, u) PROVE LifeInv' /\ LifeKept
      BY <1>5, <2>1, <2>7 DEF TellEvicted, MonitorGoes
    <2> QED BY <1>6, <2>2, <2>3, <2>4, <2>5, <2>6, <2>7 DEF MonitorStep
  <1>7. ASSUME NEW w \in Watcher, WatcherStep(w) \/ Disconnects(w) PROVE LifeInv' /\ LifeKept
    BY <1>1, <1>7 DEF WatcherStep, Subscribes, ReadsSnapshot, ReplaysSnapshot, Forwards, Disconnects
  <1>8. CASE UNCHANGED vars
    BY <1>1, <1>8 DEF vars
  <1> QED BY <1>2, <1>3, <1>4, <1>6, <1>7, <1>8
          DEF Next, spawn, create_terminal_task, Status

LEMMA LifeInit == Init => LifeInv
  BY TaskAssumption DEF Init, LifeInv, Ending

\* Whoever's monitor evicts or removes a task, the task has ended.
THEOREM RunningTasksStay == Spec => OnlyTheEndedLeave
  <1>1. TypeOK /\ LifeInv /\ [Next]_vars => [\A t \in tasks \ tasks' : status[t] \in Terminal]_vars
    BY LifeStep DEF LifeKept
  <1> QED BY <1>1, TypeInit, TypeStep, LifeInit, LifeStep, PTL DEF Spec, OnlyTheEndedLeave

(***************************************************************************)
(* The cap.                                                                *)
(***************************************************************************)

\* Ended tasks whose monitor has evicted: those the cap is about.
Settled == {t \in TerminalTasks : monitor[t] \in {"tell", "ttl", "remove", "done"}}

CapInv == IsFiniteSet(tasks) /\ Cardinality(Settled) <= Cap

\* An eviction leaves no more ended tasks than the cap allows.
LEMMA EvictionKeepsCap ==
  ASSUME TypeOK, CapInv, NEW t \in Task, evict_over_cap(t)
  PROVE  CapInv'
  <1> USE TaskAssumption
  <1>1. PICK oldest \in SUBSET TerminalTasks :
               Cardinality(oldest) = Excess /\ tasks' = tasks \ oldest
    BY DEF evict_over_cap
  <1>2. UNCHANGED status
    BY DEF evict_over_cap
  <1>3. IsFiniteSet(TerminalTasks) /\ Cardinality(TerminalTasks) \in Nat
    BY FS_Subset, FS_CardinalityType DEF TerminalTasks, CapInv
  <1>4. TerminalTasks' = TerminalTasks \ oldest /\ TerminalTasks \cap oldest = oldest
    BY <1>1, <1>2 DEF TerminalTasks
  <1>5. /\ IsFiniteSet(TerminalTasks')
        /\ Cardinality(TerminalTasks') = Cardinality(TerminalTasks) - Excess
    BY <1>1, <1>3, <1>4, FS_Difference
  <1>6. Cardinality(TerminalTasks') <= Cap
    BY <1>3, <1>5 DEF Excess
  <1>7. Settled' \subseteq TerminalTasks'
    BY DEF Settled
  <1>8. Cardinality(Settled') <= Cap
    BY <1>5, <1>6, <1>7, FS_Subset, FS_CardinalityType
  <1>9. IsFiniteSet(tasks')
    BY <1>1, FS_Difference DEF CapInv
  <1> QED BY <1>8, <1>9 DEF CapInv

\* Every other step settles nobody.
LEMMA CapOfOthers ==
  ASSUME CapInv, IsFiniteSet(tasks'), Settled' \subseteq Settled
  PROVE  CapInv'
  <1>1. IsFiniteSet(TerminalTasks)
    BY FS_Subset DEF TerminalTasks, CapInv
  <1>2. IsFiniteSet(Settled)
    BY <1>1, FS_Subset DEF Settled
  <1>3. Cardinality(Settled') <= Cardinality(Settled) /\ Cardinality(Settled) \in Nat
        /\ Cardinality(Settled') \in Nat
    BY <1>2, FS_Subset, FS_CardinalityType
  <1> QED BY <1>3, TaskAssumption DEF CapInv

LEMMA CapStep == TypeOK /\ LifeInv /\ CapInv /\ [Next]_vars => CapInv'
  <1> SUFFICES ASSUME TypeOK, LifeInv, CapInv, [Next]_vars PROVE CapInv'
    OBVIOUS
  <1> USE TaskAssumption DEF taskVars, monitorVars, Ending
  <1>1. IsFiniteSet(tasks)
    BY DEF CapInv
  <1>2. CASE UNCHANGED <<tasks, status, monitor>>
    BY <1>1, <1>2, CapOfOthers DEF Settled, TerminalTasks
  <1>3. ASSUME NEW t \in Task, NEW at \in Time, NEW first \in Status, Insert(t, first, at)
        PROVE  CapInv'
    <2>1. monitor[t] = "none" /\ status' = [status EXCEPT ![t] = first]
          /\ tasks' = tasks \cup {t} /\ UNCHANGED monitor
      BY <1>3 DEF Insert, LifeInv
    <2>2. IsFiniteSet(tasks')
      BY <1>1, <2>1, FS_AddElement
    <2>3. Settled' \subseteq Settled
      BY <2>1 DEF Settled, TerminalTasks, TypeOK
    <2> QED BY <2>2, <2>3, CapOfOthers
  <1>4. ASSUME NEW t \in Task, Announce(t) PROVE CapInv'
    <2>1. Settled' \subseteq Settled /\ UNCHANGED tasks
      BY <1>4 DEF Announce, Settled, TerminalTasks, TypeOK
    <2> QED BY <1>1, <2>1, CapOfOthers
  <1>5. ASSUME NEW t \in Task, BodyStep(t) PROVE CapInv'
    <2>1. /\ body[t] \in {"queued", "running"} /\ UNCHANGED <<tasks, monitor>>
          /\ \A u \in Task : u # t => status'[u] = status[u]
      BY <1>5 DEF BodyStep, BodyStarts, BodyReturns, BodyPanics, SetStatus, TypeOK
    <2>2. monitor[t] \in {"top", "waiting"}
      BY <2>1 DEF LifeInv
    <2>3. Settled' \subseteq Settled
      BY <2>1, <2>2 DEF Settled, TerminalTasks, TypeOK
    <2> QED BY <1>1, <2>1, <2>3, CapOfOthers
  <1>6. ASSUME NEW t \in Task, MonitorStep(t), ~evict_over_cap(t) PROVE CapInv'
    <2>1. /\ tasks' = tasks \/ tasks' = tasks \ {t}
          /\ UNCHANGED status
          /\ \A u \in Task : u # t => monitor'[u] = monitor[u]
          /\ monitor[t] \notin {"tell", "ttl", "remove", "done"} =>
               monitor'[t] \notin {"tell", "ttl", "remove", "done"}
      BY <1>6 DEF MonitorStep, MonitorLooks, MonitorSeesChange, MonitorAnnouncesEnd, TtlExpires,
         TellRemoved, TellEvicted, MonitorGoes, TypeOK
    <2>2. IsFiniteSet(tasks')
      BY <1>1, <2>1, FS_RemoveElement
    <2>3. Settled' \subseteq Settled
      BY <2>1 DEF Settled, TerminalTasks, TypeOK
    <2> QED BY <2>2, <2>3, CapOfOthers
  <1>7. ASSUME NEW w \in Watcher, WatcherStep(w) \/ Disconnects(w) PROVE CapInv'
    BY <1>2, <1>7 DEF WatcherStep, Subscribes, ReadsSnapshot, ReplaysSnapshot, Forwards, Disconnects
  <1>8. CASE UNCHANGED vars
    BY <1>2, <1>8 DEF vars
  <1> QED BY <1>3, <1>4, <1>5, <1>6, <1>7, <1>8, EvictionKeepsCap
          DEF Next, spawn, create_terminal_task, Status

\* Ended tasks exceed the cap only by those whose monitor has yet to evict, for
\* any cap and any number of tasks.
THEOREM CapHolds == Spec => []CapIsKept
  <1>1. Init => CapInv
    <2> SUFFICES ASSUME Init PROVE CapInv
      OBVIOUS
    <2>1. tasks = {} /\ Settled = {}
      BY DEF Init, Settled, TerminalTasks
    <2> QED BY <2>1, FS_EmptySet, TaskAssumption DEF CapInv
  <1>2. TypeOK /\ CapInv => CapIsKept
    <2> SUFFICES ASSUME TypeOK, CapInv PROVE CapIsKept
      OBVIOUS
    <2> DEFINE early == {t \in TerminalTasks :
                           monitor[t] \in {"none", "top", "waiting", "final", "evict"}}
    <2>1. IsFiniteSet(TerminalTasks)
      BY FS_Subset DEF TerminalTasks, CapInv
    <2>2. IsFiniteSet(early) /\ IsFiniteSet(Settled)
      BY <2>1, FS_Subset DEF Settled
    <2>3. TerminalTasks = early \cup Settled
      BY DEF Settled, TypeOK, MonitorState, TerminalTasks
    <2>4. IsFiniteSet(early \cap Settled)
      BY <2>2, FS_Intersection
    <2>5. /\ Cardinality(early) \in Nat /\ Cardinality(Settled) \in Nat
          /\ Cardinality(early \cap Settled) \in Nat
      BY <2>2, <2>4, FS_CardinalityType
    <2> HIDE DEF early
    <2>6. Cardinality(TerminalTasks) =
            Cardinality(early) + Cardinality(Settled) - Cardinality(early \cap Settled)
      BY <2>2, <2>3, FS_Union
    <2>7. Cardinality(TerminalTasks) <= Cap + Cardinality(early)
      BY <2>5, <2>6, TaskAssumption DEF CapInv
    <2> QED BY <2>7 DEF CapIsKept, early
  <1> QED BY <1>1, <1>2, TypeInit, TypeStep, LifeInit, LifeStep, CapStep, PTL DEF Spec

(***************************************************************************)
(* The watchers.                                                           *)
(***************************************************************************)
Gone(t) == status[t] # "none" /\ t \notin tasks

\* What is announced as removed, or will be, is gone for good.
GoneInv ==
    /\ \A t \in Task : evicted[t] \subseteq {u \in Task : Gone(u)}
    /\ \A t \in Task : monitor[t] = "remove" => Gone(t)
    /\ \A w \in Watcher : \A i \in 1 .. Len(queue[w]) :
         queue[w][i][1] = "Removed" => Gone(queue[w][i][2])

\* Where the stream is, and what it still has to deliver.
CoverInv ==
    /\ \A w \in Watcher : stream[w] # "replaying" => snapshot[w] = {}
    /\ \A w \in Watcher, t \in Task :
         stream[w] \in {"replaying", "live"} /\ ~lagged[w] /\ t \in tasks =>
             t \in snapshot[w] \/ view[w][t] = status[t] \/ NewsComing(w, t)

\* An event that is sent to a subscribed watcher joins those on their way, unless
\* one of them is lost, and then the watcher has lagged.
LEMMA SendArrives ==
  ASSUME TypeOK, NEW kind \in {"Added", "Updated", "Removed"}, NEW u \in Task, Send(kind, u),
         NEW w \in Watcher, stream[w] # "off", ~lagged'[w]
  PROVE  /\ ~lagged[w]
         /\ queue'[w] = Append(queue[w], <<kind, u>>)
         /\ kind # "Removed" => Queued(queue'[w], u)
         /\ \A t \in Task : Queued(queue[w], t) => Queued(queue'[w], t)
  <1> DEFINE q == queue[w]
             e == <<kind, u>>
  <1>1. ~lagged[w] /\ ~Full(w)
    BY DEF Send
  <1>2. queue'[w] = Append(q, e)
    BY <1>1 DEF Send
  <1>3. q \in Seq(Event) /\ e \in Event /\ Len(q) \in Nat
    BY DEF TypeOK, Event
  <1>4. /\ Len(Append(q, e)) = Len(q) + 1 /\ Append(q, e)[Len(q) + 1] = e
        /\ \A i \in 1 .. Len(q) : Append(q, e)[i] = q[i] /\ i \in 1 .. Len(q) + 1
        /\ Len(q) + 1 \in 1 .. Len(q) + 1
    <2> HIDE DEF e
    <2> QED BY <1>3
  <1>5. kind # "Removed" => e \in {"Added", "Updated"} \X {u}
    OBVIOUS
  <1> HIDE DEF q, e
  <1>6. kind # "Removed" => Queued(Append(q, e), u)
    BY <1>4, <1>5 DEF Queued
  <1>7. ASSUME NEW t \in Task, Queued(q, t) PROVE Queued(Append(q, e), t)
    BY <1>4, <1>7 DEF Queued
  <1> QED BY <1>1, <1>2, <1>6, <1>7 DEF q, e

\* A send adds one event to what is on its way, and may lose the oldest.
LEMMA SendAdds ==
  ASSUME TypeOK, NEW kind \in {"Added", "Updated", "Removed"}, NEW u \in Task, Send(kind, u),
         NEW w \in Watcher, NEW i \in 1 .. Len(queue'[w])
  PROVE  queue'[w][i] = <<kind, u>> \/ \E j \in 1 .. Len(queue[w]) : queue'[w][i] = queue[w][j]
  <1> USE TaskAssumption
  <1> DEFINE q == queue[w]
             e == <<kind, u>>
  <1>1. q \in Seq(Event) /\ e \in Event /\ Len(q) \in Nat /\ Len(q) <= Backlog
    BY DEF TypeOK, Event
  <1> HIDE DEF e
  <1>2. CASE stream[w] = "off"
    BY <1>2 DEF Send
  <1>3. CASE stream[w] # "off" /\ ~Full(w)
    <2>1. queue'[w] = Append(q, e)
      BY <1>3 DEF Send, e
    <2>2. i \in 1 .. Len(q) \/ i = Len(q) + 1
      BY <1>1, <2>1
    <2> QED BY <1>1, <2>1, <2>2 DEF e
  <1>4. CASE stream[w] # "off" /\ Full(w)
    <2>1. queue'[w] = Append(Tail(q), e) /\ q # << >>
      BY <1>1, <1>4 DEF Send, Full, e
    <2>2. /\ Tail(q) \in Seq(Event) /\ Len(Tail(q)) = Len(q) - 1 /\ Len(q) > 0
          /\ \A j \in 1 .. Len(q) - 1 : Tail(q)[j] = q[j + 1] /\ j + 1 \in 1 .. Len(q)
      BY <1>1, <2>1
    <2>3. i \in 1 .. Len(q) - 1 \/ i = Len(q)
      BY <1>1, <2>1, <2>2
    <2>4. CASE i = Len(q)
      BY <1>1, <2>1, <2>2, <2>4 DEF e
    <2>5. CASE i \in 1 .. Len(q) - 1
      <3>1. queue'[w][i] = Tail(q)[i]
        BY <1>1, <2>1, <2>2, <2>5
      <3> QED BY <2>2, <2>5, <3>1
    <2> QED BY <2>3, <2>4, <2>5
  <1> QED BY <1>2, <1>3, <1>4

LEMMA GoneStep == TypeOK /\ LifeInv /\ GoneInv /\ [Next]_vars => GoneInv'
  <1> SUFFICES ASSUME TypeOK, LifeInv, GoneInv, [Next]_vars PROVE GoneInv'
    OBVIOUS
  <1> USE TaskAssumption DEF taskVars, monitorVars, sendVars, watchVars
  <1> DEFINE EvictedGone == \A t \in Task : evicted[t] \subseteq {u \in Task : Gone(u)}
             RemoveGone == \A t \in Task : monitor[t] = "remove" => Gone(t)
             EventsGone == \A w \in Watcher : \A i \in 1 .. Len(queue[w]) :
                             queue[w][i][1] = "Removed" => Gone(queue[w][i][2])
             GoneNext(u) == status'[u] # "none" /\ u \notin tasks'
  <1>1. EvictedGone /\ RemoveGone /\ EventsGone
    BY DEF GoneInv
  <1>2. SUFFICES EvictedGone' /\ RemoveGone' /\ EventsGone'
    BY DEF GoneInv
  <1>3. \A u \in Task : Gone(u) => Gone(u)' /\ GoneNext(u)
    BY LifeStep DEF LifeKept, Gone
  <1>4. ASSUME \A t \in Task : evicted'[t] \subseteq evicted[t] PROVE EvictedGone'
    BY <1>1, <1>3, <1>4
  <1>5. ASSUME \A t \in Task : monitor'[t] = "remove" => monitor[t] = "remove" PROVE RemoveGone'
    BY <1>1, <1>3, <1>5
  <1>6. \A w \in Watcher : \A i \in 1 .. Len(queue[w]) : queue[w][i][2] \in Task
    <2>1. ASSUME NEW w \in Watcher, NEW i \in 1 .. Len(queue[w]) PROVE queue[w][i] \in Event
      BY DEF TypeOK
    <2> QED BY <2>1 DEF Event
  <1>7. ASSUME \A w \in Watcher : \A i \in 1 .. Len(queue'[w]) :
                 \E j \in 1 .. Len(queue[w]) : queue'[w][i] = queue[w][j]
        PROVE  EventsGone'
    <2> SUFFICES ASSUME NEW w \in Watcher, NEW i \in 1 .. Len(queue'[w]),
                        queue'[w][i][1] = "Removed"
                 PROVE  GoneNext(queue'[w][i][2])
      BY DEF Gone
    <2>1. PICK j \in 1 .. Len(queue[w]) : queue'[w][i] = queue[w][j]
      BY <1>7
    <2> QED BY <1>1, <1>3, <1>6, <2>1
  <1>8. ASSUME NEW kind \in {"Added", "Updated", "Removed"}, NEW u \in Task, Send(kind, u),
               kind = "Removed" => Gone(u)
        PROVE  EventsGone'
    <2> SUFFICES ASSUME NEW w \in Watcher, NEW i \in 1 .. Len(queue'[w]),
                        queue'[w][i][1] = "Removed"
                 PROVE  GoneNext(queue'[w][i][2])
      BY DEF Gone
    <2>1. CASE queue'[w][i] = <<kind, u>>
      BY <1>3, <1>8, <2>1
    <2>2. ASSUME NEW j \in 1 .. Len(queue[w]), queue'[w][i] = queue[w][j]
          PROVE  GoneNext(queue'[w][i][2])
      BY <1>1, <1>3, <1>6, <2>2
    <2> QED BY <1>8, <2>1, <2>2, SendAdds
  <1> HIDE DEF EvictedGone, RemoveGone, EventsGone
  <1>9. CASE UNCHANGED <<evicted, monitor, queue>>
    BY <1>4, <1>5, <1>7, <1>9
  <1>10. ASSUME NEW t \in Task, Announce(t) PROVE EvictedGone' /\ RemoveGone' /\ EventsGone'
    <2>1. EvictedGone' /\ RemoveGone'
      BY <1>4, <1>5, <1>10 DEF Announce, TypeOK
    <2> QED BY <1>8, <1>10, <2>1 DEF Announce
  <1>11. ASSUME NEW t \in Task, MonitorStep(t) PROVE EvictedGone' /\ RemoveGone' /\ EventsGone'
    <2>1. CASE MonitorLooks(t) \/ MonitorSeesChange(t) \/ MonitorAnnouncesEnd(t)
      <3>1. EvictedGone' /\ RemoveGone'
        BY <1>4, <1>5, <2>1 DEF MonitorLooks, MonitorSeesChange, MonitorAnnouncesEnd, MonitorGoes, TypeOK
      <3>2. EventsGone'
        BY <1>7, <1>8, <2>1 DEF MonitorLooks, MonitorSeesChange, MonitorAnnouncesEnd
      <3> QED BY <3>1, <3>2
    <2>2. CASE evict_over_cap(t)
      <3>1. PICK oldest \in SUBSET TerminalTasks :
                   /\ tasks' = tasks \ oldest /\ evicted' = [evicted EXCEPT ![t] = oldest]
                   /\ monitor' = [monitor EXCEPT ![t] = IF oldest = {} THEN "ttl" ELSE "tell"]
                   /\ UNCHANGED <<status, queue>>
        BY <2>2 DEF evict_over_cap
      <3>2. oldest \subseteq {u \in Task : Gone(u)'}
        BY <3>1 DEF TerminalTasks, Gone, TypeOK
      <3>3. EvictedGone'
        BY <1>1, <1>3, <3>1, <3>2 DEF EvictedGone, TypeOK
      <3>4. RemoveGone' /\ EventsGone'
        BY <1>5, <1>7, <3>1 DEF TypeOK
      <3> QED BY <3>3, <3>4
    <2>3. CASE TtlExpires(t)
      <3>1. EvictedGone' /\ EventsGone'
        BY <1>4, <1>7, <2>3 DEF TtlExpires
      <3>2. status[t] \in Terminal
        BY <2>3 DEF TtlExpires, LifeInv, Ending
      <3>3. Gone(t)'
        BY <2>3, <3>2 DEF TtlExpires, Gone
      <3>4. RemoveGone'
        BY <1>1, <1>3, <2>3, <3>3 DEF TtlExpires, TypeOK, RemoveGone
      <3> QED BY <3>1, <3>4
    <2>4. CASE TellRemoved(t)
      <3>1. EvictedGone' /\ RemoveGone'
        BY <1>4, <1>5, <2>4 DEF TellRemoved, MonitorGoes, TypeOK
      <3>2. Gone(t)
        BY <1>1, <2>4 DEF TellRemoved, RemoveGone
      <3> QED BY <1>8, <2>4, <3>1, <3>2 DEF TellRemoved
    <2>5. ASSUME NEW u \in Task, TellEvicted(t, u) PROVE EvictedGone' /\ RemoveGone' /\ EventsGone'
      <3>1. EvictedGone' /\ RemoveGone'
        BY <1>4, <1>5, <2>5 DEF TellEvicted, MonitorGoes, TypeOK
      <3>2. Gone(u)
        BY <1>1, <2>5 DEF TellEvicted, EvictedGone
      <3> QED BY <1>8, <2>5, <3>1, <3>2 DEF TellEvicted
    <2> QED BY <1>11, <2>1, <2>2, <2>3, <2>4, <2>5 DEF MonitorStep
  <1>12. ASSUME NEW w \in Watcher, Forwards(w) PROVE EvictedGone' /\ RemoveGone' /\ EventsGone'
    <2>1. EvictedGone' /\ RemoveGone'
      BY <1>4, <1>5, <1>12 DEF Forwards
    <2>2. queue[w] \in Seq(Event) /\ queue[w] # << >> /\ queue' = [queue EXCEPT ![w] = Tail(@)]
      BY <1>12 DEF Forwards, TypeOK
    <2>3. \A i \in 1 .. Len(Tail(queue[w])) :
            i + 1 \in 1 .. Len(queue[w]) /\ Tail(queue[w])[i] = queue[w][i + 1]
      BY <2>2
    <2>4. EventsGone'
      BY <1>7, <2>2, <2>3 DEF TypeOK
    <2> QED BY <2>1, <2>4
  <1>13. ASSUME NEW w \in Watcher, Disconnects(w) PROVE EvictedGone' /\ RemoveGone' /\ EventsGone'
    <2>1. EvictedGone' /\ RemoveGone'
      BY <1>4, <1>5, <1>13 DEF Disconnects
    <2>2. queue' = [queue EXCEPT ![w] = << >>] /\ Len(<< >>) = 0
      BY <1>13 DEF Disconnects
    <2>3. EventsGone'
      BY <1>7, <2>2 DEF TypeOK
    <2> QED BY <2>1, <2>3
  <1>14. ASSUME NEW w \in Watcher, WatcherStep(w), ~Forwards(w)
         PROVE  EvictedGone' /\ RemoveGone' /\ EventsGone'
    BY <1>9, <1>14 DEF WatcherStep, Subscribes, ReadsSnapshot, ReplaysSnapshot
  <1>15. ASSUME NEW t \in Task, BodyStep(t) PROVE EvictedGone' /\ RemoveGone' /\ EventsGone'
    BY <1>9, <1>15 DEF BodyStep, BodyStarts, BodyReturns, BodyPanics, SetStatus
  <1>16. ASSUME NEW t \in Task, NEW at \in Time, NEW first \in Status, Insert(t, first, at)
         PROVE  EvictedGone' /\ RemoveGone' /\ EventsGone'
    BY <1>9, <1>16 DEF Insert
  <1>17. CASE UNCHANGED vars
    BY <1>9, <1>17 DEF vars
  <1> QED BY <1>10, <1>11, <1>12, <1>13, <1>14, <1>15, <1>16, <1>17
          DEF Next, spawn, create_terminal_task, Status

\* What the watcher w shows of t is right, or will be.
Covered(w, t) == t \in snapshot[w] \/ view[w][t] = status[t] \/ NewsComing(w, t)

Watches(w) == stream[w] \in {"replaying", "live"} /\ ~lagged[w]

LEMMA CoverStep == TypeOK /\ LifeInv /\ GoneInv /\ CoverInv /\ [Next]_vars => CoverInv'
  <1> SUFFICES ASSUME TypeOK, LifeInv, GoneInv, CoverInv, [Next]_vars PROVE CoverInv'
    OBVIOUS
  <1> USE TaskAssumption DEF taskVars, monitorVars, sendVars, watchVars
  <1> DEFINE Snapshots == \A w \in Watcher : stream[w] # "replaying" => snapshot[w] = {}
             Views == \A w \in Watcher, t \in Task : Watches(w) /\ t \in tasks => Covered(w, t)
  <1>1. Snapshots /\ Views
    BY DEF CoverInv, Covered, Watches
  <1>2. SUFFICES Snapshots' /\ Views'
    BY DEF CoverInv, Covered, Watches
  <1>3. ASSUME UNCHANGED <<stream, snapshot>> PROVE Snapshots'
    BY <1>1, <1>3
  <1> HIDE DEF Snapshots, Views
  <1>5. ASSUME NEW t \in Task, NEW at \in Time, NEW first \in Status, Insert(t, first, at)
        PROVE  Snapshots' /\ Views'
    <2>1. /\ status' = [status EXCEPT ![t] = first] /\ fresh' = [fresh EXCEPT ![t] = first # "Pending"]
          /\ tasks' = tasks \cup {t} /\ unannounced' = unannounced \cup {t}
          /\ UNCHANGED <<monitor, queue, lagged, stream, snapshot, view>>
      BY <1>5 DEF Insert
    <2>2. ASSUME NEW w \in Watcher, NEW u \in Task, Watches(w)', u \in tasks' PROVE Covered(w, u)'
      <3>1. CASE u = t
        BY <2>1, <3>1 DEF Covered, NewsComing
      <3>2. CASE u # t
        <4>1. Covered(w, u)
          BY <1>1, <2>1, <2>2, <3>2 DEF Views, Watches
        <4> QED BY <2>1, <3>2, <4>1 DEF Covered, NewsComing, TypeOK
      <3> QED BY <3>1, <3>2
    <2> QED BY <1>3, <2>1, <2>2 DEF Views
  <1>6. ASSUME NEW t \in Task, BodyStep(t) PROVE Snapshots' /\ Views'
    <2>1. /\ body[t] \in {"queued", "running"}
          /\ UNCHANGED <<tasks, unannounced, monitor, queue, lagged, stream, snapshot, view>>
          /\ \A u \in Task : u # t => status'[u] = status[u] /\ fresh'[u] = fresh[u]
          /\ fresh'[t] \/ (status' = status /\ fresh' = fresh)
      BY <1>6 DEF BodyStep, BodyStarts, BodyReturns, BodyPanics, SetStatus, TypeOK
    <2>2. monitor[t] \in {"top", "waiting"}
      BY <2>1 DEF LifeInv
    <2>3. ASSUME NEW w \in Watcher, NEW u \in Task, Watches(w)', u \in tasks' PROVE Covered(w, u)'
      <3>1. Covered(w, u)
        BY <1>1, <2>1, <2>3 DEF Views, Watches
      <3>2. CASE u = t
        BY <2>1, <2>2, <3>1, <3>2 DEF Covered, NewsComing
      <3>3. CASE u # t
        BY <2>1, <3>1, <3>3 DEF Covered, NewsComing
      <3> QED BY <3>2, <3>3
    <2> QED BY <1>3, <2>1, <2>3 DEF Views
  <1>7. ASSUME NEW kind \in {"Added", "Updated", "Removed"}, NEW t \in Task, NEW u \in Task,
               Send(kind, u), tasks' \subseteq tasks,
               UNCHANGED <<status, stream, snapshot, view>>,
               \A v \in Task : v # t => /\ fresh'[v] = fresh[v] /\ monitor'[v] = monitor[v]
                                        /\ v \in unannounced => v \in unannounced',
               (kind # "Removed" /\ u = t) \/ UNCHANGED <<fresh, unannounced>>,
               (kind # "Removed" /\ u = t) \/ monitor[t] \in {"tell", "remove"}
        PROVE  Snapshots' /\ Views'
    <2>1. ASSUME NEW w \in Watcher, NEW v \in Task, Watches(w)', v \in tasks' PROVE Covered(w, v)'
      <3>1. stream[w] # "off" /\ ~lagged'[w] /\ v \in tasks
        BY <1>7, <2>1 DEF Watches
      <3>2. /\ ~lagged[w]
            /\ kind # "Removed" => Queued(queue'[w], u)
            /\ Queued(queue[w], v) => Queued(queue'[w], v)
        BY <1>7, <3>1, SendArrives
      <3>3. Covered(w, v)
        BY <1>1, <1>7, <2>1, <3>1, <3>2 DEF Views, Watches
      <3>4. CASE v = t /\ kind # "Removed" /\ u = t
        BY <3>2, <3>4 DEF Covered, NewsComing
      <3>5. CASE v = t /\ ~(kind # "Removed" /\ u = t)
        BY <1>7, <3>2, <3>3, <3>5 DEF Covered, NewsComing
      <3>6. CASE v # t
        BY <1>7, <3>2, <3>3, <3>6 DEF Covered, NewsComing
      <3> QED BY <3>4, <3>5, <3>6
    <2> QED BY <1>3, <1>7, <2>1 DEF Views
  <1>8. ASSUME NEW t \in Task, Announce(t) PROVE Snapshots' /\ Views'
    <2>1. /\ Send("Added", t) /\ UNCHANGED <<tasks, status, fresh, stream, snapshot, view>>
          /\ \A v \in Task : v # t => /\ fresh'[v] = fresh[v] /\ monitor'[v] = monitor[v]
                                      /\ v \in unannounced => v \in unannounced'
      BY <1>8 DEF Announce, TypeOK
    <2> QED BY <1>7, <2>1
  <1>9. ASSUME NEW t \in Task, MonitorStep(t) PROVE Snapshots' /\ Views'
    <2>1. CASE MonitorLooks(t)
      <3>1. /\ monitor[t] = "top"
            /\ monitor' = [monitor EXCEPT ![t] = IF status[t] \in Terminal THEN "final" ELSE "waiting"]
            /\ UNCHANGED <<tasks, status, fresh, unannounced, queue, lagged, stream, snapshot, view>>
        BY <2>1 DEF MonitorLooks, MonitorGoes
      <3>2. ASSUME NEW w \in Watcher, NEW u \in Task, Watches(w)', u \in tasks' PROVE Covered(w, u)'
        <4>1. Covered(w, u)
          BY <1>1, <3>1, <3>2 DEF Views, Watches
        <4> QED BY <3>1, <4>1 DEF Covered, NewsComing, TypeOK
      <3> QED BY <1>3, <3>1, <3>2 DEF Views
    <2>2. CASE MonitorSeesChange(t) \/ MonitorAnnouncesEnd(t)
      <3>1. /\ Send("Updated", t)
            /\ UNCHANGED <<tasks, status, unannounced, stream, snapshot, view>>
            /\ \A v \in Task : v # t => fresh'[v] = fresh[v] /\ monitor'[v] = monitor[v]
        BY <2>2 DEF MonitorSeesChange, MonitorAnnouncesEnd, MonitorGoes, TypeOK
      <3> QED BY <1>7, <3>1
    <2>3. CASE evict_over_cap(t) \/ TtlExpires(t)
      <3>1. /\ tasks' \subseteq tasks /\ monitor[t] \in {"evict", "ttl"}
            /\ \A v \in Task : v # t => monitor'[v] = monitor[v]
            /\ UNCHANGED <<status, fresh, unannounced, queue, lagged, stream, snapshot, view>>
        BY <2>3 DEF evict_over_cap, TtlExpires, TypeOK
      <3>2. ASSUME NEW w \in Watcher, NEW u \in Task, Watches(w)', u \in tasks' PROVE Covered(w, u)'
        <4>1. Covered(w, u)
          BY <1>1, <3>1, <3>2 DEF Views, Watches
        <4> QED BY <3>1, <4>1 DEF Covered, NewsComing
      <3> QED BY <1>3, <3>1, <3>2 DEF Views
    <2>4. CASE TellRemoved(t)
      <3>1. /\ Send("Removed", t) /\ monitor[t] = "remove"
            /\ UNCHANGED <<tasks, status, fresh, unannounced, stream, snapshot, view>>
            /\ \A v \in Task : v # t => monitor'[v] = monitor[v]
        BY <2>4 DEF TellRemoved, MonitorGoes, TypeOK
      <3> QED BY <1>7, <3>1
    <2>5. ASSUME NEW u \in Task, TellEvicted(t, u) PROVE Snapshots' /\ Views'
      <3>1. /\ Send("Removed", u) /\ monitor[t] = "tell"
            /\ UNCHANGED <<tasks, status, fresh, unannounced, stream, snapshot, view>>
            /\ \A v \in Task : v # t => monitor'[v] = monitor[v]
        BY <2>5 DEF TellEvicted, MonitorGoes, TypeOK
      <3> QED BY <1>7, <3>1
    <2> QED BY <1>9, <2>1, <2>2, <2>3, <2>4, <2>5 DEF MonitorStep
  <1>10. ASSUME NEW w \in Watcher, Subscribes(w) \/ Disconnects(w) \/ ReadsSnapshot(w)
         PROVE  Snapshots' /\ Views'
    <2>1. /\ UNCHANGED <<tasks, status, fresh, unannounced, monitor, view>>
          /\ \A v \in Watcher : v # w => /\ queue'[v] = queue[v] /\ lagged'[v] = lagged[v]
                                         /\ stream'[v] = stream[v] /\ snapshot'[v] = snapshot[v]
      BY <1>10 DEF Subscribes, Disconnects, ReadsSnapshot, TypeOK
    <2>2. \/ stream'[w] \in {"off", "subscribed"} /\ snapshot'[w] = {}
          \/ stream'[w] = "replaying" /\ snapshot'[w] = tasks
          \/ stream'[w] = "live" /\ snapshot'[w] = {} /\ tasks = {}
      BY <1>1, <1>10 DEF Subscribes, Disconnects, ReadsSnapshot, TypeOK, Snapshots
    <2>3. Snapshots'
      BY <1>1, <2>1, <2>2 DEF Snapshots
    <2>4. ASSUME NEW v \in Watcher, NEW u \in Task, Watches(v)', u \in tasks' PROVE Covered(v, u)'
      <3>1. CASE v = w
        BY <2>1, <2>2, <2>4, <3>1 DEF Covered, Watches
      <3>2. CASE v # w
        <4>1. Covered(v, u)
          BY <1>1, <2>1, <2>4, <3>2 DEF Views, Watches
        <4> QED BY <2>1, <3>2, <4>1 DEF Covered, NewsComing
      <3> QED BY <3>1, <3>2
    <2> QED BY <2>3, <2>4 DEF Views
  <1>11. ASSUME NEW w \in Watcher, NEW t \in Task, ReplaysSnapshot(w, t) PROVE Snapshots' /\ Views'
    <2>1. /\ t \in snapshot[w]
          /\ view' = [view EXCEPT ![w][t] = status[t]]
          /\ snapshot' = [snapshot EXCEPT ![w] = @ \ {t}]
          /\ stream' = [stream EXCEPT ![w] = IF snapshot[w] = {t} THEN "live" ELSE @]
          /\ UNCHANGED <<tasks, status, fresh, unannounced, monitor, queue, lagged>>
      BY <1>11 DEF ReplaysSnapshot
    <2>2. stream[w] = "replaying"
      BY <1>1, <2>1 DEF Snapshots
    <2>3. Snapshots'
      BY <1>1, <2>1, <2>2 DEF Snapshots, TypeOK
    <2>4. ASSUME NEW v \in Watcher, NEW u \in Task, Watches(v)', u \in tasks' PROVE Covered(v, u)'
      <3>1. Covered(v, u)
        BY <1>1, <2>1, <2>2, <2>4 DEF Views, Watches, TypeOK
      <3>2. CASE v = w /\ u = t
        BY <2>1, <3>2 DEF Covered, TypeOK
      <3>3. CASE ~(v = w /\ u = t)
        <4>1. view'[v][u] = view[v][u] /\ (u \in snapshot[v] => u \in snapshot'[v])
          BY <2>1, <3>3 DEF TypeOK
        <4> QED BY <2>1, <3>1, <4>1 DEF Covered, NewsComing
      <3> QED BY <3>2, <3>3
    <2> QED BY <2>3, <2>4 DEF Views
  <1>12. ASSUME NEW w \in Watcher, Forwards(w) PROVE Snapshots' /\ Views'
    <2> DEFINE q == queue[w]
               e == Head(q)
               shown == IF e[1] = "Removed" THEN "none" ELSE status[e[2]]
    <2>1. /\ stream[w] = "live" /\ q # << >>
          /\ view' = [view EXCEPT ![w][e[2]] = shown]
          /\ queue' = [queue EXCEPT ![w] = Tail(q)]
          /\ UNCHANGED <<tasks, status, fresh, unannounced, monitor, lagged, stream, snapshot>>
      BY <1>12 DEF Forwards
    <2>2. q \in Seq(Event) /\ Len(q) \in Nat /\ Len(q) > 0 /\ e = q[1] /\ e \in Event
      BY <2>1 DEF TypeOK
    <2>3. e[1] \in {"Added", "Updated", "Removed"} /\ e[2] \in Task /\ e = <<e[1], e[2]>>
      BY <2>2 DEF Event
    <2>4. e[1] = "Removed" => e[2] \notin tasks
      BY <2>2 DEF GoneInv, Gone
    <2>5. \A i \in 2 .. Len(q) : i - 1 \in 1 .. Len(Tail(q)) /\ Tail(q)[i - 1] = q[i]
      BY <2>2
    <2>6. \A i \in 1 .. Len(q) : i = 1 \/ i \in 2 .. Len(q)
      BY <2>2
    <2> HIDE DEF e, shown, q
    <2>7. ASSUME NEW u \in Task, Queued(q, u) PROVE Queued(Tail(q), u) \/ e \in {"Added", "Updated"} \X {u}
      <3>1. PICK i \in 1 .. Len(q) : q[i] \in {"Added", "Updated"} \X {u}
        BY <2>7 DEF Queued
      <3>2. CASE i = 1
        BY <2>2, <3>1, <3>2
      <3>3. CASE i \in 2 .. Len(q)
        BY <2>5, <3>1, <3>3 DEF Queued
      <3> QED BY <2>6, <3>2, <3>3
    <2>8. ASSUME NEW v \in Watcher, NEW u \in Task, Watches(v)', u \in tasks' PROVE Covered(v, u)'
      <3>1. Covered(v, u)
        BY <1>1, <2>1, <2>8 DEF Views, Watches
      <3>2. CASE v = w /\ u = e[2]
        <4>1. shown = status[u]
          BY <2>1, <2>4, <2>8, <3>2 DEF shown
        <4>2. view'[v][u] = status'[u]
          BY <2>1, <2>3, <3>2, <4>1 DEF TypeOK
        <4> QED BY <4>2 DEF Covered
      <3>3. CASE v = w /\ u # e[2]
        <4>1. view'[v][u] = view[v][u] /\ queue'[v] = Tail(q) /\ queue[v] = q
          BY <2>1, <2>3, <3>3 DEF TypeOK, q
        <4>2. Queued(queue[v], u) => Queued(queue'[v], u)
          BY <2>7, <3>3, <4>1
        <4> QED BY <2>1, <3>1, <4>1, <4>2 DEF Covered, NewsComing
      <3>4. CASE v # w
        <4>1. view'[v][u] = view[v][u] /\ queue'[v] = queue[v]
          BY <2>1, <3>4 DEF TypeOK
        <4> QED BY <2>1, <3>1, <4>1 DEF Covered, NewsComing
      <3> QED BY <3>2, <3>3, <3>4
    <2> QED BY <1>3, <2>1, <2>8 DEF Views
  <1>13. CASE UNCHANGED vars
    <2>1. UNCHANGED <<tasks, status, fresh, unannounced, monitor, queue, lagged, stream, snapshot, view>>
      BY <1>13 DEF vars
    <2> QED BY <1>1, <2>1 DEF Snapshots, Views, Covered, NewsComing, Watches
  <1> QED BY <1>5, <1>6, <1>8, <1>9, <1>10, <1>11, <1>12, <1>13
          DEF Next, WatcherStep, spawn, create_terminal_task, Status

\* A live stream that has not lagged shows, or is about to be told, the status of
\* every task of the registry, for any backlog and any number of reconnects.
THEOREM WatchersMissNothing == Spec => []WatcherMissesNothing
  <1>1. Init => GoneInv /\ CoverInv
    <2> SUFFICES ASSUME Init PROVE GoneInv /\ CoverInv
      OBVIOUS
    <2>1. \A w \in Watcher : Len(queue[w]) = 0
      BY DEF Init
    <2>2. GoneInv
      BY <2>1 DEF Init, GoneInv
    <2>3. CoverInv
      BY DEF Init, CoverInv
    <2> QED BY <2>2, <2>3
  <1>2. CoverInv => WatcherMissesNothing
    BY DEF CoverInv, WatcherMissesNothing
  <1> QED BY <1>1, <1>2, TypeInit, TypeStep, LifeInit, LifeStep, GoneStep, CoverStep, PTL DEF Spec
=============================================================================
