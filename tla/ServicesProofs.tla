--------------------------- MODULE ServicesProofs ---------------------------
(***************************************************************************)
(* The safety of the declared services, for every number of services, set  *)
(* of pids, retry ceiling and number of operator requests.                 *)
(***************************************************************************)
EXTENDS Services, TLAPS

(***************************************************************************)
(* What SlotPidIsLive needs to be inductive.  Whoever holds an unrecorded  *)
(* fork or an unattributed batch holds the gate, there is one unrecorded   *)
(* fork at most, its pid is still the kernel's and no slot's yet, and no   *)
(* two slots share a pid (record_exit stops at the first that matches).    *)
(***************************************************************************)
GateInv ==
    /\ \A s \in Service : forked[s] # NoPid => gate = "fork"
    /\ reaped # {} => gate \in {"reaper", "shutdown"}

ForkedInv ==
    /\ \A s \in Service : forked[s] # NoPid => proc[forked[s]] # "free"
    /\ \A s, t \in Service : forked[s] # NoPid /\ forked[t] # NoPid => s = t
    /\ \A s, t \in Service : forked[s] # NoPid => pid[t] # forked[s]

SlotsDisjoint == \A s, t \in Service : pid[s] # NoPid /\ pid[s] = pid[t] => s = t

LiveInv == SlotPidIsLive /\ GateInv /\ ForkedInv /\ SlotsDisjoint

\* The number of things under way for s, as a conjunction of what excludes what.
AtMostOne(s) ==
    /\ timers[s] <= 1 /\ checked[s] <= 1 /\ failed[s] <= 1
    /\ timers[s] > 0 => checked[s] = 0 /\ failed[s] = 0 /\ forked[s] = NoPid /\ pid[s] = NoPid
    /\ checked[s] > 0 => failed[s] = 0 /\ forked[s] = NoPid /\ pid[s] = NoPid
    /\ failed[s] > 0 => forked[s] = NoPid /\ pid[s] = NoPid
    /\ forked[s] # NoPid => pid[s] = NoPid

NothingUnderWay(s) ==
    /\ timers[s] = 0 /\ checked[s] = 0 /\ failed[s] = 0
    /\ forked[s] = NoPid /\ pid[s] = NoPid

(***************************************************************************)
(* What RestartsNeverOverlap needs to be inductive.  The batch was waited  *)
(* for, so the kernel no longer has it; while no operator has asked for a  *)
(* start, a service whose turn at boot has not come has nothing under way. *)
(***************************************************************************)
OverlapInv ==
    /\ \A p \in reaped : proc[p] = "free"
    /\ startReqs > 0 => phase # "boot"
    /\ startReqs = 0 => /\ \A s \in Service : s > boot => NothingUnderWay(s)
                        /\ \A s \in Service : AtMostOne(s)
                        /\ EveryChildIsClaimed



\* The exit bookkeeping keeps the runtime's types.
LEMMA RecordExitTypes ==
  ASSUME TypeOK, NEW s \in Service, NEW stable \in BOOLEAN, record_exit(s, stable)
  PROVE  /\ state' \in [Service -> ServiceState]
         /\ pid' \in [Service -> Pid \cup {NoPid}]
         /\ restarts' \in [Service -> Nat]
         /\ stopRequested' \in [Service -> BOOLEAN]
         /\ timers' \in [Service -> Nat]
  <1> DEFINE used == IF stable THEN 0 ELSE restarts[s]
  <1>1. used \in Nat /\ used + 1 \in Nat
    BY DEF TypeOK
  <1>2. pid' \in [Service -> Pid \cup {NoPid}]
    BY DEF record_exit, TypeOK
  <1>3. CASE stopRequested[s]
    BY <1>2, <1>3 DEF record_exit, TypeOK, ServiceState
  <1>4. CASE ~stopRequested[s] /\ RetriesLeft(used)
    <2> HIDE DEF used
    <2>1. /\ restarts' = [restarts EXCEPT ![s] = used + 1]
          /\ state' = [state EXCEPT ![s] = "Backoff"]
          /\ timers' = [timers EXCEPT ![s] = @ + 1]
          /\ UNCHANGED stopRequested
      BY <1>4 DEF record_exit, used
    <2> QED BY <1>1, <1>2, <2>1 DEF TypeOK, ServiceState
  <1>5. CASE ~stopRequested[s] /\ ~RetriesLeft(used)
    <2> HIDE DEF used
    <2>1. /\ restarts' = [restarts EXCEPT ![s] = used]
          /\ state' = [state EXCEPT ![s] = "GaveUp"]
          /\ UNCHANGED <<stopRequested, timers>>
      BY <1>5 DEF record_exit, used
    <2> QED BY <1>1, <1>2, <2>1 DEF TypeOK, ServiceState
  <1> QED BY <1>3, <1>4, <1>5

\* Every step keeps the variables in their types.
LEMMA TypeStep == TypeOK /\ [Next]_vars => TypeOK'
  <1> SUFFICES ASSUME TypeOK, [Next]_vars PROVE TypeOK'
    OBVIOUS
  <1> USE PidAssumption, ServicesAssumption DEF TypeOK, ChildrenTypeOK, childVars, runtimeVars,
          startVars, shutdownVars, ServiceState, Phase
  <1>1. ASSUME NEW s \in Service, NEW p \in Pid, StartForks(s, p) PROVE TypeOK'
    BY <1>1 DEF StartForks, ForkChild
  <1>2. ASSUME NEW s \in Service, StartRecorded(s) PROVE TypeOK'
    BY <1>2 DEF StartRecorded, ReleaseFork
  <1>3. ASSUME NEW s \in Service, StartFails(s) PROVE TypeOK'
    BY <1>3 DEF StartFails
  <1>4. ASSUME NEW s \in Service, FailureRecorded(s) PROVE TypeOK'
    <2>1. FALSE \in BOOLEAN /\ record_exit(s, FALSE)
      BY <1>4 DEF FailureRecorded
    <2>2. /\ state' \in [Service -> ServiceState]
          /\ pid' \in [Service -> Pid \cup {NoPid}]
          /\ restarts' \in [Service -> Nat]
          /\ stopRequested' \in [Service -> BOOLEAN]
          /\ timers' \in [Service -> Nat]
      BY <2>1, RecordExitTypes
    <2>3. /\ failed' = [failed EXCEPT ![s] = @ - 1]
          /\ failed[s] > 0
          /\ UNCHANGED <<childVars, grace, checked, forked, boot, shutdownVars,
                         stopTerms, killed, startReqs>>
      BY <1>4 DEF FailureRecorded
    <2> QED BY <2>2, <2>3
  <1>5. ASSUME NEW s \in Service, RestartTimerFires(s) PROVE TypeOK'
    BY <1>5 DEF RestartTimerFires, BeginStart
  <1>6. ASSUME NEW s \in Service, start_by_name(s) PROVE TypeOK'
    BY <1>6 DEF start_by_name, BeginStart
  <1>7. ASSUME NEW s \in Service, stop_by_name(s) PROVE TypeOK'
    BY <1>7 DEF stop_by_name
  <1>8. ASSUME NEW s \in Service, NEW p \in Pid, watch_startup(s, p) PROVE TypeOK'
    BY <1>8 DEF watch_startup
  <1>9. ASSUME NEW p \in Pid, Exits(p) PROVE TypeOK'
    BY <1>9 DEF Exits, ChildExits
  <1>10. ASSUME NEW p \in Pid, SendStopTerm(p) PROVE TypeOK'
    BY <1>10 DEF SendStopTerm
  <1>11. ASSUME NEW p \in Pid, NEW stable \in BOOLEAN, AttributeExit(p, stable) PROVE TypeOK'
    <2>1. ASSUME NEW s \in Service, record_exit(s, stable) PROVE TypeOK'
      BY <1>11, <2>1, RecordExitTypes DEF AttributeExit, TakeReaped, DrainedTo
    <2>2. CASE UNCHANGED <<runtimeVars, timers>>
      BY <1>11, <2>2 DEF AttributeExit, TakeReaped, DrainedTo
    <2> QED BY <1>11, <2>1, <2>2 DEF AttributeExit
  <1>12. CASE Reaper
    BY <1>12 DEF Reaper, ReaperWakes, ReaperCollects, Collect, reap_exited_children, Zombies
  <1>13. CASE StartDeclared
    <2>1. CASE boot < NumServices
      <3>1. boot + 1 \in Service /\ boot' = boot + 1 /\ boot' \in 0 .. NumServices
        BY <1>13, <2>1 DEF StartDeclared, Service
      <3> QED BY <1>13, <2>1, <3>1 DEF StartDeclared, BeginStart
    <2>2. CASE boot = NumServices
      BY <1>13, <2>2 DEF StartDeclared
    <2> QED BY <1>13, <2>1, <2>2 DEF StartDeclared
  <1>14. CASE Shutdown
    <2>1. live_children \subseteq Pid
      BY DEF live_children
    <2>2. CASE ShutdownFlags \/ ShutdownSeesNone \/ ShutdownPollsAgain
      BY <2>2 DEF ShutdownFlags, ShutdownSeesNone, ShutdownPollsAgain
    <2>3. CASE ShutdownMarks
      BY <2>1, <2>3 DEF ShutdownMarks
    <2>4. CASE ShutdownReaps
      BY <2>4 DEF ShutdownReaps, Collect, reap_exited_children, Zombies
    <2>5. CASE ShutdownDeadline
      BY <2>1, <2>5 DEF ShutdownDeadline
    <2>6. ASSUME NEW p \in Pid, ShutdownSignals(p) PROVE TypeOK'
      BY <2>6 DEF ShutdownSignals
    <2> QED BY <1>14, <2>2, <2>3, <2>4, <2>5, <2>6 DEF Shutdown
  <1>15. CASE UNCHANGED vars
    BY <1>15 DEF vars
  <1> HIDE DEF TypeOK, ChildrenTypeOK, childVars, runtimeVars, startVars, shutdownVars
  <1> QED BY <1>1, <1>2, <1>3, <1>4, <1>5, <1>6, <1>7, <1>8, <1>9, <1>10, <1>11, <1>12,
             <1>13, <1>14, <1>15 DEF Next, StartStep

\* The variables always have the types the code gives them.
THEOREM TypeCorrect == Spec => []TypeOK
  <1>1. Init => TypeOK
    <2> SUFFICES ASSUME Init PROVE TypeOK
      OBVIOUS
    <2>1. ChildrenTypeOK
      BY DEF Init, ChildrenInit, ChildrenTypeOK
    <2>2. /\ state \in [Service -> ServiceState]
          /\ pid \in [Service -> Pid \cup {NoPid}]
          /\ forked \in [Service -> Pid \cup {NoPid}]
          /\ stopRequested \in [Service -> BOOLEAN]
          /\ grace \in [Service -> SUBSET Pid]
      BY DEF Init, ServiceState
    <2>3. /\ restarts \in [Service -> Nat]
          /\ timers \in [Service -> Nat]
          /\ checked \in [Service -> Nat]
          /\ failed \in [Service -> Nat]
          /\ boot \in 0 .. NumServices
          /\ startReqs \in 0 .. MaxStartReqs
      BY ServicesAssumption DEF Init
    <2>4. phase \in Phase /\ stopTerms \subseteq Pid /\ signals \subseteq Pid /\ killed \subseteq Pid
      BY DEF Init, Phase
    <2> QED BY <2>1, <2>2, <2>3, <2>4 DEF TypeOK
  <1> QED BY <1>1, TypeStep, PTL DEF Spec

\* The gate's discipline, and with it SlotPidIsLive, survives every step.
LEMMA LiveStep == TypeOK /\ LiveInv /\ [Next]_vars => LiveInv'
  <1> SUFFICES ASSUME TypeOK, LiveInv, [Next]_vars PROVE LiveInv'
    OBVIOUS
  <1> DEFINE held == <<pid, forked, proc, gate, reaped>>
  <1>1. CASE UNCHANGED held
    BY <1>1 DEF LiveInv, SlotPidIsLive, GateInv, ForkedInv, SlotsDisjoint
  <1> USE PidAssumption
  <1>2. ASSUME NEW s \in Service, NEW p \in Pid, StartForks(s, p) PROVE LiveInv'
    <2>1. /\ proc' = [proc EXCEPT ![p] = "alive"]
          /\ forked' = [forked EXCEPT ![s] = p]
          /\ gate = "free" /\ gate' = "fork" /\ proc[p] = "free"
          /\ UNCHANGED <<pid, reaped>>
      BY <1>2 DEF StartForks, ForkChild, runtimeVars
    <2>2. reaped = {} /\ \A t \in Service : forked[t] = NoPid
      BY <2>1 DEF LiveInv, GateInv
    <2>3. \A t \in Service : pid[t] # p
      BY <2>1, <2>2 DEF LiveInv, SlotPidIsLive
    <2> QED BY <2>1, <2>2, <2>3
            DEF TypeOK, ChildrenTypeOK, LiveInv, SlotPidIsLive, GateInv, ForkedInv, SlotsDisjoint
  <1>3. ASSUME NEW s \in Service, StartRecorded(s) PROVE LiveInv'
    <2>1. /\ forked[s] # NoPid
          /\ pid' = [pid EXCEPT ![s] = forked[s]]
          /\ forked' = [forked EXCEPT ![s] = NoPid]
          /\ gate' = "free"
          /\ UNCHANGED <<proc, reaped>>
      BY <1>3 DEF StartRecorded, ReleaseFork
    <2>2. gate = "fork" /\ reaped = {} /\ \A t \in Service : forked'[t] = NoPid
      BY <2>1 DEF TypeOK, LiveInv, GateInv, ForkedInv
    <2> QED BY <2>1, <2>2
            DEF TypeOK, LiveInv, SlotPidIsLive, GateInv, ForkedInv, SlotsDisjoint
  <1>4. ASSUME NEW s \in Service, FailureRecorded(s) PROVE LiveInv'
    <2>1. /\ pid' = [pid EXCEPT ![s] = NoPid]
          /\ UNCHANGED <<forked, proc, gate, reaped>>
      BY <1>4 DEF FailureRecorded, record_exit, childVars
    <2> QED BY <2>1 DEF TypeOK, LiveInv, SlotPidIsLive, GateInv, ForkedInv, SlotsDisjoint
  <1>5. ASSUME NEW p \in Pid, Exits(p) PROVE LiveInv'
    <2>1. /\ proc' = [proc EXCEPT ![p] = "zombie"]
          /\ UNCHANGED <<pid, forked, gate, reaped>>
      BY <1>5 DEF Exits, ChildExits, runtimeVars, startVars
    <2> QED BY <2>1
            DEF TypeOK, ChildrenTypeOK, LiveInv, SlotPidIsLive, GateInv, ForkedInv, SlotsDisjoint
  <1>6. ASSUME NEW holder \in {"reaper", "shutdown"}, Collect(holder), UNCHANGED <<pid, forked>>
        PROVE  LiveInv'
    <2>1. reaped = {} /\ \A t \in Service : forked[t] = NoPid
      BY <1>6 DEF Collect, LiveInv, GateInv
    <2>2. \A q \in Pid : proc[q] # "free" => proc'[q] # "free" \/ q \in reaped'
      BY <1>6 DEF Collect, reap_exited_children, Zombies
    <2>3. reaped' # {} => gate' = holder
      BY <1>6 DEF Collect
    <2> QED BY <1>6, <2>1, <2>2, <2>3
            DEF TypeOK, LiveInv, SlotPidIsLive, GateInv, ForkedInv, SlotsDisjoint
  <1>7. ASSUME NEW p \in Pid, NEW stable \in BOOLEAN, AttributeExit(p, stable) PROVE LiveInv'
    <2>1. /\ p \in reaped /\ reaped' = reaped \ {p}
          /\ gate' = IF reaped \ {p} = {} THEN "free" ELSE gate
          /\ UNCHANGED <<forked, proc>>
      BY <1>7 DEF AttributeExit, TakeReaped, DrainedTo
    <2>2. gate \in {"reaper", "shutdown"} /\ \A t \in Service : forked[t] = NoPid
      BY <2>1 DEF LiveInv, GateInv
    <2>3. /\ \A t \in Service : pid'[t] # NoPid => pid'[t] = pid[t]
          /\ \A t \in Service : pid'[t] # p
      <3>1. ASSUME NEW s \in Service, pid[s] = p, record_exit(s, stable)
            PROVE  /\ \A t \in Service : pid'[t] # NoPid => pid'[t] = pid[t]
                   /\ \A t \in Service : pid'[t] # p
        <4>1. pid' = [pid EXCEPT ![s] = NoPid]
          BY <3>1 DEF record_exit
        <4> QED BY <3>1, <4>1 DEF TypeOK, LiveInv, SlotsDisjoint
      <3>2. CASE (\A s \in Service : pid[s] # p) /\ UNCHANGED pid
        BY <3>2
      <3> QED BY <1>7, <3>1, <3>2 DEF AttributeExit, runtimeVars
    <2> QED BY <2>1, <2>2, <2>3
            DEF TypeOK, LiveInv, SlotPidIsLive, GateInv, ForkedInv, SlotsDisjoint
  <1>8. CASE Reaper
    <2>1. CASE ReaperWakes
      BY <1>1, <1>8, <2>1 DEF Reaper, ReaperWakes, runtimeVars, startVars
    <2>2. CASE ReaperCollects
      BY <1>6, <1>8, <2>2 DEF Reaper, ReaperCollects, runtimeVars, startVars
    <2> QED BY <1>8, <2>1, <2>2 DEF Reaper
  <1>9. CASE Shutdown
    <2>1. CASE ShutdownReaps
      BY <1>6, <2>1 DEF ShutdownReaps, runtimeVars, startVars
    <2>2. CASE ~ShutdownReaps
      BY <1>1, <1>9, <2>2 DEF Shutdown, ShutdownFlags, ShutdownMarks, ShutdownSeesNone,
         ShutdownPollsAgain, ShutdownDeadline, ShutdownSignals, childVars, runtimeVars, startVars
    <2> QED BY <2>1, <2>2
  <1>10. ASSUME NEW s \in Service, \/ StartFails(s) \/ RestartTimerFires(s) \/ start_by_name(s)
                                   \/ stop_by_name(s) \/ \E p \in Pid : watch_startup(s, p)
         PROVE  LiveInv'
    BY <1>1, <1>10 DEF StartFails, RestartTimerFires, start_by_name, stop_by_name, watch_startup,
       childVars, runtimeVars, startVars
  <1>11. CASE StartDeclared \/ (\E p \in Pid : SendStopTerm(p)) \/ UNCHANGED vars
    BY <1>1, <1>11 DEF StartDeclared, SendStopTerm, vars, childVars, runtimeVars, startVars
  <1> QED BY <1>2, <1>3, <1>4, <1>5, <1>7, <1>8, <1>9, <1>10, <1>11 DEF Next, StartStep

\* A slot never waits for a process that has already been waited for: reap and
\* start exclude each other on spawn_gate from fork to record_started.
THEOREM SlotPidsAreLive == Spec => []SlotPidIsLive
  <1>1. Init => LiveInv
    BY DEF Init, ChildrenInit, LiveInv, SlotPidIsLive, GateInv, ForkedInv, SlotsDisjoint
  <1>2. LiveInv => SlotPidIsLive
    BY DEF LiveInv
  <1> QED BY <1>1, <1>2, LiveStep, TypeCorrect, PTL DEF Spec

\* A service has something under way as soon as one of its counts is not zero.
LEMMA SomethingUnderWay ==
  ASSUME TypeOK, NEW t \in Service
  PROVE  Continuations(t) > 0 <=> \/ timers[t] > 0 \/ checked[t] > 0 \/ failed[t] > 0
                                  \/ forked[t] # NoPid \/ pid[t] # NoPid
  BY DEF TypeOK, Continuations

\* What the exit bookkeeping leaves behind: a timer, or a service that is down.
LEMMA RecordExitContinues ==
  ASSUME TypeOK, NEW s \in Service, NEW stable \in BOOLEAN, record_exit(s, stable)
  PROVE  /\ \/ timers'[s] > 0
            \/ state'[s] \in {"Stopped", "GaveUp"}
         /\ \A t \in Service \ {s} : /\ timers'[t] = timers[t]
                                     /\ state'[t] = state[t]
                                     /\ pid'[t] = pid[t]
  <1>1. CASE stopRequested[s]
    BY <1>1 DEF record_exit, TypeOK
  <1>2. CASE ~stopRequested[s] /\ timers' = [timers EXCEPT ![s] = @ + 1]
    BY <1>2 DEF record_exit, TypeOK
  <1>3. CASE ~stopRequested[s] /\ state' = [state EXCEPT ![s] = "GaveUp"] /\ UNCHANGED timers
    BY <1>3 DEF record_exit, TypeOK
  <1> QED BY <1>1, <1>2, <1>3 DEF record_exit

\* No step lets go of a service that is supposed to be up.
LEMMA NeverForgottenStep == TypeOK /\ NeverForgotten /\ [Next]_vars => NeverForgotten'
  <1> DEFINE Under(t) == \/ timers[t] > 0 \/ checked[t] > 0 \/ failed[t] > 0
                         \/ forked[t] # NoPid \/ pid[t] # NoPid
             Kept(t) == t <= boot /\ ~ShuttingDown /\ state[t] \in {"Starting", "Running", "Backoff"}
  <1> SUFFICES ASSUME TypeOK, NeverForgotten, [Next]_vars, TypeOK',
                      NEW t \in Service, Kept(t)'
               PROVE  Under(t)'
    BY TypeStep, SomethingUnderWay DEF NeverForgotten, Continuations, TypeOK
  <1>1. Kept(t) => Under(t)
    BY SomethingUnderWay DEF NeverForgotten
  <1>2. ASSUME NEW s \in Service, NEW p \in Pid, StartForks(s, p) PROVE Under(t)'
    BY <1>1, <1>2, PidAssumption DEF StartForks, runtimeVars, shutdownVars, TypeOK, ShuttingDown
  <1>3. ASSUME NEW s \in Service, StartRecorded(s) PROVE Under(t)'
    BY <1>1, <1>3 DEF StartRecorded, shutdownVars, TypeOK, ShuttingDown
  <1>4. ASSUME NEW s \in Service, StartFails(s) PROVE Under(t)'
    BY <1>1, <1>4 DEF StartFails, runtimeVars, shutdownVars, TypeOK, ShuttingDown
  <1>5. ASSUME NEW s \in Service, FailureRecorded(s) PROVE Under(t)'
    <2>1. /\ FALSE \in BOOLEAN /\ record_exit(s, FALSE)
          /\ failed' = [failed EXCEPT ![s] = @ - 1]
          /\ UNCHANGED <<checked, forked, boot, phase>>
      BY <1>5 DEF FailureRecorded, shutdownVars
    <2>2. /\ timers'[s] > 0 \/ state'[s] \in {"Stopped", "GaveUp"}
          /\ \A u \in Service \ {s} : timers'[u] = timers[u] /\ state'[u] = state[u] /\ pid'[u] = pid[u]
      BY <2>1, RecordExitContinues
    <2>3. /\ failed' = [failed EXCEPT ![s] = @ - 1]
          /\ UNCHANGED <<checked, forked, boot, phase>>
      BY <2>1
    <2> QED BY <1>1, <2>2, <2>3 DEF TypeOK, ShuttingDown
  <1>6. ASSUME NEW s \in Service, RestartTimerFires(s) PROVE Under(t)'
    BY <1>1, <1>6 DEF RestartTimerFires, BeginStart, runtimeVars, shutdownVars, TypeOK, ShuttingDown
  <1>7. ASSUME NEW s \in Service, start_by_name(s) PROVE Under(t)'
    BY <1>1, <1>7 DEF start_by_name, BeginStart, shutdownVars, TypeOK, ShuttingDown
  <1>8. ASSUME NEW s \in Service, stop_by_name(s) PROVE Under(t)'
    BY <1>1, <1>8 DEF stop_by_name, startVars, shutdownVars, TypeOK, ShuttingDown
  <1>9. ASSUME NEW s \in Service, NEW p \in Pid, watch_startup(s, p) PROVE Under(t)'
    BY <1>1, <1>9 DEF watch_startup, startVars, shutdownVars, TypeOK, ShuttingDown
  <1>10. ASSUME NEW p \in Pid, Exits(p) \/ SendStopTerm(p) PROVE Under(t)'
    BY <1>1, <1>10 DEF Exits, SendStopTerm, runtimeVars, startVars, shutdownVars, ShuttingDown
  <1>11. ASSUME NEW p \in Pid, NEW stable \in BOOLEAN, AttributeExit(p, stable) PROVE Under(t)'
    <2>1. UNCHANGED <<checked, forked, failed, boot, phase>>
      BY <1>11 DEF AttributeExit, shutdownVars
    <2>2. ASSUME NEW s \in Service, record_exit(s, stable) PROVE Under(t)'
      BY <1>1, <2>1, <2>2, RecordExitContinues DEF ShuttingDown
    <2>3. CASE UNCHANGED <<runtimeVars, timers>>
      BY <1>1, <2>1, <2>3 DEF runtimeVars, ShuttingDown
    <2> QED BY <1>11, <2>2, <2>3 DEF AttributeExit
  <1>12. CASE Reaper
    BY <1>1, <1>12 DEF Reaper, runtimeVars, startVars, shutdownVars, ShuttingDown
  <1>13. CASE StartDeclared
    BY <1>1, <1>13 DEF StartDeclared, BeginStart, runtimeVars, TypeOK, ShuttingDown, Service
  <1>14. CASE Shutdown
    BY <1>1, <1>14 DEF Shutdown, ShutdownFlags, ShutdownMarks, ShutdownReaps, ShutdownSeesNone,
       ShutdownPollsAgain, ShutdownDeadline, ShutdownSignals, runtimeVars, startVars, ShuttingDown
  <1>15. CASE UNCHANGED vars
    BY <1>1, <1>15 DEF vars, runtimeVars, startVars, shutdownVars, ShuttingDown
  <1> HIDE DEF Under, Kept
  <1> QED BY <1>2, <1>3, <1>4, <1>5, <1>6, <1>7, <1>8, <1>9, <1>10, <1>11, <1>12, <1>13,
             <1>14, <1>15 DEF Next, StartStep

\* A service that is neither stopped nor given up is never forgotten: in every
\* order of exits, failed forks, timers and requests something is under way for it.
THEOREM ServicesAreNeverForgotten == Spec => []NeverForgotten
  <1>1. Init => NeverForgotten
    BY DEF Init, NeverForgotten, Service
  <1> QED BY <1>1, NeverForgottenStep, TypeCorrect, PTL DEF Spec

\* The two ways to say that at most one thing is under way agree.
LEMMA AtMostOneThing ==
  ASSUME TypeOK, NEW s \in Service
  PROVE  AtMostOne(s) <=> Continuations(s) <= 1
  BY DEF TypeOK, AtMostOne, Continuations

\* The exit bookkeeping replaces what ended by one timer, or by nothing.
LEMMA RecordExitKeepsOne ==
  ASSUME TypeOK, NEW s \in Service, NEW stable \in BOOLEAN, record_exit(s, stable)
  PROVE  /\ pid' = [pid EXCEPT ![s] = NoPid]
         /\ timers' = timers \/ timers' = [timers EXCEPT ![s] = @ + 1]
  BY DEF record_exit

\* Without operator starts every step moves a service's one thing along.
LEMMA OverlapStep == TypeOK /\ LiveInv /\ OverlapInv /\ [Next]_vars => OverlapInv'
  <1> SUFFICES ASSUME TypeOK, LiveInv, OverlapInv, [Next]_vars PROVE OverlapInv'
    OBVIOUS
  <1> DEFINE inv == <<proc, reaped, startReqs, boot, timers, checked, failed, forked, pid>>
  <1> USE PidAssumption
  <1>1. ASSUME UNCHANGED inv, phase = "boot" \/ phase' # "boot" PROVE OverlapInv'
    BY <1>1 DEF OverlapInv, AtMostOne, NothingUnderWay, EveryChildIsClaimed, Claimed
  <1>2. ASSUME NEW s \in Service, NEW p \in Pid, StartForks(s, p) PROVE OverlapInv'
    <2>1. /\ gate = "free" /\ proc' = [proc EXCEPT ![p] = "alive"]
          /\ checked[s] > 0 /\ checked' = [checked EXCEPT ![s] = @ - 1]
          /\ forked' = [forked EXCEPT ![s] = p]
          /\ UNCHANGED <<reaped, pid, timers, failed, boot, startReqs, phase>>
      BY <1>2 DEF StartForks, ForkChild, runtimeVars, shutdownVars
    <2>2. reaped = {}
      BY <2>1 DEF LiveInv, GateInv
    <2>3. \A t \in Service : AtMostOne(t) => AtMostOne(t)'
      BY <2>1 DEF AtMostOne, TypeOK
    <2>4. \A t \in Service : NothingUnderWay(t) => NothingUnderWay(t)'
      BY <2>1 DEF NothingUnderWay, TypeOK
    <2>5. startReqs = 0 => EveryChildIsClaimed'
      <3> SUFFICES ASSUME startReqs = 0, NEW q \in Pid, proc'[q] # "free" PROVE Claimed(q)'
        BY DEF EveryChildIsClaimed
      <3>1. CASE q = p
        BY <2>1, <3>1 DEF Claimed, TypeOK
      <3>2. CASE q # p
        <4>1. PICK t \in Service : q \in {pid[t], forked[t]}
          BY <2>1, <3>2 DEF OverlapInv, EveryChildIsClaimed, Claimed, TypeOK, ChildrenTypeOK
        <4>2. forked[s] = NoPid
          BY <2>1 DEF LiveInv, GateInv
        <4> QED BY <2>1, <4>1, <4>2 DEF Claimed, TypeOK
      <3> QED BY <3>1, <3>2
    <2> QED BY <2>1, <2>2, <2>3, <2>4, <2>5 DEF OverlapInv
  <1>3. ASSUME NEW s \in Service, StartRecorded(s) PROVE OverlapInv'
    <2>1. /\ forked[s] # NoPid
          /\ pid' = [pid EXCEPT ![s] = forked[s]]
          /\ forked' = [forked EXCEPT ![s] = NoPid]
          /\ UNCHANGED <<proc, reaped, timers, checked, failed, boot, startReqs, phase>>
      BY <1>3 DEF StartRecorded, ReleaseFork, shutdownVars
    <2>2. \A t \in Service : AtMostOne(t) => AtMostOne(t)'
      BY <2>1 DEF AtMostOne, TypeOK
    <2>3. \A t \in Service : NothingUnderWay(t) => NothingUnderWay(t)'
      BY <2>1 DEF NothingUnderWay, TypeOK
    <2>4. startReqs = 0 => pid[s] = NoPid
      BY <2>1 DEF OverlapInv, AtMostOne
    <2>5. startReqs = 0 => EveryChildIsClaimed'
      BY <2>1, <2>4 DEF OverlapInv, EveryChildIsClaimed, Claimed, TypeOK
    <2> QED BY <2>1, <2>2, <2>3, <2>5 DEF OverlapInv
  <1>4. ASSUME NEW s \in Service, StartFails(s) PROVE OverlapInv'
    <2>1. /\ checked[s] > 0
          /\ checked' = [checked EXCEPT ![s] = @ - 1]
          /\ failed' = [failed EXCEPT ![s] = @ + 1]
          /\ UNCHANGED <<proc, reaped, pid, forked, timers, boot, startReqs, phase>>
      BY <1>4 DEF StartFails, childVars, runtimeVars, shutdownVars
    <2>2. \A t \in Service : AtMostOne(t) => AtMostOne(t)'
      BY <2>1 DEF AtMostOne, TypeOK
    <2>3. \A t \in Service : NothingUnderWay(t) => NothingUnderWay(t)'
      BY <2>1 DEF NothingUnderWay, TypeOK
    <2> QED BY <2>1, <2>2, <2>3 DEF OverlapInv, EveryChildIsClaimed, Claimed
  <1>5. ASSUME NEW s \in Service, FailureRecorded(s) PROVE OverlapInv'
    <2>1. FALSE \in BOOLEAN /\ record_exit(s, FALSE)
      BY <1>5 DEF FailureRecorded
    <2>2. /\ failed[s] > 0 /\ failed' = [failed EXCEPT ![s] = @ - 1]
          /\ UNCHANGED <<proc, reaped, forked, checked, boot, startReqs, phase>>
      BY <1>5 DEF FailureRecorded, childVars, shutdownVars
    <2>3. /\ pid' = [pid EXCEPT ![s] = NoPid]
          /\ timers' = timers \/ timers' = [timers EXCEPT ![s] = @ + 1]
      BY <2>1, RecordExitKeepsOne
    <2>4. \A t \in Service : AtMostOne(t) => AtMostOne(t)'
      BY <2>2, <2>3 DEF AtMostOne, TypeOK
    <2>5. \A t \in Service : NothingUnderWay(t) => NothingUnderWay(t)'
      BY <2>2, <2>3 DEF NothingUnderWay, TypeOK
    <2>6. startReqs = 0 => pid[s] = NoPid
      BY <2>2 DEF OverlapInv, AtMostOne
    <2>7. startReqs = 0 => pid' = pid
      BY <2>3, <2>6 DEF TypeOK
    <2> QED BY <2>2, <2>4, <2>5, <2>7 DEF OverlapInv, EveryChildIsClaimed, Claimed
  <1>6. ASSUME NEW s \in Service, RestartTimerFires(s) PROVE OverlapInv'
    <2>1. /\ timers[s] > 0 /\ timers' = [timers EXCEPT ![s] = @ - 1]
          /\ checked' = checked \/ checked' = [checked EXCEPT ![s] = @ + 1]
          /\ UNCHANGED <<proc, reaped, pid, forked, failed, boot, startReqs, phase>>
      BY <1>6 DEF RestartTimerFires, BeginStart, childVars, runtimeVars, shutdownVars
    <2>2. \A t \in Service : AtMostOne(t) => AtMostOne(t)'
      BY <2>1 DEF AtMostOne, TypeOK
    <2>3. \A t \in Service : NothingUnderWay(t) => NothingUnderWay(t)'
      BY <2>1 DEF NothingUnderWay, TypeOK
    <2> QED BY <2>1, <2>2, <2>3 DEF OverlapInv, EveryChildIsClaimed, Claimed
  <1>7. ASSUME NEW s \in Service, start_by_name(s) PROVE OverlapInv'
    BY <1>7 DEF start_by_name, Serving, childVars, shutdownVars, TypeOK, OverlapInv
  <1>8. ASSUME NEW s \in Service, stop_by_name(s) \/ \E p \in Pid : watch_startup(s, p)
        PROVE  OverlapInv'
    BY <1>1, <1>8 DEF stop_by_name, watch_startup, childVars, startVars, shutdownVars
  <1>9. ASSUME NEW p \in Pid, Exits(p) PROVE OverlapInv'
    <2>1. /\ proc[p] = "alive" /\ proc' = [proc EXCEPT ![p] = "zombie"]
          /\ UNCHANGED <<reaped, startReqs, boot, timers, checked, failed, forked, pid, phase>>
      BY <1>9 DEF Exits, ChildExits, runtimeVars, startVars, shutdownVars
    <2>2. /\ \A q \in reaped : proc'[q] = "free"
          /\ \A q \in Pid : proc'[q] # "free" => proc[q] # "free"
      BY <2>1 DEF OverlapInv, TypeOK, ChildrenTypeOK
    <2> QED BY <2>1, <2>2 DEF OverlapInv, AtMostOne, NothingUnderWay, EveryChildIsClaimed, Claimed
  <1>10. ASSUME NEW holder \in {"reaper", "shutdown"}, Collect(holder), phase = "boot" \/ phase' # "boot",
                UNCHANGED <<startReqs, boot, timers, checked, failed, forked, pid>>
         PROVE  OverlapInv'
    <2>1. /\ \A q \in reaped' : proc'[q] = "free"
          /\ \A q \in Pid : proc'[q] # "free" => proc[q] # "free"
      BY <1>10 DEF Collect, reap_exited_children, Zombies
    <2> QED BY <1>10, <2>1 DEF OverlapInv, AtMostOne, NothingUnderWay, EveryChildIsClaimed, Claimed
  <1>11. ASSUME NEW p \in Pid, NEW stable \in BOOLEAN, AttributeExit(p, stable) PROVE OverlapInv'
    <2>1. /\ p \in reaped /\ reaped' = reaped \ {p}
          /\ UNCHANGED <<proc, startReqs, boot, checked, failed, forked, phase>>
      BY <1>11 DEF AttributeExit, TakeReaped, shutdownVars
    <2>2. ASSUME NEW s \in Service, pid[s] = p, record_exit(s, stable) PROVE OverlapInv'
      <3>1. /\ pid' = [pid EXCEPT ![s] = NoPid]
            /\ timers' = timers \/ timers' = [timers EXCEPT ![s] = @ + 1]
        BY <2>2, RecordExitKeepsOne
      <3>2. \A t \in Service : AtMostOne(t) => AtMostOne(t)'
        BY <2>1, <2>2, <3>1 DEF AtMostOne, TypeOK
      <3>3. \A t \in Service : NothingUnderWay(t) => NothingUnderWay(t)'
        BY <2>1, <2>2, <3>1 DEF NothingUnderWay, TypeOK
      <3>4. startReqs = 0 => EveryChildIsClaimed'
        BY <2>1, <2>2, <3>1 DEF OverlapInv, EveryChildIsClaimed, Claimed, TypeOK
      <3> QED BY <2>1, <3>2, <3>3, <3>4 DEF OverlapInv
    <2>3. CASE UNCHANGED <<runtimeVars, timers>>
      BY <2>1, <2>3 DEF runtimeVars, OverlapInv, AtMostOne, NothingUnderWay, EveryChildIsClaimed, Claimed
    <2> QED BY <1>11, <2>2, <2>3 DEF AttributeExit
  <1>12. CASE Reaper
    <2>1. CASE ReaperWakes
      BY <1>1, <1>12, <2>1 DEF Reaper, ReaperWakes, runtimeVars, startVars, shutdownVars
    <2>2. CASE ReaperCollects
      BY <1>10, <1>12, <2>2 DEF Reaper, ReaperCollects, runtimeVars, startVars, shutdownVars
    <2> QED BY <1>12, <2>1, <2>2 DEF Reaper
  <1>13. CASE StartDeclared
    <2>1. phase = "boot" /\ startReqs = 0
      BY <1>13 DEF StartDeclared, OverlapInv, TypeOK
    <2>2. CASE boot < NumServices
      <3>1. /\ boot' = boot + 1 /\ boot + 1 \in Service
            /\ checked' = [checked EXCEPT ![boot + 1] = @ + 1]
            /\ UNCHANGED <<proc, reaped, startReqs, timers, failed, forked, pid, phase>>
        <4>1. boot \in 0 .. NumServices /\ boot + 1 \in Service /\ boot # NumServices
          BY <2>2, ServicesAssumption DEF TypeOK, Service
        <4>2. ~ShuttingDown
          BY <2>1 DEF ShuttingDown
        <4> QED BY <1>13, <4>1, <4>2 DEF StartDeclared, BeginStart, childVars, runtimeVars
      <3>2. NothingUnderWay(boot + 1)
        BY <2>1, <3>1 DEF OverlapInv, TypeOK, Service
      <3>3. \A t \in Service : AtMostOne(t) => AtMostOne(t)'
        BY <3>1, <3>2 DEF AtMostOne, NothingUnderWay, TypeOK
      <3>4. \A t \in Service : t # boot + 1 /\ NothingUnderWay(t) => NothingUnderWay(t)'
        BY <3>1 DEF NothingUnderWay, TypeOK
      <3>5. \A t \in Service : t > boot + 1 => t > boot /\ t # boot + 1
        BY DEF TypeOK, Service
      <3> QED BY <2>1, <3>1, <3>3, <3>4, <3>5 DEF OverlapInv, EveryChildIsClaimed, Claimed
    <2>3. CASE boot = NumServices
      <3>1. ~(boot < NumServices)
        BY <2>3, ServicesAssumption
      <3> QED BY <1>1, <1>13, <2>1, <3>1 DEF StartDeclared, childVars, runtimeVars
    <2> QED BY <1>13, <2>2, <2>3 DEF StartDeclared
  <1>14. CASE Shutdown
    <2>1. CASE ShutdownReaps
      BY <1>10, <2>1 DEF ShutdownReaps, runtimeVars, startVars
    <2>2. CASE ~ShutdownReaps
      BY <1>1, <1>14, <2>2 DEF Shutdown, ShutdownFlags, ShutdownMarks, ShutdownSeesNone,
         ShutdownPollsAgain, ShutdownDeadline, ShutdownSignals, childVars, runtimeVars, startVars
    <2> QED BY <2>1, <2>2
  <1>15. CASE (\E p \in Pid : SendStopTerm(p)) \/ UNCHANGED vars
    BY <1>1, <1>15 DEF SendStopTerm, vars, childVars, runtimeVars, startVars, shutdownVars
  <1> QED BY <1>2, <1>3, <1>4, <1>5, <1>6, <1>7, <1>8, <1>9, <1>11, <1>12, <1>13, <1>14, <1>15
          DEF Next, StartStep

\* Restarts alone never start a service twice and never leave a child that no
\* slot answers for; it takes an operator's StartService to get there.
THEOREM RestartsDoNotOverlap == Spec => []RestartsNeverOverlap
  <1>1. Init => LiveInv /\ OverlapInv
    BY DEF Init, ChildrenInit, LiveInv, SlotPidIsLive, GateInv, ForkedInv, SlotsDisjoint,
           OverlapInv, AtMostOne, NothingUnderWay, EveryChildIsClaimed
  <1>2. TypeOK /\ OverlapInv => RestartsNeverOverlap
    BY AtMostOneThing DEF OverlapInv, RestartsNeverOverlap
  <1> QED BY <1>1, <1>2, LiveStep, OverlapStep, TypeCorrect, PTL DEF Spec

\* A pid is reported exactly for the states that have a process.
THEOREM DownServicesHaveNoPid == Spec => []PidAbsentWhileDown
  <1>1. Init => PidAbsentWhileDown
    BY DEF Init, PidAbsentWhileDown
  <1>2. TypeOK /\ PidAbsentWhileDown /\ [Next]_vars => PidAbsentWhileDown'
    <2> SUFFICES ASSUME TypeOK, PidAbsentWhileDown, [Next]_vars PROVE PidAbsentWhileDown'
      OBVIOUS
    <2>1. CASE UNCHANGED <<state, pid>>
      BY <2>1 DEF PidAbsentWhileDown
    <2>2. ASSUME NEW s \in Service, StartRecorded(s) PROVE PidAbsentWhileDown'
      BY <2>2 DEF StartRecorded, PidAbsentWhileDown, TypeOK
    <2>3. ASSUME NEW s \in Service, NEW stable \in BOOLEAN, record_exit(s, stable)
          PROVE  PidAbsentWhileDown'
      <3>1. /\ pid' = [pid EXCEPT ![s] = NoPid]
            /\ \E d \in {"Stopped", "Backoff", "GaveUp"} : state' = [state EXCEPT ![s] = d]
        BY <2>3 DEF record_exit
      <3> QED BY <3>1 DEF PidAbsentWhileDown, TypeOK
    <2>4. ASSUME NEW s \in Service, NEW p \in Pid, watch_startup(s, p) PROVE PidAbsentWhileDown'
      BY <2>4, PidAssumption DEF watch_startup, PidAbsentWhileDown, TypeOK
    <2>5. ASSUME NEW s \in Service, FailureRecorded(s) PROVE PidAbsentWhileDown'
      <3>1. FALSE \in BOOLEAN /\ record_exit(s, FALSE)
        BY <2>5 DEF FailureRecorded
      <3> QED BY <2>3, <3>1
    <2>6. ASSUME NEW p \in Pid, NEW stable \in BOOLEAN, AttributeExit(p, stable)
          PROVE  PidAbsentWhileDown'
      BY <2>1, <2>3, <2>6 DEF AttributeExit, runtimeVars
    <2>7. ASSUME NEW s \in Service, \/ StartFails(s) \/ RestartTimerFires(s) \/ start_by_name(s)
                                    \/ stop_by_name(s) \/ \E p \in Pid : StartForks(s, p)
          PROVE  PidAbsentWhileDown'
      BY <2>1, <2>7 DEF StartForks, StartFails, RestartTimerFires, start_by_name, stop_by_name, runtimeVars
    <2>8. CASE Shutdown
      BY <2>1, <2>8 DEF Shutdown, ShutdownFlags, ShutdownMarks, ShutdownReaps, ShutdownSeesNone,
         ShutdownPollsAgain, ShutdownDeadline, ShutdownSignals, runtimeVars
    <2>9. CASE \/ Reaper \/ StartDeclared \/ UNCHANGED vars
               \/ \E p \in Pid : Exits(p) \/ SendStopTerm(p)
      BY <2>1, <2>9 DEF Reaper, StartDeclared, Exits, SendStopTerm, vars, runtimeVars
    <2> QED BY <2>2, <2>4, <2>5, <2>6, <2>7, <2>8, <2>9 DEF Next, StartStep
  <1> QED BY <1>1, <1>2, TypeCorrect, PTL DEF Spec

(***************************************************************************)
(* The restart budget.                                                     *)
(***************************************************************************)
BudgetInv == \A s \in Service : restarts[s] <= MaxRetries

\* What a step may do to the budget and to the services that are given up.
BudgetKept ==
    \A s \in Service :
        /\ restarts'[s] <= MaxRetries
        /\ state[s] # "GaveUp" /\ state'[s] = "GaveUp" => restarts'[s] = MaxRetries

\* An exit uses one retry as long as there is one, and gives up with all used.
LEMMA BudgetOfExit ==
  ASSUME TypeOK, BudgetInv, NEW s \in Service, NEW stable \in BOOLEAN, record_exit(s, stable)
  PROVE  BudgetKept
  <1> DEFINE used == IF stable THEN 0 ELSE restarts[s]
  <1>1. MaxRetries \in Nat /\ used \in Nat /\ used <= MaxRetries
    BY ServicesAssumption DEF TypeOK, BudgetInv
  <1>2. CASE stopRequested[s]
    BY <1>2 DEF record_exit, BudgetKept, BudgetInv, TypeOK
  <1>3. CASE ~stopRequested[s] /\ RetriesLeft(used)
    <2>1. /\ restarts' = [restarts EXCEPT ![s] = used + 1]
          /\ state' = [state EXCEPT ![s] = "Backoff"]
          /\ used + 1 <= MaxRetries
      BY <1>1, <1>3 DEF record_exit, RetriesLeft
    <2> HIDE DEF used
    <2> QED BY <2>1 DEF BudgetKept, BudgetInv, TypeOK
  <1>4. CASE ~stopRequested[s] /\ ~RetriesLeft(used)
    <2>1. /\ restarts' = [restarts EXCEPT ![s] = used]
          /\ state' = [state EXCEPT ![s] = "GaveUp"]
          /\ used = MaxRetries
      BY <1>1, <1>4 DEF record_exit, RetriesLeft
    <2> HIDE DEF used
    <2> QED BY <1>1, <2>1 DEF BudgetKept, BudgetInv, TypeOK
  <1> QED BY <1>2, <1>3, <1>4

LEMMA BudgetStep == TypeOK /\ BudgetInv /\ [Next]_vars => BudgetKept
  <1> SUFFICES ASSUME TypeOK, BudgetInv, [Next]_vars PROVE BudgetKept
    OBVIOUS
  <1>1. CASE UNCHANGED <<state, restarts>>
    BY <1>1 DEF BudgetInv, BudgetKept
  <1>2. ASSUME NEW s \in Service, FailureRecorded(s) PROVE BudgetKept
    BY <1>2, BudgetOfExit DEF FailureRecorded
  <1>3. ASSUME NEW p \in Pid, NEW stable \in BOOLEAN, AttributeExit(p, stable) PROVE BudgetKept
    BY <1>1, <1>3, BudgetOfExit DEF AttributeExit, runtimeVars
  <1>4. ASSUME NEW s \in Service, start_by_name(s) PROVE BudgetKept
    <2>1. restarts' = [restarts EXCEPT ![s] = 0] /\ UNCHANGED state
      BY <1>4 DEF start_by_name
    <2> QED BY <2>1, ServicesAssumption DEF BudgetKept, BudgetInv, TypeOK
  <1>5. ASSUME NEW s \in Service, StartRecorded(s) PROVE BudgetKept
    BY <1>5 DEF StartRecorded, BudgetKept, BudgetInv, TypeOK
  <1>6. ASSUME NEW s \in Service, NEW p \in Pid, watch_startup(s, p) PROVE BudgetKept
    BY <1>6 DEF watch_startup, BudgetKept, BudgetInv, TypeOK
  <1>7. ASSUME NEW s \in Service, \/ StartFails(s) \/ RestartTimerFires(s) \/ stop_by_name(s)
                                  \/ \E p \in Pid : StartForks(s, p)
        PROVE  BudgetKept
    BY <1>1, <1>7 DEF StartForks, StartFails, RestartTimerFires, stop_by_name, runtimeVars
  <1>8. CASE Shutdown
    BY <1>1, <1>8 DEF Shutdown, ShutdownFlags, ShutdownMarks, ShutdownReaps, ShutdownSeesNone,
       ShutdownPollsAgain, ShutdownDeadline, ShutdownSignals, runtimeVars
  <1>9. CASE \/ Reaper \/ StartDeclared \/ UNCHANGED vars
             \/ \E p \in Pid : Exits(p) \/ SendStopTerm(p)
    BY <1>1, <1>9 DEF Reaper, StartDeclared, Exits, SendStopTerm, vars, runtimeVars
  <1> QED BY <1>2, <1>3, <1>4, <1>5, <1>6, <1>7, <1>8, <1>9 DEF Next, StartStep

\* A service is given up exactly when the exit at hand finds its budget used up,
\* for any budget, and no order of exits, failures and requests exceeds it.
THEOREM GiveUpIsAtTheCeiling == Spec => GivesUpAtTheCeiling
  <1>1. Init => BudgetInv
    BY ServicesAssumption DEF Init, BudgetInv
  <1>2. TypeOK /\ BudgetInv /\ [Next]_vars => BudgetInv'
    BY BudgetStep DEF BudgetKept, BudgetInv
  <1>3. TypeOK /\ BudgetInv /\ [Next]_vars =>
          [\A s \in Service :
             /\ restarts'[s] <= MaxRetries
             /\ state[s] # "GaveUp" /\ state'[s] = "GaveUp" => restarts'[s] = MaxRetries]_vars
    BY BudgetStep DEF BudgetKept
  <1> QED BY <1>1, <1>2, <1>3, TypeCorrect, PTL DEF Spec, GivesUpAtTheCeiling
=============================================================================
