------------------------------ MODULE Services ------------------------------
(***************************************************************************)
(* The supervisor's declared services: started in order at boot, restarted *)
(* with a bounded budget when they die, started and stopped by operators,  *)
(* and taken down together at shutdown.                                    *)
(*                                                                         *)
(* A start is a task of its own with three places where it can be          *)
(* overtaken: after it has looked at shutting_down and before it holds the *)
(* spawn gate (checked), between the fork and the recording of the pid     *)
(* (forked, gate held), and after a failed fork, when it has dropped the   *)
(* gate and not yet recorded the failure (failed).  Nothing ties a start   *)
(* to the one restart it was scheduled for, so there can be several per    *)
(* service, and they are counted.  A restart delay is a timer that fires   *)
(* at any later moment.                                                    *)
(***************************************************************************)
EXTENDS Children

CONSTANTS NumServices,   \* declared services; a service is its index
          MaxRetries,    \* RestartPolicy::max_retries
          MaxStartReqs   \* bound: StartService requests that find no pid

ASSUME ServicesAssumption ==
    /\ NumServices \in Nat \ {0}
    /\ MaxRetries \in Nat
    /\ MaxStartReqs \in Nat

Service == 1 .. NumServices

VARIABLES
    state, pid, restarts, stopRequested,  \* ServiceRuntime, per slot
    grace,       \* grace[s]: pids whose startup-grace timer has not fired
    timers,      \* timers[s]: scheduled restarts that have not fired
    checked,     \* checked[s]: starts past the shutting_down check, not at the gate
    forked,      \* forked[s]: the pid a start has forked and not recorded yet
    failed,      \* failed[s]: starts whose fork failed, failure not recorded yet
    boot,        \* how many declared services start_declared_services has begun
    phase,       \* where the supervisor's main task is
    stopTerms,   \* pids StopService has read and is about to send SIGTERM
    signals,     \* pids shutdown's signalling loop has still to signal
    killed,      \* live children that were sent SIGKILL
    startReqs    \* StartService requests so far (bounds the model)

runtimeVars == <<state, pid, restarts, stopRequested>>
startVars == <<timers, checked, forked, failed>>
shutdownVars == <<phase, signals>>
vars == <<childVars, runtimeVars, grace, startVars, boot, shutdownVars,
          stopTerms, killed, startReqs>>

ServiceState == {"Starting", "Running", "Backoff", "GaveUp", "Stopped"}
Phase == {"boot", "up", "flagged", "term", "termCheck", "kill", "killCheck", "done"}

\* Every variable has the shape the code gives it.
TypeOK ==
    /\ ChildrenTypeOK
    /\ state \in [Service -> ServiceState]
    /\ pid \in [Service -> Pid \cup {NoPid}]
    /\ restarts \in [Service -> Nat]
    /\ stopRequested \in [Service -> BOOLEAN]
    /\ grace \in [Service -> SUBSET Pid]
    /\ timers \in [Service -> Nat]
    /\ checked \in [Service -> Nat]
    /\ forked \in [Service -> Pid \cup {NoPid}]
    /\ failed \in [Service -> Nat]
    /\ boot \in 0 .. NumServices
    /\ phase \in Phase
    /\ stopTerms \subseteq Pid
    /\ signals \subseteq Pid
    /\ killed \subseteq Pid
    /\ startReqs \in 0 .. MaxStartReqs

Init ==
    /\ ChildrenInit
    /\ state = [s \in Service |-> "Starting"]
    /\ pid = [s \in Service |-> NoPid]
    /\ restarts = [s \in Service |-> 0]
    /\ stopRequested = [s \in Service |-> FALSE]
    /\ grace = [s \in Service |-> {}]
    /\ timers = [s \in Service |-> 0]
    /\ checked = [s \in Service |-> 0]
    /\ forked = [s \in Service |-> NoPid]
    /\ failed = [s \in Service |-> 0]
    /\ boot = 0
    /\ phase = "boot"
    /\ stopTerms = {}
    /\ signals = {}
    /\ killed = {}
    /\ startReqs = 0

ShuttingDown == phase \notin {"boot", "up"}

\* Once shutdown has returned the process exits, and its tasks with it.
Alive == phase # "done"

(***************************************************************************)
(* The exit bookkeeping of ServiceRuntime and BackoffState.                *)
(***************************************************************************)

\* A budget that is checked one retry too late.
RetriesLeftOffByOne(used) == used <= MaxRetries

RetriesLeft(used) == used < MaxRetries

\* ServiceRuntime::record_exit and what schedule_restart makes of its outcome.
\* stable: the process was up for at least the stability threshold.
record_exit(s, stable) ==
    LET used == IF stable THEN 0 ELSE restarts[s] IN
    /\ pid' = [pid EXCEPT ![s] = NoPid]
    /\ \/ /\ stopRequested[s]
          /\ stopRequested' = [stopRequested EXCEPT ![s] = FALSE]
          /\ state' = [state EXCEPT ![s] = "Stopped"]
          /\ UNCHANGED <<restarts, timers>>
       \/ /\ ~stopRequested[s] /\ RetriesLeft(used)
          /\ restarts' = [restarts EXCEPT ![s] = used + 1]
          /\ state' = [state EXCEPT ![s] = "Backoff"]
          /\ timers' = [timers EXCEPT ![s] = @ + 1]
          /\ UNCHANGED stopRequested
       \/ /\ ~stopRequested[s] /\ ~RetriesLeft(used)
          /\ restarts' = [restarts EXCEPT ![s] = used]
          /\ state' = [state EXCEPT ![s] = "GaveUp"]
          /\ UNCHANGED <<stopRequested, timers>>

(***************************************************************************)
(* start(index), in its steps.                                             *)
(***************************************************************************)

\* The shutting_down check at the top of start.
BeginStart(s) ==
    checked' = IF ShuttingDown THEN checked ELSE [checked EXCEPT ![s] = @ + 1]

StartForks(s, p) ==
    /\ Alive
    /\ checked[s] > 0
    /\ ForkChild(p)
    /\ checked' = [checked EXCEPT ![s] = @ - 1]
    /\ forked' = [forked EXCEPT ![s] = p]
    /\ UNCHANGED <<runtimeVars, grace, timers, failed, boot, shutdownVars,
                   stopTerms, killed, startReqs>>

\* record_started, drop(in_flight) and watch_startup.
StartRecorded(s) ==
    /\ Alive
    /\ forked[s] # NoPid
    /\ pid' = [pid EXCEPT ![s] = forked[s]]
    /\ state' = [state EXCEPT ![s] = "Starting"]
    /\ grace' = [grace EXCEPT ![s] = @ \cup {forked[s]}]
    /\ forked' = [forked EXCEPT ![s] = NoPid]
    /\ ReleaseFork
    /\ UNCHANGED <<restarts, stopRequested, timers, checked, failed, boot,
                   shutdownVars, stopTerms, killed, startReqs>>

\* A failed start that returns without dropping the gate.
StartFailsHoldingGate(s) ==
    /\ checked[s] > 0
    /\ gate = "free"
    /\ gate' = "fork"
    /\ checked' = [checked EXCEPT ![s] = @ - 1]
    /\ failed' = [failed EXCEPT ![s] = @ + 1]
    /\ UNCHANGED <<proc, sigchld, woken, reaped, runtimeVars, grace, timers, forked,
                   boot, shutdownVars, stopTerms, killed, startReqs>>

\* The fork or the exec fails; the gate is given back at once.
StartFails(s) ==
    /\ Alive
    /\ checked[s] > 0
    /\ gate = "free"
    /\ checked' = [checked EXCEPT ![s] = @ - 1]
    /\ failed' = [failed EXCEPT ![s] = @ + 1]
    /\ UNCHANGED <<childVars, runtimeVars, grace, timers, forked, boot,
                   shutdownVars, stopTerms, killed, startReqs>>

\* A failed start that is logged and not retried.
FailureDropped(s) ==
    /\ failed[s] > 0
    /\ failed' = [failed EXCEPT ![s] = @ - 1]
    /\ pid' = [pid EXCEPT ![s] = NoPid]
    /\ UNCHANGED <<childVars, state, restarts, stopRequested, grace, timers, checked,
                   forked, boot, shutdownVars, stopTerms, killed, startReqs>>

\* A failed start goes through the same backoff as an exit, with no uptime.
FailureRecorded(s) ==
    /\ Alive
    /\ failed[s] > 0
    /\ failed' = [failed EXCEPT ![s] = @ - 1]
    /\ record_exit(s, FALSE)
    /\ UNCHANGED <<childVars, grace, checked, forked, boot, shutdownVars,
                   stopTerms, killed, startReqs>>

\* A grace timer that promotes whatever the slot holds by then.
PromoteUnchecked(s, p) ==
    /\ p \in grace[s]
    /\ grace' = [grace EXCEPT ![s] = @ \ {p}]
    /\ state' = [state EXCEPT ![s] = "Running"]
    /\ UNCHANGED <<childVars, pid, restarts, stopRequested, startVars, boot,
                   shutdownVars, stopTerms, killed, startReqs>>

\* watch_startup's timer: only the start it belongs to is promoted.
watch_startup(s, p) ==
    /\ Alive
    /\ p \in grace[s]
    /\ grace' = [grace EXCEPT ![s] = @ \ {p}]
    /\ state' = IF pid[s] = p /\ state[s] = "Starting"
                THEN [state EXCEPT ![s] = "Running"]
                ELSE state
    /\ UNCHANGED <<childVars, pid, restarts, stopRequested, startVars, boot,
                   shutdownVars, stopTerms, killed, startReqs>>

\* A timer that stays armed after it has fired.
TimerFiresAgain(s) ==
    /\ timers[s] > 0
    /\ timers' = timers
    /\ checked[s] < 2
    /\ BeginStart(s)
    /\ UNCHANGED <<childVars, runtimeVars, grace, forked, failed, boot,
                   shutdownVars, stopTerms, killed, startReqs>>

\* The task schedule_restart spawned has slept and calls start.
RestartTimerFires(s) ==
    /\ Alive
    /\ timers[s] > 0
    /\ timers' = [timers EXCEPT ![s] = @ - 1]
    /\ BeginStart(s)
    /\ UNCHANGED <<childVars, runtimeVars, grace, forked, failed, boot,
                   shutdownVars, stopTerms, killed, startReqs>>

(***************************************************************************)
(* The reap: which service, if any, a reaped pid belonged to.              *)
(***************************************************************************)
Exits(p) ==
    /\ Alive
    /\ ChildExits(p)
    /\ killed' = killed \ {p}
    /\ UNCHANGED <<runtimeVars, grace, startVars, boot, shutdownVars, stopTerms, startReqs>>

Reaper ==
    /\ Alive
    /\ ReaperWakes \/ ReaperCollects
    /\ UNCHANGED <<runtimeVars, grace, startVars, boot, shutdownVars,
                   stopTerms, killed, startReqs>>

\* Supervisor::record_exit on the first slot that holds p, then react_to_exit.
AttributeExit(p, stable) ==
    /\ Alive
    /\ TakeReaped(p)
    /\ DrainedTo(reaped \ {p})
    /\ \/ \E s \in Service :
            /\ pid[s] = p
            /\ \A t \in 1 .. s - 1 : pid[t] # p
            /\ record_exit(s, stable)
       \/ /\ \A s \in Service : pid[s] # p
          /\ UNCHANGED <<runtimeVars, timers>>
    /\ UNCHANGED <<grace, checked, forked, failed, boot, shutdownVars,
                   stopTerms, killed, startReqs>>

(***************************************************************************)
(* Boot and the operators' requests.                                       *)
(***************************************************************************)
StartInFlight(s) == checked[s] > 0 \/ forked[s] # NoPid \/ failed[s] > 0

\* A boot loop that runs one index too far.
StartDeclaredPastEnd ==
    /\ phase = "boot"
    /\ boot <= NumServices
    /\ boot' = boot + 1
    /\ checked' = [t \in Service |-> IF t = boot + 1 THEN checked[t] + 1 ELSE checked[t]]
    /\ UNCHANGED <<childVars, runtimeVars, grace, timers, forked, failed, shutdownVars,
                   stopTerms, killed, startReqs>>

\* start_declared_services: each start is awaited before the next one begins.
StartDeclared ==
    /\ phase = "boot"
    /\ boot > 0 => ~StartInFlight(boot)
    /\ \/ /\ boot < NumServices
          /\ boot' = boot + 1
          /\ BeginStart(boot + 1)
          /\ UNCHANGED phase
       \/ /\ boot = NumServices
          /\ phase' = "up"
          /\ UNCHANGED <<boot, checked>>
    /\ UNCHANGED <<childVars, runtimeVars, grace, timers, forked, failed, signals,
                   stopTerms, killed, startReqs>>

\* Requests are served from the end of the boot on; shutdown aborts the accept
\* loop, not the requests it has already accepted.
Serving == phase \notin {"boot", "done"}

\* start_by_name on a service without a pid (with one it returns the status).
start_by_name(s) ==
    /\ Serving
    /\ startReqs < MaxStartReqs
    /\ startReqs' = startReqs + 1
    /\ pid[s] = NoPid
    /\ stopRequested' = [stopRequested EXCEPT ![s] = FALSE]
    /\ restarts' = [restarts EXCEPT ![s] = 0]
    /\ BeginStart(s)
    /\ UNCHANGED <<childVars, state, pid, grace, timers, forked, failed, boot,
                   shutdownVars, stopTerms, killed>>

\* stop_by_name up to the unlock: the pid to signal has been read.
stop_by_name(s) ==
    /\ Serving
    /\ stopRequested' = [stopRequested EXCEPT ![s] = TRUE]
    /\ stopTerms' = stopTerms \cup ({pid[s]} \ {NoPid})
    /\ UNCHANGED <<childVars, state, pid, restarts, grace, startVars, boot,
                   shutdownVars, killed, startReqs>>

\* ... and the SIGTERM that follows, which the process may obey (Exits) or ignore.
SendStopTerm(p) ==
    /\ Alive
    /\ p \in stopTerms
    /\ stopTerms' = stopTerms \ {p}
    /\ UNCHANGED <<childVars, runtimeVars, grace, startVars, boot, shutdownVars,
                   killed, startReqs>>

(***************************************************************************)
(* shutdown(grace), the main task's last act.                              *)
(***************************************************************************)
live_children == {pid[s] : s \in Service} \ {NoPid}

\* SIGTERM has arrived: shutting_down is stored.
ShutdownFlags ==
    /\ phase = "up"
    /\ phase' = "flagged"
    /\ UNCHANGED <<childVars, runtimeVars, grace, startVars, boot, signals,
                   stopTerms, killed, startReqs>>

\* Under the slots lock: every service is marked, every pid is collected.
ShutdownMarks ==
    /\ phase = "flagged"
    /\ phase' = "term"
    /\ stopRequested' = [s \in Service |-> TRUE]
    /\ signals' = live_children
    /\ UNCHANGED <<childVars, state, pid, restarts, grace, startVars, boot,
                   stopTerms, killed, startReqs>>

\* One signal of the SIGTERM loop or of the SIGKILL loop.
ShutdownSignals(p) ==
    /\ p \in signals
    /\ signals' = signals \ {p}
    /\ killed' = IF phase = "kill" /\ proc[p] = "alive" THEN killed \cup {p} ELSE killed
    /\ UNCHANGED <<childVars, runtimeVars, grace, startVars, boot, phase,
                   stopTerms, startReqs>>

\* await_children_gone: a reap, in turn with the reaper task's ...
ShutdownReaps ==
    /\ phase \in {"term", "kill"}
    /\ signals = {}
    /\ Collect("shutdown")
    /\ phase' = IF phase = "term" THEN "termCheck" ELSE "killCheck"
    /\ UNCHANGED <<sigchld, woken, runtimeVars, grace, startVars, boot, signals,
                   stopTerms, killed, startReqs>>

\* ... then the look at what is left: nothing, so shutdown returns,
ShutdownSeesNone ==
    /\ phase \in {"termCheck", "killCheck"}
    /\ gate # "shutdown"
    /\ live_children = {}
    /\ phase' = "done"
    /\ UNCHANGED <<childVars, runtimeVars, grace, startVars, boot, signals,
                   stopTerms, killed, startReqs>>

\* ... something, and the budget is not used up, so it polls again,
ShutdownPollsAgain ==
    /\ phase \in {"termCheck", "killCheck"}
    /\ gate # "shutdown"
    /\ live_children # {}
    /\ phase' = IF phase = "termCheck" THEN "term" ELSE "kill"
    /\ UNCHANGED <<childVars, runtimeVars, grace, startVars, boot, signals,
                   stopTerms, killed, startReqs>>

\* A shutdown that never escalates from SIGTERM to SIGKILL.
DeadlineWithoutKill ==
    /\ gate # "shutdown"
    /\ live_children # {}
    /\ phase = "killCheck" /\ phase' = "done" /\ UNCHANGED signals
    /\ UNCHANGED <<childVars, runtimeVars, grace, startVars, boot,
                   stopTerms, killed, startReqs>>

\* ... or the budget is used up: survivors are killed, or reported and left.
ShutdownDeadline ==
    /\ gate # "shutdown"
    /\ live_children # {}
    /\ \/ phase = "termCheck" /\ phase' = "kill" /\ signals' = live_children
       \/ phase = "killCheck" /\ phase' = "done" /\ UNCHANGED signals
    /\ UNCHANGED <<childVars, runtimeVars, grace, startVars, boot,
                   stopTerms, killed, startReqs>>

Shutdown ==
    \/ ShutdownFlags \/ ShutdownMarks \/ ShutdownReaps \/ ShutdownSeesNone
    \/ ShutdownPollsAgain \/ ShutdownDeadline
    \/ \E p \in Pid : ShutdownSignals(p)

StartStep(s) ==
    \/ \E p \in Pid : StartForks(s, p)
    \/ StartRecorded(s) \/ StartFails(s) \/ FailureRecorded(s) \/ RestartTimerFires(s)

Next ==
    \/ \E s \in Service : StartStep(s) \/ start_by_name(s) \/ stop_by_name(s)
    \/ \E s \in Service, p \in Pid : watch_startup(s, p)
    \/ \E p \in Pid : Exits(p) \/ SendStopTerm(p)
    \/ \E p \in Pid, stable \in BOOLEAN : AttributeExit(p, stable)
    \/ Reaper \/ StartDeclared \/ Shutdown

Spec == Init /\ [][Next]_vars

(***************************************************************************)
(* Fairness.  The runtime runs every ready task; spawn_gate is a tokio     *)
(* mutex, which is granted in the order it is asked for, so whoever waits  *)
(* for it while it is given back again and again gets it (strong           *)
(* fairness).  A SIGKILLed process dies.  Nothing makes a process that was *)
(* only asked to exit do so, nor an operator send a request.               *)
(***************************************************************************)
Fairness ==
    /\ \A s \in Service :
        /\ SF_vars(StartFails(s) \/ \E p \in Pid : StartForks(s, p))
        /\ WF_vars(StartRecorded(s))
        /\ WF_vars(FailureRecorded(s))
        /\ WF_vars(RestartTimerFires(s))
    /\ SF_vars(Reaper)
    /\ \A p \in Pid :
        /\ WF_vars(\E stable \in BOOLEAN : AttributeExit(p, stable))
        /\ WF_vars(p \in killed /\ Exits(p))
        /\ WF_vars(ShutdownSignals(p))
    /\ WF_vars(StartDeclared)
    /\ WF_vars(ShutdownMarks)
    /\ SF_vars(ShutdownReaps)
    /\ WF_vars(ShutdownSeesNone)
    /\ SF_vars(ShutdownDeadline)

FairSpec == Spec /\ Fairness

(***************************************************************************)
(* Safety.                                                                 *)
(***************************************************************************)

\* A slot's pid is a child that has not been waited for, or one of the batch
\* being attributed: the gate keeps a reap from overtaking the recording of a
\* fork, which would leave the service waiting for a process that is gone.
SlotPidIsLive ==
    \A s \in Service : pid[s] # NoPid => proc[pid[s]] # "free" \/ pid[s] \in reaped

\* Everything that will bring a service's next event about.
Continuations(s) ==
    timers[s] + checked[s] + failed[s]
      + (IF forked[s] # NoPid THEN 1 ELSE 0) + (IF pid[s] # NoPid THEN 1 ELSE 0)

\* A service that was begun and is neither stopped nor given up always has
\* something under way (a process, a start, a restart timer): whatever order
\* exits, failures, requests and timers come in, it is never forgotten.
NeverForgotten ==
    \A s \in Service :
        s <= boot /\ ~ShuttingDown /\ state[s] \in {"Starting", "Running", "Backoff"}
            => Continuations(s) > 0

\* The child is one its slot, or the start that forked it, answers for.
Claimed(p) == \E s \in Service : p \in {pid[s], forked[s]}

\* Every child that has not been reaped is claimed.
EveryChildIsClaimed == \A p \in Pid : proc[p] # "free" => Claimed(p)

\* Unless operators ask for starts, restarts alone never give a service two
\* starts at a time, and so never a process that no slot knows.
RestartsNeverOverlap ==
    startReqs = 0 => /\ \A s \in Service : Continuations(s) <= 1
                     /\ EveryChildIsClaimed

\* A status names a pid exactly in the states that have one; a declared service
\* that has never been recorded as started reports Starting without one.
PidAbsentWhileDown ==
    \A s \in Service : /\ pid[s] # NoPid => state[s] \in {"Starting", "Running"}
                       /\ state[s] = "Running" => pid[s] # NoPid

\* Give-up happens at the ceiling and only there, and the count reported with
\* it does not include the exit that exhausted the budget.
GivesUpAtTheCeiling ==
    [][\A s \in Service :
        /\ restarts'[s] <= MaxRetries
        /\ state[s] # "GaveUp" /\ state'[s] = "GaveUp" => restarts'[s] = MaxRetries]_vars

(***************************************************************************)
(* What the repository says and the code does not do.                      *)
(***************************************************************************)

\* "An operator asked for the service to stop; its restart policy is suppressed"
\* (services.rs:98): while a stop stands, no restart is begun.
StopSuppressesRestart ==
    [][\A s \in Service :
        stopRequested[s] /\ stopRequested'[s] => checked'[s] <= checked[s]]_vars

(***************************************************************************)
(* Liveness, under Fairness.                                               *)
(***************************************************************************)

\* An exit is noticed although SIGCHLDs coalesce and the reap waits for the gate.
ExitIsNoticed ==
    \A s \in Service, p \in Pid :
        (pid[s] = p /\ proc[p] = "zombie") ~> (pid[s] # p \/ phase = "done")

\* A service in Backoff is started again, given up, or overtaken by a shutdown.
BackoffEnds ==
    \A s \in Service : state[s] = "Backoff" ~> (state[s] # "Backoff" \/ ShuttingDown)

\* Shutdown returns, whatever the children do with the signals.
ShutdownReturns == phase = "flagged" ~> phase = "done"
=============================================================================
