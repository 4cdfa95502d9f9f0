---------------------------- MODULE SessionTable ----------------------------
(***************************************************************************)
(* The sessions the supervisor spawns on a caller's behalf: the table of   *)
(* live and recently exited ones, the requests that read it and act on     *)
(* what they read (stop, with its SIGKILL a grace period later; wait), and *)
(* the cgroup scope each session is spawned into.                          *)
(*                                                                         *)
(* Callers name a session by its pid, which the kernel reuses; the table   *)
(* tells the incarnations of a pid apart by generation.  inc and fate are  *)
(* the truth the table is compared with: which incarnation holds a pid,    *)
(* and what became of each.                                                *)
(***************************************************************************)
EXTENDS Children, Sequences

CONSTANTS ExitCode,   \* wait statuses, "killed by a signal" among them
          Waiter,     \* callers of wait_for_session_exit
          Retained,   \* RETAINED_EXITED_SESSIONS
          MaxSpawns,  \* bound: sessions spawned (the code counts in a u64)
          Scoped,     \* the incarnations spawned into a cgroup scope of their own
          MaxRequests \* bound: stop and wait requests under way at a time

ASSUME SessionAssumption ==
    /\ Retained \in Nat \ {0}
    /\ MaxSpawns \in Nat
    /\ MaxRequests \in Nat
    /\ {"Unknown", "Running", "unborn", "none"} \cap ExitCode = {}

Gen == 1 .. MaxSpawns

VARIABLES
    status,      \* status[p]: what the table answers for p; "Unknown" is no record
    generation,  \* generation[p]: the incarnation the record is about, 0 without one
    exited,      \* exited pids in reap order, oldest first
    spawned,     \* generations handed out so far
    forkedPid,   \* the pid fork_session has forked and not recorded yet
    notify,      \* an exit is recorded and its waiters are not notified yet
    handed,      \* the generation whose scope that exit handed back, 0 if none
    waitStatus,  \* waitStatus[p]: what waitpid reports, or reported, of p's last exit
    scope,       \* scope[g]: the directory of incarnation g
    stops,       \* <<pid, generation>> read by stop_session, SIGTERM not sent yet
    kills,       \* ... SIGTERM sent, the grace period running
    killing,     \* ... found running when it ended, SIGKILL not sent yet
    doomed,      \* pids of children that were sent SIGKILL
    wait,        \* wait[w]: where a wait_for_session_exit is
    inc,         \* inc[p]: the incarnation that holds or last held p
    fate         \* fate[g]: what became of incarnation g

tableVars == <<status, generation, exited, spawned>>
drainVars == <<notify, handed>>
stopVars == <<stops, kills, killing, doomed>>
truth == <<inc, fate, waitStatus>>
vars == <<childVars, tableVars, forkedPid, drainVars, scope, stopVars, wait, truth>>

Answer == {"Unknown", "Running"} \cup ExitCode
ScopeState == {"none", "owned", "handed", "retrying", "settled"}
StopRef == Pid \X Gen

\* Every variable has the shape the code gives it.
TypeOK ==
    /\ ChildrenTypeOK
    /\ status \in [Pid -> Answer]
    /\ generation \in [Pid -> 0 .. MaxSpawns]
    /\ exited \in Seq(Pid)
    /\ spawned \in 0 .. MaxSpawns
    /\ forkedPid \in Pid \cup {NoPid}
    /\ notify \in BOOLEAN
    /\ handed \in 0 .. MaxSpawns
    /\ waitStatus \in [Pid -> {"none"} \cup ExitCode]
    /\ scope \in [Gen -> ScopeState]
    /\ stops \subseteq StopRef
    /\ kills \subseteq StopRef
    /\ killing \subseteq StopRef
    /\ doomed \subseteq Pid
    /\ wait \in [Waiter -> [at : {"idle", "registered", "decided", "asleep"},
                            pid : Pid \cup {NoPid}, woken : BOOLEAN]]
    /\ inc \in [Pid -> 0 .. MaxSpawns]
    /\ fate \in [Gen -> {"unborn", "Running"} \cup ExitCode]

Init ==
    /\ ChildrenInit
    /\ status = [p \in Pid |-> "Unknown"]
    /\ generation = [p \in Pid |-> 0]
    /\ exited = << >>
    /\ spawned = 0
    /\ forkedPid = NoPid
    /\ notify = FALSE
    /\ handed = 0
    /\ waitStatus = [p \in Pid |-> "none"]
    /\ scope = [g \in Gen |-> "none"]
    /\ stops = {} /\ kills = {} /\ killing = {} /\ doomed = {}
    /\ wait = [w \in Waiter |-> [at |-> "idle", pid |-> NoPid, woken |-> FALSE]]
    /\ inc = [p \in Pid |-> 0]
    /\ fate = [g \in Gen |-> "unborn"]

\* Stop and wait requests that have not run to their end.
UnderWay == Cardinality(stops \cup kills \cup killing)
            + Cardinality({w \in Waiter : wait[w].at # "idle"})

(***************************************************************************)
(* fork_session.                                                           *)
(***************************************************************************)

\* The fork, under the gate.  A fork that fails changes nothing.
SessionForks(p) ==
    /\ spawned < MaxSpawns
    /\ ForkChild(p)
    /\ forkedPid' = p
    /\ inc' = [inc EXCEPT ![p] = spawned + 1]
    /\ fate' = [fate EXCEPT ![spawned + 1] = "Running"]
    /\ UNCHANGED <<tableVars, drainVars, scope, stopVars, wait, waitStatus>>

\* A table that leaves the reissued pid in the queue of exited ones.
RetainAll(q, p) == q

\* exited.retain(|r| r != p).  A pid is in the queue at most once (QueueIsExact).
Retain(q, p) ==
    IF \E i \in 1 .. Len(q) : q[i] = p
    THEN LET k == CHOOSE i \in 1 .. Len(q) : q[i] = p
         IN  [j \in 1 .. Len(q) - 1 |-> IF j < k THEN q[j] ELSE q[j + 1]]
    ELSE q

\* A table that keeps the record it finds under a reissued pid.
RecordKept ==
    /\ forkedPid # NoPid
    /\ exited' = Retain(exited, forkedPid)
    /\ spawned' = spawned + 1
    /\ status' = [status EXCEPT ![forkedPid] = "Running"]
    /\ generation' = [generation EXCEPT ![forkedPid] = IF @ = 0 THEN spawned + 1 ELSE @]
    /\ forkedPid' = NoPid
    /\ ReleaseFork
    /\ UNCHANGED <<drainVars, scope, stopVars, wait, truth>>

\* record_spawned and own_scope; the gate goes with the guard's drop.
SessionRecorded ==
    /\ forkedPid # NoPid
    /\ exited' = Retain(exited, forkedPid)
    /\ spawned' = spawned + 1
    /\ status' = [status EXCEPT ![forkedPid] = "Running"]
    /\ generation' = [generation EXCEPT ![forkedPid] = spawned + 1]
    /\ scope' = [scope EXCEPT ![spawned + 1] = IF spawned + 1 \in Scoped THEN "owned" ELSE "none"]
    /\ forkedPid' = NoPid
    /\ ReleaseFork
    /\ UNCHANGED <<drainVars, stopVars, wait, truth>>

(***************************************************************************)
(* An exit, the reap and what the reap does for each child of its batch.   *)
(* In this module every child of the supervisor is a session.              *)
(***************************************************************************)
SessionExits(p, code) ==
    /\ ChildExits(p)
    /\ fate' = [fate EXCEPT ![inc[p]] = code]
    /\ waitStatus' = [waitStatus EXCEPT ![p] = code]
    /\ doomed' = doomed \ {p}
    /\ UNCHANGED <<tableVars, forkedPid, drainVars, scope, stops, kills, killing, wait, inc>>

Reaper ==
    /\ ReaperWakes \/ ReaperCollects
    /\ UNCHANGED <<tableVars, forkedPid, drainVars, scope, stopVars, wait, truth>>

\* How many of the oldest exited sessions a queue of n has to give up.
Overflow(n) == IF n > Retained THEN n - Retained ELSE 0

\* A table that takes the scope of the session spawned last.
LatestScope(p) == spawned

\* scopes.remove(&generation): the scope is looked up by the record's generation.
ScopeOf(p) == generation[p]

\* A table that makes room by giving up the newest of the retained records.
RecordOutcomeNewest(p) ==
    LET full == Len(exited) = Retained
        kept == IF full THEN SubSeq(exited, 1, Len(exited) - 1) ELSE exited
        gone == IF full THEN {exited[Len(exited)]} ELSE {}
    IN  /\ exited' = Append(kept, p)
        /\ status' = [r \in Pid |-> IF r \in gone THEN "Unknown"
                                    ELSE IF r = p THEN waitStatus[p] ELSE status[r]]
        /\ generation' = [r \in Pid |-> IF r \in gone THEN 0 ELSE generation[r]]

\* The outcome is stored, the pid queued, and the oldest records evicted.
RecordOutcome(p) ==
    LET queue == Append(exited, p)
        over  == Overflow(Len(queue))
        gone  == {queue[i] : i \in 1 .. over}
    IN  /\ exited' = SubSeq(queue, over + 1, Len(queue))
        /\ status' = [r \in Pid |-> IF r \in gone THEN "Unknown"
                                    ELSE IF r = p THEN waitStatus[p] ELSE status[r]]
        /\ generation' = [r \in Pid |-> IF r \in gone THEN 0 ELSE generation[r]]

\* SessionTable::record_exit for the next child of the batch.  It leaves a pid
\* without a record alone; here each has one (TableMatchesKernel).
SessionExitRecorded(p) ==
    /\ ~notify
    /\ TakeReaped(p)
    /\ status[p] # "Unknown"
    /\ RecordOutcome(p)
    /\ handed' = IF scope[ScopeOf(p)] = "owned" THEN ScopeOf(p) ELSE 0
    /\ scope' = IF scope[ScopeOf(p)] = "owned"
                THEN [scope EXCEPT ![ScopeOf(p)] = "handed"] ELSE scope
    /\ notify' = TRUE
    /\ UNCHANGED <<gate, spawned, forkedPid, stopVars, wait, truth>>

\* Wakes only the waits that already sleep, not those that are registered.
NotifySleepers ==
    wait' = [w \in Waiter |->
               IF wait[w].at = "asleep" THEN [wait[w] EXCEPT !.woken = TRUE] ELSE wait[w]]

\* session_exited.notify_waiters(): every Notified that is enabled by now.
NotifyWaiters ==
    wait' = [w \in Waiter |->
               IF wait[w].at # "idle" THEN [wait[w] EXCEPT !.woken = TRUE] ELSE wait[w]]

\* The rest of the turn: waiters are notified, a handed-back scope is removed,
\* refused (still populated, so a task retries) or left; the last child's turn
\* ends the reap.
SessionExitAnnounced ==
    /\ notify
    /\ notify' = FALSE
    /\ NotifyWaiters
    /\ \/ /\ handed = 0
          /\ UNCHANGED scope
       \/ /\ handed # 0
          /\ \E next \in {"settled", "retrying"} : scope' = [scope EXCEPT ![handed] = next]
    /\ handed' = 0
    /\ DrainedTo(reaped)
    /\ UNCHANGED <<proc, sigchld, woken, reaped, tableVars, forkedPid, stopVars, truth>>

\* A retry removes the scope, or gives up on it; until then it stays populated.
ScopeRetried(g) ==
    /\ scope[g] = "retrying"
    /\ scope' = [scope EXCEPT ![g] = "settled"]
    /\ UNCHANGED <<childVars, tableVars, forkedPid, drainVars, stopVars, wait, truth>>

(***************************************************************************)
(* stop_session.                                                           *)
(***************************************************************************)

\* A stop that does not look at what the pid's record says.
StopAnyPid(p) ==
    /\ UnderWay < MaxRequests
    /\ stops' = stops \cup {<<p, generation[p]>>}
    /\ UNCHANGED <<childVars, tableVars, forkedPid, drainVars, scope, kills, killing,
                   doomed, wait, truth>>

\* The state and the generation are read together; only a running session is
\* stopped.
stop_session(p) ==
    /\ UnderWay < MaxRequests
    /\ status[p] = "Running"
    /\ stops' = stops \cup {<<p, generation[p]>>}
    /\ UNCHANGED <<childVars, tableVars, forkedPid, drainVars, scope, kills, killing,
                   doomed, wait, truth>>

\* SIGTERM, which the session may obey (SessionExits) or ignore; the timer starts.
SendTerm(p, g) ==
    /\ <<p, g>> \in stops
    /\ stops' = stops \ {<<p, g>>}
    /\ kills' = kills \cup {<<p, g>>}
    /\ UNCHANGED <<childVars, tableVars, forkedPid, drainVars, scope, killing, doomed,
                   wait, truth>>

is_running_generation(p, g) == status[p] = "Running" /\ generation[p] = g

\* A timer that takes the last generation handed out for the session's own.
GraceEndsLatest(p, g) ==
    /\ <<p, g>> \in kills
    /\ kills' = kills \ {<<p, g>>}
    /\ killing' = IF is_running_generation(p, g) /\ g = spawned
                  THEN killing \cup {<<p, g>>} ELSE killing
    /\ UNCHANGED <<childVars, tableVars, forkedPid, drainVars, scope, stops, doomed,
                   wait, truth>>

\* The grace period is over: only a session that is still that one is killed.
GraceEnds(p, g) ==
    /\ <<p, g>> \in kills
    /\ kills' = kills \ {<<p, g>>}
    /\ killing' = IF is_running_generation(p, g) THEN killing \cup {<<p, g>>} ELSE killing
    /\ UNCHANGED <<childVars, tableVars, forkedPid, drainVars, scope, stops, doomed,
                   wait, truth>>

\* SIGKILL goes to whoever holds the pid now; the table's lock was released.
SendKill(p, g) ==
    /\ <<p, g>> \in killing
    /\ killing' = killing \ {<<p, g>>}
    /\ doomed' = IF proc[p] = "alive" THEN doomed \cup {p} ELSE doomed
    /\ UNCHANGED <<childVars, tableVars, forkedPid, drainVars, scope, stops, kills,
                   wait, truth>>

(***************************************************************************)
(* wait_for_session_exit.                                                  *)
(***************************************************************************)
Waits(w, at, p, woke) ==
    /\ wait' = [wait EXCEPT ![w] = [at |-> at, pid |-> p, woken |-> woke]]
    /\ UNCHANGED <<childVars, tableVars, forkedPid, drainVars, scope, stopVars, truth>>

\* The wait is enabled before the status is read.
WaitRegisters(w, p) ==
    /\ UnderWay < MaxRequests
    /\ wait[w].at = "idle"
    /\ Waits(w, "registered", p, FALSE)

\* The status decides: denied or exited ends the request, running goes on ...
WaitReads(w) ==
    /\ wait[w].at = "registered"
    /\ \/ /\ status[wait[w].pid] # "Running"
          /\ Waits(w, "idle", NoPid, FALSE)
       \/ /\ status[wait[w].pid] = "Running"
          /\ Waits(w, "decided", wait[w].pid, wait[w].woken)

\* ... to sleep, which lasts no time if the exit was announced meanwhile.
WaitSleeps(w) ==
    wait[w].at = "decided" /\ Waits(w, "asleep", wait[w].pid, wait[w].woken)

\* Woken, it registers again and reads again.
WaitWakes(w) ==
    /\ wait[w].at = "asleep" /\ wait[w].woken
    /\ Waits(w, "registered", wait[w].pid, FALSE)

Next ==
    \/ \E p \in Pid : SessionForks(p) \/ SessionExitRecorded(p) \/ stop_session(p)
    \/ \E p \in Pid, code \in ExitCode : SessionExits(p, code)
    \/ SessionRecorded \/ Reaper \/ SessionExitAnnounced
    \/ \E g \in Gen : ScopeRetried(g)
    \/ \E p \in Pid, g \in Gen : SendTerm(p, g) \/ GraceEnds(p, g) \/ SendKill(p, g)
    \/ \E w \in Waiter : WaitReads(w) \/ WaitSleeps(w) \/ WaitWakes(w)
    \/ \E w \in Waiter, p \in Pid : WaitRegisters(w, p)

Spec == Init /\ [][Next]_vars

(***************************************************************************)
(* Fairness: tasks run, timers fire, the gate is granted in turn, and a    *)
(* process that was sent SIGKILL dies.  Nothing else makes one exit.       *)
(***************************************************************************)
Fairness ==
    /\ WF_vars(SessionRecorded)
    /\ SF_vars(Reaper)
    /\ WF_vars(SessionExitAnnounced)
    /\ \A p \in Pid :
        /\ WF_vars(SessionExitRecorded(p))
        /\ WF_vars(p \in doomed /\ \E code \in ExitCode : SessionExits(p, code))
        /\ \A g \in Gen :
            WF_vars(SendTerm(p, g)) /\ WF_vars(GraceEnds(p, g)) /\ WF_vars(SendKill(p, g))

FairSpec == Spec /\ Fairness

(***************************************************************************)
(* Safety.                                                                 *)
(***************************************************************************)

\* A session the table calls running is the incarnation that holds the pid and
\* has not been waited for, except in the batch the reap is recording; and every
\* child is called running but the one whose fork still holds the gate.  Forks,
\* exits and reaps may come in any order without the table losing track.
TableMatchesKernel ==
    \A p \in Pid :
        /\ status[p] = "Running" => /\ generation[p] = inc[p]
                                    /\ proc[p] # "free" \/ p \in reaped
        /\ proc[p] # "free" /\ p # forkedPid => status[p] = "Running"

\* An exit status the table reports is the one that incarnation really ended
\* with, however often its pid has been reissued since.
ReportedIsTrue ==
    \A p \in Pid : status[p] \in ExitCode =>
        generation[p] \in Gen /\ fate[generation[p]] = status[p]

\* The queue of exited pids lists each retained exited session once and nothing
\* else, so an eviction never takes a running session's record with it.
QueueIsExact ==
    /\ Len(exited) <= Retained
    /\ \A i, j \in 1 .. Len(exited) : exited[i] = exited[j] => i = j
    /\ {exited[i] : i \in 1 .. Len(exited)} = {p \in Pid : status[p] \in ExitCode}

\* A wait sleeps without a wakeup only while its session runs, or while the exit
\* that will wake it is recorded and about to be announced.
NoLostWakeup ==
    \A w \in Waiter : wait[w].at = "asleep" /\ ~wait[w].woken =>
        status[wait[w].pid] = "Running" \/ notify

\* A scope is in the table exactly as long as its session runs: a directory is
\* never removed from under a live session, nor handed back twice.
ScopesAreOfTheRunning ==
    [][\A g \in Gen :
        /\ scope[g] = "owned" /\ scope'[g] # "owned" => fate[g] \in ExitCode
        /\ scope'[g] = "handed" => scope[g] \in {"owned", "handed"}]_vars

(***************************************************************************)
(* What the repository says and the code does not do.                      *)
(***************************************************************************)

\* "a pid that now belongs to a *later* session must not be signalled on an
\* earlier one's behalf" (session_table.rs:165-166).
KillHitsItsSession ==
    [][\A p \in Pid, g \in Gen :
        <<p, g>> \in killing \ killing' => ~(proc[p] = "alive" /\ inc[p] # g)]_vars

(***************************************************************************)
(* Liveness, under Fairness.                                               *)
(***************************************************************************)

\* A session that was asked to stop ends, whether it obeys or not.
StoppedSessionEnds ==
    \A p \in Pid, g \in Gen :
        <<p, g>> \in stops ~> ~is_running_generation(p, g)

(***************************************************************************)
(* The promise to callers: SessionLedger is what the table implements.     *)
(***************************************************************************)

\* The sessions behind p's in the queue of exited ones.
Behind(p) == {exited[j] : j \in {k \in 1 .. Len(exited) : \E i \in 1 .. k - 1 : exited[i] = p}}

Ledger == INSTANCE SessionLedger WITH answer <- status, later <- [p \in Pid |-> Behind(p)]

LedgerSpec == Ledger!Spec
=============================================================================
