--------------------------- MODULE SessionProofs ---------------------------
(***************************************************************************)
(* The session table against the kernel, for every set of pids, wait       *)
(* statuses and waiters, every retention bound and every number of spawns. *)
(***************************************************************************)
EXTENDS SessionTable, TLAPS

(***************************************************************************)
(* What makes TableMatchesKernel and ReportedIsTrue inductive.             *)
(***************************************************************************)

\* An unrecorded fork and an unfinished batch each hold the gate, so never both.
GateInv ==
    /\ forkedPid # NoPid => gate = "fork"
    /\ reaped # {} => gate = "reaper"
    /\ notify => gate = "reaper"

\* The child whose fork is not recorded: the table does not know it yet.
ForkedInv ==
    forkedPid # NoPid =>
        /\ proc[forkedPid] # "free"
        /\ status[forkedPid] # "Running"
        /\ inc[forkedPid] = spawned + 1
        /\ spawned < MaxSpawns

\* The batch has left the kernel and is still running in the table.
BatchInv == \A p \in reaped : proc[p] = "free" /\ status[p] = "Running"

\* A pid somebody answers for: the kernel has it or the batch holds it.
Held(p) == proc[p] # "free" \/ p \in reaped

\* Incarnations are numbered in fork order and no two children share one.
NumberInv ==
    /\ \A p \in Pid : generation[p] <= spawned
    /\ \A p \in Pid : inc[p] <= spawned \/ p = forkedPid
    /\ \A p \in Pid : Held(p) => inc[p] >= 1
    /\ \A p, q \in Pid : Held(p) /\ Held(q) /\ inc[p] = inc[q] => p = q

\* What became of an incarnation, and what waitpid will say of it.
FateInv ==
    /\ \A p \in Pid : proc[p] = "alive" => fate[inc[p]] = "Running"
    /\ \A p \in Pid : proc[p] = "zombie" \/ p \in reaped =>
                        /\ waitStatus[p] = fate[inc[p]]
                        /\ waitStatus[p] \in ExitCode

KernelInv ==
    /\ TableMatchesKernel /\ GateInv /\ ForkedInv /\ BatchInv /\ NumberInv /\ FateInv
    /\ ReportedIsTrue /\ QueueIsExact

\* A wait that has found its session running is told of the exit, whether or not
\* it sleeps already; and a wait that is not idle names a pid.
WaitInv ==
    \A w \in Waiter :
        /\ wait[w].at # "idle" => wait[w].pid \in Pid
        /\ wait[w].at \in {"decided", "asleep"} /\ ~wait[w].woken =>
               status[wait[w].pid] = "Running" \/ notify

(***************************************************************************)
(* The queue of exited pids.                                               *)
(***************************************************************************)

\* exited.retain keeps a queue of pids.
LEMMA RetainType ==
  ASSUME NEW q \in Seq(Pid), NEW p \in Pid
  PROVE  Retain(q, p) \in Seq(Pid)
  <1>1. CASE \E i \in 1 .. Len(q) : q[i] = p
    <2> DEFINE k == CHOOSE i \in 1 .. Len(q) : q[i] = p
    <2>1. k \in 1 .. Len(q)
      BY <1>1
    <2>2. Len(q) \in Nat /\ Len(q) - 1 \in Nat
      BY <2>1
    <2> HIDE DEF k
    <2>3. [j \in 1 .. Len(q) - 1 |-> IF j < k THEN q[j] ELSE q[j + 1]]
            \in [1 .. Len(q) - 1 -> Pid]
      BY <2>1, <2>2
    <2>4. Retain(q, p) = [j \in 1 .. Len(q) - 1 |-> IF j < k THEN q[j] ELSE q[j + 1]]
      BY <1>1 DEF Retain, k
    <2> QED BY <2>2, <2>3, <2>4
  <1>2. CASE ~\E i \in 1 .. Len(q) : q[i] = p
    BY <1>2 DEF Retain
  <1> QED BY <1>1, <1>2

\* The pids in a queue.
Queued(q) == {q[i] : i \in 1 .. Len(q)}

\* exited.retain takes the one entry of p out of a queue without repetitions.
LEMMA RetainContent ==
  ASSUME NEW q \in Seq(Pid), NEW p \in Pid,
         \A i, j \in 1 .. Len(q) : q[i] = q[j] => i = j
  PROVE  LET r == Retain(q, p)
         IN  /\ Len(r) <= Len(q)
             /\ \A i, j \in 1 .. Len(r) : r[i] = r[j] => i = j
             /\ Queued(r) = Queued(q) \ {p}
  <1>1. CASE \E i \in 1 .. Len(q) : q[i] = p
    <2> DEFINE k == CHOOSE i \in 1 .. Len(q) : q[i] = p
               r == [j \in 1 .. Len(q) - 1 |-> IF j < k THEN q[j] ELSE q[j + 1]]
    <2>1. k \in 1 .. Len(q) /\ q[k] = p
      BY <1>1
    <2>2. Retain(q, p) = r
      BY <1>1 DEF Retain
    <2>3. Len(q) \in Nat /\ Len(q) - 1 \in Nat
      BY <2>1
    <2> HIDE DEF k
    <2>4. Len(r) = Len(q) - 1
      BY <2>3
    <2>5. \A j \in 1 .. Len(q) - 1 : r[j] = IF j < k THEN q[j] ELSE q[j + 1]
      OBVIOUS
    <2> HIDE DEF r
    <2>6. \A i, j \in 1 .. Len(r) : r[i] = r[j] => i = j
      BY <2>1, <2>3, <2>4, <2>5
    <2>7. ASSUME NEW j \in 1 .. Len(r) PROVE r[j] \in Queued(q) \ {p}
      <3>1. CASE j < k
        BY <2>1, <2>3, <2>4, <2>5, <3>1 DEF Queued
      <3>2. CASE ~(j < k)
        <4>1. j + 1 \in 1 .. Len(q) /\ j + 1 # k /\ r[j] = q[j + 1]
          BY <2>1, <2>3, <2>4, <2>5, <3>2
        <4> QED BY <2>1, <4>1 DEF Queued
      <3> QED BY <3>1, <3>2
    <2>8. ASSUME NEW i \in 1 .. Len(q), q[i] # p PROVE q[i] \in Queued(r)
      <3>1. CASE i < k
        <4>1. i \in 1 .. Len(r) /\ r[i] = q[i]
          BY <2>1, <2>3, <2>4, <2>5, <3>1
        <4> QED BY <4>1 DEF Queued
      <3>2. CASE ~(i < k)
        <4>1. i # k
          BY <2>1, <2>8
        <4>2. i - 1 \in 1 .. Len(r) /\ r[i - 1] = q[i]
          BY <2>1, <2>3, <2>4, <2>5, <3>2, <4>1
        <4> QED BY <4>2 DEF Queued
      <3> QED BY <3>1, <3>2
    <2>9. Queued(r) = Queued(q) \ {p}
      BY <2>7, <2>8 DEF Queued
    <2> QED BY <2>2, <2>3, <2>4, <2>6, <2>9
  <1>2. CASE ~\E i \in 1 .. Len(q) : q[i] = p
    BY <1>2 DEF Retain, Queued
  <1> QED BY <1>1, <1>2

\* Recording an outcome keeps the table's types.
LEMMA RecordOutcomeTypes ==
  ASSUME TypeOK, NEW p \in Pid, waitStatus[p] \in ExitCode, RecordOutcome(p)
  PROVE  /\ exited' \in Seq(Pid)
         /\ status' \in [Pid -> Answer]
         /\ generation' \in [Pid -> 0 .. MaxSpawns]
  <1> DEFINE queue == Append(exited, p)
             over == Overflow(Len(queue))
  <1>1. queue \in Seq(Pid) /\ Len(queue) \in Nat
    BY DEF TypeOK
  <1>2. over \in Nat /\ over <= Len(queue)
    BY <1>1, SessionAssumption DEF Overflow
  <1>3. exited' = SubSeq(queue, over + 1, Len(queue))
    BY DEF RecordOutcome
  <1>4. exited' \in Seq(Pid)
    <2> HIDE DEF queue, over
    <2> QED BY <1>1, <1>2, <1>3
  <1>5. status' \in [Pid -> Answer]
    BY DEF RecordOutcome, TypeOK, Answer
  <1>6. generation' \in [Pid -> 0 .. MaxSpawns]
    <2>1. 0 \in 0 .. MaxSpawns
      BY SessionAssumption
    <2> QED BY <2>1 DEF RecordOutcome, TypeOK
  <1> QED BY <1>4, <1>5, <1>6

(***************************************************************************)
(* Types.                                                                  *)
(***************************************************************************)
LEMMA TypeInit == Init => TypeOK
  <1> SUFFICES ASSUME Init PROVE TypeOK
    OBVIOUS
  <1> USE SessionAssumption, PidAssumption DEF Init
  <1>1. ChildrenTypeOK
    BY DEF ChildrenInit, ChildrenTypeOK
  <1>2. /\ status \in [Pid -> Answer] /\ fate \in [Gen -> {"unborn", "Running"} \cup ExitCode]
        /\ scope \in [Gen -> ScopeState] /\ waitStatus \in [Pid -> {"none"} \cup ExitCode]
    BY DEF Answer, ScopeState
  <1>3. /\ generation \in [Pid -> 0 .. MaxSpawns] /\ inc \in [Pid -> 0 .. MaxSpawns]
        /\ spawned \in 0 .. MaxSpawns /\ handed \in 0 .. MaxSpawns
    OBVIOUS
  <1>4. wait \in [Waiter -> [at : {"idle", "registered", "decided", "asleep"},
                             pid : Pid \cup {NoPid}, woken : BOOLEAN]]
    OBVIOUS
  <1>5. exited \in Seq(Pid) /\ forkedPid \in Pid \cup {NoPid}
    OBVIOUS
  <1>6. notify \in BOOLEAN
    BY Zenon
  <1> QED BY <1>1, <1>2, <1>3, <1>4, <1>5, <1>6 DEF TypeOK

\* A notification changes the woken flags only.
LEMMA NotifyTypes ==
  ASSUME TypeOK, NotifyWaiters
  PROVE  wait' \in [Waiter -> [at : {"idle", "registered", "decided", "asleep"},
                               pid : Pid \cup {NoPid}, woken : BOOLEAN]]
  BY DEF TypeOK, NotifyWaiters

\* A wait's step keeps its record's type.
LEMMA WaitsTypes ==
  ASSUME TypeOK, NEW w \in Waiter, NEW at \in {"idle", "registered", "decided", "asleep"},
         NEW p \in Pid \cup {NoPid}, NEW woke \in BOOLEAN, Waits(w, at, p, woke)
  PROVE  TypeOK'
  BY DEF Waits, TypeOK, ChildrenTypeOK, childVars, tableVars, drainVars, stopVars, truth

\* The types, given that a batch was waited for: a step of record_exit needs the
\* status waitpid returned.
LEMMA TypeStep == TypeOK /\ KernelInv /\ [Next]_vars => TypeOK'
  <1> SUFFICES ASSUME TypeOK, KernelInv, [Next]_vars PROVE TypeOK'
    OBVIOUS
  <1> USE PidAssumption, SessionAssumption
      DEF TypeOK, ChildrenTypeOK, childVars, tableVars, drainVars, stopVars, truth
  <1>1. ASSUME NEW p \in Pid, SessionForks(p) PROVE TypeOK'
    <2>1. spawned + 1 \in Gen /\ spawned + 1 \in 0 .. MaxSpawns
      BY <1>1 DEF SessionForks, Gen
    <2> QED BY <1>1, <2>1 DEF SessionForks, ForkChild
  <1>2. CASE SessionRecorded
    <2>1. forkedPid \in Pid /\ spawned + 1 \in Gen /\ spawned + 1 \in 0 .. MaxSpawns
      BY <1>2 DEF SessionRecorded, Gen, KernelInv, ForkedInv
    <2>2. exited' \in Seq(Pid)
      BY <1>2, <2>1, RetainType DEF SessionRecorded
    <2>3. scope' \in [Gen -> ScopeState]
      BY <1>2, <2>1 DEF SessionRecorded, ScopeState
    <2>4. status' \in [Pid -> Answer]
      BY <1>2 DEF SessionRecorded, Answer
    <2>5. generation' \in [Pid -> 0 .. MaxSpawns] /\ spawned' \in 0 .. MaxSpawns
      BY <1>2, <2>1 DEF SessionRecorded
    <2>6. ChildrenTypeOK'
      BY <1>2 DEF SessionRecorded, ReleaseFork
    <2> QED BY <1>2, <2>2, <2>3, <2>4, <2>5, <2>6 DEF SessionRecorded
  <1>3. ASSUME NEW p \in Pid, NEW code \in ExitCode, SessionExits(p, code) PROVE TypeOK'
    BY <1>3 DEF SessionExits, ChildExits
  <1>4. CASE Reaper
    BY <1>4 DEF Reaper, ReaperWakes, ReaperCollects, Collect, reap_exited_children, Zombies
  <1>5. ASSUME NEW p \in Pid, SessionExitRecorded(p) PROVE TypeOK'
    <2>1. waitStatus[p] \in ExitCode /\ status[p] = "Running" /\ generation[p] = inc[p]
      BY <1>5 DEF SessionExitRecorded, TakeReaped, KernelInv, FateInv, BatchInv, TableMatchesKernel
    <2>2. generation[p] \in Gen
      BY <1>5, <2>1 DEF SessionExitRecorded, TakeReaped, KernelInv, NumberInv, Held, Gen
    <2>3. /\ exited' \in Seq(Pid)
          /\ status' \in [Pid -> Answer]
          /\ generation' \in [Pid -> 0 .. MaxSpawns]
      BY <1>5, <2>1, RecordOutcomeTypes DEF SessionExitRecorded
    <2>4. scope' \in [Gen -> ScopeState] /\ handed' \in 0 .. MaxSpawns
      BY <1>5, <2>2 DEF SessionExitRecorded, ScopeOf, ScopeState
    <2> QED BY <1>5, <2>3, <2>4 DEF SessionExitRecorded, TakeReaped
  <1>6. CASE SessionExitAnnounced
    <2>1. scope' \in [Gen -> ScopeState]
      BY <1>6 DEF SessionExitAnnounced, ScopeState
    <2>2. wait' \in [Waiter -> [at : {"idle", "registered", "decided", "asleep"},
                               pid : Pid \cup {NoPid}, woken : BOOLEAN]]
      BY <1>6, NotifyTypes DEF SessionExitAnnounced
    <2>3. ChildrenTypeOK' /\ handed' \in 0 .. MaxSpawns
      BY <1>6 DEF SessionExitAnnounced, DrainedTo
    <2>4. notify' \in BOOLEAN
      BY <1>6, Zenon DEF SessionExitAnnounced
    <2> QED BY <1>6, <2>1, <2>2, <2>3, <2>4 DEF SessionExitAnnounced
  <1>7. ASSUME NEW g \in Gen, ScopeRetried(g) PROVE TypeOK'
    BY <1>7 DEF ScopeRetried, ScopeState
  <1>8. ASSUME NEW p \in Pid, stop_session(p) PROVE TypeOK'
    <2>1. generation[p] \in Gen
      BY <1>8 DEF stop_session, KernelInv, TableMatchesKernel, NumberInv, Held, Gen
    <2> QED BY <1>8, <2>1 DEF stop_session, StopRef
  <1>9. ASSUME NEW p \in Pid, NEW g \in Gen, SendTerm(p, g) PROVE TypeOK'
    BY <1>9 DEF SendTerm, StopRef
  <1>10. ASSUME NEW p \in Pid, NEW g \in Gen, GraceEnds(p, g) PROVE TypeOK'
    BY <1>10 DEF GraceEnds, StopRef
  <1>11. ASSUME NEW p \in Pid, NEW g \in Gen, SendKill(p, g) PROVE TypeOK'
    BY <1>11 DEF SendKill, StopRef
  <1>12. ASSUME NEW w \in Waiter, WaitReads(w) PROVE TypeOK'
    <2>1. /\ wait[w].pid \in Pid \cup {NoPid} /\ wait[w].woken \in BOOLEAN
          /\ NoPid \in Pid \cup {NoPid} /\ FALSE \in BOOLEAN
      OBVIOUS
    <2>2. Waits(w, "idle", NoPid, FALSE) \/ Waits(w, "decided", wait[w].pid, wait[w].woken)
      BY <1>12 DEF WaitReads
    <2> HIDE DEF TypeOK
    <2>3. CASE Waits(w, "idle", NoPid, FALSE)
      BY <2>1, <2>3, WaitsTypes
    <2>4. CASE Waits(w, "decided", wait[w].pid, wait[w].woken)
      BY <2>1, <2>4, WaitsTypes
    <2> QED BY <2>2, <2>3, <2>4
  <1>13. ASSUME NEW w \in Waiter, WaitSleeps(w) PROVE TypeOK'
    <2>1. wait[w].pid \in Pid \cup {NoPid} /\ wait[w].woken \in BOOLEAN
      OBVIOUS
    <2>2. Waits(w, "asleep", wait[w].pid, wait[w].woken)
      BY <1>13 DEF WaitSleeps
    <2> HIDE DEF TypeOK
    <2> QED BY <2>1, <2>2, WaitsTypes
  <1>14. ASSUME NEW w \in Waiter, WaitWakes(w) PROVE TypeOK'
    BY <1>14, WaitsTypes DEF WaitWakes
  <1>15. ASSUME NEW w \in Waiter, NEW p \in Pid, WaitRegisters(w, p) PROVE TypeOK'
    BY <1>15, WaitsTypes DEF WaitRegisters
  <1>16. CASE UNCHANGED vars
    BY <1>16 DEF vars
  <1> HIDE DEF TypeOK
  <1> QED BY <1>1, <1>2, <1>3, <1>4, <1>5, <1>6, <1>7, <1>8, <1>9, <1>10, <1>11, <1>12,
             <1>13, <1>14, <1>15, <1>16 DEF Next

(***************************************************************************)
(* The table and the kernel.                                               *)
(***************************************************************************)
LEMMA KernelInit == Init => KernelInv
  BY SessionAssumption, PidAssumption
     DEF Init, ChildrenInit, KernelInv, TableMatchesKernel, GateInv, ForkedInv, BatchInv,
         NumberInv, Held, FateInv, ReportedIsTrue, QueueIsExact

\* The variables the kernel invariant reads.
kernelVars == <<proc, gate, reaped, status, generation, exited, spawned, forkedPid, notify,
                inc, fate, waitStatus>>

LEMMA KernelUnchanged == KernelInv /\ UNCHANGED kernelVars => KernelInv'
  BY DEF KernelInv, kernelVars, TableMatchesKernel, GateInv, ForkedInv, BatchInv, NumberInv,
         Held, FateInv, ReportedIsTrue, QueueIsExact

\* A fork takes a number no child has, and the pid of nobody.
LEMMA KernelForks ==
  ASSUME TypeOK, KernelInv, NEW p \in Pid, SessionForks(p)
  PROVE  KernelInv'
  <1> USE PidAssumption, SessionAssumption
  <1>1. /\ gate = "free" /\ proc[p] = "free" /\ gate' = "fork" /\ forkedPid' = p
        /\ proc' = [proc EXCEPT ![p] = "alive"]
        /\ inc' = [inc EXCEPT ![p] = spawned + 1]
        /\ fate' = [fate EXCEPT ![spawned + 1] = "Running"]
        /\ spawned < MaxSpawns
        /\ UNCHANGED <<status, generation, exited, spawned, notify, reaped, waitStatus>>
    BY DEF SessionForks, ForkChild, tableVars, drainVars
  <1>2. reaped = {} /\ forkedPid = NoPid /\ ~notify
    BY <1>1 DEF KernelInv, GateInv
  <1>3. spawned + 1 \in Gen /\ spawned \in Nat /\ \A r \in Pid : inc[r] \in Nat /\ inc[r] <= spawned
    BY <1>1, <1>2 DEF TypeOK, Gen, KernelInv, NumberInv
  <1>4. status[p] # "Running"
    BY <1>1, <1>2 DEF KernelInv, TableMatchesKernel
  <1>5. TableMatchesKernel'
    BY <1>1, <1>2, <1>4 DEF KernelInv, TableMatchesKernel, TypeOK, ChildrenTypeOK
  <1>6. GateInv' /\ ForkedInv' /\ BatchInv'
    BY <1>1, <1>2, <1>4 DEF KernelInv, GateInv, ForkedInv, BatchInv, TypeOK, ChildrenTypeOK
  <1>7. NumberInv'
    BY <1>1, <1>2, <1>3 DEF KernelInv, NumberInv, Held, TypeOK, ChildrenTypeOK
  <1>8. FateInv'
    BY <1>1, <1>2, <1>3 DEF KernelInv, FateInv, TypeOK, ChildrenTypeOK, Gen
  <1>9. ReportedIsTrue'
    <2> SUFFICES ASSUME NEW r \in Pid, status[r] \in ExitCode
                 PROVE  generation[r] \in Gen /\ fate'[generation[r]] = status[r]
      BY <1>1 DEF ReportedIsTrue
    <2>1. generation[r] \in Gen /\ fate[generation[r]] = status[r]
      BY DEF KernelInv, ReportedIsTrue
    <2>2. generation[r] # spawned + 1
      BY <1>3 DEF KernelInv, NumberInv, TypeOK
    <2> QED BY <1>1, <2>1, <2>2 DEF TypeOK
  <1>10. QueueIsExact'
    BY <1>1 DEF KernelInv, QueueIsExact
  <1> QED BY <1>5, <1>6, <1>7, <1>8, <1>9, <1>10 DEF KernelInv

\* Recording a fork: the table gives the child the number the kernel's fork got.
LEMMA KernelRecords ==
  ASSUME TypeOK, KernelInv, SessionRecorded
  PROVE  KernelInv'
  <1> USE PidAssumption, SessionAssumption
  <1> DEFINE p == forkedPid
  <1>1. /\ p \in Pid /\ gate' = "free" /\ forkedPid' = NoPid
        /\ spawned' = spawned + 1 /\ spawned \in Nat
        /\ status' = [status EXCEPT ![p] = "Running"]
        /\ generation' = [generation EXCEPT ![p] = spawned + 1]
        /\ UNCHANGED <<proc, reaped, notify, inc, fate, waitStatus>>
    BY DEF SessionRecorded, ReleaseFork, drainVars, truth, TypeOK
  <1>2. /\ reaped = {} /\ ~notify /\ proc[p] # "free" /\ inc[p] = spawned + 1
        /\ spawned < MaxSpawns
    BY <1>1 DEF KernelInv, GateInv, ForkedInv
  <1> HIDE DEF p
  <1>3. TableMatchesKernel'
    <2> SUFFICES ASSUME NEW r \in Pid
                 PROVE  /\ status'[r] = "Running" => /\ generation'[r] = inc[r]
                                                     /\ proc[r] # "free" \/ r \in reaped
                        /\ proc[r] # "free" => status'[r] = "Running"
      BY <1>1 DEF TableMatchesKernel
    <2>1. CASE r = p
      BY <1>1, <1>2, <2>1 DEF TypeOK
    <2>2. CASE r # p
      <3>1. status'[r] = status[r] /\ generation'[r] = generation[r] /\ r # forkedPid
        BY <1>1, <2>2 DEF TypeOK, p
      <3> QED BY <3>1 DEF KernelInv, TableMatchesKernel
    <2> QED BY <2>1, <2>2
  <1>4. GateInv' /\ ForkedInv' /\ BatchInv'
    BY <1>1, <1>2 DEF GateInv, ForkedInv, BatchInv
  <1>5. NumberInv'
    <2>1. \A r \in Pid : inc[r] <= spawned \/ r = p
      BY DEF KernelInv, NumberInv, p
    <2>2. \A r \in Pid : inc[r] \in Nat /\ generation[r] \in Nat /\ generation[r] <= spawned
      BY DEF KernelInv, NumberInv, TypeOK
    <2>3. \A r \in Pid : inc[r] <= spawned + 1
      BY <1>1, <1>2, <2>1, <2>2
    <2>4. \A r \in Pid : generation'[r] <= spawned + 1
      BY <1>1, <2>2 DEF TypeOK
    <2>5. \A r, q \in Pid : Held(r) /\ Held(q) /\ inc[r] = inc[q] => r = q
      BY DEF KernelInv, NumberInv
    <2>6. \A r \in Pid : Held(r) => inc[r] >= 1
      BY DEF KernelInv, NumberInv
    <2> QED BY <1>1, <2>3, <2>4, <2>5, <2>6 DEF NumberInv, Held
  <1>6. FateInv'
    BY <1>1 DEF KernelInv, FateInv
  <1>7. ReportedIsTrue'
    BY <1>1 DEF KernelInv, ReportedIsTrue, TypeOK
  <1>8. QueueIsExact'
    <2>1. exited' = Retain(exited, p) /\ exited \in Seq(Pid)
      BY DEF SessionRecorded, p, TypeOK
    <2>2. /\ \A i, j \in 1 .. Len(exited) : exited[i] = exited[j] => i = j
          /\ Len(exited) <= Retained /\ Len(exited) \in Nat
          /\ Queued(exited) = {r \in Pid : status[r] \in ExitCode}
      BY <2>1 DEF KernelInv, QueueIsExact, Queued
    <2>3. /\ Len(exited') <= Len(exited) /\ Len(exited') \in Nat
          /\ \A i, j \in 1 .. Len(exited') : exited'[i] = exited'[j] => i = j
          /\ Queued(exited') = Queued(exited) \ {p}
      <3> DEFINE r == Retain(exited, p)
      <3>1. r \in Seq(Pid)
        BY <1>1, <2>1, RetainType
      <3>2. /\ Len(r) <= Len(exited)
            /\ \A i, j \in 1 .. Len(r) : r[i] = r[j] => i = j
            /\ Queued(r) = Queued(exited) \ {p}
        BY <1>1, <2>1, <2>2, RetainContent
      <3> HIDE DEF r
      <3>3. Len(r) \in Nat
        BY <3>1
      <3>4. exited' = r
        BY <2>1 DEF r
      <3> QED BY <3>2, <3>3, <3>4
    <2>4. {r \in Pid : status'[r] \in ExitCode} = {r \in Pid : status[r] \in ExitCode} \ {p}
      BY <1>1 DEF TypeOK
    <2>5. Len(exited') <= Retained
      BY <2>2, <2>3
    <2> QED BY <2>2, <2>3, <2>4, <2>5 DEF QueueIsExact, Queued
  <1> QED BY <1>3, <1>4, <1>5, <1>6, <1>7, <1>8 DEF KernelInv

\* An exit is the fate of the incarnation that holds the pid and of no other.
LEMMA KernelExits ==
  ASSUME TypeOK, KernelInv, NEW p \in Pid, NEW code \in ExitCode, SessionExits(p, code)
  PROVE  KernelInv'
  <1> USE PidAssumption, SessionAssumption
  <1>1. /\ proc[p] = "alive" /\ proc' = [proc EXCEPT ![p] = "zombie"]
        /\ fate' = [fate EXCEPT ![inc[p]] = code]
        /\ waitStatus' = [waitStatus EXCEPT ![p] = code]
        /\ UNCHANGED <<gate, reaped, status, generation, exited, spawned, forkedPid, notify, inc>>
    BY DEF SessionExits, ChildExits, tableVars, drainVars
  <1>2. inc[p] \in Gen /\ fate[inc[p]] = "Running" /\ p \notin reaped
    BY <1>1 DEF KernelInv, NumberInv, FateInv, Held, BatchInv, TypeOK, Gen
  <1>3. TableMatchesKernel' /\ GateInv' /\ ForkedInv' /\ BatchInv'
    BY <1>1, <1>2 DEF KernelInv, TableMatchesKernel, GateInv, ForkedInv, BatchInv, TypeOK,
                      ChildrenTypeOK
  <1>4. NumberInv'
    BY <1>1 DEF KernelInv, NumberInv, Held, TypeOK, ChildrenTypeOK
  <1>5. FateInv'
    <2>1. \A r \in Pid : Held(r) /\ r # p => inc[r] # inc[p]
      BY <1>1 DEF KernelInv, NumberInv, Held
    <2> QED BY <1>1, <1>2, <2>1 DEF KernelInv, FateInv, Held, TypeOK, ChildrenTypeOK
  <1>6. ReportedIsTrue'
    BY <1>1, <1>2 DEF KernelInv, ReportedIsTrue, TypeOK
  <1>7. QueueIsExact'
    BY <1>1 DEF KernelInv, QueueIsExact
  <1> QED BY <1>3, <1>4, <1>5, <1>6, <1>7 DEF KernelInv

\* A reap takes the zombies out of the kernel and into the batch.
LEMMA KernelReaps ==
  ASSUME TypeOK, KernelInv, Reaper
  PROVE  KernelInv'
  <1> USE PidAssumption, SessionAssumption
  <1>1. CASE ReaperWakes
    BY <1>1, KernelUnchanged DEF Reaper, ReaperWakes, kernelVars, tableVars, drainVars, truth
  <1>2. CASE ReaperCollects
    <2>1. /\ gate = "free"
          /\ reaped' = Zombies
          /\ proc' = [r \in Pid |-> IF r \in Zombies THEN "free" ELSE proc[r]]
          /\ gate' = IF Zombies = {} THEN "free" ELSE "reaper"
          /\ UNCHANGED <<status, generation, exited, spawned, forkedPid, notify, inc, fate,
                         waitStatus>>
      BY <1>2 DEF Reaper, ReaperCollects, Collect, reap_exited_children, tableVars, drainVars, truth
    <2>2. reaped = {} /\ forkedPid = NoPid /\ ~notify
      BY <2>1 DEF KernelInv, GateInv
    <2>3. \A r \in Pid : r \in Zombies <=> proc[r] = "zombie"
      BY DEF Zombies
    <2>4. Zombies \subseteq Pid
      BY DEF Zombies
    <2>5. TableMatchesKernel' /\ GateInv' /\ ForkedInv' /\ BatchInv'
      BY <2>1, <2>2, <2>3, <2>4 DEF KernelInv, TableMatchesKernel, GateInv, ForkedInv, BatchInv
    <2>6. NumberInv'
      BY <2>1, <2>2, <2>3, <2>4 DEF KernelInv, NumberInv, Held
    <2>7. FateInv'
      BY <2>1, <2>2, <2>3, <2>4 DEF KernelInv, FateInv
    <2>8. ReportedIsTrue'
      BY <2>1 DEF KernelInv, ReportedIsTrue
    <2>9. QueueIsExact'
      BY <2>1 DEF KernelInv, QueueIsExact
    <2> QED BY <2>5, <2>6, <2>7, <2>8, <2>9 DEF KernelInv
  <1> QED BY <1>1, <1>2 DEF Reaper

\* Which records an exit evicts: none, or the oldest when the queue is full.
LEMMA Evicted ==
  ASSUME TypeOK, QueueIsExact, NEW p \in Pid, RecordOutcome(p), status[p] \notin ExitCode
  PROVE  \E gone \in SUBSET {r \in Pid : status[r] \in ExitCode} :
           /\ status' = [r \in Pid |-> IF r \in gone THEN "Unknown"
                                       ELSE IF r = p THEN waitStatus[p] ELSE status[r]]
           /\ generation' = [r \in Pid |-> IF r \in gone THEN 0 ELSE generation[r]]
           /\ Queued(exited') = (Queued(exited) \cup {p}) \ gone
           /\ \A i, j \in 1 .. Len(exited') : exited'[i] = exited'[j] => i = j
           /\ Len(exited') <= Retained
  <1> USE SessionAssumption
  <1> DEFINE queue == Append(exited, p)
             over == Overflow(Len(queue))
             gone == {queue[i] : i \in 1 .. over}
             n == Len(exited)
  <1>1. /\ exited' = SubSeq(queue, over + 1, Len(queue))
        /\ status' = [r \in Pid |-> IF r \in gone THEN "Unknown"
                                    ELSE IF r = p THEN waitStatus[p] ELSE status[r]]
        /\ generation' = [r \in Pid |-> IF r \in gone THEN 0 ELSE generation[r]]
    BY DEF RecordOutcome
  <1>2. n \in Nat /\ n <= Retained /\ exited \in Seq(Pid) /\ Retained \in Nat \ {0}
    BY DEF TypeOK, QueueIsExact
  <1>3. /\ queue \in Seq(Pid) /\ Len(queue) = n + 1 /\ queue[n + 1] = p
        /\ \A i \in 1 .. n : queue[i] = exited[i]
    BY <1>2
  <1>4. /\ Queued(exited) = {r \in Pid : status[r] \in ExitCode}
        /\ \A i, j \in 1 .. n : exited[i] = exited[j] => i = j
    BY DEF QueueIsExact, Queued
  <1>5. p \notin Queued(exited)
    BY <1>4
  <1>6. \A i, j \in 1 .. n + 1 : queue[i] = queue[j] => i = j
    <2>1. \A i \in 1 .. n : queue[i] # p
      BY <1>3, <1>5 DEF Queued
    <2>2. \A i \in 1 .. n + 1 : i \in 1 .. n \/ i = n + 1
      BY <1>2
    <2> HIDE DEF queue
    <2> QED BY <1>3, <1>4, <2>1, <2>2
  <1>7. Queued(queue) = Queued(exited) \cup {p}
    <2> HIDE DEF queue
    <2>1. \A i \in 1 .. n + 1 : i \in 1 .. n \/ i = n + 1
      BY <1>2
    <2>2. n + 1 \in 1 .. n + 1 /\ \A i \in 1 .. n : i \in 1 .. n + 1
      BY <1>2
    <2> QED BY <1>3, <2>1, <2>2 DEF Queued
  <1>8. over = (IF n = Retained THEN 1 ELSE 0)
    BY <1>2, <1>3 DEF Overflow
  <1> HIDE DEF queue, over
  <1>9. CASE n # Retained
    <2>1. exited' = queue /\ gone = {}
      BY <1>1, <1>3, <1>8, <1>9
    <2>2. Queued(exited') = (Queued(exited) \cup {p}) \ gone
      BY <1>7, <2>1
    <2>3. \A i, j \in 1 .. Len(exited') : exited'[i] = exited'[j] => i = j
      BY <1>3, <1>6, <2>1
    <2>4. Len(exited') <= Retained
      BY <1>2, <1>3, <1>9, <2>1
    <2>5. gone \in SUBSET {r \in Pid : status[r] \in ExitCode}
      BY <2>1
    <2> HIDE DEF gone
    <2> QED BY <1>1, <2>2, <2>3, <2>4, <2>5
  <1>10. CASE n = Retained
    <2>1. gone = {exited[1]} /\ 1 \in 1 .. n
      BY <1>2, <1>3, <1>8, <1>10
    <2>2. Len(exited') = n /\ \A i \in 1 .. n : exited'[i] = queue[i + 1]
      BY <1>1, <1>2, <1>3, <1>8, <1>10
    <2>3. gone \subseteq {r \in Pid : status[r] \in ExitCode}
      BY <1>4, <2>1 DEF Queued
    <2>4. \A i, j \in 1 .. Len(exited') : exited'[i] = exited'[j] => i = j
      <3> SUFFICES ASSUME NEW i \in 1 .. n, NEW j \in 1 .. n, queue[i + 1] = queue[j + 1]
                   PROVE  i = j
        BY <2>2
      <3>1. i + 1 \in 1 .. n + 1 /\ j + 1 \in 1 .. n + 1
        BY <1>2
      <3>2. i + 1 = j + 1
        BY <1>6, <3>1
      <3> QED BY <1>2, <3>2
    <2>5. Queued(exited') = Queued(queue) \ gone
      <3>1. \A i \in 1 .. n : i + 1 \in 1 .. n + 1 /\ i + 1 # 1
        BY <1>2
      <3>2. 1 \in 1 .. n + 1 /\ queue[1] = exited[1]
        <4>1. 1 \in 1 .. n
          BY <2>1
        <4>2. queue[1] = exited[1]
          BY <1>3, <4>1
        <4> HIDE DEF n
        <4> QED BY <1>2, <4>2
      <3>3. \A i \in 1 .. n : queue[i + 1] # queue[1]
        BY <1>6, <3>1, <3>2
      <3>4. \A i \in 1 .. n + 1 : i = 1 \/ (i - 1 \in 1 .. n /\ (i - 1) + 1 = i)
        BY <1>2
      <3>5. ASSUME NEW x \in Queued(exited') PROVE x \in Queued(queue) \ gone
        <4>1. PICK i \in 1 .. n : x = queue[i + 1]
          BY <2>2, <3>5 DEF Queued
        <4>2. i + 1 \in 1 .. Len(queue) /\ queue[i + 1] # exited[1]
          BY <1>3, <3>1, <3>2, <3>3
        <4>3. x \in Queued(queue)
          BY <4>1, <4>2 DEF Queued
        <4> QED BY <2>1, <4>1, <4>2, <4>3
      <3>6. ASSUME NEW x \in Queued(queue) \ gone PROVE x \in Queued(exited')
        <4>1. PICK i \in 1 .. n + 1 : x = queue[i]
          BY <1>3, <3>6 DEF Queued
        <4>2. i # 1
          BY <2>1, <3>2, <3>6, <4>1
        <4>3. i - 1 \in 1 .. n /\ exited'[i - 1] = x
          BY <2>2, <3>4, <4>1, <4>2
        <4> QED BY <2>2, <4>3 DEF Queued
      <3> HIDE DEF gone
      <3> QED BY <3>5, <3>6
    <2>6. Len(exited') <= Retained
      BY <1>10, <2>2
    <2> HIDE DEF gone
    <2> QED BY <1>1, <1>7, <2>3, <2>4, <2>5, <2>6
  <1> QED BY <1>9, <1>10

\* record_exit: the child leaves the batch, and the table says what it died of.
LEMMA KernelAttributes ==
  ASSUME TypeOK, KernelInv, NEW p \in Pid, SessionExitRecorded(p)
  PROVE  KernelInv'
  <1> USE PidAssumption, SessionAssumption
  <1>1. /\ p \in reaped /\ reaped' = reaped \ {p} /\ notify'
        /\ UNCHANGED <<proc, gate, spawned, forkedPid, inc, fate, waitStatus>>
    BY DEF SessionExitRecorded, TakeReaped, truth
  <1>2. /\ proc[p] = "free" /\ status[p] = "Running" /\ generation[p] = inc[p]
        /\ gate = "reaper" /\ forkedPid = NoPid
        /\ waitStatus[p] = fate[inc[p]] /\ waitStatus[p] \in ExitCode /\ inc[p] >= 1
    BY <1>1 DEF KernelInv, BatchInv, TableMatchesKernel, GateInv, FateInv, NumberInv, Held
  <1>3. PICK gone \in SUBSET {r \in Pid : status[r] \in ExitCode} :
           /\ status' = [r \in Pid |-> IF r \in gone THEN "Unknown"
                                       ELSE IF r = p THEN waitStatus[p] ELSE status[r]]
           /\ generation' = [r \in Pid |-> IF r \in gone THEN 0 ELSE generation[r]]
           /\ Queued(exited') = (Queued(exited) \cup {p}) \ gone
           /\ \A i, j \in 1 .. Len(exited') : exited'[i] = exited'[j] => i = j
           /\ Len(exited') <= Retained
    <2>1. RecordOutcome(p) /\ QueueIsExact /\ status[p] \notin ExitCode
      BY <1>2 DEF SessionExitRecorded, KernelInv
    <2> QED BY <2>1, Evicted
  <1>4. p \notin gone /\ \A r \in gone : status[r] # "Running"
    BY <1>2
  <1>5. TableMatchesKernel'
    <2> SUFFICES ASSUME NEW r \in Pid
                 PROVE  /\ status'[r] = "Running" =>
                             generation'[r] = inc[r] /\ (proc[r] # "free" \/ r \in reaped')
                        /\ proc[r] # "free" /\ r # forkedPid => status'[r] = "Running"
      BY <1>1 DEF TableMatchesKernel
    <2>1. CASE r = p
      BY <1>2, <1>3, <1>4, <2>1
    <2>2. CASE r # p
      BY <1>1, <1>3, <1>4, <2>2 DEF KernelInv, TableMatchesKernel
    <2> QED BY <2>1, <2>2
  <1>6. GateInv' /\ ForkedInv' /\ BatchInv'
    <2>1. GateInv' /\ ForkedInv'
      BY <1>1, <1>2 DEF GateInv, ForkedInv
    <2>2. ASSUME NEW r \in reaped' PROVE proc'[r] = "free" /\ status'[r] = "Running"
      <3>1. r \in reaped /\ r # p /\ r \in Pid
        BY <1>1, <2>2 DEF TypeOK, ChildrenTypeOK
      <3>2. proc[r] = "free" /\ status[r] = "Running"
        BY <3>1 DEF KernelInv, BatchInv
      <3> QED BY <1>1, <1>3, <1>4, <3>1, <3>2
    <2> QED BY <2>1, <2>2 DEF BatchInv
  <1>7. NumberInv'
    <2>1. \A r \in Pid : generation'[r] <= spawned
      BY <1>3 DEF KernelInv, NumberInv, TypeOK
    <2> QED BY <1>1, <2>1 DEF KernelInv, NumberInv, Held
  <1>8. FateInv'
    BY <1>1 DEF KernelInv, FateInv
  <1>9. ReportedIsTrue'
    <2> SUFFICES ASSUME NEW r \in Pid, status'[r] \in ExitCode
                 PROVE  generation'[r] \in Gen /\ fate[generation'[r]] = status'[r]
      BY <1>1 DEF ReportedIsTrue
    <2>1. r \notin gone
      BY <1>3
    <2>2. CASE r = p
      <3>1. generation'[r] = inc[p] /\ status'[r] = waitStatus[p]
        BY <1>2, <1>3, <2>1, <2>2
      <3>2. inc[p] \in Gen
        BY <1>2 DEF TypeOK, Gen
      <3> QED BY <1>2, <3>1, <3>2
    <2>3. CASE r # p
      BY <1>3, <2>1, <2>3 DEF KernelInv, ReportedIsTrue
    <2> QED BY <2>2, <2>3
  <1>10. QueueIsExact'
    <2>1. Queued(exited) = {r \in Pid : status[r] \in ExitCode}
      BY DEF KernelInv, QueueIsExact, Queued
    <2>2. Queued(exited') = {r \in Pid : status'[r] \in ExitCode}
      BY <1>2, <1>3, <2>1
    <2> QED BY <1>3, <2>2 DEF QueueIsExact, Queued
  <1> QED BY <1>5, <1>6, <1>7, <1>8, <1>9, <1>10 DEF KernelInv

\* The end of a turn gives the gate back only when the batch is empty.
LEMMA KernelAnnounces ==
  ASSUME TypeOK, KernelInv, SessionExitAnnounced
  PROVE  KernelInv'
  <1>1. /\ gate = "reaper" /\ forkedPid = NoPid /\ ~notify'
        /\ gate' = IF reaped = {} THEN "free" ELSE gate
        /\ UNCHANGED <<proc, reaped, status, generation, exited, spawned, forkedPid, inc, fate,
                       waitStatus>>
    BY DEF SessionExitAnnounced, DrainedTo, tableVars, truth, KernelInv, GateInv
  <1>2. GateInv'
    BY <1>1 DEF KernelInv, GateInv
  <1>3. TableMatchesKernel' /\ ForkedInv' /\ BatchInv' /\ NumberInv' /\ FateInv'
    BY <1>1 DEF KernelInv, TableMatchesKernel, ForkedInv, BatchInv, NumberInv, Held, FateInv
  <1>4. ReportedIsTrue' /\ QueueIsExact'
    BY <1>1 DEF KernelInv, ReportedIsTrue, QueueIsExact
  <1> QED BY <1>2, <1>3, <1>4 DEF KernelInv

\* Every step keeps the table in agreement with the kernel.
LEMMA KernelStep == TypeOK /\ KernelInv /\ [Next]_vars => KernelInv'
  <1> SUFFICES ASSUME TypeOK, KernelInv, [Next]_vars PROVE KernelInv'
    OBVIOUS
  <1> USE DEF childVars, tableVars, drainVars, truth, kernelVars
  <1>1. ASSUME NEW g \in Gen, ScopeRetried(g) PROVE KernelInv'
    BY <1>1, KernelUnchanged DEF ScopeRetried
  <1>2. ASSUME NEW p \in Pid, stop_session(p) PROVE KernelInv'
    BY <1>2, KernelUnchanged DEF stop_session
  <1>3. ASSUME NEW p \in Pid, NEW g \in Gen, SendTerm(p, g) \/ GraceEnds(p, g) \/ SendKill(p, g)
        PROVE  KernelInv'
    BY <1>3, KernelUnchanged DEF SendTerm, GraceEnds, SendKill
  <1>4. ASSUME NEW w \in Waiter, WaitReads(w) \/ WaitSleeps(w) \/ WaitWakes(w) PROVE KernelInv'
    BY <1>4, KernelUnchanged DEF WaitReads, WaitSleeps, WaitWakes, Waits
  <1>5. ASSUME NEW w \in Waiter, NEW p \in Pid, WaitRegisters(w, p) PROVE KernelInv'
    BY <1>5, KernelUnchanged DEF WaitRegisters, Waits
  <1>6. CASE UNCHANGED vars
    BY <1>6, KernelUnchanged DEF vars
  <1> HIDE DEF kernelVars
  <1> QED BY <1>1, <1>2, <1>3, <1>4, <1>5, <1>6, KernelForks, KernelRecords, KernelExits,
             KernelReaps, KernelAttributes, KernelAnnounces DEF Next

(***************************************************************************)
(* The waits.                                                              *)
(***************************************************************************)
LEMMA WaitInit == Init => WaitInv
  BY DEF Init, WaitInv

\* A wait is overtaken by no exit: it was registered before it read the status.
LEMMA WaitStep == TypeOK /\ KernelInv /\ WaitInv /\ [Next]_vars => WaitInv'
  <1> SUFFICES ASSUME TypeOK, KernelInv, WaitInv, [Next]_vars, NEW w \in Waiter
               PROVE  /\ wait'[w].at # "idle" => wait'[w].pid \in Pid
                      /\ wait'[w].at \in {"decided", "asleep"} /\ ~wait'[w].woken =>
                             status'[wait'[w].pid] = "Running" \/ notify'
    BY DEF WaitInv
  <1> USE DEF childVars, tableVars, drainVars, truth
  <1> DEFINE Told == /\ wait'[w].at # "idle" => wait'[w].pid \in Pid
                     /\ wait'[w].at \in {"decided", "asleep"} /\ ~wait'[w].woken =>
                            status'[wait'[w].pid] = "Running" \/ notify'
  <1>1. /\ wait[w].at # "idle" => wait[w].pid \in Pid
        /\ wait[w].at \in {"decided", "asleep"} /\ ~wait[w].woken =>
               status[wait[w].pid] = "Running" \/ notify
    BY DEF WaitInv
  <1>2. CASE UNCHANGED <<wait, status, notify>>
    BY <1>1, <1>2
  <1>3. CASE SessionRecorded
    <2>1. /\ UNCHANGED <<wait, notify>>
          /\ status' = [status EXCEPT ![forkedPid] = "Running"]
      BY <1>3 DEF SessionRecorded
    <2> QED BY <1>1, <2>1 DEF TypeOK
  <1>4. ASSUME NEW p \in Pid, SessionExitRecorded(p) PROVE Told
    <2>1. notify' /\ UNCHANGED wait
      BY <1>4 DEF SessionExitRecorded
    <2> QED BY <1>1, <2>1
  <1>5. CASE SessionExitAnnounced
    <2>1. wait' = [v \in Waiter |-> IF wait[v].at # "idle" THEN [wait[v] EXCEPT !.woken = TRUE]
                                    ELSE wait[v]]
      BY <1>5 DEF SessionExitAnnounced, NotifyWaiters
    <2>2. CASE wait[w].at = "idle"
      BY <2>1, <2>2
    <2>3. CASE wait[w].at # "idle"
      <3>1. wait'[w].woken /\ wait'[w].pid = wait[w].pid
        BY <2>1, <2>3 DEF TypeOK
      <3> QED BY <1>1, <2>3, <3>1
    <2> QED BY <2>2, <2>3
  <1>6. ASSUME NEW v \in Waiter, WaitReads(v) \/ WaitSleeps(v) \/ WaitWakes(v) PROVE Told
    <2>1. UNCHANGED <<status, notify>> /\ \A u \in Waiter : u # v => wait'[u] = wait[u]
      BY <1>6 DEF WaitReads, WaitSleeps, WaitWakes, Waits, TypeOK
    <2>2. CASE v # w
      BY <1>1, <2>1, <2>2
    <2>3. CASE v = w /\ WaitReads(v)
      <3>1. CASE Waits(v, "idle", NoPid, FALSE)
        BY <2>3, <3>1 DEF Waits, TypeOK
      <3>2. CASE Waits(v, "decided", wait[v].pid, wait[v].woken) /\ status[wait[v].pid] = "Running"
        <4>1. wait'[w].pid = wait[w].pid
          BY <2>3, <3>2 DEF Waits, TypeOK
        <4>2. wait[w].at # "idle"
          BY <2>3 DEF WaitReads
        <4> QED BY <1>1, <2>1, <2>3, <3>2, <4>1, <4>2
      <3> QED BY <2>3, <3>1, <3>2 DEF WaitReads
    <2>4. CASE v = w /\ WaitSleeps(v)
      <3>1. /\ wait[w].at = "decided" /\ wait'[w].pid = wait[w].pid
            /\ wait'[w].woken = wait[w].woken
        BY <2>4 DEF WaitSleeps, Waits, TypeOK
      <3> QED BY <1>1, <2>1, <3>1
    <2>5. CASE v = w /\ WaitWakes(v)
      <3>1. wait[w].at = "asleep" /\ wait'[w].pid = wait[w].pid /\ wait'[w].at = "registered"
        BY <2>5 DEF WaitWakes, Waits, TypeOK
      <3> QED BY <1>1, <3>1
    <2> QED BY <1>6, <2>2, <2>3, <2>4, <2>5
  <1>7. ASSUME NEW v \in Waiter, NEW p \in Pid, WaitRegisters(v, p) PROVE Told
    <2>1. UNCHANGED <<status, notify>> /\ \A u \in Waiter : u # v => wait'[u] = wait[u]
      BY <1>7 DEF WaitRegisters, Waits, TypeOK
    <2>2. v = w => wait'[w].at = "registered" /\ wait'[w].pid = p
      BY <1>7 DEF WaitRegisters, Waits, TypeOK
    <2> QED BY <1>1, <2>1, <2>2
  <1>8. ASSUME NEW p \in Pid, SessionForks(p) PROVE UNCHANGED <<wait, status, notify>>
    BY <1>8 DEF SessionForks
  <1>9. ASSUME NEW p \in Pid, NEW code \in ExitCode, SessionExits(p, code)
        PROVE  UNCHANGED <<wait, status, notify>>
    BY <1>9 DEF SessionExits
  <1>10. ASSUME Reaper PROVE UNCHANGED <<wait, status, notify>>
    BY <1>10 DEF Reaper
  <1>11. ASSUME NEW g \in Gen, ScopeRetried(g) PROVE UNCHANGED <<wait, status, notify>>
    BY <1>11 DEF ScopeRetried
  <1>12. ASSUME NEW p \in Pid, stop_session(p) PROVE UNCHANGED <<wait, status, notify>>
    BY <1>12 DEF stop_session
  <1>13. ASSUME NEW p \in Pid, NEW g \in Gen, SendTerm(p, g) \/ GraceEnds(p, g) \/ SendKill(p, g)
         PROVE  UNCHANGED <<wait, status, notify>>
    BY <1>13 DEF SendTerm, GraceEnds, SendKill
  <1>14. UNCHANGED vars => UNCHANGED <<wait, status, notify>>
    BY DEF vars
  <1> QED BY <1>2, <1>3, <1>4, <1>5, <1>6, <1>7, <1>8, <1>9, <1>10, <1>11, <1>12, <1>13, <1>14
          DEF Next

(***************************************************************************)
(* The theorems.                                                           *)
(***************************************************************************)

\* Together the three parts are inductive.
LEMMA Safety == Spec => [](TypeOK /\ KernelInv /\ WaitInv)
  <1>1. Init => TypeOK /\ KernelInv /\ WaitInv
    BY TypeInit, KernelInit, WaitInit
  <1>2. TypeOK /\ KernelInv /\ WaitInv /\ [Next]_vars => (TypeOK /\ KernelInv /\ WaitInv)'
    BY TypeStep, KernelStep, WaitStep
  <1> QED BY <1>1, <1>2, PTL DEF Spec

\* Every variable of the session table keeps its type.
THEOREM TypeCorrect == Spec => []TypeOK
  BY Safety, PTL

\* The table tracks the kernel: "running" is the incarnation that holds the pid,
\* whatever the order of forks, exits, reaps and reissues.
THEOREM TableTracksKernel == Spec => []TableMatchesKernel
  <1>1. KernelInv => TableMatchesKernel
    BY DEF KernelInv
  <1> QED BY <1>1, Safety, PTL

\* A reported exit status is the one that incarnation ended with.
THEOREM ReportsAreTrue == Spec => []ReportedIsTrue
  <1>1. KernelInv => ReportedIsTrue
    BY DEF KernelInv
  <1> QED BY <1>1, Safety, PTL

\* The retention queue lists the exited sessions, once each, within its bound.
THEOREM QueueStaysExact == Spec => []QueueIsExact
  <1>1. KernelInv => QueueIsExact
    BY DEF KernelInv
  <1> QED BY <1>1, Safety, PTL

\* wait_for_session_exit loses no wakeup.
THEOREM WakeupsAreNotLost == Spec => []NoLostWakeup
  <1>1. WaitInv => NoLostWakeup
    BY DEF WaitInv, NoLostWakeup
  <1> QED BY <1>1, Safety, PTL
=============================================================================
