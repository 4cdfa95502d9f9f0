------------------------------ MODULE Children ------------------------------
(***************************************************************************)
(* The supervisor's child processes, as the kernel and the reaper see      *)
(* them, and the gate that orders forks against reaps.  The owners of the  *)
(* children (the declared services, the sessions) extend this module and   *)
(* conjoin these operators with what they do to their own state.           *)
(*                                                                         *)
(* A pid is not an identity: it is freed by the waitpid that reaps it and  *)
(* can be handed to the next fork at once.                                 *)
(***************************************************************************)
EXTENDS Naturals, FiniteSets

CONSTANTS Pid,    \* the pids the kernel hands out
          NoPid   \* Option::None where a pid is expected

ASSUME PidAssumption == NoPid \notin Pid

VARIABLES
    proc,     \* proc[p]: no child, a running one, or one that waits to be reaped
    sigchld,  \* a SIGCHLD is pending; signals coalesce, so one bit is all there is
    woken,    \* the reaper task has taken the notification and wants the gate
    gate,     \* who holds Supervisor::spawn_gate
    reaped    \* the holder's drained batch: pids waited for, not yet attributed

childVars == <<proc, sigchld, woken, gate, reaped>>

ChildrenTypeOK ==
    /\ proc \in [Pid -> {"free", "alive", "zombie"}]
    /\ sigchld \in BOOLEAN
    /\ woken \in BOOLEAN
    /\ gate \in {"free", "fork", "reaper", "shutdown"}
    /\ reaped \subseteq Pid

ChildrenInit ==
    /\ proc = [p \in Pid |-> "free"]
    /\ sigchld = FALSE
    /\ woken = FALSE
    /\ gate = "free"
    /\ reaped = {}

\* fork under the gate; the gate stays taken until the owner has recorded p.
ForkChild(p) ==
    /\ gate = "free"
    /\ proc[p] = "free"
    /\ proc' = [proc EXCEPT ![p] = "alive"]
    /\ gate' = "fork"
    /\ UNCHANGED <<sigchld, woken, reaped>>

\* The owner has recorded the pid and drops the gate.
ReleaseFork ==
    /\ gate' = "free"
    /\ UNCHANGED <<proc, sigchld, woken, reaped>>

\* A child exits by itself or because of a signal; the kernel raises SIGCHLD.
ChildExits(p) ==
    /\ proc[p] = "alive"
    /\ proc' = [proc EXCEPT ![p] = "zombie"]
    /\ sigchld' = TRUE
    /\ UNCHANGED <<woken, gate, reaped>>

\* The reaper task receives the (coalesced) notification.
ReaperWakes ==
    /\ sigchld /\ ~woken /\ gate # "reaper"
    /\ sigchld' = FALSE
    /\ woken' = TRUE
    /\ UNCHANGED <<proc, gate, reaped>>

Zombies == {p \in Pid : proc[p] = "zombie"}

\* A drain that stops after the first child, as one waitpid per SIGCHLD would.
OneZombie == IF Zombies = {} THEN {} ELSE {CHOOSE p \in Zombies : TRUE}

\* waitpid(-1, WNOHANG) until nothing is left: the pids one drain returns.
reap_exited_children == Zombies

\* A drain that did not wait for the gate.
CollectUngated(holder) ==
    /\ reaped = {}
    /\ reaped' = reap_exited_children
    /\ proc' = [p \in Pid |-> IF p \in reap_exited_children THEN "free" ELSE proc[p]]
    /\ gate' = gate

\* Take the gate and drain; an empty drain gives the gate straight back.
Collect(holder) ==
    /\ gate = "free"
    /\ reaped' = reap_exited_children
    /\ proc' = [p \in Pid |-> IF p \in reap_exited_children THEN "free" ELSE proc[p]]
    /\ gate' = IF reap_exited_children = {} THEN "free" ELSE holder

\* The reaper task's turn at the gate.
ReaperCollects ==
    /\ woken
    /\ woken' = FALSE
    /\ Collect("reaper")
    /\ UNCHANGED sigchld

\* One child of the drained batch is attributed to its owner ...
TakeReaped(p) ==
    /\ p \in reaped
    /\ reaped' = reaped \ {p}
    /\ UNCHANGED <<proc, sigchld, woken>>

\* ... and the gate is given back when none is left.
DrainedTo(left) == gate' = IF left = {} THEN "free" ELSE gate
=============================================================================
