--------------------------- MODULE SessionLedger ---------------------------
(***************************************************************************)
(* What the supervisor promises a caller that asks about a session by pid: *)
(* a running session is never forgotten, an exit is reported from the      *)
(* moment it is recorded, and an exited session's status stays available   *)
(* until Retained other sessions are on record that exited after it, or    *)
(* its pid is given to a new session.  A session whose pid was given away  *)
(* is no longer on record.                                                 *)
(***************************************************************************)
EXTENDS Naturals, FiniteSets

CONSTANTS Pid, ExitCode, Retained

VARIABLES answer,  \* answer[p]: what a SessionStatus request for p is told
          later    \* later[p]: the sessions on record that exited after p's

ledgerVars == <<answer, later>>

HasExited == {p \in Pid : answer[p] \in ExitCode}

Init == answer = [p \in Pid |-> "Unknown"] /\ later = [p \in Pid |-> {}]

\* A new session takes the pid of one that is not running.
Spawn(p) ==
    /\ answer[p] # "Running"
    /\ answer' = [answer EXCEPT ![p] = "Running"]
    /\ later' = [r \in Pid |-> IF r = p THEN {} ELSE later[r] \ {p}]

\* The sessions for which one more exit is the last they are remembered for.
Outlived == {r \in HasExited : Cardinality(later[r]) + 1 = Retained}

\* A running session has ended; the ones it outlives are forgotten.
End(p, code) ==
    /\ answer[p] = "Running"
    /\ answer' = [r \in Pid |-> IF r = p THEN code
                                ELSE IF r \in Outlived THEN "Unknown" ELSE answer[r]]
    /\ later' = [r \in Pid |-> IF r \in HasExited \ Outlived THEN later[r] \cup {p} ELSE {}]

Next == \E p \in Pid : Spawn(p) \/ \E code \in ExitCode : End(p, code)

Spec == Init /\ [][Next]_ledgerVars
=============================================================================
