----------------------------- MODULE MCSessions -----------------------------
(***************************************************************************)
(* The pids are numbers, and one that was never in use is handed out only  *)
(* when no lower one is left: every other behaviour is one of these with   *)
(* its pids renamed, and no property of SessionTable tells pids apart.     *)
(***************************************************************************)
EXTENDS SessionTable, TLC

LowestFresh ==
    \A p \in Pid : inc[p] = 0 /\ inc'[p] # 0 => \A q \in 1 .. p - 1 : inc[q] # 0

MCNext == Next /\ LowestFresh

MCSpec == Init /\ [][MCNext]_vars

MCFairSpec == MCSpec /\ Fairness
=============================================================================
