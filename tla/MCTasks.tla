------------------------------ MODULE MCTasks ------------------------------
EXTENDS TaskRegistry, TLC
=============================================================================
