----------------------------- MODULE MCAnswers -----------------------------
EXTENDS PendingAnswers, TLC
=============================================================================
