----------------------------- MODULE MCServices -----------------------------
EXTENDS Services, TLC
=============================================================================
