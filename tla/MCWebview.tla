----------------------------- MODULE MCWebview -----------------------------
EXTENDS WebviewHost, TLC
=============================================================================
