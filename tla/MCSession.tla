----------------------------- MODULE MCSession -----------------------------
\* Session checked by TLC; the bounds are in the configurations.
EXTENDS Session
=============================================================================
