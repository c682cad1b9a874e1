------------------------- MODULE MCSessionHandover -------------------------
\* SessionHandover checked by TLC; the sessions are model values.
EXTENDS SessionHandover
=============================================================================
