--------------------------- MODULE ActiveSession ---------------------------
(***************************************************************************)
(* What s_ActiveSessionSemaphore promises: sessions take turns, and        *)
(* moonlight-common-c, which keeps its state in globals, only ever runs a  *)
(* connection for the session whose turn it is.                            *)
(***************************************************************************)
CONSTANTS Sessions, NoSession

VARIABLES turn,      \* the session whose turn it is, or NoSession
          connected  \* the sessions that have a connection

Init == turn = NoSession /\ connected = {}

Begin(s) == turn = NoSession /\ turn' = s /\ UNCHANGED connected

\* A connection begins only when no other is left, not even one of its own.
Connect(s) == turn = s /\ connected = {} /\ connected' = {s} /\ UNCHANGED turn

Disconnect(s) == turn = s /\ connected' = {} /\ UNCHANGED turn

End(s) == turn = s /\ connected = {} /\ turn' = NoSession /\ UNCHANGED connected

Next == \E s \in Sessions : Begin(s) \/ Connect(s) \/ Disconnect(s) \/ End(s)

Spec == Init /\ [][Next]_<<turn, connected>>
=============================================================================
