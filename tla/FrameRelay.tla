----------------------------- MODULE FrameRelay -----------------------------
(***************************************************************************)
(* What the clipboard helper's client promises the host's clipboard        *)
(* frames: they are delivered oldest first and each at most once, the      *)
(* newest is always accepted, and while the helper lives none is lost but  *)
(* to an overflow.  What the end of a helper takes with it is not told.    *)
(***************************************************************************)
EXTENDS Integers, FiniteSets

CONSTANT Capacity

VARIABLES
    arrived,    \* frames arrived so far: they are numbered from 1
    pending,    \* those on their way
    delivered,  \* the last frame delivered, or 0
    up          \* the helper lives

Init == arrived = 0 /\ pending = {} /\ delivered = 0 /\ up = FALSE

Overflows == Cardinality(pending) >= Capacity

\* Of too many, one goes.
Arrive ==
    /\ arrived' = arrived + 1
    /\ \/ pending' = pending \cup {arrived'}
       \/ Overflows /\ \E f \in pending : pending' = (pending \ {f}) \cup {arrived'}
    /\ UNCHANGED <<delivered, up>>

Deliver ==
    /\ up
    /\ delivered' \in pending /\ \A f \in pending : delivered' <= f
    /\ delivered < delivered'
    /\ pending' = pending \ {delivered'}
    /\ UNCHANGED <<arrived, up>>

Begin == up' = TRUE /\ UNCHANGED <<arrived, pending, delivered>>

\* The helper ends, or has ended.
Lose == up' = FALSE /\ pending' \subseteq pending /\ UNCHANGED <<arrived, delivered>>

Next == Arrive \/ Deliver \/ Begin \/ Lose

Spec == Init /\ [][Next]_<<arrived, pending, delivered, up>>
=============================================================================
