------------------------------ MODULE FramePipe ------------------------------
(***************************************************************************)
(* What the frame pacer promises the decoder, which has only so many       *)
(* surfaces, and the renderer: a pipe that may drop frames, but shows them *)
(* in the order they were fed, none of them twice, holds a limited number, *)
(* keeps the one on screen, and is empty once it is closed.                *)
(***************************************************************************)
EXTENDS Integers, FiniteSets

VARIABLES
    capacity,  \* the frames it may hold; never changes
    fed,       \* frames fed so far: they are numbered from 1
    held,      \* the frames whose surface is in use
    shown,     \* the frame on screen, or 0
    open       \* it has not been closed

Init ==
    /\ capacity \in Nat
    /\ fed = 0 /\ held = {} /\ shown = 0
    /\ open = TRUE

\* Frames are dropped whenever it pleases the pipe, but not the one on screen.
ShownIsHeld == {shown} \ {0} \subseteq held'

Feed ==
    /\ open = TRUE
    /\ fed' = fed + 1
    /\ fed' \in held' /\ held' \subseteq held \cup {fed'} /\ ShownIsHeld
    /\ Cardinality(held') <= capacity
    /\ UNCHANGED <<capacity, shown, open>>

Drop ==
    /\ open = TRUE
    /\ held' \subseteq held /\ ShownIsHeld
    /\ UNCHANGED <<capacity, fed, shown, open>>

Show ==
    /\ open = TRUE
    /\ shown' \in held /\ shown < shown'
    /\ held' = held \ {shown}
    /\ UNCHANGED <<capacity, fed, open>>

Close ==
    /\ open = TRUE
    /\ open' = FALSE /\ held' = {}
    /\ UNCHANGED <<capacity, fed, shown>>

Next == Feed \/ Drop \/ Show \/ Close

Spec == Init /\ [][Next]_<<capacity, fed, held, shown, open>>
=============================================================================
