------------------------------- MODULE Preview -------------------------------
(***************************************************************************)
(* What the IS-05 preview promises to whoever fetches /preview.jpg: one    *)
(* sink at a time draws the picture, and the picture of one sink is        *)
(* dropped before the next sink exists, so that a reader sees "switching", *)
(* never a frame of the flow before (comment at line 149 of                *)
(* mxl-is05-supervisor.py).                                                *)
(***************************************************************************)
CONSTANTS
    Flows,
    NoFlow      \* no picture

VARIABLES
    drawing,    \* the flows sinks are drawing
    picture     \* the flow the picture at PREVIEW_PATH was taken from

Init == drawing = {} /\ picture = NoFlow

Open(f) ==
    /\ drawing = {}
    /\ picture = NoFlow
    /\ drawing' = {f}
    /\ UNCHANGED picture

Draw(f) ==
    /\ f \in drawing
    /\ picture' = f
    /\ UNCHANGED drawing

Close ==
    /\ drawing' = {}
    /\ UNCHANGED picture

Drop ==
    /\ drawing = {}
    /\ picture' = NoFlow
    /\ UNCHANGED drawing

Next == Close \/ Drop \/ \E f \in Flows : Open(f) \/ Draw(f)

Spec == Init /\ [][Next]_<<drawing, picture>>
=============================================================================
