----------------------- MODULE PreviewSupervisorProofs -----------------------
(***************************************************************************)
(* Theorems about the preview supervisor, for any flows, domains, children *)
(* and environment: its invariants, the chain of its events, and that it   *)
(* implements Preview.                                                     *)
(***************************************************************************)
EXTENDS PreviewSupervisor, TLAPS

-----------------------------------------------------------------------------
(* The inductive invariant.                                                *)

\* Where in _switch there is a child, and what flow it has.
SwitchInv ==
    /\ pc = "wait" => child # None
    /\ pc = "unlink" => child = None \/ ~Alive(child)
    /\ pc \in {"spawn", "record"} => dropped
    /\ pc = "spawn" => child = None /\ switch.to # None
    /\ pc = "record" => switch.to = ChildFlow
    /\ child # None => ChildFlow # None

\* What /status and the event being prepared say of the child; the child that
\* was just started is not one they know.
RecordInv ==
    /\ pc # "record" /\ child # None => status.child = child /\ status.selected = ChildFlow
    /\ pc = "record" /\ child # None => child # status.child
    /\ pc \in {"stop", "wait", "unlink"} => switch.old = child
    /\ pc \in {"spawn", "record"} => switch.old \in {None, status.child}

PreviewInv ==
    /\ PreviewTypeOK
    /\ OnlyTheChildRuns
    /\ NeverStaleFrame
    /\ SwitchInv
    /\ RecordInv

\* A run of the program starts in the invariant.
LEMMA InvInit == ASSUME PreviewInit PROVE PreviewInv
BY PreviewAssumption
   DEF PreviewInit, PreviewInv, PreviewTypeOK, OnlyTheChildRuns, NeverStaleFrame,
       SwitchInv, RecordInv, Alive, ChildFlow, NoProcess, NoPicture, NoSwitch, NoStatus,
       Labels, Reasons

\* Each step of the thread's loops keeps it.
LEMMA LoopKeepsInv ==
    ASSUME PreviewInv,
           \/ FindReceiver \/ FindReceiverFails \/ PollActive \/ PollFails
           \/ AnswerGarbled \/ CheckChild \/ KeepStatic
    PROVE  PreviewInv'
<1> USE PreviewAssumption
    DEF PreviewInv, PreviewTypeOK, OnlyTheChildRuns, NeverStaleFrame, SwitchInv,
        RecordInv, Alive, ChildFlow, Labels, Reasons
<1>1. CASE FindReceiver
  BY <1>1 DEF FindReceiver
<1>2. CASE FindReceiverFails
  BY <1>2 DEF FindReceiverFails
<1>3. CASE PollActive
  BY <1>3 DEF PollActive, Switch, Selection, Foreign, Actives
<1>4. CASE PollFails
  BY <1>4 DEF PollFails
<1>5. CASE AnswerGarbled
  BY <1>5 DEF AnswerGarbled, ThreadDies
<1>6. CASE CheckChild
  BY <1>6 DEF CheckChild, Switch, ChildExited, Top, NoProcess
<1>7. CASE KeepStatic
  BY <1>7 DEF KeepStatic, Switch, ChildExited
<1> QED
  BY <1>1, <1>2, <1>3, <1>4, <1>5, <1>6, <1>7

\* Each step of a switch keeps it.
LEMMA SwitchKeepsInv ==
    ASSUME PreviewInv,
           \/ StopChild \/ ChildStopped \/ KillChild \/ DropPicture
           \/ StartChild \/ StartFails \/ RecordSwitch
    PROVE  PreviewInv'
<1> USE PreviewAssumption
    DEF PreviewInv, PreviewTypeOK, OnlyTheChildRuns, NeverStaleFrame, SwitchInv,
        RecordInv, Alive, ChildFlow, Labels, Reasons, NoProcess, NoPicture
<1>1. CASE StopChild
  BY <1>1 DEF StopChild, ChildExited
<1>2. CASE ChildStopped
  BY <1>2 DEF ChildStopped, ChildExited
<1>3. CASE KillChild
  BY <1>3 DEF KillChild, ChildExited
<1>4. CASE DropPicture
  BY <1>4 DEF DropPicture
<1>5. CASE StartChild
  BY <1>5 DEF StartChild, Unused
<1>6. CASE StartFails
  BY <1>6 DEF StartFails, ThreadDies
<1>7. CASE RecordSwitch
  BY <1>7 DEF RecordSwitch, Top
<1> QED
  BY <1>1, <1>2, <1>3, <1>4, <1>5, <1>6, <1>7

\* Nothing the node, the children or the container do breaks it.
LEMMA OthersKeepInv ==
    ASSUME PreviewInv,
           \/ ActiveChanges \/ ChildDraws \/ ChildObeysTerm \/ ChildCrashes
           \/ ContainerRestarts
    PROVE  PreviewInv'
<1> USE PreviewAssumption
    DEF PreviewInv, PreviewTypeOK, OnlyTheChildRuns, NeverStaleFrame, SwitchInv,
        RecordInv, Alive, ChildFlow, Labels, Reasons, threadVars, NoProcess, NoPicture
<1>1. CASE ActiveChanges
  BY <1>1 DEF ActiveChanges
<1>2. CASE ChildDraws
  BY <1>2 DEF ChildDraws
<1>3. CASE ChildObeysTerm
  BY <1>3 DEF ChildObeysTerm
<1>4. CASE ChildCrashes
  BY <1>4 DEF ChildCrashes
<1>5. CASE ContainerRestarts
  BY <1>5 DEF ContainerRestarts, NoSwitch, NoStatus
<1> QED
  BY <1>1, <1>2, <1>3, <1>4, <1>5

\* A step that changes nothing keeps it.
LEMMA StutterKeepsInv == ASSUME PreviewInv, UNCHANGED vars PROVE PreviewInv'
BY DEF vars, PreviewInv, PreviewTypeOK, OnlyTheChildRuns, NeverStaleFrame, SwitchInv,
       RecordInv, Alive, ChildFlow

LEMMA NextKeepsInv == ASSUME PreviewInv, [PreviewNext]_vars PROVE PreviewInv'
BY LoopKeepsInv, SwitchKeepsInv, OthersKeepInv, StutterKeepsInv
   DEF PreviewNext, Progress, Disturbance, Failure

\* The invariant holds of every reachable state.
THEOREM PreviewInvariant == PreviewSpec => []PreviewInv
<1>1. PreviewInit => PreviewInv
  BY InvInit
<1>2. PreviewInv /\ [PreviewNext]_vars => PreviewInv'
  BY NextKeepsInv
<1> QED
  BY <1>1, <1>2, PTL DEF PreviewSpec

-----------------------------------------------------------------------------
(* The safety properties of the run preview.                               *)

\* Every variable keeps its type.
THEOREM PreviewTypeCorrect == PreviewSpec => []PreviewTypeOK
<1>1. PreviewInv => PreviewTypeOK
  BY DEF PreviewInv
<1> QED
  BY <1>1, PreviewInvariant, PTL

\* At most one sink runs, and it is the one the supervisor knows: a switch waits
\* for the end of the old child, by KILL if need be.
THEOREM OnlyTheChildRunsHolds == PreviewSpec => []OnlyTheChildRuns
<1>1. PreviewInv => OnlyTheChildRuns
  BY DEF PreviewInv
<1> QED
  BY <1>1, PreviewInvariant, PTL

\* After the first switch of a supervisor, the picture is the present child's or
\* there is none.
THEOREM NeverStaleFrameHolds == PreviewSpec => []NeverStaleFrame
<1>1. PreviewInv => NeverStaleFrame
  BY DEF PreviewInv
<1> QED
  BY <1>1, PreviewInvariant, PTL

\* Between switches the record of /status names the child there is.
THEOREM StatusTruthfulHolds == PreviewSpec => []StatusTruthful
<1>1. PreviewInv => StatusTruthful
  BY DEF PreviewInv, OnlyTheChildRuns, RecordInv, StatusTruthful, Switching, PreviewTypeOK
<1> QED
  BY <1>1, PreviewInvariant, PTL

\* The events of /status form a chain of children.
THEOREM EventsChainHolds == PreviewSpec => EventsChain
<1> DEFINE Chained == \/ switch.old = status.child
                      \/ switch.old = None /\ ~Alive(status.child)
<1>1. ASSUME PreviewInv, pc = "record" PROVE Chained
  <2>1. switch.old \in {None, status.child}
    BY <1>1 DEF PreviewInv, RecordInv
  <2>2. CASE status.child = None
    BY <2>1, <2>2
  <2>3. CASE status.child # None
    <3>1. status.child \in Children
      BY <1>1, <2>3 DEF PreviewInv, PreviewTypeOK
    <3>2. child # status.child
      BY <1>1, <2>3 DEF PreviewInv, RecordInv
    <3> QED
      BY <1>1, <2>1, <3>1, <3>2 DEF PreviewInv, OnlyTheChildRuns
  <2> QED
    BY <2>2, <2>3
<1>2. PreviewInv => [pc = "record" /\ pc' # "record" /\ dropped' => Chained]_vars
  BY <1>1
<1> QED
  BY <1>2, PreviewInvariant, PTL DEF EventsChain

-----------------------------------------------------------------------------
(* The supervisor implements Preview.                                      *)

Drawing == {process[c].flow : c \in {d \in Children : Alive(d)}}

\* Only the child can be drawing.
LEMMA DrawingIsTheChild ==
    ASSUME PreviewInv
    PROVE  /\ child # None /\ Alive(child) => Drawing = {ChildFlow}
           /\ child = None \/ ~Alive(child) => Drawing = {}
<1>1. child \in Children \cup {None} /\ \A c \in Children : Alive(c) => c = child
  BY DEF PreviewInv, PreviewTypeOK, OnlyTheChildRuns
<1>2. CASE child # None /\ Alive(child)
  <2>1. {d \in Children : Alive(d)} = {child}
    BY <1>1, <1>2
  <2> QED
    BY <1>2, <2>1 DEF Drawing, ChildFlow
<1>3. CASE child = None \/ ~Alive(child)
  <2>1. {d \in Children : Alive(d)} = {}
    BY <1>1, <1>3, PreviewAssumption
  <2> QED
    BY <1>3, <2>1 DEF Drawing
<1> QED
  BY <1>2, <1>3

LEMMA PreviewInitRefines == ASSUME PreviewInit PROVE Promise!Init
BY DEF PreviewInit, Promise!Init, Alive, NoProcess, NoPicture

\* Every step is a step of Preview or changes nothing there.
LEMMA PreviewStepRefines ==
    ASSUME PreviewInv, PreviewInv', [PreviewNext]_vars
    PROVE  Promise!Next \/ UNCHANGED <<Drawing, picture.flow>>
<1>1. CASE UNCHANGED <<process, picture>>
  BY <1>1 DEF Drawing, Alive
<1>2. CASE \/ StopChild
           \/ KillChild
           \/ ChildObeysTerm
           \/ ChildCrashes
  <2>1. picture' = picture /\ Drawing' \subseteq Drawing
    BY <1>2, DrawingIsTheChild
       DEF StopChild, KillChild, ChildObeysTerm, ChildCrashes, ChildExited, Drawing,
           Alive, PreviewInv, PreviewTypeOK, NoProcess
  <2>2. Drawing' = Drawing \/ Drawing' = {}
    BY <2>1, DrawingIsTheChild
  <2> QED
    BY <2>1, <2>2 DEF Promise!Next, Promise!Close, Drawing
<1>3. CASE DropPicture
  <2>1. Drawing = {}
    BY <1>3, DrawingIsTheChild DEF DropPicture, PreviewInv, SwitchInv
  <2>2. UNCHANGED process /\ picture'.flow = None
    BY <1>3 DEF DropPicture, NoPicture
  <2> QED
    BY <2>1, <2>2 DEF Promise!Next, Promise!Drop, Drawing, Alive
<1>4. CASE StartChild
  <2>1. PICK c \in Children : /\ child' = c
                              /\ process' = [process EXCEPT ![c] =
                                     [state |-> "running", flow |-> switch.to]]
    BY <1>4 DEF StartChild
  <2>2. Drawing = {} /\ picture.flow = None /\ picture' = picture
    BY <1>4, DrawingIsTheChild
       DEF StartChild, PreviewInv, SwitchInv, NeverStaleFrame, ChildFlow
  <2>3. switch.to \in Flows
    BY <1>4 DEF StartChild, PreviewInv, SwitchInv, PreviewTypeOK
  <2>4. process'[c] = [state |-> "running", flow |-> switch.to]
    BY <2>1 DEF PreviewInv, PreviewTypeOK
  <2>5. {d \in Children : Alive(d)'} = {c}
    BY <2>1, <2>4 DEF PreviewInv, OnlyTheChildRuns, Alive
  <2>6. Drawing' = {switch.to}
    BY <2>4, <2>5 DEF Drawing
  <2> QED
    BY <2>2, <2>3, <2>6 DEF Promise!Next, Promise!Open, Drawing
<1>5. CASE ChildDraws
  <2>1. PICK c \in Children : Alive(c) /\ picture' = [by |-> c, flow |-> process[c].flow]
    BY <1>5 DEF ChildDraws, Alive
  <2>2. process[c].flow \in Drawing /\ process[c].flow \in Flows /\ Drawing' = Drawing
    BY <1>5, <2>1 DEF ChildDraws, Drawing, Alive, PreviewInv, PreviewTypeOK, NoProcess
  <2> QED
    BY <2>1, <2>2 DEF Promise!Next, Promise!Draw, Drawing
<1>6. CASE ContainerRestarts
  <2>1. Drawing' = {} /\ picture' = picture
    BY <1>6 DEF ContainerRestarts, Drawing, Alive, NoProcess
  <2> QED
    BY <2>1 DEF Promise!Next, Promise!Close, Drawing
<1> QED
  BY <1>1, <1>2, <1>3, <1>4, <1>5, <1>6
     DEF PreviewNext, Progress, Disturbance, Failure, FindReceiver, FindReceiverFails,
         PollActive, PollFails, AnswerGarbled, CheckChild, KeepStatic, ChildStopped,
         StartFails, RecordSwitch, ActiveChanges, vars

\* A reader of /preview.jpg never sees the pictures of two sinks without a gap,
\* whatever fails, crashes or restarts.
THEOREM ImplementsPreviewHolds == PreviewSpec => ImplementsPreview
<1>1. PreviewInit => Promise!Init
  BY PreviewInitRefines
<1>2. PreviewInv /\ PreviewInv' /\ [PreviewNext]_vars =>
          [Promise!Next]_<<Drawing, picture.flow>>
  BY PreviewStepRefines
<1> QED
  BY <1>1, <1>2, PreviewInvariant, PTL
     DEF PreviewSpec, ImplementsPreview, Promise!Spec, Drawing
=============================================================================
