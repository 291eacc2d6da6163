-------------------------- MODULE PreviewSupervisor --------------------------
(***************************************************************************)
(* The preview supervisor of the IS-05 A/B fixture:                        *)
(* tests/is05-ab-fixture/supervisor/mxl-is05-supervisor.py.  One thread    *)
(* polls the receiver's resolved /active and replaces a child process, the *)
(* sink that draws the preview picture; HTTP threads answer /status from a *)
(* record and /preview.jpg from the file.                                  *)
(*                                                                         *)
(* A switch is a sequence of steps, because children draw and end, readers *)
(* look and the node moves on between any two of them.  The requests to    *)
(* the node may fail in the ways the loop catches and in ways it does not. *)
(***************************************************************************)
CONSTANTS
    Flows,      \* the MXL flows
    Domains,    \* the MXL domain ids
    None,       \* Python's None, and an unset environment variable
    Children,   \* identities of child processes; one may be used again once
                \* nothing refers to it any more
    DomainId,   \* DOMAIN_ID of the environment
    StaticFlow  \* STATIC_FLOW_ID of the environment

ASSUME PreviewAssumption ==
    /\ None \notin Flows
    /\ None \notin Children
    /\ None \notin Domains
    /\ DomainId \in Domains \cup {None}
    /\ StaticFlow \in Flows \cup {None}

VARIABLES
    mode,       \* SUPERVISE, the environment of the container
    active,     \* the node's resolved /active
    receiver,   \* receiver_id is known
    pc,         \* the thread's next step
    switch,     \* the arguments of _switch, and the event's old_pid
    child,      \* _child
    process,    \* the child processes and the flow each was started on
    picture,    \* the file at PREVIEW_PATH: who drew it, of which flow
    status,     \* selected_flow, child and active_error of the /status record
    dropped     \* history: this supervisor has dropped the picture before

threadVars == <<receiver, pc, switch, child, status, dropped>>
vars == <<mode, active, receiver, pc, switch, child, process, picture, status, dropped>>

\* The part of an /active body that _selection looks at.
Actives == [enabled : BOOLEAN, domain : Domains \cup {None}, flow : Flows \cup {None}]

Labels  == {"find", "poll", "reap", "static", "stop", "wait", "unlink", "spawn",
            "record", "dead"}
Reasons == {"active-changed", "child-exited", "static"}

NoProcess == [state |-> "gone", flow |-> None]
NoPicture == [by |-> None, flow |-> None]
NoSwitch  == [to |-> None, reason |-> "static", old |-> None]
NoStatus  == [selected |-> None, child |-> None, error |-> "none"]

PreviewTypeOK ==
    /\ mode \in {"supervised", "static"}
    /\ active \in Actives
    /\ receiver \in BOOLEAN
    /\ pc \in Labels
    /\ switch \in [to : Flows \cup {None}, reason : Reasons, old : Children \cup {None}]
    /\ child \in Children \cup {None}
    /\ process \in [Children -> {NoProcess} \cup
                        [state : {"running", "terminating", "gone"}, flow : Flows]]
    /\ picture \in {NoPicture} \cup [by : Children, flow : Flows]
    /\ status \in [selected : Flows \cup {None}, child : Children \cup {None},
                   error : {"none", "domain", "caught"}]
    /\ dropped \in BOOLEAN

Top == IF mode = "static" THEN "static" ELSE IF receiver THEN "poll" ELSE "find"

PreviewInit ==
    /\ mode \in {"supervised", "static"}
    /\ active \in Actives
    /\ receiver = FALSE
    /\ pc = IF mode = "static" THEN "static" ELSE "find"
    /\ switch = NoSwitch
    /\ child = None
    /\ process = [c \in Children |-> NoProcess]
    /\ picture = NoPicture
    /\ status = NoStatus
    /\ dropped = FALSE

-----------------------------------------------------------------------------
(* The thread's own reading of things.                                     *)

\* _selection: the flow to preview, and whether there is an error to report.
Foreign(body)   == body.enabled /\ DomainId \notin {None, body.domain}
Selection(body) == IF body.enabled /\ ~Foreign(body) THEN body.flow ELSE None

\* _child_flow changes together with _child.
ChildFlow   == IF child = None THEN None ELSE process[child].flow
ChildExited == child # None /\ process[child].state = "gone"

\* _switch is called.
Switch(flow, reason) ==
    /\ switch' = [to |-> flow, reason |-> reason, old |-> child]
    /\ pc' = "stop"

\* An exception nobody catches: the daemon thread ends, the HTTP threads and
\* the child go on.
ThreadDies == pc' = "dead"

-----------------------------------------------------------------------------
(* _supervise_loop and _static_loop.                                       *)

FindReceiver ==
    /\ pc = "find"
    /\ receiver' = TRUE
    /\ pc' = "poll"
    /\ UNCHANGED <<mode, active, switch, child, process, picture, status, dropped>>

\* No MXL receiver, or the request failed: on to the check of the child.
FindReceiverFails ==
    /\ pc = "find"
    /\ pc' = "reap"
    /\ UNCHANGED <<mode, active, receiver, switch, child, process, picture, status, dropped>>

\* Mutant: /active is compared with the flow /status reports.
PollAgainstStatus ==
    /\ pc = "poll"
    /\ status' = [status EXCEPT !.error = IF Foreign(active) THEN "domain" ELSE "none"]
    /\ IF Selection(active) # status.selected
          THEN Switch(Selection(active), "active-changed")
          ELSE pc' = "reap" /\ UNCHANGED switch
    /\ UNCHANGED <<mode, active, receiver, child, process, picture, dropped>>

PollActive ==
    /\ pc = "poll"
    /\ status' = [status EXCEPT !.error = IF Foreign(active) THEN "domain" ELSE "none"]
    /\ IF Selection(active) # ChildFlow
          THEN Switch(Selection(active), "active-changed")
          ELSE pc' = "reap" /\ UNCHANGED switch
    /\ UNCHANGED <<mode, active, receiver, child, process, picture, dropped>>

\* OSError, URLError or ValueError: remembered for /status and passed over.
PollFails ==
    /\ pc = "poll"
    /\ status' = [status EXCEPT !.error = "caught"]
    /\ pc' = "reap"
    /\ UNCHANGED <<mode, active, receiver, switch, child, process, picture, dropped>>

\* Any other exception: a body cut short (http.client.IncompleteRead is none of
\* the three), or one that is no JSON object.
AnswerGarbled ==
    /\ pc \in {"find", "poll"}
    /\ ThreadDies
    /\ UNCHANGED <<mode, active, receiver, switch, child, process, picture, status, dropped>>

\* Lines 193-195.
CheckChild ==
    /\ pc = "reap"
    /\ IF ChildExited
          THEN Switch(ChildFlow, "child-exited")
          ELSE pc' = Top /\ UNCHANGED switch
    /\ UNCHANGED <<mode, active, receiver, child, process, picture, status, dropped>>

KeepStatic ==
    /\ pc = "static"
    /\ StaticFlow # None
    /\ child = None \/ ChildExited
    /\ Switch(StaticFlow, "static")
    /\ UNCHANGED <<mode, active, receiver, child, process, picture, status, dropped>>

-----------------------------------------------------------------------------
(* _switch.                                                                *)

\* Mutant: _stop_child sends TERM and does not wait.
StopWithoutWait ==
    /\ pc = "stop"
    /\ pc' = "unlink"
    /\ process' = IF child = None \/ ChildExited
                     THEN process
                     ELSE [process EXCEPT ![child].state = "terminating"]
    /\ UNCHANGED <<mode, active, receiver, switch, child, picture, status, dropped>>

\* _stop_child: poll, then TERM.
StopChild ==
    /\ pc = "stop"
    /\ IF child = None \/ ChildExited
          THEN pc' = "unlink" /\ UNCHANGED process
          ELSE pc' = "wait" /\ process' = [process EXCEPT ![child].state = "terminating"]
    /\ UNCHANGED <<mode, active, receiver, switch, child, picture, status, dropped>>

\* _stop_child: wait returns.
ChildStopped ==
    /\ pc = "wait"
    /\ ChildExited
    /\ pc' = "unlink"
    /\ UNCHANGED <<mode, active, receiver, switch, child, process, picture, status, dropped>>

\* Mutant: STOP_GRACE runs out and the child is left alone.
GiveUpOnChild ==
    /\ pc = "wait"
    /\ ~ChildExited
    /\ pc' = "unlink"
    /\ UNCHANGED <<mode, active, receiver, switch, child, process, picture, status, dropped>>

\* _stop_child: STOP_GRACE runs out; KILL, and wait for it.
KillChild ==
    /\ pc = "wait"
    /\ ~ChildExited
    /\ process' = [process EXCEPT ![child].state = "gone"]
    /\ pc' = "unlink"
    /\ UNCHANGED <<mode, active, receiver, switch, child, picture, status, dropped>>

\* Mutant: a child is started whether or not there is a flow.
DropPictureThenSpawn ==
    /\ pc = "unlink"
    /\ picture' = NoPicture
    /\ dropped' = TRUE
    /\ child' = None
    /\ pc' = "spawn"
    /\ UNCHANGED <<mode, active, receiver, switch, process, status>>

\* Lines 150-155.
DropPicture ==
    /\ pc = "unlink"
    /\ picture' = NoPicture
    /\ dropped' = TRUE
    /\ child' = None
    /\ pc' = IF switch.to = None THEN "record" ELSE "spawn"
    /\ UNCHANGED <<mode, active, receiver, switch, process, status>>

Unused(c) == /\ process[c].state = "gone"
             /\ c \notin {child, switch.old, status.child, picture.by}

StartChild ==
    /\ pc = "spawn"
    /\ \E c \in Children :
           /\ Unused(c)
           /\ child' = c
           /\ process' = [process EXCEPT ![c] = [state |-> "running", flow |-> switch.to]]
    /\ pc' = "record"
    /\ UNCHANGED <<mode, active, receiver, switch, picture, status, dropped>>

\* Popen raises OSError: caught at line 190 only on the way from /active.
StartFails ==
    /\ pc = "spawn"
    /\ IF switch.reason = "active-changed"
          THEN pc' = "reap" /\ status' = [status EXCEPT !.error = "caught"]
          ELSE ThreadDies /\ UNCHANGED status
    /\ UNCHANGED <<mode, active, receiver, switch, child, process, picture, dropped>>

\* Mutant: /status is written when the flow changes, not when the child does.
RecordNewFlow ==
    /\ pc = "record"
    /\ status' = IF switch.to = status.selected
                    THEN status
                    ELSE [status EXCEPT !.selected = switch.to, !.child = child]
    /\ pc' = IF switch.reason = "active-changed" THEN "reap" ELSE Top
    /\ UNCHANGED <<mode, active, receiver, switch, child, process, picture, dropped>>

\* Lines 158-168: under the lock, so a reader of /status sees all of it.
RecordSwitch ==
    /\ pc = "record"
    /\ status' = [status EXCEPT !.selected = switch.to, !.child = child]
    /\ pc' = IF switch.reason = "active-changed" THEN "reap" ELSE Top
    /\ UNCHANGED <<mode, active, receiver, switch, child, process, picture, dropped>>

Progress ==
    \/ FindReceiver \/ PollActive \/ CheckChild \/ KeepStatic
    \/ StopChild \/ ChildStopped \/ KillChild \/ DropPicture
    \/ StartChild \/ RecordSwitch

Failure == FindReceiverFails \/ PollFails \/ AnswerGarbled \/ StartFails

-----------------------------------------------------------------------------
(* The node, the children and the container.                               *)

\* A PATCH of the receiver, or a restart of the node's container.
ActiveChanges ==
    /\ \E body \in Actives : active' = body
    /\ UNCHANGED <<mode, process, picture, threadVars>>

ChildDraws ==
    /\ \E c \in Children :
           /\ process[c].state # "gone"
           /\ picture' = [by |-> c, flow |-> process[c].flow]
    /\ UNCHANGED <<mode, active, process, threadVars>>

ChildObeysTerm ==
    /\ \E c \in Children :
           /\ process[c].state = "terminating"
           /\ process' = [process EXCEPT ![c].state = "gone"]
    /\ UNCHANGED <<mode, active, picture, threadVars>>

ChildCrashes ==
    /\ \E c \in Children :
           /\ process[c].state = "running"
           /\ process' = [process EXCEPT ![c].state = "gone"]
    /\ UNCHANGED <<mode, active, picture, threadVars>>

\* The container ends and is started again: its processes are gone, the
\* picture is in a volume of the pod.
ContainerRestarts ==
    /\ receiver' = FALSE
    /\ pc' = IF mode = "static" THEN "static" ELSE "find"
    /\ switch' = NoSwitch
    /\ child' = None
    /\ process' = [c \in Children |-> NoProcess]
    /\ status' = NoStatus
    /\ dropped' = FALSE
    /\ UNCHANGED <<mode, active, picture>>

Disturbance == Failure \/ ActiveChanges \/ ChildCrashes \/ ContainerRestarts

PreviewNext == Progress \/ Disturbance \/ ChildDraws \/ ChildObeysTerm

PreviewSpec == PreviewInit /\ [][PreviewNext]_vars

\* The thread runs.  Nothing is asked of the children: KILL needs no consent.
PreviewFairSpec == PreviewSpec /\ WF_vars(Progress)

-----------------------------------------------------------------------------
(* Safety.                                                                 *)

Alive(c)  == process[c].state # "gone"
Switching == pc \in {"stop", "wait", "unlink", "spawn", "record"}

\* No sink outlives its replacement, and none is left that the supervisor has
\* forgotten: whatever process is alive is _child (lines 123-133, 142-157).
OnlyTheChildRuns == \A c \in Children : Alive(c) => c = child

\* Once this supervisor has dropped the picture, a reader of /preview.jpg gets
\* a frame of the present child or none (comment at line 149), in the middle
\* of a switch and after a failed one too.  Before that it may get a frame its
\* predecessor in the same pod left behind.
NeverStaleFrame ==
    dropped => /\ picture.by \in {None, child}
               /\ picture.flow \in {None, ChildFlow}

\* Between switches /status tells the truth: the child it names is the one the
\* supervisor has, with its flow, or, after a child could not be started, one
\* that is gone (lines 155-168).
StatusTruthful ==
    ~Switching =>
        IF child # None
           THEN status.child = child /\ status.selected = ChildFlow
           ELSE status.child = None \/ ~Alive(status.child)

\* The events of /status form a chain, which the fixture's driver tests (run.py
\* lines 746-749): the old_pid of an event is the new_pid of the event before,
\* unless a child could not be started in between.  (dropped' leaves a restart
\* of the container out: it empties the record.)
EventsChain ==
    [][pc = "record" /\ pc' # "record" /\ dropped' =>
          \/ switch.old = status.child
          \/ switch.old = None /\ ~Alive(status.child)]_vars

\* The supervisor implements Preview: a reader sees no picture between the
\* pictures of two sinks, whatever fails and restarts (lines 136-157).
Promise == INSTANCE Preview
    WITH NoFlow  <- None,
         drawing <- {process[c].flow : c \in {d \in Children : Alive(d)}},
         picture <- picture.flow

ImplementsPreview == Promise!Spec

(* Liveness.                                                               *)

Wanted == IF mode = "static" THEN StaticFlow ELSE Selection(active)

Follows ==
    IF Wanted = None
       THEN \A c \in Children : ~Alive(c)
       ELSE /\ child # None
            /\ process[child] = [state |-> "running", flow |-> Wanted]
            /\ status.child = child
            /\ status.selected = Wanted

Settles == <>[][~Disturbance]_vars

\* When /active settles, requests are answered and children can be started,
\* the preview ends up on the selected flow and /status says so, provided the
\* thread is still there; in static mode, on the static flow (lines 172-202).
PreviewFollows == Settles /\ <>[](pc # "dead") => <>[]Follows

-----------------------------------------------------------------------------
(* Statements of the documents that the supervisor does not keep.          *)

\* "When the selected mxl_flow_id changes, it stops the mxl-gst-sink child,
\* deletes the last preview frame and starts a new child on the new flow"
\* (README.md lines 52-54 of the fixture).
FollowsThroughErrors == mode = "supervised" /\ Settles => <>[]Follows
=============================================================================
