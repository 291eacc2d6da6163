-------------------------- MODULE SourceSupervisor --------------------------
(***************************************************************************)
(* The supervisor of a source pod: source-supervisor.sh, rendered from     *)
(* charts/mxl-fabrics-demo/templates/source-handshake.yaml.  One shell     *)
(* script per source polls the files of the mxl-coordinator ConfigMap the  *)
(* kubelet projects into its pod, and runs at most one initiator (the      *)
(* process that transmits) while they select this source.                  *)
(*                                                                         *)
(* Every test or read of a coordinator file is a step of its own: the      *)
(* projection may be replaced between any two of them.  The sleeps need no *)
(* step, because any amount of the other actors' activity fits before the  *)
(* next read anyway.                                                       *)
(***************************************************************************)
EXTENDS Naturals

CONSTANTS
    Sources,    \* the source pods
    Ids,        \* the names active-source may carry
    OwnId,      \* OwnId[s]: the sourceId rendered into the script of s
    Infos,      \* target-info payloads
    Absent,     \* a key the ConfigMap does not have: no file
    Empty,      \* a key with an empty value, and the shell's empty string
    MaxEpoch    \* bound: epochs ever published

Blank  == {Absent, Empty}
Epochs == 1..MaxEpoch

ASSUME ConstantsAssumption ==
    /\ Absent # Empty
    /\ \A b \in Blank : b \notin Ids /\ b \notin Infos /\ b \notin Epochs
    /\ OwnId \in [Sources -> Ids \cup {Empty}]
    /\ MaxEpoch \in Nat

VARIABLES
    issued,        \* issued[e]: the target-info published with epoch e
    published,     \* published[s]: newest epoch whose publication reached s
    mount,         \* mount[s]: the files under /coordinator
    flow,          \* flow[s]: the producer's flow_def.json exists
    pc,            \* pc[s]: the next step of the script
    site,          \* site[s]: the statement of the main loop it belongs to
    currentEpoch,  \* the script's current_epoch
    lastEpoch,     \* the script's last_epoch
    targetInfo,    \* the script's target_info
    initiator,     \* the child: its process state and its --target-info
    entitled       \* history: s was selected since it last started unselected

coordVars  == <<issued, published, mount>>
scriptVars == <<pc, site, currentEpoch, lastEpoch, targetInfo>>
vars == <<issued, published, mount, flow, pc, site, currentEpoch, lastEpoch,
          targetInfo, initiator, entitled>>

Snapshot == [active : Ids \cup Blank,
             info   : Infos \cup Blank,
             epoch  : Epochs \cup Blank]

Labels == {"flow", "size", "own", "info", "epoch", "entry", "term", "reap",
           "read", "launch", "bump", "diff", "alive", "exited"}
Sites  == {"gate", "bump", "recheck", "dead"}

NoInitiator == [state |-> "none", info |-> Empty]

\* Lines 50-53, 62: `-s file` is true of a file with content; `$(cat file)`
\* yields the empty string for an empty file and, where the script survives
\* the failure of cat, for a missing one.
HasContent(key) == key \notin Blank
Text(key) == IF key = Absent THEN Empty ELSE key

\* What the coordinator says at this instant, as one atomic observation.
Selected(s)   == HasContent(mount[s].active) /\ mount[s].active = OwnId[s]
Authorised(s) == Selected(s) /\ HasContent(mount[s].info) /\ HasContent(mount[s].epoch)

Transmitting(s) == initiator[s].state \in {"running", "terminating"}

TypeOK ==
    /\ issued \in [Epochs -> Infos \cup {Empty}]
    /\ published \in [Sources -> 0..MaxEpoch]
    /\ mount \in [Sources -> Snapshot]
    /\ flow \in [Sources -> BOOLEAN]
    /\ pc \in [Sources -> Labels]
    /\ site \in [Sources -> Sites]
    /\ currentEpoch \in [Sources -> Epochs \cup {Empty}]
    /\ lastEpoch \in [Sources -> Epochs \cup {Empty}]
    /\ targetInfo \in [Sources -> Infos \cup {Empty}]
    /\ initiator \in [Sources -> [state : {"none", "running", "terminating", "exited"},
                                  info  : Infos \cup {Empty}]]
    /\ entitled \in [Sources -> BOOLEAN]

Init ==
    /\ issued = [e \in Epochs |-> Empty]
    /\ published = [s \in Sources |-> 0]
    /\ mount = [s \in Sources |-> [active |-> Absent, info |-> Absent, epoch |-> Absent]]
    /\ flow = [s \in Sources |-> FALSE]
    /\ pc = [s \in Sources |-> "flow"]
    /\ site = [s \in Sources |-> "gate"]
    /\ currentEpoch = [s \in Sources |-> Empty]
    /\ lastEpoch = [s \in Sources |-> Empty]
    /\ targetInfo = [s \in Sources |-> Empty]
    /\ initiator = [s \in Sources |-> NoInitiator]
    /\ entitled = [s \in Sources |-> FALSE]

-----------------------------------------------------------------------------
(* Control flow shared by the steps.                                       *)

Goto(s, label)     == pc' = [pc EXCEPT ![s] = label] /\ UNCHANGED site
Enter(s, at, label) == /\ pc' = [pc EXCEPT ![s] = label]
                       /\ site' = [site EXCEPT ![s] = at]

\* The child changes its process state and keeps its arguments.
Child(s, state) ==
    initiator' = [initiator EXCEPT ![s] = [state |-> state, info |-> initiator[s].info]]

\* `set -e`, or the container being killed: the script is its container's
\* PID 1, so the initiator dies with it.
Die(s) ==
    /\ Enter(s, "gate", "exited")
    /\ currentEpoch' = [currentEpoch EXCEPT ![s] = Empty]
    /\ lastEpoch' = [lastEpoch EXCEPT ![s] = Empty]
    /\ targetInfo' = [targetInfo EXCEPT ![s] = Empty]
    /\ initiator' = [initiator EXCEPT ![s] = NoInitiator]

\* The predicate is false: the gate polls again (71-74), the epoch branch is
\* skipped and the re-check follows it (124, 132), and the re-check stops
\* the initiator and parks (132-143).
Refused(s) ==
    \/ site[s] = "gate" /\ Goto(s, "size")
    \/ site[s] = "bump" /\ Enter(s, "recheck", "size")
    \/ site[s] = "recheck" /\ Goto(s, "term")

-----------------------------------------------------------------------------
(* The script.                                                             *)

WaitForFlow(s) ==
    /\ pc[s] = "flow"
    /\ flow[s]
    /\ Enter(s, "gate", "size")
    /\ UNCHANGED <<coordVars, flow, currentEpoch, lastEpoch, targetInfo, initiator, entitled>>

\* is_selected, first half: [ -s active-source ].
TestActiveSource(s) ==
    /\ pc[s] = "size"
    /\ IF HasContent(mount[s].active) THEN Goto(s, "own") ELSE Refused(s)
    /\ UNCHANGED <<coordVars, flow, currentEpoch, lastEpoch, targetInfo, initiator, entitled>>

\* Mutant: the running loop re-checks the selection only.
RecheckSelectionOnly(s) ==
    /\ pc[s] = "own"
    /\ IF Text(mount[s].active) = OwnId[s]
          THEN Goto(s, CASE site[s] = "gate" -> "info" [] site[s] = "bump" -> "term"
                         [] OTHER -> "alive")
          ELSE Refused(s)
    /\ UNCHANGED <<coordVars, flow, currentEpoch, lastEpoch, targetInfo, initiator, entitled>>

\* is_selected, second half: the file is opened again and compared.
CompareActiveSource(s) ==
    /\ pc[s] = "own"
    /\ IF Text(mount[s].active) = OwnId[s]
          THEN Goto(s, IF site[s] = "bump" THEN "term" ELSE "info")
          ELSE Refused(s)
    /\ UNCHANGED <<coordVars, flow, currentEpoch, lastEpoch, targetInfo, initiator, entitled>>

\* predicate_holds, second conjunct.
TestTargetInfo(s) ==
    /\ pc[s] = "info"
    /\ IF HasContent(mount[s].info) THEN Goto(s, "epoch") ELSE Refused(s)
    /\ UNCHANGED <<coordVars, flow, currentEpoch, lastEpoch, targetInfo, initiator, entitled>>

\* predicate_holds, third conjunct.
TestEpoch(s) ==
    /\ pc[s] = "epoch"
    /\ IF HasContent(mount[s].epoch)
          THEN Goto(s, IF site[s] = "gate" THEN "entry" ELSE "alive")
          ELSE Refused(s)
    /\ UNCHANGED <<coordVars, flow, currentEpoch, lastEpoch, targetInfo, initiator, entitled>>

\* Lines 97-98, behind the gate.
ReadEntryEpoch(s) ==
    /\ pc[s] = "entry"
    /\ \/ /\ mount[s].epoch = Absent
          /\ Die(s)
       \/ /\ mount[s].epoch # Absent
          /\ currentEpoch' = [currentEpoch EXCEPT ![s] = Text(mount[s].epoch)]
          /\ IF lastEpoch[s] = Empty \/ currentEpoch'[s] # lastEpoch[s]
                THEN Goto(s, "term")
                ELSE Enter(s, "bump", "bump")
          /\ UNCHANGED <<lastEpoch, targetInfo, initiator>>
    /\ UNCHANGED <<coordVars, flow, entitled>>

\* Mutant: last_epoch survives parking and relaunching.
AfterStopKeepingEpoch(s) ==
    \/ site[s] \in {"gate", "bump"} /\ Goto(s, "read") /\ UNCHANGED lastEpoch
    \/ site[s] \in {"recheck", "dead"} /\ Enter(s, "gate", "size") /\ UNCHANGED lastEpoch

\* What follows stop_initiator at each of its four call sites: the entry
\* start (99), the epoch restart (126-128), parking (140-142) and the
\* relaunch of an initiator that exited (146-149).
AfterStop(s) ==
    \/ /\ site[s] = "gate"
       /\ Goto(s, "read")
       /\ UNCHANGED lastEpoch
    \/ /\ site[s] = "bump"
       /\ Goto(s, "read")
       /\ lastEpoch' = [lastEpoch EXCEPT ![s] = currentEpoch[s]]
    \/ /\ site[s] \in {"recheck", "dead"}
       /\ Enter(s, "gate", "size")
       /\ lastEpoch' = [lastEpoch EXCEPT ![s] = Empty]

\* Mutant: stop_initiator does not wait.
TermWithoutWait(s) ==
    /\ pc[s] = "term"
    /\ IF initiator[s].state = "running" THEN Child(s, "terminating") ELSE UNCHANGED initiator
    /\ AfterStop(s)
    /\ UNCHANGED <<coordVars, flow, currentEpoch, targetInfo, entitled>>

\* stop_initiator: kill -0, then TERM a child that is still there.
TermInitiator(s) ==
    /\ pc[s] = "term"
    /\ IF initiator[s].state = "running"
          THEN /\ Child(s, "terminating")
               /\ Goto(s, "reap")
               /\ UNCHANGED lastEpoch
          ELSE /\ initiator' = [initiator EXCEPT ![s] = NoInitiator]
               /\ AfterStop(s)
    /\ UNCHANGED <<coordVars, flow, currentEpoch, targetInfo, entitled>>

\* stop_initiator: wait, with no escalation to KILL.
ReapInitiator(s) ==
    /\ pc[s] = "reap"
    /\ initiator[s].state = "exited"
    /\ initiator' = [initiator EXCEPT ![s] = NoInitiator]
    /\ AfterStop(s)
    /\ UNCHANGED <<coordVars, flow, currentEpoch, targetInfo, entitled>>

\* Mutant: a target-info file that vanished is not fatal.
ReadTargetInfoUnchecked(s) ==
    /\ pc[s] = "read"
    /\ targetInfo' = [targetInfo EXCEPT ![s] = mount[s].info]
    /\ Goto(s, "launch")
    /\ UNCHANGED <<coordVars, flow, currentEpoch, lastEpoch, initiator, entitled>>

\* start_initiator: target_info="$(cat ...)", fatal on a missing file.
ReadTargetInfo(s) ==
    /\ pc[s] = "read"
    /\ \/ /\ mount[s].info = Absent
          /\ Die(s)
       \/ /\ mount[s].info # Absent
          /\ targetInfo' = [targetInfo EXCEPT ![s] = Text(mount[s].info)]
          /\ Goto(s, "launch")
          /\ UNCHANGED <<currentEpoch, lastEpoch, initiator>>
    /\ UNCHANGED <<coordVars, flow, entitled>>

\* Mutant: last_epoch is read anew once the child is up.
LaunchWithLatestEpoch(s) ==
    /\ pc[s] = "launch"
    /\ initiator' = [initiator EXCEPT ![s] = [state |-> "running", info |-> targetInfo[s]]]
    /\ lastEpoch' = [lastEpoch EXCEPT ![s] = Text(mount[s].epoch)]
    /\ Enter(s, IF site[s] = "gate" THEN "bump" ELSE "recheck",
                IF site[s] = "gate" THEN "bump" ELSE "size")
    /\ entitled' = [entitled EXCEPT ![s] = Selected(s)]
    /\ UNCHANGED <<coordVars, flow, currentEpoch, targetInfo>>

\* start_initiator: the child is spawned; the entry path then records the
\* epoch it read before (101), the restart path did so already (127).
LaunchInitiator(s) ==
    /\ pc[s] = "launch"
    /\ initiator' = [initiator EXCEPT ![s] = [state |-> "running", info |-> targetInfo[s]]]
    /\ lastEpoch' = [lastEpoch EXCEPT ![s] = IF site[s] = "gate" THEN currentEpoch[s] ELSE @]
    /\ Enter(s, IF site[s] = "gate" THEN "bump" ELSE "recheck",
                IF site[s] = "gate" THEN "bump" ELSE "size")
    /\ entitled' = [entitled EXCEPT ![s] = Selected(s)]
    /\ UNCHANGED <<coordVars, flow, currentEpoch, targetInfo>>

\* The running loop: [ -s epoch ].
TestEpochFile(s) ==
    /\ pc[s] = "bump"
    /\ IF HasContent(mount[s].epoch) THEN Goto(s, "diff") ELSE Enter(s, "recheck", "size")
    /\ UNCHANGED <<coordVars, flow, currentEpoch, lastEpoch, targetInfo, initiator, entitled>>

\* Mutant: the epoch-changed-only variant of tests/harness/README.md, without
\* the is_selected of line 124.
CompareEpochOnly(s) ==
    /\ pc[s] = "diff"
    /\ mount[s].epoch # Absent
    /\ currentEpoch' = [currentEpoch EXCEPT ![s] = Text(mount[s].epoch)]
    /\ IF currentEpoch'[s] # lastEpoch[s] THEN Goto(s, "term") ELSE Enter(s, "recheck", "size")
    /\ UNCHANGED <<coordVars, flow, lastEpoch, targetInfo, initiator, entitled>>

\* The running loop: current_epoch is read and compared; a change leads to
\* the is_selected of the epoch branch, no change to the re-check.
CompareEpoch(s) ==
    /\ pc[s] = "diff"
    /\ \/ /\ mount[s].epoch = Absent
          /\ Die(s)
       \/ /\ mount[s].epoch # Absent
          /\ currentEpoch' = [currentEpoch EXCEPT ![s] = Text(mount[s].epoch)]
          /\ Enter(s, IF currentEpoch'[s] # lastEpoch[s] THEN "bump" ELSE "recheck", "size")
          /\ UNCHANGED <<lastEpoch, targetInfo, initiator>>
    /\ UNCHANGED <<coordVars, flow, entitled>>

\* The running loop: kill -0 of the child.
TestAlive(s) ==
    /\ pc[s] = "alive"
    /\ IF initiator[s].state = "running" THEN Enter(s, "bump", "bump") ELSE Enter(s, "dead", "term")
    /\ UNCHANGED <<coordVars, flow, currentEpoch, lastEpoch, targetInfo, initiator, entitled>>

Script(s) ==
    \/ WaitForFlow(s) \/ TestActiveSource(s) \/ CompareActiveSource(s)
    \/ TestTargetInfo(s) \/ TestEpoch(s) \/ ReadEntryEpoch(s)
    \/ TermInitiator(s) \/ ReapInitiator(s) \/ ReadTargetInfo(s)
    \/ LaunchInitiator(s) \/ TestEpochFile(s) \/ CompareEpoch(s) \/ TestAlive(s)

-----------------------------------------------------------------------------
(* The initiator process and the pod.                                      *)

\* It obeys TERM, in its own time.
InitiatorObeysTerm(s) ==
    /\ initiator[s].state = "terminating"
    /\ Child(s, "exited")
    /\ UNCHANGED <<coordVars, scriptVars, flow, entitled>>

\* Started with nothing to connect to, it gives up.
InitiatorRejectsEmptyInfo(s) ==
    /\ initiator[s] = [state |-> "running", info |-> Empty]
    /\ Child(s, "exited")
    /\ UNCHANGED <<coordVars, scriptVars, flow, entitled>>

InitiatorCrashes(s) ==
    /\ initiator[s].state = "running"
    /\ Child(s, "exited")
    /\ UNCHANGED <<coordVars, scriptVars, flow, entitled>>

ContainerKilled(s) ==
    /\ pc[s] # "exited"
    /\ Die(s)
    /\ UNCHANGED <<coordVars, flow, entitled>>

\* Recreate: the new pod starts without the producer's flow.
PodReplaced(s) ==
    /\ Die(s)
    /\ flow' = [flow EXCEPT ![s] = FALSE]
    /\ UNCHANGED <<coordVars, entitled>>

ContainerRestarts(s) ==
    /\ pc[s] = "exited"
    /\ Enter(s, "gate", "flow")
    /\ UNCHANGED <<coordVars, flow, currentEpoch, lastEpoch, targetInfo, initiator, entitled>>

\* The writer container creates the flow.
FlowAppears(s) ==
    /\ ~flow[s]
    /\ flow' = [flow EXCEPT ![s] = TRUE]
    /\ UNCHANGED <<coordVars, scriptVars, initiator, entitled>>

Fault(s) == InitiatorCrashes(s) \/ ContainerKilled(s) \/ PodReplaced(s)

-----------------------------------------------------------------------------
(* The coordinator.  The view pod publishes target-info and epoch in one   *)
(* patch; whoever operates the demo sets active-source and may clear any   *)
(* key; the kubelet replaces all files of the mount at once, late, and     *)
(* never with an older state.                                              *)

Issue(e, info) ==
    /\ \A later \in e..MaxEpoch : issued[later] = Empty
    /\ issued' = [issued EXCEPT ![e] = info]
    /\ UNCHANGED <<published, mount, flow, scriptVars, initiator, entitled>>

\* What the ConfigMap may hold after the publication of epoch e (0: before
\* the first): the two published keys or, where cleared, nothing.
SnapshotsOf(e) ==
    [active : Ids \cup Blank,
     info   : IF e = 0 THEN Blank ELSE Blank \cup {issued[e]},
     epoch  : IF e = 0 THEN Blank ELSE Blank \cup {e}]

Project(s, e, snapshot) ==
    /\ e >= published[s]
    /\ e > 0 => issued[e] # Empty
    /\ published' = [published EXCEPT ![s] = e]
    /\ mount' = [mount EXCEPT ![s] = snapshot]
    /\ entitled' = [entitled EXCEPT ![s] = @ \/ Selected(s)']
    /\ UNCHANGED <<issued, flow, scriptVars, initiator>>

Coordinator ==
    \/ \E e \in Epochs, info \in Infos : Issue(e, info)
    \/ \E s \in Sources, e \in 0..MaxEpoch :
           \E snapshot \in SnapshotsOf(e) : Project(s, e, snapshot)

-----------------------------------------------------------------------------

Pod(s) ==
    \/ InitiatorObeysTerm(s) \/ InitiatorRejectsEmptyInfo(s)
    \/ ContainerRestarts(s) \/ FlowAppears(s) \/ Fault(s)

Next == Coordinator \/ \E s \in Sources : Script(s) \/ Pod(s)

Spec == Init /\ [][Next]_vars

\* The shell keeps executing and the kubelet restarts a dead container; a
\* child that got TERM, or nothing to connect to, ends.  Nothing is assumed of
\* the coordinator, of the producer, or of faults.
Fairness ==
    \A s \in Sources :
        /\ WF_vars(Script(s))
        /\ WF_vars(ContainerRestarts(s))
        /\ WF_vars(InitiatorObeysTerm(s))
        /\ WF_vars(InitiatorRejectsEmptyInfo(s))

FairSpec == Spec /\ Fairness

-----------------------------------------------------------------------------
(* Safety.                                                                 *)

\* A source that waits at the gate, is about to start a child, or has no
\* script at all, transmits nothing (comment at lines 65-69): the previous
\* child is gone, not merely told to go, before the next one is spawned.
SilentUnlessServing ==
    \A s \in Sources :
        site[s] = "gate" \/ pc[s] \in {"read", "launch"} => initiator[s] = NoInitiator

\* While the script believes its child serves the epoch it can see (so no
\* restart is coming), the child was not given the target-info of an older
\* publication.  It rests on the epoch being read before the target-info on
\* both start paths, and on the projection never going back.
NeverStale ==
    \A s \in Sources :
        LET child == initiator[s] IN
        child.state = "running" /\ lastEpoch[s] \in Epochs /\ lastEpoch[s] = mount[s].epoch
            => child.info \in {issued[lastEpoch[s]], Empty}

\* A source that was never selected starts nothing, and after it loses the
\* selection at most one more start happens, however the epoch moves meanwhile
\* (proof scenarios 0, 4 and 6 of tests/harness/run-demo.sh).
OneLateStart ==
    \A s \in Sources : OwnId[s] # Empty /\ pc[s] = "launch" => entitled[s]

\* The script keeps the promise of SourceGate: the link of a source is its
\* child, open until the child is gone.
Link == [s \in Sources |-> IF Transmitting(s) THEN {initiator[s].info} ELSE {}]

Gate == INSTANCE SourceGate WITH link <- Link

\* Whatever the interleaving, an initiator appears only where the abstract
\* source may open its link, and with a target-info it may use (lines 25-33,
\* 78-89, 96-101, 121-150).
ImplementsGate == Gate!Spec

(* Liveness.                                                               *)

\* De-selecting a source for good, or clearing either of the other keys for
\* good, silences it for good, even through faults (lines 55-60, 104-105).
QuiesceStops ==
    \A s \in Sources :
        \/ <>[]~Selected(s)
        \/ <>[]~HasContent(mount[s].info)
        \/ <>[]~HasContent(mount[s].epoch)
        => <>[]~Transmitting(s)

\* Once the coordinator settles on this source with both keys present and the
\* faults end, the source ends up running against the publication it sees:
\* no interleaving of projections and reads leaves it parked, or on an older
\* epoch, for ever.
SettledServes ==
    \A s \in Sources :
        /\ <>[](Authorised(s) /\ flow[s])
        /\ <>[][mount'[s] = mount[s] /\ ~Fault(s)]_vars
        => <>[](/\ initiator[s] = [state |-> "running", info |-> mount[s].info]
                /\ lastEpoch[s] = mount[s].epoch)

-----------------------------------------------------------------------------
(* A statement of the comments that the script does not keep.              *)

\* "A missing/empty coordinator key is NOT selected: fail-closed default,
\* never transmit without an explicit selection naming this source" (lines
\* 48-50), for a source deployed without a sourceId.
UnnamedNeverTransmits ==
    \A s \in Sources : OwnId[s] = Empty => ~Transmitting(s)
=============================================================================
