------------------------------ MODULE Handshake ------------------------------
(***************************************************************************)
(* The whole hand-over: one view pod (ViewHandshake) announcing its target *)
(* in the mxl-coordinator ConfigMap, an operator setting active-source     *)
(* there, the kubelet of each node projecting the ConfigMap into a source  *)
(* pod, and the source supervisors (SourceSupervisor) obeying it.  Nothing *)
(* else connects the two halves.                                           *)
(*                                                                         *)
(* SourceSupervisor assumes a coordinator (its Issue and Project); here    *)
(* the assumption is replaced by the view pod and the kubelet, and shown   *)
(* to be kept: Spec of SourceSupervisor is a property of HandshakeSpec.    *)
(***************************************************************************)
EXTENDS SourceSupervisor

CONSTANTS
    SameSecond,  \* see ViewHandshake
    NoValue,     \* the files a ConfigMap key without a value may become
    Faults       \* the kinds of fault this instance allows

VARIABLES
    active,     \* active-source in the ConfigMap
    \* ViewHandshake; what it announced is what was issued to the sources
    starts, podBase, stamp, files, target, wrapper, publisher, coordinator, cleared

V == INSTANCE ViewHandshake WITH MaxStarts <- MaxEpoch, announced <- issued

ASSUME HandshakeAssumption ==
    /\ Infos = 1..MaxEpoch /\ SameSecond \in BOOLEAN
    /\ Empty = 0
    /\ NoValue \subseteq Blank /\ NoValue # {}
    /\ Faults \subseteq {"initiator", "source", "target", "publisher", "pod", "clear"}

podVars == <<flow, scriptVars, initiator>>
viewVars == <<starts, podBase, stamp, files, target, wrapper, publisher, coordinator, cleared>>
handshakeVars == <<vars, active, viewVars>>

HandshakeInit == Init /\ V!ViewInit /\ active = Absent

\* A step of the view pod, or the clearing of a key it published.
View ==
    /\ V!ViewNext
    /\ V!TargetDies \/ V!TargetContainerKilled => "target" \in Faults
    /\ V!PublisherExits => "publisher" \in Faults
    /\ V!ViewPodReplaced => "pod" \in Faults
    /\ V!ClearKeys => "clear" \in Faults
    /\ UNCHANGED <<active, published, mount, podVars, entitled>>

\* The operator selects a source, or none.
SelectSource(id) ==
    /\ active' = id
    /\ UNCHANGED <<vars, viewVars>>

\* A key without a value is an empty file or none at all.
Files(value) == IF value = 0 THEN NoValue ELSE {value}

LastIssued == LET all == {e \in Epochs : issued[e] # Empty} IN
              IF all = {} THEN 0 ELSE CHOOSE e \in all : \A other \in all : e >= other

\* The kubelet replaces the files of one mount by the ConfigMap's present state.
SyncMount(s) ==
    /\ \E info \in Files(coordinator.info), epoch \in Files(coordinator.epoch) :
           mount' = [mount EXCEPT ![s] = [active |-> active, info |-> info, epoch |-> epoch]]
    /\ published' = [published EXCEPT ![s] = LastIssued]
    /\ entitled' = [entitled EXCEPT ![s] = @ \/ Selected(s)']
    /\ UNCHANGED <<issued, active, podVars, viewVars>>

Source(s) ==
    /\ Script(s) \/ Pod(s)
    /\ InitiatorCrashes(s) => "initiator" \in Faults
    /\ ContainerKilled(s) \/ PodReplaced(s) => "source" \in Faults
    /\ UNCHANGED <<active, viewVars>>

HandshakeNext ==
    \/ View
    \/ \E id \in Ids \cup NoValue : SelectSource(id)
    \/ \E s \in Sources : SyncMount(s) \/ Source(s)

HandshakeSpec == HandshakeInit /\ [][HandshakeNext]_handshakeVars

\* Fairness of the two halves, and of a kubelet that goes on syncing while a
\* mount differs from the ConfigMap.
InSync(s) ==
    /\ mount[s].active = active
    /\ mount[s].info \in Files(coordinator.info)
    /\ mount[s].epoch \in Files(coordinator.epoch)

HandshakeFairness ==
    /\ Fairness
    /\ WF_handshakeVars(V!Wrapper /\ View)
    /\ WF_handshakeVars(V!Target /\ View)
    /\ WF_handshakeVars(V!Publisher /\ View)
    /\ \A s \in Sources : WF_handshakeVars(~InSync(s) /\ SyncMount(s))

HandshakeFairSpec == HandshakeSpec /\ HandshakeFairness

-----------------------------------------------------------------------------

\* The view pod and the kubelet are a coordinator as SourceSupervisor assumes
\* it: each epoch announced with one target-info, in order, and projected
\* whole and never backwards.
KeepsSourceSpec == Spec

\* A source that serves the newest stamp of a view pod whose target container
\* never restarted feeds the target that runs there: neither the two-step
\* announcement, nor the projection, nor the two-step read on the source side
\* lets it pair that epoch with another target's memory.
ServesRunningTarget ==
    \A s \in Sources :
        /\ initiator[s].state = "running"
        /\ lastEpoch[s] = mount[s].epoch /\ lastEpoch[s] = stamp
        /\ starts = podBase + 1
        => initiator[s].info \in {starts, Empty}

\* End to end: once the operator has settled on a source that has its flow,
\* the target stays up and nothing fails or is cleared any more, the source
\* serves the announcement of the newest epoch for good, unless a key was
\* cleared after that announcement.
EndsConnected ==
    \A s \in Sources :
        /\ <>[](active = OwnId[s] /\ active \in Ids /\ flow[s] /\ target = "ready")
        /\ <>[][~Fault(s) /\ ~V!ViewFault /\ ~V!ClearKeys]_handshakeVars
        => <>[](\/ cleared
                \/ /\ initiator[s] = [state |-> "running", info |-> coordinator.info]
                   /\ lastEpoch[s] = stamp)
=============================================================================
