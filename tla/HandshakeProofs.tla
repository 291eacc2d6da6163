--------------------------- MODULE HandshakeProofs --------------------------
(***************************************************************************)
(* Proofs about Handshake: the composition implements both of its parts,   *)
(* so that what is proved of a source alone, against any coordinator it    *)
(* assumes, holds of it behind the view pod and the kubelet.               *)
(***************************************************************************)
EXTENDS Handshake, SourceSupervisorProofs

(* The theorems about the view pod, for the view pod of the composition.   *)
VP == INSTANCE ViewHandshakeProofs WITH MaxStarts <- MaxEpoch, announced <- issued

LEMMA Bounds == /\ MaxEpoch \in Nat /\ SameSecond \in BOOLEAN
                /\ Empty = 0 /\ Infos = 1 .. MaxEpoch /\ Epochs = 1 .. MaxEpoch
                /\ Empty \notin Epochs /\ NoValue \subseteq Blank
BY HandshakeAssumption, ConstantsAssumption DEF Epochs, Blank

-----------------------------------------------------------------------------
(* The view pod. *)

LEMMA SameView ==
    /\ V!ViewInit <=> VP!ViewInit
    /\ [V!ViewNext]_(V!viewVars) => [VP!ViewNext]_(VP!viewVars)
<1> USE DEF V!Patch, V!InFiles, V!PublisherAt, V!WrapperGone, V!Nothing, V!NoFiles,
            VP!Patch, VP!InFiles, VP!PublisherAt, VP!WrapperGone, VP!Nothing, VP!NoFiles
<1>1. V!ViewInit <=> VP!ViewInit BY DEF V!ViewInit, VP!ViewInit
<1>2. V!Wrapper => VP!Wrapper
  BY DEF V!Wrapper, V!TargetContainerStarts, V!StampEpoch, V!WatchLog, V!WriteInfo,
         V!WaitForTarget, VP!Wrapper, VP!TargetContainerStarts, VP!StampEpoch,
         VP!WatchLog, VP!WriteInfo, VP!WaitForTarget
<1>3. V!Target => VP!Target
  BY DEF V!Target, V!TeeOpensLog, V!TargetPrintsInfo, VP!Target, VP!TeeOpensLog,
         VP!TargetPrintsInfo
<1>4. V!Publisher => VP!Publisher
  BY DEF V!Publisher, V!TestFiles, V!SignFiles, V!ReadFiles, V!PatchCoordinator,
         V!PublisherRestarts, V!fileVars, VP!Publisher, VP!TestFiles, VP!SignFiles,
         VP!ReadFiles, VP!PatchCoordinator, VP!PublisherRestarts, VP!fileVars
<1>5. V!ViewFault => VP!ViewFault
  BY DEF V!ViewFault, V!TargetDies, V!TargetContainerKilled, V!PublisherExits,
         V!ViewPodReplaced, V!fileVars, VP!ViewFault, VP!TargetDies,
         VP!TargetContainerKilled, VP!PublisherExits, VP!ViewPodReplaced, VP!fileVars
<1>6. V!ClearKeys => VP!ClearKeys
  BY DEF V!ClearKeys, V!fileVars, VP!ClearKeys, VP!fileVars
<1>7. UNCHANGED V!viewVars => UNCHANGED VP!viewVars
  BY DEF V!viewVars, V!fileVars, VP!viewVars, VP!fileVars
<1> QED
  BY <1>1, <1>2, <1>3, <1>4, <1>5, <1>6, <1>7 DEF V!ViewNext, VP!ViewNext

(* Seen from the view pod, the operator's selections, the kubelet and the  *)
(* sources change nothing.                                                 *)
LEMMA HandshakeStepOfView ==
    [HandshakeNext]_handshakeVars => [V!ViewNext]_(V!viewVars)
<1> SUFFICES ASSUME [HandshakeNext]_handshakeVars PROVE [V!ViewNext]_(V!viewVars)
  OBVIOUS
<1>1. CASE View BY <1>1 DEF View
<1>2. ASSUME NEW id, SelectSource(id) PROVE UNCHANGED V!viewVars
  BY <1>2 DEF SelectSource, vars, viewVars, V!viewVars, V!fileVars
<1>3. ASSUME NEW s \in Sources, SyncMount(s) PROVE UNCHANGED V!viewVars
  BY <1>3 DEF SyncMount, viewVars, V!viewVars, V!fileVars
<1>4. ASSUME NEW s \in Sources, Source(s) PROVE UNCHANGED V!viewVars
  <2>1. issued' = issued
    <3>1. CASE Script(s)
      BY <3>1 DEF Script, WaitForFlow, TestActiveSource, CompareActiveSource, TestTargetInfo,
         TestEpoch, ReadEntryEpoch, TermInitiator, ReapInitiator, ReadTargetInfo,
         LaunchInitiator, TestEpochFile, CompareEpoch, TestAlive, coordVars
    <3>2. CASE Pod(s)
      BY <3>2 DEF Pod, InitiatorObeysTerm, InitiatorRejectsEmptyInfo, ContainerRestarts,
         FlowAppears, Fault, InitiatorCrashes, ContainerKilled, PodReplaced, coordVars
    <3> QED BY <1>4, <3>1, <3>2 DEF Source
  <2> QED BY <1>4, <2>1 DEF Source, viewVars, V!viewVars, V!fileVars
<1>5. CASE UNCHANGED handshakeVars
  BY <1>5 DEF handshakeVars, vars, viewVars, V!viewVars, V!fileVars
<1> QED BY <1>1, <1>2, <1>3, <1>4, <1>5 DEF HandshakeNext

(* The view pod of the composition is the one of ViewHandshake.            *)
THEOREM ImplementsView == HandshakeSpec => V!ViewSpec
<1>1. HandshakeInit => V!ViewInit BY DEF HandshakeInit
<1> QED BY <1>1, HandshakeStepOfView, PTL DEF HandshakeSpec, V!ViewSpec

LEMMA ViewOfHandshake == HandshakeSpec => []VP!ViewInv
<1>1. MaxEpoch \in Nat /\ SameSecond \in BOOLEAN BY Bounds
<1>2. HandshakeInit => VP!ViewInit BY SameView DEF HandshakeInit
<1>3. [HandshakeNext]_handshakeVars => [VP!ViewNext]_(VP!viewVars)
  BY HandshakeStepOfView, SameView
<1>4. HandshakeSpec => VP!ViewSpec
  BY <1>2, <1>3, PTL DEF HandshakeSpec, VP!ViewSpec
<1> QED BY <1>1, <1>4, VP!ViewInvHolds, PTL
-----------------------------------------------------------------------------
(* The coordinator the sources see.  The ConfigMap never shows more than   *)
(* the newest announcement, and what reached a source was announced.       *)
Newest(e) ==
    /\ issued[e] # Empty
    /\ \A later \in Epochs : later > e => issued[later] = Empty

ShowsNewest ==
    \/ /\ coordinator.info = 0 /\ coordinator.epoch = 0
       /\ \A e \in Epochs : issued[e] = Empty
    \/ \E e \in Epochs : /\ Newest(e)
                         /\ coordinator.info \in {0, issued[e]}
                         /\ coordinator.epoch \in {0, e}

Received ==
    /\ published \in [Sources -> 0 .. MaxEpoch]
    /\ \A s \in Sources : published[s] # 0 => issued[published[s]] # Empty

CoordInv == ShowsNewest /\ Received /\ active \in Ids \cup Blank

LEMMA ViewTypes ==
    ASSUME VP!ViewInv
    PROVE  /\ issued \in [Epochs -> 0 .. MaxEpoch]
           /\ coordinator \in [info : 0 .. MaxEpoch, epoch : 0 .. MaxEpoch]
BY Bounds DEF VP!ViewInv, VP!ViewType, VP!Pair, VP!TargetInfos, VP!Stamps

(* The epoch the kubelet delivers is the one the ConfigMap shows.          *)
LEMMA LastIssuedIsNewest ==
    ASSUME ShowsNewest
    PROVE  \/ LastIssued = 0 /\ coordinator.info = 0 /\ coordinator.epoch = 0
              /\ \A e \in Epochs : issued[e] = Empty
           \/ /\ LastIssued \in Epochs /\ Newest(LastIssued)
              /\ coordinator.info \in {0, issued[LastIssued]}
              /\ coordinator.epoch \in {0, LastIssued}
<1> DEFINE all == {e \in Epochs : issued[e] # Empty}
<1>1. CASE \A e \in Epochs : issued[e] = Empty
  <2>1. all = {} BY <1>1
  <2>2. LastIssued = 0 BY <2>1 DEF LastIssued
  <2> QED BY <1>1, <2>2 DEF ShowsNewest, Newest
<1>2. CASE ~ \A e \in Epochs : issued[e] = Empty
  <2>1. PICK e \in Epochs : /\ Newest(e)
                            /\ coordinator.info \in {0, issued[e]}
                            /\ coordinator.epoch \in {0, e}
    BY <1>2 DEF ShowsNewest
  <2>2. e \in all /\ \A other \in all : e >= other
    BY <2>1, Bounds DEF Newest
  <2>3. \A f \in all : (\A other \in all : f >= other) => f = e
    BY <2>2, Bounds
  <2>4. LastIssued = CHOOSE f \in all : \A other \in all : f >= other
    BY <2>2 DEF LastIssued
  <2> HIDE DEF all
  <2>5. LastIssued = e
    BY <2>2, <2>3, <2>4
  <2> QED BY <2>1, <2>5
<1> QED BY <1>1, <1>2

(* A step of the view pod, as a source may assume it.                      *)
LEMMA ViewStepIssues ==
    ASSUME VP!ViewInv, CoordInv, View
    PROVE  [Next]_vars /\ CoordInv'
<1>0. /\ issued \in [Epochs -> 0 .. MaxEpoch]
      /\ coordinator \in [info : 0 .. MaxEpoch, epoch : 0 .. MaxEpoch]
  BY ViewTypes
<1>1. UNCHANGED <<active, published, mount, flow, pc, site, currentEpoch, lastEpoch,
                  targetInfo, initiator, entitled>>
  BY DEF View, podVars, scriptVars
<1>2. VP!KeepsOrClears \/ \E e, i \in 1 .. MaxEpoch : VP!Announces(e, i)
  <2>1. [VP!ViewNext]_(VP!viewVars) BY SameView DEF View
  <2> QED BY <2>1, Bounds, VP!ViewStepAnnounces
<1>3. CASE VP!KeepsOrClears
  <2>1. issued' = issued BY <1>3 DEF VP!KeepsOrClears
  <2>2. coordinator'.info \in {0, coordinator.info} /\ coordinator'.epoch \in {0, coordinator.epoch}
    BY <1>0, <1>3 DEF VP!KeepsOrClears
  <2>3. ShowsNewest' BY <2>1, <2>2, Bounds DEF CoordInv, ShowsNewest, Newest
  <2> QED BY <1>1, <2>1, <2>3 DEF CoordInv, Received, vars
<1>4. ASSUME NEW e \in 1 .. MaxEpoch, NEW i \in 1 .. MaxEpoch, VP!Announces(e, i)
      PROVE  [Next]_vars /\ CoordInv'
  <2>1. /\ issued' = [issued EXCEPT ![e] = i]
        /\ issued[e] \in {0, i}
        /\ \A later \in Epochs : later > e => issued[later] = Empty
        /\ coordinator'.info = i /\ coordinator'.epoch \in {0, e}
        /\ e \in Epochs /\ i \in Infos /\ i # Empty
    BY <1>4, Bounds DEF VP!Announces
  <2>2. \A f \in Epochs : issued'[f] = IF f = e THEN i ELSE issued[f]
    BY <1>0, <2>1
  <2>3. ShowsNewest'
    <3>1. Newest(e)' BY <2>1, <2>2, Bounds DEF Newest
    <3> QED BY <2>1, <2>2, <3>1 DEF ShowsNewest
  <2>4. Received'
    <3>1. \A s \in Sources : published[s] # 0 => published[s] \in Epochs
      BY Bounds DEF CoordInv, Received
    <3> QED BY <1>1, <2>1, <2>2, <3>1 DEF CoordInv, Received
  <2>5. [Next]_vars
    <3>1. CASE issued[e] = i
      BY <1>0, <1>1, <2>1, <3>1 DEF vars
    <3>2. CASE issued[e] = 0
      <4>1. \A later \in e .. MaxEpoch : issued[later] = Empty
        BY <2>1, <3>2, Bounds
      <4>2. Issue(e, i) BY <1>1, <2>1, <4>1 DEF Issue, scriptVars
      <4> QED BY <2>1, <4>2 DEF Next, Coordinator
    <3> QED BY <2>1, <3>1, <3>2
  <2> QED BY <1>1, <2>3, <2>4, <2>5 DEF CoordInv
<1> QED BY <1>2, <1>3, <1>4

(* The kubelet delivers the newest announcement, or what a clearing left of*)
(* it, and never goes back.                                                *)
LEMMA SyncProjects ==
    ASSUME CoordInv, NEW s \in Sources, SyncMount(s)
    PROVE  Next /\ CoordInv'
<1>1. PICK info \in Files(coordinator.info), epoch \in Files(coordinator.epoch) :
         mount' = [mount EXCEPT ![s] = [active |-> active, info |-> info, epoch |-> epoch]]
  BY DEF SyncMount
<1>2. /\ published' = [published EXCEPT ![s] = LastIssued]
      /\ entitled' = [entitled EXCEPT ![s] = @ \/ Selected(s)']
      /\ UNCHANGED <<issued, active, flow, pc, site, currentEpoch, lastEpoch, targetInfo,
                     initiator, coordinator>>
  BY DEF SyncMount, podVars, scriptVars, viewVars
<1> DEFINE snapshot == [active |-> active, info |-> info, epoch |-> epoch]
<1>3. /\ LastIssued \in 0 .. MaxEpoch
      /\ LastIssued > 0 => issued[LastIssued] # Empty
      /\ LastIssued >= published[s]
      /\ snapshot \in SnapshotsOf(LastIssued)
  <2>0. active \in Ids \cup Blank BY DEF CoordInv
  <2>1. CASE /\ LastIssued = 0 /\ coordinator.info = 0 /\ coordinator.epoch = 0
             /\ \A e \in Epochs : issued[e] = Empty
    <3>1. info \in Blank /\ epoch \in Blank BY <2>1, Bounds DEF Files
    <3>2. published[s] = 0 BY <2>1, Bounds DEF CoordInv, Received
    <3> QED BY <2>0, <2>1, <3>1, <3>2, Bounds DEF SnapshotsOf
  <2>2. CASE /\ LastIssued \in Epochs /\ Newest(LastIssued)
             /\ coordinator.info \in {0, issued[LastIssued]}
             /\ coordinator.epoch \in {0, LastIssued}
    <3>1. LastIssued # 0 BY <2>2, Bounds
    <3>2. info \in Blank \cup {issued[LastIssued]} /\ epoch \in Blank \cup {LastIssued}
      BY <2>2, Bounds DEF Files
    <3>3. LastIssued >= published[s]
      BY <2>2, Bounds DEF Newest, CoordInv, Received
    <3> QED BY <2>0, <2>2, <3>1, <3>2, <3>3, Bounds DEF SnapshotsOf, Newest
  <2> QED BY <2>1, <2>2, LastIssuedIsNewest DEF CoordInv
<1>4. Project(s, LastIssued, snapshot)
  BY <1>1, <1>2, <1>3 DEF Project, scriptVars
<1>5. Next BY <1>3, <1>4 DEF Next, Coordinator
<1>6. ShowsNewest' BY <1>2 DEF CoordInv, ShowsNewest, Newest
<1>7. Received'
  BY <1>2, <1>3 DEF CoordInv, Received
<1> QED BY <1>2, <1>5, <1>6, <1>7 DEF CoordInv

LEMMA SourceStepKeepsCoordinator ==
    ASSUME CoordInv, NEW s \in Sources, Source(s)
    PROVE  Next /\ CoordInv'
<1>1. UNCHANGED <<issued, published>>
  <2>1. CASE Script(s)
    BY <2>1 DEF Script, WaitForFlow, TestActiveSource, CompareActiveSource, TestTargetInfo,
       TestEpoch, ReadEntryEpoch, TermInitiator, ReapInitiator, ReadTargetInfo,
       LaunchInitiator, TestEpochFile, CompareEpoch, TestAlive, coordVars
  <2>2. CASE Pod(s)
    BY <2>2 DEF Pod, InitiatorObeysTerm, InitiatorRejectsEmptyInfo, ContainerRestarts,
       FlowAppears, Fault, InitiatorCrashes, ContainerKilled, PodReplaced, coordVars
  <2> QED BY <2>1, <2>2 DEF Source
<1>2. UNCHANGED <<active, coordinator>> BY DEF Source, viewVars
<1>3. Next BY DEF Source, Next
<1> QED BY <1>1, <1>2, <1>3 DEF CoordInv, ShowsNewest, Newest, Received

LEMMA HandshakeStep ==
    ASSUME VP!ViewInv, CoordInv, [HandshakeNext]_handshakeVars
    PROVE  [Next]_vars /\ CoordInv'
<1>1. CASE View BY <1>1, ViewStepIssues
<1>2. ASSUME NEW id \in Ids \cup NoValue, SelectSource(id) PROVE [Next]_vars /\ CoordInv'
  <2>1. active' \in Ids \cup Blank BY <1>2, Bounds DEF SelectSource
  <2>2. UNCHANGED <<vars, coordinator>> BY <1>2 DEF SelectSource, viewVars
  <2> QED BY <2>1, <2>2 DEF CoordInv, ShowsNewest, Newest, Received, vars
<1>3. ASSUME NEW s \in Sources, SyncMount(s) PROVE [Next]_vars /\ CoordInv'
  BY <1>3, SyncProjects
<1>4. ASSUME NEW s \in Sources, Source(s) PROVE [Next]_vars /\ CoordInv'
  BY <1>4, SourceStepKeepsCoordinator
<1>5. CASE UNCHANGED handshakeVars
  BY <1>5 DEF handshakeVars, viewVars, CoordInv, ShowsNewest, Newest, Received, vars
<1> QED BY <1>1, <1>2, <1>3, <1>4, <1>5 DEF HandshakeNext

(* The view pod and the kubelet are a coordinator as the sources assume it:*)
(* every epoch with one target-info, in order, delivered whole, forwards.  *)
THEOREM KeepsSourceSpecHolds == HandshakeSpec => KeepsSourceSpec
<1>1. HandshakeInit => CoordInv
  BY Bounds DEF HandshakeInit, Init, V!ViewInit, V!Nothing, CoordInv, ShowsNewest, Received, Blank
<1>2. HandshakeInit => Init BY DEF HandshakeInit
<1>3. VP!ViewInv /\ CoordInv /\ [HandshakeNext]_handshakeVars => [Next]_vars /\ CoordInv'
  BY HandshakeStep
<1> QED BY <1>1, <1>2, <1>3, ViewOfHandshake, PTL DEF HandshakeSpec, KeepsSourceSpec, Spec

(* So a source behind the real view pod keeps every promise it makes.      *)
COROLLARY SourcesKeepTheirPromises ==
    HandshakeSpec => []SilentUnlessServing /\ []NeverStale /\ []OneLateStart /\ ImplementsGate
BY KeepsSourceSpecHolds, SilentUnlessServingHolds, NeverStaleHolds, OneLateStartHolds,
   ImplementsGateHolds, PTL DEF KeepsSourceSpec

-----------------------------------------------------------------------------
(* End to end. *)

(* A source that serves the newest stamp of a pod whose target never       *)
(* restarted feeds the target that runs there.                             *)
THEOREM ServesRunningTargetHolds == HandshakeSpec => []ServesRunningTarget
<1>1. VP!ViewInv /\ NeverStale => ServesRunningTarget
  <2> SUFFICES ASSUME VP!ViewInv, NeverStale, NEW s \in Sources,
                      initiator[s].state = "running",
                      lastEpoch[s] = mount[s].epoch, lastEpoch[s] = stamp,
                      starts = podBase + 1
               PROVE  initiator[s].info \in {starts, Empty}
    BY DEF ServesRunningTarget
  <2>1. /\ starts \in 0 .. MaxEpoch /\ podBase \in 0 .. starts /\ stamp \in 0 .. starts
    BY DEF VP!ViewInv, VP!ViewType
  <2>2. starts > podBase BY <2>1, Bounds
  <2>3. stamp >= 1 /\ issued[stamp] \in {0, files.info} BY <2>2 DEF VP!ViewInv, VP!Ordered
  <2>4. stamp \in Epochs BY <2>1, <2>3, Bounds
  <2>5. initiator[s].info \in {issued[stamp], Empty} BY <2>4 DEF NeverStale
  <2>6. files.info \in {0, starts} BY DEF VP!ViewInv, VP!FreshInv, VP!Own
  <2> QED BY <2>3, <2>5, <2>6, Bounds
<1> QED BY <1>1, ViewOfHandshake, SourcesKeepTheirPromises, PTL
=============================================================================
