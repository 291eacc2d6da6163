------------------------ MODULE ViewHandshakeProofs -------------------------
(***************************************************************************)
(* Proofs about ViewHandshake, for every number of container starts.       *)
(***************************************************************************)
EXTENDS ViewHandshake, TLAPS

Files == [info : TargetInfos, epoch : Stamps, log : TargetInfos]
Wrappers == [pc : {"stamp", "watch", "write", "wait", "exited"}, line : TargetInfos]
Publishers == [pc : {"test", "sign", "read", "patch", "exited"},
               lastSig : Pair, curSig : Pair, patch : Pair]

LEMMA BoundType == /\ MaxStarts \in Nat
                   /\ 0 \in TargetInfos /\ 0 \in Stamps /\ Nothing \in Pair
BY ViewAssumption DEF TargetInfos, Stamps, Nothing, Pair

(* One lemma for each shape of update of the records.                      *)
LEMMA FilesUpdate ==
    ASSUME NEW f \in Files, NEW i \in TargetInfos, NEW e \in Stamps
    PROVE  /\ [f EXCEPT !.info = i] \in Files
           /\ [f EXCEPT !.epoch = e] \in Files
           /\ [f EXCEPT !.log = i] \in Files
BY DEF Files

LEMMA WrapperUpdate ==
    ASSUME NEW w \in Wrappers, NEW i \in TargetInfos
    PROVE  /\ [w EXCEPT !.pc = "watch"] \in Wrappers
           /\ [w EXCEPT !.pc = "wait"] \in Wrappers
           /\ [pc |-> "write", line |-> i] \in Wrappers
           /\ [pc |-> "stamp", line |-> 0] \in Wrappers
           /\ WrapperGone \in Wrappers
BY BoundType DEF Wrappers, WrapperGone

LEMMA PublisherUpdate ==
    ASSUME NEW p \in Publishers, NEW x \in Pair,
           NEW pc \in {"test", "sign", "read", "patch", "exited"}
    PROVE  /\ [p EXCEPT !.pc = pc] \in Publishers
           /\ [p EXCEPT !.curSig = x, !.pc = pc] \in Publishers
           /\ [p EXCEPT !.patch = x, !.pc = pc] \in Publishers
           /\ [p EXCEPT !.pc = pc, !.lastSig = x] \in Publishers
           /\ PublisherAt(pc) \in Publishers
<1>1. /\ [p EXCEPT !.pc = pc] \in Publishers
      /\ PublisherAt(pc) \in Publishers
  BY BoundType DEF Publishers, PublisherAt
<1>2. [p EXCEPT !.curSig = x] \in Publishers /\ [p EXCEPT !.patch = x] \in Publishers
  BY DEF Publishers
<1>3. [p EXCEPT !.curSig = x, !.pc = pc] \in Publishers
  BY <1>2 DEF Publishers
<1>4. [p EXCEPT !.patch = x, !.pc = pc] \in Publishers
  BY <1>2 DEF Publishers
<1>5. [p EXCEPT !.pc = pc, !.lastSig = x] \in Publishers
  BY <1>1 DEF Publishers
<1> QED BY <1>1, <1>3, <1>4, <1>5

-----------------------------------------------------------------------------
(* The types. *)

ViewType ==
    /\ starts \in 0 .. MaxStarts
    /\ podBase \in 0 .. starts
    /\ stamp \in 0 .. starts
    /\ files \in Files
    /\ target \in {"none", "spawned", "logging", "ready"}
    /\ wrapper \in Wrappers
    /\ publisher \in Publishers
    /\ coordinator \in Pair
    /\ cleared \in BOOLEAN
    /\ announced \in [1 .. MaxStarts -> TargetInfos]

LEMMA ViewTypeIsTypeOK == ViewType <=> ViewTypeOK
BY DEF ViewType, ViewTypeOK, Files, Wrappers, Publishers

LEMMA TypedParts ==
    ASSUME ViewType
    PROVE  /\ starts \in TargetInfos /\ stamp \in Stamps /\ starts \in Nat /\ podBase \in Nat
           /\ stamp \in Nat
           /\ files.info \in TargetInfos /\ files.log \in TargetInfos /\ files.epoch \in Stamps
           /\ InFiles \in Pair
           /\ wrapper.line \in TargetInfos
           /\ publisher.patch \in Pair /\ publisher.curSig \in Pair
           /\ publisher.lastSig \in Pair
BY ViewAssumption DEF ViewType, Files, Wrappers, Publishers, InFiles, Pair, TargetInfos, Stamps

LEMMA PatchType ==
    ASSUME ViewType, Patch
    PROVE  coordinator' \in Pair /\ cleared' \in BOOLEAN
           /\ announced' \in [1 .. MaxStarts -> TargetInfos]
<1>1. publisher.patch \in Pair /\ publisher.patch.info \in TargetInfos
  BY TypedParts DEF Pair
<1> QED BY <1>1 DEF Patch, ViewType

LEMMA ViewTypeStep == ViewType /\ [ViewNext]_viewVars => ViewType'
<1> SUFFICES ASSUME ViewType, [ViewNext]_viewVars PROVE ViewType'
  OBVIOUS
<1>0. /\ MaxStarts \in Nat /\ 0 \in TargetInfos /\ 0 \in Stamps
      /\ starts \in 0 .. MaxStarts /\ podBase \in 0 .. starts /\ stamp \in 0 .. starts
      /\ files \in Files /\ wrapper \in Wrappers /\ publisher \in Publishers
  BY BoundType DEF ViewType
<1>1. CASE TargetContainerStarts
  <2>1. files' \in Files /\ wrapper' \in Wrappers
    BY <1>0, <1>1, FilesUpdate, WrapperUpdate DEF TargetContainerStarts
  <2>2. starts' = starts + 1 /\ starts' \in 0 .. MaxStarts
    BY <1>0, <1>1 DEF TargetContainerStarts
  <2>3. stamp' \in 0 .. starts' /\ podBase' \in 0 .. starts'
    BY <1>0, <1>1, <2>2 DEF TargetContainerStarts
  <2> QED BY <1>1, <2>1, <2>2, <2>3 DEF TargetContainerStarts, ViewType
<1>2. CASE StampEpoch
  <2>1. files' \in Files /\ wrapper' \in Wrappers
    BY <1>0, <1>2, TypedParts, FilesUpdate, WrapperUpdate DEF StampEpoch
  <2> QED BY <1>2, <2>1 DEF StampEpoch, ViewType
<1>3. CASE TeeOpensLog
  <2>1. files' \in Files BY <1>0, <1>3, FilesUpdate DEF TeeOpensLog
  <2> QED BY <1>3, <2>1 DEF TeeOpensLog, ViewType
<1>4. CASE TargetPrintsInfo
  <2>1. files' \in Files BY <1>0, <1>4, TypedParts, FilesUpdate DEF TargetPrintsInfo
  <2> QED BY <1>4, <2>1 DEF TargetPrintsInfo, ViewType
<1>5. CASE WatchLog
  <2>1. wrapper' \in Wrappers BY <1>0, <1>5, TypedParts, WrapperUpdate DEF WatchLog
  <2> QED BY <1>5, <2>1 DEF WatchLog, ViewType
<1>6. CASE WriteInfo
  <2>1. files' \in Files /\ wrapper' \in Wrappers
    BY <1>0, <1>6, TypedParts, FilesUpdate, WrapperUpdate DEF WriteInfo
  <2> QED BY <1>6, <2>1 DEF WriteInfo, ViewType
<1>7. CASE WaitForTarget \/ TargetContainerKilled
  <2>1. wrapper' \in Wrappers
    BY <1>0, <1>7, WrapperUpdate DEF WaitForTarget, TargetContainerKilled
  <2> QED BY <1>7, <2>1 DEF WaitForTarget, TargetContainerKilled, ViewType
<1>8. CASE TargetDies BY <1>8 DEF TargetDies, ViewType
<1>9. CASE TestFiles
  <2>1. publisher' \in Publishers BY <1>0, <1>9, BoundType, PublisherUpdate DEF TestFiles
  <2> QED BY <1>9, <2>1 DEF TestFiles, fileVars, ViewType
<1>10. CASE SignFiles
  <2> DEFINE next == IF InFiles # publisher.lastSig THEN "read" ELSE "test"
  <2>1. publisher' = [publisher EXCEPT !.curSig = InFiles, !.pc = next]
    BY <1>10 DEF SignFiles
  <2>2. next \in {"test", "sign", "read", "patch", "exited"} OBVIOUS
  <2> HIDE DEF next
  <2>3. publisher' \in Publishers
    BY <1>0, <2>1, <2>2, TypedParts, PublisherUpdate
  <2> QED BY <1>10, <2>3 DEF SignFiles, fileVars, ViewType
<1>11. CASE ReadFiles
  <2>1. publisher' \in Publishers BY <1>0, <1>11, TypedParts, PublisherUpdate DEF ReadFiles
  <2> QED BY <1>11, <2>1 DEF ReadFiles, fileVars, ViewType
<1>12. CASE PatchCoordinator
  <2>1. publisher' \in Publishers
    BY <1>0, <1>12, TypedParts, PublisherUpdate DEF PatchCoordinator
  <2>2. Patch /\ UNCHANGED fileVars BY <1>12 DEF PatchCoordinator
  <2> QED BY <2>1, <2>2, PatchType DEF fileVars, ViewType
<1>13. CASE PublisherExits
  <2>1. publisher' \in Publishers
    BY <1>0, <1>13, BoundType, PublisherUpdate DEF PublisherExits
  <2>2. UNCHANGED fileVars /\ (Patch \/ UNCHANGED <<coordinator, cleared, announced>>)
    BY <1>13 DEF PublisherExits
  <2> QED BY <2>1, <2>2, PatchType DEF fileVars, ViewType
<1>14. CASE PublisherRestarts
  <2>1. publisher' \in Publishers
    BY <1>0, <1>14, BoundType, PublisherUpdate DEF PublisherRestarts
  <2> QED BY <1>14, <2>1 DEF PublisherRestarts, fileVars, ViewType
<1>15. CASE ViewPodReplaced
  <2>1. publisher' \in Publishers /\ wrapper' \in Wrappers
    BY <1>0, <1>15, BoundType, PublisherUpdate, WrapperUpdate DEF ViewPodReplaced
  <2>2. NoFiles \in Files BY BoundType DEF NoFiles, Files
  <2>3. podBase' \in 0 .. starts BY <1>0, <1>15 DEF ViewPodReplaced
  <2> QED BY <1>15, <2>1, <2>2, <2>3 DEF ViewPodReplaced, ViewType
<1>16. CASE ClearKeys
  <2>1. PICK key \in {"info", "epoch"} : coordinator' = [coordinator EXCEPT ![key] = 0]
    BY <1>16 DEF ClearKeys
  <2>2. coordinator \in Pair BY DEF ViewType
  <2>3. coordinator' \in Pair
    <3>1. CASE key = "info" BY <1>0, <2>1, <2>2, <3>1 DEF Pair
    <3>2. CASE key = "epoch" BY <1>0, <2>1, <2>2, <3>2 DEF Pair
    <3> QED BY <3>1, <3>2
  <2> QED BY <1>16, <2>3 DEF ClearKeys, fileVars, ViewType
<1>17. CASE UNCHANGED viewVars BY <1>17 DEF viewVars, fileVars, ViewType
<1> QED
  BY <1>1, <1>2, <1>3, <1>4, <1>5, <1>6, <1>7, <1>8, <1>9, <1>10, <1>11, <1>12,
     <1>13, <1>14, <1>15, <1>16, <1>17
  DEF ViewNext, Wrapper, Target, Publisher, ViewFault

LEMMA ViewTypeHolds == ViewSpec => []ViewType
<1>1. ViewInit => ViewType
  <2> SUFFICES ASSUME ViewInit PROVE ViewType
    OBVIOUS
  <2>1. files \in Files BY BoundType DEF ViewInit, NoFiles, Files
  <2>2. wrapper \in Wrappers BY BoundType DEF ViewInit, WrapperGone, Wrappers
  <2>3. publisher \in Publishers
    BY BoundType DEF ViewInit, PublisherAt, Publishers
  <2>4. starts \in 0 .. MaxStarts /\ podBase \in 0 .. starts /\ stamp \in 0 .. starts
    BY BoundType DEF ViewInit
  <2>5. coordinator \in Pair /\ announced \in [1 .. MaxStarts -> TargetInfos]
    BY BoundType DEF ViewInit
  <2> QED BY <2>1, <2>2, <2>3, <2>4, <2>5 DEF ViewInit, ViewType
<1> QED BY <1>1, ViewTypeStep, PTL DEF ViewSpec

(* The variables keep their types.                                         *)
THEOREM ViewTypeCorrect == ViewSpec => []ViewTypeOK
BY ViewTypeHolds, ViewTypeIsTypeOK, PTL

-----------------------------------------------------------------------------
(* Within a pod the file /shared/target-info gains its content once, and   *)
(* as long as no container of the pod has restarted there is one target    *)
(* whose line it can be.                                                   *)
Own(i) == i \in {0, starts}
FreshInv ==
    /\ starts = podBase => files = NoFiles /\ wrapper.pc = "exited" /\ target = "none"
    /\ starts = podBase + 1 => Own(files.info) /\ Own(files.log) /\ Own(wrapper.line)
    /\ wrapper.pc = "write" => wrapper.line # 0
    /\ publisher.pc \in {"sign", "read", "patch"} => files.info # 0
    /\ publisher.pc = "patch" => /\ publisher.patch.info # 0
                                 /\ starts = podBase + 1 => Own(publisher.patch.info)

LEMMA FreshInvHolds == ViewSpec => []FreshInv
<1>1. ViewInit => FreshInv
  BY DEF ViewInit, FreshInv, WrapperGone, PublisherAt, NoFiles
<1>2. ViewType /\ FreshInv /\ [ViewNext]_viewVars => FreshInv'
  <2> SUFFICES ASSUME ViewType, FreshInv, [ViewNext]_viewVars PROVE FreshInv'
    OBVIOUS
  <2>0. /\ starts \in Nat /\ podBase \in 0 .. starts /\ MaxStarts \in Nat
        /\ files \in Files /\ wrapper \in Wrappers /\ publisher \in Publishers
    BY BoundType, TypedParts DEF ViewType
  <2>1. CASE TargetContainerStarts
    <3>1. /\ starts' = starts + 1 /\ podBase' = podBase /\ starts' # podBase
          /\ files' = [files EXCEPT !.epoch = 0]
          /\ wrapper' = [pc |-> "stamp", line |-> 0]
          /\ UNCHANGED <<target, publisher>>
      BY <2>0, <2>1 DEF TargetContainerStarts
    <3>2. files'.info = files.info /\ files'.log = files.log BY <2>0, <3>1 DEF Files
    <3>3. starts' = podBase + 1 => starts = podBase BY <2>0, <3>1
    <3>4. starts = podBase => files.info = 0 /\ files.log = 0 BY DEF FreshInv, NoFiles
    <3>5. publisher.pc = "patch" /\ starts = podBase => FALSE BY <3>4 DEF FreshInv
    <3> QED BY <3>1, <3>2, <3>3, <3>4, <3>5 DEF FreshInv, Own
  <2>2. CASE StampEpoch
    <3>1. /\ files'.info = files.info /\ files'.log = files.log
          /\ wrapper'.line = wrapper.line /\ wrapper'.pc = "watch" /\ wrapper.pc = "stamp"
          /\ UNCHANGED <<starts, podBase, publisher>>
      BY <2>0, <2>2 DEF StampEpoch, Files, Wrappers
    <3> QED BY <3>1 DEF FreshInv, Own
  <2>3. CASE TeeOpensLog \/ TargetPrintsInfo
    <3>1. /\ files'.info = files.info /\ files'.log \in {0, starts} /\ target # "none"
          /\ UNCHANGED <<starts, podBase, publisher, wrapper>>
      BY <2>0, <2>3 DEF TeeOpensLog, TargetPrintsInfo, Files
    <3> QED BY <3>1 DEF FreshInv, Own
  <2>4. CASE WatchLog
    <3>1. /\ UNCHANGED <<starts, podBase, publisher, files, target>>
          /\ wrapper.pc = "watch"
          /\ \/ wrapper'.line = wrapper.line /\ wrapper'.pc = "wait"
             \/ wrapper'.line = files.log /\ files.log # 0 /\ wrapper'.pc = "write"
      BY <2>0, <2>4 DEF WatchLog, Wrappers
    <3> QED BY <3>1 DEF FreshInv, Own
  <2>5. CASE WriteInfo
    <3>1. /\ files'.info = wrapper.line /\ files'.log = files.log
          /\ wrapper'.line = wrapper.line /\ wrapper'.pc = "wait" /\ wrapper.pc = "write"
          /\ UNCHANGED <<starts, podBase, publisher, target>>
      BY <2>0, <2>5 DEF WriteInfo, Files, Wrappers
    <3> QED BY <3>1 DEF FreshInv, Own
  <2>6. CASE WaitForTarget \/ TargetContainerKilled
    <3>1. /\ wrapper' = WrapperGone /\ target' = "none"
          /\ UNCHANGED <<starts, podBase, publisher, files>>
      BY <2>6 DEF WaitForTarget, TargetContainerKilled
    <3> QED BY <3>1 DEF FreshInv, Own, WrapperGone
  <2>7. CASE TargetDies BY <2>7 DEF TargetDies, FreshInv, Own
  <2>8. CASE TestFiles
    <3>1. /\ publisher'.pc = "sign" /\ files.info # 0 /\ UNCHANGED fileVars
      BY <2>0, <2>8 DEF TestFiles, Publishers
    <3> QED BY <3>1 DEF fileVars, FreshInv, Own
  <2>9. CASE SignFiles
    <3>1. /\ publisher'.pc \in {"read", "test"} /\ publisher.pc = "sign" /\ UNCHANGED fileVars
      BY <2>0, <2>9 DEF SignFiles, Publishers
    <3> QED BY <3>1 DEF fileVars, FreshInv, Own
  <2>10. CASE ReadFiles
    <3>1. /\ publisher'.patch.info = files.info /\ publisher'.pc = "patch"
          /\ publisher.pc = "read" /\ UNCHANGED fileVars
      BY <2>0, <2>10 DEF ReadFiles, Publishers, InFiles
    <3> QED BY <3>1 DEF fileVars, FreshInv, Own
  <2>11. CASE PatchCoordinator \/ PublisherExits \/ PublisherRestarts
    <3>1. ASSUME PatchCoordinator PROVE publisher'.pc \in {"test", "exited"}
      <4>1. publisher' = [publisher EXCEPT !.pc = "test", !.lastSig = publisher.curSig]
        BY <3>1 DEF PatchCoordinator
      <4>2. publisher'.pc = "test" BY <2>0, <4>1 DEF Publishers
      <4> QED BY <4>2
    <3>2. ASSUME PublisherExits \/ PublisherRestarts PROVE publisher'.pc \in {"test", "exited"}
      BY <3>2 DEF PublisherExits, PublisherRestarts, PublisherAt
    <3>3. publisher'.pc \in {"test", "exited"} /\ UNCHANGED fileVars
      BY <2>11, <3>1, <3>2 DEF PatchCoordinator, PublisherExits, PublisherRestarts
    <3> QED BY <3>3 DEF fileVars, FreshInv, Own
  <2>12. CASE ViewPodReplaced
    <3>1. /\ podBase' = starts /\ starts' = starts /\ files' = NoFiles
          /\ target' = "none" /\ wrapper' = WrapperGone /\ publisher'.pc = "test"
          /\ starts' # podBase' + 1
      BY <2>0, <2>12 DEF ViewPodReplaced, PublisherAt
    <3> QED BY <3>1 DEF FreshInv, Own, WrapperGone, NoFiles
  <2>13. CASE UNCHANGED <<fileVars, publisher>> BY <2>13 DEF fileVars, FreshInv, Own
  <2> QED
    BY <2>1, <2>2, <2>3, <2>4, <2>5, <2>6, <2>7, <2>8, <2>9, <2>10, <2>11, <2>12, <2>13
    DEF ViewNext, Wrapper, Target, Publisher, ViewFault, ClearKeys, viewVars
<1> QED BY <1>1, <1>2, ViewTypeHolds, PTL DEF ViewSpec

(* A fresh pod announces its own target's target-info.                     *)
THEOREM FreshAnnouncement == ViewSpec => []FreshInNewPod
<1>1. FreshInv => FreshInNewPod
  BY DEF FreshInv, FreshInNewPod, Own
<1> QED BY <1>1, FreshInvHolds, PTL

-----------------------------------------------------------------------------
(* What the files have held, seen from the publisher's signatures: an      *)
(* epoch that is still to be stamped is newer than every signature, and a  *)
(* file without content has never been signed in this pod.                 *)
Signed ==
    /\ files.epoch <= stamp /\ publisher.lastSig.epoch <= stamp
    /\ publisher.curSig.epoch <= stamp
    /\ wrapper.pc = "stamp" => files.epoch = 0 /\ starts >= 1
    /\ wrapper.pc = "write" => files.info = 0 /\ wrapper.line # 0
    /\ files.info = 0 => publisher.pc \in {"test", "exited"} /\ publisher.lastSig = Nothing
    /\ stamp = starts /\ wrapper.pc = "stamp" =>
          publisher.lastSig.epoch < stamp /\ publisher.curSig.epoch < stamp

(* Files that still are as they were signed are as they were read, and as  *)
(* the last patch left them in the ConfigMap.                              *)
Carried ==
    stamp = starts /\ files.epoch # 0 =>
        /\ publisher.pc = "patch" /\ publisher.curSig = InFiles => publisher.patch = InFiles
        /\ publisher.pc \notin {"patch", "exited"} /\ publisher.lastSig = InFiles
              => cleared \/ coordinator = InFiles

LEMMA SignedCarriedHold == ViewSpec => [](Signed /\ Carried)
<1>1. ViewInit => Signed /\ Carried
  BY DEF ViewInit, Signed, Carried, WrapperGone, PublisherAt, NoFiles, Nothing
<1>2. ViewType /\ Signed /\ Carried /\ [ViewNext]_viewVars => (Signed /\ Carried)'
  <2> SUFFICES ASSUME ViewType, Signed, Carried, [ViewNext]_viewVars
               PROVE  Signed' /\ Carried'
    OBVIOUS
  <2>0. /\ starts \in Nat /\ stamp \in Nat /\ stamp <= starts
        /\ files.epoch \in Nat /\ publisher.lastSig.epoch \in Nat
        /\ publisher.curSig.epoch \in Nat
        /\ files \in Files /\ wrapper \in Wrappers /\ publisher \in Publishers
    <3>1. \A p \in Pair : p.epoch \in Nat BY BoundType DEF Pair, Stamps
    <3>2. \A e \in Stamps : e \in Nat BY BoundType DEF Stamps
    <3>3. stamp <= starts BY TypedParts DEF ViewType
    <3> QED BY <3>1, <3>2, <3>3, TypedParts DEF ViewType
  <2>1. CASE TargetContainerStarts
    <3>1. /\ starts' = starts + 1 /\ stamp' \in {stamp, stamp + 1}
          /\ files' = [files EXCEPT !.epoch = 0]
          /\ wrapper'.pc = "stamp"
          /\ UNCHANGED <<publisher, coordinator, cleared>>
      BY <2>1 DEF TargetContainerStarts
    <3>2. files'.info = files.info /\ files'.epoch = 0 BY <2>0, <3>1 DEF Files
    <3>3. stamp' = starts' => stamp' = stamp + 1 BY <2>0, <3>1
    <3>4. Signed' BY <2>0, <3>1, <3>2, <3>3 DEF Signed
    <3> QED BY <3>2, <3>4 DEF Carried
  <2>2. CASE StampEpoch
    <3>1. /\ files'.info = files.info /\ files'.epoch = stamp /\ wrapper'.pc = "watch"
          /\ wrapper.pc = "stamp"
          /\ UNCHANGED <<starts, stamp, publisher, coordinator, cleared>>
      BY <2>0, <2>2 DEF StampEpoch, Files, Wrappers
    <3>2. Signed' BY <2>0, <3>1 DEF Signed
    <3>3. stamp = starts => publisher.lastSig.epoch # stamp /\ publisher.curSig.epoch # stamp
      BY <2>0, <3>1 DEF Signed
    <3>4. InFiles'.epoch = stamp BY <3>1 DEF InFiles
    <3>5. stamp = starts => publisher.lastSig # InFiles' /\ publisher.curSig # InFiles'
      BY <3>3, <3>4
    <3> QED BY <3>1, <3>2, <3>5 DEF Carried
  <2>3. CASE TeeOpensLog \/ TargetPrintsInfo \/ TargetDies
    <3>1. /\ files'.info = files.info /\ files'.epoch = files.epoch
          /\ UNCHANGED <<starts, stamp, wrapper, publisher, coordinator, cleared>>
      BY <2>0, <2>3 DEF TeeOpensLog, TargetPrintsInfo, TargetDies, Files
    <3> QED BY <3>1 DEF Signed, Carried, InFiles
  <2>4. CASE WatchLog
    <3>1. /\ UNCHANGED <<starts, stamp, files, publisher, coordinator, cleared>>
          /\ \/ wrapper'.pc = "wait"
             \/ wrapper'.pc = "write" /\ files.info = 0 /\ wrapper'.line # 0
      BY <2>0, <2>4 DEF WatchLog, Wrappers
    <3> QED BY <3>1 DEF Signed, Carried, InFiles
  <2>5. CASE WriteInfo
    <3>1. /\ files'.info = wrapper.line /\ files'.epoch = files.epoch
          /\ wrapper'.pc = "wait" /\ wrapper.pc = "write"
          /\ UNCHANGED <<starts, stamp, publisher, coordinator, cleared>>
      BY <2>0, <2>5 DEF WriteInfo, Files, Wrappers
    <3>2. files'.info # 0 /\ publisher.pc \in {"test", "exited"} /\ publisher.lastSig = Nothing
      BY <3>1 DEF Signed
    <3>3. publisher.lastSig # InFiles' BY <3>2 DEF InFiles, Nothing
    <3>4. Signed' BY <3>1, <3>2 DEF Signed
    <3> QED BY <3>1, <3>2, <3>3, <3>4 DEF Carried
  <2>6. CASE WaitForTarget \/ TargetContainerKilled
    <3>1. /\ wrapper'.pc = "exited"
          /\ UNCHANGED <<starts, stamp, files, publisher, coordinator, cleared>>
      BY <2>6 DEF WaitForTarget, TargetContainerKilled, WrapperGone
    <3> QED BY <3>1 DEF Signed, Carried, InFiles
  <2>7. CASE TestFiles
    <3>1. /\ publisher'.pc = "sign" /\ publisher'.lastSig = publisher.lastSig
          /\ publisher'.curSig = publisher.curSig /\ publisher.pc = "test"
          /\ files.info # 0
          /\ UNCHANGED <<starts, stamp, files, wrapper, coordinator, cleared>>
      BY <2>0, <2>7 DEF TestFiles, Publishers, fileVars
    <3> QED BY <3>1 DEF Signed, Carried, InFiles
  <2>8. CASE SignFiles
    <3>1. /\ publisher' = [publisher EXCEPT !.curSig = InFiles,
                             !.pc = IF InFiles # publisher.lastSig THEN "read" ELSE "test"]
          /\ publisher.pc = "sign"
          /\ UNCHANGED <<starts, stamp, files, wrapper, coordinator, cleared>>
      BY <2>8 DEF SignFiles, fileVars
    <3>2. /\ publisher'.pc \in {"read", "test"} /\ publisher'.lastSig = publisher.lastSig
          /\ publisher'.curSig = InFiles
      BY <2>0, <3>1 DEF Publishers
    <3>3. InFiles.epoch = files.epoch BY DEF InFiles
    <3>4. Signed' BY <2>0, <3>1, <3>2, <3>3 DEF Signed
    <3> QED BY <3>1, <3>2, <3>4 DEF Carried, InFiles
  <2>9. CASE ReadFiles
    <3>1. /\ publisher' = [publisher EXCEPT !.patch = InFiles, !.pc = "patch"]
          /\ publisher.pc = "read"
          /\ UNCHANGED <<starts, stamp, files, wrapper, coordinator, cleared>>
      BY <2>9 DEF ReadFiles, fileVars
    <3>2. /\ publisher'.pc = "patch" /\ publisher'.lastSig = publisher.lastSig
          /\ publisher'.curSig = publisher.curSig /\ publisher'.patch = InFiles
      BY <2>0, <3>1 DEF Publishers
    <3> QED BY <3>1, <3>2 DEF Signed, Carried, InFiles
  <2>10. CASE PatchCoordinator
    <3>1. /\ publisher' = [publisher EXCEPT !.pc = "test", !.lastSig = publisher.curSig]
          /\ publisher.pc = "patch" /\ coordinator' = publisher.patch
          /\ UNCHANGED <<starts, stamp, files, wrapper>>
      BY <2>10 DEF PatchCoordinator, Patch, fileVars
    <3>2. /\ publisher'.pc = "test" /\ publisher'.lastSig = publisher.curSig
          /\ publisher'.curSig = publisher.curSig
      BY <2>0, <3>1 DEF Publishers
    <3>3. files.info # 0 BY <3>1 DEF Signed
    <3>4. Signed' BY <3>1, <3>2, <3>3 DEF Signed
    <3> QED BY <3>1, <3>2, <3>4 DEF Carried, InFiles
  <2>11. CASE PublisherExits \/ PublisherRestarts
    <3>1. /\ publisher' \in {PublisherAt("exited"), PublisherAt("test")}
          /\ UNCHANGED <<starts, stamp, files, wrapper>>
      BY <2>11 DEF PublisherExits, PublisherRestarts, fileVars
    <3>2. /\ publisher'.pc \in {"test", "exited"} /\ publisher'.lastSig = Nothing
          /\ publisher'.curSig = Nothing
      BY <3>1 DEF PublisherAt
    <3>3. Nothing.epoch = 0 BY DEF Nothing
    <3>4. files.epoch # 0 => Nothing # InFiles BY <3>3 DEF InFiles
    <3>5. Signed' BY <2>0, <3>1, <3>2, <3>3 DEF Signed
    <3> QED BY <3>1, <3>2, <3>4, <3>5 DEF Carried, InFiles
  <2>12. CASE ViewPodReplaced
    <3>1. /\ files' = NoFiles /\ wrapper'.pc = "exited" /\ publisher' = PublisherAt("test")
          /\ UNCHANGED <<starts, stamp>>
      BY <2>12 DEF ViewPodReplaced, WrapperGone
    <3>2. /\ files'.epoch = 0 /\ publisher'.pc = "test" /\ publisher'.lastSig = Nothing
          /\ publisher'.curSig = Nothing
      BY <3>1 DEF NoFiles, PublisherAt
    <3>3. Nothing.epoch = 0 BY DEF Nothing
    <3> QED BY <2>0, <3>1, <3>2, <3>3 DEF Signed, Carried
  <2>13. CASE ClearKeys
    BY <2>13 DEF ClearKeys, fileVars, Signed, Carried, InFiles
  <2>14. CASE UNCHANGED viewVars
    BY <2>14 DEF viewVars, fileVars, Signed, Carried, InFiles
  <2> QED
    BY <2>1, <2>2, <2>3, <2>4, <2>5, <2>6, <2>7, <2>8, <2>9, <2>10, <2>11, <2>12, <2>13,
       <2>14
    DEF ViewNext, Wrapper, Target, Publisher, ViewFault
<1> QED BY <1>1, <1>2, ViewTypeHolds, PTL DEF ViewSpec

(* A publisher that sees nothing to do has nothing to do.                  *)
THEOREM NothingIsForgotten == ViewSpec => []NothingForgotten
<1>1. Carried => NothingForgotten
  BY DEF Carried, NothingForgotten
<1> QED BY <1>1, SignedCarriedHold, PTL

-----------------------------------------------------------------------------
(* Why the announcements come in order.  The file epoch is blank or shows  *)
(* the newest stamp, the file target-info gains its content once in a pod, *)
(* and between a read and its patch nobody else announces: a patch finds   *)
(* its epoch announced with the same target-info or not at all, and no     *)
(* later epoch announced.                                                  *)
Ordered ==
    /\ files.epoch \in {0, stamp}
    /\ starts > podBase => stamp >= 1 /\ announced[stamp] \in {0, files.info}
    /\ files.info # 0 => starts > podBase
    /\ \A e \in 1 .. MaxStarts : e > stamp => announced[e] = 0
    /\ publisher.pc = "patch" =>
          /\ publisher.patch.info = files.info
          /\ publisher.patch.epoch <= stamp
          /\ publisher.patch.epoch # 0 =>
                /\ announced[publisher.patch.epoch] \in {0, files.info}
                /\ \A e \in 1 .. MaxStarts :
                      e > publisher.patch.epoch => announced[e] = 0

ViewInv == ViewType /\ FreshInv /\ Signed /\ Ordered

LEMMA OrderTypes ==
    ASSUME ViewType
    PROVE  /\ MaxStarts \in Nat /\ starts \in Nat /\ podBase \in Nat /\ stamp \in Nat
           /\ podBase <= starts /\ stamp <= starts /\ starts <= MaxStarts
           /\ files \in Files /\ wrapper \in Wrappers /\ publisher \in Publishers
           /\ files.epoch \in Nat /\ publisher.patch.epoch \in Nat
           /\ publisher.patch.epoch <= MaxStarts
           /\ announced \in [1 .. MaxStarts -> TargetInfos]
<1>1. publisher.patch.epoch \in Stamps /\ files.epoch \in Stamps
  BY TypedParts DEF Pair
<1> QED BY <1>1, BoundType DEF ViewType, Stamps

(* The epoch a patch announces.                                            *)
Key == IF publisher.patch.epoch = 0 THEN stamp ELSE publisher.patch.epoch

LEMMA PatchFindsItsPlace ==
    ASSUME ViewInv, publisher.pc = "patch"
    PROVE  /\ Key \in 1 .. MaxStarts /\ Key <= stamp
           /\ starts > podBase
           /\ publisher.patch.info = files.info /\ publisher.patch.info # 0
           /\ announced[Key] \in {0, files.info}
           /\ \A e \in 1 .. MaxStarts : e > Key => announced[e] = 0
<1>1. publisher.patch.info = files.info /\ files.info # 0 /\ starts > podBase
  BY DEF ViewInv, Ordered, FreshInv
<1>2. stamp \in 1 .. MaxStarts
  BY <1>1, OrderTypes DEF ViewInv, Ordered
<1>3. CASE publisher.patch.epoch = 0
  BY <1>1, <1>2, <1>3, OrderTypes DEF ViewInv, Ordered, Key
<1>4. CASE publisher.patch.epoch # 0
  BY <1>1, <1>2, <1>4, OrderTypes DEF ViewInv, Ordered, Key
<1> QED BY <1>3, <1>4

LEMMA PatchKeepsOrder ==
    ASSUME ViewInv, publisher.pc = "patch", Patch, UNCHANGED fileVars,
           publisher'.pc # "patch"
    PROVE  Ordered'
<1>1. announced' = [announced EXCEPT ![Key] = files.info]
  BY PatchFindsItsPlace DEF Patch, Key
<1>2. \A e \in 1 .. MaxStarts : announced'[e] = IF e = Key THEN files.info ELSE announced[e]
  BY <1>1, PatchFindsItsPlace, OrderTypes DEF ViewInv
<1>3. stamp \in 1 .. MaxStarts
  BY PatchFindsItsPlace, OrderTypes DEF ViewInv, Ordered
<1>4. announced'[stamp] \in {0, files.info}
  BY <1>2, <1>3, PatchFindsItsPlace DEF ViewInv, Ordered
<1>5. \A e \in 1 .. MaxStarts : e > stamp => announced'[e] = 0
  BY <1>2, <1>3, PatchFindsItsPlace, OrderTypes DEF ViewInv, Ordered
<1> QED BY <1>4, <1>5 DEF ViewInv, Ordered, fileVars

LEMMA OrderedStep == ViewInv /\ [ViewNext]_viewVars => Ordered'
<1> SUFFICES ASSUME ViewInv, [ViewNext]_viewVars PROVE Ordered'
  OBVIOUS
<1>0. /\ MaxStarts \in Nat /\ starts \in Nat /\ podBase \in Nat /\ stamp \in Nat
      /\ podBase <= starts /\ stamp <= starts /\ starts <= MaxStarts
      /\ files \in Files /\ wrapper \in Wrappers /\ publisher \in Publishers
      /\ publisher.patch.epoch \in Nat
  BY OrderTypes DEF ViewInv
<1>1. CASE TargetContainerStarts
  <2>1. /\ starts' = starts + 1 /\ starts < MaxStarts
        /\ stamp' = stamp + 1 \/ (starts > podBase /\ stamp' = stamp)
        /\ UNCHANGED <<podBase, publisher, announced>>
    BY <1>1 DEF TargetContainerStarts
  <2>2. files'.epoch = 0 /\ files'.info = files.info
    BY <1>0, <1>1 DEF TargetContainerStarts, Files
  <2>3. stamp' >= 1 /\ announced'[stamp'] \in {0, files.info}
    <3>1. CASE stamp' = stamp + 1
      <4>1. stamp' \in 1 .. MaxStarts BY <1>0, <2>1, <3>1
      <4> QED BY <1>0, <2>1, <3>1, <4>1 DEF ViewInv, Ordered
    <3>2. CASE starts > podBase /\ stamp' = stamp
      BY <2>1, <3>2 DEF ViewInv, Ordered
    <3> QED BY <2>1, <3>1, <3>2
  <2>4. files.info # 0 => starts' > podBase BY <1>0, <2>1
  <2>5. \A e \in 1 .. MaxStarts : e > stamp' => announced[e] = 0
    BY <1>0, <2>1 DEF ViewInv, Ordered
  <2>6. publisher.pc = "patch" => publisher.patch.epoch <= stamp'
    BY <1>0, <2>1 DEF ViewInv, Ordered
  <2> QED BY <2>1, <2>2, <2>3, <2>4, <2>5, <2>6 DEF ViewInv, Ordered
<1>2. CASE StampEpoch
  <2>1. files'.epoch = stamp /\ files'.info = files.info
        /\ UNCHANGED <<starts, podBase, stamp, publisher, announced>>
    BY <1>0, <1>2 DEF StampEpoch, Files
  <2> QED BY <2>1 DEF ViewInv, Ordered
<1>3. CASE TeeOpensLog \/ TargetPrintsInfo
  <2>1. files'.epoch = files.epoch /\ files'.info = files.info
        /\ UNCHANGED <<starts, podBase, stamp, publisher, announced>>
    BY <1>0, <1>3 DEF TeeOpensLog, TargetPrintsInfo, Files
  <2> QED BY <2>1 DEF ViewInv, Ordered
<1>4. CASE WriteInfo
  <2>1. /\ files'.epoch = files.epoch /\ files'.info = wrapper.line
        /\ wrapper.pc = "write"
        /\ UNCHANGED <<starts, podBase, stamp, publisher, announced>>
    BY <1>0, <1>4 DEF WriteInfo, Files
  <2>2. files.info = 0 /\ publisher.pc # "patch" /\ starts > podBase
    BY <1>0, <2>1 DEF ViewInv, Signed, FreshInv
  <2> QED BY <2>1, <2>2 DEF ViewInv, Ordered
<1>5. CASE WatchLog \/ WaitForTarget \/ TargetDies \/ TargetContainerKilled \/ ClearKeys
  <2>1. UNCHANGED <<starts, podBase, stamp, files, publisher, announced>>
    BY <1>5 DEF WatchLog, WaitForTarget, TargetDies, TargetContainerKilled, ClearKeys, fileVars
  <2> QED BY <2>1 DEF ViewInv, Ordered
<1>6. CASE TestFiles \/ SignFiles \/ PublisherRestarts
  <2>1. UNCHANGED <<starts, podBase, stamp, files, announced>>
    BY <1>6 DEF TestFiles, SignFiles, PublisherRestarts, fileVars
  <2>2. ASSUME TestFiles PROVE publisher'.pc = "sign"
    <3>1. publisher' = [publisher EXCEPT !.pc = "sign"] BY <2>2 DEF TestFiles
    <3> QED BY <1>0, <3>1 DEF Publishers
  <2>3. ASSUME SignFiles PROVE publisher'.pc \in {"read", "test"}
    <3>1. publisher' = [publisher EXCEPT !.curSig = InFiles,
                          !.pc = IF InFiles # publisher.lastSig THEN "read" ELSE "test"]
      BY <2>3 DEF SignFiles
    <3> QED BY <1>0, <3>1 DEF Publishers
  <2>4. PublisherRestarts => publisher'.pc = "test"
    BY DEF PublisherRestarts, PublisherAt
  <2>5. publisher'.pc # "patch" BY <1>6, <2>2, <2>3, <2>4
  <2> QED BY <2>1, <2>5 DEF ViewInv, Ordered
<1>7. CASE ReadFiles
  <2>1. /\ UNCHANGED <<starts, podBase, stamp, files, announced>>
        /\ publisher' = [publisher EXCEPT !.patch = InFiles, !.pc = "patch"]
        /\ publisher.pc = "read"
    BY <1>7 DEF ReadFiles, fileVars
  <2>2. publisher'.patch.info = files.info /\ publisher'.patch.epoch = files.epoch
    BY <1>0, <2>1 DEF Publishers, InFiles
  <2>3. files.info # 0 /\ files.epoch \in {0, stamp} /\ starts > podBase
    BY <2>1 DEF ViewInv, FreshInv, Ordered
  <2>4. files.epoch <= stamp BY <1>0, <2>3
  <2> QED BY <2>1, <2>2, <2>3, <2>4 DEF ViewInv, Ordered
<1>8. CASE PatchCoordinator
  <2>1. publisher'.pc = "test"
    <3>1. publisher' = [publisher EXCEPT !.pc = "test", !.lastSig = publisher.curSig]
      BY <1>8 DEF PatchCoordinator
    <3> QED BY <1>0, <3>1 DEF Publishers
  <2> QED BY <1>8, <2>1, PatchKeepsOrder DEF PatchCoordinator
<1>9. CASE PublisherExits
  <2>1. publisher'.pc = "exited" BY <1>9 DEF PublisherExits, PublisherAt
  <2>2. CASE publisher.pc = "patch" /\ Patch
    BY <1>9, <2>1, <2>2, PatchKeepsOrder DEF PublisherExits
  <2>3. CASE UNCHANGED <<coordinator, cleared, announced>>
    BY <1>9, <2>1, <2>3 DEF PublisherExits, fileVars, ViewInv, Ordered
  <2> QED BY <1>9, <2>2, <2>3 DEF PublisherExits
<1>10. CASE ViewPodReplaced
  <2>1. /\ podBase' = starts /\ starts' = starts /\ stamp' = stamp
        /\ files'.epoch = 0 /\ files'.info = 0 /\ publisher'.pc = "test"
        /\ announced' = announced
    BY <1>10 DEF ViewPodReplaced, NoFiles, PublisherAt
  <2> QED BY <1>0, <2>1 DEF ViewInv, Ordered
<1>11. CASE UNCHANGED viewVars
  BY <1>11 DEF viewVars, fileVars, ViewInv, Ordered
<1> QED
  BY <1>1, <1>2, <1>3, <1>4, <1>5, <1>6, <1>7, <1>8, <1>9, <1>10, <1>11
  DEF ViewNext, Wrapper, Target, Publisher, ViewFault

LEMMA ViewInvHolds == ViewSpec => []ViewInv
<1>1. ViewInit => Ordered
  BY BoundType DEF ViewInit, Ordered, NoFiles, PublisherAt
<1>2. ViewSpec => [](ViewType /\ FreshInv /\ Signed)
  BY ViewTypeHolds, FreshInvHolds, SignedCarriedHold, PTL
<1>3. (ViewType /\ FreshInv /\ Signed) /\ Ordered /\ [ViewNext]_viewVars => Ordered'
  BY OrderedStep DEF ViewInv
<1>4. ViewType /\ FreshInv /\ Signed /\ Ordered => ViewInv
  BY DEF ViewInv
<1> QED BY <1>1, <1>2, <1>3, <1>4, PTL DEF ViewSpec

(* What a step may do to the record of announcements and to the ConfigMap: *)
(* nothing, clear a key, or announce i with the epoch e.                   *)
Announces(e, i) ==
    /\ announced' = [announced EXCEPT ![e] = i]
    /\ announced[e] \in {0, i}
    /\ \A later \in 1 .. MaxStarts : later > e => announced[later] = 0
    /\ coordinator'.info = i /\ coordinator'.epoch \in {0, e}

KeepsOrClears ==
    /\ announced' = announced
    /\ \/ coordinator' = coordinator
       \/ \E key \in {"info", "epoch"} : coordinator' = [coordinator EXCEPT ![key] = 0]

LEMMA ViewStepAnnounces ==
    ASSUME ViewInv, [ViewNext]_viewVars
    PROVE  KeepsOrClears \/ \E e, i \in 1 .. MaxStarts : Announces(e, i)
<1>1. CASE publisher.pc = "patch" /\ Patch
  <2>1. /\ Key \in 1 .. MaxStarts /\ announced[Key] \in {0, files.info} /\ files.info # 0
        /\ \A e \in 1 .. MaxStarts : e > Key => announced[e] = 0
        /\ publisher.patch.info = files.info
    BY <1>1, PatchFindsItsPlace
  <2>2. announced' = [announced EXCEPT ![Key] = files.info]
    BY <1>1, <2>1 DEF Patch, Key
  <2>3. files.info \in 1 .. MaxStarts
    BY <2>1, TypedParts, BoundType DEF ViewInv, TargetInfos
  <2>4. coordinator'.info = files.info /\ coordinator'.epoch \in {0, Key}
    BY <1>1, <2>1 DEF Patch, Key
  <2>5. Announces(Key, files.info) BY <2>1, <2>2, <2>4 DEF Announces
  <2> QED BY <2>1, <2>3, <2>5
<1>2. CASE ~(publisher.pc = "patch" /\ Patch)
  <2>1. KeepsOrClears
    BY <1>2
    DEF ViewNext, Wrapper, Target, Publisher, ViewFault, viewVars, TargetContainerStarts,
        StampEpoch, WatchLog, WriteInfo, WaitForTarget, TeeOpensLog, TargetPrintsInfo,
        TestFiles, SignFiles, ReadFiles, PatchCoordinator, PublisherRestarts, TargetDies,
        TargetContainerKilled, PublisherExits, ViewPodReplaced, ClearKeys, KeepsOrClears
  <2> QED BY <2>1
<1> QED BY <1>1, <1>2

(* Each epoch is announced with one target-info for good, and never after  *)
(* a later epoch: across restarts of either container, replaced pods, reads*)
(* that another start overtakes and patches that land although they failed.*)
THEOREM AnnouncementsInOrder == ViewSpec => AnnouncesInOrder
<1>1. ViewInv /\ [ViewNext]_viewVars =>
         [\A e \in 1 .. MaxStarts :
             announced'[e] # announced[e] =>
                \A later \in e .. MaxStarts : announced[later] = 0]_viewVars
  <2> SUFFICES ASSUME ViewInv, [ViewNext]_viewVars,
                      NEW e \in 1 .. MaxStarts, announced'[e] # announced[e]
               PROVE  \A later \in e .. MaxStarts : announced[later] = 0
    OBVIOUS
  <2>1. PICK k, i \in 1 .. MaxStarts : Announces(k, i)
    BY ViewStepAnnounces DEF KeepsOrClears
  <2>2. announced \in [1 .. MaxStarts -> TargetInfos] BY DEF ViewInv, ViewType
  <2>3. e = k BY <2>1, <2>2 DEF Announces
  <2>4. announced[e] = 0 BY <2>1, <2>2, <2>3 DEF Announces
  <2> QED BY <2>1, <2>3, <2>4, BoundType DEF Announces
<1> QED BY <1>1, ViewInvHolds, PTL DEF ViewSpec, AnnouncesInOrder
=============================================================================
