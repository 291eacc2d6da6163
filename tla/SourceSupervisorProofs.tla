----------------------- MODULE SourceSupervisorProofs -----------------------
(* Proofs about SourceSupervisor, for every set of sources and every bound. *)
EXTENDS SourceSupervisor, TLAPS

(***************************************************************************)
(* Types.                                                                  *)
(***************************************************************************)

LEMMA GotoType ==
    ASSUME TypeOK, NEW s \in Sources, NEW label \in Labels, Goto(s, label)
    PROVE  /\ pc' \in [Sources -> Labels]
           /\ site' \in [Sources -> Sites]
BY DEF TypeOK, Goto

LEMMA EnterType ==
    ASSUME TypeOK, NEW s \in Sources, NEW label \in Labels, NEW at \in Sites,
           Enter(s, at, label)
    PROVE  /\ pc' \in [Sources -> Labels]
           /\ site' \in [Sources -> Sites]
BY DEF TypeOK, Enter

LEMMA DieType ==
    ASSUME TypeOK, NEW s \in Sources, Die(s)
    PROVE  /\ pc' \in [Sources -> Labels]
           /\ site' \in [Sources -> Sites]
           /\ currentEpoch' \in [Sources -> Epochs \cup {Empty}]
           /\ lastEpoch' \in [Sources -> Epochs \cup {Empty}]
           /\ targetInfo' \in [Sources -> Infos \cup {Empty}]
           /\ initiator' \in [Sources -> [state : {"none", "running", "terminating", "exited"},
                                          info  : Infos \cup {Empty}]]
BY DEF TypeOK, Die, Enter, Labels, Sites, NoInitiator

LEMMA AfterStopType ==
    ASSUME TypeOK, NEW s \in Sources, AfterStop(s)
    PROVE  /\ pc' \in [Sources -> Labels]
           /\ site' \in [Sources -> Sites]
           /\ lastEpoch' \in [Sources -> Epochs \cup {Empty}]
BY DEF TypeOK, AfterStop, Goto, Enter, Labels, Sites

\* What the script can read from its mount.
LEMMA TextType ==
    ASSUME TypeOK, NEW s \in Sources
    PROVE  /\ mount[s].epoch # Absent => Text(mount[s].epoch) \in Epochs \cup {Empty}
           /\ mount[s].info # Absent => Text(mount[s].info) \in Infos \cup {Empty}
BY DEF TypeOK, Snapshot, Text, Blank

LEMMA InitType == Init => TypeOK
BY ConstantsAssumption
   DEF Init, TypeOK, Snapshot, Blank, Labels, Sites, NoInitiator, Epochs

LEMMA ScriptType ==
    ASSUME TypeOK, NEW s \in Sources, Script(s)
    PROVE  TypeOK'
<1> USE DEF coordVars, Labels, Sites
<1>1. CASE WaitForFlow(s)
  BY <1>1 DEF WaitForFlow, Enter, TypeOK
<1>2. CASE TestActiveSource(s)
  BY <1>2 DEF TestActiveSource, Refused, Goto, Enter, TypeOK
<1>3. CASE CompareActiveSource(s)
  BY <1>3 DEF CompareActiveSource, Refused, Goto, Enter, TypeOK
<1>4. CASE TestTargetInfo(s)
  BY <1>4 DEF TestTargetInfo, Refused, Goto, Enter, TypeOK
<1>5. CASE TestEpoch(s)
  BY <1>5 DEF TestEpoch, Refused, Goto, Enter, TypeOK
<1>6. CASE ReadEntryEpoch(s)
  <2>1. CASE Die(s)
    BY <1>6, <2>1, DieType DEF ReadEntryEpoch, TypeOK
  <2>2. CASE ~Die(s)
    <3>1. Text(mount[s].epoch) \in Epochs \cup {Empty}
      BY <1>6, <2>2, TextType DEF ReadEntryEpoch
    <3>2. currentEpoch' \in [Sources -> Epochs \cup {Empty}]
      BY <1>6, <2>2, <3>1 DEF ReadEntryEpoch, TypeOK
    <3>3. QED
      BY <1>6, <2>2, <3>2 DEF ReadEntryEpoch, Goto, Enter, TypeOK
  <2>3. QED
    BY <2>1, <2>2
<1>7. CASE TermInitiator(s)
  <2>1. CASE initiator[s].state = "running"
    <3>1. /\ Child(s, "terminating")
          /\ Goto(s, "reap")
          /\ UNCHANGED <<issued, published, mount, flow, currentEpoch, lastEpoch,
                         targetInfo, entitled>>
      BY <1>7, <2>1 DEF TermInitiator
    <3>2. QED
      BY <3>1 DEF Child, Goto, TypeOK
  <2>2. CASE initiator[s].state # "running"
    <3>1. /\ AfterStop(s)
          /\ initiator' = [initiator EXCEPT ![s] = NoInitiator]
          /\ UNCHANGED <<issued, published, mount, flow, currentEpoch, targetInfo, entitled>>
      BY <1>7, <2>2 DEF TermInitiator
    <3>2. QED
      BY <3>1, AfterStopType DEF NoInitiator, TypeOK
  <2>3. QED
    BY <2>1, <2>2
<1>8. CASE ReapInitiator(s)
  BY <1>8, AfterStopType DEF ReapInitiator, NoInitiator, TypeOK
<1>9. CASE ReadTargetInfo(s)
  <2>1. CASE Die(s)
    BY <1>9, <2>1, DieType DEF ReadTargetInfo, TypeOK
  <2>2. CASE ~Die(s)
    <3>1. Text(mount[s].info) \in Infos \cup {Empty}
      BY <1>9, <2>2, TextType DEF ReadTargetInfo
    <3>2. targetInfo' \in [Sources -> Infos \cup {Empty}]
      BY <1>9, <2>2, <3>1 DEF ReadTargetInfo, TypeOK
    <3>3. QED
      BY <1>9, <2>2, <3>2 DEF ReadTargetInfo, Goto, TypeOK
  <2>3. QED
    BY <2>1, <2>2
<1>10. CASE LaunchInitiator(s)
  BY <1>10 DEF LaunchInitiator, Selected, HasContent, Enter, TypeOK
<1>11. CASE TestEpochFile(s)
  BY <1>11 DEF TestEpochFile, Goto, Enter, TypeOK
<1>12. CASE CompareEpoch(s)
  <2>1. CASE Die(s)
    BY <1>12, <2>1, DieType DEF CompareEpoch, TypeOK
  <2>2. CASE ~Die(s)
    <3>1. Text(mount[s].epoch) \in Epochs \cup {Empty}
      BY <1>12, <2>2, TextType DEF CompareEpoch
    <3>2. currentEpoch' \in [Sources -> Epochs \cup {Empty}]
      BY <1>12, <2>2, <3>1 DEF CompareEpoch, TypeOK
    <3>3. QED
      BY <1>12, <2>2, <3>2 DEF CompareEpoch, Enter, TypeOK
  <2>3. QED
    BY <2>1, <2>2
<1>13. CASE TestAlive(s)
  BY <1>13 DEF TestAlive, Enter, TypeOK
<1>14. QED
  BY <1>1, <1>2, <1>3, <1>4, <1>5, <1>6, <1>7, <1>8, <1>9, <1>10, <1>11,
     <1>12, <1>13 DEF Script

LEMMA PodType ==
    ASSUME TypeOK, NEW s \in Sources, Pod(s)
    PROVE  TypeOK'
<1> USE DEF coordVars, scriptVars, Labels, Sites
<1>1. CASE InitiatorObeysTerm(s)
  BY <1>1 DEF InitiatorObeysTerm, Child, TypeOK
<1>2. CASE InitiatorRejectsEmptyInfo(s)
  BY <1>2 DEF InitiatorRejectsEmptyInfo, Child, TypeOK
<1>3. CASE InitiatorCrashes(s)
  BY <1>3 DEF InitiatorCrashes, Child, TypeOK
<1>4. CASE ContainerKilled(s)
  BY <1>4, DieType DEF ContainerKilled, TypeOK
<1>5. CASE PodReplaced(s)
  BY <1>5, DieType DEF PodReplaced, TypeOK
<1>6. CASE ContainerRestarts(s)
  BY <1>6 DEF ContainerRestarts, Enter, TypeOK
<1>7. CASE FlowAppears(s)
  BY <1>7 DEF FlowAppears, TypeOK
<1>8. QED
  BY <1>1, <1>2, <1>3, <1>4, <1>5, <1>6, <1>7 DEF Pod, Fault

LEMMA SnapshotsOfType ==
    ASSUME TypeOK, NEW e \in 0..MaxEpoch
    PROVE  SnapshotsOf(e) \subseteq Snapshot
<1>1. e # 0 => e \in Epochs
  BY ConstantsAssumption DEF Epochs
<1>2. e # 0 => issued[e] \in Infos \cup Blank
  BY <1>1 DEF TypeOK, Blank
<1>3. QED
  BY <1>1, <1>2 DEF SnapshotsOf, Snapshot

LEMMA CoordinatorType ==
    ASSUME TypeOK, Coordinator
    PROVE  TypeOK'
<1> USE DEF scriptVars
<1>1. ASSUME NEW e \in Epochs, NEW info \in Infos, Issue(e, info)
      PROVE  TypeOK'
  BY <1>1 DEF Issue, TypeOK
<1>2. ASSUME NEW s \in Sources, NEW e \in 0..MaxEpoch,
             NEW snapshot \in SnapshotsOf(e), Project(s, e, snapshot)
      PROVE  TypeOK'
  <2>1. snapshot \in Snapshot
    BY SnapshotsOfType
  <2>2. entitled' \in [Sources -> BOOLEAN]
    BY <1>2 DEF Project, TypeOK, Selected, HasContent
  <2>3. QED
    BY <1>2, <2>1, <2>2 DEF Project, TypeOK
<1>3. QED
  BY <1>1, <1>2 DEF Coordinator

LEMMA StutterType == TypeOK /\ UNCHANGED vars => TypeOK'
BY DEF TypeOK, vars

\* Every variable of the supervisors keeps its type: in particular nothing but
\* a target-info once published, or nothing, is ever passed to an initiator.
THEOREM TypeCorrect == Spec => []TypeOK
<1>1. TypeOK /\ [Next]_vars => TypeOK'
  BY ScriptType, PodType, CoordinatorType, StutterType DEF Next
<1>2. QED
  BY InitType, <1>1, PTL DEF Spec

(***************************************************************************)
(* Safety.  The invariants of SourceSupervisor are not inductive; what     *)
(* makes them so is, for each source:                                      *)
(*   - which call sites a step can belong to (ControlInv);                 *)
(*   - that no child exists on the way from the gate to a start (SilentInv);*)
(*   - that the mount shows one publication, the newest received (MountInv);*)
(*   - that a target-info in use, or about to be, was published no earlier *)
(*     than the epoch it is filed under (FreshInv);                        *)
(*   - that a selection seen has not been used up before the start it      *)
(*     leads to (EntitledInv).                                             *)
(***************************************************************************)

ControlInv(s) ==
    /\ pc[s] \in {"flow", "entry", "exited"} => site[s] = "gate"
    /\ pc[s] \in {"bump", "diff"} => site[s] = "bump"
    /\ pc[s] = "alive" => site[s] = "recheck"
    /\ pc[s] \in {"size", "own"} => site[s] \in {"gate", "bump", "recheck"}
    /\ pc[s] \in {"info", "epoch"} => site[s] \in {"gate", "recheck"}
    /\ pc[s] \in {"read", "launch"} => site[s] \in {"gate", "bump"}

SilentInv(s) ==
    site[s] = "gate" \/ pc[s] \in {"read", "launch"} => initiator[s] = NoInitiator

MountInv(s) ==
    /\ published[s] > 0 => issued[published[s]] # Empty
    /\ mount[s].epoch \in Epochs => mount[s].epoch = published[s]
    /\ mount[s].info \in Infos => published[s] > 0 /\ mount[s].info = issued[published[s]]
    /\ currentEpoch[s] \in Epochs => currentEpoch[s] <= published[s]
    /\ lastEpoch[s] \in Epochs => lastEpoch[s] <= published[s]

\* The child's target-info was published no earlier than the epoch it is
\* filed under, and has reached s.
ChildFresh(s) ==
    initiator[s].state = "running" /\ initiator[s].info # Empty =>
        \E e \in Epochs : /\ issued[e] = initiator[s].info
                          /\ e <= published[s]
                          /\ lastEpoch[s] # Empty => lastEpoch[s] <= e

\* The epoch the child about to be started will be filed under.
FiledUnder(s) == IF site[s] = "gate" THEN currentEpoch[s] ELSE lastEpoch[s]

StartFresh(s) ==
    pc[s] = "launch" /\ targetInfo[s] # Empty =>
        \E e \in Epochs : /\ issued[e] = targetInfo[s]
                          /\ e <= published[s]
                          /\ FiledUnder(s) # Empty => FiledUnder(s) <= e

FreshInv(s) == ChildFresh(s) /\ StartFresh(s)

EntitledInv(s) ==
    /\ Selected(s) => entitled[s]
    /\ OwnId[s] # Empty /\ site[s] \in {"gate", "bump"}
       /\ pc[s] \in {"info", "epoch", "entry", "term", "reap", "read", "launch"}
         => entitled[s]

SourceInv(s) == ControlInv(s) /\ SilentInv(s) /\ MountInv(s) /\ FreshInv(s) /\ EntitledInv(s)

IInv == TypeOK /\ \A s \in Sources : SourceInv(s)

\* A step of s, or of its pod, leaves the other sources alone.
LEMMA OthersUntouched ==
    ASSUME TypeOK, NEW s \in Sources, Script(s) \/ Pod(s), NEW t \in Sources, t # s
    PROVE  /\ issued' = issued /\ published' = published /\ mount' = mount
           /\ pc'[t] = pc[t] /\ site'[t] = site[t]
           /\ currentEpoch'[t] = currentEpoch[t] /\ lastEpoch'[t] = lastEpoch[t]
           /\ targetInfo'[t] = targetInfo[t] /\ initiator'[t] = initiator[t]
           /\ entitled'[t] = entitled[t]
<1> USE DEF TypeOK, coordVars, scriptVars, Goto, Enter, Child
<1>1. CASE WaitForFlow(s)
  BY <1>1 DEF WaitForFlow
<1>2. CASE TestActiveSource(s)
  BY <1>2 DEF TestActiveSource, Refused
<1>3. CASE CompareActiveSource(s)
  BY <1>3 DEF CompareActiveSource, Refused
<1>4. CASE TestTargetInfo(s)
  BY <1>4 DEF TestTargetInfo, Refused
<1>5. CASE TestEpoch(s)
  BY <1>5 DEF TestEpoch, Refused
<1>6. CASE ReadEntryEpoch(s)
  BY <1>6 DEF ReadEntryEpoch, Die
<1>7. CASE TermInitiator(s)
  BY <1>7 DEF TermInitiator, AfterStop
<1>8. CASE ReapInitiator(s)
  BY <1>8 DEF ReapInitiator, AfterStop
<1>9. CASE ReadTargetInfo(s)
  BY <1>9 DEF ReadTargetInfo, Die
<1>10. CASE LaunchInitiator(s)
  BY <1>10 DEF LaunchInitiator
<1>11. CASE TestEpochFile(s)
  BY <1>11 DEF TestEpochFile
<1>12. CASE CompareEpoch(s)
  BY <1>12 DEF CompareEpoch, Die
<1>13. CASE TestAlive(s)
  BY <1>13 DEF TestAlive
<1>14. CASE Pod(s)
  BY <1>14 DEF Pod, Fault, InitiatorObeysTerm, InitiatorRejectsEmptyInfo,
     InitiatorCrashes, ContainerKilled, PodReplaced, ContainerRestarts, FlowAppears, Die
<1>15. QED
  BY <1>1, <1>2, <1>3, <1>4, <1>5, <1>6, <1>7, <1>8, <1>9, <1>10, <1>11,
     <1>12, <1>13, <1>14 DEF Script

\* SourceInv speaks of nothing else than this state of its source.
LEMMA UntouchedInv ==
    ASSUME NEW t \in Sources, SourceInv(t),
           issued' = issued, published' = published, mount' = mount,
           pc'[t] = pc[t], site'[t] = site[t],
           currentEpoch'[t] = currentEpoch[t], lastEpoch'[t] = lastEpoch[t],
           targetInfo'[t] = targetInfo[t], initiator'[t] = initiator[t],
           entitled'[t] = entitled[t]
    PROVE  SourceInv(t)'
BY DEF SourceInv, ControlInv, SilentInv, MountInv, FreshInv, ChildFresh, StartFresh, FiledUnder,
       EntitledInv, Selected

LEMMA InitInv == ASSUME Init, NEW s \in Sources PROVE SourceInv(s)
<1>1. ControlInv(s) /\ SilentInv(s)
  BY DEF Init, ControlInv, SilentInv
<1>2. Absent \notin Infos /\ Absent \notin Epochs /\ Empty \notin Epochs
  BY ConstantsAssumption DEF Blank, Epochs
<1>3. MountInv(s)
  BY <1>2 DEF Init, MountInv
<1>4. FreshInv(s)
  BY DEF Init, FreshInv, ChildFresh, StartFresh, NoInitiator
<1>5. EntitledInv(s)
  BY DEF Init, EntitledInv, Selected, HasContent, Blank
<1>6. QED
  BY <1>1, <1>3, <1>4, <1>5 DEF SourceInv

\* A step that only moves the script keeps MountInv, and FreshInv unless it
\* arrives at a start.
LEMMA MoveInv ==
    ASSUME NEW s \in Sources, SourceInv(s),
           UNCHANGED <<coordVars, currentEpoch, lastEpoch, targetInfo, initiator, entitled>>,
           pc'[s] # "launch"
    PROVE  /\ MountInv(s)'
           /\ FreshInv(s)'
           /\ Selected(s)' => entitled[s]'
BY DEF coordVars, SourceInv, MountInv, FreshInv, ChildFresh, StartFresh, EntitledInv, Selected, HasContent

LEMMA MovingStepsInv ==
    ASSUME TypeOK, NEW s \in Sources, SourceInv(s),
           \/ WaitForFlow(s) \/ TestActiveSource(s) \/ CompareActiveSource(s)
           \/ TestTargetInfo(s) \/ TestEpoch(s) \/ TestEpochFile(s) \/ TestAlive(s)
    PROVE  SourceInv(s)'
<1>1. UNCHANGED <<coordVars, currentEpoch, lastEpoch, targetInfo, initiator, entitled>>
  BY DEF coordVars, WaitForFlow, TestActiveSource, CompareActiveSource, TestTargetInfo, TestEpoch,
         TestEpochFile, TestAlive
<1>2. CASE WaitForFlow(s)
  <2>1. ControlInv(s)' /\ SilentInv(s)' /\ pc'[s] # "launch"
    BY <1>1, <1>2 DEF WaitForFlow, Enter, TypeOK, SourceInv, ControlInv, SilentInv
  <2>2. EntitledInv(s)'
    BY <1>1, <1>2, <2>1, MoveInv DEF WaitForFlow, Enter, TypeOK, SourceInv, ControlInv, EntitledInv
  <2>3. QED
    BY <1>1, <2>1, <2>2, MoveInv DEF SourceInv
<1>3. CASE TestActiveSource(s)
  <2>1. ControlInv(s)' /\ SilentInv(s)' /\ pc'[s] # "launch"
    BY <1>1, <1>3 DEF TestActiveSource, Refused, Goto, Enter, TypeOK, SourceInv, ControlInv, SilentInv
  <2>2. EntitledInv(s)'
    BY <1>1, <1>3, <2>1, MoveInv DEF TestActiveSource, Refused, Goto, Enter, TypeOK, SourceInv, ControlInv, EntitledInv
  <2>3. QED
    BY <1>1, <2>1, <2>2, MoveInv DEF SourceInv
<1>4. CASE CompareActiveSource(s)
  <2>1. ControlInv(s)' /\ SilentInv(s)' /\ pc'[s] # "launch"
    BY <1>1, <1>4 DEF CompareActiveSource, Refused, Goto, Enter, TypeOK, SourceInv, ControlInv, SilentInv
  <2>2. EntitledInv(s)'
    BY <1>1, <1>4, <2>1, MoveInv DEF CompareActiveSource, Refused, Goto, Enter, TypeOK, SourceInv, ControlInv, EntitledInv, Selected, HasContent, Text, Blank
  <2>3. QED
    BY <1>1, <2>1, <2>2, MoveInv DEF SourceInv
<1>5. CASE TestTargetInfo(s)
  <2>1. ControlInv(s)' /\ SilentInv(s)' /\ pc'[s] # "launch"
    BY <1>1, <1>5 DEF TestTargetInfo, Refused, Goto, Enter, TypeOK, SourceInv, ControlInv, SilentInv
  <2>2. EntitledInv(s)'
    BY <1>1, <1>5, <2>1, MoveInv DEF TestTargetInfo, Refused, Goto, Enter, TypeOK, SourceInv, ControlInv, EntitledInv
  <2>3. QED
    BY <1>1, <2>1, <2>2, MoveInv DEF SourceInv
<1>6. CASE TestEpoch(s)
  <2>1. ControlInv(s)' /\ SilentInv(s)' /\ pc'[s] # "launch"
    BY <1>1, <1>6 DEF TestEpoch, Refused, Goto, Enter, TypeOK, SourceInv, ControlInv, SilentInv
  <2>2. EntitledInv(s)'
    BY <1>1, <1>6, <2>1, MoveInv DEF TestEpoch, Refused, Goto, Enter, TypeOK, SourceInv, ControlInv, EntitledInv
  <2>3. QED
    BY <1>1, <2>1, <2>2, MoveInv DEF SourceInv
<1>7. CASE TestEpochFile(s)
  <2>1. ControlInv(s)' /\ SilentInv(s)' /\ pc'[s] # "launch"
    BY <1>1, <1>7 DEF TestEpochFile, Goto, Enter, TypeOK, SourceInv, ControlInv, SilentInv
  <2>2. EntitledInv(s)'
    BY <1>1, <1>7, <2>1, MoveInv DEF TestEpochFile, Goto, Enter, TypeOK, SourceInv, ControlInv, EntitledInv
  <2>3. QED
    BY <1>1, <2>1, <2>2, MoveInv DEF SourceInv
<1>8. CASE TestAlive(s)
  <2>1. ControlInv(s)' /\ SilentInv(s)' /\ pc'[s] # "launch"
    BY <1>1, <1>8 DEF TestAlive, Enter, TypeOK, SourceInv, ControlInv, SilentInv
  <2>2. EntitledInv(s)'
    BY <1>1, <1>8, <2>1, MoveInv DEF TestAlive, Enter, TypeOK, SourceInv, ControlInv, EntitledInv
  <2>3. QED
    BY <1>1, <2>1, <2>2, MoveInv DEF SourceInv
<1>9. QED
  BY <1>2, <1>3, <1>4, <1>5, <1>6, <1>7, <1>8

\* A script that died has neither a child nor anything in its variables.
LEMMA DieInv ==
    ASSUME TypeOK, NEW s \in Sources, SourceInv(s), Die(s), UNCHANGED <<coordVars, entitled>>
    PROVE  SourceInv(s)'
<1>1. /\ pc'[s] = "exited" /\ site'[s] = "gate" /\ initiator'[s] = NoInitiator
      /\ currentEpoch'[s] = Empty /\ lastEpoch'[s] = Empty
      /\ issued' = issued /\ published' = published /\ mount' = mount
      /\ entitled' = entitled
  BY DEF Die, Enter, TypeOK, coordVars
<1>2. Empty \notin Epochs
  BY ConstantsAssumption DEF Epochs, Blank
<1>3. ControlInv(s)' /\ SilentInv(s)'
  BY <1>1 DEF ControlInv, SilentInv
<1>4. MountInv(s)'
  BY <1>1, <1>2 DEF SourceInv, MountInv
<1>5. FreshInv(s)'
  BY <1>1 DEF FreshInv, ChildFresh, StartFresh, NoInitiator
<1>6. EntitledInv(s)'
  BY <1>1 DEF SourceInv, EntitledInv, Selected
<1>7. QED
  BY <1>3, <1>4, <1>5, <1>6 DEF SourceInv

\* An epoch that could be read is no newer than the newest publication.
LEMMA ReadEpochBound ==
    ASSUME TypeOK, NEW s \in Sources, SourceInv(s), mount[s].epoch # Absent
    PROVE  /\ Text(mount[s].epoch) \in Epochs \cup {Empty}
           /\ Text(mount[s].epoch) \in Epochs => Text(mount[s].epoch) <= published[s]
<1>1. Text(mount[s].epoch) \in Epochs \cup {Empty}
  BY TextType
<1>2. Text(mount[s].epoch) = mount[s].epoch
  BY DEF Text
<1>3. published[s] \in Nat
  BY ConstantsAssumption DEF TypeOK
<1>4. QED
  BY <1>1, <1>2, <1>3 DEF SourceInv, MountInv

LEMMA ReadEntryEpochInv ==
    ASSUME TypeOK, NEW s \in Sources, SourceInv(s), ReadEntryEpoch(s)
    PROVE  SourceInv(s)'
<1>1. CASE Die(s)
  BY <1>1, DieInv DEF ReadEntryEpoch, coordVars
<1>2. CASE ~Die(s)
  <2>1. /\ mount[s].epoch # Absent
        /\ currentEpoch'[s] = Text(mount[s].epoch)
        /\ \/ pc'[s] = "term" /\ site'[s] = site[s]
           \/ pc'[s] = "bump" /\ site'[s] = "bump"
        /\ UNCHANGED <<lastEpoch, targetInfo, initiator, issued, published, mount, entitled>>
    BY <1>2 DEF ReadEntryEpoch, Goto, Enter, TypeOK, coordVars
  <2>2. site[s] = "gate" /\ initiator[s] = NoInitiator
    BY DEF ReadEntryEpoch, SourceInv, ControlInv, SilentInv
  <2>3. ControlInv(s)' /\ SilentInv(s)'
    BY <2>1, <2>2 DEF ControlInv, SilentInv
  <2>4. MountInv(s)'
    BY <2>1, ReadEpochBound DEF SourceInv, MountInv
  <2>5. FreshInv(s)'
    BY <2>1, <2>2 DEF FreshInv, ChildFresh, StartFresh, NoInitiator
  <2>6. EntitledInv(s)'
    BY <2>1, <2>2 DEF SourceInv, EntitledInv, Selected, ReadEntryEpoch
  <2>7. QED
    BY <2>3, <2>4, <2>5, <2>6 DEF SourceInv
<1>3. QED
  BY <1>1, <1>2

LEMMA CompareEpochInv ==
    ASSUME TypeOK, NEW s \in Sources, SourceInv(s), CompareEpoch(s)
    PROVE  SourceInv(s)'
<1>1. CASE Die(s)
  BY <1>1, DieInv DEF CompareEpoch, coordVars
<1>2. CASE ~Die(s)
  <2>1. /\ mount[s].epoch # Absent
        /\ currentEpoch'[s] = Text(mount[s].epoch)
        /\ pc'[s] = "size" /\ site'[s] \in {"bump", "recheck"}
        /\ UNCHANGED <<lastEpoch, targetInfo, initiator, issued, published, mount, entitled>>
    BY <1>2 DEF CompareEpoch, Enter, TypeOK, coordVars
  <2>2. ControlInv(s)' /\ SilentInv(s)'
    BY <2>1 DEF ControlInv, SilentInv
  <2>3. MountInv(s)'
    BY <2>1, ReadEpochBound DEF SourceInv, MountInv
  <2>4. FreshInv(s)'
    BY <2>1 DEF SourceInv, FreshInv, ChildFresh, StartFresh
  <2>5. EntitledInv(s)'
    BY <2>1 DEF SourceInv, EntitledInv, Selected
  <2>6. QED
    BY <2>2, <2>3, <2>4, <2>5 DEF SourceInv
<1>3. QED
  BY <1>1, <1>2

\* Where the script goes once the child is gone.
LEMMA AfterStopInv ==
    ASSUME TypeOK, NEW s \in Sources, SourceInv(s), pc[s] \in {"term", "reap"},
           initiator' = [initiator EXCEPT ![s] = NoInitiator], AfterStop(s),
           UNCHANGED <<coordVars, currentEpoch, targetInfo, entitled>>
    PROVE  SourceInv(s)'
<1>1. /\ initiator'[s] = NoInitiator
      /\ UNCHANGED <<issued, published, mount, currentEpoch, targetInfo, entitled>>
  BY DEF TypeOK, coordVars
<1>2. \/ /\ site[s] \in {"gate", "bump"} /\ site' = site /\ pc'[s] = "read"
         /\ lastEpoch'[s] \in {lastEpoch[s], currentEpoch[s]}
      \/ site'[s] = "gate" /\ pc'[s] = "size" /\ lastEpoch'[s] = Empty
  BY DEF AfterStop, Goto, Enter, TypeOK
<1>3. Empty \notin Epochs
  BY ConstantsAssumption DEF Epochs, Blank
<1>4. ControlInv(s)' /\ SilentInv(s)'
  BY <1>1, <1>2 DEF ControlInv, SilentInv
<1>5. MountInv(s)'
  BY <1>1, <1>2, <1>3 DEF SourceInv, MountInv
<1>6. FreshInv(s)'
  BY <1>1, <1>2 DEF FreshInv, ChildFresh, StartFresh, NoInitiator
<1>7. EntitledInv(s)'
  BY <1>1, <1>2 DEF SourceInv, EntitledInv, Selected
<1>8. QED
  BY <1>4, <1>5, <1>6, <1>7 DEF SourceInv

LEMMA StopInv ==
    ASSUME TypeOK, NEW s \in Sources, SourceInv(s), TermInitiator(s) \/ ReapInitiator(s)
    PROVE  SourceInv(s)'
<1>1. CASE TermInitiator(s) /\ initiator[s].state = "running"
  <2>1. /\ pc[s] = "term" /\ pc'[s] = "reap" /\ site' = site
        /\ initiator'[s].state = "terminating"
        /\ UNCHANGED <<issued, published, mount, currentEpoch, lastEpoch, targetInfo, entitled>>
    BY <1>1 DEF TermInitiator, Child, Goto, TypeOK, coordVars
  <2>2. site[s] # "gate"
    BY <1>1 DEF SourceInv, SilentInv, NoInitiator
  <2>3. ControlInv(s)' /\ SilentInv(s)'
    BY <2>1, <2>2 DEF ControlInv, SilentInv
  <2>4. MountInv(s)' /\ FreshInv(s)'
    BY <2>1 DEF SourceInv, MountInv, FreshInv, ChildFresh, StartFresh
  <2>5. EntitledInv(s)'
    BY <2>1 DEF SourceInv, EntitledInv, Selected
  <2>6. QED
    BY <2>3, <2>4, <2>5 DEF SourceInv
<1>2. CASE TermInitiator(s) /\ initiator[s].state # "running"
  BY <1>2, AfterStopInv DEF TermInitiator
<1>3. CASE ReapInitiator(s)
  BY <1>3, AfterStopInv DEF ReapInitiator
<1>4. QED
  BY <1>1, <1>2, <1>3

\* What start_initiator reads was published no earlier than the epoch the
\* script read before it.
LEMMA ReadTargetInfoInv ==
    ASSUME TypeOK, NEW s \in Sources, SourceInv(s), ReadTargetInfo(s)
    PROVE  SourceInv(s)'
<1>1. CASE Die(s)
  BY <1>1, DieInv DEF ReadTargetInfo, coordVars
<1>2. CASE ~Die(s)
  <2>1. /\ pc[s] = "read" /\ pc'[s] = "launch" /\ site' = site
        /\ mount[s].info # Absent
        /\ targetInfo'[s] = Text(mount[s].info)
        /\ UNCHANGED <<issued, published, mount, currentEpoch, lastEpoch, initiator, entitled>>
    BY <1>2 DEF ReadTargetInfo, Goto, TypeOK, coordVars
  <2>2. ControlInv(s)' /\ SilentInv(s)'
    BY <2>1 DEF SourceInv, ControlInv, SilentInv
  <2>3. MountInv(s)'
    BY <2>1 DEF SourceInv, MountInv
  <2>4. FreshInv(s)'
    <3>1. ASSUME targetInfo'[s] # Empty
          PROVE  \E e \in Epochs :
                     /\ issued[e] = targetInfo'[s]
                     /\ e <= published[s]
                     /\ FiledUnder(s) # Empty => FiledUnder(s) <= e
      <4>1. targetInfo'[s] = mount[s].info /\ mount[s].info \in Infos
        BY <2>1, <3>1, TextType DEF Text
      <4>2. published[s] \in Epochs /\ issued[published[s]] = targetInfo'[s]
        BY <4>1, ConstantsAssumption DEF SourceInv, MountInv, TypeOK, Epochs
      <4>3. FiledUnder(s) # Empty => FiledUnder(s) <= published[s]
        BY DEF FiledUnder, SourceInv, MountInv, TypeOK
      <4>4. QED
        BY <4>2, <4>3 DEF Epochs
    <3>2. StartFresh(s)'
      BY <2>1, <3>1 DEF StartFresh, FiledUnder
    <3>3. ChildFresh(s)'
      BY <2>1 DEF SourceInv, FreshInv, ChildFresh
    <3>4. QED
      BY <3>2, <3>3 DEF FreshInv
  <2>5. EntitledInv(s)'
    BY <2>1 DEF SourceInv, EntitledInv, Selected
  <2>6. QED
    BY <2>2, <2>3, <2>4, <2>5 DEF SourceInv
<1>3. QED
  BY <1>1, <1>2

LEMMA LaunchInv ==
    ASSUME TypeOK, NEW s \in Sources, SourceInv(s), LaunchInitiator(s)
    PROVE  SourceInv(s)'
<1>1. /\ pc[s] = "launch"
      /\ initiator'[s] = [state |-> "running", info |-> targetInfo[s]]
      /\ lastEpoch'[s] = FiledUnder(s)
      /\ \/ pc'[s] = "bump" /\ site'[s] = "bump"
         \/ pc'[s] = "size" /\ site'[s] = "recheck"
      /\ entitled'[s] = Selected(s)
      /\ UNCHANGED <<issued, published, mount, currentEpoch, targetInfo>>
  BY DEF LaunchInitiator, FiledUnder, Enter, TypeOK, coordVars
<1>2. ControlInv(s)' /\ SilentInv(s)'
  BY <1>1 DEF ControlInv, SilentInv
<1>3. MountInv(s)'
  BY <1>1 DEF SourceInv, MountInv, FiledUnder
<1>4. FreshInv(s)'
  BY <1>1 DEF SourceInv, FreshInv, ChildFresh, StartFresh
<1>5. EntitledInv(s)'
  BY <1>1 DEF EntitledInv, Selected
<1>6. QED
  BY <1>2, <1>3, <1>4, <1>5 DEF SourceInv

LEMMA ScriptInv ==
    ASSUME TypeOK, NEW s \in Sources, SourceInv(s), Script(s)
    PROVE  SourceInv(s)'
BY MovingStepsInv, ReadEntryEpochInv, CompareEpochInv, StopInv, ReadTargetInfoInv,
   LaunchInv DEF Script

LEMMA PodInv ==
    ASSUME TypeOK, NEW s \in Sources, SourceInv(s), Pod(s)
    PROVE  SourceInv(s)'
<1>1. CASE InitiatorObeysTerm(s) \/ InitiatorRejectsEmptyInfo(s) \/ InitiatorCrashes(s)
  <2>1. /\ initiator[s].state \in {"running", "terminating"}
        /\ initiator'[s].state = "exited"
        /\ UNCHANGED <<issued, published, mount, pc, site, currentEpoch, lastEpoch,
                       targetInfo, entitled>>
    BY <1>1 DEF InitiatorObeysTerm, InitiatorRejectsEmptyInfo, InitiatorCrashes, Child,
       TypeOK, coordVars, scriptVars
  <2>2. ControlInv(s)' /\ SilentInv(s)'
    BY <2>1 DEF SourceInv, ControlInv, SilentInv, NoInitiator
  <2>3. MountInv(s)'
    BY <2>1 DEF SourceInv, MountInv
  <2>4. FreshInv(s)'
    BY <2>1 DEF SourceInv, FreshInv, ChildFresh, StartFresh, FiledUnder
  <2>5. EntitledInv(s)'
    BY <2>1 DEF SourceInv, EntitledInv, Selected
  <2>6. QED
    BY <2>2, <2>3, <2>4, <2>5 DEF SourceInv
<1>2. CASE ContainerKilled(s) \/ PodReplaced(s)
  BY <1>2, DieInv DEF ContainerKilled, PodReplaced
<1>3. CASE ContainerRestarts(s)
  <2>1. /\ pc[s] = "exited" /\ pc'[s] = "flow" /\ site'[s] = "gate"
        /\ UNCHANGED <<issued, published, mount, currentEpoch, lastEpoch,
                       targetInfo, initiator, entitled>>
    BY <1>3 DEF ContainerRestarts, Enter, TypeOK, coordVars
  <2>2. ControlInv(s)' /\ SilentInv(s)'
    BY <2>1 DEF SourceInv, ControlInv, SilentInv
  <2>3. MountInv(s)' /\ FreshInv(s)'
    BY <2>1 DEF SourceInv, MountInv, FreshInv, ChildFresh, StartFresh
  <2>4. EntitledInv(s)'
    BY <2>1 DEF SourceInv, EntitledInv, Selected
  <2>5. QED
    BY <2>2, <2>3, <2>4 DEF SourceInv
<1>4. CASE FlowAppears(s)
  BY <1>4, UntouchedInv DEF FlowAppears, coordVars, scriptVars
<1>5. QED
  BY <1>1, <1>2, <1>3, <1>4 DEF Pod, Fault

\* A publication is recorded under an epoch that has none, so it changes the
\* meaning of no epoch in use.
LEMMA IssueInv ==
    ASSUME TypeOK, NEW s \in Sources, SourceInv(s),
           NEW new \in Epochs, NEW payload \in Infos, Issue(new, payload)
    PROVE  SourceInv(s)'
<1>1. /\ issued[new] = Empty
      /\ UNCHANGED <<published, mount, pc, site, currentEpoch, lastEpoch, targetInfo,
                     initiator, entitled>>
  BY ConstantsAssumption DEF Issue, Epochs, scriptVars
<1>2. \A f \in Epochs : issued[f] # Empty => issued'[f] = issued[f]
  BY <1>1 DEF Issue, TypeOK
<1>3. ControlInv(s)' /\ SilentInv(s)'
  BY <1>1 DEF SourceInv, ControlInv, SilentInv
<1>4. published[s] > 0 => issued[published[s]] # Empty /\ issued'[published[s]] = issued[published[s]]
  BY <1>2, ConstantsAssumption DEF SourceInv, MountInv, TypeOK, Epochs
<1>5. MountInv(s)'
  BY <1>1, <1>4 DEF SourceInv, MountInv
<1>6. ChildFresh(s)'
  BY <1>1, <1>2 DEF SourceInv, FreshInv, ChildFresh
<1>7. StartFresh(s)'
  BY <1>1, <1>2 DEF SourceInv, FreshInv, StartFresh, FiledUnder
<1>8. EntitledInv(s)'
  BY <1>1 DEF SourceInv, EntitledInv, Selected
<1>9. QED
  BY <1>3, <1>5, <1>6, <1>7, <1>8 DEF SourceInv, FreshInv

LEMMA ProjectInv ==
    ASSUME TypeOK, NEW s \in Sources, SourceInv(s), NEW e \in 0..MaxEpoch,
           NEW snapshot \in SnapshotsOf(e), Project(s, e, snapshot)
    PROVE  SourceInv(s)'
<1>1. /\ e >= published[s]
      /\ e > 0 => issued[e] # Empty
      /\ published'[s] = e /\ mount'[s] = snapshot
      /\ entitled'[s] = (entitled[s] \/ Selected(s)')
      /\ UNCHANGED <<issued, pc, site, currentEpoch, lastEpoch, targetInfo, initiator>>
  BY DEF Project, TypeOK, scriptVars
<1>2. Absent \notin Epochs /\ Empty \notin Epochs /\ Absent \notin Infos /\ Empty \notin Infos
  BY ConstantsAssumption DEF Epochs, Blank
<1>3. /\ published[s] \in Nat /\ e \in Nat
      /\ currentEpoch[s] \in Epochs => currentEpoch[s] \in Nat
      /\ lastEpoch[s] \in Epochs => lastEpoch[s] \in Nat
  BY ConstantsAssumption DEF TypeOK, Epochs
<1>4. ControlInv(s)' /\ SilentInv(s)'
  BY <1>1 DEF SourceInv, ControlInv, SilentInv
<1>5. MountInv(s)'
  <2>0. /\ snapshot.epoch \in IF e = 0 THEN Blank ELSE Blank \cup {e}
        /\ snapshot.info \in IF e = 0 THEN Blank ELSE Blank \cup {issued[e]}
    BY DEF SnapshotsOf
  <2>1. snapshot.epoch \in Epochs => snapshot.epoch = e
    BY <1>2, <2>0 DEF Blank
  <2>2. snapshot.info \in Infos => e > 0 /\ snapshot.info = issued[e]
    BY <1>2, <1>3, <2>0 DEF Blank
  <2>3. QED
    BY <1>1, <1>3, <2>1, <2>2 DEF SourceInv, MountInv
<1>6. FreshInv(s)'
  BY <1>1, <1>3 DEF SourceInv, FreshInv, ChildFresh, StartFresh, FiledUnder, Epochs
<1>7. EntitledInv(s)'
  BY <1>1 DEF SourceInv, EntitledInv
<1>8. QED
  BY <1>4, <1>5, <1>6, <1>7 DEF SourceInv

LEMMA InvStep == IInv /\ [Next]_vars => IInv'
<1>1. SUFFICES ASSUME IInv, [Next]_vars
               PROVE  \A t \in Sources : SourceInv(t)'
  BY ScriptType, PodType, CoordinatorType, StutterType DEF IInv, Next
<1>2. ASSUME NEW s \in Sources, Script(s) \/ Pod(s), NEW t \in Sources
      PROVE  SourceInv(t)'
  <2>1. CASE t = s
    BY <1>1, <1>2, <2>1, ScriptInv, PodInv DEF IInv
  <2>2. CASE t # s
    BY <1>1, <1>2, <2>2, OthersUntouched, UntouchedInv DEF IInv
  <2>3. QED
    BY <2>1, <2>2
<1>3. ASSUME NEW e \in Epochs, NEW info \in Infos, Issue(e, info), NEW t \in Sources
      PROVE  SourceInv(t)'
  BY <1>1, <1>3, IssueInv DEF IInv
<1>4. ASSUME NEW s \in Sources, NEW e \in 0..MaxEpoch, NEW snapshot \in SnapshotsOf(e),
             Project(s, e, snapshot), NEW t \in Sources
      PROVE  SourceInv(t)'
  <2>1. CASE t = s
    BY <1>1, <1>4, <2>1, ProjectInv DEF IInv
  <2>2. CASE t # s
    <3>1. /\ published'[t] = published[t] /\ mount'[t] = mount[t]
          /\ entitled'[t] = entitled[t]
          /\ UNCHANGED <<issued, pc, site, currentEpoch, lastEpoch, targetInfo, initiator>>
      BY <1>1, <1>4, <2>2 DEF IInv, Project, TypeOK, scriptVars
    <3>2. QED
      BY <1>1, <3>1 DEF IInv, SourceInv, ControlInv, SilentInv, MountInv, FreshInv,
         ChildFresh, StartFresh, FiledUnder, EntitledInv, Selected
  <2>3. QED
    BY <2>1, <2>2
<1>5. ASSUME UNCHANGED vars, NEW t \in Sources
      PROVE  SourceInv(t)'
  BY <1>1, <1>5, UntouchedInv DEF IInv, vars
<1>6. QED
  BY <1>1, <1>2, <1>3, <1>4, <1>5 DEF Next, Coordinator

LEMMA Invariant == Spec => []IInv
<1>1. Init => IInv
  BY InitType, InitInv DEF IInv
<1>2. QED
  BY <1>1, InvStep, PTL DEF Spec

\* A source at the gate, or about to start a child, has none: at most one
\* initiator per source, and silence while it is not serving.
THEOREM SilentUnlessServingHolds == Spec => []SilentUnlessServing
<1>1. IInv => SilentUnlessServing
  BY DEF IInv, SourceInv, SilentInv, SilentUnlessServing
<1>2. QED
  BY <1>1, Invariant, PTL

\* A child the script takes to serve the epoch in its mount was not given the
\* target-info of an earlier publication, however reads and projections
\* interleave.
THEOREM NeverStaleHolds == Spec => []NeverStale
<1>1. ASSUME IInv, NEW s \in Sources, initiator[s].state = "running",
             lastEpoch[s] \in Epochs, lastEpoch[s] = mount[s].epoch
      PROVE  initiator[s].info \in {issued[lastEpoch[s]], Empty}
  <2>1. lastEpoch[s] = published[s] /\ lastEpoch[s] # Empty
    BY <1>1, ConstantsAssumption DEF IInv, SourceInv, MountInv, Epochs, Blank
  <2>2. ChildFresh(s)
    BY <1>1 DEF IInv, SourceInv, FreshInv
  <2>3. CASE initiator[s].info # Empty
    <3>1. PICK e \in Epochs : /\ issued[e] = initiator[s].info
                              /\ e <= published[s] /\ lastEpoch[s] <= e
      BY <1>1, <2>1, <2>2, <2>3 DEF ChildFresh
    <3>2. e = lastEpoch[s]
      BY <1>1, <2>1, <3>1, ConstantsAssumption DEF Epochs
    <3>3. QED
      BY <3>1, <3>2
  <2>4. QED
    BY <2>3
<1>2. IInv => NeverStale
  BY <1>1 DEF NeverStale
<1>3. QED
  BY <1>2, Invariant, PTL

\* A named source starts a child only on a selection it has seen and not used
\* up: none before the first selection, at most one after a de-selection.
THEOREM OneLateStartHolds == Spec => []OneLateStart
<1>1. IInv => OneLateStart
  BY DEF IInv, SourceInv, ControlInv, EntitledInv, OneLateStart
<1>2. QED
  BY <1>1, Invariant, PTL

(***************************************************************************)
(* Refinement.  A start is Open, the end of a child is Close, the          *)
(* coordinator's steps are themselves, and everything else stutters.       *)
(***************************************************************************)

LinkOf(child) == IF child.state \in {"running", "terminating"} THEN {child.info} ELSE {}

LEMMA LinkIs == Link = [t \in Sources |-> LinkOf(initiator[t])]
BY DEF Link, LinkOf, Transmitting

LEMMA LinkChange ==
    ASSUME TypeOK, NEW s \in Sources, NEW STATE child,
           initiator' = [initiator EXCEPT ![s] = child]
    PROVE  Link' = [Link EXCEPT ![s] = LinkOf(child)]
<1>1. Link' = [t \in Sources |-> LinkOf(initiator'[t])]
  BY DEF Link, LinkOf, Transmitting
<1>2. \A t \in Sources : initiator'[t] = IF t = s THEN child ELSE initiator[t]
  BY DEF TypeOK
<1>3. QED
  BY <1>1, <1>2, LinkIs

LEMMA LinkSame ==
    ASSUME UNCHANGED <<issued, published, mount, initiator, entitled>>
    PROVE  UNCHANGED Gate!vars
BY DEF Gate!vars, Link, Transmitting

\* A child that ends, or goes on, closes the link or leaves it as it is.
LEMMA EndImplements ==
    ASSUME TypeOK, NEW s \in Sources, NEW STATE child,
           initiator' = [initiator EXCEPT ![s] = child],
           child.state \in {"running", "terminating"} =>
               child.info = initiator[s].info /\ Transmitting(s),
           UNCHANGED <<issued, published, mount, entitled>>
    PROVE  Gate!Close(s) \/ UNCHANGED Gate!vars
<1>1. Link' = [Link EXCEPT ![s] = LinkOf(child)]
  BY LinkChange
<1>2. Link[s] = LinkOf(initiator[s])
  BY LinkIs
<1>3. CASE child.state \in {"running", "terminating"}
  <2>1. LinkOf(child) = Link[s]
    BY <1>2, <1>3 DEF LinkOf, Transmitting
  <2>2. Link' = Link
    BY <1>1, <2>1, LinkIs
  <2>3. QED
    BY <2>2 DEF Gate!vars
<1>4. CASE child.state \notin {"running", "terminating"}
  <2>1. Link' = [Link EXCEPT ![s] = {}]
    BY <1>1, <1>4 DEF LinkOf
  <2>2. CASE Link[s] = {}
    BY <2>1, <2>2, LinkIs DEF Gate!vars
  <2>3. CASE Link[s] # {}
    BY <2>1, <2>3 DEF Gate!Close
  <2>4. QED
    BY <2>2, <2>3
<1>5. QED
  BY <1>3, <1>4

LEMMA LaunchImplements ==
    ASSUME TypeOK, NEW s \in Sources, SourceInv(s), LaunchInitiator(s)
    PROVE  Gate!Open(s)
<1> DEFINE child == [state |-> "running", info |-> targetInfo[s]]
<1>1. Link[s] = {}
  BY LinkIs DEF LinkOf, LaunchInitiator, SourceInv, SilentInv, NoInitiator
<1>2. OwnId[s] # Empty => entitled[s]
  BY DEF LaunchInitiator, SourceInv, ControlInv, EntitledInv
<1>3. Link' = [Link EXCEPT ![s] = {targetInfo[s]}]
  <2>1. initiator' = [initiator EXCEPT ![s] = child]
    BY DEF LaunchInitiator
  <2>2. Link' = [Link EXCEPT ![s] = LinkOf(child)]
    BY <2>1, LinkChange
  <2>3. QED
    BY <2>2 DEF LinkOf
<1>4. targetInfo[s] \in Gate!Known(s)
  BY DEF LaunchInitiator, SourceInv, FreshInv, StartFresh, Gate!Known, Epochs
<1>5. entitled' = [entitled EXCEPT ![s] = Gate!Selects(mount[s], s)]
  BY DEF LaunchInitiator, Gate!Selects, Gate!Blank, Blank, Selected, HasContent
<1>6. UNCHANGED <<issued, published, mount>>
  BY DEF LaunchInitiator, coordVars
<1>7. QED
  BY <1>1, <1>2, <1>3, <1>4, <1>5, <1>6 DEF Gate!Open

LEMMA DieImplements ==
    ASSUME TypeOK, NEW s \in Sources, Die(s), UNCHANGED <<issued, published, mount, entitled>>
    PROVE  Gate!Close(s) \/ UNCHANGED Gate!vars
<1>1. initiator' = [initiator EXCEPT ![s] = NoInitiator]
  BY DEF Die
<1>2. NoInitiator.state \notin {"running", "terminating"}
  BY DEF NoInitiator
<1>3. QED
  BY <1>1, <1>2, EndImplements

LEMMA ScriptImplements ==
    ASSUME TypeOK, NEW s \in Sources, SourceInv(s), Script(s)
    PROVE  Gate!Open(s) \/ Gate!Close(s) \/ UNCHANGED Gate!vars
<1> USE DEF coordVars
<1>1. CASE LaunchInitiator(s)
  BY <1>1, LaunchImplements
<1>2. CASE ReadEntryEpoch(s) \/ ReadTargetInfo(s) \/ CompareEpoch(s)
  BY <1>2, DieImplements, LinkSame DEF ReadEntryEpoch, ReadTargetInfo, CompareEpoch
<1>3. CASE TermInitiator(s) /\ initiator[s].state = "running"
  <2> DEFINE child == [state |-> "terminating", info |-> initiator[s].info]
  <2>1. initiator' = [initiator EXCEPT ![s] = child]
    BY <1>3 DEF TermInitiator, Child
  <2>2. child.info = initiator[s].info /\ Transmitting(s)
    BY <1>3 DEF Transmitting
  <2>3. UNCHANGED <<issued, published, mount, entitled>>
    BY <1>3 DEF TermInitiator
  <2>4. QED
    BY <2>1, <2>2, <2>3, EndImplements
<1>4. CASE ReapInitiator(s) \/ (TermInitiator(s) /\ initiator[s].state # "running")
  <2>1. /\ initiator' = [initiator EXCEPT ![s] = NoInitiator]
        /\ UNCHANGED <<issued, published, mount, entitled>>
    BY <1>4 DEF ReapInitiator, TermInitiator
  <2>2. NoInitiator.state \notin {"running", "terminating"}
    BY DEF NoInitiator
  <2>3. QED
    BY <2>1, <2>2, EndImplements
<1>5. CASE \/ WaitForFlow(s) \/ TestActiveSource(s) \/ CompareActiveSource(s)
           \/ TestTargetInfo(s) \/ TestEpoch(s) \/ TestEpochFile(s) \/ TestAlive(s)
  BY <1>5, LinkSame DEF WaitForFlow, TestActiveSource, CompareActiveSource,
     TestTargetInfo, TestEpoch, TestEpochFile, TestAlive
<1>6. QED
  BY <1>1, <1>2, <1>3, <1>4, <1>5 DEF Script

LEMMA PodImplements ==
    ASSUME TypeOK, NEW s \in Sources, Pod(s)
    PROVE  Gate!Close(s) \/ UNCHANGED Gate!vars
<1> USE DEF coordVars, scriptVars
<1>1. CASE InitiatorObeysTerm(s) \/ InitiatorRejectsEmptyInfo(s) \/ InitiatorCrashes(s)
  <2> DEFINE child == [state |-> "exited", info |-> initiator[s].info]
  <2>1. /\ initiator' = [initiator EXCEPT ![s] = child]
        /\ UNCHANGED <<issued, published, mount, entitled>>
    BY <1>1 DEF InitiatorObeysTerm, InitiatorRejectsEmptyInfo, InitiatorCrashes, Child
  <2>2. child.state \notin {"running", "terminating"}
    OBVIOUS
  <2>3. QED
    BY <2>1, <2>2, EndImplements
<1>2. CASE ContainerKilled(s) \/ PodReplaced(s)
  BY <1>2, DieImplements DEF ContainerKilled, PodReplaced
<1>3. CASE ContainerRestarts(s) \/ FlowAppears(s)
  BY <1>3, LinkSame DEF ContainerRestarts, FlowAppears
<1>4. QED
  BY <1>1, <1>2, <1>3 DEF Pod, Fault

LEMMA CoordinatorImplements ==
    ASSUME TypeOK, Coordinator
    PROVE  Gate!Next
<1>1. ASSUME NEW e \in Epochs, NEW info \in Infos, Issue(e, info)
      PROVE  Gate!Publish(e, info)
  BY <1>1 DEF Issue, Gate!Publish, Link, Transmitting
<1>2. ASSUME NEW s \in Sources, NEW e \in 0..MaxEpoch, NEW snapshot \in SnapshotsOf(e),
             Project(s, e, snapshot)
      PROVE  Gate!Learn(s, e, snapshot)
  <2>1. Link' = Link
    BY <1>2 DEF Project, Link, Transmitting
  <2>2. Selected(s)' = Gate!Selects(snapshot, s)
    BY <1>2 DEF Project, Selected, HasContent, Gate!Selects, Gate!Blank, Blank, TypeOK
  <2>3. entitled' = [entitled EXCEPT ![s] = entitled[s] \/ Gate!Selects(snapshot, s)]
    BY <1>2, <2>2 DEF Project
  <2>4. QED
    BY <1>2, <2>1, <2>3 DEF Project, Gate!Learn
<1>3. \A e \in 0..MaxEpoch : SnapshotsOf(e) = Gate!SnapshotsOf(e)
  BY DEF SnapshotsOf, Gate!SnapshotsOf, Blank, Gate!Blank
<1>4. QED
  BY <1>1, <1>2, <1>3 DEF Coordinator, Gate!Next, Epochs, Gate!Epochs

\* Every behaviour of the supervisors is one the abstract source allows.
THEOREM ImplementsGateHolds == Spec => ImplementsGate
<1>1. Init => Gate!Init
  BY DEF Init, Gate!Init, Gate!Epochs, Epochs, Link, Transmitting, NoInitiator
<1>2. IInv /\ [Next]_vars => [Gate!Next]_Gate!vars
  <2>1. ASSUME IInv, NEW s \in Sources, Script(s) \/ Pod(s)
        PROVE  Gate!Open(s) \/ Gate!Close(s) \/ UNCHANGED Gate!vars
    BY <2>1, ScriptImplements, PodImplements DEF IInv
  <2>2. ASSUME UNCHANGED vars
        PROVE  UNCHANGED Gate!vars
    BY <2>2, LinkSame DEF vars
  <2>3. QED
    BY <2>1, <2>2, CoordinatorImplements DEF IInv, Next, Gate!Next
<1>3. QED
  BY <1>1, <1>2, Invariant, PTL DEF Spec, ImplementsGate, Gate!Spec
=============================================================================
