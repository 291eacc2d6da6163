---------------------------- MODULE ViewHandshake ----------------------------
(***************************************************************************)
(* The announcing half of the handshake: the view pod of                   *)
(* charts/mxl-fabrics-demo/templates/view-handshake.yaml.  target-wrap.sh  *)
(* stamps an epoch, runs the receiving target and copies the target-info   *)
(* it prints to a file; publish-target-info.sh, in a container of its own, *)
(* patches file and epoch into the mxl-coordinator ConfigMap.  They share  *)
(* an emptyDir, which outlives their containers but not their pod.         *)
(*                                                                         *)
(* The n-th target process of the run prints the target-info n, and 0 is   *)
(* a file without content or an empty key.  Epochs (pod uid and second)    *)
(* are numbered in the order they are stamped.                             *)
(***************************************************************************)
EXTENDS Naturals

CONSTANTS
    MaxStarts,   \* bound: starts of the target container
    SameSecond   \* may a restarted container stamp its predecessor's second?

ASSUME ViewAssumption == MaxStarts \in Nat /\ SameSecond \in BOOLEAN

VARIABLES
    starts,      \* target containers started so far
    podBase,     \* how many of them belong to earlier pods
    stamp,       \* the newest epoch stamped
    files,       \* /shared: target-info, epoch, and the log's "Target info:"
    target,      \* the target process and its tee
    wrapper,     \* target-wrap.sh: its next step and its $line
    publisher,   \* publish-target-info.sh: its next step and its variables
    coordinator, \* target-info and epoch in the ConfigMap
    cleared,     \* history: a key was cleared after the last patch
    announced    \* history: announced[e] is the target-info patched with e

fileVars == <<starts, podBase, stamp, files, target, wrapper>>
viewVars == <<fileVars, publisher, coordinator, cleared, announced>>

TargetInfos  == 0..MaxStarts
Stamps == 0..MaxStarts
Pair   == [info : TargetInfos, epoch : Stamps]
Nothing == [info |-> 0, epoch |-> 0]
InFiles == [info |-> files.info, epoch |-> files.epoch]

ViewTypeOK ==
    /\ starts \in 0..MaxStarts
    /\ podBase \in 0..starts
    /\ stamp \in 0..starts
    /\ files \in [info : TargetInfos, epoch : Stamps, log : TargetInfos]
    /\ target \in {"none", "spawned", "logging", "ready"}
    /\ wrapper \in [pc : {"stamp", "watch", "write", "wait", "exited"}, line : TargetInfos]
    /\ publisher \in [pc : {"test", "sign", "read", "patch", "exited"},
                      lastSig : Pair, curSig : Pair, patch : Pair]
    /\ coordinator \in Pair
    /\ cleared \in BOOLEAN
    /\ announced \in [1..MaxStarts -> TargetInfos]

NoFiles      == [info |-> 0, epoch |-> 0, log |-> 0]
WrapperGone  == [pc |-> "exited", line |-> 0]
PublisherAt(pc) == [pc |-> pc, lastSig |-> Nothing, curSig |-> Nothing, patch |-> Nothing]

ViewInit ==
    /\ starts = 0 /\ podBase = 0 /\ stamp = 0
    /\ files = NoFiles
    /\ target = "none"
    /\ wrapper = WrapperGone
    /\ publisher = PublisherAt("test")
    /\ coordinator = Nothing
    /\ cleared = FALSE
    /\ announced = [e \in 1..MaxStarts |-> 0]

-----------------------------------------------------------------------------
(* The target container.                                                   *)

\* Lines 59-60: date, and the redirection that truncates the epoch file.
TargetContainerStarts ==
    /\ wrapper.pc = "exited"
    /\ starts < MaxStarts
    /\ starts' = starts + 1
    /\ \/ stamp' = stamp + 1
       \/ SameSecond /\ starts > podBase /\ stamp' = stamp
    /\ files' = [files EXCEPT !.epoch = 0]
    /\ wrapper' = [pc |-> "stamp", line |-> 0]
    /\ UNCHANGED <<podBase, target, publisher, coordinator, cleared, announced>>

\* Mutant: the epoch written is one ahead of the one stamped.
StampNextEpoch ==
    /\ wrapper.pc = "stamp"
    /\ files' = [files EXCEPT !.epoch = stamp + 1]
    /\ target' = "spawned"
    /\ wrapper' = [wrapper EXCEPT !.pc = "watch"]
    /\ UNCHANGED <<starts, podBase, stamp, publisher, coordinator, cleared, announced>>

\* Line 60, the write, and the pipeline of lines 61-64.
StampEpoch ==
    /\ wrapper.pc = "stamp"
    /\ files' = [files EXCEPT !.epoch = stamp]
    /\ target' = "spawned"
    /\ wrapper' = [wrapper EXCEPT !.pc = "watch"]
    /\ UNCHANGED <<starts, podBase, stamp, publisher, coordinator, cleared, announced>>

\* tee opens, and so truncates, the log of the previous container.
TeeOpensLog ==
    /\ target = "spawned"
    /\ target' = "logging"
    /\ files' = [files EXCEPT !.log = 0]
    /\ UNCHANGED <<starts, podBase, stamp, wrapper, publisher, coordinator, cleared, announced>>

TargetPrintsInfo ==
    /\ target = "logging"
    /\ target' = "ready"
    /\ files' = [files EXCEPT !.log = starts]
    /\ UNCHANGED <<starts, podBase, stamp, wrapper, publisher, coordinator, cleared, announced>>

\* Mutant: the wrapper waits for its own target's line whatever the file holds.
WatchLogAlways ==
    /\ wrapper.pc = "watch"
    /\ \/ target = "none" /\ wrapper' = [wrapper EXCEPT !.pc = "wait"]
       \/ target # "none" /\ files.log # 0 /\ wrapper' = [pc |-> "write", line |-> files.log]
    /\ UNCHANGED <<starts, podBase, stamp, files, target, publisher, coordinator, cleared, announced>>

\* One round of the loop at lines 66-76 that leads somewhere: the process is
\* gone, the file has content already, or the log has the line.  Only the
\* wrapper writes the file, so the instant of the grep is that of the round.
WatchLog ==
    /\ wrapper.pc = "watch"
    /\ \/ /\ target = "none" \/ files.info # 0
          /\ wrapper' = [wrapper EXCEPT !.pc = "wait"]
       \/ /\ target # "none" /\ files.info = 0 /\ files.log # 0
          /\ wrapper' = [pc |-> "write", line |-> files.log]
    /\ UNCHANGED <<starts, podBase, stamp, files, target, publisher, coordinator, cleared, announced>>

\* Line 72.
WriteInfo ==
    /\ wrapper.pc = "write"
    /\ files' = [files EXCEPT !.info = wrapper.line]
    /\ wrapper' = [wrapper EXCEPT !.pc = "wait"]
    /\ UNCHANGED <<starts, podBase, stamp, target, publisher, coordinator, cleared, announced>>

\* Line 77: the container ends with its target.
WaitForTarget ==
    /\ wrapper.pc = "wait"
    /\ target = "none"
    /\ wrapper' = WrapperGone
    /\ UNCHANGED <<starts, podBase, stamp, files, target, publisher, coordinator, cleared, announced>>

TargetDies ==
    /\ target # "none"
    /\ target' = "none"
    /\ UNCHANGED <<starts, podBase, stamp, files, wrapper, publisher, coordinator, cleared, announced>>

TargetContainerKilled ==
    /\ wrapper.pc # "exited"
    /\ wrapper' = WrapperGone
    /\ target' = "none"
    /\ UNCHANGED <<starts, podBase, stamp, files, publisher, coordinator, cleared, announced>>

-----------------------------------------------------------------------------
(* The publisher container.  Within a pod the target-info file gains       *)
(* content once and keeps it, so a test or read of both files has the      *)
(* instant at which it reaches the second one, the epoch.                  *)

\* Line 85.
TestFiles ==
    /\ publisher.pc = "test"
    /\ files.info # 0 /\ files.epoch # 0
    /\ publisher' = [publisher EXCEPT !.pc = "sign"]
    /\ UNCHANGED <<fileVars, coordinator, cleared, announced>>

\* Lines 86-87: the checksums of both files against those of the last patch.
SignFiles ==
    /\ publisher.pc = "sign"
    /\ publisher' = [publisher EXCEPT !.curSig = InFiles,
                                      !.pc = IF InFiles # publisher.lastSig THEN "read" ELSE "test"]
    /\ UNCHANGED <<fileVars, coordinator, cleared, announced>>

\* Lines 88-90: the files are read again.
ReadFiles ==
    /\ publisher.pc = "read"
    /\ publisher' = [publisher EXCEPT !.patch = InFiles, !.pc = "patch"]
    /\ UNCHANGED <<fileVars, coordinator, cleared, announced>>

\* The merge patch reaches the ConfigMap.  An empty epoch is one whose stamp
\* is still being written.
Patch ==
    /\ coordinator' = publisher.patch
    /\ cleared' = FALSE
    /\ announced' = [announced EXCEPT
           ![IF publisher.patch.epoch = 0 THEN stamp ELSE publisher.patch.epoch] = publisher.patch.info]

\* Mutant: last_sig is computed when the patch is through.
PatchThenSign ==
    /\ publisher.pc = "patch"
    /\ Patch
    /\ publisher' = [publisher EXCEPT !.pc = "test", !.lastSig = InFiles]
    /\ UNCHANGED fileVars

\* Lines 91-92.
PatchCoordinator ==
    /\ publisher.pc = "patch"
    /\ Patch
    /\ publisher' = [publisher EXCEPT !.pc = "test", !.lastSig = publisher.curSig]
    /\ UNCHANGED fileVars

\* kubectl fails (set -e) or the container is killed; the API server may have
\* taken the patch all the same.
PublisherExits ==
    /\ publisher.pc # "exited"
    /\ publisher' = PublisherAt("exited")
    /\ \/ publisher.pc = "patch" /\ Patch
       \/ UNCHANGED <<coordinator, cleared, announced>>
    /\ UNCHANGED fileVars

PublisherRestarts ==
    /\ publisher.pc = "exited"
    /\ publisher' = PublisherAt("test")
    /\ UNCHANGED <<fileVars, coordinator, cleared, announced>>

-----------------------------------------------------------------------------
(* The pod and the operator of the demo.                                   *)

\* Mutant: /shared is a directory of the node.
ViewPodReplacedOnHostPath ==
    /\ podBase' = starts
    /\ target' = "none"
    /\ wrapper' = WrapperGone
    /\ publisher' = PublisherAt("test")
    /\ UNCHANGED <<starts, stamp, files, coordinator, cleared, announced>>

\* Recreate: the successor starts with an empty /shared once both containers
\* are gone.
ViewPodReplaced ==
    /\ podBase' = starts
    /\ files' = NoFiles
    /\ target' = "none"
    /\ wrapper' = WrapperGone
    /\ publisher' = PublisherAt("test")
    /\ UNCHANGED <<starts, stamp, coordinator, cleared, announced>>

\* The quiesce step of a switch clears the handshake keys.
ClearKeys ==
    /\ \E key \in {"info", "epoch"} : coordinator' = [coordinator EXCEPT ![key] = 0]
    /\ coordinator' # coordinator
    /\ cleared' = TRUE
    /\ UNCHANGED <<fileVars, publisher, announced>>

Wrapper   == TargetContainerStarts \/ StampEpoch \/ WatchLog \/ WriteInfo \/ WaitForTarget
Target    == TeeOpensLog \/ TargetPrintsInfo
Publisher == TestFiles \/ SignFiles \/ ReadFiles \/ PatchCoordinator \/ PublisherRestarts
ViewFault == TargetDies \/ TargetContainerKilled \/ PublisherExits \/ ViewPodReplaced

ViewNext == Wrapper \/ Target \/ Publisher \/ ViewFault \/ ClearKeys

ViewSpec == ViewInit /\ [][ViewNext]_viewVars

\* The kubelet restarts dead containers, the shells keep running and the
\* target prints its target-info; no fault and no clearing need happen.
ViewFairness == /\ WF_viewVars(Wrapper) /\ WF_viewVars(Target) /\ WF_viewVars(Publisher)

ViewFairSpec == ViewSpec /\ ViewFairness

-----------------------------------------------------------------------------
(* Safety.                                                                 *)

\* What the source pods rely on: an epoch is announced with one target-info
\* for good, and never after a later epoch, although the publisher reads the
\* files at other instants than it signs them, loses its memory, repeats
\* patches and has patches applied that it takes for failed (lines 83-93).
AnnouncesInOrder ==
    [][\A e \in 1..MaxStarts :
          announced'[e] # announced[e] => \A later \in e..MaxStarts : announced[later] = 0]_viewVars

\* A publisher that sees nothing to do has nothing to do: signatures taken
\* before the reads never make it skip files the ConfigMap does not carry,
\* short of somebody having cleared a key (lines 86-93).  It needs stamps
\* that differed so far: an epoch truncated and stamped again with the same
\* second can be announced empty and then be taken for announced.
NothingForgotten ==
    stamp = starts /\ publisher.pc # "exited" /\ publisher.lastSig = InFiles /\ files.epoch # 0
        => cleared \/ coordinator = InFiles \/ publisher.pc = "patch"

\* Replacing the pod is a safe way to replace the target: what is announced
\* before the target container of a pod first restarts is that target's own
\* target-info (lines 58-76, shared emptyDir of target.yaml:137-138).
FreshInNewPod ==
    publisher.pc = "patch" /\ starts = podBase + 1 => publisher.patch.info = starts

(* Liveness.                                                               *)

\* Once a target stays up and no more faults or clearings happen, its epoch
\* ends up announced with a target-info, unless two starts stamped the same
\* second, or a key was cleared after the publisher's last patch: the publisher
\* never restores a cleared key.
EndsAnnounced ==
    /\ <>[](target = "ready" /\ stamp = starts)
    /\ <>[][~ViewFault /\ ~ClearKeys]_viewVars
    => <>[](/\ files.info # 0
            /\ cleared \/ coordinator = [info |-> files.info, epoch |-> stamp])

-----------------------------------------------------------------------------
(* A statement of the comments that the scripts do not keep.               *)

\* The target "exposes its memory regions via target-info" (target.yaml:47-48):
\* the target-info announced with the epoch of the running target is its own.
ExposesItsOwnMemory ==
    target = "ready" /\ coordinator.epoch = stamp => coordinator.info \in {0, starts}
=============================================================================
