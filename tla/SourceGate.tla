----------------------------- MODULE SourceGate -----------------------------
(***************************************************************************)
(* What a source promises the rest of the demo, without the script that    *)
(* keeps the promise (the comments of source-handshake.yaml, lines 47-69   *)
(* and 104-120, restricted to what holds at every instant): the link of a  *)
(* source is closed or open to one target; it opens only on a selection    *)
(* seen since the last time it opened unselected, and only to a target     *)
(* whose publication has reached the source.                               *)
(***************************************************************************)
EXTENDS Naturals

CONSTANTS Sources, Ids, OwnId, Infos, Absent, Empty, MaxEpoch

Blank  == {Absent, Empty}
Epochs == 1..MaxEpoch

VARIABLES
    issued,     \* issued[e]: the target-info published with epoch e
    published,  \* published[s]: newest epoch whose publication reached s
    mount,      \* mount[s]: what the coordinator tells s
    link,       \* link[s]: {} when closed, else the target-info in use
    entitled    \* entitled[s]: a selection of s has not been used up

vars == <<issued, published, mount, link, entitled>>

\* The coordinator's keys after the publication of epoch e; Blank: cleared.
SnapshotsOf(e) ==
    [active : Ids \cup Blank,
     info   : IF e = 0 THEN Blank ELSE Blank \cup {issued[e]},
     epoch  : IF e = 0 THEN Blank ELSE Blank \cup {e}]

Selects(snapshot, s) == snapshot.active \notin Blank /\ snapshot.active = OwnId[s]

Init ==
    /\ issued = [e \in Epochs |-> Empty]
    /\ published = [s \in Sources |-> 0]
    /\ mount = [s \in Sources |-> [active |-> Absent, info |-> Absent, epoch |-> Absent]]
    /\ link = [s \in Sources |-> {}]
    /\ entitled = [s \in Sources |-> FALSE]

\* Publications are numbered by their epoch and only get newer.
Publish(e, info) ==
    /\ \A later \in e..MaxEpoch : issued[later] = Empty
    /\ issued' = [issued EXCEPT ![e] = info]
    /\ UNCHANGED <<published, mount, link, entitled>>

\* The source learns the coordinator's state, no older than the last it knew.
Learn(s, e, snapshot) ==
    /\ e >= published[s]
    /\ e > 0 => issued[e] # Empty
    /\ published' = [published EXCEPT ![s] = e]
    /\ mount' = [mount EXCEPT ![s] = snapshot]
    /\ entitled' = [entitled EXCEPT ![s] = @ \/ Selects(snapshot, s)]
    /\ UNCHANGED <<issued, link>>

\* The targets this source may have been told of; Empty: a cleared key.
Known(s) == {issued[e] : e \in 1..published[s]} \cup {Empty}

Open(s) ==
    /\ link[s] = {}
    /\ OwnId[s] # Empty => entitled[s]
    /\ \E info \in Known(s) : link' = [link EXCEPT ![s] = {info}]
    /\ entitled' = [entitled EXCEPT ![s] = Selects(mount[s], s)]
    /\ UNCHANGED <<issued, published, mount>>

Close(s) ==
    /\ link[s] # {}
    /\ link' = [link EXCEPT ![s] = {}]
    /\ UNCHANGED <<issued, published, mount, entitled>>

Next ==
    \/ \E e \in Epochs, info \in Infos : Publish(e, info)
    \/ \E s \in Sources :
        \/ \E e \in 0..MaxEpoch : \E snapshot \in SnapshotsOf(e) : Learn(s, e, snapshot)
        \/ Open(s)
        \/ Close(s)

Spec == Init /\ [][Next]_vars
=============================================================================
