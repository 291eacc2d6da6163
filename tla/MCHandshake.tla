----------------------------- MODULE MCHandshake -----------------------------
(* Small instances of Handshake: target n prints the target-info n, every    *)
(* source is sourceA, and a source that is not selected finds no             *)
(* active-source file.                                                       *)
EXTENDS Handshake

CONSTANT sourceA

MCNamed == [s \in Sources |-> sourceA]
MCInfos == 1..MaxEpoch
=============================================================================
