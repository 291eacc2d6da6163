---------------------------- MODULE MCSinkPacing ----------------------------
(* A small instance of SinkPacing by itself: two flows that publish up to    *)
(* two grains, of which one is read.                                         *)
EXTENDS SinkPacing

MCLastHead == [s \in Streams |-> 2]
MCLastGrain == [s \in Streams |-> 1]
=============================================================================
