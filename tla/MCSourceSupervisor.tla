------------------------- MODULE MCSourceSupervisor -------------------------
(* A small instance of SourceSupervisor: every source is deployed with the  *)
(* sourceId sourceA, or with the chart's default, no sourceId at all; any   *)
(* other name in active-source is sourceB.                                  *)
EXTENDS SourceSupervisor

CONSTANTS sourceA, sourceB

MCIds       == {sourceA, sourceB}
MCNamed     == [s \in Sources |-> sourceA]
MCAnonymous == [s \in Sources |-> Empty]
=============================================================================
