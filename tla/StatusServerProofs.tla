------------------------- MODULE StatusServerProofs -------------------------
(***************************************************************************)
(* Proofs about StatusServer: its types, the age of what it knows, and the *)
(* order of the frames it serves.                                          *)
(***************************************************************************)
EXTENDS StatusServer, TLAPS

(* Every variable keeps its type.                                          *)
THEOREM StatusType == StatusSpec => []StatusTypeOK
<1>1. StatusInit => StatusTypeOK
  BY StatusAssumption DEF StatusInit, StatusTypeOK, Nothing, Found, Finding, SinkIds
<1>2. StatusTypeOK /\ [StatusNext]_statusVars => StatusTypeOK'
  <2> SUFFICES ASSUME StatusTypeOK, [StatusNext]_statusVars PROVE StatusTypeOK'
    OBVIOUS
  <2> USE StatusAssumption
      DEF StatusTypeOK, Nothing, Found, Finding, SinkIds, pollVars, previewVars, requestVars
  <2>1. CASE Tick BY <2>1 DEF Tick
  <2>2. CASE GrainArrives BY <2>2 DEF GrainArrives
  <2>3. CASE InfoLooks BY <2>3 DEF InfoLooks
  <2>4. CASE InfoExits BY <2>4 DEF InfoExits, Store
  <2>5. CASE InfoFails BY <2>5 DEF InfoFails, Store
  <2>6. CASE PollAgain BY <2>6 DEF PollAgain
  <2>7. CASE SpawnSink BY <2>7 DEF SpawnSink
  <2>8. CASE SpawnFails BY <2>8 DEF SpawnFails
  <2>9. CASE SinkReturns BY <2>9 DEF SinkReturns
  <2>10. CASE PreviewAgain BY <2>10 DEF PreviewAgain
  <2>11. ASSUME NEW k \in SinkIds, SinkReads(k) PROVE StatusTypeOK'
    BY <2>11 DEF SinkReads
  <2>12. ASSUME NEW k \in SinkIds, SinkDraws(k) PROVE StatusTypeOK'
    BY <2>12 DEF SinkDraws
  <2>13. ASSUME NEW k \in SinkIds, SinkExits(k) PROVE StatusTypeOK'
    BY <2>13 DEF SinkExits
  <2>14. ASSUME NEW c \in Clients, Ask(c) PROVE StatusTypeOK'
    BY <2>14 DEF Ask
  <2>15. ASSUME NEW c \in Clients, CopyState(c) PROVE StatusTypeOK'
    BY <2>15 DEF CopyState
  <2>16. ASSUME NEW c \in Clients, EndStatus(c) PROVE StatusTypeOK'
    BY <2>16 DEF EndStatus, Ended
  <2>17. ASSUME NEW c \in Clients, SendPicture(c) PROVE StatusTypeOK'
    BY <2>17 DEF SendPicture, Ended
  <2>18. CASE ContainerRestarts BY <2>18 DEF ContainerRestarts, Boot
  <2>19. CASE UNCHANGED statusVars BY <2>19 DEF statusVars
  <2> QED
    BY <2>1, <2>2, <2>3, <2>4, <2>5, <2>6, <2>7, <2>8, <2>9, <2>10, <2>11, <2>12,
       <2>13, <2>14, <2>15, <2>16, <2>17, <2>18, <2>19
    DEF StatusNext, Poll, KeepPreview, Sink, Handle
<1> QED BY <1>1, <1>2, PTL DEF StatusSpec

-----------------------------------------------------------------------------
(* The age of _flow_state: the poller is never past its time, a poll that  *)
(* runs began within a pause of the last one's end, and no poll found what *)
(* is older than itself.                                                   *)
PollerInTime ==
    /\ poller.since <= now
    /\ poller.pc = "running" => /\ now <= poller.since + PollTimeout
                                /\ poller.since <= info.stored + PollPause
                                /\ seen.kind # "nothing" =>
                                      poller.since <= seen.looked /\ seen.looked <= now
    /\ poller.pc = "asleep" => /\ now <= poller.since + PollPause
                               /\ poller.since = info.stored
                               /\ seen.kind = "nothing"
    /\ info.looked <= now
    /\ info.stored <= info.looked + PollTimeout

LEMMA PollerInTimeHolds == StatusSpec => []PollerInTime
<1>1. StatusInit => PollerInTime
  BY StatusAssumption DEF StatusInit, PollerInTime, Nothing, Found
<1>2. StatusTypeOK /\ PollerInTime /\ [StatusNext]_statusVars => PollerInTime'
  <2> SUFFICES ASSUME StatusTypeOK, PollerInTime, [StatusNext]_statusVars
               PROVE PollerInTime'
    OBVIOUS
  <2>a. PollTimeout \in Nat /\ PollPause \in Nat
    BY StatusAssumption
  <2> USE <2>a DEF PollerInTime, Nothing, Found, pollVars
  <2>0. /\ now \in Nat /\ poller.since \in Nat /\ poller.pc \in {"running", "asleep"}
        /\ info.looked \in Nat /\ info.stored \in Nat /\ seen.looked \in Nat
    BY StatusAssumption DEF StatusTypeOK, Finding
  <2>1. CASE Tick
    <3>1. UNCHANGED <<info, poller, seen>> /\ now' = now + 1 /\ ~Due
      BY <2>1 DEF Tick
    <3>2. CASE poller.pc = "running"
      BY <2>0, <3>1, <3>2 DEF Due
    <3>3. CASE poller.pc = "asleep"
      BY <2>0, <3>1, <3>3 DEF Due
    <3> QED BY <2>0, <3>2, <3>3
  <2>2. CASE InfoLooks BY <2>0, <2>2 DEF InfoLooks
  <2>3. CASE InfoExits BY <2>0, <2>3 DEF InfoExits, Store
  <2>4. CASE InfoFails BY <2>0, <2>4 DEF InfoFails, Store
  <2>5. CASE PollAgain
    <3>1. /\ poller.pc = "asleep" /\ now >= poller.since + PollPause
          /\ poller' = [pc |-> "running", since |-> now]
          /\ UNCHANGED <<now, info, seen>>
      BY <2>5 DEF PollAgain
    <3>2. poller'.pc = "running" /\ poller'.since = now
      BY <3>1
    <3>3. now <= info.stored + PollPause
      BY <2>0, <3>1
    <3> QED BY <2>0, <3>1, <3>2, <3>3
  <2>6. CASE ContainerRestarts BY <2>0, <2>6 DEF ContainerRestarts, Boot
  <2>7. CASE UNCHANGED <<now, pollVars>> BY <2>0, <2>7
  <2> QED
    BY <2>1, <2>2, <2>3, <2>4, <2>5, <2>6, <2>7
    DEF StatusNext, Poll, KeepPreview, Sink, Handle, GrainArrives, SpawnSink, SpawnFails,
        SinkReturns, PreviewAgain, SinkReads, SinkDraws, SinkExits, Ask, CopyState,
        EndStatus, SendPicture, statusVars
<1> QED BY <1>1, <1>2, StatusType, PTL DEF StatusSpec

(* What /status tells is at most two time-outs and a pause old.            *)
THEOREM KnowledgeIsRecent == StatusSpec => []KnownIsRecent
<1>1. StatusTypeOK /\ PollerInTime => KnownIsRecent
  BY StatusAssumption DEF StatusTypeOK, PollerInTime, KnownIsRecent, Finding
<1> QED BY <1>1, StatusType, PollerInTimeHolds, PTL

-----------------------------------------------------------------------------
(* Only the sink started last may run, so the grain it holds is not older  *)
(* than the picture, and the picture not than what the clients have seen.  *)
OneSinkDraws ==
    /\ \A k \in SinkIds : up[k] => k = started /\ previewer = "waiting"
    /\ \A k \in SinkIds : held[k] >= 0 => up[k] /\ held[k] >= picture /\ held[k] <= head
    /\ \A k \in SinkIds : \A c \in Clients : held[k] >= 0 => held[k] >= shown[c]
    /\ picture <= head
    /\ \A c \in Clients : shown[c] <= head
    /\ \A c \in Clients : picture >= 0 => shown[c] <= picture

LEMMA OneSinkHolds == StatusSpec => []OneSinkDraws
<1>1. StatusInit => OneSinkDraws
  BY DEF StatusInit, OneSinkDraws
<1>2. StatusTypeOK /\ OneSinkDraws /\ [StatusNext]_statusVars => OneSinkDraws'
  <2> SUFFICES ASSUME StatusTypeOK, OneSinkDraws, [StatusNext]_statusVars
               PROVE OneSinkDraws'
    OBVIOUS
  <2>0. /\ head \in Nat /\ started \in Nat /\ picture \in Nat \cup {-1}
        /\ up \in [SinkIds -> BOOLEAN] /\ held \in [SinkIds -> Nat \cup {-1}]
        /\ shown \in [Clients -> Nat \cup {-1}] /\ SinkIds \subseteq Nat
    BY StatusAssumption DEF StatusTypeOK, SinkIds
  <2> USE <2>0 DEF OneSinkDraws, previewVars, requestVars
  <2>1. CASE GrainArrives BY <2>1 DEF GrainArrives
  <2>2. CASE SpawnSink
    <3>1. \A k \in SinkIds : ~up[k]
      BY <2>2 DEF SpawnSink
    <3> QED BY <2>2, <3>1 DEF SpawnSink
  <2>3. CASE SpawnFails \/ SinkReturns \/ PreviewAgain
    <3>1. \A k \in SinkIds : ~up[k]
      BY <2>3 DEF SpawnFails, SinkReturns, PreviewAgain
    <3> QED BY <2>3, <3>1 DEF SpawnFails, SinkReturns, PreviewAgain
  <2>4. ASSUME NEW k \in SinkIds, SinkReads(k) PROVE OneSinkDraws'
    BY <2>4 DEF SinkReads
  <2>5. ASSUME NEW k \in SinkIds, SinkDraws(k) PROVE OneSinkDraws'
    BY <2>5 DEF SinkDraws
  <2>6. ASSUME NEW k \in SinkIds, SinkExits(k) PROVE OneSinkDraws'
    BY <2>6 DEF SinkExits
  <2>7. ASSUME NEW c \in Clients, SendPicture(c) PROVE OneSinkDraws'
    BY <2>7 DEF SendPicture
  <2>8. CASE ContainerRestarts BY <2>8 DEF ContainerRestarts, Boot
  <2>9. CASE UNCHANGED <<head, previewVars, shown>> BY <2>9
  <2> QED
    BY <2>1, <2>2, <2>3, <2>4, <2>5, <2>6, <2>7, <2>8, <2>9
    DEF StatusNext, Poll, KeepPreview, Sink, Handle, Tick, InfoLooks, InfoExits,
        InfoFails, Store, PollAgain, Ask, CopyState, EndStatus, statusVars
<1> QED BY <1>1, <1>2, StatusType, PTL DEF StatusSpec

(* No client is shown a frame older than one it has seen.                  *)
THEOREM FramesStayInOrder == StatusSpec => FramesInOrder
<1>1. StatusTypeOK /\ OneSinkDraws /\ [StatusNext]_statusVars
         => [\A c \in Clients : shown'[c] >= shown[c]]_statusVars
  <2> SUFFICES ASSUME StatusTypeOK, OneSinkDraws, StatusNext
               PROVE \A c \in Clients : shown'[c] >= shown[c]
    OBVIOUS
  <2>0. shown \in [Clients -> Nat \cup {-1}] /\ picture \in Nat \cup {-1}
    BY DEF StatusTypeOK
  <2>1. ASSUME NEW c \in Clients, SendPicture(c)
        PROVE \A d \in Clients : shown'[d] >= shown[d]
    BY <2>0, <2>1 DEF SendPicture, OneSinkDraws
  <2>2. CASE UNCHANGED shown BY <2>0, <2>2
  <2> QED
    BY <2>1, <2>2
    DEF StatusNext, Poll, KeepPreview, Sink, Handle, Tick, GrainArrives, InfoLooks,
        InfoExits, InfoFails, Store, PollAgain, SpawnSink, SpawnFails, SinkReturns,
        PreviewAgain, SinkReads, SinkDraws, SinkExits, Ask, CopyState, EndStatus,
        ContainerRestarts, requestVars
<1> QED BY <1>1, StatusType, OneSinkHolds, PTL DEF StatusSpec, FramesInOrder
=============================================================================
