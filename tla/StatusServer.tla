---------------------------- MODULE StatusServer ----------------------------
(***************************************************************************)
(* The status sidecar, mxl-status-server.py: a thread that polls mxl-info, *)
(* a thread that keeps the preview sink up, and an HTTP server that        *)
(* answers each request in a thread of its own.                            *)
(*                                                                         *)
(* What mxl-info prints of a flow is abstracted to its head index; node,   *)
(* host, version and transport fields do not depend on the state.          *)
(***************************************************************************)
EXTENDS Integers

CONSTANTS
    Clients,      \* clients; each has one request at a time
    PREVIEW,      \* the preview is on and there is a flow to show
    PollTimeout,  \* how long mxl-info may take, 10 s
    PollPause,    \* between two polls, 1 s
    MaxTime,      \* bound: the clock stops here
    LastHead,     \* bound: the last grain of the flow
    MaxSinks      \* bound: sinks ever started

ASSUME StatusAssumption ==
    /\ PREVIEW \in BOOLEAN
    /\ PollTimeout \in Nat /\ PollPause \in Nat
    /\ MaxTime \in Nat /\ LastHead \in Nat /\ MaxSinks \in Nat

VARIABLES
    now,       \* the clock
    head,      \* the flow's head index
    info,      \* _flow_state, and when it was looked up and stored
    poller,    \* _poll_loop: running mxl-info or asleep, since when
    seen,      \* what the running mxl-info found
    previewer, \* _preview_loop
    started,   \* the sinks started so far
    up,        \* the sinks that run
    held,      \* the grain each sink is about to draw, -1 for none
    picture,   \* PREVIEW_PATH: the grain it shows, -1 for no file
    request,   \* what each client's handler does next
    snapshot,  \* flow, the copy of _flow_state in the handler of /status
    shown      \* history: the last frame each client got

pollVars == <<info, poller, seen>>
previewVars == <<previewer, started, up, held, picture>>
requestVars == <<request, snapshot, shown>>
statusVars == <<now, head, pollVars, previewVars, requestVars>>

SinkIds == 1 .. MaxSinks
Finding == [kind : {"nothing", "info", "absent", "error"}, head : Nat,
            looked : Nat, stored : Nat]

Found(kind, h, t, u) == [kind |-> kind, head |-> h, looked |-> t, stored |-> u]
Nothing(t) == Found("nothing", 0, t, t)

(* The container has just started: both threads are at their beginnings,   *)
(* and its file system is new.                                             *)
Boot(t) ==
    /\ info' = Nothing(t)
    /\ poller' = [pc |-> "running", since |-> t]
    /\ seen' = Nothing(t)
    /\ previewer' = IF PREVIEW THEN "starting" ELSE "off"
    /\ up' = [k \in SinkIds |-> FALSE]
    /\ held' = [k \in SinkIds |-> -1]
    /\ picture' = -1
    /\ request' = [c \in Clients |-> "idle"]
    /\ snapshot' = [c \in Clients |-> Nothing(0)]

StatusInit ==
    /\ now = 0
    /\ head = 0
    /\ info = Nothing(0)
    /\ poller = [pc |-> "running", since |-> 0]
    /\ seen = Nothing(0)
    /\ previewer = IF PREVIEW THEN "starting" ELSE "off"
    /\ started = 0
    /\ up = [k \in SinkIds |-> FALSE]
    /\ held = [k \in SinkIds |-> -1]
    /\ picture = -1
    /\ request = [c \in Clients |-> "idle"]
    /\ snapshot = [c \in Clients |-> Nothing(0)]
    /\ shown = [c \in Clients |-> -1]

-----------------------------------------------------------------------------
(* The clock and the flow *)

(* Mutant: mxl-info is waited for without a time-out.                      *)
DueAsleep == poller.pc = "asleep" /\ now = poller.since + PollPause

(* The poller acts when its time has come.                                 *)
Due == now = poller.since + (IF poller.pc = "running" THEN PollTimeout ELSE PollPause)

Tick ==
    /\ now < MaxTime
    /\ ~Due
    /\ now' = now + 1
    /\ UNCHANGED <<head, pollVars, previewVars, requestVars>>

GrainArrives ==
    /\ head < LastHead
    /\ head' = head + 1
    /\ UNCHANGED <<now, pollVars, previewVars, requestVars>>

-----------------------------------------------------------------------------
(* _poll_loop *)

(* Mutant: a flow that cannot be opened has the head -1.                   *)
InfoLooksAnyhow ==
    /\ poller.pc = "running"
    /\ seen.kind = "nothing"
    /\ \/ seen' = Found("info", head, now, now)
       \/ seen' = Found("absent", -1, now, now)
    /\ UNCHANGED <<now, head, info, poller, previewVars, requestVars>>

(* mxl-info looks at the flow, if it can open it.                          *)
InfoLooks ==
    /\ poller.pc = "running"
    /\ seen.kind = "nothing"
    /\ \/ seen' = Found("info", head, now, now)
       \/ seen' = Found("absent", 0, now, now)
    /\ UNCHANGED <<now, head, info, poller, previewVars, requestVars>>

Store(kind, h, looked) ==
    /\ info' = Found(kind, h, looked, now)
    /\ poller' = [pc |-> "asleep", since |-> now]
    /\ seen' = Nothing(now)
    /\ UNCHANGED <<now, head, previewVars, requestVars>>

(* It exits, with whatever status: its output is parsed and stored whole.  *)
InfoExits ==
    /\ poller.pc = "running"
    /\ seen.kind # "nothing"
    /\ Store(seen.kind, seen.head, seen.looked)

(* It cannot be run, or not in time: the error takes the place of what was *)
(* known.                                                                  *)
InfoFails ==
    /\ poller.pc = "running"
    /\ Store("error", 0, poller.since)

PollAgain ==
    /\ poller.pc = "asleep"
    /\ now >= poller.since + PollPause
    /\ poller' = [pc |-> "running", since |-> now]
    /\ UNCHANGED <<now, head, info, seen, previewVars, requestVars>>

-----------------------------------------------------------------------------
(* _preview_loop *)

(* Mutant: the sink is started, but not waited for.                        *)
SpawnDetached ==
    /\ previewer = "starting"
    /\ started < MaxSinks
    /\ started' = started + 1
    /\ up' = [up EXCEPT ![started + 1] = TRUE]
    /\ previewer' = "asleep"
    /\ UNCHANGED <<now, head, pollVars, held, picture, requestVars>>

SpawnSink ==
    /\ previewer = "starting"
    /\ started < MaxSinks
    /\ started' = started + 1
    /\ up' = [up EXCEPT ![started + 1] = TRUE]
    /\ previewer' = "waiting"
    /\ UNCHANGED <<now, head, pollVars, held, picture, requestVars>>

(* Mutant: the exception ends the thread.                                  *)
SpawnFailsForGood ==
    /\ previewer = "starting"
    /\ previewer' = "off"
    /\ UNCHANGED <<now, head, pollVars, started, up, held, picture, requestVars>>

SpawnFails ==
    /\ previewer = "starting"
    /\ previewer' = "asleep"
    /\ UNCHANGED <<now, head, pollVars, started, up, held, picture, requestVars>>

(* subprocess.run returns, whatever made the sink exit.                    *)
SinkReturns ==
    /\ previewer = "waiting"
    /\ ~up[started]
    /\ previewer' = "asleep"
    /\ UNCHANGED <<now, head, pollVars, started, up, held, picture, requestVars>>

PreviewAgain ==
    /\ previewer = "asleep"
    /\ previewer' = "starting"
    /\ UNCHANGED <<now, head, pollVars, started, up, held, picture, requestVars>>

(* The sink: it reads a grain, draws it over the one file, and may exit.   *)
SinkReads(k) ==
    /\ up[k]
    /\ held' = [held EXCEPT ![k] = head]
    /\ UNCHANGED <<now, head, pollVars, previewer, started, up, picture, requestVars>>

SinkDraws(k) ==
    /\ up[k]
    /\ held[k] >= 0
    /\ picture' = held[k]
    /\ held' = [held EXCEPT ![k] = -1]
    /\ UNCHANGED <<now, head, pollVars, previewer, started, up, requestVars>>

SinkExits(k) ==
    /\ up[k]
    /\ up' = [up EXCEPT ![k] = FALSE]
    /\ held' = [held EXCEPT ![k] = -1]
    /\ UNCHANGED <<now, head, pollVars, previewer, started, picture, requestVars>>

-----------------------------------------------------------------------------
(* do_GET *)

Ask(c) ==
    /\ request[c] = "idle"
    /\ \E path \in {"status", "preview"} :
          request' = [request EXCEPT ![c] = path]
    /\ UNCHANGED <<now, head, pollVars, previewVars, snapshot, shown>>

(* Under _state_lock.                                                      *)
CopyState(c) ==
    /\ request[c] = "status"
    /\ snapshot' = [snapshot EXCEPT ![c] = info]
    /\ request' = [request EXCEPT ![c] = "gathering"]
    /\ UNCHANGED <<now, head, pollVars, previewVars, shown>>

Ended(c) ==
    /\ request' = [request EXCEPT ![c] = "idle"]
    /\ snapshot' = [snapshot EXCEPT ![c] = Nothing(0)]

(* The body is complete: three commands and a request to the API server    *)
(* later.  Or one of them raises what nobody catches, and the connection   *)
(* is closed without an answer.                                            *)
EndStatus(c) ==
    /\ request[c] = "gathering"
    /\ Ended(c)
    /\ UNCHANGED <<now, head, pollVars, previewVars, shown>>

(* 200 with the file as it is, or 404 while there is none.                 *)
SendPicture(c) ==
    /\ request[c] = "preview"
    /\ shown' = [shown EXCEPT ![c] = IF picture >= 0 THEN picture ELSE @]
    /\ Ended(c)
    /\ UNCHANGED <<now, head, pollVars, previewVars>>

-----------------------------------------------------------------------------
(* The container is killed, with every process and request in it.          *)
ContainerRestarts ==
    /\ Boot(now)
    /\ UNCHANGED <<now, head, started, shown>>

Poll == InfoLooks \/ InfoExits \/ InfoFails \/ PollAgain
KeepPreview == SpawnSink \/ SpawnFails \/ SinkReturns \/ PreviewAgain
Sink(k) == SinkReads(k) \/ SinkDraws(k) \/ SinkExits(k)
Handle(c) == CopyState(c) \/ EndStatus(c) \/ SendPicture(c)

StatusNext ==
    \/ Tick \/ GrainArrives \/ Poll \/ KeepPreview
    \/ \E k \in SinkIds : Sink(k)
    \/ \E c \in Clients : Ask(c) \/ Handle(c)
    \/ ContainerRestarts

StatusSpec == StatusInit /\ [][StatusNext]_statusVars

(* The preview thread runs, and starting the sink, whose program is in the *)
(* image, does not fail for ever.                                          *)
StatusFairness == WF_statusVars(KeepPreview) /\ SF_statusVars(SpawnSink)
StatusFairSpec == StatusSpec /\ StatusFairness

-----------------------------------------------------------------------------
(* Properties *)

StatusTypeOK ==
    /\ now \in 0 .. MaxTime
    /\ head \in 0 .. LastHead
    /\ info \in Finding
    /\ poller \in [pc : {"running", "asleep"}, since : 0 .. MaxTime]
    /\ seen \in Finding
    /\ previewer \in {"off", "starting", "waiting", "asleep"}
    /\ started \in 0 .. MaxSinks
    /\ up \in [SinkIds -> BOOLEAN]
    /\ held \in [SinkIds -> Nat \cup {-1}]
    /\ picture \in Nat \cup {-1}
    /\ request \in [Clients -> {"idle", "status", "gathering", "preview"}]
    /\ snapshot \in [Clients -> Finding]
    /\ shown \in [Clients -> Nat \cup {-1}]

(* Whenever /status copies it, the flow state tells what was looked up, or *)
(* failed to be, not longer ago than two time-outs and a pause: a hanging  *)
(* mxl-info cannot freeze it.  The handler's ts is taken later and says    *)
(* nothing of this age.                                                    *)
KnownIsRecent == now - info.looked <= 2 * PollTimeout + PollPause

(* The frames a client gets never go back, over crashes of the sink and    *)
(* restarts of the container: only one sink draws at a time.               *)
FramesInOrder == [][\A c \in Clients : shown'[c] >= shown[c]]_statusVars

(* A preview whose sink has gone gets another one.                         *)
PreviewKept ==
    (PREVIEW /\ started < MaxSinks /\ \A k \in SinkIds : ~up[k])
        ~> (\E k \in SinkIds : up[k])
=============================================================================
