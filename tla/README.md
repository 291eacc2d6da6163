# A TLA+ development of dmf-media

dmf-media moves uncompressed media between nodes with MXL over a libfabric
"fabric" and packages that as Helm charts, container patches, gates and
playbooks. Most of the repository is declarative. Its own run-time logic, and
the part where order, loss and restarts matter, is a hand-over protocol made of
shell scripts and a ConfigMap, a preview supervisor, a set of patches to a C++
sink, and a few checkers. This directory holds the models of that logic, the TLC
configurations that check them and the TLAPS proofs about them.

## 1. Inventory

| Part | State | Operations | Interacts through | Hard behaviour | What makes it correct |
|---|---|---|---|---|---|
| **Source supervisor** `charts/mxl-fabrics-demo/templates/source-handshake.yaml`, pod in `initiator.yaml` | `current_epoch`, `last_epoch`, `target_info`, the child's pid | wait for the flow, the entry gate, start and stop of the initiator, restart on a new epoch, re-check, park, relaunch | files the kubelet projects from `mxl-coordinator`; the child process | files replaced between two reads, a pause between decision and act, crashes of child, container, pod | transmits only on an explicit selection, silent after losing any key, never on an old target-info, always ends up serving a settled coordinator |
| **View handshake** `view-handshake.yaml`, pod in `target.yaml` | `/shared/target-info`, `/shared/epoch`, the log, the publisher's `last_sig` | stamp, run the target, grep its log, sign, read and patch | an emptyDir between two containers; `kubectl patch` | containers restart separately, files outlive containers, patches land although kubectl failed | announces in order, one target-info per epoch, eventually, and the right one |
| **Coordinator** ConfigMap `mxl-coordinator` | `active-source`, `target-info`, `epoch` | patch (view pod), set and clear (operator, in another repository), projection (kubelet) | API server | delay, whole-directory replacement | external; its assumed behaviour is written down and shown to be kept |
| **IS-05 preview supervisor** `tests/is05-ab-fixture/supervisor/mxl-is05-supervisor.py` | the child and its flow, the preview file, the status record | poll, select, switch, stop with a grace period, restart | NMOS node API, HTTP readers, files | a switch is many steps under readers' eyes, starting a child may fail | a reader never sees a stale frame, the preview follows /active |
| **Status server** `mxl-status-server.py`, in `charts/mxl-fabrics-demo/files` and, the same text, in `docker/mxl-fabrics` | the last `mxl-info` result, the preview child, the picture | poll, serve, respawn | threads, a lock, a file | a hanging command, a sink that outlives its keeper, restarts | what is shown is of bounded age, frames in order, the preview comes back |
| **Sink pacing and rate limiting** C++ text in `docker/mxl-fabrics/patch-sink-too-early-pacing.py` | per-state limiters, cursor, read timeout | resolve the environment, read a grain, retry, realign, log | a video and an audio thread sharing one limiter; the flows' writers | unsigned time stamps taken before a lock, a flow that stays behind or runs away | no spinning, nothing published is missed for good, what is suppressed is counted and told |
| **Patch application** the same file's Python, `patch-sink.py`, `mxl_build_prep.py`, `Dockerfile` | two source files, a buffer | verify the SHA, check the state, validate, write | files; one script's output is the other's input | kills between and within writes, reruns, wrong commits | all or nothing, and no image without every fix |
| **A/B fixture driver** `tests/is05-ab-fixture/run.py` | heartbeat watch, captured patches | switch, wait, judge | HTTP, docker | timeouts racing late answers | a pass verdict means the switch happened |
| **Catalog demand gate** `bin/check-catalog-demand.py` | role coverage, topologies, failures | render, fold declared demand, compare | files, helm | arithmetic, units, one failing entry among others | green exactly for accurate catalogs, each fault named |
| **Conformance gate** `bin/dmf-function-conform` | none | ordered checks of a package | files, helm | first failure wins | each bad fixture is rejected for its reason |
| **Drift detector** `playbooks/lifecycle-operate.yml`, `playbooks/tasks/drift-check.yml` | facts | check every catalog entry, collect, fail | AWX, NetBox | one entry failing | reports every drift |
| **Handshake harness** `tests/harness` | | drives the real source script through seven phases | | | its scenarios are properties here |
| **Review tooling, CI, hooks, publishing, NMOS charts, dev VM, stub roles, schemas** | | | | | not modelled: text processing, rendered configuration of other programs, placeholders |

## 2. Modules

| Module | Models | Lines of the code |
|---|---|---|
| `SourceSupervisor` | the source script, one step per test, read, kill, wait and spawn; the child process; container and pod restarts; an arbitrary coordinator | `source-handshake.yaml` 12-153, `initiator.yaml` |
| `SourceGate` | what a source promises: a link that opens on a selection and to a target it was told of | comments at 47-69, 104-120 |
| `SourceSupervisorProofs` | the inductive invariant of the supervisor and five theorems | |
| `ViewHandshake` | the wrapper, the publisher, the target process, the emptyDir, restarts of each container and of the pod | `view-handshake.yaml` 51-96, `target.yaml` |
| `Handshake` | both halves with the operator and the kubelet between them | all of the above |
| `PreviewSupervisor` | the loops and every step of a switch, failures the loop catches and those it does not, the sinks, the container | `mxl-is05-supervisor.py` 46-202, `viewer.yaml` |
| `Preview` | what a reader of /preview.jpg is promised: one sink at a time, no picture between two sinks | line 149 |
| `PreviewSupervisorProofs` | its inductive invariant and six theorems | |
| `ViewHandshakeProofs` | type correctness, two invariants and the order of announcements of the view pod | |
| `HandshakeProofs` | the composition implements both halves; what a source serves | |
| `BuildPatch` | the SHA check, the two patch scripts write by write, the compiler, kills, reruns, restored contexts | `mxl_build_prep.py`, `patch-sink.py`, `patch-sink-too-early-pacing.py` 65-265 and 901-935, `Dockerfile` 48-110 |
| `SinkPacing` | the reading loops of the patched `mxl-gst-sink`, their limiters and settings | `patch-sink-too-early-pacing.py` 381-882 |
| `SinkImage` | the build with the steps the script really has, and the sink started from the image | 268-378, 884-908, `Dockerfile` |
| `BuildPatchProofs`, `SinkImageProofs` (with the proofs about `SinkPacing`) | nine theorems, the last that the composition implements the sink | |
| `StatusServer` | poller, preview keeper, sinks, request handlers, container | `mxl-status-server.py` 52-56, 121-275 |
| `StatusServerProofs` | three theorems | |
| `CatalogDemand` | the gate's three loops and its arithmetic | `check-catalog-demand.py` 80-508 |
| `CatalogDemandProofs` | sums over finite sets, and four theorems | |
| `MCSourceSupervisor`, `MCHandshake`, `MCSinkImage`, `MCSinkPacing`, `MCCatalogDemand` | small instances for TLC | |

How state and actions correspond:

* `pc[s]` is the next step of the script, `site[s]` the statement of its main loop
  the step belongs to: `gate` (lines 96-102), `bump` (the epoch branch, 122-131),
  `recheck` (132-143), `dead` (144-150). `is_selected` and `stop_initiator` are
  called from several statements; `Refused` and `AfterStop` say what follows at each.
* One test or read of a coordinator file is one step, so the mount can change
  between the `-s` test and the `cat` of the same file and between the epoch and
  the target-info. A sleep needs no step of its own: any number of foreign steps
  fit before the next read in any case.
* `set -e` is modelled where it bites: a `cat` in an assignment of a file that
  vanished ends the script (`Die`), one inside the test of `is_selected` yields
  the empty string. The script is PID 1 of its container, so its child dies with it.
* `wait` after `kill` has no time-out and no escalation, so `ReapInitiator` waits
  for a child that ends in its own time. A child that has exited is collected by
  the shell at the next foreground command; the short life as a zombie before that
  is indistinguishable from exiting a moment later and is not a state.
* `Absent` and `Empty` are a missing file and a file without content. `-s` tells
  them from a file with content, `cat` tells them from each other.
* The coordinator of `SourceSupervisor` is an assumption: publications get newer,
  each epoch comes with one target-info, the operator may select anybody and clear
  any key, and the kubelet replaces the files together and never goes back.
  `Handshake` discharges it.
* In `ViewHandshake` the n-th target process prints the target-info n, and 0 is a
  file without content. Writing a file through a redirection is two steps
  (truncate, write). Epochs `uid:second` are numbered in the order of stamping.
* `entitled`, `cleared` and `announced`/`issued` are history variables; no step
  of a script reads them.

* In `PreviewSupervisor` the thread's `pc` walks through `_supervise_loop` (`find`,
  `poll`, `reap`) or `_static_loop` (`static`) and, in a call of `_switch`, through
  `stop`, `wait`, `unlink`, `spawn`, `record`; `switch` holds the call's arguments and
  decides where it returns to. A child is an identity that is used again once
  nothing refers to it, as process ids are, so switches and restarts need no bound.
  Reading /active and acting on it are one step: the comparison is with variables
  only the thread writes. The HTTP threads need no action, because `/status` is read
  under the lock and the picture is replaced by a rename: what a reader can see is
  the state. `/active` answers from the node are any body (`Actives`); an exception
  is caught (`PollFails`, `FindReceiverFails`) or not (`AnswerGarbled`), and an
  OSError of `Popen` (`StartFails`) is caught only on the way from /active.

* In `BuildPatch` a source file is the number of times it holds each text the scripts
  count. `patch-sink.py` writes in place, so its write is two steps and `Interrupt` may
  leave any of `Tears` between them; the other script writes a temporary file and
  renames it, so each of its writes is one step and `Interrupt` falls between them.
  `began` and `interrupted` are history. What the operator does after a failure is
  unconstrained: rerun on what is left, or any context afresh.
* In `SinkPacing` the label `reading` is the blocking call of the SDK: it returns when
  the grain is there, when the grain has expired, or when the timeout is over. Video and
  audio differ in wording and in the period of an index, so both are one action set
  over `Streams`. `AdjustOffset` and `LogOffset` are apart because the time stamp is
  taken before the lock (lines 542-543). `fixes` says which patches the sink was built
  with; `SinkImage` derives it from the text that was compiled. `log` holds the lines of
  the last step; `streak` is history.
* In `StatusServer` a poll is `InfoLooks` (mxl-info reads the flow) and later
  `InfoExits`, or `InfoFails` at any time up to the time-out. Timers are punctual: the
  clock does not pass the end of a time-out or a pause. `SinkReads` and `SinkDraws` are
  apart so that a sink can hold an old frame. A handler copies the state under the lock
  and ends later; the slow calls between the two only delay it.
* In `CatalogDemand` each iteration of each loop is a step, so the order of reports and
  the places where an uncaught exception ends the run are the code's. A `QuantityError`
  is the value 0, which no accepted quantity has.

## 3. Runs

| Run | Bounds | Shows |
|---|---|---|
| `source` | 1 source, 1 target-info, 2 epochs, 2 names, fair | `TypeOK`, `SilentUnlessServing`, `OneLateStart`, `ImplementsGate` (refinement of `SourceGate`), `QuiesceStops`, `SettledServes` |
| `source_unnamed` | a source without a sourceId, violation | `UnnamedNeverTransmits` fails: finding 1 |
| `view` | 3 target starts over any pods, stamps may repeat, fair | `ViewTypeOK`, `FreshInNewPod`, `NothingForgotten`, `AnnouncesInOrder`, `EndsAnnounced` |
| `view_stale` | 2 target starts, violation | `ExposesItsOwnMemory` fails: finding 2 |
| `handshake_environment` | 1 source, 2 target starts, pod, publisher and target faults | `KeepsSourceSpec`: the assumption of `SourceSupervisor` is kept |
| `handshake_serving` | 1 source, 2 target starts with a target-info each, pod and source faults, clearing, fair | `NeverStale`, `ServesRunningTarget`, `EndsConnected` |
| `preview` | 2 flows, 2 domains, 3 child identities, both modes, fair | `PreviewTypeOK`, `OnlyTheChildRuns`, `NeverStaleFrame`, `StatusTruthful`, `EventsChain`, `ImplementsPreview`, `PreviewFollows` |
| `preview_errors` | as above, violation | `FollowsThroughErrors` fails: finding 3 |
| `image` | 3 commits, 18 contexts, 3 ways to tear a file, 15 steps, 2 threads, clock to 4, retry interval 0 as set, summaries every 2 ticks, fair | `BuildTypeOK`, `NeverFalseGreen`, `BuiltFromThePin`, `AllOrNothing`, `PatchableGetsBuilt`, `SinkTypeOK`, `NeverSpins`, `LinesSpacedAndTrue`, `SuppressedIsReported`, `PublishedIsPassed`, `RunsTheFixedSink` |
| `shared_limiter` | 2 threads, clock to 2, summaries every 2 ticks, violation | `SharedSummariesSpaced` fails: finding 4 |
| `status` | 1 client, 2 sinks, time-out and pause of 1 tick, clock to 4, fair | `StatusTypeOK`, `KnownIsRecent`, `FramesInOrder`, `PreviewKept` |
| `catalog` | all catalogs of up to 2 of some 30 documents and of 3 with a third of 3; 9 charts | `GreenIffRight`, `EachFaultNamed`, `AggregateRight` |

Why the bounds are enough. Sources share nothing but the coordinator, which no
source writes, so one source shows whatever several would; the theorems hold for
any set of them. The script remembers one earlier epoch (`last_epoch`) and one
earlier target-info, so two publications already give every pair of old and new. Which
target-info goes with which epoch matters to `NeverStale` alone, so `source` has one, and
`NeverStale` is checked where each target start prints its own, behind the view pod
and the kubelet; that it holds under any coordinator `SourceSupervisor` admits is proved. The publisher remembers one signature; three starts give a
first start, a restart in the pod and a replacement of the pod in every order. The
composition is explored for one fault family at a time (constant `Faults`), because
the faults of one half are invisible to the other except through the ConfigMap.
The preview supervisor refers to at most three children at once (its own, the reported
one, the one that drew the picture), two flows are a change and back, and
nothing else is counted: these runs are exhaustive over failures, changes and restarts
of any number.

In `image` the build is exhaustive over any number of kills, reruns and restored
contexts: it counts nothing. The clock of 4 ticks with one grain a tick and a history of
one is enough for a flow that is early for several retries, one that skips grains, a
summary, a recovery, and two threads whose stamps reach the shared limiter out of order;
the theorems hold for any clock. Flow and grain numbers are bounded by `LastHead` and
`LastGrain`. `status` counts time, frames and sinks: two sinks are a crash and a
successor, the clock of 4 covers two polls that hang. In `catalog` a third document adds
what a pair cannot: a role provided twice beside another that is missing or right. A few
`Ki` and `m` stand for all numbers; the arithmetic is compared with a definition that
counts pod by pod.

**Fairness.** `Fairness` of the source: the shell keeps executing, the kubelet
restarts a dead container, a child that got TERM or has nothing to connect to ends.
The view pod's: the shells execute, containers restart, the target prints its line.
The kubelet's: it goes on syncing while a mount differs. The preview's: its thread takes
its next step unless an exception ended it; the sinks owe nothing, because KILL needs no
consent. The image's: the scripts run on, the clock and the threads go on; nobody has to
publish, and nobody has to rerun a build. The status server's: its preview thread runs, and
a sink whose program is in the image is started if it is tried for ever (strong fairness
of `SpawnSink`). Nothing is assumed of the operator, the producer or faults; each liveness property names as its hypothesis
what has to settle ("the selection stays", "no more faults").

## 4. What the violations say

1. **An unnamed source can transmit.** `is_selected` opens the file twice. If the
   key vanishes between the two, the empty string equals an empty `sourceId`.
   For a source with a name the same interleaving is harmless, which
   `SourceGate` states as `OwnId[s] # Empty => entitled[s]`.
2. **A stale target-info under a new epoch.** After a restart of the target
   container alone, `/shared/target-info` is still there, and the wrapper does not
   overwrite a file with content. `FreshInNewPod` shows that replacing the pod is
   the restart that works. The mutant `WatchLogAlways`, which overwrites it, is
   not a repair: it changes the target-info of an epoch already announced, which
   the sources, comparing epochs only, would not notice (`AnnouncesInOrder`).

3. **The preview's polling thread can end.** Three exception types are caught, around
   the poll only. A body cut short by a restarting node is none of them, and the restart
   of a crashed child is outside the `try`. The HTTP threads live on, so the
   readiness probe stays green. `PreviewFollows` shows that the thread's end is the only
   way for the preview to be lost: every failure that is caught is made good.

4. **The shared limiter can repeat a summary at once.** The video and the audio thread share the
   limiter of the PTS offset and take their time stamps before its lock (542-543). A thread that
   is overtaken between the two hands `check` a stamp older than the last line's; the unsigned
   difference (487) is then nearly 2^64 ns, an interval by any setting, and a summary follows
   the last one at once; if the stamp is older than the first line's, its duration wraps as
   well. The script promises at most one summary an interval for this line (18-22), and the class
   (441-445) leaves sharing to an external guard, which the mutex is for calls of `check` but not
   for the order of the stamps. The trace of `shared_limiter` has two summaries with stamps one tick
   apart where the interval is two. `LinesSpacedAndTrue` therefore claims spacing and duration for the
   limiters of one thread only; the count of suppressed lines is right for all.

`NothingForgotten` and `EndsAnnounced` carry the condition `stamp = starts`: no start
repeated the second of the one before. Without it both fail: a container restarted
within the second lets the publisher sign the old content, read the truncated file,
announce an empty epoch and then find its signature unchanged. A kubelet that restarts a
container within a second is unlikely, so this is a stated precondition and not a finding.
`NeverStaleFrame` carries the condition `dropped`: the picture is in a volume of the pod and
outlives the supervisor's container, and a supervisor that starts while nothing is
selected sees nothing to change (line 188), so the frame of its predecessor stays.
`ImplementsPreview` shows that even then it is gone before another sink starts.
Also by construction of the code: a key the operator clears is never restored by the
publisher, which remembers what it sent and does not look (`cleared` in `EndsAnnounced`).

Observations short of a finding, where the model was made to follow the code:

* Source script: the epoch branch tests `is_selected`, sleeps five seconds, then starts
  (lines 124-129) without testing again, so a start may come after the selection was
  withdrawn. The re-check corrects it; `OneLateStart` and `ImplementsGate` bound it to one
  start, then none until the source is selected again.
* Limiter: `check` resets the count when the kind or the index changes (484), so lines
  suppressed while TOO_EARLY are never told if the flow turns TOO_LATE before a grain is
  read. `SuppressedIsReported` speaks of the run of failures since the last change.
* Limiter: a flow that alternates between a grain and a failure prints a line for each
  failure, because a successful read ends the state. Seconds times 10^9 wraps (434).
* `patch-sink.py` writes in place (50). A kill there leaves a file that its own rerun may take for
  patched or may patch; `NeverFalseGreen` and `BuiltFromThePin` show that the second script or
  the compiler refuses what is missing.
* A kill between the two renames leaves a context every rerun refuses as `partial`, as the
  message at 921-922 says: fail-safe, but only a fresh context helps.
* If sink.cpp had `<algorithm>` and `<mutex>` but not `<cstdlib>`, the include `patch-sink.py`
  adds would make the other script see one step applied and the rest pending, and refuse:
  excluded in `Patchable`.
* Status server: the picture outlives its sink, so /preview.jpg serves the last frame while no
  sink runs; `ts` is taken after the slow calls and says nothing of the age of the flow state,
  which `KnownIsRecent` bounds.
* Demand gate: two view entries with one key share the topology of the last (472); only red
  runs can have them. A document or a `requests` that is no mapping raises what `main` does not
  catch: the exit status is 1, the list of failures is lost. An `ebu` that is null
  raises likewise (375); it is not modelled, as no property depends on which document raised.

## 5. Proofs

`SourceSupervisorProofs` proves, for every value of the constants that satisfies
`ConstantsAssumption` (the two blanks differ, and are no name, target-info or epoch;
each source has a name or none; `MaxEpoch` is a natural number):

* `TypeCorrect`, `SilentUnlessServingHolds`, `NeverStaleHolds`, `OneLateStartHolds`:
  its invariants;
* `ImplementsGateHolds`: every step of the supervisor is a step of `SourceGate` or
  changes nothing there.

The argument is one inductive invariant, `IInv`: `TypeOK` and, for every source,
* `ControlInv`, which labels occur at which sites;
* `SilentInv`, where in the script a child may exist;
* `MountInv`, that the mount shows the publication `published[s]` or blanks, and
  that epochs up to it were issued;
* `FreshInv`, that a child, and a start in progress, has the target-info of the epoch
  recorded for it or of a later one. `NeverStale` alone is not inductive: it says
  nothing of the interval between reading the epoch and spawning the child, where
  the mistake would be made;
* `EntitledInv`, that a script beyond the selection test was entitled to pass it.

`IInv` holds initially, is kept by every action (one step per action, one sub-step per
conjunct the action can disturb) and implies the four invariants; the refinement proof
uses it for the guard of `Open`. TLC confirmed `IInv`, with two target-infos,
before it was proved.

`PreviewSupervisorProofs` proves, under `PreviewAssumption` (`None` is no flow, child or
domain; the two environment variables are a domain and a flow or unset):

* `PreviewTypeCorrect`, `OnlyTheChildRunsHolds`, `NeverStaleFrameHolds`,
  `StatusTruthfulHolds`, `EventsChainHolds`, `ImplementsPreviewHolds`: every safety
  property of `preview`, for any flows, domains and children.

The invariant `PreviewInv` joins `OnlyTheChildRuns` and `NeverStaleFrame` with
`SwitchInv`, what each step of a switch has already established (after `wait` the child
is gone; at `spawn` there is neither child nor picture), and `RecordInv`, what `/status`
and the event in preparation say of the child. `StatusTruthful` speaks of the moments
between switches only, so it needs `RecordInv` to cross them. The refinement rests on
`DrawingIsTheChild`: the set of flows being drawn is the child's flow or empty.

`ViewHandshakeProofs` proves, for any number of starts and any stamps, `ViewTypeCorrect`,
`FreshAnnouncement`, `NothingIsForgotten` and `AnnouncementsInOrder`.
`FreshInNewPod` needs `FreshInv`: the log, the file, a read in progress and the announcement
of a pod whose target never restarted are each blank or of the target that runs there.
`NothingForgotten` rests on `Signed` and `Carried`, what the publisher's signature says of the
files and of the patch it is carrying while the wrapper may rewrite them. The action property
`AnnouncesInOrder` needs `Ordered`: the epoch file is blank or holds the newest stamp; that stamp is
announced with the target-info of the file or not at all, and nothing later than it is announced;
and the patch being prepared carries the file's target-info and an epoch of which the same holds.
`PatchFindsItsPlace` is the step where it pays: the patch that lands is of the last announced
epoch or of a later one.

`HandshakeProofs` composes: its invariant is the view pod's (`ViewInv`, taken from an instance of
`ViewHandshakeProofs`) with `CoordInv`, that the ConfigMap shows the newest issued epoch
with its target-info, or blanks, and that no pod was sent an epoch not issued.
* `ImplementsView`: the view pod in the composition behaves as `ViewSpec`.
* `KeepsSourceSpecHolds`: every step of the composition is a step of `SourceSupervisor` or a
  stutter: a patch is its `Publish` of a newer epoch, or of a cleared key of the same one,
  which is what `AnnouncesInOrder` makes of it. The coordinator the source assumes is thus no
  assumption: it is what view pod, operator and kubelet do.
* `SourcesKeepTheirPromises`: the theorems of `SourceSupervisor` are theorems of the composition.
* `ServesRunningTargetHolds`: `NeverStale`, carried over by the corollary, says the source serves
  what was announced with its epoch; `Ordered` and `FreshInv` say that this is of the running target.

`BuildPatchProofs`, for any steps whose texts do not overlap, any commits and contexts:
* `BuildType`;
* `NoFalseGreen`, from `Progress`: in the middle of `apply_all` the steps before `at` are applied
  in the buffer, and after the first rename `utils.hpp` already is (`HalfDone`). The invariant
  says nothing of the files when a script starts, so kills and tears cannot break it;
* `GivesUpCleanly`, an action property: the files are `Untouched` until the first rename;
* `BuildsThePin`, from `FromThePin`: a script beyond the SHA check passed it, and the end of
  sink.cpp, which no step touches, was never lost or the compiler refuses.

`SinkImageProofs` proves of `SinkPacing`, for any streams, settings, modulus and bounds:
* `SinkType`, from the types of loop and limiters;
* `LinesTrue` and `SuppressedLinesReported`, from `Mirrors`: each limiter's fields agree with the
  history of its run of events, which is what makes the printed count the true one. Spacing and
  duration follow for the limiters of one thread, whose stamps come in order;
* `SinkNeverSpins`, from `EarlyStreak`: the n-th failure of a run is at least n-1 times
  `MinRetry` after its first: a read past its deadline waits `TooEarlyRetry`, which is at least that
  whatever the environment says, and the first one waited for its deadline.

Of `SinkImage` it proves `ImageImplementsSink`, that the image's specification implements
`SinkSpec`: a step of the build is a stutter, and `RunImage` starts the sink with `AllFixes`
because `NoFalseGreen` makes every step applied. The corollary `ImageNeverSpins` carries the sink's
bound over to whatever was built.

`StatusServerProofs` proves `StatusType`, `KnowledgeIsRecent` (with the poller never beyond its
time-out or pause as the strengthening) and `FramesStayInOrder` (only the last sink started runs, and
its frame, the picture and what each client saw are in order).

`CatalogDemandProofs` has two parts. The arithmetic of the gate is a fold over sets, and the
prover cannot instantiate an induction theorem. It can use that the strict subsets of a finite
set are well founded (`Smallest`): among the subsets for which a claim about sums fails there is
a smallest, and taking one element out of it refutes it. In this way `AddsExists` shows that the recursion
inside the fold has a solution, `SumOne` that the fold obeys it, `SumRemove` that any element
may be taken out first, and `SumOverPods` that a sum over all pods is the sum over Deployments of
replicas times cost. `MatchesIffAccurate` concludes that what the gate compares is what is meant: containers
and overhead, for each replica, in millicores and bytes, and nothing at all where something cannot be told.

The second part is the inductive invariant `CatalogInv` of the three loops: `Reading` (the
entries are the documents read so far that name the chart), `Covering` (the table of roles
is what the entries cover; each topology in the other table was put there by an entry with that
key), `Reporting` (the failures are exactly those of the entries and the coverage check done) and
`Aggregating`. From it follow, for any catalogs and charts of the types in `CatalogAssumption`:
* `EachFaultNamedHolds`: `VerdictOnEntry` says that nothing is reported of an entry exactly if it is
  right, provided no other entry overwrote its topology (`OwnKey`), which distinct keys exclude;
* `GreenIffRightHolds`: without that proviso, because a green run and a right catalog each
  have one view entry (`OneViewOwnsItsKey`);
* `AggregateRightHolds`, by the same two cases.

TLC confirmed each inductive invariant on the bounds of its run before it was proved.

Only model-checked: everything under fairness (temporal reasoning about `ENABLED` is outside the
prover's reach): `QuiesceStops`, `SettledServes`, `EndsAnnounced`, `EndsConnected`, `PreviewFollows`,
`PreviewKept`, `PatchableGetsBuilt`, `PublishedIsPassed`. Every safety property of the passing runs is
a theorem.

## 6. Not modelled

The log `tail`, echo lines and the interface address (they carry no decision); a clock
that goes backwards; the time stamps and the 50-event limit of the preview's record,
errors of `unlink` other than a missing file; two view pods at once (Recreate excludes them short of a lost
node); the transfer of grains over the fabric. Of the sink: GStreamer behind `pushBuffer`, slices of
a grain, and what `utils.hpp` does with a log level. Of the status server: parsing of the commands' output
into fields, and the host, version and node fields of /status. Of the gate: YAML and the text of
quantities. The A/B fixture driver, the handshake harness and the conformance gate are tests without
state of the system; what they test is stated as properties here where the tested part is modelled. The
drift detector is a playbook whose first failing assertion ends the play; the list its summary looks at
(`_drift_errors`) is never appended to, so there is nothing between its steps to check. Review tooling, CI,
the NMOS charts, the dev VM and the stub roles hold no run-time logic of this repository. The operator is whoever edits the
ConfigMap: its procedure lives in another repository, so any edit is allowed.

## 7. Plan

Done: everything in section 2; all safety properties are proved. What would add most next: the
safety half of the liveness properties as theorems (for `EndsConnected`, that nothing a settled
system does leads away from the goal), and the steps of the liveness arguments that need no
`ENABLED`; a bound on the age of what a source serves in the composition, in steps of the kubelet.
