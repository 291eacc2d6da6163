----------------------------- MODULE SinkImage ------------------------------
(***************************************************************************)
(* From the sources of a commit to the running sink: the image build of    *)
(* BuildPatch with the steps the pacing script really has, and the sink of *)
(* SinkPacing started from the image, with the fixes that made it into the *)
(* sources that were compiled.                                             *)
(***************************************************************************)
EXTENDS BuildPatch, SinkPacing, TLC

imageVars == <<buildVars, sinkVars>>

(* The text a step replaces, and the text it puts there.                   *)
Old(label) == "old_" \o label
New(label) == "new_" \o label

Text(path, label, count, embedded) ==
    [path |-> path, kind |-> "text", old |-> Old(label), new |-> New(label),
     count |-> count, embedded |-> embedded, headers |-> {}]

Includes(path, anchor, headers) ==
    [path |-> path, kind |-> "includes", old |-> anchor, new |-> anchor,
     count |-> 1, embedded |-> 0, headers |-> headers]

UtilsSteps == <<Text(UTILS_PATH, "utils_includes", 1, 1),
                Text(UTILS_PATH, "MXL_LOG_macros", 1, 0)>>

SinkSteps == <<
    Includes(SINK_PATH, "csignal", {"algorithm", "cstdlib", "mutex"}),
    Text(SINK_PATH, "StateRateLimiter", 1, 0),
    Text(SINK_PATH, "pts_offset_line", 1, 0),
    Text(SINK_PATH, "static_members", 1, 0),
    Text(SINK_PATH, "reader_members", 1, 0),
    Text(SINK_PATH, "updateHighestLatency", 1, 0),
    Text(SINK_PATH, "video_preamble", 1, 0),
    Text(SINK_PATH, "iterationTimeoutNs", 2, 0),
    Text(SINK_PATH, "video_success", 1, 0),
    Text(SINK_PATH, "video_retry", 1, 0),
    Text(SINK_PATH, "audio_preamble", 1, 0),
    Text(SINK_PATH, "audio_success", 1, 0),
    Text(SINK_PATH, "audio_retry", 1, 0)>>

AllSteps == UtilsSteps \o SinkSteps

ASSUME ImageAssumption == Steps = AllSteps

(* The sites of the sources that print through a limiter.                  *)
LogSites == {"pts_offset_line", "updateHighestLatency", "video_retry", "audio_retry"}

(* What the compiler turned into the sink of the image.                    *)
FixesIn(text) ==
    [paced |-> text[New("iterationTimeoutNs")] = 2,
     limited |-> \A site \in LogSites : text[New(site)] = 1]

-----------------------------------------------------------------------------

ImageInit == BuildInit /\ SinkInit

Building == BuildNext /\ UNCHANGED sinkVars

(* A container starts the sink of the finished image; what is left of the  *)
(* build context does not matter any more.                                 *)
RunImage ==
    /\ stage = "built"
    /\ StartSink(FixesIn(disk[SINK_PATH]))
    /\ stage' = "shipped"
    /\ context' = CHOOSE c \in Contexts : TRUE
    /\ disk' = Checkout[context'.commit]
    /\ began' = disk' /\ buffer' = disk'
    /\ at' = 1
    /\ interrupted' = FALSE

(* The clock, the writers of the flows and the threads, while it runs.     *)
Time == stage = "shipped" /\ Tick /\ UNCHANGED buildVars
Write(s) == stage = "shipped" /\ Publish(s) /\ UNCHANGED buildVars
Read(s) == stage = "shipped" /\ Thread(s) /\ UNCHANGED buildVars

ImageNext ==
    \/ Building \/ RunImage \/ Time
    \/ \E s \in Streams : Write(s) \/ Read(s)
ImageSpec == ImageInit /\ [][ImageNext]_imageVars
ImageFairSpec ==
    /\ ImageSpec
    /\ WF_buildVars(BuildStep /\ UNCHANGED sinkVars)
    /\ WF_sinkVars(Time)
    /\ \A s \in Streams : WF_sinkVars(Read(s))

-----------------------------------------------------------------------------
(* Whatever was killed, truncated, rerun or restored while the image was   *)
(* built, the sink that runs in it is the sink of SinkPacing, with every   *)
(* fix: the composition implements the component.                          *)
RunsTheFixedSink == SinkSpec
=============================================================================
