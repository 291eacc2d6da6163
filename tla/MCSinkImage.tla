---------------------------- MODULE MCSinkImage -----------------------------
\* A small instance of SinkImage: the pinned commit and two others, a context
\* whose build argument is missing, right, written in capitals, abbreviated or
\* wrong, and two flows.
EXTENDS SinkImage

CONSTANTS pinned, drifted, bumped, video, audio

MCTokens ==
    UNION {Touches(AllSteps[i]) : i \in DOMAIN AllSteps}
    \cup {"sink_tail", "configurable_tail", "gstpipeline.h", "commented_cstdlib", "end"}

\* The sources the steps were written against: each anchor as often as its
\* step expects it, no include of the three.
AnchorsIn(path) ==
    [t \in MCTokens |->
        IF \E i \in DOMAIN AllSteps : AllSteps[i].path = path /\ AllSteps[i].old = t
        THEN AllSteps[CHOOSE i \in DOMAIN AllSteps :
                         AllSteps[i].path = path /\ AllSteps[i].old = t].count
        ELSE IF path = SINK_PATH /\ t \in {"sink_tail", "gstpipeline.h", "end"} THEN 1
        ELSE 0]
Pristine == [p \in Paths |-> AnchorsIn(p)]

\* A commit without the line the includes go after, and a later one that the
\* steps still fit, where a commented include has come in.
MCCheckout ==
    (pinned :> Pristine) @@
    (drifted :> [Pristine EXCEPT ![SINK_PATH]["csignal"] = 0]) @@
    (bumped :> [Pristine EXCEPT ![SINK_PATH]["commented_cstdlib"] = 1])

Sha(c, form) == [commit |-> c, form |-> form]

MCContexts ==
    {[pins |-> <<Absent, Sha(pinned, "full"), Sha(bumped, "short")>>,
      arg |-> arg, git |-> git, commit |-> c] :
        arg \in {Absent, Sha(pinned, "capitals"), Sha(pinned, "short")},
        git \in BOOLEAN, c \in {pinned, drifted, bumped}}

\* Nothing, the head of the file up to the video sink, or all but its end.
MCTears == {{}, {"csignal", "gstpipeline.h", "cstdlib", "configurable_tail"},
            MCTokens \ {"end"}}

MCLastHead == (video :> 2) @@ (audio :> 0)
MCLastGrain == (video :> 1) @@ (audio :> 0)
=============================================================================
