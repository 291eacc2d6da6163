----------------------------- MODULE BuildPatch -----------------------------
(***************************************************************************)
(* The patching of the MXL sources in the image build: patch-sink.py and,  *)
(* after it, patch-sink-too-early-pacing.py, each of which first compares  *)
(* the commit under build with the pinned one (mxl_build_prep.py).         *)
(*                                                                         *)
(* A source file is abstracted to the number of times it holds each of the *)
(* texts the scripts count: the OLD and NEW text of a step, an include     *)
(* directive, the line an insertion goes after.                            *)
(***************************************************************************)
EXTENDS Integers, Sequences, FiniteSets

CONSTANTS
    Steps,      \* the steps of both files, in the order of all_steps
    Tokens,     \* the texts that are counted
    Tears,      \* what of its tokens a sink.cpp may keep whose write was cut short
    Commits,    \* commits of the upstream project
    Checkout,   \* for each commit, its two source files
    Contexts,   \* the build contexts an operator may set up
    Absent      \* no such file, variable or repository

SINK_PATH  == "sink.cpp"
UTILS_PATH == "utils.hpp"
Paths == {SINK_PATH, UTILS_PATH}

Contents == [Tokens -> Nat]

(* A SHA as text: the commit it names and how it is written.               *)
Texts == [commit : Commits, form : {"full", "capitals", "short"}]

(* What the two scripts read besides the sources: the candidate files for  *)
(* the expected SHA in their order, MXL_SOURCE_SHA, whether git can answer *)
(* for the checkout, and the commit the sources really are.                *)
ContextType == [pins : Seq(Texts \cup {Absent}), arg : Texts \cup {Absent},
                git : BOOLEAN, commit : Commits]

StepType == [path : Paths, kind : {"text", "includes"}, old : Tokens,
             new : Tokens, count : Nat \ {0}, embedded : Nat,
             headers : SUBSET Tokens]

(* The texts whose number a step changes or relies on.                     *)
Touches(step) == IF step.kind = "text" THEN {step.old, step.new}
                 ELSE {step.old} \cup step.headers

ASSUME AbsentAssumption == Absent \notin Texts

ASSUME ContextAssumption ==
    /\ Contexts \subseteq ContextType
    /\ Checkout \in [Commits -> [Paths -> Contents]]

(* What patch-sink.py counts and changes; the tail of the file is there so *)
(* that a file cut short can be told from a whole one.                     *)
ASSUME TokenAssumption ==
    /\ {"sink_tail", "configurable_tail", "gstpipeline.h", "cstdlib",
        "commented_cstdlib", "end"} \subseteq Tokens
    /\ Tears \subseteq SUBSET Tokens

(* No step's text occurs in another's: the scripts' strings do not overlap.*)
ASSUME StepAssumption ==
    /\ Steps \in Seq(StepType)
    /\ \A i \in DOMAIN Steps :
          /\ Steps[i].kind = "text" => Steps[i].old # Steps[i].new
          /\ Steps[i].kind = "includes" => Steps[i].old \notin Steps[i].headers
    /\ \A i, j \in DOMAIN Steps :
          i # j /\ Steps[i].path = Steps[j].path
             => Touches(Steps[i]) \cap Touches(Steps[j]) = {}
    /\ \A i \in DOMAIN Steps :
          {"configurable_tail", "end"} \cap Touches(Steps[i]) = {}

VARIABLES
    context,     \* the build context set up by the operator
    disk,        \* the two source files
    stage,       \* what runs next
    buffer,      \* contents: the new text of each file, in memory
    at,          \* the next step of apply_all's first phase
    began,       \* history: the files when the present script started
    interrupted  \* history: the present attempt was killed or could not write

buildVars == <<context, disk, stage, buffer, at, began, interrupted>>

-----------------------------------------------------------------------------
(* mxl_build_prep.py *)

IsHex40(text) == text # Absent /\ text.form # "short"

(* _resolve_expected_sha: the first candidate file there is.               *)
ExpectedSha(c) ==
    LET found == {i \in DOMAIN c.pins : c.pins[i] # Absent}
    IN  IF found = {} THEN Absent
        ELSE c.pins[CHOOSE i \in found : \A j \in found : i <= j]

(* _resolve_actual_sha: the build argument if set, else what git says.     *)
ActualSha(c) ==
    IF c.arg # Absent THEN c.arg
    ELSE IF c.git THEN [commit |-> c.commit, form |-> "full"] ELSE Absent

(* Mutant: the two are read, but not compared.                             *)
VerifiedUncompared(c) == IsHex40(ExpectedSha(c)) /\ IsHex40(ActualSha(c))

(* verify_upstream_sha returns, rather than exit 1: case does not matter.  *)
Verified(c) ==
    /\ IsHex40(ExpectedSha(c))
    /\ IsHex40(ActualSha(c))
    /\ ExpectedSha(c).commit = ActualSha(c).commit

-----------------------------------------------------------------------------
(* The text operations of the two scripts *)

(* patch-sink.py: every occurrence replaced; <cstdlib> looked for as plain *)
(* text, so that a commented directive counts, and inserted only if there  *)
(* is a line to insert it after.                                           *)
ConfigurableSink(text) ==
    LET there == text["cstdlib"] + text["commented_cstdlib"] > 0
                 \/ text["gstpipeline.h"] = 0
    IN  [text EXCEPT !["configurable_tail"] = @ + text["sink_tail"],
                     !["sink_tail"] = 0,
                     !["cstdlib"] = IF there THEN @ ELSE @ + 1]

(* TextStep.is_applied, EnsureIncludesStep.is_applied *)
IsApplied(step, text) ==
    IF step.kind = "text"
    THEN /\ text[step.new] = step.count
         /\ text[step.old] = step.embedded * step.count
    ELSE \A h \in step.headers : text[h] = 1

(* Mutant: includes are pending only where none is there.                  *)
IsPendingWhole(step, text) ==
    IF step.kind = "text"
    THEN text[step.new] = 0 /\ text[step.old] = step.count
    ELSE \A h \in step.headers : text[h] = 0

(* TextStep.is_pending, EnsureIncludesStep.is_pending *)
IsPending(step, text) ==
    IF step.kind = "text"
    THEN text[step.new] = 0 /\ text[step.old] = step.count
    ELSE /\ \A h \in step.headers : text[h] < 2
         /\ \E h \in step.headers : text[h] = 0

(* The anchor a transform insists on; without it, PatchError.              *)
HasAnchor(step, text) ==
    IF step.kind = "text" THEN text[step.old] = step.count
    ELSE text[step.old] > 0

(* TextStep.transform, EnsureIncludesStep.transform *)
Transform(step, text) ==
    IF step.kind = "text"
    THEN [text EXCEPT ![step.old] = step.embedded * step.count,
                      ![step.new] = @ + step.count]
    ELSE [t \in Tokens |-> IF t \in step.headers /\ text[t] = 0 THEN 1
                           ELSE text[t]]

(* check_state: the steps that are only applied, the ones only pending.    *)
AppliedSteps == {i \in DOMAIN Steps : IsApplied(Steps[i], disk[Steps[i].path])
                                      /\ ~IsPending(Steps[i], disk[Steps[i].path])}
PendingSteps == {i \in DOMAIN Steps : IsPending(Steps[i], disk[Steps[i].path])
                                      /\ ~IsApplied(Steps[i], disk[Steps[i].path])}
(* Mutant: one step that is applied speaks for all.                        *)
CheckStateByMarker ==
    IF AppliedSteps # {} THEN "clean"
    ELSE IF PendingSteps # DOMAIN Steps THEN "partial" ELSE "fresh"

CheckState ==
    IF \/ AppliedSteps \cup PendingSteps # DOMAIN Steps
       \/ AppliedSteps # {} /\ PendingSteps # {}
    THEN "partial"
    ELSE IF AppliedSteps # {} THEN "clean" ELSE "fresh"

-----------------------------------------------------------------------------
(* The build *)

BuildInit ==
    /\ context \in Contexts
    /\ disk = Checkout[context.commit]
    /\ began = disk
    /\ buffer = disk
    /\ at = 1
    /\ stage = "patch-sink"
    /\ interrupted = FALSE

(* A script gives up (exit 1): the build stops.                            *)
Refuse ==
    /\ stage' = "failed"
    /\ UNCHANGED <<context, disk, buffer, at, began, interrupted>>

(* verify_upstream_sha exits: wrong commit, no full SHA, nothing to compare*)
RefuseSha ==
    /\ stage \in {"patch-sink", "pacing"}
    /\ ~Verified(context)
    /\ Refuse

(* patch-sink.py finds its replacement in place and has nothing to do.     *)
SinkAlreadyConfigurable ==
    /\ stage = "patch-sink"
    /\ Verified(context)
    /\ disk[SINK_PATH]["configurable_tail"] > 0
    /\ stage' = "pacing"
    /\ began' = disk
    /\ UNCHANGED <<context, disk, buffer, at, interrupted>>

SinkAnchorMissing ==
    /\ stage = "patch-sink"
    /\ Verified(context)
    /\ disk[SINK_PATH]["configurable_tail"] = 0
    /\ disk[SINK_PATH]["sink_tail"] = 0
    /\ Refuse

(* open(PATH, "w") empties sink.cpp before anything is written to it.      *)
TruncateSink ==
    /\ stage = "patch-sink"
    /\ Verified(context)
    /\ disk[SINK_PATH]["configurable_tail"] = 0
    /\ disk[SINK_PATH]["sink_tail"] > 0
    /\ buffer' = [buffer EXCEPT ![SINK_PATH] = ConfigurableSink(disk[SINK_PATH])]
    /\ disk' = [disk EXCEPT ![SINK_PATH] = [t \in Tokens |-> 0]]
    /\ stage' = "write_sink_tail"
    /\ UNCHANGED <<context, at, began, interrupted>>

WriteConfigurableSink ==
    /\ stage = "write_sink_tail"
    /\ disk' = [disk EXCEPT ![SINK_PATH] = buffer[SINK_PATH]]
    /\ began' = disk'
    /\ stage' = "pacing"
    /\ UNCHANGED <<context, buffer, at, interrupted>>

(* The second script's main: a no-op, a refusal, or the start of apply_all.*)
AlreadyPaced ==
    /\ stage = "pacing"
    /\ Verified(context)
    /\ CheckState = "clean"
    /\ stage' = "compile"
    /\ UNCHANGED <<context, disk, buffer, at, began, interrupted>>

RefusePartial ==
    /\ stage = "pacing"
    /\ Verified(context)
    /\ CheckState = "partial"
    /\ Refuse

StartApplying ==
    /\ stage = "pacing"
    /\ Verified(context)
    /\ CheckState = "fresh"
    /\ buffer' = disk
    /\ at' = 1
    /\ stage' = "validate"
    /\ UNCHANGED <<context, disk, began, interrupted>>

(* Mutant: each step is written as it is transformed.                      *)
ValidateAndWriteStep ==
    /\ stage = "validate"
    /\ at <= Len(Steps)
    /\ HasAnchor(Steps[at], buffer[Steps[at].path])
    /\ buffer' = [buffer EXCEPT ![Steps[at].path] = Transform(Steps[at], @)]
    /\ disk' = buffer'
    /\ at' = at + 1
    /\ UNCHANGED <<context, stage, began, interrupted>>

(* apply_all, phase 1: one more step validated and transformed in memory.  *)
ValidateStep ==
    /\ stage = "validate"
    /\ at <= Len(Steps)
    /\ HasAnchor(Steps[at], buffer[Steps[at].path])
    /\ buffer' = [buffer EXCEPT ![Steps[at].path] = Transform(Steps[at], @)]
    /\ at' = at + 1
    /\ UNCHANGED <<context, disk, stage, began, interrupted>>

AnchorMissing ==
    /\ stage = "validate"
    /\ at <= Len(Steps)
    /\ ~HasAnchor(Steps[at], buffer[Steps[at].path])
    /\ Refuse

(* Mutant: the write counts as a step.                                     *)
ReplaceUtilsAndCount ==
    /\ stage = "validate"
    /\ at > Len(Steps)
    /\ disk' = [disk EXCEPT ![UTILS_PATH] = buffer[UTILS_PATH]]
    /\ stage' = "write_sink.cpp"
    /\ at' = at + 1
    /\ UNCHANGED <<context, buffer, began, interrupted>>

(* Mutant: only the first of the files is written.                         *)
ReplaceUtilsOnly ==
    /\ stage = "validate"
    /\ at > Len(Steps)
    /\ disk' = [disk EXCEPT ![UTILS_PATH] = buffer[UTILS_PATH]]
    /\ stage' = "compile"
    /\ UNCHANGED <<context, buffer, at, began, interrupted>>

(* apply_all, phase 2: temporary file and os.replace, utils.hpp first (the *)
(* order in which contents got its keys).                                  *)
ReplaceUtils ==
    /\ stage = "validate"
    /\ at > Len(Steps)
    /\ disk' = [disk EXCEPT ![UTILS_PATH] = buffer[UTILS_PATH]]
    /\ stage' = "write_sink.cpp"
    /\ UNCHANGED <<context, buffer, at, began, interrupted>>

ReplaceSink ==
    /\ stage = "write_sink.cpp"
    /\ disk' = [disk EXCEPT ![SINK_PATH] = buffer[SINK_PATH]]
    /\ stage' = "compile"
    /\ UNCHANGED <<context, buffer, at, began, interrupted>>

(* The compiler: a file cut short ends inside its namespace.               *)
Compile ==
    /\ stage = "compile"
    /\ stage' = IF disk[SINK_PATH]["end"] > 0 THEN "built" ELSE "failed"
    /\ UNCHANGED <<context, disk, buffer, at, began, interrupted>>

(* The build is killed, or a write fails (disk full): only a write without *)
(* a temporary file leaves part of a file behind.                          *)
Interrupt ==
    /\ stage \notin {"built", "shipped", "failed"}
    /\ \E kept \in Tears :
          disk' = IF stage = "write_sink_tail"
                  THEN [disk EXCEPT ![SINK_PATH] =
                          [t \in Tokens |-> IF t \in kept THEN buffer[SINK_PATH][t]
                                            ELSE 0]]
                  ELSE disk
    /\ stage' = "failed"
    /\ interrupted' = TRUE
    /\ UNCHANGED <<context, buffer, at, began>>

(* The operator runs the scripts again on the context as it is.            *)
Rerun ==
    /\ stage = "failed"
    /\ stage' = "patch-sink"
    /\ began' = disk
    /\ interrupted' = FALSE
    /\ UNCHANGED <<context, disk, buffer, at>>

(* The operator sets up a context, with sources fresh from a checkout.     *)
RestoreContext ==
    /\ stage = "failed"
    /\ context' \in Contexts
    /\ disk' = Checkout[context'.commit]
    /\ began' = disk'
    /\ buffer' = disk'
    /\ at' = 1
    /\ stage' = "patch-sink"
    /\ interrupted' = FALSE

PatchSink == \/ SinkAlreadyConfigurable \/ SinkAnchorMissing
             \/ TruncateSink \/ WriteConfigurableSink
PatchPacing == \/ AlreadyPaced \/ RefusePartial \/ StartApplying \/ ValidateStep
               \/ AnchorMissing \/ ReplaceUtils \/ ReplaceSink
BuildStep == RefuseSha \/ PatchSink \/ PatchPacing \/ Compile

BuildNext == BuildStep \/ Interrupt \/ Rerun \/ RestoreContext
BuildSpec == BuildInit /\ [][BuildNext]_buildVars

(* The scripts run on; nobody has to interrupt, rerun or restore anything. *)
BuildFairness == WF_buildVars(BuildStep)
BuildFairSpec == BuildSpec /\ BuildFairness

-----------------------------------------------------------------------------
(* Properties *)

BuildTypeOK ==
    /\ context \in Contexts
    /\ disk \in [Paths -> Contents]
    /\ stage \in {"patch-sink", "write_sink_tail", "pacing", "validate",
               "write_sink.cpp", "compile", "built", "shipped", "failed"}
    /\ buffer \in [Paths -> Contents]
    /\ at \in 1 .. Len(Steps) + 1
    /\ began \in [Paths -> Contents]
    /\ interrupted \in BOOLEAN

(* What the two scripts promise of the sources once both have exited 0.    *)
FullyPatched ==
    /\ disk[SINK_PATH]["configurable_tail"] > 0
    /\ \A i \in DOMAIN Steps : IsApplied(Steps[i], disk[Steps[i].path])

(* Whatever happened before (kills between two writes, truncated files,    *)
(* reruns on what they left, sources of another commit under the right     *)
(* SHA), no build gets past the scripts without every fix in both files:   *)
(* main returns 0 only on a verified or a completed apply.                 *)
NeverFalseGreen == stage \in {"compile", "built"} => FullyPatched

(* A build argument that names the commit that is really there.            *)
HonestArg == context.arg = Absent \/ context.arg.commit = context.commit

(* An image is only made of the commit the expected-SHA file names, unless *)
(* the build argument lies about the sources, and of all of sink.cpp even  *)
(* if a patch-sink.py before was killed half way through writing it.       *)
BuiltFromThePin ==
    stage = "built" => /\ HonestArg => context.commit = ExpectedSha(context).commit
                    /\ disk[SINK_PATH]["end"] = Checkout[context.commit][SINK_PATH]["end"]

(* When the pacing script gives up by itself, at whichever step and after  *)
(* whatever it had validated, both files are as it found them.             *)
AllOrNothing ==
    [][(/\ stage \in {"pacing", "validate", "write_sink.cpp"}
        /\ stage' = "failed"
        /\ ~interrupted') => (disk' = began)]_buildVars

(* Sources with every anchor the steps were written against, and another   *)
(* include to add than the one patch-sink.py may add: where that is the    *)
(* only one missing, its insertion makes the includes step look applied    *)
(* and the pacing script refuses the mix.                                  *)
Patchable ==
    /\ disk[SINK_PATH]["sink_tail"] > 0
    /\ disk[SINK_PATH]["end"] > 0
    /\ \A i \in DOMAIN Steps : /\ IsPending(Steps[i], disk[Steps[i].path])
                               /\ HasAnchor(Steps[i], disk[Steps[i].path])
                               /\ Steps[i].kind = "includes" =>
                                     \E h \in Steps[i].headers \ {"cstdlib"} :
                                         disk[Steps[i].path][h] = 0

(* Patchable sources under the right SHA get through both scripts and the  *)
(* compiler unless somebody interrupts: what patch-sink.py inserts does    *)
(* not stop the other script, nor one step of it the next.                 *)
PatchableGetsBuilt ==
    (stage = "patch-sink" /\ Verified(context) /\ Patchable)
        ~> (stage = "built" \/ interrupted)
=============================================================================
