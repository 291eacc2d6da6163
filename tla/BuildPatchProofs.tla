-------------------------- MODULE BuildPatchProofs --------------------------
(***************************************************************************)
(* Proofs about BuildPatch, for every list of steps, every set of commits  *)
(* and every context: the two scripts never report success on half-patched *)
(* sources.                                                                *)
(***************************************************************************)
EXTENDS BuildPatch, TLAPS

LEMMA StepFacts ==
    /\ Len(Steps) \in Nat /\ DOMAIN Steps = 1 .. Len(Steps)
    /\ \A i \in DOMAIN Steps : Steps[i] \in StepType
BY StepAssumption

LEMMA TokenFacts ==
    /\ "sink_tail" \in Tokens /\ "configurable_tail" \in Tokens
    /\ "cstdlib" \in Tokens /\ "end" \in Tokens
BY TokenAssumption

LEMMA TransformType ==
    ASSUME NEW step \in StepType, NEW text \in Contents
    PROVE  Transform(step, text) \in Contents
<1>1. /\ step.old \in Tokens /\ step.new \in Tokens /\ step.count \in Nat
      /\ step.embedded \in Nat
  BY DEF StepType
<1>2. step.embedded * step.count \in Nat BY <1>1
<1>3. \A t \in Tokens : text[t] \in Nat BY DEF Contents
<1>4. CASE step.kind = "text"
  <2>1. text[step.new] + step.count \in Nat BY <1>1, <1>3
  <2> QED BY <1>2, <1>4, <2>1 DEF Transform, Contents
<1>5. CASE step.kind # "text"
  BY <1>3, <1>5 DEF Transform, Contents
<1> QED BY <1>4, <1>5

(* What a transform leaves alone.                                          *)
LEMMA TransformFrame ==
    ASSUME NEW step \in StepType, NEW text \in Contents,
           NEW t \in Tokens, t \notin Touches(step)
    PROVE  Transform(step, text)[t] = text[t]
<1>1. CASE step.kind = "text"
  BY <1>1 DEF Transform, Touches, Contents
<1>2. CASE step.kind # "text"
  BY <1>2 DEF Transform, Touches, Contents
<1> QED BY <1>1, <1>2

(* A pending step whose anchor is there is applied by its transform.       *)
LEMMA TransformApplies ==
    ASSUME NEW step \in StepType, NEW text \in Contents,
           step.kind = "text" => step.old # step.new,
           IsPending(step, text)
    PROVE  IsApplied(step, Transform(step, text))
<1>1. /\ step.old \in Tokens /\ step.new \in Tokens /\ step.count \in Nat
      /\ step.headers \subseteq Tokens
  BY DEF StepType
<1>2. CASE step.kind = "text"
  <2>1. text[step.new] = 0 BY <1>2 DEF IsPending
  <2>2. Transform(step, text)[step.new] = text[step.new] + step.count
    BY <1>1, <1>2 DEF Transform, Contents
  <2>3. Transform(step, text)[step.old] = step.embedded * step.count
    BY <1>1, <1>2 DEF Transform, Contents
  <2> QED BY <1>1, <1>2, <2>1, <2>2, <2>3 DEF IsApplied
<1>3. CASE step.kind # "text"
  <2> SUFFICES ASSUME NEW h \in step.headers PROVE Transform(step, text)[h] = 1
    BY <1>3 DEF IsApplied
  <2>1. text[h] < 2 /\ text[h] \in Nat BY <1>1, <1>3 DEF IsPending, Contents
  <2> QED BY <1>1, <1>3, <2>1 DEF Transform
<1> QED BY <1>2, <1>3

(* The state of a step depends on the texts it touches.                    *)
LEMMA StateOfTouched ==
    ASSUME NEW step \in StepType, NEW text, NEW other,
           \A t \in Touches(step) : other[t] = text[t]
    PROVE  /\ IsApplied(step, other) <=> IsApplied(step, text)
           /\ IsPending(step, other) <=> IsPending(step, text)
<1>1. CASE step.kind = "text"
  BY <1>1 DEF IsApplied, IsPending, Touches
<1>2. CASE step.kind # "text"
  <2>1. \A h \in step.headers : other[h] = text[h] BY <1>2 DEF Touches
  <2> QED BY <1>2, <2>1 DEF IsApplied, IsPending
<1> QED BY <1>1, <1>2

LEMMA ConfigurableSinkFacts ==
    ASSUME NEW text \in Contents
    PROVE  /\ ConfigurableSink(text) \in Contents
           /\ ConfigurableSink(text)["configurable_tail"]
                 = text["configurable_tail"] + text["sink_tail"]
           /\ ConfigurableSink(text)["end"] = text["end"]
<1> DEFINE there == text["cstdlib"] + text["commented_cstdlib"] > 0
                    \/ text["gstpipeline.h"] = 0
           one == [text EXCEPT !["configurable_tail"] = @ + text["sink_tail"]]
           two == [one EXCEPT !["sink_tail"] = 0]
<1>1. ConfigurableSink(text) = [two EXCEPT !["cstdlib"] = IF there THEN @ ELSE @ + 1]
  BY DEF ConfigurableSink
<1>2. text["sink_tail"] \in Nat /\ text["configurable_tail"] \in Nat
  BY TokenFacts DEF Contents
<1>3. one \in Contents /\ one["configurable_tail"] = text["configurable_tail"] + text["sink_tail"]
      /\ one["end"] = text["end"]
  BY <1>2, TokenFacts DEF Contents
<1> HIDE DEF one
<1>4. two \in Contents /\ two["configurable_tail"] = one["configurable_tail"]
      /\ two["end"] = one["end"]
  BY <1>3, TokenFacts DEF Contents
<1> HIDE DEF two, there
<1>5. two["cstdlib"] \in Nat /\ two["cstdlib"] + 1 \in Nat
  BY <1>4, TokenFacts DEF Contents
<1>6. /\ [two EXCEPT !["cstdlib"] = IF there THEN @ ELSE @ + 1] \in Contents
      /\ [two EXCEPT !["cstdlib"] = IF there THEN @ ELSE @ + 1]["configurable_tail"]
            = two["configurable_tail"]
      /\ [two EXCEPT !["cstdlib"] = IF there THEN @ ELSE @ + 1]["end"] = two["end"]
  BY <1>4, <1>5, TokenFacts DEF Contents
<1> QED BY <1>1, <1>3, <1>4, <1>6

-----------------------------------------------------------------------------
(* The types. *)

LEMMA CheckoutType ==
    ASSUME NEW c \in Contexts
    PROVE  c.commit \in Commits /\ Checkout[c.commit] \in [Paths -> Contents]
BY ContextAssumption DEF ContextType

LEMMA InterruptedType ==
    ASSUME NEW kept, NEW text \in Contents
    PROVE  [t \in Tokens |-> IF t \in kept THEN text[t] ELSE 0] \in Contents
BY DEF Contents

LEMMA BuildTypeInit == BuildInit => BuildTypeOK
<1> SUFFICES ASSUME BuildInit PROVE BuildTypeOK
  OBVIOUS
<1>1. context \in Contexts /\ disk \in [Paths -> Contents]
  BY CheckoutType DEF BuildInit
<1>2. 1 \in 1 .. Len(Steps) + 1 BY StepFacts
<1> QED BY <1>1, <1>2 DEF BuildInit, BuildTypeOK

LEMMA BuildTypeStep == BuildTypeOK /\ [BuildNext]_buildVars => BuildTypeOK'
<1> SUFFICES ASSUME BuildTypeOK, [BuildNext]_buildVars PROVE BuildTypeOK'
  OBVIOUS
<1> USE DEF BuildTypeOK
<1>0. SINK_PATH \in Paths /\ UTILS_PATH \in Paths BY DEF Paths
<1>1. ASSUME Refuse PROVE BuildTypeOK' BY <1>1 DEF Refuse
<1>2. CASE RefuseSha BY <1>1, <1>2 DEF RefuseSha
<1>3. CASE SinkAlreadyConfigurable BY <1>3 DEF SinkAlreadyConfigurable
<1>4. CASE SinkAnchorMissing BY <1>1, <1>4 DEF SinkAnchorMissing
<1>5. CASE TruncateSink
  <2>1. ConfigurableSink(disk[SINK_PATH]) \in Contents BY <1>0, ConfigurableSinkFacts
  <2>2. [t \in Tokens |-> 0] \in Contents BY DEF Contents
  <2> HIDE DEF ConfigurableSink
  <2> QED BY <1>5, <2>1, <2>2 DEF TruncateSink
<1>6. CASE WriteConfigurableSink BY <1>0, <1>6 DEF WriteConfigurableSink
<1>7. CASE AlreadyPaced BY <1>7 DEF AlreadyPaced
<1>8. CASE RefusePartial BY <1>1, <1>8 DEF RefusePartial
<1>9. CASE StartApplying BY <1>9, StepFacts DEF StartApplying
<1>10. CASE ValidateStep
  <2>1. at \in DOMAIN Steps /\ at + 1 \in 1 .. Len(Steps) + 1
    BY <1>10, StepFacts DEF ValidateStep
  <2>2. Steps[at] \in StepType /\ Steps[at].path \in Paths
    BY <2>1, StepFacts DEF StepType
  <2>3. Transform(Steps[at], buffer[Steps[at].path]) \in Contents
    BY <2>2, TransformType
  <2>4. buffer' \in [Paths -> Contents] BY <1>10, <2>3 DEF ValidateStep
  <2> QED BY <1>10, <2>1, <2>4 DEF ValidateStep
<1>11. CASE AnchorMissing BY <1>1, <1>11 DEF AnchorMissing
<1>12. CASE ReplaceUtils BY <1>0, <1>12 DEF ReplaceUtils
<1>13. CASE ReplaceSink BY <1>0, <1>13 DEF ReplaceSink
<1>14. CASE Compile BY <1>14 DEF Compile
<1>15. CASE Interrupt
  <2>1. PICK kept \in Tears :
          disk' = IF stage = "write_sink_tail"
                  THEN [disk EXCEPT ![SINK_PATH] =
                          [t \in Tokens |-> IF t \in kept THEN buffer[SINK_PATH][t]
                                            ELSE 0]]
                  ELSE disk
    BY <1>15 DEF Interrupt
  <2> DEFINE torn == [t \in Tokens |-> IF t \in kept THEN buffer[SINK_PATH][t] ELSE 0]
  <2>2. torn \in Contents BY <1>0, InterruptedType
  <2> HIDE DEF torn
  <2>3. disk' \in [Paths -> Contents] BY <1>0, <2>1, <2>2 DEF torn
  <2> QED BY <1>15, <2>3 DEF Interrupt
<1>16. CASE Rerun BY <1>16 DEF Rerun
<1>17. CASE RestoreContext
  <2>1. context' \in Contexts BY <1>17 DEF RestoreContext
  <2>2. Checkout[context'.commit] \in [Paths -> Contents] BY <2>1, CheckoutType
  <2>3. 1 \in 1 .. Len(Steps) + 1 BY StepFacts
  <2>4. disk' \in [Paths -> Contents] /\ buffer' = disk' /\ began' = disk'
    BY <1>17, <2>2 DEF RestoreContext
  <2> QED BY <1>17, <2>1, <2>3, <2>4 DEF RestoreContext
<1>18. CASE UNCHANGED buildVars BY <1>18 DEF buildVars
<1> QED
  BY <1>2, <1>3, <1>4, <1>5, <1>6, <1>7, <1>8, <1>9, <1>10, <1>11, <1>12, <1>13,
     <1>14, <1>15, <1>16, <1>17, <1>18
  DEF BuildNext, BuildStep, PatchSink, PatchPacing

(* The variables keep their types.                                         *)
THEOREM BuildType == BuildSpec => []BuildTypeOK
BY BuildTypeInit, BuildTypeStep, PTL DEF BuildSpec

-----------------------------------------------------------------------------
(* apply_all at work: of the steps in their order, the ones before "at"    *)
(* are applied in memory and the others still pending.                     *)
HalfDone ==
    /\ \A j \in DOMAIN Steps : j < at => IsApplied(Steps[j], buffer[Steps[j].path])
    /\ \A j \in DOMAIN Steps : at <= j => IsPending(Steps[j], buffer[Steps[j].path])

AllApplied(files) ==
    /\ files[SINK_PATH]["configurable_tail"] > 0
    /\ \A j \in DOMAIN Steps : IsApplied(Steps[j], files[Steps[j].path])

(* Which of the two texts of a file each stage has patched already.        *)
Progress ==
    /\ stage = "write_sink_tail" => buffer[SINK_PATH]["configurable_tail"] > 0
    /\ stage \in {"pacing", "validate"} => disk[SINK_PATH]["configurable_tail"] > 0
    /\ stage = "validate" => HalfDone /\ buffer[SINK_PATH]["configurable_tail"] > 0
    /\ stage = "write_sink.cpp" => AllApplied(buffer) /\ disk[UTILS_PATH] = buffer[UTILS_PATH]
    /\ stage \in {"compile", "built"} => AllApplied(disk)

LEMMA ProgressInit == BuildInit => Progress
BY DEF BuildInit, Progress

LEMMA CleanMeansApplied ==
    CheckState = "clean" => \A j \in DOMAIN Steps : IsApplied(Steps[j], disk[Steps[j].path])
<1> SUFFICES ASSUME CheckState = "clean" PROVE AppliedSteps = DOMAIN Steps
  BY DEF AppliedSteps
<1>1. ~(AppliedSteps \cup PendingSteps # DOMAIN Steps
        \/ (AppliedSteps # {} /\ PendingSteps # {}))
  BY DEF CheckState
<1>2. AppliedSteps # {} BY <1>1 DEF CheckState
<1>3. PendingSteps = {} BY <1>1, <1>2
<1> QED BY <1>1, <1>3

LEMMA FreshMeansPending ==
    CheckState = "fresh" => \A j \in DOMAIN Steps : IsPending(Steps[j], disk[Steps[j].path])
<1> SUFFICES ASSUME CheckState = "fresh" PROVE PendingSteps = DOMAIN Steps
  BY DEF PendingSteps
<1>1. ~(AppliedSteps \cup PendingSteps # DOMAIN Steps
        \/ (AppliedSteps # {} /\ PendingSteps # {}))
  BY DEF CheckState
<1>2. AppliedSteps = {} BY <1>1 DEF CheckState
<1> QED BY <1>1, <1>2

(* One step of phase 1: the steps of a file do not disturb each other.     *)
LEMMA ValidateKeepsOrder ==
    ASSUME BuildTypeOK, HalfDone, ValidateStep,
           buffer[SINK_PATH]["configurable_tail"] > 0
    PROVE  HalfDone' /\ buffer'[SINK_PATH]["configurable_tail"] > 0
<1> DEFINE p == Steps[at].path
           text == Transform(Steps[at], buffer[p])
<1>1. /\ at \in DOMAIN Steps /\ Steps[at] \in StepType /\ p \in Paths
      /\ buffer[p] \in Contents /\ SINK_PATH \in Paths
  BY StepFacts DEF ValidateStep, BuildTypeOK, StepType, Paths
<1>2. buffer' = [buffer EXCEPT ![p] = text] /\ at' = at + 1
  BY DEF ValidateStep
<1>3. buffer \in [Paths -> Contents] BY DEF BuildTypeOK
<1>4. IsApplied(Steps[at], buffer'[p])
  <2>1. IsPending(Steps[at], buffer[p]) BY <1>1, StepFacts DEF HalfDone
  <2>2. IsApplied(Steps[at], text)
    BY <1>1, <2>1, StepAssumption, TransformApplies
  <2> HIDE DEF text
  <2> QED BY <1>1, <1>2, <1>3, <2>2
<1>5. ASSUME NEW j \in DOMAIN Steps, j # at
      PROVE  /\ IsApplied(Steps[j], buffer'[Steps[j].path])
                  <=> IsApplied(Steps[j], buffer[Steps[j].path])
             /\ IsPending(Steps[j], buffer'[Steps[j].path])
                  <=> IsPending(Steps[j], buffer[Steps[j].path])
  <2>1. Steps[j] \in StepType /\ Steps[j].path \in Paths BY <1>5, StepFacts DEF StepType
  <2>2. CASE Steps[j].path # p
    <3>1. buffer'[Steps[j].path] = buffer[Steps[j].path]
      BY <1>2, <1>3, <2>1, <2>2
    <3> QED BY <3>1
  <2>3. CASE Steps[j].path = p
    <3>1. Touches(Steps[j]) \cap Touches(Steps[at]) = {}
      BY <1>1, <1>5, <2>3, StepAssumption
    <3>2. Touches(Steps[j]) \subseteq Tokens BY <2>1 DEF Touches, StepType
    <3>3. \A t \in Touches(Steps[j]) : text[t] = buffer[p][t]
      BY <1>1, <3>1, <3>2, TransformFrame
    <3> HIDE DEF text
    <3>4. buffer'[p] = text BY <1>1, <1>2, <1>3
    <3> QED BY <2>1, <2>3, <3>3, <3>4, StateOfTouched
  <2> QED BY <2>2, <2>3
<1>6. HalfDone'
  <2>1. at \in Nat BY <1>1, StepFacts
  <2>2. ASSUME NEW j \in DOMAIN Steps, j < at + 1
        PROVE  IsApplied(Steps[j], buffer'[Steps[j].path])
    <3>1. j \in Nat BY StepFacts
    <3>2. CASE j = at BY <1>4, <3>2
    <3>3. CASE j # at
      <4>1. j < at BY <2>1, <2>2, <3>1, <3>3
      <4> QED BY <1>5, <3>3, <4>1 DEF HalfDone
    <3> QED BY <3>2, <3>3
  <2>3. ASSUME NEW j \in DOMAIN Steps, at + 1 <= j
        PROVE  IsPending(Steps[j], buffer'[Steps[j].path])
    <3>1. j \in Nat BY StepFacts
    <3>2. j # at /\ at <= j BY <2>1, <2>3, <3>1
    <3> QED BY <1>5, <3>2 DEF HalfDone
  <2> QED BY <1>2, <2>2, <2>3 DEF HalfDone
<1>7. buffer'[SINK_PATH]["configurable_tail"] > 0
  <2>1. "configurable_tail" \notin Touches(Steps[at])
    BY <1>1, StepAssumption
  <2>2. text["configurable_tail"] = buffer[p]["configurable_tail"]
    BY <1>1, <2>1, TokenFacts, TransformFrame
  <2> HIDE DEF text
  <2> QED BY <1>1, <1>2, <1>3, <2>2
<1> QED BY <1>6, <1>7

LEMMA ProgressStep ==
    BuildTypeOK /\ Progress /\ [BuildNext]_buildVars => Progress'
<1> SUFFICES ASSUME BuildTypeOK, Progress, [BuildNext]_buildVars PROVE Progress'
  OBVIOUS
<1>0. /\ SINK_PATH \in Paths /\ UTILS_PATH \in Paths /\ Paths = {SINK_PATH, UTILS_PATH}
      /\ disk \in [Paths -> Contents] /\ buffer \in [Paths -> Contents]
  BY DEF Paths, BuildTypeOK
<1>1. ASSUME stage' = "failed" \/ stage' = "patch-sink" PROVE Progress'
  BY <1>1 DEF Progress
<1>2. CASE RefuseSha \/ SinkAnchorMissing \/ RefusePartial \/ AnchorMissing
           \/ Interrupt \/ Rerun \/ RestoreContext
  BY <1>1, <1>2 DEF RefuseSha, SinkAnchorMissing, RefusePartial, AnchorMissing, Refuse,
                    Interrupt, Rerun, RestoreContext
<1>3. CASE SinkAlreadyConfigurable
  BY <1>3 DEF SinkAlreadyConfigurable, Progress
<1>4. CASE TruncateSink
  <2>1. disk[SINK_PATH] \in Contents BY <1>0
  <2>2. /\ disk[SINK_PATH]["sink_tail"] > 0
        /\ disk[SINK_PATH]["configurable_tail"] = 0
        /\ buffer' = [buffer EXCEPT ![SINK_PATH] = ConfigurableSink(disk[SINK_PATH])]
        /\ stage' = "write_sink_tail"
    BY <1>4 DEF TruncateSink
  <2>3. ConfigurableSink(disk[SINK_PATH])["configurable_tail"] > 0
    BY <2>1, <2>2, ConfigurableSinkFacts, TokenFacts DEF Contents
  <2>4. buffer'[SINK_PATH]["configurable_tail"] > 0 BY <1>0, <2>2, <2>3
  <2> QED BY <2>2, <2>4 DEF Progress
<1>5. CASE WriteConfigurableSink
  <2>1. /\ stage = "write_sink_tail" /\ stage' = "pacing"
        /\ disk' = [disk EXCEPT ![SINK_PATH] = buffer[SINK_PATH]]
    BY <1>5 DEF WriteConfigurableSink
  <2>2. disk'[SINK_PATH]["configurable_tail"] > 0 BY <1>0, <2>1 DEF Progress
  <2> QED BY <2>1, <2>2 DEF Progress
<1>6. CASE AlreadyPaced
  <2>1. AllApplied(disk)
    BY <1>6, CleanMeansApplied DEF AlreadyPaced, Progress, AllApplied
  <2> QED BY <1>6, <2>1 DEF AlreadyPaced, Progress, AllApplied
<1>7. CASE StartApplying
  <2>1. /\ buffer' = disk /\ disk' = disk /\ at' = 1 /\ stage' = "validate"
        /\ stage = "pacing"
    BY <1>7 DEF StartApplying
  <2>2. \A j \in DOMAIN Steps : IsPending(Steps[j], disk[Steps[j].path])
    BY <1>7, FreshMeansPending DEF StartApplying
  <2>3. \A j \in DOMAIN Steps : ~(j < 1) BY StepFacts
  <2>4. HalfDone' BY <2>1, <2>2, <2>3 DEF HalfDone
  <2> QED BY <2>1, <2>4 DEF Progress
<1>8. CASE ValidateStep
  <2>1. /\ stage = "validate" /\ stage' = "validate" /\ disk' = disk
    BY <1>8 DEF ValidateStep
  <2>2. HalfDone' /\ buffer'[SINK_PATH]["configurable_tail"] > 0
    BY <1>8, <2>1, ValidateKeepsOrder DEF Progress
  <2> QED BY <2>1, <2>2 DEF Progress
<1>9. CASE ReplaceUtils
  <2>1. /\ stage = "validate" /\ stage' = "write_sink.cpp" /\ buffer' = buffer
        /\ at > Len(Steps)
        /\ disk' = [disk EXCEPT ![UTILS_PATH] = buffer[UTILS_PATH]]
    BY <1>9 DEF ReplaceUtils
  <2>2. \A j \in DOMAIN Steps : j < at
    BY <2>1, StepFacts DEF BuildTypeOK
  <2>3. AllApplied(buffer) BY <2>1, <2>2 DEF Progress, HalfDone, AllApplied
  <2>4. disk'[UTILS_PATH] = buffer[UTILS_PATH] BY <1>0, <2>1
  <2>5. AllApplied(buffer)' BY <2>1, <2>3 DEF AllApplied
  <2> QED BY <2>1, <2>4, <2>5 DEF Progress
<1>10. CASE ReplaceSink
  <2>1. /\ stage = "write_sink.cpp" /\ stage' = "compile" /\ buffer' = buffer
        /\ disk' = [disk EXCEPT ![SINK_PATH] = buffer[SINK_PATH]]
    BY <1>10 DEF ReplaceSink
  <2>2. disk' = buffer BY <1>0, <2>1 DEF Progress
  <2>3. AllApplied(disk') BY <2>1, <2>2 DEF Progress
  <2> QED BY <2>1, <2>3 DEF Progress, AllApplied
<1>11. CASE Compile
  BY <1>11 DEF Compile, Progress, AllApplied
<1>12. CASE UNCHANGED buildVars
  BY <1>12 DEF buildVars, Progress, AllApplied, HalfDone
<1> QED
  BY <1>2, <1>3, <1>4, <1>5, <1>6, <1>7, <1>8, <1>9, <1>10, <1>11, <1>12
  DEF BuildNext, BuildStep, PatchSink, PatchPacing

(* The two scripts report success only on fully patched sources.           *)
THEOREM NoFalseGreen == BuildSpec => []NeverFalseGreen
<1>1. Progress => NeverFalseGreen
  BY DEF Progress, AllApplied, NeverFalseGreen, FullyPatched
<1> QED BY <1>1, BuildTypeInit, BuildTypeStep, ProgressInit, ProgressStep, PTL DEF BuildSpec

-----------------------------------------------------------------------------
(* Up to its first write the pacing script leaves the files as it found    *)
(* them, and past it, it does not give up by itself any more.              *)
Untouched == stage \in {"pacing", "validate"} => disk = began

LEMMA UntouchedHolds == BuildSpec => []Untouched
<1>1. BuildInit => Untouched
  BY DEF BuildInit, Untouched
<1>2. Untouched /\ [BuildNext]_buildVars => Untouched'
  BY DEF Untouched, BuildNext, BuildStep, PatchSink, PatchPacing, RefuseSha, Refuse,
         SinkAlreadyConfigurable, SinkAnchorMissing, TruncateSink, WriteConfigurableSink,
         AlreadyPaced, RefusePartial, StartApplying, ValidateStep, AnchorMissing,
         ReplaceUtils, ReplaceSink, Compile, Interrupt, Rerun, RestoreContext, buildVars
<1> QED BY <1>1, <1>2, PTL DEF BuildSpec

(* When the pacing script gives up, both files are as it found them.       *)
THEOREM GivesUpCleanly == BuildSpec => AllOrNothing
<1> DEFINE Clean == (/\ stage \in {"pacing", "validate", "write_sink.cpp"}
                     /\ stage' = "failed"
                     /\ ~interrupted') => (disk' = began)
<1>1. ASSUME Untouched, [BuildNext]_buildVars PROVE Clean \/ UNCHANGED buildVars
  BY <1>1
  DEF Untouched, BuildNext, BuildStep, PatchSink, PatchPacing, RefuseSha, Refuse,
      SinkAlreadyConfigurable, SinkAnchorMissing, TruncateSink, WriteConfigurableSink,
      AlreadyPaced, RefusePartial, StartApplying, ValidateStep, AnchorMissing,
      ReplaceUtils, ReplaceSink, Compile, Interrupt, Rerun, RestoreContext
<1>2. Untouched /\ [BuildNext]_buildVars => [Clean]_buildVars
  BY <1>1
<1>3. AllOrNothing <=> [][Clean]_buildVars
  BY DEF AllOrNothing
<1> HIDE DEF Clean
<1> QED BY <1>2, <1>3, UntouchedHolds, PTL DEF BuildSpec

-----------------------------------------------------------------------------
(* How much of its end a text of sink.cpp has: all that the commit's has,  *)
(* or, where a write was cut short, none of it.                            *)
EndOf(text) == text["end"]
Whole(n) == n \in {0, EndOf(Checkout[context.commit][SINK_PATH])}

(* Past the first check of a script the SHA is the expected one, and what  *)
(* is in memory or on disk comes of the commit's own sink.cpp.             *)
FromThePin ==
    /\ stage \notin {"patch-sink", "failed", "shipped"} => Verified(context)
    /\ Whole(EndOf(disk[SINK_PATH]))
    /\ Whole(EndOf(buffer[SINK_PATH]))
    /\ stage = "built" => EndOf(disk[SINK_PATH]) > 0

LEMMA FromThePinInit == BuildInit => FromThePin
BY DEF BuildInit, FromThePin, Whole

LEMMA FromThePinStep ==
    BuildTypeOK /\ FromThePin /\ [BuildNext]_buildVars => FromThePin'
<1> SUFFICES ASSUME BuildTypeOK, FromThePin, [BuildNext]_buildVars PROVE FromThePin'
  OBVIOUS
<1>0. /\ SINK_PATH \in Paths /\ UTILS_PATH \in Paths /\ UTILS_PATH # SINK_PATH
      /\ disk \in [Paths -> Contents] /\ buffer \in [Paths -> Contents]
      /\ disk[SINK_PATH] \in Contents /\ buffer[SINK_PATH] \in Contents
  BY DEF Paths, BuildTypeOK, SINK_PATH, UTILS_PATH
<1>1. ASSUME Refuse PROVE FromThePin'
  BY <1>1 DEF Refuse, FromThePin, Whole
<1>2. CASE RefuseSha \/ SinkAnchorMissing \/ RefusePartial \/ AnchorMissing
  BY <1>1, <1>2 DEF RefuseSha, SinkAnchorMissing, RefusePartial, AnchorMissing
<1>3. CASE SinkAlreadyConfigurable \/ AlreadyPaced
  BY <1>3 DEF SinkAlreadyConfigurable, AlreadyPaced, FromThePin, Whole
<1>4. CASE TruncateSink
  <2>1. /\ buffer'[SINK_PATH] = ConfigurableSink(disk[SINK_PATH])
        /\ disk'[SINK_PATH] = [t \in Tokens |-> 0]
        /\ context' = context /\ stage' = "write_sink_tail" /\ Verified(context)
    BY <1>0, <1>4 DEF TruncateSink
  <2>2. EndOf(buffer'[SINK_PATH]) = EndOf(disk[SINK_PATH])
    BY <1>0, <2>1, ConfigurableSinkFacts DEF EndOf
  <2>3. EndOf(disk'[SINK_PATH]) = 0 BY <2>1, TokenFacts DEF EndOf
  <2> QED BY <2>1, <2>2, <2>3 DEF FromThePin, Whole
<1>5. CASE WriteConfigurableSink \/ ReplaceSink
  <2>1. /\ disk'[SINK_PATH] = buffer[SINK_PATH] /\ UNCHANGED <<buffer, context>>
        /\ stage' # "built" /\ Verified(context)
    BY <1>0, <1>5 DEF WriteConfigurableSink, ReplaceSink, FromThePin
  <2> QED BY <2>1 DEF FromThePin, Whole
<1>6. CASE StartApplying
  <2>1. buffer' = disk /\ UNCHANGED <<disk, context>> /\ stage' = "validate"
        /\ Verified(context)
    BY <1>6 DEF StartApplying
  <2> QED BY <2>1 DEF FromThePin, Whole
<1>7. CASE ValidateStep
  <2> DEFINE p == Steps[at].path
             text == Transform(Steps[at], buffer[p])
  <2>1. at \in DOMAIN Steps BY <1>7, StepFacts DEF ValidateStep, BuildTypeOK
  <2>2. Steps[at] \in StepType /\ p \in Paths /\ buffer[p] \in Contents
        /\ "end" \notin Touches(Steps[at])
    BY <2>1, <1>0, StepFacts, StepAssumption DEF StepType
  <2>3. EndOf(text) = EndOf(buffer[p]) BY <2>2, TransformFrame, TokenFacts DEF EndOf
  <2> HIDE DEF text
  <2>4. /\ buffer' = [buffer EXCEPT ![p] = text] /\ UNCHANGED <<disk, context>>
        /\ stage = "validate" /\ stage' = "validate"
    BY <1>7 DEF ValidateStep, text
  <2>5. EndOf(buffer'[SINK_PATH]) = EndOf(buffer[SINK_PATH])
    <3>1. CASE p = SINK_PATH
      <4>1. buffer'[SINK_PATH] = text BY <1>0, <2>4, <3>1
      <4> QED BY <2>3, <3>1, <4>1
    <3>2. CASE p # SINK_PATH
      <4>1. buffer'[SINK_PATH] = buffer[SINK_PATH] BY <1>0, <2>4, <3>2
      <4> QED BY <4>1
    <3> QED BY <3>1, <3>2
  <2> QED BY <2>4, <2>5 DEF FromThePin, Whole
<1>8. CASE ReplaceUtils
  <2>1. /\ disk'[SINK_PATH] = disk[SINK_PATH] /\ UNCHANGED <<buffer, context>>
        /\ stage' = "write_sink.cpp" /\ Verified(context)
    BY <1>0, <1>8 DEF ReplaceUtils, FromThePin
  <2> QED BY <2>1 DEF FromThePin, Whole
<1>9. CASE Compile
  <2>1. /\ UNCHANGED <<disk, buffer, context>> /\ stage = "compile"
        /\ stage' = "built" => EndOf(disk[SINK_PATH]) > 0
        /\ stage' \in {"built", "failed"}
    BY <1>9 DEF Compile, EndOf
  <2> QED BY <2>1 DEF FromThePin, Whole
<1>10. CASE Interrupt
  <2>1. PICK kept \in Tears :
          disk' = IF stage = "write_sink_tail"
                  THEN [disk EXCEPT ![SINK_PATH] =
                          [t \in Tokens |-> IF t \in kept THEN buffer[SINK_PATH][t]
                                            ELSE 0]]
                  ELSE disk
    BY <1>10 DEF Interrupt
  <2>2. \/ EndOf(disk'[SINK_PATH]) = EndOf(disk[SINK_PATH])
        \/ EndOf(disk'[SINK_PATH]) \in {0, EndOf(buffer[SINK_PATH])}
    <3>1. CASE stage = "write_sink_tail"
      <4>1. disk'[SINK_PATH] = [t \in Tokens |-> IF t \in kept
                                                THEN buffer[SINK_PATH][t] ELSE 0]
        BY <1>0, <2>1, <3>1
      <4> QED BY <4>1, TokenFacts DEF EndOf
    <3>2. CASE stage # "write_sink_tail" BY <2>1, <3>2
    <3> QED BY <3>1, <3>2
  <2>3. UNCHANGED <<buffer, context>> /\ stage' = "failed" BY <1>10 DEF Interrupt
  <2> QED BY <2>2, <2>3 DEF FromThePin, Whole
<1>11. CASE Rerun BY <1>11 DEF Rerun, FromThePin, Whole
<1>12. CASE RestoreContext
  BY <1>12 DEF RestoreContext, FromThePin, Whole
<1>13. CASE UNCHANGED buildVars BY <1>13 DEF buildVars, FromThePin, Whole
<1> QED
  BY <1>2, <1>3, <1>4, <1>5, <1>6, <1>7, <1>8, <1>9, <1>10, <1>11, <1>12, <1>13
  DEF BuildNext, BuildStep, PatchSink, PatchPacing

(* What is built comes of the pinned commit, and of the whole of it.       *)
THEOREM BuildsThePin == BuildSpec => []BuiltFromThePin
<1>1. ASSUME Verified(context), HonestArg
      PROVE  context.commit = ExpectedSha(context).commit
  <2>1. ActualSha(context) # Absent /\ ExpectedSha(context).commit = ActualSha(context).commit
    BY <1>1 DEF Verified, IsHex40
  <2>2. ActualSha(context).commit = context.commit
    BY <1>1, <2>1 DEF ActualSha, HonestArg
  <2> QED BY <2>1, <2>2
<1>2. BuildTypeOK /\ FromThePin => BuiltFromThePin
  <2> SUFFICES ASSUME BuildTypeOK, FromThePin, stage = "built" PROVE BuiltFromThePin
    BY DEF BuiltFromThePin
  <2>1. Verified(context) BY DEF FromThePin
  <2>2. EndOf(disk[SINK_PATH]) = EndOf(Checkout[context.commit][SINK_PATH])
    BY DEF FromThePin, Whole
  <2> QED BY <1>1, <2>1, <2>2 DEF BuiltFromThePin, EndOf
<1> QED BY <1>2, BuildTypeInit, BuildTypeStep, FromThePinInit, FromThePinStep, PTL DEF BuildSpec
=============================================================================
