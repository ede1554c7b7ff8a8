---------------------------- MODULE DevicePipeline ----------------------------
(***************************************************************************)
(* libs/device: the life cycle of the video pipeline (DeviceImpl,          *)
(* MediaPipeline, PipelineChange, DeviceFeatures) over the MPP adapter.    *)
(*                                                                         *)
(* The actors are the main thread (Start, Stop, the destructor), the       *)
(* thread of a configuration change, the image tuner, the snapshot         *)
(* requests, the capture thread that pushes frames, and the AI tasks that  *)
(* hold YUV frames.  pipeline_op_mutex_ is dvOp; each step of the model is *)
(* one critical section of it or of mutex_.  The application stops the     *)
(* loop that runs configuration changes before it stops the device         *)
(* (protocol_subsystem.cpp:239), so Start and Stop do not overlap one.     *)
(***************************************************************************)
EXTENDS MppAdapter
LOCAL INSTANCE SequencesExt

CONSTANTS DeviceConfigs,  \* video configurations, [id : Nat \ {0}, sub : BOOLEAN]
          MaxImage        \* bound: image configurations given (config_generation_)

ASSUME DeviceConfigsAssumption ==
    \A c \in DeviceConfigs : c.id \in Nat \ {0} /\ c.sub \in BOOLEAN

VARIABLES
    dvPhase,   \* phase_
    dvActive,  \* active_config_
    dvOp,      \* owner of pipeline_op_mutex_, "" when free
    dvHw,      \* the adapter
    dvPipe,    \* MediaPipeline: [cfg, init: system_initialized_, up: its stage flags]
    dvFeat,    \* DeviceFeatures: started parts, SUBSET {"snapshot", "overlay"}
    dvTuner,   \* ImageTuner: [pc, gen: the generation its thread read, stop: stop_requested_]
    dvImage,   \* config_generation_: the image configuration the tuner holds
    dvHwImage, \* ImageControls |-> the image configuration the hardware has it from
    dvMain,    \* where the main thread is, with what it read
    dvCfg,     \* where the configuration change is, with what it read
    dvSnap,    \* where the snapshot request is
    dvAi,      \* TRUE while an AI task has found the device started and not taken its frame yet
    dvPush     \* TRUE while the capture thread is inside the frame sink

dvVars == <<dvPhase, dvActive, dvOp, dvHw, dvPipe, dvFeat, dvTuner, dvImage, dvHwImage,
            dvMain, dvCfg, dvSnap, dvAi, dvPush>>

Phases == {"created", "initialized", "started", "stopping", "stopped", "deinitialized", "failed"}
CanPrepare(phase) == phase \in {"created", "deinitialized"}
IsPrepared(phase) == phase \in {"initialized", "started", "stopped"}

(* ApplyImageConfig sets the controls of the ISP one by one and then the   *)
(* transform, and stops at the first that fails; two controls tell a part  *)
(* from the whole.  Applied: the first n of them take the configuration g. *)
ImageControls == 1 .. 2
Refused == 0 - 1   \* a configuration whose Set() was answered with an error
Applied(hw, g, n) == [k \in ImageControls |-> IF k <= n THEN g ELSE hw[k]]

NoConfig == [id |-> 0, sub |-> FALSE]
CfgIdle == [pc |-> "idle", next |-> NoConfig, prev |-> NoConfig, from |-> "created", started |-> FALSE,
            image |-> 0, init |-> FALSE]

DeviceInit ==
    /\ dvPhase = "created" /\ dvActive = NoConfig /\ dvOp = ""
    /\ dvHw = NewHw
    /\ dvPipe = [cfg |-> NoConfig, init |-> FALSE, up |-> FALSE]
    /\ dvFeat = {}
    /\ dvTuner = [pc |-> "off", gen |-> 0, stop |-> FALSE]
    /\ dvImage = 0 /\ dvHwImage = [k \in ImageControls |-> 0]
    /\ dvMain = [pc |-> "idle", image |-> 0]
    /\ dvCfg = CfgIdle
    /\ dvSnap = "idle" /\ dvAi = FALSE /\ dvPush = FALSE

-------------------------------------------------------------------------------
(* MediaPipeline. *)

(* The stages of Start(), in order; Stop() undoes the first n, last first. *)
Stages == <<"vi", "vpss", "link", "venc", "bind", "stream">>

StopStage(k, h, c) ==
    CASE k = "stream" -> StopVencStreamThread(h)
      [] k = "bind" -> UnbindVpssVenc(h)
      [] k = "venc" -> StopVenc(h)
      [] k = "link" -> UnbindViVpss(h)
      [] k = "vpss" -> StopVpss(h, c)
      [] k = "vi" -> StopVi(h)

StopStagesVpssFirst(h, c, n) ==
    FoldRight(LAMBDA k, g : StopStage(k, g, c),
              SelectSeq(<<"vi", "link", "venc", "bind", "vpss", "stream">>,
                        LAMBDA k : \E i \in 1 .. n : Stages[i] = k), h)

StopStages(h, c, n) ==
    FoldRight(LAMBDA k, g : StopStage(k, g, c), SubSeq(Stages, 1, n), h)

(* A call on the pipeline returns [h, p, ok]. *)
Call(h, p, ok) == [h |-> h, p |-> p, ok |-> ok]

PipelineStop(h, p) ==
    Call(IF p.up THEN StopStages(h, p.cfg, 6) ELSE h, [p EXCEPT !.up = FALSE], TRUE)

PipelineInit(h, p, f) ==
    LET r == InitSystem(h, p.cfg, f) IN Call(r.h, [p EXCEPT !.init = @ \/ r.ok], r.ok)

DeinitStopped(s, f) ==
    LET r == DeinitSystem(s.h, f) IN Call(r.h, [s.p EXCEPT !.init = @ /\ ~r.ok], r.ok)

PipelineDeinit(h, p, f) == DeinitStopped(PipelineStop(h, p), f)

StartStage(k, h, c, f) ==
    CASE k = "vi" -> StartVi(h, f)
      [] k = "vpss" -> StartVpss(h, c, f)
      [] k = "link" -> BindViVpss(h, f)
      [] k = "venc" -> StartVenc(h, c, f)
      [] k = "bind" -> BindVpssVenc(h, c, f)
      [] k = "stream" -> StartVencStream(h, c)

(* A stage that fails stops the ones before it; none starts after it. *)
StageDone(r, c, n) == IF r.ok THEN r ELSE Err(StopStages(r.h, c, n - 1))
NextStage(r, c, n, f) ==
    IF r.ok THEN StageDone(StartStage(Stages[n], r.h, c, f), c, n) ELSE r
Started(r, p) == Call(r.h, [p EXCEPT !.up = r.ok], r.ok)

PipelineStart(h, p, f) ==
    IF ~p.init THEN Call(h, p, FALSE)
    ELSE Started(FoldLeft(LAMBDA r, n : NextStage(r, p.cfg, n, f), Ok(h), <<1, 2, 3, 4, 5, 6>>), p)

StartFaults == {"mipi", "dev", "pipe", "chn", "sensor", "alg", "ispmem", "isp",
                "grp", "vpss_main", "vpss_sub", "start_grp", "link", "venc_main", "venc_sub",
                "bind_main", "recv_main", "bind_sub", "recv_sub"}

-------------------------------------------------------------------------------
(* DeviceFeatures.  Bind is refused while a part is started; an overlay    *)
(* whose configuration cannot be applied fails Start but stays started.    *)

FeaturesBind(feat) == feat = {}

Regions(h, c) ==
    IF c.sub THEN Grabs(h, <<<<"region", "main">>, <<"region", "sub">>>>)
    ELSE Grab(h, <<"region", "main">>)

FeaturesStart(h, c, f) ==
    IF f = "overlay" THEN [h |-> h, feat |-> {"overlay"}, ok |-> FALSE]
    ELSE [h |-> Regions(h, c), feat |-> {"snapshot", "overlay"}, ok |-> TRUE]

FeaturesStop(h) == Drops(h, <<<<"region", "main">>, <<"region", "sub">>>>)

(* Start of the pipeline, the image configuration and the features: the    *)
(* tail of Start(), of ApplyNextConfig and of RestorePrevConfig.           *)
WithFeatures(up, feat, f, image) ==
    IF ~up.ok \/ (f = "image" /\ image # 0)
    THEN [h |-> up.h, p |-> up.p, feat |-> {}, ok |-> FALSE,
          image |-> IF up.ok THEN Applied(dvHwImage, image, 1) ELSE dvHwImage]
    ELSE [h |-> feat.h, p |-> up.p, feat |-> feat.feat, ok |-> feat.ok, image |-> Applied(dvHwImage, image, 2)]

BringUpStarted(up, f, image) == WithFeatures(up, FeaturesStart(up.h, up.p.cfg, f), f, image)
BringUp(h, p, f, image) == BringUpStarted(PipelineStart(h, p, f), f, image)

BringUpFaults == StartFaults \cup {"none", "image", "overlay"}

(* The capture thread can be joined only when it is not inside the sink. *)
CanJoinCapture == ~dvPush
Lock(owner) == dvOp = "" /\ dvOp' = owner

-------------------------------------------------------------------------------
(* The main thread: Start(). *)

MainIdle == dvMain.pc = "idle"
NoChange == dvCfg.pc = "idle"

(* Prepare(): the system is initialised with the stored configuration. *)
Prepare(c, f, g) ==
    /\ MainIdle /\ NoChange /\ dvOp = "" /\ CanPrepare(dvPhase)
    /\ \E init \in {PipelineInit(dvHw, [dvPipe EXCEPT !.cfg = c], f)} :
       \E undo \in {PipelineDeinit(init.h, init.p, g)} :
          IF init.ok /\ f # "scope" /\ FeaturesBind(dvFeat)
          THEN /\ dvHw' = init.h /\ dvPipe' = init.p
               /\ dvPhase' = "initialized" /\ dvActive' = c
               /\ dvImage' = IF dvImage = 0 THEN 1 ELSE dvImage
               /\ dvMain' = [dvMain EXCEPT !.pc = "begin"]
          ELSE /\ dvHw' = undo.h /\ dvPipe' = undo.p
               /\ dvPhase' = IF undo.ok THEN "deinitialized" ELSE "failed"
               /\ UNCHANGED <<dvActive, dvImage, dvMain>>
    /\ UNCHANGED <<dvOp, dvFeat, dvTuner, dvHwImage, dvCfg, dvSnap, dvAi, dvPush>>

StartBegin ==
    /\ \/ MainIdle /\ NoChange /\ dvPhase \in {"initialized", "stopped"}
       \/ dvMain.pc = "begin"
    /\ dvPhase' = "stopping"
    /\ dvMain' = [pc |-> "bring", image |-> dvImage]
    /\ UNCHANGED <<dvActive, dvOp, dvHw, dvPipe, dvFeat, dvTuner, dvImage, dvHwImage, dvCfg, dvSnap, dvAi, dvPush>>

StartBring(f) ==
    /\ dvMain.pc = "bring" /\ dvOp = "" /\ CanJoinCapture
    /\ \E r \in {BringUp(dvHw, dvPipe, f, dvMain.image)} :
       \E back \in {PipelineStop(FeaturesStop(r.h), r.p)} :
          /\ dvHwImage' = r.image
          /\ IF r.ok
             THEN /\ dvHw' = r.h /\ dvPipe' = r.p /\ dvFeat' = r.feat
                  /\ dvMain' = [dvMain EXCEPT !.pc = "up"] /\ UNCHANGED dvPhase
             ELSE /\ dvHw' = back.h /\ dvPipe' = back.p /\ dvFeat' = {}
                  /\ dvMain' = [dvMain EXCEPT !.pc = "idle"] /\ dvPhase' = "initialized"
    /\ UNCHANGED <<dvActive, dvOp, dvTuner, dvImage, dvCfg, dvSnap, dvAi, dvPush>>

TunerStart == dvTuner' = IF dvTuner.pc = "off" THEN [dvTuner EXCEPT !.pc = "sleep", !.stop = FALSE] ELSE dvTuner

StartEnd ==
    /\ dvMain.pc = "up"
    /\ dvPhase' = "started" /\ TunerStart
    /\ dvMain' = [dvMain EXCEPT !.pc = "idle"]
    /\ UNCHANGED <<dvActive, dvOp, dvHw, dvPipe, dvFeat, dvImage, dvHwImage, dvCfg, dvSnap, dvAi, dvPush>>

-------------------------------------------------------------------------------
(* The main thread: Stop() and Release(). *)

StopBegin ==
    /\ MainIdle /\ NoChange /\ dvPhase = "started"
    /\ dvTuner' = [dvTuner EXCEPT !.stop = TRUE]
    /\ dvMain' = [dvMain EXCEPT !.pc = "join"]
    /\ UNCHANGED <<dvPhase, dvActive, dvOp, dvHw, dvPipe, dvFeat, dvImage, dvHwImage, dvCfg, dvSnap, dvAi, dvPush>>

(* features_->Stop() waits for a capture in progress, not for the mutex. *)
StopFeatures ==
    /\ dvMain.pc = "join" /\ dvTuner.pc = "off" /\ dvSnap # "capturing"
    /\ dvTuner' = [dvTuner EXCEPT !.stop = FALSE]
    /\ dvHw' = FeaturesStop(dvHw) /\ dvFeat' = {}
    /\ dvPhase' = "stopping"
    /\ dvMain' = [dvMain EXCEPT !.pc = "stop"]
    /\ UNCHANGED <<dvActive, dvOp, dvPipe, dvImage, dvHwImage, dvCfg, dvSnap, dvAi, dvPush>>

StopPipeline ==
    /\ dvMain.pc = "stop" /\ dvOp = "" /\ CanJoinCapture
    /\ \E s \in {PipelineStop(dvHw, dvPipe)} : dvHw' = s.h /\ dvPipe' = s.p
    /\ dvMain' = [dvMain EXCEPT !.pc = "stopped"]
    /\ UNCHANGED <<dvPhase, dvActive, dvOp, dvFeat, dvTuner, dvImage, dvHwImage, dvCfg, dvSnap, dvAi, dvPush>>

StopEnd ==
    /\ dvMain.pc = "stopped"
    /\ dvPhase' = "stopped"
    /\ dvMain' = [dvMain EXCEPT !.pc = "idle"]
    /\ UNCHANGED <<dvActive, dvOp, dvHw, dvPipe, dvFeat, dvTuner, dvImage, dvHwImage, dvCfg, dvSnap, dvAi, dvPush>>

(* The destructor, when no other call is in progress. *)
Release(f) ==
    /\ MainIdle /\ NoChange /\ dvSnap = "idle" /\ ~dvAi /\ dvOp = "" /\ CanJoinCapture
    /\ dvTuner.pc \in {"off", "sleep"}
    /\ IF CanPrepare(dvPhase)
       THEN UNCHANGED <<dvHw, dvPipe, dvPhase>>
       ELSE \E down \in {PipelineDeinit(FeaturesStop(dvHw), dvPipe, f)} :
               /\ dvHw' = down.h /\ dvPipe' = down.p
               /\ dvPhase' = IF down.ok THEN "deinitialized" ELSE "failed"
    /\ dvFeat' = {}
    /\ dvTuner' = [dvTuner EXCEPT !.pc = "off", !.stop = FALSE]
    /\ dvMain' = [dvMain EXCEPT !.pc = "gone"]
    /\ UNCHANGED <<dvActive, dvOp, dvImage, dvHwImage, dvCfg, dvSnap, dvAi, dvPush>>

-------------------------------------------------------------------------------
(* A configuration change: ApplyVideoConfig, PipelineChange::Apply. *)

ApplyVideoConfig(c) ==
    /\ NoChange /\ MainIdle
    /\ dvPhase \notin {"created", "deinitialized", "stopping", "failed"}
    /\ dvCfg' = [pc |-> "tuner", next |-> c, prev |-> dvActive, from |-> dvPhase,
                 started |-> dvPhase = "started", image |-> dvImage, init |-> FALSE]
    /\ dvPhase' = "stopping"
    /\ dvTuner' = [dvTuner EXCEPT !.stop = (dvPhase = "started")]
    /\ UNCHANGED <<dvActive, dvOp, dvHw, dvPipe, dvFeat, dvImage, dvHwImage, dvMain, dvSnap, dvAi, dvPush>>

(* image_tuner_->Stop() joins the tuner before the mutex is taken. *)
JoinTunerLocked ==
    /\ dvCfg.pc = "tuner"
    /\ \/ dvOp # "change" /\ Lock("change") /\ UNCHANGED <<dvTuner, dvCfg>>
       \/ /\ dvOp = "change" /\ (dvCfg.started => dvTuner.pc = "off")
          /\ dvOp' = ""
          /\ dvTuner' = [dvTuner EXCEPT !.stop = FALSE]
          /\ dvCfg' = [dvCfg EXCEPT !.pc = "down"]
    /\ UNCHANGED <<dvPhase, dvActive, dvHw, dvPipe, dvFeat, dvImage, dvHwImage, dvMain, dvSnap, dvAi, dvPush>>

JoinTuner ==
    /\ dvCfg.pc = "tuner" /\ (dvCfg.started => dvTuner.pc = "off")
    /\ dvTuner' = [dvTuner EXCEPT !.stop = FALSE]
    /\ dvCfg' = [dvCfg EXCEPT !.pc = "down"]
    /\ UNCHANGED <<dvPhase, dvActive, dvOp, dvHw, dvPipe, dvFeat, dvImage, dvHwImage, dvMain, dvSnap, dvAi, dvPush>>

(* Features and pipeline stop, and the system is deinitialised. *)
ChangeDown(f) ==
    /\ dvCfg.pc = "down" /\ CanJoinCapture /\ Lock("change")
    /\ \E s \in {IF dvCfg.started THEN PipelineStop(FeaturesStop(dvHw), dvPipe)
                  ELSE Call(dvHw, dvPipe, TRUE)} :
       \E r \in {IF dvPipe.init THEN PipelineDeinit(s.h, s.p, f) ELSE s} :
          /\ dvHw' = r.h /\ dvPipe' = r.p
          /\ dvCfg' = [dvCfg EXCEPT !.init = dvPipe.init, !.pc = IF r.ok THEN "next" ELSE "failed"]
    /\ dvFeat' = IF dvCfg.started THEN {} ELSE dvFeat
    /\ UNCHANGED <<dvPhase, dvActive, dvTuner, dvImage, dvHwImage, dvMain, dvSnap, dvAi, dvPush>>

(* Initialise, bind and, for a running device, bring up: what              *)
(* ApplyNextConfig and RestorePrevConfig do with their configuration c.    *)
RebuildInited(init, f) ==
    IF init.ok /\ FeaturesBind(dvFeat) /\ dvCfg.started THEN BringUp(init.h, init.p, f, dvCfg.image)
    ELSE [h |-> init.h, p |-> init.p, feat |-> dvFeat,
          ok |-> init.ok /\ FeaturesBind(dvFeat), image |-> dvHwImage]

Rebuild(p, f) ==
    RebuildInited(IF dvCfg.init THEN PipelineInit(dvHw, p, f) ELSE Call(dvHw, p, TRUE), f)

ChangeStep(c, f, good, bad) ==
    /\ \E r \in {Rebuild([dvPipe EXCEPT !.cfg = c], f)} :
          /\ dvHw' = r.h /\ dvPipe' = r.p /\ dvFeat' = r.feat /\ dvHwImage' = r.image
          /\ dvCfg' = [dvCfg EXCEPT !.pc = IF r.ok THEN good ELSE bad]
    /\ UNCHANGED <<dvPhase, dvActive, dvOp, dvTuner, dvImage, dvMain, dvSnap, dvAi, dvPush>>

ApplyNextConfig(f) ==
    /\ dvCfg.pc = "next"
    /\ ChangeStep(dvCfg.next, f, "applied",
                  IF dvCfg.started \/ dvCfg.init THEN "clear" ELSE "failed")

(* RestorePrevConfig clears what the attempt left, whatever the result of  *)
(* the deinitialisation, then rebuilds; a second failure clears again.     *)
ClearAttempt(f) ==
    /\ dvCfg.pc \in {"clear", "undo"} /\ CanJoinCapture
    /\ \E s \in {PipelineStop(FeaturesStop(dvHw), dvPipe)} :
       \E r \in {IF dvCfg.init THEN PipelineDeinit(s.h, s.p, f) ELSE s} :
          dvHw' = r.h /\ dvPipe' = r.p
    /\ dvFeat' = {}
    /\ dvCfg' = [dvCfg EXCEPT !.pc = IF @ = "clear" THEN "restore" ELSE "failed"]
    /\ UNCHANGED <<dvPhase, dvActive, dvOp, dvTuner, dvImage, dvHwImage, dvMain, dvSnap, dvAi, dvPush>>

RestorePrevConfig(f) ==
    dvCfg.pc = "restore" /\ ChangeStep(dvCfg.prev, f, "restored", "undo")

(* The outcome is recorded under mutex_ after the operation mutex is given *)
(* back.                                                                   *)
ChangeUnlock ==
    /\ dvCfg.pc \in {"applied", "restored", "failed"} /\ dvOp = "change"
    /\ dvOp' = ""
    /\ UNCHANGED <<dvPhase, dvActive, dvHw, dvPipe, dvFeat, dvTuner, dvImage, dvHwImage,
                   dvMain, dvCfg, dvSnap, dvAi, dvPush>>

ChangeEnd ==
    /\ dvCfg.pc \in {"applied", "restored", "failed"} /\ dvOp # "change"
    /\ IF dvCfg.pc = "failed"
       THEN /\ dvPhase' = IF IsPrepared(dvCfg.from) THEN "failed" ELSE dvCfg.from
            /\ UNCHANGED <<dvActive, dvTuner>>
       ELSE /\ dvPhase' = dvCfg.from
            /\ dvActive' = IF dvCfg.pc = "applied" THEN dvCfg.next ELSE dvCfg.prev
            /\ IF dvCfg.started THEN TunerStart ELSE UNCHANGED dvTuner
    /\ dvCfg' = CfgIdle
    /\ UNCHANGED <<dvOp, dvHw, dvPipe, dvFeat, dvImage, dvHwImage, dvMain, dvSnap, dvAi, dvPush>>

(* ApplyImageConfig: a stopped device only stores the configuration. *)
ApplyImageConfig ==
    /\ NoChange /\ MainIdle /\ dvImage < MaxImage
    /\ dvPhase \notin {"created", "deinitialized"}
    /\ IF dvPhase # "started"
       THEN dvImage' = dvImage + 1 /\ UNCHANGED dvCfg
       ELSE dvCfg' = [dvCfg EXCEPT !.pc = "image"] /\ UNCHANGED dvImage
    /\ UNCHANGED <<dvPhase, dvActive, dvOp, dvHw, dvPipe, dvFeat, dvTuner, dvHwImage, dvMain, dvSnap, dvAi, dvPush>>

(* All the controls take it, or the first n only and it is refused. *)
ApplyImageLocked(n) ==
    /\ dvCfg.pc = "image" /\ dvOp = ""
    /\ dvHwImage' = IF dvPhase # "started" THEN dvHwImage
                    ELSE IF n = 2 THEN Applied(dvHwImage, dvImage + 1, 2)
                    ELSE Applied(dvHwImage, Refused, n)
    /\ IF dvPhase # "started" \/ n = 2 THEN dvImage' = dvImage + 1 ELSE UNCHANGED dvImage
    /\ dvCfg' = CfgIdle
    /\ UNCHANGED <<dvPhase, dvActive, dvOp, dvHw, dvPipe, dvFeat, dvTuner, dvMain, dvSnap, dvAi, dvPush>>

-------------------------------------------------------------------------------
(* The image tuner's thread: reads configuration and generation, decides,  *)
(* and applies its adjustment under the operation mutex.                   *)

TunerRead ==
    /\ dvTuner.pc = "sleep"
    /\ dvTuner' = IF dvTuner.stop THEN [dvTuner EXCEPT !.pc = "off"]
                  ELSE [dvTuner EXCEPT !.pc = "adjust", !.gen = dvImage]
    /\ UNCHANGED <<dvPhase, dvActive, dvOp, dvHw, dvPipe, dvFeat, dvImage, dvHwImage, dvMain, dvCfg, dvSnap, dvAi, dvPush>>

TunerApply(n) ==
    /\ dvTuner.pc = "adjust" /\ dvOp = ""
    /\ dvHwImage' = IF dvTuner.gen = dvImage THEN Applied(dvHwImage, dvTuner.gen, n) ELSE dvHwImage
    /\ dvTuner' = [dvTuner EXCEPT !.pc = "sleep"]
    /\ UNCHANGED <<dvPhase, dvActive, dvOp, dvHw, dvPipe, dvFeat, dvImage, dvMain, dvCfg, dvSnap, dvAi, dvPush>>

-------------------------------------------------------------------------------
(* Snapshots, YUV frames of the AI tasks, and encoded frames. *)

SnapRequest ==
    /\ dvSnap = "idle" /\ dvPhase = "started" /\ dvMain.pc # "gone"
    /\ dvSnap' = "lock"
    /\ UNCHANGED <<dvPhase, dvActive, dvOp, dvHw, dvPipe, dvFeat, dvTuner, dvImage, dvHwImage, dvMain, dvCfg, dvAi, dvPush>>

(* CaptureSnapshot looks at the phase again once it holds the mutex. *)
SnapLock ==
    /\ dvSnap = "lock" /\ dvOp = ""
    /\ IF dvPhase = "started" /\ "snapshot" \in dvFeat THEN dvSnap' = "capturing" /\ dvOp' = "snap"
       ELSE dvSnap' = "idle" /\ UNCHANGED dvOp
    /\ UNCHANGED <<dvPhase, dvActive, dvHw, dvPipe, dvFeat, dvTuner, dvImage, dvHwImage, dvMain, dvCfg, dvAi, dvPush>>

SnapCapture(f) ==
    /\ dvSnap = "capturing"
    /\ dvHw' = CaptureJpeg(dvHw, f).h
    /\ dvSnap' = "idle" /\ dvOp' = ""
    /\ UNCHANGED <<dvPhase, dvActive, dvPipe, dvFeat, dvTuner, dvImage, dvHwImage, dvMain, dvCfg, dvAi, dvPush>>

(* AiFrameCapture::Capture looks at the phase, and takes the frame with no *)
(* lock of the device held: the pipeline may be stopped or rebuilt between *)
(* the two.  AiFrameDone is the end of the inference on the frame.         *)
AiLook ==
    /\ ~dvAi /\ dvPhase = "started" /\ <<"frame", "main">> \notin dvHw.held /\ dvMain.pc # "gone"
    /\ dvAi' = TRUE
    /\ UNCHANGED <<dvPhase, dvActive, dvOp, dvHw, dvPipe, dvFeat, dvTuner, dvImage, dvHwImage, dvMain, dvCfg, dvSnap, dvPush>>

AiCapture(f) ==
    /\ dvAi /\ dvAi' = FALSE
    /\ dvHw' = CaptureYuvFrame(dvHw, f).h
    /\ UNCHANGED <<dvPhase, dvActive, dvOp, dvPipe, dvFeat, dvTuner, dvImage, dvHwImage, dvMain, dvCfg, dvSnap, dvPush>>

AiFrameDone ==
    /\ <<"frame", "main">> \in dvHw.held
    /\ dvHw' = ReleaseVpssMappedFrame(dvHw)
    /\ UNCHANGED <<dvPhase, dvActive, dvOp, dvPipe, dvFeat, dvTuner, dvImage, dvHwImage, dvMain, dvCfg, dvSnap, dvAi, dvPush>>

(* HandleVencStream, PushFrameToSink: the phase decides, then the sink is  *)
(* called outside the lock.                                                *)
PushFrame ==
    /\ ~dvPush /\ Obj("thread") \in dvHw.held /\ dvPhase = "started"
    /\ dvPush' = TRUE
    /\ UNCHANGED <<dvPhase, dvActive, dvOp, dvHw, dvPipe, dvFeat, dvTuner, dvImage, dvHwImage, dvMain, dvCfg, dvSnap, dvAi>>

PushDone ==
    /\ dvPush /\ dvPush' = FALSE
    /\ UNCHANGED <<dvPhase, dvActive, dvOp, dvHw, dvPipe, dvFeat, dvTuner, dvImage, dvHwImage, dvMain, dvCfg, dvSnap, dvAi>>

-------------------------------------------------------------------------------
DeviceNext ==
    \/ \E c \in DeviceConfigs, f \in InitFaults \cup {"none", "scope"}, g \in ExitFaults \cup {"none"} :
            Prepare(c, f, g)
    \/ StartBegin \/ StartEnd
    \/ \E f \in BringUpFaults : StartBring(f)
    \/ StopBegin \/ StopFeatures \/ StopPipeline \/ StopEnd
    \/ \E f \in ExitFaults \cup {"none"} : Release(f) \/ ChangeDown(f) \/ ClearAttempt(f)
    \/ \E c \in DeviceConfigs : ApplyVideoConfig(c)
    \/ JoinTuner \/ ChangeUnlock \/ ChangeEnd
    \/ \E f \in BringUpFaults \cup InitFaults : ApplyNextConfig(f) \/ RestorePrevConfig(f)
    \/ ApplyImageConfig \/ TunerRead
    \/ \E n \in 0 .. 2 : ApplyImageLocked(n) \/ TunerApply(n)
    \/ SnapRequest \/ SnapLock \/ \E f \in JpegFaults \cup {"none"} : SnapCapture(f)
    \/ AiLook \/ \E f \in {"none", "no_frame", "no_map"} : AiCapture(f)
    \/ AiFrameDone
    \/ PushFrame \/ PushDone

DeviceSpec == DeviceInit /\ [][DeviceNext]_dvVars

-------------------------------------------------------------------------------
(* Properties. *)

DeviceQuiet == MainIdle /\ NoChange

(* The variables have their types. *)
DeviceTypeOK ==
    /\ dvPhase \in Phases
    /\ dvActive \in DeviceConfigs \cup {NoConfig}
    /\ dvOp \in {"", "change", "snap"}
    /\ \A o \in dvHw.held : o[1] \in DOMAIN Below /\ o[2] \in {"main", "sub", Both}
    /\ dvPipe.init \in BOOLEAN /\ dvPipe.up \in BOOLEAN
    /\ dvTuner.pc \in {"off", "sleep", "adjust"}
    /\ dvSnap \in {"idle", "lock", "capturing"}
    /\ dvAi \in BOOLEAN /\ dvPush \in BOOLEAN

(* No MPP object is made before what it is built on or released while      *)
(* another one still uses it, on any start, stop, failed start, change or  *)
(* restore (MediaPipeline::Stop, StartVi, StartVpss, BindVpssVenc and      *)
(* their clean-ups).  A frame an AI task still has is not counted: no stop *)
(* of the pipeline waits for it.                                           *)
ReleasedInOrder == dvHw.broken \subseteq {"frame"}

(* A device that is not started holds nothing of the pipeline: every       *)
(* failed start, failed change and stop gives back all it took, except the *)
(* ISP memory, which StartIsp leaves when the ISP does not initialise, and *)
(* a frame an AI task still has.                                           *)
DownHoldsNothing ==
    DeviceQuiet /\ dvPhase \in {"created", "initialized", "stopped", "deinitialized"}
    => dvHw.held \subseteq {Obj("vb"), Obj("ispmem"), <<"frame", "main">>}

(* A started device runs exactly the configuration it reports: the VENC    *)
(* channels, VPSS channels and regions of active_config_ exist, no others, *)
(* and each channel was made with it, also after a failed change that was  *)
(* rolled back (PipelineChange, active_config_).                           *)
RunningMatchesActive ==
    DeviceQuiet /\ dvPhase = "started" =>
        /\ \A s \in {"main", "sub"} :
               /\ dvHw.made[s] = (IF s \in StreamsOf(dvActive) THEN dvActive.id ELSE 0)
               /\ \A k \in {"venc", "bind", "recv", "vpss", "region"} :
                     <<k, s>> \in dvHw.held <=> s \in StreamsOf(dvActive)
        /\ dvPipe.cfg = dvActive /\ Obj("thread") \in dvHw.held

(* With no change in progress, every image control of a started device is  *)
(* set from the configuration that is stored as current, or from one whose *)
(* Set() was refused halfway: the tuner never brings back an older one it  *)
(* had read before (IsConfigGenerationCurrent), and a failing adjustment   *)
(* leaves nothing older either.  What a refused configuration has set is   *)
(* not taken back (IspImageControls::Apply) before the next apply.         *)
ImageIsCurrent ==
    DeviceQuiet /\ dvPhase = "started" => \A k \in ImageControls : dvHwImage[k] \in {dvImage, Refused}

(* A change never waits for the tuner's thread while it holds the mutex    *)
(* the tuner waits for (the order of image_tuner_->Stop() and the lock).   *)
NoRebuildDeadlock ==
    ~(dvCfg.pc = "tuner" /\ dvCfg.started /\ dvOp = "change" /\ dvTuner.pc = "adjust")

(* A snapshot is taken only from a VPSS channel that exists: not during a  *)
(* rebuild or after a stop that came between its two looks at the phase.   *)
SnapshotOnLivePipeline == dvSnap = "capturing" => <<"vpss", "main">> \in dvHw.held

(* Nothing of a JPEG capture outlives it, whichever step of it failed      *)
(* (ReleaseCaptureContext).                                                *)
CaptureGivesBack ==
    dvSnap = "idle" => dvHw.held \cap {Obj("jrecv"), Obj("jvenc"), <<"jframe", "main">>} = {}

(* While a frame is in the sink the capture thread and its channels exist: *)
(* a stop or a rebuild waits for the frame that is being delivered.        *)
PushOnLiveThread == dvPush => Obj("thread") \in dvHw.held

\* MPP objects are released in the order of their dependencies, all but the ISP
\* memory of a failed StartIsp and the frames AI tasks still have, and the channels
\* that run are those of the active configuration, whichever stage of a start,
\* rebuild or roll-back fails.
PipelineOrdered ==
    /\ DeviceTypeOK /\ ReleasedInOrder /\ DownHoldsNothing
    /\ RunningMatchesActive /\ CaptureGivesBack

\* The users of the pipeline (image tuner, snapshots, frame delivery) never see a
\* pipeline that is being taken down, bring back no older image settings, and
\* neither wait for each other for ever.
PipelineUsersSafe ==
    /\ ImageIsCurrent /\ NoRebuildDeadlock /\ SnapshotOnLivePipeline
    /\ PushOnLiveThread
===============================================================================
