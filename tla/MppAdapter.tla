------------------------------ MODULE MppAdapter ------------------------------
(***************************************************************************)
(* libs/hisi_vendor: what each call of the MPP adapter does to the         *)
(* hardware, as operators on a record h.                                   *)
(*                                                                         *)
(*   h.held    MPP objects that exist, as pairs <<kind, stream>>           *)
(*   h.broken  kinds of objects that lost an object they use, or were made *)
(*             without it: what the SDK answers with an error, or worse    *)
(*   h.sys     system_initialized_      h.dirty  system_cleanup_failed_    *)
(*   h.flags   vi_started_, vpss_started_, vi_bound_vpss_                  *)
(*   h.made    stream |-> id of the configuration its VENC channel has     *)
(*   h.cfg     active_config_                                              *)
(*                                                                         *)
(* A call takes the name of the step that fails ("none" when all succeed): *)
(* every call stops at its first failure, so one name is enough.           *)
(***************************************************************************)
EXTENDS Integers, Sequences
LOCAL INSTANCE SequencesExt

Both == "all"
Obj(kind) == <<kind, Both>>

(* What an object of a kind is built on (external: the MPP module graph). *)
Below == [vb |-> {}, mipi |-> {}, dev |-> {"mipi"}, pipe |-> {"dev"}, chn |-> {"pipe"},
          sensor |-> {"pipe"}, alg |-> {"sensor"}, ispmem |-> {}, isp |-> {"alg", "ispmem", "chn"},
          grp |-> {"vb"}, vpss |-> {"grp"}, link |-> {"chn", "grp"}, venc |-> {"vb"},
          bind |-> {"venc", "vpss"}, recv |-> {"bind"}, thread |-> {"recv"},
          region |-> {"venc", "vpss"}, frame |-> {"vpss"},
          jframe |-> {"vpss"}, jvenc |-> {"vb"}, jrecv |-> {"jvenc"}]

SameStream(a, b) == a[2] = b[2] \/ a[2] = Both \/ b[2] = Both

(* An MPI call that makes an object, or one that removes it. *)
Grab(h, o) ==
    [h EXCEPT !.held = @ \cup {o},
              !.broken = @ \cup {k \in {o[1]} : \E b \in Below[k] :
                              ~\E p \in h.held : p[1] = b /\ SameStream(p, o)}]

Drop(h, o) ==
    IF o \notin h.held THEN h
    ELSE [h EXCEPT !.held = @ \ {o},
                   !.broken = @ \cup {u[1] : u \in {v \in h.held :
                                   o[1] \in Below[v[1]] /\ SameStream(o, v)}}]

Grabs(h, os) == FoldLeft(Grab, h, os)
Drops(h, os) == FoldLeft(Drop, h, os)

Ok(h) == [h |-> h, ok |-> TRUE]
Err(h) == [h |-> h, ok |-> FALSE]

StreamsOf(c) == IF c.sub THEN {"main", "sub"} ELSE {"main"}

NewHw == [held |-> {}, broken |-> {}, sys |-> FALSE, dirty |-> FALSE, flags |-> {},
          made |-> [s \in {"main", "sub"} |-> 0], cfg |-> [id |-> 0, sub |-> FALSE]]

-------------------------------------------------------------------------------
(* VENC channels. *)

StopRecv(h, s) == Drop(h, <<"recv", s>>)

UnbindFromVpss(h, s) ==
    IF <<"bind", s>> \notin h.held THEN h ELSE Drop(StopRecv(h, s), <<"bind", s>>)

Destroy(h, s) ==
    Drop(UnbindFromVpss(StopRecv([h EXCEPT !.made[s] = 0], s), s), <<"venc", s>>)

DestroyVencChannels(h) == Destroy(Destroy(h, "sub"), "main")
UnbindVpssVencChannels(h) == UnbindFromVpss(UnbindFromVpss(h, "sub"), "main")

(* StopVencStreamThread joins the capture thread. *)
StopVencStreamThread(h) == Drop(h, Obj("thread"))

Matches(h, s, c) == <<"venc", s>> \in h.held /\ h.made[s] = c.id

CreateVenc(h, s, c) == Grab([h EXCEPT !.made[s] = c.id], <<"venc", s>>)

StartVenc(h, c, f) ==
    LET sub == <<"venc", "sub">> \in h.held
        ready == Matches(h, "main", c) /\ (IF c.sub THEN Matches(h, "sub", c) ELSE ~sub)
        clean == DestroyVencChannels(h)
        one == CreateVenc(clean, "main", c)
    IN  IF ready THEN Ok(h)
        ELSE IF (sub \/ <<"venc", "main">> \in h.held) /\ Obj("thread") \in h.held THEN Err(h)
        ELSE IF f = "venc_main" THEN Err(clean)
        ELSE IF ~c.sub THEN Ok([one EXCEPT !.cfg = c])
        ELSE IF f = "venc_sub" THEN Err(Destroy(one, "main"))
        ELSE Ok([CreateVenc(one, "sub", c) EXCEPT !.cfg = c])

StopVenc(h) == DestroyVencChannels(StopVencStreamThread(h))

BindVpssVenc(h, c, f) ==
    LET bound(s) == <<"bind", s>> \in h.held
        main == Grab(h, <<"bind", "main">>)
        mainOn == Grab(main, <<"recv", "main">>)
        sub == Grab(mainOn, <<"bind", "sub">>)
    IN  IF bound("main") /\ (bound("sub") <=> c.sub) THEN Ok(h)
        ELSE IF \E s \in StreamsOf(c) : <<"venc", s>> \notin h.held THEN Err(h)
        ELSE IF f = "bind_main" THEN Err(h)
        ELSE IF f = "recv_main" THEN Err(UnbindFromVpss(main, "main"))
        ELSE IF ~c.sub THEN Ok(mainOn)
        ELSE IF f = "bind_sub" THEN Err(UnbindFromVpss(mainOn, "main"))
        ELSE IF f = "recv_sub" THEN Err(UnbindFromVpss(UnbindFromVpss(sub, "sub"), "main"))
        ELSE Ok(Grab(sub, <<"recv", "sub">>))

UnbindVpssVenc(h) == UnbindVpssVencChannels(StopVencStreamThread(h))

StartVencStream(h, c) ==
    IF Obj("thread") \in h.held THEN Ok(h)
    ELSE IF \E s \in StreamsOf(c) : <<"recv", s>> \notin h.held THEN Err(h)
    ELSE Ok(Grab([h EXCEPT !.cfg = c], Obj("thread")))

-------------------------------------------------------------------------------
(* VI, with MIPI and the ISP. *)

CleanupStartedVi(h) == Drops(h, <<Obj("chn"), Obj("pipe"), Obj("dev"), Obj("mipi")>>)

(* StartIsp: no failure path before its last gives the ISP memory back. *)
StartIsp(h, f) ==
    LET ready == Grabs(h, <<Obj("sensor"), Obj("alg")>>)
    IN  IF f = "sensor" THEN Err(h)
        ELSE IF f = "alg" THEN Err(Drop(Grab(h, Obj("sensor")), Obj("sensor")))
        ELSE IF f = "ispmem" THEN Err(Drops(ready, <<Obj("alg"), Obj("sensor")>>))
        ELSE IF f = "isp" THEN Err(Drops(Grab(ready, Obj("ispmem")), <<Obj("alg"), Obj("sensor")>>))
        ELSE Ok(Grabs(ready, <<Obj("ispmem"), Obj("isp")>>))

StopIsp(h) == Drops(h, <<Obj("isp"), Obj("ispmem"), Obj("alg"), Obj("sensor")>>)

StartVi(h, f) ==
    LET steps == <<"mipi", "dev", "pipe", "chn">>
        before == SelectSeq(steps, LAMBDA k : \E i, j \in 1..4 : steps[i] = k /\ steps[j] = f /\ i < j)
        objs(ks) == [i \in 1..Len(ks) |-> Obj(ks[i])]
        isp == StartIsp(Grabs(h, objs(steps)), f)
    IN  IF "vi" \in h.flags THEN Ok(h)
        ELSE IF f \in {"mipi", "dev", "pipe", "chn"} THEN Err(CleanupStartedVi(Grabs(h, objs(before))))
        ELSE IF ~isp.ok THEN Err(CleanupStartedVi(isp.h))
        ELSE Ok([isp.h EXCEPT !.flags = @ \cup {"vi"}])

StopVi(h) ==
    IF "vi" \notin h.flags THEN h
    ELSE [CleanupStartedVi(StopIsp(h)) EXCEPT !.flags = @ \ {"vi"}]

-------------------------------------------------------------------------------
(* VPSS and its binding to VI. *)

CleanupVpssGroup(h) == Drops(h, <<<<"vpss", "sub">>, <<"vpss", "main">>, Obj("grp")>>)

StartVpss(h, c, f) ==
    LET grp == Grab(h, Obj("grp"))
        main == Grab(grp, <<"vpss", "main">>)
        full == IF c.sub THEN Grab(main, <<"vpss", "sub">>) ELSE main
    IN  IF "vpss" \in h.flags THEN Ok(h)
        ELSE IF f = "grp" THEN Err(h)
        ELSE IF f = "vpss_main" THEN Err(CleanupVpssGroup(grp))
        ELSE IF f = "vpss_sub" /\ c.sub THEN Err(CleanupVpssGroup(main))
        ELSE IF f = "start_grp" THEN Err(CleanupVpssGroup(full))
        ELSE Ok([full EXCEPT !.flags = @ \cup {"vpss"}])

(* StopVpssGroup disables the sub channel only when c says it is enabled. *)
StopVpss(h, c) ==
    IF "vpss" \notin h.flags THEN h
    ELSE [Drops(h, (IF c.sub THEN <<<<"vpss", "sub">>>> ELSE <<>>) \o <<<<"vpss", "main">>, Obj("grp")>>)
          EXCEPT !.flags = @ \ {"vpss"}]

BindViVpss(h, f) ==
    IF "link" \in h.flags THEN Ok(h)
    ELSE IF f = "link" THEN Err(h)
    ELSE Ok([Grab(h, Obj("link")) EXCEPT !.flags = @ \cup {"link"}])

UnbindViVpss(h) == [Drop(h, Obj("link")) EXCEPT !.flags = @ \ {"link"}]

-------------------------------------------------------------------------------
(* The MPP system. *)

(* SYS_Exit and VB_Exit, the last with retries: external, may stay busy. *)
ExitMppSystem(h) == Drop(h, Obj("vb"))

(* Everything the configuration can have left in the hardware, whatever    *)
(* the adapter's own flags say; MIPI and the capture thread are not its.   *)
ForceCleanupPipelineChannels(h, c) ==
    Drops(h, <<<<"bind", "main">>>> \o (IF c.sub THEN <<<<"bind", "sub">>>> ELSE <<>>) \o
             <<<<"recv", "main">>, <<"venc", "main">>, <<"recv", "sub">>, <<"venc", "sub">>,
               Obj("jrecv"), Obj("jvenc"), <<"vpss", "main">>, <<"vpss", "sub">>, Obj("grp"), Obj("link"),
               Obj("isp"), Obj("ispmem"), Obj("chn"), Obj("pipe"), Obj("dev")>>)

InitFaults == {"version", "vb_refused", "vb_busy", "vb_freed", "vb_init", "vb_stuck",
               "vi_vpss_mode", "mode_exit"}

(* ConfigureFrameBuffer leaves the system of an earlier run first.  A busy *)
(* SetConfig is tried again once the channels of that run are gone: it may *)
(* be taken then ("vb_freed"), or stay busy ("vb_busy").  A clean-up that  *)
(* fails marks the system, and a marked system is not initialised.         *)
ConfigureFrameBuffer(h, c, f) ==
    LET left == ExitMppSystem(h)
        freed == ForceCleanupPipelineChannels(left, c)
        made == Grab(IF f = "vb_freed" THEN ExitMppSystem(freed) ELSE left, Obj("vb"))
    IN  CASE f = "vb_refused" -> Err(left)
          [] f = "vb_busy" -> Err([freed EXCEPT !.dirty = TRUE])
          [] f = "vb_init" -> Err(ExitMppSystem(made))
          [] f = "vb_stuck" -> Err([made EXCEPT !.dirty = TRUE])
          [] OTHER -> Ok(made)

InitSystem(h, c, f) ==
    LET vb == ConfigureFrameBuffer(h, c, f)
    IN  IF h.dirty \/ (~h.sys /\ f = "version") THEN Err(h)
        ELSE IF h.sys THEN Ok(h)
        ELSE IF ~vb.ok THEN vb
        ELSE IF f = "vi_vpss_mode" THEN Err(ExitMppSystem(vb.h))
        ELSE IF f = "mode_exit" THEN Err([vb.h EXCEPT !.dirty = TRUE])
        ELSE Ok([vb.h EXCEPT !.sys = TRUE, !.cfg = c])

ExitFaults == {"exit", "exit_twice"}

DeinitSystem(h, f) ==
    LET down == StopVi(StopVpss(UnbindViVpss(StopVenc(UnbindVpssVenc(h))), h.cfg))
        forced == IF f \in ExitFaults THEN ForceCleanupPipelineChannels(down, h.cfg) ELSE down
    IN  IF ~h.sys /\ ~h.dirty THEN Ok(h)
        ELSE IF f = "exit_twice" THEN Err([forced EXCEPT !.dirty = TRUE])
        ELSE Ok([ExitMppSystem(forced) EXCEPT !.sys = FALSE, !.dirty = FALSE])

-------------------------------------------------------------------------------
(* Pictures taken from a VPSS channel. *)

(* CaptureJpeg: what is held when the step f fails; "none": the picture    *)
(* was read.  Every path ends in ReleaseCaptureContext.                    *)
JpegFaults == {"no_frame", "no_channel", "no_param", "no_recv", "no_send", "no_stream"}

ReleaseCaptureContext(h) == Drops(h, <<Obj("jrecv"), Obj("jvenc"), <<"jframe", "main">>>>)

CaptureJpeg(h, f) ==
    LET frame == Grab(h, <<"jframe", "main">>)
        channel == Grab(frame, Obj("jvenc"))
        recv == Grab(channel, Obj("jrecv"))
        sent == Drop(recv, <<"jframe", "main">>)
    IN  IF ~h.sys \/ f = "no_frame" THEN Err(h)
        ELSE IF f = "no_channel" THEN Err(ReleaseCaptureContext(frame))
        ELSE IF f \in {"no_param", "no_recv"} THEN Err(ReleaseCaptureContext(channel))
        ELSE IF f = "no_send" THEN Err(ReleaseCaptureContext(recv))
        ELSE IF f = "no_stream" THEN Err(ReleaseCaptureContext(sent))
        ELSE Ok(ReleaseCaptureContext(sent))

(* CaptureYuvFrame hands the caller a mapped frame, which it gives back    *)
(* with ReleaseVpssMappedFrame when its last reference goes.  GetChnFrame  *)
(* fails for a channel that is not enabled (external).                     *)
CaptureYuvFrame(h, f) ==
    LET frame == Grab(h, <<"frame", "main">>)
    IN  IF ~h.sys \/ <<"vpss", "main">> \notin h.held \/ f = "no_frame" THEN Err(h)
        ELSE IF f = "no_map" THEN Err(Drop(frame, <<"frame", "main">>))
        ELSE Ok(frame)

ReleaseVpssMappedFrame(h) == Drop(h, <<"frame", "main">>)

===============================================================================
