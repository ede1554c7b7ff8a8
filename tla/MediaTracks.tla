---------------------------- MODULE MediaTracks ----------------------------
(***************************************************************************)
(* The preview side of MediaStreams: one track per stream (state, codec,   *)
(* parameter sets, FLV sequence header, GOP cache, last MJPEG frame) and   *)
(* the FLV and MJPEG clients that are fed from it.                         *)
(*                                                                         *)
(* Two locks protect this state: MediaStreams::Impl::mutex_ the phase and  *)
(* the tracks, PreviewClients::mutex_ the client tables.  PushFrame takes  *)
(* the first one twice, then the second one, and calls the sinks under     *)
(* neither, so one frame is a sequence of actions here:                    *)
(*                                                                         *)
(*   PushFrame -> CachePreviewFrame -> CollectFlvWrites  -> WriteFlv* ->   *)
(*            \-> PackageMjpegFrame -> CollectMjpegWrites -> WriteMjpeg*   *)
(*                                        -> DetachFailed*                 *)
(*                                                                         *)
(* and Start, Stop, SetStreamState, attach and detach of other threads run *)
(* between any two of them.  What the reset of a stream does to the frame  *)
(* subscribers is in FrameSubscribers, what a frame does to the HLS cache  *)
(* in HlsMaker, how timestamps are corrected in TimestampCorrector: here a *)
(* frame only says whether its timestamp jumps.                            *)
(***************************************************************************)
EXTENDS Integers, Sequences, FiniteSets, Totals

CONSTANTS
    Tracks,          \* stream ids (main, sub)
    Codecs,           \* codecs the encoder is configured with
    ParamSets,        \* distinct SPS/PPS contents
    NoParams,         \* no parameter sets
    MaxFlvClients, MaxMjpegClients,   \* options_.max_flv_clients, ...
    MaxFlvCachedTags, MaxFlvCachedBytes, TagSizes,
    MaxIds,           \* bound: attaches per kind of client
    MaxTrackResets,   \* bound: resets of one stream
    MaxConfigs        \* bound: config_generation

ASSUME MediaConstants ==
    /\ Codecs \subseteq {"h264", "h265", "mjpeg"}
    /\ NoParams \notin ParamSets
    /\ {MaxFlvClients, MaxMjpegClients, MaxFlvCachedTags, MaxFlvCachedBytes,
        MaxIds, MaxTrackResets, MaxConfigs} \subseteq Nat
    /\ TagSizes \subseteq Nat \ {0}

VARIABLES
    mphase,   \* phase_: "stopped" or "running" (stopping never outlives Stop)
    track,    \* streams_: the tracks
    epoch,    \* history: how often the caches of a stream have been reset, a
              \* count that, unlike the two generations, never starts again
    enc,      \* the parameter sets the encoder of a stream encodes with
    clients,  \* flv_clients_.clients_, mjpeg_clients_.mjpeg_clients_
    nextClient, \* next_client_id_, next_mjpeg_client_id_
    joining,  \* the MediaFlvStart that HTTP-FLV requests hold before they attach
    push      \* the PushFrame call in progress, per stream

mediaVars == <<mphase, track, epoch, enc, clients, nextClient, joining, push>>

Kinds == {"flv", "mjpeg"}

NotJoining == {}

----------------------------------------------------------------------------
(* GOP cache: the FLV tags of the current GOP, at most MaxFlvCachedTags of   *)
(* them and MaxFlvCachedBytes; a GOP that does not fit is dropped whole.     *)

EmptyGop == [tags |-> <<>>, bytes |-> 0, complete |-> FALSE]

GopBytes(tags) == Total([n \in 1..Len(tags) |-> tags[n].size])

AppendFlvTag(gop, tag) ==
    LET base == IF tag.key THEN [EmptyGop EXCEPT !.complete = TRUE] ELSE gop
        fits == /\ Len(base.tags) < MaxFlvCachedTags
                /\ tag.size <= MaxFlvCachedBytes
                /\ base.bytes <= MaxFlvCachedBytes - tag.size
    IN  IF base.tags = <<>> /\ ~tag.key THEN base
        ELSE IF fits THEN [base EXCEPT !.tags = Append(@, tag), !.bytes = @ + tag.size]
        ELSE EmptyGop

----------------------------------------------------------------------------
(* Tracks *)

ClosedTrack ==
    [state |-> "closed", codec |-> "h264", hdr |-> NoParams, params |-> NoParams,
     config |-> 0, codecGen |-> 0, gop |-> EmptyGop, mjpeg |-> FALSE,
     stamped |-> FALSE, reason |-> "stream_stopped"]

\* Clear(): a media restart closes every track.
ClearTracks == [s \in Tracks |-> ClosedTrack]

\* Everything cached depends on the codec and on continuous time, so all of it
\* goes; codec_generation counts the resets.
ResetStreamCaches(t, why) ==
    [t EXCEPT !.gop = EmptyGop, !.mjpeg = FALSE, !.hdr = NoParams,
              !.params = NoParams, !.config = 0, !.codecGen = @ + 1,
              !.reason = why]

ResetStream(t, codec, why) ==
    [ResetStreamCaches(t, why) EXCEPT !.stamped = FALSE, !.codec = codec]

FlvCodec(codec) == codec = "h264"

PreviewReady(t) == t.state = "running"

FlvReady(t) == PreviewReady(t) /\ FlvCodec(t.codec) /\ t.hdr # NoParams

MjpegReady(t) == PreviewReady(t) /\ t.codec = "mjpeg" /\ t.mjpeg

\* The reason a track is reset before a frame of this codec, "none" if it is not.
StartReason(t, codec) ==
    IF t.state # "running" THEN "stream_started"
    ELSE IF t.codec # codec THEN "codec_changed"
    ELSE "none"

EnsureRunning(t, codec) ==
    LET why == StartReason(t, codec)
    IN  IF why = "none" THEN t
        ELSE [ResetStream(t, codec, why) EXCEPT !.state = "running"]

\* A frame with parameter sets renews the FLV sequence header and counts one
\* configuration more, which drops the GOP of the previous one.
TrackAppendFrame(t, f) ==
    LET renewed == f.codec = "h264" /\ f.params # NoParams
        t1 == IF f.params = NoParams THEN t ELSE [t EXCEPT !.params = f.params]
        t2 == IF renewed
              THEN [t1 EXCEPT !.hdr = f.params, !.config = @ + 1, !.gop = EmptyGop]
              ELSE t1
    IN  IF FlvCodec(f.codec) /\ t2.hdr # NoParams
        THEN [t2 EXCEPT !.gop =
                 AppendFlvTag(@, [key |-> f.key, size |-> f.size, cfg |-> f.cfg])]
        ELSE t2

----------------------------------------------------------------------------
(* Client tables *)

\* Detached entries go at once, also while their sink is being written to.
DetachInAtOnce(tbl, gone) == [i \in DOMAIN tbl \ gone |-> tbl[i]]

\* The entries a table keeps when those in gone are detached: the ones whose
\* sink is being written to stay, marked, until the write releases them.
DetachIn(tbl, gone) ==
    LET marked == [i \in DOMAIN tbl |->
                      IF i \in gone THEN [tbl[i] EXCEPT !.detached = TRUE]
                      ELSE tbl[i]]
        kept   == {i \in DOMAIN tbl : marked[i].pending > 0 \/ ~marked[i].detached}
    IN  [i \in kept |-> marked[i]]

\* A new entry under a new id.
WithClient(tbl, id, c) == [i \in DOMAIN tbl \cup {id} |-> IF i = id THEN c ELSE tbl[i]]

StreamClients(tbl, s) == {i \in DOMAIN tbl : tbl[i].stream = s}

\* A lease ends: the entry goes when it was detached meanwhile.
ReleaseWrite(tbl, i) ==
    IF i \notin DOMAIN tbl THEN tbl
    ELSE LET left == [tbl EXCEPT ![i].pending = IF @ > 0 THEN @ - 1 ELSE 0]
         IN  IF left[i].detached /\ left[i].pending = 0
             THEN [j \in DOMAIN tbl \ {i} |-> left[j]]
             ELSE left

\* A client that waits for a keyframe gets nothing before one.
WantsFlv(c, s, key) == ~c.detached /\ c.stream = s /\ (key \/ ~c.wait)

\* It is sent the sequence header when it starts, and when its configuration
\* number differs from the stream's.
NeedsConfig(c, config) == c.wait \/ c.config # config

CollectWrites(tbl, s, p) ==
    [i \in DOMAIN tbl |->
        IF WantsFlv(tbl[i], s, p.frame.key)
        THEN [tbl[i] EXCEPT
                !.wait = @ /\ ~p.frame.key,
                !.config = p.config,
                !.pending = @ + 1]
        ELSE tbl[i]]

----------------------------------------------------------------------------
(* Frames.  cfg is what the frame is encoded with; a frame that carries      *)
(* parameter sets is a keyframe, and the next ones are encoded with them.    *)

Frames(s) ==
    {f \in [codec : Codecs, key : BOOLEAN, params : ParamSets \cup {NoParams},
            cfg : ParamSets \cup {NoParams}, jump : BOOLEAN, size : TagSizes] :
        /\ f.codec = "mjpeg" => f.key /\ f.params = NoParams /\ f.cfg = NoParams
        /\ f.codec # "mjpeg" => /\ f.cfg # NoParams
                                /\ f.params # NoParams => f.key /\ f.cfg = f.params
                                /\ f.params = NoParams => f.cfg = enc[s]}

NoFrame == [codec |-> "h264", key |-> FALSE, params |-> NoParams, cfg |-> NoParams,
            jump |-> FALSE, size |-> 0]

\* A PushFrame call: its frame, what it found in the track (config, hdr, epoch),
\* the clients whose sinks it has yet to call (writes), those of them that get the
\* sequence header first (headers), and those whose sink failed.
Idle == [pc |-> "idle", frame |-> NoFrame, config |-> 0, hdr |-> NoParams, epoch |-> 0,
         writes |-> {}, headers |-> {}, failed |-> {}]

\* The call when its frame has been packaged, with what the track was then.
Packaged(f, config, hdr, at) ==
    [Idle EXCEPT !.pc = "packaged", !.frame = f, !.config = config, !.hdr = hdr, !.epoch = at]

\* The table of the clients that the frame of a call goes to.
KindOf(p) == IF p.frame.codec = "mjpeg" THEN "mjpeg" ELSE "flv"

\* The tables are std::maps: client i is the first of ids.
First(i, ids) == i \in ids /\ \A j \in ids : i <= j

MediaInit ==
    /\ mphase = "stopped"
    /\ track = ClearTracks
    /\ epoch = [s \in Tracks |-> 0]
    /\ enc = [s \in Tracks |-> NoParams]
    /\ clients = [k \in Kinds |-> <<>>]
    /\ nextClient = [k \in Kinds |-> 1]
    /\ joining = NotJoining
    /\ push = [s \in Tracks |-> Idle]

----------------------------------------------------------------------------
(* MediaStreams operations *)

MediaStart ==
    /\ mphase = "stopped" /\ \A s \in Tracks : epoch[s] < MaxTrackResets
    /\ mphase' = "running"
    /\ track' = ClearTracks
    /\ clients' = [k \in Kinds |-> DetachIn(clients[k], DOMAIN clients[k])]
    /\ UNCHANGED <<epoch, enc, nextClient, joining, push>>

MediaStop ==
    /\ mphase = "running"
    /\ mphase' = "stopped"
    /\ track' = ClearTracks
    /\ epoch' = [s \in Tracks |-> epoch[s] + 1]
    /\ clients' = [k \in Kinds |-> DetachIn(clients[k], DOMAIN clients[k])]
    /\ UNCHANGED <<enc, nextClient, joining, push>>

\* Only a reset that leaves a codec FLV cannot carry detaches the FLV clients.
ApplyResetNotice(s, why, codec) ==
    clients' = IF why # "none" /\ ~FlvCodec(codec)
               THEN [clients EXCEPT !["flv"] = DetachIn(@, StreamClients(@, s))]
               ELSE clients

\* One more reset of stream s when there is a reason for it.
CountReset(s, why) == epoch' = [epoch EXCEPT ![s] = IF why = "none" THEN @ ELSE @ + 1]

SetStreamRunning(s, codec) ==
    /\ mphase = "running"
    /\ epoch[s] < MaxTrackResets
    /\ CountReset(s, StartReason(track[s], codec))
    /\ track' = [track EXCEPT ![s] = EnsureRunning(@, codec)]
    /\ ApplyResetNotice(s, StartReason(track[s], codec), codec)
    /\ UNCHANGED <<mphase, enc, nextClient, joining, push>>

SetStreamDown(s, state) ==
    /\ epoch[s] < MaxTrackResets
    /\ CountReset(s, "stream_stopped")
    /\ track' = [track EXCEPT ![s] =
           [ResetStream(@, @.codec, "stream_stopped") EXCEPT !.state = state]]
    /\ ApplyResetNotice(s, "stream_stopped", track[s].codec)
    /\ UNCHANGED <<mphase, enc, nextClient, joining, push>>

\* AcceptFrame: the stream is set running, the timestamp corrected; a jump
\* resets the caches but neither the codec nor the clients.
PushFrame(s) == \E f \in Frames(s) :
    /\ push[s].pc = "idle"
    /\ mphase = "running"
    /\ epoch[s] < MaxTrackResets /\ track[s].config < MaxConfigs
    /\ LET t == EnsureRunning(track[s], f.codec)
           jumps == t.stamped /\ f.jump
       IN  /\ track' = [track EXCEPT ![s] =
                  [IF jumps THEN ResetStreamCaches(t, "timestamp_reset") ELSE t
                   EXCEPT !.stamped = TRUE]]
           /\ CountReset(s, IF jumps THEN "timestamp_reset"
                            ELSE StartReason(track[s], f.codec))
    /\ ApplyResetNotice(s, StartReason(track[s], f.codec), f.codec)
    /\ enc' = [enc EXCEPT ![s] = IF f.codec = "mjpeg" THEN @ ELSE f.cfg]
    /\ push' = [push EXCEPT ![s] = [Idle EXCEPT !.pc = "accepted", !.frame = f]]
    /\ UNCHANGED <<mphase, nextClient, joining>>

\* The second locked section.  The stream may have been stopped, or started
\* with another codec, since the first one: it is set running again.
CachePreviewFrame(s) ==
    LET f == push[s].frame IN
    /\ push[s].pc = "accepted" /\ f.codec # "mjpeg"
    /\ IF mphase # "running"
       THEN /\ push' = [push EXCEPT ![s] = Idle]
            /\ UNCHANGED <<track, epoch, clients>>
       ELSE LET t == TrackAppendFrame(EnsureRunning(track[s], f.codec), f) IN
            /\ track' = [track EXCEPT ![s] = t]
            /\ CountReset(s, StartReason(track[s], f.codec))
            /\ ApplyResetNotice(s, StartReason(track[s], f.codec), f.codec)
            /\ push' = [push EXCEPT ![s] = Packaged(f, t.config, t.hdr, epoch'[s])]
    /\ UNCHANGED <<mphase, enc, nextClient, joining>>

PackageMjpegFrame(s) ==
    LET f == push[s].frame IN
    /\ push[s].pc = "accepted" /\ f.codec = "mjpeg"
    /\ IF mphase # "running"
       THEN /\ push' = [push EXCEPT ![s] = Idle]
            /\ UNCHANGED <<track, epoch, clients>>
       ELSE LET t == [EnsureRunning(track[s], f.codec) EXCEPT !.mjpeg = TRUE]
                any == \E i \in StreamClients(clients["mjpeg"], s) :
                           ~clients["mjpeg"][i].detached
            IN
            /\ track' = [track EXCEPT ![s] = t]
            /\ CountReset(s, StartReason(track[s], f.codec))
            /\ ApplyResetNotice(s, StartReason(track[s], f.codec), f.codec)
            /\ push' = [push EXCEPT ![s] =
                           IF any THEN Packaged(f, 0, NoParams, 0) ELSE Idle]
    /\ UNCHANGED <<mphase, enc, nextClient, joining>>

\* PreviewClients::mutex_: every client that wants the tag is leased.
CollectFlvWrites(s) ==
    LET p == push[s]
        tbl == clients["flv"]
        wants == {i \in DOMAIN tbl : /\ FlvCodec(p.frame.codec) /\ p.hdr # NoParams
                                     /\ WantsFlv(tbl[i], s, p.frame.key)}
    IN  /\ p.pc = "packaged" /\ p.frame.codec # "mjpeg"
        /\ clients' = IF wants = {} THEN clients
                      ELSE [clients EXCEPT !["flv"] = CollectWrites(@, s, p)]
        /\ push' = [push EXCEPT ![s] =
              [@ EXCEPT !.pc = "writing", !.writes = wants,
                        !.headers = {i \in wants : NeedsConfig(tbl[i], p.config)}]]
        /\ UNCHANGED <<mphase, track, epoch, enc, nextClient, joining>>

CollectMjpegWrites(s) ==
    LET p == push[s]
        tbl == clients["mjpeg"]
        wants == {i \in StreamClients(tbl, s) : ~tbl[i].detached}
    IN  /\ p.pc = "packaged" /\ p.frame.codec = "mjpeg"
        /\ clients' = [clients EXCEPT !["mjpeg"] =
              [i \in DOMAIN tbl |-> IF i \in wants
                                    THEN [tbl[i] EXCEPT !.pending = @ + 1] ELSE tbl[i]]]
        /\ push' = [push EXCEPT ![s] = [@ EXCEPT !.pc = "writing", !.writes = wants]]
        /\ UNCHANGED <<mphase, track, epoch, enc, nextClient, joining>>

\* What the sink of client c has been given: the header of its decoder and,
\* if the call succeeds, the tag.  genHdr and genTag say in which epoch.
Given(c, p, header) ==
    LET headed == IF header THEN [c EXCEPT !.hdr = p.hdr, !.genHdr = p.epoch]
                  ELSE c
    IN  [headed EXCEPT !.cfg = p.frame.cfg, !.genTag = p.epoch]

\* One sink call and the end of its lease.  The call fails when the connection
\* is closed or its send queue is full.
WriteToSink(s) == \E ok \in BOOLEAN : \E i \in push[s].writes :
    LET p == push[s]
        tbl == clients[KindOf(p)]
        told == IF KindOf(p) = "flv" /\ ok /\ i \in DOMAIN tbl
                THEN [tbl EXCEPT ![i] = Given(@, p, i \in p.headers)] ELSE tbl
    IN  /\ p.pc = "writing" /\ First(i, p.writes)
        /\ clients' = [clients EXCEPT ![KindOf(p)] = ReleaseWrite(told, i)]
        /\ push' = [push EXCEPT ![s].writes = @ \ {i},
                                ![s].failed = IF ok THEN @ ELSE @ \cup {i}]
        /\ UNCHANGED <<mphase, track, epoch, enc, nextClient, joining>>

\* After the loop the clients whose sink failed are detached, one by one.
DetachFailed(s) ==
    LET p == push[s] IN
    /\ p.pc = "writing" /\ p.writes = {}
    /\ \/ /\ p.failed = {}
          /\ push' = [push EXCEPT ![s] = Idle]
          /\ UNCHANGED clients
       \/ \E i \in p.failed :
          /\ First(i, p.failed)
          /\ clients' = [clients EXCEPT ![KindOf(p)] = DetachIn(@, {i})]
          /\ push' = [push EXCEPT ![s].failed = @ \ {i}]
    /\ UNCHANGED <<mphase, track, epoch, enc, nextClient, joining>>

----------------------------------------------------------------------------
(* HTTP requests *)

\* GetFlvStart: the header and the cached GOP are sent to the client before it
\* is attached; the lock is released in between.
GetFlvStart(s) ==
    /\ joining = NotJoining
    /\ nextClient["flv"] <= MaxIds
    /\ PreviewReady(track[s]) /\ FlvCodec(track[s].codec)
    /\ track[s].hdr # NoParams
    /\ joining' = {[stream |-> s, config |-> track[s].config, hdr |-> track[s].hdr,
                    epoch |-> epoch[s],
                    wait |-> ~track[s].gop.complete \/ track[s].gop.tags = <<>>]}
    /\ UNCHANGED <<mphase, track, epoch, enc, clients, nextClient, push>>

AttachFlvClient == \E j \in joining :
    LET s == j.stream
        refused == \/ mphase # "running"
                   \/ ~FlvReady(track[s])
                   \/ Cardinality(DOMAIN clients["flv"]) >= MaxFlvClients
        c == [stream |-> s, config |-> j.config, wait |-> j.wait, detached |-> FALSE,
              pending |-> 0, hdr |-> j.hdr, cfg |-> j.hdr, genHdr |-> j.epoch,
              genTag |-> j.epoch]
    IN  /\ joining' = NotJoining
        /\ IF refused THEN UNCHANGED <<clients, nextClient>>
           ELSE /\ clients' = [clients EXCEPT !["flv"] = WithClient(@, nextClient["flv"], c)]
                /\ nextClient' = [nextClient EXCEPT !["flv"] = @ + 1]
        /\ UNCHANGED <<mphase, track, epoch, enc, push>>

\* The entry of an MJPEG client has no configuration.
AttachMjpegClient(s) ==
    LET c == [stream |-> s, config |-> 0, wait |-> FALSE, detached |-> FALSE, pending |-> 0,
              hdr |-> NoParams, cfg |-> NoParams, genHdr |-> 0, genTag |-> 0] IN
    /\ nextClient["mjpeg"] <= MaxIds
    /\ mphase = "running" /\ MjpegReady(track[s])
    /\ Cardinality(DOMAIN clients["mjpeg"]) < MaxMjpegClients
    /\ clients' = [clients EXCEPT !["mjpeg"] = WithClient(@, nextClient["mjpeg"], c)]
    /\ nextClient' = [nextClient EXCEPT !["mjpeg"] = @ + 1]
    /\ UNCHANGED <<mphase, track, epoch, enc, joining, push>>

\* DetachFlvClient, DetachMjpegClient: the connection of a client closed.
DetachClient(k) == \E i \in DOMAIN clients[k] :
    /\ clients' = [clients EXCEPT ![k] = DetachIn(@, {i})]
    /\ UNCHANGED <<mphase, track, epoch, enc, nextClient, joining, push>>

PushStep(s) == \/ CachePreviewFrame(s) \/ PackageMjpegFrame(s)
               \/ CollectFlvWrites(s) \/ CollectMjpegWrites(s)
               \/ WriteToSink(s) \/ DetachFailed(s)

MediaNext ==
    \/ MediaStart \/ MediaStop
    \/ \E s \in Tracks :
          \/ \E codec \in Codecs : SetStreamRunning(s, codec)
          \/ \E state \in {"closed", "opening", "error"} : SetStreamDown(s, state)
          \/ PushFrame(s) \/ PushStep(s)
          \/ GetFlvStart(s) \/ AttachMjpegClient(s)
    \/ AttachFlvClient
    \/ \E k \in Kinds : DetachClient(k)

----------------------------------------------------------------------------
(* Properties *)

\* Every variable has its type.
MediaTypeOK ==
    /\ mphase \in {"stopped", "running"}
    /\ \A s \in Tracks :
          /\ track[s].state \in {"closed", "opening", "running", "error"}
          /\ track[s].config \in 0..MaxConfigs + 1
          /\ track[s].hdr \in ParamSets \cup {NoParams}
          /\ push[s].pc \in {"idle", "accepted", "packaged", "writing"}
    /\ \A k \in Kinds : DOMAIN clients[k] \subseteq 1..nextClient[k] - 1

\* The calls that have yet to write to client i.
LeasesOf(k, i) == {s \in Tracks : KindOf(push[s]) = k /\ i \in push[s].writes}

\* Leases are exact: a sink that a push still has to call is in its table (it is
\* deleted with its entry, so the call never reaches freed memory), with one
\* pending write per queued call, and an entry that nobody writes to is never
\* left behind detached (FlvClients/MjpegClients pending_writes, DetachClient,
\* Clear, ReleaseWrite).
LeaseExact ==
    /\ \A s \in Tracks : push[s].writes \subseteq DOMAIN clients[KindOf(push[s])]
    /\ \A k \in Kinds : \A i \in DOMAIN clients[k] :
          /\ clients[k][i].pending = Cardinality(LeasesOf(k, i))
          /\ clients[k][i].detached => clients[k][i].pending > 0

\* A cached GOP that is offered to a new client starts with its only keyframe,
\* was encoded with one configuration, the one of the sequence header that is
\* sent before it, and stays within the byte limit by an exact count
\* (GopCache::AppendFlvTag, AppendFrameToStream).
GopPlayable ==
    \A s \in Tracks :
       LET gop == track[s].gop IN
       /\ gop.bytes = GopBytes(gop.tags) /\ gop.bytes <= MaxFlvCachedBytes
       /\ gop.tags # <<>> => gop.complete /\ gop.tags[1].key
       /\ \A n \in DOMAIN gop.tags :
             /\ gop.tags[n].cfg = track[s].hdr
             /\ n > 1 => ~gop.tags[n].key

\* Between two resets of its stream, an FLV client is never given a tag encoded
\* with parameter sets other than those of the sequence header it was given
\* last (FlvClients::CollectWrites compares config_generation).
HeaderMatchesInGeneration ==
    \A i \in DOMAIN clients["flv"] :
       LET c == clients["flv"][i] IN c.genTag = c.genHdr => c.cfg = c.hdr

\* No FLV client stays attached to a stream that runs a codec FLV cannot carry
\* (ApplyResetNoticeLocked detaches them; one whose sink is being written stays,
\* detached).
NoFlvOnOtherCodec ==
    \A i \in DOMAIN clients["flv"] :
       LET c == clients["flv"][i] IN
       track[c.stream].state = "running" /\ ~FlvCodec(track[c.stream].codec)
           => c.detached

MediaSpec == MediaInit /\ [][MediaNext]_mediaVars

\* Clients of a track through attach, detach, slow sinks and stream restarts: no
\* sink is called after it was freed nor kept for ever, what a new client is
\* given first is playable, and every tag follows the sequence header it needs
\* (FlvClients, MjpegClients, GopCache, ApplyResetNoticeLocked).
TrackClientsServed ==
    /\ MediaTypeOK /\ LeaseExact /\ GopPlayable /\ HeaderMatchesInGeneration
    /\ NoFlvOnOtherCodec
=============================================================================
