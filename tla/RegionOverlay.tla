----------------------------- MODULE RegionOverlay -----------------------------
(***************************************************************************)
(* libs/device region_overlay, region_text_osd, region_privacy_mask: the   *)
(* text and mask regions drawn on the two streams, what the SDK has of     *)
(* them, and what a failed change leaves.  Every call holds the overlay's  *)
(* mutex, so every action is one call.                                     *)
(*                                                                         *)
(* A region is <<kind, stream, slot>>.  A configuration is a record        *)
(* [id, enabled, text, main, sub, big]: the kinds of text shown, the mask  *)
(* slots enabled on each stream, and whether a mask needs the larger of    *)
(* the two frame sizes.  What a region looks like is the id of its         *)
(* configuration.                                                          *)
(***************************************************************************)
EXTENDS Naturals, Sequences, FiniteSets
LOCAL INSTANCE SequencesExt
LOCAL INSTANCE FiniteSetsExt
LOCAL INSTANCE Functions

CONSTANTS OverlayConfigs,   \* configurations a client may set
          StoredOverlay,    \* the one the configuration file starts with
          FaultRegions,     \* regions whose SDK calls may fail
          MaskFrames        \* frame widths tried with NormalizeMask

VARIABLES
    ovState,    \* state
    ovMedia,    \* media_channels: [sub: the sub stream's channels exist, big: frame size]
    ovActive,   \* active_config
    ovStored,   \* the "overlay" scope of the configuration store
    ovTable,    \* regions: region |-> [handle, cfg]
    ovHw,       \* regions of the SDK: handle |-> [cfg, drawn]
    ovRefresh,  \* refresh_running
    ovLast,     \* how the last apply or rebuild ended
    ovMask      \* a mask interval asked for and the one given to the SDK

ovVars == <<ovState, ovMedia, ovActive, ovStored, ovTable, ovHw, ovRefresh, ovLast, ovMask>>

kMaxRegions == 16
Streams == <<"main", "sub">>
Empty == [x \in {} |-> 0]

NoOverlay == [id |-> 0, enabled |-> FALSE, text |-> {}, main |-> {}, sub |-> {}, big |-> FALSE]
NoMask == [x |-> 0, w |-> 0, frame |-> 0, atX |-> 0, atW |-> 0]

OverlayInit ==
    /\ ovState = "created" /\ ovMedia = [sub |-> TRUE, big |-> TRUE]
    /\ ovActive = NoOverlay /\ ovStored = StoredOverlay
    /\ ovTable = Empty /\ ovHw = Empty
    /\ ovRefresh = FALSE /\ ovLast = "none" /\ ovMask = NoMask

-------------------------------------------------------------------------------
(* The region table.  A call works on t == [tab, hw, refresh, ok]. *)

IsText(name) == name[1] # "mask"
MinHandle(name) == IF IsText(name) THEN 0 ELSE 60

AllocateHandle(tab, name) ==
    Min({h \in MinHandle(name)..MinHandle(name) + kMaxRegions : \A n \in DOMAIN tab : tab[n].handle # h})

DestroyRegions(t, names) ==
    LET gone == names \cap DOMAIN t.tab
        handles == {t.tab[n].handle : n \in gone}
    IN  [t EXCEPT !.tab = Restrict(t.tab, DOMAIN t.tab \ gone),
                  !.hw = Restrict(t.hw, DOMAIN t.hw \ handles)]

(* The SDK attaches a region only to a channel that exists (external). *)
ChannelExists(name) == name[2] = "main" \/ ovMedia.sub

With(f, x, v) == [y \in DOMAIN f \cup {x} |-> IF y = x THEN v ELSE f[y]]

(* UpsertBitmapRegion and UpsertDisplayRegion; F: the SDK calls that fail. *)
Upsert(t, name, id, F) ==
    LET known == name \in DOMAIN t.tab
        shown == known /\ <<name, "display">> \notin F /\ (IsText(name) => <<name, "bitmap">> \notin F)
        clean == IF known THEN DestroyRegions(t, {name}) ELSE t
        handle == AllocateHandle(clean.tab, name)
        look == [cfg |-> id, drawn |-> IsText(name)]
    IN  IF shown THEN [t EXCEPT !.tab[name].cfg = id, !.hw[t.tab[name].handle] = look]
        ELSE IF \/ Cardinality(DOMAIN clean.tab) >= kMaxRegions
                \/ handle >= MinHandle(name) + kMaxRegions
                \/ <<name, "create">> \in F
                \/ <<name, "attach">> \in F \/ ~ChannelExists(name)
                \/ IsText(name) /\ <<name, "draw">> \in F
        THEN [clean EXCEPT !.ok = FALSE]
        ELSE [clean EXCEPT !.tab = With(clean.tab, name, [handle |-> handle, cfg |-> id]),
                           !.hw = With(clean.hw, handle, look)]

-------------------------------------------------------------------------------
(* A configuration as the steps that show it, in the order of the code. *)

Show(name) == [do |-> "show", names |-> {name}]
Hide(names) == [do |-> "hide", names |-> names]
StartRefreshThread == [do |-> "refresh", names |-> {}]
OfKind(kind) == {<<kind, "main", 0>>, <<kind, "sub", 0>>}

(* ApplyTextOverlay.  Both streams' channel numbers are always valid, so   *)
(* OverlayTargets names the sub stream's also when it is disabled.         *)
TextPlan(c) ==
    IF ~c.enabled THEN <<Hide(OfKind("timestamp") \cup OfKind("device_name"))>>
    ELSE LET at(stream, kind) ==
                 IF kind \in c.text THEN Show(<<kind, stream, 0>>) ELSE Hide(OfKind(kind))
         IN  <<at("main", "timestamp"), at("main", "device_name"),
               at("sub", "timestamp"), at("sub", "device_name")>>
             \o IF "timestamp" \in c.text THEN <<StartRefreshThread>> ELSE <<>>

(* ApplyPrivacyMasks, ApplyMaskSet. *)
MaskPlan(c) ==
    LET at(stream, on, slot) ==
            IF slot \in on THEN Show(<<"mask", stream, slot>>) ELSE Hide({<<"mask", stream, slot>>})
    IN  [i \in 1..4 |-> at("main", c.main, i - 1)] \o [i \in 1..4 |-> at("sub", c.sub, i - 1)]

RunStep(r, s, id, F) ==
    IF ~r.ok THEN r
    ELSE IF s.do = "hide" THEN DestroyRegions(r, s.names)
    ELSE IF s.do = "refresh" THEN [r EXCEPT !.refresh = TRUE]
    ELSE Upsert(r, CHOOSE n \in s.names : TRUE, id, F)

RunPlan(t, plan, id, F) == FoldLeft(LAMBDA r, s : RunStep(r, s, id, F), t, plan)

ShowAll(t, c, F) == RunPlan(t, TextPlan(c) \o MaskPlan(c), c.id, F)

(* A failed change shows the previous configuration again. *)
RestoreTextOnly(t, c, F) == RunPlan([t EXCEPT !.ok = TRUE], TextPlan(c), c.id, F)

Restore(t, c, F) == ShowAll([t EXCEPT !.ok = TRUE], c, F)

RegionsOf(c) ==
    (IF c.enabled THEN {<<k, s, 0>> : k \in c.text, s \in Range(Streams)} ELSE {})
        \cup {<<"mask", "main", i>> : i \in c.main} \cup {<<"mask", "sub", i>> : i \in c.sub}

-------------------------------------------------------------------------------
(* The calls. *)

Now == [tab |-> ovTable, hw |-> ovHw, refresh |-> ovRefresh, ok |-> TRUE]

(* ParsePrivacyMasksConfig refuses a mask outside the frame. *)
Parses(c) == c.big => ovMedia.big

(* Calls that fail together: none, an update, a creation, or an update and *)
(* the creation that follows it.                                           *)
OverlayFaults ==
    {{}} \cup UNION {{{<<n, "display">>}, {<<n, "create">>}, {<<n, "display">>, <<n, "create">>},
                      {<<n, "bitmap">>, <<n, "attach">>}, {<<n, "bitmap">>, <<n, "draw">>}} : n \in FaultRegions}

(* The configuration c is shown, or the previous one again; F, G: failing  *)
(* calls of the attempt and of the return.                                 *)
ShowOrRestore(c, F) ==
    \E r \in {ShowAll(Now, c, F)} :
        IF r.ok
        THEN /\ ovTable' = r.tab /\ ovHw' = r.hw /\ ovRefresh' = r.refresh
             /\ ovActive' = c /\ ovLast' = "applied"
        ELSE \E G \in OverlayFaults : \E back \in {Restore(r, ovActive, G)} :
             /\ ovTable' = back.tab /\ ovHw' = back.hw /\ ovRefresh' = back.refresh
             /\ ovLast' = (IF back.ok THEN "restored" ELSE "broken") /\ UNCHANGED ovActive

(* ApplyConfig on the state st. *)
ApplyOverlay(c, st, F) ==
    IF ~Parses(c)
    THEN UNCHANGED <<ovActive, ovTable, ovHw, ovRefresh>> /\ ovLast' = "refused"
    ELSE IF st # "started"
    THEN ovActive' = c /\ UNCHANGED <<ovTable, ovHw, ovRefresh, ovLast>>
    ELSE ShowOrRestore(c, F)

(* Config::Set on the overlay scope: verify, apply, then store. *)
SetOverlay(c, F) ==
    /\ ovState \in {"initialized", "started", "stopped"} /\ Parses(c)
    /\ ApplyOverlay(c, ovState, F)
    /\ ovStored' = IF ovActive' = c THEN c ELSE ovStored
    /\ UNCHANGED <<ovState, ovMedia, ovMask>>

BindMedia(sub, big) ==
    /\ ovState # "started"
    /\ ovState' = IF ovState = "created" THEN "initialized" ELSE ovState
    /\ ovMedia' = [sub |-> sub, big |-> big] /\ ovMask' = NoMask
    /\ UNCHANGED <<ovActive, ovStored, ovTable, ovHw, ovRefresh, ovLast>>

StartOverlay(F) ==
    /\ ovState \in {"initialized", "stopped"}
    /\ ovState' = "started"
    /\ ApplyOverlay(ovStored, "started", F)
    /\ UNCHANGED <<ovMedia, ovStored, ovMask>>

(* UpdateTimestampLocked when the bitmap of a timestamp cannot be set: all *)
(* text is shown again.  A timestamp that is gone is not looked for.       *)
RefreshTimestamp(F) ==
    /\ ovRefresh /\ ovActive.enabled /\ "timestamp" \in ovActive.text
    /\ OfKind("timestamp") \cap DOMAIN ovTable # {}
    /\ \E r \in {RunPlan(Now, TextPlan(ovActive), ovActive.id, F)} :
          /\ ovTable' = r.tab /\ ovHw' = r.hw
          /\ ovLast' = IF r.ok THEN ovLast ELSE "broken"
    /\ UNCHANGED <<ovState, ovMedia, ovActive, ovStored, ovRefresh, ovMask>>

DestroyAll(t) == DestroyRegions(t, DOMAIN t.tab)

StopOverlay ==
    LET t == DestroyAll(Now)
    IN  /\ ovState = "started"
        /\ ovTable' = t.tab /\ ovHw' = t.hw
        /\ ovRefresh' = FALSE /\ ovState' = "stopped" /\ ovLast' = "none"
        /\ UNCHANGED <<ovMedia, ovActive, ovStored, ovMask>>

-------------------------------------------------------------------------------
(* NormalizeMaskForDevice, along one axis. *)

AlignDown(v) == (v \div 4) * 4
AlignUp(v) == AlignDown(v + 3)
Least(a, b) == IF a < b THEN a ELSE b

NormalizeMask(x, w, frame) ==
    LET at == Least(AlignDown(x), IF frame > 4 THEN AlignDown(frame - 4) ELSE 0)
        rest == frame - at
        most == IF rest >= 4 THEN AlignDown(rest) ELSE rest
        wide == Least(AlignUp(w), most)
    IN  [x |-> at, w |-> IF wide < Least(4, most) THEN Least(4, most) ELSE wide]

(* A mask the parser accepts (IsMaskWithinFrame), given to the SDK. *)
ShowMask(x, w, frame) ==
    LET n == NormalizeMask(x, w, frame)
    IN  /\ ovState = "created" /\ ovMask = NoMask
        /\ w > 0 /\ x + w <= frame
        /\ ovMask' = [x |-> x, w |-> w, frame |-> frame, atX |-> n.x, atW |-> n.w]
        /\ UNCHANGED <<ovState, ovMedia, ovActive, ovStored, ovTable, ovHw, ovRefresh, ovLast>>

-------------------------------------------------------------------------------
OverlayNext ==
    \/ \E sub, big \in BOOLEAN : BindMedia(sub, big)
    \/ \E c \in OverlayConfigs, F \in OverlayFaults : SetOverlay(c, F)
    \/ \E F \in OverlayFaults : StartOverlay(F)
    \/ \E F \in OverlayFaults : RefreshTimestamp(F)
    \/ StopOverlay
    \/ \E frame \in MaskFrames : \E x \in 0..frame - 1, w \in 1..frame : ShowMask(x, w, frame)

OverlaySpec == OverlayInit /\ [][OverlayNext]_ovVars

-------------------------------------------------------------------------------
(* Properties. *)

(* The variables have their types. *)
OverlayTypeOK ==
    /\ ovState \in {"created", "initialized", "started", "stopped"}
    /\ ovMedia \in [sub : BOOLEAN, big : BOOLEAN]
    /\ {ovActive, ovStored} \subseteq OverlayConfigs \cup {NoOverlay, StoredOverlay}
    /\ ovRefresh \in BOOLEAN
    /\ ovLast \in {"none", "applied", "restored", "refused", "broken"}

(* The table and the SDK agree after every call, also one that failed at   *)
(* any of its steps: a region the table knows exists and looks as the      *)
(* table says, and no other exists (UpsertBitmapRegion's clean-ups).       *)
TableIsHardware ==
    /\ DOMAIN ovHw = {ovTable[n].handle : n \in DOMAIN ovTable}
    /\ \A n \in DOMAIN ovTable : /\ ovHw[ovTable[n].handle].cfg = ovTable[n].cfg
                                 /\ ovHw[ovTable[n].handle].drawn = IsText(n)

(* Handles are distinct and stay in the range of their region type, 0..15  *)
(* for text and 60..75 for masks, after any sequence of destructions and   *)
(* recreations (AllocateHandle, kMaxRegions).                              *)
HandlesOwned ==
    \A m, n \in DOMAIN ovTable :
        /\ ovTable[n].handle \in MinHandle(n)..MinHandle(n) + kMaxRegions - 1
        /\ m # n => ovTable[m].handle # ovTable[n].handle

(* After a change that succeeded, and after one that failed and was taken  *)
(* back, exactly the regions of the active configuration are shown: no     *)
(* privacy mask is lost to a failed change, whatever earlier failures had  *)
(* left (ApplyConfig).                                                     *)
ShownIsApplied ==
    ovState = "started" /\ ovLast \in {"applied", "restored"} =>
        /\ DOMAIN ovTable = RegionsOf(ovActive)
        /\ \A n \in DOMAIN ovTable : ovTable[n].cfg = ovActive.id

(* An overlay that is not started has no region in the SDK, so the         *)
(* pipeline below it can be taken down (RegionOverlay::Stop).              *)
StoppedShowsNothing == ovState # "started" => ovHw = Empty

(* The mask given to the SDK lies in the frame, is not empty and starts on *)
(* a multiple of 4, however close to the border it was asked for.          *)
MaskFits ==
    ovMask # NoMask =>
        /\ ovMask.atX % 4 = 0 /\ ovMask.atW > 0
        /\ ovMask.atX + ovMask.atW <= ovMask.frame

(* In a frame whose width is a multiple of 4 the alignment leaves less     *)
(* than 4 pixels of what was to be hidden uncovered, all on the right      *)
(* (NormalizeMaskForDevice moves x down and does not widen for it).        *)
MaskNearlyCovers ==
    ovMask # NoMask /\ ovMask.frame % 4 = 0 =>
        /\ ovMask.atX <= ovMask.x
        /\ ovMask.atX + ovMask.atW > ovMask.x + ovMask.w - 4

\* The overlay on the picture is the applied one: the table names exactly the
\* regions of the hardware, failed changes are rolled back, and masks stay in the
\* frame and on what they hide.
OverlayShown ==
    /\ OverlayTypeOK /\ TableIsHardware /\ HandlesOwned /\ ShownIsApplied
    /\ StoppedShowsNothing /\ MaskFits /\ MaskNearlyCovers
===============================================================================
