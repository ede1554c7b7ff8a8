------------------------------ MODULE MCDevice ------------------------------
(* Small instances of the parts close to the hardware for TLC: the firmware  *)
(* upgrade, the media pipeline, the overlay regions, the AI tasks and the    *)
(* detection backends.  Each part is checked by itself: one moves while the  *)
(* others are in their initial states.                                       *)
EXTENDS Upgrade, DevicePipeline, RegionOverlay, AiTasks, AiDetect

\* Packages with the fields scripts/package_release.sh gives them ("web",
\* "all"), an older application, one whose signature does not verify, and a
\* web-only package that asks for a reboot.
MCManifest ==
    [web |-> [version |-> 2, parts |-> <<"web">>, reboot |-> FALSE,
              tool |-> FALSE, signed |-> TRUE],
     all |-> [version |-> 3, parts |-> <<"bin", "web">>, reboot |-> TRUE,
              tool |-> TRUE, signed |-> TRUE],
     old |-> [version |-> 0, parts |-> <<"bin">>, reboot |-> TRUE,
              tool |-> FALSE, signed |-> TRUE],
     bad |-> [version |-> 2, parts |-> <<"web">>, reboot |-> FALSE,
              tool |-> FALSE, signed |-> FALSE],
     reweb |-> [version |-> 2, parts |-> <<"web">>, reboot |-> TRUE,
                tool |-> FALSE, signed |-> TRUE]]

Ask(p, auto, down) ==
    [package |-> p, expected |-> IF p = "web" THEN 2 ELSE None,
     auto |-> auto, same |-> FALSE, down |-> down]

MCPackages == {"web", "reweb", "all", "old", "bad"}

MCRequests ==
    {Ask("web", FALSE, FALSE), Ask("bad", FALSE, FALSE), Ask("all", FALSE, FALSE),
     Ask("old", TRUE, FALSE), Ask("old", TRUE, TRUE),
     Ask("reweb", TRUE, FALSE), Ask("reweb", FALSE, FALSE)}

WebPackages == {"reweb"}

WebRequests == {Ask("reweb", auto, FALSE) : auto \in BOOLEAN}

OneOrTwoStreams == {[id |-> 1, sub |-> FALSE], [id |-> 2, sub |-> TRUE]}

SomeOverlay(i, on, texts, masks, subMasks, big) ==
    [id |-> i, enabled |-> on, text |-> texts, main |-> masks, sub |-> subMasks, big |-> big]
FirstOverlay == SomeOverlay(1, TRUE, {"timestamp"}, {0}, {}, FALSE)
SomeOverlays ==
    {FirstOverlay, SomeOverlay(2, TRUE, {"timestamp", "device_name"}, {0, 3}, {1}, TRUE),
     SomeOverlay(3, FALSE, {"timestamp"}, {3}, {}, FALSE)}
SomeFaultRegions == {<<"timestamp", "main", 0>>, <<"mask", "main", 3>>}
FrameEdges == 1 .. 20

TwoTasks == <<"motion", "object">>
SomeAi(on, motion, object) == [on |-> on, tasks |-> [motion |-> motion, object |-> object]]
SomeAiConfigs == {SomeAi(TRUE, 1, 0), SomeAi(TRUE, 1, 1), SomeAi(TRUE, 2, 1), SomeAi(FALSE, 1, 1)}

Box(a, b, c, d) == [x1 |-> a, y1 |-> b, x2 |-> c, y2 |-> d]
SomeBoxes == {Box(0, 0, 3, 3), Box(1, 0, 4, 3), Box(3, 0, 6, 3), Box(2, 2, 9, 9)}

\* Pairs of packages that a run uploads: an update before a newer one, a downgrade
\* with a web-only package that reboots, a package that is refused before a good one.
UpgradeScenario ==
    Cardinality(uploads) <= 1 \/ uploads \in {{"web", "all"}, {"old", "reweb"}, {"bad", "all"}}

MCInit == Init /\ DeviceInit /\ OverlayInit /\ AiInit /\ DetectInit

MCNext ==
    \/ /\ DeviceInit /\ OverlayInit /\ AiInit /\ DetectInit
       /\ Next /\ UpgradeScenario'
       /\ UNCHANGED <<dvVars, ovVars, aiVars, dtVars>>
    \/ /\ Init /\ OverlayInit /\ AiInit /\ DetectInit
       /\ DeviceNext
       /\ UNCHANGED <<vars, ovVars, aiVars, dtVars>>
    \/ /\ Init /\ DeviceInit /\ AiInit /\ DetectInit
       /\ OverlayNext
       /\ UNCHANGED <<vars, dvVars, aiVars, dtVars>>
    \/ /\ Init /\ DeviceInit /\ OverlayInit /\ DetectInit
       /\ AiNext
       /\ UNCHANGED <<vars, dvVars, ovVars, dtVars>>
    \/ /\ Init /\ DeviceInit /\ OverlayInit /\ AiInit
       /\ DetectNext
       /\ UNCHANGED <<vars, dvVars, ovVars, aiVars>>

MCSpec == MCInit /\ [][MCNext]_<<vars, dvVars, ovVars, aiVars, dtVars>>
=============================================================================
