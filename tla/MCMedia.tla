------------------------------ MODULE MCMedia ------------------------------
(* Small instances of the parts of libs/media for TLC.  Each part is checked *)
(* by itself: one part moves while the others are in their initial states,   *)
(* so that the state space is the sum and not the product of theirs.         *)
EXTENDS FrameSubscribers, MediaTracks, HlsMaker, MediaBufferPool, FlvTimeline

CONSTANTS kMain, kSub

\* -1 is a timestamp the encoder did not set; 0 counts as not set too
\* (Normalized), and adds no state.
EncoderTimes == {-1, 1, 7}

\* HLS: five frames of one configuration, or four with a reset among them.
HlsScenario == hresets = 0 \/ hframes <= 4

MCInit == Init /\ MediaInit /\ HlsInit /\ PoolInit /\ TimeInit

MCNext ==
    \/ /\ MediaInit /\ HlsInit /\ PoolInit /\ TimeInit
       /\ Next
       /\ UNCHANGED <<mediaVars, hlsVars, poolVars, timeVars>>
    \/ /\ Init /\ HlsInit /\ PoolInit /\ TimeInit
       /\ MediaNext
       /\ UNCHANGED <<vars, hlsVars, poolVars, timeVars>>
    \/ /\ Init /\ MediaInit /\ PoolInit /\ TimeInit
       /\ HlsNext /\ HlsScenario'
       /\ UNCHANGED <<vars, mediaVars, poolVars, timeVars>>
    \/ /\ Init /\ MediaInit /\ HlsInit /\ TimeInit
       /\ PoolNext
       /\ UNCHANGED <<vars, mediaVars, hlsVars, timeVars>>
    \/ /\ Init /\ MediaInit /\ HlsInit /\ PoolInit
       /\ TimeNext
       /\ UNCHANGED <<vars, mediaVars, hlsVars, poolVars>>

MCSpec == MCInit /\ [][MCNext]_<<vars, mediaVars, hlsVars, poolVars, timeVars>> /\ Fairness
=============================================================================
