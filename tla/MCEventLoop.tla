---------------------------- MODULE MCEventLoop ----------------------------
(* Instances of EventLoop for TLC; the constants are given in the .cfg files. *)
EXTENDS EventLoop

\* Several posts, an fd and a restart without timers, or timers with one post:
\* each mixture is explored in full, their product is too large.
Scenario ==
    \/ timer_ids = 0 /\ now = 0
    \/ posted <= 1 /\ starts <= 1 /\ regs = 0

MCSpec ==
    /\ Init /\ [][Next /\ Scenario']_vars
    /\ WF_vars(LoopStep) /\ WF_vars(StopStep) /\ WF_vars(PostNotify)
=============================================================================
