----------------------------- MODULE LoopQueue -----------------------------
(***************************************************************************)
(* What an event loop promises to the code that calls Post(): one thread   *)
(* runs the accepted tasks one at a time, in the order they were accepted; *)
(* a closed loop accepts nothing; only a closed loop may give up accepted  *)
(* tasks, and then it gives up the newest ones, so what runs is a prefix   *)
(* of what was accepted.  EventLoop and Loop implement it.                 *)
(***************************************************************************)
EXTENDS Naturals, Sequences

CONSTANT Tasks

VARIABLES
    open,     \* Post() accepts tasks
    pending,  \* accepted and not yet begun, oldest first
    current   \* the task being run, as a set of at most one

queueVars == <<open, pending, current>>

Init ==
    /\ open = FALSE
    /\ pending = <<>>
    /\ current = {}

Open ==
    /\ open' = TRUE
    /\ UNCHANGED <<pending, current>>

Accept(t) ==
    /\ open
    /\ pending' = Append(pending, t)
    /\ UNCHANGED <<open, current>>

Begin ==
    /\ current = {}
    /\ pending # <<>>
    /\ current' = {Head(pending)}
    /\ pending' = Tail(pending)
    /\ UNCHANGED open

End ==
    /\ current # {}
    /\ current' = {}
    /\ UNCHANGED <<open, pending>>

\* Closing may drop the n-th and later pending tasks, in the same step or later.
Close(n) ==
    /\ open' = FALSE
    /\ pending' = SubSeq(pending, 1, n)
    /\ UNCHANGED current

Next ==
    \/ Open
    \/ \E t \in Tasks : Accept(t)
    \/ Begin
    \/ End
    \/ \E n \in 0..Len(pending) : Close(n)

Spec == Init /\ [][Next]_queueVars
=============================================================================
