----------------------------- MODULE MCServices -----------------------------
(* Small instances of the control-plane services for TLC: the configuration  *)
(* store, the control loop, the executor, the event centre, alarms, network  *)
(* statistics, network and time settings, the operation log.  Each service is  *)
(* checked by itself: one moves while the others are in their initial states.*)
EXTENDS Config, AlarmService, ControlLoop, Executor, EventCenter, NetStat, NetworkService, TimeService, OperationLog

AlarmRule(minimum, repeat, manual) == [on |-> TRUE, min |-> minimum, repeat |-> repeat, manual |-> manual]
SomeAlarmRules == {AlarmRule(1, 2, FALSE), AlarmRule(0, 1, TRUE)}

TwoEventTypes == <<"a", "b">>

QueueOptions ==
    [warning |-> [pending |-> 4, queue |-> 0], critical |-> [pending |-> 8, queue |-> 6],
     checks |-> 2, recovery |-> 2, cooldown |-> 2, history |-> 2]
QueueSamples == {[pending |-> 16, queue |-> 0], [pending |-> 0, queue |-> 0], [pending |-> 16, queue |-> 9]}

TwoInterfaces == <<"eth0", "wlan0">>

\* The store of a first boot, while another service moves.
StoreAtRest == disk = <<"missing">> /\ Init

MCInit ==
    /\ Init /\ AlarmInit /\ LoopInit /\ ExecutorInit /\ CenterInit /\ NetInit /\ NetworkInit /\ ClockInit
    /\ OperationLogInit

MCNext ==
    \/ /\ AlarmInit /\ LoopInit /\ ExecutorInit /\ CenterInit /\ NetInit
       /\ NetworkInit /\ ClockInit /\ OperationLogInit
       /\ Next
       /\ UNCHANGED <<amVars, clVars, exVars, ecVars, nsVars, nwVars, tsVars, olVars>>
    \/ /\ StoreAtRest /\ LoopInit /\ ExecutorInit /\ CenterInit /\ NetInit
       /\ NetworkInit /\ ClockInit /\ OperationLogInit
       /\ AlarmNext
       /\ UNCHANGED <<vars, clVars, exVars, ecVars, nsVars, nwVars, tsVars, olVars>>
    \/ /\ StoreAtRest /\ AlarmInit /\ ExecutorInit /\ CenterInit /\ NetInit
       /\ NetworkInit /\ ClockInit /\ OperationLogInit
       /\ LoopNext
       /\ UNCHANGED <<vars, amVars, exVars, ecVars, nsVars, nwVars, tsVars, olVars>>
    \/ /\ StoreAtRest /\ AlarmInit /\ LoopInit /\ CenterInit /\ NetInit
       /\ NetworkInit /\ ClockInit /\ OperationLogInit
       /\ ExecutorNext
       /\ UNCHANGED <<vars, amVars, clVars, ecVars, nsVars, nwVars, tsVars, olVars>>
    \/ /\ StoreAtRest /\ AlarmInit /\ LoopInit /\ ExecutorInit /\ NetInit
       /\ NetworkInit /\ ClockInit /\ OperationLogInit
       /\ CenterNext
       /\ UNCHANGED <<vars, amVars, clVars, exVars, nsVars, nwVars, tsVars, olVars>>
    \/ /\ StoreAtRest /\ AlarmInit /\ LoopInit /\ ExecutorInit /\ CenterInit
       /\ NetworkInit /\ ClockInit /\ OperationLogInit
       /\ NetNext
       /\ UNCHANGED <<vars, amVars, clVars, exVars, ecVars, nwVars, tsVars, olVars>>
    \/ /\ StoreAtRest /\ AlarmInit /\ LoopInit /\ ExecutorInit /\ CenterInit
       /\ NetInit /\ ClockInit /\ OperationLogInit
       /\ NetworkNext
       /\ UNCHANGED <<vars, amVars, clVars, exVars, ecVars, nsVars, tsVars, olVars>>
    \/ /\ StoreAtRest /\ AlarmInit /\ LoopInit /\ ExecutorInit /\ CenterInit
       /\ NetInit /\ NetworkInit /\ OperationLogInit
       /\ ClockNext
       /\ UNCHANGED <<vars, amVars, clVars, exVars, ecVars, nsVars, nwVars, olVars>>
    \/ /\ StoreAtRest /\ AlarmInit /\ LoopInit /\ ExecutorInit /\ CenterInit
       /\ NetInit /\ NetworkInit /\ ClockInit
       /\ OperationLogNext
       /\ UNCHANGED <<vars, amVars, clVars, exVars, ecVars, nsVars, nwVars, tsVars>>

MCSpec == MCInit /\ [][MCNext]_<<vars, amVars, clVars, exVars, ecVars, nsVars, nwVars, tsVars, olVars>>
=============================================================================
