----------------------------- MODULE AlarmService -----------------------------
(***************************************************************************)
(* libs/event alarm: rules, inputs, alarm states and the kAlarmOn and      *)
(* kAlarmOff events.  A call changes the state under mutex_ and publishes  *)
(* its events after it has given the mutex back, so the events of the AI   *)
(* thread (InjectAlarmInput) and of the HTTP thread (everything else) can  *)
(* reach the subscribers in either order.                                  *)
(*                                                                         *)
(* Durations are measured on the monotonic clock, the interval between two *)
(* alarms on the system clock, which may be set at any time (and never to  *)
(* the epoch, 0, which is a source's last alarm before its first).         *)
(***************************************************************************)
EXTENDS Integers

CONSTANTS AlarmSources,   \* AlarmSource
          AlarmRules,     \* rules given to a source: [on, min, repeat, manual]
          MaxMono,        \* bound: monotonic time
          SystemTimes     \* what the system clock may be set to

ASSUME AlarmRulesAssumption ==
    /\ AlarmRules \subseteq [on : BOOLEAN, min : Nat, repeat : Nat, manual : BOOLEAN]
    /\ SystemTimes \subseteq Nat \ {0}

VARIABLES
    amOn,      \* started_
    amRule,    \* rules_
    amState,   \* source_states_: source |-> [waiting, since, active, last]
    amMono,    \* the monotonic clock
    amWall,    \* the system clock
    amSet,     \* source |-> by how much the system clock was set since its last alarm
    amOut,     \* thread |-> events it has yet to publish: of one call, at most one of a source
    amSeen,    \* source |-> kAlarmOn events published less kAlarmOff events
    amHeld,    \* source |-> when its input last became active, -1 when it is not
    amRaised   \* source |-> monotonic time of its last alarm, -1 before the first

amVars == <<amOn, amRule, amState, amMono, amWall, amSet, amOut, amSeen, amHeld, amRaised>>

AlarmThreads == {"ai", "http"}
DefaultRule == [on |-> FALSE, min |-> 1, repeat |-> 0, manual |-> FALSE]
DefaultSourceState == [waiting |-> FALSE, since |-> 0, active |-> FALSE, last |-> 0]

AlarmInit ==
    /\ amOn = FALSE
    /\ amRule = [s \in AlarmSources |-> DefaultRule]
    /\ amState = [s \in AlarmSources |-> DefaultSourceState]
    /\ amMono = 0 /\ amWall = 2 /\ amSet = [s \in AlarmSources |-> 0]
    /\ amOut = [t \in AlarmThreads |-> {}]
    /\ amSeen = [s \in AlarmSources |-> 0]
    /\ amHeld = [s \in AlarmSources |-> 0 - 1]
    /\ amRaised = [s \in AlarmSources |-> 0 - 1]

-------------------------------------------------------------------------------
(* ClearSourceLocked: an active source ends its alarm with an event. *)
Cleared(st) == [st EXCEPT !.waiting = FALSE, !.since = 0, !.active = FALSE]

OffEvents(srcs) == {[source |-> s, type |-> "off"] : s \in {x \in srcs : amState[x].active}}

(* A call of thread t whose events it will publish next. *)
Queue(t, events) == amOut[t] = {} /\ amOut' = [amOut EXCEPT ![t] = events]

ClearSources(srcs) == amState' = [s \in AlarmSources |-> IF s \in srcs THEN Cleared(amState[s]) ELSE amState[s]]

(* New rules for some sources: a source that is now disabled is cleared. *)
SetRules(new) ==
    LET off == {s \in DOMAIN new : ~new[s].on}
    IN  /\ amRule' = [s \in AlarmSources |-> IF s \in DOMAIN new THEN new[s] ELSE amRule[s]]
        /\ ClearSources(off) /\ Queue("http", OffEvents(off))

(* Start() applies the stored rules; Stop() leaves every alarm as it is. *)
StartAlarm(new) ==
    /\ ~amOn /\ amOn' = TRUE /\ SetRules(new)
    /\ UNCHANGED <<amMono, amWall, amSet, amSeen, amHeld, amRaised>>

StopAlarm ==
    /\ amOn /\ amOn' = FALSE
    /\ UNCHANGED <<amRule, amState, amMono, amWall, amSet, amOut, amSeen, amHeld, amRaised>>

(* The apply callback of the alarm scope does not look at started_. *)
ApplyAlarmConfig(new) ==
    /\ SetRules(new)
    /\ UNCHANGED <<amOn, amMono, amWall, amSet, amSeen, amHeld, amRaised>>

(* UpdateRules gives every source it does not name its default rule. *)
UpdateRules(new) ==
    /\ amOn /\ SetRules([s \in AlarmSources |-> IF s \in DOMAIN new THEN new[s] ELSE DefaultRule])
    /\ UNCHANGED <<amOn, amMono, amWall, amSet, amSeen, amHeld, amRaised>>

EnableRule(s, on) ==
    /\ amOn /\ SetRules([x \in {s} |-> [amRule[s] EXCEPT !.on = on]])
    /\ UNCHANGED <<amOn, amMono, amWall, amSet, amSeen, amHeld, amRaised>>

ClearAlarm ==
    /\ amOn /\ ClearSources(AlarmSources) /\ Queue("http", OffEvents(AlarmSources))
    /\ UNCHANGED <<amOn, amRule, amMono, amWall, amSet, amSeen, amHeld, amRaised>>

-------------------------------------------------------------------------------
(* ApplyAlarmInputLocked. *)

Waiting(st) == IF st.waiting THEN st ELSE [st EXCEPT !.waiting = TRUE, !.since = amMono]

(* The last alarm is compared on the system clock. *)
TooSoon(st, rule) == st.last > 0 /\ amWall - st.last < rule.repeat

InputInactiveKeeps(st, rule) ==
    IF st.active /\ ~rule.manual THEN Cleared(st) ELSE st

InputInactive(st, rule) ==
    IF st.active /\ ~rule.manual THEN Cleared(st) ELSE [st EXCEPT !.waiting = FALSE, !.since = 0]

InputActive(st, rule) ==
    LET w == Waiting(st)
    IN  IF amMono - w.since < rule.min \/ w.active \/ TooSoon(w, rule) THEN w
        ELSE [w EXCEPT !.waiting = FALSE, !.since = 0, !.active = TRUE, !.last = amWall]

InjectAlarmInput(s, active) ==
    LET st == amState[s]
        next == IF ~amRule[s].on THEN Cleared(st)
                ELSE IF active THEN InputActive(st, amRule[s]) ELSE InputInactive(st, amRule[s])
        raised == next.active /\ ~st.active
    IN  /\ amOn
        /\ amState' = [amState EXCEPT ![s] = next]
        /\ Queue("ai", IF raised THEN {[source |-> s, type |-> "on"]}
                       ELSE IF st.active /\ ~next.active THEN {[source |-> s, type |-> "off"]} ELSE {})
        /\ amHeld' = [amHeld EXCEPT ![s] = IF ~active THEN 0 - 1 ELSE IF @ = 0 - 1 THEN amMono ELSE @]
        /\ amRaised' = [amRaised EXCEPT ![s] = IF raised THEN amMono ELSE @]
        /\ amSet' = [amSet EXCEPT ![s] = IF raised THEN 0 ELSE @]
        /\ UNCHANGED <<amOn, amRule, amMono, amWall, amSeen>>

Worth(event) == IF event.type = "on" THEN 1 ELSE 0 - 1

(* PublishEvents, one event at a time; the events of a call are of different *)
(* sources, and no property tells their order apart.                         *)
PublishEvent(t, event) ==
    /\ event \in amOut[t]
    /\ amOut' = [amOut EXCEPT ![t] = @ \ {event}]
    /\ amSeen' = [amSeen EXCEPT ![event.source] = @ + Worth(event)]
    /\ UNCHANGED <<amOn, amRule, amState, amMono, amWall, amSet, amHeld, amRaised>>

Pass ==
    /\ amMono < MaxMono /\ amMono' = amMono + 1 /\ amWall' = amWall + 1
    /\ UNCHANGED <<amOn, amRule, amState, amSet, amOut, amSeen, amHeld, amRaised>>

(* The time service, or NTP, sets the system clock. *)
SetSystemTime(w) ==
    /\ amWall' = w /\ w # amWall
    /\ amSet' = [s \in AlarmSources |-> IF amRaised[s] = 0 - 1 THEN 0 ELSE amSet[s] + (w - amWall)]
    /\ UNCHANGED <<amOn, amRule, amState, amMono, amOut, amSeen, amHeld, amRaised>>

-------------------------------------------------------------------------------
AlarmNext ==
    \/ \E r \in AlarmRules : StartAlarm([s \in AlarmSources |-> r]) \/ ApplyAlarmConfig([s \in AlarmSources |-> r])
    \/ \E named \in SUBSET AlarmSources, r \in AlarmRules : UpdateRules([s \in named |-> r])
    \/ \E s \in AlarmSources, b \in BOOLEAN : EnableRule(s, b) \/ InjectAlarmInput(s, b)
    \/ StopAlarm \/ ClearAlarm \/ Pass
    \/ \E t \in AlarmThreads : \E event \in amOut[t] : PublishEvent(t, event)
    \/ \E w \in SystemTimes : SetSystemTime(w)

AlarmSpec == AlarmInit /\ [][AlarmNext]_amVars

-------------------------------------------------------------------------------
(* Properties. *)

(* The variables have their types. *)
AlarmTypeOK ==
    /\ amRule \in [AlarmSources -> [on : BOOLEAN, min : Nat, repeat : Nat, manual : BOOLEAN]]
    /\ \A s \in AlarmSources : amState[s].waiting \in BOOLEAN /\ amState[s].active \in BOOLEAN
                               /\ amState[s].since \in Nat /\ amState[s].last \in Nat
    /\ amSeen \in [AlarmSources -> Int]

(* What the events thread t has yet to publish add to what was seen of s. *)
Yet(t, s) == CASE [source |-> s, type |-> "on"] \in amOut[t] -> 1
               [] [source |-> s, type |-> "off"] \in amOut[t] -> 0 - 1
               [] OTHER -> 0

(* Every alarm is announced once and its end once, whichever of the input, *)
(* a clear, a disabled rule or a changed configuration ends it, and also   *)
(* when two threads publish at the same time: per source the events still  *)
(* to be published and the published ones add up to the state.             *)
EventsBalanced ==
    \A s \in AlarmSources : amSeen[s] + Yet("ai", s) + Yet("http", s) = IF amState[s].active THEN 1 ELSE 0

(* A source whose rule is disabled has no alarm, whichever call disabled   *)
(* it and whatever was waiting (SetRuleLocked, UpdateRules, EnableRule).   *)
DisabledIsQuiet == \A s \in AlarmSources : ~amRule[s].on => ~amState[s].active

(* An alarm is raised only when the input has been active for the rule's   *)
(* minimum duration without a pause (waiting_since_ms).                    *)
HeldLongEnough ==
    [][\A s \in AlarmSources : amState'[s].active /\ ~amState[s].active =>
           amHeld'[s] >= 0 /\ amMono - amHeld'[s] >= amRule[s].min]_amVars

(* Two alarms of a source are the repeat interval apart on the system      *)
(* clock, which is what last_alarm_time_ms is taken from: across clears,   *)
(* disabled rules and a restart, and however often the clock was set in    *)
(* between.  In elapsed time an alarm comes earlier by what the clock was  *)
(* set forward since the last one, and later by what it was set back;      *)
(* docs/libs/alarm.md:53-54 promises the interval without that exception.  *)
RepeatSpaced ==
    [][\A s \in AlarmSources : amState'[s].active /\ ~amState[s].active /\ amRaised[s] >= 0 =>
           amMono - amRaised[s] + amSet[s] >= amRule[s].repeat]_amVars

\* Alarms published outside the lock are balanced on and off, follow the rules of
\* the moment, are held back as configured in elapsed time and spaced as configured
\* on the system clock, through rule changes, restarts and settings of that clock.
AlarmsSound ==
    /\ [](AlarmTypeOK /\ EventsBalanced /\ DisabledIsQuiet)
    /\ HeldLongEnough
    /\ RepeatSpaced
===============================================================================
