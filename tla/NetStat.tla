------------------------------- MODULE NetStat -------------------------------
(***************************************************************************)
(* libs/socket_io NetStat: a thread samples the send queues of the open    *)
(* connections, smooths each metric, grades it, reports slow clients and   *)
(* publishes an event when the overall level changes.  Session counts come *)
(* from the events of RTSP, which publishes them on the callback loop.     *)
(* One unit of time is check_interval_ms.                                  *)
(***************************************************************************)
EXTENDS Integers, Sequences, FiniteSets

CONSTANTS NetConns,       \* connections of a streaming protocol
          NetSamples,     \* what a connection may report: [pending, queue]
          NetOptions,     \* NetStatOptions: [warning, critical: metric |-> threshold,
                          \*   checks, recovery, cooldown, history]
          kQueueRecordExpire, kMaxSlowClients,
          MaxNetNow, MaxNetSessions   \* bounds

ASSUME NetStatAssumption ==
    /\ NetOptions.checks \in Nat /\ NetOptions.cooldown \in Nat /\ NetOptions.history \in Nat
    /\ kQueueRecordExpire \in Nat /\ kQueueRecordExpire > NetOptions.cooldown
    /\ kMaxSlowClients \in Nat

VARIABLES
    nsThread,    \* check_thread_: "none", "wait" or "graded" (between the two halves of Check())
    nsStop,      \* stopping_
    nsNow,
    nsRecs,      \* connection_queues_: <<connection, metric>> |-> ConnectionQueueRecord
    nsNext,      \* next_stats and next_slow_clients of the running Check()
    nsLevel,     \* stats_.level
    nsLast,      \* last_published_level_
    nsHistory,   \* slow_client_history_
    nsSessions,  \* protocol_activity_.active_rtsp_sessions
    nsReal,      \* sessions in the RTSP server's table
    nsHeard      \* the level subscribers know

nsVars == <<nsThread, nsStop, nsNow, nsRecs, nsNext, nsLevel, nsLast, nsHistory, nsSessions, nsReal, nsHeard>>

NetMetrics == {"pending", "queue"}
\* kNormal, kWarning, kCritical
NetLevels == 0 .. 2

NewRecord(v) == [smoothed |-> v, level |-> 0, critical |-> 0, normal |-> 0, since |-> 0 - 1, normalSince |-> 0 - 1,
                 checked |-> nsNow, slow |-> 0 - 1]
NoCheck == [level |-> 0, slow |-> <<>>]

NetInit ==
    /\ nsThread = "none" /\ nsStop = FALSE /\ nsNow = 0
    /\ nsRecs = <<>> /\ nsNext = NoCheck /\ nsLevel = 0 /\ nsLast = 0 /\ nsHistory = <<>>
    /\ nsSessions = 0 /\ nsReal = 0 /\ nsHeard = 0

-----------------------------------------------------------------------------
SmoothValue(previous, value) == (previous * 3 + value) \div 4

(* UpdateQueueRecord(): the record after one sample. *)
Reaches(v, threshold) == threshold # 0 /\ v >= threshold   \* a threshold of 0 is switched off
Grade(m, v) == IF Reaches(v, NetOptions.critical[m]) THEN 2
               ELSE IF Reaches(v, NetOptions.warning[m]) THEN 1 ELSE 0

(* A counter stops at the limit it is compared with. *)
Capped(n, limit) == IF n < limit THEN n ELSE limit

UpdateQueueRecord(key, value) ==
    LET old == IF key \in DOMAIN nsRecs THEN nsRecs[key] ELSE NewRecord(value)
        s == IF key \in DOMAIN nsRecs THEN SmoothValue(old.smoothed, value) ELSE value
        g == Grade(key[2], s)
        normal == IF g = 0 THEN Capped(old.normal + 1, NetOptions.recovery) ELSE 0
    IN [smoothed |-> s, level |-> g, checked |-> nsNow, slow |-> old.slow,
        critical |-> IF g = 2 THEN Capped(old.critical + 1, NetOptions.checks) ELSE 0,
        normal |-> normal,
        since |-> CASE g # 0 /\ old.since = 0 - 1 -> nsNow
                    [] g = 0 /\ normal >= NetOptions.recovery -> 0 - 1
                    [] OTHER -> old.since,
        normalSince |-> CASE g # 0 -> 0 - 1 [] g = 0 /\ old.level # 0 -> nsNow [] OTHER -> old.normalSince]

(* UpdateConnectionQueue(): the pending record, and the send queue record     *)
(* when the queue is not empty or the record exists.                          *)
Touched(samples) ==
    {<<c, "pending">> : c \in DOMAIN samples}
        \union {<<c, "queue">> : c \in {x \in DOMAIN samples : samples[x].queue # 0 \/ <<x, "queue">> \in DOMAIN nsRecs}}

(* The record a connection is judged by: the worse one, pending on a tie.     *)
Judged(recs, samples, c) ==
    IF samples[c].queue # 0 /\ recs[<<c, "queue">>].level > recs[<<c, "pending">>].level
    THEN <<c, "queue">> ELSE <<c, "pending">>

(* AddSlowClientIfReady() *)
SlowWheneverCritical(r) == r.level = 2

SlowReady(r) ==
    /\ r.level = 2 /\ r.critical >= NetOptions.checks
    /\ r.slow = 0 - 1 \/ nsNow - r.slow >= NetOptions.cooldown

(* The records after the samples of one check, and those the clients are judged by. *)
Sampled(samples) ==
    LET Val(k) == IF k[2] = "pending" THEN samples[k[1]].pending ELSE samples[k[1]].queue
    IN  [k \in DOMAIN nsRecs \union Touched(samples) |->
            IF k \in Touched(samples) THEN UpdateQueueRecord(k, Val(k)) ELSE nsRecs[k]]

JudgedKeys(samples) == {Judged(Sampled(samples), samples, c) : c \in DOMAIN samples}

MaxLevel(levels) == CHOOSE l \in levels : \A m \in levels : m <= l

(* The reports of one check, in the order of the connections: every record that *)
(* is ready, until kMaxSlowClients.                                             *)
SlowReports(ready) ==
    {f \in UNION {[1 .. n -> ready] : n \in 0 .. kMaxSlowClients} :
        /\ \A i, j \in DOMAIN f : i # j => f[i] # f[j]
        /\ Len(f) = kMaxSlowClients \/ \A k \in ready : \E i \in DOMAIN f : f[i] = k}

(* CheckConnections(): all open connections, each under the mutex. *)
CheckConnections(samples) ==
    /\ nsThread = "wait" /\ ~nsStop
    /\ LET recs == Sampled(samples)
           judged == JudgedKeys(samples)
       IN \E slow \in SlowReports({k \in judged : SlowReady(recs[k])}) :
             /\ nsRecs' = [k \in DOMAIN recs |->
                             IF \E i \in DOMAIN slow : slow[i] = k THEN [recs[k] EXCEPT !.slow = nsNow] ELSE recs[k]]
             /\ nsNext' = [level |-> MaxLevel({0} \union {recs[k].level : k \in judged}),
                           slow |-> [i \in DOMAIN slow |-> [key |-> slow[i], at |-> nsNow]]]
    /\ nsThread' = "graded"
    /\ UNCHANGED <<nsStop, nsNow, nsLevel, nsLast, nsHistory, nsSessions, nsReal, nsHeard>>

(* ExpireIdleQueueRecords() *)
Alive(k) == nsNow - nsRecs[k].checked <= kQueueRecordExpire

LastOf(n, seq) == IF Len(seq) <= n THEN seq ELSE SubSeq(seq, Len(seq) - n + 1, Len(seq))

(* AppendSlowClientHistory() *)
HistoryWith(slow) == LastOf(NetOptions.history, nsHistory \o slow)

(* BuildQueueChangeEvent(): only a change of the overall level is published. *)
PublishLevel(level) == nsLevel # level /\ nsLast # level

(* The rest of Check(), and the event. *)
CheckEnd ==
    /\ nsThread = "graded"
    /\ nsRecs' = [k \in {x \in DOMAIN nsRecs : Alive(x)} |-> nsRecs[k]]
    /\ nsLevel' = nsNext.level /\ nsHistory' = HistoryWith(nsNext.slow) /\ nsNext' = NoCheck
    /\ IF PublishLevel(nsNext.level) THEN nsLast' = nsNext.level /\ nsHeard' = nsNext.level
                                     ELSE UNCHANGED <<nsLast, nsHeard>>
    /\ nsThread' = "wait"
    /\ nsNow < MaxNetNow /\ nsNow' = nsNow + 1
    /\ UNCHANGED <<nsStop, nsSessions, nsReal>>

NetStart ==
    /\ nsThread = "none" /\ nsNow = 0
    /\ nsThread' = "wait"
    /\ UNCHANGED <<nsStop, nsNow, nsRecs, nsNext, nsLevel, nsLast, nsHistory, nsSessions, nsReal, nsHeard>>

(* Stop(): the thread is joined when it next looks, then all is reset.  The   *)
(* process stops NetStat once, when it ends.                                  *)
NetStop ==
    /\ nsThread # "none" /\ ~nsStop /\ nsStop' = TRUE
    /\ UNCHANGED <<nsThread, nsNow, nsRecs, nsNext, nsLevel, nsLast, nsHistory, nsSessions, nsReal, nsHeard>>

NetStopEnd ==
    /\ nsStop /\ nsThread = "wait"
    /\ nsThread' = "none" /\ nsStop' = FALSE
    /\ nsRecs' = <<>> /\ nsLevel' = 0 /\ nsLast' = 0 /\ nsHistory' = <<>> /\ nsSessions' = 0
    /\ UNCHANGED <<nsNow, nsNext, nsReal, nsHeard>>

(* HandleEvent(): the event carries the number of sessions, and 0 is taken    *)
(* for an event without one.                                                  *)
EventClientCount(value, connected) ==
    CASE value > 0 -> value
      [] value = 0 /\ connected -> nsSessions + 1
      [] OTHER -> IF nsSessions > 0 THEN nsSessions - 1 ELSE 0

HandleSession(connected) ==
    LET n == IF connected THEN nsReal + 1 ELSE nsReal - 1
    IN /\ n \in 0 .. MaxNetSessions
       /\ nsReal' = n
       /\ nsSessions' = IF nsThread = "none" THEN nsSessions ELSE EventClientCount(n, connected)
       /\ UNCHANGED <<nsThread, nsStop, nsNow, nsRecs, nsNext, nsLevel, nsLast, nsHistory, nsHeard>>

NetNext ==
    \/ NetStart \/ NetStop \/ NetStopEnd \/ CheckEnd
    \/ \E open \in SUBSET NetConns : \E samples \in [open -> NetSamples] : CheckConnections(samples)
    \/ \E connected \in BOOLEAN : HandleSession(connected)

NetSpec == NetInit /\ [][NetNext]_nsVars

-----------------------------------------------------------------------------
(* Types of the state; the history keeps slow_client_history_limit entries. *)
NetTypeOK ==
    /\ nsThread \in {"none", "wait", "graded"} /\ nsLevel \in NetLevels /\ nsLast \in NetLevels
    /\ DOMAIN nsRecs \subseteq NetConns \X NetMetrics
    /\ Len(nsHistory) <= NetOptions.history

(* Subscribers know the level the statistics show, though an event is sent   *)
(* only when it changes.                                                     *)
LevelIsPublished == nsThread # "none" => nsHeard = nsLevel

(* Two reports of one queue of one connection lie slow_client_cooldown_ms    *)
(* apart: a record that expires in between does not forget the last report.  *)
ReportsSpaced ==
    \A i, j \in DOMAIN nsHistory :
        i < j /\ nsHistory[i].key = nsHistory[j].key => nsHistory[j].at - nsHistory[i].at >= NetOptions.cooldown

(* One burst never makes a slow client: with critical_check_threshold > 1 a   *)
(* queue is reported only if it was critical at the check before as well.      *)
BurstNotReported ==
    [][\A i \in DOMAIN nsNext'.slow :
          LET k == nsNext'.slow[i].key
          IN NetOptions.checks > 1 => k \in DOMAIN nsRecs /\ nsRecs[k].level = 2]_nsVars

(* Once an event was seen the session count is the RTSP server's, also after *)
(* the last session left (its event carries 0).                              *)
SessionsCounted == [][nsThread # "none" /\ nsReal' # nsReal /\ nsReal <= nsSessions => nsSessions' = nsReal']_nsVars

\* Subscribers are told of every change of level and only of lasting slowness,
\* spaced by the cooldown, and the session count follows the RTSP server.
NetReportsHonest ==
    /\ [](NetTypeOK /\ LevelIsPublished /\ ReportsSpaced)
    /\ BurstNotReported
    /\ SessionsCounted
=============================================================================
