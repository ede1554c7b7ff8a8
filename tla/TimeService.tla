----------------------------- MODULE TimeService -----------------------------
(***************************************************************************)
(* libs/system TimeImpl (time.cpp): time zone, NTP and manual             *)
(* synchronisation settings in memory and in the configuration store, and *)
(* the setting of the system clock.  The HTTP control worker changes the  *)
(* settings and sets the clock; an ONVIF request sets it at the same time *)
(* on another thread.                                                     *)
(*                                                                        *)
(* A setting is [tz, ntp, manual, browser]; invalid ones (an empty zone,  *)
(* NTP on without a server) are refused before anything changes.          *)
(***************************************************************************)
EXTENDS Integers, Sequences, FiniteSets

CONSTANTS Zones,         \* time zones, as naturals; 1: the default
          ClockTimes,    \* times a client or an NTP server may give
          MaxTimeCalls   \* bound: calls

ASSUME TimeAssumption == 1 \in Zones

VARIABLES
    tsOn,        \* initialized_ and started_
    tsInfo,      \* time_info_ with manual_sync_allowed_, browser_sync_on_login_
    tsSuppress,  \* suppress_config_apply_
    tsStore,     \* the value of the scope in the configuration store
    tsDisk,      \* the value in the file
    tsRefused,   \* history: the last value the store took was refused to the caller
    tsClock,     \* the system clock, as last set: <<source, time>>
    tsSync,      \* last_sync_source, last_sync_time_ms, last_sync_ok
    tsThread,    \* per thread, a call of SetSystemTime() or SyncNow() under way
    tsSets,      \* history: the clock settings that succeeded
    tsCalls

tsVars == <<tsOn, tsInfo, tsSuppress, tsStore, tsDisk, tsRefused, tsClock, tsSync, tsThread, tsSets, tsCalls>>
tsSettings == <<tsOn, tsInfo, tsSuppress, tsStore, tsDisk, tsRefused>>

TimeThreads == {"http", "onvif"}
SourcesOf == [http |-> {"manual", "browser", "ntp"}, onvif |-> {"onvif"}]
TimeConfigs == [tz : Zones, ntp : BOOLEAN, manual : BOOLEAN, browser : BOOLEAN]
NoTimeCall == [pc |-> "idle", source |-> "none", time |-> 0]

(* NormalizeTimeConfig() *)
NormalizeTimeConfig(c) == [c EXCEPT !.browser = @ /\ c.manual]

DefaultTime == [tz |-> 1, ntp |-> FALSE, manual |-> TRUE, browser |-> TRUE]

ClockInit ==
    /\ tsOn = FALSE /\ tsInfo = DefaultTime /\ tsSuppress = FALSE
    /\ tsStore = DefaultTime /\ tsDisk = DefaultTime /\ tsRefused = FALSE
    /\ tsClock = <<"none", 0>> /\ tsSync = [source |-> "none", time |-> 0, ok |-> FALSE]
    /\ tsThread = [t \in TimeThreads |-> NoTimeCall] /\ tsSets = {} /\ tsCalls = 0

MakeTimeCall == tsCalls < MaxTimeCalls /\ tsCalls' = tsCalls + 1

-----------------------------------------------------------------------------
(* Prepare() and Start() *)
TimeStart ==
    /\ ~tsOn /\ tsOn' = TRUE
    /\ tsInfo' = NormalizeTimeConfig(tsStore) /\ tsRefused' = FALSE
    /\ UNCHANGED <<tsSuppress, tsStore, tsDisk, tsClock, tsSync, tsThread, tsSets, tsCalls>>

(* IConfig::Set() after its apply callback. *)
TimeStoreTakes(value, saved) ==
    /\ tsStore' = value /\ tsDisk' = IF saved /\ value # tsStore THEN value ELSE tsDisk

(* PersistConfig(): the value goes to the store without coming back. *)
PersistTime(next, saved) == TimeStoreTakes(next, saved) /\ tsSuppress' = FALSE

(* UpdateTimeConfig() with the whole setting; SetTimezone(), UpdateNtpConfig() *)
(* and UpdateBrowserSyncConfig() with a part of the current one replaced.      *)
ApplyTimeConfigUpdate(c, saved) ==
    /\ tsOn /\ tsThread["http"].pc = "idle" /\ MakeTimeCall
    /\ LET next == NormalizeTimeConfig(c)
       IN /\ PersistTime(next, saved)
          /\ IF saved \/ next = tsStore
             THEN tsInfo' = next /\ tsRefused' = FALSE
             ELSE tsRefused' = TRUE /\ UNCHANGED tsInfo
    /\ UNCHANGED <<tsOn, tsClock, tsSync, tsThread, tsSets>>

(* A new value of the scope: ApplyTimeConfig() through IConfig::Set(). *)
SetTimeScope(c, saved) ==
    /\ tsOn /\ tsThread["http"].pc = "idle" /\ MakeTimeCall
    /\ TimeStoreTakes(c, saved)
    /\ tsRefused' = (tsRefused /\ c = tsStore)
    /\ tsInfo' = IF c = tsStore \/ tsSuppress THEN tsInfo ELSE NormalizeTimeConfig(c)
    /\ UNCHANGED <<tsOn, tsSuppress, tsClock, tsSync, tsThread, tsSets>>

TimeStop(saved) ==
    /\ tsOn /\ \A t \in TimeThreads : tsThread[t].pc = "idle"
    /\ tsOn' = FALSE /\ tsSuppress' = FALSE
    /\ tsDisk' = (IF saved THEN tsStore ELSE tsDisk) /\ tsStore' = tsDisk'
    /\ UNCHANGED <<tsInfo, tsRefused, tsClock, tsSync, tsThread, tsSets, tsCalls>>

-----------------------------------------------------------------------------
(* SetSystemTime() and SyncNow(): the check with the lock, the platform call   *)
(* without it, UpdateSyncState() with it.                                      *)
SyncAllowed(source) ==
    CASE source \in {"manual", "browser"} -> tsInfo.manual
      [] source = "ntp" -> tsInfo.ntp
      [] OTHER -> TRUE

SetTimeBegin(t, source, time) ==
    /\ tsOn /\ tsThread[t].pc = "idle" /\ MakeTimeCall
    /\ SyncAllowed(source)
    /\ tsThread' = [tsThread EXCEPT ![t] = [pc |-> "platform", source |-> source, time |-> time]]
    /\ UNCHANGED <<tsSettings, tsClock, tsSync, tsSets>>

(* SyncNtp() fails without a time; settimeofday() fails and the clock stays. *)
SetTimePlatform(t, ok) ==
    /\ tsThread[t].pc = "platform"
    /\ LET call == tsThread[t]
       IN IF ok
          THEN tsClock' = <<call.source, call.time>> /\ tsSets' = tsSets \union {<<call.source, call.time>>}
          ELSE UNCHANGED <<tsClock, tsSets>>
    /\ tsThread' = [tsThread EXCEPT ![t].pc = IF ok THEN "done" ELSE "failed"]
    /\ UNCHANGED <<tsSettings, tsSync, tsCalls>>

UpdateSyncAnyway(t) ==
    [source |-> tsThread[t].source, time |-> tsThread[t].time, ok |-> tsThread[t].pc = "done"]

UpdateSyncState(t) ==
    [source |-> tsThread[t].source, ok |-> tsThread[t].pc = "done",
     time |-> IF tsThread[t].pc = "done" THEN tsThread[t].time ELSE tsSync.time]

SetTimeEnd(t) ==
    /\ tsThread[t].pc \in {"done", "failed"}
    /\ tsSync' = UpdateSyncState(t)
    /\ tsThread' = [tsThread EXCEPT ![t] = NoTimeCall]
    /\ UNCHANGED <<tsSettings, tsClock, tsSets, tsCalls>>

ClockNext ==
    \/ TimeStart
    \/ \E c \in TimeConfigs, saved \in BOOLEAN : ApplyTimeConfigUpdate(c, saved) \/ SetTimeScope(c, saved)
    \/ \E saved \in BOOLEAN : TimeStop(saved)
    \/ \E t \in TimeThreads, time \in ClockTimes : \E source \in SourcesOf[t] : SetTimeBegin(t, source, time)
    \/ \E t \in TimeThreads, ok \in BOOLEAN : SetTimePlatform(t, ok)
    \/ \E t \in TimeThreads : SetTimeEnd(t)

ClockSpec == ClockInit /\ [][ClockNext]_tsVars

-----------------------------------------------------------------------------
(* Types; the browser sets the clock at login only where manual setting is     *)
(* allowed, however the setting arrived.                                       *)
ClockTypeOK ==
    /\ tsInfo \in TimeConfigs /\ tsStore \in TimeConfigs /\ tsDisk \in TimeConfigs
    /\ tsInfo.browser => tsInfo.manual

(* The store and the running service agree after any sequence of updates,      *)
(* scope writes, failures and restarts, except for an update that was refused  *)
(* because it could not be saved, which the store keeps.                       *)
TimeStoreAgrees == tsOn /\ ~tsRefused => NormalizeTimeConfig(tsStore) = tsInfo

(* The last synchronisation time shown is one the clock was really set to,     *)
(* also when a failed attempt of the other thread came after it.               *)
SyncTimeHappened == tsSync.time # 0 => \E s \in {"manual", "browser", "ntp", "onvif"} : <<s, tsSync.time>> \in tsSets

\* Service and store agree on the time settings, and the synchronisation shown
\* took place, with HTTP calls (NTP is one of them) and ONVIF at the same time.
TimeAsConfigured ==
    /\ ClockTypeOK /\ TimeStoreAgrees /\ SyncTimeHappened
=============================================================================
