--------------------------- MODULE NetworkService ---------------------------
(***************************************************************************)
(* libs/system NetworkImpl (network.cpp) on the Linux platform: interface  *)
(* configurations in memory, in the configuration store and on the         *)
(* interfaces.  Changes come from one thread (the HTTP control worker),    *)
(* either through ApplyInterfaceConfig() or as a new value of the scope,   *)
(* and every call of the platform and the save of the store may fail.      *)
(*                                                                         *)
(* The default route and resolv.conf are shared by the interfaces and are  *)
(* not state here; the calls that write them can fail.  Configurations are *)
(* valid ones: an invalid one is refused before anything changes.          *)
(***************************************************************************)
EXTENDS Integers, Sequences, FiniteSets

CONSTANTS NetIfs,          \* interface names, in the order of the std::map
          NetAddresses,    \* static addresses
          MaxNetChanges    \* bound: changes asked for

IfSet == {NetIfs[k] : k \in DOMAIN NetIfs}

ASSUME NetworkAssumption == NetIfs \in Seq(IfSet) /\ NetIfs # <<>> /\ MaxNetChanges \in Nat

VARIABLES
    nwOn,        \* started_
    nwConfigs,   \* configs_: interface -> configuration
    nwSuppress,  \* suppress_config_apply_
    nwPlat,      \* interface -> what it runs with
    nwStore,     \* the value of the scope in the configuration store
    nwDisk,      \* the value in the file
    nwBroken,    \* history: interfaces that a failed roll back or start left half done
    nwRefused,   \* history: the last value the store took was refused to the caller
    nwChanges

nwVars == <<nwOn, nwConfigs, nwSuppress, nwPlat, nwStore, nwDisk, nwBroken, nwRefused, nwChanges>>

(* Interface i comes before interface j. *)
Before(i, j) == \E a, b \in DOMAIN NetIfs : a < b /\ NetIfs[a] = i /\ NetIfs[b] = j

IfConfigs == [up : BOOLEAN, dhcp : {FALSE}, addr : NetAddresses] \union [up : BOOLEAN, dhcp : {TRUE}, addr : {0}]
NetTables == UNION {[S -> IfConfigs] : S \in SUBSET IfSet}

(* DefaultConfig() *)
DefaultIfConfig == [up |-> TRUE, dhcp |-> TRUE, addr |-> 0]
NoConfigs == [i \in {} |-> DefaultIfConfig]

(* LoadConfigs(): without any interface in the store the default one is used. *)
FirstIfOnly == [i \in {NetIfs[1]} |-> DefaultIfConfig]
LoadConfigs(stored) == IF DOMAIN stored = {} THEN FirstIfOnly ELSE stored

NetworkInit ==
    /\ nwOn = FALSE /\ nwConfigs = NoConfigs /\ nwSuppress = FALSE
    /\ nwPlat = [i \in IfSet |-> [up |-> FALSE, dhcp |-> FALSE, addr |-> 0]]
    /\ nwStore = FirstIfOnly /\ nwDisk = nwStore
    /\ nwBroken = {} /\ nwRefused = FALSE /\ nwChanges = 0

-----------------------------------------------------------------------------
(* ApplyToPlatform(), and RollbackInterface(), which makes the same calls:    *)
(* link, DHCP client or static address, gateway, DNS.  fault: the call that   *)
(* fails; StopDhcp() has run and the old address is flushed when the new one  *)
(* cannot be set.                                                             *)
PlatformFaults == {"none", "link", "address", "route"}

ApplyToPlatform(have, c, fault) ==
    CASE fault = "link" -> have
      [] fault # "link" /\ ~c.up -> [have EXCEPT !.up = FALSE, !.dhcp = FALSE]
      [] fault = "address" /\ c.up -> [up |-> TRUE, dhcp |-> c.dhcp /\ have.dhcp, addr |-> 0]
      [] OTHER -> c

(* A disabled interface needs no further call. *)
Applies(c, fault) == fault = "none" \/ (~c.up /\ fault # "link")

Realises(have, c) == have.up = c.up /\ (c.up => have = c)

(* A failed apply, rolled back to the previous configuration: what the        *)
(* interface runs with, and whether it is left half done.                     *)
RolledBack(have, c, fault, previous, back) == ApplyToPlatform(ApplyToPlatform(have, c, fault), previous, back)
BrokenAfter(broken, i, previous, back) == IF Applies(previous, back) THEN broken \ {i} ELSE broken \union {i}

PreviousOf(i) == IF i \in DOMAIN nwConfigs THEN nwConfigs[i] ELSE DefaultIfConfig

(* IConfig::Set() after its apply callback: the value is taken, then saved. *)
StoreTakes(value, saved) ==
    /\ nwStore' = value
    /\ nwDisk' = IF saved /\ value # nwStore THEN value ELSE nwDisk

-----------------------------------------------------------------------------
(* Start(): Prepare() loads the store and applies each interface in turn; the  *)
(* first failure (interface bad) ends it.                                      *)
NetworkStart(bad, fault) ==
    /\ ~nwOn
    /\ LET loaded == LoadConfigs(nwStore)
           stops == bad \in DOMAIN loaded /\ ~Applies(loaded[bad], fault)
           done == {i \in DOMAIN loaded : stops => Before(i, bad)}
       IN /\ nwConfigs' = loaded /\ nwOn' = ~stops
          /\ nwPlat' = [i \in IfSet |->
                 CASE i \in done -> ApplyToPlatform(nwPlat[i], loaded[i], "none")
                   [] i \notin done /\ stops /\ i = bad -> ApplyToPlatform(nwPlat[i], loaded[i], fault)
                   [] OTHER -> nwPlat[i]]
          /\ nwBroken' = IF stops THEN DOMAIN loaded ELSE {}
    /\ nwRefused' = FALSE /\ UNCHANGED <<nwSuppress, nwStore, nwDisk, nwChanges>>

(* ApplyInterfaceConfig(): platform first, then PersistConfig(), whose Set()   *)
(* must not apply the value a second time.                                     *)
Undo(i, c, fault, back) ==
    /\ nwPlat' = [nwPlat EXCEPT ![i] = RolledBack(@, c, fault, PreviousOf(i), back)]
    /\ nwBroken' = BrokenAfter(nwBroken, i, PreviousOf(i), back)

PersistConfig(next, saved) == nwSuppress' = FALSE /\ StoreTakes(next, saved)

ApplyInterfaceConfig(i, c, fault, saved, back) ==
    /\ nwOn /\ nwChanges < MaxNetChanges /\ nwChanges' = nwChanges + 1
    /\ LET next == [j \in DOMAIN nwConfigs \union {i} |-> IF j = i THEN c ELSE nwConfigs[j]]
       IN IF ~Applies(c, fault)
          THEN Undo(i, c, fault, back) /\ UNCHANGED <<nwConfigs, nwSuppress, nwStore, nwDisk, nwRefused>>
          ELSE /\ PersistConfig(next, saved)
               /\ IF saved \/ nwStore = next
                  THEN /\ nwConfigs' = next /\ nwPlat' = [nwPlat EXCEPT ![i] = ApplyToPlatform(@, c, "none")]
                       /\ nwBroken' = nwBroken \ {i} /\ nwRefused' = FALSE
                  ELSE Undo(i, c, "none", back) /\ nwRefused' = TRUE /\ UNCHANGED nwConfigs
    /\ UNCHANGED nwOn

(* ApplyConfigChanges(): the interfaces that differ, in order; a failure rolls *)
(* back the ones already changed, if they had a configuration, and the failing *)
(* one.                                                                        *)
ChangedIfs(next) == {i \in DOMAIN next : ~(i \in DOMAIN nwConfigs /\ nwConfigs[i] = next[i])}

FailAtForgetsEarlier(next, bad, fault, back) ==
    LET earlier == {i \in ChangedIfs(next) : Before(i, bad)}
    IN /\ nwPlat' = [i \in IfSet |->
              CASE i = bad -> RolledBack(nwPlat[i], next[i], fault, PreviousOf(i), back)
                [] i # bad /\ i \in earlier -> ApplyToPlatform(nwPlat[i], next[i], "none")
                [] OTHER -> nwPlat[i]]
       /\ nwBroken' = BrokenAfter(nwBroken, bad, PreviousOf(bad), back)

FailAt(next, bad, fault, back) ==
    LET earlier == {i \in ChangedIfs(next) : Before(i, bad)}
        tried == earlier \union {bad}
    IN /\ nwPlat' = [i \in IfSet |->
              CASE i = bad -> RolledBack(nwPlat[i], next[i], fault, PreviousOf(i), back)
                [] i # bad /\ i \in earlier \intersect DOMAIN nwConfigs ->
                     RolledBack(nwPlat[i], next[i], "none", nwConfigs[i], back)
                [] i # bad /\ i \in earlier \ DOMAIN nwConfigs -> ApplyToPlatform(nwPlat[i], next[i], "none")
                [] OTHER -> nwPlat[i]]
       /\ nwBroken' = (nwBroken \ tried) \union {i \in tried : ~Applies(PreviousOf(i), back)}

(* A new value of the scope: equal to the stored one it is accepted at once.   *)
SetNetworkScope(next, bad, fault, saved, back) ==
    /\ nwOn /\ nwChanges < MaxNetChanges /\ nwChanges' = nwChanges + 1
    /\ LET parsed == LoadConfigs(next)
           fails == bad \in ChangedIfs(parsed) /\ ~Applies(parsed[bad], fault)
       IN CASE next = nwStore -> UNCHANGED <<nwPlat, nwBroken, nwConfigs, nwStore, nwDisk, nwRefused>>
            [] next # nwStore /\ nwSuppress ->
                 StoreTakes(next, saved) /\ nwRefused' = FALSE /\ UNCHANGED <<nwPlat, nwBroken, nwConfigs>>
            [] next # nwStore /\ ~nwSuppress /\ fails ->
                 FailAt(parsed, bad, fault, back) /\ UNCHANGED <<nwConfigs, nwStore, nwDisk, nwRefused>>
            [] OTHER -> /\ nwPlat' = [i \in IfSet |-> IF i \in ChangedIfs(parsed)
                                                     THEN ApplyToPlatform(nwPlat[i], parsed[i], "none")
                                                     ELSE nwPlat[i]]
                        /\ nwBroken' = nwBroken \ ChangedIfs(parsed)
                        /\ nwConfigs' = parsed /\ nwRefused' = FALSE
                        /\ StoreTakes(next, saved)
    /\ UNCHANGED <<nwOn, nwSuppress>>

(* The application stops (the store saves what it has) or is killed. *)
NetworkStop(saved) ==
    /\ nwOn /\ nwOn' = FALSE
    /\ nwDisk' = (IF saved THEN nwStore ELSE nwDisk) /\ nwStore' = nwDisk'
    /\ nwConfigs' = NoConfigs /\ nwSuppress' = FALSE
    /\ UNCHANGED <<nwPlat, nwBroken, nwRefused, nwChanges>>

NetworkNext ==
    \/ \E bad \in IfSet, fault \in PlatformFaults : NetworkStart(bad, fault)
    \/ \E i \in IfSet, c \in IfConfigs, fault, back \in PlatformFaults, saved \in BOOLEAN :
         ApplyInterfaceConfig(i, c, fault, saved, back)
    \/ \E next \in NetTables, bad \in IfSet, fault, back \in PlatformFaults, saved \in BOOLEAN :
         SetNetworkScope(next, bad, fault, saved, back)
    \/ \E saved \in BOOLEAN : NetworkStop(saved)

NetworkSpec == NetworkInit /\ [][NetworkNext]_nwVars

-----------------------------------------------------------------------------
(* Types; a started service has an interface to run. *)
NetworkTypeOK ==
    /\ nwOn \in BOOLEAN /\ nwSuppress \in BOOLEAN
    /\ nwOn => DOMAIN nwConfigs # {}
    /\ \A table \in {nwConfigs, nwStore, nwDisk} : \A i \in DOMAIN table : i \in IfSet /\ table[i] \in IfConfigs
    /\ nwBroken \subseteq IfSet

(* Whatever call failed in whatever change, an interface runs with the         *)
(* configuration the service has for it, unless undoing the change failed too. *)
InterfacesAsConfigured ==
    nwOn => \A i \in DOMAIN nwConfigs \ nwBroken : Realises(nwPlat[i], nwConfigs[i])

(* The store has the configuration the service runs with, so that a restart    *)
(* brings the same network back; the exception is a change refused because it  *)
(* could not be saved, which the store keeps.                                  *)
NetworkStoreAgrees == nwOn /\ ~nwRefused => LoadConfigs(nwStore) = nwConfigs

\* Interfaces, service and store agree after every change, also after one that
\* failed half-way and was rolled back.
NetworkAsConfigured ==
    /\ NetworkTypeOK /\ InterfacesAsConfigured /\ NetworkStoreAgrees
=============================================================================
