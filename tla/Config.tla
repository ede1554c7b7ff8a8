------------------------------- MODULE Config -------------------------------
(***************************************************************************)
(* The configuration centre of libs/event (config.cpp): scopes with a      *)
(* verify and an apply callback of the owning module, the values in        *)
(* memory, and the JSON file they are saved to.                            *)
(*                                                                         *)
(* write_mutex_ serialises Set, Reset, Stop and Release; mutex_ protects   *)
(* the fields for the length of one step, so other threads read, attach    *)
(* and detach scopes between any two steps of a Set, and the process may   *)
(* be killed between any two steps.                                        *)
(*                                                                         *)
(* A scope's JSON value is a model value; the depth and name checks that   *)
(* reject a request before it touches the state, error texts, and the      *)
(* filling of missing fields inside one scope are left out (a missing      *)
(* scope is filled).  The file system is the one of a killed process: what *)
(* was written stays, rename is atomic.                                    *)
(***************************************************************************)
EXTENDS Naturals, Sequences, FiniteSets

CONSTANTS
    Scopes,      \* the scopes of default_config.json, as naturals (key order)
    Values,      \* values of a scope
    Default,     \* the default value, in Values
    Absent,      \* a scope the file does not have
    MaxSets,     \* bound: Set and ResetAll calls
    MaxCrashes   \* bound: times the process is killed

ASSUME ConfigAssumption ==
    /\ Scopes \subseteq Nat /\ IsFiniteSet(Scopes)
    /\ Default \in Values /\ Absent \notin Values
    /\ MaxSets \in Nat /\ MaxCrashes \in Nat

VARIABLES
    initialized, started, changed,  \* initialized_, started_, changed_
    current,     \* current_
    attached,    \* scopes_: the scopes whose callbacks are registered
    runtime,     \* what each owning module runs with
    disk,        \* the file: "missing", "torn" or the values it holds
    tmp,         \* the .tmp file
    pc,          \* the holder of write_mutex_: "idle" when there is none
    job,         \* its operation: [op, scope, now, prev]
    snap,        \* snap of SaveCurrentFile()
    code,        \* the ConfigCode it will return
    todo,        \* ResetAll(): scopes still to be reset, in key order
    sets, crashes

vars == <<initialized, started, changed, current, attached, runtime, disk, tmp,
          pc, job, snap, code, todo, sets, crashes>>

Content == [Scopes -> Values \cup {Absent}]

Defaults == [s \in Scopes |-> Default]

\* MergeMissingFields(), scope by scope.
MergeMissing(values) ==
    [s \in Scopes |-> IF values[s] = Absent THEN Default ELSE values[s]]

NoJob == [op |-> "none", scope |-> 0, now |-> Absent, prev |-> Absent]

\* A first boot, or a file an earlier version or an editor left behind.
Init ==
    /\ initialized = FALSE /\ started = FALSE /\ changed = FALSE
    /\ current = [s \in {} |-> Absent]
    /\ attached = {} /\ runtime = [s \in Scopes |-> Absent]
    /\ \/ disk = <<"missing">>
       \/ \E c \in Content : disk = <<"file", c>>
    /\ tmp = <<"missing">>
    /\ pc = "idle" /\ job = NoJob
    /\ snap = [s \in {} |-> Absent] /\ code = "kOk" /\ todo = <<>>
    /\ sets = 0 /\ crashes = 0

-----------------------------------------------------------------------------
(* Start-up. *)

Readable == disk[1] = "file"

\* LoadInitialConfig(): a missing file is created from the defaults, then the
\* values with their missing scopes filled are written back.
Loaded == IF Readable THEN MergeMissing(disk[2]) ELSE Defaults

Prepare ==
    /\ ~initialized /\ pc = "idle"
    /\ Readable \/ disk[1] = "missing"
    /\ current' = Loaded
    /\ disk' = <<"file", Loaded>>
    /\ tmp' = <<"missing">>
    /\ changed' = FALSE /\ initialized' = TRUE
    /\ UNCHANGED <<started, attached, runtime, pc, job, snap, code,
                   todo, sets, crashes>>

\* Prepare() gives up, or the process is killed in it: the file cannot be
\* parsed, or one of the two AtomicWriteJson() calls did not complete.
PrepareFails ==
    /\ ~initialized /\ pc = "idle"
    /\ \/ UNCHANGED <<disk, tmp>>
       \/ /\ Readable \/ disk[1] = "missing"
          /\ disk' \in IF Readable THEN {disk} ELSE {disk, <<"file", Defaults>>}
          /\ tmp' \in {<<"torn">>, <<"file", Loaded>>}
    /\ UNCHANGED <<initialized, started, changed, current, attached, runtime,
                   pc, job, snap, code, todo, sets, crashes>>

Start ==
    /\ initialized /\ ~started
    /\ started' = TRUE
    /\ UNCHANGED <<initialized, changed, current, attached, runtime, disk, tmp,
                   pc, job, snap, code, todo, sets, crashes>>

\* A module loads its scope and registers its callbacks; modules do so while
\* the application starts, before a protocol can call Set().
AddScope(s) ==
    /\ initialized /\ pc = "idle" /\ s \notin attached
    /\ attached' = attached \cup {s}
    /\ runtime' = [runtime EXCEPT ![s] = current[s]]
    /\ UNCHANGED <<initialized, started, changed, current, disk, tmp, pc, job,
                   snap, code, todo, sets, crashes>>

RemoveScope(s) ==
    /\ s \in attached
    /\ attached' = attached \ {s}
    /\ UNCHANGED <<initialized, started, changed, current, runtime, disk, tmp,
                   pc, job, snap, code, todo, sets, crashes>>

-----------------------------------------------------------------------------
(* Set() and Reset(), step by step under write_mutex_. *)

Idle == pc = "idle"

\* SetLocked(), first section.  kStopped returns at once.
SetBegin(op, s, now) ==
    /\ Idle /\ initialized /\ started
    /\ job' = [op |-> op, scope |-> s, now |-> now, prev |-> current[s]]
    /\ code' = "kOk"
    /\ pc' = IF current[s] = now THEN "return"
             ELSE IF s \in attached THEN "verify" ELSE "commit"
    /\ UNCHANGED <<initialized, started, changed, current, attached, runtime,
                   disk, tmp, snap, crashes>>

Set(s, now) ==
    /\ sets < MaxSets
    /\ sets' = sets + 1
    /\ SetBegin("set", s, now)
    /\ UNCHANGED todo

Fail(c) ==
    /\ code' = c /\ pc' = "return"
    /\ UNCHANGED <<initialized, started, changed, current, attached, runtime,
                   disk, tmp, job, snap, todo, sets, crashes>>

Verify ==
    /\ pc = "verify"
    /\ \/ Fail("kVerify")
       \/ /\ pc' = "apply"
          /\ UNCHANGED <<initialized, started, changed, current, attached,
                         runtime, disk, tmp, job, snap, code, todo,
                         sets, crashes>>

\* The owner either switches to the new value or keeps the previous one.
Apply ==
    /\ pc = "apply"
    /\ \/ Fail("kApply")
       \/ /\ pc' = "commit"
          /\ runtime' = [runtime EXCEPT ![job.scope] = job.now]
          /\ UNCHANGED <<initialized, started, changed, current, attached, disk,
                         tmp, job, snap, code, todo, sets, crashes>>

\* Mutant: the new value is not marked for saving.
CommitClean ==
    /\ pc = "commit"
    /\ current' = [current EXCEPT ![job.scope] = job.now]
    /\ pc' = "save"
    /\ UNCHANGED <<initialized, started, changed, attached, runtime, disk, tmp,
                   job, snap, code, todo, sets, crashes>>

Commit ==
    /\ pc = "commit"
    /\ current' = [current EXCEPT ![job.scope] = job.now]
    /\ changed' = TRUE
    /\ pc' = "save"
    /\ UNCHANGED <<initialized, started, attached, runtime, disk, tmp, job,
                   snap, code, todo, sets, crashes>>

-----------------------------------------------------------------------------
(* SaveCurrentFile() and AtomicWriteJson(). *)

SaveBegin ==
    /\ pc = "save"
    /\ IF initialized /\ changed
       THEN /\ snap' = current /\ pc' = "write"
            /\ tmp' = <<"torn">>
       ELSE /\ pc' = "finish" /\ UNCHANGED <<snap, tmp>>
    /\ UNCHANGED <<initialized, started, changed, current, attached, runtime,
                   disk, job, code, todo, sets, crashes>>

SaveFails ==
    /\ pc \in {"write", "rename"}
    /\ code' = "kSave" /\ pc' = "finish"
    /\ UNCHANGED <<initialized, started, changed, current, attached, runtime,
                   disk, tmp, job, snap, todo, sets, crashes>>

\* WriteAll() completes the .tmp file, or has written one more part of it.
SaveWrite ==
    /\ pc = "write"
    /\ \/ tmp' = <<"file", snap>> /\ pc' = "rename"
       \/ UNCHANGED <<tmp, pc>>
    /\ UNCHANGED <<initialized, started, changed, current, attached, runtime,
                   disk, job, snap, code, todo, sets, crashes>>

SaveRename ==
    /\ pc = "rename"
    /\ disk' = tmp /\ tmp' = <<"missing">>
    /\ pc' = "saved"
    /\ UNCHANGED <<initialized, started, changed, current, attached, runtime,
                   job, snap, code, todo, sets, crashes>>

Saved ==
    /\ pc = "saved"
    /\ changed' = FALSE /\ pc' = "finish"
    /\ UNCHANGED <<initialized, started, current, attached, runtime, disk, tmp,
                   job, snap, code, todo, sets, crashes>>

Finish ==
    /\ pc = "finish"
    /\ pc' = "return"
    /\ IF job.op = "stop"
       THEN /\ started' = FALSE
            /\ UNCHANGED <<current, attached, changed, initialized>>
       ELSE IF job.op = "release"
       THEN /\ current' = [s \in {} |-> Absent] /\ attached' = {}
            /\ changed' = FALSE /\ initialized' = FALSE /\ started' = FALSE
       ELSE UNCHANGED <<current, attached, changed, initialized, started>>
    /\ UNCHANGED <<runtime, disk, tmp, job, snap, code, todo, sets, crashes>>

-----------------------------------------------------------------------------
(* Return, ResetAll(), Stop(), Release(), kill. *)

Return ==
    /\ pc = "return"
    /\ pc' = "idle"
    /\ todo' = IF job.op = "reset" /\ code # "kOk" THEN <<>> ELSE todo
    /\ UNCHANGED <<initialized, started, changed, current, attached, runtime,
                   disk, tmp, job, snap, code, sets, crashes>>

\* ResetAll() copies the defaults, then calls Reset() for one scope after the
\* other and releases write_mutex_ in between; the first failure ends it.
ResetAllBegin ==
    /\ initialized /\ todo = <<>> /\ sets < MaxSets
    /\ \E order \in [1..Cardinality(Scopes) -> Scopes] :
          /\ \A i, j \in DOMAIN order : i < j => order[i] < order[j]
          /\ todo' = order
    /\ sets' = sets + 1
    /\ UNCHANGED <<initialized, started, changed, current, attached, runtime,
                   disk, tmp, pc, job, snap, code, crashes>>

ResetNext ==
    /\ todo # <<>>
    /\ IF initialized /\ started
       THEN SetBegin("reset", Head(todo), Default) /\ todo' = Tail(todo)
       ELSE /\ Idle /\ todo' = <<>>    \* kStopped
            /\ UNCHANGED <<initialized, started, changed, current, attached,
                           runtime, disk, tmp, pc, job, snap, code, crashes>>
    /\ UNCHANGED sets

StopOrRelease(op) ==
    /\ Idle /\ initialized
    /\ pc' = "save" /\ code' = "kOk"
    /\ job' = [NoJob EXCEPT !.op = op]
    /\ UNCHANGED <<initialized, started, changed, current, attached, runtime,
                   disk, tmp, snap, todo, sets, crashes>>

\* The process is killed and its memory is gone; the files stay.
Crash ==
    /\ crashes < MaxCrashes
    /\ crashes' = crashes + 1
    /\ initialized' = FALSE /\ started' = FALSE /\ changed' = FALSE
    /\ current' = [s \in {} |-> Absent] /\ attached' = {}
    /\ runtime' = [s \in Scopes |-> Absent]
    /\ pc' = "idle" /\ job' = NoJob
    /\ snap' = [s \in {} |-> Absent] /\ code' = "kOk" /\ todo' = <<>>
    /\ UNCHANGED <<disk, tmp, sets>>

Next ==
    \/ Prepare \/ PrepareFails \/ Start
    \/ \E s \in Scopes : AddScope(s) \/ RemoveScope(s)
    \/ \E s \in Scopes, now \in Values : Set(s, now)
    \/ Verify \/ Apply \/ Commit
    \/ SaveBegin \/ SaveFails \/ SaveWrite \/ SaveRename \/ Saved \/ Finish
    \/ Return \/ ResetAllBegin \/ ResetNext
    \/ \E op \in {"stop", "release"} : StopOrRelease(op)
    \/ Crash

Spec == Init /\ [][Next]_vars

-----------------------------------------------------------------------------
(* Properties. *)

IsFile(f) == f \in {<<"missing">>, <<"torn">>} \/ (f[1] = "file" /\ f[2] \in Content)

\* Types of memory, file and job; a released or killed store is not started.
TypeOK ==
    /\ initialized \in BOOLEAN /\ started \in BOOLEAN /\ changed \in BOOLEAN
    /\ initialized => current \in [Scopes -> Values]
    /\ started \/ changed \/ attached # {} => initialized
    /\ attached \subseteq Scopes
    /\ runtime \in [Scopes -> Values \cup {Absent}]
    /\ IsFile(disk) /\ IsFile(tmp)
    /\ pc \in {"idle", "verify", "apply", "commit", "save", "write", "rename",
               "saved", "finish", "return"}
    /\ code \in {"kOk", "kVerify", "kApply", "kSave"}
    /\ pc \notin {"idle", "return"} => initialized

\* The file is a complete JSON document at every moment, so that whenever the
\* process is killed the next Prepare() can load it (AtomicWriteJson()).
DiskNeverTorn == disk[1] # "torn"

\* changed_ is exact where it matters: without it the file holds what is in
\* memory, so no SaveCurrentFile() that skips the write skips one that is due.
SavedIsCurrent == initialized /\ ~changed => disk = <<"file", current>>

\* Outside the gap between apply and the assignment of current_, every module
\* runs with the value Get() returns: whatever fails, in whatever order scopes
\* are set and reset.
AppliedIsCurrent ==
    \A s \in attached :
        runtime[s] = current[s] \/ (pc = "commit" /\ job.scope = s)

\* What docs/libs/event.md says of Set(): success means verified, applied and
\* saved.  It fails when a value whose save failed is set again.
SetOkMeansSaved ==
    pc = "return" /\ job.op \in {"set", "reset"} /\ code = "kOk" =>
        disk[1] = "file" /\ disk[2][job.scope] = job.now

\* File, memory and modules agree: whichever of verify, apply and save fails and
\* wherever the process is killed, the file can be loaded, no save that is due is
\* skipped, and modules run with what Get() returns.
StoreConsistent ==
    /\ TypeOK /\ DiskNeverTorn /\ SavedIsCurrent /\ AppliedIsCurrent
=============================================================================
