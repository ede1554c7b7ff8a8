------------------------------ MODULE Upgrade ------------------------------
(***************************************************************************)
(* The firmware upgrade of the camera.  Four actors share it:              *)
(*                                                                         *)
(*  - the HTTP control thread (one worker, so API calls are serial), which *)
(*    uploads packages and calls StartUpgrade, CancelUpgrade,              *)
(*    ConfirmReboot and GetUpgradeInfo of UpgradeImpl;                     *)
(*  - the service's single worker, which runs ExecuteUpgrade against       *)
(*    UpgradePlatform;                                                     *)
(*  - live_sysupgrade, a forked helper process that outlives the main      *)
(*    process and burns every package that is not web-only;                *)
(*  - the power supply.                                                    *)
(*                                                                         *)
(* The service state is guarded by a mutex that each operation takes       *)
(* several times, and the platform object by nothing, so an operation is   *)
(* one action per critical section.  A package stands for its file in the  *)
(* tmpfs upload directory; its images are named after it.  Percentages,    *)
(* messages, the audit log and the upgrade log are left out.               *)
(***************************************************************************)
EXTENDS Naturals, Sequences, FiniteSets

CONSTANTS
    Package,        \* packages that may be uploaded
    Manifest,       \* [Package -> the fields of its Install file]
    Requests,       \* bodies of /api/upgrade/start
    QueueCapacity,  \* UpgradeOptions::queue_capacity
    MaxJobs,        \* bound: accepted StartUpgrade calls
    MaxUploads,     \* bound: uploads
    MaxBoots,       \* bound: power losses and reboots
    None

Partition == {"kernel", "bin", "web", "config"}

Jobs == 1..MaxJobs

\* Version of the images the camera left the factory with.
FactoryVersion == 1

ASSUME PackagesAssumption ==
    /\ {None, "factory", "blank"} \cap Package = {}
    /\ \A p \in Package :
          /\ Manifest[p].version \in Nat
          /\ Manifest[p].signed \in BOOLEAN
          /\ Manifest[p].reboot \in BOOLEAN
          /\ Manifest[p].tool \in BOOLEAN
          /\ Manifest[p].parts \in Seq(Partition)
          /\ Manifest[p].parts # <<>>
          /\ \A k, l \in DOMAIN Manifest[p].parts :
                Manifest[p].parts[k] = Manifest[p].parts[l] => k = l
    /\ \A r \in Requests :
          /\ r.package \in Package
          /\ r.expected \in Nat \cup {None}
          /\ {r.auto, r.same, r.down} \subseteq BOOLEAN

ASSUME BoundsAssumption == MaxJobs \in Nat /\ QueueCapacity \in Nat

VARIABLES
    svc,      \* UpgradeImpl: upgrade_info_, current_package_path_ and flags
    plat,     \* UpgradePlatform: its flags, cached_package_ and stage_dir_
    jobs,     \* the requests StartUpgrade accepted, in order
    queue,    \* the executor's queue of jobs
    worker,   \* the executor's worker
    api,      \* the HTTP control thread
    helper,   \* one live_sysupgrade process per job that forked one
    up, term, \* the main process runs; it has been sent SIGTERM
    running,  \* version the running binary was built with
    files,    \* packages in the upload directory (tmpfs)
    stages,   \* stage directory of each job (tmpfs)
    status,   \* /data/upgrade_status.json
    flash,    \* what each partition holds
    power,    \* "on", or why the camera is restarting
    uploads,  \* packages uploaded so far; each upload is a file of its own
    boots,    \* power losses and reboots so far
    canceled, \* jobs whose CancelUpgrade returned true
    early,    \* jobs accepted while a cancelled one was still alive
    wrote     \* jobs that erased a partition

main    == <<svc, plat, queue, worker, api>>
proc    == <<up, term, running, power, boots>>
tmpfs   == <<files, stages>>
cancels == <<canceled, early>>
vars    == <<main, jobs, helper, proc, tmpfs, status, flash, uploads,
             cancels, wrote>>

----------------------------------------------------------------------------
(***************************************************************************)
(* Packages, requests, the status file                                     *)
(***************************************************************************)
Version(image) ==
    IF image \in Package THEN Manifest[image].version ELSE FactoryVersion

\* The partitions the burn commands of a package name.
Parts(p) == {Manifest[p].parts[k] : k \in DOMAIN Manifest[p].parts}

\* UpgradePackageIsWebOnly, and its negation PackageNeedsSysupgradeTool.
WebOnly(p) == Parts(p) = {"web"}

RequiresReboot(p) == Manifest[p].reboot \/ ~WebOnly(p)

\* ParseUpgradePackage: the file is there, its Install file carries a valid
\* signature, and every image matches the digest Install gives for it.
ParseUpgradePackage(p) == p \in files /\ Manifest[p].signed

\* ExtractUpgradeFiles also compares the manifest it is given with the file's.
CanExtract(p, cached) ==
    ParseUpgradePackage(p) /\ cached \in Package /\ Manifest[cached] = Manifest[p]

ValidateVersionPolicy(r) ==
    LET v == Manifest[r.package].version
    IN  /\ r.expected # None => r.expected = v
        /\ v = running => r.same
        /\ v < running => r.down

IsTerminalState(s) == s \in {"idle", "completed", "failed", "canceled"}

IsCancelableState(s) == s \in {"validating", "preparing"}

\* A file two processes wrote at once through the same .tmp: not JSON.
Torn == [state |-> "torn", version |-> None]

Status(s, v) == [state |-> s, version |-> v]

\* What WriteUpgradeStatusFile leaves behind.  It writes .tmp, syncs it and
\* renames it, which power loss cannot tear; but all processes use the same
\* .tmp, so while another one writes too, the renamed file can be a mixture;
\* and once the other one has renamed it, the rename finds no .tmp, which
\* leaves what the other one reported.
WriteUpgradeStatusFile(s, racing, overtaken) ==
    status' \in {s} \cup {t \in {Torn} : racing} \cup {t \in {status} : overtaken}

HelperRuns(j) == helper[j].pc \notin {"none", "exited"}

\* WriteUpgradeInfo of the main process, next to the helper it has just forked
\* and any other.
MainStatus(s, p) ==
    LET rivals == {j \in Jobs : HelperRuns(j) \/ (j = worker.job /\ helper[j].pc # "none")}
    IN  WriteUpgradeStatusFile(Status(s, Manifest[p].version), rivals # {},
                               \E j \in rivals : helper[j].pc # "parse")

\* LoadPersistedUpgradeInfo: a completed upgrade and an unreadable file both
\* read as idle; the file of a completed one is removed.
Persisted ==
    IF status = None \/ status.state \in {"completed", "torn"}
    THEN Status("idle", None) ELSE status

StatusAfterLoad ==
    IF status # None /\ status.state = "completed" THEN None ELSE status

----------------------------------------------------------------------------
(***************************************************************************)
(* The service's view of itself                                            *)
(***************************************************************************)
FreshInfo(st) ==
    [state |-> st.state, target |-> st.version, path |-> None,
     cancel |-> FALSE, ext |-> FALSE]

\* GetUpgradeInfo, called by the status API and by every progress event:
\* while a helper owns the upgrade its status file replaces the service's
\* own state, unless it is about another version.
Refreshed(s) ==
    LET st == Persisted
        same == s.target = None \/ st.version = None \/ s.target = st.version
        done == IsTerminalState(st.state)
    IN  IF s.ext /\ st.state # "idle" /\ same
        THEN [s EXCEPT !.state = st.state, !.target = st.version,
                       !.ext = ~done, !.path = IF done THEN None ELSE @]
        ELSE s

\* An update of upgrade_info_ followed by PublishProgressChanged.
Publish(s) ==
    /\ svc' = Refreshed(s)
    /\ status' = IF s.ext THEN StatusAfterLoad ELSE status

UpdateStatus(s) == Publish([svc EXCEPT !.state = s])

\* CleanupCurrentPackageFile followed by an update of the state.
CleanupThen(s) ==
    /\ files' = files \ {svc.path}
    /\ Publish([svc EXCEPT !.state = s, !.path = None])

IdleWorker == [pc |-> "idle", job |-> 0, i |-> 0]

Goto(l) == worker' = [worker EXCEPT !.pc = l]

WorkerAt(l) == power = "on" /\ up /\ worker.pc = l

Request == jobs[worker.job]

----------------------------------------------------------------------------
(***************************************************************************)
(* ExecuteUpgrade up to the write                                          *)
(***************************************************************************)
WorkerTake ==
    /\ WorkerAt("idle") /\ queue # <<>>
    /\ worker' = [pc |-> "validate", job |-> Head(queue), i |-> 0]
    /\ queue' = Tail(queue)
    /\ UNCHANGED <<svc, plat, api, jobs, helper, proc, tmpfs, status, flash,
                   uploads, cancels, wrote>>

\* platform->ValidatePackage: it leaves the manifest in cached_package_.
WorkerValidate ==
    /\ WorkerAt("validate")
    /\ IF ParseUpgradePackage(Request.package)
       THEN /\ plat' = [plat EXCEPT !.cached = Request.package]
            /\ Goto("policy")
       ELSE Goto("reject") /\ UNCHANGED plat
    /\ UNCHANGED <<svc, queue, api, jobs, helper, proc, tmpfs, status, flash,
                   uploads, cancels, wrote>>

\* ValidateVersionPolicy and the first IsCancelRequested.
WorkerPolicy ==
    /\ WorkerAt("policy")
    /\ IF ~ValidateVersionPolicy(Request) THEN Goto("reject")
       ELSE IF svc.cancel THEN worker' = IdleWorker
       ELSE Goto("preparing")
    /\ UNCHANGED <<svc, plat, queue, api, jobs, helper, proc, tmpfs, status,
                   flash, uploads, cancels, wrote>>

\* UpdateTargetVersion and UpdateStatus(kPreparing): whatever the state is.
WorkerPreparing ==
    /\ WorkerAt("preparing")
    /\ Publish([svc EXCEPT !.target = Manifest[Request.package].version,
                           !.state = "preparing"])
    /\ Goto("prepare")
    /\ UNCHANGED <<plat, queue, api, jobs, helper, proc, tmpfs, flash,
                   uploads, cancels, wrote>>

\* PrepareUpgrade as far as the package, the directories and the helper tool.
\* The errors about directories do not touch the status file.
WorkerPrepare ==
    LET p == Request.package
    IN  /\ WorkerAt("prepare")
        /\ \/ ParseUpgradePackage(p) /\ Goto("arm") /\ UNCHANGED status
           \/ ParseUpgradePackage(p) /\ Goto("fail") /\ UNCHANGED status
           \/ /\ ~ParseUpgradePackage(p) \/ ~WebOnly(p)
              /\ MainStatus("failed", p)
              /\ Goto("fail")
        /\ UNCHANGED <<svc, plat, queue, api, jobs, helper, proc, tmpfs,
                       flash, uploads, cancels, wrote>>

\* The rest of PrepareUpgrade, which also clears the platform's cancel flag.
WorkerArm ==
    /\ WorkerAt("arm")
    /\ plat' = [cancel |-> FALSE, ext |-> FALSE, auto |-> FALSE,
                cached |-> Request.package, stage |-> worker.job]
    /\ \/ /\ stages' = [stages EXCEPT ![worker.job] = "made"]
          /\ Goto("recheck")
       \/ Goto("fail") /\ UNCHANGED stages
    /\ UNCHANGED <<svc, queue, api, jobs, helper, proc, files, status, flash,
                   uploads, cancels, wrote>>

WorkerRecheck ==
    /\ WorkerAt("recheck")
    /\ IF svc.cancel THEN worker' = IdleWorker ELSE Goto("writing")
    /\ UNCHANGED <<svc, plat, queue, api, jobs, helper, proc, tmpfs, status,
                   flash, uploads, cancels, wrote>>

\* UpdateStatus(kWriting) and SetAutoRebootPolicy.
WorkerWriting ==
    /\ WorkerAt("writing")
    /\ UpdateStatus("writing")
    /\ plat' = [plat EXCEPT !.auto = Request.auto]
    /\ Goto("write")
    /\ UNCHANGED <<queue, api, jobs, helper, proc, tmpfs, flash, uploads,
                   cancels, wrote>>

\* A failed step: IsCancelRequested decides between returning silently and
\* cleaning up.  "reject" is a failed validation or version policy, "fail" a
\* failed PrepareUpgrade or WriteUpgrade.
WorkerGiveUp ==
    /\ WorkerAt("reject") \/ WorkerAt("fail")
    /\ IF svc.cancel THEN worker' = IdleWorker
       ELSE Goto(IF worker.pc = "reject" THEN "rejected" ELSE "failed")
    /\ UNCHANGED <<svc, plat, queue, api, jobs, helper, proc, tmpfs, status,
                   flash, uploads, cancels, wrote>>

\* CleanupStageDir on the platform's current stage_dir_.
CleanupStageDir ==
    /\ stages' = [j \in Jobs |-> IF j = plat.stage THEN "none" ELSE stages[j]]
    /\ plat' = [plat EXCEPT !.stage = None]

\* CleanupFailedUpgrade unless validation failed, CleanupCurrentPackageFile,
\* SetFailed.
WorkerFailed ==
    /\ WorkerAt("rejected") \/ WorkerAt("failed")
    /\ IF worker.pc = "failed" THEN CleanupStageDir
       ELSE UNCHANGED <<stages, plat>>
    /\ CleanupThen("failed")
    /\ worker' = IdleWorker
    /\ UNCHANGED <<queue, api, jobs, helper, proc, flash, uploads, cancels,
                   wrote>>

----------------------------------------------------------------------------
(***************************************************************************)
(* WriteUpgrade: hand the package to a helper, or burn the web partition   *)
(***************************************************************************)
WorkerWrite ==
    /\ WorkerAt("write")
    /\ Goto(IF plat.cancel THEN "fail"
            ELSE IF WebOnly(plat.cached) THEN "extract" ELSE "launch")
    /\ UNCHANGED <<svc, plat, queue, api, jobs, helper, proc, tmpfs, status,
                   flash, uploads, cancels, wrote>>

\* StartSysupgradeTool: the tool comes from the package or from /opt/app.
WorkerLaunch ==
    LET p == plat.cached
        usable == Manifest[p].tool => ParseUpgradePackage(Request.package)
        start == [pc |-> "parse", i |-> 0, reboot |-> RequiresReboot(p) /\ plat.auto]
    IN  /\ WorkerAt("launch")
        /\ \/ /\ usable
              /\ helper' = [helper EXCEPT ![worker.job] = start]
              /\ Goto("handoff")
              /\ UNCHANGED status
           \/ /\ MainStatus("failed", p)
              /\ Goto("fail")
              /\ UNCHANGED helper
        /\ UNCHANGED <<svc, plat, queue, api, jobs, proc, tmpfs, flash,
                       uploads, cancels, wrote>>

\* The parent's side after fork: it reports "writing" while the child may
\* already report its own progress, or its failure.
WorkerHandoff ==
    /\ WorkerAt("handoff")
    /\ plat' = [plat EXCEPT !.ext = TRUE]
    /\ MainStatus("writing", plat.cached)
    /\ Goto("mark")
    /\ UNCHANGED <<svc, queue, api, jobs, helper, proc, tmpfs, flash, uploads,
                   cancels, wrote>>

\* MarkExternalFlashWriterActive.
WorkerMark ==
    /\ WorkerAt("mark")
    /\ Publish([svc EXCEPT !.ext = TRUE, !.state = "writing"])
    /\ worker' = IdleWorker
    /\ UNCHANGED <<plat, queue, api, jobs, helper, proc, tmpfs, flash,
                   uploads, cancels, wrote>>

WorkerExtract ==
    /\ WorkerAt("extract")
    /\ \/ /\ CanExtract(Request.package, plat.cached)
          /\ stages' = [stages EXCEPT ![worker.job] = "full"]
          /\ Goto("apply")
       \/ Goto("fail") /\ UNCHANGED stages
    /\ UNCHANGED <<svc, plat, queue, api, jobs, helper, proc, files, status,
                   flash, uploads, cancels, wrote>>

WriteFailed ==
    MainStatus("failed", plat.cached) /\ Goto("fail")

\* The last look at the cancel flag, then ApplyWebUpgrade's check that every
\* command is about the web partition.
WorkerApply ==
    /\ WorkerAt("apply")
    /\ \/ plat.cancel /\ Goto("fail") /\ UNCHANGED status
       \/ ~plat.cancel /\ ~WebOnly(plat.cached) /\ WriteFailed
       \/ /\ ~plat.cancel /\ WebOnly(plat.cached)
          /\ worker' = [worker EXCEPT !.pc = "burn", !.i = 1]
          /\ UNCHANGED status
    /\ UNCHANGED <<svc, plat, queue, api, jobs, helper, proc, tmpfs, flash,
                   uploads, cancels, wrote>>

\* WriteMtdImage, first half: open and check the image, then erase.  The
\* erase may fail before the first block (flash unchanged) or later.
Erase(part, j) ==
    /\ flash' = [flash EXCEPT ![part] = "blank"]
    /\ wrote' = wrote \cup {j}

\* WriteMtdImage, second half: program the partition; a failure leaves it
\* with no whole image.
Program(part, image) == flash' \in {flash, [flash EXCEPT ![part] = image]}

\* Mutant: an EBUSY of umount is ignored.
CanUnmountBusy(part) == part \in Partition

\* UnmountIfMounted: umount fails with EBUSY while the main process executes
\* from /opt/app; the other mount points may be busy or not.
CanUnmount(part) == part = "bin" => ~up

\* The loop reads the commands of cached_package_ by reference, so a package
\* validated meanwhile by the HTTP thread replaces them; the image it then
\* looks for is not in this job's stage directory.
WorkerBurn ==
    LET parts == Manifest[plat.cached].parts
        part == parts[worker.i]
        imageOk == plat.cached = Request.package /\ stages[worker.job] = "full"
    IN  /\ WorkerAt("burn")
        /\ \/ /\ worker.i > Len(parts)
              /\ Goto("written")
              /\ UNCHANGED <<status, flash, wrote>>
           \/ /\ worker.i <= Len(parts)
              /\ WriteFailed
              /\ \/ UNCHANGED <<flash, wrote>>
                 \/ imageOk /\ CanUnmount(part) /\ Erase(part, worker.job)
           \/ /\ worker.i <= Len(parts) /\ imageOk /\ CanUnmount(part)
              /\ Erase(part, worker.job)
              /\ Goto("program")
              /\ UNCHANGED status
        /\ UNCHANGED <<svc, plat, queue, api, jobs, helper, proc, tmpfs,
                       uploads, cancels>>

\* The partition whose device the worker or a helper holds open.
OpenPart(j, i) == Manifest[jobs[j].package].parts[i]

WorkerProgram ==
    /\ WorkerAt("program")
    /\ Program(OpenPart(worker.job, worker.i), Request.package)
    /\ Goto("verify")
    /\ UNCHANGED <<svc, plat, queue, api, jobs, helper, proc, tmpfs, status,
                   uploads, cancels, wrote>>

\* Read back, compare with the command's digest, remount.
WorkerVerify ==
    /\ WorkerAt("verify")
    /\ \/ /\ flash[OpenPart(worker.job, worker.i)] = Request.package
          /\ worker' = [worker EXCEPT !.pc = "burn", !.i = @ + 1]
          /\ UNCHANGED status
       \/ WriteFailed
    /\ UNCHANGED <<svc, plat, queue, api, jobs, helper, proc, tmpfs, flash,
                   uploads, cancels, wrote>>

\* The last IsCancelRequested and UpdateStatus(kCommitting).
WorkerWritten ==
    /\ WorkerAt("written")
    /\ IF svc.cancel
       THEN worker' = IdleWorker /\ UNCHANGED <<svc, status>>
       ELSE UpdateStatus("committing") /\ Goto("commit")
    /\ UNCHANGED <<plat, queue, api, jobs, helper, proc, tmpfs, flash,
                   uploads, cancels, wrote>>

\* CommitUpgrade.
WorkerCommit ==
    LET p == Request.package
    IN  /\ WorkerAt("commit")
        /\ MainStatus(IF RequiresReboot(p) THEN "waiting_reboot" ELSE "completed", p)
        /\ CleanupStageDir
        /\ Goto("finish")
        /\ UNCHANGED <<svc, queue, api, jobs, helper, proc, files, flash,
                       uploads, cancels, wrote>>

\* RebootToApply: reboot(2) does not return unless it fails.
RebootToApply(why) ==
    boots < MaxBoots /\ power' = why /\ boots' = boots + 1

\* CleanupCurrentPackageFile and the end of ExecuteUpgrade.
WorkerFinish ==
    LET p == Request.package
        reboots == RequiresReboot(p) /\ Request.auto
    IN  /\ WorkerAt("finish")
        /\ \/ ~reboots /\ CleanupThen(IF RequiresReboot(p) THEN "waiting_reboot"
                                      ELSE "completed")
                       /\ UNCHANGED <<power, boots>>
           \/ reboots /\ RebootToApply("auto") /\ UNCHANGED <<svc, status, files>>
           \/ reboots /\ CleanupThen("failed") /\ UNCHANGED <<power, boots>>
        /\ worker' = IdleWorker
        /\ UNCHANGED <<plat, queue, api, jobs, helper, up, term, running,
                       stages, flash, uploads, cancels, wrote>>

WorkerStep ==
    \/ WorkerTake \/ WorkerValidate \/ WorkerPolicy \/ WorkerPreparing
    \/ WorkerPrepare \/ WorkerArm \/ WorkerRecheck \/ WorkerWriting
    \/ WorkerGiveUp \/ WorkerFailed \/ WorkerWrite \/ WorkerLaunch
    \/ WorkerHandoff \/ WorkerMark \/ WorkerExtract \/ WorkerApply
    \/ WorkerBurn \/ WorkerProgram \/ WorkerVerify \/ WorkerWritten
    \/ WorkerCommit \/ WorkerFinish

----------------------------------------------------------------------------
(***************************************************************************)
(* The HTTP control thread                                                 *)
(***************************************************************************)
ApiAt(l) == power = "on" /\ up /\ api = l

\* What dies with the main process.
MainGone ==
    /\ up' = FALSE /\ term' = FALSE
    /\ svc' = FreshInfo(Status("idle", None))
    /\ plat' = [cancel |-> FALSE, ext |-> FALSE, auto |-> FALSE,
                cached |-> None, stage |-> None]
    /\ queue' = <<>> /\ worker' = IdleWorker /\ api' = "idle"

\* HandleUpload: CleanupUploadDir removes every uploaded package, also one
\* that is being upgraded; WriteUploadFile stores the new one.
Upload(p) ==
    /\ ApiAt("idle") /\ p \notin uploads /\ Cardinality(uploads) < MaxUploads
    /\ \/ files' = {p} /\ uploads' = uploads \cup {p} /\ api' = "uploaded"
       \/ files' = {} /\ UNCHANGED <<uploads, api>>
    /\ UNCHANGED <<svc, plat, queue, worker, jobs, helper, proc, stages,
                   status, flash, cancels, wrote>>

\* ValidatePackage assigns cached_package_ with no lock.  While the worker is
\* inside WriteUpgrade it reads that object, and the race may also kill the
\* main process.
Racing == worker.pc \in {"write", "launch", "handoff", "extract", "apply",
                         "burn", "program", "verify"}

ValidatePackage(p) ==
    \/ /\ plat' = [plat EXCEPT !.cached = p]
       /\ api' = "idle"
       /\ UNCHANGED <<svc, queue, worker, up, term>>
    \/ Racing /\ MainGone

\* The rest of HandleUpload: validate, and remove the file if that fails.
UploadValidate ==
    /\ ApiAt("uploaded")
    /\ \E p \in files :
          IF ParseUpgradePackage(p)
          THEN ValidatePackage(p) /\ UNCHANGED files
          ELSE /\ files' = files \ {p}
               /\ api' = "idle"
               /\ UNCHANGED <<svc, plat, queue, worker, up, term>>
    /\ UNCHANGED <<jobs, helper, running, power, boots, stages, status, flash,
                   uploads, cancels, wrote>>

\* HandleValidate on a package uploaded earlier.
HandleValidate(p) ==
    /\ ApiAt("idle") /\ ParseUpgradePackage(p) /\ plat.cached # p
    /\ ValidatePackage(p)
    /\ UNCHANGED <<jobs, helper, running, power, boots, tmpfs, status, flash,
                   uploads, cancels, wrote>>

\* A job that is still queued, in the worker, or with its helper.
JobAlive(j) ==
    \/ \E k \in DOMAIN queue : queue[k] = j
    \/ worker.pc # "idle" /\ worker.job = j
    \/ HelperRuns(j)

\* StartUpgrade: the second, decisive critical section.  It looks at the state
\* alone, which says "canceled" while the cancelled job is still on its way.
StartUpgrade(r) ==
    /\ ApiAt("idle") /\ Len(jobs) < MaxJobs
    /\ IsTerminalState(svc.state)
    /\ r.package \in files
    /\ Publish([state |-> "validating", target |-> None, path |-> r.package,
                cancel |-> FALSE, ext |-> FALSE])
    /\ jobs' = Append(jobs, r)
    /\ early' = early \cup {j \in {Len(jobs) + 1} : \E k \in canceled : JobAlive(k)}
    /\ api' = "post"
    /\ UNCHANGED <<plat, queue, worker, helper, proc, tmpfs, flash, uploads,
                   canceled, wrote>>

\* executor->Post, which fails on a full queue or a stopping executor.
StartPost ==
    /\ ApiAt("post")
    /\ \/ /\ Len(queue) < QueueCapacity
          /\ queue' = Append(queue, Len(jobs))
          /\ UNCHANGED <<svc, status>>
       \/ /\ Len(queue) >= QueueCapacity \/ term
          /\ UpdateStatus("failed")
          /\ UNCHANGED queue
    /\ api' = "idle"
    /\ UNCHANGED <<plat, worker, jobs, helper, proc, tmpfs, flash, uploads,
                   cancels, wrote>>

\* CancelUpgrade, one action per critical section.
CancelUpgrade ==
    /\ ApiAt("idle") /\ IsCancelableState(svc.state)
    /\ svc' = [svc EXCEPT !.cancel = TRUE]
    /\ api' = "cancel_platform"
    /\ UNCHANGED <<plat, queue, worker, jobs, helper, proc, tmpfs, status,
                   flash, uploads, cancels, wrote>>

CancelPlatform ==
    /\ ApiAt("cancel_platform")
    /\ plat' = [plat EXCEPT !.cancel = TRUE]
    /\ api' = "cancel_finish"
    /\ UNCHANGED <<svc, queue, worker, jobs, helper, proc, tmpfs, status,
                   flash, uploads, cancels, wrote>>

CancelFinish ==
    /\ ApiAt("cancel_finish")
    /\ CleanupThen("canceled")
    /\ canceled' = canceled \cup {Len(jobs)}
    /\ api' = "idle"
    /\ UNCHANGED <<plat, queue, worker, jobs, helper, proc, stages, flash,
                   uploads, early, wrote>>

ConfirmReboot ==
    /\ ApiAt("idle") /\ svc.state = "waiting_reboot"
    /\ \/ RebootToApply("confirm") /\ UNCHANGED <<svc, status>>
       \/ UpdateStatus("failed") /\ UNCHANGED <<power, boots>>
    /\ UNCHANGED <<plat, queue, worker, api, jobs, helper, up, term, running,
                   tmpfs, flash, uploads, cancels, wrote>>

GetUpgradeInfo ==
    /\ ApiAt("idle") /\ svc.ext
    /\ Publish(svc)
    /\ UNCHANGED <<plat, queue, worker, api, jobs, helper, proc, tmpfs, flash,
                   uploads, cancels, wrote>>

ApiStep ==
    \/ \E p \in Package : Upload(p) \/ HandleValidate(p)
    \/ \E r \in Requests : StartUpgrade(r)
    \/ UploadValidate \/ StartPost
    \/ CancelUpgrade \/ CancelPlatform \/ CancelFinish
    \/ ConfirmReboot \/ GetUpgradeInfo

----------------------------------------------------------------------------
(***************************************************************************)
(* live_sysupgrade, forked for job j                                       *)
(***************************************************************************)
HelperAt(j, l) == power = "on" /\ helper[j].pc = l

Step(j, l) == helper' = [helper EXCEPT ![j].pc = l]

\* WriteUpgradeInfo of a helper.  The main process may be reporting the
\* handoff at the same time.
HelperWrites(j, st) ==
    LET rivals == {k \in Jobs \ {j} : HelperRuns(k)}
    IN  WriteUpgradeStatusFile(st, rivals # {} \/ (up /\ worker.pc = "handoff"),
                               \E k \in rivals : helper[k].pc # "parse")

HelperStatus(j, s) ==
    HelperWrites(j, Status(s, Manifest[jobs[j].package].version))

\* CleanupTmpUpgradeFiles: the stage directory and the package.
CleanupTmpUpgradeFiles(j) ==
    /\ files' = files \ {jobs[j].package}
    /\ stages' = [stages EXCEPT ![j] = "none"]

\* Run: the package does not parse; the version is not known.
HelperRefuse(j) ==
    /\ HelperAt(j, "parse") /\ ~ParseUpgradePackage(jobs[j].package)
    /\ HelperWrites(j, Status("failed", None))
    /\ Step(j, "exited")
    /\ UNCHANGED <<main, jobs, proc, tmpfs, flash, uploads, cancels, wrote>>

HelperParse(j) ==
    /\ HelperAt(j, "parse") /\ ParseUpgradePackage(jobs[j].package)
    /\ HelperStatus(j, "preparing")
    /\ Step(j, "serve")
    /\ UNCHANGED <<main, jobs, proc, tmpfs, flash, uploads, cancels, wrote>>

\* StartStatusServer: without auto reboot the helper needs it.
HelperServe(j) ==
    /\ HelperAt(j, "serve")
    /\ \/ Step(j, "prepare") /\ UNCHANGED status
       \/ ~helper[j].reboot /\ HelperStatus(j, "failed") /\ Step(j, "exited")
    /\ UNCHANGED <<main, jobs, proc, tmpfs, flash, uploads, cancels, wrote>>

\* ApplyPackage: tmpfs, MTD layout and stage directory checks.
HelperPrepare(j) ==
    /\ HelperAt(j, "prepare")
    /\ \/ Step(j, "extract") /\ HelperStatus(j, "writing")
       \/ Step(j, "failed") /\ UNCHANGED status
    /\ UNCHANGED <<main, jobs, proc, tmpfs, flash, uploads, cancels, wrote>>

HelperExtract(j) ==
    /\ HelperAt(j, "extract")
    /\ \/ /\ CanExtract(jobs[j].package, jobs[j].package)
          /\ stages' = [stages EXCEPT ![j] = "full"]
          /\ Step(j, "stop")
       \/ Step(j, "failed") /\ UNCHANGED stages
    /\ UNCHANGED <<main, jobs, proc, files, status, flash, uploads, cancels,
                   wrote>>

\* StopLiveStreamApp: SIGTERM, and 300 ms for the main process to go.
HelperStopApp(j) ==
    /\ HelperAt(j, "stop")
    /\ term' = up
    /\ helper' = [helper EXCEPT ![j].pc = "burn", ![j].i = 1]
    /\ UNCHANGED <<main, jobs, up, running, power, boots, tmpfs, status, flash,
                   uploads, cancels, wrote>>

HelperBurn(j) ==
    LET parts == Manifest[jobs[j].package].parts
        part == parts[helper[j].i]
        burns == helper[j].i <= Len(parts) /\ stages[j] = "full" /\ CanUnmount(part)
    IN  /\ HelperAt(j, "burn")
        /\ \/ /\ helper[j].i > Len(parts)
              /\ Step(j, "finish")
              /\ UNCHANGED <<flash, wrote>>
           \/ /\ helper[j].i <= Len(parts)
              /\ Step(j, "failed")
              /\ \/ UNCHANGED <<flash, wrote>>
                 \/ burns /\ Erase(part, j)
           \/ burns /\ Erase(part, j) /\ Step(j, "program")
        /\ HelperStatus(j, "writing")
        /\ UNCHANGED <<main, jobs, proc, tmpfs, uploads, cancels>>

HelperProgram(j) ==
    /\ HelperAt(j, "program")
    /\ Program(OpenPart(j, helper[j].i), jobs[j].package)
    /\ Step(j, "verify")
    /\ UNCHANGED <<main, jobs, proc, tmpfs, status, uploads, cancels, wrote>>

\* Mutant: what was written is not read back.
HelperVerifySkipped(j) ==
    /\ HelperAt(j, "verify")
    /\ helper' = [helper EXCEPT ![j].pc = "burn", ![j].i = @ + 1]
    /\ UNCHANGED <<main, jobs, proc, tmpfs, status, flash, uploads, cancels,
                   wrote>>

HelperVerify(j) ==
    /\ HelperAt(j, "verify")
    /\ \/ /\ flash[OpenPart(j, helper[j].i)] = jobs[j].package
          /\ helper' = [helper EXCEPT ![j].pc = "burn", ![j].i = @ + 1]
       \/ Step(j, "failed")
    /\ UNCHANGED <<main, jobs, proc, tmpfs, status, flash, uploads, cancels,
                   wrote>>

\* Run after a failed ApplyPackage.
HelperFailed(j) ==
    /\ HelperAt(j, "failed")
    /\ HelperStatus(j, "failed")
    /\ CleanupTmpUpgradeFiles(j)
    /\ Step(j, "exited")
    /\ UNCHANGED <<main, jobs, proc, flash, uploads, cancels, wrote>>

\* Run after a successful one: clean up, then report.
HelperFinish(j) ==
    /\ HelperAt(j, "finish")
    /\ CleanupTmpUpgradeFiles(j)
    /\ IF helper[j].reboot
       THEN HelperStatus(j, "completed") /\ Step(j, "reboot")
       ELSE HelperStatus(j, "waiting_reboot") /\ Step(j, "waiting")
    /\ UNCHANGED <<main, jobs, proc, flash, uploads, cancels, wrote>>

\* POST /api/upgrade/confirm-reboot to the helper's server, which owns the
\* port once the main process has released it, then PersistCompletedForBoot.
HelperConfirm(j) ==
    /\ HelperAt(j, "waiting") /\ ~up
    /\ HelperStatus(j, "completed")
    /\ Step(j, "reboot")
    /\ UNCHANGED <<main, jobs, proc, tmpfs, flash, uploads, cancels, wrote>>

HelperReboot(j) ==
    /\ HelperAt(j, "reboot")
    /\ \/ /\ RebootToApply(IF helper[j].reboot THEN "auto" ELSE "confirm")
          /\ UNCHANGED <<helper, status>>
       \/ /\ HelperStatus(j, "failed")
          /\ Step(j, "exited")
          /\ UNCHANGED <<power, boots>>
    /\ UNCHANGED <<main, jobs, up, term, running, tmpfs, flash, uploads,
                   cancels, wrote>>

HelperStep ==
    \E j \in Jobs :
       \/ HelperRefuse(j) \/ HelperParse(j) \/ HelperServe(j)
       \/ HelperPrepare(j) \/ HelperExtract(j) \/ HelperStopApp(j)
       \/ HelperBurn(j) \/ HelperProgram(j) \/ HelperVerify(j)
       \/ HelperFailed(j) \/ HelperFinish(j) \/ HelperConfirm(j)
       \/ HelperReboot(j)

----------------------------------------------------------------------------
(***************************************************************************)
(* Process exit, power loss, boot                                          *)
(***************************************************************************)
\* On SIGTERM the service waits for the task the worker runs and discards
\* the queued ones.
MainExits ==
    /\ WorkerAt("idle") /\ ApiAt("idle") /\ term
    /\ MainGone
    /\ UNCHANGED <<jobs, helper, running, power, boots, tmpfs, status, flash,
                   uploads, cancels, wrote>>

PowerLoss ==
    /\ power = "on" /\ boots < MaxBoots
    /\ power' = "lost" /\ boots' = boots + 1
    /\ UNCHANGED <<main, jobs, helper, up, term, running, tmpfs, status, flash,
                   uploads, cancels, wrote>>

\* init runs S80live_stream, which starts the application if /opt/app holds
\* one; Prepare loads the status file.
Boot ==
    /\ power # "on"
    /\ power' = "on"
    /\ up' = (flash["bin"] # "blank" /\ flash["kernel"] # "blank")
    /\ term' = FALSE
    /\ svc' = FreshInfo(Persisted)
    /\ status' = IF up' THEN StatusAfterLoad ELSE status
    /\ running' = IF up' THEN Version(flash["bin"]) ELSE running
    /\ plat' = [cancel |-> FALSE, ext |-> FALSE, auto |-> FALSE,
                cached |-> None, stage |-> None]
    /\ queue' = <<>> /\ worker' = IdleWorker /\ api' = "idle"
    /\ helper' = [j \in Jobs |-> [helper[j] EXCEPT
                     !.pc = IF helper[j].pc = "none" THEN "none" ELSE "exited"]]
    /\ files' = {}
    /\ stages' = [j \in Jobs |-> "none"]
    /\ UNCHANGED <<jobs, flash, boots, uploads, cancels, wrote>>

Init ==
    /\ svc = FreshInfo(Status("idle", None))
    /\ plat = [cancel |-> FALSE, ext |-> FALSE, auto |-> FALSE,
               cached |-> None, stage |-> None]
    /\ jobs = <<>> /\ queue = <<>> /\ worker = IdleWorker /\ api = "idle"
    /\ helper = [j \in Jobs |-> [pc |-> "none", i |-> 0, reboot |-> FALSE]]
    /\ up = TRUE /\ term = FALSE /\ running = FactoryVersion
    /\ files = {} /\ stages = [j \in Jobs |-> "none"]
    /\ status = None
    /\ flash = [part \in Partition |-> "factory"]
    /\ power = "on" /\ uploads = {} /\ boots = 0
    /\ canceled = {} /\ early = {} /\ wrote = {}

Next ==
    WorkerStep \/ ApiStep \/ HelperStep \/ MainExits \/ PowerLoss \/ Boot

Spec == Init /\ [][Next]_vars

----------------------------------------------------------------------------
(***************************************************************************)
(* Properties                                                              *)
(***************************************************************************)
SvcStates == {"idle", "validating", "preparing", "writing", "committing",
              "waiting_reboot", "completed", "failed", "canceled"}

Image == Package \cup {"factory", "blank"}

\* Type correctness of the service, the platform, the processes and the flash.
TypeOK ==
    /\ svc \in [state : SvcStates, target : Nat \cup {None},
                path : Package \cup {None}, cancel : BOOLEAN, ext : BOOLEAN]
    /\ plat \in [cancel : BOOLEAN, ext : BOOLEAN, auto : BOOLEAN,
                 cached : Package \cup {None}, stage : Jobs \cup {None}]
    /\ jobs \in Seq(Requests) /\ Len(jobs) <= MaxJobs
    /\ queue \in Seq(Jobs) /\ Len(queue) <= QueueCapacity
    /\ worker.job \in 0..Len(jobs) /\ worker.i \in Nat
    /\ \A j \in Jobs : helper[j].reboot \in BOOLEAN /\ helper[j].i \in Nat
    /\ files \subseteq Package
    /\ stages \in [Jobs -> {"none", "made", "full"}]
    /\ flash \in [Partition -> Image]
    /\ power \in {"on", "lost", "auto", "confirm"}
    /\ canceled \subseteq Jobs /\ early \subseteq Jobs /\ wrote \subseteq Jobs
    /\ up \in BOOLEAN /\ term \in BOOLEAN /\ running \in Nat

\* CancelUpgrade returned true only for jobs that never erase anything: the
\* documented meaning of cancellation, "it takes effect only before the
\* uninterruptible write, and nothing is cancelled after an erase".
CancelHonoured == canceled \cap wrote = {}

\* Whatever is uploaded, replaced, deleted or interrupted, a partition only
\* ever holds its factory image, an image of a signed package whose Install
\* file names that partition, or nothing.
FlashAuthentic ==
    \A part \in Partition :
       flash[part] \in Package =>
          /\ Manifest[flash[part]].signed
          /\ part \in Parts(flash[part])

\* The partition the main process executes from is never erased under it,
\* although the helper does not wait for the process to exit.
RunningPartitionIntact == up /\ power = "on" => flash["bin"] # "blank"

Writers ==
    {j \in Jobs : helper[j].pc \in {"program", "verify"}}
       \cup (IF up /\ worker.pc \in {"program", "verify"} THEN {worker.job} ELSE {})

\* No two upgrades write flash at the same time, as long as none was accepted
\* while a cancelled one was still alive.
OneFlashWriter == early = {} => \A j, k \in Writers : j = k

Burnt(p) == \A part \in Parts(p) : flash[part] = p

\* The status file is set to "completed" or "waiting_reboot" for a version
\* only when every partition of a package of that version holds its image.
StatusTruthful ==
    [][ (status' # status /\ status' # None
           /\ status'.state \in {"completed", "waiting_reboot"} /\ early = {})
        => \E p \in Package : Manifest[p].version = status'.version /\ Burnt(p) ]_vars

\* The running version goes down only through a request that allowed it.
DowngradeAllowed ==
    [][ running' < running =>
          \E k \in DOMAIN jobs : jobs[k].down /\ jobs[k].package = flash["bin"] ]_vars

\* When the camera reboots by itself after an upgrade, the status file it left
\* says "completed" (or is gone), so that the next boot finds no upgrade
\* pending.
AutoRebootPersisted == power = "auto" => Persisted.state = "idle"

\* The flash is safe whatever is uploaded, cancelled, interrupted or started twice:
\* only signed images of the right partition, never the one being executed, one
\* writer at a time.
FlashSafe ==
    /\ TypeOK /\ FlashAuthentic /\ RunningPartitionIntact /\ OneFlashWriter

\* The status file claims success only for what is in the flash, and versions go
\* down only on request, across helper, reboot and power loss.
UpgradeHonest ==
    /\ StatusTruthful
    /\ DowngradeAllowed
=============================================================================
