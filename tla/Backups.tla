------------------------------ MODULE Backups ------------------------------
(* Scheduled database backups of one type (services/backup/backupService.  *)
(* ts, backupLock.ts, backupRetention.ts, scheduler/database-backup.job.   *)
(* ts, claim_backup_job).                                                  *)
(*                                                                         *)
(* The job of every API instance, the restart catch-up, the closing of the *)
(* day, an admin and the command line all call runBackup: claim the type's *)
(* lock (a backup_jobs row in status running), dump, upload, read back,    *)
(* write the manifest, release. A lock past BACKUP_STALE_LOCK_MS is taken  *)
(* for crashed. `backup.ts retention --confirm` deletes expired objects.   *)
(* Types share neither rows, keys nor locks, so one is modelled; a backup  *)
(* id is the day it is labelled for. A dump is a number, standing for its  *)
(* size and checksum; auth archives are no longer written. The one queue   *)
(* per instance only keeps an instance's scheduled runs apart. The names   *)
(* differ from DayClosing's, whose job runs beside this one.               *)
EXTENDS Naturals, FiniteSets

CONSTANTS
    Runs,           \* calls of runBackup that can be under way at once
    KeepDays,       \* days until an object may be deleted
    MaxDay,         \* bound: days
    MaxDumps,       \* bound: dumps that can be told apart
    MaxBackupFaults \* bound: crashes, failed steps and lost answers

ASSUME DayAssumption == MaxDay \in Nat \ {0} /\ KeepDays \in Nat
(* Every dump a key, a manifest, a row or a run holds, and a new one.      *)
ASSUME BoundAssumption ==
    /\ MaxBackupFaults \in Nat /\ IsFiniteSet(Runs)
    /\ MaxDumps \in Nat /\ MaxDumps > 3 * MaxDay + Cardinality(Runs)

VARIABLES
    day,        \* the Karachi date
    backup,     \* backup_jobs: the row of an id
    object,     \* S3: the dump under an id's key, 0 without one
    manifest,   \* S3: the dump an id's manifest describes, 0 without one
    doing,      \* what each run is doing
    verified,   \* the retention command's read of the verified rows
    doomed,     \* and what it is going to delete
    outlived,   \* ghost: ids one of whose live runs was taken for crashed
    backupFaults

backupVars == <<day, backup, object, manifest, doing, verified, doomed, outlived, backupFaults>>

s3 == <<object, manifest>>
retention == <<verified, doomed>>

Days == 1 .. MaxDay
IdleRun == [step |-> "idle", id |-> 1, dump |-> 0]
Steps == {"idle", "duplicate", "upload", "check", "manifest", "release"}
NoJob == [status |-> "none", fresh |-> FALSE, dump |-> 0]

Live(r) == doing[r].step # "idle"

BackupInit ==
    /\ day = 1
    /\ backup = [i \in Days |-> NoJob]
    /\ object = [i \in Days |-> 0]
    /\ manifest = [i \in Days |-> 0]
    /\ doing = [r \in Runs |-> IdleRun]
    /\ verified = {}
    /\ doomed = {}
    /\ outlived = {}
    /\ backupFaults = 0

BackupFault == backupFaults < MaxBackupFaults /\ backupFaults' = backupFaults + 1
RunTo(r, step) == doing' = [doing EXCEPT ![r].step = step]

-----------------------------------------------------------------------------
(* claim_backup_job, under the type's advisory lock. A completed id and a  *)
(* running row within the stale window turn the call away.                 *)
RunningIds == {i \in Days : backup[i].status = "running"}
LockFree == \A i \in RunningIds : ~backup[i].fresh

ClaimedBeside == [backup EXCEPT ![day].status = "running", ![day].fresh = TRUE]
Claimed == [i \in Days |->
    IF i = day THEN [backup[i] EXCEPT !.status = "running", !.fresh = TRUE]
    ELSE IF i \in RunningIds THEN [backup[i] EXCEPT !.status = "stale"] ELSE backup[i]]

ClaimBackup(r) ==
    /\ ~Live(r)
    /\ backup[day].status # "verified"
    /\ LockFree
    /\ backup' = Claimed
    /\ outlived' = outlived \cup
         {i \in RunningIds : ~backup[i].fresh /\ \E o \in Runs : Live(o) /\ doing[o].id = i}
    /\ doing' = [doing EXCEPT ![r] = [step |-> "duplicate", id |-> day, dump |-> 0]]
    /\ UNCHANGED <<day, s3, retention, backupFaults>>

(* release: the handle counts as released before the update is made.       *)
Release(r, patch) == backup' = [backup EXCEPT ![doing[r].id] = patch]
RunEnds(r) == doing' = [doing EXCEPT ![r] = IdleRun]

VerifiedUnsigned(r, dump) == [backup[doing[r].id] EXCEPT !.status = "verified"]
Verified(r, dump) == [backup[doing[r].id] EXCEPT !.status = "verified", !.dump = dump]

(* The update that should record the outcome fails: the second release, in *)
(* the catch block, is ignored and the row stays running.                  *)
ReleaseLost == BackupFault /\ UNCHANGED backup

(* findCompletedDuplicate: an earlier run got as far as its manifest.      *)
CompleteInS3(i) == manifest[i] # 0 /\ object[i] = manifest[i]

FoundComplete(r) ==
    /\ doing[r].step = "duplicate"
    /\ CompleteInS3(doing[r].id)
    /\ \/ Release(r, Verified(r, manifest[doing[r].id])) /\ UNCHANGED backupFaults
       \/ ReleaseLost
    /\ RunEnds(r)
    /\ UNCHANGED <<day, s3, retention, outlived>>

(* pg_dump's file is like no dump before it.                               *)
Used == {object[i] : i \in Days} \cup {manifest[i] : i \in Days}
            \cup {backup[i].dump : i \in Days} \cup {doing[r].dump : r \in Runs}
NewDump == CHOOSE n \in 1 .. MaxDumps \ Used : \A m \in 1 .. MaxDumps \ Used : n <= m

Dump(r) ==
    /\ doing[r].step = "duplicate"
    /\ ~CompleteInS3(doing[r].id)
    /\ doing' = [doing EXCEPT ![r].step = "upload", ![r].dump = NewDump]
    /\ UNCHANGED <<day, backup, s3, retention, outlived, backupFaults>>

Upload(r) ==
    /\ doing[r].step = "upload"
    /\ object' = [object EXCEPT ![doing[r].id] = doing[r].dump]
    /\ RunTo(r, "check")
    /\ UNCHANGED <<day, backup, manifest, retention, outlived, backupFaults>>

(* HeadObject agrees with the dump that was taken; otherwise FailRun.      *)
ReadBack(r) == object[doing[r].id] = doing[r].dump

Check(r) ==
    /\ doing[r].step = "check"
    /\ ReadBack(r)
    /\ RunTo(r, "manifest")
    /\ UNCHANGED <<day, backup, s3, retention, outlived, backupFaults>>

PutManifest(r) ==
    /\ doing[r].step = "manifest"
    /\ manifest' = [manifest EXCEPT ![doing[r].id] = doing[r].dump]
    /\ RunTo(r, "release")
    /\ UNCHANGED <<day, backup, object, retention, outlived, backupFaults>>

Complete(r) ==
    /\ doing[r].step = "release"
    /\ \/ Release(r, Verified(r, doing[r].dump)) /\ UNCHANGED backupFaults
       \/ ReleaseLost
    /\ RunEnds(r)
    /\ UNCHANGED <<day, s3, retention, outlived>>

(* A step fails, its write possibly made all the same (an upload or a      *)
(* manifest whose answer was lost); the row is marked failed, if it can be.*)
WroteAnyway(r) ==
    \/ UNCHANGED s3
    \/ /\ doing[r].step = "upload"
       /\ object' = [object EXCEPT ![doing[r].id] = doing[r].dump]
       /\ UNCHANGED manifest
    \/ /\ doing[r].step = "manifest"
       /\ manifest' = [manifest EXCEPT ![doing[r].id] = doing[r].dump]
       /\ UNCHANGED object

MarkedFailed(r) == [backup[doing[r].id] EXCEPT !.status = "failed"]

FailRun(r) ==
    /\ Live(r) /\ doing[r].step # "release"
    /\ IF doing[r].step = "check" /\ ~ReadBack(r) THEN UNCHANGED backupFaults ELSE BackupFault
    /\ WroteAnyway(r)
    /\ Release(r, MarkedFailed(r)) \/ UNCHANGED backup
    /\ RunEnds(r)
    /\ UNCHANGED <<day, retention, outlived>>

(* The process dies; a write it had under way may still arrive.            *)
CrashRun(r) ==
    /\ Live(r)
    /\ BackupFault
    /\ WroteAnyway(r)
    /\ RunEnds(r)
    /\ UNCHANGED <<day, backup, retention, outlived>>

(* The stale window passes since started_at.                               *)
LockAges(i) ==
    /\ i \in RunningIds /\ backup[i].fresh
    /\ backup' = [backup EXCEPT ![i].fresh = FALSE]
    /\ UNCHANGED <<day, s3, doing, retention, outlived, backupFaults>>

(* A day is longer than the stale window.                                  *)
NextDay ==
    /\ day < MaxDay
    /\ day' = day + 1
    /\ backup' = [i \in Days |-> [backup[i] EXCEPT !.fresh = FALSE]]
    /\ UNCHANGED <<s3, doing, retention, outlived, backupFaults>>

-----------------------------------------------------------------------------
(* backup.ts retention --confirm, with the application as the authority    *)

VerifiedIds == {i \in Days : backup[i].status = "verified"}
Newest(S) == {i \in S : \A k \in S : k <= i}
Expired(i) == i + KeepDays < day

ReadVerified ==
    /\ verified = {} /\ doomed = {}
    /\ verified' = VerifiedIds
    /\ UNCHANGED <<day, backup, s3, doing, doomed, outlived, backupFaults>>

ProtectedLastRun == Newest({i \in Days : backup[i].status # "none"})
Protected == Newest(verified)

(* planRetention, over the rows read before and the objects listed now.    *)
Plan ==
    /\ verified # {} /\ doomed = {}
    /\ doomed' = {i \in verified \ Protected : object[i] # 0 /\ Expired(i)}
    /\ verified' = {}
    /\ UNCHANGED <<day, backup, s3, doing, outlived, backupFaults>>

(* applyRetention, a key at a time.                                        *)
Delete(i) ==
    /\ i \in doomed
    /\ object' = [object EXCEPT ![i] = 0]
    /\ doomed' = doomed \ {i}
    /\ UNCHANGED <<day, backup, manifest, doing, verified, outlived, backupFaults>>

-----------------------------------------------------------------------------
ProceedRun(r) ==
    \/ FoundComplete(r) \/ Dump(r) \/ Upload(r)
    \/ Check(r) \/ PutManifest(r) \/ Complete(r) \/ FailRun(r)

BackupNext ==
    \/ \E r \in Runs : ClaimBackup(r) \/ ProceedRun(r) \/ CrashRun(r)
    \/ \E i \in Days : LockAges(i) \/ Delete(i)
    \/ NextDay \/ ReadVerified \/ Plan

BackupSpec == BackupInit /\ [][BackupNext]_backupVars

(* The day comes round, each day's job or catch-up calls runBackup, and a  *)
(* run's steps return or time out.                                         *)
BackupFairSpec ==
    /\ BackupSpec
    /\ WF_backupVars(NextDay)
    /\ \A r \in Runs : WF_backupVars(ClaimBackup(r)) /\ WF_backupVars(ProceedRun(r))

-----------------------------------------------------------------------------
BackupTypeOK ==
    /\ day \in Days
    /\ backup \in [Days -> [status : {"none", "running", "stale", "failed", "verified"},
                            fresh : BOOLEAN, dump : 0 .. MaxDumps]]
    /\ object \in [Days -> 0 .. MaxDumps] /\ manifest \in [Days -> 0 .. MaxDumps]
    /\ doing \in [Runs -> [step : Steps, id : Days, dump : 0 .. MaxDumps]]
    /\ verified \subseteq Days /\ doomed \subseteq Days /\ outlived \subseteq Days
    /\ backupFaults \in 0 .. MaxBackupFaults

(* The type's lock is held once, for any id (the partial unique index on   *)
(* running rows), and by one live run unless a run outlived its lock.      *)
OneHolder ==
    /\ Cardinality(RunningIds) <= 1
    /\ outlived = {} => Cardinality({r \in Runs : Live(r)}) <= 1

(* A verified row describes the dump that is in S3 and in its manifest, or *)
(* one retention has deleted, whatever earlier runs of the id left behind  *)
(* ("never marked successful before the uploaded objects have been read    *)
(* back", backupService.ts:25), unless two runs wrote its key at once.     *)
VerifiedIsThere ==
    \A i \in VerifiedIds \ outlived :
        manifest[i] = backup[i].dump /\ backup[i].dump # 0 /\ object[i] \in {0, backup[i].dump}

(* Retention leaves something to restore: the newest verified backup is in *)
(* S3 although the plan was made from an older read (backupRetention.ts:   *)
(* 22 "never the newest verified backup of a type, however old").          *)
NewestIsKept ==
    outlived = {} => \A i \in Newest(VerifiedIds) : object[i] = backup[i].dump

(* No lock is held for ever: whatever became of its run, a later day's     *)
(* claim finds it released or takes it over.                               *)
LockIsFreed ==
    \A i \in Days : i < MaxDay =>
        (backup[i].status = "running" ~> backup[i].status # "running")
============================================================================
