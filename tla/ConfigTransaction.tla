------------------------- MODULE ConfigTransaction -------------------------
(***************************************************************************)
(* The configuration transaction of rigos-config: the `transact` command,  *)
(* its rollback, the boot-time `recover`, the miner unit they stop and     *)
(* start, and the ext4 state partition they leave behind a power cut.      *)
(*                                                                         *)
(* Every step below is one externally visible effect of the engine (one    *)
(* rename, one systemctl call, ...), so that a crash, a second engine or a *)
(* systemd job can come between any two of them.                           *)
(***************************************************************************)
EXTENDS Naturals, FiniteSets

CONSTANTS
  Engine,     \* concurrent invocations of `rigos-config transact`
  Recovery,   \* the `rigos-config recover` of rigos-profile-apply.service
  Revision,   \* revision ids, each standing for the proposal committed as it
  Zone,       \* IANA timezone names
  ZoneOf,     \* ZoneOf[r]: the timezone of revision r's profile
  OnBoot,     \* the revisions whose profile has miner_start_mode = on_boot
  Alias,      \* the names of identities
  AliasOf,    \* AliasOf[r]: the identity chosen for revision r
  ImageZone,  \* the timezone of the immutable image, in force at every boot
  None,       \* no revision, no record, no outcome
  Torn,       \* a pending record that exists but does not parse
  Env,        \* what the environment may do: see EnvEvent
  MaxBoots    \* bound on the number of boots

(***************************************************************************)
(* Failing calls, by the stage that makes them, and the other disturbances *)
(* a run may allow.                                                        *)
(***************************************************************************)
EnvEvent ==
  {"query",     \* timedatectl or systemctl queries fail (or the record's open)
   "write",     \* the pending record is created but its write fails
   "stop",      \* systemctl stop fails
   "stage",     \* writing, chowning or syncing the staged revision fails
   "publish",   \* a rename, symlink or directory sync of the commit fails
   "zone",      \* timedatectl set-timezone fails
   "enable",    \* systemctl enable / disable fails
   "start",     \* systemctl start fails, or XMRig does not stay up
   "pointer",   \* the rollback's symlink or rename fails
   "forget",    \* an unlink of the first-commit rollback fails, unnoticed
   "unlink",    \* removing the pending record fails
   "torn",      \* a journal commit precedes the data of files nobody synced
   "exit",      \* XMRig dies and systemd schedules a restart
   "operator",  \* someone starts the unit by hand
   "crash"}     \* power loss or reset

ASSUME ConstantsAssumption ==
  /\ Recovery \notin Engine
  /\ None \notin Revision
  /\ OnBoot \subseteq Revision
  /\ ZoneOf \in [Revision -> Zone]
  /\ AliasOf \in [Revision -> Alias]
  /\ ImageZone \in Zone
  /\ Env \subseteq EnvEvent
  /\ MaxBoots \in Nat

RevisionOrNone == Revision \cup {None}

\* RuntimeSnapshot: the pending record's contents.
Snapshot == [boot: Nat, previous: RevisionOrNone, zone: Zone,
             enabled: BOOLEAN, active: BOOLEAN]

ASSUME RecordAssumption ==
  /\ None \notin Snapshot /\ Torn \notin Snapshot /\ None # Torn
  /\ None \notin {"applied", "failed"}

VARIABLES
  fs,        \* the state partition as processes see it
  disk,      \* the state partition as a power cut would leave it
  boot,      \* the boot id
  nomine,    \* the kernel command line blocks mining on this boot
  zone,      \* the system timezone
  enabled,   \* rigos-miner.service is enabled
  miner,     \* the revision the running XMRig was started with, or None
  startJob,  \* the boot's start job of rigos-miner.service is still queued
  respawn,   \* systemd has an automatic restart of the miner scheduled
  pc,        \* the next step of each engine and of the recovery
  req,       \* the revision each engine is committing
  snap,      \* the snapshot each actor holds in memory
  outcome    \* what each engine reported

storage == <<fs, disk>>
unit == <<miner, startJob, respawn>>
runtime == <<zone, enabled>>
session == <<req, snap>>
vars == <<fs, disk, boot, nomine, zone, enabled, miner, startJob, respawn,
          pc, req, snap, outcome>>

Actor == Engine \cup {Recovery}

Forward == {"stop", "stage", "publish", "swap", "link", "zone", "enable", "start", "clear"}
Backward == {"rb_stop", "rb_pointer", "rb_zone", "rb_enable", "rb_start", "rb_clear", "rb_fail"}

InTransaction(a) == pc[a] \in Forward \cup Backward

\* The boot unit that runs `recover` and then `timezone` has ended, either way.
ProfileApplied == pc[Recovery] \in {"done", "failed"}

PublicLinks == {"policy", "xmrig"}

\* The identity files of each revision; an empty one lost its data in a power cut.
IdentityFiles == [Revision -> [Alias -> {"none", "whole", "empty"}]]

Volume == [revision: [Revision -> {"absent", "staging", "complete"}],
           identity: IdentityFiles,
           current: RevisionOrNone, previous: RevisionOrNone,
           links: SUBSET PublicLinks, pending: Snapshot \cup {None, Torn}]
-----------------------------------------------------------------------------
EmptyVolume ==
  [revision |-> [r \in Revision |-> "absent"],
   identity |-> [r \in Revision |-> [a \in Alias |-> "none"]], current |-> None,
   previous |-> None, links |-> {}, pending |-> None]

Init ==
  /\ fs = EmptyVolume
  /\ disk = EmptyVolume
  /\ boot = 0
  /\ nomine \in BOOLEAN
  /\ zone = ImageZone
  /\ enabled = TRUE
  /\ miner = None
  /\ startJob = TRUE
  /\ respawn = FALSE
  /\ pc = [a \in Actor |-> IF a = Recovery THEN "recover" ELSE "idle"]
  /\ req = [e \in Engine |-> None]
  /\ snap = [a \in Actor |-> None]
  /\ outcome = [e \in Engine |-> None]

Goto(a, label) == pc' = [pc EXCEPT ![a] = label]

MayFail(event) == event \in Env

\* Faulty variant: a third exit status nobody distinguishes.
FaultyReport(e, result) ==
  /\ outcome' = [outcome EXCEPT ![e] = IF pc[e] = "rb_fail" THEN "partly" ELSE result]
  /\ req' = [req EXCEPT ![e] = None]
  /\ snap' = [snap EXCEPT ![e] = None]
  /\ Goto(e, "idle")

\* A process that exits leaves nothing but its exit status.
Report(e, result) ==
  /\ outcome' = [outcome EXCEPT ![e] = result]
  /\ req' = [req EXCEPT ![e] = None]
  /\ snap' = [snap EXCEPT ![e] = None]
  /\ Goto(e, "idle")
-----------------------------------------------------------------------------
(***************************************************************************)
(* The state partition.  `fs` is what rename, symlink and unlink change;   *)
(* `disk` follows when the journal commits.  Metadata reaches the disk in  *)
(* order, so `disk` is always an earlier `fs`, except that the data of a   *)
(* file nobody synced may come later than its directory entry: that of the *)
(* pending record (write_private_json) and of the identities fs::copy puts *)
(* into a revision.  What write_json writes is synced.                     *)
(***************************************************************************)
RecordMayTear(volume) ==
  MayFail("torn") /\ volume.pending \in Snapshot /\ disk.pending # volume.pending

\* Revisions and aliases whose copied identity has no data on the disk yet.
Unsynced(volume) ==
  IF ~MayFail("torn") THEN {}
  ELSE {c \in Revision \X Alias :
          /\ c[2] # AliasOf[c[1]]
          /\ volume.identity[c[1]][c[2]] = "whole"
          /\ disk.identity[c[1]][c[2]] # "whole"}

\* Faulty variant: write_json does not sync either.
FaultyWithout(volume, lost) ==
  [volume EXCEPT !.identity =
     [r \in Revision |-> [a \in Alias |->
        IF a = AliasOf[r] /\ volume.identity[r][a] = "whole" /\ MayFail("torn") THEN "empty"
        ELSE volume.identity[r][a]]]]

Without(volume, lost) ==
  [volume EXCEPT !.identity =
     [r \in Revision |-> [a \in Alias |->
        IF <<r, a>> \in lost THEN "empty" ELSE volume.identity[r][a]]]]

\* What a journal commit may leave on the disk.
Journaled(volume) ==
  LET records == {volume.pending} \cup (IF RecordMayTear(volume) THEN {Torn} ELSE {})
  IN  {[Without(volume, lost) EXCEPT !.pending = record] :
         record \in records, lost \in SUBSET Unsynced(volume)}

\* fsync of a file or directory commits the journal up to this point.
Sync(volume) == disk' \in Journaled(volume)

\* Background journal commit, with or without the data of those files.
Writeback ==
  /\ disk' \in Journaled(fs)
  /\ disk' # disk
  /\ UNCHANGED <<fs, boot, nomine, runtime, unit, pc, session, outcome>>
-----------------------------------------------------------------------------
(***************************************************************************)
(* rigos-miner.service.                                                    *)
(***************************************************************************)
\* systemctl stop: ends XMRig and cancels whatever start is queued.
StopUnit ==
  /\ miner' = None
  /\ startJob' = FALSE
  /\ respawn' = FALSE

\* ConditionPathExists and ExecCondition=`rigos-config gate` of the unit.
Gate ==
  /\ "xmrig" \in fs.links
  /\ fs.current # None
  /\ fs.current \in OnBoot
  /\ ~nomine

\* A start job that runs: a refusing gate skips the unit and is no error.
StartUnit ==
  /\ miner' = IF miner = None /\ Gate THEN fs.current ELSE miner
  /\ startJob' = FALSE
  /\ respawn' = FALSE

\* XMRig died within the start: not active, perhaps about to be restarted.
StartUnitFails ==
  /\ miner' = None
  /\ startJob' = FALSE
  /\ respawn' \in BOOLEAN

\* Faulty variant: the miner unit Requires= the profile unit.
FaultyBootStart ==
  /\ startJob
  /\ pc[Recovery] = "done"
  /\ StartUnit
  /\ UNCHANGED <<storage, boot, nomine, runtime, pc, session, outcome>>

\* The queued boot job is dispatched once the units it is ordered after ended.
BootStart ==
  /\ startJob
  /\ ProfileApplied
  /\ StartUnit
  /\ UNCHANGED <<storage, boot, nomine, runtime, pc, session, outcome>>

MinerExit ==
  /\ MayFail("exit")
  /\ miner # None
  /\ miner' = None
  /\ respawn' = TRUE
  /\ UNCHANGED <<storage, boot, nomine, runtime, startJob, pc, session, outcome>>

Respawn ==
  /\ respawn
  /\ StartUnit
  /\ UNCHANGED <<storage, boot, nomine, runtime, pc, session, outcome>>

OperatorStart ==
  /\ MayFail("operator")
  /\ ProfileApplied
  /\ miner = None
  /\ StartUnit
  /\ UNCHANGED <<storage, boot, nomine, runtime, pc, session, outcome>>
-----------------------------------------------------------------------------
(***************************************************************************)
(* transact: the forward steps.                                            *)
(***************************************************************************)
\* A fresh UUID: no directory of that name, and nobody else about to make one.
Fresh(r) ==
  /\ fs.revision[r] = "absent" /\ disk.revision[r] = "absent"
  /\ \A e \in Engine : req[e] # r

Begin(e, r) ==
  /\ pc[e] = "idle"
  /\ ProfileApplied
  /\ Fresh(r)
  /\ \/ /\ fs.pending = None
        /\ req' = [req EXCEPT ![e] = r]
        /\ outcome' = [outcome EXCEPT ![e] = None]
        /\ Goto(e, "snapshot")
        /\ UNCHANGED snap
     \/ /\ fs.pending # None
        /\ Report(e, "failed")
  /\ UNCHANGED <<storage, boot, nomine, runtime, unit>>

TakeSnapshot(e) ==
  /\ pc[e] = "snapshot"
  /\ \/ /\ snap' = [snap EXCEPT ![e] =
                     [boot |-> boot, previous |-> fs.current, zone |-> zone,
                      enabled |-> enabled, active |-> miner # None]]
        /\ Goto(e, "write")
        /\ UNCHANGED <<req, outcome>>
     \/ /\ MayFail("query")
        /\ Report(e, "failed")
  /\ UNCHANGED <<storage, boot, nomine, runtime, unit>>

\* Faulty variant: opens the record without create_new.
FaultyWritePending(e) ==
  /\ pc[e] = "write"
  /\ fs' = [fs EXCEPT !.pending = snap[e]]
  /\ Goto(e, "stop")
  /\ UNCHANGED <<disk, boot, nomine, runtime, unit, session, outcome>>

\* create_new: the record is also the lock, and a failed write leaves it behind.
WritePending(e) ==
  /\ pc[e] = "write"
  /\ \/ /\ fs.pending = None
        /\ fs' = [fs EXCEPT !.pending = snap[e]]
        /\ Goto(e, "stop")
        /\ UNCHANGED <<session, outcome>>
     \/ /\ fs.pending = None
        /\ MayFail("write")
        /\ fs' = [fs EXCEPT !.pending = Torn]
        /\ Report(e, "failed")
     \/ /\ fs.pending # None
        /\ Report(e, "failed")
        /\ UNCHANGED fs
  /\ UNCHANGED <<disk, boot, nomine, runtime, unit>>

StopBeforeCommit(e) ==
  /\ pc[e] = "stop"
  /\ \/ StopUnit /\ Goto(e, "stage")
     \/ /\ \/ MayFail("query") /\ StopUnit
           \/ MayFail("stop") /\ (StopUnit \/ UNCHANGED unit)
        /\ Goto(e, "rb_stop")
  /\ UNCHANGED <<storage, boot, nomine, runtime, session, outcome>>

WithRevision(r, status) == [fs EXCEPT !.revision[r] = status]

\* Faulty variant: takes the identities of the revision before.
FaultyIdentitiesOf(r) ==
  [a \in Alias |->
     IF a = AliasOf[r] THEN "whole"
     ELSE IF fs.previous = None THEN "none" ELSE fs.identity[fs.previous][a]]

\* The identities of current are copied, as they are; the chosen one is written.
IdentitiesOf(r) ==
  [a \in Alias |->
     IF a = AliasOf[r] THEN "whole"
     ELSE IF fs.current = None THEN "none" ELSE fs.identity[fs.current][a]]

\* commit_revision: write the staging directory and sync it; on error remove it.
Stage(e) ==
  /\ pc[e] = "stage"
  /\ \/ /\ fs' = [WithRevision(req[e], "staging") EXCEPT !.identity[req[e]] = IdentitiesOf(req[e])]
        /\ Sync(fs')
        /\ Goto(e, "publish")
     \/ /\ MayFail("stage")
        /\ Goto(e, "rb_stop")
        /\ UNCHANGED storage
  /\ UNCHANGED <<boot, nomine, runtime, unit, session, outcome>>

\* The previous link follows the current one, when there is one.
WithPrevious(volume) ==
  [volume EXCEPT !.previous = IF volume.current = None THEN @ ELSE volume.current]

\* The staging directory removed with all it holds.
Unstaged(r) == [WithRevision(r, "absent") EXCEPT !.identity[r] = [a \in Alias |-> "none"]]

\* Rename the staged directory to its id and repoint `previous`.
PublishRevision(e) ==
  /\ pc[e] = "publish"
  /\ LET renamed == WithRevision(req[e], "complete") IN
       \/ fs' = WithPrevious(renamed) /\ Goto(e, "swap")
       \/ /\ MayFail("publish")
          /\ fs' \in {Unstaged(req[e]), renamed}
          /\ Goto(e, "rb_stop")
  /\ UNCHANGED <<disk, boot, nomine, runtime, unit, session, outcome>>

SwapCurrent(e) ==
  /\ pc[e] = "swap"
  /\ \/ fs' = [fs EXCEPT !.current = req[e]] /\ Goto(e, "link")
     \/ MayFail("publish") /\ Goto(e, "rb_stop") /\ UNCHANGED fs
  /\ UNCHANGED <<disk, boot, nomine, runtime, unit, session, outcome>>

\* ensure_public_link, in order, each only if absent; then sync the directory.
NextLinks == IF "policy" \in fs.links THEN PublicLinks ELSE {"policy"}

PublishLinks(e) ==
  /\ pc[e] = "link"
  /\ LET linked == [fs EXCEPT !.links = NextLinks] IN
       \/ /\ fs' = linked
          /\ IF NextLinks = PublicLinks
             THEN Sync(linked) /\ Goto(e, "zone")
             ELSE UNCHANGED <<disk, pc>>
       \/ /\ MayFail("publish")
          /\ fs' \in {fs, linked}
          /\ Goto(e, "rb_stop")
          /\ UNCHANGED disk
  /\ UNCHANGED <<boot, nomine, runtime, unit, session, outcome>>

\* apply_new_runtime: timezone, then the enabled state, then the start.
ApplyZone(e) ==
  /\ pc[e] = "zone"
  /\ \/ zone' = ZoneOf[req[e]] /\ Goto(e, "enable")
     \/ MayFail("zone") /\ Goto(e, "rb_stop") /\ UNCHANGED zone
  /\ UNCHANGED <<storage, boot, nomine, enabled, unit, session, outcome>>

ApplyEnabled(e) ==
  /\ pc[e] = "enable"
  /\ \/ enabled' = (req[e] \in OnBoot) /\ Goto(e, "start")
     \/ MayFail("enable") /\ Goto(e, "rb_stop") /\ UNCHANGED enabled
  /\ UNCHANGED <<storage, boot, nomine, zone, unit, session, outcome>>

\* Faulty variant: does not ask whether the miner became active.
FaultyApplyStart(e) ==
  /\ pc[e] = "start"
  /\ Goto(e, "clear")
  /\ \/ req[e] \in OnBoot /\ ~nomine /\ (StartUnit \/ (MayFail("start") /\ StartUnitFails))
     \/ (req[e] \notin OnBoot \/ nomine) /\ UNCHANGED unit
  /\ UNCHANGED <<storage, boot, nomine, runtime, session, outcome>>

ApplyStart(e) ==
  /\ pc[e] = "start"
  /\ \/ /\ req[e] \in OnBoot /\ ~nomine
        /\ StartUnit
        /\ Goto(e, IF miner' # None THEN "clear" ELSE "rb_stop")
     \/ /\ req[e] \in OnBoot /\ ~nomine
        /\ \/ MayFail("start") /\ StartUnitFails
           \/ MayFail("query") /\ StartUnit
        /\ Goto(e, "rb_stop")
     \/ /\ req[e] \notin OnBoot \/ nomine
        /\ Goto(e, "clear")
        /\ UNCHANGED unit
  /\ UNCHANGED <<storage, boot, nomine, runtime, session, outcome>>

\* Removing the record is the commit point; failing to is reported as failure.
Finish(e) ==
  /\ pc[e] = "clear"
  /\ \/ fs' = [fs EXCEPT !.pending = None] /\ Report(e, "applied")
     \/ MayFail("unlink") /\ Report(e, "failed") /\ UNCHANGED fs
  /\ UNCHANGED <<disk, boot, nomine, runtime, unit>>
-----------------------------------------------------------------------------
(***************************************************************************)
(* rollback_transaction, by an engine whose stage failed or by `recover`.  *)
(***************************************************************************)
\* Faulty variant: goes on when the miner could not be stopped.
FaultyRollbackStop(a) ==
  /\ pc[a] = "rb_stop"
  /\ StopUnit \/ (MayFail("stop") /\ UNCHANGED unit)
  /\ Goto(a, "rb_pointer")
  /\ UNCHANGED <<storage, boot, nomine, runtime, session, outcome>>

RollbackStop(a) ==
  /\ pc[a] = "rb_stop"
  /\ \/ StopUnit /\ Goto(a, "rb_pointer")
     \/ /\ MayFail("stop")
        /\ StopUnit \/ UNCHANGED unit
        /\ Goto(a, "rb_fail")
  /\ UNCHANGED <<storage, boot, nomine, runtime, session, outcome>>

\* Faulty variant: without a previous revision only `current` is removed.
FaultyRollbackPointer(a) ==
  /\ pc[a] = "rb_pointer"
  /\ fs' = [fs EXCEPT !.current = snap[a].previous]
  /\ Goto(a, "rb_zone")
  /\ UNCHANGED <<disk, boot, nomine, runtime, unit, session, outcome>>

\* restore_pointer: repoint to the previous revision, or unlink everything
\* when there was none, ignoring every unlink that fails.
RollbackPointer(a) ==
  /\ pc[a] = "rb_pointer"
  /\ \/ /\ snap[a].previous # None
        /\ fs' = [fs EXCEPT !.current = snap[a].previous]
        /\ Goto(a, "rb_zone")
     \/ /\ snap[a].previous # None
        /\ MayFail("pointer")
        /\ Goto(a, "rb_fail")
        /\ UNCHANGED fs
     \/ /\ snap[a].previous = None
        /\ fs' = [fs EXCEPT !.current = None, !.links = {}]
        /\ Goto(a, "rb_zone")
     \/ /\ snap[a].previous = None
        /\ MayFail("forget")
        /\ \E left \in {fs.current, None}, kept \in SUBSET fs.links :
             fs' = [fs EXCEPT !.current = left, !.links = kept]
        /\ Goto(a, "rb_zone")
  /\ UNCHANGED <<disk, boot, nomine, runtime, unit, session, outcome>>

RollbackZone(a) ==
  /\ pc[a] = "rb_zone"
  /\ \/ zone' = snap[a].zone /\ Goto(a, "rb_enable")
     \/ MayFail("zone") /\ Goto(a, "rb_fail") /\ UNCHANGED zone
  /\ UNCHANGED <<storage, boot, nomine, enabled, unit, session, outcome>>

\* Faulty variant: always enables the unit again.
FaultyRollbackEnabled(a) ==
  /\ pc[a] = "rb_enable"
  /\ enabled' = TRUE
  /\ Goto(a, "rb_start")
  /\ UNCHANGED <<storage, boot, nomine, zone, unit, session, outcome>>

RollbackEnabled(a) ==
  /\ pc[a] = "rb_enable"
  /\ \/ enabled' = snap[a].enabled /\ Goto(a, "rb_start")
     \/ MayFail("enable") /\ Goto(a, "rb_fail") /\ UNCHANGED enabled
  /\ UNCHANGED <<storage, boot, nomine, zone, unit, session, outcome>>

\* The running state is only restored on the boot that recorded it.
RestoresRunning(a) == snap[a].boot = boot /\ snap[a].active

RollbackStart(a) ==
  /\ pc[a] = "rb_start"
  /\ \/ RestoresRunning(a) /\ StartUnit /\ Goto(a, "rb_clear")
     \/ /\ RestoresRunning(a)
        /\ MayFail("start")
        /\ StartUnitFails
        /\ Goto(a, "rb_fail")
     \/ ~RestoresRunning(a) /\ Goto(a, "rb_clear") /\ UNCHANGED unit
  /\ UNCHANGED <<storage, boot, nomine, runtime, session, outcome>>

\* The engine reports the stage that failed; `recover` exits by itself.
RollbackEnds(a, label) ==
  \/ /\ a = Recovery
     /\ Goto(a, label)
     /\ snap' = [snap EXCEPT ![a] = None]
     /\ UNCHANGED <<req, outcome>>
  \/ a \in Engine /\ Report(a, "failed")

\* Faulty variant: does not stop the miner again.
FaultyRollbackFailed(a) ==
  /\ pc[a] = "rb_fail"
  /\ RollbackEnds(a, "failed")
  /\ UNCHANGED <<storage, boot, nomine, runtime, unit>>

\* An incomplete rollback stops the miner once more and keeps the record.
RollbackFailed(a) ==
  /\ pc[a] = "rb_fail"
  /\ StopUnit \/ (MayFail("stop") /\ UNCHANGED unit)
  /\ RollbackEnds(a, "failed")
  /\ UNCHANGED <<storage, boot, nomine, runtime>>

\* A complete one removes the record; only `recover` minds if that fails.
RollbackDone(a) ==
  /\ pc[a] = "rb_clear"
  /\ \/ fs' = [fs EXCEPT !.pending = None] /\ RollbackEnds(a, "timezone")
     \/ MayFail("unlink") /\ RollbackEnds(a, "failed") /\ UNCHANGED fs
  /\ UNCHANGED <<disk, boot, nomine, runtime, unit>>
-----------------------------------------------------------------------------
(***************************************************************************)
(* rigos-profile-apply.service: `recover`, and if it succeeds `timezone`.  *)
(***************************************************************************)
\* Faulty variant: drops the record instead of rolling back.
FaultyRecover ==
  /\ pc[Recovery] = "recover"
  /\ fs' = [fs EXCEPT !.pending = None]
  /\ Goto(Recovery, "timezone")
  /\ UNCHANGED <<disk, boot, nomine, runtime, unit, session, outcome>>

Recover ==
  /\ pc[Recovery] = "recover"
  /\ \/ fs.pending = None /\ Goto(Recovery, "timezone") /\ UNCHANGED snap
     \/ fs.pending = Torn /\ Goto(Recovery, "failed") /\ UNCHANGED snap
     \/ /\ fs.pending \notin {None, Torn}
        /\ snap' = [snap EXCEPT ![Recovery] = fs.pending]
        /\ Goto(Recovery, "rb_stop")
  /\ UNCHANGED <<storage, boot, nomine, runtime, unit, req, outcome>>

\* Faulty variant: takes a boot that finds a revision as already applied.
FaultyBootTimezone ==
  /\ pc[Recovery] = "timezone"
  /\ Goto(Recovery, "done")
  /\ UNCHANGED <<storage, boot, nomine, runtime, unit, session, outcome>>

BootTimezone ==
  /\ pc[Recovery] = "timezone"
  /\ \/ fs.current = None /\ Goto(Recovery, "done") /\ UNCHANGED zone
     \/ fs.current # None /\ zone' = ZoneOf[fs.current] /\ Goto(Recovery, "done")
     \/ /\ fs.current # None
        /\ MayFail("zone")
        /\ Goto(Recovery, "failed")
        /\ UNCHANGED zone
  /\ UNCHANGED <<storage, boot, nomine, enabled, unit, session, outcome>>
-----------------------------------------------------------------------------
(***************************************************************************)
(* Power loss or reset, and the next boot: only the disk survives.  /etc   *)
(* is a volatile overlay, so the timezone and the enabled state are the    *)
(* image's again, and the enabled unit gets its start job.                 *)
(***************************************************************************)
Crash ==
  /\ MayFail("crash")
  /\ boot < MaxBoots
  /\ boot' = boot + 1
  /\ fs' = disk
  /\ nomine' \in BOOLEAN
  /\ zone' = ImageZone
  /\ enabled' = TRUE
  /\ miner' = None
  /\ startJob' = TRUE
  /\ respawn' = FALSE
  /\ pc' = [a \in Actor |-> IF a = Recovery THEN "recover" ELSE "idle"]
  /\ req' = [e \in Engine |-> None]
  /\ snap' = [a \in Actor |-> None]
  /\ outcome' = [e \in Engine |-> None]
  /\ UNCHANGED disk
-----------------------------------------------------------------------------
EngineStep(e) ==
  \/ TakeSnapshot(e) \/ WritePending(e) \/ StopBeforeCommit(e) \/ Stage(e)
  \/ PublishRevision(e) \/ SwapCurrent(e) \/ PublishLinks(e)
  \/ ApplyZone(e) \/ ApplyEnabled(e) \/ ApplyStart(e) \/ Finish(e)

RollbackStep(a) ==
  \/ RollbackStop(a) \/ RollbackPointer(a) \/ RollbackZone(a)
  \/ RollbackEnabled(a) \/ RollbackStart(a)
  \/ RollbackFailed(a) \/ RollbackDone(a)

BootStep == Recover \/ BootTimezone

Next ==
  \/ \E e \in Engine, r \in Revision : Begin(e, r)
  \/ \E e \in Engine : EngineStep(e)
  \/ \E a \in Actor : RollbackStep(a)
  \/ BootStep
  \/ BootStart \/ MinerExit \/ Respawn \/ OperatorStart
  \/ Writeback
  \/ Crash

Spec == Init /\ [][Next]_vars

\* An engine reads its snapshot before it creates the record.  In between another
\* one may have come and gone: the first then finds no record, and restores a
\* pointer that was superseded (run ConfigStale).  InTime says that this does not
\* happen: no program gives a record up while another engine is about to create
\* its own.  A lock taken before the snapshot would give it, and a single engine
\* does (OneEngineInTime); of many, all but one are still refused.
InTime == (\E e \in Engine : pc[e] = "write") /\ fs.pending # None => fs'.pending # None

TimelyNext ==
  \/ \E e \in Engine, r \in Revision : Begin(e, r)
  \/ \E e \in Engine : EngineStep(e) /\ InTime
  \/ \E a \in Actor : RollbackStep(a) /\ InTime
  \/ BootStep
  \/ BootStart \/ MinerExit \/ Respawn \/ OperatorStart
  \/ Writeback
  \/ Crash

TimelySpec == Init /\ [][TimelyNext]_vars

\* Running processes and systemd make progress; nobody has to commit, crash,
\* intervene or see XMRig die.
Fairness ==
  /\ \A e \in Engine : WF_vars(EngineStep(e))
  /\ \A a \in Actor : WF_vars(RollbackStep(a))
  /\ WF_vars(BootStep)
  /\ WF_vars(BootStart)
  /\ WF_vars(Respawn)

FairSpec == Spec /\ Fairness
-----------------------------------------------------------------------------
TypeOK ==
  /\ fs \in Volume
  /\ disk \in Volume
  /\ boot \in Nat
  /\ nomine \in BOOLEAN
  /\ zone \in Zone
  /\ enabled \in BOOLEAN
  /\ miner \in RevisionOrNone
  /\ startJob \in BOOLEAN
  /\ respawn \in BOOLEAN
  /\ pc \in [Actor -> Forward \cup Backward \cup
               {"idle", "snapshot", "write", "done", "recover", "timezone", "failed"}]
  /\ req \in [Engine -> RevisionOrNone]
  /\ snap \in [Actor -> Snapshot \cup {None}]
  /\ outcome \in [Engine -> {None, "applied", "failed"}]
-----------------------------------------------------------------------------
(***************************************************************************)
(* Properties.                                                             *)
(***************************************************************************)
\* What a volume names: current, previous, and what a pending record would restore.
Named(volume) ==
  {volume.current, volume.previous,
   IF volume.pending \in Snapshot THEN volume.pending.previous ELSE None} \ {None}

\* PointersComplete: whatever the live directory or the disk after a power cut
\* names is a revision whose staging was completed and renamed, with the data of
\* the identity it mines for (commit_revision; write_json syncs that file).  It
\* does not say so of the identities fs::copy takes over: a power cut may empty
\* them, see IdentitiesSurvive.
NamesComplete(volume) ==
  \A r \in Named(volume) :
    volume.revision[r] = "complete" /\ volume.identity[r][AliasOf[r]] = "whole"

PointersComplete == NamesComplete(fs) /\ NamesComplete(disk)

\* IdentitiesSurvive: no commit, rollback or power cut loses an identity for good.
\* A revision about to become current has every identity of the one it replaces,
\* although nothing locks that one while it is copied but the pending record; and
\* an identity of a named revision whose copy a power cut emptied still has its
\* data in a complete revision of the same volume.
KeepsIdentities(volume) ==
  \A r \in Named(volume), a \in Alias :
    volume.identity[r][a] # "none" =>
      \E s \in Revision : volume.revision[s] = "complete" /\ volume.identity[s][a] = "whole"

IdentitiesSurvive ==
  /\ \A e \in Engine : pc[e] \in {"publish", "swap"} /\ fs.current # None =>
       \A a \in Alias :
         fs.identity[fs.current][a] # "none" => fs.identity[req[e]][a] # "none"
  /\ KeepsIdentities(fs) /\ KeepsIdentities(disk)

\* TransactionHoldsRecord: at most one engine or recovery is between creating
\* (or reading) the pending record and giving it up, and the record on the
\* partition is its own (create_new in write_private_json is the only lock).
TransactionHoldsRecord ==
  /\ \A a, b \in Actor : InTransaction(a) /\ InTransaction(b) => a = b
  /\ \A a \in Actor : InTransaction(a) => fs.pending = snap[a]

\* MinerRunsCurrent: XMRig never keeps running on a revision after the current
\* pointer left it: every path that moves the pointer stopped the unit before,
\* and cancelled the starts systemd had queued.
MinerRunsCurrent == miner # None => miner = fs.current

\* Nobody is at work on the partition or the unit.
AtRest == ProfileApplied /\ \A a \in Actor : ~InTransaction(a)

\* RetainedRecordMeansStopped: "if restoration is incomplete XMRig remains
\* stopped and the pending transaction is retained for boot recovery"
\* (docs/local-rig-config.md:37): with a record left and nobody working on it,
\* XMRig is down and nothing is queued that would start it.
RetainedRecordMeansStopped ==
  AtRest /\ fs.pending # None => miner = None /\ ~startJob /\ ~respawn

\* RetainedRecordMeansNotMining: the least that sentence says, of whatever record
\* a power cut leaves: no XMRig is running on a rig at rest with one.
RetainedRecordMeansNotMining == AtRest /\ fs.pending # None => miner = None

\* RollbackRestores: the rollback that gives up its record has put back the
\* pointer, the timezone, the enabled state and, on the same boot, a miner that
\* was running (or that systemd is restarting), whatever stage failed.
Restored(s) ==
  /\ fs.current = s.previous
  /\ zone = s.zone
  /\ enabled = s.enabled
  /\ s.active /\ s.boot = boot => miner = s.previous \/ respawn

RollbackRestores ==
  [][\A a \in Actor : pc[a] = "rb_clear" /\ pc'[a] # "rb_clear" /\ boot' = boot
       => Restored(snap[a])]_vars

\* AppliedTakesEffect: when an engine reports success the pointer, the timezone
\* and the enabled state are those of its revision, and XMRig runs on it (or is
\* being restarted) exactly when its policy and the command line say so.
AppliedTakesEffect ==
  [][\A e \in Engine : outcome[e] # "applied" /\ outcome'[e] = "applied" =>
       /\ fs'.current = req[e]
       /\ zone = ZoneOf[req[e]]
       /\ enabled = (req[e] \in OnBoot)
       /\ IF req[e] \in OnBoot /\ ~nomine THEN miner = req[e] \/ respawn
                                         ELSE miner = None]_vars

\* PublicLinksFollowPointer: with no record left, a rig is either unconfigured
\* (no pointer, no public links: firstboot runs, the miner unit is skipped) or
\* configured with all of them; a policy link alone would suppress both.
PublicLinksFollowPointer ==
  AtRest /\ fs.pending = None => fs.links = IF fs.current = None THEN {} ELSE PublicLinks

\* RecordsPointerInForce: until it swaps the pointer itself, a transaction's
\* snapshot names the revision that is current; "Failure restores the previous
\* pointer" (docs/local-rig-config.md:37) only if it does.
RecordsPointerInForce ==
  \A e \in Engine : pc[e] \in {"stop", "stage", "publish", "swap"} => snap[e].previous = fs.current

\* ZoneMatchesRevision: once the boot's profile was applied, a rig at rest with
\* no record left is in the timezone of its current revision, through commits,
\* rollbacks and reboots.
ZoneMatchesRevision ==
  AtRest /\ pc[Recovery] = "done" /\ fs.pending = None /\ fs.current # None
    => zone = ZoneOf[fs.current]

\* CleanBootMines: "configured state -> automatic activation and mining": a boot
\* that finds no record and an on_boot revision gets XMRig running, even when
\* applying the profile fails, unless a transaction or a reset intervenes.
Mineable == fs.pending = None /\ Gate

Interrupted(b) == boot # b \/ \E e \in Engine : InTransaction(e)

CleanBootMines ==
  \A b \in 0..MaxBoots :
    boot = b /\ pc[Recovery] = "recover" /\ Mineable ~> miner # None \/ Interrupted(b)

\* RecoveredBootMines: the same promise for every boot that ends up with an
\* on_boot revision and no record, the ones that first had to recover included.
RecoveredBootMines ==
  \A b \in 0..MaxBoots :
    boot = b /\ AtRest /\ Mineable ~> miner # None \/ Interrupted(b)

\* ImplementsStore: the record is the commit point.  While it is there the
\* committed revision is the one it would restore; a report of success and of
\* failure, a crash and a recovery keep to ConfigStore.
CommittedIn(volume) ==
  IF volume.pending \in Snapshot THEN volume.pending.previous ELSE volume.current

Store == INSTANCE ConfigStore WITH
  Client <- Engine,
  committed <- CommittedIn(fs),
  durable <- CommittedIn(disk),
  request <- req,
  reply <- outcome

ImplementsStore == Store!Spec
=============================================================================
