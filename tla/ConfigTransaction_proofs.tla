----------------------- MODULE ConfigTransaction_proofs -----------------------
(***************************************************************************)
(* Theorems about the configuration transaction, for every set of engines, *)
(* revisions and timezones, every environment and any number of boots.     *)
(***************************************************************************)
EXTENDS ConfigTransaction, TLAPS

USE DEF Goto, MayFail

(***************************************************************************)
(* Control: which program is at which label, and what it then holds in     *)
(* memory.  Typing needs it: a rollback reads fields of its snapshot, so   *)
(* the snapshot has to be there.                                           *)
(***************************************************************************)
LabelsOK ==
  /\ \A e \in Engine : pc[e] \in Forward \cup Backward \cup {"idle", "snapshot", "write"}
  /\ pc[Recovery] \in Backward \cup {"recover", "timezone", "done", "failed"}

HasSnapshot == \A a \in Actor : InTransaction(a) \/ pc[a] = "write" => snap[a] \in Snapshot

HasRequest == \A e \in Engine : IF pc[e] = "idle" THEN req[e] = None ELSE req[e] \in Revision

\* No engine starts before the boot's profile unit has ended.
RecoversFirst == ProfileApplied \/ \A e \in Engine : pc[e] = "idle"

ControlOK == LabelsOK /\ HasSnapshot /\ HasRequest /\ RecoversFirst

TypeInv == TypeOK /\ ControlOK

(***************************************************************************)
(* What the first three safety invariants need besides.                    *)
(***************************************************************************)
RecordInv == TypeInv /\ TransactionHoldsRecord

\* A revision that exists, staged or complete, has the data of its own identity.
OwnWhole(volume) ==
  \A r \in Revision : volume.revision[r] # "absent" => volume.identity[r][AliasOf[r]] = "whole"

\* Every other identity comes from a complete revision that was made for it.
Origins(volume) ==
  \A r \in Revision, a \in Alias :
    volume.identity[r][a] # "none" =>
      \/ a = AliasOf[r]
      \/ \E s \in Revision : volume.revision[s] = "complete" /\ AliasOf[s] = a

\* A revision about to be named has taken over the identities of the current one.
Carries ==
  \A e \in Engine : pc[e] \in {"publish", "swap"} /\ fs.current # None =>
    \A a \in Alias : fs.identity[fs.current][a] # "none" => fs.identity[req[e]][a] # "none"

\* Between stopping the unit and moving the pointer nothing can start XMRig.
Quiet == miner = None /\ ~startJob /\ ~respawn

QuietWhileMoving ==
  \A a \in Actor : pc[a] \in {"stage", "publish", "swap", "rb_pointer"} => Quiet

MinerInv == RecordInv /\ MinerRunsCurrent /\ QuietWhileMoving

\* Every request is its own revision, at the point of its life its engine says.
StagesOwnRevision ==
  /\ \A e1, e2 \in Engine : req[e1] = req[e2] /\ req[e1] # None => e1 = e2
  /\ \A e \in Engine :
       /\ pc[e] \in {"snapshot", "write", "stop", "stage"} => fs.revision[req[e]] = "absent"
       /\ pc[e] = "publish" => fs.revision[req[e]] = "staging"
       /\ pc[e] = "swap" => fs.revision[req[e]] = "complete"

Completed(r) == r # None => fs.revision[r] = "complete"

SnapshotsComplete == \A a \in Actor : snap[a] # None => Completed(snap[a].previous)

\* The part of PointersComplete that is about the directories.
NamesStaged(volume) == \A r \in Named(volume) : volume.revision[r] = "complete"

PointersStaged == NamesStaged(fs) /\ NamesStaged(disk)

IdentityInv == OwnWhole(fs) /\ OwnWhole(disk) /\ Origins(fs) /\ Origins(disk) /\ Carries

PointerInv == TypeInv /\ PointersStaged /\ StagesOwnRevision /\ SnapshotsComplete

-----------------------------------------------------------------------------
(***************************************************************************)
(* Type correctness.                                                       *)
(***************************************************************************)
LEMMA InitTypeOK == Init => TypeOK
<1> SUFFICES ASSUME Init PROVE TypeOK
  OBVIOUS
<1> USE ConstantsAssumption, RecordAssumption DEF Init
<1>1. EmptyVolume \in Volume
  <2>1. [r \in Revision |-> [a \in Alias |-> "none"]] \in IdentityFiles
    BY DEF IdentityFiles
  <2>2. QED
    BY <2>1 DEF EmptyVolume, Volume, RevisionOrNone, PublicLinks
<1>2. QED
  BY <1>1 DEF TypeOK, RevisionOrNone

\* The parts of the state a step of the unit leaves well typed.
LEMMA UnitType ==
  ASSUME TypeOK, StopUnit \/ StartUnit \/ StartUnitFails \/ UNCHANGED unit
  PROVE  miner' \in RevisionOrNone /\ startJob' \in BOOLEAN /\ respawn' \in BOOLEAN
BY DEF TypeOK, StopUnit, StartUnit, StartUnitFails, Gate, unit, RevisionOrNone, Volume

\* What a journal commit that loses data leaves alone, and what it may lose.
LEMMA WithoutKeeps ==
  ASSUME NEW volume \in Volume, NEW lost
  PROVE  /\ Without(volume, lost) \in Volume
         /\ Without(volume, lost).revision = volume.revision
         /\ Without(volume, lost).current = volume.current
         /\ Without(volume, lost).previous = volume.previous
         /\ Without(volume, lost).links = volume.links
         /\ \A r \in Revision, a \in Alias :
              Without(volume, lost).identity[r][a] =
                IF <<r, a>> \in lost THEN "empty" ELSE volume.identity[r][a]
         /\ lost = {} => Without(volume, lost) = volume
<1> DEFINE files == [r \in Revision |-> [a \in Alias |->
                       IF <<r, a>> \in lost THEN "empty" ELSE volume.identity[r][a]]]
<1>1. Without(volume, lost) = [volume EXCEPT !.identity = files]
  BY DEF Without
<1>v. volume.identity \in IdentityFiles
  BY DEF Volume
<1>2. files \in IdentityFiles
  BY <1>v DEF IdentityFiles
<1>3. lost = {} => files = volume.identity
  BY <1>v DEF IdentityFiles
<1>4. \A r \in Revision, a \in Alias :
        files[r][a] = IF <<r, a>> \in lost THEN "empty" ELSE volume.identity[r][a]
  OBVIOUS
<1> HIDE DEF files
<1> QED
  BY <1>1, <1>2, <1>3, <1>4 DEF Volume

LEMMA JournalKeeps ==
  ASSUME NEW volume \in Volume, NEW v \in Journaled(volume)
  PROVE  /\ v \in Volume
         /\ v.revision = volume.revision /\ v.current = volume.current
         /\ v.previous = volume.previous /\ v.links = volume.links
         /\ v.pending \in {volume.pending, Torn}
         /\ \A r \in Revision : v.identity[r][AliasOf[r]] = volume.identity[r][AliasOf[r]]
         /\ \A r \in Revision, a \in Alias :
              v.identity[r][a] # "none" => volume.identity[r][a] # "none"
         /\ "torn" \notin Env => v = volume
<1>1. PICK record \in {volume.pending, Torn}, lost \in SUBSET Unsynced(volume) :
        /\ v = [Without(volume, lost) EXCEPT !.pending = record]
        /\ "torn" \notin Env => record = volume.pending
  BY DEF Journaled, RecordMayTear
<1>2. /\ "torn" \notin Env => lost = {}
      /\ \A r \in Revision, a \in Alias :
           <<r, a>> \in lost => a # AliasOf[r] /\ volume.identity[r][a] = "whole"
  BY <1>1 DEF Unsynced
<1>3. record \in Snapshot \cup {None, Torn}
  BY <1>1 DEF Volume
<1> DEFINE w == Without(volume, lost)
<1>4. /\ w \in Volume /\ w.revision = volume.revision /\ w.current = volume.current
      /\ w.previous = volume.previous /\ w.links = volume.links
      /\ \A r \in Revision, a \in Alias :
           w.identity[r][a] = IF <<r, a>> \in lost THEN "empty" ELSE volume.identity[r][a]
      /\ lost = {} => w = volume
  BY WithoutKeeps
<1> HIDE DEF w
<1>5. /\ v \in Volume /\ v.revision = w.revision /\ v.current = w.current /\ v.pending = record
      /\ v.previous = w.previous /\ v.links = w.links /\ v.identity = w.identity
      /\ w = volume /\ record = volume.pending => v = volume
  BY <1>1, <1>3, <1>4 DEF w, Volume
<1>6. ASSUME NEW r \in Revision, NEW a \in Alias, v.identity[r][a] # volume.identity[r][a]
      PROVE  a # AliasOf[r] /\ volume.identity[r][a] = "whole"
  <2>1. v.identity[r][a] = IF <<r, a>> \in lost THEN "empty" ELSE volume.identity[r][a]
    BY <1>4, <1>5
  <2>2. <<r, a>> \in lost
    BY <1>6, <2>1
  <2>3. QED
    BY <1>2, <2>2
<1>7. \A r \in Revision : AliasOf[r] \in Alias
  BY ConstantsAssumption
<1>8. /\ \A r \in Revision : v.identity[r][AliasOf[r]] = volume.identity[r][AliasOf[r]]
      /\ \A r \in Revision, a \in Alias :
           v.identity[r][a] # "none" => volume.identity[r][a] # "none"
  BY <1>6, <1>7
<1> QED
  BY <1>1, <1>2, <1>4, <1>5, <1>8

\* A journal commit never leaves anything but a volume.
LEMMA JournalType ==
  ASSUME NEW volume \in Volume
  PROVE  \A v \in Journaled(volume) : v \in Volume
BY JournalKeeps

\* The staged revision, with the identities it takes over.
LEMMA StagedType ==
  ASSUME TypeOK, NEW r \in RevisionOrNone,
         fs' = [WithRevision(r, "staging") EXCEPT !.identity[r] = IdentitiesOf(r)]
  PROVE  /\ fs' \in Volume
         /\ fs'.revision = [fs.revision EXCEPT ![r] = "staging"]
         /\ fs'.identity = [fs.identity EXCEPT ![r] = IdentitiesOf(r)]
         /\ fs'.current = fs.current /\ fs'.previous = fs.previous
         /\ fs'.links = fs.links /\ fs'.pending = fs.pending
<1>1. fs \in Volume /\ fs.identity \in IdentityFiles /\ fs.current \in RevisionOrNone
  BY DEF TypeOK, Volume
<1>2. [fs.identity EXCEPT ![r] = IdentitiesOf(r)] \in IdentityFiles
  BY <1>1 DEF IdentitiesOf, IdentityFiles, RevisionOrNone
<1> QED
  BY <1>1, <1>2 DEF WithRevision, Volume

\* A staging directory that is removed or renamed.
LEMMA LeavesStaging ==
  ASSUME TypeOK, NEW r \in RevisionOrNone,
         fs' \in {Unstaged(r), WithRevision(r, "complete"), WithPrevious(WithRevision(r, "complete"))}
  PROVE  /\ fs' \in Volume /\ fs'.pending = fs.pending
         /\ fs'.current = fs.current /\ fs'.links = fs.links
         /\ fs'.previous \in {fs.previous, fs.current}
         /\ fs' = WithPrevious(WithRevision(r, "complete")) =>
              fs'.revision = [fs.revision EXCEPT ![r] = "complete"]
         /\ \/ /\ fs'.revision = [fs.revision EXCEPT ![r] = "absent"]
               /\ fs'.identity = [fs.identity EXCEPT ![r] = [a \in Alias |-> "none"]]
            \/ /\ fs'.revision = [fs.revision EXCEPT ![r] = "complete"]
               /\ fs'.identity = fs.identity
<1>1. fs \in Volume /\ fs.identity \in IdentityFiles
  BY DEF TypeOK, Volume
<1>n. [fs.identity EXCEPT ![r] = [a \in Alias |-> "none"]] \in IdentityFiles
  BY <1>1 DEF IdentityFiles
<1>2. CASE fs' = Unstaged(r) /\ fs' # WithPrevious(WithRevision(r, "complete"))
  BY <1>1, <1>n, <1>2 DEF Unstaged, WithRevision, Volume
<1>3. CASE fs' = WithRevision(r, "complete") /\ fs' # WithPrevious(WithRevision(r, "complete"))
  BY <1>1, <1>3 DEF WithRevision, Volume
<1>4. CASE fs' = WithPrevious(WithRevision(r, "complete"))
  BY <1>1, <1>4 DEF WithPrevious, WithRevision, Volume
<1> QED
  BY <1>2, <1>3, <1>4

LEMMA ReportType ==
  ASSUME TypeOK, NEW e \in Engine, NEW result \in {None, "applied", "failed"}, Report(e, result)
  PROVE  /\ pc' \in [Actor -> Forward \cup Backward \cup
               {"idle", "snapshot", "write", "done", "recover", "timezone", "failed"}]
         /\ req' \in [Engine -> RevisionOrNone]
         /\ snap' \in [Actor -> Snapshot \cup {None}]
         /\ outcome' \in [Engine -> {None, "applied", "failed"}]
BY DEF TypeOK, Report, Actor, RevisionOrNone

LEMMA SnapshotType ==
  ASSUME TypeOK
  PROVE  [boot |-> boot, previous |-> fs.current, zone |-> zone,
          enabled |-> enabled, active |-> miner # None] \in Snapshot
BY DEF TypeOK, Volume, Snapshot

\* What the steps that move the pointer back make of the partition.
LEMMA PointerSteps ==
  ASSUME TypeOK, NEW a \in Actor, RollbackPointer(a)
  PROVE  /\ pc[a] = "rb_pointer" /\ UNCHANGED <<disk, boot, nomine, unit, runtime, session, outcome>>
         /\ fs'.pending = fs.pending /\ fs'.revision = fs.revision /\ fs'.previous = fs.previous
         /\ fs'.identity = fs.identity
         /\ fs'.current \in {None, fs.current, snap[a].previous}
         /\ snap[a] \in Snapshot => fs' \in Volume
         /\ \/ pc' = [pc EXCEPT ![a] = "rb_fail"] /\ fs' = fs
            \/ /\ pc' = [pc EXCEPT ![a] = "rb_zone"]
               /\ "forget" \notin Env => fs'.current = snap[a].previous
               /\ snap[a].previous # None => fs'.links = fs.links
               /\ "forget" \notin Env /\ snap[a].previous = None => fs'.links = {}
<1>1. pc[a] = "rb_pointer" /\ UNCHANGED <<disk, boot, nomine, unit, runtime, session, outcome>>
  BY DEF RollbackPointer, unit, runtime, session
<1>2. fs \in Volume
  BY DEF TypeOK
<1>3. ASSUME NEW c, fs' = [fs EXCEPT !.current = c]
      PROVE  /\ fs'.current = c /\ fs'.links = fs.links
             /\ fs'.pending = fs.pending /\ fs'.revision = fs.revision /\ fs'.previous = fs.previous
             /\ fs'.identity = fs.identity
             /\ c \in RevisionOrNone => fs' \in Volume
  BY <1>2, <1>3 DEF Volume
<1>4. ASSUME NEW c, NEW l, fs' = [fs EXCEPT !.current = c, !.links = l]
      PROVE  /\ fs'.current = c /\ fs'.links = l
             /\ fs'.pending = fs.pending /\ fs'.revision = fs.revision /\ fs'.previous = fs.previous
             /\ fs'.identity = fs.identity
             /\ c \in RevisionOrNone /\ l \in SUBSET PublicLinks => fs' \in Volume
  BY <1>2, <1>4 DEF Volume
<1>5. snap[a] \in Snapshot => snap[a].previous \in RevisionOrNone
  BY DEF Snapshot
<1>6. /\ {None, fs.current} \subseteq RevisionOrNone
      /\ fs.links \in SUBSET PublicLinks
  BY <1>2 DEF Volume, RevisionOrNone
<1>7. CASE /\ snap[a].previous # None /\ pc' = [pc EXCEPT ![a] = "rb_zone"]
           /\ fs' = [fs EXCEPT !.current = snap[a].previous]
  BY <1>1, <1>3, <1>5, <1>7
<1>8. CASE pc' = [pc EXCEPT ![a] = "rb_fail"] /\ fs' = fs
  BY <1>1, <1>2, <1>8
<1>9. CASE /\ snap[a].previous = None /\ pc' = [pc EXCEPT ![a] = "rb_zone"]
           /\ fs' = [fs EXCEPT !.current = None, !.links = {}]
  <2>1. None \in RevisionOrNone /\ {} \in SUBSET PublicLinks
    BY DEF RevisionOrNone
  <2>2. fs' = [fs EXCEPT !.current = None, !.links = {}]
    BY <1>9
  <2>3. /\ fs'.current = None /\ fs'.links = {} /\ fs' \in Volume
        /\ fs'.pending = fs.pending /\ fs'.revision = fs.revision /\ fs'.previous = fs.previous
        /\ fs'.identity = fs.identity
    BY <1>4, <2>1, <2>2, Zenon
  <2> QED
    BY <1>1, <1>9, <2>3
<1>10. CASE /\ snap[a].previous = None /\ pc' = [pc EXCEPT ![a] = "rb_zone"] /\ "forget" \in Env
            /\ \E left \in {fs.current, None}, kept \in SUBSET fs.links :
                 fs' = [fs EXCEPT !.current = left, !.links = kept]
  <2>1. PICK left \in {fs.current, None}, kept \in SUBSET fs.links :
          fs' = [fs EXCEPT !.current = left, !.links = kept]
    BY <1>10
  <2>2. left \in RevisionOrNone /\ kept \in SUBSET PublicLinks
    BY <1>6
  <2> QED
    BY <1>1, <1>4, <1>10, <2>1, <2>2
<1> QED
  BY <1>7, <1>8, <1>9, <1>10 DEF RollbackPointer

\* Staging a revision writes it and commits the journal, or does nothing.
LEMMA StageWrites ==
  ASSUME TypeOK, NEW e \in Engine, Stage(e)
  PROVE  /\ fs' \in Volume
         /\ fs'.pending = fs.pending /\ fs'.current = fs.current
         /\ fs'.links = fs.links /\ fs'.previous = fs.previous
         /\ \/ fs' = fs /\ disk' = disk /\ pc' = [pc EXCEPT ![e] = "rb_stop"]
            \/ /\ fs'.revision = [fs.revision EXCEPT ![req[e]] = "staging"]
               /\ fs'.identity = [fs.identity EXCEPT ![req[e]] = IdentitiesOf(req[e])]
               /\ disk' \in Journaled(fs')
               /\ pc' = [pc EXCEPT ![e] = "publish"]
<1>1. CASE Goto(e, "rb_stop") /\ UNCHANGED storage
  BY <1>1 DEF storage, TypeOK
<1>2. CASE /\ fs' = [WithRevision(req[e], "staging") EXCEPT !.identity[req[e]] = IdentitiesOf(req[e])]
           /\ Sync(fs') /\ Goto(e, "publish")
  <2>1. req[e] \in RevisionOrNone
    BY DEF TypeOK
  <2>2. QED
    BY <1>2, <2>1, StagedType DEF Sync
<1>3. QED
  BY <1>1, <1>2 DEF Stage

\* What staging a revision and publishing it leave alone.
LEMMA StageKeeps ==
  ASSUME TypeOK, NEW e \in Engine, Stage(e)
  PROVE  /\ fs' \in Volume /\ fs'.pending = fs.pending /\ fs'.current = fs.current
         /\ fs'.links = fs.links /\ fs'.previous = fs.previous
         /\ pc[e] = "stage" /\ (pc' = [pc EXCEPT ![e] = "publish"] \/ pc' = [pc EXCEPT ![e] = "rb_stop"])
         /\ disk' = disk \/ disk' \in Journaled(fs')
         /\ UNCHANGED <<boot, nomine, runtime, unit, session, outcome>>
BY StageWrites DEF Stage

LEMMA PublishKeeps ==
  ASSUME TypeOK, NEW e \in Engine, PublishRevision(e)
  PROVE  /\ fs' \in Volume /\ fs'.pending = fs.pending /\ fs'.current = fs.current /\ fs'.links = fs.links
         /\ pc[e] = "publish" /\ (pc' = [pc EXCEPT ![e] = "swap"] \/ pc' = [pc EXCEPT ![e] = "rb_stop"])
         /\ UNCHANGED <<disk, boot, nomine, runtime, unit, session, outcome>>
<1>1. fs' \in {Unstaged(req[e]), WithRevision(req[e], "complete"),
               WithPrevious(WithRevision(req[e], "complete"))}
  BY DEF PublishRevision
<1>2. req[e] \in RevisionOrNone
  BY DEF TypeOK
<1>3. fs' \in Volume /\ fs'.pending = fs.pending /\ fs'.current = fs.current /\ fs'.links = fs.links
  BY <1>1, <1>2, LeavesStaging
<1> QED
  BY <1>3 DEF PublishRevision

LEMMA NextTypeOK == TypeInv /\ [Next]_vars => TypeOK'
<1> SUFFICES ASSUME TypeOK, ControlOK, [Next]_vars PROVE TypeOK'
  BY DEF TypeInv
<1> USE ConstantsAssumption DEF storage, unit, runtime, session
<1>1. ASSUME NEW e \in Engine, NEW r \in Revision, Begin(e, r) PROVE TypeOK'
  <2>1. CASE Report(e, "failed")
    BY <1>1, <2>1, ReportType DEF Begin, TypeOK
  <2>2. CASE ~Report(e, "failed")
    BY <1>1, <2>2 DEF Begin, TypeOK, Actor, RevisionOrNone
  <2>3. QED
    BY <2>1, <2>2
<1>2. ASSUME NEW e \in Engine, TakeSnapshot(e) PROVE TypeOK'
  <2>1. [boot |-> boot, previous |-> fs.current, zone |-> zone,
         enabled |-> enabled, active |-> miner # None] \in Snapshot
    BY SnapshotType
  <2>2. CASE Report(e, "failed")
    BY <1>2, <2>2, ReportType DEF TakeSnapshot, TypeOK
  <2>3. CASE ~Report(e, "failed")
    BY <1>2, <2>1, <2>3 DEF TakeSnapshot, TypeOK, Actor
  <2>4. QED
    BY <2>2, <2>3
<1>3. ASSUME NEW e \in Engine, WritePending(e) PROVE TypeOK'
  <2>1. snap[e] \in Snapshot \cup {None}
    BY DEF TypeOK, Actor
  <2>2. fs' \in Volume
    BY <1>3, <2>1 DEF WritePending, TypeOK, Volume
  <2>3. CASE Report(e, "failed")
    BY <1>3, <2>2, <2>3, ReportType DEF WritePending, TypeOK
  <2>4. CASE ~Report(e, "failed")
    BY <1>3, <2>2, <2>4 DEF WritePending, TypeOK, Actor, Forward
  <2>5. QED
    BY <2>3, <2>4
<1>4. ASSUME NEW e \in Engine, StopBeforeCommit(e) PROVE TypeOK'
  BY <1>4, UnitType DEF StopBeforeCommit, TypeOK, Actor, Forward, Backward
<1>5. ASSUME NEW e \in Engine, Stage(e) PROVE TypeOK'
  <2>1. fs' \in Volume /\ disk' \in Volume
    BY <1>5, StageKeeps, JournalType DEF TypeOK
  <2>2. QED
    BY <1>5, <2>1 DEF Stage, TypeOK, Actor, Forward, Backward
<1>6. ASSUME NEW e \in Engine, PublishRevision(e) PROVE TypeOK'
  BY <1>6, PublishKeeps DEF TypeOK, Actor, Forward, Backward
<1>7. ASSUME NEW e \in Engine, SwapCurrent(e) PROVE TypeOK'
  <2>1. fs' \in Volume
    BY <1>7 DEF SwapCurrent, TypeOK, Volume
  <2>2. QED
    BY <1>7, <2>1 DEF SwapCurrent, TypeOK, Actor, Forward, Backward
<1>8. ASSUME NEW e \in Engine, PublishLinks(e) PROVE TypeOK'
  <2>1. [fs EXCEPT !.links = NextLinks] \in Volume
    BY DEF NextLinks, PublicLinks, TypeOK, Volume
  <2>2. fs' \in Volume /\ disk' \in Volume
    BY <1>8, <2>1, JournalType DEF PublishLinks, Sync, TypeOK
  <2>3. QED
    BY <1>8, <2>2 DEF PublishLinks, TypeOK, Actor, Forward, Backward
<1>9. ASSUME NEW e \in Engine, ApplyZone(e) PROVE TypeOK'
  <2>1. req[e] \in Revision
    BY <1>9 DEF ApplyZone, ControlOK, HasRequest
  <2>2. QED
    BY <1>9, <2>1 DEF ApplyZone, TypeOK, Actor, Forward, Backward
<1>10. ASSUME NEW e \in Engine, ApplyEnabled(e) PROVE TypeOK'
  <2>1. enabled' \in BOOLEAN
    <3>1. enabled' = (req[e] \in OnBoot) \/ enabled' = enabled
      BY <1>10, Zenon DEF ApplyEnabled
    <3>2. enabled \in BOOLEAN
      BY DEF TypeOK
    <3>3. ASSUME enabled' = (req[e] \in OnBoot) PROVE enabled' \in BOOLEAN
      BY <3>3
    <3>4. QED
      BY <3>1, <3>2, <3>3, Zenon
  <2>2. QED
    BY <1>10, <2>1 DEF ApplyEnabled, TypeOK, Actor, Forward, Backward
<1>11. ASSUME NEW e \in Engine, ApplyStart(e) PROVE TypeOK'
  BY <1>11, UnitType DEF ApplyStart, TypeOK, Actor, Forward, Backward
<1>12. ASSUME NEW e \in Engine, Finish(e) PROVE TypeOK'
  <2>1. fs' \in Volume
    BY <1>12 DEF Finish, TypeOK, Volume
  <2>2. Report(e, "applied") \/ Report(e, "failed")
    BY <1>12 DEF Finish
  <2>3. QED
    BY <1>12, <2>1, <2>2, ReportType DEF Finish, TypeOK
<1>13. ASSUME NEW a \in Actor, RollbackStop(a) PROVE TypeOK'
  BY <1>13, UnitType DEF RollbackStop, TypeOK, Backward
<1>14. ASSUME NEW a \in Actor, RollbackPointer(a) PROVE TypeOK'
  <2>1. snap[a] \in Snapshot
    BY <1>14 DEF RollbackPointer, ControlOK, HasSnapshot, InTransaction, Backward
  <2>2. QED
    BY <1>14, <2>1, PointerSteps DEF TypeOK, Backward
<1>15. ASSUME NEW a \in Actor, RollbackZone(a) PROVE TypeOK'
  <2>1. snap[a] \in Snapshot
    BY <1>15 DEF RollbackZone, ControlOK, HasSnapshot, InTransaction, Backward
  <2>2. QED
    BY <1>15, <2>1 DEF RollbackZone, TypeOK, Backward, Snapshot
<1>16. ASSUME NEW a \in Actor, RollbackEnabled(a) PROVE TypeOK'
  <2>1. snap[a] \in Snapshot
    BY <1>16 DEF RollbackEnabled, ControlOK, HasSnapshot, InTransaction, Backward
  <2>2. QED
    BY <1>16, <2>1 DEF RollbackEnabled, TypeOK, Backward, Snapshot
<1>17. ASSUME NEW a \in Actor, RollbackStart(a) PROVE TypeOK'
  BY <1>17, UnitType DEF RollbackStart, TypeOK, Backward
<1>18. ASSUME NEW a \in Actor, RollbackFailed(a) PROVE TypeOK'
  <2>1. StopUnit \/ UNCHANGED unit
    BY <1>18 DEF RollbackFailed
  <2>2. miner' \in RevisionOrNone /\ startJob' \in BOOLEAN /\ respawn' \in BOOLEAN
    BY <2>1, UnitType
  <2>3. CASE a = Recovery
    BY <1>18, <2>2, <2>3 DEF RollbackFailed, RollbackEnds, TypeOK
  <2>4. CASE a \in Engine
    <3>1. Report(a, "failed")
      BY <1>18, <2>4 DEF RollbackFailed, RollbackEnds
    <3>2. QED
      BY <1>18, <2>2, <2>4, <3>1, ReportType DEF RollbackFailed, TypeOK
  <2>5. QED
    BY <2>3, <2>4 DEF Actor
<1>19. ASSUME NEW a \in Actor, RollbackDone(a) PROVE TypeOK'
  <2>1. fs' \in Volume
    BY <1>19 DEF RollbackDone, TypeOK, Volume
  <2>2. CASE a = Recovery
    BY <1>19, <2>1, <2>2 DEF RollbackDone, RollbackEnds, TypeOK
  <2>3. CASE a \in Engine
    <3>1. Report(a, "failed")
      BY <1>19, <2>3 DEF RollbackDone, RollbackEnds
    <3>2. QED
      BY <1>19, <2>1, <2>3, <3>1, ReportType DEF RollbackDone, TypeOK
  <2>4. QED
    BY <2>2, <2>3 DEF Actor
<1>20. ASSUME Recover PROVE TypeOK'
  <2>1. fs.pending \notin {None, Torn} => fs.pending \in Snapshot
    BY DEF TypeOK, Volume
  <2>2. QED
    BY <1>20, <2>1 DEF Recover, TypeOK, Actor, Backward
<1>21. ASSUME BootTimezone PROVE TypeOK'
  BY <1>21 DEF BootTimezone, TypeOK, Volume, RevisionOrNone
<1>22. ASSUME BootStart \/ MinerExit \/ Respawn \/ OperatorStart PROVE TypeOK'
  BY <1>22, UnitType DEF BootStart, MinerExit, Respawn, OperatorStart, TypeOK, RevisionOrNone
<1>23. ASSUME Writeback PROVE TypeOK'
  BY <1>23, JournalType DEF Writeback, TypeOK
<1>24. ASSUME Crash PROVE TypeOK'
  <2>1. fs' \in Volume /\ disk' \in Volume /\ boot' \in Nat /\ nomine' \in BOOLEAN
    BY <1>24 DEF Crash, TypeOK
  <2>2. zone' \in Zone /\ enabled' \in BOOLEAN /\ miner' \in RevisionOrNone
    BY <1>24 DEF Crash, RevisionOrNone
  <2>3. startJob' \in BOOLEAN /\ respawn' \in BOOLEAN
    BY <1>24 DEF Crash
  <2>4. pc' \in [Actor -> {"recover", "idle"}]
    BY <1>24 DEF Crash
  <2>5. /\ req' \in [Engine -> RevisionOrNone]
        /\ snap' \in [Actor -> Snapshot \cup {None}]
        /\ outcome' \in [Engine -> {None, "applied", "failed"}]
    BY <1>24 DEF Crash, RevisionOrNone
  <2>6. QED
    BY <2>1, <2>2, <2>3, <2>4, <2>5 DEF TypeOK
<1>25. CASE UNCHANGED vars
  BY <1>25 DEF vars, TypeOK
<1> QED
  BY <1>1, <1>2, <1>3, <1>4, <1>5, <1>6, <1>7, <1>8, <1>9, <1>10, <1>11, <1>12, <1>13,
     <1>14, <1>15, <1>16, <1>17, <1>18, <1>19, <1>20, <1>21, <1>22, <1>23, <1>24, <1>25
  DEF Next, EngineStep, RollbackStep, BootStep

-----------------------------------------------------------------------------
LEMMA InitControlOK == Init => ControlOK
BY ConstantsAssumption
DEF Init, ControlOK, LabelsOK, HasSnapshot, HasRequest, RecoversFirst, InTransaction,
    Actor, Forward, Backward

LEMMA NextControlOK == TypeInv /\ [Next]_vars => ControlOK'
<1> SUFFICES ASSUME TypeInv, [Next]_vars PROVE ControlOK'
  OBVIOUS
<1> USE ConstantsAssumption, RecordAssumption
    DEF storage, unit, runtime, session, Actor, Forward, Backward, InTransaction, ProfileApplied,
        ControlOK, LabelsOK, HasSnapshot, HasRequest, RecoversFirst, TypeInv, TypeOK
<1>1. ASSUME NEW e \in Engine, NEW r \in Revision, Begin(e, r) PROVE ControlOK'
  BY <1>1 DEF Begin, Report
<1>2. ASSUME NEW e \in Engine, TakeSnapshot(e) PROVE ControlOK'
  BY <1>2, SnapshotType DEF TakeSnapshot, Report
<1>3. ASSUME NEW e \in Engine, WritePending(e) PROVE ControlOK'
  BY <1>3 DEF WritePending, Report
<1>4. ASSUME NEW e \in Engine, StopBeforeCommit(e) PROVE ControlOK'
  BY <1>4 DEF StopBeforeCommit, Report
<1>5. ASSUME NEW e \in Engine, Stage(e) PROVE ControlOK'
  BY <1>5 DEF Stage, Report
<1>6. ASSUME NEW e \in Engine, PublishRevision(e) PROVE ControlOK'
  BY <1>6 DEF PublishRevision, Report
<1>7. ASSUME NEW e \in Engine, SwapCurrent(e) PROVE ControlOK'
  BY <1>7 DEF SwapCurrent, Report
<1>8. ASSUME NEW e \in Engine, PublishLinks(e) PROVE ControlOK'
  BY <1>8 DEF PublishLinks, Report
<1>9. ASSUME NEW e \in Engine, ApplyZone(e) PROVE ControlOK'
  BY <1>9 DEF ApplyZone, Report
<1>10. ASSUME NEW e \in Engine, ApplyEnabled(e) PROVE ControlOK'
  BY <1>10 DEF ApplyEnabled, Report
<1>11. ASSUME NEW e \in Engine, ApplyStart(e) PROVE ControlOK'
  BY <1>11 DEF ApplyStart, Report
<1>12. ASSUME NEW e \in Engine, Finish(e) PROVE ControlOK'
  BY <1>12 DEF Finish, Report
<1>13. ASSUME NEW a \in Actor, RollbackStop(a) PROVE ControlOK'
  BY <1>13 DEF RollbackStop, RollbackEnds, Report
<1>14. ASSUME NEW a \in Actor, RollbackPointer(a) PROVE ControlOK'
  BY <1>14, PointerSteps
<1>15. ASSUME NEW a \in Actor, RollbackZone(a) PROVE ControlOK'
  BY <1>15 DEF RollbackZone, RollbackEnds, Report
<1>16. ASSUME NEW a \in Actor, RollbackEnabled(a) PROVE ControlOK'
  BY <1>16 DEF RollbackEnabled, RollbackEnds, Report
<1>17. ASSUME NEW a \in Actor, RollbackStart(a) PROVE ControlOK'
  BY <1>17 DEF RollbackStart, RollbackEnds, Report
<1>18. ASSUME NEW a \in Actor, RollbackFailed(a) PROVE ControlOK'
  BY <1>18 DEF RollbackFailed, RollbackEnds, Report
<1>19. ASSUME NEW a \in Actor, RollbackDone(a) PROVE ControlOK'
  BY <1>19 DEF RollbackDone, RollbackEnds, Report
<1>20. ASSUME Recover PROVE ControlOK'
  BY <1>20 DEF Recover, Volume
<1>21. ASSUME BootTimezone PROVE ControlOK'
  BY <1>21 DEF BootTimezone
<1>22. ASSUME BootStart \/ MinerExit \/ Respawn \/ OperatorStart PROVE ControlOK'
  BY <1>22 DEF BootStart, MinerExit, Respawn, OperatorStart
<1>23. ASSUME Writeback PROVE ControlOK'
  BY <1>23 DEF Writeback
<1>24. ASSUME Crash PROVE ControlOK'
  BY <1>24 DEF Crash
<1>25. CASE UNCHANGED vars
  BY <1>25 DEF vars
<1> QED
  BY <1>1, <1>2, <1>3, <1>4, <1>5, <1>6, <1>7, <1>8, <1>9, <1>10, <1>11, <1>12, <1>13, <1>14, <1>15, <1>16, <1>17, <1>18, <1>19, <1>20, <1>21, <1>22, <1>23, <1>24, <1>25
  DEF Next, EngineStep, RollbackStep, BootStep

\* TypeCorrect: every variable keeps its type, on every configuration.
THEOREM TypeCorrect == Spec => []TypeOK
<1>1. Init => TypeInv
  BY InitTypeOK, InitControlOK DEF TypeInv
<1>2. TypeInv /\ [Next]_vars => TypeInv'
  BY NextTypeOK, NextControlOK DEF TypeInv
<1>3. TypeInv => TypeOK
  BY DEF TypeInv
<1> QED
  BY <1>1, <1>2, <1>3, PTL DEF Spec

-----------------------------------------------------------------------------
(***************************************************************************)
(* The pending record is a lock.                                           *)
(***************************************************************************)
LEMMA InitRecord == Init => TransactionHoldsRecord
BY DEF Init, TransactionHoldsRecord, InTransaction, Actor, Forward, Backward

LEMMA NextRecord == RecordInv /\ [Next]_vars => TransactionHoldsRecord'
<1> SUFFICES ASSUME RecordInv, [Next]_vars PROVE TransactionHoldsRecord'
  OBVIOUS
<1> USE ConstantsAssumption, RecordAssumption
    DEF storage, unit, runtime, session, Actor, Forward, Backward, InTransaction, ProfileApplied,
        RecordInv, TransactionHoldsRecord,
        ControlOK, LabelsOK, HasSnapshot, HasRequest, RecoversFirst, TypeInv, TypeOK
<1>1. ASSUME NEW e \in Engine, NEW r \in Revision, Begin(e, r) PROVE TransactionHoldsRecord'
  BY <1>1 DEF Begin, Report
<1>2. ASSUME NEW e \in Engine, TakeSnapshot(e) PROVE TransactionHoldsRecord'
  BY <1>2 DEF TakeSnapshot, Report, Volume
<1>3. ASSUME NEW e \in Engine, WritePending(e) PROVE TransactionHoldsRecord'
  BY <1>3 DEF WritePending, Report, Volume
<1>4. ASSUME NEW e \in Engine, StopBeforeCommit(e) PROVE TransactionHoldsRecord'
  BY <1>4 DEF StopBeforeCommit, Report, Volume
<1>5. ASSUME NEW e \in Engine, Stage(e) PROVE TransactionHoldsRecord'
  BY <1>5, StageKeeps
<1>6. ASSUME NEW e \in Engine, PublishRevision(e) PROVE TransactionHoldsRecord'
  BY <1>6, PublishKeeps
<1>7. ASSUME NEW e \in Engine, SwapCurrent(e) PROVE TransactionHoldsRecord'
  BY <1>7 DEF SwapCurrent, Report, Volume
<1>8. ASSUME NEW e \in Engine, PublishLinks(e) PROVE TransactionHoldsRecord'
  BY <1>8 DEF PublishLinks, Report, Volume
<1>9. ASSUME NEW e \in Engine, ApplyZone(e) PROVE TransactionHoldsRecord'
  BY <1>9 DEF ApplyZone, Report, Volume
<1>10. ASSUME NEW e \in Engine, ApplyEnabled(e) PROVE TransactionHoldsRecord'
  BY <1>10 DEF ApplyEnabled, Report, Volume
<1>11. ASSUME NEW e \in Engine, ApplyStart(e) PROVE TransactionHoldsRecord'
  BY <1>11 DEF ApplyStart, Report, Volume
<1>12. ASSUME NEW e \in Engine, Finish(e) PROVE TransactionHoldsRecord'
  BY <1>12 DEF Finish, Report, Volume
<1>13. ASSUME NEW a \in Actor, RollbackStop(a) PROVE TransactionHoldsRecord'
  BY <1>13 DEF RollbackStop, RollbackEnds, Report, Volume
<1>14. ASSUME NEW a \in Actor, RollbackPointer(a) PROVE TransactionHoldsRecord'
  BY <1>14, PointerSteps
<1>15. ASSUME NEW a \in Actor, RollbackZone(a) PROVE TransactionHoldsRecord'
  BY <1>15 DEF RollbackZone, RollbackEnds, Report, Volume
<1>16. ASSUME NEW a \in Actor, RollbackEnabled(a) PROVE TransactionHoldsRecord'
  BY <1>16 DEF RollbackEnabled, RollbackEnds, Report, Volume
<1>17. ASSUME NEW a \in Actor, RollbackStart(a) PROVE TransactionHoldsRecord'
  BY <1>17 DEF RollbackStart, RollbackEnds, Report, Volume
<1>18. ASSUME NEW a \in Actor, RollbackFailed(a) PROVE TransactionHoldsRecord'
  BY <1>18 DEF RollbackFailed, RollbackEnds, Report, Volume
<1>19. ASSUME NEW a \in Actor, RollbackDone(a) PROVE TransactionHoldsRecord'
  BY <1>19 DEF RollbackDone, RollbackEnds, Report, Volume
<1>20. ASSUME Recover PROVE TransactionHoldsRecord'
  BY <1>20 DEF Recover, Volume
<1>21. ASSUME BootTimezone PROVE TransactionHoldsRecord'
  BY <1>21 DEF BootTimezone
<1>22. ASSUME BootStart \/ MinerExit \/ Respawn \/ OperatorStart PROVE TransactionHoldsRecord'
  BY <1>22 DEF BootStart, MinerExit, Respawn, OperatorStart
<1>23. ASSUME Writeback PROVE TransactionHoldsRecord'
  BY <1>23 DEF Writeback
<1>24. ASSUME Crash PROVE TransactionHoldsRecord'
  BY <1>24 DEF Crash
<1>25. CASE UNCHANGED vars
  BY <1>25 DEF vars
<1> QED
  BY <1>1, <1>2, <1>3, <1>4, <1>5, <1>6, <1>7, <1>8, <1>9, <1>10, <1>11, <1>12, <1>13, <1>14, <1>15, <1>16, <1>17, <1>18, <1>19, <1>20, <1>21, <1>22, <1>23, <1>24, <1>25
  DEF Next, EngineStep, RollbackStep, BootStep

LEMMA RecordInvariant == Spec => []RecordInv
<1>1. Init => RecordInv
  BY InitTypeOK, InitControlOK, InitRecord DEF RecordInv, TypeInv
<1>2. RecordInv /\ [Next]_vars => RecordInv'
  BY NextTypeOK, NextControlOK, NextRecord DEF RecordInv, TypeInv
<1> QED
  BY <1>1, <1>2, PTL DEF Spec

\* OneTransaction: however many engines run, and whatever fails, at most one of
\* them or the recovery is in a transaction, and the record is its own.
THEOREM OneTransaction == Spec => []TransactionHoldsRecord
<1>1. RecordInv => TransactionHoldsRecord
  BY DEF RecordInv
<1> QED
  BY <1>1, RecordInvariant, PTL

-----------------------------------------------------------------------------
(***************************************************************************)
(* XMRig never outlives the pointer it was started from.                   *)
(***************************************************************************)
LEMMA InitMiner == Init => MinerRunsCurrent /\ QuietWhileMoving
BY ConstantsAssumption DEF Init, MinerRunsCurrent, QuietWhileMoving, Actor

\* Whatever a step does to the unit leaves XMRig on the current revision or down.
LEMMA UnitRunsCurrent ==
  ASSUME MinerRunsCurrent, StopUnit \/ StartUnit \/ StartUnitFails \/ UNCHANGED unit
  PROVE  miner' = None \/ miner' = fs.current
BY DEF MinerRunsCurrent, StopUnit, StartUnit, StartUnitFails, unit

LEMMA NextMiner ==
  ASSUME "operator" \notin Env, MinerInv, [Next]_vars
  PROVE  MinerRunsCurrent' /\ QuietWhileMoving'
<1> DEFINE Goal == MinerRunsCurrent' /\ QuietWhileMoving'
<1> USE ConstantsAssumption, RecordAssumption
    DEF storage, unit, runtime, session, Actor, Forward, Backward, InTransaction,
        MinerInv, RecordInv, TransactionHoldsRecord, MinerRunsCurrent, QuietWhileMoving, Quiet,
        ControlOK, LabelsOK, RecoversFirst, ProfileApplied, TypeInv, TypeOK
<1>1. ASSUME NEW e \in Engine, NEW r \in Revision, Begin(e, r) PROVE Goal
  BY <1>1 DEF Begin, Report
<1>2. ASSUME NEW e \in Engine, TakeSnapshot(e) PROVE Goal
  BY <1>2 DEF TakeSnapshot, Report
<1>3. ASSUME NEW e \in Engine, WritePending(e) PROVE Goal
  <2>1. fs'.current = fs.current
    BY <1>3 DEF WritePending, Report, Volume
  <2>2. QED
    BY <1>3, <2>1 DEF WritePending, Report, RollbackEnds
<1>4. ASSUME NEW e \in Engine, StopBeforeCommit(e) PROVE Goal
  <2>1. miner' = None \/ miner' = fs.current
    BY <1>4, UnitRunsCurrent DEF StopBeforeCommit
  <2>2. QED
    BY <1>4, <2>1 DEF StopBeforeCommit, StopUnit
<1>5. ASSUME NEW e \in Engine, Stage(e) PROVE Goal
  BY <1>5, StageKeeps
<1>6. ASSUME NEW e \in Engine, PublishRevision(e) PROVE Goal
  BY <1>6, PublishKeeps
<1>7. ASSUME NEW e \in Engine, SwapCurrent(e) PROVE Goal
  BY <1>7 DEF SwapCurrent, Report
<1>8. ASSUME NEW e \in Engine, PublishLinks(e) PROVE Goal
  <2>1. fs'.current = fs.current
    BY <1>8 DEF PublishLinks, Report, Volume
  <2>2. QED
    BY <1>8, <2>1 DEF PublishLinks, Report, RollbackEnds
<1>9. ASSUME NEW e \in Engine, ApplyZone(e) PROVE Goal
  BY <1>9 DEF ApplyZone, Report
<1>10. ASSUME NEW e \in Engine, ApplyEnabled(e) PROVE Goal
  BY <1>10 DEF ApplyEnabled, Report
<1>11. ASSUME NEW e \in Engine, ApplyStart(e) PROVE Goal
  <2>1. miner' = None \/ miner' = fs.current
    BY <1>11, UnitRunsCurrent DEF ApplyStart
  <2>2. QED
    BY <1>11, <2>1 DEF ApplyStart, StopUnit
<1>12. ASSUME NEW e \in Engine, Finish(e) PROVE Goal
  <2>1. fs'.current = fs.current
    BY <1>12 DEF Finish, Report, Volume
  <2>2. QED
    BY <1>12, <2>1 DEF Finish, Report, RollbackEnds
<1>13. ASSUME NEW a \in Actor, RollbackStop(a) PROVE Goal
  <2>1. miner' = None \/ miner' = fs.current
    BY <1>13, UnitRunsCurrent DEF RollbackStop
  <2>2. QED
    BY <1>13, <2>1 DEF RollbackStop, StopUnit, RollbackEnds, Report
<1>14. ASSUME NEW a \in Actor, RollbackPointer(a) PROVE Goal
  BY <1>14, PointerSteps
<1>15. ASSUME NEW a \in Actor, RollbackZone(a) PROVE Goal
  BY <1>15 DEF RollbackZone, RollbackEnds, Report
<1>16. ASSUME NEW a \in Actor, RollbackEnabled(a) PROVE Goal
  BY <1>16 DEF RollbackEnabled, RollbackEnds, Report
<1>17. ASSUME NEW a \in Actor, RollbackStart(a) PROVE Goal
  <2>1. miner' = None \/ miner' = fs.current
    BY <1>17, UnitRunsCurrent DEF RollbackStart
  <2>2. QED
    BY <1>17, <2>1 DEF RollbackStart, StopUnit, RollbackEnds, Report
<1>18. ASSUME NEW a \in Actor, RollbackFailed(a) PROVE Goal
  <2>1. miner' = None \/ miner' = fs.current
    BY <1>18, UnitRunsCurrent DEF RollbackFailed
  <2>2. QED
    BY <1>18, <2>1 DEF RollbackFailed, StopUnit, RollbackEnds, Report
<1>19. ASSUME NEW a \in Actor, RollbackDone(a) PROVE Goal
  <2>1. fs'.current = fs.current
    BY <1>19 DEF RollbackDone, RollbackEnds, Volume
  <2>2. QED
    BY <1>19, <2>1 DEF RollbackDone, Report, RollbackEnds
<1>20. ASSUME Recover PROVE Goal
  BY <1>20 DEF Recover, Volume
<1>21. ASSUME BootTimezone PROVE Goal
  BY <1>21 DEF BootTimezone
<1>22. ASSUME BootStart \/ MinerExit \/ Respawn \/ OperatorStart PROVE Goal
  BY <1>22 DEF BootStart, MinerExit, Respawn, OperatorStart, StartUnit
<1>23. ASSUME Writeback PROVE Goal
  BY <1>23 DEF Writeback
<1>24. ASSUME Crash PROVE Goal
  BY <1>24 DEF Crash
<1>25. CASE UNCHANGED vars
  BY <1>25 DEF vars
<1> QED
  BY <1>1, <1>2, <1>3, <1>4, <1>5, <1>6, <1>7, <1>8, <1>9, <1>10, <1>11, <1>12, <1>13, <1>14, <1>15, <1>16, <1>17, <1>18, <1>19, <1>20, <1>21, <1>22, <1>23, <1>24, <1>25
  DEF Next, EngineStep, RollbackStep, BootStep

\* MinerFollowsPointer: as long as nobody starts the unit by hand, XMRig is
\* never left running on a revision the pointer has moved away from.
THEOREM MinerFollowsPointer ==
  ASSUME "operator" \notin Env
  PROVE  Spec => []MinerRunsCurrent
<1>1. Init => MinerInv
  BY InitTypeOK, InitControlOK, InitRecord, InitMiner DEF MinerInv, RecordInv, TypeInv
<1>2. MinerInv /\ [Next]_vars => MinerInv'
  BY NextTypeOK, NextControlOK, NextRecord, NextMiner DEF MinerInv, RecordInv, TypeInv
<1>3. MinerInv => MinerRunsCurrent
  BY DEF MinerInv
<1> QED
  BY <1>1, <1>2, <1>3, PTL DEF Spec

-----------------------------------------------------------------------------
(***************************************************************************)
(* Every pointer names a complete revision.                                *)
(***************************************************************************)
LEMMA InitPointers == Init => PointersStaged /\ StagesOwnRevision /\ SnapshotsComplete
BY ConstantsAssumption, RecordAssumption
DEF Init, EmptyVolume, PointersStaged, NamesStaged, Named, StagesOwnRevision, SnapshotsComplete, Actor

\* A journal commit that loses the record's data names no more than one that does not.
LEMMA JournalNames ==
  ASSUME NEW volume \in Volume, NamesStaged(volume)
  PROVE  \A v \in Journaled(volume) : NamesStaged(v)
BY JournalKeeps, RecordAssumption DEF NamesStaged, Named

LEMMA NextPointers ==
  ASSUME PointerInv, [Next]_vars
  PROVE  PointersStaged' /\ StagesOwnRevision' /\ SnapshotsComplete'
<1> DEFINE Goal == PointersStaged' /\ StagesOwnRevision' /\ SnapshotsComplete'
<1> USE ConstantsAssumption, RecordAssumption
    DEF storage, unit, runtime, session, Actor, Forward, Backward, InTransaction,
        PointerInv, PointersStaged, StagesOwnRevision, SnapshotsComplete, Completed,
        ControlOK, LabelsOK, HasSnapshot, HasRequest, TypeInv, TypeOK
<1>1. ASSUME NEW e \in Engine, NEW r \in Revision, Begin(e, r) PROVE Goal
  BY <1>1 DEF Begin, Report, Fresh
<1>2. ASSUME NEW e \in Engine, TakeSnapshot(e) PROVE Goal
  <2>1. Completed(fs.current)
    BY DEF NamesStaged, Named
  <2>2. QED
    BY <1>2, <2>1 DEF TakeSnapshot, Report
<1>3. ASSUME NEW e \in Engine, WritePending(e) PROVE Goal
  <2>1. fs'.revision = fs.revision /\ fs'.current = fs.current /\ fs'.previous = fs.previous
    BY <1>3 DEF WritePending, Volume
  <2>2. \/ fs'.pending = snap[e]
        \/ fs'.pending = Torn
        \/ fs'.pending = fs.pending
    BY <1>3 DEF WritePending, Volume
  <2>3. NamesStaged(fs')
    BY <1>3, <2>1, <2>2 DEF NamesStaged, Named, WritePending
  <2>4. QED
    BY <1>3, <2>1, <2>3 DEF WritePending, Report
<1>4. ASSUME NEW e \in Engine, StopBeforeCommit(e) PROVE Goal
  BY <1>4 DEF StopBeforeCommit, Report
<1>5. ASSUME NEW e \in Engine, Stage(e) PROVE Goal
  <2>k. pc[e] = "stage" /\ UNCHANGED session
    BY <1>5 DEF Stage
  <2>p. /\ fs' \in Volume
        /\ fs'.pending = fs.pending /\ fs'.current = fs.current /\ fs'.previous = fs.previous
    BY <1>5, StageWrites
  <2>1. CASE fs' = fs /\ disk' = disk /\ pc' = [pc EXCEPT ![e] = "rb_stop"]
    BY <1>5, <2>1, <2>k
  <2>2. CASE /\ fs'.revision = [fs.revision EXCEPT ![req[e]] = "staging"]
             /\ disk' \in Journaled(fs')
             /\ pc' = [pc EXCEPT ![e] = "publish"]
    <3>1. req[e] \in Revision /\ fs.revision[req[e]] = "absent"
      BY <1>5 DEF Stage
    <3>2. \A r \in Revision : fs.revision[r] = "complete" => fs'.revision[r] = "complete"
      BY <2>2, <3>1 DEF Volume
    <3>3. NamesStaged(fs')
      BY <3>2, <2>p DEF NamesStaged, Named, Volume, Snapshot, RevisionOrNone
    <3>4. NamesStaged(disk')
      BY <2>2, <2>p, <3>3, JournalNames
    <3>5. SnapshotsComplete'
      BY <2>k, <3>2 DEF Snapshot, RevisionOrNone
    <3>6. StagesOwnRevision'
      BY <2>2, <2>k, <3>1 DEF Volume
    <3>7. QED
      BY <3>3, <3>4, <3>5, <3>6
  <2>3. QED
    BY <1>5, <2>1, <2>2, StageWrites
<1>6. ASSUME NEW e \in Engine, PublishRevision(e) PROVE Goal
  <2>1. req[e] \in Revision /\ fs.revision[req[e]] = "staging"
    BY <1>6 DEF PublishRevision
  <2>2. /\ fs' \in {Unstaged(req[e]), WithRevision(req[e], "complete"),
                   WithPrevious(WithRevision(req[e], "complete"))}
        /\ pc'[e] = "swap" => fs' = WithPrevious(WithRevision(req[e], "complete"))
    BY <1>6 DEF PublishRevision
  <2>3. PICK status \in {"absent", "complete"} :
          /\ fs'.revision = [fs.revision EXCEPT ![req[e]] = status]
          /\ pc'[e] = "swap" => status = "complete"
          /\ fs'.current = fs.current /\ fs'.pending = fs.pending
          /\ fs'.previous \in {fs.previous, fs.current}
    <3>1. req[e] \in RevisionOrNone
      BY <2>1 DEF RevisionOrNone
    <3>2. /\ fs'.current = fs.current /\ fs'.pending = fs.pending
          /\ fs'.previous \in {fs.previous, fs.current}
          /\ pc'[e] = "swap" => fs'.revision = [fs.revision EXCEPT ![req[e]] = "complete"]
          /\ \/ fs'.revision = [fs.revision EXCEPT ![req[e]] = "absent"]
             \/ fs'.revision = [fs.revision EXCEPT ![req[e]] = "complete"]
      BY <2>2, <3>1, LeavesStaging
    <3>3. QED
      BY <3>2
  <2>4. \A r \in Revision : fs.revision[r] = "complete" => fs'.revision[r] = "complete"
    BY <2>1, <2>3 DEF Volume
  <2>5. NamesStaged(fs') /\ NamesStaged(disk')
    BY <1>6, <2>3, <2>4 DEF PublishRevision, NamesStaged, Named, Volume, Snapshot, RevisionOrNone
  <2>6. SnapshotsComplete'
    BY <1>6, <2>4 DEF PublishRevision, Snapshot, RevisionOrNone
  <2>7. StagesOwnRevision'
    BY <1>6, <2>1, <2>2, <2>3 DEF PublishRevision, Volume
  <2>8. QED
    BY <2>5, <2>6, <2>7
<1>7. ASSUME NEW e \in Engine, SwapCurrent(e) PROVE Goal
  <2>1. /\ fs'.revision = fs.revision /\ fs'.pending = fs.pending /\ fs'.previous = fs.previous
        /\ fs'.current \in {fs.current, req[e]}
    BY <1>7 DEF SwapCurrent, Volume
  <2>2. NamesStaged(fs')
    BY <1>7, <2>1 DEF SwapCurrent, NamesStaged, Named
  <2>3. QED
    BY <1>7, <2>1, <2>2 DEF SwapCurrent
<1>8. ASSUME NEW e \in Engine, PublishLinks(e) PROVE Goal
  <2>1. /\ fs'.revision = fs.revision /\ fs'.pending = fs.pending
        /\ fs'.previous = fs.previous /\ fs'.current = fs.current
    BY <1>8 DEF PublishLinks, Volume
  <2>2. NamesStaged(fs')
    BY <2>1 DEF NamesStaged, Named
  <2>3. [fs EXCEPT !.links = NextLinks] \in Volume
    BY DEF NextLinks, PublicLinks, Volume
  <2>4. NamesStaged(disk')
    BY <1>8, <2>2, <2>3, JournalNames DEF PublishLinks, Sync
  <2>5. QED
    BY <1>8, <2>1, <2>2, <2>4 DEF PublishLinks
<1>9. ASSUME NEW e \in Engine, ApplyZone(e) PROVE Goal
  BY <1>9 DEF ApplyZone, Report
<1>10. ASSUME NEW e \in Engine, ApplyEnabled(e) PROVE Goal
  BY <1>10 DEF ApplyEnabled, Report
<1>11. ASSUME NEW e \in Engine, ApplyStart(e) PROVE Goal
  BY <1>11 DEF ApplyStart, Report
<1>12. ASSUME NEW e \in Engine, Finish(e) PROVE Goal
  <2>1. /\ fs'.revision = fs.revision /\ fs'.pending \in {None, fs.pending}
        /\ fs'.previous = fs.previous /\ fs'.current = fs.current
    BY <1>12 DEF Finish, Volume
  <2>2. NamesStaged(fs')
    BY <2>1 DEF NamesStaged, Named
  <2>3. QED
    BY <1>12, <2>1, <2>2 DEF Finish, Report
<1>13. ASSUME NEW a \in Actor, RollbackStop(a) PROVE Goal
  BY <1>13 DEF RollbackStop, RollbackEnds, Report
<1>14. ASSUME NEW a \in Actor, RollbackPointer(a) PROVE Goal
  <2>1. /\ fs'.revision = fs.revision /\ fs'.pending = fs.pending
        /\ fs'.previous = fs.previous
        /\ fs'.current \in {None, fs.current, snap[a].previous}
    BY <1>14, PointerSteps
  <2>2. snap[a] # None
    BY <1>14, PointerSteps
  <2>3. NamesStaged(fs')
    BY <2>1, <2>2 DEF NamesStaged, Named
  <2>4. /\ \/ pc' = [pc EXCEPT ![a] = "rb_zone"]
           \/ pc' = [pc EXCEPT ![a] = "rb_fail"]
        /\ UNCHANGED <<disk, session>>
    BY <1>14, PointerSteps
  <2>5. StagesOwnRevision' /\ SnapshotsComplete'
    BY <2>1, <2>4
  <2>6. QED
    BY <2>3, <2>4, <2>5
<1>15. ASSUME NEW a \in Actor, RollbackZone(a) PROVE Goal
  BY <1>15 DEF RollbackZone, RollbackEnds, Report
<1>16. ASSUME NEW a \in Actor, RollbackEnabled(a) PROVE Goal
  BY <1>16 DEF RollbackEnabled, RollbackEnds, Report
<1>17. ASSUME NEW a \in Actor, RollbackStart(a) PROVE Goal
  BY <1>17 DEF RollbackStart, RollbackEnds, Report
<1>18. ASSUME NEW a \in Actor, RollbackFailed(a) PROVE Goal
  BY <1>18 DEF RollbackFailed, RollbackEnds, Report
<1>19. ASSUME NEW a \in Actor, RollbackDone(a) PROVE Goal
  <2>1. /\ fs'.revision = fs.revision /\ fs'.pending \in {None, fs.pending}
        /\ fs'.previous = fs.previous /\ fs'.current = fs.current
    BY <1>19 DEF RollbackDone, Volume
  <2>2. NamesStaged(fs')
    BY <2>1 DEF NamesStaged, Named
  <2>3. QED
    BY <1>19, <2>1, <2>2 DEF RollbackDone, RollbackEnds, Report
<1>20. ASSUME Recover PROVE Goal
  BY <1>20 DEF Recover, NamesStaged, Named, Volume
<1>21. ASSUME BootTimezone PROVE Goal
  BY <1>21 DEF BootTimezone
<1>22. ASSUME BootStart \/ MinerExit \/ Respawn \/ OperatorStart PROVE Goal
  BY <1>22 DEF BootStart, MinerExit, Respawn, OperatorStart
<1>23. ASSUME Writeback PROVE Goal
  <2>1. NamesStaged(disk')
    BY <1>23, JournalNames DEF Writeback
  <2>2. QED
    BY <1>23, <2>1 DEF Writeback
<1>24. ASSUME Crash PROVE Goal
  BY <1>24 DEF Crash
<1>25. CASE UNCHANGED vars
  BY <1>25 DEF vars, NamesStaged, Named
<1> QED
  BY <1>1, <1>2, <1>3, <1>4, <1>5, <1>6, <1>7, <1>8, <1>9, <1>10, <1>11, <1>12, <1>13, <1>14, <1>15, <1>16, <1>17, <1>18, <1>19, <1>20, <1>21, <1>22, <1>23, <1>24, <1>25
  DEF Next, EngineStep, RollbackStep, BootStep

LEMMA PointerInvariant == Spec => []PointerInv
<1>1. Init => PointerInv
  BY InitTypeOK, InitControlOK, InitPointers DEF PointerInv, TypeInv
<1>2. PointerInv /\ [Next]_vars => PointerInv'
  BY NextTypeOK, NextControlOK, NextPointers DEF PointerInv, TypeInv
<1> QED
  BY <1>1, <1>2, PTL DEF Spec

-----------------------------------------------------------------------------
(***************************************************************************)
(* The identities of the revisions.                                        *)
(***************************************************************************)
LEMMA InitIdentities == Init => IdentityInv
BY ConstantsAssumption
DEF Init, EmptyVolume, IdentityInv, OwnWhole, Origins, Carries

\* A journal commit that loses the data of copies keeps the originals.
LEMMA JournalIdentities ==
  ASSUME NEW volume \in Volume, OwnWhole(volume), Origins(volume)
  PROVE  \A v \in Journaled(volume) : OwnWhole(v) /\ Origins(v)
BY JournalKeeps DEF OwnWhole, Origins

\* Identities change hands in two steps only, and while a revision waits to be
\* named nobody else moves the pointer.
LEMMA IdentityMoves ==
  ASSUME RecordInv, [Next]_vars
  PROVE  \/ \E e \in Engine : Stage(e) \/ PublishRevision(e)
         \/ Crash
         \/ /\ fs'.identity = fs.identity /\ fs'.revision = fs.revision
            /\ disk' = disk \/ disk' \in Journaled(fs')
            /\ \A e \in Engine : pc'[e] \in {"publish", "swap"} =>
                 /\ pc[e] = pc'[e] /\ req'[e] = req[e]
                 /\ fs'.current = fs.current
<1> DEFINE Goal == /\ fs'.identity = fs.identity /\ fs'.revision = fs.revision
                   /\ disk' = disk \/ disk' \in Journaled(fs')
                   /\ \A e \in Engine : pc'[e] \in {"publish", "swap"} =>
                        /\ pc[e] = pc'[e] /\ req'[e] = req[e]
                        /\ fs'.current = fs.current
<1> USE ConstantsAssumption
    DEF storage, unit, runtime, session, Actor, Forward, Backward, InTransaction,
        RecordInv, TransactionHoldsRecord, ControlOK, LabelsOK, TypeInv, TypeOK
<1>1. ASSUME NEW e \in Engine, NEW r \in Revision, Begin(e, r) PROVE Goal
  BY <1>1 DEF Begin, Report
<1>2. ASSUME NEW e \in Engine, TakeSnapshot(e) \/ StopBeforeCommit(e) PROVE Goal
  BY <1>2 DEF TakeSnapshot, StopBeforeCommit, Report
<1>3. ASSUME NEW e \in Engine, WritePending(e) PROVE Goal
  BY <1>3 DEF WritePending, Volume, Report
<1>7. ASSUME NEW e \in Engine, SwapCurrent(e) PROVE Goal
  <2>1. fs'.identity = fs.identity /\ fs'.revision = fs.revision /\ disk' = disk
    BY <1>7 DEF SwapCurrent, Volume
  <2>2. \A k \in Engine : pc'[k] \notin {"publish", "swap"}
    BY <1>7 DEF SwapCurrent
  <2>3. QED
    BY <2>1, <2>2
<1>8. ASSUME NEW e \in Engine, PublishLinks(e) PROVE Goal
  <2>1. /\ fs'.identity = fs.identity /\ fs'.revision = fs.revision
        /\ disk' = disk \/ disk' \in Journaled(fs')
    BY <1>8 DEF PublishLinks, Sync, Volume
  <2>2. \A k \in Engine : pc'[k] \notin {"publish", "swap"}
    BY <1>8 DEF PublishLinks
  <2>3. QED
    BY <2>1, <2>2
<1>9. ASSUME NEW e \in Engine, ApplyZone(e) \/ ApplyEnabled(e) \/ ApplyStart(e) PROVE Goal
  BY <1>9 DEF ApplyZone, ApplyEnabled, ApplyStart
<1>10. ASSUME NEW e \in Engine, Finish(e) PROVE Goal
  BY <1>10 DEF Finish, Volume, Report
<1>11. ASSUME NEW a \in Actor,
              RollbackStop(a) \/ RollbackZone(a) \/ RollbackEnabled(a) \/ RollbackStart(a) \/ RollbackFailed(a)
       PROVE Goal
  BY <1>11 DEF RollbackStop, RollbackZone, RollbackEnabled, RollbackStart, RollbackFailed,
              RollbackEnds, Report
<1>12. ASSUME NEW a \in Actor, RollbackPointer(a) PROVE Goal
  <2>1. fs'.identity = fs.identity /\ fs'.revision = fs.revision /\ disk' = disk
    BY <1>12, PointerSteps
  <2>2. \A k \in Engine : pc'[k] \notin {"publish", "swap"}
    BY <1>12, PointerSteps
  <2>3. QED
    BY <2>1, <2>2
<1>14. ASSUME NEW a \in Actor, RollbackDone(a) PROVE Goal
  BY <1>14 DEF RollbackDone, RollbackEnds, Report, Volume
<1>15. ASSUME BootStep \/ BootStart \/ MinerExit \/ Respawn \/ OperatorStart PROVE Goal
  BY <1>15 DEF BootStep, Recover, BootTimezone, BootStart, MinerExit, Respawn, OperatorStart
<1>17. ASSUME Writeback PROVE Goal
  BY <1>17 DEF Writeback
<1>19. CASE UNCHANGED vars
  BY <1>19 DEF vars
<1> QED
  BY <1>1, <1>2, <1>3, <1>7, <1>8, <1>9, <1>10, <1>11, <1>12, <1>14, <1>15, <1>17, <1>19
  DEF Next, EngineStep, RollbackStep

LEMMA NextIdentities ==
  ASSUME RecordInv, PointerInv, IdentityInv, [Next]_vars, TypeInv'
  PROVE  IdentityInv'
<1> USE ConstantsAssumption DEF IdentityInv
<1>t. /\ TypeOK /\ fs \in Volume /\ fs' \in Volume /\ disk' \in Volume
      /\ fs.revision \in [Revision -> {"absent", "staging", "complete"}]
      /\ fs.identity \in IdentityFiles /\ fs.current \in RevisionOrNone
  BY DEF RecordInv, TypeInv, TypeOK, Volume
<1>c. fs.current # None => fs.current \in Revision /\ fs.revision[fs.current] = "complete"
  BY <1>t DEF PointerInv, PointersStaged, NamesStaged, Named, RevisionOrNone
<1>1. ASSUME NEW e \in Engine, Stage(e) PROVE IdentityInv'
  <2>1. CASE fs' = fs /\ disk' = disk /\ pc' = [pc EXCEPT ![e] = "rb_stop"]
    BY <1>1, <2>1, <1>t DEF Carries, OwnWhole, Origins, Stage, session, TypeOK
  <2>2. CASE /\ fs'.revision = [fs.revision EXCEPT ![req[e]] = "staging"]
             /\ fs'.identity = [fs.identity EXCEPT ![req[e]] = IdentitiesOf(req[e])]
             /\ disk' \in Journaled(fs')
             /\ pc' = [pc EXCEPT ![e] = "publish"]
    <3>1. /\ req[e] \in Revision /\ fs.revision[req[e]] = "absent" /\ req' = req
          /\ \A k \in Engine : pc[k] \notin {"publish", "swap"}
      BY <1>1 DEF Stage, session, PointerInv, StagesOwnRevision, RecordInv, TypeInv, ControlOK,
                  HasRequest, TransactionHoldsRecord, InTransaction, Actor, Forward
    <3>2. fs'.current = fs.current /\ req[e] # fs.current
      BY <1>1, <1>c, <3>1, StageWrites, <1>t DEF RevisionOrNone
    <3>3. \A a \in Alias :
            /\ fs'.identity[req[e]][a] =
                 IF a = AliasOf[req[e]] THEN "whole"
                 ELSE IF fs.current = None THEN "none" ELSE fs.identity[fs.current][a]
            /\ \A r \in Revision : r # req[e] => fs'.identity[r][a] = fs.identity[r][a]
      BY <2>2, <3>1, <1>t DEF IdentitiesOf, IdentityFiles
    <3>4. \A r \in Revision : r # req[e] => fs'.revision[r] = fs.revision[r]
      BY <2>2, <1>t
    <3>5. \A s \in Revision : fs.revision[s] = "complete" => fs'.revision[s] = "complete"
      BY <3>1, <3>4
    <3>6. OwnWhole(fs')
      BY <3>3, <3>4 DEF OwnWhole
    <3>7. Origins(fs')
      <4>1. ASSUME NEW r \in Revision, NEW a \in Alias, fs'.identity[r][a] # "none", a # AliasOf[r]
            PROVE  \E s \in Revision : fs'.revision[s] = "complete" /\ AliasOf[s] = a
        <5>1. CASE r # req[e]
          BY <3>3, <3>5, <4>1, <5>1 DEF Origins
        <5>2. CASE r = req[e]
          <6>1. fs.current # None /\ fs.identity[fs.current][a] # "none"
            BY <3>3, <4>1, <5>2
          <6>2. QED
            BY <1>c, <3>5, <6>1 DEF Origins
        <5>3. QED
          BY <5>1, <5>2
      <4>2. QED
        BY <4>1 DEF Origins
    <3>8. OwnWhole(disk') /\ Origins(disk')
      BY <1>t, <2>2, <3>6, <3>7, JournalIdentities
    <3>9. Carries'
      <4>1. \A k \in Engine : pc'[k] \in {"publish", "swap"} => k = e
        BY <2>2, <3>1, <1>t DEF TypeOK
      <4>2. \A a \in Alias : fs'.current # None /\ fs'.identity[fs'.current][a] # "none" =>
              fs'.identity[req[e]][a] # "none"
        BY <1>c, <3>2, <3>3
      <4>3. QED
        BY <3>1, <4>1, <4>2 DEF Carries
    <3>10. QED
      BY <3>6, <3>7, <3>8, <3>9 DEF OwnWhole, Origins
  <2>3. QED
    BY <1>1, <1>t, <2>1, <2>2, StageWrites
<1>2. ASSUME NEW e \in Engine, PublishRevision(e) PROVE IdentityInv'
  <2>1. /\ req[e] \in Revision /\ fs.revision[req[e]] = "staging" /\ req' = req /\ disk' = disk
        /\ \A k \in Engine : pc[k] \in {"publish", "swap"} => k = e
        /\ pc' = [pc EXCEPT ![e] = "swap"] \/ pc' = [pc EXCEPT ![e] = "rb_stop"]
    BY <1>2 DEF PublishRevision, session, PointerInv, StagesOwnRevision, RecordInv, TypeInv, ControlOK,
                HasRequest, TransactionHoldsRecord, InTransaction, Actor, Forward
  <2>2. /\ fs' \in {Unstaged(req[e]), WithRevision(req[e], "complete"),
                    WithPrevious(WithRevision(req[e], "complete"))}
        /\ pc'[e] = "swap" => fs' = WithPrevious(WithRevision(req[e], "complete"))
    BY <1>2, <2>1 DEF PublishRevision, RecordInv, TypeInv, TypeOK
  <2>3. /\ fs'.current = fs.current /\ (fs.current # None => req[e] # fs.current)
        /\ \/ /\ fs'.revision = [fs.revision EXCEPT ![req[e]] = "absent"]
              /\ fs'.identity = [fs.identity EXCEPT ![req[e]] = [a \in Alias |-> "none"]]
           \/ /\ fs'.revision = [fs.revision EXCEPT ![req[e]] = "complete"]
              /\ fs'.identity = fs.identity
        /\ fs' = WithPrevious(WithRevision(req[e], "complete")) =>
             fs'.revision = [fs.revision EXCEPT ![req[e]] = "complete"]
    BY <1>c, <1>t, <2>1, <2>2, LeavesStaging DEF RevisionOrNone
  <2>4. \A s \in Revision : fs.revision[s] = "complete" => fs'.revision[s] = "complete"
    BY <1>t, <2>1, <2>3
  <2>5. OwnWhole(fs') /\ Origins(fs')
    <3>1. CASE /\ fs'.revision = [fs.revision EXCEPT ![req[e]] = "absent"]
               /\ fs'.identity = [fs.identity EXCEPT ![req[e]] = [a \in Alias |-> "none"]]
      BY <1>t, <2>1, <2>4, <3>1 DEF OwnWhole, Origins, IdentityFiles
    <3>2. CASE /\ fs'.revision = [fs.revision EXCEPT ![req[e]] = "complete"]
               /\ fs'.identity = fs.identity
      BY <1>t, <2>1, <2>4, <3>2 DEF OwnWhole, Origins
    <3>3. QED
      BY <2>3, <3>1, <3>2
  <2>6. Carries'
    <3>1. \A k \in Engine : pc'[k] \in {"publish", "swap"} => k = e /\ pc'[e] = "swap"
      <4>1. e \in Actor /\ pc = [a \in Actor |-> pc[a]] /\ Engine \subseteq Actor
        BY <1>t DEF TypeOK, Actor
      <4>2. \A k \in Engine : k # e => pc'[k] = pc[k]
        BY <2>1, <4>1
      <4>3. pc'[e] \in {"swap", "rb_stop"}
        BY <2>1, <4>1
      <4>4. QED
        BY <2>1, <4>2, <4>3
    <3>2. pc'[e] = "swap" => fs'.identity = fs.identity
      <4>1. fs'.revision = [fs.revision EXCEPT ![req[e]] = "complete"] =>
              fs'.revision # [fs.revision EXCEPT ![req[e]] = "absent"]
        BY <1>t, <2>1
      <4>2. QED
        BY <2>2, <2>3, <4>1
    <3>3. pc[e] = "publish"
      BY <1>2 DEF PublishRevision
    <3>4. QED
      BY <2>1, <2>3, <3>1, <3>2, <3>3 DEF Carries
  <2>7. QED
    BY <2>1, <2>5, <2>6 DEF OwnWhole, Origins
<1>3. CASE Crash
  <2>1. fs' = disk /\ disk' = disk /\ \A e \in Engine : pc'[e] = "idle"
    BY <1>3 DEF Crash, Actor
  <2>2. QED
    BY <2>1 DEF OwnWhole, Origins, Carries
<1>4. CASE /\ fs'.identity = fs.identity /\ fs'.revision = fs.revision
           /\ disk' = disk \/ disk' \in Journaled(fs')
           /\ \A e \in Engine : pc'[e] \in {"publish", "swap"} =>
                /\ pc[e] = pc'[e] /\ req'[e] = req[e]
                /\ fs'.current = fs.current
  <2>1. OwnWhole(fs') /\ Origins(fs')
    BY <1>4 DEF OwnWhole, Origins
  <2>2. OwnWhole(disk') /\ Origins(disk')
    BY <1>4, <1>t, <2>1, JournalIdentities DEF OwnWhole, Origins
  <2>3. Carries'
    BY <1>4 DEF Carries
  <2>4. QED
    BY <2>1, <2>2, <2>3 DEF OwnWhole, Origins
<1>5. QED
  BY <1>1, <1>2, <1>3, <1>4, IdentityMoves

LEMMA IdentityInvariant == Spec => [](PointerInv /\ IdentityInv)
<1>1. RecordInv /\ PointerInv /\ IdentityInv /\ [Next]_vars /\ RecordInv' => IdentityInv'
  BY NextIdentities DEF RecordInv
<1>2. QED
  BY <1>1, InitIdentities, RecordInvariant, PointerInvariant, PTL DEF Spec

\* PointersNameCompleteRevisions: whatever crashes, tears or fails, the live
\* directory and the disk only ever name revisions that were staged and renamed,
\* with the data of the identity each was made for.
THEOREM PointersNameCompleteRevisions == Spec => []PointersComplete
<1>1. ASSUME NEW volume \in Volume, NamesStaged(volume), OwnWhole(volume) PROVE NamesComplete(volume)
  BY <1>1 DEF NamesStaged, OwnWhole, NamesComplete, Named, Volume, Snapshot, RevisionOrNone
<1>2. PointerInv /\ IdentityInv => PointersComplete
  BY <1>1 DEF PointerInv, PointersStaged, IdentityInv, PointersComplete, TypeInv, TypeOK
<1> QED
  BY <1>2, IdentityInvariant, PTL

\* IdentitiesAreKept: although copied identities are never synced, no sequence of
\* commits, rollbacks and power cuts loses one: a commit takes all of them over, and
\* of one whose copy is empty a complete revision still has the data.
THEOREM IdentitiesAreKept == Spec => []IdentitiesSurvive
<1>1. ASSUME NEW volume \in Volume, NamesStaged(volume), OwnWhole(volume), Origins(volume)
      PROVE  KeepsIdentities(volume)
  <2>1. Named(volume) \subseteq Revision
    BY DEF Named, Volume, Snapshot, RevisionOrNone
  <2>2. ASSUME NEW r \in Named(volume), NEW a \in Alias, volume.identity[r][a] # "none"
        PROVE  \E s \in Revision : volume.revision[s] = "complete" /\ volume.identity[s][a] = "whole"
    <3>1. PICK s \in Revision : volume.revision[s] = "complete" /\ AliasOf[s] = a
      BY <1>1, <2>1, <2>2 DEF Origins, NamesStaged
    <3>2. QED
      BY <1>1, <3>1 DEF OwnWhole
  <2>3. QED
    BY <2>2 DEF KeepsIdentities
<1>2. PointerInv /\ IdentityInv => IdentitiesSurvive
  BY <1>1 DEF PointerInv, PointersStaged, IdentityInv, Carries, IdentitiesSurvive, TypeInv, TypeOK
<1> QED
  BY <1>2, IdentityInvariant, PTL

-----------------------------------------------------------------------------
(***************************************************************************)
(* A record that is kept keeps XMRig down.                                 *)
(***************************************************************************)
RetainedInv ==
  /\ RecordInv
  /\ fs.pending # Torn /\ disk.pending # Torn
  /\ pc[Recovery] = "timezone" => fs.pending = None
  /\ RetainedRecordMeansStopped

LEMMA NextRetained ==
  ASSUME Env \cap {"write", "stop", "unlink", "torn", "operator"} = {}, RetainedInv, [Next]_vars
  PROVE  /\ fs'.pending # Torn /\ disk'.pending # Torn
         /\ pc'[Recovery] = "timezone" => fs'.pending = None
         /\ RetainedRecordMeansStopped'
<1> DEFINE Goal == /\ fs'.pending # Torn /\ disk'.pending # Torn
                   /\ pc'[Recovery] = "timezone" => fs'.pending = None
                   /\ RetainedRecordMeansStopped'
<1> USE ConstantsAssumption, RecordAssumption
    DEF storage, unit, runtime, session, Actor, Forward, Backward, InTransaction, ProfileApplied, AtRest,
        RetainedInv, RetainedRecordMeansStopped, RecordInv, TransactionHoldsRecord,
        ControlOK, LabelsOK, HasSnapshot, RecoversFirst, TypeInv, TypeOK
<1>0. "torn" \notin Env /\ "write" \notin Env /\ "stop" \notin Env /\ "unlink" \notin Env /\ "operator" \notin Env
  OBVIOUS
<1>j. ASSUME NEW v \in Volume, disk' \in Journaled(v) PROVE disk' = v
  BY <1>0, <1>j, JournalKeeps
<1>1. ASSUME NEW e \in Engine, NEW r \in Revision, Begin(e, r) PROVE Goal
  BY <1>1 DEF Begin, Report
<1>2. ASSUME NEW e \in Engine, TakeSnapshot(e) PROVE Goal
  BY <1>2 DEF TakeSnapshot, Report
<1>3. ASSUME NEW e \in Engine, WritePending(e) PROVE Goal
  BY <1>3, <1>0 DEF WritePending, Report, Volume
<1>4. ASSUME NEW e \in Engine, StopBeforeCommit(e) PROVE Goal
  BY <1>4 DEF StopBeforeCommit
<1>5. ASSUME NEW e \in Engine, Stage(e) PROVE Goal
  <2>1. disk' = fs' \/ disk' = disk
    BY <1>5, <1>j, StageKeeps
  <2>2. QED
    BY <1>5, <2>1, StageKeeps
<1>6. ASSUME NEW e \in Engine, PublishRevision(e) PROVE Goal
  BY <1>6, PublishKeeps
<1>7. ASSUME NEW e \in Engine, SwapCurrent(e) PROVE Goal
  BY <1>7 DEF SwapCurrent, Volume
<1>8. ASSUME NEW e \in Engine, PublishLinks(e) PROVE Goal
  <2>1. fs'.pending = fs.pending /\ fs' \in Volume
    BY <1>8 DEF PublishLinks, Volume, NextLinks, PublicLinks
  <2>2. disk' = fs' \/ disk' = disk
    BY <1>8, <1>j, <2>1 DEF PublishLinks, Sync
  <2>3. QED
    BY <1>8, <2>1, <2>2 DEF PublishLinks
<1>9. ASSUME NEW e \in Engine, ApplyZone(e) \/ ApplyEnabled(e) \/ ApplyStart(e) PROVE Goal
  BY <1>9 DEF ApplyZone, ApplyEnabled, ApplyStart
<1>10. ASSUME NEW e \in Engine, Finish(e) PROVE Goal
  BY <1>10, <1>0 DEF Finish, Report, Volume
<1>11. ASSUME NEW a \in Actor, RollbackStop(a) \/ RollbackZone(a) \/ RollbackEnabled(a) \/ RollbackStart(a)
       PROVE Goal
  BY <1>11 DEF RollbackStop, RollbackZone, RollbackEnabled, RollbackStart
<1>12. ASSUME NEW a \in Actor, RollbackPointer(a) PROVE Goal
  BY <1>12, PointerSteps
<1>13. ASSUME NEW a \in Actor, RollbackFailed(a) PROVE Goal
  BY <1>13, <1>0 DEF RollbackFailed, RollbackEnds, Report, StopUnit
<1>14. ASSUME NEW a \in Actor, RollbackDone(a) PROVE Goal
  BY <1>14, <1>0 DEF RollbackDone, RollbackEnds, Report, Volume
<1>15. ASSUME BootStep PROVE Goal
  BY <1>15 DEF BootStep, Recover, BootTimezone
<1>16. ASSUME BootStart \/ MinerExit \/ Respawn \/ OperatorStart PROVE Goal
  BY <1>16, <1>0 DEF BootStart, MinerExit, Respawn, OperatorStart, StartUnit
<1>17. ASSUME Writeback PROVE Goal
  BY <1>17, <1>j DEF Writeback
<1>18. ASSUME Crash PROVE Goal
  BY <1>18 DEF Crash
<1>19. CASE UNCHANGED vars
  BY <1>19 DEF vars
<1> QED
  BY <1>1, <1>2, <1>3, <1>4, <1>5, <1>6, <1>7, <1>8, <1>9, <1>10, <1>11, <1>12, <1>13, <1>14, <1>15,
     <1>16, <1>17, <1>18, <1>19
  DEF Next, EngineStep, RollbackStep

\* RetainedRecordStopsMiner: on a disk that keeps the record, with a systemd
\* that stops the unit and nobody starting it by hand, a rig at rest with a
\* record left does not mine, for any number of engines and whatever else fails.
THEOREM RetainedRecordStopsMiner ==
  ASSUME Env \cap {"write", "stop", "unlink", "torn", "operator"} = {}
  PROVE  Spec => []RetainedRecordMeansStopped
<1>1. Init => RetainedInv
  <2>1. Init => RecordInv
    BY InitTypeOK, InitControlOK, InitRecord DEF RecordInv, TypeInv
  <2>2. Init => fs.pending = None /\ disk.pending = None /\ pc[Recovery] = "recover"
    BY DEF Init, EmptyVolume, Actor
  <2>3. QED
    BY <2>1, <2>2, RecordAssumption DEF RetainedInv, RetainedRecordMeansStopped, AtRest, ProfileApplied
<1>2. RetainedInv /\ [Next]_vars => RetainedInv'
  BY NextTypeOK, NextControlOK, NextRecord, NextRetained DEF RetainedInv, RecordInv, TypeInv
<1>3. RetainedInv => RetainedRecordMeansStopped
  BY DEF RetainedInv
<1> QED
  BY <1>1, <1>2, <1>3, PTL DEF Spec

-----------------------------------------------------------------------------
(***************************************************************************)
(* Who moves while an actor is in its transaction: itself, the miner unit, *)
(* a crash, and others that touch nothing it depends on.                   *)
(***************************************************************************)
UnitMoves == BootStart \/ MinerExit \/ Respawn \/ OperatorStart

Elsewhere(a) ==
  /\ UNCHANGED <<fs, boot, nomine, zone, enabled, unit>>
  /\ pc'[a] = pc[a] /\ snap'[a] = snap[a] /\ (a \in Engine => req'[a] = req[a])

LEMMA Alone ==
  ASSUME RecordInv, [Next]_vars, NEW a \in Actor, InTransaction(a)
  PROVE  Crash \/ UnitMoves \/ (a \in Engine /\ EngineStep(a)) \/ RollbackStep(a) \/ Elsewhere(a)
<1> DEFINE Goal == Crash \/ UnitMoves \/ (a \in Engine /\ EngineStep(a)) \/ RollbackStep(a) \/ Elsewhere(a)
<1> USE ConstantsAssumption, RecordAssumption
    DEF storage, runtime, session, Actor, Forward, Backward, InTransaction, ProfileApplied,
        RecordInv, TransactionHoldsRecord, ControlOK, LabelsOK, HasSnapshot, RecoversFirst, TypeInv, TypeOK
<1>1. ASSUME NEW e \in Engine, NEW r \in Revision, Begin(e, r) PROVE Goal
  BY <1>1 DEF Begin, Report, Elsewhere
<1>2. ASSUME NEW e \in Engine, e # a, EngineStep(e) PROVE Goal
  <2>1. ~InTransaction(e) /\ fs.pending # None
    BY <1>2
  <2>2. TakeSnapshot(e) \/ WritePending(e)
    BY <1>2, <2>1 DEF EngineStep, StopBeforeCommit, Stage, PublishRevision, SwapCurrent, PublishLinks,
                      ApplyZone, ApplyEnabled, ApplyStart, Finish
  <2>3. QED
    BY <1>2, <2>1, <2>2 DEF TakeSnapshot, WritePending, Report, Elsewhere
<1>3. ASSUME NEW b \in Actor, b # a, RollbackStep(b) PROVE Goal
  BY <1>3 DEF RollbackStep, RollbackStop, RollbackPointer, RollbackZone, RollbackEnabled, RollbackStart,
              RollbackFailed, RollbackDone
<1>4. ASSUME BootStep PROVE Goal
  <2>1. pc[Recovery] \in {"recover", "timezone"}
    BY <1>4 DEF BootStep, Recover, BootTimezone
  <2>2. a = Recovery \/ pc[a] = "idle"
    BY <2>1
  <2>3. QED
    BY <2>1, <2>2
<1>5. CASE Writeback \/ UNCHANGED vars
  BY <1>5 DEF Writeback, vars, Elsewhere, unit
<1> QED
  BY <1>1, <1>2, <1>3, <1>4, <1>5 DEF Next, UnitMoves

\* How a transaction begins: by creating the record, or by reading it at boot.
LEMMA Enters ==
  ASSUME RecordInv, [Next]_vars, NEW a \in Actor, ~InTransaction(a), InTransaction(a)'
  PROVE  \/ /\ a \in Engine /\ pc[a] = "write" /\ pc'[a] = "stop" /\ fs.pending = None
            /\ fs' = [fs EXCEPT !.pending = snap[a]]
            /\ UNCHANGED <<disk, boot, nomine, zone, enabled, unit, session>>
         \/ /\ a = Recovery /\ pc[a] = "recover" /\ pc'[a] = "rb_stop"
            /\ snap'[a] = fs.pending /\ fs.pending \in Snapshot
            /\ UNCHANGED <<storage, boot, nomine, zone, enabled, unit, req>>
<1> DEFINE Goal ==
         \/ /\ a \in Engine /\ pc[a] = "write" /\ pc'[a] = "stop" /\ fs.pending = None
            /\ fs' = [fs EXCEPT !.pending = snap[a]]
            /\ UNCHANGED <<disk, boot, nomine, zone, enabled, unit, session>>
         \/ /\ a = Recovery /\ pc[a] = "recover" /\ pc'[a] = "rb_stop"
            /\ snap'[a] = fs.pending /\ fs.pending \in Snapshot
            /\ UNCHANGED <<storage, boot, nomine, zone, enabled, unit, req>>
<1> USE ConstantsAssumption, RecordAssumption
    DEF storage, runtime, session, Actor, Forward, Backward, InTransaction,
        RecordInv, ControlOK, LabelsOK, TypeInv, TypeOK
<1>1. ASSUME NEW e \in Engine, NEW r \in Revision, Begin(e, r) PROVE Goal
  BY <1>1 DEF Begin, Report
<1>2. ASSUME NEW e \in Engine, EngineStep(e) PROVE Goal
  <2>1. CASE WritePending(e)
    BY <2>1 DEF WritePending, Report
  <2>2. CASE TakeSnapshot(e)
    BY <2>2 DEF TakeSnapshot, Report
  <2>3. CASE StopBeforeCommit(e) \/ Stage(e) \/ PublishRevision(e) \/ SwapCurrent(e) \/ PublishLinks(e)
    BY <2>3 DEF StopBeforeCommit, Stage, PublishRevision, SwapCurrent, PublishLinks
  <2>4. CASE ApplyZone(e) \/ ApplyEnabled(e) \/ ApplyStart(e) \/ Finish(e)
    BY <2>4 DEF ApplyZone, ApplyEnabled, ApplyStart, Finish, Report
  <2>5. QED
    BY <1>2, <2>1, <2>2, <2>3, <2>4 DEF EngineStep
<1>3. ASSUME NEW b \in Actor, RollbackStep(b) PROVE Goal
  <2>1. CASE RollbackPointer(b)
    BY <2>1, PointerSteps
  <2>2. CASE RollbackStop(b) \/ RollbackZone(b) \/ RollbackEnabled(b) \/ RollbackStart(b)
    BY <2>2 DEF RollbackStop, RollbackZone, RollbackEnabled, RollbackStart
  <2>3. CASE RollbackFailed(b) \/ RollbackDone(b)
    BY <2>3 DEF RollbackFailed, RollbackDone, RollbackEnds, Report
  <2> QED
    BY <1>3, <2>1, <2>2, <2>3 DEF RollbackStep
<1>4. ASSUME BootStep PROVE Goal
  <2>1. fs.pending \notin {None, Torn} => fs.pending \in Snapshot
    BY DEF Volume
  <2>2. QED
    BY <1>4, <2>1 DEF BootStep, Recover, BootTimezone
<1>5. CASE UnitMoves \/ Writeback \/ Crash \/ UNCHANGED vars
  BY <1>5 DEF UnitMoves, BootStart, MinerExit, Respawn, OperatorStart, Writeback, Crash, vars
<1> QED
  BY <1>1, <1>2, <1>3, <1>4, <1>5 DEF Next, UnitMoves

-----------------------------------------------------------------------------
(***************************************************************************)
(* What was reported as applied took effect.                               *)
(***************************************************************************)
RunsAsAsked(e) == IF req[e] \in OnBoot /\ ~nomine THEN miner = req[e] \/ respawn ELSE Quiet

\* What an engine has done by the time it is at a step is still so.
TakesEffect(e) ==
  /\ pc[e] \in {"link", "zone", "enable", "start", "clear"} => fs.current = req[e]
  /\ pc[e] \in {"zone", "enable", "start", "clear"} => fs.links = PublicLinks
  /\ pc[e] \in {"enable", "start", "clear"} => zone = ZoneOf[req[e]]
  /\ pc[e] \in {"start", "clear"} => (enabled <=> req[e] \in OnBoot)
  /\ pc[e] \in {"link", "zone", "enable", "start"} => Quiet
  /\ pc[e] = "clear" => RunsAsAsked(e)

AppliedInv == MinerInv /\ \A e \in Engine : TakesEffect(e)

LEMMA NextApplied ==
  ASSUME "operator" \notin Env, AppliedInv, [Next]_vars, NEW e \in Engine
  PROVE  TakesEffect(e)'
<1> USE DEF storage, unit, runtime, session, Actor, Forward, Backward, InTransaction
<1>0. /\ RecordInv /\ MinerInv /\ TypeOK /\ TakesEffect(e)
      /\ pc[e] \notin {"idle"} => req[e] \in Revision
      /\ pc \in [Actor -> Forward \cup Backward \cup
               {"idle", "snapshot", "write", "done", "recover", "timezone", "failed"}]
      /\ fs \in Volume
  BY DEF AppliedInv, MinerInv, RecordInv, TypeInv, TypeOK, ControlOK, HasRequest
<1>1. CASE ~InTransaction(e)
  <2>1. CASE InTransaction(e)'
    BY <1>0, <1>1, <2>1, Enters, ConstantsAssumption DEF TakesEffect
  <2>2. CASE ~InTransaction(e)'
    BY <2>2 DEF TakesEffect
  <2> QED
    BY <2>1, <2>2
<1>2. CASE InTransaction(e) /\ Crash
  BY <1>2, ConstantsAssumption DEF Crash, TakesEffect
<1>3. CASE InTransaction(e) /\ UnitMoves
  <2>1. /\ UNCHANGED <<fs, zone, enabled, nomine, pc, req>>
        /\ \/ startJob /\ StartUnit
           \/ respawn /\ StartUnit
           \/ miner # None /\ miner' = None /\ respawn'
    BY <1>3 DEF UnitMoves, BootStart, MinerExit, Respawn, OperatorStart
  <2>2. CASE pc[e] # "clear"
    BY <1>0, <2>1, <2>2 DEF TakesEffect, Quiet
  <2>3. CASE pc[e] = "clear" /\ req[e] \in OnBoot /\ ~nomine
    <3>1. fs.current = req[e] /\ Gate
      BY <1>0, <2>3, ConstantsAssumption DEF TakesEffect, Gate, PublicLinks
    <3>2. miner = None \/ miner = req[e]
      BY <1>0, <3>1 DEF MinerInv, MinerRunsCurrent
    <3>3. RunsAsAsked(e)'
      BY <2>1, <2>3, <3>1, <3>2 DEF RunsAsAsked, StartUnit
    <3> QED
      BY <1>0, <2>1, <2>3, <3>3 DEF TakesEffect
  <2>4. CASE pc[e] = "clear" /\ ~(req[e] \in OnBoot /\ ~nomine)
    BY <1>0, <2>1, <2>4 DEF TakesEffect, RunsAsAsked, Quiet
  <2> QED
    BY <2>2, <2>3, <2>4
<1>4. CASE InTransaction(e) /\ EngineStep(e)
  <2>1. CASE TakeSnapshot(e) \/ WritePending(e)
    BY <1>4, <2>1 DEF TakeSnapshot, WritePending
  <2>2. CASE StopBeforeCommit(e) \/ Stage(e) \/ PublishRevision(e)
    BY <1>0, <2>2 DEF StopBeforeCommit, Stage, PublishRevision, TakesEffect
  <2>3. CASE SwapCurrent(e)
    <3>1. pc'[e] = "link" => fs'.current = req[e]
      BY <1>0, <2>3 DEF SwapCurrent, Volume
    <3>2. Quiet
      BY <1>0, <2>3 DEF SwapCurrent, MinerInv, QuietWhileMoving
    <3> QED
      BY <1>0, <2>3, <3>1, <3>2 DEF SwapCurrent, TakesEffect, Quiet
  <2>4. CASE PublishLinks(e)
    <3>1. fs'.current = fs.current /\ (pc'[e] = "zone" => fs'.links = PublicLinks)
      BY <1>0, <2>4 DEF PublishLinks, Volume
    <3> QED
      BY <1>0, <2>4, <3>1 DEF PublishLinks, TakesEffect, Quiet
  <2>5. CASE ApplyZone(e)
    BY <1>0, <2>5 DEF ApplyZone, TakesEffect, Quiet
  <2>6. CASE ApplyEnabled(e)
    <3>1. pc'[e] = "start" => enabled' = (req[e] \in OnBoot)
      BY <1>0, <2>6, Zenon DEF ApplyEnabled
    <3>2. pc'[e] \in {"start", "rb_stop"}
      BY <1>0, <2>6 DEF ApplyEnabled
    <3> QED
      BY <1>0, <2>6, <3>1, <3>2 DEF ApplyEnabled, TakesEffect, Quiet
  <2>7. CASE ApplyStart(e)
    <3>1. pc[e] = "start" /\ UNCHANGED <<fs, zone, enabled, nomine, req>> /\ pc'[e] \in {"clear", "rb_stop"}
      BY <1>0, <2>7 DEF ApplyStart
    <3>2. pc'[e] = "clear" => RunsAsAsked(e)'
      BY <1>0, <2>7 DEF ApplyStart, StartUnit, TakesEffect, RunsAsAsked, Quiet
    <3> QED
      BY <1>0, <3>1, <3>2 DEF TakesEffect
  <2>8. CASE Finish(e)
    BY <1>0, <2>8 DEF Finish, Report, TakesEffect
  <2> QED
    BY <1>4, <2>1, <2>2, <2>3, <2>4, <2>5, <2>6, <2>7, <2>8 DEF EngineStep
<1>5. CASE InTransaction(e) /\ RollbackStep(e)
  BY <1>0, <1>5, ConstantsAssumption
  DEF RollbackStep, RollbackStop, RollbackPointer, RollbackZone, RollbackEnabled, RollbackStart,
      RollbackFailed, RollbackDone, RollbackEnds, Report, TakesEffect
<1>6. CASE InTransaction(e) /\ Elsewhere(e)
  BY <1>0, <1>6 DEF Elsewhere, TakesEffect, RunsAsAsked, Quiet
<1> QED
  BY <1>0, <1>1, <1>2, <1>3, <1>4, <1>5, <1>6, Alone

\* AppliedTookEffect: however many engines compete, and whatever else fails, an
\* engine that reports success has the pointer, the timezone, the enabled state
\* and the miner as its revision asks, unless somebody starts the unit by hand.
THEOREM AppliedTookEffect ==
  ASSUME "operator" \notin Env
  PROVE  Spec => AppliedTakesEffect
<1>1. Init => AppliedInv
  <2>1. Init => MinerInv
    BY InitTypeOK, InitControlOK, InitRecord, InitMiner DEF MinerInv, RecordInv, TypeInv
  <2>2. Init => \A e \in Engine : TakesEffect(e)
    BY ConstantsAssumption DEF Init, TakesEffect, Actor
  <2> QED
    BY <2>1, <2>2 DEF AppliedInv
<1>2. AppliedInv /\ [Next]_vars => AppliedInv'
  BY NextTypeOK, NextControlOK, NextRecord, NextMiner, NextApplied DEF AppliedInv, MinerInv, RecordInv, TypeInv
<1>3. AppliedInv /\ [Next]_vars =>
        [\A e \in Engine : outcome[e] # "applied" /\ outcome'[e] = "applied" =>
           /\ fs'.current = req[e]
           /\ zone = ZoneOf[req[e]]
           /\ enabled = (req[e] \in OnBoot)
           /\ IF req[e] \in OnBoot /\ ~nomine THEN miner = req[e] \/ respawn
                                             ELSE miner = None]_vars
  <2> SUFFICES ASSUME AppliedInv, Next, NEW e \in Engine, outcome[e] # "applied", outcome'[e] = "applied"
               PROVE  /\ fs'.current = req[e]
                      /\ zone = ZoneOf[req[e]]
                      /\ enabled = (req[e] \in OnBoot)
                      /\ IF req[e] \in OnBoot /\ ~nomine THEN miner = req[e] \/ respawn
                                                        ELSE miner = None
    OBVIOUS
  <2>0. TypeOK /\ TakesEffect(e)
    BY DEF AppliedInv, MinerInv, RecordInv, TypeInv
  <2>1. Finish(e)
    <3>1. ASSUME NEW k \in Engine, Report(k, "failed") PROVE outcome'[e] \in {outcome[e], "failed"}
      BY <2>0, <3>1 DEF Report, TypeOK
    <3>2. CASE \E k \in Engine, r \in Revision : Begin(k, r)
      BY <2>0, <3>1, <3>2, RecordAssumption DEF Begin, TypeOK
    <3>3. CASE \E k \in Engine : EngineStep(k)
      <4>1. PICK k \in Engine : EngineStep(k)
        BY <3>3
      <4>2. Finish(k)
        BY <3>1, <4>1 DEF EngineStep, TakeSnapshot, WritePending, StopBeforeCommit, Stage, PublishRevision,
                          SwapCurrent, PublishLinks, ApplyZone, ApplyEnabled, ApplyStart
      <4>3. k = e
        BY <2>0, <4>2 DEF Finish, Report, TypeOK
      <4> QED
        BY <4>2, <4>3
    <3>4. CASE \E a \in Actor : RollbackStep(a)
      BY <3>1, <3>4 DEF RollbackStep, RollbackStop, RollbackPointer, RollbackZone, RollbackEnabled,
                        RollbackStart, RollbackFailed, RollbackDone, RollbackEnds
    <3>5. CASE BootStep \/ UnitMoves \/ Writeback
      BY <3>5 DEF BootStep, Recover, BootTimezone, UnitMoves, BootStart, MinerExit, Respawn, OperatorStart,
                  Writeback
    <3>6. CASE Crash
      BY <3>6, RecordAssumption DEF Crash
    <3> QED
      BY <3>2, <3>3, <3>4, <3>5, <3>6 DEF Next, UnitMoves
  <2>2. pc[e] = "clear" /\ fs'.current = fs.current
    BY <2>0, <2>1 DEF Finish, TypeOK, Volume
  <2>3. enabled = (req[e] \in OnBoot)
    <3>1. enabled = TRUE \/ enabled = FALSE
      BY <2>0 DEF TypeOK
    <3>2. enabled <=> req[e] \in OnBoot
      BY <2>0, <2>2 DEF TakesEffect
    <3> QED
      BY <3>1, <3>2
  <2> QED
    BY <2>0, <2>2, <2>3 DEF TakesEffect, RunsAsAsked, Quiet
<1> QED
  BY <1>1, <1>2, <1>3, PTL DEF Spec, AppliedTakesEffect

-----------------------------------------------------------------------------
(***************************************************************************)
(* Snapshots in time (TimelySpec), by any number of engines: what a record *)
(* names is in force, and every state of the partition has its links where *)
(* its pointer is.                                                         *)
(***************************************************************************)
\* The specification with its condition takes steps of Next only.
LEMMA TimelyStep == [TimelyNext]_vars => [Next]_vars
BY DEF TimelyNext, Next

LEMMA TimelySteps == TimelySpec => Spec
BY TimelyStep, PTL DEF TimelySpec, Spec

\* A single engine takes its snapshots in time: whoever gives a record up while it
\* is about to create its own would be another engine, or a recovery it waits for.
THEOREM OneEngineInTime ==
  ASSUME \A e1, e2 \in Engine : e1 = e2
  PROVE  Spec => TimelySpec
<1>1. ASSUME RecordInv, NEW e \in Engine, EngineStep(e) PROVE InTime
  <2> SUFFICES ASSUME pc[e] = "write" PROVE fs' = fs \/ fs.pending = None
    BY DEF InTime
  <2> QED
    BY <1>1 DEF EngineStep, TakeSnapshot, WritePending, StopBeforeCommit, Stage, PublishRevision,
       SwapCurrent, PublishLinks, ApplyZone, ApplyEnabled, ApplyStart, Finish
<1>2. ASSUME RecordInv, NEW a \in Actor, RollbackStep(a) PROVE InTime
  <2> SUFFICES ASSUME NEW e \in Engine, pc[e] = "write" PROVE FALSE
    BY DEF InTime
  <2>1. ProfileApplied
    BY <1>2 DEF RecordInv, TypeInv, ControlOK, RecoversFirst
  <2>2. pc[a] \in {"write", "done", "failed"}
    BY <2>1 DEF Actor, ProfileApplied
  <2> QED
    BY <1>2, <2>2 DEF RollbackStep, RollbackStop, RollbackPointer, RollbackZone, RollbackEnabled,
       RollbackStart, RollbackFailed, RollbackDone
<1>3. RecordInv /\ [Next]_vars => [TimelyNext]_vars
  BY <1>1, <1>2 DEF Next, TimelyNext
<1> QED
  BY <1>3, RecordInvariant, PTL DEF Spec, TimelySpec

\* A volume without a record is configured or not; with one, what would be
\* restored is.
Consistent(volume) ==
  /\ volume.pending = None =>
       volume.links = IF volume.current = None THEN {} ELSE PublicLinks
  /\ volume.pending \in Snapshot /\ volume.pending.previous # None => volume.links = PublicLinks

\* What an engine has published by the time it is at a step.
Published(e) ==
  /\ pc[e] \in {"link", "zone", "enable", "start", "clear"} => fs.current = req[e]
  /\ pc[e] \in {"zone", "enable", "start", "clear"} => fs.links = PublicLinks

\* The pointer before a transaction moves it, and after a rollback put it back.
KnowsPointer(a) ==
  /\ pc[a] = "write" /\ fs.pending = None => fs.current = snap[a].previous
  /\ pc[a] \in {"stop", "stage", "publish", "swap"} => fs.current = snap[a].previous
  /\ pc[a] \in {"rb_zone", "rb_enable", "rb_start", "rb_clear"} =>
       fs.current = snap[a].previous /\ (snap[a].previous = None => fs.links = {})

LinksInv ==
  /\ RecordInv
  /\ Consistent(fs) /\ Consistent(disk)
  /\ \A e \in Engine : Published(e)
  /\ \A a \in Actor : KnowsPointer(a)

LEMMA JournalConsistent ==
  ASSUME NEW volume \in Volume, Consistent(volume)
  PROVE  \A v \in Journaled(volume) : Consistent(v)
BY JournalKeeps, RecordAssumption DEF Consistent

LEMMA NextLinksInv ==
  ASSUME "forget" \notin Env, LinksInv, [TimelyNext]_vars
  PROVE  /\ Consistent(fs)' /\ Consistent(disk)'
         /\ (\A e \in Engine : Published(e))' /\ (\A a \in Actor : KnowsPointer(a))'
<1> DEFINE Goal == /\ Consistent(fs') /\ Consistent(disk')
                   /\ (\A e \in Engine : Published(e))' /\ (\A a \in Actor : KnowsPointer(a))'
<1> USE ConstantsAssumption, RecordAssumption
    DEF storage, unit, runtime, session, Actor, Forward, Backward, InTransaction, ProfileApplied,
        LinksInv, Published, KnowsPointer, RecordInv, TransactionHoldsRecord,
        ControlOK, LabelsOK, HasSnapshot, HasRequest, RecoversFirst, TypeInv, TypeOK
<1>1. ASSUME NEW e \in Engine, NEW r \in Revision, Begin(e, r) PROVE Goal
  BY <1>1 DEF Begin, Report
<1>2. ASSUME NEW e \in Engine, TakeSnapshot(e) PROVE Goal
  BY <1>2 DEF TakeSnapshot, Report
<1>3. ASSUME NEW e \in Engine, WritePending(e) PROVE Goal
  <2>1. CASE fs.pending = None
    <3>1. fs'.current = fs.current /\ fs'.links = fs.links
      BY <1>3, <2>1 DEF WritePending, Volume
    <3>2. \/ fs'.pending = Torn /\ pc'[e] = "idle"
          \/ fs'.pending = snap[e] /\ pc'[e] = "stop" /\ snap' = snap
      BY <1>3, <2>1 DEF WritePending, Report, Volume
    <3>3. Consistent(fs')
      BY <1>3, <2>1, <3>1, <3>2 DEF Consistent, WritePending
    <3> QED
      BY <1>3, <2>1, <3>1, <3>2, <3>3 DEF WritePending, Report
  <2>2. CASE fs.pending # None
    BY <1>3, <2>2 DEF WritePending, Report
  <2> QED
    BY <2>1, <2>2
<1>4. ASSUME NEW e \in Engine, StopBeforeCommit(e) PROVE Goal
  BY <1>4 DEF StopBeforeCommit
<1>5. ASSUME NEW e \in Engine, Stage(e) PROVE Goal
  <2>1. fs' \in Volume /\ Consistent(fs')
    BY <1>5, StageKeeps DEF Consistent
  <2>2. Consistent(disk')
    BY <1>5, <2>1, StageKeeps, JournalConsistent
  <2> QED
    BY <1>5, <2>1, <2>2, StageKeeps
<1>6. ASSUME NEW e \in Engine, PublishRevision(e) PROVE Goal
  <2>1. fs'.pending = fs.pending /\ fs'.current = fs.current /\ fs'.links = fs.links
    BY <1>6, PublishKeeps
  <2>2. /\ pc[e] = "publish" /\ UNCHANGED <<disk, snap, req>>
        /\ pc' = [pc EXCEPT ![e] = "swap"] \/ pc' = [pc EXCEPT ![e] = "rb_stop"]
    BY <1>6 DEF PublishRevision
  <2> QED
    BY <2>1, <2>2 DEF Consistent
<1>7. ASSUME NEW e \in Engine, SwapCurrent(e) PROVE Goal
  <2>1. /\ fs'.pending = fs.pending /\ fs'.links = fs.links
        /\ pc'[e] = "link" => fs'.current = req[e]
        /\ fs.pending = snap[e] /\ snap[e] \in Snapshot
    BY <1>7 DEF SwapCurrent, Volume
  <2>2. Consistent(fs')
    BY <2>1 DEF Consistent
  <2> QED
    BY <1>7, <2>1, <2>2 DEF SwapCurrent
<1>8. ASSUME NEW e \in Engine, PublishLinks(e) PROVE Goal
  <2>1. /\ fs'.pending = fs.pending /\ fs'.current = fs.current
        /\ fs'.links \in {fs.links, NextLinks}
        /\ pc'[e] = "zone" => fs'.links = PublicLinks
        /\ fs.pending = snap[e] /\ snap[e] \in Snapshot
    BY <1>8 DEF PublishLinks, Volume
  <2>2. fs' \in Volume
    BY <1>8 DEF PublishLinks, Volume, NextLinks, PublicLinks
  <2>3. Consistent(fs')
    BY <2>1 DEF Consistent, NextLinks, PublicLinks
  <2>4. Consistent(disk')
    BY <1>8, <2>2, <2>3, JournalConsistent DEF PublishLinks, Sync
  <2> QED
    BY <1>8, <2>1, <2>3, <2>4 DEF PublishLinks
<1>9. ASSUME NEW e \in Engine, ApplyZone(e) \/ ApplyEnabled(e) \/ ApplyStart(e) PROVE Goal
  BY <1>9 DEF ApplyZone, ApplyEnabled, ApplyStart
<1>10. ASSUME NEW e \in Engine, Finish(e), InTime PROVE Goal
  <2>1. fs'.current = fs.current /\ fs'.links = fs.links /\ fs'.pending \in {None, fs.pending}
    BY <1>10 DEF Finish, Volume
  <2>2. fs.current = req[e] /\ fs.links = PublicLinks
    BY <1>10 DEF Finish
  <2>3. Consistent(fs')
    BY <1>10, <2>1, <2>2 DEF Finish, Consistent
  <2>4. fs'.pending = None => \A k \in Engine : pc[k] # "write"
    BY <1>10 DEF Finish, InTime
  <2> QED
    BY <1>10, <2>1, <2>3, <2>4 DEF Finish, Report
<1>11. ASSUME NEW a \in Actor, RollbackStop(a) \/ RollbackZone(a) \/ RollbackEnabled(a) \/ RollbackStart(a)
       PROVE Goal
  BY <1>11 DEF RollbackStop, RollbackZone, RollbackEnabled, RollbackStart
<1>12. ASSUME NEW a \in Actor, RollbackPointer(a) PROVE Goal
  <2>1. fs.pending = snap[a] /\ snap[a] \in Snapshot
    BY <1>12, PointerSteps
  <2>2. Consistent(fs')
    BY <1>12, <2>1, PointerSteps DEF Consistent
  <2>3. \A b \in Actor : InTransaction(b) => b = a
    BY <1>12, PointerSteps
  <2>4. \A e \in Engine : e # a => pc'[e] = pc[e] /\ ~InTransaction(e)
    BY <1>12, <2>3, PointerSteps
  <2> QED
    BY <1>12, <2>1, <2>2, <2>3, <2>4, PointerSteps
<1>13. ASSUME NEW a \in Actor, RollbackFailed(a) PROVE Goal
  BY <1>13 DEF RollbackFailed, RollbackEnds, Report
<1>14. ASSUME NEW a \in Actor, RollbackDone(a), InTime PROVE Goal
  <2>1. fs'.current = fs.current /\ fs'.links = fs.links /\ fs'.pending \in {None, fs.pending}
    BY <1>14 DEF RollbackDone, Volume
  <2>2. /\ pc[a] = "rb_clear" /\ disk' = disk
        /\ \/ a = Recovery /\ (pc' = [pc EXCEPT ![a] = "timezone"] \/ pc' = [pc EXCEPT ![a] = "failed"])
              /\ snap' = [snap EXCEPT ![a] = None] /\ req' = req
           \/ a \in Engine /\ Report(a, "failed")
    BY <1>14 DEF RollbackDone, RollbackEnds
  <2>3. fs.pending = snap[a] /\ snap[a] \in Snapshot
    BY <2>2
  <2>4. Consistent(fs')
    <3>1. fs.current = snap[a].previous /\ (snap[a].previous = None => fs.links = {})
      BY <2>2
    <3>2. snap[a].previous # None => fs.links = PublicLinks
      BY <2>3 DEF Consistent
    <3> QED
      BY <2>1, <3>1, <3>2 DEF Consistent
  <2>5. \A b \in Actor : InTransaction(b) => b = a
    BY <2>2
  <2>6. fs'.pending = None => \A k \in Engine : pc[k] # "write"
    BY <1>14, <2>3 DEF RollbackDone, InTime
  <2>7. CASE a \in Engine
    BY <2>1, <2>2, <2>4, <2>5, <2>6, <2>7 DEF Report
  <2>8. CASE a = Recovery
    BY <2>1, <2>2, <2>4, <2>5, <2>6, <2>8
  <2> QED
    BY <2>7, <2>8
<1>15. ASSUME BootStep PROVE Goal
  BY <1>15 DEF BootStep, Recover, BootTimezone
<1>16. ASSUME BootStart \/ MinerExit \/ Respawn \/ OperatorStart PROVE Goal
  BY <1>16 DEF BootStart, MinerExit, Respawn, OperatorStart
<1>17. ASSUME Writeback PROVE Goal
  BY <1>17, JournalConsistent DEF Writeback
<1>18. ASSUME Crash PROVE Goal
  BY <1>18 DEF Crash
<1>19. CASE UNCHANGED vars
  BY <1>19 DEF vars
<1> QED
  BY <1>1, <1>2, <1>3, <1>4, <1>5, <1>6, <1>7, <1>8, <1>9, <1>10, <1>11, <1>12, <1>13, <1>14, <1>15,
     <1>16, <1>17, <1>18, <1>19
  DEF TimelyNext, EngineStep, RollbackStep, Consistent

LEMMA LinksInvariant ==
  ASSUME "forget" \notin Env
  PROVE  TimelySpec => []LinksInv
<1>1. Init => LinksInv
  <2>1. Init => RecordInv
    BY InitTypeOK, InitControlOK, InitRecord DEF RecordInv, TypeInv
  <2>2. Init => /\ Consistent(fs) /\ Consistent(disk)
                /\ \A a \in Actor : pc[a] \in {"recover", "idle"}
    BY RecordAssumption DEF Init, Consistent, EmptyVolume
  <2> QED
    BY <2>1, <2>2 DEF LinksInv, Published, KnowsPointer, Actor
<1>2. LinksInv /\ [TimelyNext]_vars => LinksInv'
  BY TimelyStep, NextTypeOK, NextControlOK, NextRecord, NextLinksInv DEF LinksInv, RecordInv, TypeInv
<1> QED
  BY <1>1, <1>2, PTL DEF TimelySpec

\* LinksWithPointer: under the same conditions a rig without a record is never
\* half configured, whatever fails and whenever the power goes.
THEOREM LinksWithPointer ==
  ASSUME "forget" \notin Env
  PROVE  TimelySpec => []PublicLinksFollowPointer
<1>1. LinksInv => PublicLinksFollowPointer
  BY DEF LinksInv, Consistent, PublicLinksFollowPointer
<1> QED
  BY <1>1, LinksInvariant, PTL

-----------------------------------------------------------------------------
(***************************************************************************)
(* The timezone: what an engine has set, what its snapshot would restore,  *)
(* and what the boot's profile unit left.                                  *)
(***************************************************************************)
ZoneOfRevision(r, z) == r # None => z = ZoneOf[r]

SetsZone(e) ==
  /\ pc[e] \in {"enable", "start", "clear"} => zone = ZoneOf[req[e]]
  /\ pc[e] \in {"rb_enable", "rb_start", "rb_clear"} => zone = snap[e].zone

ZoneInv ==
  /\ LinksInv
  /\ \A e \in Engine : SetsZone(e)
  /\ pc[Recovery] = "done" =>
       /\ fs.pending = None => ZoneOfRevision(fs.current, zone)
       /\ \A e \in Engine : InTransaction(e) \/ (pc[e] = "write" /\ fs.pending = None) =>
            ZoneOfRevision(snap[e].previous, snap[e].zone)

LEMMA NextZone ==
  ASSUME "forget" \notin Env, ZoneInv, [TimelyNext]_vars
  PROVE  /\ (\A e \in Engine : SetsZone(e))'
         /\ (pc[Recovery] = "done" =>
               /\ fs.pending = None => ZoneOfRevision(fs.current, zone)
               /\ \A e \in Engine : InTransaction(e) \/ (pc[e] = "write" /\ fs.pending = None) =>
                    ZoneOfRevision(snap[e].previous, snap[e].zone))'
<1> DEFINE Goal == /\ (\A e \in Engine : SetsZone(e))'
                   /\ (pc[Recovery] = "done" =>
                         /\ fs.pending = None => ZoneOfRevision(fs.current, zone)
                         /\ \A e \in Engine : InTransaction(e) \/ (pc[e] = "write" /\ fs.pending = None) =>
                              ZoneOfRevision(snap[e].previous, snap[e].zone))'
<1> USE ConstantsAssumption, RecordAssumption
    DEF storage, unit, runtime, session, Actor, Forward, Backward, InTransaction, ProfileApplied,
        ZoneInv, LinksInv, SetsZone, ZoneOfRevision, Published, KnowsPointer, RecordInv,
        TransactionHoldsRecord, ControlOK, LabelsOK, HasSnapshot, RecoversFirst, TypeInv, TypeOK
<1>1. ASSUME NEW e \in Engine, NEW r \in Revision, Begin(e, r) PROVE Goal
  BY <1>1 DEF Begin, Report
<1>2. ASSUME NEW e \in Engine, TakeSnapshot(e) PROVE Goal
  BY <1>2 DEF TakeSnapshot, Report
<1>3. ASSUME NEW e \in Engine, WritePending(e) PROVE Goal
  <2>1. fs'.pending # None /\ (pc'[e] = "stop" => snap' = snap)
    BY <1>3 DEF WritePending, Report, Volume
  <2> QED
    BY <1>3, <2>1 DEF WritePending, Report
<1>4. ASSUME NEW e \in Engine, StopBeforeCommit(e) PROVE Goal
  BY <1>4 DEF StopBeforeCommit
<1>5. ASSUME NEW e \in Engine, Stage(e) PROVE Goal
  BY <1>5, StageKeeps
<1>6. ASSUME NEW e \in Engine, PublishRevision(e) PROVE Goal
  <2>1. /\ pc[e] = "publish" /\ UNCHANGED <<zone, snap, req>>
        /\ pc' = [pc EXCEPT ![e] = "swap"] \/ pc' = [pc EXCEPT ![e] = "rb_stop"]
    BY <1>6 DEF PublishRevision
  <2> QED
    BY <1>6, <2>1, PublishKeeps
<1>7. ASSUME NEW e \in Engine, SwapCurrent(e) PROVE Goal
  <2>1. fs'.pending = fs.pending
    BY <1>7 DEF SwapCurrent, Volume
  <2> QED
    BY <1>7, <2>1 DEF SwapCurrent
<1>8. ASSUME NEW e \in Engine, PublishLinks(e) PROVE Goal
  <2>1. fs'.pending = fs.pending
    BY <1>8 DEF PublishLinks, Volume
  <2> QED
    BY <1>8, <2>1 DEF PublishLinks
<1>9. ASSUME NEW e \in Engine, ApplyZone(e) \/ ApplyEnabled(e) \/ ApplyStart(e) PROVE Goal
  BY <1>9 DEF ApplyZone, ApplyEnabled, ApplyStart
<1>10. ASSUME NEW e \in Engine, Finish(e), InTime PROVE Goal
  <2>1. fs'.current = fs.current /\ fs'.pending \in {None, fs.pending}
    BY <1>10 DEF Finish, Volume
  <2>2. fs.current = req[e] /\ zone = ZoneOf[req[e]] /\ zone' = zone
    BY <1>10 DEF Finish
  <2>3. fs'.pending = None => \A k \in Engine : pc[k] # "write"
    BY <1>10 DEF Finish, InTime
  <2> QED
    BY <1>10, <2>1, <2>2, <2>3 DEF Finish, Report
<1>11. ASSUME NEW a \in Actor, RollbackStop(a) \/ RollbackZone(a) \/ RollbackEnabled(a) \/ RollbackStart(a)
       PROVE Goal
  BY <1>11 DEF RollbackStop, RollbackZone, RollbackEnabled, RollbackStart
<1>12. ASSUME NEW a \in Actor, RollbackPointer(a) PROVE Goal
  BY <1>12, PointerSteps
<1>13. ASSUME NEW a \in Actor, RollbackFailed(a) PROVE Goal
  BY <1>13 DEF RollbackFailed, RollbackEnds, Report
<1>14. ASSUME NEW a \in Actor, RollbackDone(a), InTime PROVE Goal
  <2>1. fs'.current = fs.current /\ fs'.pending \in {None, fs.pending}
    BY <1>14 DEF RollbackDone, Volume
  <2>2. /\ pc[a] = "rb_clear" /\ zone' = zone
        /\ \/ a = Recovery /\ (pc' = [pc EXCEPT ![a] = "timezone"] \/ pc' = [pc EXCEPT ![a] = "failed"])
              /\ snap' = [snap EXCEPT ![a] = None] /\ req' = req
           \/ a \in Engine /\ Report(a, "failed")
    BY <1>14 DEF RollbackDone, RollbackEnds
  <2>3. fs.pending = snap[a] /\ snap[a] \in Snapshot
    BY <2>2
  <2>4. fs'.pending = None => \A k \in Engine : pc[k] # "write"
    BY <1>14, <2>3 DEF RollbackDone, InTime
  <2>5. CASE a \in Engine
    BY <2>1, <2>2, <2>3, <2>4, <2>5 DEF Report
  <2>6. CASE a = Recovery
    BY <2>1, <2>2, <2>4, <2>6
  <2> QED
    BY <2>5, <2>6
<1>15. ASSUME BootStep PROVE Goal
  BY <1>15 DEF BootStep, Recover, BootTimezone
<1>16. ASSUME BootStart \/ MinerExit \/ Respawn \/ OperatorStart PROVE Goal
  BY <1>16 DEF BootStart, MinerExit, Respawn, OperatorStart
<1>17. ASSUME Writeback PROVE Goal
  BY <1>17 DEF Writeback
<1>18. ASSUME Crash PROVE Goal
  BY <1>18 DEF Crash
<1>19. CASE UNCHANGED vars
  BY <1>19 DEF vars
<1> QED
  BY <1>1, <1>2, <1>3, <1>4, <1>5, <1>6, <1>7, <1>8, <1>9, <1>10, <1>11, <1>12, <1>13, <1>14, <1>15,
     <1>16, <1>17, <1>18, <1>19
  DEF TimelyNext, EngineStep, RollbackStep

\* ZoneFollowsRevision: if snapshots are taken in time, and the file system unlinks
\* what it is asked to, no commit, rollback, failed stage or reboot leaves a rig whose
\* profile was applied in another timezone than its revision's.
THEOREM ZoneFollowsRevision ==
  ASSUME "forget" \notin Env
  PROVE  TimelySpec => []ZoneMatchesRevision
<1>1. Init => \A e \in Engine : SetsZone(e)
  BY ConstantsAssumption DEF Init, SetsZone, Actor
<1>2. Init => pc[Recovery] # "done"
  BY DEF Init, Actor
<1>3. LinksInv /\ LinksInv' /\ ZoneInv /\ [TimelyNext]_vars => ZoneInv'
  BY NextZone DEF ZoneInv
<1>4. LinksInv /\ Init => ZoneInv
  BY <1>1, <1>2 DEF ZoneInv
<1>5. ZoneInv => ZoneMatchesRevision
  BY DEF ZoneInv, ZoneMatchesRevision, ZoneOfRevision
<1> QED
  BY <1>3, <1>4, <1>5, LinksInvariant, PTL DEF TimelySpec

-----------------------------------------------------------------------------
(***************************************************************************)
(* What a rollback has put back by the time it gives up its record.        *)
(***************************************************************************)
\* What the unit runs, it was allowed to run on this boot.
MayMine(r) == r # None /\ r \in OnBoot /\ ~nomine

WouldRun(s) == s.active /\ s.boot = boot => MayMine(s.previous)

PutBack(a) ==
  /\ pc[a] \in {"rb_enable", "rb_start", "rb_clear"} => zone = snap[a].zone
  /\ pc[a] \in {"rb_start", "rb_clear"} => (enabled <=> snap[a].enabled)
  /\ pc[a] = "rb_clear" => (RestoresRunning(a) => miner = snap[a].previous \/ respawn)

\* A record found at boot is of an earlier one.
OlderBoot ==
  /\ \A volume \in {fs, disk} : volume.pending \in Snapshot => volume.pending.boot <= boot
  /\ ~ProfileApplied /\ fs.pending \in Snapshot => fs.pending.boot < boot

RunInv ==
  /\ MinerInv
  /\ miner # None => MayMine(miner)
  /\ OlderBoot
  /\ \A a \in Actor : snap[a] # None => snap[a].boot <= boot /\ WouldRun(snap[a])

RestoreInv == LinksInv /\ RunInv /\ \A a \in Actor : PutBack(a)

LEMMA JournalOlder ==
  ASSUME NEW volume \in Volume, NEW v \in Journaled(volume), v.pending \in Snapshot
  PROVE  v.pending = volume.pending
BY JournalKeeps, RecordAssumption

LEMMA UnitMayMine ==
  ASSUME miner # None => MayMine(miner), nomine' = nomine,
         StopUnit \/ StartUnit \/ StartUnitFails \/ UNCHANGED unit
  PROVE  (miner # None => MayMine(miner))'
BY DEF StopUnit, StartUnit, StartUnitFails, Gate, unit, MayMine

LEMMA NextMayMine ==
  ASSUME miner # None => MayMine(miner), [Next]_vars
  PROVE  (miner # None => MayMine(miner))'
<1> DEFINE Goal == (miner # None => MayMine(miner))'
<1> USE UnitMayMine DEF storage, runtime, session
<1>1. CASE \E e \in Engine, r \in Revision : Begin(e, r)
  BY <1>1 DEF Begin
<1>2. ASSUME NEW e \in Engine, EngineStep(e) PROVE Goal
  <2>1. nomine' = nomine /\ (StopUnit \/ StartUnit \/ StartUnitFails \/ UNCHANGED unit)
    BY <1>2 DEF EngineStep, TakeSnapshot, WritePending, StopBeforeCommit, Stage, PublishRevision, SwapCurrent,
                PublishLinks, ApplyZone, ApplyEnabled, ApplyStart, Finish
  <2> QED
    BY <2>1
<1>3. ASSUME NEW a \in Actor, RollbackStep(a) PROVE Goal
  <2>1. nomine' = nomine /\ (StopUnit \/ StartUnit \/ StartUnitFails \/ UNCHANGED unit)
    BY <1>3 DEF RollbackStep, RollbackStop, RollbackPointer, RollbackZone, RollbackEnabled, RollbackStart,
                RollbackFailed, RollbackDone
  <2> QED
    BY <2>1
<1>4. CASE BootStep \/ Writeback
  BY <1>4 DEF BootStep, Recover, BootTimezone, Writeback
<1>5. CASE BootStart \/ Respawn \/ OperatorStart
  BY <1>5 DEF BootStart, Respawn, OperatorStart
<1>6. CASE MinerExit \/ Crash
  BY <1>6 DEF MinerExit, Crash
<1>7. CASE UNCHANGED vars
  BY <1>7 DEF vars, MayMine
<1> QED
  BY <1>1, <1>2, <1>3, <1>4, <1>5, <1>6, <1>7 DEF Next

\* Where records come from: an engine's snapshot, or the disk.
LEMMA RecordMoves ==
  ASSUME TypeInv, [Next]_vars
  PROVE  \/ Crash
         \/ /\ boot' = boot
            /\ \/ fs'.pending \in {fs.pending, None, Torn}
               \/ \E e \in Engine : pc[e] = "write" /\ fs'.pending = snap[e]
            /\ disk'.pending \in Snapshot => disk'.pending \in {disk.pending, fs.pending}
            /\ ProfileApplied => ProfileApplied'
<1> DEFINE Goal ==
         /\ boot' = boot
         /\ \/ fs'.pending \in {fs.pending, None, Torn}
            \/ \E e \in Engine : pc[e] = "write" /\ fs'.pending = snap[e]
         /\ disk'.pending \in Snapshot => disk'.pending \in {disk.pending, fs.pending}
         /\ ProfileApplied => ProfileApplied'
<1> USE JournalOlder, ConstantsAssumption DEF ProfileApplied, Actor, storage, session, TypeInv, TypeOK
<1>1. ASSUME NEW e \in Engine, NEW r \in Revision, Begin(e, r) PROVE Goal
  BY <1>1 DEF Begin, Report
<1>2. ASSUME NEW e \in Engine, TakeSnapshot(e) \/ StopBeforeCommit(e) PROVE Goal
  BY <1>2 DEF TakeSnapshot, StopBeforeCommit, Report
<1>3. ASSUME NEW e \in Engine, WritePending(e) PROVE Goal
  BY <1>3 DEF WritePending, Volume, Report
<1>5. ASSUME NEW e \in Engine, Stage(e) PROVE Goal
  BY <1>5, StageKeeps
<1>6. ASSUME NEW e \in Engine, PublishRevision(e) PROVE Goal
  BY <1>6, PublishKeeps DEF PublishRevision
<1>7. ASSUME NEW e \in Engine, SwapCurrent(e) PROVE Goal
  BY <1>7 DEF SwapCurrent, Volume
<1>8. ASSUME NEW e \in Engine, PublishLinks(e) PROVE Goal
  <2>1. fs' \in Volume /\ fs'.pending = fs.pending
    BY <1>8 DEF PublishLinks, Volume, NextLinks, PublicLinks
  <2> QED
    BY <1>8, <2>1 DEF PublishLinks, Sync
<1>9. ASSUME NEW e \in Engine, ApplyZone(e) \/ ApplyEnabled(e) \/ ApplyStart(e) PROVE Goal
  BY <1>9 DEF ApplyZone, ApplyEnabled, ApplyStart
<1>10. ASSUME NEW e \in Engine, Finish(e) PROVE Goal
  BY <1>10 DEF Finish, Volume, Report
<1>11. ASSUME NEW a \in Actor,
              RollbackStop(a) \/ RollbackZone(a) \/ RollbackEnabled(a) \/ RollbackStart(a) \/ RollbackFailed(a)
       PROVE Goal
  BY <1>11 DEF RollbackStop, RollbackZone, RollbackEnabled, RollbackStart, RollbackFailed,
              RollbackEnds, Report
<1>12. ASSUME NEW a \in Actor, RollbackPointer(a) PROVE Goal
  BY <1>12, PointerSteps
<1>14. ASSUME NEW a \in Actor, RollbackDone(a) PROVE Goal
  BY <1>14 DEF RollbackDone, RollbackEnds, Report, Volume
<1>15. ASSUME BootStep \/ UnitMoves PROVE Goal
  BY <1>15 DEF BootStep, Recover, BootTimezone, UnitMoves, BootStart, MinerExit, Respawn, OperatorStart
<1>17. ASSUME Writeback PROVE Goal
  BY <1>17 DEF Writeback
<1>19. CASE UNCHANGED vars
  BY <1>19 DEF vars
<1> QED
  BY <1>1, <1>2, <1>3, <1>5, <1>6, <1>7, <1>8, <1>9, <1>10, <1>11, <1>12, <1>14, <1>15, <1>17, <1>19
  DEF Next, EngineStep, RollbackStep, UnitMoves

\* Where snapshots come from: this boot's state, or the record found at boot.
LEMMA SnapshotMoves ==
  ASSUME TypeInv, [Next]_vars, NEW a \in Actor
  PROVE  \/ snap'[a] \in {snap[a], None}
         \/ /\ UNCHANGED <<boot, nomine>>
            /\ \/ snap'[a] = [boot |-> boot, previous |-> fs.current, zone |-> zone,
                              enabled |-> enabled, active |-> miner # None]
               \/ ~ProfileApplied /\ fs.pending \in Snapshot /\ snap'[a] = fs.pending
<1> DEFINE Goal ==
         \/ snap'[a] \in {snap[a], None}
         \/ /\ UNCHANGED <<boot, nomine>>
            /\ \/ snap'[a] = [boot |-> boot, previous |-> fs.current, zone |-> zone,
                              enabled |-> enabled, active |-> miner # None]
               \/ ~ProfileApplied /\ fs.pending \in Snapshot /\ snap'[a] = fs.pending
<1> USE DEF session, TypeInv, TypeOK
<1>1. ASSUME NEW e \in Engine, NEW r \in Revision, Begin(e, r) PROVE Goal
  BY <1>1 DEF Begin, Report
<1>2. ASSUME NEW e \in Engine, EngineStep(e) PROVE Goal
  <2>1. CASE TakeSnapshot(e)
    BY <2>1 DEF TakeSnapshot, Report, Actor
  <2>2. CASE WritePending(e) \/ Finish(e)
    BY <2>2 DEF WritePending, Finish, Report
  <2>3. CASE StopBeforeCommit(e) \/ Stage(e) \/ PublishRevision(e) \/ SwapCurrent(e) \/ PublishLinks(e)
    BY <2>3 DEF StopBeforeCommit, Stage, PublishRevision, SwapCurrent, PublishLinks
  <2>4. CASE ApplyZone(e) \/ ApplyEnabled(e) \/ ApplyStart(e)
    BY <2>4 DEF ApplyZone, ApplyEnabled, ApplyStart
  <2> QED
    BY <1>2, <2>1, <2>2, <2>3, <2>4 DEF EngineStep
<1>3. ASSUME NEW b \in Actor, RollbackStep(b) PROVE Goal
  <2>1. CASE RollbackPointer(b)
    BY <2>1, PointerSteps
  <2>2. CASE RollbackStop(b) \/ RollbackZone(b) \/ RollbackEnabled(b) \/ RollbackStart(b)
    BY <2>2 DEF RollbackStop, RollbackZone, RollbackEnabled, RollbackStart
  <2>3. CASE RollbackFailed(b) \/ RollbackDone(b)
    BY <2>3 DEF RollbackFailed, RollbackDone, RollbackEnds, Report
  <2> QED
    BY <1>3, <2>1, <2>2, <2>3 DEF RollbackStep
<1>4. ASSUME Recover PROVE Goal
  BY <1>4 DEF Recover, Volume, ProfileApplied, runtime
<1>5. CASE BootTimezone \/ UnitMoves \/ Writeback \/ UNCHANGED vars
  BY <1>5 DEF BootTimezone, UnitMoves, BootStart, MinerExit, Respawn, OperatorStart, Writeback, vars
<1>6. CASE Crash
  BY <1>6 DEF Crash
<1> QED
  BY <1>1, <1>2, <1>3, <1>4, <1>5, <1>6 DEF Next, BootStep, UnitMoves

\* Only a reset changes the boot, and no snapshot outlives one.
LEMMA BootSteps ==
  ASSUME TypeInv, [Next]_vars, NEW a \in Actor, snap'[a] # None
  PROVE  UNCHANGED <<boot, nomine>>
<1> DEFINE Goal == UNCHANGED <<boot, nomine>>
<1>1. ASSUME NEW e \in Engine, NEW r \in Revision, Begin(e, r) PROVE Goal
  BY <1>1 DEF Begin
<1>2. ASSUME NEW e \in Engine, EngineStep(e) PROVE Goal
  BY <1>2 DEF EngineStep, TakeSnapshot, WritePending, StopBeforeCommit, Stage, PublishRevision, SwapCurrent,
              PublishLinks, ApplyZone, ApplyEnabled, ApplyStart, Finish
<1>3. ASSUME NEW b \in Actor, RollbackStep(b) PROVE Goal
  BY <1>3 DEF RollbackStep, RollbackStop, RollbackPointer, RollbackZone, RollbackEnabled, RollbackStart,
              RollbackFailed, RollbackDone
<1>4. CASE BootStep \/ UnitMoves \/ Writeback \/ UNCHANGED vars
  BY <1>4 DEF BootStep, Recover, BootTimezone, UnitMoves, BootStart, MinerExit, Respawn, OperatorStart,
              Writeback, vars
<1>5. CASE Crash
  BY <1>5 DEF Crash
<1> QED
  BY <1>1, <1>2, <1>3, <1>4, <1>5 DEF Next, UnitMoves

LEMMA NextRun ==
  ASSUME "operator" \notin Env, RunInv, MinerInv', [Next]_vars
  PROVE  RunInv'
<1> USE DEF RunInv
<1>1. TypeInv /\ TypeOK'
  BY DEF MinerInv, RecordInv, TypeInv
<1>2. (miner # None => MayMine(miner))'
  BY NextMayMine
<1>3. OlderBoot'
  <2>1. CASE Crash
    <3>1. boot' = boot + 1 /\ fs' = disk /\ disk' = disk
      BY <2>1 DEF Crash
    <3>2. disk.pending \in Snapshot => disk.pending.boot \in Nat /\ disk.pending.boot <= boot
      BY DEF OlderBoot, Snapshot
    <3> QED
      BY <1>1, <3>1, <3>2 DEF OlderBoot, TypeInv, TypeOK
  <2>2. CASE ~Crash
    <3>1. boot' = boot /\ (ProfileApplied => ProfileApplied')
      BY <1>1, <2>2, RecordMoves
    <3>2. disk'.pending \in Snapshot => disk'.pending.boot <= boot
      BY <1>1, <2>2, RecordMoves DEF OlderBoot
    <3>3. fs'.pending \in Snapshot =>
             fs'.pending = fs.pending
             \/ \E e \in Engine : pc[e] = "write" /\ snap[e] \in Snapshot /\ fs'.pending = snap[e]
      BY <1>1, <2>2, RecordMoves, RecordAssumption
    <3>4. fs'.pending \in Snapshot => fs'.pending.boot <= boot
      BY <3>3, RecordAssumption DEF OlderBoot, Actor
    <3>5. ~ProfileApplied /\ fs'.pending \in Snapshot => fs'.pending = fs.pending
      BY <1>1, <3>3 DEF TypeInv, ControlOK, RecoversFirst
    <3>6. ~ProfileApplied /\ fs'.pending \in Snapshot => fs'.pending.boot < boot
      BY <3>5 DEF OlderBoot
    <3> QED
      BY <3>1, <3>2, <3>4, <3>6 DEF OlderBoot
  <2> QED
    BY <2>1, <2>2
<1>4. ASSUME NEW a \in Actor, snap'[a] # None PROVE snap'[a].boot <= boot' /\ WouldRun(snap[a])'
  <2>1. CASE snap'[a] = snap[a]
    <3>1. UNCHANGED <<boot, nomine>>
      BY <1>1, <1>4, <2>1, BootSteps
    <3> QED
      BY <1>4, <2>1, <3>1 DEF WouldRun, MayMine
  <2>2. CASE snap'[a] # snap[a]
    <3>1. /\ UNCHANGED <<boot, nomine>>
          /\ \/ snap'[a] = [boot |-> boot, previous |-> fs.current, zone |-> zone,
                            enabled |-> enabled, active |-> miner # None]
             \/ ~ProfileApplied /\ fs.pending \in Snapshot /\ snap'[a] = fs.pending
      BY <1>1, <1>4, <2>2, SnapshotMoves
    <3>2. CASE ~ProfileApplied /\ fs.pending \in Snapshot /\ snap'[a] = fs.pending
      <4>1. fs.pending.boot < boot /\ fs.pending.boot \in Nat /\ boot \in Nat
        BY <1>1, <3>2 DEF OlderBoot, TypeInv, TypeOK, Snapshot
      <4> QED
        BY <3>1, <3>2, <4>1 DEF WouldRun
    <3>3. CASE snap'[a] = [boot |-> boot, previous |-> fs.current, zone |-> zone,
                           enabled |-> enabled, active |-> miner # None]
      <4>1. miner # None => MayMine(fs.current)
        BY DEF MinerInv, MinerRunsCurrent
      <4>2. snap'[a].boot = boot /\ snap'[a].previous = fs.current
        BY <3>3
      <4>3. snap'[a].active => miner # None
        <5>1. snap'[a].active = (miner # None)
          BY <3>3
        <5> QED
          BY <5>1
      <4>4. boot \in Nat
        BY <1>1 DEF TypeInv, TypeOK
      <4> QED
        BY <3>1, <4>1, <4>2, <4>3, <4>4 DEF WouldRun, MayMine
    <3> QED
      BY <3>1, <3>2, <3>3
  <2> QED
    BY <2>1, <2>2
<1> QED
  BY <1>2, <1>3, <1>4

LEMMA NextPutBack ==
  ASSUME "operator" \notin Env, RestoreInv, [Next]_vars, NEW a \in Actor
  PROVE  PutBack(a)'
<1> USE DEF storage, unit, runtime, session, Actor, Forward, Backward, InTransaction
<1>0. /\ RecordInv /\ TypeOK /\ PutBack(a)
      /\ pc \in [Actor -> Forward \cup Backward \cup
               {"idle", "snapshot", "write", "done", "recover", "timezone", "failed"}]
  BY DEF RestoreInv, RunInv, MinerInv, RecordInv, TypeInv, TypeOK
<1>1. ASSUME pc[a] \in {"rb_start", "rb_clear"}, RestoresRunning(a) PROVE fs.current = snap[a].previous /\ Gate
  <2>1. snap[a] \in Snapshot /\ fs.pending = snap[a] /\ fs.current = snap[a].previous
    BY <1>0, <1>1 DEF RestoreInv, LinksInv, KnowsPointer, RecordInv, TransactionHoldsRecord, TypeInv, ControlOK,
                      HasSnapshot
  <2>2. MayMine(fs.current)
    BY <1>1, <2>1, RecordAssumption DEF RestoreInv, RunInv, WouldRun, RestoresRunning
  <2>3. fs.links = PublicLinks
    BY <2>1, <2>2 DEF RestoreInv, LinksInv, Consistent, MayMine
  <2> QED
    BY <2>1, <2>2, <2>3 DEF Gate, MayMine, PublicLinks
<1>2. miner # None => miner = fs.current
  BY DEF RestoreInv, RunInv, MinerInv, MinerRunsCurrent
<1>3. CASE ~InTransaction(a)
  <2>1. pc'[a] \notin {"rb_enable", "rb_start", "rb_clear"}
    BY <1>0, <1>3, Enters
  <2> QED
    BY <2>1 DEF PutBack
<1>4. CASE Crash
  BY <1>4, ConstantsAssumption DEF Crash, PutBack
<1>5. CASE InTransaction(a) /\ UnitMoves
  <2>1. /\ UNCHANGED <<fs, zone, enabled, boot, pc, snap>>
        /\ StartUnit \/ (miner # None /\ miner' = None /\ respawn')
    BY <1>5 DEF UnitMoves, BootStart, MinerExit, Respawn, OperatorStart, runtime
  <2>2. pc[a] = "rb_clear" /\ RestoresRunning(a) => miner' = snap[a].previous \/ respawn'
    BY <1>1, <1>2, <2>1 DEF StartUnit
  <2> QED
    BY <1>0, <2>1, <2>2 DEF PutBack, RestoresRunning
<1>6. CASE InTransaction(a) /\ a \in Engine /\ EngineStep(a)
  <2>1. pc'[a] \notin {"rb_enable", "rb_start", "rb_clear"}
    <3>1. CASE TakeSnapshot(a) \/ WritePending(a) \/ Finish(a)
      BY <1>0, <3>1 DEF TakeSnapshot, WritePending, Finish, Report
    <3>2. CASE StopBeforeCommit(a) \/ Stage(a) \/ PublishRevision(a) \/ SwapCurrent(a) \/ PublishLinks(a)
      BY <1>0, <3>2 DEF StopBeforeCommit, Stage, PublishRevision, SwapCurrent, PublishLinks
    <3>3. CASE ApplyZone(a) \/ ApplyEnabled(a) \/ ApplyStart(a)
      BY <1>0, <3>3 DEF ApplyZone, ApplyEnabled, ApplyStart
    <3> QED
      BY <1>6, <3>1, <3>2, <3>3 DEF EngineStep
  <2> QED
    BY <2>1 DEF PutBack
<1>7. CASE InTransaction(a) /\ RollbackStep(a)
  <2>1. CASE RollbackStop(a) \/ RollbackPointer(a)
    BY <1>0, <2>1 DEF RollbackStop, RollbackPointer, PutBack
  <2>2. CASE RollbackFailed(a) \/ RollbackDone(a)
    BY <1>0, <2>2 DEF RollbackFailed, RollbackDone, RollbackEnds, Report, PutBack
  <2>3. CASE RollbackZone(a)
    BY <1>0, <2>3 DEF RollbackZone, PutBack
  <2>4. CASE RollbackEnabled(a)
    <3>1. pc'[a] = "rb_start" => (enabled' <=> snap[a].enabled)
      BY <1>0, <2>4, Zenon DEF RollbackEnabled
    <3>2. /\ pc[a] = "rb_enable" /\ pc'[a] \in {"rb_start", "rb_fail"} /\ UNCHANGED <<zone, snap>>
      BY <1>0, <2>4 DEF RollbackEnabled
    <3> QED
      BY <1>0, <3>1, <3>2 DEF PutBack
  <2>5. CASE RollbackStart(a)
    <3>1. pc[a] = "rb_start" /\ pc'[a] \in {"rb_clear", "rb_fail"} /\ UNCHANGED <<zone, enabled, snap, boot>>
      BY <1>0, <2>5 DEF RollbackStart
    <3>2. pc'[a] = "rb_clear" /\ RestoresRunning(a) => miner' = snap[a].previous
      BY <1>0, <1>1, <1>2, <2>5 DEF RollbackStart, StartUnit
    <3> QED
      BY <1>0, <3>1, <3>2 DEF PutBack, RestoresRunning
  <2> QED
    BY <1>7, <2>1, <2>2, <2>3, <2>4, <2>5 DEF RollbackStep
<1>8. CASE InTransaction(a) /\ Elsewhere(a)
  BY <1>0, <1>8 DEF Elsewhere, PutBack, RestoresRunning
<1> QED
  BY <1>0, <1>3, <1>4, <1>5, <1>6, <1>7, <1>8, Alone

\* RollbackPutBack: if snapshots are taken in time, the file system unlinks what it
\* is asked to and nobody starts the unit by hand, a rollback that gives up its
\* record, an engine's or the boot's, leaves everything as its snapshot recorded it.
THEOREM RollbackPutBack ==
  ASSUME "forget" \notin Env, "operator" \notin Env
  PROVE  TimelySpec => RollbackRestores
<1>1. Init => RunInv /\ \A a \in Actor : PutBack(a)
  <2>1. Init => MinerInv
    BY InitTypeOK, InitControlOK, InitRecord, InitMiner DEF MinerInv, RecordInv, TypeInv
  <2>2. Init => \A a \in Actor : PutBack(a) /\ snap[a] = None
    BY DEF Init, PutBack, Actor
  <2>3. Init => miner = None /\ OlderBoot
    BY RecordAssumption DEF Init, OlderBoot, EmptyVolume
  <2> QED
    BY <2>1, <2>2, <2>3 DEF RunInv
<1>2. LinksInv /\ LinksInv' /\ RestoreInv /\ [Next]_vars => RestoreInv'
  <2> SUFFICES ASSUME LinksInv', RestoreInv, [Next]_vars PROVE RestoreInv'
    OBVIOUS
  <2>1. MinerInv'
    BY NextTypeOK, NextControlOK, NextRecord, NextMiner DEF RestoreInv, RunInv, MinerInv, RecordInv, TypeInv
  <2> QED
    BY <2>1, NextRun, NextPutBack DEF RestoreInv
<1>3. LinksInv /\ Init => RestoreInv
  BY <1>1 DEF RestoreInv
<1>4. RestoreInv /\ [Next]_vars =>
        [\A a \in Actor : pc[a] = "rb_clear" /\ pc'[a] # "rb_clear" /\ boot' = boot => Restored(snap[a])]_vars
  <2> SUFFICES ASSUME RestoreInv, NEW a \in Actor, pc[a] = "rb_clear" PROVE Restored(snap[a])
    OBVIOUS
  <2>1. fs.current = snap[a].previous /\ snap[a] \in Snapshot /\ enabled \in BOOLEAN
    BY DEF RestoreInv, LinksInv, KnowsPointer, RecordInv, TypeInv, TypeOK, ControlOK, HasSnapshot, InTransaction, Backward
  <2>2. enabled = snap[a].enabled
    <3>1. snap[a].enabled \in BOOLEAN
      BY <2>1 DEF Snapshot
    <3>2. enabled <=> snap[a].enabled
      BY DEF RestoreInv, PutBack
    <3> QED
      BY <2>1, <3>1, <3>2
  <2>3. zone = snap[a].zone /\ (RestoresRunning(a) => miner = snap[a].previous \/ respawn)
    BY DEF RestoreInv, PutBack
  <2> QED
    BY <2>1, <2>2, <2>3 DEF Restored, RestoresRunning
<1> QED
  BY <1>2, <1>3, <1>4, LinksInvariant, TimelySteps, PTL DEF Spec, RollbackRestores

-----------------------------------------------------------------------------
(***************************************************************************)
(* The transaction is a write-back register.                               *)
(***************************************************************************)
\* What a volume would be restored to depends on its record and its pointer.
LEMMA SameCommitted ==
  ASSUME NEW v, NEW w, w.pending = v.pending,
         v.pending \in Snapshot \/ w.current = v.current
  PROVE  CommittedIn(w) = CommittedIn(v)
BY DEF CommittedIn

LEMMA StepImplements ==
  ASSUME "torn" \notin Env, "forget" \notin Env, LinksInv, PointersStaged, [Next]_vars
  PROVE  [Store!Next]_(Store!vars)
<1> DEFINE Stutter == UNCHANGED <<CommittedIn(fs), CommittedIn(disk), req, outcome>>
           Persists == CommittedIn(disk)' = CommittedIn(fs) /\ UNCHANGED <<CommittedIn(fs), req, outcome>>
           Fails(e) == Report(e, "failed") /\ UNCHANGED <<CommittedIn(fs), CommittedIn(disk)>>
           Goal == [Store!Next]_(Store!vars)
<1>a. Stutter => Goal
  BY DEF Store!vars
<1>b. Persists => Goal
  BY DEF Store!Next, Store!Persist
<1>c. ASSUME NEW e \in Engine, Fails(e) PROVE Goal
  BY <1>c DEF Store!Next, Store!Fail, Store!Answer, Report
<1> USE RecordAssumption DEF storage, session
<1>t. /\ TypeOK /\ fs \in Volume /\ (\A v \in Volume : \A w \in Journaled(v) : w = v)
      /\ \A e \in Engine : pc[e] # "idle" => req[e] \in Revision
  BY JournalKeeps DEF LinksInv, RecordInv, TypeInv, TypeOK, ControlOK, HasRequest
<1>h. ASSUME NEW a \in Actor, InTransaction(a)
      PROVE  fs.pending = snap[a] /\ snap[a] \in Snapshot
  BY <1>h DEF LinksInv, RecordInv, TransactionHoldsRecord, TypeInv, ControlOK, HasSnapshot
<1>1. ASSUME NEW e \in Engine, NEW r \in Revision, Begin(e, r) PROVE Goal
  <2>1. CASE Report(e, "failed")
    BY <1>1, <1>c, <2>1 DEF Begin
  <2>2. CASE ~Report(e, "failed")
    <3>1. /\ pc[e] = "idle" /\ fs.pending = None /\ req' = [req EXCEPT ![e] = r]
          /\ outcome' = [outcome EXCEPT ![e] = None] /\ UNCHANGED storage
          /\ fs.revision[r] = "absent"
      BY <1>1, <2>2 DEF Begin, Fresh
    <3>2. CommittedIn(fs) = fs.current /\ req[e] = None
      BY <3>1 DEF CommittedIn, LinksInv, RecordInv, TypeInv, ControlOK, HasRequest
    <3>3. r # fs.current
      BY <3>1, ConstantsAssumption DEF PointersStaged, NamesStaged, Named, LinksInv, RecordInv, TypeInv, TypeOK, Volume
    <3> QED
      BY <3>1, <3>2, <3>3 DEF Store!Next, Store!Submit
  <2> QED
    BY <2>1, <2>2
<1>2. ASSUME NEW e \in Engine, TakeSnapshot(e) PROVE Goal
  BY <1>2, <1>a, <1>c DEF TakeSnapshot
<1>3. ASSUME NEW e \in Engine, WritePending(e) PROVE Goal
  <2>1. /\ fs.pending = None => CommittedIn(fs) = fs.current
        /\ pc[e] = "write" /\ disk' = disk /\ fs'.current = fs.current
    BY <1>3, <1>t DEF WritePending, CommittedIn, Volume
  <2>2. CASE fs.pending = None
    <3>1. snap[e] \in Snapshot /\ fs.current = snap[e].previous
      BY <2>1, <2>2 DEF LinksInv, KnowsPointer, Actor, RecordInv, TypeInv, ControlOK, HasSnapshot
    <3>2. \/ fs'.pending = snap[e] /\ UNCHANGED session /\ outcome' = outcome
          \/ fs'.pending = Torn /\ Report(e, "failed")
      BY <1>3, <1>t, <2>2 DEF WritePending, Volume
    <3>3. CommittedIn(fs') = fs.current
      BY <2>1, <3>1, <3>2 DEF CommittedIn
    <3> QED
      BY <1>a, <1>c, <2>1, <2>2, <3>1, <3>2, <3>3
  <2>3. CASE fs.pending # None
    BY <1>3, <1>c, <2>3 DEF WritePending
  <2> QED
    BY <2>2, <2>3
<1>4. ASSUME NEW e \in Engine, StopBeforeCommit(e) PROVE Goal
  BY <1>4, <1>a DEF StopBeforeCommit
<1>5. ASSUME NEW e \in Engine, Stage(e) PROVE Goal
  <2>1. fs'.pending = fs.pending /\ fs'.current = fs.current /\ (disk' = disk \/ disk' = fs')
        /\ UNCHANGED <<req, outcome>>
    BY <1>5, <1>t, StageKeeps
  <2> QED
    BY <1>a, <1>b, <2>1, SameCommitted
<1>6. ASSUME NEW e \in Engine, PublishRevision(e) PROVE Goal
  <2>1. UNCHANGED <<disk, req, outcome>>
    BY <1>6 DEF PublishRevision
  <2> QED
    BY <1>6, <1>a, <1>t, <2>1, PublishKeeps, SameCommitted
<1>7. ASSUME NEW e \in Engine, SwapCurrent(e) PROVE Goal
  <2>1. fs'.pending = fs.pending /\ fs.pending \in Snapshot /\ UNCHANGED <<disk, req, outcome>>
    BY <1>7, <1>h, <1>t DEF SwapCurrent, Volume, InTransaction, Forward, Actor
  <2> QED
    BY <1>a, <2>1, SameCommitted
<1>8. ASSUME NEW e \in Engine, PublishLinks(e) PROVE Goal
  <2>1. fs'.pending = fs.pending /\ fs'.current = fs.current /\ (disk' = disk \/ disk' = fs')
        /\ UNCHANGED <<req, outcome>>
    BY <1>8, <1>t DEF PublishLinks, Volume, NextLinks, PublicLinks, Sync
  <2> QED
    BY <1>a, <1>b, <2>1, SameCommitted
<1>9. ASSUME NEW e \in Engine, ApplyZone(e) \/ ApplyEnabled(e) \/ ApplyStart(e) PROVE Goal
  BY <1>9, <1>a DEF ApplyZone, ApplyEnabled, ApplyStart
<1>10. ASSUME NEW e \in Engine, Finish(e) PROVE Goal
  <2>1. CASE Report(e, "failed") /\ fs' = fs
    BY <1>10, <1>c, <2>1 DEF Finish
  <2>2. CASE fs' = [fs EXCEPT !.pending = None] /\ Report(e, "applied")
    <3>1. fs.current = req[e] /\ req[e] # None /\ disk' = disk
      BY <1>10, ConstantsAssumption
      DEF Finish, LinksInv, Published, RecordInv, TypeInv, ControlOK, HasRequest
    <3>2. CommittedIn(fs') = fs.current
      BY <1>t, <2>2 DEF CommittedIn, Volume
    <3> QED
      BY <2>2, <3>1, <3>2 DEF Store!Next, Store!Apply, Store!Answer, Report
  <2> QED
    BY <1>10, <2>1, <2>2 DEF Finish
<1>11. ASSUME NEW a \in Actor, RollbackStop(a) \/ RollbackZone(a) \/ RollbackEnabled(a) \/ RollbackStart(a)
       PROVE Goal
  BY <1>11, <1>a DEF RollbackStop, RollbackZone, RollbackEnabled, RollbackStart
<1>12. ASSUME NEW a \in Actor, RollbackPointer(a) PROVE Goal
  <2>1. fs.pending \in Snapshot /\ outcome' = outcome
    BY <1>12, <1>h DEF RollbackPointer, InTransaction, Backward
  <2> QED
    BY <1>12, <1>a, <1>t, <2>1, PointerSteps, SameCommitted
<1>13. ASSUME NEW a \in Actor, RollbackFailed(a) PROVE Goal
  BY <1>13, <1>a, <1>c DEF RollbackFailed, RollbackEnds
<1>14. ASSUME NEW a \in Actor, RollbackDone(a) PROVE Goal
  <2>1. pc[a] = "rb_clear" /\ fs.pending = snap[a] /\ snap[a] \in Snapshot /\ disk' = disk
    BY <1>14, <1>h DEF RollbackDone, InTransaction, Backward
  <2>2. fs.current = snap[a].previous /\ CommittedIn(fs) = fs.current
    BY <2>1 DEF LinksInv, KnowsPointer, CommittedIn
  <2>3. fs' = fs \/ (fs'.pending = None /\ fs'.current = fs.current)
    BY <1>14, <1>t DEF RollbackDone, Volume
  <2>4. CommittedIn(fs') = CommittedIn(fs)
    BY <2>2, <2>3 DEF CommittedIn
  <2>5. (a \in Engine /\ Report(a, "failed")) \/ UNCHANGED <<req, outcome>>
    BY <1>14 DEF RollbackDone, RollbackEnds
  <2> QED
    BY <1>a, <1>c, <2>1, <2>4, <2>5
<1>15. ASSUME BootStep PROVE Goal
  BY <1>15, <1>a DEF BootStep, Recover, BootTimezone
<1>16. ASSUME BootStart \/ MinerExit \/ Respawn \/ OperatorStart PROVE Goal
  BY <1>16, <1>a DEF BootStart, MinerExit, Respawn, OperatorStart
<1>17. ASSUME Writeback PROVE Goal
  <2>1. disk' = fs /\ UNCHANGED <<fs, req, outcome>>
    BY <1>17, <1>t DEF Writeback
  <2> QED
    BY <1>b, <2>1
<1>18. ASSUME Crash PROVE Goal
  BY <1>18 DEF Crash, Store!Next, Store!Crash, Store!Idle
<1>19. CASE UNCHANGED vars
  BY <1>19, <1>a DEF vars
<1> QED
  BY <1>1, <1>2, <1>3, <1>4, <1>5, <1>6, <1>7, <1>8, <1>9, <1>10, <1>11, <1>12, <1>13, <1>14, <1>15,
     <1>16, <1>17, <1>18, <1>19
  DEF Next, EngineStep, RollbackStep

\* TransactionImplementsStore: on a disk that keeps the record's data and unlinks
\* what it is asked to, any number of engines whose snapshots are in time, their
\* failures, their rollbacks, the recovery at boot and the power cuts between are
\* together a register: what is reported applied was committed, what is reported
\* failed was not.
THEOREM TransactionImplementsStore ==
  ASSUME "torn" \notin Env, "forget" \notin Env
  PROVE  TimelySpec => ImplementsStore
<1>1. Init => Store!Init
  BY RecordAssumption DEF Init, EmptyVolume, CommittedIn, Store!Init, Store!Idle
<1>2. LinksInv /\ PointerInv /\ [Next]_vars => [Store!Next]_(Store!vars)
  BY StepImplements DEF PointerInv
<1> QED
  BY <1>1, <1>2, LinksInvariant, TimelySteps, PointerInvariant, PTL DEF Spec, ImplementsStore, Store!Spec
=============================================================================
