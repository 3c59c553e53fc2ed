-------------------------- MODULE Appliance_proofs --------------------------
(***************************************************************************)
(* Proofs about rigos-state-init and about the appliance around it, for    *)
(* every geometry of the stick, every set of faults and any number of      *)
(* boots.                                                                  *)
(***************************************************************************)
EXTENDS Appliance, TLAPS

(***************************************************************************)
(* rigos-state-init.  ReadyMeansWhole is not inductive: it needs to know,  *)
(* at each step, what the earlier ones have established on this boot, and  *)
(* that what an interrupted boot leaves behind is never larger than it     *)
(* should be.                                                              *)
(***************************************************************************)
AfterAttest == Step \ {"discover", "attest", "done"}
AfterGrow == {"fsck", "resize", "label", "mount", "node", "record", "unlock"}
AfterResize == {"label", "mount", "node", "record", "unlock"}
AfterLabel == {"mount", "node", "record", "unlock"}
AfterMount == {"node", "record", "unlock"}
AfterNode == {"record", "unlock"}

\* The file system never reaches beyond its partition, nor the kernel's
\* partition beyond the one in the table, nor that one beyond the stick; and the
\* partition never gets smaller than the seed.
Fits ==
  /\ SeedSize <= kernel
  /\ media.fs <= kernel
  /\ kernel <= media.size
  /\ media.size <= IntendedSize

Established ==
  /\ step \in AfterAttest => attested
  /\ step \in AfterGrow => kernel = IntendedSize
  /\ step \in AfterResize => media.fs = IntendedSize
  /\ step \in AfterLabel => media.label = "RIGOS_STATE"
  /\ step \in AfterMount => mounted
  /\ step \in AfterNode => media.node # None
  /\ step = "unlock" => media.record = IntendedSize
  /\ step # "done" => status = None

WholeInv == StateTypeOK /\ Fits /\ Established /\ ReadyMeansWhole

LEMMA Geometry ==
  /\ IntendedSize \in Nat /\ SeedSize \in Nat /\ SeedSize <= IntendedSize
  /\ None \notin Nat \cup Outcome
  BY GeometryAssumption, ContractAssumption DEF SeedSize

USE DEF Step, Outcome, Blocked

\* What a resize leaves behind when it is cut short: either size, any health.
LEMMA CutShortLeaves ==
  ASSUME StateTypeOK, NEW left \in CutShort
  PROVE  /\ left \in Media
         /\ left.fs \in {media.fs, kernel}
         /\ left.size = media.size /\ left.label = media.label
         /\ left.node = media.node /\ left.record = media.record
<1>1. CASE media.fs = kernel
  BY <1>1 DEF CutShort, StateTypeOK
<1>2. CASE media.fs # kernel
  <2>1. PICK volume \in {media, Resized}, health \in {"clean", "dirty", "broken"} :
          left = [volume EXCEPT !.health = health]
    BY <1>2 DEF CutShort
  <2>2. volume \in Media
    BY DEF Resized, StateTypeOK, Media
  <2>3. /\ volume.fs \in {media.fs, kernel}
        /\ volume.size = media.size /\ volume.label = media.label
        /\ volume.node = media.node /\ volume.record = media.record
    BY DEF Resized, StateTypeOK, Media
  <2> QED BY <2>1, <2>2, <2>3 DEF Media
<1> QED BY <1>1, <1>2

\* The initial state: the seed image on a stick that is large enough for it.
LEMMA InitWhole == StateInit => WholeInv
<1> SUFFICES ASSUME StateInit PROVE WholeInv
  OBVIOUS
<1>1. media \in Media
  BY Geometry DEF StateInit, Media
<1>2. StateTypeOK
  BY <1>1, Geometry DEF StateInit, StateTypeOK
<1>3. Fits
  BY Geometry DEF StateInit, Fits
<1>4. status \notin {"ready", "grown"}
  BY Geometry DEF StateInit
<1>5. Established
  BY DEF StateInit, Established, AfterAttest, AfterGrow, AfterResize, AfterLabel,
         AfterMount, AfterNode
<1> QED BY <1>2, <1>3, <1>4, <1>5 DEF WholeInv, ReadyMeansWhole

\* A step of rigos-state-init, the loss of the evidence, or a power cut.
LEMMA StepWhole == WholeInv /\ [StateNext]_stateVars => WholeInv'
<1> USE Geometry DEF WholeInv, StateTypeOK, Fits, Established, ReadyMeansWhole,
        Media, AfterAttest, AfterGrow, AfterResize, AfterLabel, AfterMount, AfterNode,
        Limited, Proceed, Conclude
<1> SUFFICES ASSUME WholeInv, [StateNext]_stateVars PROVE WholeInv'
  OBVIOUS
<1>1. CASE Discover
  <2>1. step = "discover" /\ attested' = FALSE /\ UNCHANGED <<boot, cmdline, media, kernel, mounted, grown>>
    BY <1>1 DEF Discover
  <2>2. \/ step' = "attest" /\ status' = status
        \/ step' = "done" /\ (status' \in Outcome \ {"ready", "grown"} \/ status' = status)
    BY <1>1 DEF Discover
  <2>3. status = None
    BY <2>1
  <2>4. status' \in (Outcome \cup {None}) \ {"ready", "grown"}
    BY <2>2, <2>3
  <2>5. StateTypeOK'
    BY <2>1, <2>2, <2>4
  <2>6. Fits'
    BY <2>1
  <2>7. Established' /\ ReadyMeansWhole'
    BY <2>1, <2>2, <2>3, <2>4
  <2> QED BY <2>5, <2>6, <2>7
<1>2. CASE Attest
  <2>1. step = "attest" /\ attested' \in BOOLEAN /\ UNCHANGED <<boot, cmdline, media, kernel, mounted, grown>>
    BY <1>2 DEF Attest
  <2>2. \/ step' = "lock" /\ status' = status /\ attested'
        \/ step' = "done" /\ (status' = "limited_capacity" \/ status' = status)
    BY <1>2 DEF Attest
  <2>3. status = None
    BY <2>1
  <2>4. status' \in (Outcome \cup {None}) \ {"ready", "grown"}
    BY <2>2, <2>3
  <2> QED BY <2>1, <2>2, <2>3, <2>4
<1>3. CASE Lock  BY <1>3 DEF Lock
<1>4. CASE Sfdisk  BY <1>4 DEF Sfdisk
<1>5. CASE Partx  BY <1>5 DEF Partx
<1>6. CASE Verify
  <2>1. UNCHANGED <<boot, cmdline, media, kernel, mounted, attested>> /\ grown' \in BOOLEAN
    BY <1>6 DEF Verify
  <2>2. \/ step' = "fsck" /\ kernel = IntendedSize /\ status' = status
        \/ step' = "done" /\ status' \in Outcome \ {"ready", "grown"}
        \/ step' = "done" /\ status' = status
    BY <1>6 DEF Verify
  <2>3. step = "verify"
    BY <1>6 DEF Verify
  <2> QED BY <2>1, <2>2, <2>3
<1>7. CASE Fsck  BY <1>7 DEF Fsck
<1>8. CASE Resize  BY <1>8, CutShortLeaves DEF Resize, Resized
<1>9. CASE Label  BY <1>9 DEF Label
<1>10. CASE Mount
  <2>1. step = "mount" /\ UNCHANGED <<boot, cmdline, kernel, grown, attested>>
    BY <1>10 DEF Mount
  <2>2. (Mounting /\ Proceed("node")) \/ (Limited("mount") /\ (Mounting \/ UNCHANGED <<mounted, media>>))
    BY <1>10 DEF Mount
  <2>3. CASE Mounting
    BY <2>1, <2>2, <2>3 DEF Mounting
  <2>4. CASE Limited("mount") /\ UNCHANGED <<mounted, media>>
    BY <2>1, <2>4
  <2> QED BY <2>2, <2>3, <2>4
<1>11. CASE WriteNode  BY <1>11 DEF WriteNode, WithNode
<1>12. CASE WriteRecord  BY <1>12 DEF WriteRecord, WithRecord
<1>13. CASE Unlock  BY <1>13 DEF Unlock
<1>14. CASE EvidenceLost
  <2>1. /\ step = "done" /\ attested' = FALSE /\ status' = None
        /\ UNCHANGED <<boot, cmdline, media, kernel, mounted, grown, step>>
    BY <1>14 DEF EvidenceLost
  <2>2. StateTypeOK' /\ Fits'
    BY <2>1
  <2>3. Established' /\ ReadyMeansWhole'
    BY <2>1
  <2> QED BY <2>2, <2>3
<1>15. CASE PowerCut
  <2>1. /\ media' \in Media /\ media'.size = media.size
        /\ media'.fs \in {media.fs, kernel}
    BY <1>15, CutShortLeaves DEF PowerCut
  <2>2. Fits'
    BY <1>15, <2>1 DEF PowerCut
  <2>3. status' \notin {"ready", "grown"}
    BY <1>15 DEF PowerCut
  <2>4. StateTypeOK'
    <3>1. boot' \in Nat /\ kernel' \in Nat
      BY <1>15 DEF PowerCut
    <3>2. /\ cmdline' \in {"normal", "nomine", "stateless"}
          /\ mounted' \in BOOLEAN /\ grown' \in BOOLEAN /\ attested' \in BOOLEAN
          /\ status' = None /\ step' \in Step
      BY <1>15 DEF PowerCut, Step
    <3> HIDE DEF Media
    <3> QED BY <2>1, <3>1, <3>2
  <2>5. Established'
    BY <1>15 DEF PowerCut
  <2> QED BY <2>2, <2>3, <2>4, <2>5
<1>16. CASE UNCHANGED stateVars  BY <1>16 DEF stateVars
<1> QED
  BY <1>1, <1>2, <1>3, <1>4, <1>5, <1>6, <1>7, <1>8, <1>9, <1>10, <1>11, <1>12, <1>13,
     <1>14, <1>15, <1>16 DEF StateNext, Command

LEMMA Whole == StateSpec => []WholeInv
<1> QED BY InitWhole, StepWhole, PTL DEF StateSpec

\* Type correctness of rigos-state-init.
THEOREM StateTypeCorrect == StateSpec => []StateTypeOK
<1>1. WholeInv => StateTypeOK  BY DEF WholeInv
<1> QED BY <1>1, Whole, PTL

\* ReadyMeansWhole, for every geometry, every fault and any number of boots.
THEOREM ReadyStateIsWhole == StateSpec => []ReadyMeansWhole
<1>1. WholeInv => ReadyMeansWhole  BY DEF WholeInv
<1> QED BY <1>1, Whole, PTL

\* OwnStickRecognised: the partitions but the last are those of the contract, and
\* of the last one WholeInv says that it is no smaller and has one of its labels.
THEOREM OwnStickIsRecognised == StateSpec => []OwnStickRecognised
<1>1. WholeInv => OwnStickRecognised
  <2> SUFFICES ASSUME WholeInv,
                      NEW stateMount, mounted => "state" \in stateMount
               PROVE  Recognised({}, stateMount)
    BY DEF OwnStickRecognised
  <2> DEFINE stick == Stick({})
             child(n) == Partition(n, {})
  <2>1. /\ DOMAIN stick.children = DOMAIN Contract
        /\ \A n \in DOMAIN Contract : stick.children[n] = child(n)
    BY DEF Stick
  <2>2. /\ DOMAIN Table.entry = DOMAIN Contract
        /\ \A n \in DOMAIN Contract : Table.entry[n] = Entry(n)
    BY DEF Table
  <2>3. /\ media.label \in StateLabel
        /\ kernel >= Contract[Final].size /\ media.size >= Contract[Final].size
    BY ContractAssumption DEF WholeInv, StateTypeOK, Media, StateLabel, Fits, SeedSize
  <2>4. \A n \in DOMAIN Contract : Contract[n].size >= Contract[n].size
    BY ContractAssumption
  <2>5. \A n \in DOMAIN Contract : ChildMatches(child(n))
    BY <2>3, <2>4 DEF ChildMatches, Partition
  <2>6. \A n \in DOMAIN Contract : EntryMatches(n, Entry(n))
    <3> SUFFICES ASSUME NEW n \in DOMAIN Contract PROVE EntryMatches(n, Entry(n))
      OBVIOUS
    <3>1. Entry(n).bootable = (n = 1)
      BY Zenon DEF Entry
    <3>2. Entry(n).start = Contract[n].start /\ Entry(n).type = Contract[n].type
      BY Zenon DEF Entry
    <3>3. Entry(n).size = IF n = Final THEN media.size ELSE Contract[n].size
      BY Zenon DEF Entry
    <3>4. Entry(n).size >= Contract[n].size
      BY <2>3, <2>4, <3>3
    <3> QED BY <3>1, <3>2, <3>4, Zenon DEF EntryMatches
  <2>7. /\ Table.label = "dos" /\ Table.id = ImageId
        /\ stick.type = "disk" /\ WritableUsb(stick)
        /\ stick.table = "dos" /\ stick.id = ImageId
        /\ stick.size >= MinimumMedia
    BY GeometryAssumption DEF Table, Stick, WritableUsb
  <2>8. HoldsBoot(stick, Root) /\ stick.children[Root].label \in RootLabel
    <3>1. Root \in DOMAIN Contract /\ Root # Final /\ Contract[Root].label \in RootLabel
      BY GeometryAssumption
    <3>2. child(Root).label = Contract[Root].label
      BY <3>1 DEF Partition
    <3> QED BY <2>1, <2>7, <3>1, <3>2 DEF HoldsBoot
  <2>9. /\ \E n \in DOMAIN Contract :
             /\ child(n).number = Final
             /\ \A other \in DOMAIN Contract : child(other).start <= child(n).start
        /\ \E n \in DOMAIN Contract : child(n).number = 1
    BY ContractAssumption DEF Partition
  <2>10. ~Unexpected(stick, Root, stateMount)
    <3>1. \A n \in DOMAIN Contract \ {Root} :
            child(n).mounts \ (IF child(n).number = Final THEN stateMount ELSE {}) = {}
      BY DEF Partition
    <3> QED BY <2>1, <3>1 DEF Unexpected
  <2> HIDE DEF stick, child
  <2> QED BY <2>1, <2>2, <2>5, <2>6, <2>7, <2>8, <2>9, <2>10 DEF Recognised, Validates, stick
<1> QED BY <1>1, Whole, PTL

\* NodeIsForever: a step keeps an identity that is there, a power cut in the
\* middle of a resize included.
THEOREM NodeStaysForever == StateSpec => NodeIsForever
<1>1. StateTypeOK /\ [StateNext]_stateVars =>
        [media.node # None => media'.node = media.node]_stateVars
  <2> SUFFICES ASSUME StateTypeOK, StateNext, media.node # None
               PROVE  media'.node = media.node
    OBVIOUS
  <2>1. CASE Discover \/ Attest \/ Lock \/ Partx \/ Verify \/ Unlock \/ EvidenceLost
    BY <2>1 DEF Discover, Attest, Lock, Partx, Verify, Unlock, EvidenceLost
  <2>2. CASE Sfdisk \/ Fsck \/ Label \/ Mount
    BY <2>2 DEF Sfdisk, Fsck, Label, Mount, Mounting, StateTypeOK, Media
  <2>3. CASE Resize \/ PowerCut
    BY <2>3, CutShortLeaves DEF Resize, PowerCut, Resized, StateTypeOK, Media
  <2>4. CASE WriteNode \/ WriteRecord
    BY <2>4 DEF WriteNode, WithNode, WriteRecord, WithRecord, StateTypeOK, Media
  <2> QED BY <2>1, <2>2, <2>3, <2>4 DEF StateNext, Command
<1> QED BY <1>1, StateTypeCorrect, PTL DEF StateSpec, NodeIsForever

\* Fits: no boot, however it fails or loses power, leaves a file system that
\* reaches beyond its partition, or a partition beyond the end of the stick (a
\* resize uses the size the kernel knows, not the one the table is to have).
THEOREM FileSystemFits == StateSpec => []Fits
<1>1. WholeInv => Fits  BY DEF WholeInv
<1> QED BY <1>1, Whole, PTL

\* The stick only ever goes forward: what a boot has grown, resized or labelled
\* no later one takes back, and neither does a command that is cut short.
StickGoesForward ==
  /\ media.size <= media'.size /\ media.fs <= media'.fs
  /\ media.label = "RIGOS_STATE" => media'.label = "RIGOS_STATE"
  /\ media.record # None => media'.record = IntendedSize

\* A record, once there, is that of the intended size.
RecordTrue == media.record \in {None, IntendedSize}

LEMMA RecordKept == WholeInv /\ RecordTrue /\ [StateNext]_stateVars => RecordTrue'
<1> SUFFICES ASSUME WholeInv, RecordTrue, [StateNext]_stateVars  PROVE RecordTrue'
  OBVIOUS
<1> USE DEF RecordTrue, WholeInv
<1>1. CASE Discover \/ Attest \/ Lock \/ Partx \/ Verify \/ Unlock \/ EvidenceLost \/ UNCHANGED stateVars
  BY <1>1 DEF Discover, Attest, Lock, Partx, Verify, Unlock, EvidenceLost, stateVars
<1>2. CASE Sfdisk \/ Fsck \/ Label \/ Mount
  BY <1>2 DEF Sfdisk, Fsck, Label, Mount, Mounting, StateTypeOK, Media
<1>3. CASE Resize \/ PowerCut
  BY <1>3, CutShortLeaves DEF Resize, PowerCut, Resized, StateTypeOK, Media
<1>4. CASE WriteNode \/ WriteRecord
  BY <1>4 DEF WriteNode, WithNode, WriteRecord, WithRecord, StateTypeOK, Media
<1> QED BY <1>1, <1>2, <1>3, <1>4 DEF StateNext, Command

\* StickGoesForward, for every geometry, every fault and any number of boots.
THEOREM StickNeverGoesBack == StateSpec => [][StickGoesForward]_stateVars
<1>1. StateInit => RecordTrue
  BY DEF StateInit, RecordTrue
<1>2. WholeInv /\ RecordTrue /\ [StateNext]_stateVars => [StickGoesForward]_stateVars
  <2> SUFFICES ASSUME WholeInv, RecordTrue, StateNext  PROVE StickGoesForward
    OBVIOUS
  <2> USE Geometry DEF WholeInv, Fits, RecordTrue
  <2>1. /\ media.size \in Nat /\ media.fs \in Nat /\ kernel \in Nat /\ media \in Media
        /\ media.fs <= kernel /\ media.size <= IntendedSize
    BY DEF StateTypeOK, Media
  <2>2. CASE Discover \/ Attest \/ Lock \/ Partx \/ Verify \/ Unlock \/ EvidenceLost
    <3>1. media' = media
      BY <2>2 DEF Discover, Attest, Lock, Partx, Verify, Unlock, EvidenceLost
    <3> QED BY <2>1, <3>1 DEF StickGoesForward
  <2>3. CASE Sfdisk \/ Fsck \/ Label \/ Mount
    <3>1. /\ media'.size \in {media.size, IntendedSize} /\ media'.fs = media.fs
          /\ media'.label \in {media.label, "RIGOS_STATE"} /\ media'.record = media.record
      BY <2>1, <2>3 DEF Sfdisk, Fsck, Label, Mount, Mounting, Media
    <3> QED BY <2>1, <3>1 DEF StickGoesForward
  <2>4. CASE Resize \/ PowerCut
    <3>1. /\ media'.size = media.size /\ media'.fs \in {media.fs, kernel}
          /\ media'.label = media.label /\ media'.record = media.record
      BY <2>1, <2>4, CutShortLeaves DEF Resize, PowerCut, Resized, Media
    <3> QED BY <2>1, <3>1 DEF StickGoesForward
  <2>5. CASE WriteNode \/ WriteRecord
    <3>1. /\ media'.size = media.size /\ media'.fs = media.fs /\ media'.label = media.label
          /\ media'.record \in {media.record, IntendedSize}
      BY <2>1, <2>5 DEF WriteNode, WithNode, WriteRecord, WithRecord, Media
    <3> QED BY <2>1, <3>1 DEF StickGoesForward
  <2> QED BY <2>2, <2>3, <2>4, <2>5 DEF StateNext, Command
<1> QED BY <1>1, <1>2, RecordKept, Whole, PTL DEF StateSpec

-----------------------------------------------------------------------------
(***************************************************************************)
(* What NegativeGate needs.  It is violated when the state partition is    *)
(* mounted and the outcome negative all the same, which takes a mount that *)
(* outlives its time or a failure after it; without those it holds.        *)
(***************************************************************************)
Negative == Blocked \cup {"limited_capacity"}

NegativeUnmounted ==
  /\ mounted => step \in AfterMount \cup {"done"}
  /\ status \in Negative => ~mounted

LEMMA NegativeKept ==
  ASSUME {"mount", "init", "unlock"} \cap Fault = {}, WholeInv, NegativeUnmounted, [StateNext]_stateVars
  PROVE  NegativeUnmounted'
<1> USE Geometry DEF NegativeUnmounted, Negative, AfterMount, Limited, Proceed, Conclude, MayFail
<1>1. step # "done" => status = None
  BY DEF WholeInv, Established
<1>2. step \in AfterMount => mounted
  BY DEF WholeInv, Established
<1>3. CASE Discover \/ Attest \/ Lock
  BY <1>1, <1>3 DEF Discover, Attest, Lock
<1>4. CASE Sfdisk \/ Partx \/ Verify
  BY <1>1, <1>4 DEF Sfdisk, Partx, Verify
<1>5. CASE Fsck \/ Resize \/ Label
  BY <1>1, <1>5 DEF Fsck, Resize, Label
<1>6. CASE Mount \/ WriteNode \/ WriteRecord \/ Unlock
  BY <1>1, <1>2, <1>6 DEF Mount, WriteNode, WriteRecord, Unlock
<1>7. CASE EvidenceLost \/ PowerCut \/ UNCHANGED stateVars
  BY <1>1, <1>7 DEF EvidenceLost, PowerCut, stateVars
<1> QED BY <1>3, <1>4, <1>5, <1>6, <1>7 DEF StateNext, Command

\* If every mount that is given up has not mounted, and nothing fails after it, a
\* negative outcome leaves the state partition unmounted.
THEOREM NegativeMeansUnmounted ==
  ASSUME {"mount", "init", "unlock"} \cap Fault = {}
  PROVE  StateSpec => [](status \in Negative => ~mounted)
<1>1. StateInit => NegativeUnmounted
  BY Geometry DEF StateInit, NegativeUnmounted, Negative
<1>2. WholeInv /\ NegativeUnmounted /\ [StateNext]_stateVars => NegativeUnmounted'
  BY NegativeKept
<1>3. NegativeUnmounted => (status \in Negative => ~mounted)
  BY DEF NegativeUnmounted
<1> QED BY <1>1, <1>2, <1>3, Whole, PTL DEF StateSpec

-----------------------------------------------------------------------------
(***************************************************************************)
(* The appliance.  To the state partition it does only what                *)
(* rigos-state-init, the loss of the evidence and a power cut do, so that  *)
(* what holds of those holds of a whole boot; and the dialog is past its   *)
(* gate only while the state partition is mounted.                         *)
(***************************************************************************)
\* What a step of the appliance is for rigos-state-init: one of its commands,
\* the loss of the evidence, a power cut, or nothing.
LEMMA StepOfState == [Next]_vars => [StateNext]_stateVars
<1> USE DEF StateNext
<1> SUFFICES ASSUME [Next]_vars PROVE [StateNext]_stateVars
  OBVIOUS
<1>1. CASE InitializeState  BY <1>1 DEF InitializeState
<1>2. CASE ApplyProfile  BY <1>2 DEF ApplyProfile
<1>3. CASE StartMiner  BY <1>3 DEF StartMiner
<1>4. CASE MinerExit  BY <1>4 DEF MinerExit
<1>5. CASE DialogStep
  <2>1. CASE BeginFirstboot \/ Gate \/ Prepare \/ MountEfi \/ Identify \/ ReadSource
    BY <2>1 DEF BeginFirstboot, Gate, Prepare, MountEfi, Identify, ReadSource
  <2>2. CASE Cleanup \/ AskOperator \/ LeaveUnconfigured
    BY <2>2 DEF Cleanup, AskOperator, LeaveUnconfigured
  <2>3. CASE \E mode \in StartMode : Commit(mode)
    BY <2>3 DEF Commit
  <2>4. CASE CommitFails
    BY <2>4 DEF CommitFails
  <2> QED BY <1>5, <2>1, <2>2, <2>3, <2>4 DEF DialogStep
<1>6. CASE OperatorRetries  BY <1>6 DEF OperatorRetries
<1>7. CASE Reset  BY <1>7 DEF Reset
<1>8. CASE UNCHANGED vars  BY <1>8 DEF vars, stateVars
<1> QED BY <1>1, <1>2, <1>3, <1>4, <1>5, <1>6, <1>7, <1>8 DEF Next

\* The appliance implements the specification of rigos-state-init: whatever the
\* units and the dialog do around it, the stick sees nothing else.
THEOREM ImplementsState == Spec => StateSpec
<1>1. Init => StateInit  BY DEF Init
<1> QED BY <1>1, StepOfState, PTL DEF Spec, StateSpec

\* ReadyMeansWhole holds of the whole appliance.
THEOREM ReadyApplianceIsWhole == Spec => []ReadyMeansWhole
<1> QED BY ImplementsState, ReadyStateIsWhole, PTL

\* OwnStickRecognised holds of the whole appliance.
THEOREM OwnStickRecognisedAlways == Spec => []OwnStickRecognised
<1> QED BY ImplementsState, OwnStickIsRecognised, PTL

\* NodeIsForever holds of the whole appliance.
THEOREM ApplianceKeepsNode == Spec => NodeIsForever
<1> QED BY ImplementsState, NodeStaysForever, PTL
-----------------------------------------------------------------------------
\* The steps of the dialog behind its gate.
Inside == Dialog \ {"waiting", "gate", "ended"}

\* The dialog is past its gate only on a mounted state partition, nothing is
\* ever written under the mount point, and what it is about to unmount is mounted
\* read-only.
DialogInv ==
  /\ TypeOK
  /\ firstboot \in Inside => mounted
  /\ overlay = None
  /\ UnmountedMeansUntouched
  /\ firstboot \in {"identify", "read", "cleanup"} => stage = "ro"
  /\ EfiIntact

LEMMA InitDialog == Init => DialogInv
<1> SUFFICES ASSUME Init PROVE DialogInv
  OBVIOUS
<1>1. StateTypeOK  BY InitWhole DEF Init, WholeInv
<1> QED BY <1>1 DEF Init, DialogInv, TypeOK, Inside, Dialog, UnmountedMeansUntouched, EfiIntact

\* The unit that mounts the partition never unmounts it.
LEMMA StaysMounted == Command => (mounted => mounted')
<1> QED BY DEF Command, Discover, Attest, Lock, Sfdisk, Partx, Verify, Fsck, Resize, Label,
               Mount, Mounting, WriteNode, WriteRecord, Unlock

\* A step of the appliance, in a state where the outcome tells what is mounted.
LEMMA StepDialog == DialogInv /\ ReadyMeansWhole /\ StateTypeOK' /\ [Next]_vars => DialogInv'
<1> SUFFICES ASSUME DialogInv, ReadyMeansWhole, StateTypeOK', [Next]_vars
             PROVE  DialogInv'
  OBVIOUS
<1> USE DEF DialogInv, TypeOK, UnmountedMeansUntouched, EfiIntact, Configured, Dialog,
            Inside, Ask, EvidenceLost, machine, dialog, stateVars
<1>1. CASE InitializeState
  BY <1>1, StaysMounted DEF InitializeState
<1>2. CASE ApplyProfile  BY <1>2 DEF ApplyProfile
<1>3. CASE StartMiner
  <2>1. UNCHANGED <<config, overlay, zone, profile, dialog, mounted>> /\ startJob' \in BOOLEAN
    BY <1>3 DEF StartMiner
  <2>2. miner' \in BOOLEAN
    BY <1>3 DEF StartMiner
  <2>3. ~mounted => miner' = miner
    BY <1>3, TroubleAssumption DEF StartMiner, StartMode
  <2> QED BY <2>1, <2>2, <2>3
<1>4. CASE MinerExit  BY <1>4 DEF MinerExit
<1>5. CASE DialogStep
  <2>1. CASE BeginFirstboot  BY <2>1 DEF BeginFirstboot
  <2>2. CASE Gate  BY <2>2 DEF Gate, ReadyMeansWhole
  <2>3. CASE Prepare  BY <2>3 DEF Prepare
  <2>4. CASE MountEfi  BY <2>4 DEF MountEfi
  <2>5. CASE Identify
    <3>1. UNCHANGED <<stateVars, config, overlay, machine>> /\ firstboot' \in {"read", "ask"}
      BY <2>5 DEF Identify
    <3>2. stage' \in {stage, "none"} /\ efi' = efi
      BY <2>5 DEF Identify, LeaveStage
    <3>3. mounted /\ stage = "ro"
      BY <2>5 DEF Identify
    <3>4. firstboot' = "read" => stage' = stage
      BY <2>5 DEF Identify
    <3>5. stage' \in {"none", "ro"} /\ firstboot' \in Inside
      BY <3>1, <3>2, <3>3
    <3> QED BY <3>1, <3>2, <3>3, <3>4, <3>5
  <2>6. CASE ReadSource  BY <2>6 DEF ReadSource
  <2>7. CASE Cleanup
    <3>1. UNCHANGED <<stateVars, config, overlay, machine>> /\ firstboot' \in {"identity", "ask"}
      BY <2>7 DEF Cleanup
    <3>2. stage' \in {stage, "none"} /\ efi' = efi
      BY <2>7 DEF Cleanup, LeaveStage
    <3>3. mounted
      BY <2>7 DEF Cleanup
    <3> QED BY <3>1, <3>2, <3>3
  <2>8. CASE AskOperator  BY <2>8 DEF AskOperator
  <2>9. CASE LeaveUnconfigured  BY <2>9 DEF LeaveUnconfigured
  <2>10. CASE \E mode \in StartMode : Commit(mode)
    <3>1. PICK mode \in StartMode : Commit(mode)
      BY <2>10
    <3>2. mounted
      BY <3>1 DEF Commit
    <3>3. /\ UNCHANGED <<stateVars, profile, stage, efi, overlay>>
          /\ startJob' = FALSE /\ config' = mode /\ zone' = "profile" /\ firstboot' = "ended"
      BY <3>1, <3>2 DEF Commit
    <3>4. miner' \in BOOLEAN
      BY <3>1 DEF Commit
    <3> QED BY <3>2, <3>3, <3>4
  <2>11. CASE CommitFails
    <3>1. UNCHANGED <<config, overlay, zone, profile, miner, stage, efi, mounted>>
      BY <2>11 DEF CommitFails
    <3>2. startJob' = FALSE /\ firstboot' = "ended" /\ mounted
      BY <2>11 DEF CommitFails
    <3> QED BY <3>1, <3>2
  <2> QED BY <1>5, <2>1, <2>2, <2>3, <2>4, <2>5, <2>6, <2>7, <2>8, <2>9, <2>10, <2>11
          DEF DialogStep
<1>6. CASE OperatorRetries  BY <1>6 DEF OperatorRetries
<1>7. CASE Reset  BY <1>7 DEF Reset, PowerCut
<1>8. CASE UNCHANGED vars  BY <1>8 DEF vars
<1> QED BY <1>1, <1>2, <1>3, <1>4, <1>5, <1>6, <1>7, <1>8 DEF Next

LEMMA DialogHolds == Spec => []DialogInv
<1>1. StateSpec => []StateTypeOK  BY StateTypeCorrect
<1> QED BY <1>1, InitDialog, StepDialog, ImplementsState, ReadyApplianceIsWhole, PTL DEF Spec

\* Type correctness of the appliance.
THEOREM TypeCorrect == Spec => []TypeOK
<1>1. DialogInv => TypeOK  BY DEF DialogInv
<1> QED BY <1>1, DialogHolds, PTL

\* UnmountedMeansUntouched, for every geometry, every fault and any number of boots.
THEOREM UnmountedStaysUntouched == Spec => []UnmountedMeansUntouched
<1>1. DialogInv => UnmountedMeansUntouched  BY DEF DialogInv
<1> QED BY <1>1, DialogHolds, PTL

\* EfiIntact: the staging mount is read-only whenever the directory is removed.
THEOREM EfiStaysIntact == Spec => []EfiIntact
<1>1. DialogInv => EfiIntact  BY DEF DialogInv
<1> QED BY <1>1, DialogHolds, PTL

\* FileSystemFits and StickNeverGoesBack hold of the whole appliance.
THEOREM ApplianceKeepsStick == Spec => []Fits /\ [][StickGoesForward]_stateVars
<1> QED BY ImplementsState, FileSystemFits, StickNeverGoesBack, PTL

\* NegativeGate, violated in general, holds without those three faults, whatever
\* else fails and whatever the dialog, the miner and the units do: they are the
\* whole reason that it is violated.
THEOREM NegativeGateHolds ==
  ASSUME {"mount", "init", "unlock"} \cap Fault = {}
  PROVE  Spec => []NegativeGate
<1>1. (status \in Negative => ~mounted) /\ DialogInv => NegativeGate
  BY DEF NegativeGate, Negative, DialogInv, UnmountedMeansUntouched
<1> QED BY <1>1, DialogHolds, ImplementsState, NegativeMeansUnmounted, PTL
=============================================================================
