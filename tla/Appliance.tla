------------------------------ MODULE Appliance ------------------------------
(***************************************************************************)
(* A boot of the appliance: rigos-state-init, then the profile unit, then  *)
(* the miner's start job and, on an unconfigured rig, the first-boot       *)
(* dialog, which imports a configuration from the verified EFI partition   *)
(* (or asks for one) and commits it.  What each unit may do depends on the *)
(* status and attestation files, on what is mounted, and on the command    *)
(* line.  The commit itself is one step here: see ConfigTransaction.       *)
(***************************************************************************)
EXTENDS StateInit

CONSTANT Trouble  \* what may go wrong outside rigos-state-init

Troubles == {"efi",       \* revalidation, or mounting the EFI partition, fails
             "identity",  \* findmnt cannot be run, or names another device
             "umount",    \* the EFI partition stays mounted
             "password",  \* the administrator's password is not established
             "zone",      \* recover or timezone fails in the profile unit
             "source",    \* the configuration on it does not parse
             "commit",    \* the transaction fails and is rolled back
             "exit"}      \* XMRig dies

StartMode == {"manual", "on_boot"}

ASSUME TroubleAssumption == Trouble \subseteq Troubles /\ None \notin StartMode

VARIABLES
  config,     \* the miner start mode configured on the state partition
  overlay,    \* the one in /var/lib/rigos of the volatile root, under the mount
  zone,       \* the timezone in force: the image's or the profile's
  profile,    \* rigos-profile-apply.service has ended
  startJob,   \* a start of rigos-miner.service is due
  miner,      \* XMRig runs
  firstboot,  \* the step the first-boot dialog is at
  stage,      \* how the EFI partition is mounted on a staging directory
  efi         \* the contents of the EFI partition

machine == <<zone, profile, startJob, miner>>
dialog == <<firstboot, stage, efi>>
vars == <<stateVars, config, overlay, machine, dialog>>

Dialog == {"waiting", "gate", "prepare", "mount", "identify", "read", "cleanup",
           "ask", "identity", "ended"}

Init ==
  /\ StateInit
  /\ config = None
  /\ overlay = None
  /\ zone = "image"
  /\ profile = FALSE
  /\ startJob = TRUE
  /\ miner = FALSE
  /\ firstboot = "waiting"
  /\ stage = "none"
  /\ efi = "intact"

May(trouble) == trouble \in Trouble

\* What is found under /var/lib/rigos.
Configured == IF mounted THEN config ELSE overlay
-----------------------------------------------------------------------------
(***************************************************************************)
(* The units.                                                              *)
(***************************************************************************)
\* rigos-state.service.  Only a boot finds the state partition unmounted, and
\* then nothing else on the stick is mounted but the root it runs from.
InitializeState == Command /\ UNCHANGED <<config, overlay, machine, dialog>>

\* Faulty variant: waits for a state that is ready instead of an ended unit.
FaultyApplyProfile ==
  /\ ~profile
  /\ status \in {"ready", "grown"}
  /\ profile' = TRUE
  /\ zone' = IF Configured = None THEN zone ELSE "profile"
  /\ UNCHANGED <<stateVars, config, overlay, startJob, miner, dialog>>

\* rigos-profile-apply.service: Requires= a unit that succeeds whatever it found.
\* Nothing requires this one: the others only wait for it to end.
ApplyProfile ==
  /\ ~profile
  /\ step = "done"
  /\ profile' = TRUE
  /\ \/ zone' = IF Configured = None THEN zone ELSE "profile"
     \/ May("zone") /\ UNCHANGED zone
  /\ UNCHANGED <<stateVars, config, overlay, startJob, miner, dialog>>

\* The gate: a refusal skips the unit, and skipping it ends it.
StartMiner ==
  /\ startJob
  /\ profile
  /\ startJob' = FALSE
  /\ \/ Configured = None /\ UNCHANGED <<miner, stateVars>>
     \/ /\ Configured = "on_boot" /\ cmdline = "normal"
        /\ miner' = TRUE
        /\ UNCHANGED stateVars
     \/ /\ Configured # None /\ ~(Configured = "on_boot" /\ cmdline = "normal")
        /\ UNCHANGED miner
        /\ EvidenceLost
  /\ UNCHANGED <<config, overlay, zone, profile, dialog>>

\* The unit ends, and is started again five seconds later.
MinerExit ==
  /\ May("exit")
  /\ miner
  /\ miner' = FALSE
  /\ startJob' = TRUE
  /\ EvidenceLost
  /\ UNCHANGED <<config, overlay, zone, profile, dialog>>
-----------------------------------------------------------------------------
(***************************************************************************)
(* rigos-firstboot.service.                                                *)
(***************************************************************************)
Ask(next) == firstboot' = next

BeginFirstboot ==
  /\ firstboot = "waiting"
  /\ profile
  /\ Ask(IF Configured = None THEN "gate" ELSE "ended")
  /\ UNCHANGED <<stateVars, config, overlay, machine, stage, efi>>

\* Faulty variant: refuses only the outcomes that are called blocked.
FaultyGate ==
  /\ firstboot = "gate"
  /\ Ask(IF status \in Blocked \cup {None} THEN "ended" ELSE "prepare")
  /\ UNCHANGED <<stateVars, config, overlay, machine, stage, efi>>

\* The administrator's password, and then the outcome of rigos-state-init.
Gate ==
  /\ firstboot = "gate"
  /\ \/ Ask(IF status \in {"ready", "grown"} THEN "prepare" ELSE "ended")
     \/ May("password") /\ Ask("ended")
  /\ UNCHANGED <<stateVars, config, overlay, machine, stage, efi>>

\* with_verified_efi: the evidence once more, and a dry run of rigos-state-init
\* against it, which accepts no mount of the stick but root and state.
Revalidated ==
  /\ attested /\ status \in {"ready", "grown"}
  /\ Recognised({stage} \ {"none"}, {"state"})

Prepare ==
  /\ firstboot = "prepare"
  /\ \/ Revalidated /\ Ask("mount")
     \/ ~Revalidated /\ Ask("ask")
     \/ May("efi") /\ Ask("ask")
  /\ UNCHANGED <<stateVars, config, overlay, machine, stage, efi>>

\* Faulty variant: mounts without `ro`.
FaultyMountEfi ==
  /\ firstboot = "mount"
  /\ \/ stage' = "rw" /\ Ask("identify")
     \/ May("efi") /\ Ask("ask") /\ UNCHANGED stage
  /\ UNCHANGED <<stateVars, config, overlay, machine, efi>>

MountEfi ==
  /\ firstboot = "mount"
  /\ \/ stage' = "ro" /\ Ask("identify")
     \/ May("efi") /\ Ask("ask") /\ UNCHANGED stage
  /\ UNCHANGED <<stateVars, config, overlay, machine, efi>>

\* umount, whose failure nobody sees, and then remove_dir_all of the staging
\* directory: what is still mounted there goes with it if it can be written.
LeaveStage ==
  \/ stage' = "none" /\ UNCHANGED efi
  \/ /\ May("umount")
     /\ UNCHANGED stage
     /\ efi' = IF stage = "ro" THEN efi ELSE "erased"

\* Is it the attested device?  If findmnt cannot be run nobody unmounts it.
Identify ==
  /\ firstboot = "identify"
  /\ \/ Ask("read") /\ UNCHANGED <<stage, efi>>
     \/ May("identity") /\ Ask("ask") /\ (LeaveStage \/ UNCHANGED <<stage, efi>>)
  /\ UNCHANGED <<stateVars, config, overlay, machine>>

ReadSource ==
  /\ firstboot = "read"
  /\ Ask("cleanup")
  /\ UNCHANGED <<stateVars, config, overlay, machine, stage, efi>>

Cleanup ==
  /\ firstboot = "cleanup"
  /\ LeaveStage
  /\ Ask("identity") \/ (May("source") /\ Ask("ask"))
  /\ UNCHANGED <<stateVars, config, overlay, machine>>

\* Retry the import, configure by hand, or give up.
AskOperator ==
  /\ firstboot = "ask"
  /\ \E choice \in {"prepare", "identity", "ended"} : Ask(choice)
  /\ UNCHANGED <<stateVars, config, overlay, machine, stage, efi>>

\* The operator picks no identity, which stops the miner's unit and what is
\* queued for it, or does not confirm.
LeaveUnconfigured ==
  /\ firstboot = "identity"
  /\ Ask("ended")
  /\ startJob' \in {startJob, FALSE}
  /\ UNCHANGED <<stateVars, config, overlay, zone, profile, miner, stage, efi>>

\* transact: the new configuration goes where /var/lib/rigos leads, the queued
\* start job is cancelled and the miner started if its mode and the boot allow.
Commit(mode) ==
  /\ firstboot = "identity"
  /\ Ask("ended")
  /\ startJob' = FALSE
  /\ config' = IF mounted THEN mode ELSE config
  /\ overlay' = IF mounted THEN overlay ELSE mode
  /\ zone' = "profile"
  /\ miner' = (mode = "on_boot" /\ cmdline = "normal")
  /\ UNCHANGED <<stateVars, profile, stage, efi>>

\* A failed transaction stopped the miner, perhaps one it had just started.
CommitFails ==
  /\ May("commit")
  /\ firstboot = "identity"
  /\ Ask("ended")
  /\ startJob' = FALSE
  /\ EvidenceLost \/ UNCHANGED stateVars
  /\ UNCHANGED <<config, overlay, zone, profile, miner, stage, efi>>

\* Somebody starts the unit again.
OperatorRetries ==
  /\ firstboot = "ended"
  /\ Configured = None
  /\ Ask("waiting")
  /\ UNCHANGED <<stateVars, config, overlay, machine, stage, efi>>

\* Everything but the stick is volatile.
Reset ==
  /\ PowerCut
  /\ overlay' = None
  /\ zone' = "image"
  /\ profile' = FALSE
  /\ startJob' = TRUE
  /\ miner' = FALSE
  /\ firstboot' = "waiting"
  /\ stage' = "none"
  /\ UNCHANGED <<config, efi>>
-----------------------------------------------------------------------------
DialogStep ==
  \/ BeginFirstboot \/ Gate \/ Prepare \/ MountEfi \/ Identify \/ ReadSource
  \/ Cleanup \/ AskOperator \/ LeaveUnconfigured
  \/ \E mode \in StartMode : Commit(mode)
  \/ CommitFails

Next ==
  \/ InitializeState \/ ApplyProfile \/ StartMiner \/ MinerExit
  \/ DialogStep \/ OperatorRetries
  \/ Reset

Spec == Init /\ [][Next]_vars

\* The units run; the operator, the miner and the power supply need not do anything.
Fairness ==
  /\ WF_vars(InitializeState)
  /\ WF_vars(ApplyProfile)
  /\ WF_vars(StartMiner)
  /\ WF_vars(BeginFirstboot)

FairSpec == Spec /\ Fairness
-----------------------------------------------------------------------------
TypeOK ==
  /\ StateTypeOK
  /\ config \in StartMode \cup {None}
  /\ overlay \in StartMode \cup {None}
  /\ zone \in {"image", "profile"}
  /\ profile \in BOOLEAN
  /\ startJob \in BOOLEAN
  /\ miner \in BOOLEAN
  /\ firstboot \in Dialog
  /\ stage \in {"none", "ro", "rw"}
  /\ efi \in {"intact", "erased"}

\* UnmountedMeansUntouched: while the state partition is not mounted nothing is
\* configured, mined or set to another timezone: no dialog ever commits to the
\* volatile directory under the mount point, where it would be lost.
UnmountedMeansUntouched == ~mounted => overlay = None /\ zone = "image" /\ ~miner

\* NegativeGate: "limited_capacity and every blocked outcome are negative gates
\* with zero config, timezone or miner mutation".
NegativeGate ==
  status \in Blocked \cup {"limited_capacity"} => overlay = None /\ zone = "image" /\ ~miner

\* EfiIntact: the source files on the EFI partition survive every import, the
\* ones whose umount fails before the staging directory is removed included.
EfiIntact == efi = "intact"

\* UnconfiguredReachesFirstboot: "Unconfigured boot still reaches firstboot on
\* tty1", whatever rigos-state-init made of the stick.
UnconfiguredReachesFirstboot ==
  \A b \in 0..MaxBoots :
    boot = b /\ step = "discover" ~> firstboot = "gate" \/ Configured # None \/ boot # b
=============================================================================
