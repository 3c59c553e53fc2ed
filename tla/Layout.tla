------------------------------- MODULE Layout -------------------------------
(***************************************************************************)
(* Which stick rigos-state-init takes for its own: validate_layout, over   *)
(* what lsblk reports of the disks, what sfdisk reads from the partition   *)
(* table, and the manifest the image was built with.                       *)
(*                                                                         *)
(* A disk is a record; its partitions are a function from kernel device    *)
(* numbers.  Sizes and offsets are in sectors.                             *)
(***************************************************************************)
EXTENDS Naturals, FiniteSets

CONSTANTS
  Contract,      \* the manifest's partitions: number -> [label, type, start, size]
  Final,         \* final_state_partition
  MinimumMedia,  \* minimum_media_size_bytes
  ImageId        \* disk_guid

\* What the image build writes: the EFI partition is number 1, and no partition
\* starts behind the state partition.
ASSUME ContractAssumption ==
  /\ {1, Final} \subseteq DOMAIN Contract
  /\ \A number \in DOMAIN Contract : {Contract[number].start, Contract[number].size} \subseteq Nat
  /\ \A number \in DOMAIN Contract : Contract[number].start <= Contract[Final].start

StateLabel == {"RIGOS_STATE_SEED", "RIGOS_STATE"}
RootLabel == {"RIGOS_ROOT_A", "RIGOS_ROOT_B"}

\* boot_parent_disk
HoldsBoot(disk, boot) == disk.type = "disk" /\ boot \in DOMAIN disk.children

WritableUsb(disk) == disk.tran = "usb" /\ ~disk.ro

\* Faulty variant: knows the state partition by its seed label only.
FaultyChildMatches(child) ==
  /\ child.number \in DOMAIN Contract
  /\ child.label = Contract[child.number].label
  /\ child.type = Contract[child.number].type
  /\ child.id = child.number
  /\ child.start = Contract[child.number].start
  /\ child.size >= Contract[child.number].size

\* What lsblk says of a partition.
ChildMatches(child) ==
  /\ child.number \in DOMAIN Contract
  /\ child.label \in IF child.number = Final THEN StateLabel
                                             ELSE {Contract[child.number].label}
  /\ child.type = Contract[child.number].type
  /\ child.id = child.number
  /\ child.start = Contract[child.number].start
  /\ child.size >= Contract[child.number].size

\* What sfdisk says of the entry at a place of the table.
EntryMatches(number, entry) ==
  /\ number \in DOMAIN Contract
  /\ entry.start = Contract[number].start
  /\ entry.size >= Contract[number].size
  /\ entry.type = Contract[number].type
  /\ entry.bootable = (number = 1)

\* A mount that the caller does not vouch for; the running root is its own.
Unexpected(disk, boot, stateMount) ==
  \E dev \in DOMAIN disk.children \ {boot} :
    LET child == disk.children[dev]
    IN child.mounts \ (IF child.number = Final THEN stateMount ELSE {}) # {}

\* validate_layout with stateMount = {}, validate_layout_for_attestation with
\* the mount point of the state partition.
Validates(disk, table, boot, stateMount) ==
  /\ table.label = "dos" /\ table.id = ImageId
  /\ HoldsBoot(disk, boot)
  /\ WritableUsb(disk)
  /\ disk.table = "dos" /\ disk.id = ImageId
  /\ disk.size >= MinimumMedia
  /\ Cardinality(DOMAIN disk.children) = Cardinality(DOMAIN Contract)
  /\ Cardinality(DOMAIN table.entry) = Cardinality(DOMAIN Contract)
  /\ \A dev \in DOMAIN disk.children : ChildMatches(disk.children[dev])
  /\ \A number \in DOMAIN table.entry : EntryMatches(number, table.entry[number])
  /\ disk.children[boot].label \in RootLabel
  /\ \E dev \in DOMAIN disk.children :
       /\ disk.children[dev].number = Final
       /\ \A other \in DOMAIN disk.children :
            disk.children[other].start <= disk.children[dev].start
  /\ \E dev \in DOMAIN disk.children : disk.children[dev].number = 1
  /\ ~Unexpected(disk, boot, stateMount)
=============================================================================
