------------------------------ MODULE StateInit ------------------------------
(***************************************************************************)
(* rigos-state-init: on every boot it proves which USB stick the appliance *)
(* booted from, attests it, grows the last partition to the end of the     *)
(* stick, checks, resizes and labels its file system, mounts it and writes *)
(* the node's identity and a layout record, one external command a step.   *)
(* Every command has 20 seconds and is killed after that; the power may go *)
(* at any time; the next boot starts from what the stick then holds.       *)
(***************************************************************************)
EXTENDS Layout

CONSTANTS
  DiskSectors,  \* size of the stick
  Alignment,    \* alignment_lba of the image manifest
  Root,         \* the partition the appliance booted from
  Fault,        \* what may go wrong: a subset of Faults
  MaxBoots,     \* bound on the number of boots
  None

(***************************************************************************)
(* The step that fails, or what cuts it short.                             *)
(***************************************************************************)
Faults == {"discovery", "attest", "lock", "sfdisk", "partx", "settle", "fsck",
           "resize", "label", "mount", "init", "unlock", "status", "crash"}

StateStart == Contract[Final].start
SeedSize == Contract[Final].size

\* The state partition reaches to the last aligned sector of the stick.
IntendedSize == (DiskSectors \div Alignment) * Alignment - StateStart

Blocked == {"blocked_layout_mismatch", "blocked_ambiguous_boot_device"}
Outcome == {"ready", "grown", "limited_capacity", "stateless"} \cup Blocked

\* minimum_media_size_bytes keeps sticks out on which the seed would not fit.
ASSUME GeometryAssumption ==
  /\ DiskSectors \in Nat /\ MaxBoots \in Nat
  /\ MinimumMedia \in Nat /\ MinimumMedia <= DiskSectors
  /\ Root \in DOMAIN Contract \ {Final} /\ Contract[Root].label \in RootLabel
  /\ Alignment \in Nat \ {0}
  /\ IntendedSize \in Nat /\ SeedSize <= IntendedSize
  /\ Fault \subseteq Faults
  /\ None \notin Nat \cup Outcome

VARIABLES
  boot,      \* the boot id
  cmdline,   \* what the boot menu entry asked for
  media,     \* partition table, file system and files of the state partition
  kernel,    \* the size of the state partition as the kernel knows it
  mounted,   \* the state partition is mounted on /var/lib/rigos
  grown,     \* this run grew the partition
  attested,  \* /run/rigos/boot-device.json holds a verified attestation
  status,    \* /run/rigos/state-status.json
  step       \* the next step of rigos-state-init

evidence == <<attested, status>>
stateVars == <<boot, cmdline, media, kernel, mounted, grown, attested, status, step>>

Step == {"discover", "attest", "lock", "sfdisk", "partx", "verify", "fsck",
         "resize", "label", "mount", "node", "record", "unlock", "done"}

Media == [size: Nat, fs: Nat, health: {"clean", "dirty", "broken"},
          label: {"RIGOS_STATE_SEED", "RIGOS_STATE"},
          node: Nat \cup {None}, record: Nat \cup {None}]
-----------------------------------------------------------------------------
StateInit ==
  /\ boot = 0
  /\ cmdline \in {"normal", "nomine", "stateless"}
  /\ media = [size |-> SeedSize, fs |-> SeedSize, health |-> "clean",
              label |-> "RIGOS_STATE_SEED", node |-> None, record |-> None]
  /\ kernel = SeedSize
  /\ mounted = FALSE
  /\ grown = FALSE
  /\ attested = FALSE
  /\ status = None
  /\ step = "discover"

MayFail(fault) == fault \in Fault

\* main: every error becomes an outcome, and the unit succeeds all the same,
\* even when the outcome could not be written.
Conclude(outcome) ==
  /\ step' = "done"
  /\ status' = outcome \/ (MayFail("status") /\ UNCHANGED status)

Proceed(next) ==
  /\ step' = next
  /\ UNCHANGED status

\* A command that fails or outlives its 20 seconds.
Limited(fault) ==
  /\ MayFail(fault)
  /\ Conclude("limited_capacity")
-----------------------------------------------------------------------------
(***************************************************************************)
(* The stick as lsblk and sfdisk report it; `staged` is what is mounted of *)
(* its EFI partition.                                                      *)
(***************************************************************************)
Partition(number, staged) ==
  [number |-> number, id |-> number,
   type |-> Contract[number].type, start |-> Contract[number].start,
   label |-> IF number = Final THEN media.label ELSE Contract[number].label,
   size |-> IF number = Final THEN kernel ELSE Contract[number].size,
   mounts |-> CASE number = Final -> IF mounted THEN {"state"} ELSE {}
                [] number = Root  -> {"medium"}
                [] number = 1     -> staged
                [] OTHER          -> {}]

Stick(staged) ==
  [type |-> "disk", tran |-> "usb", ro |-> FALSE, table |-> "dos", id |-> ImageId,
   size |-> DiskSectors, children |-> [number \in DOMAIN Contract |-> Partition(number, staged)]]

Entry(number) ==
  [start |-> Contract[number].start, type |-> Contract[number].type, bootable |-> number = 1,
   size |-> IF number = Final THEN media.size ELSE Contract[number].size]

Table == [label |-> "dos", id |-> ImageId, entry |-> [number \in DOMAIN Contract |-> Entry(number)]]

Recognised(staged, stateMount) == Validates(Stick(staged), Table, Root, stateMount)
-----------------------------------------------------------------------------
\* Command line, manifest, findmnt, lsblk, sfdisk, udev and the layout contract.
Discover ==
  /\ step = "discover"
  /\ \/ cmdline = "stateless" /\ Conclude("stateless")
     \/ cmdline # "stateless" /\ Recognised({}, {}) /\ Proceed("attest")
     \/ /\ cmdline # "stateless" /\ ~Recognised({}, {})
        /\ Conclude("blocked_layout_mismatch")
     \/ /\ cmdline # "stateless"
        /\ MayFail("discovery")
        /\ \E outcome \in Blocked \cup {"limited_capacity"} : Conclude(outcome)
  /\ attested' = FALSE
  /\ UNCHANGED <<boot, cmdline, media, kernel, mounted, grown>>

Attest ==
  /\ step = "attest"
  /\ \/ attested' = TRUE /\ Proceed("lock")
     \/ attested' \in BOOLEAN /\ Limited("attest")
  /\ UNCHANGED <<boot, cmdline, media, kernel, mounted, grown>>

\* The disk is opened, which may fail, and the exclusive lock tried once; the
\* geometry decides whether to grow.
Lock ==
  /\ step = "lock"
  /\ \/ Proceed(IF IntendedSize > kernel THEN "sfdisk" ELSE "fsck")
     \/ /\ MayFail("lock")
        /\ \E outcome \in {"blocked_ambiguous_boot_device", "limited_capacity"} : Conclude(outcome)
  /\ UNCHANGED <<boot, cmdline, media, kernel, mounted, grown, attested>>

Sfdisk ==
  /\ step = "sfdisk"
  /\ \/ media' = [media EXCEPT !.size = IntendedSize] /\ Proceed("partx")
     \/ /\ Limited("sfdisk")
        /\ media' \in {media, [media EXCEPT !.size = IntendedSize]}
  /\ UNCHANGED <<boot, cmdline, kernel, mounted, grown, attested>>

Partx ==
  /\ step = "partx"
  /\ \/ kernel' = media.size /\ Proceed("verify")
     \/ kernel' \in {kernel, media.size} /\ Limited("partx")
  /\ UNCHANGED <<boot, cmdline, media, mounted, grown, attested>>

\* udevadm settle, and the whole layout once more against the intended size.
Verify ==
  /\ step = "verify"
  /\ \/ Recognised({}, {}) /\ kernel = IntendedSize /\ grown' = TRUE /\ Proceed("fsck")
     \/ ~Recognised({}, {}) /\ Conclude("blocked_layout_mismatch") /\ UNCHANGED grown
     \/ kernel # IntendedSize /\ Conclude("blocked_ambiguous_boot_device") /\ UNCHANGED grown
     \/ /\ MayFail("settle")
        /\ \E outcome \in Blocked \cup {"limited_capacity"} : Conclude(outcome)
        /\ UNCHANGED grown
  /\ UNCHANGED <<boot, cmdline, media, kernel, mounted, attested>>

\* e2fsck -p replays the journal, and gives up on what it must not guess.
Fsck ==
  /\ step = "fsck"
  /\ \/ /\ media.health # "broken"
        /\ media' = [media EXCEPT !.health = "clean"]
        /\ Proceed("resize")
     \/ media.health = "broken" /\ Conclude("limited_capacity") /\ UNCHANGED media
     \/ Limited("fsck") /\ UNCHANGED media
  /\ UNCHANGED <<boot, cmdline, kernel, mounted, grown, attested>>

Resized == [media EXCEPT !.fs = kernel]

\* A resize that is cut short may leave anything behind.
CutShort == IF media.fs = kernel THEN {media}
            ELSE {[volume EXCEPT !.health = health] :
                    volume \in {media, Resized}, health \in {"clean", "dirty", "broken"}}

\* Faulty variant: resizes only in the run that grew the partition.
FaultyResize ==
  /\ step = "resize"
  /\ media' = IF grown THEN Resized ELSE media
  /\ Proceed("label")
  /\ UNCHANGED <<boot, cmdline, kernel, mounted, grown, attested>>

Resize ==
  /\ step = "resize"
  /\ \/ media' = Resized /\ Proceed("label")
     \/ media' \in CutShort /\ Limited("resize")
  /\ UNCHANGED <<boot, cmdline, kernel, mounted, grown, attested>>

\* blkid, and tune2fs on the first boot that gets here.
Label ==
  /\ step = "label"
  /\ \/ media' = [media EXCEPT !.label = "RIGOS_STATE"] /\ Proceed("mount")
     \/ /\ Limited("label")
        /\ media' \in {media, [media EXCEPT !.label = "RIGOS_STATE"]}
  /\ UNCHANGED <<boot, cmdline, kernel, mounted, grown, attested>>

Mounting == mounted' = TRUE /\ media' = [media EXCEPT !.health = "dirty"]

Mount ==
  /\ step = "mount"
  /\ \/ Mounting /\ Proceed("node")
     \/ Limited("mount") /\ (Mounting \/ UNCHANGED <<mounted, media>>)
  /\ UNCHANGED <<boot, cmdline, kernel, grown, attested>>
-----------------------------------------------------------------------------
(***************************************************************************)
(* initialize_state, on the mounted partition.                             *)
(***************************************************************************)
\* Faulty variant: writes a new identity on every boot.
FaultyWriteNode ==
  /\ step = "node"
  /\ media' = [media EXCEPT !.node = boot]
  /\ Proceed("record")
  /\ UNCHANGED <<boot, cmdline, kernel, mounted, grown, attested>>

\* The identity is the boot that made it up; write_atomic makes it durable.
WithNode == IF media.node = None THEN [media EXCEPT !.node = boot] ELSE media

WriteNode ==
  /\ step = "node"
  /\ \/ media' = WithNode /\ Proceed("record")
     \/ media' \in {media, WithNode} /\ Limited("init")
  /\ UNCHANGED <<boot, cmdline, kernel, mounted, grown, attested>>

WithRecord == [media EXCEPT !.record = IntendedSize]

WriteRecord ==
  /\ step = "record"
  /\ \/ media' = WithRecord /\ Proceed("unlock")
     \/ media' \in {media, WithRecord} /\ Limited("init")
  /\ UNCHANGED <<boot, cmdline, kernel, mounted, grown, attested>>

\* Faulty variant: reports an outcome that nothing permits a configuration for.
FaultyUnlock ==
  /\ step = "unlock"
  /\ Conclude(IF grown THEN "grown" ELSE "verified") \/ Limited("unlock")
  /\ UNCHANGED <<boot, cmdline, media, kernel, mounted, grown, attested>>

Unlock ==
  /\ step = "unlock"
  /\ Conclude(IF grown THEN "grown" ELSE "ready") \/ Limited("unlock")
  /\ UNCHANGED <<boot, cmdline, media, kernel, mounted, grown, attested>>
-----------------------------------------------------------------------------
\* /run/rigos is the RuntimeDirectory of rigos-miner.service too: systemd
\* removes it, the evidence in it included, when that unit ends.
EvidenceLost ==
  /\ step = "done"
  /\ attested' = FALSE
  /\ status' = None
  /\ UNCHANGED <<boot, cmdline, media, kernel, mounted, grown, step>>

\* Power loss or reset.  The kernel reads the partition table again.
PowerCut ==
  /\ MayFail("crash")
  /\ boot < MaxBoots
  /\ boot' = boot + 1
  /\ cmdline' \in {"normal", "nomine", "stateless"}
  /\ media' \in IF step = "resize" THEN {media} \cup CutShort ELSE {media}
  /\ kernel' = media.size
  /\ mounted' = FALSE
  /\ grown' = FALSE
  /\ attested' = FALSE
  /\ status' = None
  /\ step' = "discover"

Command ==
  \/ Discover \/ Attest \/ Lock \/ Sfdisk \/ Partx \/ Verify \/ Fsck \/ Resize
  \/ Label \/ Mount \/ WriteNode \/ WriteRecord \/ Unlock

StateNext == Command \/ EvidenceLost \/ PowerCut

StateSpec == StateInit /\ [][StateNext]_stateVars
-----------------------------------------------------------------------------
StateTypeOK ==
  /\ boot \in Nat
  /\ cmdline \in {"normal", "nomine", "stateless"}
  /\ media \in Media
  /\ kernel \in Nat
  /\ mounted \in BOOLEAN
  /\ grown \in BOOLEAN
  /\ attested \in BOOLEAN
  /\ status \in Outcome \cup {None}
  /\ step \in Step

\* ReadyMeansWhole: an appliance that reports ready or grown has its state
\* partition mounted, labelled and of the size the geometry intends - in the
\* table, the kernel, the file system and the layout record - and a node
\* identity, whatever earlier boots left undone when they failed or lost power.
ReadyMeansWhole ==
  status \in {"ready", "grown"} =>
    /\ mounted /\ attested
    /\ media.size = IntendedSize /\ kernel = IntendedSize
    /\ media.fs = IntendedSize /\ media.record = IntendedSize
    /\ media.label = "RIGOS_STATE" /\ media.node # None

\* OwnStickRecognised: whatever failed or interrupted boots left on the stick -
\* a grown table, a grown or half-grown file system, either label - the next boot
\* takes it for its own, and so does a revalidation while the state is mounted.
OwnStickRecognised ==
  /\ ~mounted => Recognised({}, {})
  /\ Recognised({}, {"state"})

\* NodeIsForever: an identity once written to the stick is the node's for good.
NodeIsForever == [][media.node # None => media'.node = media.node]_stateVars
=============================================================================
