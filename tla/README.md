# Verification of RIGOS

RIGOS is a mining appliance that boots from a USB stick: an immutable image, one
writable *state partition*, a configuration that is imported or typed in once and from
then on changed by transactions, a supervised XMRig, and a public status service (two
edge functions and a small database) that collects signed observations. This directory
holds TLA+ models of its stateful parts, the TLC configurations that check them on small
instances, and proofs, checked by TLAPS, of the properties that matter most, for
every value of the constants.

* [Inventory](#inventory) – what the system consists of, and what is hard about it
* [Modules](#modules) – which module models what, and how it corresponds to the code
* [Runs](#runs) – what each run checks, the bounds, the fairness
* [Where the code and its documents differ](#where-the-code-and-its-documents-differ)
* [Proofs](#proofs)
* [What is not modelled](#what-is-not-modelled)
* [Plan](#plan)

`PROJECT.json` has the same in a form for tools: components, runs, the lines each
definition translates, a faulty variant for every property (a plausible bug of the code
that makes the run fail), the hazards and the theorems.

The documents in `src/docs` describe more than this tree holds (an alpha.25 command
line `rig`, `rigos-state-ready`, `runtime-render`, `rig-status-agent`); the code is
alpha.5. The models follow the code.

## Inventory

| component | source | state | operations |
|---|---|---|---|
| configuration engine | `rigos-config/src/main.rs` | the pending record, the timezone, the miner unit's enabled state, XMRig | `transact`, `recover`, `timezone`, `gate`, `prepare`, `discover` |
| revision commit | `rigos-config/src/lib.rs` `commit_revision` | `revisions/`, `current`, `previous`, the public links | stage, sync, rename, swap, link |
| parsing and import | `rigos-config/src/lib.rs`, `lib_entry.rs` | none that outlives a call | `rig.conf`, flight sheets, Hive-style imports in two layers, JSON member fragments, runtime rendering |
| verified EFI access | `rigos-config/src/main.rs` `with_verified_efi` | a staging mount | revalidate, mount, read, unmount |
| first boot | `rigos-firstboot` | none of its own | gate, import, retry, manual setup, identity, `transact` |
| state initialisation | `rigos-state/src/main.rs` | the partition table, the file system, the mount, the evidence in `/run/rigos`, `node-id`, `state-layout.json` | discover, attest, grow, check, resize, label, mount, initialise |
| layout validation | `rigos-state/src/lib.rs` | none | `validate_layout` over `lsblk` and `sfdisk` documents |
| unit graph | four `rigos-*.service` files | queued jobs, restarts, the shared `RuntimeDirectory` | ordering, `ExecCondition`, `Restart=` |
| status ingest | `functions/_lib/status-v2.js`, `status-multi.js` | two tables: observations and nonces | verify, sanitise, store |
| status read | `functions/_lib/status-read.js` | reads the first table | select, count, age, project |
| XMRig inspector | `rigos-xmrig/src/lib.rs` | the snapshot it builds from `/proc`, a file and a socket | discover, inspect, ask the API |
| version probe | `rigos-xmrig/src/version_probe.rs` | a child in its own process group, two capturing threads | spawn, capture, poll, signal, reap |
| inventory, command line, pool check, evidence sanitiser, schemas | the other crates | none | one-shot functions |

How they interact. `rigos-state.service` runs `rigos-state-init` and leaves two files in
`/run/rigos`, an attestation and a status, and the state partition on `/var/lib/rigos`.
`rigos-profile-apply.service` requires that unit, runs `rigos-config recover` and then
`rigos-config timezone`. `rigos-miner.service` is ordered after it, is skipped without
`/var/lib/rigos/xmrig.json`, asks `rigos-config gate`, and restarts XMRig five seconds
after a failure. `rigos-firstboot.service` runs the dialog while there is no
`/var/lib/rigos/policy.json`. The dialog, and an operator, call `rigos-config transact`,
which stops and starts the miner unit, swaps the `current` pointer and sets the
timezone; a *pending record* on the state partition tells the next boot to undo what was
not finished. `/etc` and the enabled state live on a volatile root. An agent (not in
this tree) signs observations and posts them to the edge function; invocations overlap
and share only the database.

What is hard here, and what makes each part correct:

* **Transactions** cross five stores (pointer, links, timezone, unit, process) that no
  common log covers, race with systemd jobs and with each other, and may be cut at any
  point by a failure or by the power. Correct means: one at a time; a success took
  effect; a failure restored everything, or kept XMRig down and the record in place;
  XMRig never outlives the pointer it was started from; no pointer ever names an
  incomplete revision; a rig at rest is coherent.
* **State initialisation** changes a partition table and a file system with external
  commands that fail, hang, and are killed after 20 seconds, on a stick that is pulled
  out. Correct means: `ready` is reported only of a state that is complete, an identity
  is made up once, and nothing is configured while the partition is not mounted.
* **Ingest** is stateless code around a database: clocks are off, requests are late,
  reordered, repeated and concurrent. Correct means: a request is accepted once, the row
  is the newest accepted observation, and a clock that runs ahead cannot silence its
  node for long.
* **Reading** takes two queries with writers in between; `LIVE` and `truncated` are
  claims about more than one moment.
* **Import** goes through two implementations of the same thing: the entry point
  (`lib_entry.rs`) validates an embedded configuration with its own fragment reader, then
  strips what the library does not know and lets the library read the rest again. Correct
  means: what one validates is what the other applies; a repaired text has the
  members its author wrote; a sheet put into a revision is one the reader accepts; a
  `rig.conf` is read for what its lines say, or refused where it is wrong.
* **Inspection** reads a process that may end, and whose number may come to stand for
  another, between any two reads; asks a server it does not trust; and runs an
  executable it does not trust, which may hang, flood its output, or leave a helper
  behind with a stream open. Correct means: it ends; a version is reported only from a
  complete output; no signal is sent to a group that may be somebody else's; the API
  token leaves the machine in no case.

The `hazards` of `PROJECT.json` list where each of these bites, line by line, with the
properties that watch it.

## Modules

| module | models | constants |
|---|---|---|
| `ConfigStore` | what a configuration transaction promises: a write-back register | clients, revisions |
| `ConfigTransaction` | the engine, its rollback, boot recovery, the miner unit, the disk | engines, revisions, zones, allowed disturbances, boots |
| `StatusIngest` | handlers of signed requests, the two tables, the reader | sources, nonces, handlers, clock bounds |
| `Observation` | the sanitiser, the legacy RandomX form, reading a row back | the registry, the observations that arrive |
| `Layout` | `validate_layout`: which stick is the appliance's own | the image manifest |
| `StateInit` (extends `Layout`) | `rigos-state-init` on a stick, over any number of boots | geometry, allowed faults, boots |
| `Appliance` (extends `StateInit`) | the units of a boot and the first-boot dialog | allowed troubles |
| `RigProfile` | `parse_rig_profile`, line by line | the files, the words each validator accepts |
| `Fragment` | the two readers of member fragments, character by character | texts, what is strict JSON |
| `FlightSheet` | operators: `validate_sheet`, both `import_hive_style`, `build_runtime` | accepted words |
| `Preparation` (extends `RigProfile`, `FlightSheet`) | from the EFI partition to the contents of a revision | sheets, imports, identities |
| `VersionProbe` | a program, a helper, the capturing threads, the prober | what may be probed, limits |
| `Inspector` (extends `VersionProbe`) | `XmrigBackend::discover` against a changing `/proc` and an API server | processes, configurations, resolutions |
| `Readers` (extends `Observation`, `Preparation`, `Fragment`, `Inspector`) | all the readers side by side, one of them running | |
| `MC…` | instances of the above for TLC, the bounds included | |
| `…_proofs` | theorems and proofs; `Appliance_proofs` has those of `StateInit`, `Preparation_proofs` those of `RigProfile` and `FlightSheet`, `Inspector_proofs` those of `VersionProbe` | |

### ConfigTransaction

A step is one effect visible outside the process: a rename, an unlink, a `systemctl`
or `timedatectl` call. `pc` holds the step each engine is at: `snapshot` (read the
runtime state), `write` (create the record with `create_new`, the only lock), then the
forward steps `stop`, `stage`, `publish`, `swap`, `link`, `zone`, `enable`, `start`,
`clear`; a failure goes to the rollback steps `rb_…`, which boot recovery shares. Every
call of the code that can fail has a failing alternative, enabled by a member of `Env`.

* `fs` is the state partition as processes see it, `disk` what a power cut would leave.
  ext4 in ordered mode is modelled as a journal: `Writeback` makes everything up to now
  durable, a crash falls back to it, and `sync_all` calls force it. Names are
  journalled, data is not: of a file that nobody synced a crash may keep the name and lose
  the contents. These are the pending record, which a crash may leave `Torn`, and the identities
  that `commit_revision` takes over from the current revision with `fs::copy`
  (`lib.rs:927`). A volume therefore has, for each revision, its life (absent, staged, complete)
  and what became of each identity in it (`none`, `whole`, `empty`); `Unsynced` are the copies
  a crash may empty. The identity a revision mines for is written and synced by `write_json`.
* The miner unit is `miner` (the revision XMRig was started with), `startJob` (the boot's
  queued start) and `respawn` (the scheduled restart). `systemctl stop` cancels both.
* A boot resets zone and enabled state to the image's, since `/etc` is volatile.
* A transaction's snapshot is one step, since its reads only race with another engine's
  commit as a whole. A publication that fails leaves its revision staged. What a revision
  holds besides its identities is `Preparation`'s part.
* The image's recovery and live menu entries boot with `rigos.stateless=1` and touch no
  state; they are not part of this module.

`ConfigStore` has a register `committed`, a durable copy, and one request and reply per
client. The refinement mapping reads `committed` off the record if there is one and off
the pointer otherwise: creating the record changes nothing, removing it commits, and
rolling back and recovering are invisible.

### StatusIngest

One handler goes through `Receive` (with the clock it captures on entry), the checks,
and `Store`, the batch that deletes expired nonces, inserts the nonce and upserts the row
in one D1 transaction, or `Abort`. `nowUnix` is captured on entry and used after awaits,
which the model keeps by storing it in the handler. The reader captures its clock, selects
rows and counts rows in separate steps. A tick is 150 s: the skew of 300 s is 2, the nonce
lifetime 4, `LIVE` 1, `OFFLINE` 2. What is in a body is `Observation`'s part.

### Observation

`Accepts` and `Public` are `validateLegacyRandomxObservation`: what it refuses and what it
returns. `Accept` stores the result as the row's payload, `Publish` is
`parseStoredObservation` and `publicNode`, which put the stored payload through the same
function again, dated by itself, and drop the row if it is refused. The component policy is
the table of the code. Values are tokens: a number is in its rule's range or not, a boolean is
one of two tokens, a summary is a tuple of words. Facts are a sequence, since
`sanitizedSummary` takes the first member of the object. An unsupported member is refused
wherever it is, which covers the private ones `rejectSensitiveKeys` looks for; only the
error differs. Of the identifiers' and timestamps' syntax, validity is all that is kept.

### Layout, StateInit and Appliance

`StateInit` has one action per external command of `execute` and one per file that
`initialize_state` writes. `media` is what the stick holds: the size of the partition
in the table, the size, health and label of the file system, and the two files. `kernel` is
the size the running kernel believes, which `partx` updates and a boot re-reads. Each
command may fail before or after its effect (it is killed after 20 seconds whatever it
had done by then); a resize that is cut short leaves either size and any health. `main`
turns every error into an outcome and succeeds; even a status file that cannot be
written goes unnoticed. `Recognised` applies the contract of `Layout` to the documents
that `lsblk` and `sfdisk` would produce for the stick as it is (`Stick`, `Table`); discovery
uses it, so do the check after the growth and the dry run of a revalidation. The label of
the file system is assumed to stay readable when a resize is cut short. `EvidenceLost` is systemd removing `/run/rigos`, which the miner
unit shares as its `RuntimeDirectory`.

`Appliance` adds what runs afterwards. `ApplyProfile`, `StartMiner` and `BeginFirstboot`
are the units with their conditions (`Configured` is what is found under
`/var/lib/rigos`, which is a directory of the volatile root while nothing is mounted). The dialog's
steps are those of `rigos-firstboot` and of the engine calls it makes, with the mount
and unmount of the EFI partition as steps of their own. The commit is one step:
`ConfigTransaction` has its inside.

### RigProfile and Preparation

`RigProfile` reads one line a step into the table `values` (`SkipLine`, `RefuseLine`,
`RecordLine`), then takes the fields in the order of the code (`RefuseField`,
`AcceptProfile`): the first thing wrong decides the diagnostic, as the early returns do.
A line is blank, a syntax error or a pair; what `valid_slug`, `safe_json_basename` and
`valid_timezone_name` accept is a set of words. `Preparation` goes on where the profile is
accepted: `Locate` (the zone, the override), `ReadNative` or `ReadImport`,
and `CommitRevision`, which fills the revision: policy, XMRig configuration, sheet,
the identities of the revision in force with the chosen one put over them, the warnings
and the external identity map. `NoReference` is the `unwrap` of a reference an override
left out; `NoSheet` stands for every reason why a file is not read.

### FlightSheet

A JSON object is a function on its keys, `Absent` is a missing key and `Wrong` a value of a type
the code does not look for. `LibraryImport` is `import_hive_style` of the
library, `EntryImport` the one in front of it, which validates (`ValidEntry`), strips
(`Stripped`) and overrides the huge pages by their count. Both keep the difference between the two
readers of an embedded configuration: `ExplicitHugePages` (entry point) and `AfterConfig`
(library, applied to `cpu_config` and then to `user_config`, with the hint cut to a byte). An embedded text says apart from what
its members are whether its bytes contain `huge-pages` (`mentions`): the entry point looks at no
other text, and the library finds a key that is spelled with an escape too. The validator's and
the reader's words are constants: `CoinName` the coins of 1 to 16 bytes, `NativeName` the references
that name a file, of which the slugs of `rig.conf` are some and an overriding reference need not be one.
`Sheet` and `JsonObject` say of which types a file's members may be for the code to look at them at
all; a stable sort of distinct priorities is `ByPriority`, which puts each pool after as many others
as precede it.

### Fragment

A text is a sequence of characters of the classes the scanner tells apart. `ParseDirect` is the
first attempt; then one action per branch of the scanner's loop (`InString`, `Quote`,
`OpenBracket`, `CloseBracket`, `Space`, `OtherChar`); `FinishScan` is the second attempt. The
library's copy and the entry point's agree on the scan; an outcome of "entry only" is
a text that one accepts and the other refuses, since only the library refuses a member
that occurs twice, or a text without members. `written` is what the author wrote, kept to state what should be read.

### VersionProbe and Inspector

The probe has the program and a helper (`WritePiece`, `StartHelper`, `HelperEnds`, `Ends`),
the threads (`Capture`, with the limit and the end of file that comes only when every holder of
the stream is gone) and the prober (`Spawn`, `SeeExit`, `Deadline`, `GraceOver`, `Reap`,
`Receive`, `Judge`). Every wait of the code is bounded by a clock; a deadline is an action
that is enabled while its wait lasts. `signals` is a history of the signals sent, with the
state of the leader at that moment: after it is reaped its number, and the group's, may
be somebody else's.

`Inspector` has one step per read (`FindProcess`, `ReadCommandLine`, `ReadExecutable`,
`ReadConfig`, `ReadOwner`, `ReadUptime`) with `ProcessChanges` between them, and the API
client (`NoRequest`, `Request`, `ReadAnswer`, `AnswerFails`, `ParseAnswer`) against
a server that answers a piece at a time or not at all. The 750 ms of the API are per read, so a
server that drips is cut off by `API_MAX_BYTES` only. `StartProbe` hands over to `VersionProbe`,
`TakeVersion` takes the result. Of an answer's content only the version it may name
is kept.

## Runs

| run | module | what is checked | states |
|---|---|---|---|
| `ConfigSafety` | ConfigTransaction | two concurrent engines, all disturbances but a start by hand: `TypeOK`, `PointersComplete`, `IdentitiesSurvive`, `TransactionHoldsRecord`, `MinerRunsCurrent` | exhaustive |
| `ConfigRollback` | ConfigTransaction | two engines in time, three revisions, the failures that are rolled back: `RetainedRecordMeansStopped`, `RollbackRestores`, `AppliedTakesEffect`, `CleanBootMines` | exhaustive |
| `ConfigStoreImpl` | ConfigTransaction | two engines in time, everything the record survives, starts by hand included: `ImplementsStore`, `ZoneMatchesRevision`, `PublicLinksFollowPointer` | exhaustive |
| `ConfigPowerLoss`, `ConfigStale`, `ConfigRecoveredBoot` | ConfigTransaction | counterexamples, see below | |
| `StatusIngest` | StatusIngest | three overlapping handlers: `TypeOK`, `AcceptedOnce`, `StoresNewest`, `MutedAtMostTwiceSkew` | 1.8 M |
| `StatusRead` | StatusIngest | two sources, a limit of one, a reader between the writers: `LiveMeansRecent`, `UntruncatedIsComplete` | 0.4 M |
| `StatusFreshness` | StatusIngest | counterexample, see below | |
| `Readers` | Observation, RigProfile, Fragment, FlightSheet, Preparation, Inspector, VersionProbe | the sanitiser: `StoredIsReadable`, `NothingInTheAgentsWords`, `EveryComponentOnce`; the configuration language: `ReadFaithfully`, `ReadsWhatIsWritten`, `OnlyCommasAdded`, `KeptSheetReadsBack`, `PolicyTakesEffect`, `PoolsAsWritten`, `RevisionIsCoherent`; the miner: `VersionIsWhole`, `SignalsReachTheProbeOnly`, `TokenStaysLocal`, `InspectionEnds`; and `ReadersTypeOK` | 0.24 M |
| `Appliance` | Appliance | three boots, every fault and trouble: `TypeOK`, `ReadyMeansWhole`, `OwnStickRecognised`, `NodeIsForever`, `UnmountedMeansUntouched`, `EfiIntact`, `UnconfiguredReachesFirstboot` | 7 k |
| `LimitedCapacity` | Appliance | counterexample, see below | |

**Bounds and why they are enough.** Two engines are all that the record distinguishes:
its holder and everybody else. `ConfigRollback` and `ConfigStoreImpl` run `TimelySpec`: no program
gives a record up between the snapshot of another engine and its attempt to create one
(`InTime`), since without that the behaviour of `ConfigStale` refutes what they check; `ConfigSafety` and
`ConfigStale` run without the condition, and that the record names the pointer in force is stated by
`ConfigStale` only, as the condition would assume most of it. Two revisions with different timezones, and a manual
third where the miner's policy matters, separate current, previous and requested; a
fourth would play the part of one of these. `ConfigSafety` has two identities, so that a revision
copies the other one's; elsewhere one is enough. Two boots after the first let a power cut
hit a transaction, and another one its recovery. Three handlers are two copies of one
request and a request that comes between them; time runs until every nonce of
the first ones has expired. In the geometry of the `Appliance` run the stick has 11 units,
alignment 2, the partition starts at 4 and is 2 long, so that it grows to 6 and one unit
is left over; two power cuts let a boot be interrupted and the boot that repairs it too.
The readers share no state, so `Readers` lets one of them run while the others stay
idle, which adds their state spaces instead of multiplying them (`ReadersImplementParts` proves that
this takes nothing away: each behaves as its own specification says). The `Readers` run adds the
bounds of `BoundedNext` and the fairness of the inspector:

* 7500 observations in a registry of four: a component of every kind of policy (unit,
  schema, both, facts only), one of them varied over all combinations of its fields
  with a good, a bad and no value each, the frame damaged separately; the proofs cover the
  combinations of several.
* 900 `rig.conf` files: a good one with each field replaced by each of thirteen words, with up to
  two lines of six kinds inserted anywhere, with a line missing, and every pair of source and
  reference; so a duplicate comes before and after the original, and two offences in either order.
* 3000 fragments of up to three members and nine kinds of values (numbers, strings with escapes,
  nested objects, unbalanced ones), with seven separators, braced or not; every branch
  of the scanner is taken at depth 0 and 1 and inside and after strings.
* 230 native sheets (the bounds of pools, ports, threads and hints from both sides, equal
  priorities) and 5700 imports: each pair of 35 embedded configurations (objects and texts, their
  policies flat or in a cpu member, with and without a key spelled with an escape)
  with the count of huge pages, each list of up to two URLs with each form of
  `pool_ssl`, and each other key with its good and bad values one at a time.
* A limit of 3 pieces and a pipe of one, so that a program can be stopped by a full pipe
  before and after the limit; versions of two pieces, so that one can be cut; six
  programs, with and without helpers on either stream. A response limit of 2.
  Two process numbers and three processes, so that the miner can end, be replaced, and
  be found under either number. `ProbedInFull` runs the whole probe for
  one state of the inspection (every other has the executable rejected): the two
  meet in `StartProbe` and `TakeVersion` alone, which `ImplementsProbe` proves.

**Deadlock** is not checked (`CHECK_DEADLOCK FALSE`): engines, boots and requests are
bounded, and a rig at rest, a finished boot or a quiet service is a good final state.

**Fairness.** Processes that run make progress (engines, rollbacks, the boot unit's two
commands, `rigos-state-init`, whose every command ends after 20 seconds), and systemd runs
the jobs it has queued (`BootStart`, `Respawn`, `ApplyProfile`, `StartMiner`,
`BeginFirstboot`). All of it is weak fairness on steps that stay enabled until taken.
Nothing makes anybody start a transaction, answer the dialog, cut the power or see XMRig
die. Ingest has no liveness property: nobody must send. The inspector and the prober are one
thread that goes on whenever it can (`Inspecting`); the capturing threads, the miner, its
server, the probed program and its helpers get no fairness at all, so `InspectionEnds`
rests on the deadlines and the limits alone.

## Where the code and its documents differ

* `ConfigPowerLoss`: the pending record is not synced. A power cut can leave it
  empty; recovery then fails before it stops anything, at every boot, and XMRig
  starts, while `docs/local-rig-config.md:37` says that it "remains stopped". The property,
  `RetainedRecordMeansNotMining`, is about XMRig running: in the trace a commit's revision, pointer and
  public links are on the disk, so that the unit's condition holds, the record of that commit is empty,
  and the next boot mines with the record still there.
* `ConfigStale`: an engine takes its snapshot *before* it creates the record. If another
  transaction commits in between, a failure restores the pointer from before that
  commit, which had reported success. This is the only run that states `RecordsPointerInForce`, and no
  theorem does: `InTime` excludes just this interleaving, so under it the statement would
  say little. `InTime` is all that the theorems on rollback, links, timezone and refinement
  assume of concurrent engines: creating the record before the snapshot would establish it.
* `ConfigRecoveredBoot`: boot recovery stops the miner, which cancels the boot's
  queued start, and does not start it again: a configured rig stays idle until the next
  boot (`docs/architecture.md:14`).
* `StatusFreshness`: an accepted observation that is dated before the stored one
  updates nothing, the receipt time included: a node whose clock was set back is shown
  stale or offline although its requests are accepted (`docs/STATUS-SERVICE.md:146`).
* `LimitedCapacity`: when `initialize_state`, or the unlock of the disk after it, fails the partition stays mounted; the units
  look at its files and not at the outcome, so the timezone is set and mining starts with an
  outcome that `docs/local-rig-config.md:39` calls a negative gate.

No run is about the following, which the models made visible.

* A flat `huge-pages` in `user_config` is validated by the entry point, conflicts included,
  but not read by the library (`lib.rs:677`).
* The entry point looks for the bytes `huge-pages` in an embedded text (`lib_entry.rs:184`) before it
  looks for the key. A key spelled with an escape, as in `"huge\u002dpages": false`, is not found by it, is
  read by the library, and is then overridden by `hugepages` without the conflict being refused.
  `PolicyTakesEffect` states both: what the two readers see is two sets (`ReadByEntry`,
  `ReadByLibrary`), what the entry point sees is free of conflict, and what the library reads
  is in force where the entry point saw all of it.
* The identities a commit copies are not synced (`lib.rs:927`). After a power cut `current` may name a
  revision in which a copied identity is empty, although `docs/local-rig-config.md:37` says that a commit is to "create a
  complete revision and atomically switch the current pointer". `PointersComplete` promises the identity in use only, and
  `IdentitiesSurvive` that a complete revision still has the data of every other.
* A `max-threads-hint` above 255 becomes 0 in the library and is then refused by `validate_sheet`.
* `--flight-source` without `--flight-ref` ends in an `unwrap` while the EFI partition is
  mounted, and leaves it mounted (`NoReference`).
* The external identity map is written into the revision of the import only; the next commit does
  not copy it, and its public link then names nothing.

## Proofs

All theorems are proved from the assumptions named in the modules and nothing else.
They hold for any number of engines, revisions, handlers, sources and boots, for any
geometry, and for any subset of failures, except where a theorem's own assumption, given
below, says otherwise; liveness is not proved.

* `ConfigTransaction_proofs`. `TypeInv` is `TypeOK` and what each step implies of `req`
  and `snap`. `RecordInv` adds that an actor inside a transaction holds the record, from
  which mutual exclusion follows (`create_new` refuses a second one). `MinerInv` adds
  `QuietWhileMoving`: from the stop to the last step that may move the pointer nothing
  runs or is queued; it is what makes `MinerRunsCurrent` inductive and why
  the theorem assumes that nobody starts the unit by hand (`"operator" \notin Env`).
  `PointerInv` adds that every engine stages only its own revision, and that what a snapshot
  names is renamed, which `PointersComplete` needs when a rollback swaps the pointer back, also
  after a crash. `IdentityInv` says what a crash leaves of the data: a revision has its own identity
  whole (`OwnWhole`), any other identity comes from a complete revision that was made for it
  (`Origins`), and a revision about to be named has taken over those of the current one (`Carries`).
  `PointersComplete` and `IdentitiesSurvive` (`IdentitiesAreKept`) follow, on the disk as in the live directory.
  - `RetainedRecordStopsMiner`: `RetainedInv` is about a rig at rest. It assumes what the sentence
    in the documentation does: the record is written and removed as asked, `systemctl stop`
    works, no power cut tears the record, nobody starts the unit by hand.
  - `AppliedTookEffect`, for any number of engines: while an actor is in its transaction, nobody but
    itself, the miner unit or a reset touches what it depends on (`Alone`), so what an engine
    has done by a step stays done (`TakesEffect`). Assumes no start by hand.
  - Four theorems are about `TimelySpec`: any number of engines, whose snapshots are in time
    (`InTime`), and unlinks that succeed (`"forget" \notin Env`); without `InTime`, the stale snapshot
    of the `ConfigStale` run stands in their way. `OneEngineInTime` shows that a
    single engine needs no such assumption. `LinksInv` says that each engine knows the pointer (`KnowsPointer`) and that the
    public links of the live file system and of the disk fit it, or fit what their record would restore
    (`Consistent`): `LinksWithPointer` follows. `ZoneInv` adds the
    timezone, in force and in snapshots (`ZoneFollowsRevision`). `RestoreInv` adds that a
    snapshot with a running miner, taken on this boot, is of an on_boot revision on a boot that may mine, and that a
    record found at boot is of an earlier one: the start of a rollback then passes the
    gate (`RollbackPutBack`, without starts by hand).
    `TransactionImplementsStore` is the refinement of `ConfigStore`, without torn records:
    staging, linking and background writes are its `Persist`, the removal of the record its
    `Apply`, and every other step leaves what a volume would be restored to as it was.
* `StatusIngest_proofs`. The invariant for `AcceptedOnce` says that a stored request's nonce
  is in the table, or that the time is past the moment any copy of it could still be
  accepted. It needs `DelayAssumption`: a request runs no longer than the nonce outlives
  the skew (300 s here). `StoresNewest` and `MutedAtMostTwiceSkew` follow from the upsert's
  condition and from the two clock checks chained, source to request and request to
  server. For the reader, `ReaderInv` says that what it has selected stays *backed* while
  others write: each node is of a stored source, no two are of the same one, and a live one has
  an accepted request within the window. `LiveIsRecent` is the last part of it.
  `FreshnessLagsBounded` says how far the violation that `StatusFreshness` finds can go: the row a source
  is judged by was received no earlier than four times the skew (20 min) before its last accepted request.
  The two clock checks put a source's clock within twice the skew of the receipt, on either
  side, and the row has the newest of its dates (`StoresNewest`). For
  `CompleteUnlessTruncated`, the selected nodes map one to one into the rows; as many
  of them as there are rows are all the rows, although a row may have come between.
* `Observation_proofs`. `StoreInvariant` says that the row is accepted as of its own date
  and is its own public form. It is established by `PublicIsStable`: sanitising
  changes summaries only (`EvidenceKept`), no check depends on more of a summary than that it is
  not empty (`AllowedTransfers`), and equal components give an equal result
  (`SameSanitized`); for the legacy form (`LegacyIsStable`), what is stored is legacy again, and its
  present form differs from the first one only where sanitising forgets. The proof needs that
  the policy's words are strings and that null is none (`InboxAssumption`). As
  many distinct identifiers as a finite registry has, all taken from it, are all of it
  (`CompleteIsOnce`): hence `EveryComponentOnce`.
  For `OnlyPolicyWords`, the words of a summary are traced through its making (`SummaryInWords`), through
  the sanitising of a component (`SanitizedInWords`) and through the way to the present form and back
  (`LegacyInWords`): no rule lets through what the agent made up, whatever the registry.
  `ObservationTypeCorrect` is the type of the row and of the node shown.
* `Appliance_proofs`. `WholeInv` records what each step of `StateInit`'s sequence has established
  (`Established`), and that the file system and the kernel never exceed the partition
  and that nothing exceeds the intended size (`Fits`): the verification after the growth,
  or the comparison that made the growth unnecessary, then gives equality.
  `OwnStickRecognised` follows from the same invariant and from `ContractAssumption`.
  `FileSystemFits` states `Fits` at every moment, so a file system never exceeds its partition, also
  between the growth and its verification, after a power cut and on the next boot. `StickNeverGoesBack`:
  neither partition nor file system ever shrinks, what is formatted stays so, and a record, once
  there, is that of the intended size. `NegativeGateHolds` is about `NegativeGate`, which
  `LimitedCapacity` finds violated: without a `mount` that reports failure, a write of the node or of
  the record that fails, and an unlock that fails (`{"mount", "init", "unlock"} \cap Fault = {}`) it
  holds: these three faults, which leave a negative result over a mounted partition, are the whole reason.
  `ImplementsState`: every step of the appliance is a step of
  `StateInit` or leaves its variables alone, so its theorems carry over. `DialogInv` then
  says that the dialog is past its gate only on a mounted partition, that nothing is ever
  written under the mount point, and that what is about to be unmounted is mounted
  read-only.
* `Preparation_proofs`. For the reader of `rig.conf`, `ProfileInv` relates the table to the lines
  read so far: every key in it stands on the line it is recorded with, every pair read is in it, and
  none of the lines offends (`TableAsWritten`). `FilesAreReadFaithfully` follows for any files and any sets
  of accepted words, and `PreparationImplementsProfile` carries it over to the preparation. For what
  comes after, none of the four properties of a revision is inductive: they speak of its end and say
  nothing of a proposal. `PreparationInv` adds what they rest on: a profile, once there, is kept, and its
  zone is installed (`ProfileChosen`); a proposal holds a *settled* sheet, and one from an import holds
  what both readers make of that very envelope (`ProposalSound`); a revision is `Revision` of a
  matching identity and of the identities kept (`RevisionWritten`).
  - `KeptSheetsReadBack`: a settled sheet is valid and in the order its own sort gives it
    (`SettledReadsBack`). That validation settles (`CanonicalSettles`) is an argument about counting:
    among distinct priorities every number of predecessors occurs, once (`EveryPlaceTaken`), so the sorted
    pools increase, and a list that increases is left as it is (`ByPriorityKeepsOrder`). What is changed
    after the validation, the identity left open and the huge pages replaced, keeps a sheet settled.
  - `PoolsAreAsWritten`: the priorities an import makes up increase (`PoolsOfUrls`), so the sort
    leaves the order of the URLs, for a list of any length.
  - `PoliciesTakeEffect`: the library's two passes over `cpu_config` and `user_config` are reduced to
    what each config it reads states (`AfterConfigSays`, `CpuSays`), the entry point's validation to
    what the configs it sees state (`EntryAgrees`), and stripping the envelope changes neither
    (`ReadTheSame`). The two sets of configs differ by the flat policies of `user_config` and the
    keys spelled with an escape, and the statement is about both sets.
  - `RevisionsAreCoherent` needs both invariants: that the policy has what the only line of `rig.conf`
    with its key says comes from `TableAsWritten`, by way of the profile kept.

  `SheetsAssumption` is what serde_json guarantees: a sheet has the members of its type or is not read,
  a member of an envelope has the type the code looks for, or another one (`Wrong`), or is missing. The
  words the validators accept are strings, "unresolved" among them (it is a slug), and "no value" is none of
  the values.
* `Fragment_proofs`. `ScannerAddsOnlyCommas`: the ghost `place` embeds the text into the output in
  order, and whatever it does not hit is a comma after whitespace and before a quote. The other theorems
  compare the scanner with a reading of the whole text, a function that gives the depth and the string
  state after each character. `GapInv` says that the scanner stands where such a reading of
  the text and one of the output both stand, that `place` carries the first into the second, and that a
  comma was added exactly at the gaps passed. Hence `CommasWhereMissing` (none is missed, and none falls into
  a string or a nested value), `OutputKeepsStructure` (no character changes its depth or string) and
  `AcceptedTextsAreClosed` (nothing is accepted half scanned or left open).
* `Inspector_proofs`. For `VersionStaysWhole`, a thread that has sent what it read has either
  read more than the limit, which no version survives, or seen the end of a stream (`Faithful`),
  and once nobody can write to a stream nobody ever can again (`DrainedStays`).
  `SignalsReachOnlyTheProbe` needs that the leader is not reaped while the
  prober polls or waits. `ImplementsProbe` proves that an inspection drives the probe
  by the probe's own steps, so both theorems hold of the inspection as a whole.
  `InspectionIsBounded` is the safe half of `InspectionEnds`: `StepsLeft`, never more than the
  response limit and 21, falls with each step of the inspector or its prober and rises with nobody
  else's, neither a server that drips its answer nor a program that goes on printing. What it leaves to
  TLC is that the inspector's next step is possible and comes, which is fairness.
  `TokenNeverLeaves` holds for any configurations and resolutions.
* `Readers_proofs`. Every step of `Readers` is a step of one reader and leaves the variables of the
  others alone (`ReadersStep`), hence `ReadersImplementParts`, and from it `ReadersTypeCorrect` and
  `ReadersAreSafe`: what is proved of each reader holds of all of them together, the
  commas and the bound on an inspection included.

Only model-checked: `ReadsWhatIsWritten`, and the liveness properties `CleanBootMines`,
`UnconfiguredReachesFirstboot` and `InspectionEnds`, as fairness is. `ReadsWhatIsWritten` says which members an
accepted text has. That needs to know which texts are JSON members, and the model keeps of JSON
only a set of lists: for arbitrary sets it is false (two lists could have one text), and what one
would have to assume of them is most of JSON's grammar. What the scanner itself contributes, that the
text parsed again is the text with commas where they are missing and reads alike elsewhere, is proved.
Every other property of a passing run is the statement of a theorem.

## What is not modelled

* The machine inventory, `rigosd`, the pool check, the evidence sanitiser, the schemas, `lsblk-compat`
  and the status page are pure functions or one-shot readers that print what
  they find: they keep no state between steps, and a property of them would repeat their
  text. The build scripts run on another machine.
* `rigos-config discover` lists what could be prepared and changes nothing.
* The syntax of slugs, hosts, zones, addresses of wallets and JSON itself: each is a set of words, or of
  texts, of which the models keep validity.
* The questions of the dialog and the choice of an identity: no modelled control flow
  depends on more than that there is one.
* What stays of a stale read that no property covers is noted at its hazard in `PROJECT.json`.
* Somebody who runs `rigos-state-init` a second time in one boot, and a stick that is
  exchanged during a boot (the root file system is on it).
* The signature itself: a request either carries a registered source's signature or it
  does not.

## Plan

1. `ConfigStore`, `ConfigTransaction`: done.
2. `StatusIngest`: done, proved, the reader included.
3. `Layout`, `StateInit`, `Appliance`: done, proved.
4. `Observation`: done, proved.
5. `RigProfile`, `Fragment`, `FlightSheet`, `Preparation`: done, proved except for `ReadsWhatIsWritten`,
   whose part played by the scanner is proved.
6. `VersionProbe`, `Inspector`: done, proved except for `InspectionEnds`, whose bound is
   proved.
7. `Readers`: done, proved.
8. The configuration transaction's remaining safety properties and its refinement: proved, the last
   four for engines whose snapshots are in time.
9. Left: `ReadsWhatIsWritten` from a stated grammar of JSON members; the machine inventory, if it ever
   keeps state.
