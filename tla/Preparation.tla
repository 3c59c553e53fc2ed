------------------------------ MODULE Preparation ------------------------------
(***************************************************************************)
(* From the EFI partition to a revision: prepare_from_root reads rig.conf  *)
(* (RigProfile), chooses a sheet and reads or imports it (FlightSheet);    *)
(* commit_revision fills a revision from the proposal, the identity chosen *)
(* on this machine and the revision in force.  How the revision is renamed *)
(* and linked is in ConfigTransaction; here is what it holds.              *)
(***************************************************************************)
EXTENDS RigProfile, FlightSheet

CONSTANTS
  NativeName,    \* the references safe_join takes once .json is added
  Installed,     \* the zones under /usr/share/zoneinfo
  Overrides,     \* the --flight-source and --flight-ref a caller may give
  NativeSheets,  \* what a file of rigos/flight-sheets may say
  Envelopes,     \* what a file of rigos/import may say
  Identities,    \* the identities the operator may choose
  Earlier        \* the identities the revision in force may hold, by alias

\* A file is read as a sheet of the right types or not at all; an envelope is
\* an object, and so are its workload and the config in that.  No value is not
\* one of the values.
ASSUME SheetsAssumption ==
  /\ Slug \cup Host \cup Literals \subseteq STRING /\ "unresolved" \in Slug
  /\ NativeSheets \subseteq Sheet /\ SheetName \subseteq NativeName
  /\ \A envelope \in Envelopes :
       /\ JsonObject(envelope)
       /\ OneWorkload(envelope) =>
            JsonObject(Workload(envelope)) /\ JsonObject(MinerConfig(envelope))
  /\ Absent # Wrong /\ {Absent, Wrong, Refused} \cap STRING = {}
  /\ Absent \notin [warnings: SUBSET Lifecycle, reference: STRING]
  /\ Absent \notin [value: STRING, identityRef: {identity.alias : identity \in Identities}]

VARIABLES
  stage,     \* "profile", "located", "proposed", "committed", "refused" or "panicked"
  choice,    \* the source and the reference taken
  origin,    \* the envelope imported, or Absent
  proposal,  \* the flight sheet and its provenance
  earlier,   \* the identities of the revision in force
  revision   \* what the commit wrote

preparationVars == <<stage, choice, origin, proposal, earlier, revision>>

PreparationInit ==
  /\ stage = "profile"
  /\ choice = Absent /\ origin = Absent /\ proposal = Absent
  /\ earlier = [alias \in {} |-> Absent] /\ revision = Absent

\* The zone must be installed; an override needs an interactive source.
Locate ==
  /\ stage = "profile" /\ profile # Unset
  /\ \E given \in Overrides \cup {Absent} :
       IF \/ profile["TIMEZONE"] \notin Installed
          \/ given # Absent /\ profile["FLIGHT_SOURCE"] # "interactive"
          \/ given # Absent /\ given.source \notin {"native", "import"}
       THEN stage' = "refused" /\ UNCHANGED choice
       ELSE /\ stage' = "located"
            /\ choice' = IF given # Absent THEN given
                         ELSE [source |-> profile["FLIGHT_SOURCE"], ref |-> profile["FLIGHT_REF"]]
  /\ UNCHANGED <<origin, proposal, earlier, revision, profileVars>>

\* unwrap() of a reference that an override may leave out.
NoReference ==
  /\ stage = "located" /\ choice.source # "interactive" /\ choice.ref = Unset
  /\ stage' = "panicked"
  /\ UNCHANGED <<choice, origin, proposal, earlier, revision, profileVars>>

\* No selection, an unsafe name, or no such file of a bounded size.
NoSheet ==
  /\ stage = "located" /\ (choice.source # "interactive" => choice.ref # Unset)
  /\ stage' = "refused"
  /\ UNCHANGED <<choice, origin, proposal, earlier, revision, profileVars>>

Proposed(sheet, provenance) ==
  IF sheet = Refused THEN stage' = "refused" /\ UNCHANGED proposal
  ELSE stage' = "proposed" /\ proposal' = [sheet |-> sheet, provenance |-> provenance]

ReadNative ==
  /\ stage = "located" /\ choice.source = "native" /\ choice.ref \in NativeName
  /\ \E sheet \in NativeSheets : Proposed(Validated(sheet), Absent)
  /\ UNCHANGED <<choice, origin, earlier, revision, profileVars>>

\* Faulty variant: marks the reference in a way validation does not know.
FaultyConfirmable(sheet, provenance) ==
  IF sheet # Refused /\ provenance.reference # Absent
  THEN [sheet EXCEPT !.identityRef = [kind |-> "unresolved", word |-> "hive:unresolved"]] ELSE sheet

\* An identity known only to the other system is left to the operator.
Confirmable(sheet, provenance) ==
  IF sheet # Refused /\ provenance.reference # Absent
  THEN [sheet EXCEPT !.identityRef = Unresolved] ELSE sheet

ReadImport ==
  /\ stage = "located" /\ choice.source = "import" /\ choice.ref \in ImportName
  /\ \E envelope \in Envelopes :
       IF OneWorkload(envelope)
       THEN LET provenance == Provenance(envelope) IN
            /\ Proposed(Confirmable(EntryImport(envelope), provenance), provenance)
            /\ origin' = envelope
       ELSE stage' = "refused" /\ UNCHANGED <<proposal, origin>>
  /\ UNCHANGED <<choice, earlier, revision, profileVars>>

\* Faulty variant: copies the earlier identities over the chosen one.
FaultyRevision(identity, kept) ==
  [policy      |-> RuntimePolicy(profile, proposal.sheet, identity),
   xmrig       |-> RuntimeXmrig(profile, proposal.sheet, identity),
   sheet       |-> proposal.sheet,
   identities  |-> [alias \in DOMAIN kept \cup {identity.alias} |->
                      IF alias \in DOMAIN kept THEN kept[alias] ELSE identity.value],
   warnings    |-> {},
   externalMap |-> IF proposal.provenance = Absent \/ proposal.provenance.reference = Absent
                   THEN Absent
                   ELSE [value |-> proposal.provenance.reference, identityRef |-> identity.alias]]

\* What commit_revision writes, the identities of the revision in force first.
Revision(identity, kept) ==
  LET aliases == DOMAIN kept \cup {identity.alias} IN
  [policy      |-> RuntimePolicy(profile, proposal.sheet, identity),
   xmrig       |-> RuntimeXmrig(profile, proposal.sheet, identity),
   sheet       |-> proposal.sheet,
   identities  |-> [alias \in aliases |->
                      IF alias = identity.alias THEN identity.value ELSE kept[alias]],
   warnings    |-> IF proposal.provenance = Absent THEN {} ELSE proposal.provenance.warnings,
   externalMap |-> IF proposal.provenance = Absent \/ proposal.provenance.reference = Absent
                   THEN Absent
                   ELSE [value |-> proposal.provenance.reference, identityRef |-> identity.alias]]

CommitRevision ==
  /\ stage = "proposed"
  /\ \E identity \in Identities, kept \in Earlier :
       IF ~ValidIdentity(identity) \/ ~Matches(identity, proposal.sheet)
       THEN stage' = "refused" /\ UNCHANGED <<earlier, revision>>
       ELSE /\ stage' = "committed"
            /\ earlier' = kept
            /\ revision' = Revision(identity, kept)
  /\ UNCHANGED <<choice, origin, proposal, profileVars>>

PreparationStep ==
  Locate \/ NoReference \/ NoSheet \/ ReadNative \/ ReadImport \/ CommitRevision

PreparationNext == PreparationStep \/ (ProfileNext /\ UNCHANGED preparationVars)

PreparationSpec ==
  ProfileInit /\ PreparationInit /\ [][PreparationNext]_<<profileVars, preparationVars>>

----------------------------------------------------------------------------
\* The sheet a revision keeps is one the reader of native sheets accepts and
\* leaves as it is: what validation or import changed (hosts, order, identity
\* reference) is itself valid (flight-sheets/<name>.json is written from the
\* validated sheet, parse_flight_sheet reads it).
KeptSheetReadsBack == stage = "committed" => Validated(revision.sheet) = revision.sheet

Stated(fragment) == IF fragment.cpu # Absent THEN fragment.cpu ELSE fragment.flat

ConfigKeys == {"cpu_config", "user_config"}

Embedded(key) == Get(MinerConfig(origin), key)

\* The configs the library takes a policy from: of user_config only the cpu member.
ReadByLibrary ==
  {key \in ConfigKeys : /\ Embedded(key) \notin {Absent, Wrong}
                        /\ key = "user_config" => Embedded(key).cpu # Absent}

\* The configs the entry point looks at: of a text only one with the key in it.
ReadByEntry ==
  {key \in ConfigKeys : /\ Embedded(key) \notin {Absent, Wrong}
                        /\ Embedded(key).form = "text" => Embedded(key).mentions}

HugeStated(keys) == {Stated(Embedded(key)).huge : key \in keys} \ {Absent, Wrong}
HintsStated(keys) == {Stated(Embedded(key)).hint : key \in keys} \ {Absent, Wrong}

\* No policy of an import is invented: huge pages are those of the count if there
\* is one, else those of a config the library reads, else the default; and so is
\* the hint.  Of a nested import the policies the entry point sees do not
\* disagree, neither with each other nor with the count; and where it looks at
\* every config the library reads, what these state is in force.  Two kinds of
\* policy fall outside that, and only they: a key spelled with an escape, which
\* the library reads and the entry point does not find (lib_entry.rs:184), so that
\* the count overrides it without a word; and members of user_config outside its
\* cpu member, which the entry point checks and the library ignores (lib.rs:677).
PolicyTakesEffect ==
  stage = "committed" /\ origin # Absent =>
    LET library == HugeStated(ReadByLibrary)
        entry == HugeStated(ReadByEntry)
        hints == HintsStated(ReadByLibrary)
        count == Get(MinerConfig(origin), "hugepages")
        inForce == revision.xmrig.hugePages
    IN  /\ IF Nested(origin) /\ count # Absent THEN inForce = (count > 0)
           ELSE inForce \in IF library = {} THEN {TRUE} ELSE library
        /\ Nested(origin) => Cardinality(entry) <= 1
        /\ Nested(origin) /\ count # Absent => entry \subseteq {count > 0}
        /\ Nested(origin) /\ ReadByLibrary \subseteq ReadByEntry => library \subseteq {inForce}
        /\ revision.xmrig.hint \in IF hints = {} THEN {100} ELSE hints

\* The miner is given the pools of the import in the order they are written,
\* each at its own port, encrypted exactly when the URL or pool_ssl says so
\* (priorities are made up on import and sorted by validation).
PoolsAsWritten ==
  stage = "committed" /\ origin # Absent =>
    LET urls == Urls(Workload(origin))
        pools == revision.xmrig.pools
        ssl == Get(Workload(origin), "pool_ssl")
    IN  /\ Len(pools) = Len(urls)
        /\ \A i \in DOMAIN urls :
             /\ pools[i].host = Lower(urls[i].host) /\ pools[i].port = urls[i].port
             /\ urls[i].scheme # "none" => pools[i].tls = (urls[i].scheme = "ssl")
             /\ pools[i].tls = IF ssl.form = "one" THEN ssl.value ELSE ssl.value[i]

\* The only line of rig.conf with this key says so.
AsWritten(k, v) == \E i \in DOMAIN file.lines : Standing(k) = {i} /\ file.lines[i].value = v

\* A revision is what was asked for and stands on its own: its policy says what
\* rig.conf says, in a zone that is installed; it names an identity the revision
\* holds, every pool is used with that identity, a sheet that names an identity
\* gets that one, a reference of another system is mapped to the identity
\* confirmed for it, and no identity of the revision before is lost or changed
\* but the one chosen again (build_runtime checks, commit_revision copies).
RevisionIsCoherent ==
  stage = "committed" =>
    LET policy == revision.policy
        chosen == policy.identityRef
    IN
    /\ AsWritten("NODE_NAME", policy.node) /\ AsWritten("MINER_START_MODE", policy.mode)
    /\ AsWritten("TIMEZONE", policy.zone) /\ policy.zone \in Installed
    /\ chosen \in DOMAIN revision.identities
    /\ \A i \in DOMAIN revision.xmrig.pools :
         /\ revision.xmrig.pools[i].user = revision.identities[chosen]
         /\ revision.xmrig.pools[i].pass[1] = policy.node
    /\ revision.sheet.identityRef.kind = "alias" => revision.sheet.identityRef.word = chosen
    /\ policy.sheet = revision.sheet.name
    /\ origin # Absent =>
         /\ revision.externalMap = Absent <=> Get(Workload(origin), "wal_id") = Absent
         /\ revision.externalMap # Absent => revision.externalMap.identityRef = chosen
         /\ revision.sheet.identityRef = Unresolved
    /\ \A alias \in DOMAIN earlier \ {chosen} :
         alias \in DOMAIN revision.identities /\ revision.identities[alias] = earlier[alias]
=============================================================================
