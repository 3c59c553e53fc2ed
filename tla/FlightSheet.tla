----------------------------- MODULE FlightSheet -----------------------------
(***************************************************************************)
(* The sheets of rigos-config: validate_sheet, the import of an external   *)
(* (Hive-style) sheet by the entry point and by the library below it, and  *)
(* build_runtime.  Every operator returns what the function returns, and   *)
(* Refused for any of its errors.                                          *)
(*                                                                         *)
(* A JSON object is a function on the keys it has; a value of a type the   *)
(* code does not look for is Wrong.  A host or a sheet's name is a record  *)
(* of a word and whether it has capitals; a URL is a record of its scheme, *)
(* host and port; an embedded config is a record of its form ("object" or  *)
(* "text"), what Fragment makes of the text, the policy among its members  *)
(* and among those of its cpu member, and whether the text has the bytes   *)
(* "huge-pages", quotes included: an escape may hide a key that is there,  *)
(* and a value may show one that is not.  A sheet's metadata is its        *)
(* schema, backend and coin.                                               *)
(***************************************************************************)
EXTENDS Integers, Sequences, FiniteSets

CONSTANTS
  Slug,     \* the words valid_slug(_, 64) accepts
  Host,     \* the words valid_host accepts
  CoinName, \* the coins of 1 to 16 bytes
  Wrong,    \* a JSON value of another type
  Absent,   \* no value
  Refused   \* the result of a function that returns an error

Get(object, key) == IF key \in DOMAIN object THEN object[key] ELSE Absent
TextAt(object, key) == IF Get(object, key) = Wrong THEN Absent ELSE Get(object, key)
Or(value, default) == IF value = Absent THEN default ELSE value

Lower(word) == [word EXCEPT !.upper = FALSE]

----------------------------------------------------------------------------
(* What serde_json makes of a native sheet and of an external one.         *)

Cased == [word: STRING, upper: BOOLEAN]

\* The strings an import writes into a sheet (a prover must be told that a
\* literal is one).
Literals == {"rigos.flight-sheet/v1", "unsupported coin", "imported-xmrig", "unresolved", "auto",
             "{node_name}", "{node_name}.rig"}

Pool == [host: Cased, port: Int, tls: BOOLEAN, priority: Int]

Sheet ==
  [metadata: STRING, name: Cased, algorithm: STRING, pools: Seq(Pool),
   identityRef: [kind: {"alias", "wal", "unresolved"}, word: STRING], worker: STRING,
   threads: Int, hugePages: BOOLEAN, hint: Int]

JsonOr(values) == values \cup {Absent, Wrong}

PoolUrl == [scheme: {"ssl", "tcp", "none"}, host: Cased, port: Int \cup {Wrong}]
PoolSsl == [form: {"one"}, value: BOOLEAN] \cup [form: {"list"}, value: Seq(BOOLEAN \cup {Wrong})]

CpuMembers == [huge: JsonOr(BOOLEAN), hint: JsonOr(Nat)]
EmbeddedConfig ==
  [form: {"object", "text"}, reading: {"read", "entry only", "refused"}, mentions: BOOLEAN,
   flat: CpuMembers, cpu: CpuMembers \cup {Absent}]

\* A member the code looks for is there with its type, or as Wrong, or not.
JsonObject(o) ==
  /\ o = [key \in DOMAIN o |-> o[key]]
  /\ Get(o, "name") \in JsonOr(Cased)
  /\ \A key \in {"coin", "miner", "miner_name", "algo", "algorithm", "url", "template", "pass"} :
       Get(o, key) \in JsonOr(STRING)
  /\ Get(o, "wal_id") \in STRING \cup {Absent}   \* value_as_reference: any value as text
  /\ \A key \in {"pool_urls", "pools"} : Get(o, key) \in JsonOr(Seq(PoolUrl \cup {Wrong}))
  /\ Get(o, "pool_ssl") \in JsonOr(PoolSsl)
  /\ \A key \in {"cpu_config", "user_config"} : Get(o, key) \in JsonOr(EmbeddedConfig)
  /\ Get(o, "hugepages") \in JsonOr(Nat)

----------------------------------------------------------------------------
(* validate_sheet                                                          *)

PortNumber == 1..65535
ThreadCount == 0..1024   \* 0 stands for "auto"
ThreadsHint == 1..100

ValidPool(pool) == pool.host.word \in Host /\ pool.port \in PortNumber

ValidSheet(s) ==
  /\ s.metadata = "rigos.flight-sheet/v1" /\ s.name.word \in Slug /\ s.algorithm # ""
  /\ s.identityRef.word \in Slug
  /\ s.worker \in {"{node_name}", "{node_name}.rig"}
  /\ Len(s.pools) \in 1..16
  /\ \A i \in DOMAIN s.pools : ValidPool(s.pools[i])
  /\ \A i, j \in DOMAIN s.pools : i # j => s.pools[i].priority # s.pools[j].priority
  /\ s.threads \in ThreadCount
  /\ s.hint \in ThreadsHint

\* Sorting pools of distinct priorities: the k-th has k - 1 others before it.
ByPriority(pools) ==
  [k \in DOMAIN pools |->
     pools[CHOOSE i \in DOMAIN pools :
             Cardinality({j \in DOMAIN pools : pools[j].priority < pools[i].priority}) = k - 1]]

LowerHost(pool) == [pool EXCEPT !.host = Lower(@)]

Canonical(s) ==
  [s EXCEPT !.pools = ByPriority([i \in DOMAIN s.pools |-> LowerHost(s.pools[i])])]

Validated(s) == IF ValidSheet(s) THEN Canonical(s) ELSE Refused

----------------------------------------------------------------------------
(* The external sheet: an envelope, with its workload in items or without. *)

Nested(envelope) == "items" \in DOMAIN envelope

Workload(envelope) == IF Nested(envelope) THEN envelope["items"][1] ELSE envelope

OneWorkload(envelope) ==
  Nested(envelope) =>
    /\ envelope["items"] # Wrong /\ Len(envelope["items"]) = 1 /\ envelope["items"][1] # Wrong
    /\ Get(Workload(envelope), "miner_config") \notin {Absent, Wrong}

MinerConfig(envelope) ==
  IF Nested(envelope) THEN Workload(envelope)["miner_config"] ELSE envelope

LibraryKeys == {"algo", "url", "pass", "template", "cpu_config", "user_config"}
EntryKeys == LibraryKeys \cup {"cpu", "fork", "hugepages"}

\* The code compares these without regard to case.
Dangerous == {"hive_host_url", "api_host_url", "rig_id", "farm_id", "rig_passwd", "hssh_srv",
              "token", "password"}

NothingDangerous(envelope) ==
  Dangerous \cap UNION {DOMAIN envelope, DOMAIN Workload(envelope), DOMAIN MinerConfig(envelope)} = {}

Miner(w) == Or(Or(TextAt(w, "miner"), TextAt(w, "miner_name")), "xmrig")

\* What validate_sheet says of the coin decides on the metadata; none is XMR.
Coin(envelope) ==
  IF Or(TextAt(Workload(envelope), "coin"), TextAt(envelope, "coin")) \in CoinName \cup {Absent}
  THEN "rigos.flight-sheet/v1" ELSE "unsupported coin"

Algorithm(envelope) ==
  LET algo == Or(TextAt(MinerConfig(envelope), "algo"), TextAt(MinerConfig(envelope), "algorithm"))
  IN  IF algo \notin {Absent, ""} THEN algo ELSE IF Nested(envelope) THEN Refused ELSE "auto"

Placeholders(envelope) ==
  LET c == MinerConfig(envelope)
  IN  /\ Nested(envelope) => TextAt(c, "url") = "%URL%" /\ TextAt(c, "template") = "%WAL%"
      /\ TextAt(c, "pass") \in {Absent, "x", "%WORKER_NAME%", "{node_name}"}

WorkerTemplate(envelope) ==
  LET c == MinerConfig(envelope)
      source == TextAt(c, IF Nested(envelope) THEN "pass" ELSE "template")
  IN  CASE source \in {Absent, "x", "%WORKER_NAME%", "{node_name}"} -> "{node_name}"
        [] source \in {"%WORKER_NAME%.rig", "{node_name}.rig"} -> "{node_name}.rig"
        [] OTHER -> Refused

\* strict_string_list; one URL alone is a list of one.
Urls(w) ==
  LET urls == Or(Get(w, "pool_urls"), Get(w, "pools"))
  IN  IF urls \in {Absent, Wrong} THEN Refused
      ELSE IF urls = <<>> \/ \E i \in DOMAIN urls : urls[i] = Wrong THEN Refused ELSE urls

\* strict_bool_list
TlsList(ssl, count) ==
  IF ssl \in {Absent, Wrong} THEN Refused
  ELSE IF ssl.form = "one" THEN [i \in 1..count |-> ssl.value]
  ELSE IF Len(ssl.value) # count \/ \E i \in DOMAIN ssl.value : ssl.value[i] = Wrong THEN Refused
  ELSE ssl.value

\* Faulty variant: numbers the pools from the last.
FaultyPools(w) ==
  LET urls == Urls(w)
      tls == IF urls = Refused THEN Refused ELSE TlsList(Get(w, "pool_ssl"), Len(urls))
  IN  IF Refused \in {urls, tls} THEN Refused
      ELSE IF \E i \in DOMAIN urls : urls[i].port = Wrong
           THEN Refused
      ELSE [i \in DOMAIN urls |->
              [host |-> urls[i].host, port |-> urls[i].port, tls |-> tls[i],
               priority |-> Len(urls) - i]]

Pools(w) ==
  LET urls == Urls(w)
      tls == IF urls = Refused THEN Refused ELSE TlsList(Get(w, "pool_ssl"), Len(urls))
  IN  IF Refused \in {urls, tls} THEN Refused
      ELSE IF \E i \in DOMAIN urls :
                \/ urls[i].scheme # "none" /\ tls[i] # (urls[i].scheme = "ssl")
                \/ urls[i].port = Wrong
           THEN Refused
      ELSE [i \in DOMAIN urls |->
              [host |-> urls[i].host, port |-> urls[i].port, tls |-> tls[i], priority |-> i - 1]]

Unresolved == [kind |-> "unresolved", word |-> "unresolved"]

WalReference(w) ==
  IF Get(w, "wal_id") = Absent THEN Unresolved ELSE [kind |-> "wal", word |-> Get(w, "wal_id")]

\* Faulty variant: looks for a cpu member in either config.
FaultyAfterConfig(cpu, config, key) ==
  LET fragment == Get(config, key)
  IN  IF fragment \in {Absent, Wrong} THEN cpu
      ELSE IF fragment.cpu = Absent THEN cpu
      ELSE [huge |-> IF fragment.cpu.huge \in {Absent, Wrong} THEN cpu.huge ELSE fragment.cpu.huge,
            hint |-> IF fragment.cpu.hint \in {Absent, Wrong} THEN cpu.hint ELSE fragment.cpu.hint]

\* What the library takes from one embedded config; a hint of more than a
\* byte becomes 0.
AfterConfig(cpu, config, key) ==
  LET fragment == Get(config, key)
      policy == IF fragment.cpu # Absent THEN fragment.cpu
                ELSE IF key = "cpu_config" THEN fragment.flat
                ELSE [huge |-> Absent, hint |-> Absent]
  IN  IF fragment \in {Absent, Wrong} THEN cpu
      ELSE [huge |-> IF policy.huge \in {Absent, Wrong} THEN cpu.huge ELSE policy.huge,
            hint |-> IF policy.hint \in {Absent, Wrong} THEN cpu.hint
                     ELSE IF policy.hint > 255 THEN 0 ELSE policy.hint]

ReadableBy(readings, config) ==
  \A key \in {"cpu_config", "user_config"} :
    Get(config, key) \in {Absent, Wrong} \/ config[key].form = "object"
    \/ config[key].reading \in readings

\* rigos_config::import_hive_style
LibraryImport(envelope) ==
  LET w == Workload(envelope)
      c == MinerConfig(envelope)
      cpu == AfterConfig(AfterConfig([huge |-> TRUE, hint |-> 100], c, "cpu_config"),
                         c, "user_config")
      sound == /\ Nested(envelope) => DOMAIN c \subseteq LibraryKeys
               /\ NothingDangerous(envelope)
               /\ Miner(w) = "xmrig"
               /\ Algorithm(envelope) # Refused
               /\ Placeholders(envelope)
               /\ WorkerTemplate(envelope) # Refused
               /\ Pools(w) # Refused
               /\ ReadableBy({"read"}, c)
  IN  IF ~OneWorkload(envelope) \/ ~sound THEN Refused
      ELSE Validated(
             [metadata |-> Coin(envelope),
              name |-> Lower(Or(Or(TextAt(w, "name"), TextAt(envelope, "name")),
                                [word |-> "imported-xmrig", upper |-> FALSE])),
              algorithm |-> Algorithm(envelope), pools |-> Pools(w),
              identityRef |-> WalReference(w), worker |-> WorkerTemplate(envelope),
              threads |-> 0, hugePages |-> cpu.huge, hint |-> cpu.hint])

Lifecycle == {"autostart", "enabled", "start_on_boot"}

Provenance(envelope) ==
  [warnings |-> Lifecycle \cap (DOMAIN envelope \cup DOMAIN Workload(envelope)),
   reference |-> Get(Workload(envelope), "wal_id")]

----------------------------------------------------------------------------
(* The entry point, which accepts a few more keys and looks for conflicts. *)

\* explicit_huge_pages: the policy an embedded config states, if any; a text
\* is looked at only if the key is in its bytes.
ExplicitHugePages(config, key) ==
  LET fragment == Get(config, key)
      stated == IF fragment.cpu # Absent THEN fragment.cpu.huge ELSE fragment.flat.huge
  IN  IF fragment = Absent THEN Absent
      ELSE IF fragment = Wrong THEN Refused
      ELSE IF fragment.form = "text" /\ ~fragment.mentions THEN Absent
      ELSE IF fragment.form = "text" /\ fragment.reading = "refused" THEN Refused
      ELSE IF stated = Wrong THEN Refused ELSE stated

HugePagesLimit == 1048576

ValidEntry(config) ==
  LET count == Get(config, "hugepages")
      cpu == ExplicitHugePages(config, "cpu_config")
      user == ExplicitHugePages(config, "user_config")
  IN  /\ DOMAIN config \subseteq EntryKeys
      /\ Get(config, "cpu") \in {Absent, "one or true"}
      /\ Get(config, "fork") \in {Absent, "xmrig"}
      /\ count = Absent \/ (count # Wrong /\ count <= HugePagesLimit)
      /\ Refused \notin {cpu, user}
      /\ Absent \in {cpu, user} \/ cpu = user
      /\ count = Absent \/ Or(cpu, user) \in {Absent, count > 0}

Without(object, keys) == [key \in DOMAIN object \ keys |-> object[key]]

\* What the library is given.
Stripped(envelope) ==
  [envelope EXCEPT !["items"] =
     <<[Workload(envelope) EXCEPT !["miner_config"] = Without(@, {"cpu", "fork", "hugepages"})]>>]

\* import_hive_style of the entry point
EntryImport(envelope) ==
  IF ~Nested(envelope) THEN LibraryImport(envelope)
  ELSE IF ~OneWorkload(envelope) THEN Refused
  ELSE IF ~ValidEntry(MinerConfig(envelope)) THEN Refused
  ELSE LET sheet == LibraryImport(Stripped(envelope))
           count == Get(MinerConfig(envelope), "hugepages")
       IN  IF sheet = Refused \/ count = Absent THEN sheet
           ELSE [sheet EXCEPT !.hugePages = count > 0]

----------------------------------------------------------------------------
(* build_runtime                                                           *)

ValidIdentity(identity) == identity.valid /\ identity.alias \in Slug

\* A sheet that names an identity must be given that one.
Matches(identity, sheet) ==
  sheet.identityRef.kind = "alias" => identity.alias = sheet.identityRef.word

Worker(sheet, node) == <<node, IF sheet.worker = "{node_name}.rig" THEN ".rig" ELSE "">>

RuntimePolicy(profile, sheet, identity) ==
  [node |-> profile["NODE_NAME"], zone |-> profile["TIMEZONE"], sheet |-> sheet.name,
   identityRef |-> identity.alias, mode |-> profile["MINER_START_MODE"]]

RuntimeXmrig(profile, sheet, identity) ==
  [pools |-> [i \in DOMAIN sheet.pools |->
                [host |-> sheet.pools[i].host, port |-> sheet.pools[i].port,
                 tls |-> sheet.pools[i].tls, user |-> identity.value,
                 pass |-> Worker(sheet, profile["NODE_NAME"]), algo |-> sheet.algorithm]],
   hugePages |-> sheet.hugePages,
   hint |-> IF sheet.threads = 0 THEN sheet.hint ELSE sheet.threads]
=============================================================================
