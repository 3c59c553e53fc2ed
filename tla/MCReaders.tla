------------------------------ MODULE MCReaders ------------------------------
(***************************************************************************)
(* What the readers are given: small files, sheets, envelopes, texts,      *)
(* programs and processes, each varied around one that is accepted.        *)
(***************************************************************************)
EXTENDS MCObservation, Readers, SequencesExt

\* ---- rig.conf
Entry(k, v) == [form |-> "pair", key |-> k, value |-> v]

Good == <<Entry("RIGOS_CONFIG_VERSION", "1"), Entry("NODE_NAME", "rig"), Entry("TIMEZONE", "UTC"),
          Entry("FLIGHT_SOURCE", "native"), Entry("FLIGHT_REF", "sheet"),
          Entry("MINER_START_MODE", "manual")>>

Inserted == {[form |-> "skipped", key |-> "", value |-> ""], [form |-> "syntax", key |-> "", value |-> ""],
             Entry("AUTO_START", "bad"), Entry("POOL", "rig"), Entry("NODE_NAME", "rig"),
             Entry("TIMEZONE", "bad")}

RigWords == {"1", "rig", "UTC", "native", "import", "interactive", "sheet", "sheet.json",
          "manual", "on_boot", "bad", "", "Far/Away"}

OneField == {[Good EXCEPT ![i] = Entry(Good[i].key, v)] : i \in 1..6, v \in RigWords}
Sources == {[Good EXCEPT ![4].value = s, ![5].value = r] :
              s \in {"native", "import", "interactive"}, r \in {"sheet", "sheet.json", "bad"}}
Missing(lines) == {RemoveAt(lines, i) : i \in DOMAIN lines}
Longer(lines) == {InsertAt(lines, i, l) : i \in 1..(Len(lines) + 1), l \in Inserted}
TheFiles ==
  LET once == {Good} \cup OneField \cup Sources \cup Longer(Good)
      lists == once \cup UNION {Missing(lines) : lines \in Sources \cup Longer(Good)}
                    \cup UNION {Longer(lines) : lines \in Longer(Good)}
  IN  {[state |-> "text", lines |-> lines] : lines \in lists}
      \cup {[state |-> s, lines |-> <<>>] : s \in {"too large", "not UTF-8"}}

\* ---- fragments
Member(key, value) == <<"quote", key, "quote", "colon">> \o value
StrictValues == {<<"ending">>, <<"quote", "a", "quote">>, <<"quote", "escape", "quote", "space", "quote">>,
                 <<"open", "quote", "a", "quote", "colon", "ending", "close">>}
BrokenValues == {<<"a">>, <<"quote", "a">>, <<"open", "ending">>, <<"ending", "close">>,
                 <<"open", "quote", "a", "quote", "colon", "ending", "space", "quote", "b", "quote",
                   "colon", "ending", "close">>}
StrictMembers == {Member(k, v) : k \in {"a", "b"}, v \in StrictValues}
AllMembers == StrictMembers \cup {Member("a", v) : v \in BrokenValues}
Lists(set) == UNION {[1..n -> set] : n \in 0..2}
Separators == {<<>>, <<"comma">>, <<"space">>, <<"comma", "space">>, <<"space", "comma">>,
               <<"space", "space">>, <<"comma", "comma">>}
TheWritings ==
  {[members |-> m, separators |-> [i \in DOMAIN m |-> s], braced |-> b] :
     m \in Lists(AllMembers), s \in Separators, b \in BOOLEAN}
  \cup {[members |-> m, separators |-> <<s, t>> \o <<<<>>>>, braced |-> FALSE] :
     m \in [1..3 -> {Member("a", <<"ending">>), Member("b", <<"quote", "a", "quote">>)}],
     s \in Separators, t \in Separators}
TheLists == Lists(StrictMembers) \cup [1..3 -> {Member("a", <<"ending">>), Member("b", <<"quote", "a", "quote">>)}]

\* ---- sheets and imports
Variations(base, changes) == {base} \cup {[base EXCEPT ![c[1]] = c[2]] : c \in changes}

Name(word) == [word |-> word, upper |-> FALSE]
Shouted(word) == [word |-> word, upper |-> TRUE]
PoolAt(host, port, priority) == [host |-> host, port |-> port, tls |-> TRUE, priority |-> priority]

Native ==
  [metadata |-> "rigos.flight-sheet/v1", name |-> Name("sheet"), algorithm |-> "rx/0",
   pools |-> <<PoolAt(Name("pool"), 1, 7)>>, identityRef |-> [kind |-> "alias", word |-> "mine"],
   worker |-> "{node_name}", threads |-> 0, hugePages |-> TRUE, hint |-> 100]

SomePools == {PoolAt(h, p, n) : h \in {Name("pool"), Shouted("other")}, p \in {0, 443}, n \in 0..2}
             \cup {PoolAt(Name("bad"), 443, 0)}
TheSheets ==
  {[Native EXCEPT !.pools = pools] : pools \in UNION {[1..n -> SomePools] : n \in {0, 1, 2}}}
  \cup {[Native EXCEPT !.pools = [i \in 1..n |-> PoolAt(Name("pool"), 443, n - i)]] : n \in {3, 16, 17}}
  \cup {[Native EXCEPT !.metadata = m, !.name = n, !.algorithm = a] :
          m \in {Native.metadata, "other"}, n \in {Shouted("sheet"), Name("bad")}, a \in {"", "rx/0"}}
  \cup {[Native EXCEPT !.identityRef = [kind |-> k, word |-> w], !.worker = t] :
          k \in {"alias", "wal", "unresolved"}, w \in {"mine", "bad"},
          t \in {"{node_name}", "{node_name}.rig", "another"}}
  \cup {[Native EXCEPT !.threads = t, !.hint = h] : t \in {0, 1, 1024, 1025}, h \in {0, 1, 100, 101}}

NoPolicy == [huge |-> Absent, hint |-> Absent]
Policies == {NoPolicy} \cup {[NoPolicy EXCEPT !.huge = h] : h \in {TRUE, FALSE, Wrong}}
            \cup {[huge |-> FALSE, hint |-> h] : h \in {50, 101, 300, Wrong}}
\* Of an object nobody asks what its text mentions.
Config(form, reading, mentions, flat, cpu) ==
  [form |-> form, reading |-> reading, mentions |-> mentions, flat |-> flat, cpu |-> cpu]
HugeAlone(b) == [NoPolicy EXCEPT !.huge = b]
Configs ==
  {Absent, Wrong}
  \cup {Config(f, "read", TRUE, p, Absent) : f \in {"object", "text"}, p \in Policies}
  \cup {Config("text", "read", TRUE, NoPolicy, p) : p \in Policies}
  \cup {Config("text", "read", FALSE, p, Absent) : p \in {NoPolicy, HugeAlone(FALSE), HugeAlone(Wrong)}}
  \cup {Config("text", "read", FALSE, NoPolicy, HugeAlone(FALSE))}
  \cup {Config("text", r, m, HugeAlone(FALSE), Absent) : r \in {"entry only", "refused"}, m \in BOOLEAN}
  \cup {Config("object", "read", FALSE, [huge |-> TRUE, hint |-> 50], [huge |-> FALSE, hint |-> 60])}

Url(scheme, host, port) == [scheme |-> scheme, host |-> host, port |-> port]
One(b) == [form |-> "one", value |-> b]
TheUrls == {Url(s, Name("pool"), 443) : s \in {"ssl", "tcp", "none"}}
           \cup {Url("none", Shouted("other"), p) : p \in {443, 0, 70000, Wrong}}
           \cup {Url("none", Name("bad"), 443), Wrong}
UrlLists == UNION {[1..n -> TheUrls] : n \in 0..2}
            \cup {[i \in 1..n |-> Url("none", Name("pool"), i)] : n \in {16, 17}}
SslLists == {One(TRUE), One(FALSE), Wrong, Absent}
            \cup {[form |-> "list", value |-> v] : v \in {<<TRUE>>, <<FALSE, TRUE>>, <<TRUE, FALSE>>, <<Wrong, TRUE>>}}

\* Absent removes the key.
Present(object) == [k \in {key \in DOMAIN object : object[key] # Absent} |-> object[k]]
BaseConfig == [algo |-> "rx/0", url |-> "%URL%", template |-> "%WAL%"]
BaseWorkload == [pool_urls |-> <<Url("none", Shouted("pool"), 443), Url("ssl", Name("other"), 1)>>,
                 pool_ssl |-> One(TRUE), miner |-> "xmrig", name |-> Shouted("sheet"), wal_id |-> "wallet"]
With(object, changes) == Present(changes @@ object)
NestedEnvelope(w, c) == [items |-> <<With(With(BaseWorkload, w), [miner_config |-> With(BaseConfig, c)])>>]
FlatEnvelope(w, c) == With(With(BaseWorkload, w), c)

TheEnvelopes ==
  {NestedEnvelope(<<>>, [cpu_config |-> c, user_config |-> u, hugepages |-> n]) :
     c \in Configs, u \in Configs, n \in {Absent, 0, 128}}
  \cup {FlatEnvelope(<<>>, [cpu_config |-> c, user_config |-> u]) : c \in Configs, u \in Configs}
  \cup {NestedEnvelope([pool_urls |-> u, pool_ssl |-> s], <<>>) : u \in UrlLists, s \in SslLists}
  \cup {NestedEnvelope(<<>>, k :> v) : <<k, v>> \in
          {<<"algo", "">>, <<"algo", Absent>>, <<"url", "pool">>, <<"template", Wrong>>, <<"pass", "secret">>,
           <<"pass", "x">>, <<"cpu", "one or true">>, <<"cpu", Wrong>>, <<"fork", "xmrig">>, <<"fork", "other">>,
           <<"hugepages", Wrong>>, <<"hugepages", HugePagesLimit>>, <<"hugepages", HugePagesLimit + 1>>,
           <<"token", "t">>, <<"another", "t">>}}
  \cup {NestedEnvelope(k :> v, <<>>) : <<k, v>> \in
          {<<"miner", "other">>, <<"miner", Absent>>, <<"name", Absent>>, <<"name", Name("bad")>>,
           <<"wal_id", Absent>>, <<"wal_id", "bad">>, <<"pool_urls", Absent>>, <<"password", "p">>,
           <<"autostart", TRUE>>, <<"coin", "other">>, <<"coin", "">>}}
  \cup {FlatEnvelope(<<>>, k :> v) : <<k, v>> \in
          {<<"algo", "">>, <<"template", "{node_name}.rig">>, <<"template", "%WAL%">>, <<"pass", "secret">>,
           <<"enabled", TRUE>>, <<"rig_id", "r">>, <<"wal_id", Absent>>}}
  \cup {[items |-> i] : i \in {Wrong, <<>>, <<Wrong>>, <<BaseWorkload>>, <<BaseWorkload, BaseWorkload>>}}

TheIdentities == {[alias |-> a, value |-> v, valid |-> TRUE] : a \in {"mine", "other"}, v \in {"new"}}
                 \cup {[alias |-> "mine", value |-> "", valid |-> FALSE]}
TheEarlier == {[a \in {} |-> "old"], [a \in {"mine", "third"} |-> "old"]}
TheOverrides == {[source |-> s, ref |-> r] : s \in {"native", "import", "another"},
                                              r \in {"sheet", "sheet.json", Unset}}

\* The files that go on to a proposal.
Prepared == {[state |-> "text", lines |-> lines] : lines \in Sources
               \cup {RemoveAt([Good EXCEPT ![4].value = "interactive"], 5),
                     [Good EXCEPT ![3].value = "Far/Away"]}}

\* ---- the miner and its executable
Address(l, o) == [loopback |-> l, order |-> o]
Near == Address(TRUE, 2)
Far == Address(FALSE, 3)
TheAddresses == {Near, Far, Address(FALSE, 1)}
Resolutions == {{Near}, {Near, Far}, {Near, Address(FALSE, 1)}}
Http(e, h, p, t) == [enabled |-> e, host |-> h, port |-> p, token |-> t]
NamedHost(k) == [kind |-> k, address |-> Near]
Literal(a) == [kind |-> "literal", address |-> a]
Valid(part) == [state |-> "valid", http |-> part]
TheConfigurations ==
  {[state |-> "unreadable", http |-> None], [state |-> "malformed", http |-> None], Valid(None),
   Valid(Http(FALSE, Literal(Near), 80, TRUE))}
  \cup {Valid(Http(TRUE, NamedHost("v4 any"), p, TRUE)) : p \in {0, 65536}}
  \cup {Valid(Http(TRUE, h, 80, t)) : t \in BOOLEAN,
          h \in {NamedHost(k) : k \in {"v4 any", "v6 any", "localhost", "name"}} \cup {Literal(Near), Literal(Far)}}
Argument(o, p) == [option |-> o, path |-> p]
TheProcesses == {[comm |-> "xmrig", arguments |-> <<Argument(FALSE, None), Argument(TRUE, "config")>>],
  [comm |-> "xmrig", arguments |-> <<Argument(TRUE, None), Argument(TRUE, "config")>>],
  [comm |-> "bash", arguments |-> <<>>]}
Executable(out, err, v, holds) == [valid |-> TRUE, prints |-> [s \in Streams |-> IF s = "out" THEN out ELSE err], version |-> v, holds |-> holds]
ThePrograms == {Executable(3, 0, 2, {}), Executable(3, 1, 2, {"out"}), Executable(2, 0, 1, {"err"}), Executable(4, 4, 1, {"out", "err"}),Executable(5, 1, 1, {"out"}), Executable(0, 1, 0, {})}

\* The probe is run in full for one process that has meanwhile ended, and
\* rejects the executable for every other.
ProbedInFull ==
  /\ pid = 1 /\ snapshot.config = "valid" /\ snapshot.api = "not_configured"
  /\ table[1] = [comm |-> "bash", arguments |-> <<>>] /\ table[2] = None

InspectorBounds ==
  /\ step = "probe" /\ ~ProbedInFull => leader' # "running"
  /\ program # None => table' = table

----------------------------------------------------------------------------
\* Most files are read and go no further.
BoundedNext ==
  /\ profile = Unset \/ file \in Prepared
  /\ ReadersNext
  /\ InspectorBounds

\* The inspector is one thread that goes on whenever it can, each of its waits
\* being bounded; the miner, the server and the other processes need not.
Inspecting == InspectorStep \/ (step = "probe" /\ ProberStep /\ UNCHANGED inspectorVars)

BoundedSpec ==
  /\ ReadersInit /\ [][BoundedNext]_readersVars
  /\ WF_readersVars(Inspecting /\ UNCHANGED <<vars, configVars>>)
=============================================================================
