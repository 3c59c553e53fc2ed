------------------------------- MODULE Inspector -------------------------------
(***************************************************************************)
(* XmrigBackend::discover of rigos-xmrig: it finds the miner's process in  *)
(* /proc, reads its command line, its executable and its configuration,    *)
(* asks the miner's HTTP API on a loopback address, probes the executable  *)
(* for a version the API did not give (VersionProbe), and reads the        *)
(* process again for its owner and uptime.  The process may end and its    *)
(* number be used again between any two reads.                             *)
(***************************************************************************)
EXTENDS VersionProbe, FiniteSets

CONSTANTS
  Processes,      \* records [comm, arguments] a pid may stand for
  Pids,           \* the numbers of processes
  Configurations, \* what reading a configuration file may give: its state and its http part
  ExplicitConfig, \* explicit_config: a path, or None
  ExplicitExecutable, \* whether there is an explicit_executable
  ProbeVersion,   \* probe_version
  Addresses,      \* records [loopback, order], order as SocketAddr sorts
  LocalHost,      \* what localhost may resolve to: sets of addresses
  ResponseLimit   \* API_MAX_BYTES, in pieces

ASSUME InspectorAssumption ==
  /\ Pids \subseteq Nat /\ ResponseLimit \in Nat 
  /\ ProbeVersion \in BOOLEAN /\ ExplicitExecutable \in BOOLEAN
  /\ \A a \in Addresses : a.loopback \in BOOLEAN /\ a.order \in Nat
  /\ \A c \in Configurations :
       /\ c.state \in {"unreadable", "malformed", "valid"}
       /\ c.http # None => c.state = "valid"

VARIABLES
  step,      \* where the inspector is
  table,     \* the processes there are
  pid,       \* the one found, or None
  known,     \* its command line and whether an executable is known
  http,      \* the http part of the configuration, or None
  contact,   \* what was sent: the address and whether with the token, or None
  server,    \* the server: "silent", "sending" or "closed"
  received,  \* pieces of the answer read
  snapshot   \* what is reported

inspectorVars == <<step, table, pid, known, http, contact, server, received, snapshot>>

ApiState == {"none", "not_configured", "disabled", "invalid_port",
             "unsupported_non_loopback_endpoint", "connection_refused", "timeout", "io_error",
             "malformed_response", "authentication_rejected", "wildcard_reachable", "reachable"}

Table == [Pids -> Processes \cup {None}]

Snapshot ==
  [config : {"absent", "unreadable", "malformed", "valid"}, api : ApiState,
   version : {None, "api"} \cup Result, owner : {None, "observed"}, uptime : {None, "observed"}]

EmptySnapshot == [config |-> "absent", api |-> "none", version |-> None, owner |-> None, uptime |-> None]

\* What is known of the process and of the executable.
Known == [arguments : {q.arguments : q \in Processes} \cup {None}, executable : BOOLEAN]

InspectorInit ==
  /\ step = "idle" /\ table = [p \in Pids |-> None] /\ pid = None
  /\ known = [arguments |-> None, executable |-> FALSE]
  /\ http = None /\ contact = None /\ server = "silent" /\ received = 0
  /\ snapshot = EmptySnapshot

\* The rest of the machine.  The API and the probe read nothing of /proc, so
\* what changes meanwhile may as well change after them.
ProcessChanges ==
  /\ step \notin {"idle", "config", "api", "answer", "probe", "done"}
  /\ \E p \in Pids, q \in Processes \cup {None} :
       table[p] # q /\ table' = [table EXCEPT ![p] = q]
  /\ UNCHANGED <<step, pid, known, http, contact, server, received, snapshot, probeVars>>

Begin ==
  /\ step = "idle" /\ step' = "process"
  /\ \E t \in Table : table' = t
  /\ UNCHANGED <<pid, known, http, contact, server, received, snapshot, probeVars>>

----------------------------------------------------------------------------
(* The process and its files.                                              *)

\* discover_process: the lowest number whose comm is xmrig; the numbers are
\* listed before the names are read.
FindProcess ==
  /\ step = "process"
  /\ LET miners == {p \in Pids : table[p] # None /\ table[p].comm = "xmrig"} IN
     \/ miners = {} /\ pid' = None
     \/ \E p \in miners : (\A q \in miners : p <= q) /\ pid' = p
  /\ step' = "cmdline"
  /\ UNCHANGED <<table, known, http, contact, server, received, snapshot, probeVars>>

Alive == pid # None /\ table[pid] # None

ReadCommandLine ==
  /\ step = "cmdline" /\ step' = "executable"
  /\ known' = [known EXCEPT !.arguments = IF Alive THEN table[pid].arguments ELSE None]
  /\ UNCHANGED <<table, pid, http, contact, server, received, snapshot, probeVars>>

ReadExecutable ==
  /\ step = "executable" /\ step' = "config"
  /\ \E readable \in BOOLEAN :
       known' = [known EXCEPT !.executable = (Alive /\ readable) \/ ExplicitExecutable]
  /\ UNCHANGED <<table, pid, http, contact, server, received, snapshot, probeVars>>

\* extract_config_path: the first --config decides, even with no path after it,
\* or the first --config= with a path.
ConfigPath ==
  LET a == known.arguments
      named == IF a = None THEN {} ELSE {i \in DOMAIN a : a[i].option}
      first == CHOOSE i \in named : \A j \in named : i <= j
  IN  IF named = {} \/ a[first].path = None THEN ExplicitConfig ELSE a[first].path

\* inspect_config
ReadConfig ==
  /\ step = "config" /\ step' = "api"
  /\ IF ConfigPath = None THEN UNCHANGED <<snapshot, http>>
     ELSE \E c \in Configurations :
            snapshot' = [snapshot EXCEPT !.config = c.state] /\ http' = c.http
  /\ UNCHANGED <<table, pid, known, contact, server, received, probeVars>>

----------------------------------------------------------------------------
(* The API.                                                                *)

Loopback(v) == {[loopback |-> TRUE, order |-> v]}

\* validated_addresses: any of them, or none, which stands for each reason to
\* have none: no address, no answer in 250 ms, an error, a name.
Candidates(host) ==
  CASE host.kind = "v4 any" -> {Loopback(0)}
    [] host.kind = "v6 any" -> {Loopback(1)}
    [] host.kind = "literal" -> {{host.address}}
    [] host.kind = "localhost" -> LocalHost \cup {{}}
    [] OTHER -> {{}}

\* Faulty variant: content with one loopback address among them.
FaultyApproved(addresses) == \E a \in addresses : a.loopback

Approved(addresses) == addresses # {} /\ \A a \in addresses : a.loopback

ApiDone(state) == step' = "version" /\ snapshot' = [snapshot EXCEPT !.api = state]

ValidPort(part) == part.port \in 1..65535

\* inspect_api, before anything is sent.
NoRequest ==
  /\ step = "api"
  /\ \/ http = None /\ ApiDone("not_configured")
     \/ http # None /\ ~http.enabled /\ ApiDone("disabled")
     \/ http # None /\ http.enabled /\ ~ValidPort(http) /\ ApiDone("invalid_port")
     \/ /\ http # None /\ http.enabled /\ ValidPort(http)
        /\ \E addresses \in Candidates(http.host) : ~Approved(addresses)
        /\ ApiDone("unsupported_non_loopback_endpoint")
  /\ UNCHANGED <<table, pid, known, http, contact, server, received, probeVars>>

\* The first address in their order; the token is sent if there is one.
Request ==
  /\ step = "api" /\ http # None /\ http.enabled /\ ValidPort(http)
  /\ \E addresses \in Candidates(http.host) :
       /\ Approved(addresses)
       /\ \E a \in addresses :
            /\ \A b \in addresses : a.order <= b.order
            /\ \/ \E state \in {"connection_refused", "timeout", "io_error"} :
                    ApiDone(state) /\ UNCHANGED contact
               \/ /\ step' = "answer" /\ contact' = [address |-> a, token |-> http.token]
                  /\ UNCHANGED snapshot
  /\ UNCHANGED <<table, pid, known, http, server, received, probeVars>>

ServerStep ==
  /\ step = "answer" /\ server = "silent"
  /\ server' \in {"sending", "closed"}
  /\ UNCHANGED <<step, table, pid, known, http, contact, received, snapshot, probeVars>>

\* Faulty variant: reads to the end, however long.
FaultyReadAnswer ==
  /\ step = "answer" /\ server = "sending"
  /\ received' = IF received > ResponseLimit THEN received ELSE received + 1
  /\ server' = "silent"
  /\ UNCHANGED <<step, table, pid, known, http, contact, snapshot, probeVars>>

\* read_to_end of take(API_MAX_BYTES + 1): every read that gets something
\* starts the 750 ms anew.
ReadAnswer ==
  /\ step = "answer" /\ server = "sending" /\ received <= ResponseLimit
  /\ received' = received + 1 /\ server' = "silent"
  /\ UNCHANGED <<step, table, pid, known, http, contact, snapshot, probeVars>>

AnswerFails ==
  /\ step = "answer" /\ server = "silent" /\ received <= ResponseLimit
  /\ \E state \in {"timeout", "io_error"} : ApiDone(state)
  /\ UNCHANGED <<table, pid, known, http, contact, server, received, probeVars>>

Reachable == IF http.host.kind \in {"v4 any", "v6 any"} THEN "wildcard_reachable" ELSE "reachable"

\* The answer is complete: too long, not HTTP, redirected or not JSON; another
\* status; or a summary, which may name the version.
ParseAnswer ==
  /\ step = "answer" /\ (server = "closed" \/ received > ResponseLimit)
  /\ step' = "version"
  /\ \E state \in {"malformed_response", "authentication_rejected", Reachable},
        given \in {None, "api"} :
       /\ received > ResponseLimit \/ received = 0 => state = "malformed_response"
       /\ state # Reachable => given = None
       /\ snapshot' = [snapshot EXCEPT !.api = state, !.version = given]
  /\ UNCHANGED <<table, pid, known, http, contact, server, received, probeVars>>

----------------------------------------------------------------------------
(* The version, and the process once more.                                 *)

StartProbe ==
  /\ step = "version" /\ snapshot.version = None /\ ProbeVersion /\ known.executable
  /\ step' = "probe" /\ probe' = "wanted"
  /\ UNCHANGED <<table, pid, known, http, contact, server, received, snapshot, program,
                 groupVars, captureVars, got, signals, version>>

NoProbe ==
  /\ step = "version" /\ (snapshot.version # None \/ ~ProbeVersion \/ ~known.executable)
  /\ step' = "owner"
  /\ UNCHANGED <<table, pid, known, http, contact, server, received, snapshot, probeVars>>

TakeVersion ==
  /\ step = "probe" /\ probe = "done"
  /\ step' = "owner" /\ snapshot' = [snapshot EXCEPT !.version = version]
  /\ UNCHANGED <<table, pid, known, http, contact, server, received, probeVars>>

\* inspect_owner and inspect_uptime of whatever has the number by now.
ReadOwner ==
  /\ step = "owner" /\ step' = "uptime"
  /\ snapshot' = [snapshot EXCEPT !.owner = IF Alive THEN "observed" ELSE None]
  /\ UNCHANGED <<table, pid, known, http, contact, server, received, probeVars>>

ReadUptime ==
  /\ step = "uptime" /\ step' = "done"
  /\ snapshot' = [snapshot EXCEPT !.uptime = IF Alive THEN "observed" ELSE None]
  /\ UNCHANGED <<table, pid, known, http, contact, server, received, probeVars>>

InspectorStep ==
  FindProcess \/ ReadCommandLine \/ ReadExecutable \/ ReadConfig \/ NoRequest \/ Request
  \/ ReadAnswer \/ AnswerFails \/ ParseAnswer \/ StartProbe \/ NoProbe \/ TakeVersion
  \/ ReadOwner \/ ReadUptime

InspectorNext ==
  \/ Begin \/ ProcessChanges \/ ServerStep \/ InspectorStep
  \/ (step = "probe" /\ ProbeNext /\ UNCHANGED inspectorVars)

InspectorSpec ==
  InspectorInit /\ ProbeInit /\ [][InspectorNext]_<<inspectorVars, probeVars>>

\* The types of the inspector's state.
InspectorTypeOK ==
  /\ step \in {"idle", "process", "cmdline", "executable", "config", "api", "answer",
              "version", "probe", "owner", "uptime", "done"}
  /\ table \in Table /\ pid \in Pids \cup {None}
  /\ known \in Known
  /\ server \in {"silent", "sending", "closed"} /\ received \in 0..(ResponseLimit + 1)
  /\ snapshot \in Snapshot

----------------------------------------------------------------------------
\* The token of the miner's API goes to this machine only: whatever the host
\* is, and whatever localhost resolves to, the request is made to a loopback
\* address ("Any resolution containing a non-loopback candidate is rejected",
\* docs/xmrig-api-security.md).
TokenStaysLocal ==
  contact # None => /\ contact.address.loopback
                    /\ http.enabled /\ snapshot.config = "valid"

\* An inspection ends whatever the miner does: a server that drips its answer
\* is cut off at the limit, a probe that hangs or leaves a helper behind is
\* given up (every wait has its own deadline and none is for the whole).
InspectionEnds == (step = "process") ~> (step = "done")
=============================================================================
