----------------------------- MODULE Observation -----------------------------
(***************************************************************************)
(* What an appliance may say in public: the sanitizer an observation       *)
(* passes when it is ingested, and passes again every time its row is      *)
(* read, and the older RandomX form it accepts beside the present one.     *)
(*                                                                         *)
(* Values are tokens: a number is "in range" or "out of range" of its      *)
(* rule, a boolean is "true" or "false".  A field that is absent, null or  *)
(* undefined is Null: the sanitizer treats the three alike (but for the    *)
(* exit code, which may be null and not absent).  The facts of             *)
(* an evidence are a sequence, since the order of a JSON object's members  *)
(* decides the summary.  A summary is a tuple, the agent's free text       *)
(* included.  "other" says that an object has a member that is not         *)
(* supported, a private one included: requireExactKeys refuses both.       *)
(***************************************************************************)
EXTENDS Integers, Sequences, FiniteSets

CONSTANTS
  Registry,   \* COMPONENT_IDS, or the part of it an instance looks at
  Inbox,      \* the observations that arrive, each with its signed request
  Token,      \* the strings
  Hash,       \* values of 64 hexadecimal digits
  Skew,       \* MAX_CLOCK_SKEW_SECONDS
  Null        \* no value

VARIABLES
  request,   \* the observation being ingested, with its request's timestamp
  row,       \* status_observations: the source's row, or Null
  node       \* the node the public projection shows for it, or Null

vars == <<request, row, node>>
-----------------------------------------------------------------------------
(***************************************************************************)
(* COMPONENT_POLICY: what each component may say.                          *)
(***************************************************************************)
ComponentStatus == {"operational", "unknown", "degraded", "partial_outage", "major_outage"}
ReadyState == {"ready", "verified", "unavailable", "unknown", "failed", "blocked", "degraded"}
YesNoUnknown == {"yes", "no", "unknown"}
UnitFileState == {"enabled", "disabled", "static", "masked", "indirect", "generated", "unknown"}
Boolean == {"true", "false"}
Number == {"in range"}

\* The values of the fields only a component with a unit may have.
UnitRule ==
  [activeState |-> {"active", "inactive", "failed", "activating", "deactivating", "unknown"},
   subState |-> {"running", "exited", "dead", "failed", "waiting", "unknown"},
   result |-> {"success", "exit-code", "signal", "timeout", "unknown"}]

RandomxUnit == "rigos-randomx-msr.service"

UnitOf(id) ==
  CASE id = "state-readiness" -> "rigos-state-ready.service"
    [] id = "ssh-host-identity" -> "rigos-ssh-hostkeys.service"
    [] id = "profile-apply" -> "rigos-profile-apply.service"
    [] id = "runtime-render" -> "rigos-runtime-render.service"
    [] id = "network-readiness" -> "NetworkManager.service"
    [] id = "ssh-service" -> "ssh.service"
    [] id = "remote-access-observer" -> "rigos-remote-access-observe.service"
    [] OTHER -> Null

SchemaOf(id) ==
  CASE id = "boot-device-verification" -> "rigos.boot-device/v1"
    [] id = "persistent-state" -> "rigos.state-status/v1"
    [] id = "recovery-access" -> "rigos.recovery-access-status/v1"
    [] id = "configuration-activation" -> "rigos.activation-status/v1"
    [] id = "huge-page-authority" -> "rigos.performance-status/v1"
    [] id = "randomx-msr" -> "rigos.randomx-msr-status/v1"
    [] OTHER -> Null

\* The components with a schema, and no others, may report an outcome.
OutcomesOf(id) == IF SchemaOf(id) = Null THEN {} ELSE ReadyState

FactRule(id) ==
  CASE UnitOf(id) # Null ->
         [conditionResult |-> YesNoUnknown, unitFileState |-> UnitFileState]
    [] id \in {"boot-device-verification", "randomx-msr"} ->
         [verificationOutcome |-> ReadyState]
    [] id \in {"persistent-state", "recovery-access"} -> [stateOutcome |-> ReadyState]
    [] id = "configuration-activation" ->
         [configurationState |-> {"ready", "unconfigured", "unavailable", "unknown", "failed"}]
    [] id = "huge-page-authority" ->
         [actualPages |-> Number, allocationPercent |-> Number, targetPages |-> Number]
    [] id = "root-filesystem-integrity" ->
         [immutableLowerLayer |-> Boolean, rootReadOnly |-> Boolean,
          rootFileSystem |-> {"overlay", "squashfs", "ext4", "unknown"},
          rootMode |-> {"read-only", "read-write", "unknown"}]
    [] id = "failed-unit-set" -> [failedUnits |-> Number, ignoredObserverFailures |-> Number]
    [] id = "operator-health" -> [commandExitCode |-> Number]
    [] id = "kernel-integrity" -> [severeEvents |-> Number, warningEvents |-> Number]
    [] id = "state-capacity" -> [freePercent |-> Number]
    [] id = "time-synchronization" ->
         [ntpSynchronized |-> Boolean, timeServiceActiveState |-> UnitRule.activeState]
    [] OTHER -> [none \in {} |-> {}]

\* The fields of a release: product and version must be there, the rest may.
ReleaseRule ==
  [product |-> {"RIGOS"}, version |-> {"token"}, imageId |-> {"rigos-usb-amd64", Null},
   imageVersion |-> {"token", Null}, channel |-> {"token", Null}, buildId |-> {"token", Null},
   buildCommit |-> {"commit", Null}, architecture |-> {"x86_64", Null}]

HealthStatus == {"ok", "degraded", "failed", "unavailable"}
ExitCode == {"zero", "nonzero", Null}

Optional == Token \cup {Null}
Text == Seq(Token)

Evidence ==
  [authority: Token, summary: Text, unit: Optional, activeState: Optional, subState: Optional,
   result: Optional, schema: Optional, outcome: Optional,
   facts: Seq([key: Token, value: Token]), other: BOOLEAN]

Component == [id: Token, status: Token, observedAt: Int, evidence: Evidence]

RawObservation ==
  [schema: Token, observedAt: Int, sourceId: Token, bootIdHash: Token,
   release: [DOMAIN ReleaseRule -> Optional],
   health: [status: Token, exitCode: Optional, summary: Text],
   components: Seq(Component), other: BOOLEAN]

\* A JSON object has each member once.
ASSUME InboxAssumption ==
  /\ IsFiniteSet(Registry)
  /\ Skew \in Nat
  /\ Null \notin Token
  /\ \A field \in DOMAIN UnitRule : UnitRule[field] \subseteq Token
  /\ ReadyState \cup YesNoUnknown \cup UnitFileState \subseteq Token
  /\ {"completed", "reported", "rigos-status-agent", "randomx-msr",
      "rigos.randomx-msr-status/v1", "verificationOutcome", "conditionResult",
      "unitFileState"} \subseteq Token
  /\ Inbox \subseteq [observation: RawObservation, timestamp: Int]
-----------------------------------------------------------------------------
(***************************************************************************)
(* sanitizeEvidence.                                                       *)
(***************************************************************************)
AllowedFacts(facts, id) ==
  \A i \in DOMAIN facts :
    facts[i].key \in DOMAIN FactRule(id) /\ facts[i].value \in FactRule(id)[facts[i].key]

AllowedEvidence(e, id) ==
  /\ ~e.other
  /\ e.authority = "rigos-status-agent"
  /\ e.summary # <<>>
  /\ e.unit \in {Null, UnitOf(id)}
  /\ \A field \in DOMAIN UnitRule :
       e[field] = Null \/ (UnitOf(id) # Null /\ e[field] \in UnitRule[field])
  /\ e.schema \in {Null, SchemaOf(id)}
  /\ e.outcome = Null \/ e.outcome \in OutcomesOf(id)
  /\ AllowedFacts(e.facts, id)

\* sanitizedSummary: the first of the outcome, the unit's state and the first
\* fact that says something, or the status.
FactDetail(value, status) ==
  IF value \in Number THEN <<status>>
  ELSE IF value = "true" THEN <<"yes">> ELSE IF value = "false" THEN <<"no">> ELSE <<value>>

Detail(status, e) ==
  IF e.outcome # Null THEN <<e.outcome>>
  ELSE IF e.activeState # Null
       THEN IF e.subState = Null THEN <<e.activeState>> ELSE <<e.activeState, e.subState>>
       ELSE IF e.facts = <<>> THEN <<status>> ELSE FactDetail(e.facts[1].value, status)

SanitizedSummary(id, status, e) == <<id>> \o Detail(status, e)

\* Faulty variant: keeps the summary the agent wrote.
FaultySanitizeEvidence(e, id, status) == e

SanitizeEvidence(e, id, status) == [e EXCEPT !.summary = SanitizedSummary(id, status, e)]
-----------------------------------------------------------------------------
(***************************************************************************)
(* validateAndSanitizeObservation.                                         *)
(***************************************************************************)
\* Math.abs(observedUnix - requestTimestamp)
Distance(a, b) == IF a < b THEN b - a ELSE a - b

\* Faulty variant: counts the components without looking for a repeated one.
FaultyCompleteRegistry(components) ==
  /\ Len(components) = Cardinality(Registry)
  /\ \A i \in DOMAIN components : components[i].id \in Registry

CompleteRegistry(components) ==
  /\ Len(components) = Cardinality(Registry)
  /\ \A i \in DOMAIN components :
       /\ components[i].id \in Registry
       /\ \A j \in 1..(i - 1) : components[j].id # components[i].id
  /\ Cardinality({components[i].id : i \in DOMAIN components}) = Cardinality(Registry)

AllowedComponent(c, observedAt) ==
  /\ c.status \in ComponentStatus
  /\ c.observedAt = observedAt
  /\ AllowedEvidence(c.evidence, c.id)

Allowed(raw, timestamp) ==
  /\ ~raw.other
  /\ raw.schema = "rigos.status-observation/v1"
  /\ Distance(raw.observedAt, timestamp) <= Skew
  /\ raw.sourceId \in Hash /\ raw.bootIdHash \in Hash
  /\ \A field \in DOMAIN ReleaseRule : raw.release[field] \in ReleaseRule[field]
  /\ raw.health.status \in HealthStatus /\ raw.health.exitCode \in ExitCode
  /\ raw.health.summary # <<>>
  /\ CompleteRegistry(raw.components)
  /\ \A i \in DOMAIN raw.components : AllowedComponent(raw.components[i], raw.observedAt)

HealthSummary(health) ==
  IF health.status = "ok" /\ health.exitCode = "zero"
  THEN <<"completed">> ELSE <<"reported", health.status>>

SanitizeComponent(c) == [c EXCEPT !.evidence = SanitizeEvidence(c.evidence, c.id, c.status)]

Sanitize(raw) ==
  [raw EXCEPT
     !.health.summary = HealthSummary(raw.health),
     !.components = [i \in DOMAIN raw.components |-> SanitizeComponent(raw.components[i])]]
-----------------------------------------------------------------------------
(***************************************************************************)
(* validateLegacyRandomxObservation: an older agent reports the unit that  *)
(* writes the MSRs in place of the outcome.                                *)
(***************************************************************************)
RandomxAt(raw) == {i \in DOMAIN raw.components : raw.components[i].id = "randomx-msr"}

IsLegacy(raw, i) == RandomxAt(raw) = {i} /\ raw.components[i].evidence.unit = RandomxUnit

FactNamed(e, key) == {e.facts[i].value : i \in {j \in DOMAIN e.facts : e.facts[j].key = key}}

AllowedLegacy(e) ==
  /\ ~e.other /\ e.schema = Null /\ e.outcome = Null
  /\ e.authority = "rigos-status-agent"
  /\ e.summary # <<>>
  /\ \A field \in DOMAIN UnitRule : e[field] \in UnitRule[field]
  /\ \A i \in DOMAIN e.facts : e.facts[i].key \in {"conditionResult", "unitFileState"}
  /\ \E value \in YesNoUnknown : FactNamed(e, "conditionResult") = {value}
  /\ \E value \in UnitFileState : FactNamed(e, "unitFileState") = {value}

OutcomeForStatus(status) ==
  CASE status = "operational" -> "ready"
    [] status = "degraded" -> "degraded"
    [] status \in {"partial_outage", "major_outage"} -> "failed"
    [] OTHER -> "unknown"

WithEvidence(raw, i, e) == [raw EXCEPT !.components[i].evidence = e]

\* The present form of a legacy component, which the validation below sees.
PresentEvidence(status) ==
  LET outcome == OutcomeForStatus(status) IN
  [authority |-> "rigos-status-agent", summary |-> <<"randomx-msr", outcome>>,
   unit |-> Null, activeState |-> Null, subState |-> Null, result |-> Null,
   schema |-> SchemaOf("randomx-msr"), outcome |-> outcome,
   facts |-> <<[key |-> "verificationOutcome", value |-> outcome]>>, other |-> FALSE]

Normalized(raw, i) == WithEvidence(raw, i, PresentEvidence(raw.components[i].status))

\* Faulty variant: leaves the unit's name out of what is stored.
FaultyLegacyEvidence(e) ==
  [e EXCEPT !.unit = Null, !.summary = <<"randomx-msr", e.activeState, e.subState>>]

\* The facts are written again in a fixed order.
LegacyEvidence(e) ==
  [e EXCEPT
     !.summary = <<"randomx-msr", e.activeState, e.subState>>,
     !.facts = <<[key |-> "conditionResult",
                  value |-> CHOOSE v \in YesNoUnknown : FactNamed(e, "conditionResult") = {v}],
                 [key |-> "unitFileState",
                  value |-> CHOOSE v \in UnitFileState : FactNamed(e, "unitFileState") = {v}]>>]

Accepts(raw, timestamp) ==
  \/ \E i \in DOMAIN raw.components :
       /\ IsLegacy(raw, i)
       /\ AllowedLegacy(raw.components[i].evidence)
       /\ Allowed(Normalized(raw, i), timestamp)
  \/ /\ \A i \in DOMAIN raw.components : ~IsLegacy(raw, i)
     /\ Allowed(raw, timestamp)

Public(raw) ==
  IF \E i \in DOMAIN raw.components : IsLegacy(raw, i)
  THEN LET i == CHOOSE i \in DOMAIN raw.components : IsLegacy(raw, i) IN
       WithEvidence(Sanitize(Normalized(raw, i)), i, LegacyEvidence(raw.components[i].evidence))
  ELSE Sanitize(raw)
-----------------------------------------------------------------------------
Init ==
  /\ request \in Inbox \cup {Null}
  /\ row = Null
  /\ node = Null

Accept ==
  /\ request # Null
  /\ Accepts(request.observation, request.timestamp)
  /\ row' = [source |-> request.observation.sourceId, payload |-> Public(request.observation)]
  /\ request' = Null
  /\ UNCHANGED node

Refuse ==
  /\ request # Null
  /\ ~Accepts(request.observation, request.timestamp)
  /\ request' = Null
  /\ UNCHANGED <<row, node>>

\* parseStoredObservation: the row is validated as of its own date.
Readable(r) ==
  Accepts(r.payload, r.payload.observedAt) /\ Public(r.payload).sourceId = r.source

\* publicNode: a row that is no longer valid is not shown.
Publish ==
  /\ row # Null
  /\ node' = IF Readable(row) THEN Public(row.payload) ELSE Null
  /\ UNCHANGED <<request, row>>

Next == Accept \/ Refuse \/ Publish

Spec == Init /\ [][Next]_vars
-----------------------------------------------------------------------------
TypeOK ==
  /\ request \in [observation: RawObservation, timestamp: Int] \cup {Null}
  /\ row \in [source: Token, payload: RawObservation] \cup {Null}
  /\ node \in RawObservation \cup {Null}

\* StoredIsReadable: what one sanitizing lets into the table, in either form of
\* the RandomX evidence, the sanitizing of every later read accepts and leaves
\* as it is, so no appliance disappears from the page or changes what it said.
StoredIsReadable ==
  /\ row # Null => Readable(row) /\ Public(row.payload) = row.payload
  /\ node # Null => node = row.payload

\* NothingInTheAgentsWords: every word of a published summary is one the policy
\* of its component knows, whatever text the agent sent.
Words(id) ==
  {id} \cup ComponentStatus \cup OutcomesOf(id) \cup {"yes", "no"}
    \cup (UNION {UnitRule[field] : field \in DOMAIN UnitRule})
    \cup (UNION {FactRule(id)[key] : key \in DOMAIN FactRule(id)})

NothingInTheAgentsWords ==
  node # Null =>
    \A i \in DOMAIN node.components :
      LET c == node.components[i] IN
      \A k \in DOMAIN c.evidence.summary : c.evidence.summary[k] \in Words(c.id)

\* EveryComponentOnce: a published node shows every component of the registry
\* exactly once, so a missing component cannot pass for a healthy one.
EveryComponentOnce ==
  node # Null =>
    \A id \in Registry : Cardinality({i \in DOMAIN node.components : node.components[i].id = id}) = 1
=============================================================================
