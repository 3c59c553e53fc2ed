---------------------------- MODULE MCObservation ----------------------------
(***************************************************************************)
(* A small registry with a component of every kind: one with a unit, one   *)
(* with a schema, the one with two forms, one with facts of every type.    *)
(* The inbox varies one component at a time over every combination of its  *)
(* fields, and the frame of the observation around it.                     *)
(***************************************************************************)
EXTENDS Observation

Strings == STRING

FourComponents ==
  {"state-readiness", "persistent-state", "randomx-msr", "root-filesystem-integrity"}

Order == <<"state-readiness", "persistent-state", "randomx-msr", "root-filesystem-integrity">>

Plain ==
  [authority |-> "rigos-status-agent", summary |-> <<"said by the agent">>, unit |-> Null,
   activeState |-> Null, subState |-> Null, result |-> Null, schema |-> Null,
   outcome |-> Null, facts |-> <<>>, other |-> FALSE]

Pair(key, value) == [key |-> key, value |-> value]

SomeFacts(id) ==
  {<<>>, <<Pair("unknownFact", "in range")>>} \cup
  CASE id = "state-readiness" ->
         {<<Pair("unitFileState", "masked")>>, <<Pair("unitFileState", "bad")>>,
          <<Pair("conditionResult", "no"), Pair("unitFileState", "static")>>}
    [] id = "persistent-state" -> {<<Pair("stateOutcome", "blocked")>>}
    [] id = "randomx-msr" ->
         {<<Pair("verificationOutcome", "verified")>>,
          <<Pair("conditionResult", "no")>>,
          <<Pair("conditionResult", "no"), Pair("unitFileState", "static")>>,
          <<Pair("unitFileState", "static"), Pair("conditionResult", "yes")>>}
    [] OTHER ->
         {<<Pair("rootReadOnly", "true"), Pair("rootMode", "read-only")>>,
          <<Pair("rootMode", "read-write"), Pair("rootReadOnly", "false")>>,
          <<Pair("rootReadOnly", "yes")>>}

\* Every combination of the fields, with a good, a bad and no value for each.
Bodies(id) ==
  {[Plain EXCEPT !.unit = unit, !.activeState = active, !.subState = sub, !.result = result,
                 !.schema = schema, !.outcome = outcome, !.facts = facts] :
     unit \in {Null, RandomxUnit, "rigos-state-ready.service"},
     active \in {Null, "failed", "bad"}, sub \in {Null, "dead"}, result \in {Null, "signal"},
     schema \in {Null, "rigos.state-status/v1", "rigos.randomx-msr-status/v1"},
     outcome \in {Null, "verified", "bad"}, facts \in SomeFacts(id)}

Marked(e) == {e, [e EXCEPT !.summary = <<>>], [e EXCEPT !.authority = "another"],
              [e EXCEPT !.other = TRUE]}

At(id, status, e) == [id |-> id, status |-> status, observedAt |-> 10, evidence |-> e]

Quiet == [i \in 1..4 |-> At(Order[i], "operational", Plain)]

Frame(components) ==
  [schema |-> "rigos.status-observation/v1", observedAt |-> 10, sourceId |-> "source",
   bootIdHash |-> "boot",
   release |-> [field \in DOMAIN ReleaseRule |->
                  CASE field = "product" -> "RIGOS" [] field = "version" -> "token" [] OTHER -> Null],
   health |-> [status |-> "ok", exitCode |-> "zero", summary |-> <<"said by the agent">>],
   components |-> components, other |-> FALSE]

Signed(observation) == [observation |-> observation, timestamp |-> 10]

\* One component in every condition, among quiet ones.
OneComponent ==
  {Signed(Frame([Quiet EXCEPT ![i] = At(Order[i], "partial_outage", e)])) :
     <<i, e>> \in UNION {{j} \X Bodies(Order[j]) : j \in 1..4}}

\* The two forms of the RandomX evidence, with every status and every blemish.
Legacy ==
  [Plain EXCEPT !.unit = RandomxUnit, !.activeState = "active", !.subState = "exited",
                !.result = "success",
                !.facts = <<Pair("unitFileState", "enabled"), Pair("conditionResult", "yes")>>]

BothForms ==
  {Signed(Frame([Quiet EXCEPT ![3] = At("randomx-msr", status, e)])) :
     status \in ComponentStatus \cup {"bad"},
     e \in Marked(Legacy) \cup Marked(PresentEvidence("degraded"))}

\* Registries with a component missing, repeated, unknown or in another order.
Registries ==
  {Signed(Frame([i \in 1..n |-> At(ids[i], "operational", IF ids[i] = "randomx-msr" THEN e ELSE Plain)])) :
     n \in 3..4, ids \in [1..4 -> {"state-readiness", "persistent-state", "randomx-msr",
                                   "root-filesystem-integrity", "another"}],
     e \in {Plain, Legacy}}

\* The frame: dates, hashes, release and health.
Dates ==
  {[observation |-> [Frame(Quiet) EXCEPT !.observedAt = date,
                       !.components = [i \in 1..4 |-> [Quiet[i] EXCEPT !.observedAt = inner]]],
    timestamp |-> 10] : date \in 8..12, inner \in {9, 10, 11}}

Releases ==
  {Signed([Frame(Quiet) EXCEPT !.release[field] = value]) :
     field \in DOMAIN ReleaseRule, value \in {Null, "", "RIGOS", "token", "rigos-usb-amd64", "x86_64"}}

Healths ==
  {Signed([Frame(Quiet) EXCEPT !.health = [status |-> status, exitCode |-> code, summary |-> text],
                               !.sourceId = source]) :
     status \in HealthStatus \cup {"bad"}, code \in ExitCode \cup {"out of range"},
     text \in {<<>>, <<"said by the agent">>}, source \in {"source", "bad"}}

Arriving == OneComponent \cup BothForms \cup Registries \cup Dates \cup Releases \cup Healths
=============================================================================
