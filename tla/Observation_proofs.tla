-------------------------- MODULE Observation_proofs --------------------------
(***************************************************************************)
(* What is stored is readable, whatever the registry and whatever arrives: *)
(* the public form of an accepted observation is accepted again, as of its *)
(* own date, and is its own public form.                                   *)
(***************************************************************************)
EXTENDS Observation, SequenceTheorems, FiniteSetTheorems, TLAPS

\* Short sequences, and the first element of one that is not empty.
LEMMA ShortSequence ==
  ASSUME NEW S, NEW a \in S, NEW b \in S
  PROVE  <<a>> \in Seq(S) /\ <<a, b>> \in Seq(S)
OBVIOUS

LEMMA FirstElement ==
  ASSUME NEW S, NEW q \in Seq(S), q # <<>>
  PROVE  q[1] \in S
BY EmptySeq

\* sanitizeEvidence: the summary it writes is a text, and is not empty.
LEMMA SummaryIsText ==
  ASSUME NEW id \in Token, NEW status \in Token, NEW e \in Evidence
  PROVE  /\ SanitizedSummary(id, status, e) \in Text
         /\ SanitizedSummary(id, status, e) # <<>>
<1>1. Detail(status, e) \in Seq(Token)
  <2>1. CASE e.outcome # Null
    <3>1. e.outcome \in Token
      BY <2>1 DEF Evidence, Optional
    <3>2. <<e.outcome>> \in Seq(Token)
      BY <3>1, ShortSequence, Zenon
    <3>3. QED BY <2>1, <3>2, Zenon DEF Detail
  <2>2. CASE e.outcome = Null /\ e.activeState # Null
    <3>1. e.activeState \in Token /\ (e.subState # Null => e.subState \in Token)
      BY <2>2 DEF Evidence, Optional
    <3>2. /\ <<e.activeState>> \in Seq(Token)
          /\ e.subState # Null => <<e.activeState, e.subState>> \in Seq(Token)
      BY <3>1, ShortSequence, Zenon
    <3>3. QED BY <2>2, <3>2, Zenon DEF Detail
  <2>3. CASE e.outcome = Null /\ e.activeState = Null
    <3>1. ASSUME e.facts # <<>>
          PROVE  e.facts[1].value \in Token
      <4>1. e.facts \in Seq([key: Token, value: Token])
        BY DEF Evidence
      <4>2. e.facts[1] \in [key: Token, value: Token]
        BY <3>1, <4>1, FirstElement, Zenon
      <4>3. QED BY <4>2
    <3>2. ASSUME NEW value \in Token
          PROVE  FactDetail(value, status) \in Seq(Token)
      <4>1. "yes" \in Token /\ "no" \in Token
        BY InboxAssumption DEF YesNoUnknown
      <4>2. /\ <<status>> \in Seq(Token) /\ <<value>> \in Seq(Token)
            /\ <<"yes">> \in Seq(Token) /\ <<"no">> \in Seq(Token)
        BY <4>1, ShortSequence, Zenon
      <4>3. QED BY <4>2, Zenon DEF FactDetail
    <3>3. <<status>> \in Seq(Token)
      BY ShortSequence, Zenon
    <3>4. QED BY <2>3, <3>1, <3>2, <3>3, Zenon DEF Detail
  <2>4. QED BY <2>1, <2>2, <2>3
<1>2. <<id>> \in Seq(Token)
  BY ShortSequence, Zenon
<1>3. ASSUME NEW S, NEW q \in Seq(S), NEW x \in S
      PROVE  <<x>> \o q \in Seq(S) /\ <<x>> \o q # <<>>
  OBVIOUS
<1>4. QED BY <1>1, <1>3, Zenon DEF SanitizedSummary, Text

\* sanitizeEvidence changes the summary and nothing else, and keeps what it did
\* not refuse acceptable.
LEMMA EvidenceKept ==
  ASSUME NEW id \in Token, NEW status \in Token, NEW e \in Evidence
  PROVE  LET s == SanitizeEvidence(e, id, status) IN
         /\ s \in Evidence
         /\ s.unit = e.unit
         /\ AllowedEvidence(e, id) => AllowedEvidence(s, id)
         /\ SanitizeEvidence(s, id, status) = s
<1> DEFINE s == SanitizeEvidence(e, id, status)
           summary == SanitizedSummary(id, status, e)
<1>1. summary \in Text /\ summary # <<>>
  BY SummaryIsText
<1>2. s = [e EXCEPT !.summary = summary]
  BY DEF SanitizeEvidence
<1> HIDE DEF summary
<1>3. /\ s \in Evidence
      /\ s.summary = summary /\ s.unit = e.unit /\ s.authority = e.authority
      /\ s.activeState = e.activeState /\ s.subState = e.subState /\ s.result = e.result
      /\ s.schema = e.schema /\ s.outcome = e.outcome /\ s.facts = e.facts /\ s.other = e.other
  BY <1>1, <1>2 DEF Evidence
<1> HIDE DEF s
<1>4. AllowedEvidence(e, id) => AllowedEvidence(s, id)
  <2>1. \A field \in DOMAIN UnitRule : s[field] = e[field]
    BY <1>3 DEF UnitRule
  <2>2. QED BY <1>1, <1>3, <2>1 DEF AllowedEvidence
<1>5. Detail(status, s) = Detail(status, e)
  BY <1>3 DEF Detail
<1>6. SanitizedSummary(id, status, s) = summary
  BY <1>5 DEF SanitizedSummary, summary
<1>7. SanitizeEvidence(s, id, status) = [s EXCEPT !.summary = summary]
  BY <1>6 DEF SanitizeEvidence
<1>8. SanitizeEvidence(s, id, status) = s
  BY <1>3, <1>7 DEF Evidence
<1>9. QED BY <1>3, <1>4, <1>8 DEF s

\* The same for a component.
LEMMA ComponentKept ==
  ASSUME NEW c \in Component
  PROVE  LET s == SanitizeComponent(c) IN
         /\ s \in Component
         /\ s.id = c.id /\ s.status = c.status /\ s.observedAt = c.observedAt
         /\ s.evidence.unit = c.evidence.unit
         /\ \A date : AllowedComponent(c, date) => AllowedComponent(s, date)
         /\ SanitizeComponent(s) = s
<1> DEFINE e == SanitizeEvidence(c.evidence, c.id, c.status)
           s == SanitizeComponent(c)
<1>1. c.id \in Token /\ c.status \in Token /\ c.evidence \in Evidence
  BY DEF Component
<1>2. /\ e \in Evidence /\ e.unit = c.evidence.unit
      /\ AllowedEvidence(c.evidence, c.id) => AllowedEvidence(e, c.id)
      /\ SanitizeEvidence(e, c.id, c.status) = e
  BY <1>1, EvidenceKept, Zenon
<1>3. s = [c EXCEPT !.evidence = e]
  BY DEF SanitizeComponent
<1> HIDE DEF e
<1>4. /\ s \in Component /\ s.evidence = e
      /\ s.id = c.id /\ s.status = c.status /\ s.observedAt = c.observedAt
  BY <1>2, <1>3 DEF Component
<1> HIDE DEF s
<1>5. \A date : AllowedComponent(c, date) => AllowedComponent(s, date)
  BY <1>2, <1>4 DEF AllowedComponent
<1>6. SanitizeComponent(s) = [s EXCEPT !.evidence = e]
  BY <1>2, <1>4 DEF SanitizeComponent
<1>7. SanitizeComponent(s) = s
  BY <1>4, <1>6 DEF Component
<1>8. QED BY <1>2, <1>4, <1>5, <1>7, Zenon DEF s

\* The frame decides with the components: an observation that agrees with an
\* allowed one in what is checked is allowed as of its own date.
LEMMA AllowedTransfers ==
  ASSUME NEW a \in RawObservation, NEW b \in RawObservation, NEW t \in Int,
         Allowed(a, t),
         b.other = a.other, b.schema = a.schema, b.observedAt = a.observedAt,
         b.sourceId = a.sourceId, b.bootIdHash = a.bootIdHash, b.release = a.release,
         b.health.status = a.health.status, b.health.exitCode = a.health.exitCode,
         b.health.summary # <<>>,
         DOMAIN b.components = DOMAIN a.components, Len(b.components) = Len(a.components),
         \A i \in DOMAIN a.components : b.components[i].id = a.components[i].id,
         \A i \in DOMAIN a.components :
           AllowedComponent(a.components[i], a.observedAt)
             => AllowedComponent(b.components[i], a.observedAt)
  PROVE  Allowed(b, b.observedAt)
<1>1. Distance(b.observedAt, b.observedAt) <= Skew
  BY InboxAssumption DEF Distance, RawObservation
<1>2. CompleteRegistry(b.components)
  <2>1. CompleteRegistry(a.components)
    BY DEF Allowed
  <2>2. {b.components[i].id : i \in DOMAIN b.components}
          = {a.components[i].id : i \in DOMAIN a.components}
    OBVIOUS
  <2>3. DOMAIN a.components = 1..Len(a.components) /\ Len(a.components) \in Nat
    BY DEF RawObservation
  <2>4. ASSUME NEW i \in DOMAIN a.components
        PROVE  /\ a.components[i].id \in Registry
               /\ \A j \in 1..(i - 1) : a.components[j].id # a.components[i].id
    BY <2>1 DEF CompleteRegistry
  <2>5. \A i \in DOMAIN a.components : \A j \in 1..(i - 1) : j \in DOMAIN a.components
    BY <2>3
  <2>6. ASSUME NEW i \in DOMAIN b.components
        PROVE  /\ b.components[i].id \in Registry
               /\ \A j \in 1..(i - 1) : b.components[j].id # b.components[i].id
    BY <2>4, <2>5
  <2>7. QED BY <2>1, <2>2, <2>6 DEF CompleteRegistry
<1>3. \A i \in DOMAIN b.components : AllowedComponent(b.components[i], b.observedAt)
  BY DEF Allowed
<1>4. QED BY <1>1, <1>2, <1>3 DEF Allowed

\* validateAndSanitizeObservation: every component is sanitized on its own, and
\* a second pass changes nothing.
LEMMA SanitizeKeeps ==
  ASSUME NEW raw \in RawObservation
  PROVE  LET s == Sanitize(raw) IN
         /\ s \in RawObservation
         /\ s.other = raw.other /\ s.schema = raw.schema /\ s.observedAt = raw.observedAt
         /\ s.sourceId = raw.sourceId /\ s.bootIdHash = raw.bootIdHash /\ s.release = raw.release
         /\ s.health.status = raw.health.status /\ s.health.exitCode = raw.health.exitCode
         /\ s.health.summary = HealthSummary(raw.health) /\ s.health.summary # <<>>
         /\ s.components
              = [i \in DOMAIN raw.components |-> SanitizeComponent(raw.components[i])]
         /\ DOMAIN s.components = DOMAIN raw.components
         /\ Len(s.components) = Len(raw.components)
<1> DEFINE s == Sanitize(raw)
           cs == [i \in DOMAIN raw.components |-> SanitizeComponent(raw.components[i])]
           summary == HealthSummary(raw.health)
<1>1. summary \in Text /\ summary # <<>>
  <2>1. raw.health.status \in Token
    BY DEF RawObservation
  <2>2. {"completed", "reported"} \subseteq Token
    BY InboxAssumption
  <2>3. <<"completed">> \in Seq(Token) /\ <<"reported", raw.health.status>> \in Seq(Token)
    BY <2>1, <2>2, ShortSequence, Zenon
  <2>4. <<"completed">> # <<>> /\ <<"reported", raw.health.status>> # <<>>
    OBVIOUS
  <2>5. QED BY <2>3, <2>4, Zenon DEF HealthSummary, Text
<1>2. raw.components \in Seq(Component)
  BY DEF RawObservation
<1>3. cs \in Seq(Component) /\ DOMAIN cs = DOMAIN raw.components
        /\ Len(cs) = Len(raw.components)
  <2>1. \A i \in DOMAIN raw.components : SanitizeComponent(raw.components[i]) \in Component
    BY <1>2, ComponentKept, ElementOfSeq
  <2>2. DOMAIN raw.components = 1..Len(raw.components) /\ Len(raw.components) \in Nat
    BY <1>2
  <2>3. cs \in [1..Len(raw.components) -> Component]
    BY <2>1, <2>2
  <2>4. QED BY <2>2, <2>3
<1>4. s = [raw EXCEPT !.health.summary = summary, !.components = cs]
  BY DEF Sanitize
<1> HIDE DEF cs, summary
<1>5. /\ s \in RawObservation
      /\ s.other = raw.other /\ s.schema = raw.schema /\ s.observedAt = raw.observedAt
      /\ s.sourceId = raw.sourceId /\ s.bootIdHash = raw.bootIdHash /\ s.release = raw.release
      /\ s.health.status = raw.health.status /\ s.health.exitCode = raw.health.exitCode
      /\ s.health.summary = summary
      /\ s.components = cs
  <2>1. s.health = [raw.health EXCEPT !.summary = summary]
    BY <1>4 DEF RawObservation
  <2>2. QED BY <1>1, <1>3, <1>4, <2>1 DEF RawObservation
<1>6. QED BY <1>1, <1>3, <1>5 DEF cs, summary

\* Sanitizing forgets what it replaces: observations that differ in nothing else
\* have one public form.
LEMMA SameSanitized ==
  ASSUME NEW a \in RawObservation, NEW b \in RawObservation,
         b.other = a.other, b.schema = a.schema, b.observedAt = a.observedAt,
         b.sourceId = a.sourceId, b.bootIdHash = a.bootIdHash, b.release = a.release,
         b.health.status = a.health.status, b.health.exitCode = a.health.exitCode,
         DOMAIN b.components = DOMAIN a.components,
         \A i \in DOMAIN a.components :
           SanitizeComponent(b.components[i]) = SanitizeComponent(a.components[i])
  PROVE  Sanitize(b) = Sanitize(a)
<1> DEFINE sa == Sanitize(a)
           sb == Sanitize(b)
<1>1. /\ sa \in RawObservation
      /\ sa.other = a.other /\ sa.schema = a.schema /\ sa.observedAt = a.observedAt
      /\ sa.sourceId = a.sourceId /\ sa.bootIdHash = a.bootIdHash /\ sa.release = a.release
      /\ sa.health.status = a.health.status /\ sa.health.exitCode = a.health.exitCode
      /\ sa.health.summary = HealthSummary(a.health)
      /\ sa.components = [i \in DOMAIN a.components |-> SanitizeComponent(a.components[i])]
  BY SanitizeKeeps, Zenon
<1>2. /\ sb \in RawObservation
      /\ sb.other = b.other /\ sb.schema = b.schema /\ sb.observedAt = b.observedAt
      /\ sb.sourceId = b.sourceId /\ sb.bootIdHash = b.bootIdHash /\ sb.release = b.release
      /\ sb.health.status = b.health.status /\ sb.health.exitCode = b.health.exitCode
      /\ sb.health.summary = HealthSummary(b.health)
      /\ sb.components = [i \in DOMAIN b.components |-> SanitizeComponent(b.components[i])]
  BY SanitizeKeeps, Zenon
<1> HIDE DEF sa, sb
<1>3. HealthSummary(b.health) = HealthSummary(a.health)
  BY DEF HealthSummary
<1>4. sb.components = sa.components
  BY <1>1, <1>2
<1>5. sb.health = sa.health
  BY <1>1, <1>2, <1>3 DEF RawObservation
<1>6. sb = sa
  BY <1>1, <1>2, <1>4, <1>5 DEF RawObservation
<1>7. QED BY <1>6 DEF sa, sb

\* The present form: accepted once, accepted again, and its own public form.
LEMMA PresentIsStable ==
  ASSUME NEW raw \in RawObservation, NEW t \in Int, Allowed(raw, t)
  PROVE  LET s == Sanitize(raw) IN Allowed(s, s.observedAt) /\ Sanitize(s) = s
<1> DEFINE s == Sanitize(raw)
<1>1. /\ s \in RawObservation
      /\ s.other = raw.other /\ s.schema = raw.schema /\ s.observedAt = raw.observedAt
      /\ s.sourceId = raw.sourceId /\ s.bootIdHash = raw.bootIdHash /\ s.release = raw.release
      /\ s.health.status = raw.health.status /\ s.health.exitCode = raw.health.exitCode
      /\ s.health.summary # <<>>
      /\ s.components
           = [i \in DOMAIN raw.components |-> SanitizeComponent(raw.components[i])]
      /\ DOMAIN s.components = DOMAIN raw.components
      /\ Len(s.components) = Len(raw.components)
  BY SanitizeKeeps, Zenon
<1> HIDE DEF s
<1>2. \A i \in DOMAIN raw.components : raw.components[i] \in Component
  <2>1. raw.components \in Seq(Component)
    BY DEF RawObservation
  <2>2. QED BY <2>1
<1>3. \A i \in DOMAIN raw.components : s.components[i] = SanitizeComponent(raw.components[i])
  BY <1>1
<1>4. \A i \in DOMAIN raw.components :
        /\ s.components[i].id = raw.components[i].id
        /\ AllowedComponent(raw.components[i], raw.observedAt)
             => AllowedComponent(s.components[i], raw.observedAt)
        /\ SanitizeComponent(s.components[i]) = SanitizeComponent(raw.components[i])
  <2> SUFFICES ASSUME NEW i \in DOMAIN raw.components
               PROVE  /\ s.components[i].id = raw.components[i].id
                      /\ AllowedComponent(raw.components[i], raw.observedAt)
                           => AllowedComponent(s.components[i], raw.observedAt)
                      /\ SanitizeComponent(s.components[i])
                           = SanitizeComponent(raw.components[i])
    OBVIOUS
  <2>1. raw.components[i] \in Component
    BY <1>2
  <2>2. s.components[i] = SanitizeComponent(raw.components[i])
    BY <1>3
  <2>3. QED BY <2>1, <2>2, ComponentKept, Zenon
<1>5. Allowed(s, s.observedAt)
  BY <1>1, <1>4, AllowedTransfers
<1>6. Sanitize(s) = Sanitize(raw)
  BY <1>1, <1>4, SameSanitized
<1>7. QED BY <1>5, <1>6 DEF s

\* What is stored of a legacy evidence is legacy evidence again, in its own form.
LEMMA LegacyKept ==
  ASSUME NEW e \in Evidence, AllowedLegacy(e)
  PROVE  LET s == LegacyEvidence(e) IN
         s \in Evidence /\ s.unit = e.unit /\ AllowedLegacy(s) /\ LegacyEvidence(s) = s
<1> DEFINE s == LegacyEvidence(e)
           condition == CHOOSE v \in YesNoUnknown : FactNamed(e, "conditionResult") = {v}
           file == CHOOSE v \in UnitFileState : FactNamed(e, "unitFileState") = {v}
           summary == <<"randomx-msr", e.activeState, e.subState>>
           facts == <<[key |-> "conditionResult", value |-> condition],
                      [key |-> "unitFileState", value |-> file]>>
<1>1. condition \in YesNoUnknown /\ file \in UnitFileState
  BY DEF AllowedLegacy
<1>2. s = [e EXCEPT !.summary = summary, !.facts = facts]
  BY DEF LegacyEvidence
<1> HIDE DEF condition, file
<1>3. /\ e.activeState \in UnitRule.activeState /\ e.subState \in UnitRule.subState
      /\ e.activeState \in Token /\ e.subState \in Token
  <2>1. /\ e.activeState \in UnitRule.activeState /\ e.subState \in UnitRule.subState
    BY DEF AllowedLegacy, UnitRule
  <2>2. UnitRule.activeState \subseteq Token /\ UnitRule.subState \subseteq Token
    BY InboxAssumption DEF UnitRule
  <2>3. QED BY <2>1, <2>2
<1>4. summary \in Seq(Token) /\ summary # <<>>
  <2>1. "randomx-msr" \in Token
    BY InboxAssumption
  <2>2. ASSUME NEW S, NEW a \in S, NEW b \in S, NEW c \in S
        PROVE  <<a, b, c>> \in Seq(S) /\ <<a, b, c>> # <<>>
    OBVIOUS
  <2>3. QED BY <1>3, <2>1, <2>2, Zenon
<1>5. facts \in Seq([key: Token, value: Token])
  <2>1. /\ [key |-> "conditionResult", value |-> condition] \in [key: Token, value: Token]
        /\ [key |-> "unitFileState", value |-> file] \in [key: Token, value: Token]
    BY <1>1, InboxAssumption
  <2>2. QED BY <2>1, ShortSequence, Zenon
<1> HIDE DEF summary
<1>6. /\ s.unit = e.unit /\ s.authority = e.authority /\ s.activeState = e.activeState
      /\ s.subState = e.subState /\ s.result = e.result /\ s.schema = e.schema
      /\ s.outcome = e.outcome /\ s.other = e.other
      /\ s.summary = summary /\ s.facts = facts
      /\ DOMAIN s = DOMAIN e
  BY <1>2 DEF Evidence
<1>7. s \in Evidence
  <2> HIDE DEF facts
  <2>1. QED BY <1>2, <1>4, <1>5 DEF Evidence, Text
<1> HIDE DEF s
<1>8. /\ FactNamed(s, "conditionResult") = {condition}
      /\ FactNamed(s, "unitFileState") = {file}
  <2>1. DOMAIN facts = {1, 2}
    OBVIOUS
  <2>2. /\ facts[1].key = "conditionResult" /\ facts[1].value = condition
        /\ facts[2].key = "unitFileState" /\ facts[2].value = file
    OBVIOUS
  <2>3. "conditionResult" # "unitFileState"
    OBVIOUS
  <2> HIDE DEF facts
  <2>4. /\ {j \in DOMAIN s.facts : s.facts[j].key = "conditionResult"} = {1}
        /\ {j \in DOMAIN s.facts : s.facts[j].key = "unitFileState"} = {2}
    BY <1>6, <2>1, <2>2, <2>3
  <2>5. QED BY <1>6, <2>2, <2>4 DEF FactNamed
<1>9. \A i \in DOMAIN s.facts : s.facts[i].key \in {"conditionResult", "unitFileState"}
  BY <1>6
<1> HIDE DEF facts
<1>10. AllowedLegacy(s)
  <2>1. \A field \in DOMAIN UnitRule : s[field] = e[field]
    BY <1>6 DEF UnitRule
  <2>2. QED BY <1>1, <1>4, <1>6, <1>8, <1>9, <2>1 DEF AllowedLegacy
<1>11. LegacyEvidence(s) = s
  <2>1. /\ (CHOOSE v \in YesNoUnknown : FactNamed(s, "conditionResult") = {v}) = condition
        /\ (CHOOSE v \in UnitFileState : FactNamed(s, "unitFileState") = {v}) = file
    BY <1>1, <1>8
  <2>2. LegacyEvidence(s)
          = [s EXCEPT !.summary = <<"randomx-msr", s.activeState, s.subState>>, !.facts = facts]
    BY <2>1, Zenon DEF LegacyEvidence, facts
  <2>3. LegacyEvidence(s) = [s EXCEPT !.summary = summary, !.facts = facts]
    BY <1>6, <2>2 DEF summary
  <2>4. QED BY <1>6, <1>7, <2>3 DEF Evidence
<1>12. QED BY <1>6, <1>7, <1>10, <1>11 DEF s

\* Replacing the evidence of one component leaves the rest alone.
Replaced(r, raw, i, e) ==
  /\ r \in RawObservation
  /\ r.other = raw.other /\ r.schema = raw.schema /\ r.observedAt = raw.observedAt
  /\ r.sourceId = raw.sourceId /\ r.bootIdHash = raw.bootIdHash /\ r.release = raw.release
  /\ r.health = raw.health
  /\ DOMAIN r.components = DOMAIN raw.components
  /\ Len(r.components) = Len(raw.components)
  /\ \A j \in DOMAIN raw.components : j # i => r.components[j] = raw.components[j]
  /\ r.components[i] \in Component /\ r.components[i].evidence = e
  /\ r.components[i].id = raw.components[i].id
  /\ r.components[i].status = raw.components[i].status
  /\ r.components[i].observedAt = raw.components[i].observedAt

LEMMA EvidenceReplaced ==
  ASSUME NEW raw \in RawObservation, NEW i \in DOMAIN raw.components, NEW e \in Evidence
  PROVE  Replaced(WithEvidence(raw, i, e), raw, i, e)
<1> DEFINE r == WithEvidence(raw, i, e)
           c == [raw.components[i] EXCEPT !.evidence = e]
           cs == [raw.components EXCEPT ![i] = c]
<1>1. raw.components \in Seq(Component) /\ i \in 1..Len(raw.components)
  BY DEF RawObservation
<1>2. /\ c \in Component /\ c.evidence = e
      /\ c.id = raw.components[i].id /\ c.status = raw.components[i].status
      /\ c.observedAt = raw.components[i].observedAt
  <2>1. raw.components[i] \in Component
    BY <1>1
  <2>2. QED BY <2>1 DEF Component
<1> HIDE DEF c
<1>3. /\ cs \in Seq(Component) /\ DOMAIN cs = DOMAIN raw.components
      /\ Len(cs) = Len(raw.components) /\ cs[i] = c
      /\ \A j \in DOMAIN raw.components : j # i => cs[j] = raw.components[j]
  BY <1>1, <1>2
<1>4. r = [raw EXCEPT !.components = cs]
  BY DEF c, WithEvidence
<1> HIDE DEF cs, r
<1>5. /\ r \in RawObservation /\ r.components = cs /\ r.health = raw.health
      /\ r.other = raw.other /\ r.schema = raw.schema /\ r.observedAt = raw.observedAt
      /\ r.sourceId = raw.sourceId /\ r.bootIdHash = raw.bootIdHash /\ r.release = raw.release
  BY <1>3, <1>4 DEF RawObservation
<1>6. QED BY <1>2, <1>3, <1>5 DEF r, Replaced

\* The present form of a legacy evidence is an evidence.
LEMMA PresentIsEvidence ==
  ASSUME NEW status
  PROVE  PresentEvidence(status) \in Evidence
<1> DEFINE outcome == OutcomeForStatus(status)
           summary == <<"randomx-msr", outcome>>
           facts == <<[key |-> "verificationOutcome", value |-> outcome]>>
<1>1. outcome \in Token
  BY InboxAssumption DEF OutcomeForStatus, ReadyState
<1>2. SchemaOf("randomx-msr") \in Token
  <2>1. SchemaOf("randomx-msr") = "rigos.randomx-msr-status/v1"
    BY DEF SchemaOf
  <2>2. QED BY <2>1, InboxAssumption
<1> HIDE DEF outcome
<1>3. summary \in Seq(Token)
  <2>1. "randomx-msr" \in Token
    BY InboxAssumption
  <2>2. QED BY <1>1, <2>1, ShortSequence, Zenon
<1>4. facts \in Seq([key: Token, value: Token])
  <2>1. [key |-> "verificationOutcome", value |-> outcome] \in [key: Token, value: Token]
    BY <1>1, InboxAssumption
  <2>2. QED BY <2>1, ShortSequence, Zenon
<1>5. "rigos-status-agent" \in Token
  BY InboxAssumption
<1>6. PresentEvidence(status)
        = [authority |-> "rigos-status-agent", summary |-> summary,
           unit |-> Null, activeState |-> Null, subState |-> Null, result |-> Null,
           schema |-> SchemaOf("randomx-msr"), outcome |-> outcome, facts |-> facts,
           other |-> FALSE]
  BY Zenon DEF PresentEvidence, outcome
<1> HIDE DEF summary, facts
<1>7. QED BY <1>1, <1>2, <1>3, <1>4, <1>5, <1>6 DEF Evidence, Optional, Text

\* An observation has at most one legacy component.
LEMMA OneLegacy ==
  ASSUME NEW raw, NEW i, IsLegacy(raw, i)
  PROVE  \A j : IsLegacy(raw, j) => j = i
BY DEF IsLegacy

\* The legacy form: what is stored is legacy again, and its present form is
\* sanitized to the same as the first time.
LEMMA LegacyIsStable ==
  ASSUME NEW raw \in RawObservation, NEW t \in Int, NEW i \in DOMAIN raw.components,
         IsLegacy(raw, i), AllowedLegacy(raw.components[i].evidence),
         Allowed(Normalized(raw, i), t)
  PROVE  LET p == WithEvidence(Sanitize(Normalized(raw, i)), i,
                               LegacyEvidence(raw.components[i].evidence)) IN
         /\ p \in RawObservation /\ p.sourceId = raw.sourceId
         /\ i \in DOMAIN p.components /\ IsLegacy(p, i)
         /\ AllowedLegacy(p.components[i].evidence)
         /\ Allowed(Normalized(p, i), p.observedAt)
         /\ WithEvidence(Sanitize(Normalized(p, i)), i,
                         LegacyEvidence(p.components[i].evidence)) = p
<1> DEFINE c == raw.components[i]
           n == Normalized(raw, i)
           s == Sanitize(n)
           le == LegacyEvidence(c.evidence)
           p == WithEvidence(s, i, le)
           m == Normalized(p, i)
           present == PresentEvidence(c.status)
<1>1. /\ raw.components \in Seq(Component) /\ c \in Component /\ c.evidence \in Evidence
  <2>1. raw.components \in Seq(Component) /\ i \in 1..Len(raw.components)
    BY DEF RawObservation
  <2>2. c \in Component
    BY <2>1
  <2>3. QED BY <2>1, <2>2 DEF Component
<1>2. le \in Evidence /\ le.unit = c.evidence.unit /\ AllowedLegacy(le) /\ LegacyEvidence(le) = le
  BY <1>1, LegacyKept, Zenon
<1>3. present \in Evidence
  BY PresentIsEvidence
<1>4. Replaced(n, raw, i, present)
  BY <1>3, EvidenceReplaced DEF Normalized
<1> HIDE DEF n, le, present
<1>5. /\ s \in RawObservation
      /\ s.other = n.other /\ s.schema = n.schema /\ s.observedAt = n.observedAt
      /\ s.sourceId = n.sourceId /\ s.bootIdHash = n.bootIdHash /\ s.release = n.release
      /\ s.health.status = n.health.status /\ s.health.exitCode = n.health.exitCode
      /\ s.health.summary # <<>>
      /\ s.components = [j \in DOMAIN n.components |-> SanitizeComponent(n.components[j])]
      /\ DOMAIN s.components = DOMAIN n.components /\ Len(s.components) = Len(n.components)
  BY <1>4, SanitizeKeeps, Zenon DEF Replaced
<1>6. \A j \in DOMAIN n.components : n.components[j] \in Component
  <2>1. n.components \in Seq(Component)
    BY <1>4 DEF RawObservation, Replaced
  <2>2. QED BY <2>1
<1>7. \A j \in DOMAIN n.components :
        /\ s.components[j] = SanitizeComponent(n.components[j])
        /\ s.components[j] \in Component
        /\ s.components[j].id = n.components[j].id
        /\ s.components[j].status = n.components[j].status
        /\ s.components[j].observedAt = n.components[j].observedAt
        /\ \A date : AllowedComponent(n.components[j], date)
                       => AllowedComponent(s.components[j], date)
        /\ SanitizeComponent(s.components[j]) = SanitizeComponent(n.components[j])
  <2>1. \A j \in DOMAIN n.components : s.components[j] = SanitizeComponent(n.components[j])
    BY <1>5
  <2>2. ASSUME NEW j \in DOMAIN n.components
        PROVE  LET d == n.components[j]
                   k == SanitizeComponent(d) IN
               /\ k \in Component
               /\ k.id = d.id /\ k.status = d.status /\ k.observedAt = d.observedAt
               /\ \A date : AllowedComponent(d, date) => AllowedComponent(k, date)
               /\ SanitizeComponent(k) = k
    <3>1. n.components[j] \in Component
      BY <1>6
    <3>2. QED BY <3>1, ComponentKept, Zenon
  <2>3. QED BY <2>1, <2>2, Zenon
<1> HIDE DEF s
<1>8. i \in DOMAIN s.components
  BY <1>4, <1>5 DEF Replaced
<1>9. Replaced(p, s, i, le)
  <2>1. s \in RawObservation
    BY <1>5
  <2>2. QED BY <1>2, <1>8, <2>1, EvidenceReplaced
<1> HIDE DEF p
<1>10. /\ s.components[i].id = c.id /\ s.components[i].status = c.status
       /\ s.components[i].observedAt = c.observedAt
  BY <1>4, <1>7 DEF Replaced
<1>11. /\ p.components[i].evidence = le /\ p.components[i].id = c.id
       /\ p.components[i].status = c.status /\ p.components[i].observedAt = c.observedAt
  BY <1>9, <1>10 DEF Replaced
<1>12. IsLegacy(p, i)
  <2>1. ASSUME NEW j \in DOMAIN raw.components
        PROVE  p.components[j].id = raw.components[j].id
    <3>1. CASE j = i
      BY <1>11, <3>1 DEF c
    <3>2. CASE j # i
      <4>1. p.components[j] = s.components[j] /\ n.components[j] = raw.components[j]
        BY <1>4, <1>5, <1>9, <3>2 DEF Replaced
      <4>2. s.components[j].id = n.components[j].id
        BY <1>4, <1>7 DEF Replaced
      <4>3. QED BY <4>1, <4>2
    <3>3. QED BY <3>1, <3>2
  <2>2. RandomxAt(p) = RandomxAt(raw)
    BY <1>4, <1>5, <1>9, <2>1 DEF RandomxAt, Replaced
  <2>3. QED BY <1>2, <1>11, <2>2 DEF IsLegacy, c
<1>13. AllowedLegacy(p.components[i].evidence)
  BY <1>2, <1>11
<1>14. Replaced(m, p, i, present)
  <2>1. PresentEvidence(p.components[i].status) = present
    BY <1>11 DEF present
  <2>2. m = WithEvidence(p, i, present)
    BY <2>1, Zenon DEF Normalized
  <2>3. i \in DOMAIN p.components /\ p \in RawObservation
    BY <1>8, <1>9 DEF Replaced
  <2>4. QED BY <1>3, <2>2, <2>3, EvidenceReplaced
<1> HIDE DEF m
<1>15. m.components[i] = n.components[i]
  <2>1. ASSUME NEW a \in Component, NEW b \in Component, a.id = b.id, a.status = b.status,
               a.observedAt = b.observedAt, a.evidence = b.evidence
        PROVE  a = b
    <3>1. \A x \in Component :
            x = [id |-> x.id, status |-> x.status, observedAt |-> x.observedAt, evidence |-> x.evidence]
      BY DEF Component
    <3>2. QED BY <2>1, <3>1
  <2>2. QED BY <1>4, <1>11, <1>14, <2>1, Zenon DEF Replaced
<1>16. \A j \in DOMAIN n.components : j # i => m.components[j] = s.components[j]
  BY <1>5, <1>9, <1>14 DEF Replaced
<1>17. Allowed(m, m.observedAt)
  <2>1. \A j \in DOMAIN n.components :
          /\ m.components[j].id = n.components[j].id
          /\ AllowedComponent(n.components[j], n.observedAt)
               => AllowedComponent(m.components[j], n.observedAt)
    BY <1>7, <1>15, <1>16, Zenon
  <2>2. Allowed(n, t)
    BY DEF n
  <2>3. /\ m.other = n.other /\ m.schema = n.schema /\ m.observedAt = n.observedAt
        /\ m.sourceId = n.sourceId /\ m.bootIdHash = n.bootIdHash /\ m.release = n.release
        /\ m.health.status = n.health.status /\ m.health.exitCode = n.health.exitCode
        /\ m.health.summary # <<>>
        /\ DOMAIN m.components = DOMAIN n.components /\ Len(m.components) = Len(n.components)
    BY <1>5, <1>9, <1>14, Zenon DEF Replaced
  <2>4. QED BY <1>4, <1>14, <2>1, <2>2, <2>3, AllowedTransfers DEF Replaced
<1>18. Sanitize(m) = s
  <2>1. \A j \in DOMAIN n.components :
          SanitizeComponent(m.components[j]) = SanitizeComponent(n.components[j])
    BY <1>7, <1>15, <1>16, Zenon
  <2>2. Sanitize(m) = Sanitize(n)
    BY <1>4, <1>5, <1>9, <1>14, <2>1, SameSanitized DEF Replaced
  <2>3. QED BY <2>2 DEF s
<1>19. WithEvidence(Sanitize(m), i, LegacyEvidence(p.components[i].evidence)) = p
  BY <1>2, <1>11, <1>18, Zenon DEF p
<1>20. i \in DOMAIN p.components /\ p.sourceId = raw.sourceId /\ m.observedAt = p.observedAt
  BY <1>4, <1>5, <1>8, <1>9, <1>14 DEF Replaced
<1>21. QED
  BY <1>9, <1>12, <1>13, <1>17, <1>19, <1>20, Zenon DEF p, m, s, n, le, c, Replaced

\* The public form of what is accepted, in either form.
LEMMA PublicIsStable ==
  ASSUME NEW raw \in RawObservation, NEW t \in Int, Accepts(raw, t)
  PROVE  LET p == Public(raw) IN
         /\ p \in RawObservation /\ p.sourceId = raw.sourceId
         /\ Accepts(p, p.observedAt) /\ Public(p) = p
<1> DEFINE p == Public(raw)
<1>1. CASE \E i \in DOMAIN raw.components : IsLegacy(raw, i)
  <2>1. PICK i \in DOMAIN raw.components :
          /\ IsLegacy(raw, i) /\ AllowedLegacy(raw.components[i].evidence)
          /\ Allowed(Normalized(raw, i), t)
    BY <1>1, Zenon DEF Accepts
  <2>2. \A j : IsLegacy(raw, j) => j = i
    BY <2>1, OneLegacy
  <2>3. p = WithEvidence(Sanitize(Normalized(raw, i)), i,
                         LegacyEvidence(raw.components[i].evidence))
    <3>1. (CHOOSE j \in DOMAIN raw.components : IsLegacy(raw, j)) = i
      BY <2>1, <2>2, Zenon
    <3>2. QED BY <1>1, <3>1, Zenon DEF Public
  <2> HIDE DEF p
  <2>4. /\ p \in RawObservation /\ p.sourceId = raw.sourceId
        /\ i \in DOMAIN p.components /\ IsLegacy(p, i)
        /\ AllowedLegacy(p.components[i].evidence)
        /\ Allowed(Normalized(p, i), p.observedAt)
        /\ WithEvidence(Sanitize(Normalized(p, i)), i,
                        LegacyEvidence(p.components[i].evidence)) = p
    BY <2>1, <2>3, LegacyIsStable, Zenon
  <2>5. Accepts(p, p.observedAt)
    BY <2>4, Zenon DEF Accepts
  <2>6. (CHOOSE j \in DOMAIN p.components : IsLegacy(p, j)) = i
    BY <2>4, OneLegacy, Zenon
  <2>7. Public(p) = p
    BY <2>4, <2>6, Zenon DEF Public
  <2>8. QED BY <2>4, <2>5, <2>7 DEF p
<1>2. CASE ~ \E i \in DOMAIN raw.components : IsLegacy(raw, i)
  <2>1. Allowed(raw, t) /\ p = Sanitize(raw)
    BY <1>2, Zenon DEF Accepts, Public
  <2> HIDE DEF p
  <2>2. Allowed(p, p.observedAt) /\ Sanitize(p) = p
    BY <2>1, PresentIsStable, Zenon
  <2>3. /\ p \in RawObservation /\ p.sourceId = raw.sourceId
        /\ DOMAIN p.components = DOMAIN raw.components
        /\ p.components = [i \in DOMAIN raw.components |-> SanitizeComponent(raw.components[i])]
    BY <2>1, SanitizeKeeps, Zenon
  <2>4. ASSUME NEW i \in DOMAIN raw.components
        PROVE  /\ p.components[i].id = raw.components[i].id
               /\ p.components[i].evidence.unit = raw.components[i].evidence.unit
    <3>1. raw.components[i] \in Component
      <4>1. raw.components \in Seq(Component)
        BY DEF RawObservation
      <4>2. QED BY <4>1
    <3>2. p.components[i] = SanitizeComponent(raw.components[i])
      BY <2>3
    <3>3. QED BY <3>1, <3>2, ComponentKept, Zenon
  <2>5. RandomxAt(p) = RandomxAt(raw)
    BY <2>3, <2>4 DEF RandomxAt
  <2>6. \A i \in DOMAIN p.components : ~IsLegacy(p, i)
    BY <1>2, <2>3, <2>4, <2>5 DEF IsLegacy
  <2>7. Accepts(p, p.observedAt) /\ Public(p) = p
    BY <2>2, <2>6, Zenon DEF Accepts, Public
  <2>8. QED BY <2>3, <2>7 DEF p
<1>3. QED BY <1>1, <1>2

-----------------------------------------------------------------------------
(***************************************************************************)
(* The inductive invariant: the row is the public form of something that   *)
(* was accepted, and the node is the row's.  An appliance's row is written *)
(* once here: StatusIngest has the later ones.                             *)
(***************************************************************************)
Stable(r) ==
  /\ r \in [source: Token, payload: RawObservation]
  /\ r.payload.sourceId = r.source
  /\ Accepts(r.payload, r.payload.observedAt)
  /\ Public(r.payload) = r.payload

StoreInvariant ==
  /\ request # Null => request \in Inbox /\ row = Null
  /\ row # Null => Stable(row)
  /\ node # Null => row # Null /\ node = row.payload

LEMMA InitHolds == Init => StoreInvariant
BY DEF Init, StoreInvariant

LEMMA StepHolds == StoreInvariant /\ [Next]_vars => StoreInvariant'
<1> SUFFICES ASSUME StoreInvariant, [Next]_vars PROVE StoreInvariant'
  OBVIOUS
<1>1. CASE Accept
  <2> DEFINE o == request.observation
  <2>1. /\ request # Null /\ Accepts(o, request.timestamp)
        /\ row' = [source |-> o.sourceId, payload |-> Public(o)]
        /\ request' = Null /\ node' = node
    BY <1>1 DEF Accept
  <2>2. o \in RawObservation /\ request.timestamp \in Int /\ o.sourceId \in Token
    BY <2>1, InboxAssumption DEF StoreInvariant, RawObservation
  <2> HIDE DEF o
  <2>3. /\ Public(o) \in RawObservation /\ Public(o).sourceId = o.sourceId
        /\ Accepts(Public(o), Public(o).observedAt) /\ Public(Public(o)) = Public(o)
    BY <2>1, <2>2, PublicIsStable, Zenon
  <2>4. row'.source = o.sourceId /\ row'.payload = Public(o)
          /\ row' \in [source: Token, payload: RawObservation]
    BY <2>1, <2>2, <2>3
  <2>5. Stable(row')
    BY <2>3, <2>4 DEF Stable
  <2>6. node' = Null
    BY <2>1 DEF StoreInvariant
  <2>7. Stable(row)'
    BY <2>5 DEF Stable
  <2>8. QED BY <2>1, <2>6, <2>7 DEF StoreInvariant
<1>2. CASE Refuse
  BY <1>2 DEF Refuse, StoreInvariant, Stable
<1>3. CASE Publish
  <2>1. /\ row # Null /\ request' = request /\ row' = row
        /\ node' = IF Readable(row) THEN Public(row.payload) ELSE Null
    BY <1>3 DEF Publish
  <2>2. Stable(row)
    BY <2>1 DEF StoreInvariant
  <2>3. node' = row.payload \/ node' = Null
    BY <2>1, <2>2 DEF Stable
  <2>4. QED BY <2>1, <2>2, <2>3 DEF StoreInvariant, Stable
<1>4. CASE UNCHANGED vars
  BY <1>4 DEF vars, StoreInvariant, Stable
<1>5. QED BY <1>1, <1>2, <1>3, <1>4 DEF Next

LEMMA InvariantImplies == StoreInvariant => StoredIsReadable
BY DEF StoreInvariant, StoredIsReadable, Readable, Stable

\* StoredIsReadable for every registry, every kind of component and every
\* observation: parseStoredObservation never drops a row the present sanitizer
\* wrote, and shows it as it was written.
THEOREM StoredStaysReadable == Spec => []StoredIsReadable
<1>1. Spec => []StoreInvariant
  BY InitHolds, StepHolds, PTL DEF Spec
<1>2. QED BY <1>1, InvariantImplies, PTL
\* Type correctness of the two ends of the table.
THEOREM ObservationTypeCorrect == Spec => []TypeOK
<1>1. StoreInvariant => TypeOK
  <2> SUFFICES ASSUME StoreInvariant PROVE TypeOK
    OBVIOUS
  <2>1. request \in [observation: RawObservation, timestamp: Int] \cup {Null}
    BY InboxAssumption, Zenon DEF StoreInvariant
  <2>2. row # Null => row \in [source: Token, payload: RawObservation]
    BY Zenon DEF StoreInvariant, Stable
  <2>3. node # Null => node \in RawObservation
    <3>1. \A r \in [source: Token, payload: RawObservation] : r.payload \in RawObservation
      OBVIOUS
    <3>2. QED BY <2>2, <3>1, Zenon DEF StoreInvariant
  <2>4. QED BY <2>1, <2>2, <2>3 DEF TypeOK
<1>2. Spec => []StoreInvariant
  BY InitHolds, StepHolds, PTL DEF Spec
<1>3. QED BY <1>1, <1>2, PTL
-----------------------------------------------------------------------------
\* An accepted observation has the whole registry, in either form.
LEMMA AcceptedIsComplete ==
  ASSUME NEW raw \in RawObservation, NEW t, Accepts(raw, t)
  PROVE  CompleteRegistry(raw.components)
<1>1. CASE Allowed(raw, t)
  BY <1>1 DEF Allowed
<1>2. CASE \E i \in DOMAIN raw.components :
             IsLegacy(raw, i) /\ Allowed(Normalized(raw, i), t)
  <2>1. PICK i \in DOMAIN raw.components : Allowed(Normalized(raw, i), t)
    BY <1>2
  <2> DEFINE n == Normalized(raw, i)
  <2>2. PresentEvidence(raw.components[i].status) \in Evidence
    BY PresentIsEvidence
  <2>3. Replaced(n, raw, i, PresentEvidence(raw.components[i].status))
    BY <2>2, EvidenceReplaced DEF Normalized
  <2>4. CompleteRegistry(n.components)
    BY <2>1 DEF Allowed
  <2> HIDE DEF n
  <2>5. \A j \in DOMAIN raw.components : n.components[j].id = raw.components[j].id
    BY <2>3 DEF Replaced
  <2>6. /\ DOMAIN n.components = DOMAIN raw.components
        /\ Len(n.components) = Len(raw.components)
    BY <2>3 DEF Replaced
  <2>7. {n.components[j].id : j \in DOMAIN n.components}
          = {raw.components[j].id : j \in DOMAIN raw.components}
    BY <2>5, <2>6
  <2>8. DOMAIN raw.components = 1..Len(raw.components) /\ Len(raw.components) \in Nat
    BY DEF RawObservation
  <2>9. ASSUME NEW j \in DOMAIN raw.components
        PROVE  /\ raw.components[j].id \in Registry
               /\ \A k \in 1..(j - 1) : raw.components[k].id # raw.components[j].id
    <3>1. \A k \in 1..(j - 1) : k \in DOMAIN raw.components
      BY <2>8
    <3>2. /\ n.components[j].id \in Registry
          /\ \A k \in 1..(j - 1) : n.components[k].id # n.components[j].id
      BY <2>4, <2>6 DEF CompleteRegistry
    <3>3. QED BY <2>5, <3>1, <3>2
  <2>10. QED BY <2>4, <2>6, <2>7, <2>9 DEF CompleteRegistry
<1>3. QED BY <1>1, <1>2, Zenon DEF Accepts

\* As many identifiers as the registry, all of it and none twice: each once.
LEMMA CompleteIsOnce ==
  ASSUME NEW cs \in Seq(Component), CompleteRegistry(cs), NEW id \in Registry
  PROVE  Cardinality({i \in DOMAIN cs : cs[i].id = id}) = 1
<1> DEFINE ids == {cs[i].id : i \in DOMAIN cs}
<1>1. ids \subseteq Registry /\ Cardinality(ids) = Cardinality(Registry)
  BY DEF CompleteRegistry
<1>2. ids = Registry
  BY <1>1, FS_Subset, InboxAssumption
<1>3. PICK i \in DOMAIN cs : cs[i].id = id
  BY <1>2
<1>4. DOMAIN cs = 1..Len(cs) /\ Len(cs) \in Nat
  OBVIOUS
<1>5. ASSUME NEW j \in DOMAIN cs, NEW k \in DOMAIN cs, j < k
      PROVE  cs[j].id # cs[k].id
  <2>1. j \in 1..(k - 1)
    BY <1>4, <1>5
  <2>2. QED BY <2>1 DEF CompleteRegistry
<1>6. {j \in DOMAIN cs : cs[j].id = id} = {i}
  <2>1. ASSUME NEW j \in DOMAIN cs, cs[j].id = id
        PROVE  j = i
    <3>1. ~(j < i) /\ ~(i < j)
      BY <1>3, <1>5, <2>1
    <3>2. QED BY <1>4, <3>1
  <2>2. QED BY <1>3, <2>1
<1>7. QED BY <1>6, FS_Singleton

\* EveryComponentOnce for every finite registry and every observation.
THEOREM EveryComponentIsShown == Spec => []EveryComponentOnce
<1>1. StoreInvariant => EveryComponentOnce
  <2> SUFFICES ASSUME StoreInvariant, node # Null, NEW id \in Registry
               PROVE  Cardinality({i \in DOMAIN node.components :
                                     node.components[i].id = id}) = 1
    BY DEF EveryComponentOnce
  <2>1. node = row.payload /\ Stable(row)
    BY DEF StoreInvariant
  <2>2. node \in RawObservation /\ Accepts(node, node.observedAt)
    BY <2>1 DEF Stable
  <2>3. CompleteRegistry(node.components)
    BY <2>2, AcceptedIsComplete, Zenon
  <2>4. node.components \in Seq(Component)
    BY <2>2 DEF RawObservation
  <2>5. QED BY <2>3, <2>4, CompleteIsOnce, Zenon
<1>2. Spec => []StoreInvariant
  BY InitHolds, StepHolds, PTL DEF Spec
<1>3. QED BY <1>1, <1>2, PTL
-----------------------------------------------------------------------------
(***************************************************************************)
(* What a summary says.                                                    *)
(***************************************************************************)
\* sanitizedSummary finds every word in the policy of the component.
LEMMA SummaryInWords ==
  ASSUME NEW id \in Token, NEW status \in ComponentStatus, NEW e \in Evidence,
         AllowedEvidence(e, id)
  PROVE  SanitizedSummary(id, status, e) \in Seq(Words(id))
<1>1. /\ id \in Words(id) /\ status \in Words(id)
      /\ "yes" \in Words(id) /\ "no" \in Words(id)
      /\ OutcomesOf(id) \subseteq Words(id)
  BY Zenon DEF Words
<1>2. \A field \in DOMAIN UnitRule : UnitRule[field] \subseteq Words(id)
  BY DEF Words
<1>3. \A key \in DOMAIN FactRule(id) : FactRule(id)[key] \subseteq Words(id)
  BY DEF Words
<1>4. "activeState" \in DOMAIN UnitRule /\ "subState" \in DOMAIN UnitRule
  BY DEF UnitRule
<1>5. Detail(status, e) \in Seq(Words(id))
  <2>1. CASE e.outcome # Null
    <3>1. e.outcome \in Words(id)
      BY <1>1, <2>1 DEF AllowedEvidence
    <3>2. <<e.outcome>> \in Seq(Words(id))
      BY <3>1, ShortSequence, Zenon
    <3>3. QED BY <2>1, <3>2, Zenon DEF Detail
  <2>2. CASE e.outcome = Null /\ e.activeState # Null
    <3>1. \A field \in DOMAIN UnitRule : e[field] # Null => e[field] \in Words(id)
      BY <1>2 DEF AllowedEvidence
    <3>2. /\ e.activeState \in Words(id)
          /\ e.subState # Null => e.subState \in Words(id)
      BY <1>4, <2>2, <3>1
    <3>3. /\ <<e.activeState>> \in Seq(Words(id))
          /\ e.subState # Null => <<e.activeState, e.subState>> \in Seq(Words(id))
      BY <3>2, ShortSequence, Zenon
    <3>4. QED BY <2>2, <3>3, Zenon DEF Detail
  <2>3. CASE e.outcome = Null /\ e.activeState = Null
    <3>1. ASSUME e.facts # <<>>
          PROVE  e.facts[1].value \in Words(id)
      <4>1. 1 \in DOMAIN e.facts
        BY <3>1, EmptySeq DEF Evidence
      <4>2. /\ e.facts[1].key \in DOMAIN FactRule(id)
            /\ e.facts[1].value \in FactRule(id)[e.facts[1].key]
        BY <4>1 DEF AllowedEvidence, AllowedFacts
      <4>3. QED BY <1>3, <4>2, Zenon
    <3>2. ASSUME NEW value \in Words(id)
          PROVE  FactDetail(value, status) \in Seq(Words(id))
      <4>1. /\ <<status>> \in Seq(Words(id)) /\ <<value>> \in Seq(Words(id))
            /\ <<"yes">> \in Seq(Words(id)) /\ <<"no">> \in Seq(Words(id))
        BY <1>1, ShortSequence, Zenon
      <4>2. QED BY <4>1, Zenon DEF FactDetail
    <3>3. <<status>> \in Seq(Words(id))
      BY <1>1, ShortSequence, Zenon
    <3>4. QED BY <2>3, <3>1, <3>2, <3>3, Zenon DEF Detail
  <2>4. QED BY <2>1, <2>2, <2>3
<1>6. <<id>> \in Seq(Words(id))
  BY <1>1, ShortSequence, Zenon
<1>7. ASSUME NEW S, NEW q \in Seq(S), NEW x \in S
      PROVE  <<x>> \o q \in Seq(S)
  OBVIOUS
<1>8. <<id>> \o Detail(status, e) \in Seq(Words(id))
  BY <1>1, <1>5, <1>7, Zenon
<1>9. QED BY <1>8, Zenon DEF SanitizedSummary

\* A component that sanitizing leaves alone says nothing else.
LEMMA SanitizedInWords ==
  ASSUME NEW c \in Component, NEW date, AllowedComponent(c, date), SanitizeComponent(c) = c
  PROVE  c.evidence.summary \in Seq(Words(c.id))
<1>1. c.id \in Token /\ c.evidence \in Evidence
  BY DEF Component
<1>2. c.status \in ComponentStatus /\ AllowedEvidence(c.evidence, c.id)
  BY DEF AllowedComponent
<1>3. c.evidence = SanitizeEvidence(c.evidence, c.id, c.status)
  BY DEF SanitizeComponent, Component
<1>4. c.evidence.summary = SanitizedSummary(c.id, c.status, c.evidence)
  <2>1. ASSUME NEW e \in Evidence, NEW text, e = [e EXCEPT !.summary = text]
        PROVE  e.summary = text
    BY <2>1 DEF Evidence
  <2>2. QED BY <1>1, <1>3, <2>1, Zenon DEF SanitizeEvidence
<1>5. QED BY <1>1, <1>2, <1>4, SummaryInWords, Zenon

\* The summary of the older RandomX form.
LEMMA LegacyInWords ==
  ASSUME NEW e \in Evidence, AllowedLegacy(e), LegacyEvidence(e) = e
  PROVE  e.summary \in Seq(Words("randomx-msr"))
<1>1. e.summary = <<"randomx-msr", e.activeState, e.subState>>
  <2>1. ASSUME NEW text, NEW facts, e = [e EXCEPT !.summary = text, !.facts = facts]
        PROVE  e.summary = text
    BY <2>1 DEF Evidence
  <2>2. QED BY <2>1, Zenon DEF LegacyEvidence
<1>2. e.activeState \in UnitRule.activeState /\ e.subState \in UnitRule.subState
  BY DEF AllowedLegacy, UnitRule
<1>3. /\ UnitRule.activeState \in {UnitRule[field] : field \in DOMAIN UnitRule}
      /\ UnitRule.subState \in {UnitRule[field] : field \in DOMAIN UnitRule}
  BY DEF UnitRule
<1>4. /\ "randomx-msr" \in Words("randomx-msr")
      /\ e.activeState \in Words("randomx-msr") /\ e.subState \in Words("randomx-msr")
  BY <1>2, <1>3, Zenon DEF Words
<1>5. ASSUME NEW S, NEW a \in S, NEW b \in S, NEW c \in S
      PROVE  <<a, b, c>> \in Seq(S)
  OBVIOUS
<1>6. QED BY <1>1, <1>4, <1>5, Zenon

\* An observation that is its own public form and is accepted.
LEMMA PublicInWords ==
  ASSUME NEW p \in RawObservation, NEW t \in Int, Accepts(p, t), Public(p) = p,
         NEW k \in DOMAIN p.components
  PROVE  p.components[k].evidence.summary \in Seq(Words(p.components[k].id))
<1>1. p.components \in Seq(Component) /\ p.components[k] \in Component
  <2>1. p.components \in Seq(Component)
    BY DEF RawObservation
  <2>2. QED BY <2>1
<1>2. CASE \E i \in DOMAIN p.components : IsLegacy(p, i)
  <2>1. PICK i \in DOMAIN p.components :
          /\ IsLegacy(p, i) /\ AllowedLegacy(p.components[i].evidence)
          /\ Allowed(Normalized(p, i), t)
    BY <1>2, Zenon DEF Accepts
  <2> DEFINE n == Normalized(p, i)
             s == Sanitize(n)
             le == LegacyEvidence(p.components[i].evidence)
  <2>2. p = WithEvidence(s, i, le)
    <3>1. (CHOOSE j \in DOMAIN p.components : IsLegacy(p, j)) = i
      BY <2>1, OneLegacy, Zenon
    <3>2. QED BY <1>2, <3>1, Zenon DEF Public
  <2>3. PresentEvidence(p.components[i].status) \in Evidence
    BY PresentIsEvidence
  <2>4. Replaced(n, p, i, PresentEvidence(p.components[i].status))
    BY <2>3, EvidenceReplaced DEF Normalized
  <2>5. Allowed(n, t)
    BY <2>1
  <2> HIDE DEF n
  <2>6. /\ s \in RawObservation /\ DOMAIN s.components = DOMAIN n.components
        /\ s.components = [j \in DOMAIN n.components |-> SanitizeComponent(n.components[j])]
    BY <2>4, SanitizeKeeps, Zenon DEF Replaced
  <2> HIDE DEF s
  <2>7. p.components[i].evidence \in Evidence /\ p.components[i].id = "randomx-msr"
    <3>1. p.components[i] \in Component
      BY <1>1
    <3>2. p.components[i].id = "randomx-msr"
      BY <2>1 DEF IsLegacy, RandomxAt
    <3>3. QED BY <3>1, <3>2 DEF Component
  <2>8. le \in Evidence
    BY <2>1, <2>7, LegacyKept, Zenon
  <2> HIDE DEF le
  <2>9. Replaced(p, s, i, le)
    <3>1. i \in DOMAIN s.components
      BY <2>4, <2>6 DEF Replaced
    <3>2. Replaced(WithEvidence(s, i, le), s, i, le)
      BY <2>6, <2>8, <3>1, EvidenceReplaced
    <3>3. QED BY <2>2, <3>2, Zenon
  <2>10. CASE k = i
    <3>1. le = p.components[i].evidence
      BY <2>9 DEF Replaced
    <3>2. QED BY <2>1, <2>7, <2>10, <3>1, LegacyInWords, Zenon DEF le
  <2>11. CASE k # i
    <3>1. p.components[k] = s.components[k] /\ n.components[k] = p.components[k]
          /\ k \in DOMAIN n.components
      BY <2>4, <2>6, <2>9, <2>11 DEF Replaced
    <3>2. SanitizeComponent(p.components[k]) = p.components[k]
      BY <2>6, <3>1
    <3>3. AllowedComponent(p.components[k], n.observedAt)
      BY <2>5, <3>1 DEF Allowed
    <3>4. QED BY <1>1, <3>2, <3>3, SanitizedInWords, Zenon
  <2>12. QED BY <2>10, <2>11
<1>3. CASE ~ \E i \in DOMAIN p.components : IsLegacy(p, i)
  <2>1. Allowed(p, t) /\ p = Sanitize(p)
    BY <1>3, Zenon DEF Accepts, Public
  <2>2. Sanitize(p).components
          = [i \in DOMAIN p.components |-> SanitizeComponent(p.components[i])]
    BY SanitizeKeeps, Zenon
  <2>3. p.components[k] = SanitizeComponent(p.components[k])
    BY <2>1, <2>2
  <2>4. AllowedComponent(p.components[k], p.observedAt)
    BY <2>1 DEF Allowed
  <2>5. QED BY <1>1, <2>3, <2>4, SanitizedInWords, Zenon
<1>4. QED BY <1>2, <1>3

\* NothingInTheAgentsWords for every registry and every text an agent may send:
\* sanitizedSummary and the older form's summary are all that is published.
THEOREM OnlyPolicyWords == Spec => []NothingInTheAgentsWords
<1>1. StoreInvariant => NothingInTheAgentsWords
  <2> SUFFICES ASSUME StoreInvariant, node # Null, NEW i \in DOMAIN node.components,
                      NEW k \in DOMAIN node.components[i].evidence.summary
               PROVE  node.components[i].evidence.summary[k] \in Words(node.components[i].id)
    BY DEF NothingInTheAgentsWords
  <2>1. node = row.payload /\ Stable(row)
    BY DEF StoreInvariant
  <2>2. /\ node \in RawObservation /\ node.observedAt \in Int
        /\ Accepts(node, node.observedAt) /\ Public(node) = node
    BY <2>1 DEF Stable, RawObservation
  <2>3. node.components[i].evidence.summary \in Seq(Words(node.components[i].id))
    BY <2>2, PublicInWords, Zenon
  <2>4. ASSUME NEW S, NEW q \in Seq(S), NEW j \in DOMAIN q
        PROVE  q[j] \in S
    OBVIOUS
  <2>5. QED BY <2>3, <2>4, Zenon
<1>2. Spec => []StoreInvariant
  BY InitHolds, StepHolds, PTL DEF Spec
<1>3. QED BY <1>1, <1>2, PTL
=============================================================================
