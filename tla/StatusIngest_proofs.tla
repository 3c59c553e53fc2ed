------------------------ MODULE StatusIngest_proofs ------------------------
(***************************************************************************)
(* Theorems about the status service, for any sources, nonces, concurrent  *)
(* handlers and readers, clock errors and thresholds: all they assume of   *)
(* the constants is StatusAssumption and DelayAssumption.                  *)
(***************************************************************************)
EXTENDS StatusIngest, FiniteSetTheorems, TLAPS

LEMMA InitType == Init => TypeOK
BY StatusAssumption DEF Init, TypeOK

LEMMA AnswerType ==
  ASSUME TypeOK, NEW h \in Handler, NEW status \in Status, Answer(h, status)
  PROVE  /\ handler' \in [Handler -> [request: Request, now: Nat] \cup {None}]
         /\ reply' \in [Handler -> Status \cup {None}]
BY DEF TypeOK, Answer

\* A handler at work, and a request that passes the checks, are well typed.
LEMMA WorkType ==
  ASSUME TypeOK, NEW h \in Handler, handler[h] # None
  PROVE  /\ handler[h].request \in Request
         /\ handler[h].now \in Nat
         /\ handler[h].request.source \in Source
         /\ handler[h].request.nonce \in Nonce
         /\ handler[h].request.timestamp \in Int
         /\ handler[h].request.observed \in Int
BY DEF TypeOK, Request

LEMMA ConnectionType ==
  ASSUME NEW received \in Int, NEW time \in Nat
  PROVE  ConnectionState(received, time) \in {"live", "stale", "offline"}
BY StatusAssumption DEF ConnectionState

LEMMA UpsertType ==
  ASSUME TypeOK, NEW m \in Request, NEW time \in Nat, Known(m)
  PROVE  /\ DOMAIN Upsert(m, time) = DOMAIN rows \cup {m.source}
         /\ DOMAIN Upsert(m, time) \subseteq Registered
         /\ Upsert(m, time) \in [DOMAIN Upsert(m, time) -> Row]
BY DEF TypeOK, Upsert, Known, Request, Row

LEMMA NextType == TypeOK /\ [Next]_vars => TypeOK'
<1> SUFFICES ASSUME TypeOK, [Next]_vars PROVE TypeOK'
  OBVIOUS
<1> USE StatusAssumption DEF tables, ingest, public
<1>1. CASE Tick
  BY <1>1 DEF Tick, TypeOK
<1>2. ASSUME NEW s \in Source, NEW n \in Nonce, NEW error \in ClockError,
             NEW sample \in SampleError, Sign(s, n, error, sample)
      PROVE  TypeOK'
  BY <1>2 DEF Sign, TypeOK, Request
<1>3. ASSUME NEW h \in Handler, NEW m \in sent, Receive(h, m) PROVE TypeOK'
  BY <1>3 DEF Receive, TypeOK
<1>4. ASSUME NEW h \in Handler, Refuse(h) \/ Abort(h) PROVE TypeOK'
  <2>1. PICK status \in Status : Answer(h, status)
    BY <1>4 DEF Refuse, Abort, Status
  <2>2. QED
    BY <1>4, <2>1, AnswerType DEF Refuse, Abort, TypeOK
<1>5. ASSUME NEW h \in Handler, Store(h) PROVE TypeOK'
  <2>1. PICK status \in Status : Answer(h, status)
    BY <1>5 DEF Store, Status
  <2>2. CASE UNCHANGED tables
    BY <1>5, <2>1, <2>2, AnswerType DEF Store, TypeOK
  <2>3. CASE ~UNCHANGED tables
    <3> DEFINE m == handler[h].request
               time == handler[h].now
    <3>1. /\ m \in Request /\ time \in Nat
          /\ m.nonce \in Nonce /\ m.timestamp + NonceTTL \in Int
      BY <1>5, WorkType DEF Store
    <3>2. /\ Known(m)
          /\ nonces' = Unexpired(time) \cup {[nonce |-> m.nonce, expires |-> m.timestamp + NonceTTL]}
          /\ rows' = Upsert(m, time)
          /\ accepted' = accepted \cup {[request |-> m, received |-> time]}
      BY <1>5, <2>3 DEF Store
    <3>3. nonces' \subseteq [nonce: Nonce, expires: Int]
      BY <3>1, <3>2 DEF Unexpired, TypeOK
    <3>4. DOMAIN rows' \subseteq Registered /\ rows' \in [DOMAIN rows' -> Row]
      BY <3>1, <3>2, UpsertType
    <3>5. accepted' \subseteq [request: Request, received: Nat]
      BY <3>1, <3>2 DEF TypeOK
    <3>6. QED
      BY <1>5, <2>1, <3>3, <3>4, <3>5, AnswerType DEF Store, TypeOK
  <2>4. QED
    BY <2>2, <2>3
<1>6. ASSUME NEW g \in Reader, BeginRead(g) PROVE TypeOK'
  <2>1. [now |-> now, selected |-> None] \in [now: Nat, selected: (SUBSET Node) \cup {None}]
    BY DEF TypeOK
  <2>2. QED
    BY <1>6, <2>1 DEF BeginRead, TypeOK
<1>7. ASSUME NEW g \in Reader, SelectRows(g) PROVE TypeOK'
  <2>1. PICK chosen \in SUBSET DOMAIN rows :
          reader' = [reader EXCEPT ![g].selected =
            {[source |-> s, connection |-> ConnectionState(rows[s].received, reader[g].now)]
               : s \in chosen}]
    BY <1>7 DEF SelectRows
  <2>2. reader[g] \in [now: Nat, selected: (SUBSET Node) \cup {None}]
    BY <1>7 DEF SelectRows, Selecting, TypeOK
  <2>3. ASSUME NEW s \in chosen
        PROVE  [source |-> s, connection |-> ConnectionState(rows[s].received, reader[g].now)]
                 \in Node
    BY <2>2, ConnectionType DEF Node, TypeOK, Row
  <2>4. {[source |-> s, connection |-> ConnectionState(rows[s].received, reader[g].now)]
           : s \in chosen} \in SUBSET Node
    BY <2>3
  <2>5. QED
    BY <1>7, <2>1, <2>2, <2>4 DEF SelectRows, TypeOK
<1>8. ASSUME NEW g \in Reader, CountRows(g) PROVE TypeOK'
  <2> DEFINE total == Cardinality(DOMAIN rows)
             truncated == total > Cardinality(reader[g].selected)
  <2>1. total \in Nat
    BY FS_Subset, FS_CardinalityType DEF TypeOK
  <2>2. reader[g].now \in Nat /\ reader[g].selected \in SUBSET Node
    BY <1>8 DEF CountRows, TypeOK
  <2>3. Projection(g, total, truncated) \in [now: Nat, nodes: SUBSET Node, total: Nat, truncated: BOOLEAN]
    BY <2>1, <2>2 DEF Projection
  <2>4. QED
    BY <1>8, <2>3 DEF CountRows, TypeOK
<1>9. CASE UNCHANGED vars
  BY <1>9 DEF vars, TypeOK
<1> QED
  BY <1>1, <1>2, <1>3, <1>4, <1>5, <1>6, <1>7, <1>8, <1>9 DEF Next

\* TypeCorrect: every table, handler and projection keeps its type; only
\* registered sources ever have a row.
THEOREM TypeCorrect == Spec => []TypeOK
<1>1. Init => TypeOK
  BY InitType
<1>2. TypeOK /\ [Next]_vars => TypeOK'
  BY NextType
<1> QED
  BY <1>1, <1>2, PTL DEF Spec

-----------------------------------------------------------------------------
(***************************************************************************)
(* At most once.  A stored request's nonce stays in its table until the    *)
(* clock has passed its expiry, and no handler whose own clock check the   *)
(* request passed is still running by then.                                *)
(***************************************************************************)
FreshNonces == \A m1, m2 \in sent : m1.nonce = m2.nonce => m1 = m2

WorksOnTime ==
  \A h \in Handler : handler[h] # None =>
    /\ handler[h].request \in sent
    /\ handler[h].now <= now
    /\ now <= handler[h].now + MaxDelay

Remembered(m) ==
  now <= m.timestamp + NonceTTL =>
    \E r \in nonces : r.nonce = m.nonce /\ r.expires = m.timestamp + NonceTTL

StoredRemembered == \A a \in accepted : a.request \in sent /\ Remembered(a.request)

NonceInv == TypeOK /\ FreshNonces /\ WorksOnTime /\ StoredRemembered

LEMMA InitNonce == Init => NonceInv
BY InitType DEF Init, NonceInv, FreshNonces, WorksOnTime, StoredRemembered

\* What a handler that is about to store knows of an earlier acceptance.
LEMMA DuplicateKnown ==
  ASSUME NonceInv, NEW h \in Handler, handler[h] # None,
         OnTime(handler[h].request, handler[h].now),
         NEW a \in accepted, a.request = handler[h].request
  PROVE  \E r \in Unexpired(handler[h].now) : r.nonce = handler[h].request.nonce
<1> DEFINE m == handler[h].request
           time == handler[h].now
<1>1. m.timestamp \in Int /\ time \in Nat /\ now \in Nat
  BY WorkType DEF NonceInv, TypeOK
<1>2. time <= m.timestamp + Skew /\ time <= now /\ now <= time + MaxDelay
  BY <1>1, StatusAssumption DEF OnTime, Distance, NonceInv, WorksOnTime
<1>3. now <= m.timestamp + NonceTTL
  BY <1>1, <1>2, StatusAssumption, DelayAssumption
<1>4. PICK r \in nonces : r.nonce = m.nonce /\ r.expires = m.timestamp + NonceTTL
  BY <1>3 DEF NonceInv, StoredRemembered, Remembered
<1>5. r.expires >= time
  BY <1>1, <1>2, <1>3, <1>4, StatusAssumption
<1> QED
  BY <1>4, <1>5 DEF Unexpired

LEMMA NextNonce == NonceInv /\ [Next]_vars => NonceInv'
<1> SUFFICES ASSUME NonceInv, [Next]_vars PROVE NonceInv'
  OBVIOUS
<1>0. TypeOK'
  BY NextType DEF NonceInv
<1> DEFINE Goal == FreshNonces' /\ WorksOnTime' /\ StoredRemembered'
<1> USE StatusAssumption DEF tables, ingest, public
<1>1. CASE Tick
  <2>1. FreshNonces'
    BY <1>1 DEF Tick, NonceInv, FreshNonces
  <2>2. WorksOnTime'
    BY <1>1, WorkType DEF Tick, NonceInv, WorksOnTime, TypeOK
  <2>3. StoredRemembered'
    BY <1>1 DEF Tick, NonceInv, StoredRemembered, Remembered, TypeOK, Request
  <2>4. QED
    BY <2>1, <2>2, <2>3, <1>0 DEF NonceInv
<1>2. ASSUME NEW s \in Source, NEW n \in Nonce, NEW error \in ClockError,
             NEW sample \in SampleError, Sign(s, n, error, sample)
      PROVE  Goal
  BY <1>2 DEF Sign, NonceInv, FreshNonces, WorksOnTime, StoredRemembered, Remembered
<1>3. ASSUME NEW h \in Handler, NEW m \in sent, Receive(h, m) PROVE Goal
  BY <1>3 DEF Receive, NonceInv, FreshNonces, WorksOnTime, StoredRemembered, Remembered, TypeOK
<1>4. ASSUME NEW h \in Handler, Refuse(h) \/ Abort(h) PROVE Goal
  <2>1. PICK status : Answer(h, status)
    BY <1>4 DEF Refuse, Abort
  <2>2. QED
    BY <1>4, <2>1 DEF Refuse, Abort, Answer, NonceInv, FreshNonces, WorksOnTime,
                      StoredRemembered, Remembered, TypeOK
<1>5. ASSUME NEW h \in Handler, Store(h) PROVE Goal
  <2> DEFINE m == handler[h].request
             time == handler[h].now
  <2>1. PICK status : Answer(h, status)
    BY <1>5 DEF Store
  <2>2. FreshNonces' /\ WorksOnTime'
    BY <1>5, <2>1 DEF Store, Answer, NonceInv, FreshNonces, WorksOnTime, TypeOK
  <2>3. CASE UNCHANGED tables
    BY <1>5, <2>2, <2>3 DEF Store, NonceInv, StoredRemembered, Remembered
  <2>4. CASE ~UNCHANGED tables
    <3>1. /\ nonces' = Unexpired(time) \cup {[nonce |-> m.nonce, expires |-> m.timestamp + NonceTTL]}
          /\ accepted' = accepted \cup {[request |-> m, received |-> time]}
          /\ now' = now /\ sent' = sent
      BY <1>5, <2>4 DEF Store
    <3>2. m \in sent /\ time <= now /\ time \in Nat /\ now \in Nat
      BY <1>5, WorkType DEF Store, NonceInv, WorksOnTime, TypeOK
    <3>3. ASSUME NEW a \in accepted PROVE a.request \in sent /\ Remembered(a.request)'
      <4>1. a.request \in sent /\ Remembered(a.request) /\ a.request.timestamp \in Int
        BY DEF NonceInv, StoredRemembered, TypeOK, Request
      <4>2. ASSUME now <= a.request.timestamp + NonceTTL
            PROVE  \E r \in nonces' : r.nonce = a.request.nonce
                                      /\ r.expires = a.request.timestamp + NonceTTL
        <5>1. PICK r \in nonces : r.nonce = a.request.nonce
                                   /\ r.expires = a.request.timestamp + NonceTTL
          BY <4>1, <4>2 DEF Remembered
        <5>2. r \in Unexpired(time)
          BY <3>2, <4>1, <4>2, <5>1 DEF Unexpired
        <5>3. QED
          BY <3>1, <5>1, <5>2
      <4>3. QED
        BY <3>1, <4>1, <4>2 DEF Remembered
    <3>4. ASSUME NEW a \in accepted' \ accepted PROVE a.request \in sent /\ Remembered(a.request)'
      <4> DEFINE r == [nonce |-> m.nonce, expires |-> m.timestamp + NonceTTL]
      <4>1. a.request = m
        BY <3>1
      <4>2. r \in nonces' /\ r.nonce = m.nonce /\ r.expires = m.timestamp + NonceTTL
        BY <3>1
      <4>3. \E q \in nonces' : q.nonce = a.request.nonce
                             /\ q.expires = a.request.timestamp + NonceTTL
        BY <4>1, <4>2
      <4>4. QED
        BY <3>2, <4>1, <4>3 DEF Remembered
    <3>5. QED
      BY <2>2, <3>1, <3>3, <3>4 DEF StoredRemembered
  <2>5. QED
    BY <2>3, <2>4
<1>6. ASSUME NEW g \in Reader, BeginRead(g) \/ SelectRows(g) \/ CountRows(g) PROVE Goal
  BY <1>6 DEF BeginRead, SelectRows, CountRows, NonceInv, FreshNonces, WorksOnTime,
              StoredRemembered, Remembered
<1>7. CASE UNCHANGED vars
  BY <1>0, <1>7 DEF vars, NonceInv, FreshNonces, WorksOnTime, StoredRemembered, Remembered
<1> QED
  BY <1>0, <1>1, <1>2, <1>3, <1>4, <1>5, <1>6, <1>7 DEF Next, NonceInv

\* StoredAtMostOnce: whatever is delivered twice, and however long each delivery
\* takes within the platform's limit, a signed request is stored at most once.
THEOREM StoredAtMostOnce == Spec => AcceptedOnce
<1> DEFINE Step == \A h \in Handler : reply'[h] = "accepted" /\ reply[h] # "accepted"
                    => \A a \in accepted : a.request # handler[h].request
<1>1. NonceInv /\ [Next]_vars => [Step]_vars
  <2> SUFFICES ASSUME NonceInv, Next,
                      NEW h \in Handler, reply'[h] = "accepted", reply[h] # "accepted",
                      NEW a \in accepted, a.request = handler[h].request
               PROVE  FALSE
    OBVIOUS
  <2>1. ASSUME NEW k \in Handler, NEW status, Answer(k, status) PROVE k = h /\ status = "accepted"
    BY <2>1 DEF Answer, NonceInv, TypeOK
  <2>2. ASSUME NEW k \in Handler, Refuse(k) \/ Abort(k) PROVE FALSE
    BY <2>1, <2>2 DEF Refuse, Abort
  <2>3. ASSUME NEW k \in Handler, Store(k) PROVE FALSE
    <3>1. k = h /\ ~Answer(k, "replay_detected")
      BY <2>1, <2>3 DEF Store
    <3>2. /\ handler[h] # None
          /\ OnTime(handler[h].request, handler[h].now)
          /\ ~ \E r \in Unexpired(handler[h].now) : r.nonce = handler[h].request.nonce
      BY <2>3, <3>1 DEF Store
    <3>3. QED
      BY <3>2, DuplicateKnown
  <2>4. reply' # reply
    OBVIOUS
  <2>5. QED
    BY <2>2, <2>3, <2>4
    DEF Next, Tick, Sign, Receive, BeginRead, SelectRows, CountRows, ingest
<1>2. Spec => []NonceInv
  BY InitNonce, NextNonce, PTL DEF Spec
<1> QED
  BY <1>1, <1>2, PTL DEF Spec, AcceptedOnce

-----------------------------------------------------------------------------
(***************************************************************************)
(* What a row holds.                                                       *)
(***************************************************************************)
RowsInv == TypeOK /\ StoresNewest /\ MutedAtMostTwiceSkew

\* Only a request that is stored changes a table.
LEMMA OnlyStoreWrites ==
  ASSUME Next
  PROVE  \/ UNCHANGED tables
         \/ \E h \in Handler : Store(h) /\ ~UNCHANGED tables
BY DEF Next, Tick, Sign, Receive, Refuse, Abort, BeginRead, SelectRows, CountRows, tables

LEMMA NextRows == RowsInv /\ [Next]_vars => RowsInv'
<1> SUFFICES ASSUME RowsInv, [Next]_vars PROVE RowsInv'
  OBVIOUS
<1> USE StatusAssumption
<1>0. TypeOK'
  BY NextType DEF RowsInv
<1>1. CASE UNCHANGED tables
  BY <1>0, <1>1 DEF tables, RowsInv, StoresNewest, AcceptedFrom, MutedAtMostTwiceSkew
<1>2. ASSUME NEW h \in Handler, Store(h), ~UNCHANGED tables PROVE RowsInv'
  <2> DEFINE time == handler[h].now
  <2>1. PICK m \in Request : m = handler[h].request
    BY <1>2, WorkType DEF Store, RowsInv
  <2>2. /\ Known(m) /\ OnTime(m, time) /\ WellDated(m)
        /\ rows' = Upsert(m, time)
        /\ accepted' = accepted \cup {[request |-> m, received |-> time]}
    BY <1>2, <2>1 DEF Store
  <2>3. /\ m.source \in Source /\ m.timestamp \in Int /\ m.observed \in Int /\ time \in Nat
    BY <1>2, <2>1, WorkType DEF Store, RowsInv
  <2>4. m.observed <= time + 2 * Skew
    BY <2>2, <2>3 DEF OnTime, WellDated, Distance
  <2>5. /\ DOMAIN rows' = DOMAIN rows \cup {m.source}
        /\ \A s \in DOMAIN rows : rows[s].observed \in Int
        /\ \A s \in DOMAIN rows' :
             rows'[s] = IF s = m.source /\ (s \notin DOMAIN rows \/ m.observed >= rows[s].observed)
                        THEN [observed |-> m.observed, received |-> time] ELSE rows[s]
    BY <2>2 DEF Upsert, RowsInv, TypeOK, Row
  <2>6. MutedAtMostTwiceSkew'
    BY <2>4, <2>5 DEF RowsInv, MutedAtMostTwiceSkew
  <2>7. ASSUME NEW s \in Source, s # m.source
        PROVE  AcceptedFrom(s)' = AcceptedFrom(s) /\ (s \in DOMAIN rows' <=> s \in DOMAIN rows)
               /\ (s \in DOMAIN rows => rows'[s] = rows[s])
    BY <2>2, <2>5, <2>7 DEF AcceptedFrom
  <2>8. AcceptedFrom(m.source)' = AcceptedFrom(m.source) \cup {[request |-> m, received |-> time]}
    BY <2>2 DEF AcceptedFrom
  <2>9. \A a \in AcceptedFrom(m.source) : a.request.observed \in Int
    BY DEF AcceptedFrom, RowsInv, TypeOK, Request
  <2>10. m.source \in DOMAIN rows'
         /\ \A a \in AcceptedFrom(m.source)' : a.request.observed <= rows'[m.source].observed
    BY <2>3, <2>5, <2>8, <2>9 DEF RowsInv, StoresNewest
  <2>11. \E a \in AcceptedFrom(m.source)' : a.request.observed = rows'[m.source].observed
                                             /\ a.received = rows'[m.source].received
    <3> DEFINE new == [request |-> m, received |-> time]
    <3>1. CASE m.source \notin DOMAIN rows \/ m.observed >= rows[m.source].observed
      <4>1. rows'[m.source] = [observed |-> m.observed, received |-> time]
        BY <2>5, <3>1
      <4>2. new \in AcceptedFrom(m.source)' /\ new.request = m /\ new.received = time
        BY <2>8
      <4>3. QED
        BY <4>1, <4>2
    <3>2. CASE m.source \in DOMAIN rows /\ ~(m.observed >= rows[m.source].observed)
      <4>1. rows'[m.source] = rows[m.source]
        BY <2>5, <3>2
      <4>2. PICK a \in AcceptedFrom(m.source) : a.request.observed = rows[m.source].observed
                                                /\ a.received = rows[m.source].received
        BY <2>3, <3>2 DEF RowsInv, StoresNewest
      <4>3. QED
        BY <2>8, <4>1, <4>2
    <3>3. QED
      BY <3>1, <3>2
  <2>12. StoresNewest'
    BY <2>7, <2>8, <2>10, <2>11 DEF RowsInv, StoresNewest
  <2>13. QED
    BY <1>0, <2>6, <2>12 DEF RowsInv
<1> QED
  BY <1>1, <1>2, OnlyStoreWrites DEF vars, tables

LEMMA RowsInvariant == Spec => []RowsInv
<1>1. Init => RowsInv
  BY InitType DEF Init, RowsInv, StoresNewest, AcceptedFrom, MutedAtMostTwiceSkew
<1> QED
  BY <1>1, NextRows, PTL DEF Spec

\* NewestStored: a source has a row exactly when a request of its was accepted,
\* and it is the newest one, in whatever order requests arrive and finish.
THEOREM NewestStored == Spec => []StoresNewest
<1>1. RowsInv => StoresNewest
  BY DEF RowsInv
<1> QED
  BY <1>1, RowsInvariant, PTL

\* MutedBounded: no clock error suppresses a source for longer than twice the skew.
THEOREM MutedBounded == Spec => []MutedAtMostTwiceSkew
<1>1. RowsInv => MutedAtMostTwiceSkew
  BY DEF RowsInv
<1> QED
  BY <1>1, RowsInvariant, PTL

\* Every request stored was dated near the time it was received.
AcceptedNearReceipt ==
  \A a \in accepted : Distance(a.request.observed, a.received) <= 2 * Skew

LEMMA NearReceiptKept ==
  ASSUME RowsInv, AcceptedNearReceipt, [Next]_vars  PROVE AcceptedNearReceipt'
<1>1. CASE UNCHANGED tables
  BY <1>1 DEF tables, AcceptedNearReceipt
<1>2. ASSUME NEW h \in Handler, Store(h), ~UNCHANGED tables  PROVE AcceptedNearReceipt'
  <2>1. PICK m \in Request, time \in Nat : m = handler[h].request /\ time = handler[h].now
    BY <1>2, WorkType DEF Store, RowsInv
  <2>2. /\ OnTime(m, time) /\ WellDated(m)
        /\ accepted' = accepted \cup {[request |-> m, received |-> time]}
    BY <1>2, <2>1 DEF Store
  <2>3. m.observed \in Int /\ m.timestamp \in Int /\ time \in Int /\ Skew \in Nat
    BY StatusAssumption DEF Request
  <2>4. Distance(m.observed, time) <= 2 * Skew
    BY <2>2, <2>3 DEF OnTime, WellDated, Distance
  <2> QED BY <2>2, <2>4 DEF AcceptedNearReceipt
<1> QED BY <1>1, <1>2, OnlyStoreWrites DEF vars, tables

\* How far FreshnessIsLastAccepted, violated as it stands, can be off: the row a
\* source is judged by was received no earlier than four times the skew before
\* the last request accepted from it, and never after that.
FreshnessLags ==
  \A s \in DOMAIN rows :
    /\ \A a \in AcceptedFrom(s) : rows[s].received >= a.received - 4 * Skew
    /\ \E a \in AcceptedFrom(s) : rows[s].received = a.received

\* FreshnessLags: a source that goes on reporting is never judged by a receipt
\* older than that, however wrong its clock is or was.
THEOREM FreshnessLagsBounded == Spec => []FreshnessLags
<1>1. Init => AcceptedNearReceipt
  BY DEF Init, AcceptedNearReceipt
<1>2. RowsInv /\ AcceptedNearReceipt /\ [Next]_vars => AcceptedNearReceipt'
  BY NearReceiptKept
<1>3. RowsInv /\ AcceptedNearReceipt => FreshnessLags
  <2> SUFFICES ASSUME RowsInv, AcceptedNearReceipt, NEW s \in DOMAIN rows
               PROVE  /\ \A a \in AcceptedFrom(s) : rows[s].received >= a.received - 4 * Skew
                      /\ \E a \in AcceptedFrom(s) : rows[s].received = a.received
    BY DEF FreshnessLags
  <2>1. s \in Source /\ Skew \in Nat
    BY StatusAssumption DEF RowsInv, TypeOK
  <2>2. ASSUME NEW a \in AcceptedFrom(s)
        PROVE  /\ a.request.observed \in Int /\ a.received \in Int
               /\ Distance(a.request.observed, a.received) <= 2 * Skew
    BY <2>2 DEF AcceptedFrom, RowsInv, TypeOK, Request, AcceptedNearReceipt
  <2>3. PICK b \in AcceptedFrom(s) :
          b.request.observed = rows[s].observed /\ b.received = rows[s].received
    BY <2>1 DEF RowsInv, StoresNewest
  <2>4. ASSUME NEW a \in AcceptedFrom(s)  PROVE rows[s].received >= a.received - 4 * Skew
    <3>1. a.request.observed <= b.request.observed
      BY <2>1, <2>3 DEF RowsInv, StoresNewest
    <3>2. /\ a.request.observed >= a.received - 2 * Skew
          /\ b.received >= b.request.observed - 2 * Skew
      BY <2>1, <2>2 DEF Distance
    <3>3. b.received >= a.received - 4 * Skew
      BY <2>1, <2>2, <3>1, <3>2
    <3> QED BY <2>3, <3>3
  <2> QED BY <2>3, <2>4
<1> QED BY <1>1, <1>2, <1>3, RowsInvariant, PTL DEF Spec

-----------------------------------------------------------------------------
(***************************************************************************)
(* What a reader shows: its nodes are of stored sources, one each, and     *)
(* stay backed by requests that were accepted, whatever is stored while    *)
(* it goes on.                                                             *)
(***************************************************************************)
Backed(nodes, time) ==
  /\ \A n \in nodes : n.source \in DOMAIN rows
  /\ \A n \in nodes, k \in nodes : n.source = k.source => n = k
  /\ \A n \in nodes : n.connection = "live" =>
       \E a \in AcceptedFrom(n.source) : a.received >= time - Live

HasSelected(g) == reader[g] # None /\ reader[g].selected # None

ReaderInv ==
  /\ RowsInv
  /\ \A g \in Reader : HasSelected(g) => Backed(reader[g].selected, reader[g].now)
  /\ LiveMeansRecent

\* Rows and accepted requests are only added.
LEMMA TablesGrow ==
  ASSUME [Next]_vars
  PROVE  DOMAIN rows \subseteq DOMAIN rows' /\ \A s \in Source : AcceptedFrom(s) \subseteq AcceptedFrom(s)'
<1>1. CASE UNCHANGED tables
  BY <1>1 DEF tables, AcceptedFrom
<1>2. ASSUME NEW h \in Handler, Store(h), ~UNCHANGED tables
      PROVE  DOMAIN rows \subseteq DOMAIN rows' /\ accepted \subseteq accepted'
  BY <1>2 DEF Store, Upsert
<1> QED
  BY <1>1, <1>2, OnlyStoreWrites DEF vars, tables, AcceptedFrom

\* What is backed stays so.
LEMMA StaysBacked ==
  ASSUME [Next]_vars, NEW nodes \in SUBSET Node, NEW time, Backed(nodes, time)
  PROVE  Backed(nodes, time)'
<1>1. \A n \in nodes : n.source \in Source
  BY DEF Node
<1> QED
  BY <1>1, TablesGrow DEF Backed

\* The time a reader captured, against a row as it is selected.
LEMMA SelectionBacked ==
  ASSUME RowsInv, NEW time \in Nat, NEW shown \in SUBSET DOMAIN rows
  PROVE  Backed({[source |-> s, connection |-> ConnectionState(rows[s].received, time)] : s \in shown},
                time)
<1>1. ASSUME NEW s \in shown, ConnectionState(rows[s].received, time) = "live"
      PROVE  \E a \in AcceptedFrom(s) : a.received >= time - Live
  <2>1. s \in Source /\ rows[s].received \in Int
    BY StatusAssumption DEF RowsInv, TypeOK, Row
  <2>2. rows[s].received >= time - Live
    BY <1>1, <2>1, StatusAssumption DEF ConnectionState
  <2>3. PICK a \in AcceptedFrom(s) : a.received = rows[s].received
    BY <2>1 DEF RowsInv, StoresNewest
  <2>4. QED
    BY <2>2, <2>3
<1> QED
  BY <1>1 DEF Backed

LEMMA NextReader == ReaderInv /\ [Next]_vars => ReaderInv'
<1> SUFFICES ASSUME ReaderInv, [Next]_vars PROVE ReaderInv'
  OBVIOUS
<1>0. RowsInv' /\ TypeOK /\ TypeOK'
  BY NextRows, NextType DEF ReaderInv, RowsInv
<1>1. ASSUME NEW g \in Reader, HasSelected(g), reader'[g] = reader[g]
      PROVE  Backed(reader[g].selected, reader[g].now)'
  <2>1. reader[g].selected \in SUBSET Node /\ Backed(reader[g].selected, reader[g].now)
    BY <1>0, <1>1 DEF ReaderInv, HasSelected, TypeOK
  <2>2. PICK nodes \in SUBSET Node : nodes = reader[g].selected
    BY <2>1
  <2>3. PICK time : time = reader[g].now
    OBVIOUS
  <2>4. Backed(nodes, time)
    BY <2>1, <2>2, <2>3
  <2>5. Backed(nodes, time)'
    BY <2>4, StaysBacked
  <2>6. reader'[g].selected = nodes /\ reader'[g].now = time
    BY <1>1, <2>2, <2>3
  <2>7. QED
    BY <2>5, <2>6 DEF Backed, AcceptedFrom
<1>2. ASSUME NEW g \in Reader, report[g] # None, report'[g] = report[g],
             NEW n \in report[g].nodes, n.connection = "live"
      PROVE  \E a \in AcceptedFrom(n.source)' : a.received >= report[g].now - Live
  <2>1. n.source \in Source
    BY <1>0, <1>2 DEF TypeOK, Node
  <2>2. \E a \in AcceptedFrom(n.source) : a.received >= report[g].now - Live
    BY <1>2 DEF ReaderInv, LiveMeansRecent
  <2>3. QED
    BY <2>1, <2>2, TablesGrow
<1>3. CASE UNCHANGED public
  BY <1>0, <1>1, <1>2, <1>3 DEF public, ReaderInv, LiveMeansRecent, HasSelected
<1>4. ASSUME NEW g \in Reader, BeginRead(g) PROVE ReaderInv'
  BY <1>0, <1>1, <1>2, <1>4 DEF BeginRead, ReaderInv, LiveMeansRecent, HasSelected, TypeOK
<1>5. ASSUME NEW g \in Reader, SelectRows(g) PROVE ReaderInv'
  <2>1. PICK shown \in SUBSET DOMAIN rows :
          reader' = [reader EXCEPT ![g].selected =
            {[source |-> s, connection |-> ConnectionState(rows[s].received, reader[g].now)]
               : s \in shown}]
    BY <1>5 DEF SelectRows
  <2>2. reader[g].now \in Nat /\ reader \in [Reader -> [now: Nat, selected: (SUBSET Node) \cup {None}] \cup {None}]
    BY <1>0, <1>5 DEF SelectRows, Selecting, TypeOK
  <2> DEFINE nodes == {[source |-> s, connection |-> ConnectionState(rows[s].received, reader[g].now)]
                         : s \in shown}
  <2>3. Backed(nodes, reader[g].now)
    BY <2>2, SelectionBacked DEF ReaderInv
  <2>4. rows' = rows /\ accepted' = accepted /\ report' = report
    BY <1>5 DEF SelectRows, tables
  <2>5. reader[g] # None
    BY <1>5 DEF SelectRows, Selecting
  <2>6. reader'[g].selected = nodes /\ reader'[g].now = reader[g].now
    BY <2>1, <2>2, <2>5
  <2>7. \A k \in Reader \ {g} : reader'[k] = reader[k]
    BY <2>1, <2>2
  <2>8. ASSUME NEW k \in Reader, HasSelected(k)' PROVE Backed(reader[k].selected, reader[k].now)'
    <3>1. CASE k = g
      BY <2>3, <2>4, <2>6, <3>1 DEF Backed, AcceptedFrom
    <3>2. CASE k # g
      BY <1>1, <2>7, <2>8, <3>2 DEF HasSelected
    <3>3. QED
      BY <3>1, <3>2
  <2>9. LiveMeansRecent'
    BY <2>4 DEF ReaderInv, LiveMeansRecent, AcceptedFrom
  <2>10. QED
    BY <1>0, <2>8, <2>9 DEF ReaderInv
<1>6. ASSUME NEW g \in Reader, CountRows(g) PROVE ReaderInv'
  <2>1. /\ HasSelected(g)
        /\ reader' = [reader EXCEPT ![g] = None]
        /\ rows' = rows /\ accepted' = accepted
    BY <1>6 DEF CountRows, HasSelected, tables
  <2>2. \E total, truncated :
          report' = [report EXCEPT ![g] = Projection(g, total, truncated)]
    BY <1>6 DEF CountRows
  <2>3. report'[g].nodes = reader[g].selected /\ report'[g].now = reader[g].now
        /\ \A k \in Reader \ {g} : report'[k] = report[k]
    BY <1>0, <2>2 DEF Projection, TypeOK
  <2>4. Backed(reader[g].selected, reader[g].now)
    BY <2>1 DEF ReaderInv
  <2>5. LiveMeansRecent'
    <3> SUFFICES ASSUME NEW k \in Reader, report'[k] # None,
                        NEW n \in report'[k].nodes, n.connection = "live"
                 PROVE  \E a \in AcceptedFrom(n.source)' : a.received >= report'[k].now - Live
      BY DEF LiveMeansRecent
    <3>1. CASE k = g
      BY <2>1, <2>3, <2>4, <3>1 DEF Backed, AcceptedFrom
    <3>2. CASE k # g
      BY <1>2, <2>3, <3>2
    <3>3. QED
      BY <3>1, <3>2
  <2>6. ASSUME NEW k \in Reader, HasSelected(k)' PROVE Backed(reader[k].selected, reader[k].now)'
    <3>1. k # g /\ reader'[k] = reader[k]
      BY <1>0, <2>1, <2>6 DEF HasSelected, TypeOK
    <3>2. QED
      BY <1>1, <2>6, <3>1 DEF HasSelected
  <2>7. QED
    BY <1>0, <2>5, <2>6 DEF ReaderInv
<1>7. UNCHANGED public \/ \E g \in Reader : BeginRead(g) \/ SelectRows(g) \/ CountRows(g)
  BY DEF Next, vars, public, Tick, Sign, Receive, Refuse, Store, Abort
<1> QED
  BY <1>3, <1>4, <1>5, <1>6, <1>7

LEMMA ReaderInvariant == Spec => []ReaderInv
<1>1. Init => ReaderInv
  <2>1. Init => RowsInv
    BY InitType DEF Init, RowsInv, StoresNewest, AcceptedFrom, MutedAtMostTwiceSkew
  <2>2. QED
    BY <2>1 DEF Init, ReaderInv, HasSelected, LiveMeansRecent
<1> QED
  BY <1>1, NextReader, PTL DEF Spec

\* LiveIsRecent: a node is published as live only if a request of its was
\* accepted within the live window before the reader's clock, or after it.
THEOREM LiveIsRecent == Spec => []LiveMeansRecent
<1>1. ReaderInv => LiveMeansRecent
  BY DEF ReaderInv
<1> QED
  BY <1>1, ReaderInvariant, PTL

\* As many nodes of different stored sources as there are rows are all of them.
LEMMA AsManyAreAll ==
  ASSUME NEW nodes, NEW time, Backed(nodes, time), IsFiniteSet(DOMAIN rows),
         ~(Cardinality(DOMAIN rows) > Cardinality(nodes))
  PROVE  {n.source : n \in nodes} = DOMAIN rows
<1> DEFINE f == [n \in nodes |-> n.source]
<1>1. f \in Injection(nodes, DOMAIN rows)
  BY DEF Backed, Injection, IsInjective
<1> HIDE DEF f
<1>2. /\ IsFiniteSet(nodes)
      /\ Cardinality(nodes) <= Cardinality(DOMAIN rows)
      /\ Cardinality(nodes) = Cardinality(DOMAIN rows) => f \in Surjection(nodes, DOMAIN rows)
  BY <1>1, FS_Injection
<1>3. Cardinality(nodes) \in Nat /\ Cardinality(DOMAIN rows) \in Nat
  BY <1>2, FS_CardinalityType
<1>4. f \in Surjection(nodes, DOMAIN rows)
  BY <1>2, <1>3
<1>5. \A s \in DOMAIN rows : \E n \in nodes : f[n] = s
  BY <1>4 DEF Surjection
<1>6. \A n \in nodes : f[n] = n.source
  BY DEF f
<1>7. \A n \in nodes : n.source \in DOMAIN rows
  BY DEF Backed
<1> QED
  BY <1>5, <1>6, <1>7

\* CompleteUnlessTruncated: a projection that does not say truncated names every
\* source stored at the time of the count, though the rows were selected before.
THEOREM CompleteUnlessTruncated == Spec => UntruncatedIsComplete
<1> DEFINE Complete ==
      \A g \in Reader : report[g] = None /\ report'[g] # None /\ ~report'[g].truncated
        => {node.source : node \in report'[g].nodes} = DOMAIN rows
<1>1. ReaderInv /\ [Next]_vars => [Complete]_vars
  <2> SUFFICES ASSUME ReaderInv, Next,
                      NEW g \in Reader, report[g] = None, report'[g] # None, ~report'[g].truncated
               PROVE  {node.source : node \in report'[g].nodes} = DOMAIN rows
    OBVIOUS
  <2>1. PICK k \in Reader : CountRows(k)
    BY DEF Next, Tick, Sign, Receive, Refuse, Store, Abort, BeginRead, SelectRows, public
  <2>2. k = g
    BY <2>1 DEF CountRows, ReaderInv, RowsInv, TypeOK
  <2>3. /\ report'[g].nodes = reader[g].selected
        /\ report'[g].truncated = (Cardinality(DOMAIN rows) > Cardinality(reader[g].selected))
        /\ HasSelected(g)
    BY <2>1, <2>2 DEF CountRows, Projection, HasSelected, ReaderInv, RowsInv, TypeOK
  <2>4. IsFiniteSet(DOMAIN rows)
    BY StatusAssumption, FS_Subset DEF ReaderInv, RowsInv, TypeOK
  <2>5. Backed(reader[g].selected, reader[g].now)
    BY <2>3 DEF ReaderInv
  <2>6. ~(Cardinality(DOMAIN rows) > Cardinality(reader[g].selected))
    BY <2>3
  <2>7. {node.source : node \in reader[g].selected} = DOMAIN rows
    BY <2>4, <2>5, <2>6, AsManyAreAll
  <2>8. QED
    BY <2>3, <2>7
<1> QED
  BY <1>1, ReaderInvariant, PTL DEF Spec, UntruncatedIsComplete

=============================================================================
