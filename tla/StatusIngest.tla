---------------------------- MODULE StatusIngest ----------------------------
(***************************************************************************)
(* The status service: the POST handlers that authenticate, deduplicate    *)
(* and store appliance observations in D1, and the GET handler that reads  *)
(* them back as the public projection.                                     *)
(*                                                                         *)
(* Requests overlap: a handler captures the clock when it is entered and   *)
(* uses it after every await.  The network and the sender may deliver a    *)
(* signed request late, out of order, more than once or never.             *)
(***************************************************************************)
EXTENDS Integers, FiniteSets

CONSTANTS
  Source,       \* appliances that sign observations
  Registered,   \* the sources in RIGOS_STATUS_SOURCE_KEYS
  Nonce,        \* request nonces
  Handler,      \* invocations of acceptObservation, one per delivery
  Reader,       \* invocations of readPublicStatus
  Skew,         \* MAX_CLOCK_SKEW_SECONDS
  NonceTTL,     \* NONCE_TTL_SECONDS
  Live,         \* LIVE_AFTER_SECONDS
  Offline,      \* OFFLINE_AFTER_SECONDS
  PublicLimit,  \* PUBLIC_NODE_LIMIT
  MaxDelay,     \* the longest the platform lets a request run
  ClockError,   \* how far an appliance's clock may be off when it signs
  SampleError,  \* how far from the signature the observation is dated
  MaxTime,      \* bound on the clock
  None          \* nothing yet

ASSUME StatusAssumption ==
  /\ Registered \subseteq Source /\ IsFiniteSet(Registered)
  /\ {Skew, NonceTTL, Live, Offline, PublicLimit, MaxDelay, MaxTime} \subseteq Nat
  /\ Live <= Offline
  /\ ClockError \subseteq Int /\ SampleError \subseteq Int

\* A duplicate may still be running when the nonce of the original expires,
\* unless the platform cuts requests off before that.
ASSUME DelayAssumption == Skew + MaxDelay <= NonceTTL

VARIABLES
  now,       \* the server's clock
  sent,      \* the signed requests: any of them may arrive at any time
  handler,   \* the request each handler works on and the time it captured
  reply,     \* what each handler answered
  nonces,    \* table ingest_nonces
  rows,      \* table status_observations, by source
  reader,    \* the time each reader captured and the nodes it selected
  report,    \* the public projection each reader returned
  accepted   \* history: the requests stored, with the time they were received

tables == <<nonces, rows, accepted>>
ingest == <<handler, reply>>
public == <<reader, report>>
vars == <<now, sent, handler, reply, nonces, rows, reader, report, accepted>>

Request == [source: Source, nonce: Nonce, timestamp: Int, observed: Int]
Row == [observed: Int, received: Int]
Node == [source: Source, connection: {"live", "stale", "offline"}]
Status == {"unknown_source", "clock_skew", "observation_clock_skew",
           "replay_detected", "internal_error", "accepted"}
-----------------------------------------------------------------------------
Init ==
  /\ now = 0
  /\ sent = {}
  /\ handler = [h \in Handler |-> None]
  /\ reply = [h \in Handler |-> None]
  /\ nonces = {}
  /\ rows = [s \in {} |-> None]
  /\ reader = [g \in Reader |-> None]
  /\ report = [g \in Reader |-> None]
  /\ accepted = {}

\* Time passes, but never past the platform's limit on a request under way.
Tick ==
  /\ now < MaxTime
  /\ \A h \in Handler : handler[h] # None => now < handler[h].now + MaxDelay
  /\ now' = now + 1
  /\ UNCHANGED <<sent, ingest, tables, public>>

\* An appliance signs an observation under a fresh nonce and sends it.
Sign(s, n, error, sample) ==
  /\ \A m \in sent : m.nonce # n
  /\ sent' = sent \cup {[source |-> s, nonce |-> n, timestamp |-> now + error,
                         observed |-> now + error + sample]}
  /\ UNCHANGED <<now, ingest, tables, public>>
-----------------------------------------------------------------------------
(***************************************************************************)
(* acceptObservation.                                                      *)
(***************************************************************************)
Receive(h, m) ==
  /\ handler[h] = None
  /\ reply[h] = None
  /\ handler' = [handler EXCEPT ![h] = [request |-> m, now |-> now]]
  /\ UNCHANGED <<now, sent, reply, tables, public>>

Answer(h, status) ==
  /\ handler' = [handler EXCEPT ![h] = None]
  /\ reply' = [reply EXCEPT ![h] = status]

Distance(a, b) == IF a < b THEN b - a ELSE a - b

\* Faulty variant: falls back to a shared secret.
FaultyKnown(m) == m.source \in Source

\* sourceKeyRegistry: the signature is checked with the source's own secret.
Known(m) == m.source \in Registered

\* verifySignature: the request's clock against the time the handler captured.
OnTime(m, time) == Distance(time, m.timestamp) <= Skew

\* Faulty variant: forgets that an observation may be dated ahead.
FaultyWellDated(m) == m.timestamp - m.observed <= Skew

\* validateAndSanitizeObservation: the observation's date against the request's.
WellDated(m) == Distance(m.observed, m.timestamp) <= Skew

\* The first check that fails decides the reply.
Refuse(h) ==
  /\ handler[h] # None
  /\ LET m == handler[h].request
         time == handler[h].now IN
       \/ ~Known(m) /\ Answer(h, "unknown_source")
       \/ Known(m) /\ ~OnTime(m, time) /\ Answer(h, "clock_skew")
       \/ /\ Known(m) /\ OnTime(m, time) /\ ~WellDated(m)
          /\ Answer(h, "observation_clock_skew")
  /\ UNCHANGED <<now, sent, tables, public>>

\* Faulty variant: takes expires_at for the time of the request.
FaultyUnexpired(time) == {r \in nonces : r.expires - NonceTTL >= time}

\* DELETE FROM ingest_nonces WHERE expires_at < ?
Unexpired(time) == {r \in nonces : r.expires >= time}

\* Faulty variant: the upsert without its WHERE clause.
FaultyUpsert(m, time) ==
  [s \in DOMAIN rows \cup {m.source} |->
     IF s = m.source THEN [observed |-> m.observed, received |-> time] ELSE rows[s]]

\* INSERT ... ON CONFLICT DO UPDATE ... WHERE excluded.observed_unix >= observed_unix
Upsert(m, time) ==
  [s \in DOMAIN rows \cup {m.source} |->
     IF s = m.source /\ (s \notin DOMAIN rows \/ m.observed >= rows[s].observed)
     THEN [observed |-> m.observed, received |-> time]
     ELSE rows[s]]

\* storeObservation: one D1 batch, a transaction that a known nonce rolls back.
Store(h) ==
  /\ handler[h] # None
  /\ LET m == handler[h].request
         time == handler[h].now
         known == \E r \in Unexpired(time) : r.nonce = m.nonce IN
       /\ Known(m) /\ OnTime(m, time) /\ WellDated(m)
       /\ \/ /\ known
             /\ Answer(h, "replay_detected")
             /\ UNCHANGED tables
          \/ /\ ~known
             /\ nonces' = Unexpired(time)
                  \cup {[nonce |-> m.nonce, expires |-> m.timestamp + NonceTTL]}
             /\ rows' = Upsert(m, time)
             /\ accepted' = accepted \cup {[request |-> m, received |-> time]}
             /\ Answer(h, "accepted")
  /\ UNCHANGED <<now, sent, public>>

\* The database refuses, or the platform ends the request: nothing is stored.
Abort(h) ==
  /\ handler[h] # None
  /\ Answer(h, "internal_error")
  /\ UNCHANGED <<now, sent, tables, public>>
-----------------------------------------------------------------------------
(***************************************************************************)
(* readPublicStatus: capture the clock, select the newest rows, count all. *)
(***************************************************************************)
\* Faulty variant: takes the offline threshold for the live one.
FaultyConnectionState(received, time) ==
  IF time - received <= Offline THEN "live" ELSE "offline"

ConnectionState(received, time) ==
  LET age == IF time < received THEN 0 ELSE time - received IN
  CASE age <= Live -> "live"
    [] age > Live /\ age <= Offline -> "stale"
    [] age > Offline -> "offline"

BeginRead(g) ==
  /\ reader[g] = None
  /\ report[g] = None
  /\ reader' = [reader EXCEPT ![g] = [now |-> now, selected |-> None]]
  /\ UNCHANGED <<now, sent, ingest, tables, report>>

\* ORDER BY received_unix DESC LIMIT PUBLIC_NODE_LIMIT; ties in any order.
Newest(chosen) ==
  /\ chosen \subseteq DOMAIN rows
  /\ \/ chosen = DOMAIN rows /\ Cardinality(chosen) <= PublicLimit
     \/ Cardinality(chosen) = PublicLimit
  /\ \A s \in chosen, t \in DOMAIN rows \ chosen : rows[s].received >= rows[t].received

Selecting(g) == reader[g] # None /\ reader[g].selected = None

\* A row the deployed sanitizer no longer accepts is left out (publicNode).
SelectRows(g) ==
  /\ Selecting(g)
  /\ \E chosen \in SUBSET DOMAIN rows : \E shown \in SUBSET chosen :
       /\ Newest(chosen)
       /\ reader' = [reader EXCEPT ![g].selected =
            {[source |-> s, connection |-> ConnectionState(rows[s].received, reader[g].now)]
               : s \in shown}]
  /\ UNCHANGED <<now, sent, ingest, tables, report>>

Projection(g, total, truncated) ==
  [now |-> reader[g].now, nodes |-> reader[g].selected, total |-> total, truncated |-> truncated]

\* Faulty variant: says truncated only when there is more than the limit.
FaultyCountRows(g) ==
  /\ reader[g] # None
  /\ reader[g].selected # None
  /\ LET total == Cardinality(DOMAIN rows) IN
       report' = [report EXCEPT ![g] = Projection(g, total, total > PublicLimit)]
  /\ reader' = [reader EXCEPT ![g] = None]
  /\ UNCHANGED <<now, sent, ingest, tables>>

CountRows(g) ==
  /\ reader[g] # None
  /\ reader[g].selected # None
  /\ LET total == Cardinality(DOMAIN rows) IN
       report' = [report EXCEPT ![g] =
                    Projection(g, total, total > Cardinality(reader[g].selected))]
  /\ reader' = [reader EXCEPT ![g] = None]
  /\ UNCHANGED <<now, sent, ingest, tables>>
-----------------------------------------------------------------------------
Next ==
  \/ Tick
  \/ \E s \in Source, n \in Nonce, error \in ClockError, sample \in SampleError :
       Sign(s, n, error, sample)
  \/ \E h \in Handler :
       \/ \E m \in sent : Receive(h, m)
       \/ Refuse(h) \/ Store(h) \/ Abort(h)
  \/ \E g \in Reader : BeginRead(g) \/ SelectRows(g) \/ CountRows(g)

Spec == Init /\ [][Next]_vars
-----------------------------------------------------------------------------
TypeOK ==
  /\ now \in Nat
  /\ sent \subseteq Request
  /\ handler \in [Handler -> [request: Request, now: Nat] \cup {None}]
  /\ reply \in [Handler -> Status \cup {None}]
  /\ nonces \subseteq [nonce: Nonce, expires: Int]
  /\ DOMAIN rows \subseteq Registered /\ rows \in [DOMAIN rows -> Row]
  /\ reader \in [Reader -> [now: Nat, selected: (SUBSET Node) \cup {None}] \cup {None}]
  /\ report \in [Reader -> [now: Nat, nodes: SUBSET Node, total: Nat, truncated: BOOLEAN]
                             \cup {None}]
  /\ accepted \subseteq [request: Request, received: Nat]

\* AcceptedOnce: however often a signed request is delivered, and however its
\* deliveries overlap with the expiry of its nonce, it is stored at most once.
AcceptedOnce ==
  [][\A h \in Handler : reply'[h] = "accepted" /\ reply[h] # "accepted"
       => \A a \in accepted : a.request # handler[h].request]_vars

\* StoresNewest: a source's row is the newest observation ever accepted from it,
\* with the receipt time of a request that carried it, in whatever order the
\* requests arrived and their handlers finished.
AcceptedFrom(s) == {a \in accepted : a.request.source = s}

StoresNewest ==
  \A s \in Source :
    /\ s \in DOMAIN rows <=> AcceptedFrom(s) # {}
    /\ s \in DOMAIN rows =>
         /\ \A a \in AcceptedFrom(s) : a.request.observed <= rows[s].observed
         /\ \E a \in AcceptedFrom(s) : a.request.observed = rows[s].observed
                                       /\ a.received = rows[s].received

\* MutedAtMostTwiceSkew: a row is never dated further ahead of its receipt than
\* the two checks allow together, so a clock that once ran ahead suppresses the
\* later observations of its source for no longer than that.
MutedAtMostTwiceSkew ==
  \A s \in DOMAIN rows : rows[s].observed <= rows[s].received + 2 * Skew

\* LiveMeansRecent: a node published as live had a request accepted within the
\* live window before the read (or during it).
LiveMeansRecent ==
  \A g \in Reader : report[g] # None =>
    \A node \in report[g].nodes : node.connection = "live" =>
      \E a \in AcceptedFrom(node.source) : a.received >= report[g].now - Live

\* UntruncatedIsComplete: a projection that does not say truncated names every
\* source stored when the count was taken, although rows are selected first.
UntruncatedIsComplete ==
  [][\A g \in Reader : report[g] = None /\ report'[g] # None /\ ~report'[g].truncated
       => {node.source : node \in report'[g].nodes} = DOMAIN rows]_vars

\* FreshnessIsLastAccepted: "LIVE last accepted request <= 90 seconds ago": the
\* connection state follows the last request accepted from the source.
FreshnessIsLastAccepted ==
  \A s \in DOMAIN rows : \A a \in AcceptedFrom(s) :
    ConnectionState(a.received, now) = "live" => ConnectionState(rows[s].received, now) = "live"
=============================================================================
