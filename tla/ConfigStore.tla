----------------------------- MODULE ConfigStore -----------------------------
(***************************************************************************)
(* What the configuration transaction promises: a register holding one     *)
(* committed revision.  A client submits a revision and is told whether it *)
(* was applied; it was applied exactly when the register changed, to the   *)
(* revision submitted.  The register is write-back: a crash may undo the   *)
(* commits of the last few seconds, all of them from some point on, and    *)
(* never exposes anything but a revision that was once committed.          *)
(***************************************************************************)
CONSTANTS Client, Revision, None

VARIABLES
  committed,  \* the revision in force, None before the first commit
  durable,    \* the one a power cut would fall back to
  request,    \* request[c]: what client c asked for, None when c is idle
  reply       \* reply[c]: what client c was last told on this boot

vars == <<committed, durable, request, reply>>

Idle == [c \in Client |-> None]

Init ==
  /\ committed = None
  /\ durable = None
  /\ request = Idle
  /\ reply = Idle

Answer(c, result) ==
  /\ request' = [request EXCEPT ![c] = None]
  /\ reply' = [reply EXCEPT ![c] = result]

Submit(c, r) ==
  /\ request[c] = None
  /\ r # committed
  /\ request' = [request EXCEPT ![c] = r]
  /\ reply' = [reply EXCEPT ![c] = None]
  /\ UNCHANGED <<committed, durable>>

Apply(c) ==
  /\ request[c] # None
  /\ committed' = request[c]
  /\ Answer(c, "applied")
  /\ UNCHANGED durable

\* Nothing changed; also the answer to a client that is refused at once.
Fail(c) ==
  /\ Answer(c, "failed")
  /\ UNCHANGED <<committed, durable>>

Persist ==
  /\ durable' = committed
  /\ UNCHANGED <<committed, request, reply>>

Crash ==
  /\ committed' = durable
  /\ request' = Idle
  /\ reply' = Idle
  /\ UNCHANGED durable

Next ==
  \/ \E c \in Client :
       \/ \E r \in Revision : Submit(c, r)
       \/ Apply(c)
       \/ Fail(c)
  \/ Persist
  \/ Crash

Spec == Init /\ [][Next]_vars
=============================================================================
