-------------------------- MODULE Inspector_proofs --------------------------
(***************************************************************************)
(* Proofs about the version probe and the inspector that uses it, for      *)
(* every program, every pipe and output limit, every answer of the API and *)
(* every resolution of localhost.                                          *)
(***************************************************************************)
EXTENDS Inspector, Integers, TLAPS

LEMMA NoneIsNoValue == None \notin Programs /\ None \notin Nat /\ None \notin Result
  BY ProbeAssumption

USE DEF probeVars, groupVars, captureVars

----------------------------------------------------------------------------
(* Types.                                                                  *)

LEMMA ProbeTypesKept == ProbeTypeOK /\ [Ask \/ ProbeNext]_probeVars => ProbeTypeOK'
<1> SUFFICES ASSUME ProbeTypeOK, Ask \/ ProbeNext
             PROVE  ProbeTypeOK'
  BY DEF ProbeTypeOK
<1> USE DEF ProbeTypeOK
<1>1. CASE Ask
  BY <1>1 DEF Ask
<1>2. CASE GroupStep
  <2>1. ASSUME NEW s \in Streams, WritePiece(s)  PROVE ProbeTypeOK'
    BY <1>2, <2>1 DEF GroupStep, WritePiece
  <2> QED BY <1>2, <2>1 DEF GroupStep, StartHelper, HelperEnds, Ends
<1>3. CASE CaptureStep
  BY <1>3 DEF CaptureStep, Capture
<1>4. CASE Spawn
  BY <1>4 DEF Spawn, Conclude, Result
<1>5. CASE SeeExit
  BY <1>5 DEF SeeExit
<1>6. CASE Deadline \/ GraceOver
  BY <1>6 DEF Deadline, GraceOver, Signal
<1>7. CASE Reap
  BY <1>7 DEF Reap, Conclude, Result
<1>8. CASE Receive
  BY <1>8 DEF Receive, Streams
<1>9. CASE Judge
  BY <1>9 DEF Judge, Conclude, Result
<1> QED BY <1>1, <1>2, <1>3, <1>4, <1>5, <1>6, <1>7, <1>8, <1>9 DEF ProbeNext, ProberStep

\* Type correctness of the probe.
THEOREM ProbeTypeCorrect == ProbeSpec => []ProbeTypeOK
<1>1. ProbeInit => ProbeTypeOK
  BY DEF ProbeInit, ProbeTypeOK
<1> QED BY <1>1, ProbeTypesKept, PTL DEF ProbeSpec

----------------------------------------------------------------------------
(* Signals.  The prober is in terminate_and_reap only with a child that it *)
(* has not reaped, and past the first wait it has sent the first signal.   *)

SignalsInv ==
  /\ probe \in {"idle", "wanted"} => leader = "none"
  /\ probe \in {"polling", "grace", "killed"} => leader \in {"running", "zombie"}
  /\ probe = "grace" => \E s \in signals : s.name = "TERM"
  /\ SignalsReachTheProbeOnly

LEMMA SignalsKept == SignalsInv /\ [Ask \/ ProbeNext]_probeVars => SignalsInv'
<1> SUFFICES ASSUME SignalsInv, Ask \/ ProbeNext
             PROVE  SignalsInv'
  BY DEF SignalsInv, SignalsReachTheProbeOnly
<1> USE DEF SignalsInv, SignalsReachTheProbeOnly
<1>1. CASE Ask
  BY <1>1 DEF Ask
<1>2. CASE GroupStep
  BY <1>2 DEF GroupStep, WritePiece, StartHelper, HelperEnds, Ends
<1>3. CASE CaptureStep
  BY <1>3 DEF CaptureStep
<1>4. CASE Spawn
  BY <1>4 DEF Spawn, Conclude
<1>5. CASE SeeExit
  BY <1>5 DEF SeeExit
<1>6. CASE Deadline
  <2>1. [name |-> "TERM", leader |-> leader] \in signals'
    BY <1>6 DEF Deadline, Signal
  <2>2. \E s \in signals' : s.name = "TERM"
    BY <2>1
  <2> QED BY <1>6, <2>2 DEF Deadline, Signal
<1>7. CASE GraceOver
  BY <1>7 DEF GraceOver, Signal
<1>8. CASE Reap \/ Receive \/ Judge
  BY <1>8 DEF Reap, Receive, Judge, Conclude, Streams
<1> QED BY <1>1, <1>2, <1>3, <1>4, <1>5, <1>6, <1>7, <1>8 DEF ProbeNext, ProberStep

\* SignalsReachTheProbeOnly: no signal is sent to the group once its leader is
\* reaped, and none to kill it before one to end it, for every program.
THEOREM SignalsReachOnlyTheProbe == ProbeSpec => []SignalsReachTheProbeOnly
<1>1. ProbeInit => SignalsInv
  BY DEF ProbeInit, SignalsInv, SignalsReachTheProbeOnly
<1>2. SignalsInv => SignalsReachTheProbeOnly
  BY DEF SignalsInv
<1> QED BY <1>1, <1>2, SignalsKept, PTL DEF ProbeSpec

----------------------------------------------------------------------------
(* The version.  A thread that has sent what it read has either read more  *)
(* than the limit, which no version survives, or has seen the end of a     *)
(* stream that nobody can write to any more.                               *)

Drained(s) == program # None /\ captured[s] = printed[s] /\ ~Printing(s)

Faithful(s) ==
  /\ captured[s] <= printed[s]
  /\ capture[s] = "sent" => captured[s] > Limit \/ Drained(s)
  /\ got[s] \in Nat => got[s] = 0 \/ (capture[s] = "sent" /\ got[s] = captured[s])

Progress ==
  /\ program # None => leader # "none"
  /\ probe \in {"idle", "wanted"} => program = None
  /\ probe \in {"polling", "grace", "killed", "out", "err", "judging"} => program # None
  /\ probe \in {"out", "err", "judging"} => leader = "reaped"
  /\ probe \in {"err", "judging"} => got["out"] \in Nat
  /\ probe = "judging" => got["err"] \in Nat
  /\ probe # "done" => version = None

VersionInv ==
  ProbeTypeOK /\ Progress /\ (\A s \in Streams : Faithful(s)) /\ VersionIsWhole

USE DEF Streams

\* Once nobody can write to a stream, nobody ever can again.
LEMMA DrainedStays ==
  ASSUME ProbeTypeOK, Progress, Ask \/ ProbeNext, NEW s \in Streams, Drained(s)
  PROVE  Drained(s)' /\ printed'[s] = printed[s]
<1> USE DEF Drained, Printing, ProbeTypeOK, Progress
<1>1. CASE Ask
  BY <1>1 DEF Ask
<1>2. CASE GroupStep
  BY <1>2 DEF GroupStep, WritePiece, StartHelper, HelperEnds, Ends
<1>3. CASE CaptureStep
  BY <1>3 DEF CaptureStep, Capture
<1>4. CASE ProberStep
  BY <1>4 DEF ProberStep, Spawn, SeeExit, Deadline, GraceOver, Reap, Receive, Judge
<1> QED BY <1>1, <1>2, <1>3, <1>4 DEF ProbeNext

LEMMA ProgressKept ==
  ASSUME ProbeTypeOK, Progress, Ask \/ ProbeNext  PROVE Progress'
<1> USE NoneIsNoValue DEF Progress, ProbeTypeOK
<1>1. CASE Ask
  BY <1>1 DEF Ask
<1>2. CASE GroupStep
  BY <1>2 DEF GroupStep, WritePiece, StartHelper, HelperEnds, Ends
<1>3. CASE CaptureStep
  BY <1>3 DEF CaptureStep
<1>4. CASE Spawn
  BY <1>4 DEF Spawn, Conclude
<1>5. CASE SeeExit \/ Deadline \/ GraceOver \/ Reap
  BY <1>5 DEF SeeExit, Deadline, GraceOver, Reap, Conclude
<1>6. CASE Receive
  BY <1>6 DEF Receive
<1>7. CASE Judge
  BY <1>7 DEF Judge, Conclude
<1> QED BY <1>1, <1>2, <1>3, <1>4, <1>5, <1>6, <1>7 DEF ProbeNext, ProberStep

LEMMA FaithfulKept ==
  ASSUME ProbeTypeOK, Progress, Ask \/ ProbeNext, NEW s \in Streams, Faithful(s)
  PROVE  Faithful(s)'
<1> USE ProbeAssumption DEF Faithful, ProbeTypeOK
<1>1. CASE GroupStep
  <2>1. captured' = captured /\ capture' = capture /\ got' = got /\ captured[s] <= printed'[s]
    BY <1>1 DEF GroupStep, WritePiece, StartHelper, HelperEnds, Ends
  <2> QED BY <1>1, <2>1, DrainedStays DEF ProbeNext
<1>2. CASE CaptureStep
  <2>1. /\ printed' = printed /\ got' = got /\ program # None
        /\ Printing(s)' <=> Printing(s)
    BY <1>2 DEF CaptureStep, Printing
  <2>2. PICK t \in Streams : Capture(t)
    BY <1>2 DEF CaptureStep
  <2>3. CASE captured' = [captured EXCEPT ![t] = @ + 1] /\ capture' = capture /\ capture[t] = "reading"
                /\ captured[t] < printed[t]
    <3>1. CASE s = t
      BY <2>1, <2>3, <3>1
    <3>2. CASE s # t
      BY <1>2, <2>1, <2>3, <3>2 DEF Drained, CaptureStep
    <3> QED BY <3>1, <3>2
  <2>4. CASE capture' = [capture EXCEPT ![t] = "sent"] /\ captured' = captured
                /\ (captured[t] > Limit \/ (captured[t] = printed[t] /\ ~Printing(t)))
    <3>1. CASE s = t
      BY <1>2, <2>1, <2>4, <3>1 DEF Drained, CaptureStep
    <3>2. CASE s # t
      BY <1>2, <2>1, <2>4, <3>2 DEF Drained, CaptureStep
    <3> QED BY <3>1, <3>2
  <2> QED BY <2>2, <2>3, <2>4 DEF Capture
<1>3. CASE Receive
  BY <1>3 DEF Receive, Drained, Printing
<1>4. CASE Ask \/ Spawn \/ SeeExit \/ Deadline \/ GraceOver \/ Reap \/ Judge
  <2>1. printed' = printed /\ captured' = captured /\ capture' = capture /\ got' = got
    BY <1>4 DEF Ask, Spawn, SeeExit, Deadline, GraceOver, Reap, Judge
  <2> QED BY <2>1, DrainedStays
<1> QED BY <1>1, <1>2, <1>3, <1>4 DEF ProbeNext, ProberStep

LEMMA WholeVersionKept ==
  ASSUME VersionInv, Ask \/ ProbeNext  PROVE VersionIsWhole'
<1> USE NoneIsNoValue, ProbeAssumption DEF VersionInv, ProbeTypeOK, VersionIsWhole, Observed
<1>1. CASE Judge
  <2>1. SUFFICES ASSUME Observed'  PROVE VersionIsWhole'
    OBVIOUS
  <2>3. leader = "reaped" /\ program \in Programs /\ got["out"] \in Nat /\ got["err"] \in Nat
    BY <1>1 DEF Judge, Progress
  <2>2. /\ got["out"] + got["err"] <= Limit /\ exit = "success"
        /\ program.version # 0 /\ program.version <= got["out"]
    BY <1>1, <2>1, <2>3 DEF Judge, Conclude
  <2>4. got["out"] > 0 /\ got["out"] <= Limit
    BY <2>2, <2>3
  <2>5. got["out"] = captured["out"] /\ Drained("out")
    BY <2>3, <2>4 DEF Faithful
  <2> QED BY <1>1, <2>2, <2>3, <2>4, <2>5 DEF Judge, Drained, Printing
<1>2. CASE ~Judge
  <2>1. SUFFICES ASSUME Observed'  PROVE VersionIsWhole'
    OBVIOUS
  <2>2. Observed /\ version' = version
    BY <1>2, <2>1 DEF ProbeNext, ProberStep, Ask, GroupStep, CaptureStep, Spawn, SeeExit,
         Deadline, GraceOver, Reap, Receive, Conclude
  <2>3. probe = "done" /\ leader = "reaped"
    BY <2>2 DEF Progress, Result
  <2>4. exit' = exit /\ leader' = leader /\ got' = got
    BY <1>2, <2>3 DEF ProbeNext, ProberStep, Ask, GroupStep, CaptureStep, Spawn, SeeExit,
         Deadline, GraceOver, Reap, Receive, WritePiece, StartHelper, HelperEnds, Ends
  <2>5. printed'["out"] = printed["out"] /\ ~Printing("out")'
    BY <1>2, <2>2, <2>3 DEF Printing, ProbeNext, ProberStep, Ask, GroupStep, CaptureStep, Spawn,
         SeeExit, Deadline, GraceOver, Reap, Receive, WritePiece, StartHelper, HelperEnds, Ends
  <2> QED BY <2>2, <2>4, <2>5
<1> QED BY <1>1, <1>2

\* VersionIsWhole: whatever the executable prints, however its helpers share
\* its streams and wherever the deadline and the limit cut, a version is
\* reported only from the complete output of a program that ended well.
THEOREM VersionStaysWhole == ProbeSpec => []VersionIsWhole
<1>1. ProbeInit => VersionInv
  BY NoneIsNoValue DEF ProbeInit, VersionInv, ProbeTypeOK, Progress, Faithful, VersionIsWhole,
                       Observed, Result
<1>2. VersionInv /\ [Ask \/ ProbeNext]_probeVars => VersionInv'
  <2>1. CASE Ask \/ ProbeNext
    BY <2>1, ProbeTypesKept, ProgressKept, FaithfulKept, WholeVersionKept DEF VersionInv
  <2>2. CASE UNCHANGED probeVars
    BY <2>2 DEF VersionInv, ProbeTypeOK, Progress, Faithful, Drained, Printing, VersionIsWhole,
                Observed
  <2> QED BY <2>1, <2>2
<1>3. VersionInv => VersionIsWhole
  BY DEF VersionInv
<1> QED BY <1>1, <1>2, <1>3, PTL DEF ProbeSpec

----------------------------------------------------------------------------
(* The inspector.                                                          *)

BeforeRequest == {"idle", "process", "cmdline", "executable", "config", "api"}

InspectorInv ==
  /\ InspectorTypeOK
  /\ step \in BeforeRequest => contact = None
  /\ step \in BeforeRequest \cup {"answer", "version"} => probe = "idle"
  /\ http # None => snapshot.config = "valid"
  /\ version \in Result \cup {None}
  /\ TokenStaysLocal

USE DEF inspectorVars, BeforeRequest

LEMMA InspectorInvariant ==
  InspectorInit /\ ProbeInit /\ [][InspectorNext]_<<inspectorVars, probeVars>> => []InspectorInv
<1>1. InspectorInit /\ ProbeInit => InspectorInv
  BY InspectorAssumption DEF InspectorInit, ProbeInit, InspectorInv, InspectorTypeOK, EmptySnapshot,
       ApiState, Known, Table, Snapshot, TokenStaysLocal
<1>2. InspectorInv /\ [InspectorNext]_<<inspectorVars, probeVars>> => InspectorInv'
  <2> SUFFICES ASSUME InspectorInv, InspectorNext  PROVE InspectorInv'
    BY DEF InspectorInv, InspectorTypeOK, TokenStaysLocal
  <2> USE InspectorAssumption DEF InspectorInv, InspectorTypeOK, TokenStaysLocal
  <2>1. CASE Begin \/ ProcessChanges \/ ServerStep
    <3>1. CASE Begin
      BY <3>1 DEF Begin
    <3>2. CASE ProcessChanges
      <4>1. PICK p \in Pids, q \in Processes \cup {None} : table' = [table EXCEPT ![p] = q]
        BY <3>2 DEF ProcessChanges
      <4>2. table' \in Table
        BY <4>1 DEF Table
      <4>3. /\ step' = step /\ pid' = pid /\ known' = known /\ http' = http /\ contact' = contact
            /\ server' = server /\ received' = received /\ snapshot' = snapshot
            /\ probe' = probe /\ version' = version
        BY <3>2 DEF ProcessChanges
      <4>4. (snapshot \in Snapshot /\ received \in 0..(ResponseLimit + 1))'
        BY <4>3
      <4> QED BY <4>2, <4>3, <4>4
    <3>3. CASE ServerStep
      BY <3>3 DEF ServerStep
    <3> QED BY <2>1, <3>1, <3>2, <3>3
  <2>2. CASE FindProcess
    BY <2>2 DEF FindProcess
  <2>3. CASE ReadCommandLine \/ ReadExecutable
    <3>1. CASE ReadCommandLine
      <4>1. known' \in Known
        BY <3>1 DEF ReadCommandLine, Alive, Known, Table
      <4> QED BY <3>1, <4>1 DEF ReadCommandLine
    <3>2. CASE ReadExecutable
      <4>1. PICK answer \in BOOLEAN : known' = [known EXCEPT !.executable = answer]
        BY <3>2 DEF ReadExecutable
      <4>2. known' \in Known
        BY <4>1 DEF Known
      <4> QED BY <3>2, <4>2 DEF ReadExecutable
    <3> QED BY <2>3, <3>1, <3>2
  <2>4. CASE ReadConfig
    BY <2>4 DEF ReadConfig, Snapshot
  <2>5. CASE NoRequest
    <3>1. PICK state \in ApiState : ApiDone(state)
      BY <2>5 DEF NoRequest, ApiState
    <3> QED BY <2>5, <3>1 DEF NoRequest, ApiDone, Snapshot
  <2>6. CASE Request
    <3>1. CASE step' = "version"
      <4>1. PICK state \in ApiState : ApiDone(state)
        BY <2>6, <3>1 DEF Request, ApiState
      <4> QED BY <2>6, <3>1, <4>1 DEF Request, ApiDone, Snapshot
    <3>2. CASE step' # "version"
      <4>1. contact'.address.loopback /\ step' = "answer" /\ snapshot' = snapshot
        BY <2>6, <3>2 DEF Request, Approved, ApiDone
      <4> QED BY <2>6, <4>1 DEF Request
    <3> QED BY <3>1, <3>2
  <2>7. CASE ReadAnswer
    BY <2>7 DEF ReadAnswer
  <2>8. CASE AnswerFails
    BY <2>8 DEF AnswerFails, ApiDone, ApiState, Snapshot
  <2>9. CASE ParseAnswer
    <3>1. PICK state \in ApiState, given \in {None, "api"} :
            snapshot' = [snapshot EXCEPT !.api = state, !.version = given]
      BY <2>9 DEF ParseAnswer, ApiState, Reachable
    <3>2. snapshot' \in Snapshot /\ snapshot'.config = snapshot.config
      BY <3>1 DEF Snapshot
    <3> QED BY <2>9, <3>2 DEF ParseAnswer
  <2>10. CASE StartProbe \/ NoProbe
    BY <2>10 DEF StartProbe, NoProbe
  <2>11. CASE TakeVersion
    BY <2>11 DEF TakeVersion, Snapshot
  <2>12. CASE ReadOwner \/ ReadUptime
    <3>1. snapshot' \in Snapshot /\ snapshot'.config = snapshot.config
      BY <2>12 DEF ReadOwner, ReadUptime, Snapshot
    <3> QED BY <2>12, <3>1 DEF ReadOwner, ReadUptime
  <2>13. CASE step = "probe" /\ ProbeNext /\ UNCHANGED inspectorVars
    <3>1. version' \in Result \cup {None}
      BY <2>13 DEF ProbeNext, ProberStep, GroupStep, CaptureStep, Spawn, SeeExit, Deadline,
           GraceOver, Reap, Receive, Judge, Conclude, Result
    <3> QED BY <2>13, <3>1
  <2> QED BY <2>1, <2>2, <2>3, <2>4, <2>5, <2>6, <2>7, <2>8, <2>9, <2>10, <2>11, <2>12, <2>13
          DEF InspectorNext, InspectorStep
<1> QED BY <1>1, <1>2, PTL

\* Type correctness of the inspector.
THEOREM InspectorTypeCorrect == InspectorSpec => []InspectorTypeOK
<1>1. InspectorInv => InspectorTypeOK
  BY DEF InspectorInv
<1> QED BY <1>1, InspectorInvariant, PTL DEF InspectorSpec

\* TokenStaysLocal: for every configuration and every set of addresses that
\* localhost resolves to, the request and the token in it go to a loopback
\* address, and only when the configuration could be read and says so.
THEOREM TokenNeverLeaves == InspectorSpec => []TokenStaysLocal
<1>1. InspectorInv => TokenStaysLocal
  BY DEF InspectorInv
<1> QED BY <1>1, InspectorInvariant, PTL DEF InspectorSpec

----------------------------------------------------------------------------
(* The probe inside the inspector: asked for at most once.                 *)

\* The inspector implements the specification of the probe: each of its steps
\* is a step of the probe or leaves it alone.
THEOREM ImplementsProbe == InspectorSpec => ProbeSpec
<1>1. InspectorInit /\ ProbeInit => ProbeInit
  OBVIOUS
<1>2. InspectorInv /\ [InspectorNext]_<<inspectorVars, probeVars>> => [Ask \/ ProbeNext]_probeVars
  <2> SUFFICES ASSUME InspectorInv, InspectorNext, probeVars' # probeVars
               PROVE  Ask \/ ProbeNext
    OBVIOUS
  <2> HIDE DEF probeVars
  <2>3. ~(Begin \/ ProcessChanges \/ ServerStep \/ FindProcess \/ ReadCommandLine \/ ReadExecutable
          \/ ReadConfig)
    BY DEF Begin, ProcessChanges, ServerStep, FindProcess, ReadCommandLine, ReadExecutable,
         ReadConfig
  <2>4. ~(NoRequest \/ Request \/ ReadAnswer \/ AnswerFails \/ ParseAnswer)
    <3>1. ~NoRequest
      BY DEF NoRequest, Approved
    <3>2. ~Request
      BY DEF Request, Approved, ApiDone
    <3>3. ~ReadAnswer /\ ~AnswerFails
      BY DEF ReadAnswer, AnswerFails
    <3>4. ~ParseAnswer
      BY DEF ParseAnswer
    <3> QED BY <3>1, <3>2, <3>3, <3>4
  <2>5. ~(NoProbe \/ TakeVersion \/ ReadOwner \/ ReadUptime)
    BY DEF NoProbe, TakeVersion, ReadOwner, ReadUptime
  <2>1. StartProbe \/ ProbeNext
    BY <2>3, <2>4, <2>5 DEF InspectorNext, InspectorStep
  <2> USE DEF probeVars
  <2>2. StartProbe => Ask
    BY DEF StartProbe, Ask, InspectorInv
  <2> QED BY <2>1, <2>2
<1> QED BY <1>1, <1>2, InspectorInvariant, PTL DEF InspectorSpec, ProbeSpec

\* VersionIsWhole of a version the inspector reports, from ImplementsProbe.
THEOREM InspectedVersionIsWhole == InspectorSpec => []VersionIsWhole
  BY ImplementsProbe, VersionStaysWhole, PTL

\* SignalsReachTheProbeOnly of an inspection, from ImplementsProbe.
THEOREM InspectionSignalsItsProbe == InspectorSpec => []SignalsReachTheProbeOnly
  BY ImplementsProbe, SignalsReachOnlyTheProbe, PTL
----------------------------------------------------------------------------
(* How long an inspection takes: what is left of it is counted in the      *)
(* inspector's own steps, the prober's included.  Reading the answer is    *)
(* the only loop, and it goes round once for each piece up to the limit.   *)

ProbeLeft ==
  CASE probe = "idle" -> 8 [] probe = "wanted" -> 7 [] probe = "polling" -> 6
    [] probe = "grace" -> 5 [] probe = "killed" -> 4 [] probe = "out" -> 3
    [] probe = "err" -> 2 [] probe = "judging" -> 1 [] OTHER -> 0

AnswerLeft == ResponseLimit + 1 - received

StepsLeft ==
  CASE step = "idle" -> 20 + AnswerLeft [] step = "process" -> 19 + AnswerLeft
    [] step = "cmdline" -> 18 + AnswerLeft [] step = "executable" -> 17 + AnswerLeft
    [] step = "config" -> 16 + AnswerLeft [] step = "api" -> 15 + AnswerLeft
    [] step = "answer" -> 13 + AnswerLeft [] step = "version" -> 12
    [] step = "probe" -> 3 + ProbeLeft [] step = "owner" -> 2 [] step = "uptime" -> 1
    [] OTHER -> 0

OwnStep == InspectorStep \/ (step = "probe" /\ ProberStep /\ UNCHANGED inspectorVars)

\* Each of the inspector's own steps brings its end nearer, and nobody else's
\* step moves it away: not a server that drips its answer, a program that goes
\* on printing, a helper that stays, or a process that ends and comes back.
BringsTheEndNearer == StepsLeft' <= StepsLeft /\ (OwnStep => StepsLeft' < StepsLeft)

LEMMA ProberAdvances == ASSUME ProberStep  PROVE ProbeLeft' < ProbeLeft
  BY DEF ProberStep, Spawn, SeeExit, Deadline, GraceOver, Reap, Receive, Judge, Conclude, ProbeLeft

LEMMA InspectorAdvances ==
  ASSUME InspectorInv, InspectorStep  PROVE StepsLeft' < StepsLeft
<1>1. received \in 0..(ResponseLimit + 1) /\ ResponseLimit \in Nat
  BY InspectorAssumption DEF InspectorInv, InspectorTypeOK
<1>2. AnswerLeft \in Nat
  BY <1>1 DEF AnswerLeft
<1>3. ASSUME received' = received  PROVE AnswerLeft' = AnswerLeft
  BY <1>3 DEF AnswerLeft
<1>4. CASE FindProcess \/ ReadCommandLine \/ ReadExecutable \/ ReadConfig
  <2>1. received' = received
    BY <1>4 DEF FindProcess, ReadCommandLine, ReadExecutable, ReadConfig
  <2>2. \/ step = "process" /\ step' = "cmdline"
        \/ step = "cmdline" /\ step' = "executable"
        \/ step = "executable" /\ step' = "config"
        \/ step = "config" /\ step' = "api"
    BY <1>4 DEF FindProcess, ReadCommandLine, ReadExecutable, ReadConfig
  <2> QED BY <1>2, <1>3, <2>1, <2>2 DEF StepsLeft
<1>5. CASE NoRequest \/ Request
  <2>1. step = "api" /\ step' \in {"answer", "version"} /\ received' = received
    BY <1>5 DEF NoRequest, Request, ApiDone
  <2> QED BY <1>2, <1>3, <2>1 DEF StepsLeft
<1>6. CASE ReadAnswer
  <2>1. step = "answer" /\ step' = "answer" /\ received' = received + 1
    BY <1>6 DEF ReadAnswer
  <2>2. AnswerLeft' < AnswerLeft
    BY <1>1, <2>1 DEF AnswerLeft
  <2> QED BY <1>1, <2>1, <2>2 DEF StepsLeft, AnswerLeft
<1>7. CASE AnswerFails \/ ParseAnswer
  <2>1. step = "answer" /\ step' = "version"
    BY <1>7 DEF AnswerFails, ParseAnswer, ApiDone
  <2> QED BY <1>2, <2>1 DEF StepsLeft
<1>8. CASE StartProbe \/ NoProbe \/ TakeVersion \/ ReadOwner \/ ReadUptime
  <2>1. \/ step = "version" /\ step' = "probe" /\ probe' = "wanted"
        \/ step = "version" /\ step' = "owner"
        \/ step = "probe" /\ step' = "owner" /\ probe = "done"
        \/ step = "owner" /\ step' = "uptime"
        \/ step = "uptime" /\ step' = "done"
    BY <1>8 DEF StartProbe, NoProbe, TakeVersion, ReadOwner, ReadUptime
  <2> QED BY <2>1 DEF StepsLeft, ProbeLeft
<1> QED BY <1>4, <1>5, <1>6, <1>7, <1>8 DEF InspectorStep

LEMMA ThreeMore ==
  ASSUME NEW m \in Nat, NEW n \in Nat, NEW s, NEW t, s = 3 + m, t = 3 + n, n < m
  PROVE  t < s /\ t <= s
  OBVIOUS

LEMMA OthersWait ==
  ASSUME InspectorInv, InspectorNext, ~InspectorStep
  PROVE  BringsTheEndNearer
<1>1. received \in 0..(ResponseLimit + 1) /\ ResponseLimit \in Nat /\ StepsLeft \in Int
  BY InspectorAssumption DEF InspectorInv, InspectorTypeOK, StepsLeft, ProbeLeft, AnswerLeft
<1>2. CASE Begin
  <2>1. step = "idle" /\ step' = "process" /\ received' = received
    BY <1>2 DEF Begin
  <2> QED BY <1>1, <2>1 DEF StepsLeft, AnswerLeft, BringsTheEndNearer, OwnStep
<1>3. CASE ProcessChanges \/ ServerStep
  <2>1. step' = step /\ received' = received /\ probe' = probe /\ inspectorVars' # inspectorVars
    <3>1. CASE ProcessChanges
      <4>1. PICK p \in Pids, q \in Processes \cup {None} :
              table[p] # q /\ table' = [table EXCEPT ![p] = q]
        BY <3>1 DEF ProcessChanges
      <4>2. table' # table
        BY <4>1 DEF InspectorInv, InspectorTypeOK, Table
      <4> QED BY <3>1, <4>2 DEF ProcessChanges
    <3>2. CASE ServerStep
      BY <3>2 DEF ServerStep
    <3> QED BY <1>3, <3>1, <3>2
  <2>2. StepsLeft' = StepsLeft
    BY <2>1 DEF StepsLeft, ProbeLeft, AnswerLeft
  <2> QED BY <1>1, <2>1, <2>2 DEF BringsTheEndNearer, OwnStep
<1>4. CASE step = "probe" /\ ProbeNext /\ UNCHANGED inspectorVars
  <2>1. step' = "probe" /\ StepsLeft = 3 + ProbeLeft /\ StepsLeft' = 3 + ProbeLeft'
    BY <1>4 DEF StepsLeft
  <2>2. ProbeLeft \in Nat /\ ProbeLeft' \in Nat
    BY DEF ProbeLeft
  <2>3. CASE ProberStep
    <3>1. ProbeLeft' < ProbeLeft
      BY <2>3, ProberAdvances
    <3>2. StepsLeft' < StepsLeft /\ StepsLeft' <= StepsLeft
      BY <2>1, <2>2, <3>1, ThreeMore
    <3> QED BY <3>2 DEF BringsTheEndNearer
  <2>4. CASE ~ProberStep
    <3>1. probe' = probe
      BY <1>4, <2>4 DEF ProbeNext, GroupStep, CaptureStep
    <3>2. ProbeLeft' = ProbeLeft
      BY <3>1 DEF ProbeLeft
    <3> QED BY <2>1, <2>2, <2>4, <3>2 DEF BringsTheEndNearer, OwnStep
  <2> QED BY <2>3, <2>4
<1> QED BY <1>2, <1>3, <1>4 DEF InspectorNext

\* An inspection takes at most ResponseLimit + 21 steps of its own, one of them
\* its beginning, for any programs, processes, servers and limits: what remains of
\* InspectionEnds is that the inspector goes on whenever it can.
THEOREM InspectionIsBounded ==
  InspectorSpec =>
    /\ [](StepsLeft \in 0..(ResponseLimit + 21))
    /\ [][BringsTheEndNearer]_<<inspectorVars, probeVars>>
<1>1. InspectorInv => StepsLeft \in 0..(ResponseLimit + 21)
  <2> SUFFICES ASSUME InspectorInv  PROVE StepsLeft \in 0..(ResponseLimit + 21)
    OBVIOUS
  <2>1. received \in 0..(ResponseLimit + 1) /\ ResponseLimit \in Nat
    BY InspectorAssumption DEF InspectorInv, InspectorTypeOK
  <2>2. AnswerLeft \in 0..(ResponseLimit + 1) /\ ProbeLeft \in 0..8
    BY <2>1 DEF AnswerLeft, ProbeLeft
  <2>3. StepsLeft \in Nat
    BY <2>1, <2>2 DEF StepsLeft
  <2>4. StepsLeft <= ResponseLimit + 21
    BY <2>1, <2>2 DEF StepsLeft
  <2> QED BY <2>1, <2>3, <2>4
<1>2. InspectorInv /\ [InspectorNext]_<<inspectorVars, probeVars>>
        => [BringsTheEndNearer]_<<inspectorVars, probeVars>>
  <2> SUFFICES ASSUME InspectorInv, InspectorNext  PROVE BringsTheEndNearer
    OBVIOUS
  <2>1. CASE InspectorStep
    <3>1. StepsLeft' < StepsLeft
      BY <2>1, InspectorAdvances
    <3>2. StepsLeft \in Int /\ StepsLeft' \in Int
      <4>1. received \in Int /\ received' \in Int /\ ResponseLimit \in Nat
        BY <2>1, InspectorAssumption DEF InspectorInv, InspectorTypeOK, InspectorStep, FindProcess,
             ReadCommandLine, ReadExecutable, ReadConfig, NoRequest, Request, ReadAnswer, AnswerFails,
             ParseAnswer, StartProbe, NoProbe, TakeVersion, ReadOwner, ReadUptime
      <4> QED BY <4>1 DEF StepsLeft, ProbeLeft, AnswerLeft
    <3> QED BY <3>1, <3>2 DEF BringsTheEndNearer
  <2>2. CASE ~InspectorStep
    BY <2>2, OthersWait
  <2> QED BY <2>1, <2>2
<1> QED BY <1>1, <1>2, InspectorInvariant, PTL DEF InspectorSpec
=============================================================================
