----------------------------- MODULE VersionProbe -----------------------------
(***************************************************************************)
(* version_probe.rs of rigos-xmrig: the executable is started in a process *)
(* group of its own with --version, two threads capture what it prints up  *)
(* to a limit, and the prober polls for its end until a deadline, after    *)
(* which it signals the group and reaps the child.                         *)
(*                                                                         *)
(* The program prints pieces of text; its version is a word of two pieces. *)
(* It may start a helper that stays in the group with a stream open.  A    *)
(* deadline may pass whenever its wait is not over.                        *)
(***************************************************************************)
EXTENDS Naturals

CONSTANTS
  Limit,     \* OUTPUT_LIMIT, in pieces
  Pipe,      \* pieces a pipe holds
  Programs,  \* what the executable may be
  None       \* no value

Streams == {"out", "err"}

\* The reasons for no version, and a version of which a part or all was read.
Result == {"process_identity_collision", "rejected", "probe_timeout", "probe_output_limit",
           "probe_nonzero_exit", "unrecognized_version_output", "part", "whole"}

ASSUME ProbeAssumption ==
  /\ Limit \in Nat /\ Pipe \in Nat \ {0}
  /\ \A p \in Programs :
       /\ p.valid \in BOOLEAN             \* validate: an ELF file, not setuid, executable
       /\ p.prints \in [Streams -> Nat]
       /\ p.version \in Nat               \* its first piece, 0 for no version
       /\ p.holds \subseteq Streams       \* the streams a helper keeps open
  /\ None \notin Programs \cup Nat \cup Result

VARIABLES
  probe,     \* where the prober is
  program,   \* the program started, or None
  leader,    \* the child: "none", "running", "zombie" or "reaped"
  exit,      \* how it ended: "none", "success" or "failure"
  helper,    \* "none", "running" or "gone"
  printed,   \* pieces printed on each stream
  captured,  \* pieces its thread has read
  capture,   \* the thread: "reading" or "sent"
  got,       \* pieces the prober was sent, None before it has received
  signals,   \* the signals sent to the group, and the state of its leader then
  version    \* the result: None, a reason, or the pieces of the word observed

probeVars == <<probe, program, leader, exit, helper, printed, captured, capture, got,
               signals, version>>
groupVars == <<leader, exit, helper, printed>>
captureVars == <<captured, capture>>

ProbeInit ==
  /\ probe = "idle" /\ program = None /\ leader = "none" /\ exit = "none" /\ helper = "none"
  /\ printed = [s \in Streams |-> 0] /\ captured = [s \in Streams |-> 0]
  /\ capture = [s \in Streams |-> "reading"] /\ got = [s \in Streams |-> None]
  /\ signals = {} /\ version = None

----------------------------------------------------------------------------
(* The program.                                                            *)

Printing(s) == leader = "running" \/ (helper = "running" /\ s \in program.holds)

WritePiece(s) ==
  /\ Printing(s) /\ printed[s] < program.prints[s]
  /\ capture[s] = "reading" /\ printed[s] - captured[s] < Pipe
  /\ printed' = [printed EXCEPT ![s] = @ + 1]
  /\ UNCHANGED <<leader, exit, helper>>

StartHelper ==
  /\ leader = "running" /\ helper = "none" /\ program.holds # {}
  /\ helper' = "running"
  /\ UNCHANGED <<leader, exit, printed>>

HelperEnds ==
  /\ helper = "running" /\ helper' = "gone"
  /\ UNCHANGED <<leader, exit, printed>>

\* It ends when it has printed all that anybody reads, or at any time with a
\* failure: by itself, by a signal, or because nobody reads its pipe.
Ends ==
  /\ leader = "running" /\ leader' = "zombie"
  /\ \/ /\ \A s \in Streams : printed[s] = program.prints[s] \/ capture[s] = "sent"
        /\ exit' = "success"
     \/ exit' = "failure"
  /\ UNCHANGED <<helper, printed>>

GroupStep ==
  /\ (\E s \in Streams : WritePiece(s)) \/ StartHelper \/ HelperEnds \/ Ends
  /\ UNCHANGED <<probe, program, captureVars, got, signals, version>>

----------------------------------------------------------------------------
(* The capturing threads: take(OUTPUT_LIMIT + 1) and read_to_end.          *)

Capture(s) ==
  \/ /\ capture[s] = "reading" /\ captured[s] < printed[s] /\ captured[s] <= Limit
     /\ captured' = [captured EXCEPT ![s] = @ + 1]
     /\ UNCHANGED capture
  \/ /\ capture[s] = "reading"
     /\ captured[s] > Limit \/ (captured[s] = printed[s] /\ ~Printing(s))
     /\ capture' = [capture EXCEPT ![s] = "sent"]
     /\ UNCHANGED captured

CaptureStep ==
  /\ program # None /\ \E s \in Streams : Capture(s)
  /\ UNCHANGED <<probe, program, groupVars, got, signals, version>>

----------------------------------------------------------------------------
(* The prober.                                                             *)

Conclude(result) == probe' = "done" /\ version' = result

\* run: validate, spawn; a child with the miner's own identity is not kept.
Spawn ==
  /\ probe = "wanted"
  /\ \E p \in Programs :
       \/ /\ p.valid
          /\ program' = p /\ leader' = "running" /\ probe' = "polling"
          /\ UNCHANGED version
       \/ p.valid /\ leader' = "reaped" /\ Conclude("process_identity_collision") /\ UNCHANGED program
       \/ Conclude("rejected") /\ UNCHANGED <<program, leader>>
  /\ UNCHANGED <<exit, helper, printed, captureVars, got, signals>>

SeeExit ==
  /\ probe = "polling" /\ leader = "zombie"
  /\ leader' = "reaped" /\ probe' = "out"
  /\ UNCHANGED <<program, exit, helper, printed, captureVars, got, signals, version>>

Signal(name) == signals' = signals \cup {[name |-> name, leader |-> leader]}

\* terminate_and_reap, up to its first wait.
Deadline ==
  /\ probe = "polling" /\ probe' = "grace"
  /\ Signal("TERM")
  /\ UNCHANGED <<program, groupVars, captureVars, got, version>>

GraceOver ==
  /\ probe = "grace" /\ probe' = "killed"
  /\ Signal("KILL")
  /\ UNCHANGED <<program, groupVars, captureVars, got, version>>

\* Faulty variant: goes on to the kill whether the wait reaped the child or not.
FaultyReap ==
  /\ probe \in {"grace", "killed"} /\ leader = "zombie"
  /\ leader' = "reaped"
  /\ IF probe = "killed" THEN Conclude("probe_timeout") ELSE UNCHANGED <<probe, version>>
  /\ UNCHANGED <<program, exit, helper, printed, captureVars, got, signals>>

\* Each wait reaps a child that has ended; the last try_wait does not wait.
Reap ==
  /\ probe \in {"grace", "killed"}
  /\ \/ leader = "zombie" /\ leader' = "reaped"
     \/ probe = "killed" /\ leader # "zombie" /\ UNCHANGED leader
  /\ Conclude("probe_timeout")
  /\ UNCHANGED <<program, exit, helper, printed, captureVars, got, signals>>

\* Faulty variant: takes what the thread has read so far.
FaultyReceive ==
  /\ \E s \in Streams :
       /\ probe = s
       /\ got' = [got EXCEPT ![s] = captured[s]]
       /\ probe' = IF s = "out" THEN "err" ELSE "judging"
  /\ UNCHANGED <<program, groupVars, captureVars, signals, version>>

\* recv_timeout: what the thread has sent, or nothing.
Receive ==
  /\ \E s \in Streams :
       /\ probe = s
       /\ got' = [got EXCEPT ![s] = IF capture[s] = "sent" THEN captured[s] ELSE 0]
       /\ probe' = IF s = "out" THEN "err" ELSE "judging"
  /\ UNCHANGED <<program, groupVars, captureVars, signals, version>>

Judge ==
  /\ probe = "judging"
  /\ Conclude(IF got["out"] + got["err"] > Limit THEN "probe_output_limit"
              ELSE IF exit # "success" THEN "probe_nonzero_exit"
              ELSE IF program.version = 0 \/ got["out"] < program.version
              THEN "unrecognized_version_output"
              ELSE IF got["out"] = program.version THEN "part" ELSE "whole")
  /\ UNCHANGED <<program, groupVars, captureVars, got, signals>>

ProberStep == Spawn \/ SeeExit \/ Deadline \/ GraceOver \/ Reap \/ Receive \/ Judge

\* The probe alone, asked for once.
Ask ==
  /\ probe = "idle" /\ probe' = "wanted"
  /\ UNCHANGED <<program, groupVars, captureVars, got, signals, version>>

ProbeNext == GroupStep \/ CaptureStep \/ ProberStep

ProbeSpec == ProbeInit /\ [][Ask \/ ProbeNext]_probeVars

\* The types of the probe's state.
ProbeTypeOK ==
  /\ probe \in {"idle", "wanted", "polling", "grace", "killed", "out", "err", "judging", "done"}
  /\ program \in Programs \cup {None}
  /\ leader \in {"none", "running", "zombie", "reaped"}
  /\ exit \in {"none", "success", "failure"} /\ helper \in {"none", "running", "gone"}
  /\ printed \in [Streams -> Nat] /\ captured \in [Streams -> Nat]
  /\ capture \in [Streams -> {"reading", "sent"}] /\ got \in [Streams -> Nat \cup {None}]
  /\ signals \subseteq [name : {"TERM", "KILL"}, leader : {"none", "running", "zombie", "reaped"}]
  /\ version \in Result \cup {None}

----------------------------------------------------------------------------
Observed == version \in {"part", "whole"}

\* A version is reported only from a program that ended well, when everything
\* it printed was read and nobody can print more: never from the beginning of a
\* longer output, of a helper's or of one cut at the limit (recv_timeout and
\* take(OUTPUT_LIMIT + 1) may both end the reading early).
VersionIsWhole ==
  Observed =>
    /\ exit = "success" /\ leader = "reaped"
    /\ got["out"] = printed["out"] /\ printed["out"] <= Limit
    /\ ~Printing("out")

\* The group is signalled only while its leader is not reaped, for until then
\* its number belongs to nobody else, and killed only after it was asked to end
\* ("Timeout sends SIGTERM to that verified group, escalates to SIGKILL").
SignalsReachTheProbeOnly ==
  /\ \A s \in signals : s.leader \in {"running", "zombie"}
  /\ (\E s \in signals : s.name = "KILL") => \E s \in signals : s.name = "TERM"
=============================================================================
