------------------------------ MODULE RigProfile ------------------------------
(***************************************************************************)
(* parse_rig_profile of rigos-config: rig.conf is read line by line into a *)
(* table, then the fields are taken from the table in a fixed order, and   *)
(* the first thing wrong decides the diagnostic.                           *)
(*                                                                         *)
(* A line is a record: form is "skipped" (blank or a comment), "syntax"    *)
(* (shell expansion, no equals sign, a bad key or a spaced value) or       *)
(* "pair".  What the validators of names accept is a CONSTANT.             *)
(***************************************************************************)
EXTENDS Integers, Sequences

CONSTANTS
  Files,        \* what rig.conf may contain
  NodeName,     \* valid_slug(_, 63)
  SheetName,    \* valid_slug(_, 64)
  ImportName,   \* safe_json_basename
  TimeZone,     \* valid_timezone_name
  Value,        \* every word a line may carry
  Unset         \* no value

Supported == {"RIGOS_CONFIG_VERSION", "NODE_NAME", "TIMEZONE", "FLIGHT_SOURCE",
              "FLIGHT_REF", "MINER_START_MODE"}
Reserved == {"WATCHDOG_ENABLED", "AUTO_START", "ACTIVE_FLIGHT_SHEET", "IMPORT_FLIGHT_SHEET"}

\* The order in which the fields are taken from the table.
FieldOrder == <<"RIGOS_CONFIG_VERSION", "NODE_NAME", "TIMEZONE", "FLIGHT_SOURCE",
                "FLIGHT_REF", "MINER_START_MODE">>

Line == [form : {"skipped", "syntax", "pair"}, key : STRING, value : Value]

ASSUME FilesAssumption ==
  /\ \A f \in Files : f.state \in {"text", "too large", "not UTF-8"} /\ f.lines \in Seq(Line)
  /\ Unset \notin Value

VARIABLES
  file,     \* the file being read; state "none" before
  line,     \* how many of its lines are read
  values,   \* key |-> its value and the line it stands on
  profile,  \* the RigProfile, or Unset
  fault     \* the diagnostic; code "none" while there is none

profileVars == <<file, line, values, profile, fault>>

FileFaults == {"RIGOS_CONFIG_FILE_TOO_LARGE", "RIGOS_CONFIG_INVALID_UTF8"}
FieldFaults == {"RIGOS_CONFIG_INVALID_VALUE", "RIGOS_CONFIG_VERSION_UNSUPPORTED"}
LineFaults == {"RIGOS_CONFIG_SYNTAX", "RIGOS_CONFIG_UNSUPPORTED_KEY", "RIGOS_CONFIG_UNKNOWN_KEY",
               "RIGOS_CONFIG_DUPLICATE_KEY"}

NoFault == [code |-> "none", line |-> 0, key |-> "none"]

ProfileInit ==
  /\ file = [state |-> "none", lines |-> <<>>]
  /\ line = 0
  /\ values = [k \in {} |-> Unset]
  /\ profile = Unset
  /\ fault = NoFault

OpenFile ==
  /\ file.state = "none"
  /\ \E f \in Files : file' = f
  /\ UNCHANGED <<line, values, profile, fault>>

Reading == profile = Unset /\ fault = NoFault

\* More than 64 KiB, or not UTF-8.
RefuseFile ==
  /\ Reading /\ file.state \in {"too large", "not UTF-8"}
  /\ fault' = [NoFault EXCEPT !.code = IF file.state = "too large" THEN "RIGOS_CONFIG_FILE_TOO_LARGE"
                                       ELSE "RIGOS_CONFIG_INVALID_UTF8"]
  /\ UNCHANGED <<file, line, values, profile>>

NextLine == file.lines[line + 1]

ReadingLines == Reading /\ file.state = "text" /\ line < Len(file.lines)

SkipLine ==
  /\ ReadingLines /\ NextLine.form = "skipped"
  /\ line' = line + 1
  /\ UNCHANGED <<file, values, profile, fault>>

\* Faulty variant: the insertion of a key again is not noticed.
FaultyLineFault(l) ==
  CASE l.form = "syntax" -> "RIGOS_CONFIG_SYNTAX"
    [] l.form = "pair" /\ l.key \in Reserved -> "RIGOS_CONFIG_UNSUPPORTED_KEY"
    [] l.form = "pair" /\ l.key \notin Reserved \cup Supported -> "RIGOS_CONFIG_UNKNOWN_KEY"
    [] OTHER -> "none"

LineFault(l) ==
  CASE l.form = "syntax" -> "RIGOS_CONFIG_SYNTAX"
    [] l.form = "pair" /\ l.key \in Reserved -> "RIGOS_CONFIG_UNSUPPORTED_KEY"
    [] l.form = "pair" /\ l.key \notin Reserved \cup Supported -> "RIGOS_CONFIG_UNKNOWN_KEY"
    [] l.form = "pair" /\ l.key \in Supported /\ l.key \in DOMAIN values -> "RIGOS_CONFIG_DUPLICATE_KEY"
    [] OTHER -> "none"

RefuseLine ==
  /\ ReadingLines /\ LineFault(NextLine) # "none"
  /\ fault' = [code |-> LineFault(NextLine), line |-> line + 1, key |-> NextLine.key]
  /\ UNCHANGED <<file, line, values, profile>>

RecordLine ==
  /\ ReadingLines /\ NextLine.form = "pair" /\ LineFault(NextLine) = "none"
  /\ values' = [k \in DOMAIN values \cup {NextLine.key} |->
                  IF k = NextLine.key THEN [value |-> NextLine.value, line |-> line + 1] ELSE values[k]]
  /\ line' = line + 1
  /\ UNCHANGED <<file, profile, fault>>

----------------------------------------------------------------------------
(* The fields, once every line is read.                                    *)

WellFormed(k, v, source) ==
  /\ k = "RIGOS_CONFIG_VERSION" => v = "1"
  /\ k = "NODE_NAME" => v \in NodeName
  /\ k = "TIMEZONE" => v \in TimeZone
  /\ k = "FLIGHT_SOURCE" => v \in {"native", "import", "interactive"}
  /\ k = "FLIGHT_REF" => v \in IF source = "native" THEN SheetName ELSE ImportName
  /\ k = "MINER_START_MODE" => v \in {"manual", "on_boot"}

Given(k) == k \in DOMAIN values
ValueOf(k) == IF Given(k) THEN values[k].value ELSE Unset
LineOf(k) == IF Given(k) THEN values[k].line ELSE 0

\* An interactive source forbids the reference, the others require it.
FieldSound(k) ==
  IF k = "FLIGHT_REF" /\ ValueOf("FLIGHT_SOURCE") = "interactive" THEN ~Given(k)
  ELSE Given(k) /\ WellFormed(k, ValueOf(k), ValueOf("FLIGHT_SOURCE"))

FieldCode(k) ==
  IF k = "RIGOS_CONFIG_VERSION" /\ Given(k) THEN "RIGOS_CONFIG_VERSION_UNSUPPORTED"
  ELSE "RIGOS_CONFIG_INVALID_VALUE"

LinesDone == Reading /\ file.state = "text" /\ line = Len(file.lines)

RefuseField ==
  /\ LinesDone
  /\ \E i \in DOMAIN FieldOrder :
       /\ ~FieldSound(FieldOrder[i])
       /\ \A j \in 1..(i - 1) : FieldSound(FieldOrder[j])
       /\ fault' = [code |-> FieldCode(FieldOrder[i]), line |-> LineOf(FieldOrder[i]),
                    key |-> FieldOrder[i]]
  /\ UNCHANGED <<file, line, values, profile>>

AcceptProfile ==
  /\ LinesDone
  /\ \A k \in Supported : FieldSound(k)
  /\ profile' = [k \in Supported |-> ValueOf(k)]
  /\ UNCHANGED <<file, line, values, fault>>

ProfileNext ==
  \/ OpenFile \/ RefuseFile \/ SkipLine \/ RefuseLine \/ RecordLine
  \/ RefuseField \/ AcceptProfile

ProfileSpec == ProfileInit /\ [][ProfileNext]_profileVars

\* The types of the reader's state.
ProfileTypeOK ==
  /\ file.lines \in Seq(Line)
  /\ line \in 0..Len(file.lines)
  /\ DOMAIN values \subseteq Supported
  /\ \A k \in DOMAIN values : values[k] \in [value : Value, line : 1..line]
  /\ fault.line \in 0..Len(file.lines)
  /\ fault.code \in FileFaults \cup LineFaults \cup FieldFaults \cup {"none"}

----------------------------------------------------------------------------
(* What the file says, without the reader.                                 *)

Standing(k) == {i \in DOMAIN file.lines : file.lines[i].form = "pair" /\ file.lines[i].key = k}

Offends(i) ==
  \/ file.lines[i].form = "syntax"
  \/ /\ file.lines[i].form = "pair"
     /\ \/ file.lines[i].key \notin Supported
        \/ \E j \in 1..(i - 1) : j \in Standing(file.lines[i].key)

\* A refused line is the first one that offends.
FirstOffence ==
  fault.code \in LineFaults =>
    /\ fault.line \in DOMAIN file.lines /\ Offends(fault.line)
    /\ \A i \in 1..(fault.line - 1) : ~Offends(i)

\* A refused field is one the file does not give, or the line it is given on.
FieldOffence ==
  fault.code \in FieldFaults =>
    /\ \A i \in DOMAIN file.lines : ~Offends(i)
    /\ IF fault.line = 0 THEN Standing(fault.key) = {} ELSE Standing(fault.key) = {fault.line}

\* A profile says what the only line with each key says.
ProfileAsWritten ==
  profile # Unset =>
    /\ \A i \in DOMAIN file.lines : ~Offends(i)
    /\ \A k \in Supported :
         \/ /\ k = "FLIGHT_REF" /\ profile["FLIGHT_SOURCE"] = "interactive"
            /\ Standing(k) = {} /\ profile[k] = Unset
         \/ \E i \in DOMAIN file.lines :
              /\ Standing(k) = {i}
              /\ profile[k] = file.lines[i].value
              /\ WellFormed(k, profile[k], profile["FLIGHT_SOURCE"])

\* rig.conf is read for what it says: a profile is accepted only from a file
\* no line of which offends, each field well-formed and from the only line that
\* gives it; a refused line is the first that offends; and a refused field is
\* reported only where no line offends, and at the line it stands on, if any
\* (parse_rig_profile, and the line numbers its diagnostics carry).
ReadFaithfully == FirstOffence /\ FieldOffence /\ ProfileAsWritten
=============================================================================
