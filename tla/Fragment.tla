------------------------------- MODULE Fragment -------------------------------
(***************************************************************************)
(* The member fragments of an imported sheet: cpu_config and user_config   *)
(* may be a text of JSON members, with or without commas between them.     *)
(* parse_json_member_fragment (rigos-config) and parse_member_fragment     *)
(* (the entry point's copy) try the text as it stands, then insert the     *)
(* commas that are missing and try again.                                  *)
(*                                                                         *)
(* A text is a sequence of characters told apart as the scanner tells them *)
(* apart: "quote", "escape", "open", "close", "space", and any other; an   *)
(* "ending" is a digit, e or l, which end a number, true, false and null.  *)
(***************************************************************************)
EXTENDS Integers, Sequences, FiniteSets

CONSTANTS
  Writings,     \* what the fragment's author wrote: members, separators, braced
  MemberLists,  \* the lists of members that are strict JSON
  Letter        \* the characters that mean nothing to the scanner

VARIABLES
  written,   \* the writing being read
  text,      \* its characters, without the braces
  index,     \* how many of them are scanned
  depth,     \* brackets open
  quoted,    \* inside a string
  escaped,   \* after a backslash inside a string
  output,    \* the characters put out
  place,     \* where each scanned character stands in output
  outcome    \* "idle", "direct", "scanning", "read", "entry only", "refused"

fragmentVars == <<written, text, index, depth, quoted, escaped, output, place, outcome>>

----------------------------------------------------------------------------
(* Texts and what serde_json reads in them.                                *)

\* A member followed by its separator, over and over.
Joined(members, separators) ==
  LET upTo[n \in 0..Len(members)] ==
        IF n = 0 THEN <<>>
        ELSE upTo[n - 1] \o members[n] \o (IF n < Len(members) THEN separators[n] ELSE <<>>)
  IN  upTo[Len(members)]

Character == {"quote", "escape", "open", "close", "space", "ending", "comma", "colon"} \cup Letter

ASSUME FragmentAssumption ==
  \A w \in Writings : Joined(w.members, w.separators) \in Seq(Character)

JsonText(members) == Joined(members, [i \in DOMAIN members |-> <<"comma">>])

\* Whitespace outside strings means nothing to a JSON parser.
Squeezed(t) ==
  LET parsed[i \in 0..Len(t)] ==
        IF i = 0 THEN [mode |-> "outside", solid |-> <<>>]
        ELSE LET before == parsed[i - 1]
             IN  [mode  |-> IF before.mode = "escaped" THEN "inside"
                            ELSE IF t[i] = "quote"
                            THEN (IF before.mode = "inside" THEN "outside" ELSE "inside")
                            ELSE IF t[i] = "escape" /\ before.mode = "inside" THEN "escaped"
                            ELSE before.mode,
                  solid |-> IF t[i] = "space" /\ before.mode = "outside" THEN before.solid
                            ELSE Append(before.solid, t[i])]
  IN  parsed[Len(t)].solid

StrictTexts == {JsonText(members) : members \in MemberLists}

Strict(t) == Squeezed(t) \in StrictTexts

ReadIn(t) == CHOOSE members \in MemberLists : JsonText(members) = Squeezed(t)

KeyOf(member) == member[2]

\* UniqueObject refuses a member given twice and the empty text is refused
\* before it; the entry point's reader takes the last and reads nothing.
OutcomeOf(t) ==
  IF ~Strict(t) THEN "refused"
  ELSE LET members == ReadIn(t) IN
       IF \/ members = <<>>
          \/ \E i, j \in DOMAIN members : i < j /\ KeyOf(members[i]) = KeyOf(members[j])
       THEN "entry only" ELSE "read"

----------------------------------------------------------------------------
FragmentInit ==
  /\ written = [members |-> <<>>, separators |-> <<>>, braced |-> FALSE]
  /\ text = <<>> /\ index = 0 /\ depth = 0
  /\ quoted = FALSE /\ escaped = FALSE
  /\ output = <<>> /\ place = <<>>
  /\ outcome = "idle"

OpenFragment ==
  /\ outcome = "idle"
  /\ \E w \in Writings :
       /\ written' = w
       /\ text' = Joined(w.members, w.separators)
  /\ outcome' = "direct"
  /\ UNCHANGED <<index, depth, quoted, escaped, output, place>>

\* A text in braces has this one chance: scanned, its members are nested.
ParseDirect ==
  /\ outcome = "direct"
  /\ outcome' = IF Strict(text) THEN OutcomeOf(text)
                ELSE IF written.braced THEN "refused" ELSE "scanning"
  /\ UNCHANGED <<written, text, index, depth, quoted, escaped, output, place>>

Scanning == outcome = "scanning" /\ index < Len(text)
Char == text[index + 1]
Copied == Append(output, Char)

\* The character goes out as it came in.
Copy ==
  /\ output' = Copied
  /\ place' = Append(place, Len(output) + 1)
  /\ index' = index + 1
  /\ UNCHANGED <<written, text, outcome>>

InString ==
  /\ Scanning /\ quoted
  /\ Copy
  /\ escaped' = (~escaped /\ Char = "escape")
  /\ quoted' = (escaped \/ Char # "quote")
  /\ UNCHANGED depth

Quote ==
  /\ Scanning /\ ~quoted /\ Char = "quote"
  /\ Copy
  /\ quoted' = TRUE
  /\ UNCHANGED <<depth, escaped>>

OpenBracket ==
  /\ Scanning /\ ~quoted /\ Char = "open"
  /\ Copy
  /\ depth' = depth + 1
  /\ UNCHANGED <<quoted, escaped>>

\* Faulty variant: subtracts without looking.
FaultyCloseBracket ==
  /\ Scanning /\ ~quoted /\ Char = "close"
  /\ Copy /\ depth' = depth - 1
  /\ UNCHANGED <<quoted, escaped>>

\* checked_sub: a bracket that closes nothing ends the scan.
CloseBracket ==
  /\ Scanning /\ ~quoted /\ Char = "close"
  /\ \/ depth > 0 /\ Copy /\ depth' = depth - 1
     \/ /\ depth = 0 /\ outcome' = "refused"
        /\ UNCHANGED <<written, text, index, depth, output, place>>
  /\ UNCHANGED <<quoted, escaped>>

\* Faulty variant: forgets that a string is a value.
FaultyValueEnded ==
  LET solid == {i \in DOMAIN output : output[i] # "space"}
  IN  \E i \in solid : (\A j \in solid : j <= i) /\ output[i] \in {"close", "ending"}

\* The last character put out that is not whitespace ends a value.
ValueEnded ==
  LET solid == {i \in DOMAIN output : output[i] # "space"}
  IN  \E i \in solid : /\ \A j \in solid : j <= i
                       /\ output[i] \in {"close", "quote", "ending"}

\* Faulty variant: every whitespace after a value gets a comma.
FaultySpace ==
  /\ Scanning /\ ~quoted /\ Char = "space" /\ depth = 0
  /\ output' = IF ValueEnded THEN Append(Copied, "comma") ELSE Copied
  /\ place' = Append(place, Len(output) + 1)
  /\ index' = index + 1
  /\ UNCHANGED <<written, text, depth, quoted, escaped, outcome>>

\* The last whitespace between a value and a quote is followed by a comma.
Space ==
  /\ Scanning /\ ~quoted /\ Char = "space" /\ depth = 0
  /\ output' = IF index + 1 < Len(text) /\ text[index + 2] = "quote" /\ ValueEnded
               THEN Append(Copied, "comma") ELSE Copied
  /\ place' = Append(place, Len(output) + 1)
  /\ index' = index + 1
  /\ UNCHANGED <<written, text, depth, quoted, escaped, outcome>>

OtherChar ==
  /\ Scanning /\ ~quoted
  /\ Char \notin {"quote", "open", "close"} /\ ~(Char = "space" /\ depth = 0)
  /\ Copy
  /\ UNCHANGED <<depth, quoted, escaped>>

\* An open string or bracket is refused, the rest is parsed again.
FinishScan ==
  /\ outcome = "scanning" /\ index = Len(text)
  /\ outcome' = IF quoted \/ depth # 0 THEN "refused" ELSE OutcomeOf(output)
  /\ UNCHANGED <<written, text, index, depth, quoted, escaped, output, place>>

FragmentNext ==
  \/ OpenFragment \/ ParseDirect \/ InString \/ Quote \/ OpenBracket \/ CloseBracket
  \/ Space \/ OtherChar \/ FinishScan

FragmentSpec == FragmentInit /\ [][FragmentNext]_fragmentVars

\* The types of the scanner's state.
FragmentTypeOK ==
  /\ text \in Seq(Character) /\ output \in Seq(Character) /\ place \in Seq(Nat)
  /\ index \in 0..Len(text) /\ depth \in Nat
  /\ quoted \in BOOLEAN /\ escaped \in BOOLEAN
  /\ Len(place) = index
  /\ outcome \in {"idle", "direct", "scanning", "read", "entry only", "refused"}

----------------------------------------------------------------------------
\* Every character scanned is put out, ...
EachPutOut == \A i \in DOMAIN place : place[i] \in DOMAIN output /\ output[place[i]] = text[i]

\* ... once and in order, ...
InOrder == \A i, j \in DOMAIN place : i < j => place[i] < place[j]

\* ... and a comma only after whitespace and before the quote of a next member.
AddedComma(p) ==
  /\ output[p] = "comma"
  /\ \E i \in DOMAIN place :
       place[i] = p - 1 /\ text[i] = "space" /\ i + 1 \in DOMAIN text /\ text[i + 1] = "quote"

\* Inserting commas adds commas and nothing else: what is parsed the second time
\* is the text with separators at most (insert_top_level_member_commas and its
\* copy insert_member_commas work on bytes, not on JSON).
OnlyCommasAdded ==
  /\ EachPutOut /\ InOrder
  /\ \A p \in DOMAIN output : AddedComma(p) \/ \E i \in DOMAIN place : place[i] = p

Count(c, s) == Cardinality({i \in DOMAIN s : s[i] = c})

\* One comma, or whitespace and no comma, between two members; in braces a comma.
Separates(separator) ==
  IF written.braced THEN Count("comma", separator) = 1
  ELSE Count("comma", separator) = 1 \/ (separator # <<>> /\ Count("comma", separator) = 0)

Repeated(members) ==
  \E i, j \in DOMAIN members : i < j /\ KeyOf(members[i]) = KeyOf(members[j])

\* A fragment means the members its author wrote, however they are separated,
\* and is refused when one of them is not JSON or two are not separated: no
\* comma is missed, none is put inside a string or a nested value, and no text
\* is read as something else (the callers of both readers trust the result).
ReadsWhatIsWritten ==
  outcome \in {"read", "entry only", "refused"} =>
    LET members == written.members
        sound == /\ members \in MemberLists
                 /\ \A i \in 1..(Len(members) - 1) : Separates(written.separators[i])
    IN  /\ outcome = "refused" <=> ~sound
        /\ outcome = "read" <=> sound /\ members # <<>> /\ ~Repeated(members)
        /\ outcome # "refused" => ReadIn(IF index = 0 THEN text ELSE output) = members
=============================================================================
