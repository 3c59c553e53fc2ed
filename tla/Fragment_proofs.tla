--------------------------- MODULE Fragment_proofs ---------------------------
(***************************************************************************)
(* Proofs about Fragment: what the scanner does to a text, for every text, *)
(* well formed or not.                                                     *)
(***************************************************************************)
EXTENDS Fragment, TLAPS

FragmentInv ==
  /\ FragmentTypeOK
  /\ outcome = "idle" => index = 0 /\ output = <<>> /\ place = <<>>
  /\ OnlyCommasAdded

USE DEF fragmentVars

LEMMA Appending ==
  ASSUME NEW S, NEW s \in Seq(S), NEW e \in S
  PROVE  /\ Append(s, e) \in Seq(S) /\ Len(Append(s, e)) = Len(s) + 1
         /\ DOMAIN Append(s, e) = 1..(Len(s) + 1) /\ Len(s) \in Nat
         /\ Append(s, e)[Len(s) + 1] = e
         /\ \A i \in 1..Len(s) : Append(s, e)[i] = s[i]
  OBVIOUS

\* One character goes out, with or without a comma after it.
Growing(n, m) ==
  /\ index \in Nat /\ n \in Nat /\ m \in {n + 1, n + 2} /\ text' = text
  /\ DOMAIN output = 1..n /\ DOMAIN output' = 1..m
  /\ DOMAIN place = 1..index /\ DOMAIN place' = 1..(index + 1)
  /\ place'[index + 1] = n + 1 /\ \A i \in 1..index : place'[i] = place[i]
  /\ output'[n + 1] = text[index + 1] /\ \A p \in 1..n : output'[p] = output[p]
  /\ m = n + 2 =>
       /\ output'[n + 2] = "comma" /\ text[index + 1] = "space"
       /\ index + 2 \in DOMAIN text /\ text[index + 2] = "quote"

LEMMA GrowingKeeps ==
  ASSUME OnlyCommasAdded, NEW n, NEW m, Growing(n, m)  PROVE OnlyCommasAdded'
<1>1. EachPutOut'
  <2>1. ASSUME NEW i \in 1..(index + 1)
        PROVE  place'[i] \in 1..m /\ output'[place'[i]] = text[i]
    <3>1. CASE i = index + 1
      BY <3>1 DEF Growing
    <3>2. CASE i \in 1..index
      <4>1. place'[i] = place[i] /\ place[i] \in 1..n /\ output[place[i]] = text[i]
        BY <3>2 DEF OnlyCommasAdded, EachPutOut, Growing
      <4>2. place[i] \in 1..(n + 1)
        BY <4>1 DEF Growing
      <4> QED BY <4>1, <4>2 DEF Growing
    <3> QED BY <3>1, <3>2 DEF Growing
  <2> QED BY <2>1 DEF EachPutOut, Growing
<1>2. InOrder'
  <2>1. ASSUME NEW i \in 1..(index + 1), NEW j \in 1..(index + 1), i < j
        PROVE  place'[i] < place'[j]
    <3>1. i \in 1..index /\ place'[i] = place[i] /\ place[i] \in 1..n
      <4>1. i \in 1..index
        BY <2>1 DEF Growing
      <4> QED BY <4>1 DEF OnlyCommasAdded, EachPutOut, Growing
    <3>2. CASE j = index + 1
      BY <3>1, <3>2 DEF Growing
    <3>3. CASE j \in 1..index
      <4>1. DOMAIN place = 1..index /\ place'[j] = place[j]
        BY <3>3 DEF Growing
      <4>2. place[i] < place[j]
        BY <2>1, <3>1, <3>3, <4>1 DEF OnlyCommasAdded, InOrder
      <4> QED BY <3>1, <4>1, <4>2
    <3> QED BY <3>2, <3>3 DEF Growing
  <2> QED BY <2>1 DEF InOrder, Growing
<1>3. ASSUME NEW p \in 1..m
      PROVE  \/ \E i \in 1..(index + 1) : place'[i] = p
             \/ /\ output'[p] = "comma"
                /\ \E i \in 1..(index + 1) :
                     place'[i] = p - 1 /\ text[i] = "space" /\ i + 1 \in DOMAIN text /\ text[i + 1] = "quote"
  <2>1. CASE p \in 1..n
    <3>1. CASE \E i \in 1..index : place[i] = p
      BY <3>1 DEF Growing
    <3>2. CASE AddedComma(p)
      <4>1. PICK i \in 1..index :
              place[i] = p - 1 /\ text[i] = "space" /\ i + 1 \in DOMAIN text /\ text[i + 1] = "quote"
        BY <3>2 DEF AddedComma, Growing
      <4>2. output'[p] = "comma" /\ place'[i] = p - 1 /\ i \in 1..(index + 1)
        BY <2>1, <3>2, <4>1 DEF AddedComma, Growing
      <4> QED BY <4>1, <4>2 DEF Growing
    <3> QED BY <2>1, <3>1, <3>2 DEF OnlyCommasAdded, Growing
  <2>2. CASE p = n + 1
    BY <2>2 DEF Growing
  <2>3. CASE p = n + 2 /\ m = n + 2
    <3>1. /\ output'[p] = "comma" /\ place'[index + 1] = p - 1 /\ index + 1 \in 1..(index + 1)
          /\ text[index + 1] = "space" /\ (index + 1) + 1 \in DOMAIN text /\ text[(index + 1) + 1] = "quote"
      BY <2>3 DEF Growing
    <3> QED BY <3>1 DEF Growing
  <2> QED BY <2>1, <2>2, <2>3 DEF Growing
<1>4. DOMAIN place' = 1..(index + 1) /\ DOMAIN output' = 1..m /\ text' = text
  BY DEF Growing
<1>5. ASSUME NEW p \in DOMAIN output'
      PROVE  AddedComma(p)' \/ \E i \in DOMAIN place' : place'[i] = p
  BY <1>3, <1>4 DEF AddedComma
<1> QED BY <1>1, <1>2, <1>5 DEF OnlyCommasAdded

LEMMA Nothing == <<>> \in Seq(Character) /\ <<>> \in Seq(Nat) /\ Len(<<>>) = 0
  OBVIOUS

LEMMA NothingOut == DOMAIN place = {} /\ DOMAIN output = {} => OnlyCommasAdded
  BY DEF OnlyCommasAdded, EachPutOut, InOrder

\* A character is copied, with a comma after it or without.
Copying ==
  /\ Scanning /\ text' = text /\ index' = index + 1
  /\ place' = Append(place, Len(output) + 1)
  /\ \/ output' = Copied
     \/ /\ output' = Append(Copied, "comma")
        /\ Char = "space" /\ index + 1 < Len(text) /\ text[index + 2] = "quote"

LEMMA CopyGrows ==
  ASSUME FragmentTypeOK, Copying
  PROVE  /\ output' \in Seq(Character) /\ place' \in Seq(Nat)
         /\ index' \in 0..Len(text') /\ Len(place') = index'
         /\ Growing(Len(output), Len(output'))
         /\ output' = Copied => Len(output') = Len(output) + 1
         /\ output' = Append(Copied, "comma") => Len(output') = Len(output) + 2
<1>1. /\ Scanning /\ text' = text /\ index' = index + 1
      /\ place' = Append(place, Len(output) + 1)
      /\ \/ output' = Copied
         \/ /\ output' = Append(Copied, "comma")
            /\ Char = "space" /\ index + 1 < Len(text) /\ text[index + 2] = "quote"
  BY DEF Copying
<1>2. /\ Len(output) \in Nat /\ index \in Nat /\ index < Len(text) /\ Len(text) \in Nat
      /\ Len(place) = index /\ DOMAIN place = 1..index /\ DOMAIN output = 1..Len(output)
      /\ text \in Seq(Character) /\ output \in Seq(Character) /\ place \in Seq(Nat)
  BY <1>1 DEF FragmentTypeOK, Scanning
<1>3. Char = text[index + 1] /\ Char \in Character /\ "comma" \in Character
  <2>1. text[index + 1] \in Character
    BY <1>2
  <2>2. "comma" \in Character
    BY DEF Character
  <2> QED BY <2>1, <2>2 DEF Char
<1>4. /\ place' \in Seq(Nat) /\ Len(place') = index + 1 /\ DOMAIN place' = 1..(index + 1)
      /\ place'[index + 1] = Len(output) + 1 /\ \A i \in 1..index : place'[i] = place[i]
  <2>1. Len(output) + 1 \in Nat
    BY <1>2
  <2> QED BY <1>1, <1>2, <2>1, Appending
<1>5. /\ Copied \in Seq(Character) /\ Len(Copied) = Len(output) + 1
      /\ DOMAIN Copied = 1..(Len(output) + 1) /\ Copied[Len(output) + 1] = text[index + 1]
      /\ \A p \in 1..Len(output) : Copied[p] = output[p]
  BY <1>2, <1>3, Appending DEF Copied
<1>6. /\ output' \in Seq(Character) /\ Growing(Len(output), Len(output'))
      /\ \/ output' = Copied /\ Len(output') = Len(output) + 1
         \/ output' = Append(Copied, "comma") /\ Len(output') = Len(output) + 2
  <2>1. CASE output' = Copied
    BY <1>1, <1>2, <1>4, <1>5, <2>1 DEF Growing
  <2>2. CASE /\ output' = Append(Copied, "comma")
             /\ Char = "space" /\ index + 1 < Len(text) /\ text[index + 2] = "quote"
    <3>1. /\ output' \in Seq(Character) /\ Len(output') = Len(Copied) + 1
          /\ DOMAIN output' = 1..(Len(Copied) + 1) /\ output'[Len(Copied) + 1] = "comma"
          /\ \A p \in 1..Len(Copied) : output'[p] = Copied[p]
      BY <1>3, <1>5, <2>2, Appending
    <3>2. /\ Len(output') = Len(output) + 2 /\ DOMAIN output' = 1..(Len(output) + 2)
          /\ output'[Len(output) + 2] = "comma"
      <4>1. Len(Copied) + 1 = Len(output) + 2
        BY <1>2, <1>5
      <4> QED BY <3>1, <4>1
    <3>3. 1..Len(output) \subseteq 1..Len(Copied) /\ Len(output) + 1 \in 1..Len(Copied)
      <4>1. Len(Copied) = Len(output) + 1 /\ Len(output) \in Nat
        BY <1>2, <1>5
      <4> QED BY <4>1
    <3>4. output'[Len(output) + 1] = text[index + 1]
      BY <1>5, <3>1, <3>3, Zenon
    <3>5. \A p \in 1..Len(output) : output'[p] = output[p]
      BY <1>5, <3>1, <3>3, Zenon
    <3> QED BY <1>1, <1>2, <1>3, <1>4, <2>2, <3>1, <3>2, <3>4, <3>5 DEF Growing
  <2> QED BY <1>1, <2>1, <2>2
<1>7. Len(Append(Copied, "comma")) = Len(output) + 2
  <2>1. Len(Append(Copied, "comma")) = Len(Copied) + 1
    BY <1>3, <1>5, Appending
  <2> QED BY <1>2, <1>5, <2>1
<1>8. /\ output' = Copied => Len(output') = Len(output) + 1
      /\ output' = Append(Copied, "comma") => Len(output') = Len(output) + 2
  BY <1>5, <1>7
<1> QED BY <1>1, <1>2, <1>4, <1>6, <1>8

LEMMA CopyKeeps ==
  ASSUME FragmentTypeOK, OnlyCommasAdded, Copying
  PROVE  /\ output' \in Seq(Character) /\ place' \in Seq(Nat)
         /\ index' \in 0..Len(text') /\ Len(place') = index'
         /\ OnlyCommasAdded'
BY CopyGrows, GrowingKeeps

\* A step that puts nothing out.
LEMMA SameOutput ==
  ASSUME FragmentInv, text' = text, index' = index, output' = output, place' = place,
         depth' = depth, quoted' = quoted, escaped' = escaped,
         outcome' \in {"direct", "scanning", "read", "entry only", "refused"}
  PROVE  FragmentInv'
<1>1. OnlyCommasAdded'
  BY DEF FragmentInv, OnlyCommasAdded, EachPutOut, InOrder, AddedComma
<1>2. FragmentTypeOK'
  BY DEF FragmentInv, FragmentTypeOK
<1> QED BY <1>1, <1>2 DEF FragmentInv

LEMMA ScanKeeps ==
  ASSUME FragmentInv,
         InString \/ Quote \/ OpenBracket \/ CloseBracket \/ Space \/ OtherChar
  PROVE  FragmentInv'
<1>1. Scanning /\ outcome = "scanning"
  BY DEF InString, Quote, OpenBracket, CloseBracket, Space, OtherChar, Scanning
<1>2. CASE InString \/ Quote \/ OpenBracket \/ OtherChar \/ (CloseBracket /\ depth > 0)
  <2>1. Copy /\ depth' \in Nat /\ quoted' \in BOOLEAN /\ escaped' \in BOOLEAN
    <3>1. depth \in Nat /\ quoted \in BOOLEAN /\ escaped \in BOOLEAN
      BY DEF FragmentInv, FragmentTypeOK
    <3>2. CASE InString
      BY <3>1, <3>2 DEF InString
    <3>3. CASE Quote \/ OpenBracket \/ OtherChar \/ (CloseBracket /\ depth > 0)
      <4>1. CASE Quote
        BY <3>1, <4>1 DEF Quote
      <4>2. CASE OpenBracket
        BY <3>1, <4>2 DEF OpenBracket
      <4>3. CASE OtherChar
        BY <3>1, <4>3 DEF OtherChar
      <4>4. CASE CloseBracket /\ depth > 0
        BY <3>1, <4>4 DEF CloseBracket
      <4> QED BY <3>3, <4>1, <4>2, <4>3, <4>4
    <3> QED BY <1>2, <3>2, <3>3
  <2>2. /\ text' = text /\ index' = index + 1 /\ place' = Append(place, Len(output) + 1)
        /\ output' = Copied /\ outcome' = outcome
    BY <2>1 DEF Copy
  <2>3. /\ output' \in Seq(Character) /\ place' \in Seq(Nat)
        /\ index' \in 0..Len(text') /\ Len(place') = index'
        /\ OnlyCommasAdded'
    BY <1>1, <2>2, CopyKeeps DEF FragmentInv, Copying
  <2> QED BY <1>1, <2>1, <2>2, <2>3 DEF FragmentInv, FragmentTypeOK
<1>3. CASE Space
  <2>1. /\ text' = text /\ index' = index + 1 /\ place' = Append(place, Len(output) + 1)
        /\ outcome' = outcome /\ depth' = depth /\ quoted' = quoted /\ escaped' = escaped
        /\ \/ output' = Copied
           \/ /\ output' = Append(Copied, "comma")
              /\ Char = "space" /\ index + 1 < Len(text) /\ text[index + 2] = "quote"
    BY <1>3 DEF Space
  <2>2. /\ output' \in Seq(Character) /\ place' \in Seq(Nat)
        /\ index' \in 0..Len(text') /\ Len(place') = index'
        /\ OnlyCommasAdded'
    BY <1>1, <2>1, CopyKeeps DEF FragmentInv, Copying
  <2> QED BY <1>1, <2>1, <2>2 DEF FragmentInv, FragmentTypeOK
<1>4. CASE CloseBracket /\ ~(depth > 0)
  <2>1. /\ text' = text /\ index' = index /\ output' = output /\ place' = place
        /\ depth' = depth /\ quoted' = quoted /\ escaped' = escaped /\ outcome' = "refused"
    BY <1>4 DEF CloseBracket
  <2> QED BY <2>1, SameOutput
<1> QED BY <1>2, <1>3, <1>4

LEMMA OutcomeIsOne == ASSUME NEW t  PROVE OutcomeOf(t) \in {"read", "entry only", "refused"}
  BY DEF OutcomeOf

LEMMA FragmentInvariant == FragmentSpec => []FragmentInv
<1>1. FragmentInit => FragmentInv
  <2>1. FragmentInit => FragmentTypeOK /\ index = 0 /\ output = <<>> /\ place = <<>>
    <3> SUFFICES ASSUME FragmentInit  PROVE FragmentTypeOK /\ index = 0 /\ output = <<>> /\ place = <<>>
      OBVIOUS
    <3>1. text \in Seq(Character) /\ output \in Seq(Character) /\ place \in Seq(Nat)
      BY Nothing DEF FragmentInit
    <3>2. Len(text) = 0 /\ Len(place) = 0
      BY Nothing DEF FragmentInit
    <3>3. index \in 0..Len(text) /\ Len(place) = index
      BY <3>2 DEF FragmentInit
    <3>4. depth \in Nat /\ quoted \in BOOLEAN /\ escaped \in BOOLEAN /\ outcome = "idle"
          /\ index = 0 /\ output = <<>> /\ place = <<>>
      BY DEF FragmentInit
    <3> HIDE DEF FragmentInit
    <3> QED BY <3>1, <3>3, <3>4 DEF FragmentTypeOK
  <2>2. FragmentInit => DOMAIN place = {} /\ DOMAIN output = {}
    BY DEF FragmentInit
  <2> QED BY <2>1, <2>2, NothingOut DEF FragmentInv
<1>2. FragmentInv /\ [FragmentNext]_fragmentVars => FragmentInv'
  <2> SUFFICES ASSUME FragmentInv, [FragmentNext]_fragmentVars  PROVE FragmentInv'
    OBVIOUS
  <2>1. CASE OpenFragment
    <3>1. /\ text' \in Seq(Character) /\ index' = 0 /\ output' = <<>> /\ place' = <<>>
          /\ depth' = depth /\ quoted' = quoted /\ escaped' = escaped /\ outcome' = "direct"
      BY <2>1, FragmentAssumption DEF OpenFragment, FragmentInv
    <3>2. DOMAIN place' = {} /\ DOMAIN output' = {}
      BY <3>1
    <3>3. FragmentTypeOK'
      <4>1. Len(text') \in Nat
        BY <3>1
      <4>2. text' \in Seq(Character) /\ output' \in Seq(Character) /\ place' \in Seq(Nat)
        BY <3>1, Nothing
      <4>3. index' \in 0..Len(text') /\ Len(place') = index'
        BY <3>1, <4>1, Nothing
      <4>4. depth' \in Nat /\ quoted' \in BOOLEAN /\ escaped' \in BOOLEAN /\ outcome' = "direct"
        BY <3>1 DEF FragmentInv, FragmentTypeOK
      <4> QED BY <4>2, <4>3, <4>4 DEF FragmentTypeOK
    <3>4. OnlyCommasAdded'
      BY <3>2 DEF OnlyCommasAdded, EachPutOut, InOrder
    <3> QED BY <3>1, <3>3, <3>4 DEF FragmentInv
  <2>2. CASE ParseDirect \/ FinishScan
    <3>1. /\ outcome' \in {"read", "entry only", "refused", "scanning"}
          /\ text' = text /\ index' = index /\ output' = output /\ place' = place
          /\ depth' = depth /\ quoted' = quoted /\ escaped' = escaped
      BY <2>2, OutcomeIsOne DEF ParseDirect, FinishScan
    <3> QED BY <3>1, SameOutput
  <2>3. CASE InString \/ Quote \/ OpenBracket \/ CloseBracket \/ Space \/ OtherChar
    BY <2>3, ScanKeeps
  <2>4. CASE UNCHANGED fragmentVars
    BY <2>4 DEF FragmentInv, FragmentTypeOK, OnlyCommasAdded, EachPutOut, InOrder, AddedComma
  <2> QED BY <2>1, <2>2, <2>3, <2>4 DEF FragmentNext
<1> QED BY <1>1, <1>2, PTL DEF FragmentSpec

\* Type correctness of the scanner: it never reads past its text and its depth
\* never falls below zero.
THEOREM FragmentTypeCorrect == FragmentSpec => []FragmentTypeOK
<1>1. FragmentInv => FragmentTypeOK
  BY DEF FragmentInv
<1> QED BY <1>1, FragmentInvariant, PTL

\* OnlyCommasAdded: whatever the text is, what is parsed again is that text
\* with commas where a member begins after whitespace, and nothing else.
THEOREM ScannerAddsOnlyCommas == FragmentSpec => []OnlyCommasAdded
<1>1. FragmentInv => OnlyCommasAdded
  BY DEF FragmentInv
<1> QED BY <1>1, FragmentInvariant, PTL

----------------------------------------------------------------------------
(***************************************************************************)
(* What a JSON parser makes of a text, character by character: whether it  *)
(* is inside a string, and how deep in brackets.  The parse of a text is   *)
(* the function of these positions, without regard to the scanner.         *)
(***************************************************************************)
Position == [mode : {"outside", "inside", "escaped"}, depth : Int]

Start == [mode |-> "outside", depth |-> 0]

After(at, char) ==
  [mode  |-> IF at.mode = "escaped" THEN "inside"
             ELSE IF char = "quote" THEN (IF at.mode = "inside" THEN "outside" ELSE "inside")
             ELSE IF char = "escape" /\ at.mode = "inside" THEN "escaped"
             ELSE at.mode,
   depth |-> IF at.mode # "outside" THEN at.depth
             ELSE IF char = "open" THEN at.depth + 1
             ELSE IF char = "close" THEN at.depth - 1 ELSE at.depth]

Parse(g, t, n) ==
  g \in [Nat -> Position] /\ g[0] = Start /\ \A i \in 1..n : g[i] = After(g[i - 1], t[i])

LEMMA AfterTyped == ASSUME NEW at \in Position, NEW char  PROVE After(at, char) \in Position
  BY DEF After, Position

LEMMA ParseShorter ==
  ASSUME NEW g, NEW t, NEW n \in Nat, Parse(g, t, n + 1)
  PROVE  Parse(g, t, n) /\ g[n + 1] = After(g[n], t[n + 1])
<1>1. \A i \in 1..(n + 1) : g[i] = After(g[i - 1], t[i])
  BY DEF Parse
<1>2. \A i \in 1..n : i \in 1..(n + 1)
  OBVIOUS
<1>3. n + 1 \in 1..(n + 1) /\ (n + 1) - 1 = n
  OBVIOUS
<1> QED BY <1>1, <1>2, <1>3 DEF Parse

LEMMA ParseLonger ==
  ASSUME NEW g, NEW t, NEW n \in Nat, Parse(g, t, n)
  PROVE  \E h : Parse(h, t, n + 1)
<1> DEFINE next == After(g[n], t[n + 1])
           h == [g EXCEPT ![n + 1] = next]
<1>1. g \in [Nat -> Position] /\ g[0] = Start
  BY DEF Parse
<1>2. next \in Position
  BY <1>1, AfterTyped
<1> HIDE DEF next
<1>3. h \in [Nat -> Position] /\ h[n + 1] = next /\ \A i \in Nat : i # n + 1 => h[i] = g[i]
  BY <1>1, <1>2
<1> HIDE DEF h
<1>4. h[0] = Start
  BY <1>1, <1>3
<1>5. ASSUME NEW i \in 1..(n + 1)  PROVE h[i] = After(h[i - 1], t[i])
  <2>1. CASE i = n + 1
    <3>1. h[n] = g[n] /\ i - 1 = n
      BY <1>3, <2>1
    <3> QED BY <1>3, <2>1, <3>1 DEF next
  <2>2. CASE i \in 1..n
    <3>1. i \in Nat /\ i - 1 \in Nat /\ i # n + 1 /\ i - 1 # n + 1
      BY <2>2
    <3>2. h[i] = g[i] /\ h[i - 1] = g[i - 1]
      BY <1>3, <3>1
    <3>3. g[i] = After(g[i - 1], t[i])
      BY <2>2 DEF Parse
    <3> QED BY <3>2, <3>3
  <2> QED BY <2>1, <2>2
<1> QED BY <1>3, <1>4, <1>5 DEF Parse

LEMMA ParseSame ==
  ASSUME NEW g, NEW t, NEW u, NEW n, \A i \in 1..n : t[i] = u[i], Parse(g, t, n)
  PROVE  Parse(g, u, n)
BY DEF Parse

LEMMA ParseNothing == ASSUME NEW t  PROVE \E g : Parse(g, t, 0)
<1> DEFINE g == [i \in Nat |-> Start]
<1>1. Start \in Position
  BY DEF Start, Position
<1>2. g \in [Nat -> Position] /\ g[0] = Start
  BY <1>1
<1>3. \A i \in 1..0 : FALSE
  OBVIOUS
<1> HIDE DEF g
<1>4. Parse(g, t, 0)
  BY <1>2, <1>3 DEF Parse
<1> QED BY <1>4

----------------------------------------------------------------------------
(* Where a comma is missing.                                               *)

\* The last of the first n characters that is not whitespace ends a value.
Ended(s, n) ==
  \E i \in 1..n : s[i] \in {"close", "quote", "ending"} /\ \A k \in (i + 1)..n : s[k] = "space"

\* The whitespace at i is the last one between a value that has ended and a
\* quote, outside of strings and brackets.
Gap(g, i) ==
  /\ text[i] = "space" /\ i + 1 \in DOMAIN text /\ text[i + 1] = "quote"
  /\ g[i] = Start /\ Ended(text, i)

\* A comma that is not in the text was put out after the character at i.
AddedAfter(i) == place[i] + 1 \in DOMAIN output /\ \A j \in DOMAIN place : place[j] # place[i] + 1

LEMMA EndedNext ==
  ASSUME NEW s, NEW n \in Nat
  PROVE  Ended(s, n + 1) <=> IF s[n + 1] = "space" THEN Ended(s, n)
                             ELSE s[n + 1] \in {"close", "quote", "ending"}
<1> DEFINE End(i) == s[i] \in {"close", "quote", "ending"}
<1>1. CASE s[n + 1] = "space"
  <2>1. ASSUME NEW i \in 1..(n + 1), End(i), \A k \in (i + 1)..(n + 1) : s[k] = "space"
        PROVE  Ended(s, n)
    <3>1. i \in 1..n
      BY <1>1, <2>1
    <3>2. \A k \in (i + 1)..n : k \in (i + 1)..(n + 1)
      OBVIOUS
    <3> QED BY <2>1, <3>1, <3>2 DEF Ended
  <2>2. ASSUME NEW i \in 1..n, End(i), \A k \in (i + 1)..n : s[k] = "space"
        PROVE  Ended(s, n + 1)
    <3>1. i \in 1..(n + 1) /\ \A k \in (i + 1)..(n + 1) : k = n + 1 \/ k \in (i + 1)..n
      OBVIOUS
    <3> QED BY <1>1, <2>2, <3>1 DEF Ended
  <2> QED BY <1>1, <2>1, <2>2 DEF Ended
<1>2. CASE s[n + 1] # "space"
  <2>1. ASSUME NEW i \in 1..(n + 1), End(i), \A k \in (i + 1)..(n + 1) : s[k] = "space"
        PROVE  i = n + 1
    <3>1. i # n + 1 => n + 1 \in (i + 1)..(n + 1)
      OBVIOUS
    <3> QED BY <1>2, <2>1, <3>1
  <2>2. ASSUME End(n + 1)  PROVE Ended(s, n + 1)
    <3>1. n + 1 \in 1..(n + 1) /\ \A k \in ((n + 1) + 1)..(n + 1) : FALSE
      OBVIOUS
    <3> QED BY <2>2, <3>1 DEF Ended
  <2> QED BY <1>2, <2>1, <2>2 DEF Ended
<1> QED BY <1>1, <1>2

LEMMA EndedSame ==
  ASSUME NEW s, NEW t, NEW n \in Nat, \A i \in 1..n : s[i] = t[i]
  PROVE  Ended(s, n) <=> Ended(t, n)
<1>1. \A i \in 1..n : \A k \in (i + 1)..n : k \in 1..n
  OBVIOUS
<1> QED BY <1>1 DEF Ended

LEMMA ValueEndedIsEnded ==
  ASSUME NEW n \in Nat, DOMAIN output = 1..n  PROVE ValueEnded <=> Ended(output, n)
<1> DEFINE solid == {i \in DOMAIN output : output[i] # "space"}
<1>1. ASSUME NEW i \in 1..n, output[i] \in {"close", "quote", "ending"}
      PROVE  (\A j \in solid : j <= i) <=> (\A k \in (i + 1)..n : output[k] = "space")
  <2>1. ASSUME \A j \in solid : j <= i, NEW k \in (i + 1)..n  PROVE output[k] = "space"
    BY <2>1
  <2>2. ASSUME \A k \in (i + 1)..n : output[k] = "space", NEW j \in solid  PROVE j <= i
    <3>1. j \in 1..n /\ (j > i => j \in (i + 1)..n)
      OBVIOUS
    <3> QED BY <2>2, <3>1
  <2> QED BY <2>1, <2>2
<1>2. \A i \in 1..n : output[i] \in {"close", "quote", "ending"} => i \in solid
  OBVIOUS
<1> QED BY <1>1, <1>2 DEF ValueEnded, Ended

----------------------------------------------------------------------------
(* The scanner's position is the parser's, in the text and in the output.  *)

Here ==
  [mode |-> IF ~quoted THEN "outside" ELSE IF escaped THEN "escaped" ELSE "inside",
   depth |-> depth]

\* A comma just put out is followed by the quote it was put out for.
LastPutOut ==
  IF index > 0 /\ Len(output) = place[index] + 1
  THEN index + 1 \in DOMAIN text /\ text[index + 1] = "quote"
  ELSE Ended(output, Len(output)) <=> Ended(text, index)

GapInv ==
  /\ ~quoted => ~escaped
  /\ LastPutOut
  /\ \E g : Parse(g, text, index)
  /\ \E h : Parse(h, output, Len(output))
  /\ \A g : Parse(g, text, index) => g[index] = Here
  /\ \A h : Parse(h, output, Len(output)) => h[Len(output)] = Here
  /\ \A g, h : Parse(g, text, index) /\ Parse(h, output, Len(output))
       => \A i \in 1..index : h[place[i]] = g[i]
  /\ \A g : Parse(g, text, index) => \A i \in 1..index : AddedAfter(i) <=> Gap(g, i)

\* A step of the scanner over one character.
Moving(n, m) ==
  /\ n = Len(output) /\ m = Len(output') /\ Growing(n, m)
  /\ index' = index + 1 /\ index + 1 \in DOMAIN text
  /\ Here' = After(Here, text[index + 1])
  /\ ~quoted' => ~escaped'
  /\ m = n + 2 <=> /\ text[index + 1] = "space" /\ Here = Start
                   /\ index + 2 \in DOMAIN text /\ text[index + 2] = "quote"
                   /\ ValueEnded

LEMMA MovingReads ==
  ASSUME GapInv, NEW n, NEW m, Moving(n, m)
  PROVE  /\ \E g : Parse(g, text', index')
         /\ \E h : Parse(h, output', Len(output'))
         /\ \A g : Parse(g, text', index') => Parse(g, text, index) /\ g[index'] = Here'
         /\ \A h : Parse(h, output', Len(output'))
              => Parse(h, output, Len(output)) /\ h[n + 1] = Here' /\ h[Len(output')] = Here'
<1>1. /\ n = Len(output) /\ m = Len(output') /\ n \in Nat /\ m \in {n + 1, n + 2}
      /\ index \in Nat /\ index' = index + 1 /\ text' = text
      /\ output'[n + 1] = text[index + 1] /\ \A p \in 1..n : output'[p] = output[p]
      /\ m = n + 2 => output'[n + 2] = "comma" /\ text[index + 1] = "space" /\ Here = Start
      /\ Here' = After(Here, text[index + 1])
  BY DEF Moving, Growing
<1>2. \E g : Parse(g, text', index')
  <2>1. PICK g : Parse(g, text, index)
    BY DEF GapInv
  <2> QED BY <1>1, <2>1, ParseLonger
<1>3. \E h : Parse(h, output', Len(output'))
  <2>1. PICK h : Parse(h, output, n)
    BY <1>1 DEF GapInv
  <2>2. Parse(h, output', n)
    BY <1>1, <2>1, ParseSame
  <2>3. PICK k : Parse(k, output', n + 1)
    BY <1>1, <2>2, ParseLonger
  <2>4. CASE m = n + 1
    BY <1>1, <2>3, <2>4
  <2>5. CASE m = n + 2
    <3>1. n + 1 \in Nat /\ (n + 1) + 1 = n + 2
      BY <1>1
    <3>2. \E l : Parse(l, output', (n + 1) + 1)
      BY <2>3, <3>1, ParseLonger
    <3> QED BY <1>1, <2>5, <3>1, <3>2
  <2> QED BY <1>1, <2>4, <2>5
<1>4. ASSUME NEW g, Parse(g, text', index')
      PROVE  Parse(g, text, index) /\ g[index'] = Here'
  <2>1. Parse(g, text, index + 1)
    BY <1>1, <1>4
  <2>2. Parse(g, text, index) /\ g[index + 1] = After(g[index], text[index + 1])
    BY <1>1, <2>1, ParseShorter
  <2>3. g[index] = Here
    BY <2>2 DEF GapInv
  <2> QED BY <1>1, <2>2, <2>3
<1>5. ASSUME NEW h, Parse(h, output', Len(output'))
      PROVE  /\ Parse(h, output, Len(output)) /\ h[n + 1] = Here' /\ h[Len(output')] = Here'
  <2>1. Parse(h, output', n + 1)
    <3>1. CASE m = n + 1
      BY <1>1, <1>5, <3>1
    <3>2. CASE m = n + 2
      <4>1. n + 1 \in Nat /\ m = (n + 1) + 1
        BY <1>1, <3>2
      <4>2. Parse(h, output', (n + 1) + 1)
        BY <1>1, <1>5, <4>1
      <4> QED BY <4>1, <4>2, ParseShorter
    <3> QED BY <1>1, <3>1, <3>2
  <2>2. Parse(h, output', n) /\ h[n + 1] = After(h[n], output'[n + 1])
    BY <1>1, <2>1, ParseShorter
  <2>3. Parse(h, output, n)
    <3>1. \A p \in 1..n : output'[p] = output[p]
      BY <1>1
    <3> QED BY <2>2, <3>1, ParseSame
  <2>4. h[n] = Here
    BY <1>1, <2>3 DEF GapInv
  <2>5. h[n + 1] = Here'
    BY <1>1, <2>2, <2>4
  <2>6. h[m] = Here'
    <3>1. CASE m = n + 2
      <4>1. n + 1 \in Nat /\ m = (n + 1) + 1
        BY <1>1, <3>1
      <4>2. h[m] = After(h[n + 1], output'[m])
        <5>1. Parse(h, output', (n + 1) + 1)
          BY <1>1, <1>5, <4>1
        <5>2. h[(n + 1) + 1] = After(h[n + 1], output'[(n + 1) + 1])
          BY <4>1, <5>1, ParseShorter
        <5> QED BY <4>1, <5>2
      <4>3. output'[m] = "comma" /\ Here' = After(Start, "space")
        BY <1>1, <3>1
      <4>4. After(Start, "space") = Start /\ After(Start, "comma") = Start
        BY DEF After, Start
      <4> QED BY <2>5, <4>2, <4>3, <4>4
    <3> QED BY <1>1, <2>5, <3>1
  <2> QED BY <1>1, <2>3, <2>5, <2>6
<1> QED BY <1>2, <1>3, <1>4, <1>5

LEMMA MovingEnds ==
  ASSUME FragmentInv, GapInv, NEW n, NEW m, Moving(n, m)
  PROVE  /\ LastPutOut'
         /\ text[index + 1] = "space" => (ValueEnded <=> Ended(text, index + 1))
<1>1. /\ n = Len(output) /\ m = Len(output') /\ n \in Nat /\ m \in {n + 1, n + 2}
      /\ DOMAIN output = 1..n
      /\ index \in Nat /\ index' = index + 1 /\ text' = text /\ place'[index + 1] = n + 1
      /\ output'[n + 1] = text[index + 1] /\ \A p \in 1..n : output'[p] = output[p]
      /\ m = n + 2 => index + 2 \in DOMAIN text /\ text[index + 2] = "quote"
  BY DEF Moving, Growing
<1> DEFINE pending == index > 0 /\ Len(output) = place[index] + 1
<1>2. pending => text[index + 1] = "quote"
  BY DEF GapInv, LastPutOut
<1>3. ~pending => (Ended(output, n) <=> Ended(text, index))
  BY <1>1 DEF GapInv, LastPutOut
<1> HIDE DEF pending
<1>4. Ended(text, index + 1) <=> IF text[index + 1] = "space" THEN Ended(text, index)
                                 ELSE text[index + 1] \in {"close", "quote", "ending"}
  BY <1>1, EndedNext
<1>5. Ended(output', n + 1) <=> IF text[index + 1] = "space" THEN Ended(output, n)
                                ELSE text[index + 1] \in {"close", "quote", "ending"}
  <2>1. Ended(output', n) <=> Ended(output, n)
    BY <1>1, EndedSame
  <2>2. Ended(output', n + 1) <=> IF output'[n + 1] = "space" THEN Ended(output', n)
                                  ELSE output'[n + 1] \in {"close", "quote", "ending"}
    BY <1>1, EndedNext
  <2> QED BY <1>1, <2>1, <2>2
<1>6. Ended(output', n + 1) <=> Ended(text, index + 1)
  BY <1>2, <1>3, <1>4, <1>5
<1>7. LastPutOut'
  <2>1. index' > 0 /\ place'[index'] = n + 1
    BY <1>1
  <2>2. CASE m = n + 2
    <3>1. index' + 1 = index + 2
      BY <1>1
    <3>2. Len(output') = place'[index'] + 1
      BY <1>1, <2>1, <2>2
    <3>3. index' + 1 \in DOMAIN text' /\ text'[index' + 1] = "quote"
      BY <1>1, <2>2, <3>1
    <3> QED BY <2>1, <3>2, <3>3 DEF LastPutOut
  <2>3. CASE m = n + 1
    <3>1. Len(output') # place'[index'] + 1
      BY <1>1, <2>1, <2>3
    <3>2. Ended(output', Len(output')) <=> Ended(text', index')
      BY <1>1, <1>6, <2>3
    <3> QED BY <3>1, <3>2 DEF LastPutOut
  <2> QED BY <1>1, <2>2, <2>3
<1>8. ASSUME text[index + 1] = "space"  PROVE ValueEnded <=> Ended(text, index + 1)
  BY <1>1, <1>2, <1>3, <1>4, <1>8, ValueEndedIsEnded
<1> QED BY <1>7, <1>8

LEMMA MovingAdds ==
  ASSUME FragmentInv, GapInv, NEW n, NEW m, Moving(n, m),
         NEW g, Parse(g, text', index'), NEW i \in 1..index'
  PROVE  AddedAfter(i)' <=> Gap(g, i)'
<1>1. /\ n \in Nat /\ m \in {n + 1, n + 2} /\ index \in Nat /\ index' = index + 1 /\ text' = text
      /\ DOMAIN output = 1..n /\ DOMAIN output' = 1..m
      /\ DOMAIN place = 1..index /\ DOMAIN place' = 1..(index + 1)
      /\ place'[index + 1] = n + 1 /\ \A j \in 1..index : place'[j] = place[j]
      /\ m = n + 2 <=> /\ text[index + 1] = "space" /\ Here = Start
                       /\ index + 2 \in DOMAIN text /\ text[index + 2] = "quote"
                       /\ ValueEnded
      /\ Here' = After(Here, text[index + 1])
  BY DEF Moving, Growing
<1>2. \A j \in 1..index : place[j] \in 1..n
  BY <1>1 DEF FragmentInv, OnlyCommasAdded, EachPutOut
<1>3. Parse(g, text, index) /\ g[index + 1] = Here'
  BY <1>1, MovingReads
<1>4. CASE i \in 1..index
  <2>1. AddedAfter(i) <=> Gap(g, i)
    BY <1>3, <1>4 DEF GapInv
  <2>2. Gap(g, i)' <=> Gap(g, i)
    BY <1>1 DEF Gap
  <2>3. AddedAfter(i)' <=> AddedAfter(i)
    <3>1. place'[i] = place[i] /\ place[i] \in 1..n
      BY <1>1, <1>2, <1>4
    <3>2. AddedAfter(i) => place[i] + 1 # n + 1 /\ place[i] + 1 \in DOMAIN output'
      BY <1>1 DEF AddedAfter
    <3>3. AddedAfter(i)' => place[i] + 1 # n + 1
      BY <1>1, <3>1 DEF AddedAfter
    <3>4. place[i] + 1 # n + 1 => place[i] + 1 \in DOMAIN output
      BY <1>1, <3>1
    <3>5. \A j \in 1..(index + 1) : j = index + 1 \/ j \in 1..index
      BY <1>1
    <3>6. \A j \in 1..index : j \in 1..(index + 1)
      BY <1>1
    <3>7. AddedAfter(i) => AddedAfter(i)'
      BY <1>1, <3>1, <3>2, <3>5, Zenon DEF AddedAfter
    <3>8. AddedAfter(i)' => AddedAfter(i)
      BY <1>1, <3>1, <3>3, <3>4, <3>6, Zenon DEF AddedAfter
    <3> QED BY <3>7, <3>8
  <2> QED BY <2>1, <2>2, <2>3
<1>5. CASE i = index + 1
  <2>1. AddedAfter(i)' <=> m = n + 2
    <3>1. place'[i] + 1 = n + 2
      BY <1>1, <1>5
    <3>2. \A j \in 1..(index + 1) : place'[j] # n + 2
      BY <1>1, <1>2
    <3>3. n + 2 \in 1..m <=> m = n + 2
      BY <1>1
    <3> QED BY <1>1, <3>1, <3>2, <3>3 DEF AddedAfter
  <2>2. text[index + 1] = "space" => (ValueEnded <=> Ended(text, index + 1))
    BY MovingEnds
  <2>3. text[index + 1] = "space" => (Here = Start <=> g[index + 1] = Start)
    BY <1>1, <1>3 DEF After, Here, Start
  <2>4. Gap(g, i)' <=> /\ text[index + 1] = "space"
                       /\ index + 2 \in DOMAIN text /\ text[index + 2] = "quote"
                       /\ g[index + 1] = Start /\ Ended(text, index + 1)
    <3>1. i + 1 = index + 2
      BY <1>1, <1>5
    <3> QED BY <1>1, <1>5, <3>1 DEF Gap
  <2> QED BY <1>1, <2>1, <2>2, <2>3, <2>4
<1> QED BY <1>1, <1>4, <1>5

LEMMA MovingKeeps ==
  ASSUME FragmentInv, GapInv, NEW n, NEW m, Moving(n, m)  PROVE GapInv'
<1>1. ASSUME NEW g, NEW h, Parse(g, text', index'), Parse(h, output', Len(output')),
             NEW i \in 1..index'
      PROVE  h[place'[i]] = g[i]
  <2>1. /\ index \in Nat /\ index' = index + 1 /\ place'[index + 1] = n + 1
        /\ \A j \in 1..index : place'[j] = place[j]
    BY DEF Moving, Growing
  <2>2. /\ Parse(g, text, index) /\ g[index'] = Here'
        /\ Parse(h, output, Len(output)) /\ h[n + 1] = Here'
    BY <1>1, MovingReads
  <2>3. CASE i \in 1..index
    BY <2>1, <2>2, <2>3 DEF GapInv
  <2>4. CASE i = index + 1
    BY <2>1, <2>2, <2>4
  <2> QED BY <2>1, <2>3, <2>4
<1>2. ~quoted' => ~escaped'
  BY DEF Moving
<1>3. LastPutOut'
  BY MovingEnds
<1>4. /\ \E g : Parse(g, text', index')
      /\ \E h : Parse(h, output', Len(output'))
      /\ \A g : Parse(g, text', index') => g[index'] = Here'
      /\ \A h : Parse(h, output', Len(output')) => h[Len(output')] = Here'
  BY MovingReads
<1>5. \A g : Parse(g, text', index') => \A i \in 1..index' : AddedAfter(i)' <=> Gap(g, i)'
  BY MovingAdds
<1> QED BY <1>1, <1>2, <1>3, <1>4, <1>5 DEF GapInv

LEMMA ScanMoves ==
  ASSUME FragmentInv, GapInv,
         InString \/ Quote \/ OpenBracket \/ CloseBracket \/ Space \/ OtherChar, outcome' = outcome
  PROVE  \E n, m : Moving(n, m)
<1> DEFINE adding == /\ text[index + 1] = "space" /\ Here = Start
                     /\ index + 2 \in DOMAIN text /\ text[index + 2] = "quote"
                     /\ ValueEnded
<1>1. /\ Scanning /\ Char = text[index + 1] /\ index + 1 \in DOMAIN text /\ index \in Nat
      /\ (index + 1 < Len(text) <=> index + 2 \in DOMAIN text)
  <2>1. Scanning
    BY DEF InString, Quote, OpenBracket, CloseBracket, Space, OtherChar
  <2>2. index \in Nat /\ Len(text) \in Nat /\ DOMAIN text = 1..Len(text)
    <3>1. text \in Seq(Character) /\ index \in 0..Len(text)
      BY Zenon DEF FragmentInv, FragmentTypeOK
    <3> QED BY <3>1
  <2>3. index < Len(text)
    BY <2>1, Zenon DEF Scanning
  <2>4. index + 1 \in DOMAIN text /\ (index + 1 < Len(text) <=> index + 2 \in DOMAIN text)
    BY <2>2, <2>3
  <2> QED BY <2>1, <2>2, <2>4, Zenon DEF Char
<1>2. /\ depth \in Nat /\ quoted \in BOOLEAN /\ escaped \in BOOLEAN /\ (~quoted => ~escaped)
  BY DEF FragmentInv, FragmentTypeOK, GapInv
<1>0. PICK c : c = text[index + 1] /\ c = Char
  BY <1>1
<1> DEFINE moved == Here' = After(Here, c) /\ (~quoted' => ~escaped')
<1>3. Here = Start <=> ~quoted /\ depth = 0
  BY <1>2 DEF Here, Start
<1>4. CASE InString \/ Quote \/ OpenBracket \/ (CloseBracket /\ depth > 0) \/ OtherChar
  <2>1. Copy /\ moved /\ ~adding
    <3>1. CASE InString
      <4>1. /\ Copy /\ quoted /\ depth' = depth /\ escaped' = (~escaped /\ c = "escape")
            /\ quoted' = (escaped \/ c # "quote")
        BY <1>0, <3>1, Zenon DEF InString
      <4>2. moved
        BY <1>2, <4>1 DEF Here, After
      <4> QED BY <1>3, <4>1, <4>2
    <3>2. CASE Quote
      <4>1. /\ Copy /\ ~quoted /\ c = "quote"
            /\ quoted' = TRUE /\ depth' = depth /\ escaped' = escaped
        BY <1>0, <3>2, Zenon DEF Quote
      <4> QED BY <1>0, <1>2, <4>1 DEF Here, After
    <3>3. CASE OpenBracket
      <4>1. /\ Copy /\ ~quoted /\ c = "open"
            /\ quoted' = quoted /\ depth' = depth + 1 /\ escaped' = escaped
        BY <1>0, <3>3, Zenon DEF OpenBracket
      <4> QED BY <1>0, <1>2, <4>1 DEF Here, After
    <3>4. CASE CloseBracket /\ depth > 0
      <4>1. /\ Copy /\ ~quoted /\ c = "close"
            /\ quoted' = quoted /\ depth' = depth - 1 /\ escaped' = escaped
        BY <1>0, <3>4 DEF CloseBracket
      <4> QED BY <1>0, <1>2, <4>1 DEF Here, After
    <3>5. CASE OtherChar
      <4>1. /\ Copy /\ ~quoted /\ c \notin {"quote", "open", "close"} /\ ~(c = "space" /\ depth = 0)
            /\ quoted' = quoted /\ depth' = depth /\ escaped' = escaped
        BY <1>0, <3>5, Zenon DEF OtherChar
      <4>2. moved
        BY <1>2, <4>1 DEF Here, After
      <4> QED BY <1>0, <1>3, <4>1, <4>2
    <3> QED BY <1>4, <3>1, <3>2, <3>3, <3>4, <3>5
  <2> HIDE DEF adding, moved
  <2>2. Copying /\ output' = Copied /\ index' = index + 1
    BY <1>1, <2>1 DEF Copying, Copy
  <2>3. Growing(Len(output), Len(output')) /\ Len(output') = Len(output) + 1 /\ Len(output) \in Nat
    BY <2>2, CopyGrows, Zenon DEF FragmentInv, Growing
  <2>4. Len(output') # Len(output) + 2
    BY <2>3
  <2>5. Moving(Len(output), Len(output'))
    BY <1>0, <1>1, <2>1, <2>2, <2>3, <2>4 DEF Moving, adding, moved
  <2> QED BY <2>5
<1>5. CASE Space
  <2>1. /\ moved /\ ~quoted /\ depth = 0 /\ text[index + 1] = "space" /\ text' = text /\ index' = index + 1
        /\ place' = Append(place, Len(output) + 1)
        /\ output' = IF index + 1 < Len(text) /\ text[index + 2] = "quote" /\ ValueEnded
                     THEN Append(Copied, "comma") ELSE Copied
    <3>1. /\ ~quoted /\ depth = 0 /\ c = "space" /\ text' = text /\ index' = index + 1
          /\ place' = Append(place, Len(output) + 1)
          /\ output' = IF index + 1 < Len(text) /\ text[index + 2] = "quote" /\ ValueEnded
                       THEN Append(Copied, "comma") ELSE Copied
          /\ quoted' = quoted /\ depth' = depth /\ escaped' = escaped
      BY <1>0, <1>5, Zenon DEF Space
    <3>2. moved
      BY <1>2, <3>1 DEF Here, After
    <3> QED BY <1>0, <3>1, <3>2, Zenon
  <2>2. output' = IF adding THEN Append(Copied, "comma") ELSE Copied
    BY <1>1, <1>3, <2>1
  <2>3. Copying
    BY <1>0, <1>1, <2>1, Zenon DEF Copying
  <2> HIDE DEF adding, moved
  <2>4. /\ Growing(Len(output), Len(output')) /\ Len(output) \in Nat
        /\ output' = Copied => Len(output') = Len(output) + 1
        /\ output' = Append(Copied, "comma") => Len(output') = Len(output) + 2
    BY <2>3, CopyGrows, Zenon DEF FragmentInv, Growing
  <2>5. Len(output') = Len(output) + 2 <=> adding
    BY <2>2, <2>4
  <2>6. Moving(Len(output), Len(output'))
    BY <1>0, <1>1, <2>1, <2>4, <2>5 DEF Moving, adding, moved
  <2> QED BY <2>6
<1>6. CASE CloseBracket /\ ~(depth > 0)
  BY <1>1, <1>6 DEF CloseBracket, Scanning
<1> QED BY <1>4, <1>5, <1>6

\* A step that scans nothing.
LEMMA SameGaps ==
  ASSUME GapInv, text' = text, index' = index, output' = output, place' = place,
         depth' = depth, quoted' = quoted, escaped' = escaped
  PROVE  GapInv'
<1>1. Here' = Here /\ LastPutOut' = LastPutOut
  BY DEF Here, LastPutOut
<1>2. ASSUME NEW g, NEW i  PROVE AddedAfter(i)' = AddedAfter(i) /\ Gap(g, i)' = Gap(g, i)
  BY DEF AddedAfter, Gap
<1> QED BY <1>1, <1>2 DEF GapInv

\* Before the first character.
LEMMA NothingScanned == index = 0 /\ Len(output) = 0 /\ Here = Start /\ ~escaped => GapInv
<1> SUFFICES ASSUME index = 0, Len(output) = 0, Here = Start, ~escaped  PROVE GapInv
  OBVIOUS
<1>1. LastPutOut
  <2>1. ~Ended(output, 0) /\ ~Ended(text, 0)
    BY DEF Ended
  <2> QED BY <2>1 DEF LastPutOut
<1>2. \A i \in 1..0 : FALSE
  OBVIOUS
<1> QED BY <1>1, <1>2, ParseNothing DEF GapInv, Parse

LEMMA GapInvariant == FragmentSpec => []GapInv
<1>1. FragmentInit => GapInv
  <2> SUFFICES ASSUME FragmentInit  PROVE GapInv
    OBVIOUS
  <2>1. index = 0 /\ Len(output) = 0 /\ ~escaped /\ ~quoted /\ depth = 0
    BY DEF FragmentInit
  <2> QED BY <2>1, NothingScanned DEF Here, Start
<1>2. FragmentInv /\ GapInv /\ [FragmentNext]_fragmentVars => GapInv'
  <2> SUFFICES ASSUME FragmentInv, GapInv, [FragmentNext]_fragmentVars  PROVE GapInv'
    OBVIOUS
  <2>1. CASE OpenFragment
    <3>1. index = 0 /\ output = <<>>
      BY <2>1 DEF OpenFragment, FragmentInv
    <3>2. index' = 0 /\ Len(output') = 0 /\ Here' = Here /\ escaped' = escaped /\ quoted' = quoted
      BY <2>1, <3>1 DEF OpenFragment, Here
    <3>3. Here = Start
      BY <3>1 DEF GapInv, Parse
    <3>4. ~escaped'
      BY <3>2, <3>3 DEF GapInv, Here, Start
    <3>5. (index = 0 /\ Len(output) = 0 /\ Here = Start /\ ~escaped)'
      BY <3>2, <3>3, <3>4 DEF Start
    <3> QED BY <3>5, NothingScanned, PTL
  <2>2. CASE ParseDirect \/ FinishScan \/ UNCHANGED fragmentVars
    BY <2>2, SameGaps DEF ParseDirect, FinishScan
  <2>3. CASE InString \/ Quote \/ OpenBracket \/ CloseBracket \/ Space \/ OtherChar
    <3>1. CASE outcome' = outcome
      BY <2>3, <3>1, ScanMoves, MovingKeeps
    <3>2. CASE outcome' # outcome
      <4>1. CloseBracket /\ index' = index /\ text' = text /\ output' = output /\ place' = place
            /\ depth' = depth /\ quoted' = quoted /\ escaped' = escaped
        BY <2>3, <3>2 DEF InString, Quote, OpenBracket, CloseBracket, Space, OtherChar, Copy
      <4> QED BY <4>1, SameGaps
    <3> QED BY <3>1, <3>2
  <2> QED BY <2>1, <2>2, <2>3 DEF FragmentNext
<1> QED BY <1>1, <1>2, FragmentInvariant, PTL DEF FragmentSpec

\* Commas go exactly where one is missing: after the last whitespace between a
\* value and the quote of a next member, and only outside of strings and
\* brackets as a JSON parser sees them, although the scanner looks back at its
\* own output (insert_top_level_member_commas).  The parse is of the text,
\* which has one up to every character scanned.
CommasExactlyAtGaps ==
  /\ \E g : Parse(g, text, index)
  /\ \A g : Parse(g, text, index) => \A i \in 1..index : AddedAfter(i) <=> Gap(g, i)

\* A parser of the output is inside the same strings and brackets at each
\* character of the text as a parser of the text: no comma moves anything.
OutputReadsAsText ==
  /\ \E g, h : Parse(g, text, index) /\ Parse(h, output, Len(output))
  /\ \A g, h : Parse(g, text, index) /\ Parse(h, output, Len(output))
       => \A i \in 1..index : h[place[i]] = g[i]

\* Commas are inserted where one is missing and nowhere else, for every text.
THEOREM CommasWhereMissing == FragmentSpec => []CommasExactlyAtGaps
<1>1. GapInv => CommasExactlyAtGaps
  BY DEF GapInv, CommasExactlyAtGaps
<1> QED BY <1>1, GapInvariant, PTL

\* Inserting commas changes the place of no string and of no bracket.
THEOREM OutputKeepsStructure == FragmentSpec => []OutputReadsAsText
<1>1. GapInv => OutputReadsAsText
  BY DEF GapInv, OutputReadsAsText
<1> QED BY <1>1, GapInvariant, PTL
\* A text is accepted as it was written or scanned to its end, and what is then
\* accepted leaves no string and no bracket open.
AcceptedIsClosed ==
  outcome \in {"read", "entry only"} =>
    /\ index \in {0, Len(text)}
    /\ \A h : Parse(h, output, Len(output)) => h[Len(output)] = Start

\* No text is accepted half scanned, or with a string or bracket open at its end.
THEOREM AcceptedTextsAreClosed == FragmentSpec => []AcceptedIsClosed
<1> DEFINE Unscanned == outcome \in {"idle", "direct"} => index = 0
           Closed == outcome \in {"read", "entry only"} =>
                       index \in {0, Len(text)} /\ Here = Start
<1>1. FragmentInit => Unscanned /\ Closed
  BY DEF FragmentInit
<1>2. FragmentInv /\ GapInv /\ Unscanned /\ Closed /\ [FragmentNext]_fragmentVars
        => Unscanned' /\ Closed'
  <2> SUFFICES ASSUME FragmentInv, GapInv, Unscanned, Closed, [FragmentNext]_fragmentVars
               PROVE  Unscanned' /\ Closed'
    OBVIOUS
  <2>1. CASE OpenFragment
    BY <2>1 DEF OpenFragment
  <2>2. CASE ParseDirect
    <3>1. index = 0 /\ index' = 0 /\ outcome' \notin {"idle", "direct"} /\ Here' = Here
      BY <2>2, OutcomeIsOne DEF ParseDirect, Here
    <3>2. Here = Start
      BY <3>1 DEF GapInv, Parse
    <3> QED BY <3>1, <3>2
  <2>3. CASE FinishScan
    <3>1. /\ index' = Len(text') /\ outcome' \in {"read", "entry only", "refused"}
          /\ outcome' # "refused" => Here' = Start
      BY <2>3, OutcomeIsOne DEF FinishScan, Here, Start
    <3> QED BY <3>1
  <2>4. CASE InString \/ Quote \/ OpenBracket \/ CloseBracket \/ Space \/ OtherChar
    <3>1. outcome' \in {"scanning", "refused"}
      BY <2>4 DEF InString, Quote, OpenBracket, CloseBracket, Space, OtherChar, Copy, Scanning
    <3> QED BY <3>1
  <2>5. CASE UNCHANGED fragmentVars
    BY <2>5 DEF Here
  <2> QED BY <2>1, <2>2, <2>3, <2>4, <2>5 DEF FragmentNext
<1>3. GapInv /\ Closed => AcceptedIsClosed
  BY DEF GapInv, AcceptedIsClosed
<1> QED BY <1>1, <1>2, <1>3, FragmentInvariant, GapInvariant, PTL DEF FragmentSpec
=============================================================================
