-------------------------- MODULE Preparation_proofs --------------------------
(***************************************************************************)
(* Proofs about the way from the EFI partition to a revision: the reading  *)
(* of rig.conf, of native sheets and of imports, and what a revision says. *)
(* They hold for every file, any number of lines, pools or members in any  *)
(* order, and whatever the validators of names accept.                     *)
(***************************************************************************)
EXTENDS Preparation, FiniteSetTheorems, FunctionTheorems, TLAPS

(***************************************************************************)
(* rig.conf.  ReadFaithfully looks at the file and the result only.  It is *)
(* inductive with TableAsWritten, which relates the table to the lines     *)
(* read so far.                                                            *)
(***************************************************************************)
\* The table holds the lines read so far, each under its key and with its
\* number, and none of them offends.
TableAsWritten ==
  /\ \A i \in 1..line : ~Offends(i)
  /\ \A k \in DOMAIN values :
       /\ values[k].line \in 1..line /\ values[k].line \in Standing(k)
       /\ values[k].value = file.lines[values[k].line].value
  /\ \A i \in 1..line :
       file.lines[i].form = "pair" =>
         file.lines[i].key \in DOMAIN values /\ values[file.lines[i].key].line = i

Opened ==
  file.state = "none" =>
    line = 0 /\ DOMAIN values = {} /\ profile = Unset /\ fault = NoFault

ProfileInv == ProfileTypeOK /\ Opened /\ TableAsWritten /\ ReadFaithfully

USE DEF profileVars

LEMMA LineTyped ==
  ASSUME ProfileTypeOK, NEW i \in DOMAIN file.lines
  PROVE  /\ file.lines[i].form \in {"skipped", "syntax", "pair"}
         /\ file.lines[i].value \in Value
<1>1. file.lines[i] \in Line
  BY DEF ProfileTypeOK
<1> QED BY <1>1 DEF Line

----------------------------------------------------------------------------
(* Opening the file.                                                       *)

LEMMA OpenKeeps == ASSUME ProfileInv, OpenFile  PROVE ProfileInv'
<1>1. PICK f \in Files : file' = f
  BY DEF OpenFile
<1>2. f.lines \in Seq(Line) /\ f.state # "none"
  BY FilesAssumption
<1>3. /\ line = 0 /\ DOMAIN values = {} /\ profile = Unset /\ fault = NoFault
      /\ line' = line /\ values' = values /\ profile' = profile /\ fault' = fault
  BY DEF OpenFile, ProfileInv, Opened
<1>4. ProfileTypeOK'
  <2>1. Len(f.lines) \in Nat
    BY <1>2
  <2> QED BY <1>1, <1>2, <1>3, <2>1 DEF ProfileTypeOK, NoFault
<1>5. Opened' /\ TableAsWritten'
  BY <1>1, <1>2, <1>3 DEF Opened, TableAsWritten
<1>6. ReadFaithfully'
  BY <1>3 DEF ReadFaithfully, FirstOffence, FieldOffence, ProfileAsWritten, NoFault, LineFaults,
              FieldFaults
<1> QED BY <1>4, <1>5, <1>6 DEF ProfileInv

----------------------------------------------------------------------------
(* The lines.                                                              *)

\* What the code refuses a line for is what offends in it: the table tells
\* whether a key stands on an earlier line.
LEMMA RefusedIsOffence ==
  ASSUME ProfileInv, ReadingLines
  PROVE  /\ LineFault(NextLine) \in LineFaults \cup {"none"}
         /\ Offends(line + 1) <=> LineFault(NextLine) # "none"
<1>1. line + 1 \in DOMAIN file.lines /\ line \in Nat /\ (line + 1) - 1 = line
  BY DEF ReadingLines, ProfileInv, ProfileTypeOK
<1>2. NextLine.form \in {"skipped", "syntax", "pair"}
  BY <1>1, LineTyped DEF ProfileInv, NextLine
<1>3. (\E j \in 1..line : j \in Standing(NextLine.key)) <=> NextLine.key \in DOMAIN values
  BY <1>1 DEF ProfileInv, TableAsWritten, Standing
<1>4. LineFault(NextLine) \in LineFaults \cup {"none"}
  BY <1>2 DEF LineFault, LineFaults
<1>5. Offends(line + 1) <=>
        \/ NextLine.form = "syntax"
        \/ NextLine.form = "pair" /\ (NextLine.key \notin Supported \/ NextLine.key \in DOMAIN values)
  BY <1>1, <1>3 DEF Offends, NextLine
<1>6. LineFault(NextLine) # "none" <=>
        \/ NextLine.form = "syntax"
        \/ NextLine.form = "pair" /\ (NextLine.key \notin Supported \/ NextLine.key \in DOMAIN values)
  BY <1>2 DEF LineFault, Reserved, Supported
<1> QED BY <1>4, <1>5, <1>6

\* While there is no result, ReadFaithfully has nothing to say.
LEMMA NothingRead ==
  ASSUME profile' = Unset, fault' = NoFault  PROVE ReadFaithfully'
  BY DEF ReadFaithfully, FirstOffence, FieldOffence, ProfileAsWritten, NoFault, LineFaults,
         FieldFaults

LEMMA SkipKeeps == ASSUME ProfileInv, SkipLine  PROVE ProfileInv'
<1>1. /\ ReadingLines /\ line' = line + 1 /\ line < Len(file.lines) /\ NextLine.form = "skipped"
      /\ file' = file /\ values' = values /\ profile' = profile /\ fault' = fault
      /\ profile = Unset /\ fault = NoFault /\ file.state = "text"
  BY DEF SkipLine, ReadingLines, Reading
<1>2. ProfileTypeOK'
  BY <1>1 DEF ProfileInv, ProfileTypeOK
<1>3. ~Offends(line + 1)
  BY <1>1 DEF Offends, NextLine
<1>4. TableAsWritten'
  BY <1>1, <1>3 DEF ProfileInv, ProfileTypeOK, TableAsWritten, Offends, Standing, NextLine
<1> QED BY <1>1, <1>2, <1>4, NothingRead DEF ProfileInv, Opened

LEMMA RecordKeeps == ASSUME ProfileInv, RecordLine  PROVE ProfileInv'
<1>1. /\ ReadingLines /\ line' = line + 1 /\ line < Len(file.lines) /\ NextLine.form = "pair"
      /\ LineFault(NextLine) = "none"
      /\ values' = [k \in DOMAIN values \cup {NextLine.key} |->
                      IF k = NextLine.key THEN [value |-> NextLine.value, line |-> line + 1]
                      ELSE values[k]]
      /\ file' = file /\ profile' = profile /\ fault' = fault
      /\ profile = Unset /\ fault = NoFault /\ file.state = "text"
  BY DEF RecordLine, ReadingLines, Reading
<1>2. ~Offends(line + 1)
  BY <1>1, RefusedIsOffence
<1>3. line \in Nat /\ line + 1 \in DOMAIN file.lines /\ NextLine.value \in Value
  BY <1>1, LineTyped DEF ProfileInv, ProfileTypeOK, NextLine
<1>4. NextLine.key \in Supported /\ NextLine.key \notin DOMAIN values
  BY <1>1, <1>3 DEF LineFault, Reserved, Supported
<1>5. ProfileTypeOK'
  BY <1>1, <1>3, <1>4 DEF ProfileInv, ProfileTypeOK
<1>6. TableAsWritten'
  <2>1. \A i \in 1..(line + 1) : ~Offends(i)
    BY <1>2, <1>3 DEF ProfileInv, TableAsWritten
  <2>2. (\A i \in 1..line : ~Offends(i))'
    BY <1>1, <2>1 DEF Offends, Standing
  <2>3. ASSUME NEW k \in DOMAIN values'
        PROVE  /\ values'[k].line \in 1..(line + 1) /\ values'[k].line \in Standing(k)
               /\ values'[k].value = file.lines[values'[k].line].value
    BY <1>1, <1>3, <2>3 DEF ProfileInv, TableAsWritten, Standing, NextLine
  <2>4. ASSUME NEW i \in 1..(line + 1), file.lines[i].form = "pair"
        PROVE  file.lines[i].key \in DOMAIN values' /\ values'[file.lines[i].key].line = i
    BY <1>1, <1>3, <1>4, <2>4 DEF ProfileInv, TableAsWritten, NextLine
  <2> QED BY <1>1, <2>2, <2>3, <2>4 DEF TableAsWritten, Standing
<1> QED BY <1>1, <1>5, <1>6, NothingRead DEF ProfileInv, Opened

LEMMA RefusalsKeep ==
  ASSUME ProfileInv, RefuseFile \/ RefuseLine  PROVE ProfileInv'
<1>1. /\ file' = file /\ line' = line /\ values' = values /\ profile' = profile
      /\ profile = Unset /\ fault = NoFault /\ file.state # "none"
  BY DEF RefuseFile, RefuseLine, ReadingLines, Reading
<1>2. TableAsWritten' /\ Opened' /\ ProfileAsWritten'
  BY <1>1 DEF ProfileInv, TableAsWritten, Offends, Standing, Opened, ProfileAsWritten
<1>3. CASE RefuseFile
  BY <1>1, <1>2, <1>3 DEF RefuseFile, ProfileInv, ProfileTypeOK, ReadFaithfully, FirstOffence,
     FieldOffence, FileFaults, LineFaults, FieldFaults, NoFault
<1>4. CASE RefuseLine
  <2>1. fault'.code \in LineFaults /\ fault'.line = line + 1 /\ line < Len(file.lines) /\ Offends(line + 1)
    BY <1>4, RefusedIsOffence DEF RefuseLine, ReadingLines
  <2>2. ProfileTypeOK'
    BY <1>1, <2>1 DEF ProfileInv, ProfileTypeOK
  <2>3. FirstOffence'
    BY <1>1, <2>1 DEF FirstOffence, ProfileInv, ProfileTypeOK, TableAsWritten, Offends, Standing
  <2>4. FieldOffence'
    BY <2>1 DEF FieldOffence, LineFaults, FieldFaults
  <2> QED BY <1>2, <2>2, <2>3, <2>4 DEF ProfileInv, ReadFaithfully
<1> QED BY <1>3, <1>4

----------------------------------------------------------------------------
(* The fields.                                                             *)

\* With every line read, the table knows where each key stands.
LEMMA TableIsComplete ==
  ASSUME ProfileInv, LinesDone, NEW k \in Supported
  PROVE  /\ \A i \in DOMAIN file.lines : ~Offends(i)
         /\ Given(k) => /\ Standing(k) = {values[k].line} /\ values[k].line \in DOMAIN file.lines
                        /\ values[k].value = file.lines[values[k].line].value
         /\ ~Given(k) => Standing(k) = {}
<1>1. DOMAIN file.lines = 1..line
  BY DEF ProfileInv, ProfileTypeOK, LinesDone
<1> QED BY <1>1 DEF ProfileInv, TableAsWritten, Standing, Given

LEMMA FieldRefusalKeeps == ASSUME ProfileInv, RefuseField  PROVE ProfileInv'
<1>1. PICK n \in DOMAIN FieldOrder :
        fault' = [code |-> FieldCode(FieldOrder[n]), line |-> LineOf(FieldOrder[n]),
                  key |-> FieldOrder[n]]
  BY DEF RefuseField
<1>2. /\ LinesDone /\ file' = file /\ line' = line /\ values' = values /\ profile' = profile
      /\ profile = Unset /\ file.state = "text"
  BY DEF RefuseField, LinesDone, Reading
<1>3. FieldOrder[n] \in Supported
  BY DEF FieldOrder, Supported
<1>4. TableAsWritten' /\ Opened' /\ ProfileAsWritten'
  BY <1>2 DEF ProfileInv, TableAsWritten, Offends, Standing, Opened, ProfileAsWritten
<1>5. /\ fault'.code \in FieldFaults /\ fault'.key = FieldOrder[n]
      /\ fault'.line = LineOf(FieldOrder[n])
  BY <1>1 DEF FieldCode, FieldFaults
<1>6. LineOf(FieldOrder[n]) \in 0..Len(file.lines)
  BY DEF LineOf, Given, ProfileInv, ProfileTypeOK
<1>7. ProfileTypeOK'
  BY <1>2, <1>5, <1>6 DEF ProfileInv, ProfileTypeOK
<1>8. FieldOffence'
  <2>1. \A i \in DOMAIN file.lines : ~Offends(i)
    BY <1>2, <1>3, TableIsComplete
  <2>2. IF LineOf(FieldOrder[n]) = 0 THEN Standing(FieldOrder[n]) = {}
        ELSE Standing(FieldOrder[n]) = {LineOf(FieldOrder[n])}
    <3>1. Given(FieldOrder[n]) => LineOf(FieldOrder[n]) # 0
      BY DEF LineOf, Given, ProfileInv, ProfileTypeOK
    <3> QED BY <1>2, <1>3, <3>1, TableIsComplete DEF LineOf
  <2> QED BY <1>2, <1>5, <2>1, <2>2 DEF FieldOffence, Offends, Standing
<1>9. FirstOffence'
  BY <1>5 DEF FirstOffence, LineFaults, FieldFaults
<1> QED BY <1>4, <1>7, <1>8, <1>9 DEF ProfileInv, ReadFaithfully

LEMMA AcceptKeeps == ASSUME ProfileInv, AcceptProfile  PROVE ProfileInv'
<1>1. /\ LinesDone /\ file' = file /\ line' = line /\ values' = values /\ fault' = fault
      /\ fault = NoFault /\ file.state = "text"
      /\ profile' = [k \in Supported |-> ValueOf(k)]
  BY DEF AcceptProfile, LinesDone, Reading
<1>2. ProfileTypeOK' /\ TableAsWritten' /\ Opened'
  BY <1>1 DEF ProfileInv, ProfileTypeOK, TableAsWritten, Offends, Standing, Opened
<1>3. ProfileAsWritten'
  <2>1. \A i \in DOMAIN file.lines : ~Offends(i)
    BY <1>1, TableIsComplete DEF Supported
  <2>2. profile'["FLIGHT_SOURCE"] = ValueOf("FLIGHT_SOURCE")
    BY <1>1 DEF Supported
  <2>3. ASSUME NEW k \in Supported
        PROVE  \/ /\ k = "FLIGHT_REF" /\ profile'["FLIGHT_SOURCE"] = "interactive"
                  /\ Standing(k) = {} /\ profile'[k] = Unset
               \/ \E i \in DOMAIN file.lines :
                    /\ Standing(k) = {i}
                    /\ profile'[k] = file.lines[i].value
                    /\ WellFormed(k, profile'[k], profile'["FLIGHT_SOURCE"])
    <3>1. FieldSound(k) /\ profile'[k] = ValueOf(k)
      BY <1>1 DEF AcceptProfile
    <3>2. CASE k = "FLIGHT_REF" /\ ValueOf("FLIGHT_SOURCE") = "interactive"
      BY <1>1, <2>2, <3>1, <3>2, TableIsComplete DEF FieldSound, ValueOf
    <3>3. CASE ~(k = "FLIGHT_REF" /\ ValueOf("FLIGHT_SOURCE") = "interactive")
      <4>1. Given(k) /\ WellFormed(k, profile'[k], profile'["FLIGHT_SOURCE"])
        BY <2>2, <3>1, <3>3 DEF FieldSound
      <4> QED BY <1>1, <3>1, <4>1, TableIsComplete DEF ValueOf
    <3> QED BY <3>2, <3>3
  <2>4. \A k : Standing(k)' = Standing(k)
    BY <1>1 DEF Standing
  <2>5. (\A i \in DOMAIN file.lines : ~Offends(i))'
    BY <1>1, <2>1 DEF Offends, Standing
  <2> QED BY <1>1, <2>3, <2>4, <2>5 DEF ProfileAsWritten, WellFormed
<1>4. FirstOffence' /\ FieldOffence'
  BY <1>1 DEF FirstOffence, FieldOffence, NoFault, LineFaults, FieldFaults
<1> QED BY <1>2, <1>3, <1>4 DEF ProfileInv, ReadFaithfully

----------------------------------------------------------------------------
LEMMA ProfileInvariant == ProfileSpec => []ProfileInv
<1>1. ProfileInit => ProfileInv
  BY DEF ProfileInit, ProfileInv, ProfileTypeOK, Opened, TableAsWritten, ReadFaithfully,
         FirstOffence, FieldOffence, ProfileAsWritten, NoFault, LineFaults, FieldFaults
<1>2. ProfileInv /\ [ProfileNext]_profileVars => ProfileInv'
  <2>1. ASSUME ProfileInv, ProfileNext  PROVE ProfileInv'
    BY <2>1, OpenKeeps, SkipKeeps, RecordKeeps, RefusalsKeep, FieldRefusalKeeps, AcceptKeeps
       DEF ProfileNext
  <2>2. ASSUME ProfileInv, UNCHANGED profileVars  PROVE ProfileInv'
    <3>1. ProfileTypeOK' /\ Opened'
      BY <2>2 DEF ProfileInv, ProfileTypeOK, Opened
    <3>2. TableAsWritten'
      BY <2>2 DEF ProfileInv, TableAsWritten, Offends, Standing
    <3>3. ReadFaithfully'
      BY <2>2 DEF ProfileInv, ReadFaithfully, FirstOffence, FieldOffence, ProfileAsWritten,
                  Offends, Standing
    <3> QED BY <3>1, <3>2, <3>3 DEF ProfileInv
  <2> QED BY <2>1, <2>2
<1> QED BY <1>1, <1>2, PTL DEF ProfileSpec

\* Type correctness of the reader of rig.conf.
THEOREM ProfileTypeCorrect == ProfileSpec => []ProfileTypeOK
<1>1. ProfileInv => ProfileTypeOK
  BY DEF ProfileInv
<1> QED BY <1>1, ProfileInvariant, PTL

\* ReadFaithfully: of every file, a profile has exactly what its lines say, and
\* a diagnostic names the first line that offends or the field that is wrong.
THEOREM FilesAreReadFaithfully == ProfileSpec => []ReadFaithfully
<1>1. ProfileInv => ReadFaithfully
  BY DEF ProfileInv
<1> QED BY <1>1, ProfileInvariant, PTL

----------------------------------------------------------------------------
(***************************************************************************)
(* The order of the pools.  With distinct priorities the numbers of pools  *)
(* before each are 0, 1, ... in some order, so the order exists and is     *)
(* strict, and a list in strict order stays as it is.                      *)
(***************************************************************************)
Before(pools, i) == {j \in DOMAIN pools : pools[j].priority < pools[i].priority}

Distinct(pools) == \A i, j \in DOMAIN pools : i # j => pools[i].priority # pools[j].priority

Increasing(pools) == \A i, j \in DOMAIN pools : i < j => pools[i].priority < pools[j].priority

LEMMA PoolsTyped ==
  ASSUME NEW pools \in Seq(Pool)
  PROVE  /\ DOMAIN pools = 1..Len(pools) /\ Len(pools) \in Nat
         /\ \A i \in DOMAIN pools : pools[i] \in Pool /\ pools[i].priority \in Int
<1>1. \A i \in DOMAIN pools : pools[i] \in Pool
  OBVIOUS
<1>2. \A pool \in Pool : pool.priority \in Int
  BY DEF Pool
<1> QED BY <1>1, <1>2

LEMMA UpToCounted ==
  ASSUME NEW n \in Nat
  PROVE  /\ IsFiniteSet(1..n) /\ Cardinality(1..n) = n
         /\ IsFiniteSet(0..(n - 1)) /\ Cardinality(0..(n - 1)) = n
<1>1. n \in Int /\ n - 1 \in Int
  OBVIOUS
<1>2. IsFiniteSet(1..n) /\ Cardinality(1..n) = IF 1 > n THEN 0 ELSE n - 1 + 1
  BY <1>1, FS_Interval
<1>3. /\ IsFiniteSet(0..(n - 1))
      /\ Cardinality(0..(n - 1)) = IF 0 > n - 1 THEN 0 ELSE n - 1 - 0 + 1
  BY <1>1, FS_Interval
<1> QED BY <1>2, <1>3

\* How many pools stand before one.
LEMMA BeforeCounted ==
  ASSUME NEW pools \in Seq(Pool), NEW i \in DOMAIN pools
  PROVE  /\ IsFiniteSet(Before(pools, i))
         /\ Cardinality(Before(pools, i)) \in 0..(Len(pools) - 1)
<1>1. DOMAIN pools = 1..Len(pools) /\ Len(pools) \in Nat /\ pools[i].priority \in Int
  BY PoolsTyped
<1>2. IsFiniteSet(DOMAIN pools) /\ Cardinality(DOMAIN pools) = Len(pools)
  BY <1>1, UpToCounted
<1>3. /\ IsFiniteSet(DOMAIN pools \ {i})
      /\ Cardinality(DOMAIN pools \ {i}) = Len(pools) - 1
  BY <1>2, FS_RemoveElement
<1>4. Before(pools, i) \subseteq DOMAIN pools \ {i}
  BY <1>1 DEF Before
<1>5. /\ IsFiniteSet(Before(pools, i))
      /\ Cardinality(Before(pools, i)) <= Len(pools) - 1
  BY <1>3, <1>4, FS_Subset
<1>6. Cardinality(Before(pools, i)) \in Nat
  BY <1>5, FS_CardinalityType
<1> QED BY <1>1, <1>5, <1>6

LEMMA BeforeGrows ==
  ASSUME NEW pools \in Seq(Pool), NEW i \in DOMAIN pools, NEW j \in DOMAIN pools,
         pools[i].priority < pools[j].priority
  PROVE  Cardinality(Before(pools, i)) < Cardinality(Before(pools, j))
<1>1. \A k \in DOMAIN pools : pools[k].priority \in Int
  BY PoolsTyped
<1>2. Before(pools, i) \subseteq Before(pools, j)
  BY <1>1 DEF Before
<1>3. i \in Before(pools, j) /\ i \notin Before(pools, i)
  BY <1>1 DEF Before
<1>4. /\ IsFiniteSet(Before(pools, i)) /\ IsFiniteSet(Before(pools, j))
      /\ Cardinality(Before(pools, i)) \in Int /\ Cardinality(Before(pools, j)) \in Int
  BY BeforeCounted
<1>5. /\ Cardinality(Before(pools, i)) <= Cardinality(Before(pools, j))
      /\ Cardinality(Before(pools, i)) # Cardinality(Before(pools, j))
  BY <1>2, <1>3, <1>4, FS_Subset
<1> QED BY <1>4, <1>5

\* Every place is taken.
LEMMA EveryPlaceTaken ==
  ASSUME NEW pools \in Seq(Pool), Distinct(pools), NEW k \in DOMAIN pools
  PROVE  \E i \in DOMAIN pools : Cardinality(Before(pools, i)) = k - 1
<1> DEFINE n == Len(pools)
           rank == [i \in 1..n |-> Cardinality(Before(pools, i))]
<1>1. n \in Nat /\ DOMAIN pools = 1..n
  BY PoolsTyped
<1>2. rank \in [1..n -> 0..(n - 1)]
  BY <1>1, BeforeCounted
<1>3. ASSUME NEW i \in 1..n, NEW j \in 1..n, rank[i] = rank[j]
      PROVE  i = j
  <2>1. Cardinality(Before(pools, i)) = Cardinality(Before(pools, j))
    BY <1>3
  <2>2. /\ pools[i].priority \in Int /\ pools[j].priority \in Int
        /\ Cardinality(Before(pools, i)) \in Int
    BY <1>1, PoolsTyped, BeforeCounted
  <2>3. /\ ~(pools[i].priority < pools[j].priority)
        /\ ~(pools[j].priority < pools[i].priority)
    BY <1>1, <2>1, <2>2, BeforeGrows
  <2>4. pools[i].priority = pools[j].priority
    BY <2>2, <2>3
  <2> QED BY <1>1, <2>4 DEF Distinct
<1> HIDE DEF rank
<1>4. rank \in Injection(1..n, 0..(n - 1))
  BY <1>2, <1>3, Fun_IsInj
<1>5. /\ IsFiniteSet(0..(n - 1)) /\ Cardinality(0..(n - 1)) = n /\ Cardinality(1..n) = n
  BY <1>1, UpToCounted
<1>6. rank \in Surjection(1..n, 0..(n - 1))
  BY <1>4, <1>5, FS_Injection
<1>7. k - 1 \in 0..(n - 1)
  BY <1>1
<1>8. PICK i \in 1..n : rank[i] = k - 1
  BY <1>6, <1>7 DEF Surjection
<1> QED BY <1>1, <1>8 DEF rank

LEMMA ByPriorityOrders ==
  ASSUME NEW pools \in Seq(Pool), Distinct(pools)
  PROVE  LET sorted == ByPriority(pools) IN
         /\ sorted \in Seq(Pool) /\ Len(sorted) = Len(pools)
         /\ Increasing(sorted)
         /\ \A k \in DOMAIN sorted : \E i \in DOMAIN pools : sorted[k] = pools[i]
<1> DEFINE at(k) == CHOOSE i \in DOMAIN pools : Cardinality(Before(pools, i)) = k - 1
           sorted == ByPriority(pools)
<1>1. \A k \in DOMAIN pools :
        at(k) \in DOMAIN pools /\ Cardinality(Before(pools, at(k))) = k - 1
  BY EveryPlaceTaken
<1>2. sorted = [k \in DOMAIN pools |-> pools[at(k)]]
  BY DEF ByPriority, Before
<1> HIDE DEF at, sorted
<1>3. DOMAIN pools = 1..Len(pools) /\ Len(pools) \in Nat
  BY PoolsTyped
<1>4. \A k \in DOMAIN pools : pools[at(k)] \in Pool /\ pools[at(k)].priority \in Int
  BY <1>1, PoolsTyped
<1>5. sorted \in Seq(Pool) /\ Len(sorted) = Len(pools) /\ DOMAIN sorted = DOMAIN pools
  BY <1>2, <1>3, <1>4
<1>6. ASSUME NEW k \in DOMAIN pools, NEW l \in DOMAIN pools, k < l
      PROVE  pools[at(k)].priority < pools[at(l)].priority
  <2>1. ~(pools[at(l)].priority < pools[at(k)].priority)
    BY <1>1, <1>3, <1>6, BeforeGrows
  <2>2. at(k) # at(l)
    BY <1>1, <1>3, <1>6
  <2>3. pools[at(k)].priority # pools[at(l)].priority
    BY <1>1, <2>2 DEF Distinct
  <2> QED BY <1>4, <2>1, <2>3
<1>7. Increasing(sorted)
  BY <1>2, <1>5, <1>6 DEF Increasing
<1> QED BY <1>1, <1>2, <1>5, <1>7 DEF sorted

LEMMA ByPriorityKeepsOrder ==
  ASSUME NEW pools \in Seq(Pool), Increasing(pools)
  PROVE  ByPriority(pools) = pools
<1>1. DOMAIN pools = 1..Len(pools) /\ Len(pools) \in Nat
  BY PoolsTyped
<1>2. \A i \in DOMAIN pools : pools[i].priority \in Int
  BY PoolsTyped
<1>3. ASSUME NEW i \in DOMAIN pools
      PROVE  Cardinality(Before(pools, i)) = i - 1
  <2>1. ASSUME NEW j \in DOMAIN pools
        PROVE  pools[j].priority < pools[i].priority <=> j < i
    <3>1. CASE j < i
      BY <3>1 DEF Increasing
    <3>2. CASE i < j
      <4>1. pools[i].priority < pools[j].priority
        BY <3>2 DEF Increasing
      <4> QED BY <1>1, <1>2, <3>2, <4>1
    <3>3. CASE i = j
      BY <1>1, <1>2, <3>3
    <3> QED BY <1>1, <3>1, <3>2, <3>3
  <2>2. Before(pools, i) = 1..(i - 1)
    BY <1>1, <2>1 DEF Before
  <2> QED BY <1>1, <2>2, FS_Interval
<1>4. ASSUME NEW k \in DOMAIN pools
      PROVE  (CHOOSE i \in DOMAIN pools : Cardinality(Before(pools, i)) = k - 1) = k
  <2>1. \A i \in DOMAIN pools : Cardinality(Before(pools, i)) = k - 1 <=> i = k
    BY <1>1, <1>3
  <2> QED BY <2>1
<1>5. ByPriority(pools) = [k \in DOMAIN pools |-> pools[k]]
  <2> DEFINE at(k) == CHOOSE i \in DOMAIN pools : Cardinality(Before(pools, i)) = k - 1
  <2>1. ByPriority(pools) = [k \in DOMAIN pools |-> pools[at(k)]]
    BY DEF ByPriority, Before
  <2>2. \A k \in DOMAIN pools : at(k) = k
    BY <1>4
  <2> HIDE DEF at
  <2> QED BY <2>1, <2>2
<1>6. pools = [k \in DOMAIN pools |-> pools[k]]
  OBVIOUS
<1> QED BY <1>5, <1>6

----------------------------------------------------------------------------
(***************************************************************************)
(* validate_sheet.  What it changed is valid, and is left alone by the     *)
(* next reader.                                                            *)
(***************************************************************************)
Lowered(pools) == [i \in DOMAIN pools |-> LowerHost(pools[i])]

Settled(s) == s \in Sheet /\ ValidSheet(s) /\ ByPriority(Lowered(s.pools)) = s.pools

LEMMA LowerHostKeeps ==
  ASSUME NEW pool \in Pool
  PROVE  LET l == LowerHost(pool) IN
         /\ l \in Pool /\ l.host = Lower(pool.host) /\ l.host.word = pool.host.word
         /\ l.port = pool.port /\ l.tls = pool.tls /\ l.priority = pool.priority
         /\ LowerHost(l) = l
<1>1. pool.host \in Cased
  BY DEF Pool
<1>2. /\ Lower(pool.host) \in Cased /\ Lower(pool.host).word = pool.host.word
      /\ Lower(Lower(pool.host)) = Lower(pool.host)
  BY <1>1 DEF Lower, Cased
<1> DEFINE l == LowerHost(pool)
<1>3. l = [pool EXCEPT !.host = Lower(pool.host)]
  BY DEF LowerHost
<1>4. /\ l \in Pool /\ l.host = Lower(pool.host)
      /\ l.port = pool.port /\ l.tls = pool.tls /\ l.priority = pool.priority
  BY <1>2, <1>3 DEF Pool
<1> HIDE DEF l
<1>5. LowerHost(l) = [l EXCEPT !.host = l.host]
  BY <1>2, <1>4 DEF LowerHost
<1>6. LowerHost(l) = l
  BY <1>4, <1>5 DEF Pool
<1> QED BY <1>2, <1>4, <1>6 DEF l

\* The fields of a sheet but its pools.
LEMMA PoolsReplaced ==
  ASSUME NEW s \in Sheet, NEW pools \in Seq(Pool)
  PROVE  LET c == [s EXCEPT !.pools = pools] IN
         /\ c \in Sheet /\ c.pools = pools
         /\ c.metadata = s.metadata /\ c.name = s.name /\ c.algorithm = s.algorithm
         /\ c.identityRef = s.identityRef /\ c.worker = s.worker /\ c.threads = s.threads
         /\ c.hugePages = s.hugePages /\ c.hint = s.hint
BY DEF Sheet

LEMMA LoweredKeeps ==
  ASSUME NEW pools \in Seq(Pool)
  PROVE  /\ Lowered(pools) \in Seq(Pool) /\ Len(Lowered(pools)) = Len(pools)
         /\ DOMAIN Lowered(pools) = DOMAIN pools
         /\ \A i \in DOMAIN pools :
              /\ Lowered(pools)[i] = LowerHost(pools[i])
              /\ Lowered(pools)[i].priority = pools[i].priority
              /\ ValidPool(Lowered(pools)[i]) <=> ValidPool(pools[i])
              /\ LowerHost(Lowered(pools)[i]) = Lowered(pools)[i]
<1>1. /\ DOMAIN pools = 1..Len(pools) /\ Len(pools) \in Nat
      /\ \A i \in DOMAIN pools : pools[i] \in Pool
  BY PoolsTyped
<1>2. \A i \in DOMAIN pools : Lowered(pools)[i] = LowerHost(pools[i])
  BY DEF Lowered
<1>3. \A i \in DOMAIN pools : Lowered(pools)[i] \in Pool
  BY <1>1, <1>2, LowerHostKeeps
<1>4. /\ Lowered(pools) \in Seq(Pool) /\ Len(Lowered(pools)) = Len(pools)
      /\ DOMAIN Lowered(pools) = DOMAIN pools
  BY <1>1, <1>3 DEF Lowered
<1>5. ASSUME NEW i \in DOMAIN pools
      PROVE  /\ Lowered(pools)[i].priority = pools[i].priority
             /\ ValidPool(Lowered(pools)[i]) <=> ValidPool(pools[i])
             /\ LowerHost(Lowered(pools)[i]) = Lowered(pools)[i]
  <2> DEFINE l == LowerHost(pools[i])
  <2>1. /\ l.priority = pools[i].priority /\ LowerHost(l) = l
        /\ l.host.word = pools[i].host.word /\ l.port = pools[i].port
    BY <1>1, LowerHostKeeps
  <2>2. Lowered(pools)[i] = l
    BY <1>2
  <2> HIDE DEF l
  <2> QED BY <2>1, <2>2 DEF ValidPool
<1> QED BY <1>2, <1>4, <1>5

LEMMA CanonicalSettles ==
  ASSUME NEW s \in Sheet, ValidSheet(s)
  PROVE  LET c == Canonical(s) IN
         /\ Settled(c)
         /\ c.identityRef = s.identityRef /\ c.hugePages = s.hugePages
         /\ c.hint = s.hint /\ c.threads = s.threads
         /\ Increasing(s.pools) => c.pools = Lowered(s.pools)
<1> DEFINE low == Lowered(s.pools)
           sorted == ByPriority(low)
           c == Canonical(s)
<1>1. s.pools \in Seq(Pool)
  BY DEF Sheet
<1>2. /\ low \in Seq(Pool) /\ Len(low) = Len(s.pools) /\ DOMAIN low = DOMAIN s.pools
      /\ \A i \in DOMAIN low :
           /\ low[i].priority = s.pools[i].priority /\ ValidPool(low[i])
           /\ LowerHost(low[i]) = low[i]
  BY <1>1, LoweredKeeps DEF ValidSheet
<1>3. c = [s EXCEPT !.pools = sorted]
  BY DEF Canonical, Lowered
<1> HIDE DEF low
<1>4. Distinct(low)
  <2>1. \A i, j \in DOMAIN s.pools : i # j => s.pools[i].priority # s.pools[j].priority
    BY Zenon DEF ValidSheet
  <2> QED BY <1>2, <2>1, Zenon DEF Distinct
<1>5. /\ sorted \in Seq(Pool) /\ Len(sorted) = Len(low) /\ Increasing(sorted)
      /\ \A k \in DOMAIN sorted : \E i \in DOMAIN low : sorted[k] = low[i]
  BY <1>2, <1>4, ByPriorityOrders
<1> HIDE DEF sorted, c
<1>6. /\ c \in Sheet /\ c.pools = sorted
      /\ c.metadata = s.metadata /\ c.name = s.name /\ c.algorithm = s.algorithm
      /\ c.identityRef = s.identityRef /\ c.worker = s.worker /\ c.threads = s.threads
      /\ c.hugePages = s.hugePages /\ c.hint = s.hint
  BY <1>3, <1>5, PoolsReplaced
<1>7. \A k \in DOMAIN sorted : ValidPool(sorted[k]) /\ LowerHost(sorted[k]) = sorted[k]
  BY <1>2, <1>5
<1>8. ASSUME NEW i \in DOMAIN sorted, NEW j \in DOMAIN sorted, i # j
      PROVE  sorted[i].priority # sorted[j].priority
  <2>1. /\ DOMAIN sorted = 1..Len(sorted) /\ Len(sorted) \in Nat
        /\ sorted[i].priority \in Int /\ sorted[j].priority \in Int
    BY <1>5, PoolsTyped
  <2>2. i < j \/ j < i
    BY <1>8, <2>1
  <2>3. \A h, k \in DOMAIN sorted : h < k => sorted[h].priority < sorted[k].priority
    BY <1>5, Zenon DEF Increasing
  <2>4. CASE i < j
    <3>1. sorted[i].priority < sorted[j].priority
      BY <2>3, <2>4
    <3> QED BY <2>1, <3>1
  <2>5. CASE j < i
    <3>1. sorted[j].priority < sorted[i].priority
      BY <2>3, <2>5
    <3> QED BY <2>1, <3>1
  <2> QED BY <2>2, <2>4, <2>5
<1>9. ValidSheet(c)
  <2>1. Len(c.pools) \in 1..16
    <3>1. Len(s.pools) \in 1..16
      BY Zenon DEF ValidSheet
    <3> QED BY <1>2, <1>5, <1>6, <3>1, Zenon
  <2>2. \A i \in DOMAIN c.pools : ValidPool(c.pools[i])
    BY <1>6, <1>7
  <2>3. \A i, j \in DOMAIN c.pools : i # j => c.pools[i].priority # c.pools[j].priority
    BY <1>6, <1>8
  <2> QED BY <1>6, <2>1, <2>2, <2>3, Zenon DEF ValidSheet
<1>10. Lowered(sorted) = sorted
  <2>1. sorted = [k \in DOMAIN sorted |-> sorted[k]]
    BY <1>5
  <2> QED BY <1>7, <2>1 DEF Lowered
<1>11. ByPriority(sorted) = sorted
  BY <1>5, ByPriorityKeepsOrder
<1>12. Settled(c)
  BY <1>6, <1>9, <1>10, <1>11 DEF Settled
<1>13. ASSUME Increasing(s.pools)
       PROVE  c.pools = Lowered(s.pools)
  <2>1. Increasing(low)
    BY <1>2, <1>13 DEF Increasing
  <2> QED BY <1>2, <1>6, <2>1, ByPriorityKeepsOrder DEF sorted, low
<1> QED BY <1>6, <1>12, <1>13 DEF c

LEMMA SettledReadsBack ==
  ASSUME NEW s, Settled(s)
  PROVE  Validated(s) = s
<1>1. s.pools \in Seq(Pool) /\ ByPriority(Lowered(s.pools)) = s.pools
  BY DEF Settled, Sheet
<1>2. Canonical(s) = [s EXCEPT !.pools = s.pools]
  BY <1>1 DEF Canonical, Lowered
<1>3. [s EXCEPT !.pools = s.pools] = s
  BY DEF Settled, Sheet
<1> QED BY <1>2, <1>3 DEF Validated, Settled

\* What an import changes after validation keeps a sheet settled.
LEMMA SettledAlike ==
  ASSUME NEW s, Settled(s), NEW r \in Sheet,
         r.metadata = s.metadata, r.name = s.name, r.algorithm = s.algorithm,
         r.pools = s.pools, r.identityRef.word \in Slug, r.worker = s.worker,
         r.threads = s.threads, r.hint = s.hint
  PROVE  Settled(r)
<1>1. ValidSheet(s) /\ ByPriority(Lowered(s.pools)) = s.pools
  BY DEF Settled
<1>2. ValidSheet(r)
  BY <1>1, Zenon DEF ValidSheet
<1> QED BY <1>1, <1>2, Zenon DEF Settled

LEMMA IdentityLeftOpen ==
  ASSUME NEW s, Settled(s)
  PROVE  LET r == [s EXCEPT !.identityRef = Unresolved] IN
         /\ Settled(r) /\ r.identityRef = Unresolved
         /\ r.pools = s.pools /\ r.hugePages = s.hugePages
         /\ r.hint = s.hint /\ r.threads = s.threads
<1> DEFINE r == [s EXCEPT !.identityRef = Unresolved]
<1>1. Unresolved \in [kind: {"alias", "wal", "unresolved"}, word: STRING]
      /\ Unresolved.word \in Slug
  BY SheetsAssumption DEF Unresolved
<1>2. /\ r \in Sheet /\ r.identityRef = Unresolved
      /\ r.metadata = s.metadata /\ r.name = s.name /\ r.algorithm = s.algorithm
      /\ r.pools = s.pools /\ r.worker = s.worker
      /\ r.threads = s.threads /\ r.hugePages = s.hugePages /\ r.hint = s.hint
  BY <1>1 DEF Settled, Sheet
<1> HIDE DEF r
<1>3. r.identityRef.word \in Slug
  BY <1>1, <1>2
<1>4. Settled(r)
  BY <1>2, <1>3, SettledAlike
<1> QED BY <1>2, <1>4 DEF r

LEMMA PagesReplaced ==
  ASSUME NEW s, Settled(s), NEW pages \in BOOLEAN
  PROVE  LET r == [s EXCEPT !.hugePages = pages] IN
         /\ Settled(r) /\ r.hugePages = pages
         /\ r.pools = s.pools /\ r.identityRef = s.identityRef
         /\ r.hint = s.hint /\ r.threads = s.threads
<1> DEFINE r == [s EXCEPT !.hugePages = pages]
<1>1. /\ r \in Sheet /\ r.hugePages = pages /\ r.identityRef = s.identityRef
      /\ r.metadata = s.metadata /\ r.name = s.name /\ r.algorithm = s.algorithm
      /\ r.pools = s.pools /\ r.worker = s.worker
      /\ r.threads = s.threads /\ r.hint = s.hint
  BY DEF Settled, Sheet
<1> HIDE DEF r
<1>2. r.identityRef.word \in Slug
  BY <1>1 DEF Settled, ValidSheet
<1>3. Settled(r)
  BY <1>1, <1>2, SettledAlike
<1> QED BY <1>1, <1>3 DEF r

----------------------------------------------------------------------------
(***************************************************************************)
(* The inductive invariant of the preparation: once there is a profile it  *)
(* stays; a proposal holds a settled sheet, which for an import is the one *)
(* both readers made of the envelope; a revision is the one CommitRevision *)
(* fills in for an identity that matches.                                  *)
(***************************************************************************)
ProfileChosen ==
  /\ stage # "profile" => profile # Unset
  /\ stage \notin {"profile", "refused"} => profile["TIMEZONE"] \in Installed

NothingImported == stage \in {"profile", "located"} => origin = Absent

Imported(envelope, sheet) ==
  /\ envelope \in Envelopes /\ OneWorkload(envelope) /\ EntryImport(envelope) # Refused
  /\ sheet = Confirmable(EntryImport(envelope), Provenance(envelope))

ProposalSound ==
  stage \in {"proposed", "committed"} =>
    /\ Settled(proposal.sheet)
    /\ origin # Absent =>
         Imported(origin, proposal.sheet) /\ proposal.provenance = Provenance(origin)

RevisionWritten ==
  stage = "committed" =>
    \E identity \in Identities :
      Matches(identity, proposal.sheet) /\ revision = Revision(identity, earlier)

PreparationInv == ProfileChosen /\ NothingImported /\ ProposalSound /\ RevisionWritten

----------------------------------------------------------------------------
(***************************************************************************)
(* The library's reading of an envelope, member by member.                 *)
(***************************************************************************)
TextKeys == {"coin", "miner", "miner_name", "algo", "algorithm", "url", "template", "pass"}

LEMMA TextTyped ==
  ASSUME NEW o, JsonObject(o)
  PROVE  /\ TextAt(o, "name") \in Cased \cup {Absent}
         /\ \A key \in TextKeys : TextAt(o, key) \in STRING \cup {Absent}
BY DEF TextKeys, JsonObject, JsonOr, TextAt

\* strict_string_list, strict_bool_list and the loop over the URLs.
LEMMA PoolsOfUrls ==
  ASSUME NEW w, JsonObject(w), Pools(w) # Refused
  PROVE  LET urls == Urls(w)
             ssl == Get(w, "pool_ssl")
             pools == Pools(w) IN
         /\ urls \in Seq(PoolUrl) /\ ssl \in PoolSsl
         /\ pools \in Seq(Pool) /\ Len(pools) = Len(urls) /\ Increasing(pools)
         /\ \A i \in DOMAIN urls :
              /\ pools[i].host = urls[i].host /\ pools[i].port = urls[i].port
              /\ pools[i].tls = IF ssl.form = "one" THEN ssl.value ELSE ssl.value[i]
              /\ urls[i].scheme # "none" => pools[i].tls = (urls[i].scheme = "ssl")
<1> DEFINE urls == Urls(w)
           ssl == Get(w, "pool_ssl")
           tls == TlsList(ssl, Len(urls))
           pools == Pools(w)
<1>1. /\ urls # Refused /\ tls # Refused
      /\ \A i \in DOMAIN urls :
           ~(urls[i].scheme # "none" /\ tls[i] # (urls[i].scheme = "ssl")) /\ urls[i].port # Wrong
      /\ pools = [i \in DOMAIN urls |->
                    [host |-> urls[i].host, port |-> urls[i].port, tls |-> tls[i],
                     priority |-> i - 1]]
  BY Zenon DEF Pools
<1>2. urls \in Seq(PoolUrl)
  <2> DEFINE given == Or(Get(w, "pool_urls"), Get(w, "pools"))
  <2>1. given \notin {Absent, Wrong} /\ urls = given /\ \A i \in DOMAIN given : given[i] # Wrong
    BY <1>1, Zenon DEF Urls
  <2>2. given \in JsonOr(Seq(PoolUrl \cup {Wrong}))
    BY Zenon DEF JsonObject, Or
  <2> HIDE DEF given
  <2>3. given \in Seq(PoolUrl \cup {Wrong})
    BY <2>1, <2>2 DEF JsonOr
  <2>4. \A i \in DOMAIN given : given[i] \in PoolUrl
    BY <2>1, <2>3
  <2> QED BY <2>1, <2>3, <2>4
<1>3. ssl \in PoolSsl
  BY <1>1 DEF TlsList, JsonObject, JsonOr
<1>4. /\ \A i \in DOMAIN urls : tls[i] = IF ssl.form = "one" THEN ssl.value ELSE ssl.value[i]
      /\ \A i \in DOMAIN urls : tls[i] \in BOOLEAN
  <2>1. DOMAIN urls = 1..Len(urls) /\ Len(urls) \in Nat
    BY <1>2
  <2>2. CASE ssl.form = "one"
    <3>1. ssl.value \in BOOLEAN
      BY <1>3, <2>2 DEF PoolSsl
    <3>2. tls = [i \in 1..Len(urls) |-> ssl.value]
      BY <1>1, <2>2, Zenon DEF TlsList
    <3> QED BY <2>1, <2>2, <3>1, <3>2
  <2>3. CASE ssl.form # "one"
    <3>1. ssl.value \in Seq(BOOLEAN \cup {Wrong})
      BY <1>3, <2>3 DEF PoolSsl
    <3>2. tls = ssl.value /\ Len(ssl.value) = Len(urls)
          /\ \A i \in DOMAIN ssl.value : ssl.value[i] # Wrong
      BY <1>1, <2>3, Zenon DEF TlsList
    <3>3. \A i \in DOMAIN urls : ssl.value[i] \in BOOLEAN \cup {Wrong} /\ ssl.value[i] # Wrong
      BY <2>1, <3>1, <3>2
    <3> QED BY <2>3, <3>2, <3>3
  <2> QED BY <2>2, <2>3
<1> HIDE DEF urls, ssl, tls, pools
<1>5. DOMAIN urls = 1..Len(urls) /\ Len(urls) \in Nat
  BY <1>2
<1>6. ASSUME NEW i \in DOMAIN urls
      PROVE  /\ pools[i] \in Pool /\ pools[i].host = urls[i].host
             /\ pools[i].port = urls[i].port /\ pools[i].tls = tls[i]
             /\ pools[i].priority = i - 1
  <2>1. pools[i] = [host |-> urls[i].host, port |-> urls[i].port, tls |-> tls[i],
                    priority |-> i - 1]
    BY <1>1
  <2>2. urls[i] \in PoolUrl
    BY <1>2
  <2>3. urls[i].host \in Cased /\ urls[i].port \in Int
    BY <1>1, <2>2 DEF PoolUrl
  <2>4. tls[i] \in BOOLEAN /\ i - 1 \in Int
    BY <1>4, <1>5
  <2> QED BY <2>1, <2>3, <2>4 DEF Pool
<1>7. pools \in Seq(Pool) /\ Len(pools) = Len(urls) /\ DOMAIN pools = DOMAIN urls
  BY <1>1, <1>5, <1>6
<1>8. Increasing(pools)
  BY <1>5, <1>6, <1>7 DEF Increasing
<1>9. ASSUME NEW i \in DOMAIN urls, urls[i].scheme # "none"
      PROVE  pools[i].tls = (urls[i].scheme = "ssl")
  BY <1>1, <1>6, <1>9, Zenon
<1> QED BY <1>2, <1>3, <1>4, <1>6, <1>7, <1>8, <1>9 DEF urls, ssl, tls, pools

\* An embedded config leaves a policy of the same types.
CpuPolicy == [huge: BOOLEAN, hint: Nat]

LEMMA AfterConfigTyped ==
  ASSUME NEW c, JsonObject(c), NEW key \in {"cpu_config", "user_config"}, NEW cpu \in CpuPolicy
  PROVE  AfterConfig(cpu, c, key) \in CpuPolicy
<1> DEFINE fragment == Get(c, key)
           policy == IF fragment.cpu # Absent THEN fragment.cpu
                     ELSE IF key = "cpu_config" THEN fragment.flat
                     ELSE [huge |-> Absent, hint |-> Absent]
           huge == IF policy.huge \in {Absent, Wrong} THEN cpu.huge ELSE policy.huge
           hint == IF policy.hint \in {Absent, Wrong} THEN cpu.hint
                   ELSE IF policy.hint > 255 THEN 0 ELSE policy.hint
<1>1. CASE fragment \in {Absent, Wrong}
  BY <1>1, Zenon DEF AfterConfig
<1>2. CASE fragment \notin {Absent, Wrong}
  <2>1. fragment \in EmbeddedConfig
    BY <1>2 DEF JsonObject, JsonOr
  <2>2. fragment.flat \in CpuMembers /\ fragment.cpu \in CpuMembers \cup {Absent}
    BY <2>1 DEF EmbeddedConfig
  <2>3. [huge |-> Absent, hint |-> Absent] \in CpuMembers
    BY DEF CpuMembers, JsonOr
  <2>4. policy \in CpuMembers
    BY <2>2, <2>3, Zenon
  <2>5. AfterConfig(cpu, c, key) = [huge |-> huge, hint |-> hint]
    BY <1>2, Zenon DEF AfterConfig
  <2> HIDE DEF policy
  <2>6. huge \in BOOLEAN /\ hint \in Nat
    BY <2>4 DEF CpuMembers, JsonOr, CpuPolicy
  <2> QED BY <2>5, <2>6 DEF CpuPolicy
<1> QED BY <1>1, <1>2

\* What the library makes of the embedded configs, and the sheet it validates.
CpuOf(c) ==
  AfterConfig(AfterConfig([huge |-> TRUE, hint |-> 100], c, "cpu_config"), c, "user_config")

LEMMA CpuTyped ==
  ASSUME NEW c, JsonObject(c)
  PROVE  CpuOf(c) \in CpuPolicy
<1>1. [huge |-> TRUE, hint |-> 100] \in CpuPolicy
  BY DEF CpuPolicy
<1>2. AfterConfig([huge |-> TRUE, hint |-> 100], c, "cpu_config") \in CpuPolicy
  BY <1>1, AfterConfigTyped
<1> QED BY <1>2, AfterConfigTyped DEF CpuOf

NameOf(e) ==
  Lower(Or(Or(TextAt(Workload(e), "name"), TextAt(e, "name")),
           [word |-> "imported-xmrig", upper |-> FALSE]))

RawSheet(e) ==
  [metadata |-> Coin(e), name |-> NameOf(e), algorithm |-> Algorithm(e),
   pools |-> Pools(Workload(e)), identityRef |-> WalReference(Workload(e)),
   worker |-> WorkerTemplate(e), threads |-> 0,
   hugePages |-> CpuOf(MinerConfig(e)).huge, hint |-> CpuOf(MinerConfig(e)).hint]

Typed(e) == JsonObject(e) /\ JsonObject(Workload(e)) /\ JsonObject(MinerConfig(e))

LEMMA RawSheetTyped ==
  ASSUME NEW e, Typed(e), Pools(Workload(e)) # Refused, Algorithm(e) # Refused,
         WorkerTemplate(e) # Refused
  PROVE  RawSheet(e) \in Sheet
<1>1. Coin(e) \in STRING
  BY SheetsAssumption DEF Coin, Literals
<1>2. NameOf(e) \in Cased
  <2>1. /\ TextAt(Workload(e), "name") \in Cased \cup {Absent}
        /\ TextAt(e, "name") \in Cased \cup {Absent}
    BY TextTyped DEF Typed
  <2>2. [word |-> "imported-xmrig", upper |-> FALSE] \in Cased
    BY SheetsAssumption DEF Cased, Literals
  <2>3. Or(Or(TextAt(Workload(e), "name"), TextAt(e, "name")),
           [word |-> "imported-xmrig", upper |-> FALSE]) \in Cased
    BY <2>1, <2>2, Zenon DEF Or
  <2>4. \A word \in Cased : Lower(word) \in Cased
    BY DEF Lower, Cased
  <2> QED BY <2>3, <2>4, Zenon DEF NameOf
<1>3. Algorithm(e) \in STRING
  <2>1. /\ TextAt(MinerConfig(e), "algo") \in STRING \cup {Absent}
        /\ TextAt(MinerConfig(e), "algorithm") \in STRING \cup {Absent}
    BY TextTyped DEF Typed, TextKeys
  <2> DEFINE algo == Or(TextAt(MinerConfig(e), "algo"), TextAt(MinerConfig(e), "algorithm"))
  <2>2. algo \in STRING \cup {Absent}
    BY <2>1, Zenon DEF Or
  <2>3. (Algorithm(e) = algo /\ algo # Absent) \/ Algorithm(e) \in {Refused, "auto"}
    BY Zenon DEF Algorithm
  <2>4. "auto" \in STRING
    BY SheetsAssumption DEF Literals
  <2> QED BY <2>2, <2>3, <2>4
<1>4. Pools(Workload(e)) \in Seq(Pool)
  BY PoolsOfUrls, Zenon DEF Typed
<1>5. WalReference(Workload(e)) \in [kind: {"alias", "wal", "unresolved"}, word: STRING]
  BY SheetsAssumption DEF WalReference, Unresolved, Literals, Typed, JsonObject
<1>6. WorkerTemplate(e) \in STRING
  BY SheetsAssumption DEF WorkerTemplate, Literals
<1>7. CpuOf(MinerConfig(e)) \in CpuPolicy
  BY CpuTyped DEF Typed
<1>8. CpuOf(MinerConfig(e)).huge \in BOOLEAN /\ CpuOf(MinerConfig(e)).hint \in Int
  BY <1>7 DEF CpuPolicy
<1> QED BY <1>1, <1>2, <1>3, <1>4, <1>5, <1>6, <1>8 DEF RawSheet, Sheet

\* rigos_config::import_hive_style
LEMMA LibraryImports ==
  ASSUME NEW e, Typed(e), LibraryImport(e) # Refused
  PROVE  LET w == Workload(e)
             c == MinerConfig(e)
             sheet == LibraryImport(e) IN
         /\ Pools(w) # Refused
         /\ Settled(sheet)
         /\ sheet.pools = Lowered(Pools(w)) /\ sheet.identityRef = WalReference(w)
         /\ sheet.threads = 0
         /\ sheet.hugePages = CpuOf(c).huge /\ sheet.hint = CpuOf(c).hint
<1> DEFINE raw == RawSheet(e)
<1>1. /\ Pools(Workload(e)) # Refused
      /\ Algorithm(e) # Refused /\ WorkerTemplate(e) # Refused
      /\ LibraryImport(e) = Validated(raw)
  BY Zenon DEF LibraryImport, RawSheet, NameOf, CpuOf
<1>2. ValidSheet(raw) /\ LibraryImport(e) = Canonical(raw)
  BY <1>1, Zenon DEF Validated
<1>3. raw \in Sheet
  BY <1>1, RawSheetTyped
<1>4. /\ raw.pools = Pools(Workload(e)) /\ raw.identityRef = WalReference(Workload(e))
      /\ raw.threads = 0 /\ raw.hugePages = CpuOf(MinerConfig(e)).huge
      /\ raw.hint = CpuOf(MinerConfig(e)).hint
  BY DEF RawSheet
<1> HIDE DEF raw
<1>5. Increasing(raw.pools)
  BY <1>1, <1>4, PoolsOfUrls, Zenon DEF Typed
<1> QED BY <1>1, <1>2, <1>3, <1>4, <1>5, CanonicalSettles

----------------------------------------------------------------------------
(***************************************************************************)
(* The entry point gives the library the envelope without the members that *)
(* only it knows, which changes nothing of what the library reads.         *)
(***************************************************************************)
EntryOnly == {"cpu", "fork", "hugepages"}

LEMMA ObjectKeeps ==
  ASSUME NEW a, JsonObject(a), NEW b, b = [key \in DOMAIN b |-> b[key]],
         \A key : key \notin {"items", "miner_config"} => Get(b, key) \in {Get(a, key), Absent}
  PROVE  JsonObject(b)
BY DEF JsonObject, JsonOr

LEMMA StrippedKeeps ==
  ASSUME NEW e, Nested(e), OneWorkload(e), Typed(e)
  PROVE  LET r == Stripped(e) IN
         /\ Typed(r)
         /\ \A key : key # "miner_config" => Get(Workload(r), key) = Get(Workload(e), key)
         /\ \A key : key \notin EntryOnly => Get(MinerConfig(r), key) = Get(MinerConfig(e), key)
<1> DEFINE w == Workload(e)
           c == MinerConfig(e)
           d == Without(c, EntryOnly)
           v == [w EXCEPT !["miner_config"] = d]
           r == Stripped(e)
<1>1. /\ "items" \in DOMAIN e /\ "miner_config" \in DOMAIN w /\ c = w["miner_config"]
  BY DEF Nested, OneWorkload, Get, MinerConfig
<1>2. r = [e EXCEPT !["items"] = <<v>>]
  BY <1>1 DEF Stripped, EntryOnly
<1>3. JsonObject(e) /\ JsonObject(w) /\ JsonObject(c)
  BY DEF Typed
<1>4. /\ e = [key \in DOMAIN e |-> e[key]] /\ w = [key \in DOMAIN w |-> w[key]]
      /\ c = [key \in DOMAIN c |-> c[key]]
  BY <1>3, Zenon DEF JsonObject
<1> HIDE DEF w, c
<1>5. /\ d = [key \in DOMAIN d |-> d[key]]
      /\ \A key : Get(d, key) = IF key \in EntryOnly THEN Absent ELSE Get(c, key)
  BY DEF Without, Get
<1> HIDE DEF d
<1>6. /\ v = [key \in DOMAIN v |-> v[key]] /\ v["miner_config"] = d
      /\ "miner_config" \in DOMAIN v
      /\ \A key : key # "miner_config" => Get(v, key) = Get(w, key)
  BY <1>1, <1>4 DEF Get
<1> HIDE DEF v
<1>7. /\ r = [key \in DOMAIN r |-> r[key]] /\ r["items"] = <<v>> /\ "items" \in DOMAIN r
      /\ \A key : key # "items" => Get(r, key) = Get(e, key)
  BY <1>1, <1>2, <1>4 DEF Get
<1> HIDE DEF r
<1>8. Nested(r) /\ Workload(r) = v /\ MinerConfig(r) = d
  BY <1>6, <1>7 DEF Nested, Workload, MinerConfig
<1>9. JsonObject(r) /\ JsonObject(v) /\ JsonObject(d)
  BY <1>3, <1>5, <1>6, <1>7, ObjectKeeps
<1> QED BY <1>5, <1>6, <1>8, <1>9 DEF Typed, r, w, c

\* What the library reads of a workload and of its config.
LEMMA ReadTheSame ==
  ASSUME NEW w, NEW v, \A key : key # "miner_config" => Get(v, key) = Get(w, key),
         NEW c, NEW d, \A key : key \notin EntryOnly => Get(d, key) = Get(c, key)
  PROVE  Pools(v) = Pools(w) /\ WalReference(v) = WalReference(w) /\ CpuOf(d) = CpuOf(c)
<1>1. /\ Get(v, "pool_urls") = Get(w, "pool_urls") /\ Get(v, "pools") = Get(w, "pools")
      /\ Get(v, "pool_ssl") = Get(w, "pool_ssl") /\ Get(v, "wal_id") = Get(w, "wal_id")
  OBVIOUS
<1>2. Urls(v) = Urls(w)
  BY <1>1, Zenon DEF Urls
<1>3. Pools(v) = Pools(w)
  BY <1>1, <1>2 DEF Pools
<1>4. WalReference(v) = WalReference(w)
  BY <1>1, Zenon DEF WalReference
<1>5. /\ Get(d, "cpu_config") = Get(c, "cpu_config")
      /\ Get(d, "user_config") = Get(c, "user_config")
  BY DEF EntryOnly
<1>6. \A cpu : /\ AfterConfig(cpu, d, "cpu_config") = AfterConfig(cpu, c, "cpu_config")
               /\ AfterConfig(cpu, d, "user_config") = AfterConfig(cpu, c, "user_config")
  <2> TAKE cpu
  <2>1. AfterConfig(cpu, d, "cpu_config") = AfterConfig(cpu, c, "cpu_config")
    BY <1>5 DEF AfterConfig
  <2>2. AfterConfig(cpu, d, "user_config") = AfterConfig(cpu, c, "user_config")
    BY <1>5 DEF AfterConfig
  <2> QED BY <2>1, <2>2
<1>7. CpuOf(d) = CpuOf(c)
  BY <1>6, Zenon DEF CpuOf
<1> QED BY <1>3, <1>4, <1>7

\* import_hive_style of the entry point
LEMMA EntryImports ==
  ASSUME NEW e, OneWorkload(e), Typed(e), EntryImport(e) # Refused
  PROVE  LET w == Workload(e)
             c == MinerConfig(e)
             count == Get(c, "hugepages")
             sheet == EntryImport(e) IN
         /\ Pools(w) # Refused /\ (Nested(e) => ValidEntry(c))
         /\ Settled(sheet)
         /\ sheet.pools = Lowered(Pools(w)) /\ sheet.identityRef = WalReference(w)
         /\ sheet.threads = 0 /\ sheet.hint = CpuOf(c).hint
         /\ sheet.hugePages
              = IF Nested(e) /\ count # Absent THEN count > 0 ELSE CpuOf(c).huge
<1> DEFINE w == Workload(e)
           c == MinerConfig(e)
           count == Get(c, "hugepages")
           sheet == EntryImport(e)
<1>1. CASE ~Nested(e)
  <2>1. sheet = LibraryImport(e)
    BY <1>1 DEF EntryImport
  <2> QED BY <1>1, <2>1, LibraryImports
<1>2. CASE Nested(e)
  <2> DEFINE r == Stripped(e)
             given == LibraryImport(r)
  <2>1. /\ ValidEntry(c) /\ given # Refused
        /\ sheet = IF count = Absent THEN given ELSE [given EXCEPT !.hugePages = count > 0]
    BY <1>2, Zenon DEF EntryImport
  <2>2. /\ Typed(r)
        /\ Pools(Workload(r)) = Pools(w) /\ WalReference(Workload(r)) = WalReference(w)
        /\ CpuOf(MinerConfig(r)) = CpuOf(c)
    BY <1>2, StrippedKeeps, ReadTheSame
  <2>3. /\ Pools(w) # Refused /\ Settled(given)
        /\ given.pools = Lowered(Pools(w)) /\ given.identityRef = WalReference(w)
        /\ given.threads = 0
        /\ given.hugePages = CpuOf(c).huge /\ given.hint = CpuOf(c).hint
    BY <2>1, <2>2, LibraryImports
  <2> HIDE DEF given, sheet, w, c
  <2>4. CASE count = Absent
    BY <1>2, <2>1, <2>3, <2>4 DEF w, c, sheet
  <2>5. CASE count # Absent
    <3> DEFINE pages == count > 0
    <3>1. sheet = [given EXCEPT !.hugePages = pages]
      BY <2>1, <2>5
    <3>2. pages \in BOOLEAN
      OBVIOUS
    <3> HIDE DEF pages
    <3>3. /\ Settled(sheet) /\ sheet.hugePages = pages
          /\ sheet.pools = given.pools /\ sheet.identityRef = given.identityRef
          /\ sheet.hint = given.hint /\ sheet.threads = given.threads
      BY <2>3, <3>1, <3>2, PagesReplaced
    <3> QED BY <1>2, <2>1, <2>3, <2>5, <3>3, Zenon DEF w, c, sheet, pages
  <2> QED BY <2>4, <2>5
<1> QED BY <1>1, <1>2

----------------------------------------------------------------------------
(***************************************************************************)
(* The invariant is inductive.                                             *)
(***************************************************************************)
USE DEF preparationVars

LEMMA ProfileKept ==
  ASSUME profile # Unset, [ProfileNext]_profileVars
  PROVE  profile' = profile
BY DEF ProfileNext, OpenFile, RefuseFile, SkipLine, RefuseLine, RecordLine, RefuseField,
       AcceptProfile, LinesDone, Reading, ReadingLines

LEMMA PreparationBegins == ASSUME PreparationInit  PROVE PreparationInv
BY DEF PreparationInit, PreparationInv, ProfileChosen, NothingImported, ProposalSound,
       RevisionWritten

\* The steps that leave no proposal.
LEMMA NothingProposed ==
  ASSUME PreparationInv, Locate \/ NoReference \/ NoSheet
  PROVE  PreparationInv'
BY DEF Locate, NoReference, NoSheet, PreparationInv, ProfileChosen, NothingImported,
       ProposalSound, RevisionWritten

LEMMA NativeProposed == ASSUME PreparationInv, ReadNative  PROVE PreparationInv'
<1>1. /\ stage = "located" /\ origin = Absent /\ origin' = origin /\ profile # Unset
      /\ profile' = profile
  BY DEF ReadNative, PreparationInv, ProfileChosen, NothingImported
<1>2. PICK sheet \in NativeSheets : Proposed(Validated(sheet), Absent)
  BY DEF ReadNative
<1>3. CASE Validated(sheet) = Refused
  <2>1. stage' = "refused"
    BY <1>2, <1>3 DEF Proposed
  <2> QED BY <1>1, <2>1 DEF PreparationInv, ProfileChosen, NothingImported, ProposalSound,
             RevisionWritten
<1>4. CASE Validated(sheet) # Refused
  <2>1. stage' = "proposed" /\ proposal' = [sheet |-> Validated(sheet), provenance |-> Absent]
    BY <1>2, <1>4 DEF Proposed
  <2>2. ValidSheet(sheet) /\ Validated(sheet) = Canonical(sheet) /\ sheet \in Sheet
    BY <1>4, SheetsAssumption, Zenon DEF Validated
  <2>3. Settled(proposal'.sheet)
    BY <2>1, <2>2, CanonicalSettles
  <2> QED BY <1>1, <2>1, <2>3 DEF PreparationInv, ProfileChosen, NothingImported, ProposalSound,
             RevisionWritten, Settled
<1> QED BY <1>3, <1>4

LEMMA EnvelopesTyped ==
  ASSUME NEW e \in Envelopes, OneWorkload(e)  PROVE Typed(e)
BY SheetsAssumption DEF Typed

\* What is proposed for an envelope is settled, and is the sheet imported but for
\* the identity.
LEMMA ImportedSheet ==
  ASSUME NEW e \in Envelopes, NEW sheet, Imported(e, sheet)
  PROVE  LET w == Workload(e)
             c == MinerConfig(e)
             count == Get(c, "hugepages") IN
         /\ Typed(e) /\ Pools(w) # Refused /\ (Nested(e) => ValidEntry(c))
         /\ Settled(sheet) /\ sheet.pools = Lowered(Pools(w))
         /\ sheet.threads = 0 /\ sheet.hint = CpuOf(c).hint
         /\ sheet.hugePages
              = IF Nested(e) /\ count # Absent THEN count > 0 ELSE CpuOf(c).huge
<1> DEFINE w == Workload(e)
           c == MinerConfig(e)
           pages == IF Nested(e) /\ Get(c, "hugepages") # Absent THEN Get(c, "hugepages") > 0
                    ELSE CpuOf(c).huge
           read == EntryImport(e)
<1>1. /\ OneWorkload(e) /\ Typed(e) /\ read # Refused
      /\ sheet = read \/ sheet = [read EXCEPT !.identityRef = Unresolved]
  BY EnvelopesTyped, Zenon DEF Imported, Confirmable
<1>2. /\ Pools(w) # Refused /\ (Nested(e) => ValidEntry(c))
      /\ Settled(read) /\ read.pools = Lowered(Pools(w))
      /\ read.threads = 0 /\ read.hint = CpuOf(c).hint /\ read.hugePages = pages
  BY <1>1, EntryImports, Zenon
<1> HIDE DEF read, pages, w, c
<1>3. /\ Settled(sheet) /\ sheet.pools = read.pools /\ sheet.threads = read.threads
      /\ sheet.hint = read.hint /\ sheet.hugePages = read.hugePages
  BY <1>1, <1>2, IdentityLeftOpen
<1> QED BY <1>1, <1>2, <1>3, Zenon DEF w, c, pages

LEMMA ImportProposed == ASSUME PreparationInv, ReadImport  PROVE PreparationInv'
<1>1. stage = "located" /\ profile # Unset /\ profile' = profile
  BY DEF ReadImport, PreparationInv, ProfileChosen
<1>2. PICK e \in Envelopes :
        IF OneWorkload(e)
        THEN /\ Proposed(Confirmable(EntryImport(e), Provenance(e)), Provenance(e))
             /\ origin' = e
        ELSE stage' = "refused" /\ UNCHANGED <<proposal, origin>>
  BY DEF ReadImport
<1> DEFINE sheet == Confirmable(EntryImport(e), Provenance(e))
<1>3. CASE ~OneWorkload(e) \/ sheet = Refused
  <2>1. stage' = "refused"
    BY <1>2, <1>3 DEF Proposed
  <2> QED BY <1>1, <2>1 DEF PreparationInv, ProfileChosen, NothingImported, ProposalSound,
             RevisionWritten
<1>4. CASE OneWorkload(e) /\ sheet # Refused
  <2>1. /\ stage' = "proposed" /\ origin' = e
        /\ proposal' = [sheet |-> sheet, provenance |-> Provenance(e)]
    BY <1>2, <1>4 DEF Proposed
  <2>2. Imported(e, sheet)
    BY <1>4, Zenon DEF Imported, Confirmable
  <2>3. Settled(sheet)
    BY <2>2, ImportedSheet DEF Imported
  <2> HIDE DEF sheet
  <2>4. ProposalSound'
    BY <2>1, <2>2, <2>3 DEF ProposalSound, Settled, Imported
  <2> QED BY <1>1, <2>1, <2>4 DEF PreparationInv, ProfileChosen, NothingImported,
             RevisionWritten
<1> QED BY <1>3, <1>4

LEMMA RevisionCommitted == ASSUME PreparationInv, CommitRevision  PROVE PreparationInv'
<1>1. /\ stage = "proposed" /\ profile # Unset /\ profile' = profile
      /\ proposal' = proposal /\ origin' = origin
  BY DEF CommitRevision, PreparationInv, ProfileChosen
<1>2. PICK identity \in Identities, kept \in Earlier :
        IF ~ValidIdentity(identity) \/ ~Matches(identity, proposal.sheet)
        THEN stage' = "refused" /\ UNCHANGED <<earlier, revision>>
        ELSE stage' = "committed" /\ earlier' = kept /\ revision' = Revision(identity, kept)
  BY DEF CommitRevision
<1>3. ProfileChosen' /\ NothingImported'
  BY <1>1, <1>2 DEF PreparationInv, ProfileChosen, NothingImported
<1>4. ProposalSound'
  BY <1>1 DEF PreparationInv, ProposalSound, Settled, Imported
<1>5. RevisionWritten'
  BY <1>1, <1>2 DEF RevisionWritten, Revision
<1> QED BY <1>3, <1>4, <1>5 DEF PreparationInv

\* While rig.conf is read, and between the steps.
LEMMA PreparationWaits ==
  ASSUME PreparationInv, [ProfileNext]_profileVars, UNCHANGED preparationVars
  PROVE  PreparationInv'
<1>1. stage # "profile" => profile # Unset /\ profile' = profile
  BY ProfileKept DEF PreparationInv, ProfileChosen
<1>2. ProfileChosen' /\ NothingImported' /\ ProposalSound'
  BY <1>1 DEF PreparationInv, ProfileChosen, NothingImported, ProposalSound, Settled, Imported
<1>3. ASSUME stage = "committed"
      PROVE  \E identity \in Identities :
               Matches(identity, proposal.sheet)' /\ revision' = Revision(identity, earlier)'
  <2>1. PICK identity \in Identities :
          Matches(identity, proposal.sheet) /\ revision = Revision(identity, earlier)
    BY <1>3 DEF PreparationInv, RevisionWritten
  <2>2. Revision(identity, earlier)' = Revision(identity, earlier)
    BY <1>1, <1>3 DEF Revision, RuntimePolicy, RuntimeXmrig
  <2> QED BY <2>1, <2>2 DEF Matches
<1>4. RevisionWritten'
  BY <1>3 DEF RevisionWritten
<1> QED BY <1>2, <1>4 DEF PreparationInv

LEMMA PreparationInvariant == PreparationSpec => []PreparationInv
<1>1. ASSUME PreparationInv, [PreparationNext]_<<profileVars, preparationVars>>
      PROVE  PreparationInv'
  BY <1>1, NothingProposed, NativeProposed, ImportProposed, RevisionCommitted, PreparationWaits
     DEF PreparationNext, PreparationStep
<1> QED BY <1>1, PreparationBegins, PTL DEF PreparationSpec

\* What comes after rig.conf leaves its reader alone: the preparation implements
\* the specification of the reader, and ReadFaithfully holds of it too.
THEOREM PreparationImplementsProfile == PreparationSpec => ProfileSpec
<1>1. [PreparationNext]_<<profileVars, preparationVars>> => [ProfileNext]_profileVars
  BY DEF PreparationNext, PreparationStep, Locate, NoReference, NoSheet, ReadNative, ReadImport,
         CommitRevision
<1> QED BY <1>1, PTL DEF PreparationSpec, ProfileSpec

----------------------------------------------------------------------------
(***************************************************************************)
(* What a revision says.                                                   *)
(***************************************************************************)
LEMMA RevisionSays ==
  ASSUME PreparationInv, stage = "committed"
  PROVE  \E identity \in Identities :
           LET aliases == DOMAIN earlier \cup {identity.alias} IN
           /\ Matches(identity, proposal.sheet)
           /\ revision.sheet = proposal.sheet
           /\ revision.policy = RuntimePolicy(profile, proposal.sheet, identity)
           /\ revision.xmrig = RuntimeXmrig(profile, proposal.sheet, identity)
           /\ revision.identities
                = [alias \in aliases |->
                     IF alias = identity.alias THEN identity.value ELSE earlier[alias]]
           /\ revision.externalMap
                = IF proposal.provenance = Absent \/ proposal.provenance.reference = Absent
                  THEN Absent
                  ELSE [value |-> proposal.provenance.reference, identityRef |-> identity.alias]
<1>1. PICK identity \in Identities :
        Matches(identity, proposal.sheet) /\ revision = Revision(identity, earlier)
  BY DEF PreparationInv, RevisionWritten
<1> QED BY <1>1, Zenon DEF Revision

LEMMA XmrigSays ==
  ASSUME NEW identity, NEW sheet
  PROVE  LET x == RuntimeXmrig(profile, sheet, identity) IN
         /\ DOMAIN x.pools = DOMAIN sheet.pools
         /\ \A i \in DOMAIN sheet.pools :
              /\ x.pools[i].host = sheet.pools[i].host /\ x.pools[i].port = sheet.pools[i].port
              /\ x.pools[i].tls = sheet.pools[i].tls /\ x.pools[i].user = identity.value
              /\ x.pools[i].pass[1] = profile["NODE_NAME"]
         /\ sheet.pools \in Seq(Pool) => Len(x.pools) = Len(sheet.pools)
         /\ x.hugePages = sheet.hugePages
         /\ x.hint = IF sheet.threads = 0 THEN sheet.hint ELSE sheet.threads
<1> DEFINE pools == [i \in DOMAIN sheet.pools |->
                       [host |-> sheet.pools[i].host, port |-> sheet.pools[i].port,
                        tls |-> sheet.pools[i].tls, user |-> identity.value,
                        pass |-> Worker(sheet, profile["NODE_NAME"]), algo |-> sheet.algorithm]]
           x == RuntimeXmrig(profile, sheet, identity)
<1>1. /\ x.pools = pools /\ x.hugePages = sheet.hugePages
      /\ x.hint = IF sheet.threads = 0 THEN sheet.hint ELSE sheet.threads
  BY DEF RuntimeXmrig
<1>2. Worker(sheet, profile["NODE_NAME"])[1] = profile["NODE_NAME"]
  BY DEF Worker
<1>3. DOMAIN pools = DOMAIN sheet.pools
  OBVIOUS
<1>4. ASSUME NEW i \in DOMAIN sheet.pools
      PROVE  /\ pools[i].host = sheet.pools[i].host /\ pools[i].port = sheet.pools[i].port
             /\ pools[i].tls = sheet.pools[i].tls /\ pools[i].user = identity.value
             /\ pools[i].pass[1] = profile["NODE_NAME"]
  BY <1>2
<1> HIDE DEF pools, x
<1>5. ASSUME sheet.pools \in Seq(Pool)  PROVE Len(pools) = Len(sheet.pools)
  BY <1>3, <1>5 DEF pools
<1> QED BY <1>1, <1>3, <1>4, <1>5 DEF x

\* KeptSheetReadsBack: whatever sheet or envelope it came from, the sheet of a
\* revision is valid, and reading it back changes nothing of it.
THEOREM KeptSheetsReadBack == PreparationSpec => []KeptSheetReadsBack
<1>1. ASSUME PreparationInv, stage = "committed"
      PROVE  Validated(revision.sheet) = revision.sheet
  <2>1. revision.sheet = proposal.sheet
    BY <1>1, RevisionSays
  <2> QED BY <1>1, <2>1, SettledReadsBack DEF PreparationInv, ProposalSound
<1>2. PreparationInv => KeptSheetReadsBack
  BY <1>1 DEF KeptSheetReadsBack
<1> QED BY <1>2, PreparationInvariant, PTL

\* What an import leaves of the other system's identity.
LEMMA ReferenceLeftOpen ==
  ASSUME NEW e \in Envelopes, NEW sheet, Imported(e, sheet)
  PROVE  LET wal == Get(Workload(e), "wal_id") IN
         /\ sheet.identityRef = Unresolved
         /\ Provenance(e).reference = wal
         /\ wal \in STRING \cup {Absent}
         /\ wal # Absent => Provenance(e) # Absent
<1> DEFINE wal == Get(Workload(e), "wal_id")
           read == EntryImport(e)
<1>1. Typed(e) /\ read # Refused /\ sheet = Confirmable(read, Provenance(e))
  BY EnvelopesTyped, Zenon DEF Imported
<1>2. Settled(read) /\ read.identityRef = WalReference(Workload(e))
  BY <1>1, EntryImports, Zenon DEF Imported
<1>3. wal \in STRING \cup {Absent}
  BY <1>1 DEF Typed, JsonObject
<1>4. Provenance(e).reference = wal
  BY DEF Provenance
<1> HIDE DEF read
<1>5. CASE wal = Absent
  <2>1. sheet = read /\ read.identityRef = Unresolved
    BY <1>1, <1>2, <1>4, <1>5, Zenon DEF Confirmable, WalReference
  <2> QED BY <1>3, <1>4, <1>5, <2>1
<1>6. CASE wal # Absent
  <2>1. sheet = [read EXCEPT !.identityRef = Unresolved]
    BY <1>1, <1>4, <1>6, Zenon DEF Confirmable
  <2>2. sheet.identityRef = Unresolved
    BY <1>2, <2>1, IdentityLeftOpen
  <2>3. Provenance(e) \in [warnings: SUBSET Lifecycle, reference: STRING]
    BY <1>3, <1>6 DEF Provenance
  <2>4. Provenance(e) # Absent
    BY <2>3, SheetsAssumption, Zenon
  <2> QED BY <1>3, <1>4, <2>2, <2>4
<1> QED BY <1>5, <1>6

\* RevisionIsCoherent: whatever rig.conf, sheet or envelope, identity and earlier
\* revision it was written from, a revision says what they say and stands on its
\* own.
THEOREM RevisionsAreCoherent == PreparationSpec => []RevisionIsCoherent
<1> DEFINE policy == revision.policy
           chosen == policy.identityRef
<1>1. ASSUME PreparationInv, ProfileInv, stage = "committed"
      PROVE  /\ AsWritten("NODE_NAME", policy.node) /\ AsWritten("MINER_START_MODE", policy.mode)
             /\ AsWritten("TIMEZONE", policy.zone) /\ policy.zone \in Installed
             /\ chosen \in DOMAIN revision.identities
             /\ \A i \in DOMAIN revision.xmrig.pools :
                  /\ revision.xmrig.pools[i].user = revision.identities[chosen]
                  /\ revision.xmrig.pools[i].pass[1] = policy.node
             /\ revision.sheet.identityRef.kind = "alias"
                  => revision.sheet.identityRef.word = chosen
             /\ policy.sheet = revision.sheet.name
             /\ origin # Absent =>
                  /\ revision.externalMap = Absent <=> Get(Workload(origin), "wal_id") = Absent
                  /\ revision.externalMap # Absent => revision.externalMap.identityRef = chosen
                  /\ revision.sheet.identityRef = Unresolved
             /\ \A alias \in DOMAIN earlier \ {chosen} :
                  /\ alias \in DOMAIN revision.identities
                  /\ revision.identities[alias] = earlier[alias]
  <2> DEFINE sheet == proposal.sheet
             provenance == proposal.provenance
             wal == Get(Workload(origin), "wal_id")
             mapped(alias) == [value |-> provenance.reference, identityRef |-> alias]
  <2>1. PICK identity \in Identities :
          /\ Matches(identity, sheet) /\ revision.sheet = sheet
          /\ revision.policy = RuntimePolicy(profile, sheet, identity)
          /\ revision.xmrig = RuntimeXmrig(profile, sheet, identity)
          /\ revision.identities
               = [alias \in DOMAIN earlier \cup {identity.alias} |->
                    IF alias = identity.alias THEN identity.value ELSE earlier[alias]]
          /\ revision.externalMap
               = IF provenance = Absent \/ provenance.reference = Absent THEN Absent
                 ELSE mapped(identity.alias)
    BY <1>1, RevisionSays
  <2>2. /\ chosen = identity.alias /\ policy.sheet = sheet.name
        /\ policy.node = profile["NODE_NAME"] /\ policy.zone = profile["TIMEZONE"]
        /\ policy.mode = profile["MINER_START_MODE"]
    BY <2>1 DEF RuntimePolicy
  <2>3. /\ chosen \in DOMAIN revision.identities
        /\ revision.identities[chosen] = identity.value
        /\ \A alias \in DOMAIN earlier \ {chosen} :
             /\ alias \in DOMAIN revision.identities
             /\ revision.identities[alias] = earlier[alias]
    BY <2>1, <2>2
  <2>4. \A i \in DOMAIN revision.xmrig.pools :
          /\ revision.xmrig.pools[i].user = identity.value
          /\ revision.xmrig.pools[i].pass[1] = profile["NODE_NAME"]
    BY <2>1, XmrigSays
  <2>5. ASSUME origin # Absent
        PROVE  /\ revision.externalMap = Absent <=> wal = Absent
               /\ revision.externalMap # Absent => revision.externalMap.identityRef = chosen
               /\ sheet.identityRef = Unresolved
    <3>1. origin \in Envelopes /\ Imported(origin, sheet) /\ provenance = Provenance(origin)
      BY <1>1, <2>5 DEF PreparationInv, ProposalSound, Imported
    <3>2. /\ sheet.identityRef = Unresolved /\ provenance.reference = wal
          /\ wal \in STRING \cup {Absent} /\ (wal # Absent => provenance # Absent)
      BY <3>1, ReferenceLeftOpen
    <3>3. CASE wal = Absent
      BY <2>1, <3>2, <3>3
    <3>4. CASE wal # Absent
      <4>1. mapped(identity.alias) \in [value: STRING, identityRef: {i.alias : i \in Identities}]
        BY <3>2, <3>4
      <4>2. mapped(identity.alias) # Absent
        BY <4>1, SheetsAssumption, Zenon
      <4>3. mapped(identity.alias).identityRef = identity.alias
        OBVIOUS
      <4> HIDE DEF mapped
      <4> QED BY <2>1, <2>2, <3>2, <3>4, <4>2, <4>3
    <3> QED BY <3>3, <3>4
  <2>6. \A k \in {"NODE_NAME", "TIMEZONE", "MINER_START_MODE"} : AsWritten(k, profile[k])
    BY <1>1, Zenon DEF ProfileInv, ReadFaithfully, ProfileAsWritten, AsWritten, Supported,
       PreparationInv, ProfileChosen
  <2>7. profile["TIMEZONE"] \in Installed
    BY <1>1 DEF PreparationInv, ProfileChosen
  <2> HIDE DEF sheet
  <2>8. sheet.identityRef.kind = "alias" => sheet.identityRef.word = chosen
    BY <2>1, <2>2 DEF Matches
  <2> QED BY <2>1, <2>2, <2>3, <2>4, <2>5, <2>6, <2>7, <2>8
<1>2. PreparationInv /\ ProfileInv => RevisionIsCoherent
  BY <1>1 DEF RevisionIsCoherent
<1> QED BY <1>2, PreparationInvariant, PreparationImplementsProfile, ProfileInvariant, PTL

\* PoolsAsWritten: for any number of pools of an import, the miner has them in
\* the order of the URLs, at their ports and encrypted as they say.
THEOREM PoolsAreAsWritten == PreparationSpec => []PoolsAsWritten
<1> DEFINE w == Workload(origin)
           urls == Urls(w)
           ssl == Get(w, "pool_ssl")
           pools == revision.xmrig.pools
<1>1. ASSUME PreparationInv, stage = "committed", origin # Absent
      PROVE  /\ Len(pools) = Len(urls)
             /\ \A i \in DOMAIN urls :
                  /\ pools[i].host = Lower(urls[i].host) /\ pools[i].port = urls[i].port
                  /\ urls[i].scheme # "none" => pools[i].tls = (urls[i].scheme = "ssl")
                  /\ pools[i].tls = IF ssl.form = "one" THEN ssl.value ELSE ssl.value[i]
  <2> DEFINE sheet == proposal.sheet
             made == Pools(w)
             low == Lowered(made)
  <2>1. PICK identity \in Identities : revision.xmrig = RuntimeXmrig(profile, sheet, identity)
    BY <1>1, RevisionSays
  <2>2. Typed(origin) /\ Imported(origin, sheet) /\ origin \in Envelopes
    BY <1>1, EnvelopesTyped DEF PreparationInv, ProposalSound, Imported
  <2>3. made # Refused /\ sheet.pools = low
    BY <2>2, ImportedSheet
  <2>4. /\ urls \in Seq(PoolUrl) /\ made \in Seq(Pool) /\ Len(made) = Len(urls)
        /\ \A i \in DOMAIN urls :
             /\ made[i].host = urls[i].host /\ made[i].port = urls[i].port
             /\ made[i].tls = IF ssl.form = "one" THEN ssl.value ELSE ssl.value[i]
             /\ urls[i].scheme # "none" => made[i].tls = (urls[i].scheme = "ssl")
    BY <2>2, <2>3, PoolsOfUrls DEF Typed
  <2> HIDE DEF made, urls, ssl
  <2>5. DOMAIN made = DOMAIN urls
    BY <2>4
  <2>6. /\ low \in Seq(Pool) /\ Len(low) = Len(made) /\ DOMAIN low = DOMAIN made
        /\ \A i \in DOMAIN made : made[i] \in Pool /\ low[i] = LowerHost(made[i])
    BY <2>4, LoweredKeeps, PoolsTyped
  <2>7. /\ Len(pools) = Len(low)
        /\ \A i \in DOMAIN low :
             /\ pools[i].host = low[i].host /\ pools[i].port = low[i].port
             /\ pools[i].tls = low[i].tls
    BY <2>1, <2>3, <2>6, XmrigSays
  <2> HIDE DEF low, pools
  <2>8. ASSUME NEW i \in DOMAIN urls
        PROVE  /\ pools[i].host = Lower(urls[i].host) /\ pools[i].port = urls[i].port
               /\ pools[i].tls = made[i].tls
    <3>1. made[i] \in Pool /\ low[i] = LowerHost(made[i]) /\ i \in DOMAIN low
      BY <2>5, <2>6
    <3>2. /\ low[i].host = Lower(made[i].host) /\ low[i].port = made[i].port
          /\ low[i].tls = made[i].tls
      BY <3>1, LowerHostKeeps
    <3> QED BY <2>4, <2>7, <3>1, <3>2
  <2>9. \A i \in DOMAIN urls :
          /\ pools[i].tls = IF ssl.form = "one" THEN ssl.value ELSE ssl.value[i]
          /\ urls[i].scheme # "none" => pools[i].tls = (urls[i].scheme = "ssl")
    BY <2>4, <2>8, Zenon
  <2> QED BY <2>4, <2>6, <2>7, <2>8, <2>9
<1>2. PreparationInv => PoolsAsWritten
  BY <1>1 DEF PoolsAsWritten
<1> QED BY <1>2, PreparationInvariant, PTL

----------------------------------------------------------------------------
(***************************************************************************)
(* The two readers of the embedded configs.  The library takes a policy    *)
(* from the last config that states it to the library; the entry point has *)
(* made sure that the configs which state huge pages to it agree, and      *)
(* agree with the count.                                                   *)
(***************************************************************************)
Counts(c, key) ==
  Get(c, key) \notin {Absent, Wrong} /\ (key = "user_config" => Get(c, key).cpu # Absent)

Seen(c, key) ==
  Get(c, key) \notin {Absent, Wrong} /\ (Get(c, key).form = "text" => Get(c, key).mentions)

HugeAt(c, key) == Stated(Get(c, key)).huge
HintAt(c, key) == Stated(Get(c, key)).hint
StatesHuge(c, key) == Counts(c, key) /\ HugeAt(c, key) \notin {Absent, Wrong}
StatesHint(c, key) == Counts(c, key) /\ HintAt(c, key) \notin {Absent, Wrong}
ShowsHuge(c, key) == Seen(c, key) /\ HugeAt(c, key) \notin {Absent, Wrong}

Byte(hint) == IF hint > 255 THEN 0 ELSE hint

LEMMA StatementsSay ==
  /\ \A x : x \in HugeStated(ReadByLibrary)
              <=> \E key \in ConfigKeys :
                    StatesHuge(MinerConfig(origin), key) /\ x = HugeAt(MinerConfig(origin), key)
  /\ \A x : x \in HugeStated(ReadByEntry)
              <=> \E key \in ConfigKeys :
                    ShowsHuge(MinerConfig(origin), key) /\ x = HugeAt(MinerConfig(origin), key)
  /\ \A x : x \in HintsStated(ReadByLibrary)
              <=> \E key \in ConfigKeys :
                    StatesHint(MinerConfig(origin), key) /\ x = HintAt(MinerConfig(origin), key)
<1> DEFINE c == MinerConfig(origin)
<1>1. \A key : Embedded(key) = Get(c, key)
  BY DEF Embedded
<1>2. \A key : key \in ReadByLibrary <=> key \in ConfigKeys /\ Counts(c, key)
  BY <1>1, Zenon DEF ReadByLibrary, Counts
<1>3. \A key : key \in ReadByEntry <=> key \in ConfigKeys /\ Seen(c, key)
  BY <1>1, Zenon DEF ReadByEntry, Seen
<1> HIDE DEF c
<1>4. \A x : x \in HugeStated(ReadByLibrary)
               <=> \E key \in ConfigKeys : StatesHuge(c, key) /\ x = HugeAt(c, key)
  BY <1>1, <1>2, Zenon DEF HugeStated, StatesHuge, HugeAt
<1>5. \A x : x \in HugeStated(ReadByEntry)
               <=> \E key \in ConfigKeys : ShowsHuge(c, key) /\ x = HugeAt(c, key)
  BY <1>1, <1>3, Zenon DEF HugeStated, ShowsHuge, HugeAt
<1>6. \A x : x \in HintsStated(ReadByLibrary)
               <=> \E key \in ConfigKeys : StatesHint(c, key) /\ x = HintAt(c, key)
  BY <1>1, <1>2, Zenon DEF HintsStated, StatesHint, HintAt
<1> QED BY <1>4, <1>5, <1>6 DEF c

\* What one embedded config changes.
LEMMA AfterConfigSays ==
  ASSUME NEW c, NEW key \in ConfigKeys, NEW cpu
  PROVE  LET after == AfterConfig(cpu, c, key) IN
         /\ after.huge = IF StatesHuge(c, key) THEN HugeAt(c, key) ELSE cpu.huge
         /\ after.hint = IF StatesHint(c, key) THEN Byte(HintAt(c, key)) ELSE cpu.hint
<1> DEFINE fragment == Get(c, key)
           nothing == [huge |-> Absent, hint |-> Absent]
           policy == IF fragment.cpu # Absent THEN fragment.cpu
                     ELSE IF key = "cpu_config" THEN fragment.flat ELSE nothing
           after == AfterConfig(cpu, c, key)
<1>1. CASE fragment \in {Absent, Wrong}
  <2>1. after = cpu /\ ~Counts(c, key)
    BY <1>1, Zenon DEF AfterConfig, Counts
  <2> QED BY <2>1, Zenon DEF StatesHuge, StatesHint
<1>2. CASE fragment \notin {Absent, Wrong}
  <2> DEFINE huge == IF policy.huge \in {Absent, Wrong} THEN cpu.huge ELSE policy.huge
             hint == IF policy.hint \in {Absent, Wrong} THEN cpu.hint
                     ELSE IF policy.hint > 255 THEN 0 ELSE policy.hint
  <2>1. after = [huge |-> huge, hint |-> hint]
    BY <1>2, Zenon DEF AfterConfig
  <2>2. Counts(c, key) => policy = Stated(fragment)
    BY Zenon DEF Counts, Stated, ConfigKeys
  <2>3. ~Counts(c, key) => policy = nothing
    BY <1>2, Zenon DEF Counts, ConfigKeys
  <2>4. nothing.huge = Absent /\ nothing.hint = Absent
    OBVIOUS
  <2> HIDE DEF policy, nothing
  <2>5. huge = IF StatesHuge(c, key) THEN HugeAt(c, key) ELSE cpu.huge
    BY <2>2, <2>3, <2>4, Zenon DEF StatesHuge, HugeAt
  <2>6. hint = IF StatesHint(c, key) THEN Byte(HintAt(c, key)) ELSE cpu.hint
    BY <2>2, <2>3, <2>4, Zenon DEF StatesHint, HintAt, Byte
  <2> HIDE DEF huge, hint, after
  <2>7. after.huge = huge /\ after.hint = hint
    BY <2>1
  <2> QED BY <2>5, <2>6, <2>7, Zenon DEF after
<1> QED BY <1>1, <1>2

LEMMA CpuSays ==
  ASSUME NEW c
  PROVE  /\ CpuOf(c).huge = IF StatesHuge(c, "user_config") THEN HugeAt(c, "user_config")
                            ELSE IF StatesHuge(c, "cpu_config") THEN HugeAt(c, "cpu_config")
                            ELSE TRUE
         /\ CpuOf(c).hint = IF StatesHint(c, "user_config") THEN Byte(HintAt(c, "user_config"))
                            ELSE IF StatesHint(c, "cpu_config")
                                 THEN Byte(HintAt(c, "cpu_config"))
                            ELSE 100
<1> DEFINE default == [huge |-> TRUE, hint |-> 100]
           first == AfterConfig(default, c, "cpu_config")
<1>1. default.huge = TRUE /\ default.hint = 100
  OBVIOUS
<1>2. CpuOf(c) = AfterConfig(first, c, "user_config")
  BY Zenon DEF CpuOf
<1> HIDE DEF default
<1>3. /\ first.huge = IF StatesHuge(c, "cpu_config") THEN HugeAt(c, "cpu_config") ELSE TRUE
      /\ first.hint = IF StatesHint(c, "cpu_config") THEN Byte(HintAt(c, "cpu_config")) ELSE 100
  <2>1. "cpu_config" \in ConfigKeys
    BY DEF ConfigKeys
  <2>2. /\ first.huge = IF StatesHuge(c, "cpu_config") THEN HugeAt(c, "cpu_config")
                        ELSE default.huge
        /\ first.hint = IF StatesHint(c, "cpu_config") THEN Byte(HintAt(c, "cpu_config"))
                        ELSE default.hint
    BY <2>1, AfterConfigSays
  <2> QED BY <1>1, <2>2, Zenon
<1> HIDE DEF first
<1>4. "user_config" \in ConfigKeys
  BY DEF ConfigKeys
<1>5. LET after == AfterConfig(first, c, "user_config") IN
      /\ after.huge = IF StatesHuge(c, "user_config") THEN HugeAt(c, "user_config")
                      ELSE first.huge
      /\ after.hint = IF StatesHint(c, "user_config") THEN Byte(HintAt(c, "user_config"))
                      ELSE first.hint
  BY <1>4, AfterConfigSays
<1> QED BY <1>2, <1>3, <1>5, Zenon

\* ValidEntry: of the configs the entry point looks at it reads the same policy,
\* and all that it reads agree.
LEMMA EntryAgrees ==
  ASSUME NEW c, ValidEntry(c), NEW key \in ConfigKeys, ShowsHuge(c, key)
  PROVE  LET count == Get(c, "hugepages") IN
         /\ count # Absent => HugeAt(c, key) = (count > 0)
         /\ \A other \in ConfigKeys : ShowsHuge(c, other) => HugeAt(c, other) = HugeAt(c, key)
<1> DEFINE read(k) == ExplicitHugePages(c, k)
           count == Get(c, "hugepages")
<1>1. ASSUME NEW k \in ConfigKeys, ShowsHuge(c, k)
      PROVE  read(k) = HugeAt(c, k) /\ read(k) # Absent
  <2> DEFINE fragment == Get(c, k)
             stated == IF fragment.cpu # Absent THEN fragment.cpu.huge ELSE fragment.flat.huge
  <2>1. /\ fragment \notin {Absent, Wrong} /\ stated = HugeAt(c, k)
        /\ stated \notin {Absent, Wrong}
        /\ fragment.form = "text" => fragment.mentions
    BY <1>1, Zenon DEF ShowsHuge, Seen, HugeAt, Stated
  <2>2. read(k) # Refused
    BY Zenon DEF ValidEntry, ConfigKeys
  <2> QED BY <2>1, <2>2, Zenon DEF ExplicitHugePages
<1>2. /\ Absent \in {read("cpu_config"), read("user_config")}
         \/ read("cpu_config") = read("user_config")
      /\ count = Absent
         \/ Or(read("cpu_config"), read("user_config")) \in {Absent, count > 0}
  BY Zenon DEF ValidEntry
<1> HIDE DEF read
<1>3. \A other \in ConfigKeys : ShowsHuge(c, other) => read(other) = read(key)
  BY <1>1, <1>2, Zenon DEF ConfigKeys
<1>4. ASSUME count # Absent
      PROVE  read(key) = (count > 0)
  <2> DEFINE pages == count > 0
  <2>1. Or(read("cpu_config"), read("user_config")) \in {Absent, pages}
    BY <1>2, <1>4
  <2> HIDE DEF pages
  <2>2. Or(read("cpu_config"), read("user_config")) = read(key)
    BY <1>1, <1>2, Zenon DEF ConfigKeys, Or
  <2>3. read(key) = pages
    BY <1>1, <2>1, <2>2, Zenon
  <2> QED BY <2>3, Zenon DEF pages
<1> QED BY <1>1, <1>3, <1>4, Zenon

\* PolicyTakesEffect: whatever the embedded configs say in whatever form and
\* spelling, and whatever the count, the miner runs with the count's policy, with
\* one the library reads, or with the default; and where the entry point looks at
\* all that the library reads, with the one policy they state.
THEOREM PoliciesTakeEffect == PreparationSpec => []PolicyTakesEffect
<1> DEFINE c == MinerConfig(origin)
           count == Get(c, "hugepages")
           counted == Nested(origin) /\ count # Absent
           library == HugeStated(ReadByLibrary)
           entry == HugeStated(ReadByEntry)
           hints == HintsStated(ReadByLibrary)
           xmrig == revision.xmrig
<1>1. ASSUME PreparationInv, stage = "committed", origin # Absent
      PROVE  /\ IF counted THEN xmrig.hugePages = (count > 0)
                ELSE xmrig.hugePages \in IF library = {} THEN {TRUE} ELSE library
             /\ Nested(origin) => Cardinality(entry) <= 1
             /\ counted => entry \subseteq {count > 0}
             /\ Nested(origin) /\ ReadByLibrary \subseteq ReadByEntry
                  => library \subseteq {xmrig.hugePages}
             /\ xmrig.hint \in IF hints = {} THEN {100} ELSE hints
  <2> DEFINE sheet == proposal.sheet
             pages == count > 0
  <2>1. PICK identity \in Identities : revision.xmrig = RuntimeXmrig(profile, sheet, identity)
    BY <1>1, RevisionSays
  <2>2. Typed(origin) /\ Imported(origin, sheet) /\ origin \in Envelopes
    BY <1>1, EnvelopesTyped DEF PreparationInv, ProposalSound, Imported
  <2>3. /\ Settled(sheet) /\ (Nested(origin) => ValidEntry(c))
        /\ sheet.threads = 0 /\ sheet.hint = CpuOf(c).hint
        /\ sheet.hugePages = IF counted THEN pages ELSE CpuOf(c).huge
    BY <2>2, ImportedSheet, Zenon
  <2>4. xmrig.hugePages = sheet.hugePages /\ xmrig.hint = sheet.hint
    BY <2>1, <2>3, XmrigSays
  <2>5. /\ \A x : x \in library <=> \E key \in ConfigKeys : StatesHuge(c, key) /\ x = HugeAt(c, key)
        /\ \A x : x \in entry <=> \E key \in ConfigKeys : ShowsHuge(c, key) /\ x = HugeAt(c, key)
        /\ \A x : x \in hints <=> \E key \in ConfigKeys : StatesHint(c, key) /\ x = HintAt(c, key)
    BY StatementsSay, Zenon
  <2>6. /\ CpuOf(c).huge = IF StatesHuge(c, "user_config") THEN HugeAt(c, "user_config")
                           ELSE IF StatesHuge(c, "cpu_config") THEN HugeAt(c, "cpu_config")
                           ELSE TRUE
        /\ CpuOf(c).hint = IF StatesHint(c, "user_config") THEN Byte(HintAt(c, "user_config"))
                           ELSE IF StatesHint(c, "cpu_config")
                                THEN Byte(HintAt(c, "cpu_config"))
                           ELSE 100
    BY CpuSays, Zenon
  <2>7. "cpu_config" \in ConfigKeys /\ "user_config" \in ConfigKeys
        /\ \A key \in ConfigKeys : key = "cpu_config" \/ key = "user_config"
    BY DEF ConfigKeys
  <2>8. ASSUME Nested(origin), NEW x \in entry
        PROVE  (count # Absent => x = pages) /\ \A y \in entry : y = x
    <3>1. PICK key \in ConfigKeys : ShowsHuge(c, key) /\ x = HugeAt(c, key)
      BY <2>5, Zenon
    <3>2. count # Absent => HugeAt(c, key) = pages
      BY <2>3, <2>8, <3>1, EntryAgrees
    <3>3. \A other \in ConfigKeys : ShowsHuge(c, other) => HugeAt(c, other) = HugeAt(c, key)
      BY <2>3, <2>8, <3>1, EntryAgrees
    <3> QED BY <2>5, <3>1, <3>2, <3>3, Zenon
  <2>9. ASSUME ReadByLibrary \subseteq ReadByEntry
        PROVE  library \subseteq entry
    BY <2>9, Zenon DEF HugeStated
  <2> HIDE DEF library, entry, hints, pages, c, xmrig, count
  <2>10. counted => xmrig.hugePages = pages
    BY <2>3, <2>4, Zenon
  <2>11. ASSUME ~counted
         PROVE  xmrig.hugePages \in IF library = {} THEN {TRUE} ELSE library
    <3>1. xmrig.hugePages = CpuOf(c).huge
      BY <2>3, <2>4, <2>11, Zenon
    <3>2. CASE StatesHuge(c, "user_config")
      <4>1. xmrig.hugePages = HugeAt(c, "user_config")
        BY <2>6, <3>1, <3>2, Zenon
      <4>2. xmrig.hugePages \in library
        BY <2>5, <2>7, <3>2, <4>1, Zenon
      <4> QED BY <4>2, Zenon
    <3>3. CASE ~StatesHuge(c, "user_config") /\ StatesHuge(c, "cpu_config")
      <4>1. xmrig.hugePages = HugeAt(c, "cpu_config")
        BY <2>6, <3>1, <3>3, Zenon
      <4>2. xmrig.hugePages \in library
        BY <2>5, <2>7, <3>3, <4>1, Zenon
      <4> QED BY <4>2, Zenon
    <3>4. CASE ~StatesHuge(c, "user_config") /\ ~StatesHuge(c, "cpu_config")
      <4>1. library = {}
        BY <2>5, <2>7, <3>4, Zenon
      <4> QED BY <2>6, <3>1, <3>4, <4>1, Zenon
    <3> QED BY <3>2, <3>3, <3>4
  <2>12. ASSUME Nested(origin)
         PROVE  Cardinality(entry) <= 1
    <3>1. CASE entry = {}
      BY <3>1, FS_EmptySet
    <3>2. CASE entry # {}
      <4>1. PICK x : x \in entry
        BY <3>2, Zenon
      <4>2. entry = {x}
        BY <2>8, <2>12, <4>1, Zenon
      <4>3. Cardinality({x}) = 1
        BY FS_Singleton
      <4> QED BY <4>2, <4>3
    <3> QED BY <3>1, <3>2
  <2>13. counted => entry \subseteq {pages}
    BY <2>8, Zenon
  <2>14. ASSUME Nested(origin), ReadByLibrary \subseteq ReadByEntry, NEW x \in library
         PROVE  x = xmrig.hugePages
    <3>1. x \in entry /\ library \subseteq entry
      BY <2>9, <2>14, Zenon
    <3>2. CASE counted
      BY <2>8, <2>10, <2>14, <3>1, <3>2, Zenon
    <3>3. CASE ~counted
      <4>1. xmrig.hugePages \in library
        BY <2>11, <2>14, <3>3, Zenon
      <4> QED BY <2>8, <2>14, <3>1, <4>1, Zenon
    <3> QED BY <3>2, <3>3
  <2>15. xmrig.hint \in IF hints = {} THEN {100} ELSE hints
    <3>1. xmrig.hint = CpuOf(c).hint
      BY <2>3, <2>4, Zenon
    <3>2. xmrig.hint # 0
      <4>1. sheet.hint \in ThreadsHint
        BY <2>3, Zenon DEF Settled, ValidSheet
      <4> QED BY <2>4, <4>1 DEF ThreadsHint
    <3>3. \A hint : Byte(hint) = hint \/ Byte(hint) = 0
      BY Zenon DEF Byte
    <3>4. CASE StatesHint(c, "user_config")
      <4>1. xmrig.hint = HintAt(c, "user_config")
        BY <2>6, <3>1, <3>2, <3>3, <3>4, Zenon
      <4> QED BY <2>5, <2>7, <3>4, <4>1, Zenon
    <3>5. CASE ~StatesHint(c, "user_config") /\ StatesHint(c, "cpu_config")
      <4>1. xmrig.hint = HintAt(c, "cpu_config")
        BY <2>6, <3>1, <3>2, <3>3, <3>5, Zenon
      <4> QED BY <2>5, <2>7, <3>5, <4>1, Zenon
    <3>6. CASE ~StatesHint(c, "user_config") /\ ~StatesHint(c, "cpu_config")
      <4>1. hints = {}
        BY <2>5, <2>7, <3>6, Zenon
      <4> QED BY <2>6, <3>1, <3>6, <4>1, Zenon
    <3> QED BY <3>4, <3>5, <3>6
  <2>16. /\ counted => xmrig.hugePages = (count > 0)
         /\ counted => entry \subseteq {count > 0}
    BY <2>10, <2>13, Zenon DEF pages
  <2> HIDE DEF counted
  <2>17. Nested(origin) /\ ReadByLibrary \subseteq ReadByEntry
           => library \subseteq {xmrig.hugePages}
    BY <2>14, Zenon
  <2> QED BY <2>11, <2>12, <2>15, <2>16, <2>17, Zenon
<1>2. PreparationInv => PolicyTakesEffect
  <2>1. ASSUME PreparationInv  PROVE PolicyTakesEffect
    BY <1>1, <2>1, Zenon DEF PolicyTakesEffect
  <2> QED BY <2>1
<1> QED BY <1>2, PreparationInvariant, PTL
==============================================================================
