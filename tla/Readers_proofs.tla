----------------------------- MODULE Readers_proofs -----------------------------
(***************************************************************************)
(* Proofs about the readers together: each of them, beside the others,     *)
(* does what its own specification says, so that what is proved of it      *)
(* alone holds of all.                                                     *)
(***************************************************************************)
EXTENDS Readers, Observation_proofs, Preparation_proofs, Fragment_proofs, Inspector_proofs

LEMMA ReadersStep ==
  ASSUME [ReadersNext]_readersVars
  PROVE  /\ [Next]_vars
         /\ [PreparationNext]_<<profileVars, preparationVars>>
         /\ [FragmentNext]_fragmentVars
         /\ [InspectorNext]_<<inspectorVars, probeVars>>
<1>1. CASE Next /\ UNCHANGED <<configVars, minerVars>>
  BY <1>1 DEF configVars, minerVars
<1>2. CASE ConfigNext /\ UNCHANGED <<vars, minerVars>>
  BY <1>2 DEF ConfigNext, PreparationNext, minerVars
<1>3. CASE InspectorNext /\ UNCHANGED <<vars, configVars>>
  BY <1>3 DEF configVars
<1>4. CASE UNCHANGED readersVars
  BY <1>4 DEF readersVars, configVars, minerVars
<1> QED BY <1>1, <1>2, <1>3, <1>4 DEF ReadersNext

\* None of the readers gets in the way of another: the whole implements the
\* specification of each.
THEOREM ReadersImplementParts ==
  ReadersSpec => Spec /\ PreparationSpec /\ ProfileSpec /\ FragmentSpec /\ InspectorSpec
<1>1. ReadersInit =>
        Init /\ ProfileInit /\ PreparationInit /\ FragmentInit /\ InspectorInit /\ ProbeInit
  BY DEF ReadersInit
<1>2. ReadersSpec => Spec /\ PreparationSpec /\ FragmentSpec /\ InspectorSpec
  BY <1>1, ReadersStep, PTL DEF ReadersSpec, Spec, PreparationSpec, FragmentSpec, InspectorSpec
<1> QED BY <1>2, PreparationImplementsProfile, PTL

\* ReadersTypeOK, from the type correctness of each.
THEOREM ReadersTypeCorrect == ReadersSpec => []ReadersTypeOK
<1>1. ReadersSpec => []TypeOK /\ []ProfileTypeOK /\ []FragmentTypeOK /\ []ProbeTypeOK
                       /\ []InspectorTypeOK
  BY ReadersImplementParts, ObservationTypeCorrect, ProfileTypeCorrect, FragmentTypeCorrect,
     ImplementsProbe, ProbeTypeCorrect, InspectorTypeCorrect, PTL
<1>2. TypeOK /\ ProfileTypeOK /\ FragmentTypeOK /\ ProbeTypeOK /\ InspectorTypeOK
        => ReadersTypeOK
  BY DEF ReadersTypeOK
<1> QED BY <1>1, <1>2, PTL

\* What is proved of each reader holds of all together: what the sanitiser lets
\* through, what is read of rig.conf and of embedded configs, what a revision
\* holds, what an inspection sends and reports, and how long it takes.
THEOREM ReadersAreSafe ==
  ReadersSpec =>
    /\ [](StoredIsReadable /\ NothingInTheAgentsWords /\ EveryComponentOnce)
    /\ [](ReadFaithfully /\ OnlyCommasAdded)
    /\ [](KeptSheetReadsBack /\ PolicyTakesEffect /\ PoolsAsWritten /\ RevisionIsCoherent)
    /\ [](VersionIsWhole /\ SignalsReachTheProbeOnly /\ TokenStaysLocal)
    /\ [](CommasExactlyAtGaps /\ OutputReadsAsText)
    /\ [](StepsLeft \in 0..(ResponseLimit + 21))
BY ReadersImplementParts, StoredStaysReadable, OnlyPolicyWords, EveryComponentIsShown,
   FilesAreReadFaithfully, ScannerAddsOnlyCommas, KeptSheetsReadBack, PoliciesTakeEffect,
   PoolsAreAsWritten, RevisionsAreCoherent, InspectedVersionIsWhole, TokenNeverLeaves,
   ImplementsProbe, SignalsReachOnlyTheProbe, CommasWhereMissing, OutputKeepsStructure,
   InspectionIsBounded, PTL
=================================================================================
