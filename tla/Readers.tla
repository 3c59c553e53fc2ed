-------------------------------- MODULE Readers --------------------------------
(***************************************************************************)
(* The readers of what RIGOS does not write itself, side by side: rig.conf,*)
(* sheets and imports on their way into a revision, embedded configs, the  *)
(* miner's process and API, and the observations of other appliances.      *)
(* They share no state: one of them runs and the others stay idle.         *)
(***************************************************************************)
EXTENDS Observation, Preparation, Fragment, Inspector

configVars == <<profileVars, preparationVars, fragmentVars>>
minerVars == <<inspectorVars, probeVars>>
readersVars == <<vars, configVars, minerVars>>

ReadersInit ==
  Init /\ ProfileInit /\ PreparationInit /\ FragmentInit /\ InspectorInit /\ ProbeInit

ObservationIdle == request = Null /\ row = Null /\ node = Null
ConfigIdle == file.state = "none" /\ outcome = "idle"

ConfigNext ==
  \/ outcome = "idle" /\ ProfileNext /\ UNCHANGED <<preparationVars, fragmentVars>>
  \/ PreparationStep /\ UNCHANGED fragmentVars
  \/ file.state = "none" /\ FragmentNext /\ UNCHANGED <<profileVars, preparationVars>>

ReadersNext ==
  \/ ConfigIdle /\ step = "idle" /\ Next /\ UNCHANGED <<configVars, minerVars>>
  \/ ObservationIdle /\ step = "idle" /\ ConfigNext /\ UNCHANGED <<vars, minerVars>>
  \/ ObservationIdle /\ ConfigIdle /\ InspectorNext /\ UNCHANGED <<vars, configVars>>

ReadersSpec == ReadersInit /\ [][ReadersNext]_readersVars

\* The types of the parts.
ReadersTypeOK == TypeOK /\ ProfileTypeOK /\ FragmentTypeOK /\ ProbeTypeOK /\ InspectorTypeOK
================================================================================
