---------------------------- MODULE MCAppliance ----------------------------
(***************************************************************************)
(* Instances of Appliance for TLC: a stick of 11 units, aligned to 2, on   *)
(* which the state partition, the third, starts at 4 and grows from 2 to 6.*)
(***************************************************************************)
EXTENDS Appliance

MCContract ==
  [number \in 1..3 |->
    CASE number = 1 -> [label |-> "EFI_SYSTEM", type |-> 12, start |-> 1, size |-> 1]
      [] number = 2 -> [label |-> "RIGOS_ROOT_A", type |-> 131, start |-> 2, size |-> 2]
      [] number = 3 -> [label |-> "RIGOS_STATE_SEED", type |-> 131, start |-> 4, size |-> 2]]

OnlyInit == {"init", "crash"}
=============================================================================
