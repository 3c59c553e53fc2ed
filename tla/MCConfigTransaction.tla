------------------------ MODULE MCConfigTransaction ------------------------
(***************************************************************************)
(* Instances of ConfigTransaction for TLC.  Two revisions start the miner  *)
(* on boot and differ in timezone and identity; m3 is a manual one.        *)
(***************************************************************************)
EXTENDS ConfigTransaction

CONSTANTS r1, r2, m3, utc, bkk, main, spare

MCZoneOf == [r \in Revision |-> IF r = r2 THEN utc ELSE bkk]
MCAliasOf == [r \in Revision |-> IF r = r2 THEN spare ELSE main]
MCSameAlias == [r \in Revision |-> main]
MCOnBoot == Revision \ {m3}

\* Every disturbance but a start by hand in the middle of a transaction.
Unattended == EnvEvent \ {"operator"}

\* The failures the engine handles by rolling back, on a disk that keeps the
\* record and a systemd that can stop the miner.
Handled == {"query", "stage", "publish", "zone", "enable", "start", "pointer", "exit", "crash"}

\* Everything the commit point survives.
RecordSurvives == EnvEvent \ {"torn", "forget"}

\* Single causes for the counterexamples.
PowerLoss == {"torn", "crash"}
ZoneFails == {"zone"}
OnlyCrash == {"crash"}

\* Engines whose snapshots are not outlived by another's transaction.
FairTimelySpec == TimelySpec /\ Fairness
=============================================================================
