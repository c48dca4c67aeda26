--------------------------- MODULE MCDisciplined ---------------------------
(***************************************************************************)
(* Instances of S3db whose transactions and migrations keep to what the    *)
(* theorems on serializability and on the refinement ask of them, and      *)
(* where nobody compacts or migrates beside a collector, as the theorems   *)
(* on garbage collection do.                                               *)
(***************************************************************************)
EXTENDS MCS3db

ASSUME Disciplined == ReadsWhatItWrites /\ MigratesTracked
ASSUME Apart == OneMaintainer
=============================================================================
