----------------------------- MODULE MCPullPush -----------------------------
(***************************************************************************)
(* Instances of PullPush for TLC.  Users are interchangeable if all or     *)
(* none of them have a file to start with.                                 *)
(***************************************************************************)
EXTENDS MCS3db, PullPushInv

UserSymmetry == Permutations(Users)
=============================================================================
