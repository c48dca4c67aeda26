------------------------------- MODULE Ranges -------------------------------
(***************************************************************************)
(* How downloadParallel (sync.go) splits an object of a given size into    *)
(* ranges: offsets from 0, both ends included.                             *)
(***************************************************************************)
EXTENDS Integers

ChunkSize(size, parts) == IF size \div parts = 0 THEN size ELSE size \div parts
PartCount(size, parts) == IF size \div parts = 0 THEN 1 ELSE parts

Start(i, size, parts) == i * ChunkSize(size, parts)

End(i, size, parts) ==
  IF i = PartCount(size, parts) - 1 THEN size - 1
  ELSE Start(i, size, parts) + ChunkSize(size, parts) - 1
=============================================================================
