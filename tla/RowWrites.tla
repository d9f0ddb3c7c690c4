------------------------------- MODULE RowWrites -------------------------------
(***************************************************************************)
(* Requests that read rows without locking them and commit later.  Each is *)
(* handled at a desk of its own, where what it read and what it means to   *)
(* write are kept from its read to its commit (or rollback).               *)
(*                                                                         *)
(* When such a request commits, the session of the object-relational       *)
(* mapper updates the columns whose value differs from the one it loaded,  *)
(* and leaves the others as other transactions have made them meanwhile.   *)
(***************************************************************************)
CONSTANT Desks     \* requests being handled at once

Written(loaded, new, now) ==
  [column \in DOMAIN now |-> IF new[column] = loaded[column] THEN now[column] ELSE new[column]]

\* A request that others have overtaken since its read is stale.
Outdated(desk) == [d \in Desks |-> [desk[d] EXCEPT !.stale = desk[d].kind # "free"]]

Cleared(desk, d, free) == [Outdated(desk) EXCEPT ![d] = free]

OvertakenCommit(desk, next) == \E d \in Desks : desk[d].stale /\ next[d].kind = "free"
=============================================================================
