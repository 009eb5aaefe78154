------------------------------ MODULE Requests ------------------------------
(***************************************************************************)
(* Requests to a Node server that await one call to a database or to Redis  *)
(* after another: each is at a place of its handler, and others run in      *)
(* between.  Clients and RateLimit are built on it.                         *)
(***************************************************************************)
EXTENDS Integers

CONSTANTS
  Calls,      \* requests the server can be busy with
  MaxFaults   \* bound on what is lost

ASSUME FaultsAssumption == MaxFaults \in Nat

VARIABLES
  call,       \* where each request is, for whom, and what it knows
  faults,
  calm        \* requests wait for each other; in most modules nothing fails either

At(c, l) == call[c].at = l
Goto(c, l) == call' = [call EXCEPT ![c].at = l]
Is(c, l, ops) == At(c, l) /\ call[c].op \in ops
Quiet == \A c \in Calls : At(c, "idle")
=============================================================================
