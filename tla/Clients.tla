------------------------------ MODULE Clients ------------------------------
(***************************************************************************)
(* A bounded number of requests of users, and of what admins and the clock  *)
(* do in between.  Session, Referral and Intimacy are built on it.          *)
(***************************************************************************)
EXTENDS Requests

CONSTANTS
  Users, Nobody,
  MaxAsks     \* bound on requests and on what admins and the clock do

ASSUME AsksAssumption == MaxAsks \in Nat /\ Nobody \notin Users

VARIABLE asks

Ask == asks < MaxAsks /\ asks' = asks + 1 /\ (calm => Quiet)
=============================================================================
