----------------------------- MODULE MCRateLimit -----------------------------
(***************************************************************************)
(* An instance of RateLimit for TLC: a code is counted under its phone's    *)
(* minute and day, a sign-in and a message under one key each.              *)
(***************************************************************************)
EXTENDS RateLimit, TLC

CONSTANTS minute, day, login, message

Kinds == {<<minute, day>>, <<login>>, <<message>>}
SmallLimit  == (minute :> 3) @@ (day :> 4) @@ (login :> 3) @@ (message :> 3)
SmallWindow == (minute :> 1) @@ (day :> 2) @@ (login :> 2) @@ (message :> 3)
=============================================================================
