------------------------- MODULE MCCallbackManager -------------------------
(***************************************************************************)
(* Model for CallbackManager: r1 expects two responses and times out after *)
(* one TimeoutCheck tick, r2 expects one response and two ticks; two       *)
(* workers deliver responses.                                              *)
(***************************************************************************)
EXTENDS CallbackManager, TLC

CONSTANTS r1, r2, w1, w2, req, tm

MCReqs == {r1, r2}
MCWorkers == {w1, w2}
MCExpectCount == (r1 :> 2 @@ r2 :> 1)
MCTimeoutSec == (r1 :> 1 @@ r2 :> 2)
=============================================================================
