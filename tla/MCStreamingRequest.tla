-------------------------- MODULE MCStreamingRequest --------------------------
(* Instance of StreamingRequest for TLC.  Four results are enough for an     *)
(* error, a result after it, a second error and one more, in every order.    *)
EXTENDS StreamingRequest

CONSTANTS m1, m2, e1

MCItems == {m1, m2}
MCErrors == {e1}
===============================================================================
