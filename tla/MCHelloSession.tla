---------------------------- MODULE MCHelloSession ----------------------------
(* Instance of HelloSession, and so of HttpSession, for TLC: two requests and *)
(* two replies that can be told apart, one reply that serde_json refuses; r1  *)
(* is the reply of say_hello.                                                 *)
EXTENDS HelloSession

CONSTANTS q1, q2, r1, r2

MCRequests == {q1, q2}
MCReplies == {r1, r2}
MCUnencodable == {r2}
MCSvcCodes == {"Ok", "Cancelled", "Internal"}
===============================================================================
