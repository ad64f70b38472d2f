----------------------------- MODULE MCWsSession ------------------------------
(* Instance of WsSession for TLC: two requests and two replies that can be    *)
(* told apart, one reply that serde_json refuses, one frame in transit.       *)
EXTENDS WsSession

CONSTANTS q1, q2, r1, r2

MCRequests == {q1, q2}
MCReplies == {r1, r2}
MCUnencodable == {r2}
MCSvcCodes == {"Ok", "Unavailable"}
===============================================================================
