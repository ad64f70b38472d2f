---------------------------- MODULE MCEchoSession -----------------------------
(* Instance of EchoSession for TLC: r1 is the echo, r2 the greeting.          *)
EXTENDS EchoSession

CONSTANTS q1, q2, r1, r2

MCRequests == {q1, q2}
MCReplies == {r1, r2}
MCUnencodable == {}
MCSvcCodes == {"Ok", "Unavailable"}
===============================================================================
