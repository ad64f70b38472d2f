------------------------------ MODULE MCBinding -------------------------------
(* Instance of Binding for TLC: a message M of three fields, one of them a    *)
(* (required) message N; a message S of one field; E without fields; the      *)
(* unit message; and a type that was not generated.  The methods are all      *)
(* combinations of up to two path variables and a body, with the mistakes of  *)
(* naming a field twice or one that does not exist.                           *)
EXTENDS Binding

CONSTANTS M, N, S, E, other, a, b, c, n, x

MCField(name, type) == [name |-> name, type |-> type]

MCFields ==
    [m \in {M, N, S, E, Unit} |->
        CASE m = M -> {MCField(a, "i32"), MCField(b, "String"), MCField(n, N)}
          [] m = N -> {MCField(c, "i32")}
          [] m = S -> {MCField(a, "i32")}
          [] OTHER -> {}]

MCMethod(input, pattern, body, streaming) ==
    [input |-> input, pattern |-> pattern, body |-> body, clientStreaming |-> streaming]

MCMethods ==
    UNION {
        {MCMethod(M, p, d, s) : p \in {<<>>, <<a>>, <<b>>, <<a, b>>, <<a, a>>, <<n, x>>},
                                d \in {NoBody, Star, a, b, n, x}, s \in BOOLEAN},
        {MCMethod(S, p, d, s) : p \in {<<>>, <<a>>}, d \in {NoBody, Star, a}, s \in BOOLEAN},
        {MCMethod(m, p, d, s) : m \in {E, Unit, other}, p \in {<<>>, NoRule},
                                d \in {NoBody, Star}, s \in BOOLEAN}}
===============================================================================
