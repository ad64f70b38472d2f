----------------------------- MODULE MCGenerator ------------------------------
(* Instance of Generator for TLC.  Builds of two files: a first service of two *)
(* methods, then one of one method, in the same package or in another one     *)
(* whose message of the same name may differ; or a file of messages, then two *)
(* services in one file; or services of which two have one name, or one whose *)
(* trait is not named as in its file.  A method may take nothing, or a        *)
(* message of a file that is not built.                                       *)
EXTENDS Generator

CONSTANTS A, B, S, T, RawS, Req, Imported, m1, m2, a, b, c, pa, pb, pab, plain

Method(name, rule, client, server) ==
    [name |-> name, input |-> Req, rule |-> rule, client |-> client, server |-> server]
Rule(verb, path, star) ==
    [verb |-> verb, path |-> path, star |-> star,
     vars |-> CASE path = pa -> {a} [] path = pb -> {b} [] path = pab -> {a, b} [] OTHER -> {}]

\* The second method's rules never have both verb and path of the first's.
MCFirst == {Method(m1, NoRule, FALSE, FALSE),
            Method(m1, Rule("get", pa, FALSE), FALSE, TRUE),
            Method(m1, Rule("put", pb, TRUE), FALSE, TRUE),
            Method(m1, Rule("post", plain, TRUE), TRUE, TRUE),
            Method(m1, Rule("get", pab, FALSE), FALSE, FALSE)}
MCSecond == {Method(m2, NoRule, FALSE, FALSE),
             Method(m2, Rule("delete", pb, FALSE), FALSE, TRUE),
             Method(m2, Rule("patch", pb, TRUE), FALSE, FALSE),
             Method(m2, Rule("put", plain, TRUE), TRUE, FALSE),
             Method(m2, Rule("delete", plain, FALSE), FALSE, FALSE),
             [Method(m2, Rule("delete", plain, FALSE), FALSE, FALSE) EXCEPT !.input = Unit],
             [Method(m2, Rule("patch", plain, TRUE), FALSE, FALSE) EXCEPT !.input = Unit],
             [Method(m2, NoRule, FALSE, FALSE) EXCEPT !.input = Imported]}

MCFile(pkg, fields, services) ==
    [pkg |-> pkg, msgs |-> [r \in {Req} |-> fields], services |-> services]
MCService(name, methods) == [proto |-> name, name |-> name, methods |-> methods]
Two(name) == {MCService(name, <<x, y>>) : x \in MCFirst, y \in MCSecond}
One(name) == {MCService(name, <<x>>) : x \in MCFirst}

MCBuilds ==
    UNION {{<<MCFile(A, {a, b}, <<s>>), [MCFile(A, {}, <<t>>) EXCEPT !.msgs = <<>>]>>,
            <<MCFile(A, {a, b}, <<>>), [MCFile(A, {}, <<s, t>>) EXCEPT !.msgs = <<>>]>>,
            <<MCFile(A, {a, b}, <<s>>), MCFile(B, {a, c}, <<t>>)>>,
            <<MCFile(A, {a, b}, <<s>>), MCFile(B, {a, b}, <<[t EXCEPT !.name = S, !.proto = S]>>)>>,
            <<MCFile(A, {a, b}, <<[s EXCEPT !.proto = RawS], t>>)>>}
           : s \in Two(S), t \in One(T)}
===============================================================================
