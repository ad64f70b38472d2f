----------------------------- MODULE HelloSession ------------------------------
(***************************************************************************)
(* The service of examples/streaming behind an HTTP exchange: say_hello    *)
(* maps its request stream lazily to replies, so that a request is read    *)
(* only when the connection asks for a reply.  The service of HttpSession  *)
(* is free; here an exchange has either that service or this one.          *)
(*                                                                         *)
(* The properties tell two clients apart: one that reads while it sends    *)
(* (full duplex), and one that sends its whole body first (half duplex).   *)
(***************************************************************************)
EXTENDS HttpSession

CONSTANTS Hello  \* the reply to a request

ASSUME HelloSessionAssumption == Hello \in Replies \ Unencodable /\ "Internal" \in SvcCodes

VARIABLES service  \* "free", or the "hello" of the example

helloVars == <<vars, service>>

HelloInit == Init /\ service \in {"free", "hello"} /\ (service = "hello" => kind = "bidi")

\* (mutant) collects the requests first.
HelloPollCollects ==
    /\ pc = "streaming" /\ HasRoom
    /\ \/ /\ ReadLine
          /\ UNCHANGED <<pc, emitted, status, tail>>
       \/ /\ ReadEnd
          /\ pc' = "ending"
          /\ UNCHANGED <<emitted, status, tail>>
    /\ UNCHANGED <<kind, hasBody, client, sent, head, wire, rcvd>>

\* One poll of the mapped stream: a reply, the error of a request, the end.
HelloPoll ==
    /\ pc = "streaming" /\ HasRoom
    /\ \/ /\ ~lost /\ ReadLine /\ sent[rd'] \in Requests
          /\ emitted' = Append(emitted, Hello)
          /\ pc' = "sending"
          /\ UNCHANGED <<status, tail>>
       \/ /\ (~lost /\ ReadLine /\ sent[rd'] = "bad") \/ ReadLost
          /\ status' = "Internal"
          /\ tail' = "cut"
          /\ pc' = "done"
          /\ UNCHANGED emitted
       \/ /\ ReadEnd
          /\ pc' = "ending"
          /\ UNCHANGED <<emitted, status, tail>>
    /\ UNCHANGED <<kind, hasBody, client, sent, head, wire, rcvd>>

HelloServer == service = "hello" /\ (SvcAnswer \/ HelloPoll \/ Handler) /\ UNCHANGED service

HelloNext == \/ HelloServer
             \/ service = "free" /\ (Service \/ Handler) /\ UNCHANGED service
             \/ Client /\ UNCHANGED service
             \/ Over /\ UNCHANGED service

\* The executor runs a task that is ready, in an exchange of the example.
HelloSpec == HelloInit /\ [][HelloNext]_helloVars /\ WF_helloVars(HelloServer)

-------------------------------------------------------------------------------
\* A client that reads all the time.
FullDuplex == WF_vars(ClientRecv)

\* "Map the requests into replies lazily to achieve full duplex"
\* (examples/streaming/src/main.rs:35): a client that reads is answered line
\* by line, before it finishes, and its end is followed by the response's.
EveryLineIsAnswered ==
    FullDuplex =>
        /\ \A n \in 1 .. MaxLines :
               (service = "hello" /\ Len(sent) >= n)
                   ~> (Len(wire) >= n \/ client = "gone" \/ tail = "cut")
        /\ (service = "hello" /\ client = "sent") ~> (tail # "open" \/ client = "gone")

\* A client that stays, sends MaxLines good lines and reads after the last.
HalfDuplexStep == \/ \E l \in Requests : ClientLine(l)
                  \/ Len(sent) = MaxLines /\ ClientFinish
                  \/ client = "sent" /\ ClientRecv
WritesFirst == /\ client # "gone"
               /\ \A i \in 1 .. Len(sent) : sent[i] # "bad"
               /\ client = "sent" => Len(sent) = MaxLines
               /\ rcvd > 0 => client = "sent"

HalfDuplex == []WritesFirst /\ WF_vars(HalfDuplexStep)

\* "For REST, this will likely be used half duplex" (main.rs:35): the requests
\* wait in one direction and their replies in the other.  A body that fits in
\* both, MaxLines <= InCap + OutCap, is answered; a longer one is stuck, for
\* the client waits to send and the lazy service waits to be read.
HalfDuplexCompletes ==
    (service = "hello" /\ HalfDuplex) => <>(tail = "complete" /\ rcvd = MaxLines)
================================================================================
