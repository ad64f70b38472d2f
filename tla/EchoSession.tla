------------------------------ MODULE EchoSession ------------------------------
(***************************************************************************)
(* The service of examples/ws-streaming behind a web socket session: its   *)
(* bidi_echo answers every message with its echo, greets now and then, and *)
(* "stops when the client disconnects".  The service of WsSession is free; *)
(* this one replaces it, in the same session.                              *)
(***************************************************************************)
EXTENDS WsSession

CONSTANTS Echo, Greeting,  \* the two kinds of reply
          MaxGreetings     \* bound on the greetings

ASSUME EchoSessionAssumption == {Echo, Greeting} \subseteq Replies /\ Echo # Greeting

EchoInit == Init /\ kind = "bidi"

\* One poll of client_stream.next() in the select!, and the branch it takes:
\* an item is echoed, an error is yielded and ends the loop, an end ends it.
EchoRead ==
    /\ pc = "streaming"
    /\ \/ \E f \in ClientFrames :
            /\ StreamFrame(f)
            /\ \/ /\ f \in Requests
                  /\ emitted' = Append(emitted, Echo)
                  /\ pc' = "sending"
                  /\ UNCHANGED status
               \/ /\ requests' = requests
                  /\ UNCHANGED <<emitted, pc, status>>
               \/ /\ requests' = Append(requests, "error")
                  /\ status' = "Internal"
                  /\ pc' = "finishing"
                  /\ UNCHANGED emitted
       \/ /\ StreamFailure
          /\ status' = "Internal"
          /\ pc' = "finishing"
          /\ UNCHANGED emitted
       \/ /\ StreamEnd
          /\ status' = "Ok"
          /\ pc' = "finishing"
          /\ UNCHANGED emitted
    /\ UNCHANGED <<kind, protobuf, clientVars>>

Greetings == Cardinality({i \in 1 .. Len(emitted) : emitted[i] = Greeting})

EchoGreet == Greetings < MaxGreetings /\ SvcEmit(Greeting)

EchoNext == Client \/ SvcAnswer \/ EchoRead \/ EchoGreet \/ Handler \/ Over

\* A client that has sent its Close reads on until it gets one, or vanishes.
ClosingRecv == client = "closing" /\ ClientRecv

\* The executor runs a task that is ready, tokio's select! polls its branches.
FairEchoSpec == /\ EchoInit /\ [][EchoNext]_vars
                /\ WF_vars(SvcAnswer) /\ WF_vars(EchoRead)
                /\ WF_vars(Handler) /\ WF_vars(ClosingRecv)

Wellformed == \A i \in 1 .. Len(sent) : sent[i] \notin {"bad", "broken", "close_error"}
Asked == RequestsUpTo(Len(sent))
Echoed == Cardinality({i \in 1 .. Len(wire) : wire[i] = Data(Echo)})

-------------------------------------------------------------------------------
\* A session that ends with the status Ok, from the client's Close to the end of
\* the select! loop, has sent an echo for each message of its client: none is
\* left behind in a buffer, dropped with a send, or echoed twice.
OkMeansAllEchoed == status = "Ok" => Echoed = Asked

\* A client that stays to the end has an echo for each of its messages, if they
\* were well-formed: not with every status, for a greeting after its Close is
\* refused and makes the status Internal.
StayingClientHasEchoes ==
    (pc = "done" /\ client # "gone" /\ Wellformed /\ Encodes(Echo) /\ Encodes(Greeting)) =>
        Closed /\ Echoed = Asked

\* "Stops when the client disconnects" (examples/ws-streaming/src/main.rs:35):
\* after a close or a lost connection the session's task comes to its end.
StopsWhenClientDisconnects == client # "open" ~> pc = "done"

\* A client that stays and reads has each of its messages echoed, whatever
\* greetings and pings come between them, until one of them is malformed.
EveryRequestIsEchoed ==
    WF_vars(ClientRecv) =>
        \A n \in 1 .. MaxFrames :
            (Asked >= n) ~> \/ Echoed >= n
                            \/ client = "gone" \/ tx = "peer_closed" \/ status = "Internal"
================================================================================
