------------------------------ MODULE HttpSession ------------------------------
(***************************************************************************)
(* One HTTP exchange of a generated handler: the client, the connection,   *)
(* the handler of generate_func, the conversions of tonic2axum/src/lib.rs  *)
(* and streaming/http.rs, and the gRPC service.                            *)
(*                                                                         *)
(* A request has a body of lines, the only one of a method without client  *)
(* streaming being its message.  A response is a head with a status and a  *)
(* body, which is complete, or cut when its stream yields an error.        *)
(*                                                                         *)
(* The connection is hyper's: it polls the body of the response when there *)
(* is room to send, hands the lines of the request on when they are asked  *)
(* for, and drops the handler once the client has left.  A service may     *)
(* have given its request stream to a task that reads on.  The stream is   *)
(* read through FakeGrpcFrameStreamingHelper, which FrameHelper shows to   *)
(* be transparent (ItemStream).                                            *)
(***************************************************************************)
EXTENDS Naturals, Sequences

CONSTANTS Requests,      \* request messages, each a line that parses
          Replies,       \* reply messages
          Unencodable,   \* the replies that serde_json fails to serialise
          SvcCodes,      \* status codes a service answers with
          MaxLines,      \* bound on the lines of a request
          MaxReplies,    \* bound on the replies of a service
          InCap, OutCap  \* lines in transit before a client, a response waits

\* tonic::Code
GrpcCodes == {"Ok", "Cancelled", "Unknown", "InvalidArgument", "DeadlineExceeded", "NotFound",
              "AlreadyExists", "PermissionDenied", "ResourceExhausted", "FailedPrecondition",
              "Aborted", "OutOfRange", "Unimplemented", "Internal", "Unavailable", "DataLoss",
              "Unauthenticated"}

ASSUME HttpSessionAssumption ==
    /\ Unencodable \subseteq Replies
    /\ SvcCodes \subseteq GrpcCodes
    /\ MaxLines \in Nat /\ MaxReplies \in Nat
    /\ InCap \in Nat \ {0} /\ OutCap \in Nat \ {0}

VARIABLES kind,      \* of the method: "unary", "client", "server" or "bidi"
          hasBody,   \* the message is the body, or else path and query only
          client,    \* "sending", "sent" (the whole body) or "gone"
          sent,      \* the lines of the client, in order
          rd,        \* how many of them were read
          lost,      \* a read has found the body to be incomplete
          pc,        \* where the handler stands
          requests,  \* results the service got from its request
          reqEnd,    \* the service was told that its request stream is over
          emitted,   \* the replies of the service
          status,    \* the code the service failed with
          head,      \* the HTTP status sent, or 0
          wire,      \* the replies put on the connection
          rcvd,      \* how many of them the client has received
          tail       \* the response body: "open", "complete" or "cut"

readVars == <<rd, lost, requests, reqEnd>>
outVars == <<head, wire, tail>>
vars == <<kind, hasBody, client, sent, readVars, pc, emitted, status, outVars, rcvd>>

Kinds == {"unary", "client", "server", "bidi"}
Lines == Requests \cup {"bad"}

\* (mutant) sends the number of the gRPC code.
HttpStatusIsCode(c) == CASE c = "Ok" -> 0 [] c = "Cancelled" -> 1 [] OTHER -> 13

\* make_err_response
HttpStatus(c) ==
    CASE c = "Ok" -> 200
      [] c \in {"InvalidArgument", "OutOfRange"} -> 400
      [] c = "Unauthenticated" -> 401
      [] c = "PermissionDenied" -> 403
      [] c = "NotFound" -> 404
      [] c = "Cancelled" -> 408
      [] c \in {"AlreadyExists", "Aborted"} -> 409
      [] c = "FailedPrecondition" -> 412
      [] c = "ResourceExhausted" -> 429
      [] c \in {"Unknown", "Internal", "DataLoss"} -> 500
      [] c = "Unimplemented" -> 501
      [] c = "Unavailable" -> 503
      [] c = "DeadlineExceeded" -> 504

ClientStreaming == kind \in {"client", "bidi"}
ServerStreaming == kind \in {"server", "bidi"}

Init == /\ kind \in Kinds
        /\ hasBody \in BOOLEAN
        /\ ClientStreaming => hasBody
        /\ client = "sending"
        /\ sent = <<>>
        /\ rd = 0
        /\ lost = FALSE
        /\ pc = "extract"
        /\ requests = <<>>
        /\ reqEnd = FALSE
        /\ emitted = <<>>
        /\ status = "None"
        /\ head = 0
        /\ wire = <<>>
        /\ rcvd = 0
        /\ tail = "open"

-------------------------------------------------------------------------------
(* The client and the connection *)

ClientLine(l) == /\ client = "sending"
                 /\ Len(sent) < MaxLines
                 /\ Len(sent) - rd < InCap
                 /\ sent' = Append(sent, l)
                 /\ UNCHANGED <<kind, hasBody, client, readVars, pc, emitted, status, outVars, rcvd>>

ClientFinish == /\ client = "sending"
                /\ client' = "sent"
                /\ UNCHANGED <<kind, hasBody, sent, readVars, pc, emitted, status, outVars, rcvd>>

ClientVanish == /\ client # "gone"
                /\ client' = "gone"
                /\ UNCHANGED <<kind, hasBody, sent, readVars, pc, emitted, status, outVars, rcvd>>

ClientRecv == /\ client # "gone"
              /\ rcvd < Len(wire)
              /\ rcvd' = rcvd + 1
              /\ UNCHANGED <<kind, hasBody, client, sent, readVars, pc, emitted, status, outVars>>

\* The handler, or the body it answered with, is dropped with the connection.
DropHandler == /\ client = "gone"
               /\ pc \notin {"done", "dropped"}
               /\ pc' = "dropped"
               /\ UNCHANGED <<kind, hasBody, client, sent, readVars, emitted, status, outVars, rcvd>>

HasRoom == Len(wire) - rcvd < OutCap

-------------------------------------------------------------------------------
(* The request *)

\* Path<T> and Query<T>, of a method with parameters, may refuse the request
\* before its body is read, and so may Json<T> for the type of its content.
\* Json<T> then takes the whole body; it is refused unless that is one message.
\* JsonLines<T> leaves the body to the service, and refuses nothing.
Extract ==
    /\ pc = "extract"
    /\ \/ /\ ClientStreaming \/ ~hasBody
          /\ pc' = "calling"
          /\ UNCHANGED <<rd, head, requests>>
       \/ /\ ~ClientStreaming
          /\ head' \in {400, 500} \/ (hasBody /\ head' = 415)
          /\ pc' = "ending"
          /\ UNCHANGED <<rd, requests>>
       \/ /\ ~ClientStreaming /\ hasBody /\ client = "sent"
          /\ rd' = Len(sent)
          /\ \/ /\ Len(sent) = 1 /\ sent[1] \in Requests
                /\ requests' = sent
                /\ pc' = "calling"
                /\ UNCHANGED head
             \/ /\ ~(Len(sent) = 1 /\ sent[1] \in Requests)
                /\ head' \in {400, 413, 422}
                /\ pc' = "ending"
                /\ UNCHANGED requests
    /\ UNCHANGED <<kind, hasBody, client, sent, lost, reqEnd, emitted, status, wire, tail, rcvd>>

\* What one line adds to the request stream.
LineResult(l) == IF l \in Requests THEN l ELSE "error"

ReadLine == /\ rd < Len(sent)
            /\ rd' = rd + 1
            /\ requests' = Append(requests, LineResult(sent[rd + 1]))
            /\ UNCHANGED <<lost, reqEnd>>

\* (mutant) a body that breaks off is taken for a body that ends.
ReadLostQuietly == /\ client = "gone" /\ ~lost
                   /\ lost' = TRUE
                   /\ UNCHANGED <<requests, rd, reqEnd>>

\* The body breaks off, with or without the lines that were in transit.
ReadLost == /\ client = "gone" /\ ~lost
            /\ lost' = TRUE
            /\ requests' = Append(requests, "error")
            /\ UNCHANGED <<rd, reqEnd>>

\* (mutant) leaves the reader waiting after the last line.
ReadEndWaits == /\ lost
                /\ reqEnd' = TRUE
                /\ UNCHANGED <<rd, lost, requests>>

ReadEnd == /\ lost \/ (client = "sent" /\ rd = Len(sent))
           /\ reqEnd' = TRUE
           /\ UNCHANGED <<rd, lost, requests>>

\* make_stream_request: the service, or a task it started, reads on.
SvcRead == /\ ClientStreaming
           /\ pc # "extract"
           /\ (~lost /\ ReadLine) \/ ReadLost \/ ReadEnd
           /\ UNCHANGED <<kind, hasBody, client, sent, pc, emitted, status, outVars, rcvd>>

-------------------------------------------------------------------------------
(* The response *)

\* The service answers Ok: make_response, or make_ok_stream_response.
SvcAnswer ==
    /\ pc = "calling"
    /\ IF ServerStreaming
       THEN /\ head' = 200
            /\ pc' = "streaming"
            /\ UNCHANGED emitted
       ELSE /\ \E r \in Replies : emitted' = <<r>>
            /\ pc' = "answering"
            /\ UNCHANGED head
    /\ UNCHANGED <<kind, hasBody, client, sent, readVars, status, wire, tail, rcvd>>

\* It answers Err: make_err_response.
SvcFail(c) == /\ pc = "calling"
              /\ status' = c
              /\ head' = HttpStatus(c)
              /\ pc' = "ending"
              /\ UNCHANGED <<kind, hasBody, client, sent, readVars, emitted, wire, tail, rcvd>>

\* make_ok_response.  The status of the tuple replaces the one of a Json that
\* fails to serialise, or does not, as axum decides: the body is an error text.
MakeOkResponse ==
    /\ pc = "answering"
    /\ \/ /\ emitted[1] \notin Unencodable
          /\ head' = 200
          /\ wire' = emitted
       \/ /\ emitted[1] \in Unencodable
          /\ head' \in {200, 500}
          /\ UNCHANGED wire
    /\ pc' = "ending"
    /\ UNCHANGED <<kind, hasBody, client, sent, readVars, emitted, status, tail, rcvd>>

\* JsonLines polls the reply stream: a reply, an error, or the end.
SvcEmit(r) == /\ pc = "streaming"
              /\ HasRoom
              /\ Len(emitted) < MaxReplies
              /\ emitted' = Append(emitted, r)
              /\ pc' = "sending"
              /\ UNCHANGED <<kind, hasBody, client, sent, readVars, status, outVars, rcvd>>

\* (mutant) filters the errors out of the stream.
SvcStreamFailHidden(c) == /\ pc = "streaming"
                          /\ HasRoom
                          /\ status' = c
                          /\ pc' = "ending"
                          /\ UNCHANGED <<kind, hasBody, client, sent, readVars, emitted, outVars, rcvd>>

SvcStreamFail(c) == /\ pc = "streaming"
                    /\ HasRoom
                    /\ status' = c
                    /\ tail' = "cut"
                    /\ pc' = "done"
                    /\ UNCHANGED <<kind, hasBody, client, sent, readVars, emitted, head, wire, rcvd>>

SvcEnd == /\ pc = "streaming"
          /\ HasRoom
          /\ pc' = "ending"
          /\ UNCHANGED <<kind, hasBody, client, sent, readVars, emitted, status, outVars, rcvd>>

\* (mutant) leaves out a reply that fails to serialise.
SendLineSkips == /\ pc = "sending"
                 /\ wire' = wire \o SelectSeq(<<emitted[Len(emitted)]>>,
                                              LAMBDA r : r \notin Unencodable)
                 /\ pc' = "streaming"
                 /\ UNCHANGED <<kind, hasBody, client, sent, readVars, emitted, status, head, tail, rcvd>>

\* A reply becomes a line, or an error of the body when it does not serialise.
SendLine == /\ pc = "sending"
            /\ \/ /\ emitted[Len(emitted)] \notin Unencodable
                  /\ wire' = Append(wire, emitted[Len(emitted)])
                  /\ pc' = "streaming"
                  /\ UNCHANGED tail
               \/ /\ emitted[Len(emitted)] \in Unencodable
                  /\ tail' = "cut"
                  /\ pc' = "done"
                  /\ UNCHANGED wire
            /\ UNCHANGED <<kind, hasBody, client, sent, readVars, emitted, status, head, rcvd>>

EndBody == /\ pc = "ending"
           /\ tail' = "complete"
           /\ pc' = "done"
           /\ UNCHANGED <<kind, hasBody, client, sent, readVars, emitted, status, head, wire, rcvd>>

-------------------------------------------------------------------------------
Client == \/ \E l \in Lines : ClientLine(l)
          \/ ClientFinish
          \/ ClientVanish
          \/ ClientRecv

Service == \/ SvcRead
           \/ SvcAnswer
           \/ \E c \in SvcCodes : SvcFail(c) \/ SvcStreamFail(c)
           \/ \E r \in Replies : SvcEmit(r)
           \/ SvcEnd

Handler == Extract \/ MakeOkResponse \/ SendLine \/ EndBody \/ DropHandler

\* The exchange is over.
Over == pc \in {"done", "dropped"} /\ UNCHANGED vars

Next == Client \/ Service \/ Handler \/ Over

Spec == Init /\ [][Next]_vars

-------------------------------------------------------------------------------
HttpTypeOK == /\ kind \in Kinds
              /\ hasBody \in BOOLEAN
              /\ client \in {"sending", "sent", "gone"}
              /\ sent \in Seq(Lines)
              /\ rd \in 0 .. Len(sent)
              /\ lost \in BOOLEAN
              /\ pc \in {"extract", "calling", "answering", "streaming",
                         "sending", "ending", "done", "dropped"}
              /\ requests \in Seq(Requests \cup {"error"})
              /\ reqEnd \in BOOLEAN
              /\ emitted \in Seq(Replies)
              /\ status \in SvcCodes \cup {"None"}
              /\ head \in {0, 200, 400, 401, 403, 404, 408, 409, 412, 413, 415, 422, 429,
                           500, 501, 503, 504}
              /\ wire \in Seq(Replies)
              /\ rcvd \in 0 .. Len(wire)
              /\ tail \in {"open", "complete", "cut"}

\* A service that fails is never taken for one that succeeded: its error is
\* the status of the response, or the body is not completed.
FailureIsVisible ==
    (status \notin {"None", "Ok"} /\ tail = "complete") => head >= 400

\* The service is told of a clean end of its request stream only when the
\* client completed its body, and then has each of its lines: neither a lost
\* connection nor a broken line is taken for the end, or passed over.
CleanEndMeansBodyComplete ==
    (reqEnd /\ \A i \in 1 .. Len(requests) : requests[i] # "error") =>
        /\ ~lost
        /\ requests = sent

\* What the client sees is a reply stream: in order, nothing twice, and a body
\* completed under the status 200 only after every reply.  (A single reply
\* that was lost makes no normal end here; SuccessCarriesReply is about that.)
Verdict == CASE tail = "open" -> "open"
             [] /\ tail = "complete" /\ head = 200
                /\ ServerStreaming \/ wire # <<>> -> "normal"
             [] OTHER -> "other"

Reply == INSTANCE ReplyStream WITH offered <- emitted,
                                   carried <- wire,
                                   verdict <- Verdict

\* The exchange implements the reply stream: a stream that breaks off is cut,
\* never completed.
ImplementsReplyStream == Reply!Spec

\* The documentation the generator writes for a method is "status = 200,
\* description = "Success", body = super::<reply>" (generator.rs:297): a
\* complete response 200 to a call with a single reply has that reply.
SuccessCarriesReply ==
    (tail = "complete" /\ head = 200 /\ ~ServerStreaming) => wire # <<>>
================================================================================
