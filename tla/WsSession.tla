------------------------------- MODULE WsSession -------------------------------
(***************************************************************************)
(* One web socket session of a generated streaming handler: the client,    *)
(* the socket, the callback given to upgrade_to_ws, the conversions and    *)
(* the close of tonic2axum/src/streaming/ws.rs, and the gRPC service.      *)
(*                                                                         *)
(* The handler runs in its own task.  The service, client and socket are   *)
(* not part of the repository: a service may read its request stream from  *)
(* another task while the handler sends, may answer early, late or with an *)
(* error; a client may close, or vanish, between any two steps.            *)
(*                                                                         *)
(* The socket is axum's, over tungstenite: a Close that was read or sent   *)
(* ends sending for good (a later send is an error), the Close of the peer *)
(* is echoed at the next flush.  After a read error nothing is read, but a *)
(* client that is still there, having sent a frame that is too long, not   *)
(* UTF-8 or against the protocol ("broken"), can still be sent to.         *)
(* A request stream is read through FakeGrpcFrameStreamingHelper, which    *)
(* FrameHelper shows to be transparent (ItemStream).                       *)
(***************************************************************************)
EXTENDS Naturals, Sequences, FiniteSets

CONSTANTS Requests,      \* request messages, each a well-formed data frame
          Replies,       \* reply messages
          Unencodable,   \* the replies that serde_json fails to serialise
          SvcCodes,      \* status codes a service answers with
          MaxFrames,     \* bound on the frames a client sends before it closes
          MaxReplies,    \* bound on the replies of a service
          OutCap         \* frames in transit before a send has to wait

CloseFrames == {"close", "close_normal", "close_error"}  \* no code, 1000, other

Codes == {"Ok", "Cancelled", "Unknown", "InvalidArgument", "DeadlineExceeded",
          "NotFound", "AlreadyExists", "PermissionDenied", "ResourceExhausted",
          "FailedPrecondition", "Aborted", "OutOfRange", "Unimplemented",
          "Internal", "Unavailable", "DataLoss", "Unauthenticated"}

ASSUME WsSessionAssumption ==
    /\ Requests \cap ({"bad", "broken", "ping", "error"} \cup CloseFrames) = {}
    /\ Unencodable \subseteq Replies
    /\ SvcCodes \subseteq Codes
    /\ MaxFrames \in Nat /\ MaxReplies \in Nat /\ OutCap \in Nat \ {0}

VARIABLES kind,      \* of the method: "bidi", "client" or "server" streaming
          protobuf,  \* the /ws/proto route (TRUE) or the /ws/json one
          client,    \* "open", "closing" (sent a Close) or "gone"
          sent,      \* all frames of the client, in order
          rd,        \* how many of them the socket has read
          rx,        \* SplitStream: "open", "closed", "failed" or "dropped"
          tx,        \* may the socket send: "active", "peer_closed", "closed"
          owed,      \* the echo of the client's Close is not flushed yet
          wire,      \* all frames put on the connection, in order
          rcvd,      \* how many of them the client has received
          pc,        \* where the handler stands
          requests,  \* results the service got from its request
          reqEnd,    \* the service was told that its request stream is over
          emitted,   \* the replies of the service
          status     \* the status the session is closed with

clientVars == <<client, sent, rcvd>>
readVars == <<rd, rx, tx, owed>>
svcVars == <<requests, reqEnd, emitted>>
vars == <<kind, protobuf, clientVars, readVars, wire, pc, svcVars, status>>

Kinds == {"bidi", "client", "server"}
\* A frame is a request, one that does not decode, one that the socket cannot
\* read, a frame without a meaning here, or a Close.
DataFrames == Requests \cup {"bad", "broken", "ping"}
ClientFrames == DataFrames \cup CloseFrames

\* tonic_status_to_ws_close_frame
CloseCode(c) ==
    CASE c = "Ok" -> "NORMAL"
      [] c = "Cancelled" -> "AWAY"
      [] c = "InvalidArgument" -> "INVALID"
      [] c \in {"PermissionDenied", "Unauthenticated"} -> "POLICY"
      [] c = "ResourceExhausted" -> "SIZE"
      [] c = "Unimplemented" -> "UNSUPPORTED"
      [] c \in {"DeadlineExceeded", "Unavailable"} -> "AGAIN"
      [] OTHER -> "ERROR"

WsCloseCodes == {CloseCode(c) : c \in Codes} \cup {"echo"}

Data(r) == [type |-> "data", body |-> r]
Close(c) == [type |-> "close", body |-> c]
WireFrames == {Data(r) : r \in Replies} \cup {Close(c) : c \in WsCloseCodes}

Init == /\ kind \in Kinds
        /\ protobuf \in BOOLEAN
        /\ client = "open"
        /\ sent = <<>>
        /\ rd = 0
        /\ rx = "open"
        /\ tx = "active"
        /\ owed = FALSE
        /\ wire = <<>>
        /\ rcvd = 0
        /\ pc = "upgrade"
        /\ requests = <<>>
        /\ reqEnd = FALSE
        /\ emitted = <<>>
        /\ status = "None"

-------------------------------------------------------------------------------
(* The client *)

ClientSend(f) == /\ client = "open"
                 /\ Len(sent) < MaxFrames
                 /\ sent' = Append(sent, f)
                 /\ UNCHANGED <<kind, protobuf, client, rcvd, readVars, wire, pc, svcVars, status>>

ClientClose(f) == /\ client = "open"
                  /\ sent' = Append(sent, f)
                  /\ client' = "closing"
                  /\ UNCHANGED <<kind, protobuf, rcvd, readVars, wire, pc, svcVars, status>>

ClientVanish == /\ client # "gone"
                /\ client' = "gone"
                /\ UNCHANGED <<kind, protobuf, sent, rcvd, readVars, wire, pc, svcVars, status>>

\* A Close that comes first from the server is answered with the same code.
ClientRecv ==
    /\ client # "gone"
    /\ rcvd < Len(wire)
    /\ rcvd' = rcvd + 1
    /\ IF wire[rcvd + 1].type = "close" /\ client = "open"
       THEN /\ client' = "closing"
            /\ sent' = Append(sent, IF wire[rcvd + 1].body = "NORMAL"
                                    THEN "close_normal" ELSE "close_error")
       ELSE UNCHANGED <<client, sent>>
    /\ UNCHANGED <<kind, protobuf, readVars, wire, pc, svcVars, status>>

-------------------------------------------------------------------------------
(* The socket *)

\* The next frame of the client; its Close also ends sending.
ReadFrame(f) == /\ rx = "open"
                /\ rd < Len(sent)
                /\ f = sent[rd + 1]
                /\ rd' = rd + 1
                /\ owed' = (f \in CloseFrames /\ tx = "active")
                /\ tx' = IF owed' THEN "peer_closed" ELSE tx

\* The connection is lost: an error, with or without what was still unread.
ReadFailure == /\ rx = "open"
               /\ client = "gone"
               /\ UNCHANGED <<rd, tx, owed>>

HasRoom == Len(wire) - rcvd < OutCap

\* A send completes: the frame is in transit (or lost, with a client gone).
Send(f) == /\ tx = "active"
           /\ HasRoom
           /\ wire' = Append(wire, f)

SendFails == tx # "active" \/ client = "gone"

-------------------------------------------------------------------------------
(* Reading a request *)

\* (mutant) a Close with an error code is taken for a normal end.
ConvertIgnoresCode(f) == CASE f \in Requests -> <<f>>
                           [] f \in {"bad", "broken"} -> <<"error">>
                           [] f \in {"ping"} \cup CloseFrames -> <<>>

\* convert_stream and ws_code_to_error: what one frame adds to the stream.
ConvertStream(f) == CASE f \in Requests -> <<f>>
                      [] f \in {"bad", "broken", "close_error"} -> <<"error">>
                      [] f \in {"ping", "close", "close_normal"} -> <<>>

\* A frame, or a failure, or the end, as the service sees it.  A read at the
\* end also flushes what the socket owes the peer.
Flush == /\ wire' = IF owed /\ HasRoom /\ client # "gone"
                    THEN Append(wire, Close("echo")) ELSE wire
         /\ owed' = (owed /\ wire' = wire)

\* (mutant) "something else" ends the stream instead of being skipped.
StreamFramePingEnds(f) == /\ ReadFrame(f)
                          /\ requests' = requests \o ConvertStream(f)
                          /\ rx' = CASE f \in CloseFrames \cup {"ping"} -> "closed"
                                     [] f = "broken" -> "failed"
                                     [] OTHER -> rx
                          /\ UNCHANGED <<wire, reqEnd>>

StreamFrame(f) == /\ ReadFrame(f)
                  /\ requests' = requests \o ConvertStream(f)
                  /\ rx' = CASE f \in CloseFrames -> "closed"
                             [] f = "broken" -> "failed"
                             [] OTHER -> rx
                  /\ UNCHANGED <<wire, reqEnd>>

StreamFailure == /\ ReadFailure
                 /\ requests' = Append(requests, "error")
                 /\ rx' = "failed"
                 /\ UNCHANGED <<wire, reqEnd>>

StreamEnd == /\ rx \in {"closed", "failed"}
             /\ reqEnd' = TRUE
             /\ Flush
             /\ UNCHANGED <<rd, rx, tx, requests>>

SvcRead == /\ kind # "server"
           /\ pc # "upgrade"
           /\ (\E f \in ClientFrames : StreamFrame(f)) \/ StreamFailure \/ StreamEnd
           /\ UNCHANGED <<kind, protobuf, clientVars, pc, emitted, status>>

\* (mutant) a first message that does not decode is passed over.
ConvertItemSkips(f) == CASE f \in Requests -> "item"
                         [] f \in {"broken", "close_error"} -> "error"
                         [] f \in {"close", "close_normal"} -> "end"
                         [] f \in {"ping", "bad"} -> "skip"

\* convert_ws_to_item: what make_ws_request makes of one frame.
ConvertItem(f) == CASE f \in Requests -> "item"
                    [] f \in {"bad", "broken", "close_error"} -> "error"
                    [] f \in {"close", "close_normal"} -> "end"
                    [] f = "ping" -> "skip"

\* make_ws_request, one turn of its loop.  Its stream is dropped on return.
AwaitFrame(f) ==
    /\ ReadFrame(f)
    /\ \/ /\ ConvertItem(f) = "item"
          /\ requests' = <<f>>
          /\ rx' = "dropped"
          /\ pc' = "calling"
          /\ UNCHANGED status
       \/ /\ ConvertItem(f) = "skip"
          /\ UNCHANGED <<requests, rx, pc, status>>
       \/ /\ ConvertItem(f) \in {"end", "error"}
          /\ rx' = "dropped"
          /\ status' = "Aborted"
          /\ pc' = "finishing"
          /\ UNCHANGED requests

AwaitFailure == /\ ReadFailure
                /\ rx' = "dropped"
                /\ status' = "Aborted"
                /\ pc' = "finishing"
                /\ UNCHANGED requests

MakeWsRequest == /\ pc = "await_request"
                 /\ (\E f \in ClientFrames : AwaitFrame(f)) \/ AwaitFailure
                 /\ UNCHANGED <<kind, protobuf, clientVars, wire, reqEnd, emitted>>

-------------------------------------------------------------------------------
(* The callback: convert the request, call the service, process the response *)

UpgradeToWs == /\ pc = "upgrade"
               /\ pc' = IF kind = "server" THEN "await_request" ELSE "calling"
               /\ UNCHANGED <<kind, protobuf, clientVars, readVars, wire, svcVars, status>>

\* The service answers Ok: with one reply, or with a stream of them.
SvcAnswer == /\ pc = "calling"
             /\ IF kind = "client"
                THEN /\ \E r \in Replies : emitted' = <<r>>
                     /\ pc' = "sending"
                ELSE /\ pc' = "streaming"
                     /\ UNCHANGED emitted
             /\ UNCHANGED <<kind, protobuf, clientVars, readVars, wire, requests, reqEnd, status>>

\* (mutant) an early return that leaves out finish_ws.
SvcFailSilently(c) == /\ pc \in {"calling", "streaming"}
                      /\ status' = c
                      /\ pc' = "done"
                      /\ UNCHANGED <<kind, protobuf, clientVars, readVars, wire, svcVars>>

\* It answers Err, or its stream yields Err: the loop returns that status.
SvcFail(c) == /\ pc \in {"calling", "streaming"}
              /\ status' = c
              /\ pc' = "finishing"
              /\ UNCHANGED <<kind, protobuf, clientVars, readVars, wire, svcVars>>

SvcEmit(r) == /\ pc = "streaming"
              /\ Len(emitted) < MaxReplies
              /\ emitted' = Append(emitted, r)
              /\ pc' = "sending"
              /\ UNCHANGED <<kind, protobuf, clientVars, readVars, wire, requests, reqEnd, status>>

SvcEnd == /\ pc = "streaming"
          /\ status' = "Ok"
          /\ pc' = "finishing"
          /\ UNCHANGED <<kind, protobuf, clientVars, readVars, wire, svcVars>>

\* send_ws_msg encodes the reply and awaits the send.
Encodes(r) == protobuf \/ r \notin Unencodable

SendMsg == LET reply == emitted[Len(emitted)] IN
           /\ pc = "sending"
           /\ Encodes(reply)
           /\ Send(Data(reply))
           /\ pc' = IF kind = "client" THEN "finishing" ELSE "streaming"
           /\ status' = IF kind = "client" THEN "Ok" ELSE status
           /\ UNCHANGED <<kind, protobuf, clientVars, readVars, svcVars>>

\* (mutant) logs the failure and goes on with the next reply.
SendMsgSkips == /\ pc = "sending"
                /\ SendFails \/ ~Encodes(emitted[Len(emitted)])
                /\ pc' = IF kind = "client" THEN "finishing" ELSE "streaming"
                /\ status' = IF kind = "client" THEN "Ok" ELSE status
                /\ UNCHANGED <<kind, protobuf, clientVars, readVars, wire, svcVars>>

SendMsgFails == /\ pc = "sending"
                /\ SendFails \/ ~Encodes(emitted[Len(emitted)])
                /\ status' = "Internal"
                /\ pc' = "finishing"
                /\ UNCHANGED <<kind, protobuf, clientVars, readVars, wire, svcVars>>

\* (mutant) sends the tonic code in the place of a close code.
FinishSendsStatus ==
    /\ pc = "finishing"
    /\ \/ Send(Close(status)) /\ tx' = "closed"
       \/ SendFails /\ UNCHANGED <<wire, tx>>
    /\ pc' = "closing"
    /\ UNCHANGED <<kind, protobuf, clientVars, rd, rx, owed, svcVars, status>>

\* (mutant) waits for a close frame to be sent, come what may.
FinishSendInsists ==
    /\ pc = "finishing"
    /\ Send(Close(CloseCode(status)))
    /\ tx' = "closed"
    /\ pc' = "closing"
    /\ UNCHANGED <<kind, protobuf, clientVars, rd, rx, owed, svcVars, status>>

\* finish_ws: send the close frame (a failure is logged), then ws.close().
FinishSend == /\ pc = "finishing"
              /\ \/ /\ Send(Close(CloseCode(status)))
                    /\ tx' = "closed"
                 \/ /\ SendFails
                    /\ UNCHANGED <<wire, tx>>
              /\ pc' = "closing"
              /\ UNCHANGED <<kind, protobuf, clientVars, rd, rx, owed, svcVars, status>>

FinishClose == /\ pc = "closing"
               /\ owed => HasRoom \/ client = "gone"
               /\ Flush
               /\ pc' = "done"
               /\ UNCHANGED <<kind, protobuf, clientVars, rd, rx, tx, svcVars, status>>

-------------------------------------------------------------------------------
Client == \/ \E f \in DataFrames : ClientSend(f)
          \/ \E f \in CloseFrames : ClientClose(f)
          \/ ClientVanish
          \/ ClientRecv

Service == \/ SvcRead
           \/ SvcAnswer
           \/ \E c \in SvcCodes : SvcFail(c)
           \/ \E r \in Replies : SvcEmit(r)
           \/ SvcEnd

Handler == UpgradeToWs \/ MakeWsRequest \/ SendMsg \/ SendMsgFails \/ FinishSend \/ FinishClose

\* The handler's task is over.
Over == pc = "done" /\ UNCHANGED vars

Next == Client \/ Service \/ Handler \/ Over

Spec == Init /\ [][Next]_vars

-------------------------------------------------------------------------------
WsTypeOK == /\ kind \in Kinds
            /\ protobuf \in BOOLEAN
            /\ client \in {"open", "closing", "gone"}
            /\ sent \in Seq(ClientFrames)
            /\ rd \in 0 .. Len(sent)
            /\ rx \in {"open", "closed", "failed", "dropped"}
            /\ tx \in {"active", "peer_closed", "closed"}
            /\ owed \in BOOLEAN
            /\ wire \in Seq(WireFrames)
            /\ rcvd \in 0 .. Len(wire)
            /\ pc \in {"upgrade", "await_request", "calling", "streaming",
                      "sending", "finishing", "closing", "done"}
            /\ requests \in Seq(Requests \cup {"error"})
            /\ reqEnd \in BOOLEAN
            /\ emitted \in Seq(Replies)
            /\ status \in Codes \cup {"None"}

Closed == wire # <<>> /\ wire[Len(wire)].type = "close"

\* A session that is over while its client is still there has said so: the
\* last frame is a Close with the code of the status that ended the call, or
\* the echo of a Close the client sent before.
NoSilentEnd ==
    (pc = "done" /\ client # "gone") =>
        /\ Closed
        /\ \/ wire[Len(wire)].body = CloseCode(status)
           \/ /\ wire[Len(wire)].body = "echo"
              /\ \E i \in 1 .. rd : sent[i] \in CloseFrames

\* How many of the first n frames of the client are requests.
RequestsUpTo(n) == Cardinality({i \in 1 .. n : sent[i] \in Requests})

\* The service is told of a clean end of its request stream only by a client
\* that closed without an error code, and then has every request it sent, and
\* each in its place: a lost connection or an error code is never taken for
\* the end of the input.
CleanEndMeansClientFinished ==
    (reqEnd /\ \A i \in 1 .. Len(requests) : requests[i] # "error") =>
        /\ rd > 0
        /\ sent[rd] \in {"close", "close_normal"}
        /\ Len(requests) = RequestsUpTo(Len(sent))
        /\ \A i \in 1 .. Len(sent) :
               sent[i] \in Requests => requests[RequestsUpTo(i)] = sent[i]

\* A client ends its requests by a Close, and after that Close has been read
\* the socket refuses replies: what a service has to say when it was told of
\* the end of its requests does not reach a client that is still there, unless
\* a frame that could not be read has ended them before.
NoReplyAfterLastRequest ==
    [][(reqEnd /\ client # "gone" /\ \A i \in 1 .. rd : sent[i] # "broken") =>
           \A i \in Len(wire) + 1 .. Len(wire') : wire'[i].type = "close"]_vars

\* A server streaming method is called with the first message of its client
\* and no other: pings before it are passed over, a broken message is not.
RequestIsFirst ==
    (kind = "server" /\ requests # <<>>) =>
        /\ requests = <<sent[rd]>>
        /\ \A i \in 1 .. rd - 1 : sent[i] = "ping"

\* What the client sees is a reply stream: in order, nothing twice, and the
\* code NORMAL only after every reply of the service.
Carried == [i \in 1 .. (IF Closed THEN Len(wire) - 1 ELSE Len(wire)) |-> wire[i].body]

Verdict == CASE ~Closed -> "open"
             [] Closed /\ wire[Len(wire)].body = "NORMAL" -> "normal"
             [] OTHER -> "other"

Reply == INSTANCE ReplyStream WITH offered <- emitted,
                                   carried <- Carried,
                                   verdict <- Verdict

\* The session implements the reply stream: sends that are refused or that
\* fail to encode may cut the replies short, but never unnoticed.
ImplementsReplyStream == Reply!Spec

\* "Processes a Tonic response into a WebSocket response" (ws.rs:150): the
\* reply of a client streaming method reaches a client that stays for it.
UnaryReplyIsSent ==
    (/\ kind = "client" /\ pc = "done" /\ client # "gone"
     /\ emitted # <<>> /\ Encodes(emitted[1])) => Carried = emitted
===============================================================================
