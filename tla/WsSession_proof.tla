---------------------------- MODULE WsSession_proof ----------------------------
(***************************************************************************)
(* Proofs about WsSession: for all requests, replies, status codes and     *)
(* bounds, and for every client and service.                               *)
(***************************************************************************)
EXTENDS WsSession, SequenceTheorems, FiniteSetTheorems, TLAPS

\* One step of a session, or none.
Step == \/ \E f \in ClientFrames : ClientSend(f) \/ ClientClose(f)
        \/ ClientVanish \/ ClientRecv
        \/ SvcRead \/ MakeWsRequest \/ UpgradeToWs
        \/ SvcAnswer \/ SvcEnd
        \/ \E c \in SvcCodes : SvcFail(c)
        \/ \E r \in Replies : SvcEmit(r)
        \/ SendMsg \/ SendMsgFails \/ FinishSend \/ FinishClose
        \/ UNCHANGED vars

\* A step of Next is one of the cases of Step.
LEMMA StepOfNext ==
  ASSUME [Next]_vars
  PROVE  Step
<1>1. Client => Step
  BY DEF Client, Step, ClientFrames, DataFrames
<1>2. Service \/ Handler \/ Over => Step
  BY DEF Service, Handler, Over, Step
<1> QED
  BY <1>1, <1>2 DEF Next, Step

\* What one frame adds to the request stream, and what a first frame is.
LEMMA Conversions ==
  ASSUME NEW f \in ClientFrames
  PROVE  /\ ConvertStream(f) \in Seq(Requests \cup {"error"})
         /\ ConvertItem(f) = "item" => f \in Requests
         /\ ConvertItem(f) = "skip" => f = "ping"
<1> USE WsSessionAssumption DEF ClientFrames, DataFrames, CloseFrames
<1>1. CASE f \in Requests
  <2>1. ConvertStream(f) = <<f>> /\ ConvertItem(f) = "item"
    BY <1>1 DEF ConvertStream, ConvertItem
  <2>2. <<f>> \in Seq(Requests \cup {"error"})
    BY <1>1
  <2> QED
    BY <1>1, <2>1, <2>2
<1>2. CASE f = "bad"
  BY <1>2 DEF ConvertStream, ConvertItem
<1>3. CASE f = "ping"
  BY <1>3 DEF ConvertStream, ConvertItem
<1>4. CASE f = "close"
  BY <1>4 DEF ConvertStream, ConvertItem
<1>5. CASE f = "close_normal"
  BY <1>5 DEF ConvertStream, ConvertItem
<1>6. CASE f = "close_error"
  BY <1>6 DEF ConvertStream, ConvertItem
<1>7. CASE f = "broken"
  BY <1>7 DEF ConvertStream, ConvertItem
<1> QED
  BY <1>1, <1>2, <1>3, <1>4, <1>5, <1>6, <1>7

\* The replies and the close codes make frames of the wire.
LEMMA Frames ==
  /\ \A r \in Replies : Data(r) \in WireFrames
  /\ \A c \in Codes : Close(CloseCode(c)) \in WireFrames
  /\ Close("echo") \in WireFrames
BY DEF WireFrames, WsCloseCodes
-------------------------------------------------------------------------------
\* The types of what is read.
ReadTypes == /\ kind \in Kinds
             /\ protobuf \in BOOLEAN
             /\ client \in {"open", "closing", "gone"}
             /\ sent \in Seq(ClientFrames)
             /\ rd \in 0 .. Len(sent)
             /\ rx \in {"open", "closed", "failed", "dropped"}
             /\ requests \in Seq(Requests \cup {"error"})
             /\ reqEnd \in BOOLEAN

\* One read of a request stream, by whoever reads it.
ReadStep == (\E f \in ClientFrames : StreamFrame(f)) \/ StreamFailure \/ StreamEnd

\* A read of the request stream keeps the types of what is read.
LEMMA ReadTypesKept ==
  ASSUME ReadTypes, ReadStep, UNCHANGED <<kind, protobuf, client, sent>>
  PROVE  ReadTypes'
<1> USE DEF ReadTypes
<1>1. CASE \E f \in ClientFrames : StreamFrame(f)
  <2>1. PICK f \in ClientFrames : StreamFrame(f)
    BY <1>1
  <2>2. requests' \in Seq(Requests \cup {"error"})
    BY <2>1, Conversions DEF StreamFrame
  <2>3. rd' \in 0 .. Len(sent) /\ rx' \in {rx, "closed", "failed"} /\ UNCHANGED reqEnd
    BY <2>1 DEF StreamFrame, ReadFrame
  <2> QED
    BY <2>2, <2>3
<1>2. CASE StreamFailure
  BY <1>2 DEF StreamFailure, ReadFailure
<1>3. CASE StreamEnd
  BY <1>3 DEF StreamEnd
<1> QED
  BY <1>1, <1>2, <1>3 DEF ReadStep

\* So does every step of a session.
LEMMA ReadTypesStep ==
  ASSUME ReadTypes, Step
  PROVE  ReadTypes'
<1> USE DEF ReadTypes
<1>1. CASE \E f \in ClientFrames : ClientSend(f) \/ ClientClose(f)
  BY <1>1 DEF ClientSend, ClientClose, readVars, svcVars
<1>2. CASE ClientVanish
  BY <1>2 DEF ClientVanish, readVars, svcVars
<1>3. CASE ClientRecv
  <2>1. {"close_normal", "close_error"} \subseteq ClientFrames
    BY DEF ClientFrames, CloseFrames
  <2>2. client' \in {client, "closing"} /\ sent' \in {sent, Append(sent, "close_normal"), Append(sent, "close_error")}
    BY <1>3 DEF ClientRecv
  <2>3. sent' \in Seq(ClientFrames) /\ Len(sent) <= Len(sent')
    BY <2>1, <2>2
  <2> QED
    BY <1>3, <2>2, <2>3 DEF ClientRecv, readVars, svcVars
<1>4. CASE SvcRead
  BY <1>4, ReadTypesKept DEF SvcRead, ReadStep, clientVars
<1>5. CASE MakeWsRequest
  <2>1. CASE \E f \in ClientFrames : AwaitFrame(f)
    <3>1. PICK f \in ClientFrames : AwaitFrame(f)
      BY <2>1
    <3>2. requests' = requests \/ (f \in Requests /\ requests' = <<f>>)
      BY <3>1, Conversions DEF AwaitFrame
    <3>3. requests' \in Seq(Requests \cup {"error"})
      <4>1. \A q \in Requests : <<q>> \in Seq(Requests \cup {"error"})
        OBVIOUS
      <4> QED
        BY <3>2, <4>1
    <3>4. rd' \in 0 .. Len(sent) /\ rx' \in {rx, "dropped"}
      BY <3>1 DEF AwaitFrame, ReadFrame
    <3> QED
      BY <1>5, <3>3, <3>4 DEF MakeWsRequest, clientVars
  <2>2. CASE AwaitFailure
    BY <1>5, <2>2 DEF MakeWsRequest, AwaitFailure, ReadFailure, clientVars
  <2> QED
    BY <1>5, <2>1, <2>2 DEF MakeWsRequest
<1>6. CASE UNCHANGED <<kind, protobuf, client, sent, rd, rx, requests, reqEnd>>
  BY <1>6
<1> QED
  BY <1>1, <1>2, <1>3, <1>4, <1>5, <1>6
  DEF Step, UpgradeToWs, SvcAnswer, SvcEnd, SvcFail, SvcEmit, SendMsg, SendMsgFails,
      FinishSend, FinishClose, vars, clientVars, readVars, svcVars

-------------------------------------------------------------------------------
\* The types of what is sent, and the status that a session is closed with.
SendTypes == /\ tx \in {"active", "peer_closed", "closed"}
             /\ owed \in BOOLEAN
             /\ wire \in Seq(WireFrames)
             /\ rcvd \in 0 .. Len(wire)
             /\ pc \in {"upgrade", "await_request", "calling", "streaming",
                       "sending", "finishing", "closing", "done"}
             /\ emitted \in Seq(Replies)
             /\ status \in Codes \cup {"None"}
             /\ pc = "sending" => emitted # <<>>
             /\ pc \in {"finishing", "closing", "done"} => status \in Codes

\* What a read does to the sending side: it may send the echo that is owed.
LEMMA FlushTypes ==
  ASSUME SendTypes, Flush
  PROVE  /\ wire' = wire \/ (owed /\ wire' = Append(wire, Close("echo")))
         /\ wire' \in Seq(WireFrames) /\ Len(wire) <= Len(wire')
         /\ owed' \in BOOLEAN
BY Frames DEF SendTypes, Flush

\* A read puts nothing on the wire but the echo of the client's Close.
LEMMA ReadSends ==
  ASSUME SendTypes, ReadStep
  PROVE  /\ tx' \in {tx, "peer_closed"} /\ owed' \in BOOLEAN
         /\ wire' = wire \/ (owed /\ wire' = Append(wire, Close("echo")))
         /\ wire' \in Seq(WireFrames) /\ Len(wire) <= Len(wire')
<1> USE DEF SendTypes
<1>1. CASE \E f \in ClientFrames : StreamFrame(f)
  BY <1>1 DEF StreamFrame, ReadFrame
<1>2. CASE StreamFailure
  BY <1>2 DEF StreamFailure, ReadFailure
<1>3. CASE StreamEnd
  BY <1>3, FlushTypes DEF StreamEnd
<1> QED
  BY <1>1, <1>2, <1>3 DEF ReadStep

\* Only the Close of the client takes a reading socket out of "active", and it
\* always does.
LEMMA ReadFrameTx ==
  ASSUME NEW f, ReadFrame(f)
  PROVE  /\ tx' = tx \/ (tx' = "peer_closed" /\ tx = "active")
         /\ f \in CloseFrames => tx' # "active"
<1>1. CASE f \in CloseFrames /\ tx = "active"
  <2>1. owed'
    BY <1>1 DEF ReadFrame
  <2> QED
    BY <1>1, <2>1 DEF ReadFrame
<1>2. CASE ~(f \in CloseFrames /\ tx = "active")
  <2>1. ~owed'
    BY <1>2 DEF ReadFrame
  <2> QED
    BY <1>2, <2>1 DEF ReadFrame
<1> QED
  BY <1>1, <1>2

\* No step sends what is no frame, or ends without a status.
LEMMA SendTypesStep ==
  ASSUME SendTypes, Step
  PROVE  SendTypes'
<1> USE WsSessionAssumption DEF SendTypes
<1>1. CASE ClientRecv
  BY <1>1 DEF ClientRecv, readVars, svcVars
<1>2. CASE \/ \E f \in ClientFrames : ClientSend(f) \/ ClientClose(f)
           \/ ClientVanish
  BY <1>2 DEF ClientSend, ClientClose, ClientVanish, readVars, svcVars
<1>3. CASE SvcRead
  <2>1. tx' \in {tx, "peer_closed"} /\ owed' \in BOOLEAN
        /\ wire' \in Seq(WireFrames) /\ Len(wire) <= Len(wire')
    BY <1>3, ReadSends DEF SvcRead, ReadStep
  <2> QED
    BY <1>3, <2>1 DEF SvcRead, clientVars
<1>4. CASE MakeWsRequest
  <2>1. tx' \in {tx, "peer_closed"} /\ owed' \in BOOLEAN
    BY <1>4 DEF MakeWsRequest, AwaitFrame, AwaitFailure, ReadFrame, ReadFailure
  <2>2. pc = "await_request"
        /\ \/ pc' \in {"calling", "await_request"} /\ UNCHANGED status
           \/ pc' = "finishing" /\ status' = "Aborted"
    BY <1>4 DEF MakeWsRequest, AwaitFrame, AwaitFailure
  <2> QED
    BY <1>4, <2>1, <2>2 DEF MakeWsRequest, clientVars, Codes
<1>5. CASE UpgradeToWs
  BY <1>5 DEF UpgradeToWs, clientVars, readVars, svcVars
<1>6. CASE SvcAnswer
  <2>1. emitted' \in Seq(Replies) /\ (pc' = "sending" => emitted' # <<>>)
    <3>1. \A r \in Replies : <<r>> \in Seq(Replies) /\ <<r>> # <<>>
      OBVIOUS
    <3>2. \/ emitted' = emitted /\ pc' = "streaming"
          \/ \E r \in Replies : emitted' = <<r>>
      BY <1>6 DEF SvcAnswer
    <3> QED
      BY <3>1, <3>2
  <2> QED
    BY <1>6, <2>1 DEF SvcAnswer, clientVars, readVars
<1>7. CASE SvcEnd \/ \E c \in SvcCodes : SvcFail(c)
  BY <1>7 DEF SvcEnd, SvcFail, clientVars, readVars, svcVars, Codes
<1>8. CASE \E r \in Replies : SvcEmit(r)
  BY <1>8 DEF SvcEmit, clientVars, readVars
<1>9. CASE SendMsg
  <2>1. emitted[Len(emitted)] \in Replies
    BY <1>9 DEF SendMsg
  <2>2. wire' \in Seq(WireFrames) /\ Len(wire) <= Len(wire')
    BY <1>9, <2>1, Frames DEF SendMsg, Send
  <2> QED
    BY <1>9, <2>2 DEF SendMsg, clientVars, readVars, svcVars, Codes
<1>10. CASE SendMsgFails
  BY <1>10 DEF SendMsgFails, clientVars, readVars, svcVars, Codes
<1>11. CASE FinishSend
  <2>1. wire' \in Seq(WireFrames) /\ Len(wire) <= Len(wire')
    BY <1>11, Frames DEF FinishSend, Send
  <2> QED
    BY <1>11, <2>1 DEF FinishSend, clientVars, svcVars
<1>12. CASE FinishClose
  BY <1>12, FlushTypes DEF FinishClose, clientVars, svcVars
<1>13. CASE UNCHANGED vars
  BY <1>13 DEF vars, clientVars, readVars, svcVars
<1> QED
  BY <1>1, <1>2, <1>3, <1>4, <1>5, <1>6, <1>7, <1>8, <1>9, <1>10, <1>11, <1>12, <1>13 DEF Step

\* The types hold when the web socket is upgraded.
LEMMA TypesFirst == Init => ReadTypes /\ SendTypes
<1>1. SUFFICES ASSUME Init PROVE ReadTypes /\ SendTypes
  OBVIOUS
<1>2. sent = <<>> /\ requests = <<>> /\ rd = 0 /\ wire = <<>> /\ emitted = <<>> /\ rcvd = 0
  BY <1>1 DEF Init
<1>3. /\ sent \in Seq(ClientFrames) /\ requests \in Seq(Requests \cup {"error"})
      /\ rd \in 0 .. Len(sent)
  BY <1>2
<1>4. wire \in Seq(WireFrames) /\ emitted \in Seq(Replies) /\ rcvd \in 0 .. Len(wire)
  BY <1>2
<1> QED
  BY <1>1, <1>3, <1>4 DEF Init, ReadTypes, SendTypes

\* Every variable is well typed, and a status is set before a session ends.
THEOREM WsTypes == Spec => [](ReadTypes /\ SendTypes)
<1>1. ReadTypes /\ SendTypes /\ [Next]_vars => ReadTypes' /\ SendTypes'
  BY StepOfNext, ReadTypesStep, SendTypesStep
<1> QED
  BY <1>1, TypesFirst, PTL DEF Spec

\* WsTypeOK is invariant.
THEOREM WsTypeCorrect == Spec => []WsTypeOK
<1>1. ReadTypes /\ SendTypes => WsTypeOK
  BY DEF ReadTypes, SendTypes, WsTypeOK
<1> QED
  BY <1>1, WsTypes, PTL
-------------------------------------------------------------------------------
\* Who has closed, and what that leaves to the others: while the socket may
\* send there is no Close; an echo is owed, or sent and the last frame; a Close
\* of finish_ws is the last frame and has the code of the status.
DataOnly == \A i \in 1 .. Len(wire) : wire[i].type = "data"
CloseIsLast == \A i \in 1 .. Len(wire) : wire[i].type = "close" => i = Len(wire)
ClosedWith(c) == Closed /\ wire[Len(wire)].body = c
PeerClosed == \E i \in 1 .. rd : sent[i] \in CloseFrames

Closing ==
    /\ CloseIsLast
    /\ tx = "active" => DataOnly /\ ~owed
    /\ owed => DataOnly /\ tx = "peer_closed" /\ rx # "open"
    /\ tx = "peer_closed" => PeerClosed /\ (owed \/ ClosedWith("echo"))
    /\ tx = "closed" => pc \in {"closing", "done"} /\ ClosedWith(CloseCode(status))
    /\ pc \in {"closing", "done"} /\ tx = "active" => client = "gone"
    /\ pc = "done" /\ owed => client = "gone"

\* A frame after data frames only.
LEMMA AppendFrame ==
  ASSUME NEW f \in WireFrames, wire \in Seq(WireFrames), DataOnly, wire' = Append(wire, f)
  PROVE  /\ wire' # wire
         /\ CloseIsLast'
         /\ f.type = "data" => DataOnly'
         /\ f.type = "close" => ClosedWith(f.body)'
<1>1. /\ Len(wire') = Len(wire) + 1 /\ wire'[Len(wire')] = f /\ Len(wire) \in Nat
      /\ \A i \in 1 .. Len(wire) : wire'[i] = wire[i]
  OBVIOUS
<1>2. \A i \in 1 .. Len(wire') : i # Len(wire') => wire'[i].type = "data"
  BY <1>1 DEF DataOnly
<1>3. CloseIsLast'
  BY <1>2 DEF CloseIsLast
<1>4. f.type = "data" => DataOnly'
  BY <1>1, <1>2 DEF DataOnly
<1>5. wire' # <<>> /\ wire' # wire
  BY <1>1
<1> QED
  BY <1>1, <1>3, <1>4, <1>5 DEF ClosedWith, Closed

\* A frame is a reply or a Close, never both.
LEMMA FrameParts ==
  /\ \A r \in Replies : Data(r).type = "data" /\ Data(r).body = r
  /\ \A c : Close(c).type = "close" /\ Close(c).body = c
BY DEF Data, Close

\* Reading adds no Close of ours, and keeps the one of the client in mind.
LEMMA ReadFrameCloses ==
  ASSUME ReadTypes, SendTypes, Closing, UNCHANGED <<sent, wire, client>>,
         NEW f \in ClientFrames, ReadFrame(f),
         f \in CloseFrames => rx' # "open",
         pc' \in {"closing", "done"} => pc' = pc, status' = status \/ tx # "closed",
         tx = "closed" => pc' = pc
  PROVE  Closing'
<1> USE DEF ReadTypes, SendTypes
<1>1. rd' = rd + 1 /\ f = sent[rd + 1] /\ rd + 1 \in 1 .. Len(sent) /\ rx = "open"
  BY DEF ReadFrame
<1>2. PeerClosed => PeerClosed'
  BY <1>1 DEF PeerClosed
<1>3. CASE f \in CloseFrames /\ tx = "active"
  <2>1. owed' /\ tx' = "peer_closed" /\ PeerClosed'
    <3>1. owed'
      BY <1>3 DEF ReadFrame
    <3>2. tx' = "peer_closed"
      BY <3>1 DEF ReadFrame
    <3>3. rd' \in 1 .. rd' /\ sent'[rd'] \in CloseFrames
      BY <1>1, <1>3
    <3> QED
      BY <3>1, <3>2, <3>3 DEF PeerClosed
  <2> QED
    BY <1>3, <2>1 DEF Closing, DataOnly, CloseIsLast
<1>4. CASE ~(f \in CloseFrames /\ tx = "active")
  <2>1. ~owed' /\ ~owed /\ tx' = tx
    BY <1>1, <1>4 DEF ReadFrame, Closing
  <2> QED
    BY <1>2, <2>1 DEF Closing, DataOnly, CloseIsLast, ClosedWith, Closed
<1> QED
  BY <1>3, <1>4

\* A flush sends the echo that is owed, once, and nothing after it.
LEMMA FlushCloses ==
  ASSUME SendTypes, Closing, Flush, UNCHANGED <<sent, rd, rx, tx, client>>,
         status' = status \/ tx # "closed",
         pc \in {"closing", "done"} => pc' \in {"closing", "done"},
         pc' \in {"closing", "done"} => pc \in {"closing", "done"},
         pc' = "done" /\ owed' => client = "gone"
  PROVE  Closing'
<1> USE DEF SendTypes
<1>1. CASE wire' = wire
  <2>1. owed' = owed
    BY <1>1 DEF Flush
  <2> QED
    BY <1>1, <2>1 DEF Closing, DataOnly, CloseIsLast, ClosedWith, Closed, PeerClosed
<1>2. CASE owed /\ wire' = Append(wire, Close("echo"))
  <2>1. wire' # wire /\ CloseIsLast' /\ ClosedWith("echo")'
    BY <1>2, AppendFrame, Frames, FrameParts DEF Closing
  <2>2. ~owed' /\ tx' = "peer_closed"
    BY <1>2, <2>1 DEF Flush, Closing
  <2> QED
    BY <2>1, <2>2 DEF Closing, PeerClosed
<1> QED
  BY <1>1, <1>2, FlushTypes

\* A read of the request stream keeps the order of the closes.
LEMMA ReadCloses ==
  ASSUME ReadTypes, SendTypes, Closing, ReadStep, UNCHANGED <<client, sent>>,
         \/ UNCHANGED <<pc, status>>
         \/ pc \notin {"closing", "done"} /\ pc' \notin {"closing", "done"}
  PROVE  Closing'
<1>1. /\ status' = status \/ tx # "closed"
      /\ tx = "closed" => pc' = pc
      /\ pc' \in {"closing", "done"} <=> pc \in {"closing", "done"}
      /\ pc' \in {"closing", "done"} => pc' = pc
  BY DEF Closing
<1>2. CASE \E f \in ClientFrames : StreamFrame(f)
  <2>1. PICK f \in ClientFrames : StreamFrame(f)
    BY <1>2
  <2>2. ReadFrame(f) /\ UNCHANGED wire /\ (f \in CloseFrames => rx' = "closed")
    BY <2>1 DEF StreamFrame, CloseFrames
  <2> QED
    BY <1>1, <2>2, ReadFrameCloses
<1>3. CASE StreamFailure
  <2>1. UNCHANGED <<rd, tx, owed, wire>> /\ rx' = "failed"
    BY <1>3 DEF StreamFailure, ReadFailure
  <2> QED
    BY <1>1, <2>1 DEF Closing, DataOnly, CloseIsLast, ClosedWith, Closed, PeerClosed
<1>4. CASE StreamEnd
  <2>1. Flush /\ UNCHANGED <<rd, rx, tx>>
    BY <1>4 DEF StreamEnd
  <2>2. pc' = "done" /\ owed' => client = "gone"
    BY <1>1, <2>1 DEF Flush, Closing
  <2> QED
    BY <1>1, <2>1, <2>2, FlushCloses
<1> QED
  BY <1>2, <1>3, <1>4 DEF ReadStep

\* So does every step of a session.
LEMMA ClosingStep ==
  ASSUME ReadTypes, SendTypes, Closing, Step
  PROVE  Closing'
<1> USE DEF ReadTypes, SendTypes
<1>1. ASSUME UNCHANGED <<wire, rd, rx, tx, owed, pc, status>>, client = "gone" => client' = "gone",
             \A i \in 1 .. Len(sent) : sent'[i] = sent[i]
      PROVE  Closing'
  <2>1. PeerClosed => PeerClosed'
    BY <1>1 DEF PeerClosed
  <2> QED
    BY <1>1, <2>1 DEF Closing, DataOnly, CloseIsLast, ClosedWith, Closed
<1>2. CASE ClientVanish \/ ClientRecv \/ \E f \in ClientFrames : ClientSend(f) \/ ClientClose(f)
  <2>1. UNCHANGED <<wire, rd, rx, tx, owed, pc, status>> /\ (client = "gone" => client' = "gone")
    BY <1>2 DEF ClientVanish, ClientRecv, ClientSend, ClientClose, readVars
  <2>2. sent' = sent \/ \E f : sent' = Append(sent, f)
    BY <1>2 DEF ClientVanish, ClientRecv, ClientSend, ClientClose
  <2>3. \A i \in 1 .. Len(sent) : sent'[i] = sent[i]
    BY <2>2
  <2> QED
    BY <1>1, <2>1, <2>3
<1>3. CASE SvcRead
  BY <1>3, ReadCloses DEF SvcRead, ReadStep, clientVars
<1>4. CASE MakeWsRequest
  <2>1. UNCHANGED <<client, sent, wire>> /\ pc = "await_request" /\ pc' \notin {"closing", "done"}
        /\ tx # "closed"
    BY <1>4 DEF MakeWsRequest, AwaitFrame, AwaitFailure, clientVars, Closing
  <2>2. CASE \E f \in ClientFrames : AwaitFrame(f)
    <3>1. PICK f \in ClientFrames : AwaitFrame(f)
      BY <2>2
    <3>2. f \in CloseFrames => ConvertItem(f) # "skip"
      BY Conversions DEF CloseFrames
    <3>3. ReadFrame(f) /\ (f \in CloseFrames => rx' = "dropped")
      BY <3>1, <3>2 DEF AwaitFrame
    <3> QED
      BY <2>1, <3>3, ReadFrameCloses
  <2>3. CASE AwaitFailure
    <3>1. UNCHANGED <<rd, tx, owed>> /\ rx' = "dropped"
      BY <2>3 DEF AwaitFailure, ReadFailure
    <3> QED
      BY <2>1, <3>1 DEF Closing, DataOnly, CloseIsLast, ClosedWith, Closed, PeerClosed
  <2> QED
    BY <1>4, <2>2, <2>3 DEF MakeWsRequest
<1>5. CASE \/ UpgradeToWs \/ SvcAnswer \/ SvcEnd \/ SendMsgFails
           \/ \E c \in SvcCodes : SvcFail(c)
           \/ \E r \in Replies : SvcEmit(r)
  <2>1. /\ UNCHANGED <<client, sent, rd, rx, tx, owed, wire>>
        /\ pc \notin {"closing", "done"} /\ pc' \notin {"closing", "done"}
    BY <1>5 DEF UpgradeToWs, SvcAnswer, SvcEnd, SendMsgFails, SvcFail, SvcEmit, clientVars, readVars
  <2> QED
    BY <2>1 DEF Closing, DataOnly, CloseIsLast, ClosedWith, Closed, PeerClosed
<1>6. CASE SendMsg
  <2>1. /\ UNCHANGED <<client, sent, rd, rx, tx, owed>> /\ tx = "active"
        /\ wire' = Append(wire, Data(emitted[Len(emitted)]))
        /\ pc' \notin {"closing", "done"}
    BY <1>6 DEF SendMsg, Send, clientVars, readVars
  <2>2. emitted[Len(emitted)] \in Replies
    BY <1>6 DEF SendMsg
  <2>3. CloseIsLast' /\ DataOnly'
    BY <2>1, <2>2, AppendFrame, Frames, FrameParts DEF Closing
  <2> QED
    BY <2>1, <2>3 DEF Closing
<1>7. CASE FinishSend
  <2>1. pc = "finishing" /\ pc' = "closing" /\ UNCHANGED <<client, sent, rd, rx, owed, status>>
    BY <1>7 DEF FinishSend, clientVars
  <2>2. CASE Send(Close(CloseCode(status))) /\ tx' = "closed"
    <3>1. PICK c \in Codes : c = status
      BY <2>1
    <3>2. Close(CloseCode(c)) \in WireFrames /\ wire' = Append(wire, Close(CloseCode(c)))
      BY <2>2, <3>1, Frames DEF Send
    <3>3. CloseIsLast' /\ ClosedWith(CloseCode(c))'
      BY <2>2, <3>2, AppendFrame, FrameParts DEF Closing, Send
    <3>4. ClosedWith(CloseCode(status))'
      BY <2>1, <3>1, <3>3 DEF ClosedWith
    <3>5. ~owed'
      BY <2>1, <2>2 DEF Send, Closing
    <3> QED
      BY <2>1, <2>2, <3>3, <3>4, <3>5 DEF Closing
  <2>3. CASE SendFails /\ UNCHANGED <<wire, tx>>
    BY <2>1, <2>3 DEF SendFails, Closing, DataOnly, CloseIsLast, ClosedWith, Closed, PeerClosed
  <2> QED
    BY <1>7, <2>2, <2>3 DEF FinishSend
<1>8. CASE FinishClose
  <2>1. /\ pc = "closing" /\ pc' = "done" /\ UNCHANGED <<client, sent, rd, rx, tx, status>> /\ Flush
        /\ owed => HasRoom \/ client = "gone"
    BY <1>8 DEF FinishClose, clientVars
  <2>2. owed' => client = "gone"
    <3>1. CASE owed /\ HasRoom /\ client # "gone"
      <4>1. wire' = Append(wire, Close("echo"))
        BY <2>1, <3>1 DEF Flush
      <4>2. wire' # wire
        BY <4>1
      <4> QED
        BY <2>1, <4>2 DEF Flush
    <3> QED
      BY <2>1, <3>1 DEF Flush
  <2> QED
    BY <2>1, <2>2, FlushCloses
<1>9. CASE UNCHANGED vars
  BY <1>1, <1>9 DEF vars, clientVars, readVars
<1> QED
  BY <1>2, <1>3, <1>4, <1>5, <1>6, <1>7, <1>8, <1>9 DEF Step

\* Nothing is closed when the web socket is upgraded.
LEMMA ClosingFirst == Init => Closing
BY DEF Init, Closing, CloseIsLast, DataOnly, Closed

\* The facts about closing hold in every state.
THEOREM WsClosing == Spec => []Closing
<1>1. ReadTypes /\ SendTypes /\ Closing /\ [Next]_vars => Closing'
  BY StepOfNext, ClosingStep
<1> QED
  BY <1>1, ClosingFirst, WsTypes, PTL DEF Spec

\* NoSilentEnd: a session that ends under a client that is still there has sent
\* it a Close, with the code of its status or in answer to the client's own.
THEOREM NoSessionEndsSilently == Spec => []NoSilentEnd
<1>1. SendTypes /\ Closing => NoSilentEnd
  BY DEF SendTypes, Closing, ClosedWith, PeerClosed, NoSilentEnd
<1> QED
  BY <1>1, WsTypes, WsClosing, PTL

-------------------------------------------------------------------------------
\* The search for the first message of a server streaming method: pings until
\* it is found, and nothing is read after it.
FirstMessage ==
    kind = "server" =>
        /\ pc \in {"upgrade", "await_request"} =>
               requests = <<>> /\ \A i \in 1 .. rd : sent[i] = "ping"
        /\ requests # <<>> => /\ rd > 0 /\ requests = <<sent[rd]>>
                              /\ \A i \in 1 .. rd - 1 : sent[i] = "ping"

\* make_ws_request takes the first message and stops reading.
LEMMA FirstMessageStep ==
  ASSUME ReadTypes, FirstMessage, Step
  PROVE  FirstMessage'
<1> USE DEF ReadTypes
<1>1. ASSUME UNCHANGED <<kind, rd, requests>>, \A i \in 1 .. Len(sent) : sent'[i] = sent[i],
             pc' \in {"upgrade", "await_request"} => pc \in {"upgrade", "await_request"}
      PROVE  FirstMessage'
  BY <1>1 DEF FirstMessage
<1>2. CASE ClientVanish \/ ClientRecv \/ \E f \in ClientFrames : ClientSend(f) \/ ClientClose(f)
  <2>1. UNCHANGED <<kind, rd, requests, pc>>
    BY <1>2 DEF ClientVanish, ClientRecv, ClientSend, ClientClose, readVars, svcVars
  <2>2. sent' = sent \/ \E f : sent' = Append(sent, f)
    BY <1>2 DEF ClientVanish, ClientRecv, ClientSend, ClientClose
  <2>3. \A i \in 1 .. Len(sent) : sent'[i] = sent[i]
    BY <2>2
  <2> QED
    BY <1>1, <2>1, <2>3
<1>3. CASE SvcRead
  BY <1>3 DEF SvcRead, FirstMessage
<1>4. CASE MakeWsRequest
  <2>1. UNCHANGED <<kind, sent>> /\ pc = "await_request"
    BY <1>4 DEF MakeWsRequest, clientVars
  <2>2. CASE \E f \in ClientFrames : AwaitFrame(f)
    <3>1. PICK f \in ClientFrames : AwaitFrame(f)
      BY <2>2
    <3>2. rd' = rd + 1 /\ f = sent[rd + 1]
      BY <3>1 DEF AwaitFrame, ReadFrame
    <3>3. \/ requests' = <<f>> /\ pc' = "calling"
          \/ requests' = requests /\ pc' = pc /\ f = "ping"
          \/ requests' = requests /\ pc' = "finishing"
      BY <3>1, Conversions DEF AwaitFrame
    <3>4. kind = "server" => requests = <<>> /\ \A i \in 1 .. rd : sent[i] = "ping"
      BY <2>1 DEF FirstMessage
    <3>5. \A q : <<q>> # <<>>
      OBVIOUS
    <3> QED
      BY <2>1, <3>2, <3>3, <3>4, <3>5 DEF FirstMessage
  <2>3. CASE AwaitFailure
    BY <1>1, <2>1, <2>3 DEF AwaitFailure, ReadFailure
  <2> QED
    BY <1>4, <2>2, <2>3 DEF MakeWsRequest
<1>5. CASE \/ UpgradeToWs \/ SvcAnswer \/ SvcEnd \/ SendMsg \/ SendMsgFails
           \/ FinishSend \/ FinishClose \/ UNCHANGED vars
           \/ \E c \in SvcCodes : SvcFail(c)
           \/ \E r \in Replies : SvcEmit(r)
  <2>1. /\ UNCHANGED <<kind, rd, requests, sent>>
        /\ pc' \in {"upgrade", "await_request"} => pc \in {"upgrade", "await_request"}
    BY <1>5 DEF UpgradeToWs, SvcAnswer, SvcEnd, SendMsg, SendMsgFails, FinishSend, FinishClose,
                SvcFail, SvcEmit, vars, clientVars, readVars, svcVars
  <2> QED
    BY <1>1, <2>1
<1> QED
  BY <1>2, <1>3, <1>4, <1>5 DEF Step

\* RequestIsFirst: a server streaming method is called with the first frame of
\* its client that is no ping, and with no later one.
THEOREM FirstRequestOnly == Spec => []RequestIsFirst
<1>1. Init => FirstMessage
  BY DEF Init, FirstMessage
<1>2. ReadTypes /\ FirstMessage /\ [Next]_vars => FirstMessage'
  BY StepOfNext, FirstMessageStep
<1>3. FirstMessage => RequestIsFirst
  BY DEF FirstMessage, RequestIsFirst
<1> QED
  BY <1>1, <1>2, <1>3, WsTypes, PTL DEF Spec

-------------------------------------------------------------------------------
\* The counting of requests: a frame adds one, or none.
LEMMA CountUpTo ==
  ASSUME sent \in Seq(ClientFrames), NEW n \in 0 .. Len(sent)
  PROVE  /\ RequestsUpTo(n) \in Nat
         /\ n = 0 => RequestsUpTo(n) = 0
         /\ n < Len(sent) => RequestsUpTo(n + 1) =
                IF sent[n + 1] \in Requests THEN RequestsUpTo(n) + 1 ELSE RequestsUpTo(n)
         /\ \A i \in 1 .. n : /\ RequestsUpTo(i) <= RequestsUpTo(n)
                              /\ sent[i] \in Requests => RequestsUpTo(i) >= 1
<1> DEFINE At(k) == {i \in 1 .. k : sent[i] \in Requests}
<1>1. \A k \in 0 .. Len(sent) : IsFiniteSet(At(k)) /\ Cardinality(At(k)) \in Nat
  <2>1. SUFFICES ASSUME NEW k \in 0 .. Len(sent)
                 PROVE  IsFiniteSet(At(k)) /\ Cardinality(At(k)) \in Nat
    OBVIOUS
  <2>2. IsFiniteSet(1 .. k)
    BY FS_Interval
  <2>3. At(k) \in SUBSET (1 .. k)
    OBVIOUS
  <2>4. IsFiniteSet(At(k))
    BY <2>2, <2>3, FS_Subset
  <2> QED
    BY <2>4, FS_CardinalityType
<1>2. n = 0 => RequestsUpTo(n) = 0
  <2>1. n = 0 => At(n) = {}
    OBVIOUS
  <2> QED
    BY <2>1, FS_EmptySet DEF RequestsUpTo
<1>3. n < Len(sent) => RequestsUpTo(n + 1) =
          IF sent[n + 1] \in Requests THEN RequestsUpTo(n) + 1 ELSE RequestsUpTo(n)
  <2>1. CASE n < Len(sent) /\ sent[n + 1] \in Requests
    <3>1. At(n + 1) = At(n) \cup {n + 1} /\ n + 1 \notin At(n)
      BY <2>1
    <3>2. Cardinality(At(n) \cup {n + 1}) = Cardinality(At(n)) + 1
      BY <1>1, <3>1, FS_AddElement
    <3> QED
      BY <2>1, <3>1, <3>2 DEF RequestsUpTo
  <2>2. CASE n < Len(sent) /\ sent[n + 1] \notin Requests
    <3>1. At(n + 1) = At(n)
      BY <2>2
    <3> QED
      BY <2>2, <3>1 DEF RequestsUpTo
  <2> QED
    BY <2>1, <2>2
<1>4. ASSUME NEW i \in 1 .. n
      PROVE  /\ RequestsUpTo(i) <= RequestsUpTo(n)
             /\ sent[i] \in Requests => RequestsUpTo(i) >= 1
  <2>1. At(i) \in SUBSET At(n)
    OBVIOUS
  <2>2. Cardinality(At(i)) <= Cardinality(At(n))
    BY <1>1, <2>1, FS_Subset
  <2>3. sent[i] \in Requests => At(i) # {}
    OBVIOUS
  <2>4. i \in 0 .. Len(sent)
    OBVIOUS
  <2>5. Cardinality(At(i)) = 0 => At(i) = {}
    BY <1>1, <2>4, FS_EmptySet
  <2>6. Cardinality(At(i)) \in Nat
    BY <1>1, <2>4
  <2> QED
    BY <2>2, <2>3, <2>5, <2>6 DEF RequestsUpTo
<1> QED
  BY <1>1, <1>2, <1>3, <1>4 DEF RequestsUpTo

\* What was counted does not change when the client sends on.
LEMMA CountSame ==
  ASSUME NEW n \in Nat, \A i \in 1 .. n : sent'[i] = sent[i]
  PROVE  RequestsUpTo(n)' = RequestsUpTo(n)
<1>1. {i \in 1 .. n : sent'[i] \in Requests} = {i \in 1 .. n : sent[i] \in Requests}
  OBVIOUS
<1> QED
  BY <1>1 DEF RequestsUpTo

\* The results of a request stream and the frames they were made from: without
\* an error among them they are the requests read so far, each in its place, and
\* nothing is read after a Close, which is the last frame of its client.
NoError == \A i \in 1 .. Len(requests) : requests[i] # "error"

ClosedByClient ==
    \A i \in 1 .. Len(sent) : sent[i] \in CloseFrames => i = Len(sent) /\ client # "open"

InputRead ==
    /\ ClosedByClient
    /\ kind = "server" => ~reqEnd
    /\ kind # "server" =>
           /\ pc # "await_request" /\ rx # "dropped"
           /\ rx = "closed" => rd > 0 /\ sent[rd] \in CloseFrames
           /\ reqEnd => rx # "open"
           /\ NoError => /\ rx # "failed"
                         /\ \A i \in 1 .. rd : sent[i] \notin {"bad", "broken", "close_error"}
                         /\ Len(requests) = RequestsUpTo(rd)
                         /\ \A i \in 1 .. rd : sent[i] \in Requests =>
                                requests[RequestsUpTo(i)] = sent[i]

\* One read, by whoever reads the stream.
LEMMA InputReadKept ==
  ASSUME ReadTypes, InputRead, ReadStep, kind # "server", pc' # "await_request",
         UNCHANGED <<kind, client, sent>>
  PROVE  InputRead'
<1> USE DEF ReadTypes
<1>1. \A n \in Nat : RequestsUpTo(n)' = RequestsUpTo(n)
  BY CountSame
<1>2. ClosedByClient'
  BY DEF InputRead, ClosedByClient
<1>3. CASE \E f \in ClientFrames : StreamFrame(f)
  <2>1. PICK f \in ClientFrames : StreamFrame(f)
    BY <1>3
  <2>2. /\ rx = "open" /\ rd < Len(sent) /\ f = sent[rd + 1] /\ rd' = rd + 1
        /\ requests' = requests \o ConvertStream(f)
        /\ rx' = CASE f \in CloseFrames -> "closed"
                   [] f = "broken" -> "failed"
                   [] OTHER -> rx
        /\ UNCHANGED reqEnd
    BY <2>1 DEF StreamFrame, ReadFrame
  <2>3. CASE f \in {"bad", "broken", "close_error"}
    <3>1. f \notin Requests
      BY <2>3, WsSessionAssumption DEF CloseFrames
    <3>2. requests' = Append(requests, "error")
      BY <2>2, <2>3, <3>1 DEF ConvertStream
    <3>3. ~NoError'
      BY <3>2 DEF NoError
    <3> QED
      BY <1>2, <2>2, <3>3 DEF InputRead
  <2>4. CASE f \in Requests
    <3>1. requests' = Append(requests, f) /\ f \notin CloseFrames /\ f \notin {"bad", "broken", "close_error"}
      BY <2>2, <2>4, WsSessionAssumption DEF ConvertStream, CloseFrames
    <3>2. NoError' => NoError
      BY <3>1 DEF NoError
    <3>3. ASSUME NoError'
          PROVE  /\ Len(requests') = RequestsUpTo(rd')
                 /\ \A i \in 1 .. rd' : sent[i] \in Requests => requests'[RequestsUpTo(i)] = sent[i]
      <4>1. RequestsUpTo(rd + 1) = RequestsUpTo(rd) + 1 /\ RequestsUpTo(rd) = Len(requests)
        BY <2>2, <2>4, <3>2, <3>3, CountUpTo DEF InputRead
      <4>2. ASSUME NEW i \in 1 .. rd, sent[i] \in Requests
            PROVE  requests'[RequestsUpTo(i)] = sent[i]
        <5>1. requests[RequestsUpTo(i)] = sent[i]
          BY <3>2, <3>3, <4>2 DEF InputRead
        <5>2. RequestsUpTo(i) \in 1 .. Len(requests)
          <6>1. i \in 0 .. Len(sent) /\ rd \in 0 .. Len(sent)
            OBVIOUS
          <6>2. RequestsUpTo(i) \in Nat /\ RequestsUpTo(rd) \in Nat
            BY <6>1, CountUpTo
          <6>3. RequestsUpTo(i) <= RequestsUpTo(rd) /\ RequestsUpTo(i) >= 1
            BY <4>2, <6>1, CountUpTo
          <6> QED
            BY <4>1, <6>2, <6>3
        <5> QED
          BY <3>1, <5>1, <5>2
      <4>3. requests'[RequestsUpTo(rd + 1)] = sent[rd + 1]
        BY <2>2, <3>1, <4>1
      <4>4. Len(requests') = Len(requests) + 1
        BY <3>1
      <4>5. \A i \in 1 .. rd + 1 : i \in 1 .. rd \/ i = rd + 1
        OBVIOUS
      <4> QED
        BY <2>2, <4>1, <4>2, <4>3, <4>4, <4>5
    <3>4. NoError' => \A i \in 1 .. rd' : sent[i] \notin {"bad", "broken", "close_error"}
      BY <2>2, <3>1, <3>2 DEF InputRead
    <3>5. rx' = "open" /\ rd' \in Nat
      BY <2>2, <3>1
    <3>6. RequestsUpTo(rd)' = RequestsUpTo(rd')
      BY <1>1, <3>5
    <3>7. NoError' => \A i \in 1 .. rd' : sent[i] \in Requests =>
                          requests'[RequestsUpTo(i)'] = sent[i]
      BY <1>1, <3>3
    <3>8. NoError' => Len(requests') = RequestsUpTo(rd)'
      BY <3>3, <3>6
    <3>9. /\ kind' # "server" /\ pc' # "await_request" /\ rx' = "open"
          /\ ~reqEnd'
      BY <2>2, <3>5 DEF InputRead
    <3>10. NoError' => /\ rx' # "failed"
                       /\ \A i \in 1 .. rd' : sent'[i] \notin {"bad", "broken", "close_error"}
                       /\ Len(requests') = RequestsUpTo(rd)'
                       /\ \A i \in 1 .. rd' : sent'[i] \in Requests =>
                              requests'[RequestsUpTo(i)'] = sent'[i]
      BY <3>4, <3>5, <3>7, <3>8
    <3> QED
      BY <1>2, <3>9, <3>10 DEF InputRead
  <2>5. CASE f \in {"ping", "close", "close_normal"}
    <3>1. requests' = requests /\ f \notin {"bad", "broken", "close_error"} /\ f \notin Requests
      <4>1. f \notin Requests
        BY <2>5, WsSessionAssumption DEF CloseFrames
      <4>2. ConvertStream(f) = <<>>
        BY <2>5, <4>1 DEF ConvertStream
      <4> QED
        BY <2>2, <2>5, <4>1, <4>2
    <3>2. RequestsUpTo(rd + 1) = RequestsUpTo(rd)
      BY <2>2, <3>1, CountUpTo
    <3>3. NoError' <=> NoError
      BY <3>1 DEF NoError
    <3>4. NoError => \A i \in 1 .. rd + 1 : sent[i] \in Requests => requests[RequestsUpTo(i)] = sent[i]
      BY <2>2, <3>1 DEF InputRead
    <3>5. rx' = "closed" => sent[rd + 1] \in CloseFrames
      BY <2>2
    <3> QED
      BY <1>1, <1>2, <2>2, <3>1, <3>2, <3>3, <3>4, <3>5 DEF InputRead
  <2> QED
    BY <2>3, <2>4, <2>5 DEF ClientFrames, DataFrames, CloseFrames
<1>4. CASE StreamFailure
  <2>1. requests' = Append(requests, "error") /\ rx = "open" /\ rx' = "failed" /\ UNCHANGED reqEnd
    BY <1>4 DEF StreamFailure, ReadFailure
  <2>2. ~NoError'
    BY <2>1 DEF NoError
  <2> QED
    BY <1>2, <2>1, <2>2 DEF InputRead
<1>5. CASE StreamEnd
  <2>1. rx \in {"closed", "failed"} /\ UNCHANGED <<rd, rx, requests>>
    BY <1>5 DEF StreamEnd
  <2> QED
    BY <1>1, <1>2, <2>1 DEF InputRead, NoError
<1> QED
  BY <1>3, <1>4, <1>5 DEF ReadStep

\* A step of the client, or one that reads nothing.
LEMMA InputReadElsewhere ==
  ASSUME ReadTypes, InputRead, UNCHANGED <<kind, rd, rx, requests, reqEnd>>,
         pc' = "await_request" => kind = "server" \/ pc = "await_request",
         \/ UNCHANGED <<client, sent>> \/ ClientVanish \/ ClientRecv
         \/ \E f \in ClientFrames : (ClientSend(f) /\ f \notin CloseFrames) \/ ClientClose(f)
  PROVE  InputRead'
<1> USE DEF ReadTypes
<1>1. ClosedByClient'
  <2>1. CASE UNCHANGED sent /\ (client' = client \/ client' = "gone")
    BY <2>1 DEF InputRead, ClosedByClient
  <2>2. CASE /\ client = "open"
             /\ \E f : sent' = Append(sent, f) /\ (f \in CloseFrames => client' = "closing")
    <3>1. \A i \in 1 .. Len(sent) : sent[i] \notin CloseFrames
      BY <2>2 DEF InputRead, ClosedByClient
    <3> QED
      BY <2>2, <3>1 DEF ClosedByClient
  <2> QED
    BY <2>1, <2>2 DEF ClientVanish, ClientRecv, ClientSend, ClientClose
<1>2. \A i \in 1 .. Len(sent) : sent'[i] = sent[i]
  <2>1. sent' = sent \/ \E f : sent' = Append(sent, f)
    BY DEF ClientVanish, ClientRecv, ClientSend, ClientClose
  <2> QED
    BY <2>1
<1>3. \A i \in 0 .. rd : RequestsUpTo(i)' = RequestsUpTo(i)
  BY <1>2, CountSame
<1> QED
  BY <1>1, <1>2, <1>3 DEF InputRead, NoError

\* No step separates the results from the frames they were made of.
LEMMA InputReadStep ==
  ASSUME ReadTypes, InputRead, [Next]_vars
  PROVE  InputRead'
<1>1. CASE Client \/ UNCHANGED vars
  <2>1. UNCHANGED <<kind, rd, rx, requests, reqEnd, pc>>
    BY <1>1 DEF Client, ClientSend, ClientClose, ClientVanish, ClientRecv, vars, readVars, svcVars
  <2>2. \A f \in DataFrames : f \in ClientFrames /\ f \notin CloseFrames
    BY WsSessionAssumption DEF ClientFrames, DataFrames, CloseFrames
  <2>3. CloseFrames \subseteq ClientFrames
    BY DEF ClientFrames
  <2> QED
    BY <1>1, <2>1, <2>2, <2>3, InputReadElsewhere DEF Client, vars, clientVars
<1>2. CASE SvcRead
  <2>1. ReadStep /\ kind # "server" /\ UNCHANGED <<kind, client, sent, pc>>
    BY <1>2 DEF SvcRead, ReadStep, clientVars
  <2>2. pc # "await_request"
    BY <2>1 DEF InputRead
  <2> QED
    BY <2>1, <2>2, InputReadKept
<1>3. CASE MakeWsRequest
  <2>1. kind = "server"
    BY <1>3 DEF MakeWsRequest, InputRead
  <2>2. UNCHANGED <<kind, client, sent, reqEnd>>
    BY <1>3 DEF MakeWsRequest, clientVars
  <2> QED
    BY <2>1, <2>2 DEF InputRead, ClosedByClient
<1>4. CASE \/ UpgradeToWs \/ SvcAnswer \/ SvcEnd \/ SendMsg \/ SendMsgFails
           \/ FinishSend \/ FinishClose \/ Over
           \/ \E c \in SvcCodes : SvcFail(c)
           \/ \E r \in Replies : SvcEmit(r)
  <2>1. /\ UNCHANGED <<kind, client, sent, rd, rx, requests, reqEnd>>
        /\ pc' = "await_request" => kind = "server" \/ pc = "await_request"
    BY <1>4 DEF UpgradeToWs, SvcAnswer, SvcEnd, SendMsg, SendMsgFails, FinishSend, FinishClose,
                SvcFail, SvcEmit, Over, vars, clientVars, readVars, svcVars
  <2> QED
    BY <2>1, InputReadElsewhere
<1> QED
  BY <1>1, <1>2, <1>3, <1>4 DEF Next, Service, Handler

\* Nothing is read when the web socket is upgraded.
LEMMA InputReadFirst == Init => InputRead
<1>1. SUFFICES ASSUME Init PROVE InputRead
  OBVIOUS
<1>2. sent = <<>> /\ rd = 0 /\ requests = <<>> /\ sent \in Seq(ClientFrames)
  BY <1>1 DEF Init
<1>3. RequestsUpTo(0) = 0
  BY <1>2, CountUpTo
<1> QED
  BY <1>1, <1>2, <1>3 DEF Init, InputRead, ClosedByClient

\* At a clean end everything is read, up to the Close that is the last frame.
LEMMA InputComplete ==
  ASSUME ReadTypes, InputRead
  PROVE  CleanEndMeansClientFinished
<1>1. SUFFICES ASSUME ReadTypes, InputRead, reqEnd, NoError
               PROVE  /\ rd > 0 /\ sent[rd] \in {"close", "close_normal"}
                      /\ Len(requests) = RequestsUpTo(Len(sent))
                      /\ \A i \in 1 .. Len(sent) : sent[i] \in Requests =>
                             requests[RequestsUpTo(i)] = sent[i]
  BY DEF CleanEndMeansClientFinished, NoError
<1>2. rx = "closed" /\ rd > 0 /\ sent[rd] \in CloseFrames /\ sent[rd] # "close_error"
  BY <1>1 DEF InputRead, ReadTypes
<1>3. rd = Len(sent)
  BY <1>1, <1>2 DEF InputRead, ClosedByClient, ReadTypes
<1> QED
  BY <1>1, <1>2, <1>3 DEF InputRead, CloseFrames

\* CleanEndMeansClientFinished: a service that is told of a clean end has all
\* requests of a client that closed normally, whatever pings, failures and
\* reads of its own come between them.
THEOREM CleanEndHasAllRequests == Spec => []CleanEndMeansClientFinished
<1>1. ReadTypes /\ InputRead /\ [Next]_vars => InputRead'
  BY InputReadStep
<1>2. ReadTypes /\ InputRead => CleanEndMeansClientFinished
  BY InputComplete
<1> QED
  BY <1>1, <1>2, InputReadFirst, WsTypes, PTL DEF Spec

-------------------------------------------------------------------------------
\* What the end of the reads says about the sending side.
ReadBroken == \E i \in 1 .. rd : sent[i] = "broken"

ReadOver == /\ rx = "closed" => tx # "active"
            /\ rx = "failed" => client = "gone" \/ ReadBroken
            /\ reqEnd => rx \in {"closed", "failed"}

\* A read is the last one only after a Close, a frame that could not be read, or
\* a lost connection.
LEMMA ReadOverKept ==
  ASSUME ReadTypes, ReadOver, ReadStep, UNCHANGED <<client, sent>>
  PROVE  ReadOver'
<1> USE DEF ReadTypes, ReadOver
<1>1. CASE \E f \in ClientFrames : StreamFrame(f)
  <2>1. PICK f \in ClientFrames : StreamFrame(f)
    BY <1>1
  <2>2. /\ ReadFrame(f) /\ rx = "open" /\ reqEnd' = reqEnd
        /\ rx' = CASE f \in CloseFrames -> "closed"
                   [] f = "broken" -> "failed"
                   [] OTHER -> rx
    BY <2>1 DEF StreamFrame, ReadFrame
  <2>3. ASSUME f = "broken"
        PROVE  ReadBroken'
    <3>1. rd' = rd + 1 /\ sent'[rd + 1] = f
      BY <2>2 DEF ReadFrame
    <3> QED
      BY <2>3, <3>1 DEF ReadBroken
  <2> QED
    BY <2>2, <2>3, ReadFrameTx
<1>2. CASE StreamFailure \/ StreamEnd
  <2>1. UNCHANGED rd
    BY <1>2 DEF StreamFailure, StreamEnd, ReadFailure
  <2>2. ReadBroken => ReadBroken'
    BY <2>1 DEF ReadBroken
  <2> QED
    BY <1>2, <2>2 DEF StreamFailure, StreamEnd, ReadFailure
<1> QED
  BY <1>1, <1>2 DEF ReadStep

\* No step makes the socket active again, or reads on after the end.
LEMMA ReadOverStep ==
  ASSUME ReadTypes, ReadOver, Step
  PROVE  ReadOver'
<1> USE DEF ReadOver
<1>1. CASE SvcRead
  BY <1>1, ReadOverKept DEF SvcRead, ReadStep, clientVars
<1>2. CASE MakeWsRequest
  <2>1. rx = "open" /\ rx' \in {"open", "dropped"} /\ reqEnd' = reqEnd
    BY <1>2 DEF MakeWsRequest, AwaitFrame, AwaitFailure, ReadFrame, ReadFailure
  <2> QED
    BY <2>1
<1>3. ASSUME UNCHANGED <<rd, rx, reqEnd>>, tx' \in {tx, "closed"}, client = "gone" => client' = "gone",
             sent' = sent \/ \E f : sent' = Append(sent, f)
      PROVE  ReadOver'
  <2>1. ReadBroken => ReadBroken'
    BY <1>3 DEF ReadTypes, ReadBroken
  <2> QED
    BY <1>3, <2>1
<1> QED
  BY <1>1, <1>2, <1>3
  DEF Step, ClientSend, ClientClose, ClientVanish, ClientRecv, UpgradeToWs, SvcAnswer, SvcEnd,
      SvcFail, SvcEmit, SendMsg, SendMsgFails, FinishSend, FinishClose, vars, clientVars,
      readVars, svcVars

\* A reply is sent by SendMsg alone; all else that is sent is a Close.
LEMMA RepliesAreSent ==
  ASSUME SendTypes, Step, ~SendMsg
  PROVE  \A i \in Len(wire) + 1 .. Len(wire') : wire'[i].type = "close"
<1>1. CASE wire' = wire
  BY <1>1 DEF SendTypes
<1>2. CASE \E c : wire' = Append(wire, Close(c))
  <2>1. PICK c : wire' = Append(wire, Close(c))
    BY <1>2
  <2>2. Len(wire') = Len(wire) + 1 /\ wire'[Len(wire) + 1] = Close(c) /\ Len(wire) \in Nat
    BY <2>1 DEF SendTypes
  <2> QED
    BY <2>2, FrameParts
<1>3. wire' = wire \/ \E c : wire' = Append(wire, Close(c))
  <2>1. SvcRead => wire' = wire \/ wire' = Append(wire, Close("echo"))
    BY ReadSends DEF SvcRead, ReadStep
  <2>2. FinishSend => wire' = wire \/ wire' = Append(wire, Close(CloseCode(status)))
    BY DEF FinishSend, Send
  <2>3. FinishClose => wire' = wire \/ wire' = Append(wire, Close("echo"))
    BY FlushTypes DEF FinishClose
  <2>4. SvcRead \/ FinishSend \/ FinishClose \/ wire' = wire
    BY DEF Step, ClientSend, ClientClose, ClientVanish, ClientRecv, MakeWsRequest, UpgradeToWs,
           SvcAnswer, SvcEnd, SvcFail, SvcEmit, SendMsgFails, vars
  <2> QED
    BY <2>1, <2>2, <2>3, <2>4
<1> QED
  BY <1>1, <1>2, <1>3

\* NoReplyAfterLastRequest: a service that is told of the end of its requests
\* has no one to reply to, whatever it was and whatever it does then, unless the
\* end comes from a frame that the socket could not read.
THEOREM NothingToSayAfterLastRequest == Spec => NoReplyAfterLastRequest
<1>1. Init => ReadOver
  BY DEF Init, ReadOver
<1>2. ReadTypes /\ ReadOver /\ [Next]_vars => ReadOver'
  BY StepOfNext, ReadOverStep
<1>3. ReadOver /\ SendTypes /\ [Next]_vars =>
          [(reqEnd /\ client # "gone" /\ \A i \in 1 .. rd : sent[i] # "broken") =>
               \A i \in Len(wire) + 1 .. Len(wire') : wire'[i].type = "close"]_vars
  <2>1. ReadOver /\ reqEnd /\ client # "gone" /\ ~ReadBroken => ~SendMsg
    BY DEF ReadOver, SendMsg, Send
  <2> QED
    BY <2>1, StepOfNext, RepliesAreSent DEF ReadBroken
<1> QED
  BY <1>1, <1>2, <1>3, WsTypes, PTL DEF Spec, NoReplyAfterLastRequest

-------------------------------------------------------------------------------
\* How far the wire is behind the service: while the socket may send, by the
\* reply that is being sent and no other, unless the session has failed.
Carrying ==
    /\ \A i \in 1 .. Len(wire) : wire[i].type = "data" =>
           i <= Len(emitted) /\ wire[i].body = emitted[i]
    /\ tx # "closed" => \A i \in 1 .. Len(wire) : wire[i].type = "close" => wire[i].body = "echo"
    /\ pc \in {"upgrade", "await_request", "calling"} => emitted = <<>>
    /\ tx = "active" =>
           /\ pc \in {"calling", "streaming"} => Len(wire) = Len(emitted)
           /\ pc = "sending" => Len(wire) + 1 = Len(emitted)
           /\ pc \in {"finishing", "closing", "done"} /\ status = "Ok" => Len(wire) = Len(emitted)
           /\ pc \in {"upgrade", "await_request"} => wire = <<>>

\* A read of the request stream adds no reply, and a Close only after the Close
\* of the client.
LEMMA ReadWire ==
  ASSUME SendTypes, Closing, ReadStep
  PROVE  /\ UNCHANGED wire \/ (wire' = Append(wire, Close("echo")) /\ tx' = "peer_closed")
         /\ tx' = tx \/ (tx' = "peer_closed" /\ tx = "active")
<1>1. CASE \E f \in ClientFrames : StreamFrame(f)
  <2>1. PICK f \in ClientFrames : StreamFrame(f)
    BY <1>1
  <2>2. ReadFrame(f) /\ UNCHANGED wire
    BY <2>1 DEF StreamFrame
  <2> QED
    BY <2>2, ReadFrameTx
<1>2. CASE StreamFailure
  BY <1>2 DEF StreamFailure, ReadFailure
<1>3. CASE StreamEnd
  <2>1. UNCHANGED tx /\ Flush
    BY <1>3 DEF StreamEnd
  <2> QED
    BY <2>1, FlushTypes DEF Closing
<1> QED
  BY <1>1, <1>2, <1>3 DEF ReadStep

\* Each reply is sent before the next one is made, or the session fails.
LEMMA CarryingStep ==
  ASSUME SendTypes, Closing, Carrying, Step
  PROVE  Carrying'
<1> USE DEF SendTypes
<1>1. CASE UNCHANGED <<wire, tx, pc, emitted, status>>
  BY <1>1 DEF Carrying
<1>2. CASE SvcRead
  <2>1. UNCHANGED <<pc, emitted, status>>
    BY <1>2 DEF SvcRead
  <2>2. \/ UNCHANGED wire
        \/ wire' = Append(wire, Close("echo")) /\ tx' = "peer_closed"
    BY <1>2, ReadWire DEF SvcRead, ReadStep
  <2>3. tx' = tx \/ (tx' = "peer_closed" /\ tx = "active")
    BY <1>2, ReadWire DEF SvcRead, ReadStep
  <2> QED
    BY <2>1, <2>2, <2>3, FrameParts DEF Carrying
<1>3. CASE MakeWsRequest
  <2>1. /\ UNCHANGED <<wire, emitted>> /\ (tx' = tx \/ (tx' = "peer_closed" /\ tx = "active"))
        /\ pc = "await_request" /\ pc' \in {"await_request", "calling", "finishing"}
    <3>1. UNCHANGED <<wire, emitted>> /\ pc = "await_request"
      BY <1>3 DEF MakeWsRequest
    <3>2. ASSUME NEW f \in ClientFrames, AwaitFrame(f)
          PROVE  /\ tx' = tx \/ (tx' = "peer_closed" /\ tx = "active")
                 /\ pc' \in {pc, "calling", "finishing"}
      <4>1. tx' = tx \/ (tx' = "peer_closed" /\ tx = "active")
        BY <3>2, ReadFrameTx DEF AwaitFrame
      <4> QED
        BY <3>2, <4>1 DEF AwaitFrame
    <3>3. AwaitFailure => tx' = tx /\ pc' = "finishing"
      BY DEF AwaitFailure, ReadFailure
    <3> QED
      BY <1>3, <3>1, <3>2, <3>3 DEF MakeWsRequest
  <2>2. status' = status \/ status' = "Aborted"
    BY <1>3 DEF MakeWsRequest, AwaitFrame, AwaitFailure
  <2> QED
    BY <2>1, <2>2 DEF Carrying
<1>4. CASE UpgradeToWs
  BY <1>4 DEF UpgradeToWs, readVars, svcVars, Carrying
<1>5. CASE SvcAnswer
  <2>1. pc = "calling" /\ UNCHANGED <<wire, tx, status>>
    BY <1>5 DEF SvcAnswer, readVars
  <2>2. CASE pc' = "streaming" /\ UNCHANGED emitted
    BY <2>1, <2>2 DEF Carrying
  <2>3. CASE pc' = "sending" /\ \E r \in Replies : emitted' = <<r>>
    <3>1. emitted = <<>> /\ \A i \in 1 .. Len(wire) : wire[i].type # "data"
      BY <2>1 DEF Carrying
    <3>2. Len(emitted') = 1
      BY <2>3
    <3> QED
      BY <2>1, <2>3, <3>1, <3>2 DEF Carrying
  <2> QED
    BY <1>5, <2>2, <2>3 DEF SvcAnswer
<1>6. CASE SvcEnd \/ \E c \in SvcCodes : SvcFail(c)
  BY <1>6 DEF SvcEnd, SvcFail, readVars, svcVars, Carrying
<1>7. CASE \E r \in Replies : SvcEmit(r)
  <2>1. PICK r \in Replies : SvcEmit(r)
    BY <1>7
  <2>2. /\ Len(emitted') = Len(emitted) + 1
        /\ \A i \in 1 .. Len(emitted) : emitted'[i] = emitted[i]
    BY <2>1 DEF SvcEmit
  <2> QED
    BY <2>1, <2>2 DEF SvcEmit, readVars, Carrying
<1>8. CASE SendMsg
  <2>1. /\ pc = "sending" /\ tx = "active" /\ UNCHANGED <<tx, emitted>>
        /\ wire' = Append(wire, Data(emitted[Len(emitted)]))
        /\ pc' = "finishing" \/ pc' = "streaming"
    BY <1>8 DEF SendMsg, Send, readVars, svcVars
  <2>2. Len(emitted) = Len(wire) + 1 /\ DataOnly
    BY <2>1 DEF Carrying, Closing
  <2>3. /\ Len(wire') = Len(wire) + 1 /\ wire'[Len(wire) + 1] = Data(emitted[Len(emitted)])
        /\ \A i \in 1 .. Len(wire) : wire'[i] = wire[i]
    BY <2>1
  <2>4. /\ wire'[Len(wire')].type = "data"
        /\ wire'[Len(wire')].body = emitted[Len(emitted)]
    BY <2>3 DEF Data
  <2> QED
    BY <2>1, <2>2, <2>3, <2>4 DEF Carrying
<1>9. CASE SendMsgFails
  BY <1>9 DEF SendMsgFails, readVars, svcVars, Carrying
<1>10. CASE FinishSend
  <2>1. pc = "finishing" /\ pc' = "closing" /\ UNCHANGED <<emitted, status>>
    BY <1>10 DEF FinishSend, svcVars
  <2>2. CASE UNCHANGED <<wire, tx>>
    BY <2>1, <2>2 DEF Carrying
  <2>3. CASE wire' = Append(wire, Close(CloseCode(status))) /\ tx' = "closed"
    BY <2>1, <2>3, FrameParts DEF Carrying
  <2> QED
    BY <1>10, <2>2, <2>3 DEF FinishSend, Send
<1>11. CASE FinishClose
  <2>1. pc = "closing" /\ pc' = "done" /\ UNCHANGED <<emitted, status, tx>> /\ Flush
    BY <1>11 DEF FinishClose, svcVars
  <2>2. CASE UNCHANGED wire
    BY <2>1, <2>2 DEF Carrying
  <2>3. CASE owed /\ wire' = Append(wire, Close("echo"))
    <3>1. tx' = "peer_closed"
      BY <2>1, <2>3 DEF Closing
    <3> QED
      BY <2>1, <2>3, <3>1, FrameParts DEF Carrying
  <2> QED
    BY <2>1, <2>2, <2>3, FlushTypes
<1> QED
  BY <1>1, <1>2, <1>3, <1>4, <1>5, <1>6, <1>7, <1>8, <1>9, <1>10, <1>11
  DEF Step, ClientSend, ClientClose, ClientVanish, ClientRecv, vars, readVars, svcVars

\* Nothing is made or sent when the web socket is upgraded.
LEMMA CarryingFirst == Init => Carrying
BY DEF Init, Carrying

\* What is on the wire follows the service's replies in every state.
THEOREM WsCarrying == Spec => []Carrying
<1>1. SendTypes /\ Closing /\ Carrying /\ [Next]_vars => Carrying'
  BY StepOfNext, CarryingStep
<1> QED
  BY <1>1, CarryingFirst, WsTypes, WsClosing, PTL DEF Spec

-------------------------------------------------------------------------------
\* The replies on the wire, as a sequence, while and after it is open.
LEMMA CarriedWhileOpen ==
  ASSUME SendTypes, Carrying, ~Closed, DataOnly
  PROVE  /\ Carried \in Seq(Replies)
         /\ Len(Carried) = Len(wire)
         /\ \A i \in 1 .. Len(wire) : Carried[i] = wire[i].body
         /\ Len(wire) <= Len(emitted)
         /\ \A i \in 1 .. Len(wire) : Carried[i] = emitted[i]
<1> USE DEF SendTypes
<1>1. Len(wire) \in Nat /\ Carried = [i \in 1 .. Len(wire) |-> wire[i].body]
  BY DEF Carried
<1>2. \A i \in 1 .. Len(wire) : i <= Len(emitted) /\ wire[i].body = emitted[i]
  BY DEF Carrying, DataOnly
<1>3. \A i \in 1 .. Len(wire) : wire[i].body \in Replies
  BY <1>1, <1>2
<1>4. Carried \in [1 .. Len(wire) -> Replies]
  BY <1>1, <1>3
<1>5. Carried \in Seq(Replies)
  BY <1>1, <1>4, SeqDef
<1>6. Len(Carried) = Len(wire)
  BY <1>1, <1>4, <1>5, LenProperties
<1>7. Len(wire) <= Len(emitted)
  BY <1>1, <1>2
<1> QED
  BY <1>1, <1>2, <1>5, <1>6, <1>7

\* What a Close added to data frames does to the mapping: it ends the stream
\* and leaves what was carried.
LEMMA CloseEnds ==
  ASSUME SendTypes, Carrying, DataOnly, NEW c, UNCHANGED emitted,
         wire' = Append(wire, Close(c)),
         c = "NORMAL" => Len(wire) = Len(emitted)
  PROVE  [Reply!Next]_Reply!vars
<1> USE DEF SendTypes
<1>1. ~Closed
  BY DEF Closed, DataOnly
<1>2. /\ Len(wire') = Len(wire) + 1 /\ wire' # <<>> /\ Len(wire) \in Nat
      /\ wire'[Len(wire')] = Close(c) /\ \A i \in 1 .. Len(wire) : wire'[i] = wire[i]
  OBVIOUS
<1>3. Closed' /\ wire'[Len(wire')].body = c
  BY <1>2, FrameParts DEF Closed
<1>4. Carried' = Carried
  BY <1>1, <1>2, <1>3 DEF Carried
<1>5. Verdict = "open" /\ Verdict' = IF c = "NORMAL" THEN "normal" ELSE "other"
  BY <1>1, <1>3 DEF Verdict
<1>6. c = "NORMAL" => Carried = emitted
  <2>1. SUFFICES ASSUME Len(wire) = Len(emitted)
                 PROVE  Carried = emitted
    OBVIOUS
  <2>2. Carried \in Seq(Replies) /\ Len(Carried) = Len(emitted)
        /\ \A i \in 1 .. Len(emitted) : Carried[i] = emitted[i]
    BY <1>1, <2>1, CarriedWhileOpen
  <2> QED
    BY <2>2, SeqEqual
<1> QED
  BY <1>4, <1>5, <1>6 DEF Reply!Next, Reply!EndNormally, Reply!EndOtherwise

\* A step that neither makes nor sends a reply, and one that sends the echo of
\* the client's Close.
LEMMA NothingCarried ==
  ASSUME UNCHANGED <<wire, emitted>>
  PROVE  [Reply!Next]_Reply!vars
BY DEF Carried, Verdict, Closed, Reply!vars

\* A read of the service carries no reply, whether the flush sends an echo or not.
LEMMA EchoCarried ==
  ASSUME SendTypes, Closing, Carrying, UNCHANGED emitted,
         UNCHANGED wire \/ (owed /\ wire' = Append(wire, Close("echo")))
  PROVE  [Reply!Next]_Reply!vars
<1>1. CASE UNCHANGED wire
  BY <1>1, NothingCarried
<1>2. CASE owed /\ wire' = Append(wire, Close("echo"))
  BY <1>2, CloseEnds DEF Closing
<1> QED
  BY <1>1, <1>2

\* A reply that the service makes is offered to the reply stream.
LEMMA ReplyOffered ==
  ASSUME SendTypes, Closing, NEW r \in Replies, UNCHANGED wire, emitted' = Append(emitted, r),
         pc \in {"calling", "streaming"}
  PROVE  [Reply!Next]_Reply!vars
<1>1. Verdict # "normal"
  BY DEF SendTypes, Verdict, Closing, ClosedWith, Closed, DataOnly
<1>2. UNCHANGED <<Carried, Verdict>>
  BY DEF Carried, Verdict, Closed
<1>3. Reply!Offer(r)
  BY <1>1, <1>2 DEF Reply!Offer
<1> QED
  BY <1>3 DEF Reply!Next

\* Each step of a session is one of the reply stream, or changes none of it.
LEMMA StepOfReply ==
  ASSUME SendTypes, Closing, Carrying, Step
  PROVE  [Reply!Next]_Reply!vars
<1> USE DEF SendTypes
<1>1. CASE UNCHANGED <<wire, emitted>>
  BY <1>1, NothingCarried
<1>2. ASSUME UNCHANGED emitted, Flush
      PROVE  [Reply!Next]_Reply!vars
  BY <1>2, FlushTypes, EchoCarried
<1>3. ASSUME NEW r \in Replies, UNCHANGED wire, emitted' = Append(emitted, r),
             pc \in {"calling", "streaming"}
      PROVE  [Reply!Next]_Reply!vars
  BY <1>3, ReplyOffered
<1>4. CASE SvcRead
  BY <1>1, <1>2, <1>4 DEF SvcRead, StreamFrame, StreamFailure, StreamEnd
<1>5. CASE SvcAnswer
  <2>1. pc = "calling" /\ UNCHANGED wire
    BY <1>5 DEF SvcAnswer
  <2>2. CASE UNCHANGED emitted
    BY <1>1, <2>1, <2>2
  <2>3. ASSUME NEW r \in Replies, emitted' = <<r>>
        PROVE  [Reply!Next]_Reply!vars
    <3>1. emitted = <<>>
      BY <2>1 DEF Carrying
    <3>2. emitted' = Append(emitted, r)
      BY <2>3, <3>1
    <3> QED
      BY <1>3, <2>1, <3>2
  <2> QED
    BY <1>5, <2>2, <2>3 DEF SvcAnswer
<1>6. CASE \E r \in Replies : SvcEmit(r)
  BY <1>3, <1>6 DEF SvcEmit
<1>7. CASE SendMsg
  <2>1. /\ pc = "sending" /\ tx = "active" /\ UNCHANGED emitted
        /\ wire' = Append(wire, Data(emitted[Len(emitted)]))
    BY <1>7 DEF SendMsg, Send, svcVars
  <2>2. Len(emitted) = Len(wire) + 1 /\ DataOnly /\ ~Closed
    BY <2>1 DEF Carrying, Closing, Closed, DataOnly
  <2>3. /\ Len(wire') = Len(wire) + 1 /\ Len(wire) \in Nat
        /\ wire'[Len(wire) + 1] = Data(emitted[Len(wire) + 1])
        /\ \A i \in 1 .. Len(wire) : wire'[i] = wire[i]
    BY <2>1, <2>2
  <2>4. ~Closed' /\ Carried' = [i \in 1 .. Len(wire) + 1 |-> wire'[i].body]
    BY <2>2, <2>3 DEF Closed, Data, Carried
  <2>5. /\ Carried \in Seq(Replies) /\ Len(Carried) = Len(wire)
        /\ \A i \in 1 .. Len(wire) : Carried[i] = wire[i].body
    BY <2>2, CarriedWhileOpen
  <2>6. Carried' = Append(Carried, emitted[Len(Carried) + 1])
    <3>1. \A i \in 1 .. Len(wire) + 1 :
             wire'[i].body = IF i <= Len(wire) THEN Carried[i] ELSE emitted[Len(wire) + 1]
      BY <2>3, <2>5 DEF Data
    <3> DEFINE next == Append(Carried, emitted[Len(Carried) + 1])
    <3>2. emitted[Len(Carried) + 1] \in Replies
      BY <2>2, <2>3, <2>5
    <3>3. /\ next \in Seq(Replies) /\ Len(next) = Len(wire) + 1
          /\ \A i \in 1 .. Len(wire) : next[i] = Carried[i]
          /\ next[Len(wire) + 1] = emitted[Len(wire) + 1]
      BY <2>5, <3>2, AppendProperties
    <3>4. next = [i \in 1 .. Len(wire) + 1 |-> next[i]]
      BY <3>3, LenProperties
    <3>5. \A i \in 1 .. Len(wire) + 1 : next[i] = wire'[i].body
      BY <2>3, <3>1, <3>3
    <3>6. next = [i \in 1 .. Len(wire) + 1 |-> wire'[i].body]
      BY <3>4, <3>5
    <3> QED
      BY <2>4, <3>6
  <2>7. Verdict = "open" /\ Verdict' = "open"
    BY <2>2, <2>4 DEF Verdict
  <2>8. Reply!Carry
    BY <2>1, <2>2, <2>5, <2>6, <2>7 DEF Reply!Carry
  <2> QED
    BY <2>8 DEF Reply!Next
<1>8. CASE FinishSend
  <2>1. pc = "finishing" /\ UNCHANGED emitted /\ status \in Codes
    BY <1>8 DEF FinishSend, svcVars
  <2>2. CASE UNCHANGED wire
    BY <1>1, <2>1, <2>2
  <2>3. CASE tx = "active" /\ wire' = Append(wire, Close(CloseCode(status)))
    <3>1. CloseCode(status) = "NORMAL" => status = "Ok"
      BY <2>1 DEF CloseCode, Codes
    <3>2. DataOnly /\ (CloseCode(status) = "NORMAL" => Len(wire) = Len(emitted))
      BY <2>1, <2>3, <3>1 DEF Closing, Carrying
    <3> QED
      BY <2>1, <2>3, <3>2, CloseEnds
  <2> QED
    BY <1>8, <2>2, <2>3 DEF FinishSend, Send
<1>9. CASE FinishClose
  BY <1>2, <1>9 DEF FinishClose, svcVars
<1> QED
  BY <1>1, <1>4, <1>5, <1>6, <1>7, <1>8, <1>9
  DEF Step, ClientSend, ClientClose, ClientVanish, ClientRecv, MakeWsRequest, UpgradeToWs,
      SvcEnd, SvcFail, SendMsgFails, vars, svcVars

\* Nothing is offered or carried when the web socket is upgraded.
LEMMA ReplyFirst == Init => Reply!Init
<1>1. Init => ~Closed /\ Len(wire) = 0 /\ emitted = <<>>
  BY DEF Init, Closed
<1>2. Init => Carried = [i \in 1 .. 0 |-> wire[i].body]
  BY <1>1 DEF Carried
<1>3. Init => Carried = <<>>
  BY <1>2
<1> QED
  BY <1>1, <1>3 DEF Reply!Init, Verdict

\* ImplementsReplyStream: a session carries the replies in order and each at
\* most once, and closes with NORMAL only when the last of them is sent.
THEOREM SessionImplementsReplies == Spec => ImplementsReplyStream
<1>1. SendTypes /\ Closing /\ Carrying /\ [Next]_vars => [Reply!Next]_Reply!vars
  BY StepOfNext, StepOfReply
<1> QED
  BY <1>1, ReplyFirst, WsTypes, WsClosing, WsCarrying, PTL DEF Spec, ImplementsReplyStream, Reply!Spec

\* A client sees what the service replied with, from the first reply on, and if
\* the session ends with NORMAL then nothing is missing.
THEOREM SessionKeepsPromise == Spec => []Reply!Promise
BY SessionImplementsReplies, Reply!PromiseKept, PTL DEF ImplementsReplyStream

===============================================================================
