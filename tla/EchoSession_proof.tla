--------------------------- MODULE EchoSession_proof --------------------------
(***************************************************************************)
(* Proofs about EchoSession: what holds of a web socket session with the   *)
(* service of the example, for every client, every bound and every number  *)
(* of greetings.                                                           *)
(***************************************************************************)
EXTENDS EchoSession, WsSession_proof

\* Apart from its reads, the example is a service like any other.
LEMMA EchoStep ==
  ASSUME [EchoNext]_vars
  PROVE  [Next]_vars \/ EchoRead
BY EchoSessionAssumption DEF EchoNext, EchoGreet, Next, Service

\* A read of the example is one of its request stream.
LEMMA EchoReads ==
  ASSUME EchoRead
  PROVE  /\ ReadStep /\ UNCHANGED <<kind, protobuf, client, sent, rcvd>> /\ pc = "streaming"
         /\ \/ emitted' = Append(emitted, Echo) /\ pc' = "sending" /\ UNCHANGED <<status, wire>>
            \/ UNCHANGED <<emitted, pc, status, wire>>
            \/ status' = "Internal" /\ pc' = "finishing" /\ UNCHANGED <<emitted, wire>>
            \/ status' = "Ok" /\ pc' = "finishing" /\ UNCHANGED emitted /\ StreamEnd
BY DEF EchoRead, ReadStep, StreamFrame, StreamFailure, clientVars

\* The types are kept: the example replies with its two kinds of reply only.
LEMMA EchoTypesStep ==
  ASSUME ReadTypes, SendTypes, [EchoNext]_vars
  PROVE  ReadTypes' /\ SendTypes'
<1>1. CASE [Next]_vars
  BY <1>1, StepOfNext, ReadTypesStep, SendTypesStep
<1>2. CASE EchoRead
  <2>1. ReadTypes'
    BY <1>2, EchoReads, ReadTypesKept
  <2>2. /\ tx' \in {tx, "peer_closed"} /\ owed' \in BOOLEAN
        /\ wire' \in Seq(WireFrames) /\ Len(wire) <= Len(wire')
    BY <1>2, EchoReads, ReadSends
  <2>3. emitted' \in Seq(Replies) /\ (pc' = "sending" => emitted' # <<>>)
    BY <1>2, EchoReads, EchoSessionAssumption DEF SendTypes
  <2> QED
    BY <1>2, <2>1, <2>2, <2>3, EchoReads DEF SendTypes, Codes
<1> QED
  BY <1>1, <1>2, EchoStep

\* What the example has read is what its client sent, as for any service.
LEMMA EchoInputStep ==
  ASSUME ReadTypes, InputRead, kind = "bidi", [EchoNext]_vars
  PROVE  InputRead'
<1>1. CASE [Next]_vars
  BY <1>1, InputReadStep
<1>2. CASE EchoRead
  <2>1. /\ ReadStep /\ kind # "server" /\ pc' # "await_request"
        /\ UNCHANGED <<kind, client, sent>>
    BY <1>2, EchoReads
  <2> QED
    BY <2>1, InputReadKept
<1> QED
  BY <1>1, <1>2, EchoStep

-------------------------------------------------------------------------------
\* Counting the places of a value in a sequence: one more place is one more.
LEMMA OneMore ==
  ASSUME NEW n \in Nat, NEW A \in SUBSET (1 .. n)
  PROVE  Cardinality(A \cup {n + 1}) = Cardinality(A) + 1
<1>1. IsFiniteSet(1 .. n) /\ n + 1 \notin A
  BY FS_Interval
<1>2. IsFiniteSet(A)
  BY <1>1, FS_Subset
<1> QED
  BY <1>1, <1>2, FS_AddElement

\* Counting the places of a value in a sequence gives a number.
LEMMA CountType ==
  ASSUME NEW S, NEW s \in Seq(S), NEW v
  PROVE  Cardinality({i \in 1 .. Len(s) : s[i] = v}) \in Nat
<1>1. IsFiniteSet(1 .. Len(s)) /\ {i \in 1 .. Len(s) : s[i] = v} \in SUBSET (1 .. Len(s))
  BY FS_Interval
<1> QED
  BY <1>1, FS_Subset, FS_CardinalityType

\* The echoes that the service has made, and the one that is not sent yet.
Answered == Cardinality({i \in 1 .. Len(emitted) : emitted[i] = Echo})
Unsent == IF pc = "sending" /\ emitted[Len(emitted)] = Echo THEN 1 ELSE 0

\* An echo is one more answer; a greeting is none.
LEMMA AnsweredGrows ==
  ASSUME emitted \in Seq(Replies), NEW r \in Replies
  PROVE  /\ Answered \in Nat
         /\ emitted' = Append(emitted, r) =>
                Answered' = IF r = Echo THEN Answered + 1 ELSE Answered
         /\ emitted' = emitted => Answered' = Answered
<1>1. Answered \in Nat
  BY CountType DEF Answered
<1>2. ASSUME emitted' = Append(emitted, r)
      PROVE  Answered' = IF r = Echo THEN Answered + 1 ELSE Answered
  <2>1. PICK A : A = {i \in 1 .. Len(emitted) : emitted[i] = Echo}
    OBVIOUS
  <2>2. PICK B : B = {i \in 1 .. Len(Append(emitted, r)) : Append(emitted, r)[i] = Echo}
    OBVIOUS
  <2>3. Cardinality(B) = IF r = Echo THEN Cardinality(A) + 1 ELSE Cardinality(A)
    <3>1. Len(emitted) \in Nat /\ A \in SUBSET (1 .. Len(emitted))
      BY <2>1
    <3>2. B = IF r = Echo THEN A \cup {Len(emitted) + 1} ELSE A
      BY <2>1, <2>2
    <3> QED
      BY <3>1, <3>2, OneMore
  <2>4. Answered = Cardinality(A)
    BY <2>1 DEF Answered
  <2>5. Answered' = Cardinality(B)
    BY <1>2, <2>2 DEF Answered
  <2> QED
    BY <2>3, <2>4, <2>5
<1> QED
  BY <1>1, <1>2 DEF Answered

\* An echo on the wire is one more that was sent; nothing else counts.
LEMMA EchoedGrows ==
  ASSUME wire \in Seq(WireFrames)
  PROVE  /\ Echoed \in Nat
         /\ \A r \in Replies : wire' = Append(wire, Data(r)) =>
                Echoed' = IF r = Echo THEN Echoed + 1 ELSE Echoed
         /\ \A c \in WsCloseCodes : wire' = Append(wire, Close(c)) => Echoed' = Echoed
         /\ wire' = wire => Echoed' = Echoed
<1>1. Echoed \in Nat
  BY CountType DEF Echoed
<1>2. ASSUME NEW x \in WireFrames, wire' = Append(wire, x)
      PROVE  Echoed' = IF x = Data(Echo) THEN Echoed + 1 ELSE Echoed
  <2>1. PICK A : A = {i \in 1 .. Len(wire) : wire[i] = Data(Echo)}
    OBVIOUS
  <2>2. PICK B : B = {i \in 1 .. Len(Append(wire, x)) : Append(wire, x)[i] = Data(Echo)}
    OBVIOUS
  <2>3. Cardinality(B) = IF x = Data(Echo) THEN Cardinality(A) + 1 ELSE Cardinality(A)
    <3>1. Len(wire) \in Nat /\ A \in SUBSET (1 .. Len(wire))
      BY <2>1
    <3>2. B = IF x = Data(Echo) THEN A \cup {Len(wire) + 1} ELSE A
      BY <2>1, <2>2
    <3> QED
      BY <3>1, <3>2, OneMore
  <2>4. Echoed = Cardinality(A)
    BY <2>1 DEF Echoed
  <2>5. Echoed' = Cardinality(B)
    BY <1>2, <2>2 DEF Echoed, Data
  <2> QED
    BY <2>3, <2>4, <2>5
<1>3. \A r \in Replies : Data(r) \in WireFrames /\ (Data(r) = Data(Echo) <=> r = Echo)
  BY DEF WireFrames, Data
<1>4. \A c \in WsCloseCodes : Close(c) \in WireFrames /\ Close(c) # Data(Echo)
  <2>1. \A c : Close(c) # Data(Echo)
    BY FrameParts, EchoSessionAssumption
  <2> QED
    BY <2>1 DEF WireFrames
<1>5. wire' = wire => Echoed' = Echoed
  BY DEF Echoed, Data
<1> QED
  BY <1>1, <1>2, <1>3, <1>4, <1>5

\* As long as nothing has failed, every request that was read is answered by
\* an echo, and each echo is on the wire, but for the one that is being sent.
Counted ==
    /\ kind = "bidi"
    /\ status = "None" <=> pc \in {"upgrade", "calling", "streaming", "sending"}
    /\ status = "Ok" => reqEnd
    /\ status \in {"None", "Ok"} => /\ NoError
                                    /\ Len(requests) = Answered
                                    /\ Echoed + Unsent = Answered

\* A step that neither reads nor answers: at most a Close goes on the wire.
LEMMA CountedKept ==
  ASSUME ReadTypes, SendTypes, Counted, UNCHANGED <<kind, requests, reqEnd, emitted, status>>,
         wire' = wire \/ \E c \in WsCloseCodes : wire' = Append(wire, Close(c)),
         pc' = pc \/ (pc \in {"upgrade", "calling"} /\ pc' \in {"calling", "streaming"})
                  \/ (pc \in {"finishing", "closing"} /\ pc' \in {"closing", "done"})
  PROVE  Counted'
<1>1. Answered' = Answered
  <2>1. EchoSessionAssumption /\ emitted \in Seq(Replies)
    BY EchoSessionAssumption DEF SendTypes
  <2> QED
    BY <2>1, AnsweredGrows DEF EchoSessionAssumption
<1>2. Echoed' = Echoed
  BY EchoedGrows DEF SendTypes
<1>3. Unsent' = Unsent
  BY DEF Unsent
<1> QED
  BY <1>1, <1>2, <1>3 DEF Counted, NoError

\* A read of the example: an item is counted among the requests and, at once,
\* among the echoes; an error ends the loop; an end leaves the counts alone.
LEMMA CountedRead ==
  ASSUME ReadTypes, SendTypes, Counted, EchoRead
  PROVE  Counted'
<1> USE DEF ReadTypes, SendTypes
<1>1. /\ pc = "streaming" /\ status = "None" /\ kind' = "bidi" /\ Unsent = 0
      /\ NoError /\ Len(requests) = Answered /\ Echoed = Answered
  <2>1. pc = "streaming" /\ kind' = kind
    BY DEF EchoRead
  <2>2. status = "None" /\ Unsent = 0
    BY <2>1 DEF Counted, Unsent
  <2>3. Echoed \in Nat
    BY EchoedGrows
  <2> QED
    BY <2>1, <2>2, <2>3 DEF Counted
<1>2. CASE status' = "Internal" /\ pc' = "finishing"
  BY <1>1, <1>2 DEF Counted
<1>3. CASE /\ emitted' = Append(emitted, Echo) /\ pc' = "sending" /\ UNCHANGED <<status, wire>>
           /\ \E f \in Requests : StreamFrame(f)
  <2>1. PICK f \in Requests : requests' = requests \o ConvertStream(f)
    BY <1>3 DEF StreamFrame
  <2>2. requests' = Append(requests, f) /\ f # "error"
    <3>1. ConvertStream(f) = <<f>> /\ f # "error"
      BY WsSessionAssumption DEF ConvertStream, CloseFrames
    <3> QED
      BY <2>1, <3>1
  <2>3. NoError' /\ Len(requests') = Len(requests) + 1
    BY <1>1, <2>2 DEF NoError
  <2>4. Answered' = Answered + 1 /\ Echoed' = Echoed
    BY <1>3, AnsweredGrows, EchoedGrows, EchoSessionAssumption
  <2>5. Unsent' = 1
    BY <1>3 DEF Unsent
  <2> QED
    BY <1>1, <1>3, <2>3, <2>4, <2>5 DEF Counted
<1>4. CASE UNCHANGED <<emitted, pc, status, wire, requests>>
  <2>1. Answered' = Answered /\ Echoed' = Echoed
    BY <1>4, AnsweredGrows, EchoedGrows, EchoSessionAssumption
  <2>2. Unsent' = 0 /\ NoError'
    BY <1>1, <1>4 DEF Unsent, NoError
  <2> QED
    BY <1>1, <1>4, <2>1, <2>2 DEF Counted
<1>5. CASE status' = "Ok" /\ pc' = "finishing" /\ UNCHANGED emitted /\ StreamEnd
  <2>1. reqEnd' /\ requests' = requests /\ Flush
    BY <1>5 DEF StreamEnd
  <2>2. wire' = wire \/ wire' = Append(wire, Close("echo"))
    BY <2>1, FlushTypes
  <2>3. Answered' = Answered /\ Echoed' = Echoed
    BY <1>5, <2>2, AnsweredGrows, EchoedGrows, EchoSessionAssumption DEF WsCloseCodes
  <2>4. Unsent' = 0 /\ NoError'
    BY <1>1, <1>5, <2>1 DEF Unsent, NoError
  <2> QED
    BY <1>1, <1>5, <2>1, <2>3, <2>4 DEF Counted
<1> QED
  BY <1>2, <1>3, <1>4, <1>5 DEF EchoRead, StreamFrame

\* A send: the one reply that is not on the wire yet gets there.
LEMMA CountedSend ==
  ASSUME SendTypes, Counted, SendMsg
  PROVE  Counted'
<1> USE DEF SendTypes
<1>1. /\ pc = "sending" /\ status = "None" /\ kind = "bidi" /\ pc' = "streaming"
      /\ UNCHANGED <<kind, requests, reqEnd, emitted, status>>
      /\ wire' = Append(wire, Data(emitted[Len(emitted)]))
  BY DEF SendMsg, Send, svcVars, Counted
<1>2. emitted[Len(emitted)] \in Replies
  BY <1>1
<1>3. Echoed' = Echoed + Unsent
  BY <1>1, <1>2, EchoedGrows DEF Unsent
<1>4. Unsent' = 0 /\ Answered' = Answered
  BY <1>1, AnsweredGrows, EchoSessionAssumption DEF Unsent
<1>5. NoError' = NoError
  BY <1>1 DEF NoError
<1> QED
  BY <1>1, <1>3, <1>4, <1>5 DEF Counted

\* A greeting between two messages leaves the counts alone.
LEMMA CountedGreet ==
  ASSUME SendTypes, Counted, EchoGreet
  PROVE  Counted'
<1> USE DEF SendTypes
<1>1. /\ pc = "streaming" /\ pc' = "sending" /\ emitted' = Append(emitted, Greeting)
      /\ UNCHANGED <<kind, requests, reqEnd, wire, status>>
  BY DEF EchoGreet, SvcEmit
<1>2. Answered' = Answered /\ Echoed' = Echoed
  BY <1>1, AnsweredGrows, EchoedGrows, EchoSessionAssumption
<1>3. Unsent = 0 /\ Unsent' = 0
  BY <1>1, EchoSessionAssumption DEF Unsent
<1>4. NoError' = NoError
  BY <1>1 DEF NoError
<1> QED
  BY <1>1, <1>2, <1>3, <1>4 DEF Counted

\* No step of the client, the handler or the example breaks the counts.
LEMMA CountedStep ==
  ASSUME ReadTypes, SendTypes, InputRead, Counted, [EchoNext]_vars
  PROVE  Counted'
<1>1. CASE Client \/ UNCHANGED vars
  <2>1. UNCHANGED <<kind, requests, reqEnd, emitted, status, wire, pc>>
    BY <1>1 DEF Client, ClientSend, ClientClose, ClientVanish, ClientRecv, vars, svcVars
  <2> QED
    BY <2>1, CountedKept
<1>2. CASE SvcAnswer \/ UpgradeToWs
  <2>1. kind = "bidi"
    BY DEF Counted
  <2>2. /\ UNCHANGED <<kind, requests, reqEnd, emitted, status, wire>>
        /\ pc \in {"upgrade", "calling"} /\ pc' \in {"calling", "streaming"}
    BY <1>2, <2>1 DEF SvcAnswer, UpgradeToWs, svcVars
  <2> QED
    BY <2>2, CountedKept
<1>3. CASE MakeWsRequest
  BY <1>3 DEF MakeWsRequest, InputRead, Counted
<1>4. CASE SendMsgFails
  BY <1>4 DEF SendMsgFails, Counted
<1>5. CASE FinishSend \/ FinishClose
  <2>1. status \in Codes => CloseCode(status) \in WsCloseCodes
    BY DEF WsCloseCodes
  <2>2. pc \in {"finishing", "closing"} /\ pc' \in {"closing", "done"}
        /\ UNCHANGED <<kind, requests, reqEnd, emitted, status>>
    BY <1>5 DEF FinishSend, FinishClose, svcVars
  <2>3. wire' = wire \/ \E c \in WsCloseCodes : wire' = Append(wire, Close(c))
    <3>1. FinishSend => wire' = wire \/ wire' = Append(wire, Close(CloseCode(status)))
      BY DEF FinishSend, Send
    <3>2. FinishClose => wire' = wire \/ wire' = Append(wire, Close("echo"))
      BY DEF FinishClose, Flush
    <3>3. status \in Codes /\ "echo" \in WsCloseCodes
      BY <2>2 DEF SendTypes, WsCloseCodes
    <3> QED
      BY <1>5, <2>1, <3>1, <3>2, <3>3
  <2> QED
    BY <2>2, <2>3, CountedKept
<1> QED
  BY <1>1, <1>2, <1>3, <1>4, <1>5, CountedRead, CountedSend, CountedGreet
  DEF EchoNext, Handler, Over

\* Nothing is read, answered or sent when the session begins.
LEMMA CountedFirst == EchoInit => Counted
<1>1. SUFFICES ASSUME EchoInit PROVE Counted
  OBVIOUS
<1>2. /\ emitted = <<>> /\ wire = <<>> /\ requests = <<>> /\ pc = "upgrade"
      /\ kind = "bidi" /\ status = "None"
  BY <1>1 DEF EchoInit, Init
<1>3. {i \in 1 .. Len(emitted) : emitted[i] = Echo} = {} /\ {i \in 1 .. Len(wire) : wire[i] = Data(Echo)} = {}
  BY <1>2
<1>4. Answered = 0 /\ Echoed = 0
  BY <1>3, FS_EmptySet DEF Answered, Echoed
<1>5. Unsent = 0 /\ NoError
  BY <1>2 DEF Unsent, NoError
<1> QED
  BY <1>2, <1>4, <1>5 DEF Counted

-------------------------------------------------------------------------------
\* OkMeansAllEchoed: whatever its client sends, and whenever it greets, the
\* example ends a session with Ok only after an echo for each message.
THEOREM OkAfterAllEchoes == FairEchoSpec => []OkMeansAllEchoed
<1>1. EchoInit => ReadTypes /\ SendTypes /\ InputRead
  BY TypesFirst, InputReadFirst DEF EchoInit
<1>2. EchoInit => Counted
  BY CountedFirst
<1>3. ReadTypes /\ SendTypes /\ InputRead /\ Counted /\ [EchoNext]_vars
      => (ReadTypes /\ SendTypes /\ InputRead /\ Counted)'
  BY EchoTypesStep, EchoInputStep, CountedStep DEF Counted
<1>4. ReadTypes /\ SendTypes /\ InputRead /\ Counted => OkMeansAllEchoed
  <2>1. SUFFICES ASSUME ReadTypes, SendTypes, InputRead, Counted, status = "Ok"
                 PROVE  Echoed = Asked
    BY DEF OkMeansAllEchoed
  <2>2. /\ reqEnd /\ NoError /\ pc # "sending" /\ kind # "server"
        /\ Len(requests) = Answered /\ Echoed + Unsent = Answered
    BY <2>1 DEF Counted
  <2>3. Len(requests) = RequestsUpTo(Len(sent))
    BY <2>1, <2>2, InputComplete DEF NoError, CleanEndMeansClientFinished
  <2>4. Unsent = 0 /\ Echoed \in Nat
    BY <2>1, <2>2, EchoedGrows DEF Unsent, SendTypes
  <2> QED
    BY <2>2, <2>3, <2>4 DEF Asked
<1> QED
  BY <1>1, <1>2, <1>3, <1>4, PTL DEF FairEchoSpec

-------------------------------------------------------------------------------
\* The socket is closed as in any other session.
LEMMA EchoSocketStep ==
  ASSUME ReadTypes, SendTypes, Closing, ReadOver, [EchoNext]_vars
  PROVE  Closing' /\ ReadOver'
<1>1. CASE [Next]_vars
  BY <1>1, StepOfNext, ClosingStep, ReadOverStep
<1>2. CASE EchoRead
  <2>1. /\ ReadStep /\ UNCHANGED <<client, sent>> /\ pc = "streaming"
        /\ pc' \notin {"closing", "done"}
    BY <1>2, EchoReads
  <2>2. Closing'
    BY <2>1, ReadCloses
  <2>3. ReadOver'
    BY <2>1, ReadOverKept
  <2> QED
    BY <2>2, <2>3
<1> QED
  BY <1>1, <1>2, EchoStep

\* Nothing but echoes and greetings is made.
OwnReplies == \A i \in 1 .. Len(emitted) : emitted[i] \in {Echo, Greeting}

\* Each branch of the select! yields an echo or a greeting, or no reply.
LEMMA OwnRepliesStep ==
  ASSUME SendTypes, OwnReplies, kind = "bidi", [EchoNext]_vars
  PROVE  OwnReplies'
<1>1. emitted' = emitted \/ \E r \in {Echo, Greeting} : emitted' = Append(emitted, r)
  BY DEF EchoNext, EchoRead, EchoGreet, SvcEmit, SvcAnswer, Client, Handler, Over, ClientSend,
         ClientClose, ClientVanish, ClientRecv, UpgradeToWs, MakeWsRequest, SendMsg, SendMsgFails,
         FinishSend, FinishClose, vars, svcVars, StreamEnd
<1>2. ASSUME NEW r \in {Echo, Greeting}, emitted' = Append(emitted, r)
      PROVE  OwnReplies'
  <2>1. /\ Len(emitted') = Len(emitted) + 1 /\ Len(emitted) \in Nat
        /\ emitted'[Len(emitted) + 1] = r
        /\ \A i \in 1 .. Len(emitted) : emitted'[i] = emitted[i]
    BY <1>2 DEF SendTypes
  <2> QED
    BY <2>1 DEF OwnReplies
<1>3. emitted' = emitted => OwnReplies'
  BY DEF OwnReplies
<1> QED
  BY <1>1, <1>2, <1>3

\* A client that stays, with messages and replies that convert.
Staying == client # "gone" /\ Wellformed /\ Encodes(Echo) /\ Encodes(Greeting)

\* As long as there is one its requests are counted, the loop is left at their
\* end only, and the socket is not closed before their echoes are sent.
Kept == /\ NoError
        /\ Len(requests) = Answered
        /\ Echoed + Unsent = Answered
        /\ tx # "active" => rx = "closed" /\ Unsent = 0
        /\ pc \notin {"upgrade", "calling", "streaming", "sending"} => rx = "closed"

\* A client that is staying has stayed so far.
LEMMA StillStaying ==
  ASSUME ReadTypes, [EchoNext]_vars, Staying'
  PROVE  Staying
<1>1. protobuf' = protobuf
  BY DEF EchoNext, EchoRead, EchoGreet, SvcEmit, SvcAnswer, Client, Handler, Over, ClientSend,
         ClientClose, ClientVanish, ClientRecv, UpgradeToWs, MakeWsRequest, SendMsg, SendMsgFails,
         FinishSend, FinishClose, vars
<1>2. \/ UNCHANGED <<client, sent>>
      \/ client' = "gone"
      \/ client # "gone" /\ (sent' = sent \/ \E f : sent' = Append(sent, f))
  BY DEF EchoNext, EchoRead, EchoGreet, SvcEmit, SvcAnswer, Client, Handler, Over, ClientSend,
         ClientClose, ClientVanish, ClientRecv, UpgradeToWs, MakeWsRequest, SendMsg, SendMsgFails,
         FinishSend, FinishClose, vars, clientVars
<1>3. client # "gone" /\ (sent' = sent \/ \E f : sent' = Append(sent, f))
  BY <1>2 DEF Staying
<1>4. \A i \in 1 .. Len(sent) : sent'[i] = sent[i] /\ i \in 1 .. Len(sent')
  BY <1>3 DEF ReadTypes
<1>5. Wellformed
  BY <1>4 DEF Staying, Wellformed
<1> QED
  BY <1>1, <1>3, <1>5 DEF Staying, Encodes

\* A step that neither reads nor answers, and closes only after the loop.
LEMMA KeptElsewhere ==
  ASSUME SendTypes, Kept, UNCHANGED <<requests, emitted, rx>>,
         tx' = tx \/ (rx = "closed" /\ pc # "sending"),
         wire' = wire \/ \E c \in WsCloseCodes : wire' = Append(wire, Close(c)),
         pc' = pc \/ (pc \in {"upgrade", "calling"} /\ pc' \in {"calling", "streaming"})
                  \/ (pc \in {"finishing", "closing"} /\ pc' \in {"closing", "done"})
  PROVE  Kept'
<1>1. Answered' = Answered
  BY AnsweredGrows, EchoSessionAssumption DEF SendTypes
<1>2. Echoed' = Echoed
  BY EchoedGrows DEF SendTypes
<1>3. Unsent' = Unsent
  BY DEF Unsent
<1>4. tx' # "active" => rx' = "closed" /\ Unsent' = 0
  <2>1. CASE tx' = tx
    BY <1>3, <2>1 DEF Kept
  <2>2. CASE rx = "closed" /\ pc # "sending"
    BY <1>3, <2>2 DEF Unsent
  <2> QED
    BY <2>1, <2>2
<1>5. NoError'
  BY DEF Kept, NoError
<1> QED
  BY <1>1, <1>2, <1>3, <1>4, <1>5 DEF Kept

\* A read: a request is counted twice, its client's Close ends sending with no
\* echo unsent, and the end comes after that Close only.
LEMMA KeptRead ==
  ASSUME ReadTypes, SendTypes, ReadOver, Kept, EchoRead, Staying'
  PROVE  Kept'
<1> USE DEF ReadTypes, SendTypes
<1>1. /\ pc = "streaming" /\ Unsent = 0 /\ NoError /\ UNCHANGED <<client, sent>>
      /\ Len(requests) = Answered /\ Echoed = Answered
  <2>1. pc = "streaming" /\ UNCHANGED <<client, sent>>
    BY DEF EchoRead, clientVars
  <2>2. Unsent = 0
    BY <2>1 DEF Unsent
  <2>3. Echoed \in Nat
    BY EchoedGrows
  <2> QED
    BY <2>1, <2>2, <2>3 DEF Kept
<1>2. ASSUME NEW f \in ClientFrames, StreamFrame(f),
             \/ f \in Requests /\ emitted' = Append(emitted, Echo) /\ pc' = "sending"
             \/ requests' = requests /\ UNCHANGED <<emitted, pc>>
             \/ requests' = Append(requests, "error")
      PROVE  Kept'
  <2>2. /\ ReadFrame(f) /\ rx = "open" /\ f = sent[rd + 1] /\ rd + 1 \in 1 .. Len(sent)
        /\ requests' = requests \o ConvertStream(f)
        /\ rx' = CASE f \in CloseFrames -> "closed"
                   [] f = "broken" -> "failed"
                   [] OTHER -> rx
        /\ UNCHANGED wire
    BY <1>2 DEF StreamFrame, ReadFrame
  <2>3. f \notin {"bad", "broken", "close_error"}
    BY <1>1, <2>2 DEF Staying, Wellformed
  <2>4. tx = "active"
    BY <2>2 DEF Kept
  <2>5. tx' = tx \/ f \in CloseFrames
    <3>1. f \notin CloseFrames => ~owed'
      BY <2>2 DEF ReadFrame
    <3> QED
      BY <2>2, <3>1 DEF ReadFrame
  <2>6. CASE f \in Requests
    <3>1. f \notin CloseFrames /\ f # "error" /\ ConvertStream(f) = <<f>>
      BY <2>6, WsSessionAssumption DEF ConvertStream, CloseFrames
    <3>2. requests' = Append(requests, f) /\ Len(requests') = Len(requests) + 1
      BY <2>2, <2>6, <3>1
    <3>3. emitted' = Append(emitted, Echo) /\ pc' = "sending"
      BY <1>2, <2>6, <3>1, <3>2
    <3>4. Answered' = Answered + 1 /\ Echoed' = Echoed
      BY <2>2, <3>3, AnsweredGrows, EchoedGrows, EchoSessionAssumption
    <3>5. Unsent' = 1 /\ NoError'
      BY <1>1, <3>1, <3>2, <3>3 DEF Unsent, NoError
    <3>6. tx' = "active"
      BY <2>4, <2>5, <3>1
    <3> QED
      BY <1>1, <3>2, <3>3, <3>4, <3>5, <3>6 DEF Kept
  <2>7. CASE f \notin Requests
    <3>1. ConvertStream(f) = <<>>
      BY <2>3, <2>7 DEF ConvertStream, ClientFrames, DataFrames, CloseFrames
    <3>2. requests' = requests
      BY <2>2, <3>1
    <3>3. UNCHANGED <<emitted, pc>>
      BY <1>2, <2>7, <3>2
    <3>4. Answered' = Answered /\ Echoed' = Echoed
      BY <2>2, <3>3, AnsweredGrows, EchoedGrows, EchoSessionAssumption
    <3>5. Unsent' = 0 /\ NoError'
      BY <1>1, <3>2, <3>3 DEF Unsent, NoError
    <3>6. tx' # "active" => rx' = "closed"
      BY <2>2, <2>4, <2>5 DEF CloseFrames
    <3> QED
      BY <1>1, <3>2, <3>3, <3>4, <3>5, <3>6 DEF Kept
  <2> QED
    BY <2>6, <2>7
<1>3. CASE StreamFailure
  BY <1>1, <1>3 DEF StreamFailure, ReadFailure, Staying
<1>4. CASE StreamEnd /\ pc' = "finishing" /\ UNCHANGED emitted
  <2>1. /\ rx = "closed" /\ Flush /\ UNCHANGED <<rx, tx, requests>>
    BY <1>1, <1>4 DEF StreamEnd, ReadOver, ReadBroken, Staying, Wellformed
  <2>2. pc' = "finishing" /\ emitted' = emitted
    BY <1>4
  <2>3. wire' = wire \/ wire' = Append(wire, Close("echo"))
    BY <2>1, FlushTypes
  <2>4. Answered' = Answered /\ Echoed' = Echoed
    BY <2>2, <2>3, AnsweredGrows, EchoedGrows, EchoSessionAssumption DEF WsCloseCodes
  <2>5. Unsent' = 0 /\ NoError'
    BY <1>1, <2>1, <2>2 DEF Unsent, NoError
  <2> QED
    BY <1>1, <2>1, <2>2, <2>4, <2>5 DEF Kept
<1> QED
  BY <1>2, <1>3, <1>4 DEF EchoRead

\* A send puts the one echo that is waiting on the wire.
LEMMA KeptSend ==
  ASSUME SendTypes, Kept, SendMsg, kind = "bidi"
  PROVE  Kept'
<1> USE DEF SendTypes
<1>1. /\ pc = "sending" /\ pc' = "streaming" /\ UNCHANGED <<requests, emitted, rx, tx>>
      /\ tx = "active" /\ wire' = Append(wire, Data(emitted[Len(emitted)]))
  BY DEF SendMsg, Send, readVars, svcVars
<1>2. emitted[Len(emitted)] \in Replies
  BY <1>1
<1>3. Echoed' = Echoed + Unsent
  BY <1>1, <1>2, EchoedGrows DEF Unsent
<1>4. Unsent' = 0 /\ Answered' = Answered
  BY <1>1, AnsweredGrows, EchoSessionAssumption DEF Unsent
<1>5. NoError'
  BY <1>1 DEF Kept, NoError
<1>6. Echoed' + Unsent' = Answered'
  BY <1>3, <1>4, EchoedGrows DEF Kept, Unsent
<1> QED
  BY <1>1, <1>4, <1>5, <1>6 DEF Kept

\* A send that fails is that of a greeting, after the client's Close.
LEMMA KeptSendFails ==
  ASSUME SendTypes, OwnReplies, Kept, SendMsgFails, Staying
  PROVE  Kept'
<1> USE DEF SendTypes
<1>1. /\ pc = "sending" /\ pc' = "finishing"
      /\ UNCHANGED <<requests, emitted, rx, tx, wire>>
      /\ SendFails \/ ~Encodes(emitted[Len(emitted)])
  BY DEF SendMsgFails, readVars, svcVars
<1>2. Encodes(emitted[Len(emitted)])
  <2>1. Len(emitted) \in 1 .. Len(emitted)
    BY <1>1
  <2> QED
    BY <2>1 DEF OwnReplies, Staying
<1>3. rx = "closed" /\ Unsent = 0
  BY <1>1, <1>2 DEF SendFails, Staying, Kept
<1>4. Answered' = Answered /\ Echoed' = Echoed
  BY <1>1, AnsweredGrows, EchoedGrows, EchoSessionAssumption
<1>5. Unsent' = 0 /\ NoError'
  BY <1>1 DEF Unsent, Kept, NoError
<1> QED
  BY <1>1, <1>3, <1>4, <1>5 DEF Kept

\* A greeting is no answer, and takes nothing from the counts.
LEMMA KeptGreet ==
  ASSUME SendTypes, Kept, EchoGreet
  PROVE  Kept'
<1> USE DEF SendTypes
<1>1. /\ pc = "streaming" /\ pc' = "sending" /\ emitted' = Append(emitted, Greeting)
      /\ UNCHANGED <<requests, wire, rx, tx>>
  BY DEF EchoGreet, SvcEmit, readVars
<1>2. Answered' = Answered /\ Echoed' = Echoed
  BY <1>1, AnsweredGrows, EchoedGrows, EchoSessionAssumption
<1>3. Unsent = 0 /\ Unsent' = 0
  BY <1>1, EchoSessionAssumption DEF Unsent
<1>4. NoError'
  BY <1>1 DEF Kept, NoError
<1> QED
  BY <1>1, <1>2, <1>3, <1>4 DEF Kept

\* No step loses an echo of a client that stays.
LEMMA KeptStep ==
  ASSUME ReadTypes, SendTypes, InputRead, ReadOver, OwnReplies, kind = "bidi",
         Staying => Kept, [EchoNext]_vars
  PROVE  Staying' => Kept'
<1>1. SUFFICES ASSUME Staying' PROVE Kept'
  OBVIOUS
<1>2. Staying /\ Kept
  BY <1>1, StillStaying
<1>3. CASE Client \/ UNCHANGED vars
  <2>1. UNCHANGED <<requests, emitted, wire, pc, rx, tx>>
    BY <1>3 DEF Client, ClientSend, ClientClose, ClientVanish, ClientRecv, vars, svcVars, readVars
  <2> QED
    BY <1>2, <2>1, KeptElsewhere
<1>4. CASE SvcAnswer \/ UpgradeToWs
  <2>1. /\ UNCHANGED <<requests, emitted, wire, rx, tx>>
        /\ pc \in {"upgrade", "calling"} /\ pc' \in {"calling", "streaming"}
    BY <1>4 DEF SvcAnswer, UpgradeToWs, svcVars, readVars
  <2> QED
    BY <1>2, <2>1, KeptElsewhere
<1>5. CASE MakeWsRequest
  BY <1>5 DEF MakeWsRequest, InputRead
<1>6. CASE FinishSend
  <2>1. pc = "finishing" /\ pc' = "closing" /\ UNCHANGED <<requests, emitted, rx>>
    BY <1>6 DEF FinishSend, svcVars
  <2>2. rx = "closed"
    BY <1>2, <2>1 DEF Kept
  <2>3. CloseCode(status) \in WsCloseCodes
    BY <2>1 DEF SendTypes, WsCloseCodes
  <2>4. wire' = wire \/ wire' = Append(wire, Close(CloseCode(status)))
    BY <1>6 DEF FinishSend, Send
  <2> QED
    BY <1>2, <2>1, <2>2, <2>3, <2>4, KeptElsewhere
<1>7. CASE FinishClose
  <2>1. pc = "closing" /\ pc' = "done" /\ UNCHANGED <<requests, emitted, rx, tx>> /\ Flush
    BY <1>7 DEF FinishClose, svcVars
  <2>2. wire' = wire \/ wire' = Append(wire, Close("echo"))
    BY <2>1, FlushTypes
  <2>3. "echo" \in WsCloseCodes
    BY DEF WsCloseCodes
  <2> QED
    BY <1>2, <2>1, <2>2, <2>3, KeptElsewhere
<1> QED
  BY <1>1, <1>2, <1>3, <1>4, <1>5, <1>6, <1>7, KeptRead, KeptSend, KeptSendFails, KeptGreet
  DEF EchoNext, Handler, Over

-------------------------------------------------------------------------------
\* StayingClientHasEchoes: a client that stays has all its echoes and a Close,
\* whether its own Close or a greeting after it ended the loop.
THEOREM StayingClientIsServed == FairEchoSpec => []StayingClientHasEchoes
<1> DEFINE Inv == /\ ReadTypes /\ SendTypes /\ InputRead /\ Closing /\ ReadOver
                  /\ kind = "bidi" /\ OwnReplies /\ (Staying => Kept)
<1>1. EchoInit => Inv
  <2>1. SUFFICES ASSUME EchoInit PROVE Inv
    OBVIOUS
  <2>2. Init /\ kind = "bidi" /\ emitted = <<>> /\ pc = "upgrade" /\ tx = "active" /\ Counted
    BY <2>1, CountedFirst DEF EchoInit, Init
  <2>3. ReadTypes /\ SendTypes /\ InputRead /\ Closing /\ ReadOver
    BY <2>2, TypesFirst, InputReadFirst, ClosingFirst DEF Init, ReadOver
  <2>4. OwnReplies
    BY <2>2 DEF OwnReplies
  <2>5. Kept
    BY <2>2 DEF Counted, Kept
  <2> QED
    BY <2>2, <2>3, <2>4, <2>5
<1>2. Inv /\ [EchoNext]_vars => Inv'
  <2>1. SUFFICES ASSUME Inv, [EchoNext]_vars PROVE Inv'
    OBVIOUS
  <2>2. ReadTypes' /\ SendTypes' /\ InputRead' /\ Closing' /\ ReadOver'
    BY <2>1, EchoTypesStep, EchoInputStep, EchoSocketStep
  <2>3. OwnReplies' /\ (Staying' => Kept')
    BY <2>1, OwnRepliesStep, KeptStep
  <2>4. kind' = kind
    BY <2>1 DEF EchoNext, EchoRead, EchoGreet, SvcEmit, SvcAnswer, Client, Handler, Over,
                ClientSend, ClientClose, ClientVanish, ClientRecv, UpgradeToWs, MakeWsRequest,
                SendMsg, SendMsgFails, FinishSend, FinishClose, vars
  <2> QED
    BY <2>1, <2>2, <2>3, <2>4
<1>3. Inv => StayingClientHasEchoes
  <2>1. SUFFICES ASSUME Inv, pc = "done", client # "gone", Staying
                 PROVE  Closed /\ Echoed = Asked
    BY DEF StayingClientHasEchoes, Staying
  <2>2. Closed
    BY <2>1 DEF Closing, ClosedWith, SendTypes
  <2>3. /\ rx = "closed" /\ NoError /\ Len(requests) = Answered /\ Echoed + Unsent = Answered
        /\ Unsent = 0
    BY <2>1 DEF Kept, Unsent
  <2>4. rd = Len(sent) /\ Len(requests) = RequestsUpTo(rd)
    <3>1. rd > 0 /\ sent[rd] \in CloseFrames /\ Len(requests) = RequestsUpTo(rd)
      BY <2>1, <2>3 DEF InputRead
    <3> QED
      BY <2>1, <3>1 DEF InputRead, ClosedByClient, ReadTypes
  <2>5. Echoed \in Nat
    BY <2>1, EchoedGrows DEF SendTypes
  <2> QED
    BY <2>2, <2>3, <2>4, <2>5 DEF Asked
<1> QED
  BY <1>1, <1>2, <1>3, PTL DEF FairEchoSpec

-------------------------------------------------------------------------------
\* A read that is answered makes one reply, and that reply is the next to send.
LEMMA EchoCarryingStep ==
  ASSUME SendTypes, Closing, Carrying, [EchoNext]_vars
  PROVE  Carrying'
<1> USE DEF SendTypes
<1>1. CASE [Next]_vars
  BY <1>1, StepOfNext, CarryingStep
<1>2. CASE EchoRead
  <2>1. /\ UNCHANGED wire \/ (wire' = Append(wire, Close("echo")) /\ tx' = "peer_closed")
        /\ tx' = tx \/ (tx' = "peer_closed" /\ tx = "active")
        /\ pc = "streaming"
    BY <1>2, EchoReads, ReadWire
  <2>2. CASE emitted' = Append(emitted, Echo) /\ pc' = "sending" /\ UNCHANGED <<status, wire>>
    <3>1. /\ Len(emitted') = Len(emitted) + 1
          /\ \A i \in 1 .. Len(emitted) : emitted'[i] = emitted[i]
      BY <2>2
    <3> QED
      BY <2>1, <2>2, <3>1 DEF Carrying
  <2>3. CASE UNCHANGED <<emitted, pc, status, wire>>
    BY <2>1, <2>3 DEF Carrying
  <2>4. CASE pc' = "finishing" /\ UNCHANGED emitted
    <3>1. CASE UNCHANGED wire
      BY <2>1, <2>4, <3>1 DEF Carrying
    <3>2. CASE wire' = Append(wire, Close("echo")) /\ tx' = "peer_closed"
      BY <2>1, <2>4, <3>2, FrameParts DEF Carrying
    <3> QED
      BY <2>1, <3>1, <3>2
  <2> QED
    BY <1>2, <2>2, <2>3, <2>4, EchoReads
<1> QED
  BY <1>1, <1>2, EchoStep

\* Every step of the example's session is one of the reply stream, or a stutter.
LEMMA EchoStepOfReply ==
  ASSUME SendTypes, Closing, Carrying, [EchoNext]_vars
  PROVE  [Reply!Next]_Reply!vars
<1>1. CASE [Next]_vars
  BY <1>1, StepOfNext, StepOfReply
<1>2. CASE EchoRead
  <2>1. CASE emitted' = Append(emitted, Echo) /\ UNCHANGED wire
    BY <1>2, <2>1, EchoReads, ReplyOffered, EchoSessionAssumption
  <2>2. CASE UNCHANGED emitted
    BY <1>2, <2>2, EchoReads, ReadSends, EchoCarried
  <2> QED
    BY <1>2, <2>1, <2>2, EchoReads
<1> QED
  BY <1>1, <1>2, EchoStep

\* ImplementsReplyStream: the example's session is a reply stream as well; its
\* greetings and echoes come in the order in which the select! makes them.
THEOREM EchoImplementsReplies == FairEchoSpec => ImplementsReplyStream
<1> DEFINE Inv == ReadTypes /\ SendTypes /\ Closing /\ ReadOver /\ Carrying
<1>1. EchoInit => Inv /\ Reply!Init
  <2>1. EchoInit => ReadOver
    BY DEF EchoInit, Init, ReadOver
  <2> QED
    BY <2>1, TypesFirst, ClosingFirst, CarryingFirst, ReplyFirst DEF EchoInit
<1>2. Inv /\ [EchoNext]_vars => Inv' /\ [Reply!Next]_Reply!vars
  BY EchoTypesStep, EchoSocketStep, EchoCarryingStep, EchoStepOfReply
<1> QED
  BY <1>1, <1>2, PTL DEF FairEchoSpec, ImplementsReplyStream, Reply!Spec

===============================================================================
