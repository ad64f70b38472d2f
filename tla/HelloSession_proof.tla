-------------------------- MODULE HelloSession_proof --------------------------
(***************************************************************************)
(* Proofs about HelloSession, and so about HttpSession: for all requests,  *)
(* replies, status codes and capacities.                                   *)
(***************************************************************************)
EXTENDS HelloSession, SequenceTheorems, TLAPS

\* A step of an exchange is one of these actions, or leaves the exchange alone.
Step == \/ \E l \in Lines : ClientLine(l)
        \/ ClientFinish \/ ClientVanish \/ ClientRecv
        \/ SvcRead \/ SvcAnswer \/ SvcEnd
        \/ \E c \in SvcCodes : SvcFail(c) \/ SvcStreamFail(c)
        \/ \E r \in Replies : SvcEmit(r)
        \/ service = "hello" /\ HelloPoll
        \/ Extract \/ MakeOkResponse \/ SendLine \/ EndBody \/ DropHandler
        \/ UNCHANGED vars

\* A step of HelloNext, with either service, is one of the cases of Step.
LEMMA StepOfNext ==
  ASSUME [HelloNext]_helloVars
  PROVE  Step /\ service' = service
BY DEF HelloNext, HelloServer, Client, Service, Handler, Over, helloVars, Step

\* The status of an error is an error, except for the code Ok.
LEMMA HttpStatusOfError ==
  ASSUME NEW c \in GrpcCodes
  PROVE  /\ HttpStatus(c) \in {200, 400, 401, 403, 404, 408, 409, 412, 429, 500, 501, 503, 504}
         /\ c # "Ok" => HttpStatus(c) >= 400
<1>1. HttpStatus(c) \in {200, 400, 401, 403, 404, 408, 409, 412, 429, 500, 501, 503, 504}
  BY SMTT(30) DEF GrpcCodes, HttpStatus
<1>2. c # "Ok" => HttpStatus(c) >= 400
  BY SMTT(30) DEF GrpcCodes, HttpStatus
<1> QED
  BY <1>1, <1>2

-------------------------------------------------------------------------------
\* The types of what the client sends and the service reads.
RequestTypes == /\ kind \in Kinds
                /\ hasBody \in BOOLEAN
                /\ client \in {"sending", "sent", "gone"}
                /\ sent \in Seq(Lines)
                /\ rd \in 0 .. Len(sent)
                /\ lost \in BOOLEAN
                /\ requests \in Seq(Requests \cup {"error"})
                /\ reqEnd \in BOOLEAN

\* A read of the body keeps the types of the request side.
LEMMA ReadTypes ==
  ASSUME RequestTypes, UNCHANGED <<kind, hasBody, client, sent>>,
         ReadLine \/ ReadLost \/ ReadEnd
  PROVE  RequestTypes'
<1> USE DEF RequestTypes
<1>1. CASE ReadLine
  <2>1. LineResult(sent[rd + 1]) \in Requests \cup {"error"}
    BY DEF LineResult
  <2>2. requests' \in Seq(Requests \cup {"error"})
    BY <1>1, <2>1 DEF ReadLine
  <2> QED
    BY <1>1, <2>2 DEF ReadLine
<1>2. CASE ReadLost
  BY <1>2 DEF ReadLost
<1>3. CASE ReadEnd
  BY <1>3 DEF ReadEnd
<1> QED
  BY <1>1, <1>2, <1>3

\* The request side stays in its types.
LEMMA RequestTypesStep ==
  ASSUME RequestTypes, Step
  PROVE  RequestTypes'
<1>1. CASE \E l \in Lines : ClientLine(l)
  BY <1>1 DEF RequestTypes, ClientLine, readVars
<1>2. CASE ClientFinish \/ ClientVanish \/ ClientRecv
  BY <1>2 DEF RequestTypes, ClientFinish, ClientVanish, ClientRecv, readVars
<1>3. CASE SvcRead
  BY <1>3, ReadTypes DEF SvcRead
<1>4. CASE HelloPoll
  BY <1>4, ReadTypes DEF HelloPoll
<1>5. CASE Extract
  <2> USE DEF RequestTypes
  <2>0. /\ UNCHANGED <<kind, hasBody, client, sent, lost, reqEnd>>
        /\ rd' \in {rd, Len(sent)} /\ requests' \in {requests, sent}
        /\ requests' # requests => Len(sent) = 1 /\ sent[1] \in Requests
    BY <1>5 DEF Extract
  <2>1. ASSUME Len(sent) = 1, sent[1] \in Requests
        PROVE  sent \in Seq(Requests \cup {"error"})
    <3>1. sent \in [1 .. 1 -> Requests \cup {"error"}]
      BY <2>1, LenProperties
    <3> HIDE DEF RequestTypes
    <3> DEFINE R == Requests \cup {"error"}
    <3>2. \E n \in Nat : sent \in [1 .. n -> R]
      BY <3>1
    <3> HIDE DEF R
    <3>3. sent \in UNION {[1 .. n -> R] : n \in Nat}
      BY <3>2, Zenon
    <3> QED
      BY <3>3, SeqDef, Zenon DEF R
  <2>2. requests' \in Seq(Requests \cup {"error"})
    BY <2>0, <2>1
  <2>3. rd' \in 0 .. Len(sent)
    BY <2>0
  <2> QED
    BY <2>0, <2>2, <2>3
<1>6. CASE UNCHANGED <<kind, hasBody, client, sent, rd, lost, requests, reqEnd>>
  BY <1>6 DEF RequestTypes
<1> QED
  BY <1>1, <1>2, <1>3, <1>4, <1>5, <1>6
  DEF Step, SvcAnswer, SvcEnd, SvcFail, SvcStreamFail, SvcEmit, MakeOkResponse, SendLine,
      EndBody, DropHandler, vars, readVars

-------------------------------------------------------------------------------
\* What is known of the response where the handler stands: how far the wire is
\* behind the service.  A reply is put on the wire only where there is one.
ReplyStages ==
    /\ tail = "open" <=> pc # "done"
    /\ pc \in {"extract", "calling"} => emitted = <<>> /\ wire = <<>> /\ head = 0
    /\ pc = "answering" => /\ ~ServerStreaming /\ wire = <<>> /\ head = 0
                           /\ \E r \in Replies : emitted = Append(<<>>, r)
    /\ pc = "streaming" => ServerStreaming /\ head = 200 /\ wire = emitted
    /\ pc = "sending" => /\ ServerStreaming /\ head = 200
                         /\ \E r \in Replies : emitted = Append(wire, r)
    /\ pc = "ending" => wire = emitted \/ (~ServerStreaming /\ wire = <<>>)

ResponseTypes ==
    /\ pc \in {"extract", "calling", "answering", "streaming",
              "sending", "ending", "done", "dropped"}
    /\ emitted \in Seq(Replies)
    /\ status \in SvcCodes \cup {"None"}
    /\ head \in {0, 200, 400, 401, 403, 404, 408, 409, 412, 413, 415, 422, 429,
                 500, 501, 503, 504}
    /\ wire \in Seq(Replies)
    /\ rcvd \in 0 .. Len(wire)
    /\ tail \in {"open", "complete", "cut"}

Bidi == service = "hello" => kind = "bidi"

Response == ResponseTypes /\ ReplyStages /\ Bidi

\* The stages of a response follow one another, in make_response or the body.
LEMMA ResponseStep ==
  ASSUME Response, Step, service' = service
  PROVE  Response'
<1> USE HttpSessionAssumption
    DEF Response, ResponseTypes, ReplyStages, Bidi, ServerStreaming, outVars
<1>1. CASE ClientRecv
  BY <1>1 DEF ClientRecv
<1>2. CASE UNCHANGED <<kind, pc, emitted, status, outVars, rcvd>>
  BY <1>2
<1>3. CASE SvcAnswer
  <2>1. \A r \in Replies : <<r>> = Append(<<>>, r) /\ <<r>> \in Seq(Replies)
    OBVIOUS
  <2>2. CASE ServerStreaming
    BY <1>3, <2>2 DEF SvcAnswer
  <2>3. CASE ~ServerStreaming
    <3>1. PICK r \in Replies : emitted' = <<r>>
      BY <1>3, <2>3 DEF SvcAnswer
    <3>2. emitted' = Append(<<>>, r) /\ emitted' \in Seq(Replies)
      BY <2>1, <3>1
    <3> QED
      BY <1>3, <2>3, <3>2 DEF SvcAnswer
  <2> QED
    BY <2>2, <2>3
<1>4. CASE SvcEnd
  BY <1>4 DEF SvcEnd
<1>5. CASE \E c \in SvcCodes : SvcFail(c)
  BY <1>5, HttpStatusOfError DEF SvcFail
<1>6. CASE \E c \in SvcCodes : SvcStreamFail(c)
  BY <1>6 DEF SvcStreamFail
<1>7. CASE \E r \in Replies : SvcEmit(r)
  BY <1>7 DEF SvcEmit
<1>8. CASE service = "hello" /\ HelloPoll
  BY <1>8, HelloSessionAssumption DEF HelloPoll
<1>9. CASE Extract
  <2>1. /\ pc = "extract" /\ pc' \in {"calling", "ending"}
        /\ UNCHANGED <<kind, emitted, status, wire, tail, rcvd>>
    BY <1>9 DEF Extract
  <2>2. pc' = "calling" => UNCHANGED head
    BY <1>9 DEF Extract
  <2>3. head' \in {head, 400, 413, 415, 422, 500}
    BY <1>9 DEF Extract
  <2> QED
    BY <2>1, <2>2, <2>3
<1>10. CASE MakeOkResponse
  <2> USE <1>10 DEF MakeOkResponse
  <2>1. wire' \in {wire, emitted} /\ (wire' = emitted \/ wire' = <<>>)
    OBVIOUS
  <2>2. wire' \in Seq(Replies) /\ rcvd' \in 0 .. Len(wire')
    <3>1. rcvd' = 0
      <4>1. pc = "answering" /\ UNCHANGED rcvd
        OBVIOUS
      <4>2. Len(wire) = 0 /\ rcvd \in 0 .. Len(wire)
        BY <4>1, EmptySeq
      <4> QED
        BY <4>1, <4>2
    <3>2. wire' \in Seq(Replies)
      <4>1. emitted \in Seq(Replies) /\ wire \in Seq(Replies)
        OBVIOUS
      <4>2. wire' = wire \/ wire' = emitted
        BY <2>1
      <4> HIDE DEF Response, ResponseTypes, ReplyStages, MakeOkResponse
      <4> QED
        BY <4>1, <4>2
    <3>3. Len(wire') \in Nat
      BY <3>2, LenProperties
    <3> QED
      BY <3>1, <3>2, <3>3
  <2>3. head' \in {200, 500} /\ pc' = "ending" /\ tail' = "open" /\ ~ServerStreaming'
    OBVIOUS
  <2> QED
    BY <2>1, <2>2, <2>3
<1>11. CASE SendLine
  BY <1>11 DEF SendLine
<1>12. CASE EndBody
  BY <1>12 DEF EndBody
<1>13. CASE DropHandler
  BY <1>13 DEF DropHandler
<1> QED
  BY <1>1, <1>2, <1>3, <1>4, <1>5, <1>6, <1>7, <1>8, <1>9, <1>10, <1>11, <1>12, <1>13
  DEF Step, ClientLine, ClientFinish, ClientVanish, SvcRead, vars

\* The variables are well typed: what the service read are requests and errors,
\* and what is on the wire are replies that it has produced.
THEOREM HttpStages == HelloSpec => [](RequestTypes /\ Response)
<1>1. HelloInit => RequestTypes /\ Response
  <2> SUFFICES ASSUME HelloInit PROVE RequestTypes /\ Response
    OBVIOUS
  <2>1. RequestTypes
    <3>1. sent = <<>> /\ requests = <<>> /\ rd = 0
      BY DEF HelloInit, Init
    <3>2. sent \in Seq(Lines) /\ requests \in Seq(Requests \cup {"error"}) /\ rd \in 0 .. Len(sent)
      BY <3>1
    <3> QED
      BY <3>2 DEF HelloInit, Init, RequestTypes, Kinds
  <2>2. Response
    BY DEF HelloInit, Init, Response, ResponseTypes, ReplyStages, Bidi
  <2> QED
    BY <2>1, <2>2
<1>2. RequestTypes /\ Response /\ [HelloNext]_helloVars => RequestTypes' /\ Response'
  BY StepOfNext, RequestTypesStep, ResponseStep
<1> QED
  BY <1>1, <1>2, PTL DEF HelloSpec

\* HttpTypeOK is invariant.
THEOREM HttpTypeCorrect == HelloSpec => []HttpTypeOK
<1>1. RequestTypes /\ Response => HttpTypeOK
  BY DEF RequestTypes, Response, ResponseTypes, HttpTypeOK
<1> QED
  BY <1>1, HttpStages, PTL

-------------------------------------------------------------------------------
\* A service that has failed is behind the head of an error, or the body of
\* the response was cut.
FailureShown ==
    /\ pc \in {"extract", "calling", "answering", "streaming", "sending"} => status = "None"
    /\ status \notin {"None", "Ok"} => head >= 400 \/ (tail = "cut" /\ pc = "done")

\* A failure that shows is not taken back.
LEMMA FailureShownStep ==
  ASSUME RequestTypes, Response, FailureShown, Step
  PROVE  FailureShown'
<1> USE HttpSessionAssumption DEF FailureShown, Response, ResponseTypes, ReplyStages, outVars
<1>1. CASE \E c \in SvcCodes : SvcFail(c)
  <2>1. PICK c \in SvcCodes : SvcFail(c)
    BY <1>1
  <2>2. c # "Ok" => HttpStatus(c) >= 400
    BY HttpStatusOfError
  <2>3. pc' = "ending" /\ status' = c /\ head' = HttpStatus(c)
    BY <2>1 DEF SvcFail
  <2>4. c # "Ok" => head' >= 400
    BY <2>2, <2>3, Zenon
  <2> QED
    BY <2>3, <2>4
<1>2. CASE \E c \in SvcCodes : SvcStreamFail(c)
  BY <1>2 DEF SvcStreamFail
<1>3. CASE HelloPoll
  BY <1>3 DEF HelloPoll
<1>4. CASE SvcAnswer \/ SvcEnd \/ \E r \in Replies : SvcEmit(r)
  BY <1>4 DEF SvcAnswer, SvcEnd, SvcEmit
<1>5. CASE Extract \/ MakeOkResponse \/ SendLine
  BY <1>5 DEF Extract, MakeOkResponse, SendLine
<1>6. CASE EndBody \/ DropHandler
  BY <1>6 DEF EndBody, DropHandler
<1>7. CASE UNCHANGED <<pc, status, outVars>>
  BY <1>7
<1> QED
  BY <1>1, <1>2, <1>3, <1>4, <1>5, <1>6, <1>7
  DEF Step, ClientLine, ClientFinish, ClientVanish, ClientRecv, SvcRead, vars

\* FailureIsVisible: whoever gets a complete response with a status below 400
\* has got it from a service that did not fail.
THEOREM FailuresAreVisible == HelloSpec => []FailureIsVisible
<1>1. HelloInit => FailureShown
  BY DEF HelloInit, Init, FailureShown
<1>2. RequestTypes /\ Response /\ FailureShown /\ [HelloNext]_helloVars => FailureShown'
  BY StepOfNext, FailureShownStep
<1>3. Response /\ FailureShown => FailureIsVisible
  BY DEF FailureShown, FailureIsVisible
<1> QED
  BY <1>1, <1>2, <1>3, HttpStages, PTL DEF HelloSpec

-------------------------------------------------------------------------------
\* How SuccessCarriesReply is violated: under a head 200 without the reply the
\* service has failed with the code Ok, or its reply did not serialise.
OneOfTwoCauses ==
    (head = 200 /\ ~ServerStreaming /\ wire = <<>>) =>
        status = "Ok" \/ (emitted # <<>> /\ emitted[1] \in Unencodable)

\* An empty body under 200 is never left by a reply that could be sent.
LEMMA OneOfTwoCausesStep ==
  ASSUME Response, OneOfTwoCauses, Step
  PROVE  OneOfTwoCauses'
<1> USE HttpSessionAssumption
    DEF OneOfTwoCauses, Response, ResponseTypes, ReplyStages, Bidi, ServerStreaming, outVars
<1>1. CASE \E c \in SvcCodes : SvcFail(c)
  <2>1. PICK c \in SvcCodes : SvcFail(c)
    BY <1>1
  <2>2. c # "Ok" => HttpStatus(c) >= 400
    BY HttpStatusOfError
  <2> QED
    BY <2>1, <2>2 DEF SvcFail
<1>2. CASE MakeOkResponse
  <2>1. emitted # <<>>
    BY <1>2 DEF MakeOkResponse
  <2> QED
    BY <1>2, <2>1 DEF MakeOkResponse
<1>3. CASE \/ \E c \in SvcCodes : SvcStreamFail(c)
           \/ \E r \in Replies : SvcEmit(r)
           \/ SvcAnswer \/ SvcEnd
  BY <1>3 DEF SvcStreamFail, SvcEmit, SvcAnswer, SvcEnd
<1>4. CASE service = "hello" /\ HelloPoll
  BY <1>4 DEF HelloPoll
<1>5. CASE Extract \/ SendLine \/ EndBody \/ DropHandler
  BY <1>5 DEF Extract, SendLine, EndBody, DropHandler
<1>6. CASE UNCHANGED <<kind, emitted, status, outVars>>
  BY <1>6
<1> QED
  BY <1>1, <1>2, <1>3, <1>4, <1>5, <1>6
  DEF Step, ClientLine, ClientFinish, ClientVanish, ClientRecv, SvcRead, vars

\* The finding SuccessCarriesReply has two causes and no third: a single reply
\* is missing from a response 200 only when the service failed with the code
\* Ok, or the reply did not serialise.
THEOREM ReplyIsLostTwoWays == HelloSpec => []OneOfTwoCauses
<1>1. HelloInit => OneOfTwoCauses
  BY DEF HelloInit, Init, OneOfTwoCauses
<1>2. Response /\ OneOfTwoCauses /\ [HelloNext]_helloVars => OneOfTwoCauses'
  BY StepOfNext, OneOfTwoCausesStep
<1> QED
  BY <1>1, <1>2, HttpStages, PTL DEF HelloSpec

-------------------------------------------------------------------------------
\* What the service has been given: until an error, the lines read so far.
NoError == \A i \in 1 .. Len(requests) : requests[i] # "error"

ReadSoFar ==
    /\ reqEnd => ClientStreaming /\ client # "sending"
    /\ lost => ClientStreaming /\ client = "gone" /\ ~NoError
    /\ ClientStreaming /\ NoError => /\ Len(requests) = rd
                                   /\ \A i \in 1 .. rd : requests[i] = sent[i]
    /\ reqEnd /\ NoError => rd = Len(sent)

\* One read: a line that is no request, or a body that broke off, is an error
\* among the results; the end is told when all lines were read.
LEMMA ReadKeepsOrder ==
  ASSUME RequestTypes, ReadSoFar, UNCHANGED <<kind, client, sent>>, ClientStreaming,
         ReadLine \/ ReadLost \/ ReadEnd
  PROVE  ReadSoFar'
<1> USE DEF RequestTypes, ReadSoFar, ClientStreaming
<1>1. CASE ReadLine
  <2>1. LineResult(sent[rd + 1]) \in {sent[rd + 1], "error"}
    BY DEF LineResult
  <2>2. LineResult(sent[rd + 1]) \in Requests \cup {"error"}
    BY DEF LineResult
  <2>3. /\ Len(requests') = Len(requests) + 1
        /\ requests'[Len(requests) + 1] = LineResult(sent[rd + 1])
        /\ \A i \in 1 .. Len(requests) : requests'[i] = requests[i]
    BY <1>1, <2>2 DEF ReadLine
  <2>4. NoError' => NoError /\ LineResult(sent[rd + 1]) # "error"
    BY <2>3 DEF NoError
  <2>5. (reqEnd /\ NoError)' => FALSE
    BY <1>1, <2>4 DEF ReadLine
  <2>6. lost => ~NoError'
    BY <2>4
  <2>7. NoError' => /\ Len(requests') = rd'
                    /\ \A i \in 1 .. rd' : requests'[i] = sent'[i]
    BY <1>1, <2>1, <2>3, <2>4 DEF ReadLine
  <2> QED
    BY <1>1, <2>5, <2>6, <2>7 DEF ReadLine
<1>2. CASE ReadLost
  <2>1. ~NoError'
    <3>1. Len(requests') = Len(requests) + 1 /\ requests'[Len(requests) + 1] = "error"
      BY <1>2 DEF ReadLost
    <3> QED
      BY <3>1 DEF NoError
  <2> QED
    BY <1>2, <2>1 DEF ReadLost
<1>3. CASE ReadEnd
  <2>1. NoError' <=> NoError
    BY <1>3 DEF ReadEnd, NoError
  <2> QED
    BY <1>3, <2>1 DEF ReadEnd
<1> QED
  BY <1>1, <1>2, <1>3

\* A read of JsonLines gives the next line, an error, or the end.
LEMMA ReadSoFarStep ==
  ASSUME RequestTypes, Bidi, ReadSoFar, Step
  PROVE  ReadSoFar'
<1>1. CASE \E l \in Lines : ClientLine(l)
  <2>1. PICK l \in Lines : ClientLine(l)
    BY <1>1
  <2>2. NoError' <=> NoError
    BY <2>1 DEF ClientLine, readVars, NoError
  <2> QED
    BY <2>1, <2>2 DEF ClientLine, readVars, RequestTypes, ReadSoFar, ClientStreaming
<1>2. CASE ClientFinish \/ ClientVanish
  <2>1. NoError' <=> NoError
    BY <1>2 DEF ClientFinish, ClientVanish, readVars, NoError
  <2> QED
    BY <1>2, <2>1 DEF ClientFinish, ClientVanish, readVars, ReadSoFar, ClientStreaming
<1>3. CASE SvcRead
  BY <1>3, ReadKeepsOrder DEF SvcRead
<1>4. CASE service = "hello" /\ HelloPoll
  <2>1. ClientStreaming
    BY <1>4 DEF Bidi, ClientStreaming
  <2> QED
    BY <1>4, <2>1, ReadKeepsOrder DEF HelloPoll
<1>5. CASE Extract
  <2>1. CASE ClientStreaming \/ ~hasBody
    <3>1. UNCHANGED <<kind, client, sent, rd, lost, requests, reqEnd>>
      BY <1>5, <2>1 DEF Extract, ClientStreaming
    <3> QED
      BY <3>1 DEF ReadSoFar, NoError, ClientStreaming
  <2>2. CASE ~ClientStreaming /\ hasBody
    <3>1. ~reqEnd' /\ ~lost' /\ ~ClientStreaming'
      BY <1>5, <2>2 DEF Extract, ReadSoFar, ClientStreaming
    <3> QED
      BY <3>1 DEF ReadSoFar
  <2> QED
    BY <2>1, <2>2
<1>6. CASE UNCHANGED <<kind, client, sent, readVars>>
  BY <1>6 DEF ReadSoFar, NoError, ClientStreaming, readVars
<1> QED
  BY <1>1, <1>2, <1>3, <1>4, <1>5, <1>6
  DEF Step, ClientRecv, SvcAnswer, SvcEnd, SvcFail, SvcStreamFail, SvcEmit,
      MakeOkResponse, SendLine, EndBody, DropHandler, vars

\* CleanEndMeansBodyComplete: a service that is told of a clean end has every
\* line of the client, for any interleaving of sending, reading and breaking off.
THEOREM CleanEndsAreComplete == HelloSpec => []CleanEndMeansBodyComplete
<1>1. HelloInit => ReadSoFar
  BY DEF HelloInit, Init, ReadSoFar, NoError
<1>2. RequestTypes /\ Response /\ ReadSoFar /\ [HelloNext]_helloVars => ReadSoFar'
  BY StepOfNext, ReadSoFarStep DEF Response
<1>3. RequestTypes /\ ReadSoFar => CleanEndMeansBodyComplete
  <2> SUFFICES ASSUME RequestTypes, ReadSoFar, reqEnd, NoError
               PROVE  ~lost /\ requests = sent
    BY DEF CleanEndMeansBodyComplete, NoError
  <2>1. /\ ~lost /\ Len(requests) = Len(sent)
        /\ \A i \in 1 .. Len(requests) : requests[i] = sent[i]
    BY DEF RequestTypes, ReadSoFar
  <2> DEFINE S == Lines \cup Requests \cup {"error"}
  <2>2. requests \in Seq(S) /\ sent \in Seq(S)
    BY SeqMonotonic DEF RequestTypes
  <2>3. requests = sent
    <3> HIDE DEF S
    <3> QED
      BY <2>1, <2>2, SeqEqual
  <2> QED
    BY <2>1, <2>3
<1> QED
  BY <1>1, <1>2, <1>3, HttpStages, PTL DEF HelloSpec

-------------------------------------------------------------------------------
\* While the handler is at work the response has no verdict.
LEMMA OpenUntilDone ==
  ASSUME ReplyStages
  PROVE  pc # "done" => Verdict = "open"
BY DEF ReplyStages, Verdict

\* Every step of an exchange is a step of the reply stream, or invisible there.
LEMMA StepOfReply ==
  ASSUME Response, Response', Step
  PROVE  [Reply!Next]_Reply!vars
<1> USE DEF Reply!Next, Reply!vars
<1>0. /\ pc # "done" => Verdict = "open"
      /\ pc' # "done" => Verdict' = "open"
  BY OpenUntilDone DEF Response, ReplyStages, Verdict
<1>1. CASE UNCHANGED <<kind, emitted, outVars>>
  BY <1>1 DEF Verdict, outVars, ServerStreaming
<1>2. CASE SvcAnswer
  <2>1. CASE ServerStreaming
    BY <1>0, <1>2, <2>1 DEF SvcAnswer, Verdict
  <2>2. CASE ~ServerStreaming
    <3>1. emitted = <<>> /\ UNCHANGED wire /\ pc = "calling" /\ pc' = "answering"
      BY <1>2, <2>2 DEF SvcAnswer, Response, ReplyStages
    <3>2. PICK r \in Replies : emitted' = Append(emitted, r)
      BY <3>1 DEF Response, ReplyStages
    <3>3. Reply!Offer(r)
      BY <1>0, <3>1, <3>2 DEF Reply!Offer
    <3> QED
      BY <3>3
  <2> QED
    BY <2>1, <2>2
<1>3. CASE SvcEnd \/ \E c \in SvcCodes : SvcFail(c)
  BY <1>0, <1>3 DEF SvcEnd, SvcFail, outVars
<1>4. CASE \E c \in SvcCodes : SvcStreamFail(c)
  <2>1. Verdict = "open" /\ Verdict' = "other" /\ UNCHANGED <<emitted, wire>>
    BY <1>0, <1>4 DEF SvcStreamFail, Verdict
  <2> QED
    BY <2>1 DEF Reply!EndOtherwise
<1>5. CASE \E r \in Replies : SvcEmit(r)
  <2>1. PICK r \in Replies : SvcEmit(r)
    BY <1>5
  <2>2. Reply!Offer(r)
    BY <1>0, <2>1 DEF SvcEmit, outVars, Reply!Offer
  <2> QED
    BY <2>2
<1>6. CASE HelloPoll
  <2>1. CASE emitted' = Append(emitted, Hello) /\ pc' = "sending"
    <3>1. Reply!Offer(Hello)
      BY <1>0, <1>6, <2>1 DEF HelloPoll, Reply!Offer
    <3> QED
      BY <3>1, HelloSessionAssumption
  <2>2. CASE pc' = "done" /\ tail' = "cut" /\ UNCHANGED emitted
    <3>1. Verdict = "open" /\ Verdict' = "other" /\ UNCHANGED wire
      BY <1>0, <1>6, <2>2 DEF HelloPoll, Verdict
    <3> QED
      BY <2>2, <3>1 DEF Reply!EndOtherwise
  <2>3. CASE pc' = "ending" /\ UNCHANGED emitted
    BY <1>0, <1>6, <2>3 DEF HelloPoll
  <2> QED
    BY <1>6, <2>1, <2>2, <2>3 DEF HelloPoll
<1>7. CASE Extract
  <2>1. pc = "extract" /\ pc' # "done" /\ UNCHANGED <<emitted, wire>>
    BY <1>7 DEF Extract
  <2> QED
    BY <1>0, <2>1
<1>8. CASE MakeOkResponse
  <2>1. pc = "answering" /\ pc' = "ending" /\ UNCHANGED emitted /\ wire = <<>>
    BY <1>8 DEF MakeOkResponse, Response, ReplyStages
  <2>2. CASE wire' = emitted
    <3>1. PICK r \in Replies : emitted = Append(<<>>, r)
      BY <2>1 DEF Response, ReplyStages
    <3>2. Len(emitted) = 1 /\ emitted[1] = r /\ Len(wire) = 0
      BY <2>1, <3>1
    <3>3. wire' = Append(wire, emitted[Len(wire) + 1])
      BY <2>1, <2>2, <3>1, <3>2
    <3> QED
      BY <1>0, <2>1, <3>2, <3>3 DEF Reply!Carry
  <2>3. CASE UNCHANGED wire
    BY <1>0, <2>1, <2>3
  <2> QED
    BY <1>8, <2>2, <2>3 DEF MakeOkResponse
<1>9. CASE SendLine
  <2>1. PICK r \in Replies : emitted = Append(wire, r)
    BY <1>9 DEF SendLine, Response, ReplyStages
  <2>2. Len(emitted) = Len(wire) + 1 /\ Len(wire) \in Nat
    BY <2>1 DEF Response, ResponseTypes
  <2>3. pc = "sending" /\ UNCHANGED emitted
    BY <1>9 DEF SendLine
  <2>4. CASE wire' = Append(wire, emitted[Len(emitted)]) /\ pc' = "streaming"
    BY <1>0, <2>2, <2>3, <2>4 DEF Reply!Carry
  <2>5. CASE tail' = "cut" /\ pc' = "done" /\ UNCHANGED wire
    <3>1. Verdict' = "other"
      BY <2>5 DEF Verdict
    <3> QED
      BY <1>0, <2>3, <2>5, <3>1 DEF Reply!EndOtherwise
  <2> QED
    BY <1>9, <2>4, <2>5 DEF SendLine
<1>10. CASE EndBody
  <2>1. pc = "ending" /\ Verdict = "open" /\ UNCHANGED <<kind, emitted, wire>>
    BY <1>0, <1>10 DEF EndBody
  <2>2. Verdict' \in {"normal", "other"}
    BY <1>10 DEF EndBody, Verdict
  <2>3. Verdict' = "normal" => wire = emitted
    BY <1>10, <2>1 DEF EndBody, Verdict, Response, ReplyStages, ServerStreaming
  <2> QED
    BY <2>1, <2>2, <2>3 DEF Reply!EndNormally, Reply!EndOtherwise
<1>11. CASE DropHandler
  BY <1>11 DEF DropHandler, outVars, Verdict, ServerStreaming
<1> QED
  BY <1>1, <1>2, <1>3, <1>4, <1>5, <1>6, <1>7, <1>8, <1>9, <1>10, <1>11
  DEF Step, ClientLine, ClientFinish, ClientVanish, ClientRecv, SvcRead, vars

\* An exchange implements the reply stream: its replies are carried once and in
\* order, and a body is completed under a 200 only after the last of them.
THEOREM ImplementsReplies == HelloSpec => ImplementsReplyStream
<1>1. HelloInit => Reply!Init
  BY DEF HelloInit, Init, Reply!Init, Verdict
<1>2. Response /\ Response' /\ [HelloNext]_helloVars => [Reply!Next]_Reply!vars
  BY StepOfNext, StepOfReply
<1> QED
  BY <1>1, <1>2, HttpStages, PTL DEF HelloSpec, ImplementsReplyStream, Reply!Spec

\* A client sees the replies of the service from the first one on, and all of
\* them if the exchange ends like a success.
THEOREM ExchangeKeepsPromise == HelloSpec => []Reply!Promise
BY ImplementsReplies, Reply!PromiseKept, PTL DEF ImplementsReplyStream

-------------------------------------------------------------------------------
\* The safety half of HalfDuplexCompletes.  A half duplex exchange is finished,
\* or the guard of a step of its client or of the server holds: those of
\* HalfDuplexStep, the handler's, and HelloPoll's.
Finished == tail = "complete" /\ rcvd = MaxLines
CanStep == \/ client = "sending" /\ Len(sent) < MaxLines /\ Len(sent) - rd < InCap
           \/ client = "sending" /\ Len(sent) = MaxLines
           \/ client = "sent" /\ rcvd < Len(wire)
           \/ pc \in {"extract", "calling", "sending", "ending"}
           \/ pc = "streaming" /\ HasRoom /\ (rd < Len(sent) \/ client = "sent")

\* How far the exchange has come: lines sent, read, answered and received, the
\* end of the request, and the stage of the handler.
Stage == CASE pc = "extract" -> 0 [] pc = "calling" -> 1 [] pc = "ending" -> 3
           [] pc = "done" -> 4 [] OTHER -> 2
Ended == IF client = "sent" THEN 1 ELSE 0
Progress == Len(sent) + rd + Len(wire) + rcvd + Ended + Stage

NeverStuck == service = "hello" /\ MaxLines <= InCap + OutCap => Finished \/ CanStep
ProgressEnds == service = "hello" => Progress <= 4 * MaxLines + 5
Advances == service = "hello" => Progress' > Progress

\* Where the lines of a half duplex exchange are: the lazy service has read as
\* many as it has answered, and stops only at the end.
InTransit ==
    service = "hello" =>
        /\ kind = "bidi" /\ client # "gone" /\ ~lost
        /\ Len(sent) <= MaxLines
        /\ pc \in {"extract", "calling", "streaming", "sending", "ending", "done"}
        /\ Len(wire) = IF pc = "sending" THEN rd - 1 ELSE rd
        /\ pc = "sending" => emitted[Len(emitted)] = Hello
        /\ pc \in {"ending", "done"} => client = "sent" /\ rd = Len(sent)
        /\ pc = "done" => tail = "complete"

\* The steps of an exchange with the lazy service.
LEMMA HelloStep ==
  ASSUME [HelloNext]_helloVars, service = "hello"
  PROVE  /\ service' = "hello"
         /\ \/ \E l \in Lines : ClientLine(l)
            \/ ClientFinish \/ ClientVanish \/ ClientRecv
            \/ SvcAnswer \/ HelloPoll
            \/ Extract \/ MakeOkResponse \/ SendLine \/ EndBody \/ DropHandler
            \/ UNCHANGED helloVars
BY DEF HelloNext, HelloServer, Client, Handler, Over, helloVars

\* The terms of Progress are numbers.
LEMMA ProgressParts ==
  ASSUME RequestTypes, Response
  PROVE  /\ Len(sent) \in Nat /\ rd \in Nat /\ Len(wire) \in Nat /\ rcvd \in Nat
         /\ rd <= Len(sent) /\ rcvd <= Len(wire)
         /\ Ended \in 0 .. 1 /\ Stage \in 0 .. 4
<1>1. Stage \in 0 .. 4
  BY DEF Stage, Response, ResponseTypes
<1> QED
  BY <1>1 DEF RequestTypes, Response, ResponseTypes, Ended

\* Every step of a half duplex exchange keeps the lines together, and brings
\* the exchange nearer to its end.
LEMMA HalfDuplexAdvances ==
  ASSUME RequestTypes, Response, WritesFirst, WritesFirst', InTransit,
         [HelloNext]_helloVars, service = "hello"
  PROVE  InTransit' /\ (UNCHANGED helloVars \/ Progress' > Progress)
<1> USE HttpSessionAssumption DEF InTransit
<1>0. /\ Len(sent) \in Nat /\ rd \in Nat /\ Len(wire) \in Nat /\ rcvd \in Nat
      /\ rd <= Len(sent) /\ rcvd <= Len(wire) /\ Ended \in 0 .. 1 /\ Stage \in 0 .. 4
  BY ProgressParts
<1>1. service' = "hello"
  BY HelloStep
<1>2. CASE \E l \in Lines : ClientLine(l)
  <2>1. PICK l \in Lines : ClientLine(l)
    BY <1>2
  <2>2. /\ Len(sent') = Len(sent) + 1 /\ Len(sent) < MaxLines /\ client = "sending"
        /\ UNCHANGED <<kind, client, rd, lost, pc, emitted, wire, tail, rcvd>>
    BY <2>1 DEF ClientLine, readVars, outVars, RequestTypes
  <2>3. Ended' = Ended /\ Stage' = Stage
    BY <2>2 DEF Ended, Stage
  <2> QED
    BY <1>0, <1>1, <2>2, <2>3 DEF Progress
<1>3. CASE ClientFinish
  <2>1. /\ client = "sending" /\ client' = "sent"
        /\ UNCHANGED <<kind, sent, rd, lost, pc, emitted, wire, tail, rcvd>>
    BY <1>3 DEF ClientFinish, readVars, outVars
  <2>2. Ended' = Ended + 1 /\ Stage' = Stage
    BY <2>1 DEF Ended, Stage
  <2> QED
    BY <1>0, <1>1, <2>1, <2>2 DEF Progress
<1>4. CASE ClientVanish
  BY <1>4 DEF ClientVanish, WritesFirst
<1>5. CASE ClientRecv
  <2>1. rcvd' = rcvd + 1 /\ UNCHANGED <<kind, client, sent, rd, lost, pc, emitted, wire, tail>>
    BY <1>5 DEF ClientRecv, readVars, outVars
  <2>2. Ended' = Ended /\ Stage' = Stage
    BY <2>1 DEF Ended, Stage
  <2> QED
    BY <1>0, <1>1, <2>1, <2>2 DEF Progress
<1>6. CASE SvcAnswer
  <2>1. /\ pc = "calling" /\ pc' = "streaming"
        /\ UNCHANGED <<kind, client, sent, rd, lost, emitted, wire, tail, rcvd>>
    BY <1>6 DEF SvcAnswer, ServerStreaming, readVars
  <2>2. Ended' = Ended /\ Stage' = Stage + 1
    BY <2>1 DEF Ended, Stage
  <2> QED
    BY <1>0, <1>1, <2>1, <2>2 DEF Progress
<1>7. CASE HelloPoll
  <2>1. pc = "streaming" /\ UNCHANGED <<kind, client, sent, wire, rcvd>>
    BY <1>7 DEF HelloPoll
  <2>2. ~(ReadLine /\ sent[rd'] = "bad") /\ ~ReadLost
    BY <1>0 DEF WritesFirst, ReadLine, ReadLost
  <2>3. CASE ReadLine /\ emitted' = Append(emitted, Hello) /\ pc' = "sending" /\ UNCHANGED tail
    <3>1. emitted'[Len(emitted')] = Hello
      BY <2>3 DEF Response, ResponseTypes
    <3>2. rd' = rd + 1 /\ UNCHANGED lost
      BY <2>3 DEF ReadLine
    <3>3. Ended' = Ended /\ Stage' = Stage
      BY <2>1, <2>3 DEF Ended, Stage
    <3> QED
      BY <1>0, <1>1, <2>1, <2>3, <3>1, <3>2, <3>3 DEF Progress
  <2>4. CASE ReadEnd /\ pc' = "ending" /\ UNCHANGED <<emitted, tail>>
    <3>1. client = "sent" /\ rd = Len(sent) /\ UNCHANGED <<rd, lost>>
      BY <2>4 DEF ReadEnd
    <3>2. Ended' = Ended /\ Stage' = Stage + 1
      BY <2>1, <2>4 DEF Ended, Stage
    <3> QED
      BY <1>0, <1>1, <2>1, <2>4, <3>1, <3>2 DEF Progress
  <2> QED
    BY <1>7, <2>2, <2>3, <2>4 DEF HelloPoll
<1>8. CASE Extract
  <2>1. /\ pc = "extract" /\ pc' = "calling"
        /\ UNCHANGED <<kind, client, sent, rd, lost, emitted, wire, tail, rcvd>>
    BY <1>8 DEF Extract, ClientStreaming
  <2>2. Ended' = Ended /\ Stage' = Stage + 1
    BY <2>1 DEF Ended, Stage
  <2> QED
    BY <1>0, <1>1, <2>1, <2>2 DEF Progress
<1>9. CASE MakeOkResponse
  BY <1>9 DEF MakeOkResponse
<1>10. CASE SendLine
  <2>1. emitted[Len(emitted)] \notin Unencodable
    BY <1>10, HelloSessionAssumption DEF SendLine
  <2>2. /\ Len(wire') = Len(wire) + 1 /\ pc' = "streaming" /\ pc = "sending"
        /\ UNCHANGED <<kind, client, sent, rd, lost, emitted, tail, rcvd>>
    BY <1>10, <2>1 DEF SendLine, readVars, Response, ResponseTypes
  <2>3. Ended' = Ended /\ Stage' = Stage
    BY <2>2 DEF Ended, Stage
  <2> QED
    BY <1>0, <1>1, <2>2, <2>3 DEF Progress
<1>11. CASE EndBody
  <2>1. /\ pc = "ending" /\ pc' = "done" /\ tail' = "complete"
        /\ UNCHANGED <<kind, client, sent, rd, lost, emitted, wire, rcvd>>
    BY <1>11 DEF EndBody, readVars
  <2>2. Ended' = Ended /\ Stage' = Stage + 1
    BY <2>1 DEF Ended, Stage
  <2> QED
    BY <1>0, <1>1, <2>1, <2>2 DEF Progress
<1>12. CASE DropHandler
  BY <1>12 DEF DropHandler
<1>13. CASE UNCHANGED helloVars
  BY <1>13 DEF helloVars, vars, readVars, outVars
<1> QED
  BY <1>2, <1>3, <1>4, <1>5, <1>6, <1>7, <1>8, <1>9, <1>10, <1>11, <1>12, <1>13, HelloStep

\* HalfDuplexCompletes, but for fairness: with MaxLines <= InCap + OutCap a half
\* duplex exchange with the lazy service is finished or can go on, each of its
\* steps is progress, and there is an end to progress.  The bound is needed for
\* the first of these: a client that waits to send and a service that waits for
\* the client to read are InCap + OutCap lines apart.
THEOREM HalfDuplexNeverStuck ==
    HelloSpec /\ []WritesFirst => [](NeverStuck /\ ProgressEnds) /\ [][Advances]_helloVars
<1> DEFINE Inv == RequestTypes /\ Response /\ WritesFirst /\ InTransit
<1>1. HelloInit /\ WritesFirst => InTransit
  BY HttpSessionAssumption DEF HelloInit, Init, InTransit
<1>2. Inv /\ [HelloNext]_helloVars /\ WritesFirst'
      => InTransit' /\ [Advances]_helloVars
  <2>1. [HelloNext]_helloVars => service' = service
    BY StepOfNext
  <2> QED
    BY <2>1, HalfDuplexAdvances DEF InTransit, Advances
<1>3. Inv => ProgressEnds
  BY ProgressParts, HttpSessionAssumption DEF InTransit, Progress, ProgressEnds
<1>4. Inv => NeverStuck
  <2>1. SUFFICES ASSUME Inv, service = "hello", MaxLines <= InCap + OutCap, ~CanStep
                 PROVE  Finished
    BY DEF NeverStuck
  <2> USE <2>1, HttpSessionAssumption, ProgressParts
      DEF RequestTypes, Response, ResponseTypes, InTransit
  <2>2. pc \in {"streaming", "done"}
    BY <2>1 DEF CanStep
  <2>3. CASE client = "sending"
    <3>1. rcvd = 0 /\ Len(sent) - rd >= InCap /\ Len(sent) < MaxLines
      BY <2>1, <2>3 DEF CanStep, WritesFirst
    <3>2. pc = "streaming" /\ Len(wire) = rd /\ rd < Len(sent)
      BY <2>2, <2>3, <3>1
    <3>3. ~HasRoom
      BY <2>1, <3>2 DEF CanStep
    <3> QED
      BY <3>1, <3>2, <3>3 DEF HasRoom
  <2>4. CASE client = "sent"
    <3>1. rcvd = Len(wire) /\ Len(sent) = MaxLines
      BY <2>1, <2>4 DEF CanStep, WritesFirst
    <3>2. HasRoom
      BY <3>1 DEF HasRoom
    <3>3. pc = "done"
      BY <2>1, <2>2, <2>4, <3>2 DEF CanStep
    <3> QED
      BY <3>1, <3>3 DEF Finished
  <2> QED
    BY <2>3, <2>4
<1> QED
  BY <1>1, <1>2, <1>3, <1>4, HttpStages, PTL DEF HelloSpec
===============================================================================
