------------------------ MODULE StreamingRequest_proof ------------------------
(***************************************************************************)
(* Proofs about StreamingRequest, for every set of items and errors and    *)
(* every bound on the length of a stream.  Each step of the composition is *)
(* a step of the helper or leaves it alone, so what FrameHelper_proof      *)
(* shows of the helper holds of it here; the rest is about the reader.     *)
(***************************************************************************)
EXTENDS StreamingRequest, FrameHelper_proof

\* The reader and the service use the helper through poll_frame and decode
\* only: their behaviours are behaviours of the helper.
THEOREM ReaderUsesHelper == ReaderSpec => Spec
<1>1. ReaderInit => Init
  BY DEF ReaderInit
<1>2. [ReaderNext]_vars => [Next]_helperVars
  BY DEF ReaderNext, Upstream, Reader, Service, Over, ServicePoll, Wake,
         CancelPoll, ReadHeader, NeedFrame, CallDecode, CallPollFrame, Next,
         vars
<1> QED
  BY <1>1, <1>2, PTL DEF ReaderSpec, Spec

\* A service that reads through the gRPC reader sees the in-order,
\* exactly-once stream that the helper implements.
THEOREM ReaderRefinesItemStream == ReaderSpec => ImplementsItemStream
  BY ReaderUsesHelper, RefinesItemStream

-------------------------------------------------------------------------------
\* The reader's own variables are well typed: its byte count never goes below
\* zero, for a header is taken only when five bytes are there.
THEOREM ReaderTypeCorrect == ReaderSpec => []ReaderTypeOK
<1> DEFINE Types == state \in ReaderStates /\ bytes \in Nat /\ pc \in PollSteps /\ eofs \in Nat
<1>1. ReaderInit => Types
  BY DEF ReaderInit, ReaderStates, PollSteps
<1>2. Types /\ [ReaderNext]_vars => Types'
  <2> SUFFICES ASSUME Types, [ReaderNext]_vars PROVE Types'
    OBVIOUS
  <2> USE DEF ReaderStates, PollSteps, HeaderSize, FrameSize
  <2>1. CASE Upstream \/ Over \/ UNCHANGED vars
    BY <2>1 DEF Upstream, Over, vars, readerVars
  <2>2. CASE Service
    BY <2>2 DEF Service, ServicePoll, Wake, CancelPoll
  <2>3. CASE ReadHeader
    BY <2>3 DEF ReadHeader
  <2>4. CASE NeedFrame
    BY <2>4 DEF NeedFrame
  <2>5. CASE CallDecode
    BY <2>5 DEF CallDecode
  <2>6. CASE CallPollFrame
    BY <2>6 DEF CallPollFrame
  <2> QED
    BY <2>1, <2>2, <2>3, <2>4, <2>5, <2>6 DEF ReaderNext, Reader
<1>3. TypeOK /\ Types => ReaderTypeOK
  BY DEF ReaderTypeOK
<1> QED
  BY <1>1, <1>2, <1>3, ReaderUsesHelper, TypeCorrect, PTL DEF ReaderSpec

-------------------------------------------------------------------------------
\* A poll returns, parks or ends with an empty buffer: what poll_frame puts
\* there is taken out by the decode of the same poll.
EmptyOutsidePoll == pc \in {"idle", "waiting", "done"} => next = NoResult

\* EmptyOutsidePoll is inductive: only poll_frame fills the buffer, and the
\* reader does not return before it has called decode.
LEMMA EmptyOutsidePollStep ==
  ASSUME EmptyOutsidePoll, [ReaderNext]_vars
  PROVE  EmptyOutsidePoll'
<1> USE DEF EmptyOutsidePoll
<1>1. CASE Upstream
  BY <1>1 DEF Upstream, Arrive, UpstreamEnd, readerVars
<1>2. CASE Service
  BY <1>2 DEF Service, ServicePoll, Wake, CancelPoll, helperVars
<1>3. CASE ReadHeader \/ NeedFrame
  BY <1>3 DEF ReadHeader, NeedFrame, helperVars
<1>4. CASE CallDecode
  BY <1>4 DEF CallDecode, Decode, DecodeTake, DecodeEmpty
<1>5. CASE CallPollFrame
  BY <1>5 DEF CallPollFrame, PollFrame, PollBuffered, PollReady, PollEnded, PollPending
<1>6. CASE Over \/ UNCHANGED vars
  BY <1>6 DEF Over, vars, helperVars, readerVars
<1> QED
  BY <1>1, <1>2, <1>3, <1>4, <1>5, <1>6 DEF ReaderNext, Reader

\* The buffer is empty whenever the service is not inside a poll.
THEOREM BufferEmptyOutsidePoll == ReaderSpec => []EmptyOutsidePoll
<1>1. ReaderInit => EmptyOutsidePoll
  BY DEF ReaderInit, Init, EmptyOutsidePoll
<1>2. EmptyOutsidePoll /\ [ReaderNext]_vars => EmptyOutsidePoll'
  BY EmptyOutsidePollStep
<1> QED
  BY <1>1, <1>2, PTL DEF ReaderSpec

\* No result waits in the buffer while the service is parked or told that the
\* stream is over.
THEOREM NothingStranded == ReaderSpec => []NoStrandedResult
<1>1. EmptyOutsidePoll => NoStrandedResult
  BY DEF EmptyOutsidePoll, NoStrandedResult
<1> QED
  BY <1>1, BufferEmptyOutsidePoll, PTL

-------------------------------------------------------------------------------
\* A clean end is reported by poll_frame's Ready(None) alone, when everything
\* polled was delivered; after it nothing arrives and nothing is polled.
THEOREM CleanEndComplete == ReaderSpec => []CleanEndIsComplete
<1>1. ReaderInit => CleanEndIsComplete
  BY DEF ReaderInit, CleanEndIsComplete
<1>2. /\ ReaderTypeOK /\ NothingLost /\ CleanEndIsComplete
      /\ [ReaderNext]_vars
      => CleanEndIsComplete'
  <2> SUFFICES ASSUME ReaderTypeOK, NothingLost, CleanEndIsComplete, [ReaderNext]_vars
               PROVE  CleanEndIsComplete'
    OBVIOUS
  <2> USE DEF CleanEndIsComplete
  <2>1. CASE Upstream
    BY <2>1 DEF Upstream, Arrive, UpstreamEnd, readerVars
  <2>2. CASE Service
    BY <2>2 DEF Service, ServicePoll, Wake, CancelPoll
  <2>3. CASE ReadHeader \/ NeedFrame
    BY <2>3 DEF ReadHeader, NeedFrame
  <2>4. CASE CallDecode
    BY <2>4 DEF CallDecode
  <2>5. CASE CallPollFrame
    <3>1. CASE pc' = "done"
      <4>1. reply' = "end"
        BY <2>5, <3>1 DEF CallPollFrame
      <4>2. PollEnded
        BY <2>5, <4>1 DEF CallPollFrame, PollFrame, PollBuffered, PollReady, PollPending
      <4>3. Len(arrived) = Len(delivered)
        BY <4>2 DEF PollEnded, NothingLost, Buffered, ReaderTypeOK, TypeOK
      <4> QED BY <4>2, <4>3 DEF PollEnded
    <3>2. CASE pc' # "done"
      BY <3>2
    <3> QED BY <3>1, <3>2
  <2>6. CASE Over \/ UNCHANGED vars
    BY <2>6 DEF Over, vars, helperVars, readerVars
  <2> QED
    BY <2>1, <2>2, <2>3, <2>4, <2>5, <2>6 DEF ReaderNext, Reader
<1> QED
  BY <1>1, <1>2, ReaderTypeCorrect, ReaderUsesHelper, NothingIsLost, PTL
     DEF ReaderSpec

-------------------------------------------------------------------------------
(* Frames and results in step.  Ahead counts the bytes of frames that the    *)
(* reader still has to match with a result, Behind those of the result in    *)
(* the buffer: they are equal, but for one frame more per failed decode.     *)

TwoErrors == \E i, j \in ErrorsDelivered : i # j
Ahead == bytes + (IF state = "ReadBody" THEN HeaderSize ELSE 0)
Behind == IF next = NoResult THEN 0 ELSE FrameSize

InStep ==
    /\ state = "Failed" => ErrorsDelivered # {} /\ pc \in {"idle", "done"}
    /\ state # "Failed" =>
         /\ Ahead >= Behind
         /\ ErrorsDelivered = {} => Ahead = Behind
         /\ TwoErrors \/ Ahead = Behind \/ Ahead = Behind + FrameSize
    /\ pc = "frame" => /\ next = NoResult
                       /\ state = "ReadHeader" => bytes < HeaderSize
    /\ eofs > 0 => TwoErrors

\* What a successful decode adds to the delivered errors: nothing for an item,
\* the new position for an error.
LEMMA DecodeCountsErrors ==
  ASSUME TypeOK, DecodeTake
  PROVE  /\ reply' = "item" => ErrorsDelivered' = ErrorsDelivered
         /\ reply' = "error" => /\ ErrorsDelivered' = ErrorsDelivered \cup {Len(delivered) + 1}
                                /\ Len(delivered) + 1 \notin ErrorsDelivered
<1> USE FrameHelperAssumption DEF TypeOK, ErrorsDelivered, Results
<1>1. /\ next \in Results
      /\ delivered' = Append(delivered, next)
      /\ reply' = IF next \in Items THEN "item" ELSE "error"
  BY DEF DecodeTake
<1>2. /\ Len(delivered') = Len(delivered) + 1
      /\ delivered'[Len(delivered) + 1] = next
      /\ \A i \in 1 .. Len(delivered) : delivered'[i] = delivered[i]
  BY <1>1
<1>3. 1 .. Len(delivered') = (1 .. Len(delivered)) \cup {Len(delivered) + 1}
  BY <1>2
<1>4. CASE next \in Items
  <2>1. next \notin Errors /\ reply' = "item"
    BY <1>1, <1>4
  <2> QED BY <1>2, <1>3, <2>1
<1>5. CASE next \in Errors
  <2>1. next \notin Items /\ reply' = "error"
    BY <1>1, <1>5
  <2> QED BY <1>2, <1>3, <1>5, <2>1
<1> QED
  BY <1>1, <1>4, <1>5

\* InStep is inductive relative to the types: a header is taken per result, so
\* only a decode that fails lets the reader get a frame ahead.
LEMMA InStepStep ==
  ASSUME ReaderTypeOK, InStep, [ReaderNext]_vars
  PROVE  InStep'
<1> USE DEF InStep, Ahead, Behind, HeaderSize, FrameSize, ReaderTypeOK, ReaderStates, PollSteps
<1>1. ASSUME UNCHANGED delivered PROVE UNCHANGED <<ErrorsDelivered, TwoErrors>>
  BY <1>1 DEF ErrorsDelivered, TwoErrors
<1>2. CASE Upstream
  BY <1>1, <1>2 DEF Upstream, Arrive, UpstreamEnd, readerVars
<1>3. CASE Service
  BY <1>1, <1>3 DEF Service, ServicePoll, Wake, CancelPoll, helperVars
<1>4. CASE ReadHeader
  BY <1>1, <1>4 DEF ReadHeader, helperVars
<1>5. CASE NeedFrame
  BY <1>1, <1>5 DEF NeedFrame, helperVars
<1>6. CASE CallDecode
  <2>1. CASE DecodeTake
    <3>1. /\ reply' \in {"item", "error"}
          /\ next # NoResult
          /\ next' = NoResult
          /\ state = "ReadBody"
          /\ UNCHANGED <<bytes, eofs>>
          /\ pc' = "idle"
      BY <1>6, <2>1 DEF CallDecode, DecodeTake
    <3>2. CASE reply' = "item"
      <4>1. ErrorsDelivered' = ErrorsDelivered /\ TwoErrors' = TwoErrors
        BY <2>1, <3>2, DecodeCountsErrors DEF TwoErrors
      <4>2. state' = "ReadHeader"
        BY <1>6, <3>2 DEF CallDecode
      <4> QED BY <3>1, <4>1, <4>2
    <3>3. CASE reply' = "error"
      <4>1. /\ ErrorsDelivered' = ErrorsDelivered \cup {Len(delivered) + 1}
            /\ Len(delivered) + 1 \notin ErrorsDelivered
        BY <2>1, <3>3, DecodeCountsErrors
      <4>2. /\ ErrorsDelivered' # {}
            /\ ErrorsDelivered # {} => TwoErrors'
            /\ TwoErrors => TwoErrors'
        BY <4>1 DEF TwoErrors
      <4>3. state' \in {"ReadBody", "Failed"}
        BY <1>6, <3>3 DEF CallDecode
      <4> QED BY <3>1, <4>2, <4>3
    <3> QED BY <3>1, <3>2, <3>3
  <2>2. CASE DecodeEmpty
    <3>1. /\ UNCHANGED <<ErrorsDelivered, TwoErrors, bytes, eofs, next, state>>
          /\ next = NoResult
          /\ state = "ReadBody"
          /\ pc' = "frame"
      BY <1>1, <1>6, <2>2 DEF CallDecode, DecodeEmpty
    <3> QED BY <3>1
  <2> QED BY <1>6, <2>1, <2>2 DEF CallDecode, Decode
<1>7. CASE CallPollFrame
  <2>1. /\ UNCHANGED <<ErrorsDelivered, TwoErrors, state>>
        /\ next = NoResult
        /\ pc = "frame"
    BY <1>1, <1>7
       DEF CallPollFrame, PollFrame, PollBuffered, PollReady, PollEnded, PollPending
  <2>2. CASE reply' = "frame"
    <3>1. /\ bytes' = bytes + FrameSize
          /\ pc' = "decode"
          /\ UNCHANGED eofs
      BY <1>7, <2>2 DEF CallPollFrame
    <3>2. next' # NoResult
      BY <1>7, <2>1, <2>2, FrameHelperAssumption
         DEF CallPollFrame, PollFrame, PollBuffered, PollReady, PollEnded, PollPending, TypeOK
    <3> QED BY <2>1, <3>1, <3>2
  <2>3. CASE reply' # "frame"
    <3>1. next' = NoResult /\ UNCHANGED bytes /\ pc' \in {"waiting", "done", "idle"}
      BY <1>7, <2>1, <2>3
         DEF CallPollFrame, PollFrame, PollBuffered, PollReady, PollEnded, PollPending
    <3>2. eofs' > 0 => TwoErrors
      <4>1. CASE UNCHANGED eofs
        BY <4>1
      <4>2. CASE bytes > 0
        BY <2>1, <4>2
      <4> QED BY <1>7, <4>1, <4>2 DEF CallPollFrame
    <3> QED BY <2>1, <3>1, <3>2
  <2> QED BY <2>2, <2>3
<1>8. CASE Over \/ UNCHANGED vars
  BY <1>1, <1>8 DEF Over, vars, helperVars, readerVars
<1> QED
  BY <1>2, <1>3, <1>4, <1>5, <1>6, <1>7, <1>8 DEF ReaderNext, Reader

\* Without a failed decode no byte is left over outside a poll, and the end of
\* the stream is taken for a truncated frame only after two failures.
THEOREM SurplusTakesErrors == ReaderSpec => []SurplusNeedsErrors
<1>1. ReaderInit => InStep
  BY DEF ReaderInit, Init, InStep, Ahead, Behind
<1>2. ReaderTypeOK /\ InStep /\ [ReaderNext]_vars => InStep'
  BY InStepStep
<1>3. ReaderTypeOK /\ InStep /\ EmptyOutsidePoll => SurplusNeedsErrors
  <2> SUFFICES ASSUME ReaderTypeOK, InStep, EmptyOutsidePoll PROVE SurplusNeedsErrors
    OBVIOUS
  <2>1. ASSUME ErrorsDelivered = {}, pc \in {"idle", "waiting"} PROVE bytes = 0
    <3>1. Behind = 0
      BY <2>1 DEF EmptyOutsidePoll, Behind
    <3>2. Ahead = Behind
      BY <2>1 DEF InStep
    <3> QED BY <3>1, <3>2 DEF Ahead, HeaderSize, ReaderTypeOK
  <2>2. eofs > 0 => TwoErrors
    BY DEF InStep
  <2> QED BY <2>1, <2>2 DEF SurplusNeedsErrors, TwoErrors
<1> QED
  BY <1>1, <1>2, <1>3, ReaderTypeCorrect, BufferEmptyOutsidePoll, PTL DEF ReaderSpec
===============================================================================
