--------------------------- MODULE StreamingRequest ---------------------------
(***************************************************************************)
(* make_stream_request / make_ws_stream_request: both clones of a          *)
(* FakeGrpcFrameStreamingHelper are given to tonic::Streaming::new_request *)
(* as body and decoder, and the service polls the resulting stream.        *)
(*                                                                         *)
(* tonic::Streaming is not part of this repository.  It is modelled as the *)
(* gRPC reader the helper was written for ("Streaming requires a real gRPC *)
(* frame, so we need to fake it"): it collects the bytes of body frames,   *)
(* takes a five byte header off the front, reads a message length from it, *)
(* calls the decoder once that many bytes are there and asks the body for  *)
(* more otherwise.  The fake frame is five zero bytes: uncompressed,       *)
(* length 0.  So each frame should cause one call of decode that finds one *)
(* result.  Where a reader may behave in two ways after the decoder has    *)
(* failed (go on, or be finished for good), the model allows both.         *)
(***************************************************************************)
EXTENDS FrameHelper

VARIABLES state,   \* what the reader expects at the front of its byte buffer
          bytes,   \* number of bytes in that buffer
          pc,      \* where the service's call of poll_next stands
          eofs     \* "Unexpected EOF" errors handed to the service

readerVars == <<state, bytes, pc, eofs>>
vars == <<helperVars, readerVars>>

HeaderSize == 5

\* (mutant) a frame one byte longer than a gRPC header.
LongFrameSize == 6

\* The Buf of EmptyGrpcFrame: `remaining` is always 5, for `advance` moves a
\* temporary slice; the reader copies `remaining` bytes out, once.
FrameSize == 5

ReaderStates == {"ReadHeader", "ReadBody", "Failed"}
PollSteps == {"idle", "decode", "frame", "waiting", "done"}

ReaderTypeOK == /\ TypeOK
                /\ state \in ReaderStates
                /\ bytes \in Nat
                /\ pc \in PollSteps
                /\ eofs \in Nat

ReaderInit == /\ Init
              /\ state = "ReadHeader"
              /\ bytes = 0
              /\ pc = "idle"
              /\ eofs = 0

-------------------------------------------------------------------------------
(* The service calls poll_next.  A waiting service is woken by the upstream, *)
(* or drops the pending call (a select! branch lost) and may call again.     *)

ServicePoll == /\ pc = "idle"
               /\ pc' = IF state = "Failed" THEN "done" ELSE "decode"
               /\ UNCHANGED <<helperVars, state, bytes, eofs>>

Wake == /\ pc = "waiting"
        /\ polled < Len(arrived) \/ ended
        /\ pc' = "decode"
        /\ UNCHANGED <<helperVars, state, bytes, eofs>>

CancelPoll == /\ pc = "waiting"
              /\ pc' = "idle"
              /\ UNCHANGED <<helperVars, state, bytes, eofs>>

(* poll_next: decode what is buffered, ask the body for a frame, repeat. *)

ReadHeader == /\ pc = "decode"
              /\ state = "ReadHeader"
              /\ bytes >= HeaderSize
              /\ bytes' = bytes - HeaderSize
              /\ state' = "ReadBody"
              /\ UNCHANGED <<helperVars, pc, eofs>>

NeedFrame == /\ pc = "decode"
             /\ state = "ReadHeader"
             /\ bytes < HeaderSize
             /\ pc' = "frame"
             /\ UNCHANGED <<helperVars, state, bytes, eofs>>

\* The length read from the header is 0, so the body is always complete.
CallDecode ==
    /\ pc = "decode"
    /\ state = "ReadBody"
    /\ Decode
    /\ \/ /\ reply' = "item"
          /\ state' = "ReadHeader"
          /\ pc' = "idle"
       \/ /\ reply' = "error"
          /\ state' \in {"ReadBody", "Failed"}
          /\ pc' = "idle"
       \/ /\ reply' = "empty"
          /\ pc' = "frame"
          /\ UNCHANGED state
    /\ UNCHANGED <<bytes, eofs>>

CallPollFrame ==
    /\ pc = "frame"
    /\ PollFrame
    /\ \/ /\ reply' = "frame"
          /\ bytes' = bytes + FrameSize
          /\ pc' = "decode"
          /\ UNCHANGED eofs
       \/ /\ reply' = "pending"
          /\ pc' = "waiting"
          /\ UNCHANGED <<bytes, eofs>>
       \/ /\ reply' = "end"
          /\ bytes = 0
          /\ pc' = "done"
          /\ UNCHANGED <<bytes, eofs>>
       \/ /\ reply' = "end"
          /\ bytes > 0
          /\ pc' = "idle"
          /\ eofs' = IF eofs < 2 THEN eofs + 1 ELSE eofs  \* bound: 2 are counted
          /\ UNCHANGED bytes
    /\ UNCHANGED state

-------------------------------------------------------------------------------
Upstream == /\ \/ \E r \in Results : Arrive(r)
               \/ UpstreamEnd
            /\ UNCHANGED readerVars

Reader == ReadHeader \/ NeedFrame \/ CallDecode \/ CallPollFrame

Service == ServicePoll \/ Wake \/ CancelPoll

\* The stream is over for the service.
Over == pc = "done" /\ ended /\ UNCHANGED vars

ReaderNext == Upstream \/ Reader \/ Service \/ Over

ReaderSpec == ReaderInit /\ [][ReaderNext]_vars

\* A service that awaits the stream until it is over: the executor runs a task
\* that is ready, a waker that fired wakes it, and a started poll completes.
FairReaderSpec == ReaderSpec /\ WF_vars(Reader) /\ WF_vars(ServicePoll) /\ WF_vars(Wake)

-------------------------------------------------------------------------------
ErrorsDelivered == {i \in 1 .. Len(delivered) : delivered[i] \in Errors}

\* When the service is parked or told that the stream is over, no result is
\* left in the helper's buffer: a frame is never consumed without the decode
\* that belongs to it, so no message waits for one that may never come.
NoStrandedResult == pc \in {"waiting", "done"} => next = NoResult

\* The reader reports a clean end (no failed decode before it) only after
\* every result the upstream yielded was handed to the service.
CleanEndIsComplete ==
    (pc = "done" /\ state # "Failed") =>
        ended /\ Len(delivered) = Len(arrived)

\* Frames and results stay in step until a decode fails: outside a poll there
\* is not a byte left over, so the end of the stream is not taken for a
\* truncated frame ("Unexpected EOF").  After a failed decode the reader may
\* be one frame ahead; it takes a second failure to make the end look broken.
SurplusNeedsErrors ==
    /\ (ErrorsDelivered = {} /\ pc \in {"idle", "waiting"}) => bytes = 0
    /\ eofs > 0 => \E i, j \in ErrorsDelivered : i # j

\* Every result reaches a service that keeps awaiting, unless the reader gave
\* up after an error: no wake-up is lost between the two halves.
EveryResultDelivered ==
    \A n \in 1 .. MaxResults :
        (Len(arrived) >= n) ~> (Len(delivered) >= n \/ state = "Failed")

\* A service that keeps awaiting learns that the stream is over, as long as
\* fewer than two results fail to decode: after two, the reader answers every
\* further poll with "Unexpected EOF" and a service that goes on never ends.
EndIsReported ==
    (ended /\ ~\E i, j \in 1 .. Len(arrived) :
                i # j /\ {arrived[i], arrived[j]} \subseteq Errors)
        ~> pc = "done"
===============================================================================
