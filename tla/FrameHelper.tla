----------------------------- MODULE FrameHelper ------------------------------
(***************************************************************************)
(* FakeGrpcFrameStreamingHelper (tonic2axum/src/streaming/mod.rs): two     *)
(* clones of one handle share, behind an Arc<Mutex<..>>, the upstream      *)
(* `lines` and a one-place buffer `next`.  The clone used as Body answers  *)
(* poll_frame with a fake gRPC frame and parks the real result in `next`;  *)
(* the clone used as Decoder takes it out again.                           *)
(*                                                                         *)
(* The mutex makes each call atomic, so an action is a whole call.  Here   *)
(* the two clones are called in any order and any number of times;         *)
(* StreamingRequest composes them with the reader the code hands them to.  *)
(***************************************************************************)
EXTENDS Naturals, Sequences

CONSTANTS Items,       \* decoded request messages (T)
          Errors,      \* upstream failures (axum::Error)
          NoResult,    \* `next` is None
          MaxResults   \* bound on the length of a stream

Results == Items \cup Errors

ASSUME FrameHelperAssumption ==
    /\ Items \cap Errors = {}
    /\ NoResult \notin Results
    /\ MaxResults \in Nat

VARIABLES arrived,     \* results the upstream has made available
          ended,       \* the upstream has nothing more to yield
          polled,      \* how many results lines.poll_next has returned
          next,        \* the one-place buffer, or NoResult
          delivered,   \* results taken out by decode (Ok item or Err status)
          reply,       \* the answer of the last call
          finished     \* poll_frame has answered Ready(None)

helperVars == <<arrived, ended, polled, next, delivered, reply, finished>>

Replies == {"none_yet", "frame", "end", "pending", "item", "error", "empty"}

TypeOK == /\ arrived \in Seq(Results)
          /\ ended \in BOOLEAN
          /\ polled \in Nat
          /\ next \in Results \cup {NoResult}
          /\ delivered \in Seq(Results)
          /\ reply \in Replies
          /\ finished \in BOOLEAN

Init == /\ arrived = <<>>
        /\ ended = FALSE
        /\ polled = 0
        /\ next = NoResult
        /\ delivered = <<>>
        /\ reply = "none_yet"
        /\ finished = FALSE

-------------------------------------------------------------------------------
(* The upstream: JsonLines for HTTP, convert_stream(ws) for web sockets.  It *)
(* stays ended once it has ended.                                           *)

Arrive(r) == /\ ~ended
             /\ Len(arrived) < MaxResults
             /\ arrived' = Append(arrived, r)
             /\ UNCHANGED <<ended, polled, next, delivered, reply, finished>>

UpstreamEnd == /\ ~ended
               /\ ended' = TRUE
               /\ UNCHANGED <<arrived, polled, next, delivered, reply, finished>>

-------------------------------------------------------------------------------
(* Body::poll_frame *)

\* A result is already buffered: answer with a frame without polling.
PollBuffered == /\ next # NoResult
                /\ reply' = "frame"
                /\ UNCHANGED <<arrived, ended, polled, next, delivered, finished>>

\* (mutant) keeps the result but makes the caller wait for the next wake-up.
PollReadyHolds == /\ next = NoResult
                  /\ polled < Len(arrived)
                  /\ next' = arrived[polled + 1]
                  /\ polled' = polled + 1
                  /\ reply' = "pending"
                  /\ UNCHANGED <<arrived, ended, delivered, finished>>

\* lines.poll_next yields a result: keep it for decode.
PollReady == /\ next = NoResult
             /\ polled < Len(arrived)
             /\ next' = arrived[polled + 1]
             /\ polled' = polled + 1
             /\ reply' = "frame"
             /\ UNCHANGED <<arrived, ended, delivered, finished>>

\* (mutant) an ended upstream is taken for one that is not ready.
PollEndedWaits == /\ next = NoResult
                  /\ polled = Len(arrived)
                  /\ ended
                  /\ reply' = "pending"
                  /\ UNCHANGED <<arrived, ended, polled, next, delivered, finished>>

PollEnded == /\ next = NoResult
             /\ polled = Len(arrived)
             /\ ended
             /\ reply' = "end"
             /\ finished' = TRUE
             /\ UNCHANGED <<arrived, ended, polled, next, delivered>>

\* (mutant) an upstream that is not ready is taken for an ended one.
PollPendingEnds == /\ next = NoResult
                   /\ polled = Len(arrived)
                   /\ ~ended
                   /\ reply' = "end"
                   /\ UNCHANGED <<arrived, ended, polled, next, delivered, finished>>

PollPending == /\ next = NoResult
               /\ polled = Len(arrived)
               /\ ~ended
               /\ reply' = "pending"
               /\ UNCHANGED <<arrived, ended, polled, next, delivered, finished>>

PollFrame == PollBuffered \/ PollReady \/ PollEnded \/ PollPending

-------------------------------------------------------------------------------
(* Decoder::decode: next.take().transpose().map_err(Status::internal) *)

\* (mutant) as_ref in the place of take.
DecodeKeeps == /\ next # NoResult
               /\ delivered' = Append(delivered, next)
               /\ reply' = IF next \in Items THEN "item" ELSE "error"
               /\ UNCHANGED <<arrived, ended, polled, next, finished>>

\* (mutant) throws a result away that is an error.
DecodeDropsError == /\ next # NoResult
                    /\ delivered' = IF next \in Items THEN Append(delivered, next) ELSE delivered
                    /\ reply' = IF next \in Items THEN "item" ELSE "error"
                    /\ next' = NoResult
                    /\ UNCHANGED <<arrived, ended, polled, finished>>

DecodeTake == /\ next # NoResult
              /\ delivered' = Append(delivered, next)
              /\ reply' = IF next \in Items THEN "item" ELSE "error"
              /\ next' = NoResult
              /\ UNCHANGED <<arrived, ended, polled, finished>>

\* (mutant) hands over whatever the buffer holds, a missing result too.
DecodeAnything == /\ next = NoResult
                  /\ delivered' = Append(delivered, next)
                  /\ reply' = "item"
                  /\ UNCHANGED <<arrived, ended, polled, next, finished>>

DecodeEmpty == /\ next = NoResult
               /\ reply' = "empty"
               /\ UNCHANGED <<arrived, ended, polled, next, delivered, finished>>

Decode == DecodeTake \/ DecodeEmpty

-------------------------------------------------------------------------------
Next == \/ \E r \in Results : Arrive(r)
        \/ UpstreamEnd
        \/ PollFrame
        \/ Decode

Spec == Init /\ [][Next]_helperVars

-------------------------------------------------------------------------------
(* What one place of buffer holds back from the reader. *)
Buffered == IF next = NoResult THEN 0 ELSE 1

\* Every result taken from the upstream is either delivered, in its turn and
\* unaltered, or is the one in the buffer: polling twice before a decode, or
\* decoding twice, neither drops, repeats nor overtakes a result.
NothingLost ==
    /\ polled = Len(delivered) + Buffered
    /\ polled <= Len(arrived)
    /\ \A i \in 1 .. Len(delivered) : delivered[i] = arrived[i]
    /\ next # NoResult => next = arrived[polled]

\* The body reports its end only after every result was taken out by decode:
\* the answer Ready(None) never hides a result that is still buffered.
EndAfterLast ==
    finished => /\ ended
                /\ Len(delivered) = Len(arrived)

\* The helper implements the stream contract: its history variables are the
\* abstract ones, and the buffer is invisible to the reader.
Abstract == INSTANCE ItemStream

\* Every behaviour of the helper, under any order of calls to its two clones,
\* is a behaviour of the in-order, exactly-once stream.
ImplementsItemStream == Abstract!Spec
===============================================================================
