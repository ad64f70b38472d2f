-------------------------- MODULE FrameHelper_proof ---------------------------
(***************************************************************************)
(* Proofs about FrameHelper, for every set of items and errors and every   *)
(* bound on the length of a stream: typing, the inductive invariant        *)
(* NothingLost, the report of the end, and the refinement of ItemStream.   *)
(***************************************************************************)
EXTENDS FrameHelper, TLAPS

\* The type invariant: whatever the order of calls, the buffer holds one
\* result at most and decode hands over results only.
THEOREM TypeCorrect == Spec => []TypeOK
<1>1. Init => TypeOK
  <2> SUFFICES ASSUME Init PROVE TypeOK
    OBVIOUS
  <2>1. /\ arrived \in Seq(Results)
        /\ delivered \in Seq(Results)
    BY DEF Init
  <2>2. /\ ended \in BOOLEAN
        /\ finished \in BOOLEAN
        /\ polled \in Nat
    BY DEF Init
  <2>3. /\ next \in Results \cup {NoResult}
        /\ reply \in Replies
    BY DEF Init, Replies
  <2> QED BY <2>1, <2>2, <2>3 DEF TypeOK
<1>2. TypeOK /\ [Next]_helperVars => TypeOK'
  <2> SUFFICES ASSUME TypeOK, [Next]_helperVars
               PROVE  TypeOK'
    OBVIOUS
  <2> USE DEF TypeOK, Replies
  <2>1. ASSUME NEW r \in Results, Arrive(r) PROVE TypeOK'
    BY <2>1 DEF Arrive
  <2>2. CASE UpstreamEnd
    BY <2>2 DEF UpstreamEnd
  <2>3. CASE PollBuffered
    BY <2>3 DEF PollBuffered
  <2>4. CASE PollReady
    <3>1. arrived[polled + 1] \in Results
      BY <2>4 DEF PollReady
    <3> QED BY <2>4, <3>1 DEF PollReady
  <2>5. CASE PollEnded
    BY <2>5 DEF PollEnded
  <2>6. CASE PollPending
    BY <2>6 DEF PollPending
  <2>7. CASE DecodeTake
    BY <2>7 DEF DecodeTake
  <2>8. CASE DecodeEmpty
    BY <2>8 DEF DecodeEmpty
  <2>9. CASE UNCHANGED helperVars
    BY <2>9 DEF helperVars
  <2> QED
    BY <2>1, <2>2, <2>3, <2>4, <2>5, <2>6, <2>7, <2>8, <2>9
       DEF Next, PollFrame, Decode
<1> QED
  BY <1>1, <1>2, PTL DEF Spec

\* NothingLost is inductive relative to the types: no call, in whatever order
\* the two clones are used, drops, repeats or overtakes a result.
LEMMA NothingLostStep ==
  ASSUME TypeOK, NothingLost, [Next]_helperVars
  PROVE  NothingLost'
<1> USE FrameHelperAssumption DEF TypeOK, NothingLost, Buffered
<1>1. ASSUME NEW r \in Results, Arrive(r) PROVE NothingLost'
  BY <1>1 DEF Arrive
<1>2. CASE UpstreamEnd
  BY <1>2 DEF UpstreamEnd
<1>3. CASE PollBuffered
  BY <1>3 DEF PollBuffered
<1>4. CASE PollReady
  <2>1. /\ arrived[polled + 1] \in Results
        /\ next' # NoResult
    BY <1>4 DEF PollReady
  <2> QED BY <1>4, <2>1 DEF PollReady
<1>5. CASE PollEnded
  BY <1>5 DEF PollEnded
<1>6. CASE PollPending
  BY <1>6 DEF PollPending
<1>7. CASE DecodeTake
  <2>1. /\ polled = Len(delivered) + 1
        /\ next = arrived[polled]
    BY <1>7 DEF DecodeTake
  <2>2. /\ Len(delivered') = Len(delivered) + 1
        /\ delivered'[Len(delivered) + 1] = next
        /\ \A i \in 1 .. Len(delivered) : delivered'[i] = delivered[i]
    BY <1>7 DEF DecodeTake
  <2> QED BY <1>7, <2>1, <2>2 DEF DecodeTake
<1>8. CASE DecodeEmpty
  BY <1>8 DEF DecodeEmpty
<1>9. CASE UNCHANGED helperVars
  BY <1>9 DEF helperVars
<1> QED
  BY <1>1, <1>2, <1>3, <1>4, <1>5, <1>6, <1>7, <1>8, <1>9
     DEF Next, PollFrame, Decode

\* Whatever the order of calls, every result polled from the upstream is
\* delivered in its turn or is the one in the buffer.
THEOREM NothingIsLost == Spec => []NothingLost
<1>1. Init => NothingLost
  BY DEF Init, NothingLost, Buffered
<1>2. TypeOK /\ NothingLost /\ [Next]_helperVars => NothingLost'
  BY NothingLostStep
<1> QED
  BY <1>1, <1>2, TypeCorrect, PTL DEF Spec

\* poll_frame reports the end only after decode has taken every result out.
THEOREM EndIsReportedLast == Spec => []EndAfterLast
<1>1. Init => EndAfterLast
  BY DEF Init, EndAfterLast
<1>2. TypeOK /\ NothingLost /\ EndAfterLast /\ [Next]_helperVars => EndAfterLast'
  <2> SUFFICES ASSUME TypeOK, NothingLost, EndAfterLast, [Next]_helperVars
               PROVE  EndAfterLast'
    OBVIOUS
  <2> USE FrameHelperAssumption DEF TypeOK, NothingLost, Buffered, EndAfterLast
  <2>1. ASSUME NEW r \in Results, Arrive(r) PROVE EndAfterLast'
    BY <2>1 DEF Arrive
  <2>2. CASE UpstreamEnd
    BY <2>2 DEF UpstreamEnd
  <2>3. CASE PollBuffered
    BY <2>3 DEF PollBuffered
  <2>4. CASE PollReady
    <3>1. ~finished
      BY <2>4 DEF PollReady
    <3> QED BY <2>4, <3>1 DEF PollReady
  <2>5. CASE PollEnded
    <3>1. polled = Len(delivered)
      BY <2>5 DEF PollEnded
    <3> QED BY <2>5, <3>1 DEF PollEnded
  <2>6. CASE PollPending
    BY <2>6 DEF PollPending
  <2>7. CASE DecodeTake
    <3>1. ~finished
      BY <2>7 DEF DecodeTake
    <3> QED BY <2>7, <3>1 DEF DecodeTake
  <2>8. CASE DecodeEmpty
    BY <2>8 DEF DecodeEmpty
  <2>9. CASE UNCHANGED helperVars
    BY <2>9 DEF helperVars
  <2> QED
    BY <2>1, <2>2, <2>3, <2>4, <2>5, <2>6, <2>7, <2>8, <2>9
       DEF Next, PollFrame, Decode
<1> QED
  BY <1>1, <1>2, TypeCorrect, NothingIsLost, PTL DEF Spec

\* The helper implements the abstract stream: a poll is invisible to the
\* reader, a decode that finds a result is a delivery, the body's end is the
\* end of the stream.
THEOREM RefinesItemStream == Spec => ImplementsItemStream
<1> USE DEF Abstract!vars
<1>1. Init => Abstract!Init
  BY DEF Init, Abstract!Init
<1>2. TypeOK /\ NothingLost /\ [Next]_helperVars => [Abstract!Next]_(Abstract!vars)
  <2> SUFFICES ASSUME TypeOK, NothingLost, [Next]_helperVars
               PROVE  [Abstract!Next]_(Abstract!vars)
    OBVIOUS
  <2> USE FrameHelperAssumption DEF TypeOK, NothingLost, Buffered
  <2>1. ASSUME NEW r \in Results, Arrive(r) PROVE Abstract!Next
    <3>1. Abstract!Arrive(r)
      BY <2>1 DEF Arrive, Abstract!Arrive
    <3> QED BY <3>1 DEF Abstract!Next
  <2>2. ASSUME UpstreamEnd PROVE Abstract!End
    BY <2>2 DEF UpstreamEnd, Abstract!End
  <2>3. ASSUME PollBuffered \/ PollReady \/ PollPending PROVE UNCHANGED Abstract!vars
    BY <2>3 DEF PollBuffered, PollReady, PollPending
  <2>4. ASSUME PollEnded PROVE Abstract!Finish
    BY <2>4 DEF PollEnded, Abstract!Finish
  <2>5. ASSUME DecodeTake PROVE Abstract!Deliver
    BY <2>5 DEF DecodeTake, Abstract!Deliver
  <2>6. ASSUME DecodeEmpty PROVE UNCHANGED Abstract!vars
    BY <2>6 DEF DecodeEmpty
  <2>7. ASSUME UNCHANGED helperVars PROVE UNCHANGED Abstract!vars
    BY <2>7 DEF helperVars
  <2> QED
    BY <2>1, <2>2, <2>3, <2>4, <2>5, <2>6, <2>7
       DEF Next, PollFrame, Decode, Abstract!Next
<1> QED
  BY <1>1, <1>2, TypeCorrect, NothingIsLost, PTL
     DEF Spec, ImplementsItemStream, Abstract!Spec
===============================================================================
