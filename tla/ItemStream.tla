------------------------------ MODULE ItemStream ------------------------------
(***************************************************************************)
(* What a converted request stream promises its reader, whatever carries   *)
(* it: the results that arrive upstream are handed over in order, each one *)
(* exactly once, and the end is reported only when nothing is left.        *)
(*                                                                         *)
(* This is the contract of tonic::Streaming as the handlers generated by   *)
(* tonic2axum use it; FrameHelper is shown to implement it.                *)
(***************************************************************************)
EXTENDS Naturals, Sequences

CONSTANTS Results,    \* what the upstream may yield: items and errors
          MaxResults  \* bound on the length of a stream

VARIABLES arrived,    \* every result the upstream has yielded so far
          ended,      \* the upstream has no more results to yield
          delivered,  \* the results handed to the reader
          finished    \* the reader has been told that the stream is over

vars == <<arrived, ended, delivered, finished>>

TypeOK == /\ arrived \in Seq(Results)
          /\ ended \in BOOLEAN
          /\ delivered \in Seq(Results)
          /\ finished \in BOOLEAN

Init == /\ arrived = <<>>
        /\ ended = FALSE
        /\ delivered = <<>>
        /\ finished = FALSE

Arrive(r) == /\ ~ended
             /\ Len(arrived) < MaxResults
             /\ arrived' = Append(arrived, r)
             /\ UNCHANGED <<ended, delivered, finished>>

End == /\ ~ended
       /\ ended' = TRUE
       /\ UNCHANGED <<arrived, delivered, finished>>

Deliver == /\ Len(delivered) < Len(arrived)
           /\ delivered' = Append(delivered, arrived[Len(delivered) + 1])
           /\ UNCHANGED <<arrived, ended, finished>>

Finish == /\ ended
          /\ Len(delivered) = Len(arrived)
          /\ finished' = TRUE
          /\ UNCHANGED <<arrived, ended, delivered>>

Next == \/ \E r \in Results : Arrive(r)
        \/ End
        \/ Deliver
        \/ Finish

Spec == Init /\ [][Next]_vars
===============================================================================
