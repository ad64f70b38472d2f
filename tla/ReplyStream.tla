------------------------------ MODULE ReplyStream ------------------------------
(***************************************************************************)
(* What a streamed response promises the client, whatever carries it: the  *)
(* replies of the service arrive in order, each at most once, and the end  *)
(* is called normal only when every reply of the service was carried and   *)
(* the service has none to add.  Any other end may cut the replies short.  *)
(***************************************************************************)
EXTENDS Naturals, Sequences, TLAPS

CONSTANTS Replies    \* the messages a service replies with

VARIABLES offered,   \* the replies the service has produced
          carried,   \* the replies that were put on the connection
          verdict    \* how the response ended

vars == <<offered, carried, verdict>>

TypeOK == /\ offered \in Seq(Replies)
          /\ carried \in Seq(Replies)
          /\ verdict \in {"open", "normal", "other"}

Init == /\ offered = <<>>
        /\ carried = <<>>
        /\ verdict = "open"

\* After an end that is not normal a service may go on unheard.
Offer(r) == /\ verdict # "normal"
            /\ offered' = Append(offered, r)
            /\ UNCHANGED <<carried, verdict>>

Carry == /\ verdict = "open"
         /\ Len(carried) < Len(offered)
         /\ carried' = Append(carried, offered[Len(carried) + 1])
         /\ UNCHANGED <<offered, verdict>>

EndNormally == /\ verdict = "open"
               /\ carried = offered
               /\ verdict' = "normal"
               /\ UNCHANGED <<offered, carried>>

EndOtherwise == /\ verdict = "open"
                /\ verdict' = "other"
                /\ UNCHANGED <<offered, carried>>

Next == \/ \E r \in Replies : Offer(r)
        \/ Carry
        \/ EndNormally
        \/ EndOtherwise

Spec == Init /\ [][Next]_vars

-------------------------------------------------------------------------------
\* What is carried is what the service began with, and all of it at a normal end.
Promise == /\ Len(carried) <= Len(offered)
           /\ \A i \in 1 .. Len(carried) : carried[i] = offered[i]
           /\ verdict = "normal" => carried = offered

\* The promise holds at all times, whatever the service and the connection do.
THEOREM PromiseKept == Spec => [](TypeOK /\ Promise)
<1> USE DEF TypeOK, Promise
<1>1. Init => TypeOK /\ Promise
  BY DEF Init
<1>2. TypeOK /\ Promise /\ [Next]_vars => (TypeOK /\ Promise)'
  <2>1. SUFFICES ASSUME TypeOK, Promise, [Next]_vars
                 PROVE  (TypeOK /\ Promise)'
    OBVIOUS
  <2>2. CASE \E r \in Replies : Offer(r)
    BY <2>1, <2>2 DEF Offer
  <2>3. CASE Carry
    <3>1. offered[Len(carried) + 1] \in Replies
      BY <2>1, <2>3 DEF Carry
    <3> QED
      BY <2>1, <2>3, <3>1 DEF Carry
  <2>4. CASE EndNormally \/ EndOtherwise \/ UNCHANGED vars
    BY <2>1, <2>4 DEF EndNormally, EndOtherwise, vars
  <2> QED
    BY <2>1, <2>2, <2>3, <2>4 DEF Next
<1> QED
  BY <1>1, <1>2, PTL DEF Spec
================================================================================
