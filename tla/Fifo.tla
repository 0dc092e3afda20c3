-------------------------------- MODULE Fifo --------------------------------
(***************************************************************************)
(* What a pipe promises: a bounded first-in first-out queue of bytes with  *)
(* two ends.  Bytes are neither lost, invented nor reordered; an end that  *)
(* is closed stays closed, and nothing is appended once the write end is   *)
(* closed.  When both ends are closed the pipe may be discarded, and a new *)
(* empty one made.                                                         *)
(***************************************************************************)
EXTENDS Naturals, Sequences

CONSTANTS Byte, Capacity

VARIABLES q, readopen, writeopen

vars == <<q, readopen, writeopen>>

Init == q = <<>> /\ readopen = TRUE /\ writeopen = TRUE

Put ==
  /\ writeopen /\ Len(q) < Capacity
  /\ \E b \in Byte : q' = Append(q, b)
  /\ UNCHANGED <<readopen, writeopen>>

Get ==
  /\ readopen /\ q # <<>>
  /\ q' = Tail(q)
  /\ UNCHANGED <<readopen, writeopen>>

CloseRead  == readopen /\ readopen' = FALSE /\ UNCHANGED <<q, writeopen>>
CloseWrite == writeopen /\ writeopen' = FALSE /\ UNCHANGED <<q, readopen>>

Renew ==
  /\ ~readopen /\ ~writeopen
  /\ q' = <<>> /\ readopen' = TRUE /\ writeopen' = TRUE

Next == Put \/ Get \/ CloseRead \/ CloseWrite \/ Renew

Spec == Init /\ [][Next]_vars
=============================================================================
