----------------------------- MODULE BoundedFifo -----------------------------
(***************************************************************************)
(* What the buffer servers of lab_sockets/lab_03 promise: a first-in       *)
(* first-out queue of at most Capacity letters.  The threaded, the epoll   *)
(* and the iterative server are shown to implement it; their semaphores,   *)
(* ring indices and message exchange are invisible here.                   *)
(***************************************************************************)
EXTENDS Naturals, Sequences

CONSTANTS Capacity, Items, None

VARIABLES
  queue,   \* the letters in the buffer, oldest first
  taken    \* the letter handed out last, None before the first

vars == <<queue, taken>>

Init == queue = << >> /\ taken = None

Put == /\ Len(queue) < Capacity
       /\ \E x \in Items : queue' = Append(queue, x)
       /\ taken' = taken

Get == /\ queue # << >>
       /\ taken' = Head(queue)
       /\ queue' = Tail(queue)

Next == Put \/ Get

Spec == Init /\ [][Next]_vars
=============================================================================
