---------------------------- MODULE BoundedFifo ----------------------------
(***************************************************************************)
(* What the driver expects of a lidar's point queue: packets come out in   *)
(* the order they went in, each one whole and once; a packet that finds    *)
(* Capacity others waiting is the one that is lost.                        *)
(***************************************************************************)
EXTENDS Integers, Sequences

CONSTANTS Capacity,    \* packets it holds at most, a positive number
          MaxPackets   \* bound: packets offered

VARIABLES q,      \* the packets waiting
          next,   \* the packet the producer offers next
          taken   \* the packet the consumer took last, 0 before the first

vars == <<q, next, taken>>

Init == q = <<>> /\ next = 1 /\ taken = 0

Put == /\ next <= MaxPackets /\ Len(q) < Capacity
       /\ q' = Append(q, next)
       /\ next' = next + 1
       /\ UNCHANGED taken

Drop == /\ next <= MaxPackets /\ Len(q) = Capacity
        /\ next' = next + 1
        /\ UNCHANGED <<q, taken>>

Take == /\ q # <<>>
        /\ taken' = Head(q)
        /\ q' = Tail(q)
        /\ UNCHANGED next

Next == Put \/ Drop \/ Take

Spec == Init /\ [][Next]_vars
FairSpec == Spec /\ WF_vars(Take)
=============================================================================
