---------------------------- MODULE BoundedQueue ----------------------------
(***************************************************************************)
(* What a bounded queue between one writer and one reader promises: the    *)
(* writer hands over 0, 1, 2, ... and the reader receives exactly these,   *)
(* in this order; never are more than Capacity of them in between.         *)
(***************************************************************************)
EXTENDS Integers

CONSTANT Capacity

VARIABLES
    sent,   \* how many values the writer has handed over
    got,    \* how many values the reader has received
    last    \* the value received last, -1 before the first

vars == <<sent, got, last>>

Init == sent = 0 /\ got = 0 /\ last = -1

Put ==
    /\ sent - got < Capacity
    /\ sent' = sent + 1
    /\ UNCHANGED <<got, last>>

Get ==
    /\ got < sent
    /\ last' = got
    /\ got' = got + 1
    /\ UNCHANGED sent

Next == Put \/ Get

Spec == Init /\ [][Next]_vars
=============================================================================
