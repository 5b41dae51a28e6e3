----------------------------- MODULE SendChannel -----------------------------
(***************************************************************************)
(* What enqueueSend() and the send task of a FdConnection promise together *)
(* (main/fd_connection.cpp): a lossy channel of bounded capacity.  Items   *)
(* may be lost (handshake timeout, link loss, teardown) but those that are *)
(* delivered come in the order they were accepted, none of them twice, and *)
(* a channel that was shut neither accepts nor delivers.                   *)
(***************************************************************************)
EXTENDS Naturals, Sequences, FiniteSets

CONSTANT Capacity

VARIABLES
    count,    \* number of items accepted so far: each is known by its number
    pending,  \* the items accepted and neither delivered nor lost
    out,      \* items delivered, in order
    shut      \* the channel has been shut
vars == <<count, pending, out, shut>>

Init ==
    /\ count = 0
    /\ pending = {}
    /\ out = <<>>
    /\ shut = FALSE

Accept ==
    /\ ~shut
    /\ Cardinality(pending) < Capacity
    /\ count' = count + 1
    /\ pending' = pending \cup {count + 1}
    /\ UNCHANGED <<out, shut>>

\* It is always the oldest item that leaves.
Oldest(item) == item \in pending /\ \A other \in pending : item <= other
Leaves(item) == Oldest(item) /\ pending' = pending \ {item}

Deliver ==
    /\ ~shut
    /\ \E item \in pending : Leaves(item) /\ out' = Append(out, item)
    /\ UNCHANGED <<count, shut>>

Lose ==
    /\ \E item \in pending : Leaves(item)
    /\ UNCHANGED <<count, out, shut>>

Shut ==
    /\ ~shut
    /\ shut' = TRUE
    /\ pending' = {}
    /\ UNCHANGED <<count, out>>

Next == Accept \/ Deliver \/ Lose \/ Shut

Spec == Init /\ [][Next]_vars

\* Delivered items are in order of acceptance and none is delivered twice.
Ordered == \A i, j \in DOMAIN out : i < j => out[i] < out[j]
=============================================================================
