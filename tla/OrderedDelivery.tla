--------------------------- MODULE OrderedDelivery ---------------------------
(* What a stream promises to those who read from it: items are taken in the     *)
(* order in which they were offered, each at most once.  Items may be left out. *)
(* Queues, filters and connections are not mentioned.                           *)
EXTENDS Naturals

VARIABLES
    offered,  \* items offered so far: item n is the n-th
    taken     \* the last item taken, 0 at first

deliveryVars == <<offered, taken>>

Init == offered = 0 /\ taken = 0

Offer == offered' = offered + 1 /\ taken' \in {taken, offered'}

Take == taken' \in (taken + 1)..offered /\ UNCHANGED offered

Next == Offer \/ Take

Spec == Init /\ [][Next]_deliveryVars

=============================================================================
