--------------------------- MODULE MCStreamTraffic ---------------------------
(* Instances of StreamTraffic for TLC, and what it implements.                 *)
EXTENDS StreamTraffic, TLC

\* The stanzas delivered are delivered in the order in which they were received, each at
\* most once, however many of them were put to delegates: "in-order-delivery of all received
\* stanzas".
Inbox == INSTANCE OrderedDelivery
    WITH offered <- Len(received),
         taken <- IF delivered = <<>> THEN 0 ELSE Last(delivered).stanza

DeliversInOrder == Inbox!Spec

\* Nothing tells one delegate that implements didReceiveIQ: from another.
Symmetry == Permutations(Responders)

=============================================================================
