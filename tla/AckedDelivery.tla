---------------------------- MODULE AckedDelivery ----------------------------
(* What stream management promises the sender of stanzas: a stanza whose ack is *)
(* reported was handled by the server, and it is reported once, in the order of *)
(* sending.  Connections, sessions, counters and storage are not mentioned.     *)
EXTENDS Naturals, FiniteSets

CONSTANT MaxOut  \* bound: stanzas sent

VARIABLES
    sent,      \* stanzas sent so far: stanza n is the n-th
    received,  \* the stanzas the server has handled
    reported,  \* the stanzas reported to the delegates as acknowledged
    reports    \* how often any was

deliveryVars == <<sent, received, reported, reports>>

Init == sent = 0 /\ received = {} /\ reported = {} /\ reports = 0

Send == sent < MaxOut /\ sent' = sent + 1 /\ UNCHANGED <<received, reported, reports>>

\* The server handles stanzas, never an earlier one after a later one: what is lost with a
\* connection stays lost.
Receive ==
    /\ \E new \in SUBSET (1..sent) :
          /\ new # {}
          /\ \A n \in new, m \in received : m < n
          /\ received' = received \cup new
    /\ UNCHANGED <<sent, reported, reports>>

\* An ack is reported for stanzas the server has handled, after all reported before.
Report ==
    /\ \E new \in SUBSET received :
          /\ new # {}
          /\ \A n \in new, m \in reported : m < n
          /\ reported' = reported \cup new
          /\ reports' = reports + Cardinality(new)
    /\ UNCHANGED <<sent, received>>

Next == Send \/ Receive \/ Report

Spec == Init /\ [][Next]_deliveryVars

=============================================================================
