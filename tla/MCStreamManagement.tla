-------------------------- MODULE MCStreamManagement --------------------------
(* Instances of StreamManagement for TLC, and what it implements.              *)
EXTENDS StreamManagement

\* Reporting acks through sessions, storage and resumption implements acknowledged
\* delivery: no stanza is reported twice, before it was handled, or out of order.  The abstract
\* variables are the history of the concrete ones.
Delivery == INSTANCE AckedDelivery
    WITH MaxOut <- MaxOut, sent <- sent, received <- received, reported <- reported,
         reports <- reports

ImplementsDelivery == Delivery!Spec

=============================================================================
