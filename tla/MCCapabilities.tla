--------------------------- MODULE MCCapabilities ---------------------------
(* Instances of Capabilities for TLC.                                          *)
EXTENDS Capabilities

CONSTANTS j1, j2, h1, h2

\* One contact that goes from hash to hash, and others that announce one, or none.
OneChanges == [j \in Jids |-> IF j = j1 THEN {h1, h2} ELSE {h1}]

\* All announce the same.
OneHash == [j \in Jids |-> Hashes]

=============================================================================
