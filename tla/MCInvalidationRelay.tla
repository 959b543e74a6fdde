--------------------------- MODULE MCInvalidationRelay ---------------------------
(* Instances of InvalidationRelay: a publishing node and a receiving one. *)
EXTENDS InvalidationRelay

CONSTANTS a, b, transport_resume, clear_partition, idle
=============================================================================
