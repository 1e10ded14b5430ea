------------------------------ MODULE MCWatch ------------------------------
(* Watch with an input that may import one file, and two boards.           *)
EXTENDS Watch

=============================================================================
