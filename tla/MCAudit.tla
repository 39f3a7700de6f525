------------------------------ MODULE MCAudit ------------------------------
(* A small instance of Audit for TLC. *)
EXTENDS Audit
=============================================================================
