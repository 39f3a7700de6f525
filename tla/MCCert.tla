------------------------------- MODULE MCCert -------------------------------
(* A small instance of Cert for TLC. *)
EXTENDS Cert, TLC

\* A certificate may be for a name that is not spelt in lower case.
MCLower == [n \in Name |-> IF n = "Host" THEN "host" ELSE n]

Symmetric == Permutations(Admin)
=============================================================================
