--------------------------- MODULE MCLockManager ---------------------------
(* Small instances of LockManager for TLC. *)
EXTENDS LockManager, TLC

\* The kinds in order: address, user, user at an address.
MCKinds(i, u, p) == "ip" :> i @@ "user" :> u @@ "pair" :> p

MCMax   == MCKinds(2, 2, 1)
MCLock  == MCKinds(1, 1, 1)
MCReset == MCKinds(2, 2, 1)

Symmetric == Permutations(Login)
=============================================================================
