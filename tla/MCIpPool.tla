------------------------------ MODULE MCIpPool ------------------------------
(* Small instances of IpPool for TLC. *)
EXTENDS IpPool, TLC

CONSTANTS c1, c2, c3, m1, m2, m3, u1, u2

\* Two devices with a MAC address each.
MCTwoMacs  == c1 :> m1 @@ c2 :> m2
MCUnique   == c1 :> TRUE @@ c2 :> TRUE
MCTwoUsers == c1 :> u1 @@ c2 :> u2

\* Two sessions of a device with a MAC address, and one of a device without, all
\* of one user.
MCShared       == c1 :> m1 @@ c2 :> m1 @@ c3 :> m3
MCSharedUnique == c1 :> TRUE @@ c2 :> TRUE @@ c3 :> FALSE
MCOneUser      == c1 :> u1 @@ c2 :> u1 @@ c3 :> u1

IdSymmetry == Permutations(RowId)

\* The two sessions of MCShared are interchangeable.
SharedSymmetry == {p @@ q : p \in Permutations(RowId), q \in Permutations({c1, c2})}
=============================================================================
