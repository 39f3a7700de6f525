----------------------------- MODULE MCSession -----------------------------
(* Small instances of Session for TLC. *)
EXTENDS Session, TLC

CONSTANTS t1, t2, u1, u2

\* The sessions of the instances: one of one user, or one of each of two users.
MCOneSession == t1 :> u1
MCTwoUsers   == t1 :> u1 @@ t2 :> u2

\* Requests and addresses are interchangeable, and so are the sessions of two users, each
\* with its user.
MCUsersSwapped == t1 :> t2 @@ t2 :> t1 @@ u1 :> u2 @@ u2 :> u1
MCUsersKept    == [x \in {t1, t2, u1, u2} |-> x]
MCSymmetry     == {p @@ q @@ u : p \in Permutations(Req), q \in Permutations(Ip),
                                 u \in {MCUsersSwapped, MCUsersKept}}
=============================================================================
