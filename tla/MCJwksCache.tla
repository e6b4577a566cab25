---------------------------- MODULE MCJwksCache ----------------------------
(* Instances of JwksCache: a rotation from k1 to k2, by way of both, and a    *)
(* document with a malformed key beside k2.                                   *)

EXTENDS JwksCache, TLC

CONSTANTS k1, k2

K == INSTANCE KeySource

Key(k) == [rsa |-> TRUE, sig |-> TRUE, ok |-> TRUE, kid |-> {k}]
NoKid == [Key(k1) EXCEPT !.kid = {}]
Spoiled == [NoKid EXCEPT !.ok = FALSE]
Other(k) == [Key(k) EXCEPT !.rsa = FALSE, !.ok = FALSE]

Documents == { {Key(k1), Other(k2)}, {Key(k1), Key(k2), NoKid}, {Key(k2)},
               {Key(k2), Spoiled} }
Rotation == {K!Usable(doc) : doc \in Documents}

\* Callers are alike.
CallersAlike == Permutations(Caller)
=============================================================================
