--------------------------- MODULE MCControlPlane ---------------------------
(* Instances of ControlPlane: one connection whose request may be repeated, a *)
(* provider that rotates from k1 to k2, and tokens of which one is good to    *)
(* the end, one expires early and the others have one fault each.             *)

EXTENDS ControlPlane, TLC

CONSTANTS c1, k1, k2, duck, other, idp, alice

OneConnection == {c1}
Requests == OneConnection \X Tries
Kids == {k1, k2}
Rotation == {{k1}, {k2}}
Alike == Permutations(Tries)

Valid == [alg |-> "RSA", kid |-> {k1}, signer |-> k1, aud |-> {duck, other},
          iss |-> {idp}, sub |-> {alice}, exp |-> MaxTime + 1]

SomeTokens == { Valid,
                [Valid EXCEPT !.exp = 1],
                [Valid EXCEPT !.signer = k2],
                [Valid EXCEPT !.alg = "HMAC"],
                [Valid EXCEPT !.kid = {}],
                [Valid EXCEPT !.aud = {other}],
                [Valid EXCEPT !.iss = {}],
                [Valid EXCEPT !.sub = {}] }
=============================================================================
