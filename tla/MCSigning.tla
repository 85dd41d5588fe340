----------------------------- MODULE MCSigning -----------------------------
(* Small instances of Signing for TLC: 2-of-3.                             *)
EXTENDS Signing, TLC
CONSTANTS p1, p2, p3, r1, r2, r3, d1, d2

\* p1 and p2 are preferred, p3 is the cold party.
ColdLast == [p \in Party |-> IF p = p1 THEN 1 ELSE IF p = p2 THEN 2 ELSE 3]

\* Two requests for one transaction and one for another.
TwoOfThree == r1 :> d1 @@ r2 :> d1 @@ r3 :> d2
OneDigest  == r1 :> d1 @@ r2 :> d1

\* p2 denies d1; p3 denies d2.
Differing == p1 :> {d1, d2} @@ p2 :> {d2} @@ p3 :> {d1}
AllAllow  == [p \in Party |-> {d1, d2}]
=============================================================================
