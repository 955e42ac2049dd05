--------------------------- MODULE MCArtifactCache --------------------------
(* Small instances of ArtifactCache.  All artifacts have size 1 and the    *)
(* budget holds one or two of them, so that one more makes an eviction.    *)
EXTENDS ArtifactCache

CONSTANTS p1, p2, d1, d2, d3, d4

UnitSize == [d \in Digests |-> 1]

(* Every artifact may be released at every path.                           *)
AnyRelease == [p \in Paths |-> Digests]

(* p1 is updated and rolled back, p2 keeps the second artifact of p1.      *)
OneUpdate == (p1 :> {d1, d2}) @@ (p2 :> {d2})

(* More artifacts at p1 than the budget holds; p2 shares one of them and   *)
(* has one of its own.                                                     *)
Overlap == (p1 :> Digests \ {d4}) @@ (p2 :> {d3, d4})
=============================================================================
