----------------------------- MODULE MCPlacement -----------------------------
(* Caches for TLC.                                                         *)
EXTENDS PlacementReversal

Cache(command, kind, index_bits, ways, f) ==
    [command |-> command, strategy |-> kind, index_bits |-> index_bits, ways |-> ways, place |-> f]

Modular(n) == [a \in Addr |-> a % n]
\* A placement that is not modular, with four sets not even affine.
Folded(n) == [a \in Addr |-> (a + a \div n) % n]
Bent == [a \in Addr |-> IF a = Addresses - 1 THEN 1 ELSE 0]

\* Two sets of two ways and four sets of one way, with exactly the lines they need.
Searches ==
    UNION {{Cache("locate", kind, 1, 2, f) : f \in {Modular(2), Folded(2)}}
           \cup {Cache("locate", kind, 2, 1, f) : f \in {Modular(4), Folded(4)}} :
             kind \in {"eviction_set", "cisw"}}

\* Every linear function to two sets, half of them with a translation, and an affine
\* one to four sets.
Masked(mask, a) == Parity(mask & a)
Affine1 == {[a \in Addr |-> (Masked(mask, a) + mask \div 2) % 2] : mask \in 0..(Addresses - 1)}
Affine2 == {[a \in Addr |-> 1 - Masked(5, a) + 2 * Masked(3, a)]}
Placements ==
    {Cache("placement", "cisw", 1, 2, f) : f \in Affine1 \cup {Bent}}
    \cup {Cache("placement", "cisw", 2, 1, f) : f \in Affine2}

AllCaches == Searches \cup Placements
=============================================================================
