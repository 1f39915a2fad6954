----------------------------- MODULE MCCatalogue -----------------------------
EXTENDS Catalogue, TLC
CONSTANTS a1, r1, v1, i1, u1, d1, d2, p1, p2
OneAoi == [r \in Record |-> a1]
OneVariable == [i \in Instance |-> v1]
OneRecord == [d \in Dataset |-> r1]
OneInstance == [d \in Dataset |-> i1]
OneUri == [d \in Dataset |-> u1]
Places == [d \in Dataset |-> IF d = d1 THEN p1 ELSE p2]
Symmetries == Permutations(Deletion) \cup Permutations(Client)
=============================================================================
