-------------------------------- MODULE MCRteRing --------------------------------
(* The ring with interchangeable objects: a caller hands in the lowest ones, in   *)
(* their order, since no step of RteRing looks at an object.                      *)
EXTENDS RteRing

Lowest ==
    {s \in Table(outside) :
        /\ \A i, j \in DOMAIN s : i < j => s[i] < s[j]
        /\ \A o \in outside \ In(s), i \in DOMAIN s : s[i] < o}

MCSpec == Init /\ [][NextWith(Lowest)]_vars /\ Fairness
=============================================================================
