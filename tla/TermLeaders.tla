------------------------------ MODULE TermLeaders ------------------------------
(***************************************************************************)
(* What leader election promises its users, with no messages and no votes: *)
(* every node has a term that only grows, a node may take the lead of its  *)
(* term if the term has had no leader, and a leading node leads until it   *)
(* moves to a later term.                                                  *)
(***************************************************************************)
EXTENDS Naturals

CONSTANTS Node, MaxTerm

VARIABLES
    term,      \* the term each node is in
    leaders,   \* <<n, t>>: n took the lead of term t
    leading    \* the nodes that lead now

tlVars == <<term, leaders, leading>>

Init ==
    /\ term = [n \in Node |-> 0]
    /\ leaders = {}
    /\ leading = {}

\* n moves to a later term and no longer leads.
Advance(n) ==
    /\ \E t \in 0..MaxTerm : t > term[n] /\ term' = [term EXCEPT ![n] = t]
    /\ leading' = leading \ {n}
    /\ UNCHANGED leaders

\* n takes the lead of its term, as the first and only node.
Lead(n) ==
    /\ \A m \in Node : <<m, term[n]>> \notin leaders
    /\ leaders' = leaders \cup {<<n, term[n]>>}
    /\ leading' = leading \cup {n}
    /\ UNCHANGED term

Next == \E n \in Node : Advance(n) \/ Lead(n)

Spec == Init /\ [][Next]_tlVars
=============================================================================
