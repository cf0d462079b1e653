----------------------------- MODULE MCPublications -----------------------------
EXTENDS Publications, TLC

CONSTANTS r1, r2, e1, e2

\* Two weeks that overlap; the first is one or the other employee's.
MCFirst == [r \in Runs |-> IF r = r1 THEN 1 ELSE 5]
MCLast == [r \in Runs |-> IF r = r1 THEN 7 ELSE 11]
MCResults ==
  [r \in Runs |-> IF r = r1 THEN {{<<e1, 6>>}, {<<e2, 6>>}} ELSE {{<<e1, 6>>}}]

Symmetric == Permutations(Clients)
=============================================================================
