------------------------------ MODULE MCServer ------------------------------
\* An instance of Server for TLC; requests, processes and applications are alike.
EXTENDS Server, TLC

CONSTANTS list, shelf

Budget(l, p, c, s, e) ==
  [login |-> l, programme |-> p, content |-> c, store |-> s, event |-> e]

\* Each part on its own, then readers of the catalogue with the store's other callers,
\* and one request of each part of the panel and the app at once.
MCBudgets ==
  {Budget(5, 0, 0, 0, 1), Budget(1, 4, 0, 0, 1), Budget(0, 0, 3, 0, 0), Budget(0, 0, 2, 0, 1),
   Budget(0, 0, 0, 3, 3), Budget(0, 0, 1, 1, 1), Budget(1, 1, 1, 0, 1)}

\* A list of products, and the products of a collection.
MCMatching == [p \in 1 .. 4 |-> IF p = 1 THEN {list} ELSE IF p = 3 THEN {shelf} ELSE {}]

MCSymmetry ==
  Permutations(Requests) \cup Permutations(Processes) \cup Permutations(Applications)
=============================================================================
