------------------------------ MODULE MCTextIndex ------------------------------
EXTENDS TextIndex, TLC

Bounds(nRuns, nBuilds, nChanges, nFaults) ==
  [runs |-> nRuns, builds |-> nBuilds, changes |-> nChanges, faults |-> nFaults,
   limits |-> 0, searches |-> 0, queries |-> 0, refreshes |-> 0]

(* The texts of two runs and their rate limits; two runs with a story      *)
(* unstarred and starred again meanwhile; the builds of two runs and one   *)
(* by hand; and searches, and a story_query whose snapshot is built, while *)
(* the index is swapped: each with a mutation, and with a refresh and a    *)
(* fault.                                                                  *)
MCBudget == { [Bounds(2, 0, 0, 1) EXCEPT !.limits = 5],
              Bounds(2, 0, 2, 0),
              Bounds(2, 1, 1, 1),
              [Bounds(2, 1, 0, 1) EXCEPT !.refreshes = 1],
              [Bounds(1, 1, 1, 0) EXCEPT !.searches = 3],
              [Bounds(1, 1, 0, 1) EXCEPT !.searches = 3, !.refreshes = 1],
              [Bounds(1, 1, 1, 0) EXCEPT !.queries = 1],
              [Bounds(1, 1, 0, 1) EXCEPT !.queries = 1, !.refreshes = 1] }

(* One run and one burst after the other.                                  *)
MCBursts == { [Bounds(1, 0, 0, 0) EXCEPT !.limits = 5] }

Sym == Permutations(Search)
=============================================================================
