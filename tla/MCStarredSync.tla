---------------------------- MODULE MCStarredSync ----------------------------
EXTENDS StarredSync

(* With full re-syncs, and without: there the tags are ordinary ones, or   *)
(* such as a refresh does not look for.                                    *)
MCSetting == { [fullEvery |-> TRUE, untrimmed |-> {}],
               [fullEvery |-> FALSE, untrimmed |-> {}],
               [fullEvery |-> FALSE, untrimmed |-> Tag] }

MCFull == { [fullEvery |-> TRUE, untrimmed |-> {}] }
=============================================================================
