------------------------------ MODULE MCCapture ------------------------------
EXTENDS Capture

CONSTANTS s1, s2, f1, f2

(* One story from before the first scan, one from after it; one pair that  *)
(* never succeeds.                                                         *)
MCDate == [s \in {s1, s2} |-> IF s = s1 THEN 0 ELSE 1]
MCBad == {<<s2, f1>>}
=============================================================================
