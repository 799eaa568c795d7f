----------------------------- MODULE MCManifest -----------------------------
EXTENDS Manifest, TLC

Sym == Permutations(Proc)
=============================================================================
