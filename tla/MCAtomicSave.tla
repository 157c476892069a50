---------------------------- MODULE MCAtomicSave ----------------------------
(***************************************************************************)
(* Small instances of AtomicSave.  Where links work, w1 replaces and the   *)
(* others do not; where they do not, no call replaces or all do.           *)
(***************************************************************************)
EXTENDS AtomicSave

CONSTANTS w1, w2, w3

Fs(links, replacing) ==
  {[links |-> links, unix |-> unix, replacing |-> replacing, exists |-> exists] :
     unix \in BOOLEAN, exists \in BOOLEAN}

UniformScenarios == Fs(TRUE, {w1}) \union Fs(FALSE, {}) \union Fs(FALSE, Writer)

MixedScenarios == Fs(FALSE, {w1})
=============================================================================
