----------------------------- MODULE MCCodexEval ------------------------------
(* Identities for model checking CodexEval: a base configuration, one with   *)
(* other resources, one with other orchestration code and task config, and   *)
(* one with other evaluation semantics.                                      *)
EXTENDS CodexEval, TLC

Base == [code |-> "sha1", config |-> "cfg1", semantics |-> "xhigh", resources |-> "4gpu"]

MCIdentities ==
  {Base,
   [Base EXCEPT !.resources = "8gpu"],
   [Base EXCEPT !.code = "sha2", !.config = "cfg2"],
   [Base EXCEPT !.semantics = "high"]}

MCSymmetry == Permutations(Tasks) \cup Permutations(Dirs) \cup Permutations(Replicas)
===============================================================================
