---------------------------- MODULE MCTrainingJob --------------------------------
(* Settings of TrainingJob for model checking. *)
EXTENDS TrainingJob

\* Every setting of every part, though not with every setting of the others.
Diagonal ==
  {<<s, [multi_sender |-> s.teacher, rebuild_group |-> s.budget],
     [fsdp |-> IF s.validated THEN 2 ELSE 1, defer |-> s.caches]>> : s \in {t \in Startups : t.budget = t.caches}}
===============================================================================
