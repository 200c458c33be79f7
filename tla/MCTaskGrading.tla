---------------------------- MODULE MCTaskGrading --------------------------------
(* Edits, expectations and test outputs of TaskGrading for model checking. *)
EXTENDS TaskGrading

Edit(a, b, tests, committed) ==
  [file |-> [f \in Files |-> IF f = "a" THEN a ELSE IF f = "b" THEN b ELSE tests],
   committed |-> committed]

\* Work that applies, half of which applies, that needs fuzz, that does not
\* apply, and work on the tests.
SomeEdits ==
  {Edit("clean", "same", "same", TRUE), Edit("clean", "fuzzy", "same", FALSE),
   Edit("clean", "broken", "same", TRUE), Edit("clean", "same", "clean", FALSE)}

\* All pass, or one is expected to fail.
SomeExpectations ==
  {[t \in Required |-> "PASSED"], [t \in Required |-> IF t = "f2p" THEN "FAILED" ELSE "PASSED"]}

\* Nothing, all good, a failure, one test twice, an additional test.
SomeOutputs ==
  {<<>>, <<<<"f2p", "PASSED">>, <<"p2p", "PASSED">>>>, <<<<"p2p", "PASSED">>, <<"f2p", "FAILED">>>>,
   <<<<"f2p", "PASSED">>, <<"f2p", "FAILED">>, <<"p2p", "PASSED">>>>,
   <<<<"f2p", "PASSED">>, <<"p2p", "PASSED">>, <<"other", "FAILED">>>>}
===============================================================================
