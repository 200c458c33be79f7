---------------------------- MODULE DatasetBundles -----------------------------
(***************************************************************************)
(* The scripts that freeze task manifests and write training and           *)
(* evaluation bundles (freeze_dataset_manifests.py, materialize_*.py,      *)
(* prepare_*.py), and the evaluation that reads such a bundle, validates   *)
(* it and is summarised from it (eval_entrypoint.py,                       *)
(* summarize_external_eval.py).                                            *)
(*                                                                         *)
(* A bundle is a directory of files written one after the other, the       *)
(* manifest last; a killed script leaves the rest of an older bundle       *)
(* beside its own files.  The bytes of a file are its tasks, the revision  *)
(* of the source they were taken from and its split name; a manifest's     *)
(* bytes are those of the files it describes.                              *)
(***************************************************************************)
EXTENDS TaskSelection, SequencesExt

CONSTANTS
  Pools,         \* the sources: sets of rows
  Revisions,     \* revisions of a source, which differ in the rows' contents
  Pinned,        \* the revision whose hash the frozen manifests record
  Tura(_),       \* the public DeepSWE panel of a source
  Small, Large, Panel, LargerPanel,           \* 128, 512, 50, 64 in the code
  SplitSizes,    \* [train, dev, pilot, debug, smoke]
  Training, Tiers, Repositories, LegacySizes, \* SWE-smith and legacy sizes
  CanarySize,
  MaxKills       \* bound: scripts killed

ASSUME BundleConstants ==
  /\ Pinned \in Revisions /\ MaxKills \in Nat
  /\ \A pool \in Pools :
       IsFiniteSet(pool) /\ \A r \in pool : RepoOf(r) \in Int /\ Root[Sizes(pool)[RepoOf(r)]] \in Nat \ {0}

\* What the scripts raise on otherwise.
ASSUME PanelSizes ==
  /\ Small \in Nat \ {0} /\ Large \in Nat /\ Small <= Large
  /\ Panel \in Nat \ {0} /\ LargerPanel \in Nat /\ Panel <= LargerPanel
ASSUME SplitsNest ==
  /\ SplitSizes \in [train : Nat, dev : Nat, pilot : Nat, debug : Nat, smoke : Nat \ {0}]
  /\ SplitSizes.smoke <= SplitSizes.debug /\ SplitSizes.debug <= SplitSizes.pilot
  /\ SplitSizes.pilot <= SplitSizes.train

\* "expected 0 < smoke_size <= fast_size <= full_size"
ASSUME TierSizes ==
  /\ Tiers \in [smoke : Nat \ {0}, fast : Nat, full : Nat]
  /\ Tiers.smoke <= Tiers.fast /\ Tiers.fast <= Tiers.full
  /\ LegacySizes \in [fast : Nat \ {0}, full : Nat]
  /\ LegacySizes.fast <= LegacySizes.full

\* No two rows, and no two repositories, of a source have the same hash.
ASSUME RanksDiffer ==
  \A pool \in Pools : \A q, r \in pool :
    /\ \A label \in {"r2e-task", "verified-task", "dev", "train", "pilot", "smoke", "debug-extra", "eval-task"} :
         Rank(label, q) \in Int /\ (Rank(label, q) = Rank(label, r) => q = r)
    /\ \A label \in {"eval-order", "verified-repo"} :
         /\ RepoRank(label, RepoOf(q)) \in Int
         /\ RepoRank(label, RepoOf(q)) = RepoRank(label, RepoOf(r)) => RepoOf(q) = RepoOf(r)

VARIABLES
  pipeline,  \* the scripts this behaviour runs; pipelines share only frozen manifests
  source,    \* the rows of the source
  disk,      \* [directory -> [file -> bytes]]
  script,    \* the script that is writing: directory, files left, their bytes
  eval,      \* the evaluation under way
  result,    \* its result.json
  summary,   \* summary.json
  kills

bundleVars == <<pipeline, source, disk, script, eval, result, summary, kills>>

Nothing == <<>>
Bytes(rows, rev, split) == [rows |-> rows, rev |-> rev, split |-> split]
Torn == Bytes({}, 0, "torn")

\* What is in a directory when a file has been written into it.
With(files, file, bytes) ==
  [f \in DOMAIN files \cup {file} |-> IF f = file THEN bytes ELSE files[f]]

Whole(dir, file) == file \in DOMAIN disk[dir] /\ disk[dir][file] # Torn

Directories == {"manifests", "train", "external", "canary", "splits", "smith_train", "smith_eval"}

-------------------------------------------------------------------------------
(* The frozen manifests. *)

\* verified64_manifest raises unless the larger panel preserves the smaller.
Preserves(panel, larger) == panel \subseteq larger

R2EManifest(tier) == Bytes(tier, Pinned, "train")

VerifiedManifest(rows, size) == Bytes(VerifiedPanel(rows, size), Pinned, "quick")

\* The public DeepSWE panel, if both fetched lists have the recorded hashes.
DeepSWEManifest(rows) == Bytes(Tura(rows), Pinned, "quick")

\* A source the script can freeze: the panels' sizes fit (dataset_selection.py:233),
\* and the tiers' (dataset_selection.py:128).
Freezable(rows) ==
  /\ Large <= Cardinality(rows)
  /\ Cardinality(ReposOf(rows)) <= Panel /\ LargerPanel <= Cardinality(rows)

\* The manifests of every source.
FrozenManifests ==
  [rows \in {pool \in Pools : Freezable(pool)} |->
     LET tiers == NestedSubsets(rows, Small, Large)
     IN [r2e_small |-> R2EManifest(tiers.small), r2e_large |-> R2EManifest(tiers.large),
         verified |-> VerifiedManifest(rows, Panel),
         verified_larger |-> VerifiedManifest(rows, LargerPanel),
         tura |-> DeepSWEManifest(rows)]]

\* The manifests the script writes before it raises, in order.
Written(manifests) ==
  <<"r2e_small", "r2e_large", "verified">> \o
  IF Preserves(manifests.verified.rows, manifests.verified_larger.rows)
    THEN <<"verified_larger", "tura">> ELSE <<>>

Kept(manifests) == [file \in Range(Written(manifests)) |-> manifests[file]]

\* The repository keeps the manifests that were frozen: only the freezing
\* itself starts without them.
BundleInit ==
  /\ pipeline \in {"freeze", "training", "evaluation", "splits", "smith"}
  /\ source \in Pools
  /\ pipeline \in {"freeze", "training", "evaluation"} => Freezable(source)
  /\ disk = [d \in Directories |->
               IF d = "manifests" /\ pipeline \in {"training", "evaluation"}
                 THEN Kept(FrozenManifests[source])
                 ELSE Nothing]
  /\ script = Nothing /\ eval = Nothing /\ result = Nothing /\ summary = Nothing
  /\ kills = 0

-------------------------------------------------------------------------------
(* Writing a bundle. *)

\* A script has read its inputs and starts to write `files`, in order.
Start(dir, files, bytes) ==
  /\ script = Nothing
  /\ script' = [dir |-> dir, left |-> files, bytes |-> bytes]
  /\ UNCHANGED <<pipeline, source, disk, eval, result, summary, kills>>

\* A bundle's manifest describes the files written before it.
StartBundle(dir, files, bytes) ==
  Start(dir, Append(files, "manifest"), With(bytes, "manifest", bytes))

\* An evaluation that is reading the directory, for the properties only.
Noticed(dir) ==
  IF eval # Nothing /\ eval.dir = dir THEN [eval EXCEPT !.replaced = TRUE] ELSE eval

WriteFile ==
  /\ script # Nothing
  /\ LET file == Head(script.left)
         left == Tail(script.left)
     IN /\ disk' = [disk EXCEPT ![script.dir] = With(@, file, script.bytes[file])]
        /\ script' = IF left = <<>> THEN Nothing ELSE [script EXCEPT !.left = left]
        /\ eval' = Noticed(script.dir)
  /\ UNCHANGED <<pipeline, source, result, summary, kills>>

\* External: the script dies while it writes a file, or just before.
Killed ==
  /\ script # Nothing /\ kills < MaxKills
  /\ kills' = kills + 1
  /\ script' = Nothing
  /\ \/ UNCHANGED <<disk, eval>>
     \/ /\ disk' = [disk EXCEPT ![script.dir] = With(@, Head(script.left), Torn)]
        /\ eval' = Noticed(script.dir)
  /\ UNCHANGED <<pipeline, source, result, summary>>

-------------------------------------------------------------------------------
(* Freezing the manifests. *)

\* External: the public panel cannot be fetched, or its hash has changed.
Freeze(manifests) ==
  LET files == Written(manifests) IN
  \/ Start("manifests", files, manifests)
  \/ "tura" \in Range(files) /\ Start("manifests", Front(files), manifests)

\* freeze_dataset_manifests
FreezeManifests ==
  /\ pipeline = "freeze"
  /\ Freeze(FrozenManifests[source])

-------------------------------------------------------------------------------
(* Bundles made from a frozen manifest. *)

\* materialize_r2e_manifest: the rows of the manifest, looked up in the source.
\* Only identifiers and images are compared with the manifest's.
MaterializeTraining ==
  /\ pipeline = "training"
  /\ \E tier \in {"r2e_small", "r2e_large"}, rev \in Revisions :
       /\ Whole("manifests", tier)
       /\ disk["manifests"][tier].rows \subseteq source
       /\ StartBundle("train", <<"train">>,
                      [train |-> Bytes(disk["manifests"][tier].rows, rev, "train")])

\* The tasks of a frozen panel, all of which the source has, and all its tasks.
EvaluationBundle(panel, rev) ==
  /\ pipeline = "evaluation"
  /\ Whole("manifests", panel)
  /\ disk["manifests"][panel].rows \subseteq source
  /\ StartBundle("external", <<"quick", "full">>,
                 [quick |-> Bytes(disk["manifests"][panel].rows, rev, "quick"),
                  full |-> Bytes(source, rev, "full")])

\* materialize_swebench_verified does not ask for the source's revision.
MaterializeVerified ==
  \E panel \in {"verified", "verified_larger"}, rev \in Revisions : EvaluationBundle(panel, rev)

\* The hashes of the official list and of the task tree are compared.
PinnedTasks(rev) == rev = Pinned

\* materialize_deepswe_eval
MaterializeDeepSWE == \E rev \in Revisions : PinnedTasks(rev) /\ EvaluationBundle("tura", rev)

-------------------------------------------------------------------------------
(* Reading a bundle. *)

\* Fault: a file is accepted on its task identifiers alone.
BytesIgnored(file, expected) == TRUE

BytesMatch(file, expected) == file = expected

IdentifiersMatch(bytes, expected) == bytes.rows = expected.rows

\* materialize_external_eval_canary: some rows of a validated split, as "quick".
MaterializeCanary ==
  /\ pipeline = "evaluation"
  /\ Whole("external", "manifest")
  /\ \E split \in {"quick", "full"} :
       /\ Whole("external", split)
       /\ LET file == disk["external"][split]
              expected == disk["external"]["manifest"][split]
          IN /\ IdentifiersMatch(file, expected)
             /\ BytesMatch(file, expected)
             /\ StartBundle("canary", <<"quick">>,
                  [quick |-> Bytes(FirstOf(file.rows, CanarySize, "canary"), file.rev, "quick")])

\* main loads the parquet file ...  Bound: one evaluation finishes.
LoadRows(dir, split) ==
  /\ eval = Nothing /\ result = Nothing
  /\ Whole(dir, split)
  /\ eval' = [at |-> "manifest", dir |-> dir, split |-> split, bytes |-> disk[dir][split],
              manifest |-> Nothing, replaced |-> FALSE]
  /\ UNCHANGED <<pipeline, source, disk, script, result, summary, kills>>

\* ... validate_runtime_dataset then reads the manifest and compares the
\* identifiers, ...
ReadManifest ==
  /\ eval # Nothing /\ eval.at = "manifest"
  /\ eval' = IF /\ Whole(eval.dir, "manifest")
                /\ eval.split \in DOMAIN disk[eval.dir]["manifest"]
                /\ IdentifiersMatch(eval.bytes, disk[eval.dir]["manifest"][eval.split])
               THEN [eval EXCEPT !.at = "bytes", !.manifest = disk[eval.dir]["manifest"]]
               ELSE Nothing
  /\ UNCHANGED <<pipeline, source, disk, script, result, summary, kills>>

\* ... and hashes the file again.
ValidateBytes ==
  /\ eval # Nothing /\ eval.at = "bytes"
  /\ eval' = IF BytesMatch(disk[eval.dir][eval.split], eval.manifest[eval.split])
               THEN [eval EXCEPT !.at = "running"]
               ELSE Nothing
  /\ UNCHANGED <<pipeline, source, disk, script, result, summary, kills>>

\* _write_result: the hash it records is that of the manifest on disk by then.
Finish ==
  /\ eval # Nothing /\ eval.at = "running"
  /\ eval' = Nothing
  /\ result' = [split |-> eval.split, bytes |-> eval.bytes, validated |-> eval.manifest,
                replaced |-> eval.replaced, hash |-> disk[eval.dir]["manifest"]]
  /\ UNCHANGED <<pipeline, source, disk, script, summary, kills>>

\* External: the evaluation's driver dies.
EvaluationDies ==
  /\ eval # Nothing
  /\ eval' = Nothing
  /\ UNCHANGED <<pipeline, source, disk, script, result, summary, kills>>

\* build_external_eval_summary raises otherwise.
Reportable(manifest) ==
  /\ result.split = "full"
  /\ {"quick", "full"} \subseteq DOMAIN manifest
  /\ IdentifiersMatch(result.bytes, manifest["full"])
  /\ manifest["quick"].rows \subseteq result.bytes.rows

\* summarize_external_eval
Summarize(dir) ==
  /\ result # Nothing
  /\ Whole(dir, "manifest")
  /\ LET manifest == disk[dir]["manifest"] IN
       /\ result.hash = manifest
       /\ Reportable(manifest)
       /\ summary' = [full |-> result.bytes, quick |-> manifest["quick"].rows,
                      manifest |-> manifest, replaced |-> result.replaced]
  /\ UNCHANGED <<pipeline, source, disk, script, eval, result, kills>>

-------------------------------------------------------------------------------
(* Bundles selected and written by one script. *)

\* prepare_r2e_splits
PrepareSplits ==
  /\ pipeline = "splits"
  /\ Cardinality(source) >= SplitSizes.train + SplitSizes.dev
  /\ LET rows == Splits(source, SplitSizes)
     IN StartBundle("splits", <<"train", "dev", "pilot", "debug", "smoke">>,
                    [s \in DOMAIN rows |-> Bytes(rows[s], Pinned, s)])

\* select_debug_tasks and write_debug_bundle
PrepareSmithTraining ==
  /\ pipeline = "smith"
  /\ Cardinality(Eligible(source, Training, Repositories)) >= Repositories
  /\ LET rows == DebugTasks(source, Repositories, Training)
     IN /\ Cardinality(rows) = Training
        /\ StartBundle("smith_train", <<"debug", "debug_repeat">>,
                       [s \in {"debug", "debug_repeat"} |-> Bytes(rows, Pinned, s)])

\* prepare_coding_opd_eval, given the training file to exclude.
PrepareSmithEvaluation ==
  /\ pipeline = "smith"
  /\ Whole("smith_train", "debug")
  /\ LET trained == disk["smith_train"]["debug"].rows
         tiers == EvalTiers(source, trained, Repositories, Tiers)
         verified == LegacyVerified(source, LegacySizes)
     IN /\ Cardinality(Eligible(source \ trained, Tiers.full, Repositories)) >= Repositories
        /\ Cardinality(tiers.full) = Tiers.full /\ LegacySizes.full <= Cardinality(source)
        /\ StartBundle("smith_eval",
             <<"smoke_swesmith", "fast_swesmith", "full_swesmith", "fast_verified", "full_verified">>,
             [smoke_swesmith |-> Bytes(tiers.smoke, Pinned, "smoke"),
              fast_swesmith |-> Bytes(tiers.fast, Pinned, "fast"),
              full_swesmith |-> Bytes(tiers.full, Pinned, "full"),
              fast_verified |-> Bytes(verified.fast, Pinned, "fast"),
              full_verified |-> Bytes(verified.full, Pinned, "full")])

-------------------------------------------------------------------------------
BundleNext ==
  \/ WriteFile \/ Killed
  \/ FreezeManifests \/ MaterializeTraining \/ MaterializeVerified \/ MaterializeDeepSWE \/ MaterializeCanary
  \/ PrepareSplits \/ PrepareSmithTraining \/ PrepareSmithEvaluation
  \/ \E dir \in {"external", "canary"}, split \in {"quick", "full"} : LoadRows(dir, split)
  \/ ReadManifest \/ ValidateBytes \/ Finish \/ EvaluationDies
  \/ \E dir \in {"external", "canary"} : Summarize(dir)

BundleSpec == BundleInit /\ [][BundleNext]_bundleVars

-------------------------------------------------------------------------------
(* Properties. *)

Rows(dir, file) == disk[dir][file].rows
Count(rows, repo) == Cardinality(OfRepo(rows, repo))
Nested(dir, inner, outer) ==
  Whole(dir, inner) /\ Whole(dir, outer) => Rows(dir, inner) \subseteq Rows(dir, outer)
Sized(dir, size) ==
  \A file \in DOMAIN size : Whole(dir, file) => Cardinality(Rows(dir, file)) = size[file]

TiersNest ==
  /\ Sized("manifests", [r2e_small |-> Small, r2e_large |-> Large,
                         verified |-> Panel, verified_larger |-> LargerPanel])
  /\ Nested("manifests", "r2e_small", "r2e_large")
  /\ Nested("manifests", "verified", "verified_larger")
  /\ \A panel \in {"verified", "verified_larger"} :
       Whole("manifests", panel) => ReposOf(Rows("manifests", panel)) = ReposOf(source)

\* A repository has its share of the development rows, to within one seat.
SharesAreFair ==
  Whole("splits", "dev") =>
    \A repo \in ReposOf(source) :
      LET share == SplitSizes.dev * Count(source, repo)
          seats == Count(Rows("splits", "dev"), repo) * Cardinality(source)
      IN share - seats < Cardinality(source) /\ seats - share < Cardinality(source)

SplitsAreDisjoint ==
  /\ Sized("splits", SplitSizes)
  /\ Whole("splits", "train") /\ Whole("splits", "dev") =>
       Rows("splits", "train") \cap Rows("splits", "dev") = {}
  /\ Nested("splits", "pilot", "train") /\ Nested("splits", "debug", "pilot")
  /\ Nested("splits", "smoke", "debug")

EvaluationIsUnseen ==
  /\ Sized("smith_eval", [smoke_swesmith |-> Tiers.smoke, fast_swesmith |-> Tiers.fast,
                          full_swesmith |-> Tiers.full, fast_verified |-> LegacySizes.fast,
                          full_verified |-> LegacySizes.full])
  /\ Whole("smith_eval", "full_swesmith") /\ Whole("smith_train", "debug") =>
       Rows("smith_eval", "full_swesmith") \cap Rows("smith_train", "debug") = {}

(* Whatever the sizes of the repositories, every selection has exactly the   *)
(* tasks asked for: the tiers nest although each is apportioned by itself,   *)
(* every repository stays visible in a panel, development and training rows  *)
(* are disjoint, shares are fair and no evaluated task was trained on        *)
(* (dataset_selection.py:28, r2e_data.py:159, swesmith_data.py:134).         *)
SelectionsAreExact ==
  TiersNest /\ SharesAreFair /\ SplitsAreDisjoint /\ EvaluationIsUnseen

(* A smaller evaluation tier covers the repositories of the full one as      *)
(* evenly as its size allows: a repository is behind another by more than    *)
(* one task only when it has no more (swesmith_data.py:156,                  *)
(* prepare_coding_opd_eval.py:106).                                          *)
PrefixesAreBalanced ==
  \A tier \in {<<"smoke_swesmith", "full_swesmith">>, <<"fast_swesmith", "full_swesmith">>,
               <<"fast_verified", "full_verified">>} :
    Whole("smith_eval", tier[1]) /\ Whole("smith_eval", tier[2]) =>
      LET some == Rows("smith_eval", tier[1])
          all == Rows("smith_eval", tier[2])
      IN /\ some \subseteq all
         /\ \A j, k \in ReposOf(all) :
              Count(some, k) + 1 >= Count(some, j) \/ Count(some, k) = Count(all, k)

(* An evaluation runs the rows its validated manifest describes, byte for    *)
(* byte, unless the bundle is written again while it runs; and a summary     *)
(* always scores all tasks of the manifest it names and, as the quick score, *)
(* a frozen panel of them, whichever scripts were killed in between          *)
(* (eval_entrypoint.py:56, summarize_external_eval.py:24).                   *)
EvaluationsAreOfFrozenTasks ==
  /\ result # Nothing /\ ~result.replaced =>
       result.bytes = result.validated[result.split] /\ result.hash = result.validated
  /\ summary # Nothing =>
       /\ summary.full.rows = summary.manifest["full"].rows
       /\ ~summary.replaced => summary.full = summary.manifest["full"]
       /\ \E panel \in {"verified", "verified_larger", "tura"} :
            /\ panel \in DOMAIN disk["manifests"]
            /\ disk["manifests"][panel] = Torn \/ summary.quick = Rows("manifests", panel)
===============================================================================
