--------------------------- MODULE MCDatasetBundles ----------------------------
(* A small instance of DatasetBundles: three repositories of one to five     *)
(* rows.  Hashes are replaced by permutations that differ from label to      *)
(* label.                                                                    *)
EXTENDS DatasetBundles

MCShapes == {<<1, 2, 5>>, <<5, 5, 2>>, <<4, 4, 1>>}
MCPools == {{<<k, n>> : k \in 1 .. 3, n \in 1 .. 5} \cap
              UNION {{<<k, n>> : n \in 1 .. shape[k]} : k \in 1 .. 3} : shape \in MCShapes}

MCFactor(label) ==
  CASE label = "eval-repo" -> 2 [] label = "repo" -> 3 [] label = "dev" -> 5
    [] label = "train" -> 7 [] label = "r2e-task" -> 11 [] label = "verified-task" -> 13
    [] label = "eval-task" -> 6 [] OTHER -> 1
MCRank(label, row) == (MCFactor(label) * (5 * row[1] + row[2])) % 23
MCRepoRank(label, repo) == (MCFactor(label) * repo) % 5

MCComplexity(row) == <<row[2] % 3, (row[1] * row[2]) % 4>>
MCRoot == <<1000, 1414, 1732, 2000, 2236>>
MCTura(rows) == {row \in rows : row[2] = 1}

MCSplitSizes == [train |-> 5, dev |-> 2, pilot |-> 4, debug |-> 3, smoke |-> 1]
MCTiers == [smoke |-> 2, fast |-> 3, full |-> 4]
MCLegacySizes == [fast |-> 4, full |-> 6]
===============================================================================
