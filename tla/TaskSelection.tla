----------------------------- MODULE TaskSelection -----------------------------
(***************************************************************************)
(* How tasks are selected from the benchmark sources: quotas by largest    *)
(* remainder and nested training tiers (dataset_selection.py), disjoint    *)
(* training splits (r2e_data.py), round-robin evaluation tiers             *)
(* (swesmith_data.py, prepare_coding_opd_eval.py).                         *)
(*                                                                         *)
(* A row is <<repository, number>>; repositories are numbered in the order *)
(* of their names.  The hashes that rank rows and repositories are any     *)
(* injective functions; shares are compared as exact fractions.            *)
(***************************************************************************)
EXTENDS Integers, FiniteSets, FiniteSetsExt, Functions

CONSTANTS
  Rank(_, _),     \* stable_rank or _rank of a row, by label
  RepoRank(_, _), \* _rank of a repository, by label
  Complexity(_),  \* R2E_COMPLEXITY_FIELDS of a row, a tuple
  Root            \* [sizes -> size ** 0.5, in thousandths]

RepoOf(row) == row[1]
OfRepo(rows, repo) == {r \in rows : RepoOf(r) = repo}
ReposOf(rows) == {RepoOf(r) : r \in rows}
Sizes(rows) == [k \in ReposOf(rows) |-> Cardinality(OfRepo(rows, k))]

\* The seats of an allocation, numbered by key.
Seating(f) == UNION {{<<k, n>> : n \in 1 .. f[k]} : k \in DOMAIN f}
Total(f) == Cardinality(Seating(f))
Least(a, b) == IF a < b THEN a ELSE b

\* sorted(rows, key=rank)[:n]
FirstOf(rows, n, label) ==
  {r \in rows : Cardinality({q \in rows : Rank(label, q) < Rank(label, r)}) < n}

-------------------------------------------------------------------------------
(* Quotas.  An operator marked "Fault:" is a plausible bug in the definition
   that follows it; no specification here uses it. *)

\* largest_remainder_quotas: floors, then one seat at a time to the key with
\* the largest deficit, the smallest key among equals, while there is room.
Share(weight, total, capacity, k) == IF capacity[k] > 0 THEN total * weight[k] ELSE 0

\* The weight of the keys that have room.
PositiveWeight(weight, capacity) == Total([k \in {j \in DOMAIN weight : capacity[j] > 0} |-> weight[k]])

Floors(weight, total, capacity) ==
  LET whole == PositiveWeight(weight, capacity)
  IN [k \in DOMAIN weight |->
        IF capacity[k] > 0 THEN Least(capacity[k], Share(weight, total, capacity, k) \div whole) ELSE 0]

\* The key that takes the next seat; deficits are counted in units of 1/whole.
Selected(weight, total, capacity, quotas) ==
  LET whole == PositiveWeight(weight, capacity)
      Deficit(k) == Share(weight, total, capacity, k) - quotas[k] * whole
      candidates == {k \in DOMAIN weight : quotas[k] < capacity[k]}
  IN CHOOSE k \in candidates :
       \A j \in candidates : Deficit(k) > Deficit(j) \/ (Deficit(k) = Deficit(j) /\ k <= j)

LargestRemainder(weight, total, capacity) ==
  LET floors == Floors(weight, total, capacity)
      allocated[n \in Nat] ==
        IF n = 0 THEN floors
        ELSE [allocated[n - 1] EXCEPT ![Selected(weight, total, capacity, allocated[n - 1])] = @ + 1]
  IN allocated[total - Total(floors)]

\* temperature_repo_quotas with alpha = 0.5
RootWeights(sizes) == [k \in DOMAIN sizes |-> Root[sizes[k]]]

\* _repo_quotas: floors of the proportional share, then one more for the
\* repositories with the largest fractions; one pass over them is enough.
RepoQuotas(rows, size) ==
  LET len == Sizes(rows)
      all == Cardinality(rows)
      floors == [k \in DOMAIN len |-> (size * len[k]) \div all]
      Fraction(k) == size * len[k] - floors[k] * all
      ahead == [k \in DOMAIN len |->
                  Cardinality({j \in DOMAIN len : Fraction(j) > Fraction(k)
                                 \/ (Fraction(j) = Fraction(k) /\ j < k)})]
  IN [k \in DOMAIN len |->
        IF ahead[k] < size - Total(floors) /\ floors[k] < len[k] THEN floors[k] + 1 ELSE floors[k]]

-------------------------------------------------------------------------------
(* The R2E training tiers. *)

\* _complexity_bins: four bins of equal frequency over the mean percentile.
Bin(rows, row) ==
  LET Score(r) == MapThenSumSet(
                    LAMBDA f : Cardinality({q \in rows : Complexity(q)[f] <= Complexity(r)[f]}),
                    DOMAIN Complexity(r))
      position == Cardinality({q \in rows : Score(q) < Score(row)
                     \/ (Score(q) = Score(row) /\ Rank("complexity-tie", q) < Rank("complexity-tie", row))})
  IN Least(3, (position * 4) \div Cardinality(rows))

Bins == 0 .. 3

\* The quotas of both tiers; the small one's are filled from the large one's.
NestedQuotas(weight, small, large, capacity) ==
  LET outer == LargestRemainder(weight, large, capacity)
  IN [large |-> outer, small |-> LargestRemainder(weight, small, outer)]

\* One tier within one repository, by strata of equal complexity.
RepositoryTier(rows, tier, small, large) ==
  LET binned == {<<Bin(rows, r), r>> : r \in rows}
      Stratum(b) == {r \in rows : <<b, r>> \in binned}
      size == [b \in Bins |-> Cardinality(Stratum(b))]
      quota == NestedQuotas(size, small, large, size)[tier]
  IN UNION {FirstOf(Stratum(b), quota[b], "r2e-task") : b \in Bins}

\* build_nested_r2e_subsets
NestedSubsets(rows, small, large) ==
  LET len == Sizes(rows)
      quota == NestedQuotas(RootWeights(len), small, large, len)
  IN [tier \in {"small", "large"} |->
        UNION {RepositoryTier(OfRepo(rows, k), tier, quota.small[k], quota.large[k]) : k \in DOMAIN len}]

-------------------------------------------------------------------------------
(* The R2E splits. *)

\* stratified_select
Stratified(rows, size, label) ==
  LET quota == RepoQuotas(rows, size)
  IN UNION {FirstOf(OfRepo(rows, k), quota[k], label) : k \in DOMAIN quota}

\* Fault: the training rows are chosen from the whole pool.
WithDev(rows, dev) == rows

WithoutDev(rows, dev) == rows \ dev

\* build_r2e_splits; sizes is [train, dev, pilot, debug, smoke].
Splits(rows, sizes) ==
  LET dev == Stratified(rows, sizes.dev, "dev")
      train == Stratified(WithoutDev(rows, dev), sizes.train, "train")
      pilot == Stratified(train, sizes.pilot, "pilot")
      smoke == Stratified(pilot, sizes.smoke, "smoke")
      extra == IF pilot = smoke THEN {} ELSE Stratified(pilot \ smoke, sizes.debug - sizes.smoke, "debug-extra")
  IN [train |-> train, dev |-> dev, pilot |-> pilot, debug |-> smoke \cup extra, smoke |-> smoke]

-------------------------------------------------------------------------------
(* Evaluation panels and tiers. *)

\* select_verified_quick: a seat for every repository, the rest in proportion.
VerifiedPanel(rows, size) ==
  LET len == Sizes(rows)
      extra == LargestRemainder(len, size - Cardinality(DOMAIN len), [k \in DOMAIN len |-> len[k] - 1])
  IN UNION {FirstOf(OfRepo(rows, k), extra[k] + 1, "verified-task") : k \in DOMAIN len}

\* The first n of the chosen rows, one of every repository in turn.
Offset(chosen, row, label) ==
  Cardinality({q \in OfRepo(chosen, RepoOf(row)) : Rank(label, q) < Rank(label, row)})

\* Fault: one repository after the other.
RepositoryFirst(chosen, q, r, taskLabel, repoLabel) ==
  \/ RepoRank(repoLabel, RepoOf(q)) < RepoRank(repoLabel, RepoOf(r))
  \/ RepoOf(q) = RepoOf(r) /\ Rank(taskLabel, q) < Rank(taskLabel, r)

Earlier(chosen, q, r, taskLabel, repoLabel) ==
  LET i == Offset(chosen, q, taskLabel)
      j == Offset(chosen, r, taskLabel)
  IN i < j \/ (i = j /\ RepoRank(repoLabel, RepoOf(q)) < RepoRank(repoLabel, RepoOf(r)))

RoundRobin(chosen, n, taskLabel, repoLabel) ==
  {r \in chosen :
     Cardinality({q \in chosen : Earlier(chosen, q, r, taskLabel, repoLabel)}) < n}

\* Repositories large enough for an equal part of the full tier.
Eligible(rows, full, repositories) ==
  {k \in ReposOf(rows) : Cardinality(OfRepo(rows, k)) >= full \div repositories}

\* The repositories chosen among them, and how many rows each gives.
Parts(rows, full, repositories, label) ==
  LET eligible == Eligible(rows, full, repositories)
      ahead == [k \in eligible |-> Cardinality({j \in eligible : RepoRank(label, j) < RepoRank(label, k)})]
  IN [k \in {j \in eligible : ahead[j] < repositories} |->
        full \div repositories + (IF ahead[k] < full % repositories THEN 1 ELSE 0)]

\* build_eval_splits; sizes is [smoke, fast, full].
EvalTiers(rows, trained, repositories, sizes) ==
  LET unseen == rows \ trained
      part == Parts(unseen, sizes.full, repositories, "eval-repo")
      chosen == UNION {FirstOf(OfRepo(unseen, k), part[k], "eval-task") : k \in DOMAIN part}
  IN [tier \in DOMAIN sizes |-> RoundRobin(chosen, sizes[tier], "eval-task", "eval-order")]

\* select_debug_tasks
DebugTasks(rows, repositories, size) ==
  LET part == Parts(rows, size, repositories, "repo")
  IN UNION {FirstOf(OfRepo(rows, k), part[k], "debug-task") : k \in DOMAIN part}

\* _select_verified of the legacy bundle; sizes is [fast, full].
LegacyVerified(rows, sizes) ==
  LET chosen == Stratified(rows, sizes.full, "verified-task")
  IN [tier \in DOMAIN sizes |-> RoundRobin(chosen, sizes[tier], "verified-task", "verified-repo")]
===============================================================================
