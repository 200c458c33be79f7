------------------------ MODULE AdaptiveRolloutProofs --------------------------
(***************************************************************************)
(* Proofs about AdaptiveRollout, for every horizon, every set of entropies *)
(* and every threshold, and for any number of splits, rollbacks and        *)
(* rewrites: the frontier rule is causal and stops once, and what a        *)
(* session hands over is what was delivered, with a label for every token. *)
(***************************************************************************)
EXTENDS AdaptiveRollout, SequenceTheorems, WellFoundedInduction, TLAPS

-------------------------------------------------------------------------------
(* The rule itself. *)

\* Whether turn t rises is decided by the turns up to t.
LEMMA RisesIsCausal ==
  ASSUME NEW e, NEW f, NEW t \in Nat, t >= 3, \A i \in 1 .. (t + 1) : e[i] = f[i]
  PROVE  Rises(e, t) <=> Rises(f, t)
<1>1. e[1] = f[1] /\ e[1 + 1] = f[1 + 1] /\ e[1 + 2] = f[1 + 2]
  OBVIOUS
<1>2. /\ e[t - 1] = f[t - 1]
      /\ e[(t - 1) + 1] = f[(t - 1) + 1]
      /\ e[(t - 1) + 2] = f[(t - 1) + 2]
  OBVIOUS
<1>3. Sum(e, 1) = Sum(f, 1) /\ Sum(e, t - 1) = Sum(f, t - 1)
  BY <1>1, <1>2 DEF Sum
<1>4. (Finite(e, 1) <=> Finite(f, 1)) /\ (Finite(e, t - 1) <=> Finite(f, t - 1))
  BY <1>1, <1>2 DEF Finite
<1> QED
  BY <1>3, <1>4 DEF Rises

\* So the frontiers among the first n turns are the same for sequences that
\* agree on them.
LEMMA FrontierIsCausal ==
  ASSUME NEW e, NEW f, NEW n \in Nat, \A i \in 1 .. n : e[i] = f[i]
  PROVE  Frontier(e, n) = Frontier(f, n)
<1>1. ASSUME NEW t \in 3 .. (n - 1)
      PROVE  Rises(e, t) <=> Rises(f, t)
  <2>1. t \in Nat /\ t >= 3 /\ \A i \in 1 .. (t + 1) : e[i] = f[i]
    OBVIOUS
  <2> QED
    BY <2>1, RisesIsCausal
<1> QED
  BY <1>1 DEF Frontier

\* The retained length is the smallest frontier.
LEMMA RetainedIsSmallest ==
  ASSUME NEW e, NEW n \in Nat, NEW t \in Frontier(e, n), \A u \in Frontier(e, n) : t <= u
  PROVE  RetainedTurns(e, n) = t
<1>1. \A u \in Frontier(e, n) : u \in Int
  BY DEF Frontier
<1>2. \A u \in Frontier(e, n) : (\A v \in Frontier(e, n) : u <= v) => u = t
  BY <1>1
<1> QED
  BY <1>2 DEF RetainedTurns

\* Once the rule has found a frontier it finds the same one in every longer
\* episode: the decision to stop is final (AdaptiveOPD.retained_turns).
THEOREM FrontierIsStable ==
  ASSUME NEW e, NEW n \in Nat, NEW m \in Nat, n <= m, NEW t \in Frontier(e, n),
         \A u \in Frontier(e, n) : t <= u
  PROVE  RetainedTurns(e, m) = t /\ RetainedTurns(e, n) = t
<1>1. t \in Frontier(e, m)
  BY DEF Frontier
<1>2. ASSUME NEW u \in Frontier(e, m)
      PROVE  t <= u
  <2>1. CASE u <= n - 1
    BY <2>1 DEF Frontier
  <2>2. CASE u > n - 1
    BY <2>2 DEF Frontier
  <2> QED
    BY <2>1, <2>2 DEF Frontier
<1> QED
  BY <1>1, <1>2, RetainedIsSmallest

-------------------------------------------------------------------------------
(* The session. *)

\* The turns that have been scored are the first ones of the script ...
History ==
  /\ \A i \in 1 .. Len(entropies) : entropies[i] = script[i]
  /\ pc \in {"student", "teacher"} => Len(entropies) < turn

\* ... and only the last of them can be a frontier, which ends the session.
FirstFrontier ==
  /\ stopped => /\ Len(entropies) - 1 \in Frontier(script, Len(entropies))
                /\ \A u \in Frontier(script, Len(entropies)) : Len(entropies) - 1 <= u
                /\ pc \in {"ended", "finalized", "raised"}
  /\ ~ stopped => Frontier(script, Len(entropies)) = {}

IInv == TypeOK /\ History /\ FirstFrontier

\* A new session satisfies the invariant.
LEMMA InitEstablishes == Init => IInv
<1> SUFFICES ASSUME Init PROVE IInv
  OBVIOUS
<1> USE AdaptiveAssumption DEF Init
<1>1. TypeOK
  <2>1. entropies \in Seq(Entropies) /\ Len(entropies) = 0
    OBVIOUS
  <2>2. stopped \in BOOLEAN
    OBVIOUS
  <2>3. Len(entropies) <= turn /\ turn \in 0 .. MaxTurns
    BY <2>1
  <2>4. splits \in 0 .. MaxSplits /\ rollbacks \in 0 .. MaxRollbacks /\ rewrites \in 0 .. MaxRewrites
    OBVIOUS
  <2> QED
    BY <2>1, <2>2, <2>3, <2>4 DEF TypeOK
<1>2. History
  BY DEF History
<1>3. FirstFrontier
  BY DEF FirstFrontier, Frontier
<1> QED
  BY <1>1, <1>2, <1>3 DEF IInv

\* A step that leaves the session's scores alone.
LEMMA QuietStep ==
  ASSUME IInv, UNCHANGED <<script, entropies, stopped>>,
         turn' \in 0 .. MaxTurns, turn' >= turn,
         splits' \in 0 .. MaxSplits, rollbacks' \in 0 .. MaxRollbacks,
         rewrites' \in 0 .. MaxRewrites,
         pc' \in {"request", "student", "teacher", "reply", "ended", "finalized", "raised"},
         pc' \in {"student", "teacher"} => turn' > turn \/ pc \in {"student", "teacher"},
         stopped => pc' \in {"ended", "finalized", "raised"}
  PROVE  IInv'
<1> USE AdaptiveAssumption DEF IInv
<1>1. Len(entropies) \in Nat /\ turn \in Int /\ turn' \in Int /\ Len(entropies) <= turn
  BY DEF TypeOK
<1>2. TypeOK'
  BY <1>1 DEF TypeOK
<1>3. History'
  BY <1>1 DEF History
<1>4. FirstFrontier'
  BY DEF FirstFrontier
<1> QED
  BY <1>2, <1>3, <1>4

\* A request, however the gateway arranges the conversation.
LEMMA AskStep ==
  ASSUME IInv, NEW a, NEW b, NEW c, Ask(a, b, c), splits' \in 0 .. MaxSplits,
         rollbacks' \in 0 .. MaxRollbacks, rewrites' \in 0 .. MaxRewrites
  PROVE  IInv'
<1>1. turn \in Int /\ turn' = turn + 1 /\ turn' \in 0 .. MaxTurns /\ pc' = "student"
  BY AdaptiveAssumption DEF IInv, TypeOK, Ask
<1>2. ~ stopped /\ UNCHANGED <<script, entropies, stopped>>
  BY DEF IInv, FirstFrontier, Ask
<1> QED
  BY <1>1, <1>2, QuietStep

\* The only step that scores a turn.
LEMMA ScoreStep ==
  ASSUME IInv, TeacherScores
  PROVE  IInv'
<1> DEFINE n == Len(entropies)
<1>1. /\ n \in Nat /\ n < turn /\ turn \in 0 .. MaxTurns /\ pc = "teacher"
      /\ entropies \in Seq(Entropies) /\ script \in [1 .. MaxTurns -> Entropies]
  BY DEF IInv, TypeOK, History, TeacherScores
<1>2. n + 1 \in 1 .. MaxTurns /\ script[n + 1] \in Entropies
  BY <1>1, AdaptiveAssumption
<1>3. /\ entropies' = Append(entropies, script[n + 1])
      /\ UNCHANGED <<script, turn, splits, rollbacks, rewrites>>
      /\ stopped' = (RetainedTurns(entropies', Len(entropies')) # Continue)
      /\ stopped' => pc' = "ended"
      /\ pc' \in {"ended", "reply"}
  BY DEF TeacherScores
<1>4. Len(entropies') = n + 1 /\ entropies' \in Seq(Entropies)
  BY <1>1, <1>2, <1>3
<1>5. \A i \in 1 .. (n + 1) : entropies'[i] = script[i]
  <2> SUFFICES ASSUME NEW i \in 1 .. (n + 1) PROVE entropies'[i] = script[i]
    OBVIOUS
  <2>1. CASE i = n + 1
    BY <2>1, <1>1, <1>2, <1>3
  <2>2. CASE i \in 1 .. n
    <3>1. entropies[i] = script[i]
      BY <2>2 DEF IInv, History
    <3> QED
      BY <3>1, <2>2, <1>1, <1>3
  <2> QED
    BY <2>1, <2>2, <1>1
<1>6. Frontier(entropies', n + 1) = Frontier(script, n + 1)
  <2>1. n + 1 \in Nat
    BY <1>1
  <2> DEFINE e == entropies'
  <2>2. \A i \in 1 .. (n + 1) : e[i] = script[i]
    BY <1>5
  <2> HIDE DEF n, e
  <2>3. Frontier(e, n + 1) = Frontier(script, n + 1)
    BY <2>1, <2>2, FrontierIsCausal
  <2> QED
    BY <2>3 DEF e
<1>7. Frontier(script, n) = {}
  BY <1>1 DEF IInv, FirstFrontier
<1>8. \A u \in Frontier(script, n + 1) : u = n
  BY <1>7, <1>1 DEF Frontier
<1>9. stopped' <=> n \in Frontier(script, n + 1)
  <2>1. CASE Frontier(script, n + 1) = {}
    BY <2>1, <1>3, <1>4, <1>6 DEF RetainedTurns
  <2>2. CASE n \in Frontier(script, n + 1)
    <3>1. RetainedTurns(entropies', n + 1) = n
      BY <2>2, <1>1, <1>6, <1>8, RetainedIsSmallest
    <3>2. n # Continue
      BY <2>2, <1>1 DEF Frontier, Continue
    <3> QED
      BY <3>1, <3>2, <2>2, <1>3, <1>4
  <2> QED
    BY <2>1, <2>2, <1>8
<1>10. TypeOK'
  BY <1>1, <1>3, <1>4 DEF IInv, TypeOK
<1>11. History'
  BY <1>3, <1>4, <1>5 DEF History
<1>12. FirstFrontier'
  <2>1. CASE stopped'
    BY <2>1, <1>1, <1>3, <1>4, <1>8, <1>9 DEF FirstFrontier
  <2>2. CASE ~ stopped'
    BY <2>2, <1>3, <1>4, <1>8, <1>9 DEF FirstFrontier
  <2> QED
    BY <2>1, <2>2
<1> QED
  BY <1>10, <1>11, <1>12 DEF IInv

\* IInv is inductive.
LEMMA NextPreserves == IInv /\ [Next]_vars => IInv'
<1> SUFFICES ASSUME IInv, [Next]_vars PROVE IInv'
  OBVIOUS
<1> USE AdaptiveAssumption
<1>0. /\ turn \in 0 .. MaxTurns /\ splits \in 0 .. MaxSplits
      /\ rollbacks \in 0 .. MaxRollbacks /\ rewrites \in 0 .. MaxRewrites
      /\ stopped => pc \in {"ended", "finalized", "raised"}
  BY DEF IInv, TypeOK, FirstFrontier
<1>1. CASE FirstRequest
  BY <1>0, <1>1, AskStep DEF FirstRequest
<1>2. CASE NextRequest
  BY <1>0, <1>2, AskStep DEF NextRequest
<1>3. CASE SplitRequest
  BY <1>0, <1>3, AskStep DEF SplitRequest
<1>4. CASE RollbackRequest
  BY <1>0, <1>4, AskStep DEF RollbackRequest
<1>5. CASE RewriteRequest
  BY <1>0, <1>5, AskStep DEF RewriteRequest
<1>6. CASE StudentReplies
  BY <1>0, <1>6, QuietStep DEF StudentReplies
<1>7. CASE StudentIsEmpty
  BY <1>0, <1>7, QuietStep DEF StudentIsEmpty
<1>8. CASE TeacherScores
  BY <1>8, ScoreStep
<1>9. CASE Reply
  BY <1>0, <1>9, QuietStep DEF Reply
<1>10. CASE Finalize
  BY <1>0, <1>10, QuietStep DEF Finalize
<1>11. CASE UNCHANGED vars
  <2>1. pc' = pc
    BY <1>11 DEF vars
  <2>2. pc \in {"request", "student", "teacher", "reply", "ended", "finalized", "raised"}
    BY DEF IInv, TypeOK
  <2> QED
    BY <1>0, <1>11, <2>1, <2>2, QuietStep DEF vars
<1> QED
  BY <1>1, <1>2, <1>3, <1>4, <1>5, <1>6, <1>7, <1>8, <1>9, <1>10, <1>11 DEF Next

\* The invariant holds throughout a session.
LEMMA Invariance == Spec => []IInv
<1> QED
  BY InitEstablishes, NextPreserves, PTL DEF Spec

\* The state of a session is always well formed.
THEOREM SessionTypeCorrect == Spec => []TypeOK
<1>1. IInv => TypeOK
  BY DEF IInv
<1> QED
  BY <1>1, Invariance, PTL

\* Stopping on line keeps exactly the prefix the offline rule keeps of the
\* whole episode (docs/opd_algorithms.md:67).
THEOREM OnlineStoppingIsOfflineSelection == Spec => []OnlineIsOffline
<1>1. IInv => OnlineIsOffline
  <2> SUFFICES ASSUME IInv PROVE OnlineIsOffline
    OBVIOUS
  <2>1. Len(entropies) \in Nat /\ MaxTurns \in Nat /\ Len(entropies) <= MaxTurns
    BY AdaptiveAssumption DEF IInv, TypeOK
  <2>2. CASE stopped
    <3>1. RetainedTurns(script, MaxTurns) = Len(entropies) - 1
      BY <2>1, <2>2, FrontierIsStable DEF IInv, FirstFrontier
    <3> QED
      BY <3>1, <2>2 DEF OnlineIsOffline
  <2>3. CASE ~ stopped
    BY <2>3 DEF IInv, FirstFrontier, OnlineIsOffline, RetainedTurns
  <2> QED
    BY <2>2, <2>3
<1> QED
  BY <1>1, Invariance, PTL

-------------------------------------------------------------------------------
(* The trajectories and what the teacher has scored of them. *)

Block == {"user", "generation", "observation", "rewritten"} \X Nat

Trajectory == [prompt : Seq(Block), response : Seq(Block)]

ScoredPrefix == [turn : 0 .. MaxTurns, tokens : Seq(Block)]

Current == [prompt |-> prompt, response |-> response]

\* The conversation is made of blocks, and what the teacher scored ends with a
\* generation.
RecordsOK ==
  /\ prompt \in Seq(Block) /\ response \in Seq(Block)
  /\ past \in Seq(Trajectory)
  /\ prefixes \subseteq ScoredPrefix
  /\ \A p \in prefixes : p.tokens # <<>> /\ IsModelBlock(p.tokens[Len(p.tokens)])

\* A generation of the conversation is of a turn that has been recorded.
FreshIn(s) ==
  \A i \in 1 .. Len(s) : IsModelBlock(s[i]) =>
    /\ s[i][2] <= turn
    /\ pc \in {"student", "teacher", "reply"} => s[i][2] < turn

Fresh == \A tr \in Trajectories : FreshIn(tr.prompt) /\ FreshIn(tr.response)

\* A scored prefix of a trajectory reaches over all of its generations.
Covers(p, tr) ==
  IsPrefixOf(p.tokens, Tokens(tr)) =>
    \A i \in 1 .. Len(tr.response) :
      IsModelBlock(tr.response[i]) => Len(tr.prompt) + i <= Len(p.tokens)

Covering == \A p \in prefixes, tr \in Trajectories : Covers(p, tr)

\* The turn that is about to be recorded has been scored, and nothing shorter
\* of its chain is left.
JustScored ==
  pc = "reply" =>
    \A p \in prefixes : LET q == prompt \o Append(response, Generation(turn))
                        IN  IsPrefixOf(p.tokens, q) => Len(p.tokens) = Len(q)

\* No turn is in the responses of two trajectories.
OwnTurns ==
  /\ \A i, j \in 1 .. Len(past) :
       ModelBlocks(past[i]) \cap ModelBlocks(past[j]) # {} => past[i] = past[j]
  /\ \A i \in 1 .. Len(past) : ModelBlocks(past[i]) \cap ModelBlocks(Current) = {}

\* Nothing is handed over before the session is finalized.
HandedLast == pc # "finalized" => handed = {}

LabelInv ==
  /\ RecordsOK /\ Fresh /\ Covering /\ JustScored /\ OwnTurns /\ HandedLast
  /\ DeliveredTurnsAreTrained /\ LabelsBelongToTokens

-------------------------------------------------------------------------------
(* Sequences of blocks. *)

\* The tokens of a trajectory are those of its prompt, then of its response.
LEMMA TokensAre ==
  ASSUME NEW a \in Seq(Block), NEW b \in Seq(Block)
  PROVE  /\ a \o b \in Seq(Block) /\ Len(a \o b) = Len(a) + Len(b)
         /\ \A i \in 1 .. Len(a) : (a \o b)[i] = a[i]
         /\ \A i \in 1 .. Len(b) : (a \o b)[Len(a) + i] = b[i]
<1>1. /\ a \o b \in Seq(Block) /\ Len(a \o b) = Len(a) + Len(b)
      /\ \A i \in 1 .. Len(a) + Len(b) : (a \o b)[i] = IF i <= Len(a) THEN a[i] ELSE b[i - Len(a)]
  BY ConcatProperties
<1>2. Len(a) \in Nat /\ Len(b) \in Nat BY LenProperties
<1>3. \A i \in 1 .. Len(a) : (a \o b)[i] = a[i] BY <1>1, <1>2
<1>4. ASSUME NEW i \in 1 .. Len(b) PROVE (a \o b)[Len(a) + i] = b[i]
  <2>1. Len(a) + i \in 1 .. Len(a) + Len(b) /\ ~ (Len(a) + i <= Len(a)) /\ (Len(a) + i) - Len(a) = i
    BY <1>2
  <2> QED BY <1>1, <2>1
<1> QED BY <1>1, <1>3, <1>4

\* Appending to the response appends to the tokens.
LEMMA AppendedTokens ==
  ASSUME NEW a \in Seq(Block), NEW b \in Seq(Block), NEW x \in Block
  PROVE  a \o Append(b, x) = Append(a \o b, x)
<1>1. Append(b, x) \in Seq(Block) /\ Len(Append(b, x)) = Len(b) + 1
      /\ (\A i \in 1 .. Len(b) : Append(b, x)[i] = b[i]) /\ Append(b, x)[Len(b) + 1] = x
  BY AppendProperties
<1>2. a \o b \in Seq(Block) /\ Len(a \o b) = Len(a) + Len(b)
      /\ (\A i \in 1 .. Len(a) : (a \o b)[i] = a[i]) /\ \A i \in 1 .. Len(b) : (a \o b)[Len(a) + i] = b[i]
  BY TokensAre
<1>3. Len(a) \in Nat /\ Len(b) \in Nat BY LenProperties
<1> DEFINE l == a \o Append(b, x)
           r == Append(a \o b, x)
<1>4. l \in Seq(Block) /\ Len(l) = Len(a) + Len(Append(b, x))
      /\ (\A i \in 1 .. Len(a) : l[i] = a[i]) /\ \A i \in 1 .. Len(Append(b, x)) : l[Len(a) + i] = Append(b, x)[i]
  BY <1>1, TokensAre
<1>5. r \in Seq(Block) /\ Len(r) = Len(a \o b) + 1
      /\ (\A i \in 1 .. Len(a \o b) : r[i] = (a \o b)[i]) /\ r[Len(a \o b) + 1] = x
  BY <1>2, AppendProperties
<1> HIDE DEF l, r
<1>6. ASSUME NEW i \in 1 .. Len(l) PROVE l[i] = r[i]
  <2>1. Len(l) = Len(a) + (Len(b) + 1) BY <1>1, <1>4
  <2>2. CASE i <= Len(a)
    <3>1. i \in 1 .. Len(a) /\ i \in 1 .. Len(a \o b) BY <2>2, <1>2, <1>3
    <3> QED BY <3>1, <1>2, <1>4, <1>5
  <2>3. CASE i > Len(a) /\ i <= Len(a) + Len(b)
    <3>0. PICK k \in 1 .. Len(b) : i = Len(a) + k
      <4>1. i - Len(a) \in 1 .. Len(b) /\ i = Len(a) + (i - Len(a)) BY <2>3, <1>3
      <4> QED BY <4>1
    <3>1. k \in 1 .. Len(Append(b, x)) /\ i \in 1 .. Len(a \o b) BY <3>0, <1>1, <1>2, <1>3
    <3>2. l[i] = b[k] BY <3>0, <3>1, <1>1, <1>4
    <3>3. r[i] = b[k] BY <3>0, <3>1, <1>2, <1>5
    <3> QED BY <3>2, <3>3
  <2>4. CASE i = Len(a) + (Len(b) + 1)
    <3>1. Len(b) + 1 \in 1 .. Len(Append(b, x)) BY <1>1, <1>3
    <3>2. l[i] = x BY <2>4, <3>1, <1>1, <1>4
    <3>3. i = Len(a \o b) + 1 BY <2>4, <1>2, <1>3
    <3>4. r[i] = x BY <3>3, <1>5
    <3> QED BY <3>2, <3>4
  <2> QED BY <2>1, <2>2, <2>3, <2>4, <1>3
<1>7. Len(l) = Len(r) BY <1>1, <1>2, <1>3, <1>4, <1>5
<1>8. l = r BY <1>4, <1>5, <1>6, <1>7, SeqEqual
<1> QED BY <1>8 DEF l, r

\* A prefix of a longer sequence is one of the shorter, or it is all of it.
LEMMA PrefixOfAppend ==
  ASSUME NEW p \in Seq(Block), NEW s \in Seq(Block), NEW b \in Block, IsPrefixOf(p, Append(s, b))
  PROVE  IsPrefixOf(p, s) \/ (Len(p) = Len(s) + 1 /\ p[Len(p)] = b)
<1>1. Len(Append(s, b)) = Len(s) + 1 /\ (\A i \in 1 .. Len(s) : Append(s, b)[i] = s[i])
      /\ Append(s, b)[Len(s) + 1] = b
  BY AppendProperties
<1>2. Len(p) \in Nat /\ Len(s) \in Nat BY LenProperties
<1>3. Len(p) <= Len(s) + 1 /\ \A i \in 1 .. Len(p) : p[i] = Append(s, b)[i]
  BY <1>1 DEF IsPrefixOf
<1>4. CASE Len(p) <= Len(s) BY <1>1, <1>2, <1>3, <1>4 DEF IsPrefixOf
<1>5. CASE Len(p) = Len(s) + 1
  <2>1. Len(p) \in 1 .. Len(p) BY <1>2, <1>5
  <2> QED BY <2>1, <1>1, <1>3, <1>5
<1> QED BY <1>2, <1>3, <1>4, <1>5

-------------------------------------------------------------------------------
(* Cropping. *)

\* Every non-empty set of natural numbers has a least element.
LEMMA LeastElement ==
  ASSUME NEW S, S \subseteq Nat, S # {}
  PROVE  \E m \in S : \A n \in S : m <= n
<1> DEFINE R == {mn \in Nat \X Nat : mn[1] < mn[2]}
<1>1. IsWellFoundedOn(R, Nat) BY NatLessThanWellFounded DEF OpToRel
<1>2. PICK m \in S : \A n \in S : ~ (<<n, m>> \in R)
  <2> HIDE DEF R
  <2> QED BY <1>1, WFMin
<1>3. \A n \in S : ~ (n < m) BY <1>2
<1> QED BY <1>3

\* The reversed list has a first match if there is a match.
LEMMA LastMatchIs ==
  ASSUME RecordsOK, NEW tokens, Matching(tokens) # {}
  PROVE  LastMatch(tokens) \in Matching(tokens)
<1> DEFINE S == {MaxTurns - p.turn : p \in Matching(tokens)}
<1>1. \A p \in Matching(tokens) : p.turn \in 0 .. MaxTurns
  BY DEF RecordsOK, Matching, ScoredPrefix
<1>2. S \subseteq Nat /\ S # {} BY <1>1, AdaptiveAssumption
<1>3. PICK m \in S : \A n \in S : m <= n
  <2> HIDE DEF S
  <2> QED BY <1>2, LeastElement
<1>4. PICK p \in Matching(tokens) : m = MaxTurns - p.turn OBVIOUS
<1>5. ASSUME NEW q \in Matching(tokens) PROVE q.turn <= p.turn
  <2>1. MaxTurns - p.turn <= MaxTurns - q.turn BY <1>3, <1>4
  <2> QED BY <2>1, <1>1, AdaptiveAssumption
<1> QED BY <1>5 DEF LastMatch

\* attach keeps a trajectory whole, or up to the end of a scored prefix of it.
LEMMA CroppedIs ==
  ASSUME RecordsOK, NEW tr \in Trajectory, Matching(Tokens(tr)) # {}
  PROVE  /\ Cropped(tr) \in Trajectory /\ Cropped(tr).prompt = tr.prompt
         /\ \E m \in prefixes :
              \/ IsPrefixOf(Tokens(tr), m.tokens) /\ Cropped(tr) = tr
              \/ /\ IsPrefixOf(m.tokens, Tokens(tr))
                 /\ Len(Cropped(tr).response) =
                      (IF Len(m.tokens) > Len(tr.prompt) THEN Len(m.tokens) - Len(tr.prompt) ELSE 0)
                 /\ Len(Cropped(tr).response) <= Len(tr.response)
                 /\ \A i \in 1 .. Len(Cropped(tr).response) : Cropped(tr).response[i] = tr.response[i]
<1>t. tr.prompt \in Seq(Block) /\ tr.response \in Seq(Block)
      /\ tr = [prompt |-> tr.prompt, response |-> tr.response]
  BY DEF Trajectory
<1>l. Len(tr.prompt) \in Nat /\ Len(tr.response) \in Nat BY <1>t, LenProperties
<1>a. PICK a \in Nat : a = Len(tr.prompt) BY <1>l
<1>b. PICK b \in Nat : b = Len(tr.response) BY <1>l
<1>1. Len(Tokens(tr)) = a + b
  BY <1>t, <1>a, <1>b, TokensAre DEF Tokens
<1>2. PICK m : m = LastMatch(Tokens(tr)) OBVIOUS
<1>3. m \in prefixes /\ Matches(m, Tokens(tr))
  BY <1>2, LastMatchIs DEF Matching
<1>4. m.tokens \in Seq(Block) BY <1>3 DEF RecordsOK, ScoredPrefix
<1>5. PICK c \in Nat : c = Len(m.tokens) BY <1>4, LenProperties
<1> DEFINE k == Shorter(a + b, c) - a
           r == SubSeq(tr.response, 1, k)
<1>6. Cropped(tr) = [prompt |-> tr.prompt, response |-> r]
  <2>1. ScoredLength(Tokens(tr)) = c BY <1>2, <1>5 DEF ScoredLength
  <2>2. Cropped(tr) = [tr EXCEPT !.response = r] BY <2>1, <1>1, <1>a DEF Cropped
  <2> HIDE DEF r
  <2> QED BY <2>2, <1>t
<1>s. \A i, j \in Nat : Shorter(i, j) \in {i, j} /\ Shorter(i, j) <= i /\ Shorter(i, j) <= j
  BY DEF Shorter
<1>7. k \in Int /\ k <= b
  <2> DEFINE w == Shorter(a + b, c)
  <2>1. w \in Nat /\ w <= a + b BY <1>s
  <2>2. k = w - a OBVIOUS
  <2> HIDE DEF w, k
  <2> QED BY <2>1, <2>2
<1>8. \A i \in 1 .. k : tr.response[i] \in Block
  BY <1>7, <1>b, <1>t, ElementOfSeq
<1>9. /\ r \in Seq(Block) /\ Len(r) = (IF 1 <= k THEN k ELSE 0)
      /\ \A i \in 1 .. k : r[i] = tr.response[i]
  <2> HIDE DEF k
  <2>1. 1 \in Int OBVIOUS
  <2>2. /\ r \in Seq(Block) /\ Len(r) = (IF 1 <= k THEN k - 1 + 1 ELSE 0)
        /\ \A i \in 1 .. k - 1 + 1 : r[i] = tr.response[1 + i - 1]
    BY <2>1, <1>7, <1>8, SubSeqProperties
  <2>3. \A i \in 1 .. k : 1 + i - 1 = i /\ i \in 1 .. k - 1 + 1 BY <1>7
  <2> QED BY <2>2, <2>3, <1>7
<1>10. CASE IsPrefixOf(Tokens(tr), m.tokens)
  <2>1. a + b <= c BY <1>10, <1>1, <1>5 DEF IsPrefixOf
  <2>2. k = b
    <3>1. Shorter(a + b, c) = a + b BY <2>1 DEF Shorter
    <3> QED BY <3>1
  <2>3. Len(r) = b /\ \A i \in 1 .. Len(r) : r[i] = tr.response[i]
    BY <2>2, <1>9
  <2> HIDE DEF r
  <2>4. r = tr.response BY <2>3, <1>9, <1>t, <1>b, SeqEqual
  <2>5. Cropped(tr) = tr BY <2>4, <1>6, <1>t
  <2> QED BY <2>5, <1>3, <1>10
<1>11. CASE IsPrefixOf(m.tokens, Tokens(tr))
  <2>1. c <= a + b BY <1>11, <1>1, <1>5 DEF IsPrefixOf
  <2>2. k = c - a
    <3>1. Shorter(a + b, c) = c BY <2>1 DEF Shorter
    <3> QED BY <3>1
  <2>3. Len(r) = (IF c > a THEN c - a ELSE 0)
        /\ Len(r) <= b /\ \A i \in 1 .. Len(r) : r[i] = tr.response[i]
    <3> HIDE DEF r
    <3>1. Len(r) = (IF 1 <= c - a THEN c - a ELSE 0)
      BY <2>2, <1>9
    <3>2. Len(r) <= b /\ \A i \in 1 .. Len(r) : i \in 1 .. k
      <4> HIDE DEF k
      <4> QED BY <1>7, <1>9
    <3>3. \A i \in 1 .. Len(r) : r[i] = tr.response[i] BY <3>2, <1>9
    <3>4. 1 <= c - a <=> c > a OBVIOUS
    <3> QED BY <3>1, <3>2, <3>3, <3>4
  <2> HIDE DEF r, k
  <2>4. Cropped(tr).response = r /\ Cropped(tr).prompt = tr.prompt /\ Cropped(tr) \in Trajectory
    BY <1>6, <1>9, <1>t DEF Trajectory
  <2> QED BY <2>3, <2>4, <1>3, <1>11, <1>a, <1>b, <1>5
<1> QED BY <1>3, <1>10, <1>11 DEF Matches

\* What cropping leaves has a label for every token.
LEMMA CroppedIsLabelled ==
  ASSUME RecordsOK, NEW tr \in Trajectory, Matching(Tokens(tr)) # {}, Cropped(tr).response # <<>>
  PROVE  \E p \in prefixes : IsPrefixOf(Tokens(Cropped(tr)), p.tokens)
<1> DEFINE c == Cropped(tr)
<1>1. c \in Trajectory /\ c.prompt = tr.prompt BY CroppedIs
<1>2. PICK m \in prefixes :
              \/ IsPrefixOf(Tokens(tr), m.tokens) /\ c = tr
              \/ /\ IsPrefixOf(m.tokens, Tokens(tr))
                 /\ Len(c.response) =
                      (IF Len(m.tokens) > Len(tr.prompt) THEN Len(m.tokens) - Len(tr.prompt) ELSE 0)
                 /\ Len(c.response) <= Len(tr.response)
                 /\ \A i \in 1 .. Len(c.response) : c.response[i] = tr.response[i]
  BY CroppedIs
<1>3. c.response # <<>> OBVIOUS
<1> HIDE DEF c
<1>t. tr.prompt \in Seq(Block) /\ tr.response \in Seq(Block) /\ c.response \in Seq(Block)
      /\ m.tokens \in Seq(Block)
  BY <1>1 DEF Trajectory, RecordsOK, ScoredPrefix
<1>a. PICK a \in Nat : a = Len(tr.prompt) BY <1>t, LenProperties
<1>b. PICK b \in Nat : b = Len(c.response) BY <1>t, LenProperties
<1>m. PICK l \in Nat : l = Len(m.tokens) BY <1>t, LenProperties
<1>n. PICK n \in Nat : n = Len(tr.response) BY <1>t, LenProperties
<1>4. b > 0 BY <1>3, <1>b, <1>t, EmptySeq
<1>5. CASE IsPrefixOf(Tokens(tr), m.tokens) /\ c = tr BY <1>5 DEF c
<1>6. CASE /\ IsPrefixOf(m.tokens, Tokens(tr))
           /\ b = (IF l > a THEN l - a ELSE 0)
           /\ b <= n
           /\ \A i \in 1 .. b : c.response[i] = tr.response[i]
  <2>1. l = a + b BY <1>4, <1>6
  <2>2. Len(Tokens(c)) = a + b
        /\ (\A i \in 1 .. a : Tokens(c)[i] = tr.prompt[i])
        /\ \A i \in 1 .. b : Tokens(c)[a + i] = c.response[i]
    <3>1. Tokens(c) = tr.prompt \o c.response BY <1>1 DEF Tokens
    <3>2. /\ Len(tr.prompt \o c.response) = Len(tr.prompt) + Len(c.response)
          /\ \A i \in 1 .. Len(tr.prompt) : (tr.prompt \o c.response)[i] = tr.prompt[i]
          /\ \A i \in 1 .. Len(c.response) : (tr.prompt \o c.response)[Len(tr.prompt) + i] = c.response[i]
      BY <1>t, TokensAre
    <3> QED BY <3>1, <3>2, <1>a, <1>b
  <2>3. (\A i \in 1 .. a : Tokens(tr)[i] = tr.prompt[i])
        /\ \A i \in 1 .. n : Tokens(tr)[a + i] = tr.response[i]
    BY <1>t, <1>a, <1>n, TokensAre DEF Tokens
  <2>4. \A i \in 1 .. l : m.tokens[i] = Tokens(tr)[i] BY <1>6, <1>m DEF IsPrefixOf
  <2>5. ASSUME NEW i \in 1 .. a + b PROVE Tokens(c)[i] = m.tokens[i]
    <3>1. CASE i <= a BY <3>1, <2>1, <2>2, <2>3, <2>4
    <3>2. CASE i > a
      <4>1. PICK k \in 1 .. b : i = a + k
        <5>1. i - a \in 1 .. b /\ i = a + (i - a) BY <3>2
        <5> QED BY <5>1
      <4>2. Tokens(c)[i] = c.response[k] BY <4>1, <2>2
      <4>3. k \in 1 .. n BY <1>6
      <4>4. Tokens(tr)[i] = tr.response[k] BY <4>1, <4>3, <2>3
      <4> QED BY <4>1, <4>2, <4>4, <2>1, <2>4, <1>6
    <3> QED BY <3>1, <3>2
  <2>6. IsPrefixOf(Tokens(c), m.tokens) BY <2>1, <2>2, <2>5, <1>m DEF IsPrefixOf
  <2> QED BY <2>6 DEF c
<1> QED BY <1>2, <1>5, <1>6, <1>a, <1>b, <1>m, <1>n

\* Cropping adds no turn, and takes none away that the teacher has scored.
LEMMA CroppedKeepsTurns ==
  ASSUME RecordsOK, NEW tr \in Trajectory, Matching(Tokens(tr)) # {}
  PROVE  /\ ModelBlocks(Cropped(tr)) \subseteq ModelBlocks(tr)
         /\ (\A p \in prefixes : Covers(p, tr)) => ModelBlocks(Cropped(tr)) = ModelBlocks(tr)
<1> DEFINE c == Cropped(tr)
<1>1. c \in Trajectory /\ c.prompt = tr.prompt BY CroppedIs
<1>2. PICK m \in prefixes :
              \/ IsPrefixOf(Tokens(tr), m.tokens) /\ c = tr
              \/ /\ IsPrefixOf(m.tokens, Tokens(tr))
                 /\ Len(c.response) =
                      (IF Len(m.tokens) > Len(tr.prompt) THEN Len(m.tokens) - Len(tr.prompt) ELSE 0)
                 /\ Len(c.response) <= Len(tr.response)
                 /\ \A i \in 1 .. Len(c.response) : c.response[i] = tr.response[i]
  BY CroppedIs
<1> HIDE DEF c
<1>t. tr.prompt \in Seq(Block) /\ tr.response \in Seq(Block) /\ c.response \in Seq(Block)
      /\ m.tokens \in Seq(Block)
  BY <1>1 DEF Trajectory, RecordsOK, ScoredPrefix
<1>a. PICK a \in Nat : a = Len(tr.prompt) BY <1>t, LenProperties
<1>b. PICK b \in Nat : b = Len(c.response) BY <1>t, LenProperties
<1>m. PICK l \in Nat : l = Len(m.tokens) BY <1>t, LenProperties
<1>n. PICK n \in Nat : n = Len(tr.response) BY <1>t, LenProperties
<1>5. CASE IsPrefixOf(Tokens(tr), m.tokens) /\ c = tr BY <1>5 DEF c
<1>6. CASE /\ IsPrefixOf(m.tokens, Tokens(tr))
           /\ b = (IF l > a THEN l - a ELSE 0)
           /\ b <= n
           /\ \A i \in 1 .. b : c.response[i] = tr.response[i]
  <2>1. ModelBlocks(c) \subseteq ModelBlocks(tr)
    BY <1>6, <1>b, <1>n DEF ModelBlocks
  <2>2. ASSUME \A p \in prefixes : Covers(p, tr), NEW x \in ModelBlocks(tr)
        PROVE  x \in ModelBlocks(c)
    <3>1. PICK i \in 1 .. n : x = tr.response[i] /\ IsModelBlock(tr.response[i])
      BY <2>2, <1>n DEF ModelBlocks
    <3>2. a + i <= l BY <2>2, <3>1, <1>6, <1>a, <1>n, <1>m DEF Covers
    <3>3. i \in 1 .. b BY <3>2, <1>6
    <3>4. c.response[i] = x BY <3>1, <3>3, <1>6
    <3> QED BY <3>1, <3>3, <3>4, <1>b DEF ModelBlocks
  <2> QED BY <2>1, <2>2 DEF c
<1> QED BY <1>2, <1>5, <1>6, <1>a, <1>b, <1>m, <1>n

-------------------------------------------------------------------------------
(* The steps of a session, again. *)

\* A trajectory is in the past or under construction.
LEMMA TrajectoriesAre ==
  ASSUME RecordsOK
  PROVE  /\ Trajectories \subseteq Trajectory /\ Current \in Trajectories
         /\ \A i \in 1 .. Len(past) : past[i] \in Trajectories
         /\ \A tr \in Trajectories : tr = Current \/ \E i \in 1 .. Len(past) : tr = past[i]
<1>1. \A i \in 1 .. Len(past) : past[i] \in Trajectory BY ElementOfSeq DEF RecordsOK
<1>2. Current \in Trajectory BY DEF RecordsOK, Current, Trajectory
<1> QED BY <1>1, <1>2 DEF Trajectories, Current

\* No session starts with a trajectory.
LEMMA LabelsStart == Init => LabelInv
<1> SUFFICES ASSUME Init PROVE LabelInv OBVIOUS
<1> USE DEF Init
<1>1. RecordsOK BY DEF RecordsOK
<1>2. Trajectories = {Current} /\ Len(past) = 0 /\ Current.response = <<>> /\ Current.prompt = <<>>
  BY DEF Trajectories, Current
<1>3. Fresh BY <1>2 DEF Fresh, FreshIn
<1>4. Covering /\ JustScored /\ OwnTurns /\ HandedLast
  BY <1>2 DEF Covering, JustScored, OwnTurns, HandedLast
<1>5. DeliveredTurnsAreTrained /\ LabelsBelongToTokens
  BY DEF DeliveredTurnsAreTrained, LabelsBelongToTokens
<1> QED BY <1>1, <1>3, <1>4, <1>5 DEF LabelInv

\* The labels are safe until the session is finalized.
LEMMA NothingHanded ==
  ASSUME handed = {}, pc # "finalized"
  PROVE  HandedLast /\ DeliveredTurnsAreTrained /\ LabelsBelongToTokens
BY DEF HandedLast, DeliveredTurnsAreTrained, LabelsBelongToTokens

\* A step that leaves the conversation and its labels alone.
LEMMA QuietKeepsLabels ==
  ASSUME LabelInv, pc # "finalized", UNCHANGED <<prefixes, past, prompt, response, turn, handed>>,
         pc' \notin {"reply", "finalized"}, pc' \in {"student", "teacher"} => pc \in {"student", "teacher"}
  PROVE  LabelInv'
<1> USE DEF LabelInv
<1>1. RecordsOK' BY DEF RecordsOK
<1>2. Trajectories' = Trajectories /\ Current' = Current BY DEF Trajectories, Current
<1>3. Fresh' BY <1>2 DEF Fresh, FreshIn
<1>4. Covering' BY <1>2 DEF Covering
<1>5. JustScored' BY DEF JustScored
<1>6. OwnTurns' BY <1>2 DEF OwnTurns
<1>7. handed' = {} BY DEF HandedLast
<1>8. (HandedLast /\ DeliveredTurnsAreTrained /\ LabelsBelongToTokens)'
  BY <1>7 DEF HandedLast, DeliveredTurnsAreTrained, LabelsBelongToTokens
<1> QED BY <1>1, <1>3, <1>4, <1>5, <1>6, <1>8

\* A request keeps the labels, however the gateway arranges the conversation:
\* what was generated stays where it was, or is prompt from now on.
LEMMA AskKeepsLabels ==
  ASSUME LabelInv, NEW a, NEW b, NEW c, Ask(a, b, c), turn \in Nat,
         b \in Seq(Block), c \in Seq(Block),
         \A i \in 1 .. Len(b) : IsModelBlock(b[i]) => b[i][2] <= turn,
         \A i \in 1 .. Len(c) : IsModelBlock(c[i]) => c[i][2] <= turn,
         \A p \in prefixes : Covers(p, [prompt |-> b, response |-> c]),
         \/ a = past /\ ModelBlocks([prompt |-> b, response |-> c]) \subseteq ModelBlocks(Current)
         \/ a = Append(past, Current) /\ ModelBlocks([prompt |-> b, response |-> c]) = {}
  PROVE  LabelInv'
<1> USE DEF LabelInv
<1> DEFINE New == [prompt |-> b, response |-> c]
<1>0. /\ past' = a /\ prompt' = b /\ response' = c /\ turn' = turn + 1 /\ pc = "request" /\ pc' = "student"
      /\ UNCHANGED <<prefixes, handed>>
  BY DEF Ask
<1>1. Current' = New BY <1>0 DEF Current
<1>c. Current \in Trajectory /\ past \in Seq(Trajectory) BY TrajectoriesAre DEF RecordsOK
<1>2. /\ a \in Seq(Trajectory)
      /\ \A i \in 1 .. Len(a) : a[i] = Current \/ \E k \in 1 .. Len(past) : a[i] = past[k]
      /\ \A i \in 1 .. Len(a) : a[i] \in Trajectories
  <2>1. CASE a = past BY <2>1, <1>c, TrajectoriesAre
  <2>2. CASE a = Append(past, Current)
    <3>1. a \in Seq(Trajectory) /\ Len(a) = Len(past) + 1
          /\ (\A i \in 1 .. Len(past) : a[i] = past[i]) /\ a[Len(past) + 1] = Current
      BY <2>2, <1>c, AppendProperties
    <3>2. Len(past) \in Nat BY <1>c, LenProperties
    <3>3. \A i \in 1 .. Len(a) : i \in 1 .. Len(past) \/ i = Len(past) + 1 BY <3>1, <3>2
    <3> QED BY <3>1, <3>3, TrajectoriesAre
  <2> QED BY <2>1, <2>2
<1>3. \A tr \in Trajectories' : tr \in Trajectories \/ tr = New
  BY <1>0, <1>2 DEF Trajectories
<1>4. RecordsOK' BY <1>0, <1>2 DEF RecordsOK
<1>5. Fresh'
  <2> SUFFICES ASSUME NEW tr \in Trajectories' PROVE FreshIn(tr.prompt)' /\ FreshIn(tr.response)'
    BY DEF Fresh
  <2>1. ASSUME NEW s \in Seq(Block), \A i \in 1 .. Len(s) : IsModelBlock(s[i]) => s[i][2] <= turn
        PROVE  FreshIn(s)'
    <3>1. \A i \in 1 .. Len(s) : s[i][2] \in Nat BY ElementOfSeq DEF Block
    <3> QED BY <3>1, <2>1, <1>0 DEF FreshIn
  <2>2. CASE tr = New BY <2>1, <2>2
  <2>3. CASE tr \in Trajectories
    <3>1. FreshIn(tr.prompt) /\ FreshIn(tr.response) BY <2>3 DEF Fresh
    <3>2. tr.prompt \in Seq(Block) /\ tr.response \in Seq(Block) BY <2>3, TrajectoriesAre DEF Trajectory
    <3> QED BY <2>1, <3>1, <3>2 DEF FreshIn
  <2> QED BY <2>2, <2>3, <1>3
<1>6. Covering' BY <1>0, <1>3 DEF Covering
<1>7. JustScored' BY <1>0 DEF JustScored
<1>8. OwnTurns'
  <2>1. CASE a = past /\ ModelBlocks(New) \subseteq ModelBlocks(Current)
    <3>1. \A i \in 1 .. Len(past) : ModelBlocks(past[i]) \cap ModelBlocks(New) = {}
      BY <2>1 DEF OwnTurns
    <3>2. past' = past BY <2>1, <1>0
    <3> HIDE DEF New
    <3> QED BY <3>1, <3>2, <1>1 DEF OwnTurns
  <2>2. CASE a = Append(past, Current) /\ ModelBlocks(New) = {}
    <3> USE DEF OwnTurns
    <3>1. ASSUME NEW i \in 1 .. Len(a), NEW j \in 1 .. Len(a), ModelBlocks(a[i]) \cap ModelBlocks(a[j]) # {}
          PROVE  a[i] = a[j]
      <4>1. CASE a[i] = Current /\ a[j] = Current BY <4>1
      <4>2. CASE \E k \in 1 .. Len(past) : a[i] = past[k] /\ a[j] = Current BY <3>1, <4>2
      <4>3. CASE \E k \in 1 .. Len(past) : a[j] = past[k] /\ a[i] = Current BY <3>1, <4>3
      <4>4. CASE \E k, l \in 1 .. Len(past) : a[i] = past[k] /\ a[j] = past[l]
        <5>1. PICK k \in 1 .. Len(past), l \in 1 .. Len(past) : a[i] = past[k] /\ a[j] = past[l]
          BY <4>4
        <5>2. ModelBlocks(past[k]) \cap ModelBlocks(past[l]) # {} BY <3>1, <5>1
        <5> QED BY <5>1, <5>2
      <4> QED BY <1>2, <4>1, <4>2, <4>3, <4>4
    <3> QED BY <3>1, <2>2, <1>0, <1>1
  <2> QED BY <2>1, <2>2
<1>9. handed' = {} BY <1>0 DEF HandedLast
<1>10. (HandedLast /\ DeliveredTurnsAreTrained /\ LabelsBelongToTokens)'
  BY <1>9, <1>0 DEF HandedLast, DeliveredTurnsAreTrained, LabelsBelongToTokens
<1> QED BY <1>4, <1>5, <1>6, <1>7, <1>8, <1>10

\* Nothing but an older generation is in the conversation.
LEMMA CurrentIsFresh ==
  ASSUME LabelInv
  PROVE  /\ prompt \in Seq(Block) /\ response \in Seq(Block)
         /\ \A i \in 1 .. Len(prompt) : IsModelBlock(prompt[i]) => prompt[i][2] <= turn
         /\ \A i \in 1 .. Len(response) : IsModelBlock(response[i]) => response[i][2] <= turn
<1>1. RecordsOK /\ Fresh BY DEF LabelInv
<1>2. FreshIn(Current.prompt) /\ FreshIn(Current.response) BY <1>1, TrajectoriesAre DEF Fresh
<1> QED BY <1>1, <1>2 DEF RecordsOK, Current, FreshIn

\* An observation, or a text of the agent's, adds no generation.
LEMMA AppendIsFresh ==
  ASSUME NEW s \in Seq(Block), NEW x \in Block, ~ IsModelBlock(x),
         \A i \in 1 .. Len(s) : IsModelBlock(s[i]) => s[i][2] <= turn
  PROVE  /\ Append(s, x) \in Seq(Block)
         /\ \A i \in 1 .. Len(Append(s, x)) :
              IsModelBlock(Append(s, x)[i]) => i \in 1 .. Len(s) /\ Append(s, x)[i] = s[i] /\ s[i][2] <= turn
<1>1. /\ Append(s, x) \in Seq(Block) /\ Len(Append(s, x)) = Len(s) + 1
      /\ (\A i \in 1 .. Len(s) : Append(s, x)[i] = s[i]) /\ Append(s, x)[Len(s) + 1] = x
  BY AppendProperties
<1>2. Len(s) \in Nat BY LenProperties
<1>3. \A i \in 1 .. Len(Append(s, x)) : i \in 1 .. Len(s) \/ i = Len(s) + 1 BY <1>1, <1>2
<1> QED BY <1>1, <1>3

\* What is not the model's.
LEMMA NotGenerated ==
  ASSUME turn \in Nat
  PROVE  /\ Observation(turn) \in Block /\ ~ IsModelBlock(Observation(turn))
         /\ <<"rewritten", turn>> \in Block /\ ~ IsModelBlock(<<"rewritten", turn>>)
         /\ <<"user", 0>> \in Block /\ ~ IsModelBlock(<<"user", 0>>)
BY DEF Observation, Block, IsModelBlock

\* The first turn: the conversation is the user's.
LEMMA FirstKeepsLabels ==
  ASSUME LabelInv, FirstRequest, turn \in Nat
  PROVE  LabelInv'
<1> DEFINE b == <<<<"user", 0>>>>
           c == <<>>
<1>1. Ask(past, b, c) BY DEF FirstRequest
<1>2. b \in Seq(Block) /\ c \in Seq(Block) /\ Len(c) = 0 /\ Len(b) = 1 /\ b[1] = <<"user", 0>>
  BY NotGenerated
<1> HIDE DEF b, c
<1>3. \A i \in 1 .. Len(b) : IsModelBlock(b[i]) => b[i][2] <= turn BY <1>2, NotGenerated
<1>4. \A i \in 1 .. Len(c) : IsModelBlock(c[i]) => c[i][2] <= turn BY <1>2
<1>5. \A p \in prefixes : Covers(p, [prompt |-> b, response |-> c]) BY <1>2 DEF Covers
<1>6. ModelBlocks([prompt |-> b, response |-> c]) \subseteq ModelBlocks(Current)
  BY <1>2 DEF ModelBlocks
<1> QED BY <1>1, <1>2, <1>3, <1>4, <1>5, <1>6, AskKeepsLabels

\* The observations of the last turn continue the trajectory.
LEMMA NextKeepsLabels ==
  ASSUME LabelInv, NextRequest, turn \in Nat
  PROVE  LabelInv'
<1> DEFINE x == Observation(turn)
           c == Append(response, x)
           New == [prompt |-> prompt, response |-> c]
<1>1. Ask(past, prompt, c) BY DEF NextRequest
<1>2. x \in Block /\ ~ IsModelBlock(x) BY NotGenerated
<1>3. /\ prompt \in Seq(Block) /\ response \in Seq(Block)
      /\ \A i \in 1 .. Len(prompt) : IsModelBlock(prompt[i]) => prompt[i][2] <= turn
      /\ \A i \in 1 .. Len(response) : IsModelBlock(response[i]) => response[i][2] <= turn
  BY CurrentIsFresh
<1> HIDE DEF x
<1>4. /\ c \in Seq(Block)
      /\ \A i \in 1 .. Len(c) :
           IsModelBlock(c[i]) => i \in 1 .. Len(response) /\ c[i] = response[i] /\ response[i][2] <= turn
  BY <1>2, <1>3, AppendIsFresh
<1>5. Tokens(New) = Append(prompt \o response, x) /\ Tokens(Current) = prompt \o response
  BY <1>2, <1>3, AppendedTokens DEF Tokens, Current
<1>6. prompt \o response \in Seq(Block) BY <1>3, TokensAre
<1> HIDE DEF c
<1>7. ASSUME NEW p \in prefixes PROVE Covers(p, New)
  <2>1. p.tokens \in Seq(Block) /\ IsModelBlock(p.tokens[Len(p.tokens)])
    BY DEF LabelInv, RecordsOK, ScoredPrefix
  <2>2. ASSUME IsPrefixOf(p.tokens, Tokens(New)) PROVE IsPrefixOf(p.tokens, Tokens(Current))
    <3>1. IsPrefixOf(p.tokens, Append(prompt \o response, x)) BY <1>5, <2>2
    <3>2. IsPrefixOf(p.tokens, prompt \o response) \/ p.tokens[Len(p.tokens)] = x
      BY <1>2, <1>6, <2>1, <3>1, PrefixOfAppend
    <3> QED BY <1>2, <1>5, <2>1, <3>2
  <2>3. Covers(p, Current) BY TrajectoriesAre DEF LabelInv, Covering
  <2>4. ASSUME IsPrefixOf(p.tokens, Tokens(New)), NEW i \in 1 .. Len(c), IsModelBlock(c[i])
        PROVE  Len(prompt) + i <= Len(p.tokens)
    BY <1>4, <2>2, <2>3, <2>4 DEF Covers, Current
  <2> QED BY <2>4 DEF Covers
<1>8. ModelBlocks(New) \subseteq ModelBlocks(Current) BY <1>4 DEF ModelBlocks, Current
<1>9. \A i \in 1 .. Len(c) : IsModelBlock(c[i]) => c[i][2] <= turn BY <1>4
<1> QED BY <1>1, <1>3, <1>4, <1>7, <1>8, <1>9, AskKeepsLabels

\* A split makes prompt of the generations.
LEMMA SplitKeepsLabels ==
  ASSUME LabelInv, SplitRequest, turn \in Nat
  PROVE  LabelInv'
<1> DEFINE x == Observation(turn)
           r == Append(response, x)
           b == prompt \o r
           c == <<>>
<1>1. Ask(Append(past, Current), b, c) BY DEF SplitRequest, Current
<1>2. x \in Block /\ ~ IsModelBlock(x) BY NotGenerated
<1>3. /\ prompt \in Seq(Block) /\ response \in Seq(Block)
      /\ \A i \in 1 .. Len(prompt) : IsModelBlock(prompt[i]) => prompt[i][2] <= turn
      /\ \A i \in 1 .. Len(response) : IsModelBlock(response[i]) => response[i][2] <= turn
  BY CurrentIsFresh
<1>c. c \in Seq(Block) /\ Len(c) = 0 OBVIOUS
<1> HIDE DEF x, c
<1>4. r \in Seq(Block) /\ \A i \in 1 .. Len(r) : IsModelBlock(r[i]) => r[i][2] <= turn
  <2>1. /\ r \in Seq(Block)
        /\ \A i \in 1 .. Len(r) :
             IsModelBlock(r[i]) => i \in 1 .. Len(response) /\ r[i] = response[i] /\ response[i][2] <= turn
    BY <1>2, <1>3, AppendIsFresh
  <2> HIDE DEF r
  <2> QED BY <2>1
<1> HIDE DEF r
<1>5. /\ b \in Seq(Block) /\ Len(b) = Len(prompt) + Len(r)
      /\ \A i \in 1 .. Len(prompt) : b[i] = prompt[i]
      /\ \A i \in 1 .. Len(r) : b[Len(prompt) + i] = r[i]
  BY <1>3, <1>4, TokensAre
<1> HIDE DEF b
<1>6. Len(prompt) \in Nat /\ Len(r) \in Nat BY <1>3, <1>4, LenProperties
<1>7. ASSUME NEW i \in 1 .. Len(b), IsModelBlock(b[i]) PROVE b[i][2] <= turn
  <2>1. CASE i \in 1 .. Len(prompt) BY <1>3, <1>5, <1>7, <2>1
  <2>2. CASE i > Len(prompt)
    <3>1. i - Len(prompt) \in 1 .. Len(r) /\ Len(prompt) + (i - Len(prompt)) = i BY <1>5, <1>6, <2>2
    <3> QED BY <1>4, <1>5, <1>7, <3>1
  <2> QED BY <1>6, <2>1, <2>2
<1>8. \A i \in 1 .. Len(c) : IsModelBlock(c[i]) => c[i][2] <= turn BY <1>c
<1>9. \A p \in prefixes : Covers(p, [prompt |-> b, response |-> c]) BY <1>c DEF Covers
<1>10. ModelBlocks([prompt |-> b, response |-> c]) = {} BY <1>c DEF ModelBlocks
<1> QED BY <1>1, <1>5, <1>c, <1>7, <1>8, <1>9, <1>10, AskKeepsLabels

\* A rewritten history starts a trajectory without a generation.
LEMMA RewriteKeepsLabels ==
  ASSUME LabelInv, RewriteRequest, turn \in Nat
  PROVE  LabelInv'
<1> DEFINE b == <<<<"user", 0>>, <<"rewritten", turn>>, Observation(turn)>>
           c == <<>>
<1>1. Ask(Append(past, Current), b, c) BY DEF RewriteRequest, Current
<1>2. /\ b \in Seq(Block) /\ Len(b) = 3 /\ b[1] = <<"user", 0>> /\ b[2] = <<"rewritten", turn>>
      /\ b[3] = Observation(turn)
  <2>1. \A u, v, w \in Block : <<u, v, w>> \in Seq(Block) OBVIOUS
  <2> QED BY <2>1, NotGenerated
<1>c. c \in Seq(Block) /\ Len(c) = 0 OBVIOUS
<1> HIDE DEF b, c
<1>3. \A i \in 1 .. Len(b) : ~ IsModelBlock(b[i])
  <2>1. \A i \in 1 .. 3 : i = 1 \/ i = 2 \/ i = 3 OBVIOUS
  <2> QED BY <1>2, <2>1, NotGenerated
<1>4. \A i \in 1 .. Len(c) : IsModelBlock(c[i]) => c[i][2] <= turn BY <1>c
<1>5. \A p \in prefixes : Covers(p, [prompt |-> b, response |-> c]) BY <1>c DEF Covers
<1>6. ModelBlocks([prompt |-> b, response |-> c]) = {} BY <1>c DEF ModelBlocks
<1> QED BY <1>1, <1>2, <1>c, <1>3, <1>4, <1>5, <1>6, AskKeepsLabels

\* A last generation that comes back changed is prompt text, and no scored
\* prefix of the conversation is left that could reach past it.
LEMMA RollbackKeepsLabels ==
  ASSUME LabelInv, RollbackRequest, turn \in Nat
  PROVE  LabelInv'
<1>3. /\ prompt \in Seq(Block) /\ response \in Seq(Block)
      /\ \A i \in 1 .. Len(prompt) : IsModelBlock(prompt[i]) => prompt[i][2] <= turn
      /\ \A i \in 1 .. Len(response) : IsModelBlock(response[i]) => response[i][2] <= turn
  BY CurrentIsFresh
<1>a. PICK a \in Nat : a = Len(prompt) BY <1>3, LenProperties
<1>n. PICK n \in Nat : n = Len(response) BY <1>3, LenProperties
<1> DEFINE x == Observation(turn)
           y == <<"rewritten", turn>>
           r == [response EXCEPT ![n] = y]
           c == Append(r, x)
           New == [prompt |-> prompt, response |-> c]
<1>1. Ask(past, prompt, c) BY <1>n DEF RollbackRequest
<1>2. x \in Block /\ ~ IsModelBlock(x) /\ y \in Block /\ ~ IsModelBlock(y) BY NotGenerated
<1>4. n \in 1 .. n /\ IsModelBlock(response[n])
  <2>1. response # <<>> /\ IsModelBlock(response[Len(response)]) BY DEF RollbackRequest
  <2>2. n # 0 BY <2>1, <1>3, <1>n, EmptySeq
  <2> QED BY <2>1, <2>2, <1>n
<1> HIDE DEF x, y
<1>5. /\ r \in Seq(Block) /\ Len(r) = n /\ r[n] = y
      /\ \A i \in 1 .. n : i # n => r[i] = response[i]
  BY <1>2, <1>3, <1>4, <1>n, ExceptSeq
<1> HIDE DEF r
<1>6. ASSUME NEW i \in 1 .. Len(r), IsModelBlock(r[i]) PROVE r[i] = response[i] /\ r[i][2] <= turn
  BY <1>2, <1>3, <1>5, <1>6, <1>n
<1>7. /\ c \in Seq(Block)
      /\ \A i \in 1 .. Len(c) : IsModelBlock(c[i]) => i \in 1 .. Len(r) /\ c[i] = r[i] /\ r[i][2] <= turn
  BY <1>2, <1>5, <1>6, AppendIsFresh
<1>8. Tokens(New) = Append(prompt \o r, x) BY <1>2, <1>3, <1>5, AppendedTokens DEF Tokens
<1>9. /\ prompt \o r \in Seq(Block) /\ Len(prompt \o r) = a + n
      /\ \A i \in 1 .. a : (prompt \o r)[i] = prompt[i]
      /\ \A i \in 1 .. n : (prompt \o r)[a + i] = r[i]
  BY <1>3, <1>5, <1>a, TokensAre
<1>10. /\ prompt \o response \in Seq(Block) /\ Len(prompt \o response) = a + n
       /\ \A i \in 1 .. a : (prompt \o response)[i] = prompt[i]
       /\ \A i \in 1 .. n : (prompt \o response)[a + i] = response[i]
  BY <1>3, <1>a, <1>n, TokensAre
<1> HIDE DEF c
<1>11. \A i \in 1 .. a + n : i # a + n => (prompt \o r)[i] = (prompt \o response)[i]
  <2> SUFFICES ASSUME NEW i \in 1 .. a + n, i # a + n
               PROVE  (prompt \o r)[i] = (prompt \o response)[i]
    OBVIOUS
  <2>1. CASE i \in 1 .. a BY <2>1, <1>9, <1>10
  <2>2. CASE i > a
    <3>1. PICK k \in 1 .. n : i = a + k
      <4>1. i - a \in 1 .. n /\ i = a + (i - a) BY <2>2
      <4> QED BY <4>1
    <3>2. k # n BY <3>1
    <3> QED BY <3>1, <3>2, <1>5, <1>9, <1>10
  <2>3. i \in 1 .. a \/ i > a OBVIOUS
  <2> QED BY <2>1, <2>2, <2>3
<1>12. ASSUME NEW p \in prefixes PROVE ~ IsPrefixOf(p.tokens, Tokens(New))
  <2> SUFFICES ASSUME IsPrefixOf(p.tokens, Tokens(New)) PROVE FALSE
    OBVIOUS
  <2>1. p.tokens \in Seq(Block) /\ IsModelBlock(p.tokens[Len(p.tokens)]) /\ p.tokens # <<>>
    BY DEF LabelInv, RecordsOK, ScoredPrefix
  <2>l. PICK l \in Nat : l = Len(p.tokens) BY <2>1, LenProperties
  <2>2. IsPrefixOf(p.tokens, Append(prompt \o r, x)) BY <1>8
  <2>3. IsPrefixOf(p.tokens, prompt \o r) \/ p.tokens[Len(p.tokens)] = x
    BY <1>2, <1>9, <2>1, <2>2, PrefixOfAppend
  <2>4. l <= a + n /\ \A i \in 1 .. l : p.tokens[i] = (prompt \o r)[i]
    BY <1>2, <1>9, <2>1, <2>3, <2>l DEF IsPrefixOf
  <2>5. l # 0 BY <2>1, <2>l, EmptySeq
  <2>6. l # a + n
    <3> SUFFICES ASSUME l = a + n PROVE FALSE
      OBVIOUS
    <3>1. l \in 1 .. l BY <2>5
    <3>2. p.tokens[l] = y BY <3>1, <2>4, <1>4, <1>5, <1>9
    <3> QED BY <3>2, <2>1, <2>l, <1>2
  <2>7. \A i \in 1 .. l : i \in 1 .. a + n /\ i # a + n BY <2>4, <2>6
  <2>8. \A i \in 1 .. l : p.tokens[i] = (prompt \o response)[i] BY <2>4, <2>7, <1>11
  <2>9. IsPrefixOf(p.tokens, Tokens(Current))
    BY <2>4, <2>8, <2>l, <1>10 DEF IsPrefixOf, Tokens, Current
  <2>10. Covers(p, Current) BY TrajectoriesAre DEF LabelInv, Covering
  <2>11. a + n <= l BY <2>9, <2>10, <2>l, <1>a, <1>n, <1>4 DEF Covers, Current
  <2> QED BY <2>4, <2>6, <2>11
<1>13. \A p \in prefixes : Covers(p, New) BY <1>12 DEF Covers
<1>14. ModelBlocks(New) \subseteq ModelBlocks(Current)
  <2>1. ASSUME NEW i \in 1 .. Len(c), IsModelBlock(c[i])
        PROVE  i \in 1 .. Len(response) /\ c[i] = response[i]
    BY <1>5, <1>6, <1>7, <1>n, <2>1
  <2> QED BY <2>1 DEF ModelBlocks, Current
<1>15. \A i \in 1 .. Len(c) : IsModelBlock(c[i]) => c[i][2] <= turn BY <1>7
<1> QED BY <1>1, <1>3, <1>7, <1>13, <1>14, <1>15, AskKeepsLabels

\* An accepted turn is scored with the tokens that lead to it; what it extends
\* is dropped, and nothing that has been recorded reaches as far.
LEMMA ScoreKeepsLabels ==
  ASSUME IInv, LabelInv, TeacherScores
  PROVE  LabelInv'
<1>0. /\ pc = "teacher" /\ turn \in 0 .. MaxTurns
      /\ UNCHANGED <<past, prompt, response, turn, handed>>
  BY DEF TeacherScores, IInv, TypeOK
<1>1. CASE pc' = "ended" /\ prefixes' = prefixes
  BY <1>0, <1>1, QuietKeepsLabels
<1> DEFINE g == Generation(turn)
           q == prompt \o Append(response, g)
           new == [turn |-> turn, tokens |-> q]
<1>2. CASE pc' = "reply" /\ prefixes' = Latest(q)
  <2>1. RecordsOK /\ Fresh /\ Covering /\ OwnTurns /\ HandedLast BY DEF LabelInv
  <2>2. prompt \in Seq(Block) /\ response \in Seq(Block) BY <2>1 DEF RecordsOK
  <2>3. turn \in Nat /\ g \in Block /\ IsModelBlock(g) /\ g[2] = turn
    BY <1>0, AdaptiveAssumption DEF Generation, Block, IsModelBlock
  <2> HIDE DEF g
  <2>4. q = Append(prompt \o response, g) BY <2>2, <2>3, AppendedTokens
  <2>5. prompt \o response \in Seq(Block) BY <2>2, TokensAre
  <2> HIDE DEF q
  <2>6. q \in Seq(Block) /\ Len(q) = Len(prompt \o response) + 1 /\ q[Len(q)] = g
    BY <2>3, <2>4, <2>5, AppendProperties
  <2>7. Len(q) \in 1 .. Len(q)
    <3>1. Len(prompt \o response) \in Nat BY <2>5, LenProperties
    <3> QED BY <3>1, <2>6
  <2>8. \A p \in prefixes' : p = new \/ (p \in prefixes /\ ~ IsPrefixOf(p.tokens, q))
    BY <1>2 DEF Latest
  <2>9. new \in ScoredPrefix /\ new.tokens # <<>> /\ IsModelBlock(new.tokens[Len(new.tokens)])
    BY <1>0, <2>3, <2>6, <2>7 DEF ScoredPrefix
  <2>10. RecordsOK' BY <1>0, <2>1, <2>8, <2>9 DEF RecordsOK
  <2>11. Trajectories' = Trajectories /\ Current' = Current BY <1>0 DEF Trajectories, Current
  <2>12. Fresh' BY <1>0, <1>2, <2>1, <2>11 DEF Fresh, FreshIn
  <2>13. ASSUME NEW tr \in Trajectories PROVE ~ IsPrefixOf(q, Tokens(tr))
    <3> SUFFICES ASSUME IsPrefixOf(q, Tokens(tr)) PROVE FALSE
      OBVIOUS
    <3>1. tr.prompt \in Seq(Block) /\ tr.response \in Seq(Block)
      BY <2>1, TrajectoriesAre DEF Trajectory
    <3>2. FreshIn(tr.prompt) /\ FreshIn(tr.response) BY <2>1 DEF Fresh
    <3>a. PICK a \in Nat : a = Len(tr.prompt) BY <3>1, LenProperties
    <3>b. PICK b \in Nat : b = Len(tr.response) BY <3>1, LenProperties
    <3>l. PICK l \in Nat : l = Len(q) BY <2>6, LenProperties
    <3>3. /\ Len(Tokens(tr)) = a + b
          /\ \A i \in 1 .. a : Tokens(tr)[i] = tr.prompt[i]
          /\ \A i \in 1 .. b : Tokens(tr)[a + i] = tr.response[i]
      BY <3>1, <3>a, <3>b, TokensAre DEF Tokens
    <3>4. l \in 1 .. a + b /\ Tokens(tr)[l] = g
      BY <2>6, <2>7, <3>3, <3>l DEF IsPrefixOf
    <3>5. CASE l \in 1 .. a
      <4>1. tr.prompt[l] = g BY <3>3, <3>4, <3>5
      <4> QED BY <1>0, <2>3, <3>2, <3>5, <3>a, <4>1 DEF FreshIn
    <3>6. CASE l > a
      <4>1. PICK k \in 1 .. b : l = a + k
        <5>1. l - a \in 1 .. b /\ l = a + (l - a) BY <3>4, <3>6
        <5> QED BY <5>1
      <4>2. tr.response[k] = g BY <3>3, <3>4, <4>1
      <4> QED BY <1>0, <2>3, <3>2, <3>b, <4>2 DEF FreshIn
    <3> QED BY <3>4, <3>5, <3>6
  <2>14. Covering'
    <3> SUFFICES ASSUME NEW p \in prefixes', NEW tr \in Trajectories PROVE Covers(p, tr)
      BY <2>11 DEF Covering
    <3>1. CASE p = new BY <2>13, <3>1 DEF Covers
    <3>2. CASE p \in prefixes BY <2>1, <3>2 DEF Covering
    <3> QED BY <2>8, <3>1, <3>2
  <2>15. JustScored'
    <3> SUFFICES ASSUME NEW p \in prefixes', IsPrefixOf(p.tokens, q) PROVE Len(p.tokens) = Len(q)
      BY <1>0 DEF JustScored, q, g
    <3> QED BY <2>8
  <2>16. OwnTurns' BY <1>0, <2>1, <2>11 DEF OwnTurns
  <2>17. handed' = {} BY <1>0, <2>1 DEF HandedLast
  <2>18. (HandedLast /\ DeliveredTurnsAreTrained /\ LabelsBelongToTokens)'
    BY <2>17, <1>2 DEF HandedLast, DeliveredTurnsAreTrained, LabelsBelongToTokens
  <2> QED BY <2>10, <2>12, <2>14, <2>15, <2>16, <2>18 DEF LabelInv
<1> QED BY <1>1, <1>2 DEF TeacherScores

\* The reply that is recorded has just been scored, with everything before it.
LEMMA ReplyKeepsLabels ==
  ASSUME IInv, LabelInv, Reply
  PROVE  LabelInv'
<1> DEFINE g == Generation(turn)
           c == Append(response, g)
           New == [prompt |-> prompt, response |-> c]
<1>0. /\ pc = "reply" /\ turn \in 0 .. MaxTurns /\ response' = c /\ pc' \in {"request", "ended"}
      /\ UNCHANGED <<prefixes, past, prompt, turn, handed>>
  BY DEF Reply, IInv, TypeOK
<1>1. RecordsOK /\ Fresh /\ Covering /\ JustScored /\ OwnTurns /\ HandedLast BY DEF LabelInv
<1>2. prompt \in Seq(Block) /\ response \in Seq(Block) BY <1>1 DEF RecordsOK
<1>3. turn \in Nat /\ g \in Block /\ IsModelBlock(g) /\ g[2] = turn
  BY <1>0, AdaptiveAssumption DEF Generation, Block, IsModelBlock
<1>q. \A p \in prefixes : IsPrefixOf(p.tokens, prompt \o c) => Len(p.tokens) = Len(prompt \o c)
  BY <1>0, <1>1 DEF JustScored
<1> HIDE DEF g
<1>4. /\ c \in Seq(Block) /\ Len(c) = Len(response) + 1
      /\ (\A i \in 1 .. Len(response) : c[i] = response[i]) /\ c[Len(response) + 1] = g
  BY <1>2, <1>3, AppendProperties
<1> HIDE DEF c
<1>5. PICK n \in Nat : n = Len(response) BY <1>2, LenProperties
<1>a. PICK a \in Nat : a = Len(prompt) BY <1>2, LenProperties
<1>6. \A i \in 1 .. Len(c) : i \in 1 .. n \/ i = n + 1 BY <1>4, <1>5
<1>7. Current' = New BY <1>0 DEF Current
<1>8. \A tr \in Trajectories' : tr = New \/ \E i \in 1 .. Len(past) : tr = past[i]
  BY <1>0 DEF Trajectories
<1>9. RecordsOK' BY <1>0, <1>1, <1>4 DEF RecordsOK
<1>10. Fresh'
  <2> SUFFICES ASSUME NEW tr \in Trajectories' PROVE FreshIn(tr.prompt)' /\ FreshIn(tr.response)'
    BY DEF Fresh
  <2>1. CASE tr = New
    <3>1. FreshIn(prompt) /\ FreshIn(response) BY <1>1, TrajectoriesAre DEF Fresh, Current
    <3>2. FreshIn(prompt)' BY <1>0, <3>1 DEF FreshIn
    <3>3. ASSUME NEW i \in 1 .. Len(c), IsModelBlock(c[i]) PROVE c[i][2] <= turn
      BY <1>3, <1>4, <1>5, <1>6, <3>1, <3>3 DEF FreshIn
    <3> QED BY <1>0, <2>1, <3>2, <3>3 DEF FreshIn
  <2>2. CASE \E i \in 1 .. Len(past) : tr = past[i]
    <3>1. FreshIn(tr.prompt) /\ FreshIn(tr.response) BY <1>1, <2>2, TrajectoriesAre DEF Fresh
    <3> QED BY <1>0, <3>1 DEF FreshIn
  <2> QED BY <1>8, <2>1, <2>2
<1>11. ASSUME NEW p \in prefixes PROVE Covers(p, New)
  <2> SUFFICES ASSUME IsPrefixOf(p.tokens, prompt \o c), NEW i \in 1 .. Len(c)
               PROVE  a + i <= Len(p.tokens)
    BY <1>a DEF Covers, Tokens
  <2>1. Len(p.tokens) = Len(prompt \o c) BY <1>q
  <2>2. Len(prompt \o c) = Len(prompt) + Len(c) BY <1>2, <1>4, TokensAre
  <2>3. Len(prompt \o c) = a + (n + 1) BY <2>2, <1>4, <1>5, <1>a
  <2> QED BY <2>1, <2>3, <1>4, <1>5
<1>12. Covering'
  <2>1. \A p \in prefixes, i \in 1 .. Len(past) : Covers(p, past[i])
    BY <1>1, TrajectoriesAre DEF Covering
  <2> HIDE DEF New
  <2> QED BY <1>0, <1>8, <1>11, <2>1 DEF Covering
<1>13. JustScored' BY <1>0 DEF JustScored
<1>14. ASSUME NEW i \in 1 .. Len(past), NEW x \in ModelBlocks(past[i]) PROVE x \notin ModelBlocks(New)
  <2>1. x \notin ModelBlocks(Current) BY <1>1, <1>14 DEF OwnTurns
  <2>2. x # g
    <3>1. FreshIn(past[i].response) BY <1>1, TrajectoriesAre DEF Fresh
    <3>2. PICK k \in 1 .. Len(past[i].response) : x = past[i].response[k] /\ IsModelBlock(x)
      BY <1>14 DEF ModelBlocks
    <3>3. x[2] < turn BY <1>0, <3>1, <3>2 DEF FreshIn
    <3> QED BY <1>3, <3>3
  <2>3. \A y \in ModelBlocks(New) : y = g \/ y \in ModelBlocks(Current)
    BY <1>4, <1>5, <1>6 DEF ModelBlocks, Current
  <2> QED BY <2>1, <2>2, <2>3
<1>15. OwnTurns'
  <2> HIDE DEF New
  <2> QED BY <1>0, <1>1, <1>7, <1>14 DEF OwnTurns
<1>16. handed' = {} BY <1>0, <1>1 DEF HandedLast
<1>17. (HandedLast /\ DeliveredTurnsAreTrained /\ LabelsBelongToTokens)'
  BY <1>0, <1>16 DEF HandedLast, DeliveredTurnsAreTrained, LabelsBelongToTokens
<1> QED BY <1>9, <1>10, <1>12, <1>13, <1>15, <1>17 DEF LabelInv

\* attach hands over every generation of the conversation, each in one
\* trajectory and with a label.
LEMMA AttachedIsRight ==
  ASSUME LabelInv, ~ Unmatched
  PROVE  /\ UNION {ModelBlocks(tr) : tr \in Attached} = UNION {ModelBlocks(tr) : tr \in Trajectories}
         /\ \A tr \in Attached : \E p \in prefixes : IsPrefixOf(Tokens(tr), p.tokens)
         /\ \A tr, other \in Attached :
              ModelBlocks(tr) \cap ModelBlocks(other) # {} => tr = other
<1>1. RecordsOK /\ Covering /\ OwnTurns BY DEF LabelInv
<1>2. \A r \in Relevant :
        r \in Trajectories /\ r \in Trajectory /\ Matching(Tokens(r)) # {}
  BY <1>1, TrajectoriesAre DEF Relevant, Unmatched
<1>3. \A tr \in Attached : \E r \in Relevant : tr = Cropped(r) /\ Cropped(r).response # <<>>
  BY DEF Attached
<1>4. ASSUME NEW r \in Relevant PROVE ModelBlocks(Cropped(r)) = ModelBlocks(r)
  <2>1. \A p \in prefixes : Covers(p, r) BY <1>1, <1>2 DEF Covering
  <2> QED BY <1>1, <1>2, <2>1, CroppedKeepsTurns
<1>5. ASSUME NEW r \in Trajectories, NEW x \in ModelBlocks(r)
      PROVE  \E tr \in Attached : x \in ModelBlocks(tr)
  <2>1. r \in Relevant BY <1>5 DEF Relevant, HasModelBlock, ModelBlocks
  <2>2. x \in ModelBlocks(Cropped(r)) BY <1>4, <2>1
  <2>3. Cropped(r).response # <<>> BY <2>2 DEF ModelBlocks
  <2>4. Cropped(r) \in Attached BY <2>1, <2>3 DEF Attached
  <2> QED BY <2>2, <2>4
<1>6. ASSUME NEW tr \in Attached, NEW x \in ModelBlocks(tr)
      PROVE  \E r \in Trajectories : x \in ModelBlocks(r)
  <2>1. PICK r \in Relevant : tr = Cropped(r) BY <1>3
  <2> QED BY <1>2, <1>4, <1>6, <2>1
<1>7. ASSUME NEW tr \in Attached PROVE \E p \in prefixes : IsPrefixOf(Tokens(tr), p.tokens)
  <2>1. PICK r \in Relevant : tr = Cropped(r) /\ Cropped(r).response # <<>> BY <1>3
  <2>2. \E p \in prefixes : IsPrefixOf(Tokens(Cropped(r)), p.tokens)
    BY <1>1, <1>2, <2>1, CroppedIsLabelled
  <2> QED BY <2>1, <2>2
<1>8. ASSUME NEW tr \in Attached, NEW other \in Attached,
             ModelBlocks(tr) \cap ModelBlocks(other) # {}
      PROVE  tr = other
  <2>1. PICK r \in Relevant : tr = Cropped(r) BY <1>3
  <2>2. PICK s \in Relevant : other = Cropped(s) BY <1>3
  <2>3. ModelBlocks(r) \cap ModelBlocks(s) # {} BY <1>4, <1>8, <2>1, <2>2
  <2>4. r \in Trajectories /\ s \in Trajectories BY <1>2
  <2>5. r = s
    <3>1. /\ r = Current \/ \E i \in 1 .. Len(past) : r = past[i]
          /\ s = Current \/ \E i \in 1 .. Len(past) : s = past[i]
      BY <1>1, <2>4, TrajectoriesAre
    <3> QED BY <1>1, <2>3, <3>1 DEF OwnTurns
  <2> QED BY <2>1, <2>2, <2>5
<1>9. UNION {ModelBlocks(tr) : tr \in Attached} = UNION {ModelBlocks(tr) : tr \in Trajectories}
  BY <1>5, <1>6
<1> QED BY <1>7, <1>8, <1>9

\* Finalizing hands over what attach has found, or raises.
LEMMA FinalizeKeepsLabels ==
  ASSUME LabelInv, Finalize
  PROVE  LabelInv'
<1>0. pc \notin {"finalized", "raised"} /\ UNCHANGED <<prefixes, past, prompt, response, turn>>
  BY DEF Finalize
<1>1. CASE pc' = "raised" /\ handed' = handed
  BY <1>0, <1>1, QuietKeepsLabels
<1>2. CASE ~ Unmatched /\ pc' = "finalized" /\ handed' = Attached
  <2> USE DEF LabelInv
  <2>1. RecordsOK' BY <1>0 DEF RecordsOK
  <2>2. Trajectories' = Trajectories /\ Current' = Current BY <1>0 DEF Trajectories, Current
  <2>3. Fresh' BY <1>0, <1>2, <2>2 DEF Fresh, FreshIn
  <2>4. Covering' BY <1>0, <2>2 DEF Covering
  <2>5. JustScored' /\ HandedLast' BY <1>2 DEF JustScored, HandedLast
  <2>6. OwnTurns' BY <1>0, <2>2 DEF OwnTurns
  <2>7. DeliveredTurnsAreTrained' BY <1>2, <2>2, AttachedIsRight DEF DeliveredTurnsAreTrained
  <2>8. LabelsBelongToTokens' BY <1>0, <1>2, AttachedIsRight DEF LabelsBelongToTokens
  <2> QED BY <2>1, <2>3, <2>4, <2>5, <2>6, <2>7, <2>8
<1> QED BY <1>1, <1>2 DEF Finalize

\* LabelInv is inductive, given the invariant of the scores.
LEMMA NextKeepsLabelInv == IInv /\ LabelInv /\ [Next]_vars => LabelInv'
<1> SUFFICES ASSUME IInv, LabelInv, [Next]_vars PROVE LabelInv'
  OBVIOUS
<1>0. turn \in Nat BY AdaptiveAssumption DEF IInv, TypeOK
<1>1. CASE FirstRequest BY <1>0, <1>1, FirstKeepsLabels
<1>2. CASE NextRequest BY <1>0, <1>2, NextKeepsLabels
<1>3. CASE SplitRequest BY <1>0, <1>3, SplitKeepsLabels
<1>4. CASE RollbackRequest BY <1>0, <1>4, RollbackKeepsLabels
<1>5. CASE RewriteRequest BY <1>0, <1>5, RewriteKeepsLabels
<1>6. CASE StudentReplies
  <2>1. /\ pc = "student" /\ pc' = "teacher"
        /\ UNCHANGED <<prefixes, past, prompt, response, turn, handed>>
    BY <1>6 DEF StudentReplies
  <2> QED BY <2>1, QuietKeepsLabels
<1>7. CASE StudentIsEmpty
  <2>1. /\ pc = "student" /\ pc' = "ended"
        /\ UNCHANGED <<prefixes, past, prompt, response, turn, handed>>
    BY <1>7 DEF StudentIsEmpty
  <2> QED BY <2>1, QuietKeepsLabels
<1>8. CASE TeacherScores BY <1>8, ScoreKeepsLabels
<1>9. CASE Reply BY <1>9, ReplyKeepsLabels
<1>10. CASE Finalize BY <1>10, FinalizeKeepsLabels
<1>11. CASE UNCHANGED vars
  <2> USE <1>11 DEF vars, LabelInv
  <2>1. Trajectories' = Trajectories /\ Current' = Current BY DEF Trajectories, Current
  <2>2. RecordsOK' BY DEF RecordsOK
  <2>3. Fresh' BY <2>1 DEF Fresh, FreshIn
  <2>4. Covering' /\ JustScored' /\ HandedLast' BY <2>1 DEF Covering, JustScored, HandedLast
  <2>5. OwnTurns' BY <2>1 DEF OwnTurns
  <2>6. DeliveredTurnsAreTrained' BY <2>1 DEF DeliveredTurnsAreTrained
  <2>7. LabelsBelongToTokens' BY DEF LabelsBelongToTokens
  <2> QED BY <2>2, <2>3, <2>4, <2>5, <2>6, <2>7
<1> QED
  BY <1>1, <1>2, <1>3, <1>4, <1>5, <1>6, <1>7, <1>8, <1>9, <1>10, <1>11 DEF Next

\* The conversation, the scored prefixes and what is handed over fit together
\* throughout a session.
THEOREM LabelInvariance == Spec => []LabelInv
<1> QED BY LabelsStart, NextKeepsLabelInv, Invariance, PTL DEF Spec

\* What is trained on is what was delivered to the agent
\* (AdaptiveSession.attach), for every horizon and however often the
\* conversation is split, rolled back or rewritten.
THEOREM DeliveredTurnsStay == Spec => []DeliveredTurnsAreTrained
<1>1. LabelInv => DeliveredTurnsAreTrained BY DEF LabelInv
<1> QED BY <1>1, LabelInvariance, PTL

\* Every token handed over has its own teacher label, and no turn is handed
\* over twice.
THEOREM EveryTokenHasItsLabel == Spec => []LabelsBelongToTokens
<1>1. LabelInv => LabelsBelongToTokens BY DEF LabelInv
<1> QED BY <1>1, LabelInvariance, PTL
===============================================================================
