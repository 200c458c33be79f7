--------------------------- MODULE AdaptiveRollout -----------------------------
(***************************************************************************)
(* One adaptive training session: the gateway asks the student for a turn, *)
(* the teacher scores it, and the session is stopped at the entropy        *)
(* frontier (adaptive_rollout.py, opd_gateway.py, algorithms/adaptive.py). *)
(* At the end the teacher's labels are attached to the trajectories.       *)
(*                                                                         *)
(* Tokens come in blocks <<kind, turn>>: the user prompt, a generation, an *)
(* observation, or a generation as the agent has rewritten it.  How the    *)
(* gateway cuts a conversation into trajectories is modelled from          *)
(* AdaptiveSession.attach and the tests.  Entropies are integers, in a     *)
(* unit that makes 3 * Threshold one.                                      *)
(***************************************************************************)
EXTENDS Integers, Sequences

CONSTANTS
  MaxTurns,      \* the agent's horizon
  Entropies,     \* what the teacher may report for a turn
  NaN,           \* an entropy that is not finite
  Rise,          \* 3 * threshold: what the sum of three turns must rise by
  MaxSplits,     \* bound: conversations the gateway splits
  MaxRollbacks,  \* bound: last generations the agent sends back changed
  MaxRewrites    \* bound: histories the agent sends back changed

ASSUME AdaptiveAssumption ==
  /\ MaxTurns \in Nat /\ MaxSplits \in Nat
  /\ MaxRollbacks \in Nat /\ MaxRewrites \in Nat
  /\ Entropies \subseteq Int \cup {NaN} /\ NaN \notin Int
  /\ Rise \in Nat \ {0}   \* "adaptive threshold must be finite and positive"

VARIABLES
  script,      \* what the teacher would report for every turn: fixed, not known
  entropies,   \* AdaptiveSession.entropies
  prefixes,    \* AdaptiveSession.prefixes: a list, here the set of [turn, tokens]
               \* that were scored, in the list in the order of their turns
  stopped,
  past,        \* the gateway's trajectories that were split off
  prompt, response,  \* the trajectory under construction
  turn,        \* turns requested
  pc,          \* what happens with the current turn
  handed,      \* what finalize_session returns, as a set of [prompt, response]
  splits, rollbacks, rewrites

vars == <<script, entropies, prefixes, stopped, past, prompt, response, turn, pc,
          handed, splits, rollbacks, rewrites>>

Generation(t) == <<"generation", t>>
Observation(t) == <<"observation", t>>

\* response_mask
IsModelBlock(b) == b[1] = "generation"

-------------------------------------------------------------------------------
(* AdaptiveOPD.retained_turns.  An operator marked "Fault:" is a plausible bug in
   the definition that follows it; no specification here uses it. *)

Finite(e, i) == e[i] # NaN /\ e[i + 1] # NaN /\ e[i + 2] # NaN

Sum(e, i) == e[i] + e[i + 1] + e[i + 2]

\* The window that ends with turn t, counted from zero, has drifted from the
\* first three turns by the threshold on average.
Rises(e, t) ==
  /\ Finite(e, 1) /\ Finite(e, t - 1)
  /\ Sum(e, t - 1) - Sum(e, 1) >= Rise

Frontier(e, n) == {t \in 3 .. (n - 1) : Rises(e, t)}

\* "None means continue"
Continue == 0

\* Fault: the last frontier counts.
LastFrontier(e, n) ==
  IF Frontier(e, n) = {} THEN Continue
  ELSE CHOOSE t \in Frontier(e, n) : \A u \in Frontier(e, n) : u <= t

\* The length of the prefix that is kept: the first frontier turn is not in it.
RetainedTurns(e, n) ==
  IF Frontier(e, n) = {} THEN Continue
  ELSE CHOOSE t \in Frontier(e, n) : \A u \in Frontier(e, n) : t <= u

-------------------------------------------------------------------------------
(* AdaptiveSession. *)

IsPrefixOf(s, t) == Len(s) <= Len(t) /\ \A i \in 1 .. Len(s) : s[i] = t[i]

\* Only the latest result of a chain; separate ones across rewrites.
Latest(tokens) ==
  {p \in prefixes : ~ IsPrefixOf(p.tokens, tokens)} \cup {[turn |-> turn, tokens |-> tokens]}

Matches(p, tokens) == IsPrefixOf(p.tokens, tokens) \/ IsPrefixOf(tokens, p.tokens)

Matching(tokens) == {p \in prefixes : Matches(p, tokens)}

\* `next` over the reversed prefixes.
LastMatch(tokens) ==
  CHOOSE p \in Matching(tokens) : \A q \in Matching(tokens) : q.turn <= p.turn

ScoredLength(tokens) == Len(LastMatch(tokens).tokens)

HasModelBlock(tr) == \E i \in 1 .. Len(tr.response) : IsModelBlock(tr.response[i])

Tokens(tr) == tr.prompt \o tr.response

Shorter(m, n) == IF m <= n THEN m ELSE n

\* Fault: one block too few, as if the dummy label were a token's.
CroppedOneShort(tr) ==
  [tr EXCEPT !.response =
     SubSeq(@, 1, Shorter(Len(Tokens(tr)), ScoredLength(Tokens(tr))) - Len(tr.prompt) - 1)]

\* Fault: what the teacher has not scored is kept.
Whole(tr) == tr

\* The part of a trajectory the teacher has scored.
Cropped(tr) ==
  [tr EXCEPT !.response =
     SubSeq(@, 1, Shorter(Len(Tokens(tr)), ScoredLength(Tokens(tr))) - Len(tr.prompt))]

Trajectories ==
  {past[i] : i \in 1 .. Len(past)} \cup {[prompt |-> prompt, response |-> response]}

Relevant == {tr \in Trajectories : HasModelBlock(tr)}

\* attach: an irrelevant trajectory is skipped, an unknown one is an error, and
\* one with nothing scored beyond its prompt is left out.
Attached == {tr \in {Cropped(r) : r \in Relevant} : tr.response # <<>>}

Unmatched == \E tr \in Relevant : Matching(Tokens(tr)) = {}

-------------------------------------------------------------------------------
(* A turn. *)

Ask(newPast, newPrompt, newResponse) ==
  /\ pc = "request" /\ turn < MaxTurns
  /\ pc' = "student" /\ turn' = turn + 1
  /\ past' = newPast /\ prompt' = newPrompt /\ response' = newResponse
  /\ UNCHANGED <<script, entropies, prefixes, stopped, handed>>

FirstRequest ==
  /\ turn = 0
  /\ Ask(past, <<<<"user", 0>>>>, <<>>)
  /\ UNCHANGED <<splits, rollbacks, rewrites>>

\* The observations of the last turn are appended to the trajectory.
NextRequest ==
  /\ turn > 0
  /\ Ask(past, prompt, Append(response, Observation(turn)))
  /\ UNCHANGED <<splits, rollbacks, rewrites>>

\* A long conversation goes on as the prompt of a new trajectory.
SplitRequest ==
  /\ turn > 0 /\ splits < MaxSplits
  /\ splits' = splits + 1
  /\ Ask(Append(past, [prompt |-> prompt, response |-> response]),
         prompt \o Append(response, Observation(turn)), <<>>)
  /\ UNCHANGED <<rollbacks, rewrites>>

\* The agent sends the last generation back changed: it is rolled back and the
\* new text is prompt text.
RollbackRequest ==
  /\ rollbacks < MaxRollbacks /\ response # <<>> /\ IsModelBlock(response[Len(response)])
  /\ rollbacks' = rollbacks + 1
  /\ Ask(past, prompt,
         Append([response EXCEPT ![Len(response)] = <<"rewritten", turn>>], Observation(turn)))
  /\ UNCHANGED <<splits, rewrites>>

\* A history that is sent back changed further up starts a new trajectory.
RewriteRequest ==
  /\ turn > 0 /\ rewrites < MaxRewrites
  /\ rewrites' = rewrites + 1
  /\ Ask(Append(past, [prompt |-> prompt, response |-> response]),
         <<<<"user", 0>>, <<"rewritten", turn>>, Observation(turn)>>, <<>>)
  /\ UNCHANGED <<splits, rollbacks>>

\* The student's part of AdaptiveRolloutClient.generate.
StudentReplies ==
  /\ pc = "student"
  /\ pc' = "teacher"
  /\ UNCHANGED <<script, entropies, prefixes, stopped, past, prompt, response, turn, handed,
                 splits, rollbacks, rewrites>>

\* An empty reply (the context is full) is not scored, and ends the agent.
StudentIsEmpty ==
  /\ pc = "student"
  /\ pc' = "ended"
  /\ UNCHANGED <<script, entropies, prefixes, stopped, past, prompt, response, turn, handed,
                 splits, rollbacks, rewrites>>

\* The teacher has answered: accept.  A stopped session answers with an empty
\* "length" reply, at which the agent ends before it executes any tool.
TeacherScores ==
  /\ pc = "teacher"
  /\ entropies' = Append(entropies, script[Len(entropies) + 1])
  /\ stopped' = (RetainedTurns(entropies', Len(entropies')) # Continue)
  /\ IF stopped'
       THEN pc' = "ended" /\ UNCHANGED prefixes
       ELSE pc' = "reply" /\ prefixes' = Latest(prompt \o Append(response, Generation(turn)))
  /\ UNCHANGED <<script, past, prompt, response, turn, handed, splits, rollbacks, rewrites>>

\* The gateway records the reply; the agent goes on or is done.
Reply ==
  /\ pc = "reply"
  /\ response' = Append(response, Generation(turn))
  /\ pc' \in {"request", "ended"}
  /\ UNCHANGED <<script, entropies, prefixes, stopped, past, prompt, turn, handed, splits,
                 rollbacks, rewrites>>

\* finalize_session: after the agent, or in the middle of a turn whose request
\* a timed-out agent has abandoned.
Finalize ==
  /\ pc \notin {"finalized", "raised"}
  /\ IF Unmatched
       THEN pc' = "raised" /\ UNCHANGED handed
       ELSE pc' = "finalized" /\ handed' = Attached
  /\ UNCHANGED <<script, entropies, prefixes, stopped, past, prompt, response, turn, splits,
                 rollbacks, rewrites>>

Init ==
  /\ script \in [1 .. MaxTurns -> Entropies]
  /\ entropies = <<>> /\ prefixes = {} /\ stopped = FALSE
  /\ past = <<>> /\ prompt = <<>> /\ response = <<>>
  /\ turn = 0 /\ pc = "request" /\ handed = {}
  /\ splits = 0 /\ rollbacks = 0 /\ rewrites = 0

Next ==
  \/ FirstRequest \/ NextRequest \/ SplitRequest
  \/ RollbackRequest \/ RewriteRequest
  \/ StudentReplies \/ StudentIsEmpty \/ TeacherScores \/ Reply \/ Finalize

Spec == Init /\ [][Next]_vars

-------------------------------------------------------------------------------
(* Properties. *)

\* Type invariant of the session.
TypeOK ==
  /\ script \in [1 .. MaxTurns -> Entropies]
  /\ entropies \in Seq(Entropies) /\ Len(entropies) <= turn
  /\ stopped \in BOOLEAN
  /\ turn \in 0 .. MaxTurns
  /\ pc \in {"request", "student", "teacher", "reply", "ended", "finalized", "raised"}
  /\ splits \in 0 .. MaxSplits /\ rollbacks \in 0 .. MaxRollbacks /\ rewrites \in 0 .. MaxRewrites

\* "The rule is causal, so online execution preserves the original prefix
\* selection" (docs/opd_algorithms.md:67): stopping on the turns seen so far
\* keeps exactly what the offline rule keeps of the whole episode, and an
\* episode that is not stopped has no frontier among its turns.
OnlineIsOffline ==
  /\ stopped => RetainedTurns(script, MaxTurns) = Len(entropies) - 1
  /\ ~ stopped => RetainedTurns(script, Len(entropies)) = Continue

ModelBlocks(tr) == {b \in {tr.response[i] : i \in 1 .. Len(tr.response)} : IsModelBlock(b)}

\* What is trained on is what was delivered to the agent: cropping drops no
\* accepted turn, and the turn that found the frontier never gets in, wherever
\* the conversation was split and at whatever moment it was finalized.
DeliveredTurnsAreTrained ==
  pc = "finalized" =>
    UNION {ModelBlocks(tr) : tr \in handed} = UNION {ModelBlocks(tr) : tr \in Trajectories}

\* Every trajectory handed over lies inside a sequence the teacher has scored,
\* so each of its tokens has its own label; no turn is in two of them.
LabelsBelongToTokens ==
  /\ \A tr \in handed : \E p \in prefixes : IsPrefixOf(Tokens(tr), p.tokens)
  /\ \A tr, other \in handed :
       ModelBlocks(tr) \cap ModelBlocks(other) # {} => tr = other

\* attach finds a scored prefix for every trajectory: splits and rewrites are
\* covered (tests/test_adaptive_opd.py:151, adaptive_rollout.py:48-50).
PrefixIsFound == pc # "raised"

===============================================================================
