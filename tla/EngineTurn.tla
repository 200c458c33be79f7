------------------------------ MODULE EngineTurn --------------------------------
(***************************************************************************)
(* One turn of a ReAct session against the inference servers: the context  *)
(* budget and the terminal reasons of OPDServer (vllm_server.py), the      *)
(* gateway's codec and capacity (opd_gateway.py), the agent's step         *)
(* (react_agent.py) and, in an adaptive session, the teacher's diagnosis   *)
(* of the turn (adaptive_teacher.py).  vLLM, the gateway's sessions and    *)
(* the upstream ReAct loop are external.                                   *)
(*                                                                         *)
(* Of a conversation only its number of tokens is kept.                    *)
(***************************************************************************)
EXTENDS Integers, FiniteSets

CONSTANTS
  Sessions,
  ContextLimit,    \* coding_react.max_context_tokens
  TurnLimit,       \* coding_react.max_tokens_per_turn
  RequestLimits,   \* bound: max_tokens a request may carry in its sampling parameters
  PromptLength,    \* rollout.prompt_length
  ResponseLength,  \* rollout.response_length
  Observations,    \* bound: lengths a tool's answer may have
  NoStart          \* a request without opd_entropy_start

ASSUME TurnAssumption ==
  /\ ContextLimit \in Nat \ {0} /\ TurnLimit \in Nat \ {0}
  /\ PromptLength \in 1 .. (ContextLimit - 1) /\ ResponseLength \in Nat \ {0}
  /\ RequestLimits \subseteq Nat
  /\ Observations \subseteq Nat /\ NoStart \notin Int

VARIABLES
  at,        \* where a session is
  length,    \* tokens of its conversation, the prompt included
  reply,     \* the current turn's reply: tokens, the engine's reason, a tool call
  suffix,    \* _suffix_start in the context of the session's request
  diagnosed, \* token positions the teacher's entropy was averaged over
  turns,     \* turns begun
  horizon,   \* agent.max_steps
  reason     \* termination_reason

turnVars == <<at, length, reply, suffix, diagnosed, turns, horizon, reason>>

NoReply == [tokens |-> 0, engine |-> "none", reported |-> "none", call |-> FALSE]

InTurn == {"ask", "engine", "teacher", "extract", "replied", "tools"}

-------------------------------------------------------------------------------
(* OPDServer.generate.  An operator marked "Fault:" is a plausible bug in the
   definition that follows it; no specification here uses it. *)

Least(m, n) == IF m <= n THEN m ELSE n

Remaining(s) == ContextLimit - length[s]

\* What the request asks for; one that does not say gets TurnLimit.
Limits == RequestLimits \cup {TurnLimit}

MaxTokens(s, asked) == Least(Least(asked, TurnLimit), Remaining(s))

\* Fault: veRL's translation of the finish reason is kept.
AlwaysCompleted(engine) == "completed"

\* veRL reports "completed" for every normal end; _extract has saved the
\* engine's own reason, and the terminal ones are put back.
Reported(engine) == IF engine \in {"length", "repetition"} THEN engine ELSE "completed"

\* A full context is answered without the engine.
Ask(s) ==
  /\ at[s] = "ask"
  /\ turns' = [turns EXCEPT ![s] = @ + 1]
  /\ IF Remaining(s) <= 0
       THEN /\ at' = [at EXCEPT ![s] = "replied"]
            /\ reply' = [reply EXCEPT ![s] = [tokens |-> 0, engine |-> "length",
                                              reported |-> "length", call |-> FALSE]]
       ELSE at' = [at EXCEPT ![s] = "engine"] /\ UNCHANGED reply
  /\ UNCHANGED <<length, suffix, diagnosed, horizon, reason>>

\* The engine generates: up to the limit, or less when it stops or repeats
\* itself; a partial reply may parse as a tool call.
Generate(s, scored) ==
  /\ at[s] = "engine"
  /\ \E asked \in Limits, n \in 0 .. TurnLimit, call \in BOOLEAN,
        engine \in {"stop", "length", "repetition"} :
       /\ n <= MaxTokens(s, asked)
       /\ engine = "length" => n = MaxTokens(s, asked)
       /\ engine = "repetition" => n > 0
       /\ n = 0 => ~ call
       /\ reply' = [reply EXCEPT ![s] = [tokens |-> n, engine |-> engine,
                                         reported |-> Reported(engine), call |-> call]]
       /\ at' = [at EXCEPT ![s] = IF scored /\ n > 0 THEN "teacher" ELSE "replied"]
  /\ UNCHANGED <<length, suffix, diagnosed, turns, horizon, reason>>

-------------------------------------------------------------------------------
(* The teacher's forward pass over the conversation and the new turn. *)

\* Fault: the hook reads a variable of the server instead of the request's.
SuffixOfServer(s, start) == [r \in Sessions |-> start]

SuffixOfRequest(s, start) == [suffix EXCEPT ![s] = start]

\* opd_entropy_start is the position before the turn's first token.
AskTeacher(s) ==
  /\ at[s] = "teacher"
  /\ at' = [at EXCEPT ![s] = "extract"]
  /\ suffix' = SuffixOfRequest(s, length[s] - 1)
  /\ UNCHANGED <<length, reply, diagnosed, turns, horizon, reason>>

\* extract_adaptive_logprobs: the row at a position is about the token after
\* it; without a start there is no diagnosis.
Diagnosed(total, start) ==
  IF start = NoStart THEN {} ELSE {p + 1 : p \in {q \in 0 .. (total - 2) : q >= start}}

\* The entropies either let the turn pass or stop the session: then the reply
\* is replaced by an empty "length" one.
Extract(s) ==
  /\ at[s] = "extract"
  /\ diagnosed' = [diagnosed EXCEPT ![s] = Diagnosed(length[s] + reply[s].tokens, suffix[s])]
  /\ suffix' = SuffixOfRequest(s, NoStart)
  /\ at' = [at EXCEPT ![s] = "replied"]
  /\ \/ UNCHANGED reply
     \/ reply' = [reply EXCEPT ![s].tokens = 0, ![s].reported = "length"]
  /\ UNCHANGED <<length, turns, horizon, reason>>

-------------------------------------------------------------------------------
(* The gateway and the agent. *)

\* Fault: the gateway's own response length is not cut to the context.
FullResponseLength == PromptLength + ResponseLength

\* OPDGatewayManager: the gateway checks this sum before it adds an observation.
Capacity == PromptLength + Least(ResponseLength, ContextLimit - PromptLength)

\* TerminalCodec and _TurnModel: no tools after a terminal reason.
HasTools(s) == reply[s].call /\ reply[s].reported \notin {"length", "repetition"}

\* Upstream's step calls a "length" reply "token_limit" and one without tools
\* "finished"; CodingReActAgent.step restores "repetition".
StepReason(s) ==
  IF reply[s].reported = "repetition" THEN "repetition"
  ELSE IF reply[s].reported = "length" THEN "token_limit" ELSE "finished"

Deliver(s) ==
  /\ at[s] = "replied"
  /\ length' = [length EXCEPT ![s] = @ + reply[s].tokens]
  /\ IF HasTools(s)
       THEN at' = [at EXCEPT ![s] = "tools"] /\ UNCHANGED reason
       ELSE at' = [at EXCEPT ![s] = "ended"] /\ reason' = [reason EXCEPT ![s] = StepReason(s)]
  /\ UNCHANGED <<reply, suffix, diagnosed, turns, horizon>>

\* A tool's answer that does not fit ends the session and is not added; the
\* upstream loop ends at max_steps with "completed", which run() renames.
CallTools(s) ==
  /\ at[s] = "tools"
  /\ \E o \in Observations :
       IF turns[s] = horizon[s]
       THEN /\ at' = [at EXCEPT ![s] = "ended"]
            /\ reason' = [reason EXCEPT ![s] = "max_steps"]
            /\ UNCHANGED length
       ELSE IF length[s] + o > Capacity
       THEN /\ at' = [at EXCEPT ![s] = "ended"]
            /\ reason' = [reason EXCEPT ![s] = "token_limit"]
            /\ UNCHANGED length
       ELSE /\ at' = [at EXCEPT ![s] = "ask"]
            /\ length' = [length EXCEPT ![s] = @ + o]
            /\ UNCHANGED reason
  /\ UNCHANGED <<reply, suffix, diagnosed, turns, horizon>>

Turn(s, scored) ==
  \/ Ask(s) \/ Generate(s, scored) \/ AskTeacher(s) \/ Extract(s) \/ Deliver(s) \/ CallTools(s)

\* The gateway forgets a session: reply, length and diagnosis go with it.
Forget(s) ==
  /\ length' = [length EXCEPT ![s] = 0] /\ turns' = [turns EXCEPT ![s] = 0]
  /\ reply' = [reply EXCEPT ![s] = NoReply] /\ reason' = [reason EXCEPT ![s] = "none"]
  /\ diagnosed' = [diagnosed EXCEPT ![s] = {}] /\ suffix' = [suffix EXCEPT ![s] = NoStart]
  /\ UNCHANGED horizon

TurnInit ==
  /\ at = [s \in Sessions |-> "idle"]
  /\ length = [s \in Sessions |-> 0]
  /\ reply = [s \in Sessions |-> NoReply]
  /\ suffix = [s \in Sessions |-> NoStart]
  /\ diagnosed = [s \in Sessions |-> {}]
  /\ turns = [s \in Sessions |-> 0]
  /\ horizon = [s \in Sessions |-> 0]
  /\ reason = [s \in Sessions |-> "none"]

-------------------------------------------------------------------------------
(* Properties. *)

\* Neither a generation nor an observation ever takes the conversation beyond
\* the context: the server's budget and the gateway's capacity, which are set
\* in two places, agree (vllm_server.py:34-41, opd_gateway.py:71-80).
ContextIsBounded ==
  \A s \in Sessions :
    length[s] + (IF at[s] \in {"teacher", "extract", "replied"} THEN reply[s].tokens ELSE 0)
      <= ContextLimit

\* A turn the engine cut off, or whose entropy stopped the session, runs no
\* tool even when its partial text parses as a call, and the episode's reason
\* says what happened (vllm_server.py:49-51, opd_gateway.py:24-27,
\* react_agent.py:18-45).
CutTurnsRunNoTools ==
  \A s \in Sessions :
    /\ at[s] = "tools" => reply[s].engine = "stop" /\ reply[s].reported = "completed"
    /\ reason[s] = "repetition" => reply[s].engine = "repetition"
    /\ reason[s] = "finished" => reply[s].engine = "stop"
    /\ reason[s] = "max_steps" => turns[s] = horizon[s] /\ reply[s].engine = "stop"
===============================================================================
