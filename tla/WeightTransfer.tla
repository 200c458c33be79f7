---------------------------- MODULE WeightTransfer -------------------------------
(***************************************************************************)
(* veRL's NCCL weight transfer between actor and rollout workers with the  *)
(* persistent sender buffers of verl_optimizations.py: prepare and         *)
(* finalize are the patched methods, the process group and the transfer    *)
(* itself are external.                                                    *)
(***************************************************************************)
EXTENDS Integers, FiniteSets

CONSTANTS Actors, Rollouts, NoRank

ASSUME WorkersAssumption ==
  /\ IsFiniteSet(Actors) /\ Actors # {} /\ IsFiniteSet(Rollouts)
  /\ Actors \cap Rollouts = {} /\ NoRank \notin Int

VARIABLES
  transport, \* the engine's settings
  link,      \* stage of the transfer under way
  due,       \* workers the stage still has to reach
  buffers,   \* workers with send_buf and recv_buf
  allocs,    \* allocations a worker has made since the launch
  flushed,   \* workers that emptied their allocator's cache
  rank,      \* rank in the process group; NoRank before there is one
  served     \* version of the weights the rollouts generate with

linkVars == <<transport, link, due, buffers, allocs, flushed, rank, served>>

Workers == Actors \cup Rollouts
Transports == [multi_sender : BOOLEAN, rebuild_group : BOOLEAN]
NumSenders == IF transport.multi_sender THEN Cardinality(Actors) ELSE 1

\* build_topology: the senders first, then the rollouts; an actor that does
\* not send has rank -1.
Topologies ==
  {r \in [Workers -> -1 .. (Cardinality(Workers) - 1)] :
     /\ {r[a] : a \in Actors} \ {-1} = 0 .. (NumSenders - 1)
     /\ Cardinality({a \in Actors : r[a] # -1}) = NumSenders
     /\ {r[w] : w \in Rollouts} = NumSenders .. (NumSenders + Cardinality(Rollouts) - 1)}

-------------------------------------------------------------------------------
(* Upstream's methods. *)

OriginalPrepare(w) ==
  buffers' = buffers \cup {w} /\ allocs' = [allocs EXCEPT ![w] = @ + 1]

\* A group that is rebuilt is destroyed and the rank forgotten.
OriginalFinalize(w) ==
  /\ buffers' = buffers \ {w} /\ flushed' = flushed \cup {w}
  /\ rank' = IF transport.rebuild_group THEN [rank EXCEPT ![w] = NoRank] ELSE rank

-------------------------------------------------------------------------------
(* The patched methods.  An operator marked "Fault:" is a plausible bug in the
   definition that follows it; no specification here uses it. *)

BeginTransfer ==
  /\ link = "idle"
  /\ link' = "prepare" /\ due' = Workers
  /\ UNCHANGED <<transport, buffers, allocs, flushed, rank, served>>

Prepare(w) ==
  /\ link = "prepare" /\ w \in due
  /\ due' = due \ {w}
  /\ IF w \in buffers THEN UNCHANGED <<buffers, allocs>> ELSE OriginalPrepare(w)
  /\ UNCHANGED <<transport, link, flushed, rank, served>>

\* The first time, and whenever the group is rebuilt, ranks are given out.
Connect ==
  /\ link = "prepare" /\ due = {}
  /\ link' = "connected"
  /\ IF \A w \in Workers : rank[w] = NoRank THEN rank' \in Topologies ELSE UNCHANGED rank
  /\ UNCHANGED <<transport, due, buffers, allocs, flushed, served>>

Transfer(version) ==
  /\ link = "connected"
  /\ link' = "finalize" /\ due' = Workers
  /\ served' = version
  /\ UNCHANGED <<transport, buffers, allocs, flushed, rank>>

\* Fault: whoever has a rank keeps the buffers.
RankKnown(w) == ~ transport.rebuild_group /\ rank[w] # NoRank

\* Everybody else gets upstream's whole cleanup.
IsActorOfKeptGroup(w) ==
  ~ transport.rebuild_group /\ rank[w] # NoRank /\ rank[w] < NumSenders

Finalize(w) ==
  /\ link = "finalize" /\ w \in due
  /\ due' = due \ {w}
  /\ IF IsActorOfKeptGroup(w)
       THEN /\ buffers' = IF rank[w] < 0 THEN buffers \ {w} ELSE buffers
            /\ UNCHANGED <<flushed, rank>>
       ELSE OriginalFinalize(w)
  /\ UNCHANGED <<transport, link, allocs, served>>

EndTransfer ==
  /\ link = "finalize" /\ due = {}
  /\ link' = "idle"
  /\ UNCHANGED <<transport, due, buffers, allocs, flushed, rank, served>>

LinkReset ==
  /\ link' = "idle" /\ due' = {} /\ buffers' = {} /\ allocs' = [w \in Workers |-> 0]
  /\ flushed' = {} /\ rank' = [w \in Workers |-> NoRank] /\ served' = 0
  /\ UNCHANGED transport

LinkInit ==
  /\ transport \in Transports
  /\ link = "idle" /\ due = {} /\ buffers = {} /\ allocs = [w \in Workers |-> 0]
  /\ flushed = {} /\ rank = [w \in Workers |-> NoRank] /\ served = 0

-------------------------------------------------------------------------------
\* Over any number of weight updates: everyone in the group has its buffers
\* when the weights travel; between updates no rollout keeps transport memory
\* from its KV cache, and an actor exactly if it sends in a group that stays,
\* where it allocates once and never flushes its cache; a group that is rebuilt
\* starts from nothing (verl_optimizations.py:183-246).
BuffersFollowRoles ==
  /\ link = "connected" => \A w \in Workers : rank[w] >= 0 => w \in buffers
  /\ link = "idle" =>
       buffers = {a \in Actors : rank[a] # NoRank /\ rank[a] >= 0 /\ ~ transport.rebuild_group}
  /\ ~ transport.rebuild_group =>
       /\ Actors \cap flushed = {}
       /\ \A a \in Actors : rank[a] # NoRank /\ rank[a] >= 0 => allocs[a] = 1
===============================================================================
