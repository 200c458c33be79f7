----------------------------- MODULE BlobDownload -----------------------------
(***************************************************************************)
(* _download_blob of scripts/download_oci_images.py: worker threads fetch  *)
(* blobs from several registries into a staging directory that outlives    *)
(* the process, and verify them.  ImageDownload is the program around them.*)
(*                                                                         *)
(* A file is its length in chunks and whether its bytes are the right ones *)
(* so far.  The registries and the network are the environment.            *)
(***************************************************************************)
EXTENDS Integers

CONSTANTS
  Blobs,
  Size,       \* descriptor["size"] of a blob, in chunks
  Sources,    \* number of layer sources, tried in order 1, 2, ...
  Ranged,     \* the sources that honour Range requests
  Retries,
  MaxFaults   \* bound: errors, short or wrong answers, moved tags, process deaths

ASSUME DownloadAssumption ==
  /\ Size \in Nat \ {0} /\ Sources \in Nat \ {0} /\ Retries \in Nat \ {0}
  /\ Ranged \subseteq 1 .. Sources /\ MaxFaults \in Nat

VARIABLES
  part,      \* [Blobs -> [size, good]]: the .part files; no file is size 0
  target,    \* [Blobs -> {"absent", "right", "wrong"}]: blobs/<digest>
  pc,        \* [Blobs -> state of the worker]
  source, attempt,
  faults

blobVars == <<part, target, pc, source, attempt, faults>>

NoPart == [size |-> 0, good |-> TRUE]

Fault == faults < MaxFaults /\ faults' = faults + 1

-------------------------------------------------------------------------------
(* _download_blob.  An operator marked "Fault:" is a plausible bug in the
   definition that follows it; no specification here uses it. *)

\* `break` out of the attempts: the next source, or the error is raised.
NextSource(b) ==
  /\ pc' = [pc EXCEPT ![b] = IF source[b] < Sources THEN "attempt" ELSE "failed"]
  /\ source' = [source EXCEPT ![b] = IF @ < Sources THEN @ + 1 ELSE @]
  /\ attempt' = [attempt EXCEPT ![b] = 1]

\* An attempt that failed for now.
NextAttempt(b) ==
  IF attempt[b] = Retries
    THEN NextSource(b)
    ELSE /\ pc' = [pc EXCEPT ![b] = "attempt"]
         /\ attempt' = [attempt EXCEPT ![b] = @ + 1]
         /\ UNCHANGED source

\* The blob is there with its size; its content is not read again.
Present(b) == target[b] # "absent"

Skip(b) ==
  /\ pc[b] = "start"
  /\ pc' = [pc EXCEPT ![b] = IF Present(b) THEN "done" ELSE "attempt"]
  /\ UNCHANGED <<part, target, source, attempt, faults>>

\* Fault: a partial that is too long is kept.
OversizeKept(b) == part[b]

\* The partial an attempt resumes; one that is too long is unlinked.
Resumed(b) == IF part[b].size > Size THEN NoPart ELSE part[b]

\* Fault: the answer to an ignored Range starts the file again.
StartAgain(b) ==
  part' = [part EXCEPT ![b] = NoPart] /\ pc' = [pc EXCEPT ![b] = "stream"] /\ UNCHANGED <<source, attempt>>

\* "leave the partial for another source, which may support resumable requests"
RangeIgnored(b) == part' = [part EXCEPT ![b] = Resumed(b)] /\ NextSource(b)

Request(b) ==
  /\ pc[b] = "attempt"
  /\ LET size == Resumed(b).size IN
     \/ /\ size = 0 \/ (size < Size /\ source[b] \in Ranged)
        /\ part' = [part EXCEPT ![b] = Resumed(b)]
        /\ pc' = [pc EXCEPT ![b] = "stream"]
        /\ UNCHANGED <<source, attempt, faults>>
     \/ /\ size > 0 /\ source[b] \notin Ranged
        /\ RangeIgnored(b) /\ UNCHANGED faults
     \/ \* nothing beyond the end: 416 Range Not Satisfiable
        /\ size = Size /\ source[b] \in Ranged
        /\ NextSource(b) /\ UNCHANGED <<part, faults>>
     \/ \* 401, 403, 404, or a transient error of the token or blob request
        /\ Fault
        /\ part' = [part EXCEPT ![b] = Resumed(b)]
        /\ NextSource(b) \/ NextAttempt(b)
  /\ UNCHANGED <<target>>

Chunk(b) ==
  /\ pc[b] = "stream"
  /\ \/ part[b].size < Size /\ UNCHANGED faults
        /\ part' = [part EXCEPT ![b].size = @ + 1]
     \/ part[b].size < Size /\ Fault
        /\ part' = [part EXCEPT ![b] = [size |-> @.size + 1, good |-> FALSE]]
     \/ part[b].size = Size /\ Fault
        /\ part' = [part EXCEPT ![b] = [size |-> Size + 1, good |-> FALSE]]
  /\ UNCHANGED <<target, pc, source, attempt>>

FullLength(b) == part[b].size = Size

\* The body ends, early if the connection is lost.
StreamEnds(b) ==
  /\ pc[b] = "stream"
  /\ \/ part[b].size >= Size /\ UNCHANGED faults
     \/ part[b].size < Size /\ Fault
  /\ \/ /\ FullLength(b)
        /\ pc' = [pc EXCEPT ![b] = "validate"] /\ UNCHANGED <<source, attempt>>
     \/ ~ FullLength(b) /\ NextAttempt(b)
  /\ UNCHANGED <<part, target>>

\* Fault: published before the digest is known.
DigestIgnored(b) == TRUE

DigestMatches(b) == part[b].good /\ FullLength(b)

\* The digest is computed from the file; a wrong file is removed, the right
\* one is renamed to its final name.
Validate(b) ==
  /\ pc[b] = "validate"
  /\ \/ /\ DigestMatches(b)
        /\ target' = [target EXCEPT ![b] =
                        IF part[b] = [size |-> Size, good |-> TRUE] THEN "right" ELSE "wrong"]
        /\ pc' = [pc EXCEPT ![b] = "done"]
     \/ /\ ~ DigestMatches(b)
        /\ pc' = [pc EXCEPT ![b] = "failed"]
        /\ UNCHANGED target
  /\ part' = [part EXCEPT ![b] = NoPart]
  /\ UNCHANGED <<source, attempt, faults>>

Worker(b) == Skip(b) \/ Request(b) \/ Chunk(b) \/ StreamEnds(b) \/ Validate(b)

\* The pool is filled anew by every process.
StartWorkers ==
  /\ pc' = [b \in Blobs |-> "start"]
  /\ source' = [b \in Blobs |-> 1] /\ attempt' = [b \in Blobs |-> 1]

InitBlobs ==
  /\ part = [b \in Blobs |-> NoPart]
  /\ target = [b \in Blobs |-> "absent"]
  /\ pc = [b \in Blobs |-> "start"]
  /\ source = [b \in Blobs |-> 1] /\ attempt = [b \in Blobs |-> 1]
  /\ faults = 0

-------------------------------------------------------------------------------
(* Properties. *)

\* Whatever the registries send, whoever dies: a blob under its digest has
\* exactly that content, although later runs never read it again (line 207).
PublishedIsVerified == \A b \in Blobs : target[b] # "wrong"

\* A .part shrinks only into its final name or when it is known to be wrong.
NothingIsThrownAway ==
  \A b \in Blobs : part'[b].size < part[b].size => target'[b] = "right" \/ ~ part[b].good

\* What was fetched is never thrown away while it may still be right: a .part
\* shrinks only into its final name or when it is known to be wrong, also when
\* a source does not resume (lines 226-227).
PartialIsKept == [][NothingIsThrownAway]_blobVars
===============================================================================
