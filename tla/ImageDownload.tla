----------------------------- MODULE ImageDownload -----------------------------
(***************************************************************************)
(* scripts/download_oci_images.py around the blob workers of BlobDownload: *)
(* build_layout asks several registries for the manifest of every image,   *)
(* keeps the answers in a cache beside the staging directory, downloads    *)
(* the blobs the manifests name, writes and normalises index.json, and     *)
(* main packs the staging into the archive and removes it.  The process    *)
(* may die at every step and is started again on the same staging.         *)
(*                                                                         *)
(* A tag names a manifest or a manifest list, and may be moved.            *)
(***************************************************************************)
EXTENDS BlobDownload, Sequences, FiniteSets, SequencesExt

CONSTANTS
  Images,            \* the image references, in order, none twice
  Parts,             \* [Manifests -> the blobs of its config and layers]
  Platform,          \* [Lists -> its linux/amd64 manifest, or Nothing]
  ManifestSources, ManifestRetries,
  Nothing, Garbage   \* no manifest; JSON that is no manifest

Manifests == DOMAIN Parts
Lists == DOMAIN Platform
References == Manifests \cup Lists

ASSUME ImageAssumption ==
  /\ Images \in Seq(Range(Images)) /\ IsInjective(Images)
  /\ \A m \in Manifests : Parts[m] \subseteq Blobs
  /\ \A l \in Lists : Platform[l] \in Manifests \cup {Nothing}
  /\ ManifestSources \in Nat \ {0} /\ ManifestRetries \in Nat \ {0}
  /\ {Nothing, Garbage} \cap References = {}

VARIABLES
  phase,     \* where the process is; "down" when there is none
  skip,      \* its --skip-unavailable
  next,      \* position in Images
  digest,    \* the platform manifest to fetch by digest, or Nothing
  place,     \* [source, attempt] of _manifest
  cache,     \* [images -> what <staging>.manifests has for them]
  index,     \* index_descriptors, later index.json: <<[image, manifest, oci]>>
  layout,    \* the manifests in the staging, as [manifest, oci]
  archive,   \* Nothing, or what was packed
  tag        \* [images -> reference]: the registries

mainVars == <<phase, skip, next, digest, place, cache, index, layout, archive, tag>>
vars == <<blobVars, mainVars>>

Named == Range(Images)

Image == Images[next]

FirstPlace == [source |-> 1, attempt |-> 1]

Manifest(m, oci) == [manifest |-> m, oci |-> oci]

\* `downloads`: a blob that several images share is fetched once.
Downloads == UNION {Parts[e.manifest] : e \in Range(index)}

-------------------------------------------------------------------------------
(* Manifests.  An operator marked "Fault:" is a plausible bug in the definition
   that follows it; no specification here uses it. *)

\* `continue`, or `raise` without --skip-unavailable.
Unavailable ==
  /\ IF skip
       THEN next' = next + 1 /\ phase' = "manifests"
       ELSE phase' = "down" /\ UNCHANGED next
  /\ digest' = Nothing /\ place' = FirstPlace
  /\ UNCHANGED <<skip, cache, index, layout>>

NextManifestSource ==
  IF place.source = ManifestSources
    THEN Unavailable
    ELSE /\ place' = [source |-> place.source + 1, attempt |-> 1]
         /\ UNCHANGED <<phase, skip, next, digest, cache, index, layout>>

NextManifestAttempt ==
  IF place.attempt = ManifestRetries
    THEN NextManifestSource
    ELSE /\ place' = [place EXCEPT !.attempt = @ + 1]
         /\ UNCHANGED <<phase, skip, next, digest, cache, index, layout>>

\* The manifest is stored under its own digest and its blobs are noted; one
\* without config or layers ends the run with a KeyError that nobody expects.
Use(m) ==
  /\ layout' = layout \cup {Manifest(m, FALSE)}
  /\ IF m \in Manifests
       THEN /\ index' = Append(index, [image |-> Image, manifest |-> m, oci |-> FALSE])
            /\ next' = next + 1 /\ phase' = "manifests"
       ELSE phase' = "down" /\ UNCHANGED <<index, next>>
  /\ digest' = Nothing /\ place' = FirstPlace
  /\ UNCHANGED skip

\* Fault: the cache is written and never read.
CacheIgnored == Nothing

Cached == cache[Image]

UseCached ==
  /\ phase = "manifests" /\ next <= Len(Images) /\ Cached # Nothing
  /\ Use(Cached)
  /\ UNCHANGED <<cache, archive, tag, blobVars>>

\* What the registry has under the tag or the digest that is asked for.
Asked == IF digest = Nothing THEN tag[Image] ELSE digest

\* The answer is not compared with the digest it was fetched by.
Answered(answer) ==
  IF digest = Nothing /\ answer \in Lists
    THEN IF Platform[answer] = Nothing
           THEN Unavailable
           ELSE /\ digest' = Platform[answer] /\ place' = FirstPlace
                /\ UNCHANGED <<phase, skip, next, cache, index, layout>>
    ELSE cache' = [cache EXCEPT ![Image] = answer] /\ Use(answer)

FetchManifest ==
  /\ phase = "manifests" /\ next <= Len(Images) /\ Cached = Nothing
  /\ \/ Answered(Asked) /\ UNCHANGED faults
     \/ Fault /\ \E other \in (References \cup {Garbage}) \ {Asked} : Answered(other)
     \/ Fault /\ NextManifestAttempt   \* connection, 429, 5xx
     \/ Fault /\ NextManifestSource    \* any other status, or no answer to the token request
     \/ Fault /\ Unavailable           \* a token answer without token, or no JSON: no other source
     \/ \* the body breaks off: an exception no handler here expects
        /\ Fault /\ phase' = "down" /\ UNCHANGED <<skip, next, digest, place, cache, index, layout>>
  /\ UNCHANGED <<archive, tag, part, target, pc, source, attempt>>

EndManifests ==
  /\ phase = "manifests" /\ next > Len(Images)
  /\ phase' = "blobs" /\ StartWorkers
  /\ UNCHANGED <<skip, next, digest, place, cache, index, layout, archive, tag, part, target, faults>>

-------------------------------------------------------------------------------
(* Blobs, index.json and the archive. *)

Download(b) == phase = "blobs" /\ b \in Downloads /\ Worker(b) /\ UNCHANGED mainVars

WorkersThrough == \A b \in Downloads : pc[b] \in {"done", "failed"}

AllDownloaded == \A b \in Downloads : pc[b] = "done"

\* future.result() of every worker, then index.json.
WriteIndex ==
  /\ phase = "blobs" /\ AllDownloaded
  /\ phase' = "index"
  /\ UNCHANGED <<skip, next, digest, place, cache, index, layout, archive, tag, blobVars>>

\* A future raised; the pool waits for the others, then the staging is kept.
RunFails ==
  /\ phase = "blobs" /\ WorkersThrough /\ \E b \in Downloads : pc[b] = "failed"
  /\ phase' = "down"
  /\ UNCHANGED <<skip, next, digest, place, cache, index, layout, archive, tag, blobVars>>

\* normalize_layout: the manifests are written once more in OCI form, under
\* new digests, and index.json names those.
Normalize ==
  /\ phase = "index"
  /\ phase' = "archive"
  /\ layout' = layout \cup {Manifest(e.manifest, TRUE) : e \in Range(index)}
  /\ index' = [i \in DOMAIN index |-> [index[i] EXCEPT !.oci = TRUE]]
  /\ UNCHANGED <<skip, next, digest, place, cache, archive, tag, blobVars>>

\* The whole staging directory is packed into a .part and renamed.
Pack ==
  /\ phase = "archive"
  /\ archive' = [index |-> index, skip |-> skip, layout |-> layout,
                 blobs |-> [b \in {c \in Blobs : target[c] # "absent"} |-> target[b]],
                 parts |-> {b \in Blobs : part[b].size > 0}]
  /\ phase' = "packed"
  /\ UNCHANGED <<skip, next, digest, place, cache, index, layout, tag, blobVars>>

\* Without --keep-staging the staging and the cache are removed.
RemoveStaging ==
  /\ phase = "packed"
  /\ phase' = "ended"
  /\ part' = [b \in Blobs |-> NoPart] /\ target' = [b \in Blobs |-> "absent"]
  /\ cache' = [i \in Named |-> Nothing] /\ layout' = {} /\ index' = <<>>
  /\ UNCHANGED <<skip, next, digest, place, archive, tag, pc, source, attempt, faults>>

-------------------------------------------------------------------------------
(* The process and its environment. *)

Launch ==
  /\ phase = "down" /\ archive = Nothing
  /\ phase' = "manifests" /\ skip' \in BOOLEAN /\ next' = 1 /\ digest' = Nothing /\ place' = FirstPlace
  /\ index' = <<>>
  /\ UNCHANGED <<cache, layout, archive, tag, blobVars>>

Killed ==
  /\ phase \notin {"down", "ended"} /\ Fault
  /\ phase' = "down"
  /\ UNCHANGED <<skip, next, digest, place, cache, index, layout, archive, tag,
                 part, target, pc, source, attempt>>

TagMoves ==
  /\ Fault
  /\ \E i \in Named, r \in References : r # tag[i] /\ tag' = [tag EXCEPT ![i] = r]
  /\ UNCHANGED <<phase, skip, next, digest, place, cache, index, layout, archive,
                 part, target, pc, source, attempt>>

Init ==
  /\ InitBlobs
  /\ phase = "down" /\ skip = FALSE /\ next = 1 /\ digest = Nothing /\ place = FirstPlace
  /\ cache = [i \in Named |-> Nothing]
  /\ index = <<>> /\ layout = {} /\ archive = Nothing
  /\ tag \in [Named -> References]

Main == UseCached \/ FetchManifest \/ EndManifests \/ WriteIndex \/ RunFails
          \/ Normalize \/ Pack \/ RemoveStaging

Next == Main \/ Launch \/ Killed \/ TagMoves \/ \E b \in Blobs : Download(b)

Spec == Init /\ [][Next]_vars

\* The threads of a live process run, and a run that failed is started again.
FairSpec ==
  /\ Spec
  /\ WF_vars(Main) /\ WF_vars(Launch)
  /\ \A b \in Blobs : WF_vars(Download(b))

-------------------------------------------------------------------------------
(* Properties. *)

\* i stands before j among the references asked for.
Before(i, j) == \E p, q \in DOMAIN Images : p < q /\ Images[p] = i /\ Images[q] = j

\* Over failed, killed and repeated runs and moved tags the archive is exactly
\* one consistent selection: index.json names, in order, the images asked for
\* (all of them unless unavailable ones may be skipped) by OCI manifests that
\* are in it, every blob of these is in it with the right content, and nothing
\* another run fetched for another manifest is left in it.
ArchiveIsExact ==
  archive # Nothing =>
    LET packed == Range(archive.index) IN
    /\ \A e \in packed : e.oci /\ Manifest(e.manifest, TRUE) \in archive.layout
    /\ \A e \in packed : e.image \in Named
    /\ \A j, k \in DOMAIN archive.index : j < k => Before(archive.index[j].image, archive.index[k].image)
    /\ ~ archive.skip => Images = [k \in DOMAIN archive.index |-> archive.index[k].image]
    /\ DOMAIN archive.blobs = UNION {Parts[e.manifest] : e \in packed}
    /\ \A b \in DOMAIN archive.blobs : archive.blobs[b] = "right"
    /\ archive.parts = {}

\* Failures, restarts and moved tags are overcome: there is an archive in the
\* end, unless a process died between the last chunk of a blob and the rename,
\* an answer that is no manifest got into the cache, or the tag itself names
\* nothing for this platform.
FaultsAreOvercome ==
  <>(\/ archive # Nothing
     \/ phase = "down" /\ \E b \in Blobs : part[b].size = Size
     \/ \E i \in Named : cache[i] # Nothing /\ cache[i] \notin Manifests
     \/ \E i \in Named : tag[i] \in Lists /\ Platform[tag[i]] = Nothing)

\* "download failed; resumable staging retained at ..." (line 462): the next
\* run can resume what a failed run has left.
StagingIsResumable == <>(archive # Nothing)
===============================================================================
