--------------------------- MODULE ImageDownloadProofs --------------------------
(***************************************************************************)
(* Proofs about ImageDownload and the blob workers of BlobDownload, for    *)
(* every list of images, any registries and any number of faults, kills,   *)
(* moved tags and reruns on the same staging.                              *)
(***************************************************************************)
EXTENDS ImageDownload, TLAPS

-------------------------------------------------------------------------------
(* The inductive invariant. *)

Live == {"manifests", "blobs", "index", "archive", "packed"}
Entries == [image : Named, manifest : Manifests, oci : BOOLEAN]

BlobTypeOK ==
  /\ part \in [Blobs -> [size : 0 .. (Size + 1), good : BOOLEAN]]
  /\ target \in [Blobs -> {"absent", "right", "wrong"}]
  /\ pc \in [Blobs -> {"start", "attempt", "stream", "validate", "done", "failed"}]
  /\ source \in [Blobs -> 1 .. Sources] /\ attempt \in [Blobs -> 1 .. Retries]

MainTypeOK ==
  /\ phase \in Live \cup {"down", "ended"} /\ skip \in BOOLEAN
  /\ digest \in Manifests \cup {Nothing}
  /\ cache \in [Named -> References \cup {Nothing, Garbage}]
  /\ tag \in [Named -> References]
  /\ phase \in Live => /\ index \in Seq(Entries)
                       /\ next \in 1 .. (Len(Images) + 1)
                       /\ phase # "manifests" => next = Len(Images) + 1

\* Some image's manifest, as the cache has it, names the blob.
Wanted(b) == \E i \in Named : cache[i] \in Manifests /\ b \in Parts[cache[i]]

\* The staging, whatever processes have worked on it: nothing is published
\* wrong, a published blob has no partial, and what is there is wanted.
Staging ==
  \A b \in Blobs :
    /\ target[b] # "wrong"
    /\ target[b] # "absent" => part[b].size = 0
    /\ part[b].size > Size => ~ part[b].good
    /\ target[b] # "absent" \/ part[b].size > 0 => Wanted(b)

\* A live worker fetches what is absent, validates what is complete and ends
\* with what is right.
Working ==
  phase = "blobs" =>
    \A b \in Blobs :
      /\ pc[b] \in {"attempt", "stream", "validate"} => target[b] = "absent"
      /\ pc[b] = "validate" => part[b].size = Size
      /\ pc[b] = "done" => target[b] = "right"

\* The index has the images met so far, in order, by the manifests the cache has
\* for them; it leaves out no image with a manifest, and without
\* --skip-unavailable no image.
Selection ==
  phase \in Live =>
    /\ \A k \in 1 .. Len(index) :
         /\ cache[index[k].image] = index[k].manifest
         /\ \E p \in 1 .. (next - 1) : index[k].image = Images[p]
    /\ \A j, k \in 1 .. Len(index) : j < k => Before(index[j].image, index[k].image)
    /\ \A p \in 1 .. (next - 1) :
         cache[Images[p]] \in Manifests => \E k \in 1 .. Len(index) : index[k].image = Images[p]
    /\ ~ skip => Len(index) = next - 1 /\ \A k \in 1 .. Len(index) : index[k].image = Images[k]

Downloaded == phase \in {"index", "archive", "packed"} => \A b \in Downloads : target[b] = "right"

Normalized ==
  phase \in {"archive", "packed"} =>
    \A k \in 1 .. Len(index) : index[k].oci /\ Manifest(index[k].manifest, TRUE) \in layout

DownloadInv ==
  BlobTypeOK /\ MainTypeOK /\ Staging /\ Working /\ Selection /\ Downloaded /\ Normalized /\ ArchiveIsExact

-------------------------------------------------------------------------------
(* The workers. *)

PcOK == pc \in [Blobs -> {"start", "attempt", "stream", "validate", "done", "failed"}]

PlaceOK == source \in [Blobs -> 1 .. Sources] /\ attempt \in [Blobs -> 1 .. Retries]

\* What a worker's step may do to its pc.
Moves(b, to) == PcOK' /\ PlaceOK' /\ pc'[b] \in to /\ \A c \in Blobs \ {b} : pc'[c] = pc[c]

\* A failed attempt leads to another one, from this source or the next, or to
\* the error (download_oci_images.py:213-247).
LEMMA AttemptsEnd ==
  ASSUME NEW b \in Blobs, PcOK, PlaceOK, NextSource(b) \/ NextAttempt(b)
  PROVE  Moves(b, {"attempt", "failed"})
<1>0. Sources \in Nat \ {0} /\ Retries \in Nat \ {0} /\ source[b] \in 1 .. Sources /\ attempt[b] \in 1 .. Retries
  BY DownloadAssumption DEF PlaceOK
<1>1. ASSUME NextSource(b) PROVE Moves(b, {"attempt", "failed"})
  <2>1. PlaceOK'
    BY <1>0, <1>1 DEF NextSource, PlaceOK
  <2>. QED
    BY <1>1, <2>1 DEF NextSource, PcOK, Moves
<1>2. ASSUME NextAttempt(b), ~ NextSource(b) PROVE Moves(b, {"attempt", "failed"})
  <2>1. /\ attempt[b] # Retries /\ source' = source
        /\ pc' = [pc EXCEPT ![b] = "attempt"] /\ attempt' = [attempt EXCEPT ![b] = @ + 1]
    BY <1>2 DEF NextAttempt
  <2>2. PlaceOK'
    BY <1>0, <2>1 DEF PlaceOK
  <2>. QED
    BY <2>1, <2>2 DEF PcOK, Moves
<1>. QED
  BY <1>1, <1>2

\* One step of one worker, as the invariant sees it: what happens to its .part,
\* its file and its pc.
LEMMA WorkerSteps ==
  ASSUME NEW b \in Blobs, BlobTypeOK, Worker(b),
         part[b].size > Size => ~ part[b].good,
         pc[b] \in {"attempt", "stream", "validate"} => target[b] = "absent",
         pc[b] = "validate" => part[b].size = Size,
         target[b] # "wrong"
  PROVE  /\ BlobTypeOK' /\ \A c \in Blobs \ {b} : UNCHANGED <<part[c], target[c], pc[c]>>
         /\ part'[b].size > Size => ~ part'[b].good
         /\ \/ /\ part'[b] = part[b] /\ target'[b] = target[b]
               /\ pc'[b] \in {"done", "attempt"} /\ (pc'[b] = "done" <=> target[b] # "absent")
            \/ /\ target'[b] = target[b] /\ target[b] = "absent"
               /\ pc'[b] \in {"attempt", "stream", "validate", "failed"}
               /\ pc'[b] = "validate" => part'[b].size = Size
            \/ target'[b] = "right" /\ part'[b].size = 0 /\ pc'[b] = "done"
            \/ target'[b] = target[b] /\ part'[b].size = 0 /\ pc'[b] = "failed"
         /\ part'[b].size < part[b].size => target'[b] = "right" \/ ~ part[b].good
<1>0. /\ Size \in Nat \ {0} /\ part[b] \in [size : 0 .. (Size + 1), good : BOOLEAN]
      /\ NoPart \in [size : 0 .. (Size + 1), good : BOOLEAN] /\ PcOK /\ PlaceOK
      /\ part \in [Blobs -> [size : 0 .. (Size + 1), good : BOOLEAN]]
      /\ target \in [Blobs -> {"absent", "right", "wrong"}]
      /\ NoPart.size = 0 /\ NoPart.good = TRUE
  BY DownloadAssumption DEF BlobTypeOK, NoPart, PcOK, PlaceOK
<1>1. CASE Skip(b)
  <2>1. /\ UNCHANGED <<part, target, source, attempt>>
        /\ pc' = [pc EXCEPT ![b] = IF Present(b) THEN "done" ELSE "attempt"]
    BY <1>1 DEF Skip
  <2>2. BlobTypeOK' /\ \A c \in Blobs \ {b} : UNCHANGED <<part[c], target[c], pc[c]>>
    BY <2>1 DEF BlobTypeOK
  <2>3. pc'[b] \in {"done", "attempt"} /\ (pc'[b] = "done" <=> target[b] # "absent")
    BY <1>0, <2>1 DEF PcOK, Present
  <2>. QED
    BY <1>0, <2>1, <2>2, <2>3
<1>2. CASE Request(b)
  <2>1. pc[b] = "attempt" /\ target' = target /\ target[b] = "absent"
    BY <1>2 DEF Request
  <2>2. Resumed(b) \in [size : 0 .. (Size + 1), good : BOOLEAN] /\ Resumed(b).size <= Size
        /\ (part[b].size <= Size => Resumed(b) = part[b])
    BY <1>0 DEF Resumed
  <2>3. part' = part \/ part' = [part EXCEPT ![b] = Resumed(b)]
    BY <1>2 DEF Request, RangeIgnored
  <2>4. Moves(b, {"stream", "attempt", "failed"})
    <3>1. CASE pc' = [pc EXCEPT ![b] = "stream"] /\ UNCHANGED <<source, attempt>>
      BY <1>0, <3>1 DEF Moves, PcOK, PlaceOK
    <3>2. CASE NextSource(b) \/ NextAttempt(b)
      BY <1>0, <3>2, AttemptsEnd DEF Moves
    <3>. QED
      BY <1>2, <3>1, <3>2 DEF Request, RangeIgnored
  <2>5. /\ part' \in [Blobs -> [size : 0 .. (Size + 1), good : BOOLEAN]]
        /\ \A c \in Blobs \ {b} : part'[c] = part[c]
        /\ part'[b] = part[b] \/ part'[b] = Resumed(b)
    BY <1>0, <2>2, <2>3
  <2>6. BlobTypeOK'
    BY <1>0, <2>1, <2>4, <2>5 DEF BlobTypeOK, Moves, PcOK, PlaceOK
  <2>7. /\ part'[b].size > Size => ~ part'[b].good
        /\ part'[b].size < part[b].size => ~ part[b].good
    BY <1>0, <2>2, <2>5
  <2>. QED
    BY <2>1, <2>4, <2>5, <2>6, <2>7 DEF Moves
<1>3. CASE Chunk(b)
  <2>1. pc[b] = "stream" /\ UNCHANGED <<target, pc, source, attempt>> /\ target[b] = "absent"
    BY <1>3 DEF Chunk
  <2>2. \/ part[b].size < Size /\ part' = [part EXCEPT ![b] = [part[b] EXCEPT !.size = @ + 1]]
        \/ part[b].size < Size /\ part' = [part EXCEPT ![b] = [size |-> part[b].size + 1, good |-> FALSE]]
        \/ part[b].size = Size /\ part' = [part EXCEPT ![b] = [size |-> Size + 1, good |-> FALSE]]
    BY <1>0, <1>3 DEF Chunk
  <2>3. /\ part' \in [Blobs -> [size : 0 .. (Size + 1), good : BOOLEAN]]
        /\ \A c \in Blobs \ {b} : part'[c] = part[c]
        /\ part'[b].size = part[b].size + 1
        /\ part'[b].size > Size => ~ part'[b].good
    <3>1. PICK new \in [size : 0 .. (Size + 1), good : BOOLEAN] :
            /\ part' = [part EXCEPT ![b] = new]
            /\ new.size = part[b].size + 1 /\ (new.size > Size => ~ new.good)
      <4>1. CASE part[b].size < Size /\ part' = [part EXCEPT ![b] = [part[b] EXCEPT !.size = @ + 1]]
        <5>. DEFINE longer == [part[b] EXCEPT !.size = @ + 1]
        <5>1. /\ longer \in [size : 0 .. (Size + 1), good : BOOLEAN]
              /\ longer.size = part[b].size + 1 /\ ~ (longer.size > Size)
              /\ part' = [part EXCEPT ![b] = longer]
          BY <1>0, <4>1
        <5>. HIDE DEF longer
        <5>. QED
          BY <5>1
      <4>2. CASE part[b].size <= Size
                 /\ part' = [part EXCEPT ![b] = [size |-> part[b].size + 1, good |-> FALSE]]
        <5>. DEFINE wrong == [size |-> part[b].size + 1, good |-> FALSE]
        <5>1. /\ wrong \in [size : 0 .. (Size + 1), good : BOOLEAN]
              /\ wrong.size = part[b].size + 1 /\ ~ wrong.good
              /\ part' = [part EXCEPT ![b] = wrong]
          BY <1>0, <4>2
        <5>. HIDE DEF wrong
        <5>. QED
          BY <5>1
      <4>. QED
        BY <1>0, <2>2, <4>1, <4>2
    <3>. QED
      BY <1>0, <3>1
  <2>4. BlobTypeOK'
    BY <2>1, <2>3 DEF BlobTypeOK
  <2>. QED
    BY <1>0, <2>1, <2>3, <2>4
<1>4. CASE StreamEnds(b)
  <2>1. pc[b] = "stream" /\ UNCHANGED <<part, target>> /\ target[b] = "absent"
    BY <1>4 DEF StreamEnds
  <2>2. Moves(b, {"validate", "attempt", "failed"}) /\ (pc'[b] = "validate" => part[b].size = Size)
    <3>1. CASE FullLength(b) /\ pc' = [pc EXCEPT ![b] = "validate"] /\ UNCHANGED <<source, attempt>>
      BY <1>0, <3>1 DEF Moves, PcOK, PlaceOK, FullLength
    <3>2. CASE NextAttempt(b)
      BY <1>0, <3>2, AttemptsEnd DEF Moves
    <3>. QED
      BY <1>4, <3>1, <3>2 DEF StreamEnds
  <2>3. BlobTypeOK'
    BY <1>0, <2>1, <2>2 DEF BlobTypeOK, Moves, PcOK, PlaceOK
  <2>4. part'[b] = part[b] /\ \A c \in Blobs \ {b} : UNCHANGED <<part[c], target[c], pc[c]>>
    BY <2>1, <2>2 DEF Moves
  <2>5. pc'[b] \in {"attempt", "stream", "validate", "failed"}
        /\ (pc'[b] = "validate" => part'[b].size = Size)
    BY <2>2, <2>4 DEF Moves
  <2>. QED
    BY <1>0, <2>1, <2>3, <2>4, <2>5
<1>5. CASE Validate(b)
  <2>1. /\ pc[b] = "validate" /\ part' = [part EXCEPT ![b] = NoPart] /\ UNCHANGED <<source, attempt>>
        /\ part[b].size = Size /\ target[b] = "absent"
    BY <1>5 DEF Validate
  <2>2. part'[b].size = 0 /\ part'[b].good = TRUE /\ \A c \in Blobs \ {b} : part'[c] = part[c]
    BY <1>0, <2>1
  <2>3. CASE DigestMatches(b)
    <3>1. part[b] = [size |-> Size, good |-> TRUE]
      BY <1>0, <2>1, <2>3 DEF DigestMatches
    <3>2. target' = [target EXCEPT ![b] = "right"] /\ pc' = [pc EXCEPT ![b] = "done"]
      BY <1>5, <2>3, <3>1 DEF Validate
    <3>3. target'[b] = "right" /\ pc'[b] = "done"
          /\ \A c \in Blobs \ {b} : target'[c] = target[c] /\ pc'[c] = pc[c]
      BY <1>0, <3>2 DEF PcOK
    <3>4. BlobTypeOK'
      BY <1>0, <2>1, <3>2 DEF BlobTypeOK
    <3>. QED
      BY <1>0, <2>2, <3>3, <3>4
  <2>4. CASE ~ DigestMatches(b)
    <3>1. ~ part[b].good
      BY <1>0, <2>1, <2>4 DEF DigestMatches, FullLength
    <3>2. target' = target /\ pc' = [pc EXCEPT ![b] = "failed"]
      BY <1>5, <2>4 DEF Validate
    <3>3. pc'[b] = "failed" /\ \A c \in Blobs \ {b} : pc'[c] = pc[c]
      BY <1>0, <3>2 DEF PcOK
    <3>4. BlobTypeOK'
      BY <1>0, <2>1, <3>2 DEF BlobTypeOK
    <3>. QED
      BY <1>0, <2>2, <3>1, <3>2, <3>3, <3>4
  <2>. QED
    BY <2>3, <2>4
<1>. QED
  BY <1>1, <1>2, <1>3, <1>4, <1>5 DEF Worker

-------------------------------------------------------------------------------
(* The program around them. *)

\* The blobs to download are the wanted ones, once every image has been met.
LEMMA DownloadsAreWanted ==
  ASSUME DownloadInv, phase \in Live \ {"manifests"}
  PROVE  \A b : b \in Downloads <=> Wanted(b)
<1>0. /\ Images \in Seq(Named) /\ next = Len(Images) + 1 /\ index \in Seq(Entries)
      /\ \A k \in 1 .. Len(index) : index[k] \in Entries /\ cache[index[k].image] = index[k].manifest
  BY ImageAssumption DEF DownloadInv, MainTypeOK, Selection, Named
<1>1. ASSUME NEW b, b \in Downloads PROVE Wanted(b)
  <2>1. PICK k \in 1 .. Len(index) : b \in Parts[index[k].manifest]
    BY <1>0, <1>1 DEF Downloads, Range
  <2>2. index[k].image \in Named /\ index[k].manifest \in Manifests
    BY <1>0, <2>1 DEF Entries
  <2>. QED
    BY <1>0, <2>1, <2>2 DEF Wanted
<1>2. ASSUME NEW b, Wanted(b) PROVE b \in Downloads
  <2>1. PICK i \in Named : cache[i] \in Manifests /\ b \in Parts[cache[i]]
    BY <1>2 DEF Wanted
  <2>2. PICK p \in 1 .. Len(Images) : Images[p] = i
    BY <1>0, <2>1 DEF Named, Range
  <2>3. PICK k \in 1 .. Len(index) : index[k].image = Images[p]
    BY <1>0, <2>1, <2>2 DEF DownloadInv, Selection
  <2>4. b \in Parts[index[k].manifest] /\ index[k] \in Range(index)
    BY <1>0, <2>1, <2>2, <2>3 DEF Range
  <2>. QED
    BY <2>4 DEF Downloads
<1>. QED
  BY <1>1, <1>2

\* A worker leaves the staging as the invariant has it.
LEMMA DownloadKeeps == ASSUME NEW b \in Blobs, DownloadInv, Download(b) PROVE DownloadInv'
<1>0. /\ phase = "blobs" /\ b \in Downloads /\ Worker(b) /\ UNCHANGED mainVars
      /\ BlobTypeOK /\ MainTypeOK /\ Staging /\ Working
  BY DEF Download, DownloadInv
<1>1. Wanted(b)
  BY <1>0, DownloadsAreWanted DEF Live
<1>2. /\ BlobTypeOK' /\ \A c \in Blobs \ {b} : UNCHANGED <<part[c], target[c], pc[c]>>
      /\ part'[b].size > Size => ~ part'[b].good
      /\ \/ /\ part'[b] = part[b] /\ target'[b] = target[b]
            /\ pc'[b] \in {"done", "attempt"} /\ (pc'[b] = "done" <=> target[b] # "absent")
         \/ /\ target'[b] = target[b] /\ target[b] = "absent"
            /\ pc'[b] \in {"attempt", "stream", "validate", "failed"}
            /\ pc'[b] = "validate" => part'[b].size = Size
         \/ target'[b] = "right" /\ part'[b].size = 0 /\ pc'[b] = "done"
         \/ target'[b] = target[b] /\ part'[b].size = 0 /\ pc'[b] = "failed"
  BY <1>0, WorkerSteps DEF Staging, Working
<1>3. \A c : Wanted(c)' <=> Wanted(c)
  BY <1>0 DEF Wanted, mainVars
<1>4. target[b] \in {"absent", "right"} /\ target'[b] \in {"absent", "right"}
      /\ (target[b] # "absent" => part[b].size = 0)
  BY <1>0, <1>2 DEF Staging, BlobTypeOK
<1>5. Staging'
  BY <1>0, <1>1, <1>2, <1>3, <1>4 DEF Staging
<1>6. Working'
  BY <1>0, <1>2, <1>4 DEF Working
<1>7. MainTypeOK' /\ Selection' /\ Normalized' /\ ArchiveIsExact'
  <2>1. UNCHANGED <<phase, skip, next, digest, place, cache, index, layout, archive, tag>>
    BY <1>0 DEF mainVars
  <2>2. MainTypeOK'
    BY <1>0, <2>1 DEF MainTypeOK
  <2>3. Selection'
    BY <2>1 DEF DownloadInv, Selection
  <2>4. Normalized'
    BY <2>1 DEF DownloadInv, Normalized
  <2>5. ArchiveIsExact'
    BY <2>1 DEF DownloadInv, ArchiveIsExact
  <2>. QED
    BY <2>2, <2>3, <2>4, <2>5
<1>8. Downloaded'
  BY <1>0 DEF Downloaded, mainVars
<1>. QED
  BY <1>2, <1>5, <1>6, <1>7, <1>8 DEF DownloadInv

\* What the cache has of an image stays.
CacheGrows ==
  /\ cache' \in [Named -> References \cup {Nothing, Garbage}]
  /\ \A i \in Named : cache[i] \in Manifests => cache'[i] = cache[i]

files == <<part, target, pc, source, attempt>>

\* A step of main that touches neither files nor archive.
LEMMA FilesStay ==
  ASSUME DownloadInv, CacheGrows, UNCHANGED <<part, target, archive>>
  PROVE  Staging' /\ ArchiveIsExact' /\ (UNCHANGED files => BlobTypeOK')
<1>1. \A b \in Blobs : Wanted(b) => Wanted(b)'
  BY DEF CacheGrows, Wanted
<1>2. Staging'
  BY <1>1 DEF DownloadInv, Staging
<1>3. ArchiveIsExact'
  BY DEF DownloadInv, ArchiveIsExact
<1>4. UNCHANGED files => BlobTypeOK'
  BY DEF DownloadInv, BlobTypeOK, files
<1>. QED
  BY <1>2, <1>3, <1>4

\* A process that ends, however it ends, leaves what the next one can use.
LEMMA DownIsSafe ==
  ASSUME DownloadInv, CacheGrows, UNCHANGED <<files, archive, skip, tag>>,
         phase' = "down", digest' \in Manifests \cup {Nothing}
  PROVE  DownloadInv'
<1>1. BlobTypeOK' /\ Staging' /\ ArchiveIsExact'
  BY FilesStay DEF files
<1>2. MainTypeOK'
  BY DEF DownloadInv, MainTypeOK, Live, CacheGrows
<1>3. Working' /\ Selection' /\ Downloaded' /\ Normalized'
  BY DEF Working, Selection, Downloaded, Normalized, Live
<1>. QED
  BY <1>1, <1>2, <1>3 DEF DownloadInv

\* The image main is at.
LEMMA ImageIsNamed ==
  ASSUME DownloadInv, phase = "manifests", next <= Len(Images)
  PROVE  /\ Images \in Seq(Named) /\ next \in 1 .. Len(Images) /\ Image \in Named
         /\ \A p, q \in 1 .. Len(Images) : Images[p] = Images[q] => p = q
<1>1. Images \in Seq(Named) /\ \A p, q \in DOMAIN Images : Images[p] = Images[q] => p = q
  BY ImageAssumption DEF Named, IsInjective
<1>2. next \in 1 .. Len(Images)
  BY <1>1 DEF DownloadInv, MainTypeOK, Live
<1>. QED
  BY <1>1, <1>2 DEF Image

\* Another attempt or source for the same image, or its platform's manifest.
LEMMA StillAsking ==
  ASSUME DownloadInv, UNCHANGED <<files, archive, skip, tag, phase, next, cache, index>>,
         phase = "manifests", digest' \in Manifests \cup {Nothing}
  PROVE  DownloadInv'
<1>0. CacheGrows
  BY DEF CacheGrows, DownloadInv, MainTypeOK
<1>1. BlobTypeOK' /\ Staging' /\ ArchiveIsExact'
  BY <1>0, FilesStay DEF files
<1>2. MainTypeOK'
  BY DEF DownloadInv, MainTypeOK
<1>3. Selection'
  BY DEF DownloadInv, Selection
<1>4. Working' /\ Downloaded' /\ Normalized'
  BY DEF Working, Downloaded, Normalized
<1>. QED
  BY <1>1, <1>2, <1>3, <1>4 DEF DownloadInv

\* An image without a manifest is left out, or ends the run
\* (download_oci_images.py:328-336).
LEMMA UnavailableKeeps ==
  ASSUME DownloadInv, phase = "manifests", next <= Len(Images), cache[Image] = Nothing,
         Unavailable, UNCHANGED <<files, archive, tag>>
  PROVE  DownloadInv'
<1>0. CacheGrows /\ digest' = Nothing /\ UNCHANGED <<skip, cache, index>>
  BY DEF CacheGrows, DownloadInv, MainTypeOK, Unavailable
<1>1. CASE ~ skip
  BY <1>0, <1>1, DownIsSafe DEF Unavailable
<1>2. CASE skip
  <2>1. phase' = "manifests" /\ next' = next + 1
    BY <1>2 DEF Unavailable
  <2>2. BlobTypeOK' /\ Staging' /\ ArchiveIsExact'
    BY <1>0, FilesStay DEF files
  <2>3. Images \in Seq(Named) /\ next \in 1 .. Len(Images)
    BY ImageIsNamed
  <2>4. MainTypeOK'
    BY <1>0, <2>1, <2>3 DEF DownloadInv, MainTypeOK, Live
  <2>5. \A p \in 1 .. (next' - 1) : p \in 1 .. (next - 1) \/ cache[Images[p]] \notin Manifests
    BY <2>1, <2>3, ImageAssumption DEF Image, References
  <2>6. \A p \in 1 .. (next - 1) : p \in 1 .. (next' - 1)
    BY <2>1, <2>3
  <2>7. Selection'
    BY <1>0, <1>2, <2>5, <2>6 DEF DownloadInv, Selection, Live
  <2>8. Working' /\ Downloaded' /\ Normalized'
    BY <2>1 DEF Working, Downloaded, Normalized
  <2>. QED
    BY <2>2, <2>4, <2>7, <2>8 DEF DownloadInv
<1>. QED
  BY <1>1, <1>2

\* A manifest is used under the digest the cache has for its image, and the
\* image is indexed after those before it (download_oci_images.py:337-385).
LEMMA UseKeeps ==
  ASSUME DownloadInv, phase = "manifests", next <= Len(Images),
         NEW m \in References \cup {Garbage}, Use(m),
         cache[Image] \in {Nothing, m}, cache' = [cache EXCEPT ![Image] = m],
         UNCHANGED <<files, archive, tag>>
  PROVE  DownloadInv'
<1>0. /\ Images \in Seq(Named) /\ next \in 1 .. Len(Images) /\ Image \in Named /\ Image = Images[next]
      /\ \A p, q \in 1 .. Len(Images) : Images[p] = Images[q] => p = q
      /\ Nothing \notin Manifests /\ index \in Seq(Entries)
      /\ cache \in [Named -> References \cup {Nothing, Garbage}]
  BY ImageIsNamed, ImageAssumption DEF Image, References, DownloadInv, MainTypeOK, Live
<1>1. CacheGrows /\ cache'[Image] = m /\ \A i \in Named \ {Image} : cache'[i] = cache[i]
  BY <1>0 DEF CacheGrows
<1>2. digest' = Nothing /\ skip' = skip
  BY DEF Use
<1>3. CASE m \notin Manifests
  BY <1>1, <1>2, <1>3, DownIsSafe DEF Use
<1>4. CASE m \in Manifests
  <2>. DEFINE e == [image |-> Image, manifest |-> m, oci |-> FALSE]
              n == Len(index)
  <2>1. phase' = "manifests" /\ next' = next + 1 /\ index' = Append(index, e)
    BY <1>4 DEF Use
  <2>2. e \in Entries /\ e.image = Image /\ e.manifest = m
    BY <1>0, <1>4 DEF Entries
  <2>. HIDE DEF e
  <2>3. /\ index' \in Seq(Entries) /\ Len(index') = n + 1 /\ index'[n + 1] = e /\ n \in Nat
        /\ \A k \in 1 .. n : index'[k] = index[k] /\ index[k] \in Entries
    BY <1>0, <2>1, <2>2
  <2>. HIDE DEF n
  <2>4. BlobTypeOK' /\ Staging' /\ ArchiveIsExact'
    BY <1>1, FilesStay DEF files
  <2>5. MainTypeOK'
    BY <1>0, <1>1, <1>2, <2>1, <2>3 DEF DownloadInv, MainTypeOK, Live
  <2>6. /\ \A k \in 1 .. n : /\ cache[index[k].image] = index[k].manifest
                             /\ \E p \in 1 .. (next - 1) : index[k].image = Images[p]
        /\ \A j, k \in 1 .. n : j < k => Before(index[j].image, index[k].image)
        /\ \A p \in 1 .. (next - 1) :
             cache[Images[p]] \in Manifests => \E k \in 1 .. n : index[k].image = Images[p]
        /\ ~ skip => n = next - 1 /\ \A k \in 1 .. n : index[k].image = Images[k]
    BY DEF DownloadInv, Selection, Live, n
  <2>7. ASSUME NEW k \in 1 .. (n + 1)
        PROVE  /\ cache'[index'[k].image] = index'[k].manifest
               /\ \E p \in 1 .. next : index'[k].image = Images[p]
    <3>1. CASE k = n + 1
      BY <1>0, <1>1, <2>2, <2>3, <3>1
    <3>2. CASE k \in 1 .. n
      <4>1. index[k].image \in Named /\ index[k].manifest \in Manifests
        BY <2>3, <3>2 DEF Entries
      <4>2. cache'[index[k].image] = index[k].manifest
        BY <1>1, <2>6, <3>2, <4>1 DEF CacheGrows
      <4>3. \E p \in 1 .. next : index[k].image = Images[p]
        BY <1>0, <2>6, <3>2
      <4>. QED
        BY <2>3, <3>2, <4>2, <4>3
    <3>. QED
      BY <2>3, <3>1, <3>2
  <2>8. ASSUME NEW j \in 1 .. (n + 1), NEW k \in 1 .. (n + 1), j < k
        PROVE  Before(index'[j].image, index'[k].image)
    <3>1. CASE k = n + 1
      <4>1. j \in 1 .. n
        BY <2>3, <2>8, <3>1
      <4>2. PICK p \in 1 .. (next - 1) : index[j].image = Images[p]
        BY <2>6, <4>1
      <4>3. p \in DOMAIN Images /\ next \in DOMAIN Images /\ p < next
        BY <1>0, <4>2
      <4>. QED
        BY <1>0, <2>2, <2>3, <3>1, <4>1, <4>2, <4>3 DEF Before
    <3>2. CASE k \in 1 .. n
      <4>1. j \in 1 .. n
        BY <2>3, <2>8, <3>2
      <4>. QED
        BY <2>3, <2>6, <2>8, <3>2, <4>1
    <3>. QED
      BY <2>3, <3>1, <3>2
  <2>9. ASSUME NEW p \in 1 .. next, cache'[Images[p]] \in Manifests
        PROVE  \E k \in 1 .. (n + 1) : index'[k].image = Images[p]
    <3>1. CASE p = next
      BY <1>0, <2>2, <2>3, <3>1
    <3>2. CASE p \in 1 .. (next - 1)
      <4>1. Images[p] \in Named \ {Image}
        BY <1>0, <3>2
      <4>2. PICK k \in 1 .. n : index[k].image = Images[p]
        BY <1>1, <2>6, <2>9, <3>2, <4>1
      <4>. QED
        BY <2>3, <4>2
    <3>. QED
      BY <1>0, <3>1, <3>2
  <2>10. ASSUME ~ skip
         PROVE  n + 1 = next /\ \A k \in 1 .. (n + 1) : index'[k].image = Images[k]
    <3>1. n = next - 1 /\ \A k \in 1 .. n : index[k].image = Images[k]
      BY <2>6, <2>10
    <3>2. ASSUME NEW k \in 1 .. (n + 1) PROVE index'[k].image = Images[k]
      <4>1. CASE k = n + 1
        BY <1>0, <2>2, <2>3, <3>1, <4>1
      <4>2. CASE k \in 1 .. n
        BY <2>3, <3>1, <4>2
      <4>. QED
        BY <2>3, <4>1, <4>2
    <3>. QED
      BY <1>0, <2>3, <3>1, <3>2
  <2>11. Selection'
    <3>1. Len(index') = n + 1 /\ next' - 1 = next
      BY <1>0, <2>1, <2>3
    <3>. QED
      BY <1>2, <2>7, <2>8, <2>9, <2>10, <3>1 DEF Selection
  <2>12. Working' /\ Downloaded' /\ Normalized'
    BY <2>1 DEF Working, Downloaded, Normalized
  <2>. QED
    BY <2>4, <2>5, <2>11, <2>12 DEF DownloadInv
<1>. QED
  BY <1>3, <1>4

\* What the cache has is used without asking (download_oci_images.py:150-177).
LEMMA UseCachedKeeps == ASSUME DownloadInv, UseCached PROVE DownloadInv'
<1>1. /\ phase = "manifests" /\ next <= Len(Images) /\ cache[Image] # Nothing /\ Use(cache[Image])
      /\ UNCHANGED <<cache, archive, tag, files>>
  BY DEF UseCached, Cached, blobVars, files
<1>2. Image \in Named /\ cache \in [Named -> References \cup {Nothing, Garbage}]
  BY <1>1, ImageIsNamed DEF DownloadInv, MainTypeOK
<1>. DEFINE m == cache[Image]
<1>3. m \in References \cup {Garbage} /\ cache' = [cache EXCEPT ![Image] = m] /\ cache[Image] \in {Nothing, m}
  BY <1>1, <1>2
<1>4. Use(m)
  BY <1>1
<1>. HIDE DEF m
<1>. QED
  BY <1>1, <1>3, <1>4, UseKeeps

\* Whatever a registry answers, nothing but a manifest of this platform is used
\* (download_oci_images.py:83-148,178-200).
LEMMA FetchKeeps == ASSUME DownloadInv, FetchManifest PROVE DownloadInv'
<1>1. /\ phase = "manifests" /\ next <= Len(Images) /\ cache[Image] = Nothing
      /\ UNCHANGED <<archive, tag, files>>
  BY DEF FetchManifest, Cached, files
<1>2. /\ Image \in Named /\ digest \in Manifests \cup {Nothing} /\ tag \in [Named -> References]
      /\ cache \in [Named -> References \cup {Nothing, Garbage}]
  BY <1>1, ImageIsNamed DEF DownloadInv, MainTypeOK
<1>3. CacheGrows \/ cache' # cache
  BY <1>2 DEF CacheGrows
<1>4. ASSUME NEW answer \in References \cup {Garbage}, Answered(answer) PROVE DownloadInv'
  <2>1. CASE digest = Nothing /\ answer \in Lists
    <3>1. CASE Platform[answer] = Nothing
      BY <1>1, <1>4, <2>1, <3>1, UnavailableKeeps DEF Answered
    <3>2. CASE Platform[answer] # Nothing
      <4>1. /\ digest' = Platform[answer] /\ UNCHANGED <<phase, skip, next, cache, index>>
        BY <1>4, <2>1, <3>2 DEF Answered
      <4>2. Platform[answer] \in Manifests \cup {Nothing}
        BY <2>1, ImageAssumption
      <4>. QED
        BY <1>1, <4>1, <4>2, StillAsking
    <3>. QED
      BY <3>1, <3>2
  <2>2. CASE ~ (digest = Nothing /\ answer \in Lists)
    <3>1. cache' = [cache EXCEPT ![Image] = answer] /\ Use(answer)
      BY <1>4, <2>2 DEF Answered
    <3>. QED
      BY <1>1, <3>1, UseKeeps
  <2>. QED
    BY <2>1, <2>2
<1>5. CASE NextManifestAttempt \/ NextManifestSource \/ Unavailable
  <2>1. CASE Unavailable
    BY <1>1, <2>1, UnavailableKeeps
  <2>2. CASE ~ Unavailable
    <3>1. UNCHANGED <<phase, skip, next, digest, cache, index>>
      BY <1>5, <2>2 DEF NextManifestAttempt, NextManifestSource
    <3>. QED
      BY <1>1, <1>2, <3>1, StillAsking
  <2>. QED
    BY <2>1, <2>2
<1>6. CASE phase' = "down" /\ UNCHANGED <<skip, next, digest, place, cache, index, layout>>
  BY <1>1, <1>2, <1>3, <1>6, DownIsSafe
<1>7. Asked \in References \cup {Garbage}
  BY <1>2 DEF Asked, References
<1>. QED
  BY <1>4, <1>5, <1>6, <1>7 DEF FetchManifest

\* The pool starts with what is there (download_oci_images.py:386-405).
LEMMA PoolKeeps == ASSUME DownloadInv, EndManifests PROVE DownloadInv'
<1>1. /\ phase = "manifests" /\ phase' = "blobs" /\ next > Len(Images)
      /\ pc' = [b \in Blobs |-> "start"] /\ source' = [b \in Blobs |-> 1] /\ attempt' = [b \in Blobs |-> 1]
      /\ UNCHANGED <<skip, next, digest, cache, index, layout, archive, tag, part, target>>
  BY DEF EndManifests, StartWorkers
<1>2. CacheGrows
  BY <1>1 DEF CacheGrows, DownloadInv, MainTypeOK
<1>3. Staging' /\ ArchiveIsExact'
  BY <1>1, <1>2, FilesStay
<1>4. BlobTypeOK'
  BY <1>1, DownloadAssumption DEF DownloadInv, BlobTypeOK
<1>5. MainTypeOK'
  <2>1. Len(Images) \in Nat /\ next \in 1 .. (Len(Images) + 1)
    BY <1>1, ImageAssumption DEF DownloadInv, MainTypeOK, Live
  <2>. QED
    BY <1>1, <2>1 DEF DownloadInv, MainTypeOK, Live
<1>6. Working'
  BY <1>1 DEF Working
<1>7. Selection'
  BY <1>1 DEF DownloadInv, Selection, Live
<1>8. Downloaded' /\ Normalized'
  BY <1>1 DEF Downloaded, Normalized
<1>. QED
  BY <1>3, <1>4, <1>5, <1>6, <1>7, <1>8 DEF DownloadInv

\* index.json is written when every blob is there, and then normalised
\* (download_oci_images.py:250-310,406-426).
LEMMA IndexKeeps == ASSUME DownloadInv, WriteIndex \/ Normalize PROVE DownloadInv'
<1>1. /\ phase \in {"blobs", "index"} /\ phase' \in {"index", "archive"}
      /\ UNCHANGED <<skip, next, digest, cache, archive, tag, files>>
  BY DEF WriteIndex, Normalize, blobVars, files
<1>2. CacheGrows
  BY <1>1 DEF CacheGrows, DownloadInv, MainTypeOK
<1>3. BlobTypeOK' /\ Staging' /\ ArchiveIsExact' /\ Working'
  BY <1>1, <1>2, FilesStay DEF files, Working
<1>7. index \in Seq(Entries) /\ Len(index) \in Nat
  BY <1>1 DEF DownloadInv, MainTypeOK, Live
<1>4. /\ index \in Seq(Entries) /\ Len(index) \in Nat /\ DOMAIN index = 1 .. Len(index)
      /\ \A k \in 1 .. Len(index) : index[k] \in Entries
  BY <1>7
<1>5. CASE WriteIndex
  <2>1. phase = "blobs" /\ phase' = "index" /\ UNCHANGED <<index, layout>> /\ AllDownloaded
    BY <1>5 DEF WriteIndex
  <2>2. MainTypeOK'
    BY <1>1, <2>1 DEF DownloadInv, MainTypeOK, Live
  <2>3. Selection'
    BY <1>1, <2>1 DEF DownloadInv, Selection, Live
  <2>4. \A b \in Downloads : b \in Blobs
    <3>1. \A k \in 1 .. Len(index) : index[k].manifest \in Manifests
      BY <1>4 DEF Entries
    <3>. QED
      BY <1>4, <3>1, ImageAssumption DEF Downloads, Range
  <2>5. \A b \in Downloads : target[b] = "right"
    BY <2>1, <2>4 DEF AllDownloaded, DownloadInv, Working
  <2>6. Downloaded'
    BY <1>1, <2>1, <2>5 DEF Downloaded, Downloads, files
  <2>7. Normalized'
    BY <2>1 DEF Normalized
  <2>. QED
    BY <1>3, <2>2, <2>3, <2>6, <2>7 DEF DownloadInv
<1>6. CASE Normalize
  <2>1. /\ phase = "index" /\ phase' = "archive"
        /\ layout' = layout \cup {Manifest(e.manifest, TRUE) : e \in Range(index)}
        /\ index' = [i \in DOMAIN index |-> [index[i] EXCEPT !.oci = TRUE]]
    BY <1>6 DEF Normalize
  <2>2. ASSUME NEW k \in 1 .. Len(index)
        PROVE  /\ index'[k] \in Entries /\ index'[k].image = index[k].image
               /\ index'[k].manifest = index[k].manifest /\ index'[k].oci
    BY <1>4, <2>1 DEF Entries
  <2>3. index' \in Seq(Entries) /\ Len(index') = Len(index)
    <3>1. DOMAIN index = 1 .. Len(index) /\ \A k \in 1 .. Len(index) : index'[k] \in Entries
      BY <1>4, <2>2
    <3>2. index' = [k \in 1 .. Len(index) |-> index'[k]]
      BY <2>1, <3>1
    <3>. QED
      BY <1>4, <3>1, <3>2
  <2>4. MainTypeOK'
    BY <1>1, <2>1, <2>3 DEF DownloadInv, MainTypeOK, Live
  <2>5. Selection'
    BY <1>1, <2>1, <2>2, <2>3 DEF DownloadInv, Selection, Live
  <2>6. Downloads' = Downloads
    <3>1. \A b : b \in Downloads <=> \E k \in 1 .. Len(index) : b \in Parts[index[k].manifest]
      BY <1>4 DEF Downloads, Range
    <3>2. \A b : b \in Downloads' <=> \E k \in 1 .. Len(index') : b \in Parts[index'[k].manifest]
      BY <2>3 DEF Downloads, Range
    <3>. QED
      BY <2>2, <2>3, <3>1, <3>2
  <2>7. Downloaded'
    BY <1>1, <2>1, <2>6 DEF DownloadInv, Downloaded, files
  <2>8. Normalized'
    <3>1. ASSUME NEW k \in 1 .. Len(index) PROVE Manifest(index[k].manifest, TRUE) \in layout'
      <4>1. index[k] \in Range(index)
        BY <1>4 DEF Range
      <4>. QED
        BY <2>1, <4>1
    <3>. QED
      BY <2>2, <2>3, <3>1 DEF Normalized, Manifest
  <2>. QED
    BY <1>3, <2>4, <2>5, <2>7, <2>8 DEF DownloadInv
<1>. QED
  BY <1>5, <1>6

\* When the staging is packed it holds the blobs the index needs, right and
\* whole, and no others.
LEMMA StagingIsExact ==
  ASSUME DownloadInv, phase \in {"archive", "packed"}
  PROVE  /\ {b \in Blobs : target[b] # "absent"} = Downloads
         /\ \A b \in Downloads : target[b] = "right"
         /\ \A b \in Blobs : part[b].size = 0
<1>1. \A b : b \in Downloads <=> Wanted(b)
  BY DownloadsAreWanted DEF Live
<1>2. \A b \in Downloads : target[b] = "right"
  BY DEF DownloadInv, Downloaded
<1>3. \A b : Wanted(b) => b \in Blobs
  BY ImageAssumption DEF Wanted
<1>4. \A b \in Blobs : target[b] # "absent" \/ part[b].size > 0 => b \in Downloads
  BY <1>1 DEF DownloadInv, Staging
<1>5. \A b \in Blobs : part[b].size = 0
  <2>1. ASSUME NEW b \in Blobs PROVE part[b].size = 0
    <3>1. part[b].size \in 0 .. (Size + 1) /\ Size \in Nat
      BY DownloadAssumption DEF DownloadInv, BlobTypeOK
    <3>2. target[b] # "absent" => part[b].size = 0
      BY DEF DownloadInv, Staging
    <3>. QED
      BY <1>2, <1>4, <3>1, <3>2
  <2>. QED
    BY <2>1
<1>. QED
  BY <1>1, <1>2, <1>3, <1>4, <1>5

\* So the archive is exact (download_oci_images.py:427-458).
LEMMA PackKeeps == ASSUME DownloadInv, Pack PROVE DownloadInv'
<1>1. /\ phase = "archive" /\ phase' = "packed"
      /\ archive' = [index |-> index, skip |-> skip, layout |-> layout,
                     blobs |-> [b \in {c \in Blobs : target[c] # "absent"} |-> target[b]],
                     parts |-> {b \in Blobs : part[b].size > 0}]
      /\ UNCHANGED <<skip, next, digest, cache, index, layout, tag, files>>
  BY DEF Pack, blobVars, files
<1>2. /\ {b \in Blobs : target[b] # "absent"} = Downloads
      /\ \A b \in Downloads : target[b] = "right"
      /\ \A b \in Blobs : part[b].size = 0
  BY <1>1, StagingIsExact
<1>3. /\ index \in Seq(Entries) /\ DOMAIN index = 1 .. Len(index)
      /\ Images \in Seq(Named) /\ next = Len(Images) + 1
      /\ \A k \in 1 .. Len(index) : index[k] \in Entries
  BY <1>1, ImageAssumption DEF DownloadInv, MainTypeOK, Live, Named
<1>4. archive'.index = index /\ archive'.skip = skip /\ archive'.layout = layout
      /\ DOMAIN archive'.blobs = Downloads /\ (\A b \in Downloads : archive'.blobs[b] = "right")
      /\ archive'.parts = {}
  BY <1>1, <1>2
<1>5. \A e \in Range(index) : e.oci /\ Manifest(e.manifest, TRUE) \in layout /\ e.image \in Named
  BY <1>1, <1>3 DEF DownloadInv, Normalized, Range, Entries
<1>6. \A j, k \in DOMAIN index : j < k => Before(index[j].image, index[k].image)
  BY <1>1, <1>3 DEF DownloadInv, Selection, Live
<1>7. ASSUME ~ skip PROVE Images = [k \in DOMAIN index |-> index[k].image]
  <2>1. Len(index) = Len(Images) /\ \A k \in 1 .. Len(index) : index[k].image = Images[k]
    BY <1>1, <1>3, <1>7 DEF DownloadInv, Selection, Live
  <2>. QED
    BY <1>3, <2>1
<1>8. ArchiveIsExact'
  <2>1. Downloads = UNION {Parts[e.manifest] : e \in Range(index)}
    BY DEF Downloads
  <2>2. /\ \A e \in Range(archive'.index) : e.oci /\ Manifest(e.manifest, TRUE) \in archive'.layout
        /\ \A e \in Range(archive'.index) : e.image \in Named
        /\ \A j, k \in DOMAIN archive'.index :
             j < k => Before(archive'.index[j].image, archive'.index[k].image)
        /\ ~ archive'.skip => Images = [k \in DOMAIN archive'.index |-> archive'.index[k].image]
    BY <1>4, <1>5, <1>6, <1>7
  <2>3. DOMAIN archive'.blobs = UNION {Parts[e.manifest] : e \in Range(archive'.index)}
    BY <1>4, <2>1
  <2>4. \A b \in DOMAIN archive'.blobs : archive'.blobs[b] = "right"
    BY <1>4
  <2>. QED
    BY <1>4, <2>2, <2>3, <2>4 DEF ArchiveIsExact
<1>9. BlobTypeOK' /\ MainTypeOK'
  BY <1>1 DEF DownloadInv, BlobTypeOK, MainTypeOK, Live, files
<1>10. Staging'
  BY <1>1 DEF DownloadInv, Staging, Wanted, files
<1>11. Working' /\ Selection'
  BY <1>1 DEF DownloadInv, Working, Selection, Live
<1>12. Downloaded' /\ Normalized'
  BY <1>1 DEF DownloadInv, Downloaded, Downloads, Normalized, files
<1>. QED
  BY <1>8, <1>9, <1>10, <1>11, <1>12 DEF DownloadInv

\* Without its staging the archive stays what it is.
LEMMA RemoveKeeps == ASSUME DownloadInv, RemoveStaging PROVE DownloadInv'
<1>1. /\ phase' = "ended" /\ UNCHANGED <<skip, digest, archive, tag, pc, source, attempt>>
      /\ part' = [b \in Blobs |-> NoPart] /\ target' = [b \in Blobs |-> "absent"]
      /\ cache' = [i \in Named |-> Nothing]
  BY DEF RemoveStaging
<1>2. NoPart \in [size : 0 .. (Size + 1), good : BOOLEAN] /\ NoPart.size = 0 /\ Size \in Nat
  BY DownloadAssumption DEF NoPart
<1>3. BlobTypeOK' /\ MainTypeOK'
  BY <1>1, <1>2 DEF DownloadInv, BlobTypeOK, MainTypeOK, Live
<1>4. Staging'
  BY <1>1, <1>2 DEF Staging
<1>5. Working' /\ Selection' /\ Downloaded' /\ Normalized'
  BY <1>1 DEF Working, Selection, Downloaded, Normalized, Live
<1>6. ArchiveIsExact'
  BY <1>1 DEF DownloadInv, ArchiveIsExact
<1>. QED
  BY <1>3, <1>4, <1>5, <1>6 DEF DownloadInv

\* A new process, a kill, a run that fails, a tag that moves.
LEMMA ProcessesKeep == ASSUME DownloadInv, Launch \/ Killed \/ RunFails \/ TagMoves PROVE DownloadInv'
<1>1. /\ UNCHANGED <<files, cache, archive>> /\ digest \in Manifests \cup {Nothing}
      /\ CacheGrows
  BY DEF Launch, Killed, RunFails, TagMoves, blobVars, files, DownloadInv, MainTypeOK, CacheGrows
<1>2. CASE Killed \/ RunFails
  BY <1>1, <1>2, DownIsSafe DEF Killed, RunFails
<1>3. BlobTypeOK' /\ Staging' /\ ArchiveIsExact'
  BY <1>1, FilesStay DEF files
<1>4. CASE Launch
  <2>1. /\ phase' = "manifests" /\ skip' \in BOOLEAN /\ next' = 1 /\ digest' = Nothing
        /\ index' = <<>> /\ tag' = tag
    BY <1>4 DEF Launch
  <2>2. Len(Images) \in Nat
    BY ImageAssumption
  <2>3. MainTypeOK'
    BY <1>1, <2>1, <2>2 DEF DownloadInv, MainTypeOK, Live
  <2>4. Selection'
    BY <2>1 DEF Selection
  <2>5. Working' /\ Downloaded' /\ Normalized'
    BY <2>1 DEF Working, Downloaded, Normalized
  <2>. QED
    BY <1>3, <2>3, <2>4, <2>5 DEF DownloadInv
<1>5. CASE TagMoves
  <2>1. /\ UNCHANGED <<phase, skip, next, digest, cache, index, layout, archive>>
        /\ \E i \in Named, r \in References : tag' = [tag EXCEPT ![i] = r]
    BY <1>5 DEF TagMoves
  <2>2. MainTypeOK'
    BY <2>1 DEF DownloadInv, MainTypeOK
  <2>3. Working' /\ Selection'
    BY <1>1, <2>1 DEF DownloadInv, Working, Selection, files
  <2>4. Downloaded' /\ Normalized'
    BY <1>1, <2>1 DEF DownloadInv, Downloaded, Downloads, Normalized, files
  <2>. QED
    BY <1>3, <2>2, <2>3, <2>4 DEF DownloadInv
<1>. QED
  BY <1>2, <1>4, <1>5

\* An empty staging, and nobody at work.
LEMMA DownloadStarts == Init => DownloadInv
<1>. SUFFICES ASSUME Init PROVE DownloadInv
  OBVIOUS
<1>1. NoPart \in [size : 0 .. (Size + 1), good : BOOLEAN] /\ NoPart.size = 0 /\ Size \in Nat
      /\ Sources \in Nat \ {0} /\ Retries \in Nat \ {0}
  BY DownloadAssumption DEF NoPart
<1>2. BlobTypeOK
  BY <1>1 DEF Init, InitBlobs, BlobTypeOK
<1>3. MainTypeOK
  BY DEF Init, MainTypeOK, Live
<1>4. Staging
  <2>1. \A b \in Blobs : part[b] = NoPart /\ target[b] = "absent"
    BY DEF Init, InitBlobs
  <2>2. \A b \in Blobs : part[b].size = 0
    BY <1>1, <2>1
  <2>3. ~ (0 > Size) /\ ~ (0 > 0)
    BY <1>1
  <2>. QED
    BY <2>1, <2>2, <2>3 DEF Staging
<1>5. Working /\ Selection /\ Downloaded /\ Normalized /\ ArchiveIsExact
  BY DEF Init, Working, Selection, Downloaded, Normalized, ArchiveIsExact, Live
<1>. QED
  BY <1>2, <1>3, <1>4, <1>5 DEF DownloadInv

\* Nothing happens.
LEMMA DownloadRests == DownloadInv /\ UNCHANGED vars => DownloadInv'
<1>. SUFFICES ASSUME DownloadInv, UNCHANGED vars PROVE DownloadInv'
  OBVIOUS
<1>. USE DEF vars, blobVars, mainVars, DownloadInv
<1>1. BlobTypeOK' /\ MainTypeOK'
  BY DEF BlobTypeOK, MainTypeOK
<1>2. Staging' /\ Working'
  BY DEF Staging, Wanted, Working
<1>3. Selection' /\ Downloaded' /\ Normalized' /\ ArchiveIsExact'
  BY DEF Selection, Downloaded, Downloads, Normalized, ArchiveIsExact
<1>. QED
  BY <1>1, <1>2, <1>3

-------------------------------------------------------------------------------

\* The invariant holds over any number of runs on one staging.
THEOREM DownloadInvariance == Spec => []DownloadInv
<1>1. DownloadInv /\ [Next]_vars => DownloadInv'
  BY DownloadKeeps, UseCachedKeeps, FetchKeeps, PoolKeeps, IndexKeeps, PackKeeps, RemoveKeeps,
     ProcessesKeep, DownloadRests DEF Next, Main
<1>. QED
  BY <1>1, DownloadStarts, PTL DEF Spec

\* A blob under its digest has that content, whatever the registries send and
\* whoever dies (download_oci_images.py:203-247).
THEOREM BlobsAreVerified == Spec => []PublishedIsVerified
<1>1. DownloadInv => PublishedIsVerified
  BY DEF DownloadInv, Staging, PublishedIsVerified
<1>. QED
  BY <1>1, DownloadInvariance, PTL

\* The archive is one consistent selection of images with exactly their blobs,
\* over failed, killed and repeated runs (download_oci_images.py:313-458).
THEOREM ArchiveIsOneSelection == Spec => []ArchiveIsExact
<1>1. DownloadInv => ArchiveIsExact
  BY DEF DownloadInv
<1>. QED
  BY <1>1, DownloadInvariance, PTL

\* What was fetched is thrown away only when it is known to be wrong or has its
\* final name; when the staging goes no partial is left
\* (download_oci_images.py:213-247,451-458).
THEOREM FetchedIsKept == Spec => PartialIsKept
<1>1. ASSUME DownloadInv, [Next]_vars PROVE NothingIsThrownAway
  <2>1. \A b \in Blobs : part[b].size \in 0 .. (Size + 1) /\ Size \in Nat
    BY <1>1, DownloadAssumption DEF DownloadInv, BlobTypeOK
  <2>2. ASSUME NEW c \in Blobs, Download(c), NEW b \in Blobs
        PROVE  part'[b].size < part[b].size => target'[b] = "right" \/ ~ part[b].good
    <3>1. Worker(c) /\ BlobTypeOK /\ Staging /\ (phase = "blobs" /\ Working)
      BY <1>1, <2>2 DEF Download, DownloadInv
    <3>2. /\ part'[c].size < part[c].size => target'[c] = "right" \/ ~ part[c].good
          /\ b # c => part'[b] = part[b]
      BY <3>1, WorkerSteps DEF Staging, Working
    <3>. QED
      BY <2>1, <3>2
  <2>3. CASE RemoveStaging
    <3>1. \A b \in Blobs : part[b].size = 0
      BY <1>1, <2>3, StagingIsExact DEF RemoveStaging
    <3>2. \A b \in Blobs : part'[b].size = 0
      BY <2>3 DEF RemoveStaging, NoPart
    <3>. QED
      BY <3>1, <3>2 DEF NothingIsThrownAway
  <2>4. CASE UNCHANGED part
    BY <2>1, <2>4 DEF NothingIsThrownAway
  <2>. QED
    BY <1>1, <2>2, <2>3, <2>4
       DEF NothingIsThrownAway, Next, Main, UseCached, FetchManifest, EndManifests, WriteIndex, RunFails, Normalize, Pack,
           Launch, Killed, TagMoves, vars, blobVars
<1>2. DownloadInv /\ [Next]_vars => [NothingIsThrownAway]_blobVars
  BY <1>1
<1>. QED
  BY <1>2, DownloadInvariance, PTL DEF Spec, PartialIsKept
===============================================================================
