---------------------------- MODULE AzureProvider ----------------------------
(***************************************************************************)
(* The provider of an Azure Storage container                              *)
(* (asab/library/providers/azurestorage.py): it loads the tree of blobs    *)
(* once, and keeps what it has read of a blob in a file of a cache, with   *)
(* the entity tag beside it.                                               *)
(*                                                                         *)
(* Reads of one blob run at the same time, the blob changes while they do, *)
(* downloads break, and the process crashes; the cache stays on the disk.  *)
(* An answer may come when the blob, or the cache, has changed again.  A   *)
(* version of the blob has one chunk or two.                               *)
(***************************************************************************)
EXTENDS Naturals, Sequences

CONSTANTS
  Reads,         \* the reads of one blob that may run at once
  MaxBlob,       \* bound on the versions of the blob
  MaxBroken      \* bound on the downloads that break, the lists that fail and the crashes

VARIABLES
  model,         \* Model: "none" before the list came, "loaded", or "failed" for good
  blob,          \* the version of the blob that is read
  cached,        \* the chunks of the cache file, with the version that each is from
  blobTag,       \* the tag file, 0 if there is none
  reads,         \* what each read is doing
  spoilt,        \* history: the versions that broke, or were downloaded beside another
  served,        \* history: what was served last, of which tag, and whether during a download
  broken

azVars == <<model, blob, cached, blobTag, reads, spoilt, served, broken>>

Version == 1..MaxBlob
Chunks(v) == [i \in 1..(1 + (v % 2)) |-> v]
NotServed == [of |-> 0, chunks |-> <<>>, partly |-> FALSE]
NotReading == [at |-> "idle", tag |-> 0, got |-> 0, written |-> 0]
Downloading == {r \in Reads : reads[r].at = "download"}

TypeOK ==
  /\ model \in {"none", "loaded", "failed"}
  /\ blob \in Version /\ cached \in Seq(0..MaxBlob) /\ Len(cached) <= 2
  /\ blobTag \in 0..MaxBlob
  /\ reads \in [Reads -> [at: {"idle", "asked", "answered", "download"}, tag: 0..MaxBlob,
                          got: 0..MaxBlob, written: 0..2]]
  /\ spoilt \subseteq Version /\ broken \in 0..MaxBroken
  /\ served \in [of: 0..MaxBlob, chunks: Seq(0..MaxBlob), partly: BOOLEAN]

Init ==
  /\ model = "none"
  /\ blob = 1 /\ cached = <<>> /\ blobTag = 0
  /\ reads = [r \in Reads |-> NotReading]
  /\ spoilt = {} /\ served = NotServed /\ broken = 0
-----------------------------------------------------------------------------
(* _start() and _load_model(), once for each start of the process.         *)

\* The list came, and the provider is ready.
LoadModel ==
  /\ model = "none"
  /\ model' = "loaded"
  /\ UNCHANGED <<blob, cached, blobTag, reads, spoilt, served, broken>>

\* An answer that is no list, or an error, of a blob that is named like a directory of
\* another for example; nothing loads it again.
LoadFails ==
  /\ model = "none" /\ broken < MaxBroken
  /\ model' = "failed" /\ broken' = broken + 1
  /\ UNCHANGED <<blob, cached, blobTag, reads, spoilt, served>>
-----------------------------------------------------------------------------
(* read(), and the server.                                                 *)

Change ==
  /\ blob < MaxBlob
  /\ blob' = blob + 1
  /\ UNCHANGED <<model, cached, blobTag, reads, spoilt, served, broken>>

Read(r) ==
  /\ reads[r] = NotReading
  /\ reads' = [reads EXCEPT ![r] = [NotReading EXCEPT !.at = "asked", !.tag = blobTag]]
  /\ UNCHANGED <<model, blob, cached, blobTag, spoilt, served, broken>>

\* The server compares the tag with that of the blob: 304, or 200 and the content.
Answer(r) ==
  /\ reads[r].at = "asked"
  /\ reads' = [reads EXCEPT ![r].at = "answered", ![r].got = blob]
  /\ UNCHANGED <<model, blob, cached, blobTag, spoilt, served, broken>>

\* A download that starts beside others spoils them and itself.
Spoils(v) == IF Downloading = {} THEN {} ELSE {v} \cup {reads[o].got : o \in Downloading}

\* Mutant of Modified: the file is opened without being truncated.
ModifiedKeeps(r) ==
  /\ reads[r].at = "answered" /\ reads[r].got # reads[r].tag
  /\ blobTag' = reads[r].got
  /\ spoilt' = spoilt \cup Spoils(reads[r].got)
  /\ reads' = [reads EXCEPT ![r].at = "download"]
  /\ UNCHANGED <<model, blob, cached, served, broken>>

\* 200: the file is truncated and the tag of the answer is stored before the content.
Modified(r) ==
  /\ reads[r].at = "answered" /\ reads[r].got # reads[r].tag
  /\ cached' = <<>> /\ blobTag' = reads[r].got
  /\ spoilt' = spoilt \cup Spoils(reads[r].got)
  /\ reads' = [reads EXCEPT ![r].at = "download"]
  /\ UNCHANGED <<model, blob, served, broken>>

\* The file is rewound and returned, as it is now.
Serve(r) ==
  /\ served' = [of |-> blobTag, chunks |-> cached, partly |-> Downloading \ {r} # {}]
  /\ reads' = [reads EXCEPT ![r] = NotReading]
  /\ UNCHANGED <<model, blob, cached, blobTag, spoilt, broken>>

\* 304: the cache file is served, also while a download writes it.
NotModified(r) ==
  /\ reads[r].at = "answered" /\ reads[r].got = reads[r].tag
  /\ Serve(r)

\* Each download writes at its own place of the one file; a place past the end leaves a gap.
WriteChunk(r) ==
  LET n == reads[r].written + 1  v == reads[r].got IN
  /\ reads[r].at = "download" /\ n <= Len(Chunks(v))
  /\ cached' = [i \in 1..(IF n > Len(cached) THEN n ELSE Len(cached)) |->
                 IF i = n THEN v ELSE IF i <= Len(cached) THEN cached[i] ELSE 0]
  /\ reads' = [reads EXCEPT ![r].written = n]
  /\ UNCHANGED <<model, blob, blobTag, spoilt, served, broken>>

ReadDone(r) ==
  /\ reads[r].at = "download" /\ reads[r].written = Len(Chunks(reads[r].got))
  /\ Serve(r)

\* An error of the server or of the connection; what was written stays, with its tag.
DownloadBreaks(r) ==
  /\ reads[r].at # "idle" /\ broken < MaxBroken
  /\ broken' = broken + 1
  /\ spoilt' = spoilt \cup {reads[o].got : o \in Downloading \cap {r}}
  /\ reads' = [reads EXCEPT ![r] = NotReading]
  /\ UNCHANGED <<model, blob, cached, blobTag, served>>

Crash ==
  /\ broken < MaxBroken
  /\ broken' = broken + 1
  /\ model' = "none"
  /\ spoilt' = spoilt \cup {reads[r].got : r \in Downloading}
  /\ reads' = [r \in Reads |-> NotReading]
  /\ UNCHANGED <<blob, cached, blobTag, served>>
-----------------------------------------------------------------------------
Next ==
  \/ LoadModel \/ LoadFails \/ Change \/ Crash
  \/ \E r \in Reads : \/ Read(r) \/ Answer(r) \/ Modified(r) \/ NotModified(r)
                      \/ WriteChunk(r) \/ ReadDone(r) \/ DownloadBreaks(r)

-----------------------------------------------------------------------------
(* Properties.                                                             *)

\* What a read is given is the version of the tag and nothing else, however many reads,
\* changes and failures there were and in whatever order answers came: the whole of it or,
\* if another read was downloading it at that moment, the first part of it.  Excepted is a
\* version whose download broke, or ran beside another, which is served as it is until the
\* blob changes.
ServedWhole ==
  served.of \notin spoilt \cup {0} =>
    \E n \in 0..Len(Chunks(served.of)) :
      /\ served.chunks = [i \in 1..n |-> served.of]
      /\ served.partly \/ n = Len(Chunks(served.of))
=============================================================================
