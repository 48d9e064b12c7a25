-------------------------- MODULE ObjectStoreProps ---------------------------
(***************************************************************************)
(* What the object storage guarantees about uploads, and what it does not. *)
(***************************************************************************)
EXTENDS ObjectStore

\* The file holds one upload's bytes and they are the announced ones.
Whole(file) ==
    /\ file # None
    /\ lo[file] # None /\ lo[file] = hi[file]
    /\ body[lo[file]] = "exact"

\* A completed object that nobody tried to delete has a file, and as long as no
\* two uploads of it overlapped it is the one whose length and hash were
\* verified (upload.go:97), however many uploads failed before, whatever is
\* cancelled or fails and wherever the process is killed.
CompletedIsBacked ==
    \A o \in Object :
        status[o] = "completed" /\ o \notin deleted =>
            IF o \in overlapped THEN final[o] # None ELSE Whole(final[o])

\* When the uploads of an object are over, its ".tmp" is gone (upload.go:61),
\* unless one of them was too long, its removal failed unnoticed or the process
\* was killed: these are all the ways it is left behind.
TempIsRemoved ==
    \A o \in Object :
        ~InFlight(o) /\ temp[o] # None =>
            \/ crashed \/ o \in left
            \/ \E u \in Upload : ObjectOf[u] = o /\ body[u] = "long"

\* An object does not stay in "uploading" (types.go:10) when its uploads are
\* over, unless the statement that was to end it failed.
UploadingEnds ==
    \A o \in Object :
        status[o] = "uploading" ~> status[o] # "uploading" \/ faults > 0 \/ crashed

-----------------------------------------------------------------------------
\* An upload of the object that has not yet settled its status is on its way.
Underway(o) == \E u \in Upload : ObjectOf[u] = o /\ pc[u] \in Running \ {"cleanup"}

\* What has become of an object.  A status "failed" is not the last word while
\* an upload is on its way, which may still complete it.
Stage(o) ==
    CASE status[o] \in {"none", "gone"} -> status[o]
      [] status[o] = "completed" -> "complete"
      [] status[o] = "failed" /\ ~Underway(o) -> "failed"
      [] OTHER -> "wanted"

\* The upload whose bytes a download of the object gets.
Stored(o) == IF Whole(final[o]) THEN lo[final[o]] ELSE None

\* Uploads, deletions and cancellations that share no lock leave each object a
\* life in the sense of ObjectLife, as long as no two uploads of it overlap: it
\* completes once, with the bytes whose hash was verified (upload.go:97), they
\* are never replaced afterwards, and "failed" or "gone" is not undone.
Life == INSTANCE ObjectLife WITH
    Content <- Upload, doomed <- deleted, loose <- overlapped,
    stage <- [o \in Object |-> Stage(o)], content <- [o \in Object |-> Stored(o)]

ObjectsLive == Life!Spec

-----------------------------------------------------------------------------
\* "Verify SHA256" (upload.go:97): what a completed object stores is what was
\* verified.
StoredIsVerified ==
    \A o \in Object : status[o] = "completed" /\ final[o] # None => Whole(final[o])
=============================================================================
