-------------------------- MODULE DownloadLinksProps -------------------------
(***************************************************************************)
(* What a download link promises.                                          *)
(***************************************************************************)
EXTENDS DownloadLinks

\* The issuers whose tokens have not expired; and those that have returned a
\* link to an object.
Live == {i \in Issuer : link[i] # NoLink /\ link[i].expires >= now}
Naming(o) == {i \in Issuer : pc[i] = "done" /\ link[i] # NoLink /\ link[i].object = o}

\* A link that has been returned for an object has the object's row and file
\* behind it until it expires, however long its request took, and whatever
\* other links are issued for the object afterwards, unless somebody asked for
\* the object's deletion or a call failed.  Only overlaps while it was issued
\* can break this: with another request for the object, whose expiration may
\* be stored last and be the earlier one (api.go:206), or with a clean-up that
\* takes the object for expired (storage.go:290).
LinksAreBacked ==
    faults = 0 =>
        \A o \in Object : \A i \in (Naming(o) \cap Live) \ raced :
            deletion[o] = "no" => row[o] \in {"completed", "failed"} /\ o \in file

\* A download by a link ends with the object's file, however clean-ups, other
\* downloads and other requests for links interleave with it (api.go:231),
\* unless the link has expired since, its own request was overlapped as above,
\* the object was to be deleted, or a call failed.
LinksServe ==
    \A r \in Reader, o \in Object :
        /\ via[r] \in Naming(o)
        /\ dl[r] \in {"invalid", "notFound", "empty"}
        => via[r] \notin Live \/ via[r] \in raced \/ deletion[o] # "no" \/ faults > 0

\* The object of a link an admin generated does not outlive the object's
\* links: the tickers take its row and file away when the last of those has
\* expired (api.go:205), and tokens whose time is over are taken away too.
\* A deletion by request may leave the file of an upload it overlaps.
ExpiredAreRemoved ==
    /\ \A o \in Object :
          (Naming(o) \cap Admin # {} /\ Naming(o) \cap Admin \cap Live = {}) ~>
              \/ row[o] = "gone" /\ o \notin file
              \/ Naming(o) \cap Admin \cap Live # {}
              \/ deletion[o] # "no" \/ faults > 0
    /\ tokens \ Live # {} ~> tokens \subseteq Live
=============================================================================
