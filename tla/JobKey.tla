-------------------------------- MODULE JobKey --------------------------------
(***************************************************************************)
(* canonicalJobKey of internal/pipeline/router.go: the key under which the *)
(* router remembers a job.  A job is a record of its id, its url and its   *)
(* facets, trimmed and in one case as the code compares them.              *)
(***************************************************************************)
LOCAL INSTANCE Integers
LOCAL INSTANCE Sequences
LOCAL INSTANCE SequencesExt

CONSTANTS Blank,    \* an empty string, and the zero time
          NoUrl,    \* no url, or one that url.Parse refuses
          Numerals  \* the segments of a path that are digits only

NoKey == <<>>

\* path.Clean of a rooted path, given as the segments after its slashes.
CleanPath(path) ==
    LET enter(dir, s) == CASE s \in {"", "."}             -> dir
                           [] s = ".." /\ Len(dir) <= 1   -> dir
                           [] s = ".." /\ Len(dir) > 1    -> Front(dir)
                           [] OTHER                       -> Append(dir, s)
    IN IF path = <<>> THEN <<>> ELSE FoldLeft(enter, <<"/">>, path)

\* The last numeric segment of the path, wherever it leads, or the page.  The
\* parameters of a query are a set: Encode sorts them.
UrlKey(url) ==
    LET path   == CleanPath(url.path)
        digits == {i \in DOMAIN path : path[i] \in Numerals}
    IN IF url = NoUrl THEN NoKey
       ELSE IF digits # {} THEN <<"job", path[CHOOSE i \in digits : \A k \in digits : k <= i]>>
       ELSE IF url.host = Blank /\ path = <<>> THEN NoKey
       ELSE <<"page", url.host, path, url.query>>

\* stableFingerprint: no key without any signal.
Fingerprint(facets) ==
    LET hasSignal == \/ facets.title # Blank \/ facets.language # Blank
                     \/ facets.currency # Blank \/ facets.deadline # Blank
                     \/ facets.reward > 0 \/ facets.unitCount > 0
    IN IF hasSignal THEN <<facets>> ELSE NoKey

\* Fault in CanonicalKey: the id only where there is no url.
UrlKeyFirst(job) ==
    IF UrlKey(job.url) # NoKey THEN <<"url">> \o UrlKey(job.url)
    ELSE IF job.id # Blank THEN <<"id", job.id>>
    ELSE IF Fingerprint(job.facets) # NoKey THEN <<"fp">> \o Fingerprint(job.facets)
    ELSE NoKey

CanonicalKey(job) ==
    IF job.id # Blank THEN <<"id", job.id>>
    ELSE IF UrlKey(job.url) # NoKey THEN <<"url">> \o UrlKey(job.url)
    ELSE IF Fingerprint(job.facets) # NoKey THEN <<"fp">> \o Fingerprint(job.facets)
    ELSE NoKey
===============================================================================
