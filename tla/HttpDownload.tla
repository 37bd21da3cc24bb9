----------------------------- MODULE HttpDownload -----------------------------
(***************************************************************************)
(* ahttp::get_sync and its sync_generator.  The call of get_sync runs the  *)
(* coroutine through the redirects to the header of the resource; then it  *)
(* is suspended until the consumer brings a buffer, fills it, and is       *)
(* suspended again.  An operator with a suffix is a faulty variant of the  *)
(* one after it.                                                           *)
(*                                                                         *)
(* The servers, and what the http library makes of their responses, are    *)
(* external.  The length of a body is announced ("length"), marked by a    *)
(* last chunk ("chunked"), or known only by the end of the connection      *)
(* ("close"): then a connection that breaks looks like a body that ends.   *)
(***************************************************************************)
EXTENDS Naturals, Sequences

CONSTANTS
    Hosts,      \* scheme and authority
    Paths,
    MaxLength,  \* bound: the length of a body
    Remotes,    \* what the servers may be: functions from Places to Response
    Buffers,    \* the sizes of the buffers of the consumer
    None

Urls == [host : Hosts, path : Paths]

\* What a Location field may hold, by its text: a path with or without its
\* slash, a host and a path ("network-path reference"), or a url.
NetworkPath == [form : {"//host/path"}, host : Hosts, path : Paths]
Location ==
    [form : {"/path", "path"}, path : Paths] \cup NetworkPath
        \cup [form : {"http://host/path"}, host : Hosts, path : Paths]

\* A server can be asked for anything: also for a path that is the text of a
\* network-path reference.
Places == Urls \cup [host : Hosts, text : NetworkPath]

Response == [location : Location \cup {None}, ok : BOOLEAN, length : 0..MaxLength,
             framing : {"length", "chunked", "close"}]

ASSUME RemotesAssumption == Remotes \subseteq [Places -> Response]
ASSUME BuffersAssumption == Buffers \subseteq Nat \ {0}
ASSUME LengthAssumption == MaxLength \in Nat
ASSUME NoneAssumption == None \notin Nat /\ None \notin Places

VARIABLES
    remote,
    asked,    \* the argument of get_sync
    url,      \* the url of the current request; None when its text is no url
    pc,       \* "request", "waiting" for a buffer, "done", "threw" or "dropped"
    m_size,
    left,     \* bytes of the body that were not read
    got,      \* bytes the consumer has received
    chunks    \* [room, size] of each buffer it has got back

body == <<m_size, left, got, chunks>>
vars == <<remote, asked, url, pc, body>>

Init ==
    /\ remote \in Remotes /\ asked \in Urls
    /\ url = asked /\ pc = "request"
    /\ m_size = None /\ left = 0 /\ got = <<>> /\ chunks = <<>>

-----------------------------------------------------------------------------
(* get_sync, until it is suspended for the first time.                     *)

response == remote[url]

\* The server answers, and redirects or not.
Answers == pc = "request" /\ url # None
Redirects == Answers /\ response.location # None

StartsWithSlash(location) == location.form \in {"/path", "//host/path"}

\* Resolving, connecting, writing or reading the header throws, as does a
\* scheme that is not supported, and anything that is no url.
RequestFails ==
    /\ pc = "request"
    /\ pc' = "threw"
    /\ UNCHANGED <<remote, asked, url, body>>

\* The url in which the text of `location' follows the authority `host'.
Behind(host, location) ==
    IF location.form = "/path" THEN [host |-> host, path |-> location.path]
                               ELSE [host |-> host, text |-> location]

RedirectToPath_OfAsked ==
    /\ Redirects /\ StartsWithSlash(response.location)
    /\ url' = Behind(asked.host, response.location)
    /\ UNCHANGED <<remote, asked, pc, body>>

\* A location that starts with a slash is put behind the scheme and the
\* authority of the request it answers, which are views into redirect_url.
RedirectToPath ==
    /\ Redirects /\ StartsWithSlash(response.location)
    /\ url' = Behind(url.host, response.location)
    /\ UNCHANGED <<remote, asked, pc, body>>

\* The url whose text is that of `location'.
AsUrl(location) ==
    IF location.form = "http://host/path"
    THEN [host |-> location.host, path |-> location.path] ELSE None

\* Any other location is taken for a url, a path without a slash too.
RedirectToUrl ==
    /\ Redirects /\ ~StartsWithSlash(response.location)
    /\ url' = AsUrl(response.location)
    /\ UNCHANGED <<remote, asked, pc, body>>

\* No redirect, and a status that is not ok.
StatusThrows ==
    /\ Answers /\ response.location = None /\ ~response.ok
    /\ pc' = "threw"
    /\ UNCHANGED <<remote, asked, url, body>>

\* The size is yielded, if there is one; a body known to be empty is done.
Respond ==
    /\ Answers /\ response.location = None /\ response.ok
    /\ left' = response.length
    /\ m_size' = IF response.framing = "length" THEN response.length ELSE None
    /\ pc' = IF m_size' = 0 THEN "done" ELSE "waiting"
    /\ UNCHANGED <<remote, asked, url, got, chunks>>

-----------------------------------------------------------------------------
(* get_next_chunk.  On a generator that is done it returns an empty span   *)
(* and does nothing.                                                       *)

Bytes(u, from, n) == [i \in 1..n |-> <<u, from + i>>]

\* The buffer of size b comes back with n bytes, and p is what follows.
Yield(b, n, p) ==
    /\ got' = got \o Bytes(url, Len(got), n)
    /\ chunks' = Append(chunks, [room |-> b, size |-> n])
    /\ left' = left - n
    /\ pc' = p
    /\ UNCHANGED <<remote, asked, url, m_size>>

AtMost(a, b) == IF a < b THEN a ELSE b

\* All of the body was read; whether that is known already, when its length
\* was not announced, is the library's choice.
Following(n) ==
    IF n < left THEN {"waiting"}
    ELSE IF m_size # None THEN {"done"} ELSE {"done", "waiting"}

NextChunk_Untruncated(b) ==
    /\ pc = "waiting"
    /\ Yield(b, b, IF b < left THEN "waiting" ELSE "done")

NextChunk_ReadSome(b) ==
    /\ pc = "waiting"
    /\ \E n \in 0..AtMost(b, left) : \E p \in Following(n) : Yield(b, n, p)

\* The body is read until the buffer is full or the parser is done.
NextChunk(b) ==
    /\ pc = "waiting"
    /\ LET n == AtMost(b, left) IN
       \E p \in Following(n) :
          /\ n = b \/ p = "done"
          /\ Yield(b, n, p)

\* The connection ends before the body does, and nobody can tell.
CutShort(b) ==
    /\ pc = "waiting" /\ response.framing = "close"
    /\ \E n \in 0..AtMost(b, left) : n < left /\ Yield(b, n, "done")

\* Reading throws; what was read into the buffer is lost.
ReadThrows ==
    /\ pc = "waiting"
    /\ pc' = "threw"
    /\ UNCHANGED <<remote, asked, url, body>>

\* The consumer destroys the generator.
Drop ==
    /\ pc = "waiting"
    /\ pc' = "dropped"
    /\ UNCHANGED <<remote, asked, url, body>>

Connecting ==
    \/ RequestFails \/ RedirectToPath \/ RedirectToUrl \/ StatusThrows \/ Respond

Reading == ReadThrows \/ \E b \in Buffers : NextChunk(b) \/ CutShort(b)

Next == Connecting \/ Reading \/ Drop

Spec == Init /\ [][Next]_vars

\* The servers answer, and the consumer goes on until done().
FairSpec == Spec /\ WF_vars(Connecting) /\ WF_vars(Reading)

-----------------------------------------------------------------------------
(* Properties.                                                             *)

\* "it's safe to assume that each chunk except the last will be exactly the
\* size of the buffer".
EachChunkFull ==
    \A i \in 1..(Len(chunks) - 1) : chunks[i].size = chunks[i].room

\* Where a redirect leads by the standard for urls (RFC 3986, 5.2.2): to the
\* path of the reference, on the host that it names or else on the same one.
\* All paths lie in one directory.
Hop(u) ==
    LET to == remote[u].location IN
    IF to = None THEN u
    ELSE [host |-> IF to.form \in {"/path", "path"} THEN u.host ELSE to.host,
          path |-> to.path]

\* The urls that the hops from `u' pass: those in every set that has `u' and
\* that no hop leaves.  The target is the one without a redirect.
Passed(u) ==
    { v \in Urls : \A S \in SUBSET Urls :
        u \in S /\ (\A w \in S : Hop(w) \in S) => v \in S }
TargetExists == \E v \in Passed(asked) : remote[v].location = None
Target == CHOOSE v \in Passed(asked) : remote[v].location = None

\* No redirect on the way is a network-path reference: those the code takes
\* for paths, and comes out elsewhere.
NoNetworkPath == \A v \in Passed(asked) : remote[v].location \notin NetworkPath

\* The consumer gets the bytes of the resource at the end of the redirects, in
\* order and without gaps, in whatever buffers it brings; and if the generator
\* is done without an exception it got all of them, unless only the end of the
\* connection could say so.  A path without a slash ends in an exception.  This
\* needs NoNetworkPath.
Stream == INSTANCE ChunkStream WITH
    asset <- IF TargetExists THEN Bytes(Target, 0, remote[Target].length) ELSE <<>>,
    end <- CASE pc \in {"request", "waiting"} -> "open"
             [] pc = "done" /\ response.framing # "close" -> "whole"
             [] OTHER -> "broken"
StreamSpec == Stream!Spec

\* When the redirects end somewhere, so does the download, under the same
\* condition.
DownloadEnds == TargetExists /\ NoNetworkPath ~> pc \notin {"request", "waiting"}

\* "relative path", "absolute path": a location is either, and the next request
\* is the one that it refers to.  A network-path reference starts with a slash
\* and is no path, and a path without a slash is no url.
LocationsAreResolved == [][(url \in Urls /\ url' # url) => url' = Hop(url)]_vars
=============================================================================
