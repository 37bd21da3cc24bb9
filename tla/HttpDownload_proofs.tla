-------------------------- MODULE HttpDownload_proofs --------------------------
(***************************************************************************)
(* Proofs about HttpDownload, for every set of servers and of buffers: in  *)
(* particular for redirects of any number of hops, with or without an end. *)
(* What is said of the way to the resource needs NoNetworkPath, what is    *)
(* said of the buffers does not.                                           *)
(***************************************************************************)
EXTENDS HttpDownload, SequenceTheorems, TLAPS

-----------------------------------------------------------------------------
(* Lemmas about redirects.  A step of the download is one hop, so it is    *)
(* enough to know what one hop does to the urls that are passed.           *)

\* A hop leads from url to url.
LEMMA HopType ==
    ASSUME remote \in [Places -> Response], NEW u \in Urls
    PROVE  Hop(u) \in Urls
<1> DEFINE to == remote[u].location
<1>1. to \in Location \cup {None} /\ u.host \in Hosts
  BY DEF Response, Urls, Places
<1>2. CASE to = None
  BY <1>2 DEF Hop
<1>3. CASE to \in Location
  <2>1. to.path \in Paths /\ (to.form \in {"/path", "path"} \/ to.host \in Hosts)
    BY <1>3 DEF Location, NetworkPath
  <2>2. Hop(u) = IF to = None THEN u
                 ELSE [host |-> IF to.form \in {"/path", "path"} THEN u.host ELSE to.host,
                       path |-> to.path]
    BY DEF Hop
  <2> HIDE DEF to
  <2>3. QED  BY <1>1, <2>1, <2>2 DEF Urls
<1>4. QED  BY <1>1, <1>2, <1>3

\* The first url is passed, and so is the next after one that is.
LEMMA PassedFirst == \A u \in Urls : u \in Passed(u)
  BY DEF Passed

LEMMA PassedNext ==
    ASSUME NEW u, NEW v \in Passed(u), Hop(v) \in Urls
    PROVE  Hop(v) \in Passed(u)
  BY DEF Passed

\* Whatever is passed behind the first url is passed behind its hop.
LEMMA PassedOn ==
    ASSUME NEW u \in Urls, NEW v \in Passed(u), v # u
    PROVE  v \in Passed(Hop(u))
<1> SUFFICES ASSUME NEW S \in SUBSET Urls, Hop(u) \in S, \A w \in S : Hop(w) \in S
             PROVE  v \in S
  BY DEF Passed
<1>1. S \cup {u} \in SUBSET Urls /\ \A w \in S \cup {u} : Hop(w) \in S \cup {u}
  OBVIOUS
<1>2. v \in S \cup {u}
  BY <1>1 DEF Passed
<1>3. QED  BY <1>2

\* From a url without a redirect nothing else is passed.
LEMMA PassedEnd ==
    ASSUME NEW u \in Urls, remote[u].location = None
    PROVE  Passed(u) = {u}
<1>1. Hop(u) = u
  BY DEF Hop
<1>2. {u} \in SUBSET Urls /\ \A w \in {u} : Hop(w) \in {u}
  BY <1>1
<1>3. Passed(u) \subseteq {u}
  BY <1>2 DEF Passed
<1>4. QED  BY <1>3, PassedFirst

-----------------------------------------------------------------------------
(* The inductive invariant.                                                *)

TypeOK ==
    /\ remote \in [Places -> Response] /\ asked \in Urls
    /\ url \in Places \cup {None} /\ (pc = "waiting" => url # None)
    /\ left \in Nat /\ chunks \in Seq([room : Nat, size : Nat])

\* The download is on the way that the hops take, and the end of that way, if
\* there is one, is still ahead, unless it has lost its url.
OnTheWay ==
    NoNetworkPath /\ url # None =>
    /\ url \in Passed(asked)
    /\ \A v \in Passed(asked) : remote[v].location = None => v \in Passed(url)

\* What was received is the body up to what is left, in full buffers.
BodyInv ==
    /\ pc = "request" => got = <<>> /\ chunks = <<>>
    /\ pc = "waiting" =>
        /\ response.location = None
        /\ left <= response.length
        /\ got = Bytes(url, 0, response.length - left)
        /\ \A i \in 1..Len(chunks) : chunks[i].size = chunks[i].room

IInv == TypeOK /\ OnTheWay /\ BodyInv /\ EachChunkFull

\* The end of the redirects is the url whose response is the body.
LEMMA TargetReached ==
    ASSUME IInv, NoNetworkPath, url # None, response.location = None
    PROVE  TargetExists /\ Target = url
<1>1. url \in Passed(asked) /\ url \in Urls /\ remote[url].location = None
  BY DEF IInv, OnTheWay, response, Passed
<1>2. TargetExists
  BY <1>1 DEF TargetExists
<1>3. Target \in Passed(asked) /\ remote[Target].location = None
  BY <1>2 DEF TargetExists, Target
<1>4. Target \in Passed(url)
  BY <1>3 DEF IInv, OnTheWay
<1>5. QED  BY <1>1, <1>2, <1>4, PassedEnd

\* Lengths are numbers.
LEMMA LengthIsNat == IInv /\ url # None => response.length \in Nat
  BY LengthAssumption DEF IInv, TypeOK, Response, response

\* The bytes that follow continue the bytes before.
LEMMA BytesContinue ==
    ASSUME NEW u, NEW k \in Nat, NEW n \in Nat
    PROVE  /\ Bytes(u, 0, k) \o Bytes(u, Len(Bytes(u, 0, k)), n) = Bytes(u, 0, k + n)
           /\ Len(Bytes(u, 0, k)) = k /\ Bytes(u, 0, 0) = <<>>
           /\ Stream!IsPrefix(Bytes(u, 0, k), Bytes(u, 0, k + n))
<1> DEFINE T == {u} \X Nat
<1>1. \A m, j \in Nat : /\ Bytes(u, m, j) \in Seq(T) /\ Len(Bytes(u, m, j)) = j
                        /\ \A i \in 1..j : Bytes(u, m, j)[i] = <<u, m + i>>
  <2> TAKE m, j \in Nat
  <2>1. \A i \in 1..j : <<u, m + i>> \in T
    OBVIOUS
  <2>2. QED  BY <2>1 DEF Bytes
<1> HIDE DEF T
<1>2. Len(Bytes(u, 0, k)) = k
  BY <1>1
<1> DEFINE a == Bytes(u, 0, k)
           b == Bytes(u, k, n)
           c == Bytes(u, 0, k + n)
<1>3. 0 \in Nat /\ k + n \in Nat /\ \A j \in Nat : \A i \in 1..j : 0 + i = i
  OBVIOUS
<1>4. /\ a \in Seq(T) /\ Len(a) = k /\ \A i \in 1..k : a[i] = <<u, i>>
      /\ b \in Seq(T) /\ Len(b) = n /\ \A i \in 1..n : b[i] = <<u, k + i>>
  <2>1. /\ a \in Seq(T) /\ Len(a) = k /\ \A i \in 1..k : a[i] = <<u, 0 + i>>
        /\ b \in Seq(T) /\ Len(b) = n /\ \A i \in 1..n : b[i] = <<u, k + i>>
    BY <1>1, <1>3, Zenon
  <2> HIDE DEF a, b
  <2>2. QED  BY <1>3, <2>1, Zenon
<1>5. c \in Seq(T) /\ Len(c) = k + n /\ \A i \in 1..(k + n) : c[i] = <<u, i>>
  <2>1. c \in Seq(T) /\ Len(c) = k + n /\ \A i \in 1..(k + n) : c[i] = <<u, 0 + i>>
    BY <1>1, <1>3, Zenon
  <2> HIDE DEF c
  <2>2. QED  BY <1>3, <2>1, Zenon
<1>6. Bytes(u, 0, 0) = <<>>
  BY <1>1, EmptySeq
<1> HIDE DEF a, b, c
<1>7. a \o b = c
  <2>1. /\ a \o b \in Seq(T) /\ Len(a \o b) = k + n
        /\ \A i \in 1..(k + n) : (a \o b)[i] = IF i <= k THEN a[i] ELSE b[i - k]
    BY <1>4, ConcatProperties
  <2>2. ASSUME NEW i \in Nat, i \in 1..(k + n) PROVE (a \o b)[i] = <<u, i>>
    <3>1. CASE i <= k
      <4>1. i \in 1..k
        BY <2>2, <3>1
      <4>2. QED  BY <1>4, <2>1, <2>2, <3>1, <4>1
    <3>2. CASE ~(i <= k)
      <4>1. i - k \in 1..n /\ k + (i - k) = i
        BY <2>2, <3>2
      <4>2. b[i - k] = <<u, i>>
        BY <1>4, <4>1
      <4>3. QED  BY <2>1, <2>2, <3>2, <4>2
    <3>3. QED  BY <3>1, <3>2
  <2>3. \A i \in 1..(k + n) : (a \o b)[i] = c[i]
    <3>1. \A i \in 1..(k + n) : i \in Nat
      OBVIOUS
    <3>2. QED  BY <1>5, <2>2, <3>1
  <2>4. QED  BY <1>5, <2>1, <2>3, SeqEqual
<1>8. Stream!IsPrefix(a, c)
  <2>1. Len(a) <= Len(c) /\ k \in 0..Len(c)
    BY <1>4, <1>5
  <2>2. \A i \in 1..k : a[i] = c[i] /\ i \in 1..(k + n)
    <3>1. \A i \in 1..k : i \in 1..(k + n)
      OBVIOUS
    <3>2. QED  BY <1>4, <1>5, <3>1, Zenon
  <2>3. SubSeq(a, 1, k) = SubSeq(c, 1, k)
    BY <1>4, <1>5, <2>1, <2>2
  <2>4. QED  BY <1>4, <2>1, <2>3 DEF Stream!IsPrefix
<1>9. QED  BY <1>2, <1>6, <1>7, <1>8 DEF a, b, c

-----------------------------------------------------------------------------
(* Every step keeps the invariant, and is a step of the stream or none.    *)

\* The asset and the end of the refinement mapping.
Asset == IF TargetExists THEN Bytes(Target, 0, remote[Target].length) ELSE <<>>
End == CASE pc \in {"request", "waiting"} -> "open"
         [] pc = "done" /\ response.framing # "close" -> "whole"
         [] OTHER -> "broken"

LEMMA StreamNext ==
    ASSUME End = "open", Stream!IsPrefix(got, got'), Stream!IsPrefix(got', Asset),
           End' = "whole" => got' = Asset, Asset' = Asset
    PROVE  Stream!Next
<1>1. End' \in {"open", "whole", "broken"}
  BY DEF End
<1>2. QED  BY <1>1 DEF Stream!Next, Asset, End

\* The servers do not change, and so the asset does not.
LEMMA PassedStays ==
    ASSUME UNCHANGED remote
    PROVE  \A u : Passed(u)' = Passed(u)
<1>1. \A u : Hop(u)' = Hop(u)
  BY DEF Hop
<1>2. QED  BY <1>1 DEF Passed

LEMMA NoNetworkPathStays ==
    ASSUME UNCHANGED <<remote, asked>>
    PROVE  NoNetworkPath' = NoNetworkPath
<1>1. Passed(asked)' = Passed(asked)
  BY PassedStays
<1>2. QED  BY <1>1 DEF NoNetworkPath

LEMMA AssetStays ==
    ASSUME UNCHANGED <<remote, asked>>
    PROVE  Asset' = Asset
<1>1. Passed(asked)' = Passed(asked)
  BY PassedStays
<1>2. TargetExists' = TargetExists
  BY <1>1 DEF TargetExists
<1>3. Target' = Target
  BY <1>1 DEF Target
<1>4. QED  BY <1>2, <1>3 DEF Asset, Bytes

\* What is empty or unchanged is a prefix.
LEMMA PrefixSelf ==
    /\ \A s : Len(s) \in Nat => Stream!IsPrefix(s, s)
    /\ \A T, t : t \in Seq(T) => Stream!IsPrefix(<<>>, t)
<1>1. \A T, t : t \in Seq(T) => Stream!IsPrefix(<<>>, t)
  <2> TAKE T, t
  <2>1. ASSUME t \in Seq(T) PROVE Stream!IsPrefix(<<>>, t)
    <3>1. Len(t) \in Nat /\ Len(<<>>) = 0
      BY <2>1, LenProperties
    <3>2. SubSeq(t, 1, 0) = <<>> /\ SubSeq(<<>>, 1, 0) = <<>>
      BY <2>1
    <3>3. QED  BY <3>1, <3>2 DEF Stream!IsPrefix
  <2>2. QED  BY <2>1
<1>2. QED  BY <1>1 DEF Stream!IsPrefix

\* Initially nothing was received.
LEMMA InitInv == Init => IInv /\ Stream!Init
<1> SUFFICES ASSUME Init PROVE IInv /\ Stream!Init
  OBVIOUS
<1>1. TypeOK
  <2>1. url \in Places
    BY DEF Init, Places
  <2>2. QED  BY <2>1, RemotesAssumption DEF Init, TypeOK
<1>2. OnTheWay
  BY PassedFirst DEF Init, OnTheWay
<1>3. BodyInv /\ EachChunkFull
  BY DEF Init, BodyInv, EachChunkFull
<1>4. Stream!Init
  BY DEF Init, Stream!Init
<1>5. QED  BY <1>1, <1>2, <1>3, <1>4 DEF IInv

\* A step that goes nowhere stays on the way.
LEMMA WayStays ==
    ASSUME IInv, UNCHANGED <<remote, asked, url>>
    PROVE  OnTheWay' /\ response' = response /\ Asset' = Asset
<1>1. Passed(asked)' = Passed(asked) /\ Passed(url)' = Passed(url)
  BY PassedStays
<1>2. NoNetworkPath' = NoNetworkPath
  BY NoNetworkPathStays
<1>3. OnTheWay'
  BY <1>1, <1>2 DEF IInv, OnTheWay
<1>4. QED  BY <1>3, AssetStays DEF response

\* The url of a redirect is one that a server may be asked for, or none.
LEMMA RedirectType ==
    ASSUME IInv, RedirectToPath \/ RedirectToUrl
    PROVE  url' \in Places \cup {None}
<1> DEFINE loc == response.location
<1>1. /\ url \in Places /\ url.host \in Hosts /\ loc \in Location
      /\ StartsWithSlash(loc) => url' = Behind(url.host, loc)
      /\ ~StartsWithSlash(loc) => url' = AsUrl(loc)
  BY DEF IInv, TypeOK, RedirectToPath, RedirectToUrl, Redirects, Answers,
         Response, response, Places, Urls
<1> HIDE DEF loc
<1>2. CASE StartsWithSlash(loc)
  <2>1. (loc.form = "/path" /\ loc.path \in Paths) \/ loc \in NetworkPath
    BY <1>1, <1>2 DEF StartsWithSlash, Location
  <2>2. loc \in NetworkPath => loc.form # "/path"
    BY DEF NetworkPath
  <2>3. QED  BY <1>1, <1>2, <2>1, <2>2 DEF Behind, Places, Urls
<1>3. CASE ~StartsWithSlash(loc)
  <2>1. loc.form = "http://host/path" => loc.host \in Hosts /\ loc.path \in Paths
    BY <1>1 DEF Location, NetworkPath
  <2>2. QED  BY <1>1, <1>3, <2>1 DEF AsUrl, Places, Urls
<1>4. QED  BY <1>2, <1>3

\* Without network-path references, a redirect that leads to a url is a hop.
LEMMA RedirectIsHop ==
    ASSUME IInv, RedirectToPath \/ RedirectToUrl, NoNetworkPath, url' # None
    PROVE  url \in Urls /\ url' = Hop(url)
<1> DEFINE loc == response.location
<1>1. url # None /\ url \in Passed(asked) /\ url \in Urls
  BY DEF IInv, OnTheWay, RedirectToPath, RedirectToUrl, Redirects, Answers, Passed
<1>2. /\ loc \in Location /\ loc \notin NetworkPath /\ loc # None
      /\ StartsWithSlash(loc) => url' = Behind(url.host, loc)
      /\ ~StartsWithSlash(loc) => url' = AsUrl(loc)
  BY <1>1 DEF IInv, TypeOK, RedirectToPath, RedirectToUrl, Redirects, Answers,
              Response, response, Places, NoNetworkPath
<1>3. Hop(url) = [host |-> IF loc.form \in {"/path", "path"} THEN url.host ELSE loc.host,
                  path |-> loc.path]
  BY <1>2 DEF Hop, response
<1> HIDE DEF loc
<1>4. loc.form \in {"/path", "path", "http://host/path"}
  BY <1>2 DEF Location
<1>5. CASE loc.form = "/path"
  BY <1>1, <1>2, <1>3, <1>5 DEF StartsWithSlash, Behind
<1>6. CASE loc.form = "path"
  BY <1>2, <1>6 DEF StartsWithSlash, AsUrl
<1>7. CASE loc.form = "http://host/path"
  BY <1>1, <1>2, <1>3, <1>7 DEF StartsWithSlash, AsUrl
<1>8. QED  BY <1>1, <1>4, <1>5, <1>6, <1>7

\* A redirect keeps the invariant: a hop leads to a url that is passed, and an
\* end that was ahead of it still is.
LEMMA RedirectStep ==
    ASSUME IInv, RedirectToPath \/ RedirectToUrl
    PROVE  IInv' /\ UNCHANGED Stream!vars
<1>1. /\ response.location # None /\ pc = "request" /\ url # None
      /\ remote \in [Places -> Response] /\ asked \in Urls
      /\ UNCHANGED <<remote, asked, pc, body>>
  BY DEF IInv, TypeOK, RedirectToPath, RedirectToUrl, Redirects, Answers
<1>2. url' \in Places \cup {None}
  BY RedirectType
<1>3. TypeOK'
  BY <1>1, <1>2 DEF IInv, TypeOK, body
<1>4. ASSUME NoNetworkPath, url' # None
      PROVE  /\ url' \in Passed(asked)
             /\ \A v \in Passed(asked) : remote[v].location = None => v \in Passed(url')
  <2>1. url \in Urls /\ url' = Hop(url) /\ url \in Passed(asked)
    BY <1>1, <1>4, RedirectIsHop DEF IInv, OnTheWay
  <2>2. url' \in Urls
    BY <1>1, <2>1, HopType
  <2>3. url' \in Passed(asked)
    BY <2>1, <2>2, PassedNext
  <2>4. ASSUME NEW v \in Passed(asked), remote[v].location = None
        PROVE  v \in Passed(url')
    <3>1. v \in Passed(url) /\ v # url
      BY <1>1, <1>4, <2>4 DEF IInv, OnTheWay, response
    <3>2. QED  BY <2>1, <3>1, PassedOn
  <2>5. QED  BY <2>3, <2>4
<1>5. OnTheWay'
  <2>1. Passed(asked)' = Passed(asked) /\ Passed(url)' = Passed(url')
    BY <1>1, PassedStays DEF Passed, Hop
  <2>2. NoNetworkPath' = NoNetworkPath
    BY <1>1, NoNetworkPathStays
  <2>3. QED  BY <1>1, <1>4, <2>1, <2>2 DEF OnTheWay
<1>6. BodyInv' /\ EachChunkFull'
  BY <1>1 DEF IInv, BodyInv, EachChunkFull, body
<1>7. UNCHANGED Stream!vars
  <2>1. End' = End /\ got' = got /\ Asset' = Asset
    BY <1>1, AssetStays DEF End, body
  <2>2. QED  BY <2>1 DEF Stream!vars, End, Asset
<1>8. QED  BY <1>3, <1>5, <1>6, <1>7 DEF IInv

\* Everything received is the beginning of the asset.
LEMMA GotBegins ==
    ASSUME IInv, NoNetworkPath, pc \in {"request", "waiting"}
    PROVE  Stream!IsPrefix(got, got) /\ Stream!IsPrefix(got, Asset)
<1>1. CASE pc = "request"
  <2>1. got = <<>>
    BY <1>1 DEF IInv, BodyInv
  <2>2. \E T : Asset \in Seq(T)
    <3>1. CASE ~TargetExists
      <4>1. Asset \in Seq({})
        BY <3>1 DEF Asset
      <4>2. QED  BY <4>1
    <3>2. CASE TargetExists
      <4>1. Target \in Urls
        BY <3>2 DEF TargetExists, Target, Passed
      <4>2. remote[Target].length \in Nat
        BY <4>1, LengthAssumption DEF IInv, TypeOK, Response, Places
      <4>3. Asset \in Seq({Target} \X Nat)
        <5> DEFINE n == remote[Target].length
        <5>1. n \in Nat /\ Asset = [i \in 1..n |-> <<Target, 0 + i>>]
          BY <3>2, <4>2 DEF Asset, Bytes
        <5> HIDE DEF n
        <5>2. \A i \in 1..n : <<Target, 0 + i>> \in {Target} \X Nat
          BY <5>1
        <5>3. QED  BY <5>1, <5>2
      <4>4. QED  BY <4>3
    <3>3. QED  BY <3>1, <3>2
  <2>3. QED  BY <2>1, <2>2, PrefixSelf
<1>2. CASE pc = "waiting"
  <2> DEFINE k == response.length - left
  <2>1. /\ k \in Nat /\ left \in Nat /\ response.length \in Nat /\ k + left = response.length
        /\ got = Bytes(url, 0, k) /\ response.location = None /\ url # None
    BY <1>2, LengthIsNat DEF IInv, TypeOK, BodyInv
  <2>2. Asset = Bytes(url, 0, k + left)
    BY <2>1, TargetReached DEF Asset, response
  <2> HIDE DEF k
  <2>3. QED  BY <2>1, <2>2, BytesContinue, PrefixSelf
<1>3. QED  BY <1>1, <1>2

\* When the download breaks, or is dropped, the consumer keeps what it has.
LEMMA BreakStep ==
    ASSUME IInv, RequestFails \/ StatusThrows \/ ReadThrows \/ Drop
    PROVE  IInv' /\ (NoNetworkPath => Stream!Next)
<1>1. /\ pc \in {"request", "waiting"} /\ pc' \in {"threw", "dropped"}
      /\ UNCHANGED <<remote, asked, url, body>>
  BY DEF RequestFails, StatusThrows, Answers, ReadThrows, Drop
<1>2. IInv'
  BY <1>1, WayStays DEF IInv, TypeOK, BodyInv, EachChunkFull, body
<1>3. End = "open" /\ End' # "whole" /\ got' = got /\ Asset' = Asset
  BY <1>1, AssetStays DEF End, body
<1>4. QED  BY <1>1, <1>2, <1>3, GotBegins, StreamNext

\* The response of the last hop announces the body, or ends it.
LEMMA RespondStep ==
    ASSUME IInv, Respond
    PROVE  IInv' /\ (NoNetworkPath => [Stream!Next]_Stream!vars)
<1>1. /\ pc = "request" /\ url # None
      /\ response.location = None /\ got = <<>> /\ chunks = <<>>
      /\ left' = response.length /\ left' \in Nat
      /\ UNCHANGED <<remote, asked, url, got, chunks>>
      /\ pc' = "waiting" \/ (pc' = "done" /\ m_size' = 0)
      /\ m_size' = 0 => response.framing = "length" /\ response.length = 0
  BY LengthIsNat, NoneAssumption DEF Respond, Answers, IInv, BodyInv
<1>2. OnTheWay' /\ response' = response /\ Asset' = Asset
  BY <1>1, WayStays
<1>3. got = Bytes(url, 0, 0)
  BY <1>1, BytesContinue
<1>4. IInv'
  <2>1. TypeOK'
    BY <1>1 DEF IInv, TypeOK
  <2>2. response.length - left' = 0 /\ left' <= response.length
    BY <1>1
  <2>3. Bytes(url, 0, 0)' = Bytes(url, 0, 0)
    BY <1>1 DEF Bytes
  <2>4. BodyInv'
    BY <1>1, <1>2, <1>3, <2>2, <2>3 DEF BodyInv
  <2>5. EachChunkFull'
    BY <1>1 DEF EachChunkFull
  <2>6. QED  BY <1>2, <2>1, <2>4, <2>5 DEF IInv
<1>5. CASE pc' = "waiting"
  <2>1. End' = End /\ got' = got /\ Asset' = Asset
    BY <1>1, <1>2, <1>5 DEF End
  <2>2. QED  BY <1>4, <2>1 DEF Stream!vars, End, Asset
<1>6. CASE pc' = "done"
  <2> SUFFICES ASSUME NoNetworkPath PROVE Stream!Next
    BY <1>4
  <2>1. got' = Asset
    BY <1>1, <1>3, <1>6, TargetReached DEF Asset, response
  <2>2. End = "open" /\ got' = got
    BY <1>1 DEF End
  <2>3. QED  BY <1>1, <1>2, <1>4, <2>1, <2>2, GotBegins, StreamNext
<1>7. QED  BY <1>1, <1>5, <1>6

\* A buffer comes back with the n bytes that follow, and it is full unless the
\* download is done.
LEMMA YieldStep ==
    ASSUME IInv, pc = "waiting", NEW b \in Nat, NEW n \in Nat, n <= left,
           NEW p \in {"waiting", "done"}, Yield(b, n, p), n = b \/ p = "done",
           p = "done" /\ response.framing # "close" => n = left
    PROVE  IInv' /\ (NoNetworkPath => [Stream!Next]_Stream!vars)
<1> DEFINE k == response.length - left
<1>0. url # None
  BY DEF IInv, TypeOK
<1>1. /\ k \in Nat /\ left \in Nat /\ response.length \in Nat
      /\ got = Bytes(url, 0, k) /\ response.location = None
      /\ response.length = k + left
      /\ chunks \in Seq([room : Nat, size : Nat])
      /\ \A i \in 1..Len(chunks) : chunks[i].size = chunks[i].room
  BY <1>0, LengthIsNat DEF IInv, TypeOK, BodyInv
<1>2. /\ UNCHANGED <<remote, asked, url>> /\ pc' = p /\ left' = left - n
      /\ chunks' = Append(chunks, [room |-> b, size |-> n])
      /\ got' = got \o Bytes(url, Len(got), n)
  BY DEF Yield
<1>3. OnTheWay' /\ response' = response /\ Asset' = Asset
  BY <1>2, WayStays
<1> HIDE DEF k
<1>4. got' = Bytes(url, 0, k + n) /\ Stream!IsPrefix(got, got')
  <2>1. /\ Bytes(url, 0, k) \o Bytes(url, Len(Bytes(url, 0, k)), n) = Bytes(url, 0, k + n)
        /\ Stream!IsPrefix(Bytes(url, 0, k), Bytes(url, 0, k + n))
    BY <1>1, BytesContinue, Zenon
  <2>2. got = Bytes(url, 0, k) /\ got' = got \o Bytes(url, Len(got), n)
    BY <1>1, <1>2
  <2>3. got' = Bytes(url, 0, k + n)
    BY <2>1, <2>2, Zenon
  <2>4. QED  BY <2>1, <2>2, <2>3, Zenon
<1>5. left' \in Nat /\ k + n \in Nat /\ response.length - left' = k + n
      /\ left' <= response.length /\ response.length = (k + n) + (left - n)
      /\ left - n \in Nat
  BY <1>1, <1>2
<1>6. /\ chunks' \in Seq([room : Nat, size : Nat]) /\ Len(chunks') = Len(chunks) + 1
      /\ \A i \in 1..Len(chunks) : chunks'[i].size = chunks'[i].room
      /\ n = b => chunks'[Len(chunks) + 1].size = chunks'[Len(chunks) + 1].room
      /\ Len(chunks) \in Nat
  <2>1. [room |-> b, size |-> n] \in [room : Nat, size : Nat]
    OBVIOUS
  <2>2. QED  BY <1>1, <1>2, <2>1, AppendProperties, LenProperties
<1>7. IInv'
  <2>1. TypeOK'
    BY <1>2, <1>5, <1>6 DEF IInv, TypeOK
  <2>2. EachChunkFull'
    BY <1>6 DEF EachChunkFull
  <2>3. ASSUME pc' = "waiting"
        PROVE  \A i \in 1..Len(chunks') : chunks'[i].size = chunks'[i].room
    <3>1. n = b
      BY <1>2, <2>3
    <3>2. QED  BY <1>6, <3>1
  <2>4. got' = Bytes(url, 0, response.length - left)'
    <3>1. (response.length - left)' = k + n /\ url' = url
      BY <1>2, <1>3, <1>5
    <3>2. QED  BY <1>4, <3>1 DEF Bytes
  <2>5. BodyInv'
    BY <1>1, <1>2, <1>3, <1>5, <2>3, <2>4 DEF BodyInv
  <2>6. QED  BY <1>3, <2>1, <2>2, <2>5 DEF IInv
<1>8. ASSUME NoNetworkPath PROVE Stream!Next
  <2>1. Asset = Bytes(url, 0, (k + n) + (left - n))
    BY <1>0, <1>1, <1>8, <1>5, TargetReached DEF Asset, response
  <2>2. Stream!IsPrefix(got', Asset)
    BY <1>4, <1>5, <2>1, BytesContinue
  <2>3. ASSUME End' = "whole" PROVE got' = Asset
    <3>1. n = left
      BY <1>2, <1>3, <2>3 DEF End
    <3>2. (k + n) + (left - n) = k + n
      BY <1>1, <3>1
    <3>3. QED  BY <1>4, <2>1, <3>2
  <2>4. End = "open"
    BY DEF End
  <2>5. QED  BY <1>3, <1>4, <2>2, <2>3, <2>4, StreamNext
<1>9. QED  BY <1>7, <1>8

LEMMA NextChunkStep ==
    ASSUME IInv, NEW b \in Buffers, NextChunk(b)
    PROVE  IInv' /\ (NoNetworkPath => [Stream!Next]_Stream!vars)
<1> DEFINE n == AtMost(b, left)
<1>1. b \in Nat /\ left \in Nat
  BY BuffersAssumption DEF IInv, TypeOK
<1>2. n \in Nat /\ n <= left
  BY <1>1 DEF AtMost
<1>3. PICK p \in Following(n) : (n = b \/ p = "done") /\ Yield(b, n, p)
  BY DEF NextChunk
<1>4. p \in {"waiting", "done"} /\ (p = "done" => n = left)
  BY <1>1, <1>2, <1>3 DEF Following
<1> HIDE DEF n
<1>5. pc = "waiting"
  BY DEF NextChunk
<1>6. QED  BY <1>1, <1>2, <1>3, <1>4, <1>5, YieldStep

LEMMA CutShortStep ==
    ASSUME IInv, NEW b \in Buffers, CutShort(b)
    PROVE  IInv' /\ (NoNetworkPath => [Stream!Next]_Stream!vars)
<1>1. b \in Nat /\ left \in Nat
  BY BuffersAssumption DEF IInv, TypeOK
<1>2. PICK n \in 0..AtMost(b, left) : n < left /\ Yield(b, n, "done")
  BY DEF CutShort
<1>3. n \in Nat /\ n <= left
  BY <1>1, <1>2 DEF AtMost
<1>4. pc = "waiting" /\ response.framing = "close"
  BY DEF CutShort
<1>5. QED  BY <1>1, <1>2, <1>3, <1>4, YieldStep

LEMMA NextStep ==
    IInv /\ [Next]_vars => IInv' /\ (NoNetworkPath => [Stream!Next]_Stream!vars)
<1> SUFFICES ASSUME IInv, [Next]_vars
             PROVE  IInv' /\ (NoNetworkPath => [Stream!Next]_Stream!vars)
  OBVIOUS
<1>1. CASE Connecting \/ ReadThrows \/ Drop
  BY <1>1, RedirectStep, BreakStep, RespondStep DEF Connecting
<1>2. CASE \E b \in Buffers : NextChunk(b) \/ CutShort(b)
  BY <1>2, NextChunkStep, CutShortStep
<1>3. CASE UNCHANGED vars
  <2>1. UNCHANGED <<remote, asked, url, pc, m_size, left, got, chunks>>
    BY <1>3 DEF vars, body
  <2>2. OnTheWay' /\ response' = response /\ Asset' = Asset
    BY <2>1, WayStays
  <2>3. IInv'
    BY <2>1, <2>2 DEF IInv, TypeOK, BodyInv, EachChunkFull, Bytes
  <2>4. End' = End
    BY <2>1, <2>2 DEF End
  <2>5. QED  BY <2>1, <2>2, <2>3, <2>4 DEF Stream!vars, End, Asset
<1>4. QED  BY <1>1, <1>2, <1>3 DEF Next, Reading

LEMMA Invariance == Spec => []IInv
  BY InitInv, NextStep, PTL DEF Spec

-----------------------------------------------------------------------------
(* The theorems.                                                           *)

\* Only the last buffer may come back with room in it, however the bytes of
\* the body arrive.
THEOREM ChunksAreFull == Spec => []EachChunkFull
<1>1. IInv => EachChunkFull
  BY DEF IInv
<1>2. QED  BY <1>1, Invariance, PTL

\* Unless a network-path reference is on the way, the consumer receives the
\* bytes of the resource where the redirects end, as the standard resolves them,
\* from the first one and in order, and an end without an exception means all of
\* them, unless only the end of the connection could tell.
THEOREM DownloadIsAStream == Spec /\ NoNetworkPath => StreamSpec
<1>1. Init => Stream!Init
  BY InitInv
<1>2. IInv /\ NoNetworkPath /\ [Next]_vars => [Stream!Next]_Stream!vars
  BY NextStep
<1>3. NoNetworkPath /\ [Next]_vars => NoNetworkPath'
  <2>1. [Next]_vars => UNCHANGED <<remote, asked>>
    BY DEF Next, Connecting, Reading, RequestFails, RedirectToPath, RedirectToUrl,
           StatusThrows, Respond, NextChunk, CutShort, Yield, ReadThrows, Drop, vars
  <2>2. QED  BY <2>1, NoNetworkPathStays
<1>4. QED  BY <1>1, <1>2, <1>3, Invariance, PTL DEF Spec, StreamSpec, Stream!Spec
=============================================================================
