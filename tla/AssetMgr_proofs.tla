---------------------------- MODULE AssetMgr_proofs ----------------------------
(***************************************************************************)
(* Proofs about AssetMgr, for any sessions, urls and file names, any size  *)
(* of the assets, any number of restarts and deletions, and for disks that *)
(* fill and disks that do not.                                             *)
(***************************************************************************)
EXTENDS AssetMgr, TLAPS

\* One command runs on the strand.
OneRuns == \A s, t \in Sessions : st[s] = "run" /\ st[t] = "run" => s = t

\* The download of session s: its file holds what was received, less what
\* could not be written, and there is no asset of its name yet.
Downloading(s) ==
    /\ Len(job[s].paths) < Len(job[s].urls)
    /\ dl[FileName[Current(s)]] # None
    /\ dl[FileName[Current(s)]].n + dl[FileName[Current(s)]].lost = job[s].got
    /\ dir[FileName[Current(s)]] = None

DownloadsInv ==
    \A s \in Sessions : job[s] # None /\ job[s].got # None =>
        st[s] = "run" /\ Downloading(s)

IInv == TypeOK /\ OneRuns /\ DownloadsInv /\ AssetsAreWhole

-----------------------------------------------------------------------------
(* The commands.                                                           *)

\* The url a command has come to is one of the urls, and its file name one of
\* the names.
LEMMA CurrentType ==
    ASSUME TypeOK, NEW s \in Sessions, job[s] # None,
           Len(job[s].paths) < Len(job[s].urls)
    PROVE  Current(s) \in Urls /\ FileName[Current(s)] \in Names
<1>1. job[s] \in Job
  BY SMTT(30) DEF TypeOK
<1>2. /\ job[s].urls \in Seq(Urls)
      /\ job[s].paths \in Seq(Names \cup {EmptyPath})
  BY <1>1, SMTT(30) DEF Job
<1>3. Current(s) \in Urls
  BY <1>2, SMTT(30) DEF Current
<1>4. QED  BY <1>3, SMTT(30) DEF Names

\* When the loop goes on, the command is still one, with nothing received.
LEMMA NextUrlType ==
    ASSUME TypeOK, NEW s \in Sessions, job[s] # None,
           NEW p \in Names \cup {EmptyPath}, NextUrl(s, p)
    PROVE  /\ job' \in [Sessions -> Job \cup {None}]
           /\ job'[s] # None /\ job'[s].got = None
           /\ \A t \in Sessions \ {s} : job'[t] = job[t]
<1>1. job[s] \in Job
  BY SMTT(30) DEF TypeOK
<1>2. [job[s] EXCEPT !.paths = Append(@, p), !.got = None] \in Job
  <2>1. Append(job[s].paths, p) \in Seq(Names \cup {EmptyPath})
    BY <1>1, SMTT(30) DEF Job
  <2>2. QED  BY <1>1, <2>1 DEF Job
<1>3. /\ job'[s] = [job[s] EXCEPT !.paths = Append(@, p), !.got = None]
      /\ \A t \in Sessions \ {s} : job'[t] = job[t]
      /\ job' \in [Sessions -> Job \cup {None}]
  BY <1>2, SMTT(30) DEF NextUrl, TypeOK
<1>4. job'[s].got = None
  BY <1>1, <1>3, SMTT(30) DEF Job
<1>5. QED  BY <1>2, <1>3, <1>4, NoneAssumption

-----------------------------------------------------------------------------
(* A step that leaves the files alone, and starts or goes on with no        *)
(* download: whatever becomes of a command, nothing was received for it.    *)

LEMMA FilesKept ==
    ASSUME IInv, TypeOK', UNCHANGED files, OneRuns',
           \A t \in Sessions :
               \/ job'[t] = None \/ job'[t].got = None
               \/ job'[t] = job[t] /\ st'[t] = st[t]
    PROVE  IInv'
<1>1. dir' = dir /\ dl' = dl
  BY SMTT(30) DEF files
<1>2. AssetsAreWhole'
  BY <1>1, SMTT(30) DEF IInv, AssetsAreWhole
<1>3. ASSUME NEW t \in Sessions, job'[t] # None, job'[t].got # None
      PROVE  st'[t] = "run" /\ Downloading(t)'
  <2>1. job'[t] = job[t] /\ st'[t] = st[t]
    BY <1>3
  <2>2. st[t] = "run" /\ Downloading(t)
    BY <1>3, <2>1, SMTT(30) DEF IInv, DownloadsInv
  <2>3. Current(t)' = Current(t)
    BY <2>1 DEF Current
  <2>4. Downloading(t)'
    BY <1>1, <2>1, <2>2, <2>3 DEF Downloading
  <2>5. QED  BY <2>1, <2>2, <2>4
<1>4. DownloadsInv'
  BY <1>3, SMTT(30) DEF DownloadsInv
<1>5. QED  BY <1>2, <1>4, SMTT(30) DEF IInv

\* A command begins only when no other is running.
LEMMA StrandOrder ==
    ASSUME TypeOK, OneRuns, NEW s \in Sessions,
           StrandIsFree(s) \/ st[s] = "run",
           \A t \in Sessions \ {s} : st'[t] = st[t]
    PROVE  OneRuns'
BY SMTT(30) DEF OneRuns, StrandIsFree

LEMMA StrandKept ==
    ASSUME OneRuns, \A t \in Sessions : st'[t] = "run" => st[t] = "run"
    PROVE  OneRuns'
BY SMTT(30) DEF OneRuns

-----------------------------------------------------------------------------
(* The sessions, one lemma for each kind of step.                          *)

\* The steps between commands.
LEMMA IdleKeeps ==
    ASSUME IInv, NEW s \in Sessions,
           \/ Greet(s) \/ Poll(s) \/ PollUnknown(s) \/ Resume(s) \/ Push(s)
           \/ TouchThrows(s)
    PROVE  IInv'
<1> USE DEF IInv
<1>1. CASE Greet(s)
  <2>1. TypeOK'
    BY <1>1, SMTT(30) DEF Greet, TypeOK, files
  <2>2. OneRuns'
    BY <1>1, StrandKept, SMTT(30) DEF Greet, TypeOK
  <2>3. \A t \in Sessions : job'[t] = None \/ (job'[t] = job[t] /\ st'[t] = st[t])
    BY <1>1, SMTT(30) DEF Greet, TypeOK
  <2>4. QED  BY <1>1, <2>1, <2>2, <2>3, FilesKept, SMTT(30) DEF Greet
<1>2. CASE Poll(s)
  <2>1. TypeOK'
    BY <1>2, SMTT(30) DEF Poll, TypeOK, files
  <2>2. \A t \in Sessions \ {s} : st'[t] = st[t] /\ job'[t] = job[t]
    BY <1>2, SMTT(30) DEF Poll, TypeOK
  <2>3. OneRuns'
    BY <1>2, <2>2, StrandOrder, SMTT(30) DEF Poll
  <2>4. job'[s] = None \/ job'[s].got = None
    BY <1>2, SMTT(30) DEF Poll, DownloadsInv
  <2>5. QED  BY <1>2, <2>1, <2>2, <2>3, <2>4, FilesKept, SMTT(30) DEF Poll
<1>3. CASE PollUnknown(s)
  <2>1. TypeOK'
    BY <1>3, SMTT(30) DEF PollUnknown, TypeOK, files
  <2>2. OneRuns'
    BY <1>3, StrandKept, SMTT(30) DEF PollUnknown, TypeOK
  <2>3. \A t \in Sessions : job'[t] = None \/ (job'[t] = job[t] /\ st'[t] = st[t])
    BY <1>3, SMTT(30) DEF PollUnknown, TypeOK
  <2>4. QED  BY <1>3, <2>1, <2>2, <2>3, FilesKept, SMTT(30) DEF PollUnknown
<1>4. ASSUME Resume(s) \/ Push(s) \/ TouchThrows(s) PROVE IInv'
  <2>1. /\ st' \in [Sessions -> {"none", "poll", "asked", "run", "push", "ended"}]
        /\ st'[s] \in {"poll", "push", "ended"}
        /\ \A t \in Sessions \ {s} : st'[t] = st[t]
        /\ job' = [job EXCEPT ![s] = None]
        /\ UNCHANGED files /\ m_assetUrlToPath' = m_assetUrlToPath
    <3>1. CASE Resume(s)
      BY <3>1, SMTT(30) DEF Resume, TypeOK, files
    <3>2. CASE Push(s)
      BY <3>2, SMTT(30) DEF Push, TypeOK, files
    <3>3. CASE TouchThrows(s)
      <4>1. /\ st' = [st EXCEPT ![s] = "ended"] /\ job' = [job EXCEPT ![s] = None]
            /\ UNCHANGED <<m_assetUrlToPath, files>>
        BY <3>3, Zenon DEF TouchThrows
      <4>2. QED  BY <4>1, SMTT(30) DEF TypeOK
    <3>4. QED  BY <1>4, <3>1, <3>2, <3>3
  <2>2. TypeOK'
    BY <2>1, SMTT(30) DEF TypeOK, files
  <2>3. OneRuns'
    BY <2>1, StrandKept
  <2>4. \A t \in Sessions : job'[t] = None \/ (job'[t] = job[t] /\ st'[t] = st[t])
    BY <2>1, SMTT(30) DEF TypeOK
  <2>5. QED  BY <2>1, <2>2, <2>3, <2>4, FilesKept
<1>5. QED  BY <1>1, <1>2, <1>3, <1>4

\* A client asks.
LEMMA AskKeeps ==
    ASSUME IInv, NEW s \in Sessions, NEW c \in Commands, Ask(s, c)
    PROVE  IInv'
<1> USE DEF IInv
<1>1. c \in Seq(Urls)
  <2>1. PICK n \in 1..MaxUrls : c \in [1..n -> Urls]
    BY SMTT(30) DEF Commands
  <2>2. QED  BY <2>1
<1> DEFINE new == [urls |-> c, paths |-> <<>>, got |-> None]
<1>2. new \in Job /\ new.got = None
  BY <1>1, SMTT(30) DEF Job
<1>3. /\ job' = [job EXCEPT ![s] = new] /\ st' = [st EXCEPT ![s] = "asked"]
      /\ UNCHANGED files /\ m_assetUrlToPath' = m_assetUrlToPath
  BY SMTT(30) DEF Ask
<1> HIDE DEF new
<1>4. TypeOK'
  BY <1>2, <1>3, NoneAssumption, SMTT(30) DEF TypeOK, files
<1>5. OneRuns'
  BY <1>3, StrandKept, SMTT(30) DEF TypeOK
<1>6. \A t \in Sessions : job'[t].got = None \/ (job'[t] = job[t] /\ st'[t] = st[t])
  BY <1>2, <1>3, SMTT(30) DEF TypeOK
<1>7. QED  BY <1>3, <1>4, <1>5, <1>6, FilesKept

\* The url that is looked up, and the file name a download would have.
LEMMA AtUrlType ==
    ASSUME TypeOK, NEW s \in Sessions, AtUrl(s)
    PROVE  /\ job[s] # None /\ job[s] \in Job
           /\ Len(job[s].paths) < Len(job[s].urls)
           /\ Current(s) \in Urls /\ FileName[Current(s)] \in Names
<1>1. job[s] # None /\ job[s] \in Job
  BY SMTT(30) DEF AtUrl, TypeOK
<1>2. QED  BY <1>1, CurrentType, SMTT(30) DEF AtUrl

\* The loop goes on without a look at the files, or after a look that found
\* one, or after a download that came to nothing.
LEMMA LoopKeeps ==
    ASSUME IInv, NEW s \in Sessions,
           \/ FoundInCache(s) \/ FoundInDir(s) \/ OpenFails(s) \/ DownloadFails(s)
    PROVE  IInv'
<1> USE DEF IInv
<1>1. AtUrl(s) /\ st' = st /\ UNCHANGED files
  BY Zenon DEF FoundInCache, FoundInDir, OpenFails, DownloadFails, NotFound
<1>2. Current(s) \in Urls /\ FileName[Current(s)] \in Names /\ job[s] # None
  BY <1>1, AtUrlType
<1>3. /\ \E p \in Names \cup {EmptyPath} : NextUrl(s, p)
      /\ m_assetUrlToPath' \in [Urls -> Names \cup {None}]
  <2>1. CASE FoundInCache(s)
    BY <1>2, <2>1, SMTT(30) DEF FoundInCache, TypeOK
  <2>2. CASE FoundInDir(s)
    BY <1>2, <2>2, SMTT(30) DEF FoundInDir, TypeOK
  <2>3. CASE OpenFails(s) \/ DownloadFails(s)
    <3>1. NextUrl(s, EmptyPath) /\ m_assetUrlToPath' = m_assetUrlToPath
      BY <2>3, Zenon DEF OpenFails, DownloadFails
    <3>2. QED  BY <3>1, SMTT(30) DEF TypeOK
  <2>4. QED  BY <2>1, <2>2, <2>3
<1>4. /\ job' \in [Sessions -> Job \cup {None}]
      /\ job'[s] # None /\ job'[s].got = None
      /\ \A t \in Sessions \ {s} : job'[t] = job[t]
  BY <1>2, <1>3, NextUrlType
<1>5. TypeOK'
  BY <1>1, <1>2, <1>3, <1>4, SMTT(30) DEF TypeOK, AtUrl, files
<1>6. OneRuns'
  BY <1>1, SMTT(30) DEF OneRuns
<1>7. QED  BY <1>1, <1>4, <1>5, <1>6, FilesKept

\* While one command runs, no other has a download.
LEMMA OneDownload ==
    ASSUME IInv, NEW s \in Sessions, st[s] = "run",
           NEW t \in Sessions \ {s}, job[t] # None
    PROVE  job[t].got = None
BY SMTT(30) DEF IInv, OneRuns, DownloadsInv

\* A step of the download of session s that keeps the invariant for s does so
\* for all.
LEMMA DownloadStep ==
    ASSUME IInv, NEW s \in Sessions, st[s] = "run", TypeOK', st' = st,
           \A t \in Sessions \ {s} : job'[t] = job[t],
           job'[s] # None /\ job'[s].got # None => Downloading(s)',
           AssetsAreWhole'
    PROVE  IInv'
<1>1. OneRuns'
  BY SMTT(30) DEF IInv, OneRuns
<1>2. ASSUME NEW t \in Sessions, job'[t] # None, job'[t].got # None
      PROVE  st'[t] = "run" /\ Downloading(t)'
  BY <1>2, OneDownload
<1>3. QED  BY <1>1, <1>2, SMTT(30) DEF IInv, DownloadsInv

\* When a chunk was received, the command is the same but for that.
LEMMA GotType ==
    ASSUME TypeOK, NEW s \in Sessions, job[s] # None, NEW g \in 0..Chunks,
           job' = [job EXCEPT ![s].got = g]
    PROVE  /\ job'[s] \in Job /\ job'[s].got = g /\ job'[s] # None
           /\ job'[s].urls = job[s].urls /\ job'[s].paths = job[s].paths
           /\ \A t \in Sessions \ {s} : job'[t] = job[t]
           /\ job' \in [Sessions -> Job \cup {None}]
<1> DEFINE new == [job[s] EXCEPT !.got = g]
<1>1. job[s] \in Job /\ job \in [Sessions -> Job \cup {None}]
  BY DEF TypeOK
<1>2. /\ new \in Job /\ new.got = g
      /\ new.urls = job[s].urls /\ new.paths = job[s].paths
  BY <1>1, SMTT(30) DEF Job
<1>3. job' = [job EXCEPT ![s] = new]
  OBVIOUS
<1> HIDE DEF new
<1>4. /\ job'[s] = new /\ \A t \in Sessions \ {s} : job'[t] = job[t]
      /\ job' \in [Sessions -> Job \cup {None}]
  BY <1>1, <1>2, <1>3, SMTT(30)
<1>5. QED  BY <1>2, <1>4, NoneAssumption

LEMMA StartKeeps ==
    ASSUME IInv, NEW s \in Sessions, StartDownload(s)
    PROVE  IInv'
<1> USE DEF IInv
<1>1. AtUrl(s) /\ dir[FileName[Current(s)]] = None
  BY DEF StartDownload, NotFound
<1> DEFINE f == FileName[Current(s)]
           new == [of |-> Current(s), n |-> 0, lost |-> 0]
<1>2. /\ f \in Names /\ Current(s) \in Urls /\ job[s] # None /\ job[s] \in Job
      /\ Len(job[s].paths) < Len(job[s].urls)
  BY <1>1, AtUrlType
<1>3. /\ dl' = [dl EXCEPT ![f] = new] /\ job' = [job EXCEPT ![s].got = 0]
      /\ UNCHANGED <<st, m_assetUrlToPath, dir>>
  BY DEF StartDownload
<1>4. new \in File /\ new # None /\ new.n + new.lost = 0
  BY <1>2, ChunksAssumption, NoneAssumption, SMTT(30) DEF File
<1>5. /\ job'[s] \in Job /\ job'[s].got = 0 /\ job'[s] # None
      /\ job'[s].urls = job[s].urls /\ job'[s].paths = job[s].paths
      /\ \A t \in Sessions \ {s} : job'[t] = job[t]
      /\ job' \in [Sessions -> Job \cup {None}]
  <2>1. 0 \in 0..Chunks
    BY ChunksAssumption
  <2>2. QED  BY <1>2, <1>3, <2>1, GotType
<1>6. Current(s)' = Current(s)
  BY <1>5, SMTT(30) DEF Current
<1>7. dl'[f] = new /\ dl' \in [Names -> File \cup {None}]
  BY <1>2, <1>3, <1>4, SMTT(30) DEF TypeOK
<1> HIDE DEF new
<1>8. TypeOK'
  BY <1>1, <1>2, <1>3, <1>5, <1>7, SMTT(30) DEF TypeOK, AtUrl
<1>9. Downloading(s)'
  BY <1>1, <1>2, <1>3, <1>4, <1>5, <1>6, <1>7, SMTT(30) DEF Downloading
<1>10. AssetsAreWhole'
  BY <1>3, SMTT(30) DEF AssetsAreWhole
<1>11. QED  BY <1>1, <1>3, <1>5, <1>8, <1>9, <1>10, DownloadStep, SMTT(30) DEF AtUrl

LEMMA ChunkKeeps ==
    ASSUME IInv, NEW s \in Sessions, Chunk(s)
    PROVE  IInv'
<1> USE DEF IInv
<1> DEFINE f == FileName[Current(s)]
           g == job[s].got
<1>1. /\ AtUrl(s) /\ g \in 0..(Chunks - 1)
      /\ job' = [job EXCEPT ![s].got = @ + 1]
      /\ UNCHANGED <<st, m_assetUrlToPath, dir>>
  BY SMTT(30) DEF Chunk
<1>2. /\ f \in Names /\ Current(s) \in Urls /\ job[s] # None /\ job[s] \in Job
      /\ Len(job[s].paths) < Len(job[s].urls)
  BY <1>1, AtUrlType
<1>3. g \in Nat /\ g # None /\ g + 1 \in 0..Chunks /\ g + 1 # None
  BY <1>1, ChunksAssumption, NoneAssumption
<1>4. dl[f] \in File /\ dl[f] # None /\ dl[f].n + dl[f].lost = g /\ dir[f] = None
  BY <1>1, <1>2, <1>3, SMTT(30) DEF DownloadsInv, Downloading, TypeOK
<1>5. \/ dl' = [dl EXCEPT ![f].n = @ + 1] \/ dl' = [dl EXCEPT ![f].lost = @ + 1]
  BY Zenon DEF Chunk, Written
<1> HIDE DEF f, g
<1>6. /\ dl'[f] \in File /\ dl'[f].n + dl'[f].lost = g + 1
      /\ dl' \in [Names -> File \cup {None}]
  <2>1. dl[f].n \in Nat /\ dl[f].lost \in Nat /\ dl[f].of \in Urls
        /\ dl[f].n + 1 \in 0..Chunks /\ dl[f].lost + 1 \in 0..Chunks
    BY <1>3, <1>4, ChunksAssumption, SMTT(30) DEF File
  <2>2. CASE dl' = [dl EXCEPT ![f].n = @ + 1]
    <3>1. dl'[f] = [dl[f] EXCEPT !.n = @ + 1]
      BY <1>2, <2>2, SMTT(30) DEF TypeOK
    <3>2. dl'[f] \in File /\ dl'[f].n = dl[f].n + 1 /\ dl'[f].lost = dl[f].lost
      BY <1>4, <2>1, <3>1, SMTT(30) DEF File
    <3>3. dl'[f].n + dl'[f].lost = g + 1
      BY <1>3, <1>4, <2>1, <3>2
    <3>4. dl' \in [Names -> File \cup {None}]
      BY <1>2, <2>2, <3>1, <3>2, SMTT(30) DEF TypeOK
    <3>5. QED  BY <3>2, <3>3, <3>4
  <2>3. CASE dl' = [dl EXCEPT ![f].lost = @ + 1]
    <3>1. dl'[f] = [dl[f] EXCEPT !.lost = @ + 1]
      BY <1>2, <2>3, SMTT(30) DEF TypeOK
    <3>2. dl'[f] \in File /\ dl'[f].n = dl[f].n /\ dl'[f].lost = dl[f].lost + 1
      BY <1>4, <2>1, <3>1, SMTT(30) DEF File
    <3>3. dl'[f].n + dl'[f].lost = g + 1
      BY <1>3, <1>4, <2>1, <3>2
    <3>4. dl' \in [Names -> File \cup {None}]
      BY <1>2, <2>3, <3>1, <3>2, SMTT(30) DEF TypeOK
    <3>5. QED  BY <3>2, <3>3, <3>4
  <2>4. QED  BY <1>5, <2>2, <2>3
<1> USE DEF f, g
<1>7. /\ job'[s] \in Job /\ job'[s].got = g + 1 /\ job'[s] # None
      /\ job'[s].urls = job[s].urls /\ job'[s].paths = job[s].paths
      /\ \A t \in Sessions \ {s} : job'[t] = job[t]
      /\ job' \in [Sessions -> Job \cup {None}]
  BY <1>1, <1>2, <1>3, GotType
<1>8. Current(s)' = Current(s)
  BY <1>7, SMTT(30) DEF Current
<1>9. TypeOK'
  BY <1>1, <1>2, <1>6, <1>7, SMTT(30) DEF TypeOK, AtUrl
<1>10. Downloading(s)'
  BY <1>1, <1>2, <1>4, <1>6, <1>7, <1>8, NoneAssumption, SMTT(30) DEF Downloading
<1>11. AssetsAreWhole'
  BY <1>1, SMTT(30) DEF AssetsAreWhole
<1>12. QED  BY <1>1, <1>7, <1>9, <1>10, <1>11, DownloadStep, SMTT(30) DEF AtUrl

LEMMA FinishKeeps ==
    ASSUME IInv, NEW s \in Sessions, FinishDownload(s)
    PROVE  IInv' /\ dir[FileName[Current(s)]] = None
<1> USE DEF IInv
<1> DEFINE f == FileName[Current(s)]
<1>1. /\ AtUrl(s) /\ job[s].got = Chunks /\ NextUrl(s, f) /\ st' = st
      /\ dir' = [dir EXCEPT ![f] = dl[f]] /\ dl' = [dl EXCEPT ![f] = None]
      /\ m_assetUrlToPath' = [m_assetUrlToPath EXCEPT ![Current(s)] = f]
  BY SMTT(30) DEF FinishDownload, Complete
<1>2. f \in Names /\ Current(s) \in Urls /\ job[s] # None
  BY <1>1, AtUrlType
<1>3. dl[f] \in File /\ dl[f].n + dl[f].lost = Chunks /\ dir[f] = None
  <2>1. job[s].got # None
    BY <1>1, ChunksAssumption, NoneAssumption
  <2>2. QED  BY <1>1, <1>2, <2>1, SMTT(30) DEF DownloadsInv, Downloading, TypeOK
<1>4. /\ job' \in [Sessions -> Job \cup {None}]
      /\ job'[s] # None /\ job'[s].got = None
      /\ \A t \in Sessions \ {s} : job'[t] = job[t]
  BY <1>1, <1>2, NextUrlType
<1>5. TypeOK'
  BY <1>1, <1>2, <1>3, <1>4, SMTT(30) DEF TypeOK, AtUrl
<1>6. AssetsAreWhole'
  BY <1>1, <1>2, <1>3, SMTT(30) DEF AssetsAreWhole, TypeOK
<1>7. QED  BY <1>1, <1>3, <1>4, <1>5, <1>6, DownloadStep, SMTT(30) DEF AtUrl

-----------------------------------------------------------------------------
(* The rest of the world.                                                  *)

\* After a crash there is no command and no cache.
LEMMA CrashKeeps ==
    ASSUME IInv, Crash
    PROVE  IInv'
<1> USE DEF IInv
<1>1. /\ st' = [s \in Sessions |-> "none"] /\ job' = [s \in Sessions |-> None]
      /\ m_assetUrlToPath' = [u \in Urls |-> None] /\ UNCHANGED files
  BY SMTT(30) DEF Crash
<1>2. TypeOK'
  BY <1>1, SMTT(30) DEF TypeOK, files
<1>3. OneRuns'
  BY <1>1, SMTT(30) DEF OneRuns
<1>4. \A t \in Sessions : job'[t] = None
  BY <1>1
<1>5. QED  BY <1>1, <1>2, <1>3, <1>4, FilesKept

\* A deletion makes no asset, and nothing less whole.
LEMMA DeleteKeeps ==
    ASSUME IInv, NEW f \in Names, Delete(f)
    PROVE  IInv'
<1> USE DEF IInv
<1>1. /\ dir' = [dir EXCEPT ![f] = None]
      /\ UNCHANGED <<st, job, m_assetUrlToPath, dl>>
  BY SMTT(30) DEF Delete
<1>2. TypeOK'
  BY <1>1, SMTT(30) DEF TypeOK
<1>3. OneRuns'
  BY <1>1, SMTT(30) DEF OneRuns
<1>4. \A g \in Names : dir'[g] \in {None, dir[g]}
  BY <1>1, SMTT(30) DEF TypeOK
<1>5. AssetsAreWhole'
  BY <1>4, SMTT(30) DEF AssetsAreWhole
<1>6. ASSUME NEW t \in Sessions, job'[t] # None, job'[t].got # None
      PROVE  st'[t] = "run" /\ Downloading(t)'
  <2>1. st[t] = "run" /\ Downloading(t) /\ Current(t)' = Current(t)
    BY <1>1, <1>6, SMTT(30) DEF DownloadsInv, Current
  <2>2. FileName[Current(t)] \in Names
    BY <1>1, <1>6, <2>1, CurrentType, SMTT(30) DEF Downloading
  <2>3. QED  BY <1>1, <1>4, <2>1, <2>2, SMTT(30) DEF Downloading
<1>7. QED  BY <1>2, <1>3, <1>5, <1>6, SMTT(30) DEF DownloadsInv

-----------------------------------------------------------------------------
(* The theorems.                                                           *)

LEMMA NextKeeps == IInv /\ [Next]_vars => IInv'
<1> SUFFICES ASSUME IInv, [Next]_vars PROVE IInv'
  OBVIOUS
<1>1. ASSUME NEW s \in Sessions, SessionNext(s) PROVE IInv'
  BY <1>1, IdleKeeps, LoopKeeps, StartKeeps, ChunkKeeps, FinishKeeps, SMTT(30) DEF SessionNext
<1>2. ASSUME NEW s \in Sessions, NEW c \in Commands, Ask(s, c) PROVE IInv'
  BY <1>2, AskKeeps
<1>3. CASE Crash
  BY <1>3, CrashKeeps
<1>4. ASSUME NEW f \in Names, Delete(f) PROVE IInv'
  BY <1>4, DeleteKeeps
<1>5. CASE UNCHANGED vars
  <2>1. UNCHANGED <<st, job, m_assetUrlToPath, dir, dl>>
    BY <1>5, Zenon DEF vars, files
  <2>2. TypeOK'
    BY <2>1, Zenon DEF IInv, TypeOK
  <2>3. OneRuns' /\ AssetsAreWhole'
    BY <2>1, Zenon DEF IInv, OneRuns, AssetsAreWhole
  <2>4. DownloadsInv'
    BY <2>1, Zenon DEF IInv, DownloadsInv, Downloading, Current
  <2>5. QED  BY <2>2, <2>3, <2>4 DEF IInv
<1>6. QED  BY <1>1, <1>2, <1>3, <1>4, <1>5, SMTT(30) DEF Next

LEMMA InitKeeps == Init => IInv
<1> SUFFICES ASSUME Init PROVE IInv
  OBVIOUS
<1> USE DEF Init, NoFiles
<1>1. TypeOK
  BY SMTT(30) DEF TypeOK
<1>2. OneRuns /\ DownloadsInv /\ AssetsAreWhole
  BY SMTT(30) DEF OneRuns, DownloadsInv, AssetsAreWhole
<1>3. QED  BY <1>1, <1>2, SMTT(30) DEF IInv

LEMMA Invariance == Spec => []IInv
BY InitKeeps, NextKeeps, PTL DEF Spec

\* The variables keep their types: no file ever holds more than its asset.
THEOREM TypeCorrect == Spec => []TypeOK
<1>1. IInv => TypeOK
  BY SMTT(30) DEF IInv
<1>2. QED  BY <1>1, Invariance, PTL

\* No partial download is ever seen in the asset directory, whatever the
\* sessions ask for, however often the process dies and what others delete.
THEOREM AssetsStayWhole == Spec => []AssetsAreWhole
<1>1. IInv => AssetsAreWhole
  BY SMTT(30) DEF IInv
<1>2. QED  BY <1>1, Invariance, PTL

\* No step but that of a finished download puts anything into the directory.
LEMMA DirKept ==
    ASSUME NEW s \in Sessions, SessionNext(s), ~FinishDownload(s)
    PROVE  dir' = dir
<1>1. CASE Greet(s) \/ Poll(s) \/ PollUnknown(s) \/ Resume(s) \/ Push(s)
  BY <1>1, Zenon DEF Greet, Poll, PollUnknown, Resume, Push, files
<1>2. CASE FoundInCache(s) \/ FoundInDir(s) \/ OpenFails(s) \/ TouchThrows(s)
  BY <1>2, Zenon DEF FoundInCache, FoundInDir, OpenFails, TouchThrows, files
<1>3. CASE StartDownload(s) \/ Chunk(s) \/ DownloadFails(s)
  BY <1>3, Zenon DEF StartDownload, Chunk, DownloadFails, files
<1>4. QED  BY <1>1, <1>2, <1>3, Zenon DEF SessionNext

\* An asset in the directory is never overwritten, also by an asset that has
\* its name.
THEOREM AssetsStay == Spec => NeverReplaced
<1> DEFINE Kept == \A f \in Names : dir[f] # None => dir'[f] \in {None, dir[f]}
<1>1. ASSUME IInv, [Next]_vars PROVE [Kept]_vars
  <2>1. ASSUME NEW s \in Sessions, FinishDownload(s) PROVE Kept
    <3>1. dir[FileName[Current(s)]] = None
      BY <1>1, <2>1, FinishKeeps
    <3>2. dir' = [dir EXCEPT ![FileName[Current(s)]] = dl[FileName[Current(s)]]]
      BY <2>1, SMTT(30) DEF FinishDownload
    <3>3. QED  BY <1>1, <3>1, <3>2, SMTT(30) DEF IInv, TypeOK
  <2>2. ASSUME NEW f \in Names, Delete(f) PROVE Kept
    BY <1>1, <2>2, SMTT(30) DEF Delete, IInv, TypeOK
  <2>3. ASSUME dir' = dir PROVE Kept
    BY <2>3
  <2>4. CASE Crash
    BY <2>3, <2>4, SMTT(30) DEF Crash, files
  <2>5. ASSUME NEW s \in Sessions, NEW c \in Commands, Ask(s, c) PROVE Kept
    BY <2>3, <2>5, SMTT(30) DEF Ask, files
  <2>6. QED
    BY <1>1, <2>1, <2>2, <2>3, <2>4, <2>5, DirKept, SMTT(30) DEF Next
<1>2. QED  BY <1>1, Invariance, PTL DEF Spec, NeverReplaced

-----------------------------------------------------------------------------
(* What the cache and the answers say.  They may be wrong when two urls     *)
(* have one file name, when an asset was deleted and on a disk that filled; *)
(* nothing else makes them so.                                              *)

Undisturbed ==
    /\ \A u, v \in Urls : FileName[u] = FileName[v] => u = v
    /\ MaxDeletes = 0
    /\ ~DiskMayFill

CountsOK == counts \in [cmd : Nat, crash : Nat, del : Nat]

\* A download is that of the url its session has come to.
DownloadsTrue ==
    \A s \in Sessions : job[s] # None /\ job[s].got # None =>
        /\ dl[FileName[Current(s)]].of = Current(s)
        /\ dl[FileName[Current(s)]].lost = 0

DirTrue ==
    \A u \in Urls : dir[FileName[u]] # None => dir[FileName[u]] = Whole(u)

CacheInDir ==
    \A u \in Urls : m_assetUrlToPath[u] # None =>
        m_assetUrlToPath[u] = FileName[u] /\ dir[FileName[u]] # None

TrueInv == IInv /\ CountsOK /\ DownloadsTrue /\ DirTrue /\ CacheInDir

LEMMA CacheOfInv == TrueInv => CacheIsTrue
BY SMTT(30) DEF TrueInv, DirTrue, CacheInDir, CacheIsTrue

LEMMA CountsKept ==
    ASSUME CountsOK, [Next]_vars
    PROVE  CountsOK'
<1>1. ASSUME NEW s \in Sessions, SessionNext(s) PROVE CountsOK'
  <2>1. CASE PollUnknown(s)
    BY <2>1, SMTT(30) DEF PollUnknown, CountsOK
  <2>2. CASE ~PollUnknown(s)
    <3>1. counts' = counts
      <4>1. CASE Greet(s) \/ Poll(s) \/ Resume(s) \/ Push(s) \/ TouchThrows(s)
        BY <4>1, Zenon DEF Greet, Poll, Resume, Push, TouchThrows
      <4>2. CASE FoundInCache(s) \/ FoundInDir(s) \/ OpenFails(s) \/ StartDownload(s)
        BY <4>2, Zenon DEF FoundInCache, FoundInDir, OpenFails, StartDownload
      <4>3. CASE Chunk(s) \/ DownloadFails(s) \/ FinishDownload(s)
        BY <4>3, Zenon DEF Chunk, DownloadFails, FinishDownload
      <4>4. QED  BY <1>1, <2>2, <4>1, <4>2, <4>3, Zenon DEF SessionNext
    <3>2. QED  BY <3>1, SMTT(30) DEF CountsOK
  <2>3. QED  BY <2>1, <2>2
<1>2. ASSUME NEW s \in Sessions, NEW c \in Commands, Ask(s, c) PROVE CountsOK'
  BY <1>2, SMTT(30) DEF Ask, CountsOK
<1>3. CASE Crash
  BY <1>3, SMTT(30) DEF Crash, CountsOK
<1>4. ASSUME NEW f \in Names, Delete(f) PROVE CountsOK'
  BY <1>4, SMTT(30) DEF Delete, CountsOK
<1>5. CASE UNCHANGED vars
  BY <1>5, SMTT(30) DEF vars, CountsOK
<1>6. QED  BY <1>1, <1>2, <1>3, <1>4, <1>5, SMTT(30) DEF Next

\* A step that leaves the files alone and begins no download.
LEMMA TruthOfCommands ==
    ASSUME TrueInv, UNCHANGED files,
           \A t \in Sessions :
               job'[t] = None \/ job'[t].got = None \/ job'[t] = job[t]
    PROVE  DownloadsTrue' /\ DirTrue'
<1>1. dir' = dir /\ dl' = dl
  BY SMTT(30) DEF files
<1>2. DirTrue'
  BY <1>1, SMTT(30) DEF TrueInv, DirTrue, Whole
<1>3. ASSUME NEW t \in Sessions, job'[t] # None, job'[t].got # None
      PROVE  /\ dl'[FileName[Current(t)']].of = Current(t)'
             /\ dl'[FileName[Current(t)']].lost = 0
  <2>1. job'[t] = job[t]
    BY <1>3
  <2>2. Current(t)' = Current(t)
    BY <2>1 DEF Current
  <2>3. dl[FileName[Current(t)]].of = Current(t) /\ dl[FileName[Current(t)]].lost = 0
    BY <1>3, <2>1 DEF TrueInv, DownloadsTrue
  <2>4. QED  BY <1>1, <2>2, <2>3
<1>4. QED  BY <1>2, <1>3, SMTT(30) DEF DownloadsTrue

\* The steps between commands.
LEMMA IdleTrue ==
    ASSUME TrueInv, NEW s \in Sessions,
           \/ Greet(s) \/ Poll(s) \/ PollUnknown(s) \/ Resume(s) \/ Push(s)
           \/ TouchThrows(s)
    PROVE  DownloadsTrue' /\ DirTrue' /\ CacheInDir'
<1>1. /\ UNCHANGED files /\ m_assetUrlToPath' = m_assetUrlToPath
      /\ job' = job \/ job' = [job EXCEPT ![s] = None]
  BY Zenon DEF Greet, Poll, PollUnknown, Resume, Push, TouchThrows
<1>2. \A t \in Sessions : job'[t] = None \/ job'[t] = job[t]
  BY <1>1, SMTT(30) DEF TrueInv, IInv, TypeOK
<1>3. CacheInDir'
  BY <1>1, SMTT(30) DEF TrueInv, CacheInDir, files
<1>4. QED  BY <1>1, <1>2, <1>3, TruthOfCommands

LEMMA AskTrue ==
    ASSUME TrueInv, NEW s \in Sessions, NEW c \in Commands, Ask(s, c)
    PROVE  DownloadsTrue' /\ DirTrue' /\ CacheInDir'
<1> DEFINE new == [urls |-> c, paths |-> <<>>, got |-> None]
<1>1. /\ UNCHANGED files /\ m_assetUrlToPath' = m_assetUrlToPath
      /\ job' = [job EXCEPT ![s] = new] /\ new.got = None
  BY SMTT(30) DEF Ask
<1> HIDE DEF new
<1>2. \A t \in Sessions : job'[t].got = None \/ job'[t] = job[t]
  BY <1>1, SMTT(30) DEF TrueInv, IInv, TypeOK
<1>3. CacheInDir'
  BY <1>1, SMTT(30) DEF TrueInv, CacheInDir, files
<1>4. QED  BY <1>1, <1>2, <1>3, TruthOfCommands

LEMMA LoopTrue ==
    ASSUME TrueInv, NEW s \in Sessions,
           \/ FoundInCache(s) \/ FoundInDir(s) \/ OpenFails(s) \/ DownloadFails(s)
    PROVE  DownloadsTrue' /\ DirTrue' /\ CacheInDir'
<1>1. AtUrl(s) /\ UNCHANGED files
  BY Zenon DEF FoundInCache, FoundInDir, OpenFails, DownloadFails, NotFound
<1>2. Current(s) \in Urls /\ FileName[Current(s)] \in Names /\ job[s] # None /\ TypeOK
  BY <1>1, AtUrlType, SMTT(30) DEF TrueInv, IInv
<1>3. /\ \E p \in Names \cup {EmptyPath} : NextUrl(s, p)
      /\ \/ m_assetUrlToPath' = m_assetUrlToPath
         \/ /\ dir[FileName[Current(s)]] # None
            /\ m_assetUrlToPath' =
                  [m_assetUrlToPath EXCEPT ![Current(s)] = FileName[Current(s)]]
  <2>1. CASE FoundInCache(s)
    <3>1. m_assetUrlToPath[Current(s)] \in Names
      BY <1>2, <2>1, SMTT(30) DEF FoundInCache, TypeOK
    <3>2. QED  BY <2>1, <3>1, Zenon DEF FoundInCache
  <2>2. CASE FoundInDir(s)
    BY <1>2, <2>2, Zenon DEF FoundInDir
  <2>3. CASE OpenFails(s) \/ DownloadFails(s)
    BY <2>3, Zenon DEF OpenFails, DownloadFails
  <2>4. QED  BY <2>1, <2>2, <2>3
<1>4. job'[s].got = None /\ \A t \in Sessions \ {s} : job'[t] = job[t]
  BY <1>2, <1>3, NextUrlType
<1>5. CacheInDir'
  BY <1>1, <1>2, <1>3, SMTT(30) DEF TrueInv, CacheInDir, TypeOK, files
<1>6. QED  BY <1>1, <1>4, <1>5, TruthOfCommands

\* The steps of a download.
LEMMA DownloadTrue ==
    ASSUME TrueInv, IInv', Undisturbed, NEW s \in Sessions,
           StartDownload(s) \/ Chunk(s)
    PROVE  DownloadsTrue' /\ DirTrue' /\ CacheInDir'
<1> DEFINE f == FileName[Current(s)]
<1>1. AtUrl(s) /\ UNCHANGED <<st, m_assetUrlToPath, dir>>
  BY Zenon DEF StartDownload, NotFound, Chunk
<1>2. /\ f \in Names /\ Current(s) \in Urls /\ job[s] # None /\ job[s] \in Job
      /\ IInv
  BY <1>1, AtUrlType, SMTT(30) DEF TrueInv, IInv
<1>3. \E g : job' = [job EXCEPT ![s].got = g]
  <2>1. CASE StartDownload(s)
    BY <2>1 DEF StartDownload
  <2>2. CASE Chunk(s)
    BY <2>2 DEF Chunk
  <2>3. QED  BY <2>1, <2>2
<1>4. /\ job'[s].urls = job[s].urls /\ job'[s].paths = job[s].paths
      /\ \A t \in Sessions \ {s} : job'[t] = job[t]
  BY <1>2, <1>3, SMTT(30) DEF IInv, TypeOK, Job
<1>5. Current(s)' = Current(s)
  BY <1>4, SMTT(30) DEF Current
<1>6. dl'[f].of = Current(s) /\ dl'[f].lost = 0
  <2>1. CASE StartDownload(s)
    <3>1. dl' = [dl EXCEPT ![f] = [of |-> Current(s), n |-> 0, lost |-> 0]]
      BY <2>1 DEF StartDownload
    <3>2. dl'[f] = [of |-> Current(s), n |-> 0, lost |-> 0]
      BY <1>2, <3>1, SMTT(30) DEF IInv, TypeOK
    <3>3. QED  BY <3>2
  <2>2. CASE Chunk(s)
    <3>1. job[s].got # None /\ dl' = [dl EXCEPT ![f].n = @ + 1]
      <4>1. job[s].got \in 0..(Chunks - 1) /\ Written(f)
        BY <2>2, SMTT(30) DEF Chunk
      <4>2. dl' = [dl EXCEPT ![f].n = @ + 1]
        BY <4>1, Zenon DEF Written, Undisturbed
      <4>3. QED  BY <4>1, <4>2, ChunksAssumption, NoneAssumption
    <3>2. dl[f].of = Current(s) /\ dl[f].lost = 0 /\ dl[f] \in File
      BY <1>2, <3>1, NoneAssumption, SMTT(30)
         DEF TrueInv, DownloadsTrue, IInv, DownloadsInv, Downloading, TypeOK
    <3>3. dl'[f] = [dl[f] EXCEPT !.n = @ + 1]
      BY <1>2, <3>1, SMTT(30) DEF IInv, TypeOK
    <3>4. QED  BY <3>2, <3>3, SMTT(30) DEF File
  <2>3. QED  BY <2>1, <2>2
<1>7. ASSUME NEW t \in Sessions, job'[t] # None, job'[t].got # None
      PROVE  t = s
  BY <1>1, <1>2, <1>4, <1>7, OneDownload, SMTT(30) DEF AtUrl
<1>8. DownloadsTrue'
  BY <1>5, <1>6, <1>7, SMTT(30) DEF DownloadsTrue
<1>9. DirTrue' /\ CacheInDir'
  BY <1>1, SMTT(30) DEF TrueInv, DirTrue, CacheInDir, Whole
<1>10. QED  BY <1>8, <1>9

\* The file that is put in place is the whole asset.
LEMMA FinishTrue ==
    ASSUME TrueInv, Undisturbed, NEW s \in Sessions, FinishDownload(s)
    PROVE  /\ DownloadsTrue' /\ DirTrue' /\ CacheInDir'
           /\ dir'[FileName[Current(s)]] = Whole(Current(s))
<1> DEFINE u == Current(s)
           f == FileName[u]
<1>1. /\ AtUrl(s) /\ job[s].got = Chunks /\ NextUrl(s, f) /\ st' = st
      /\ dir' = [dir EXCEPT ![f] = dl[f]]
      /\ m_assetUrlToPath' = [m_assetUrlToPath EXCEPT ![u] = f]
  BY SMTT(30) DEF FinishDownload, Complete
<1>2. f \in Names /\ u \in Urls /\ job[s] # None /\ IInv /\ TypeOK
  BY <1>1, AtUrlType, SMTT(30) DEF TrueInv, IInv
<1>3. dl[f] = Whole(u) /\ dl[f] # None
  <2>1. job[s].got # None
    BY <1>1, ChunksAssumption, NoneAssumption
  <2>2. dl[f] \in File /\ dl[f].n + dl[f].lost = Chunks
    BY <1>1, <1>2, <2>1, SMTT(30) DEF IInv, DownloadsInv, Downloading, TypeOK
  <2>3. dl[f].of = u /\ dl[f].lost = 0
    BY <1>2, <2>1, SMTT(30) DEF TrueInv, DownloadsTrue
  <2>4. QED  BY <2>2, <2>3, NoneAssumption, SMTT(30) DEF File, Whole
<1>4. /\ job'[s].got = None
      /\ \A t \in Sessions \ {s} : job'[t] = job[t]
  BY <1>1, <1>2, NextUrlType
<1>5. ASSUME NEW t \in Sessions, job'[t] # None, job'[t].got # None
      PROVE  FALSE
  BY <1>1, <1>2, <1>4, <1>5, OneDownload, SMTT(30) DEF AtUrl
<1>6. DownloadsTrue'
  BY <1>5, SMTT(30) DEF DownloadsTrue
<1>7. \A v \in Urls : FileName[v] \in Names /\ (FileName[v] = f => v = u)
  BY <1>2, SMTT(30) DEF Undisturbed, Names
<1>8. /\ dir'[f] = Whole(u) /\ dir'[f] # None
      /\ \A g \in Names \ {f} : dir'[g] = dir[g]
  BY <1>1, <1>2, <1>3, SMTT(30) DEF TypeOK
<1>9. /\ m_assetUrlToPath'[u] = f
      /\ \A v \in Urls \ {u} : m_assetUrlToPath'[v] = m_assetUrlToPath[v]
  BY <1>1, <1>2, SMTT(30) DEF TypeOK
<1> HIDE DEF u, f
<1>10. ASSUME NEW v \in Urls
       PROVE  /\ dir'[FileName[v]] # None => dir'[FileName[v]] = Whole(v)
              /\ m_assetUrlToPath'[v] # None =>
                    m_assetUrlToPath'[v] = FileName[v] /\ dir'[FileName[v]] # None
  <2>1. CASE v = u
    BY <1>8, <1>9, <2>1, SMTT(30) DEF f
  <2>2. CASE v # u
    <3>1. /\ dir'[FileName[v]] = dir[FileName[v]]
          /\ m_assetUrlToPath'[v] = m_assetUrlToPath[v]
      BY <1>7, <1>8, <1>9, <2>2
    <3>2. QED  BY <3>1, SMTT(30) DEF TrueInv, DirTrue, CacheInDir
  <2>3. QED  BY <2>1, <2>2
<1>11. DirTrue' /\ CacheInDir'
  BY <1>10 DEF DirTrue, CacheInDir, Whole
<1>12. QED  BY <1>6, <1>8, <1>11, SMTT(30) DEF u, f

LEMMA TruthKept ==
    ASSUME TrueInv, Undisturbed, [Next]_vars
    PROVE  TrueInv'
<1>1. IInv' /\ CountsOK'
  BY NextKeeps, CountsKept, SMTT(30) DEF TrueInv
<1>2. ASSUME NEW s \in Sessions, SessionNext(s)
      PROVE  DownloadsTrue' /\ DirTrue' /\ CacheInDir'
  BY <1>1, <1>2, IdleTrue, LoopTrue, DownloadTrue, FinishTrue, SMTT(30) DEF SessionNext
<1>3. CASE Crash
  <2>1. /\ UNCHANGED files /\ m_assetUrlToPath' = [u \in Urls |-> None]
        /\ job' = [s \in Sessions |-> None]
    BY <1>3, SMTT(30) DEF Crash
  <2>2. CacheInDir' /\ \A t \in Sessions : job'[t] = None
    BY <2>1, SMTT(30) DEF CacheInDir
  <2>3. QED  BY <1>1, <2>1, <2>2, TruthOfCommands, SMTT(30) DEF TrueInv
<1>4. ASSUME NEW f \in Names, Delete(f) PROVE FALSE
  BY <1>4, SMTT(30) DEF Delete, Undisturbed, TrueInv, CountsOK
<1>5. CASE UNCHANGED vars
  <2>1. UNCHANGED <<job, m_assetUrlToPath, dir, dl>>
    BY <1>5, Zenon DEF vars, files
  <2>2. DownloadsTrue'
    BY <2>1, Zenon DEF TrueInv, DownloadsTrue, Current
  <2>3. DirTrue' /\ CacheInDir'
    BY <2>1, Zenon DEF TrueInv, DirTrue, CacheInDir, Whole
  <2>4. QED  BY <1>1, <2>2, <2>3 DEF TrueInv
<1>6. QED
  BY <1>1, <1>2, <1>3, <1>4, <1>5, AskTrue, SMTT(30) DEF Next, TrueInv

LEMMA TruthHolds == Undisturbed => (Spec => []TrueInv)
<1> SUFFICES ASSUME Undisturbed PROVE Spec => []TrueInv
  OBVIOUS
<1>1. Init => TrueInv
  <2> SUFFICES ASSUME Init PROVE TrueInv
    OBVIOUS
  <2>1. \A u \in Urls : FileName[u] \in Names
    BY SMTT(30) DEF Names
  <2>2. QED
    BY <2>1, InitKeeps, SMTT(30)
       DEF Init, NoFiles, TrueInv, CountsOK, DownloadsTrue, DirTrue, CacheInDir
<1>2. TrueInv /\ [Next]_vars => TrueInv'
  BY TruthKept
<1>3. QED  BY <1>1, <1>2, PTL DEF Spec

\* Where nobody deletes assets, no two urls share a file name and the disk does
\* not fill, the cache is true to the disk, through any failed downloads and
\* any number of restarts.
THEOREM CacheStaysTrue == Undisturbed => (Spec => []CacheIsTrue)
BY TruthHolds, CacheOfInv, PTL

\* Only the session that goes on to its next url adds a path, and adds the one
\* it found.
LEMMA PathOfNextUrl ==
    ASSUME TypeOK, NEW s \in Sessions, job[s] # None,
           NEW p \in Names \cup {EmptyPath}, NextUrl(s, p)
    PROVE  /\ AddedPath(s) = p
           /\ \A t \in Sessions \ {s} : ~Added(t)
<1>1. job[s] \in Job
  BY SMTT(30) DEF TypeOK
<1>2. job[s].paths \in Seq(Names \cup {EmptyPath})
  BY <1>1, SMTT(30) DEF Job
<1>3. /\ job'[s].paths = Append(job[s].paths, p)
      /\ \A t \in Sessions \ {s} : job'[t] = job[t]
  BY <1>1, SMTT(30) DEF NextUrl, TypeOK, Job
<1>4. AddedPath(s) = p
  BY <1>2, <1>3, SMTT(30) DEF AddedPath
<1>5. ASSUME NEW t \in Sessions \ {s} PROVE ~Added(t)
  <2>1. SUFFICES ASSUME Added(t) PROVE FALSE
    OBVIOUS
  <2>2. job[t] \in Job
    BY <2>1, SMTT(30) DEF Added, TypeOK
  <2>3. Len(job[t].paths) \in Nat
    BY <2>2, SMTT(30) DEF Job
  <2>4. QED  BY <1>3, <2>1, <2>3, SMTT(30) DEF Added
<1>6. QED  BY <1>4, <1>5

\* A step that adds to no command's paths.
LEMMA NothingAdded ==
    ASSUME TypeOK,
           \A t \in Sessions :
               \/ job'[t] = None \/ job'[t].paths = <<>>
               \/ job'[t].paths = job[t].paths
    PROVE  \A t \in Sessions : ~Added(t)
<1> SUFFICES ASSUME NEW t \in Sessions, Added(t) PROVE FALSE
  OBVIOUS
<1>1. job[t] \in Job
  BY SMTT(30) DEF Added, TypeOK
<1>2. Len(job[t].paths) \in Nat
  BY <1>1, SMTT(30) DEF Job
<1>3. QED  BY <1>2, SMTT(30) DEF Added

Told(s) == Added(s) /\ AddedPath(s) # EmptyPath
              => dir'[AddedPath(s)] = Whole(Current(s))

LEMMA LoopTells ==
    ASSUME TrueInv, Undisturbed, NEW s \in Sessions,
           \/ FoundInCache(s) \/ FoundInDir(s) \/ OpenFails(s)
           \/ DownloadFails(s) \/ FinishDownload(s)
    PROVE  \A t \in Sessions : Told(t)
<1>1. AtUrl(s)
  BY Zenon DEF FoundInCache, FoundInDir, OpenFails, DownloadFails,
               FinishDownload, NotFound
<1>2. Current(s) \in Urls /\ FileName[Current(s)] \in Names /\ job[s] # None /\ TypeOK
  BY <1>1, AtUrlType, SMTT(30) DEF TrueInv, IInv
<1>3. \E p \in Names \cup {EmptyPath} :
         NextUrl(s, p) /\ (p # EmptyPath => dir'[p] = Whole(Current(s)))
  <2>1. CASE FoundInCache(s)
    <3>1. /\ m_assetUrlToPath[Current(s)] # None /\ dir' = dir
          /\ NextUrl(s, m_assetUrlToPath[Current(s)])
      BY <2>1, Zenon DEF FoundInCache, files
    <3>2. /\ m_assetUrlToPath[Current(s)] \in Names
          /\ dir[m_assetUrlToPath[Current(s)]] = Whole(Current(s))
      BY <1>2, <3>1, CacheOfInv, SMTT(30) DEF CacheIsTrue, TypeOK
    <3>3. QED  BY <3>1, <3>2
  <2>2. CASE FoundInDir(s)
    <3>1. /\ dir[FileName[Current(s)]] # None /\ dir' = dir
          /\ NextUrl(s, FileName[Current(s)])
      BY <2>2, Zenon DEF FoundInDir, files
    <3>2. QED  BY <1>2, <3>1, SMTT(30) DEF TrueInv, DirTrue
  <2>3. CASE OpenFails(s) \/ DownloadFails(s)
    BY <2>3, Zenon DEF OpenFails, DownloadFails
  <2>4. CASE FinishDownload(s)
    <3>1. NextUrl(s, FileName[Current(s)])
      BY <2>4, SMTT(30) DEF FinishDownload
    <3>2. QED  BY <1>2, <2>4, <3>1, FinishTrue
  <2>5. QED  BY <2>1, <2>2, <2>3, <2>4
<1>4. QED  BY <1>2, <1>3, PathOfNextUrl, SMTT(30) DEF Told

LEMMA StepTells ==
    ASSUME TrueInv, Undisturbed, Next
    PROVE  \A t \in Sessions : Told(t)
<1>0. TypeOK
  BY SMTT(30) DEF TrueInv, IInv
<1>1. ASSUME NEW s \in Sessions,
             \/ Greet(s) \/ Poll(s) \/ PollUnknown(s) \/ Resume(s) \/ Push(s)
             \/ TouchThrows(s)
      PROVE  \A t \in Sessions : Told(t)
  <2>1. job' = job \/ job' = [job EXCEPT ![s] = None]
    BY <1>1, Zenon DEF Greet, Poll, PollUnknown, Resume, Push, TouchThrows
  <2>2. \A t \in Sessions : job'[t] = None \/ job'[t] = job[t]
    BY <1>0, <2>1, SMTT(30) DEF TypeOK
  <2>3. QED  BY <1>0, <2>2, NothingAdded, SMTT(30) DEF Told
<1>2. ASSUME NEW s \in Sessions, StartDownload(s) \/ Chunk(s)
      PROVE  \A t \in Sessions : Told(t)
  <2>1. \E g : job' = [job EXCEPT ![s].got = g]
    <3>1. CASE StartDownload(s)
      BY <3>1 DEF StartDownload
    <3>2. CASE Chunk(s)
      BY <3>2 DEF Chunk
    <3>3. QED  BY <1>2, <3>1, <3>2
  <2>2. job[s] \in Job
    <3>1. AtUrl(s)
      BY <1>2, Zenon DEF StartDownload, NotFound, Chunk
    <3>2. QED  BY <1>0, <3>1, AtUrlType
  <2>3. \A t \in Sessions : job'[t].paths = job[t].paths
    BY <1>0, <2>1, <2>2, SMTT(30) DEF TypeOK, Job
  <2>4. QED  BY <1>0, <2>3, NothingAdded, SMTT(30) DEF Told
<1>3. ASSUME NEW s \in Sessions, SessionNext(s) PROVE \A t \in Sessions : Told(t)
  BY <1>1, <1>2, <1>3, LoopTells, SMTT(30) DEF SessionNext
<1>4. ASSUME NEW s \in Sessions, NEW c \in Commands, Ask(s, c)
      PROVE  \A t \in Sessions : Told(t)
  <2> DEFINE new == [urls |-> c, paths |-> <<>>, got |-> None]
  <2>1. job' = [job EXCEPT ![s] = new] /\ new.paths = <<>>
    BY <1>4, SMTT(30) DEF Ask
  <2> HIDE DEF new
  <2>2. \A t \in Sessions : job'[t].paths = <<>> \/ job'[t] = job[t]
    BY <1>0, <2>1, SMTT(30) DEF TypeOK
  <2>3. QED  BY <1>0, <2>2, NothingAdded, SMTT(30) DEF Told
<1>5. CASE Crash
  <2>1. \A t \in Sessions : job'[t] = None
    BY <1>5, SMTT(30) DEF Crash
  <2>2. QED  BY <1>0, <2>1, NothingAdded, SMTT(30) DEF Told
<1>6. ASSUME NEW f \in Names, Delete(f) PROVE \A t \in Sessions : Told(t)
  <2>1. job' = job
    BY <1>6, SMTT(30) DEF Delete
  <2>2. QED  BY <1>0, <2>1, NothingAdded, SMTT(30) DEF Told
<1>7. QED  BY <1>3, <1>4, <1>5, <1>6 DEF Next

\* Under the same conditions every path in an answer is that of the whole asset
\* that was asked for, or empty.
THEOREM AnswersAreTrue == Undisturbed => (Spec => PathHoldsAsset)
<1> SUFFICES ASSUME Undisturbed PROVE Spec => PathHoldsAsset
  OBVIOUS
<1>1. TrueInv /\ [Next]_vars => [\A s \in Sessions : Told(s)]_vars
  BY StepTells
<1>2. QED  BY <1>1, TruthHolds, PTL DEF Spec, PathHoldsAsset, Told
=============================================================================
