------------------------------- MODULE AssetMgr -------------------------------
(***************************************************************************)
(* AssetMgrService.cpp: the service behind make_assets_available.  Its     *)
(* sessions share a strand, a cache from url to path and two directories:  *)
(* the asset directory, and .acord-dl in it, where downloads grow until    *)
(* they are moved to their place.  The files outlive the process; other    *)
(* programs may delete them at any time.                                   *)
(*                                                                         *)
(* A session suspends only in poll and push, so its command runs to the    *)
(* end before another session moves, but the file system and the remote    *)
(* server may do anything between two steps of it.                         *)
(* An operator with a suffix is a faulty variant of the one after it.      *)
(***************************************************************************)
EXTENDS Naturals, Sequences

CONSTANTS
    Sessions,
    Urls,          \* the strings a command may ask for
    FileName,      \* FileName[u]: what getFileName returns for u
    Chunks,        \* the number of chunks of every asset
    None,
    MaxUrls,       \* bound: the length of a command
    MaxCommands,   \* bound: commands run
    MaxCrashes,    \* bound: restarts of the server
    MaxDeletes,    \* bound: files deleted by others
    DiskMayFill    \* whether writes may fail

ASSUME ChunksAssumption == Chunks \in Nat \ {0}
ASSUME NamesAssumption == FileName \in [Urls -> STRING]
ASSUME DiskAssumption == DiskMayFill \in BOOLEAN

Names == { FileName[u] : u \in Urls }

\* A file holds the chunks of an asset that were written to it; some may have
\* been lost in writes that failed.
File == [of : Urls, n : 0..Chunks, lost : 0..Chunks]
Whole(u) == [of |-> u, n |-> Chunks, lost |-> 0]

\* The path of an asset in the asset directory is named by its file name; a
\* url without a path in an answer has the empty one.
EmptyPath == ""

\* A command that is running: its urls, the paths found for those before
\* `at', and how many chunks of the current one were received, if it is being
\* downloaded.
Job == [urls : Seq(Urls), paths : Seq(Names \cup {EmptyPath}),
        got : (0..Chunks) \cup {None}]

ASSUME NoneAssumption ==
    /\ None \notin Urls /\ None \notin Names /\ None \notin Nat
    /\ None # EmptyPath /\ None \notin File /\ None \notin Job

VARIABLES
    st,        \* st[s]: "none", "poll", "asked", "run", "push" or "ended"
    job,       \* job[s], when st[s] is "asked" or "run"
    m_assetUrlToPath,
    dir,       \* dir[f]: the file of that name in the asset directory
    dl,        \* dl[f]: the same in .acord-dl
    counts     \* [cmd, crash, del], for the bounds

files == <<dir, dl>>
vars == <<st, job, m_assetUrlToPath, files, counts>>

NoFiles == [f \in Names |-> None]

Init ==
    /\ st = [s \in Sessions |-> "none"]
    /\ job = [s \in Sessions |-> None]
    /\ m_assetUrlToPath = [u \in Urls |-> None]
    /\ dir = NoFiles /\ dl = NoFiles
    /\ counts = [cmd |-> 0, crash |-> 0, del |-> 0]

-----------------------------------------------------------------------------
(* runSession                                                              *)

StrandIsFree_Never(s) == TRUE

\* The strand is not in the middle of a command of another session.
StrandIsFree(s) == \A t \in Sessions \ {s} : st[t] # "run"

\* createSession, and the push of the state.
Greet(s) ==
    /\ st[s] = "none" /\ StrandIsFree(s)
    /\ st' = [st EXCEPT ![s] = "poll"]
    /\ UNCHANGED <<job, m_assetUrlToPath, files, counts>>

\* The client writes a command to the channel.
Ask(s, urls) ==
    /\ st[s] = "poll"
    /\ counts.cmd < MaxCommands
    /\ counts' = [counts EXCEPT !.cmd = @ + 1]
    /\ st' = [st EXCEPT ![s] = "asked"]
    /\ job' = [job EXCEPT ![s] = [urls |-> urls, paths |-> <<>>, got |-> None]]
    /\ UNCHANGED <<m_assetUrlToPath, files>>

\* io.poll() returns it.
Poll(s) ==
    /\ st[s] = "asked" /\ StrandIsFree(s)
    /\ st' = [st EXCEPT ![s] = "run"]
    /\ UNCHANGED <<job, m_assetUrlToPath, files, counts>>

\* Any other operation is answered with an error.
PollUnknown(s) ==
    /\ st[s] = "poll" /\ StrandIsFree(s)
    /\ counts.cmd < MaxCommands
    /\ counts' = [counts EXCEPT !.cmd = @ + 1]
    /\ st' = [st EXCEPT ![s] = "push"]
    /\ UNCHANGED <<job, m_assetUrlToPath, files>>

\* The url that the loop of session s has come to.
Current(s) == job[s].urls[Len(job[s].paths) + 1]

AtUrl(s) == st[s] = "run" /\ Len(job[s].paths) < Len(job[s].urls)

\* The loop goes on with path p for the current url.
NextUrl(s, p) ==
    job' = [job EXCEPT ![s].paths = Append(@, p), ![s].got = None]

\* The url is in the cache.
FoundInCache(s) ==
    /\ AtUrl(s) /\ job[s].got = None
    /\ m_assetUrlToPath[Current(s)] # None
    /\ NextUrl(s, m_assetUrlToPath[Current(s)])
    /\ UNCHANGED <<st, m_assetUrlToPath, files, counts>>

\* A file of that name is in the asset directory.
FoundInDir(s) ==
    /\ AtUrl(s) /\ job[s].got = None
    /\ LET u == Current(s) IN
       /\ m_assetUrlToPath[u] = None
       /\ dir[FileName[u]] # None
       /\ m_assetUrlToPath' = [m_assetUrlToPath EXCEPT ![u] = FileName[u]]
       /\ NextUrl(s, FileName[u])
    /\ UNCHANGED <<st, files, counts>>

NotFound_NoLocalDirs(s) ==
    /\ AtUrl(s) /\ job[s].got = None
    /\ m_assetUrlToPath[Current(s)] = None

NotFound(s) ==
    /\ AtUrl(s) /\ job[s].got = None
    /\ m_assetUrlToPath[Current(s)] = None
    /\ dir[FileName[Current(s)]] = None

\* touch() creates the file, and the stream truncates it.
StartDownload(s) ==
    /\ NotFound(s) /\ FileName[Current(s)] # ""
    /\ LET u == Current(s) IN
       dl' = [dl EXCEPT ![FileName[u]] = [of |-> u, n |-> 0, lost |-> 0]]
    /\ job' = [job EXCEPT ![s].got = 0]
    /\ UNCHANGED <<st, m_assetUrlToPath, dir, counts>>

\* The file cannot be opened for writing: the path stays empty.
OpenFails(s) ==
    /\ NotFound(s) /\ FileName[Current(s)] # "" /\ DiskMayFill
    /\ NextUrl(s, EmptyPath)
    /\ UNCHANGED <<st, m_assetUrlToPath, files, counts>>

\* touch() cannot create the file, as when the url has no file name: it throws
\* outside of the inner try, and the session ends without an answer.
TouchThrows(s) ==
    /\ NotFound(s) /\ (FileName[Current(s)] = "" \/ DiskMayFill)
    /\ st' = [st EXCEPT ![s] = "ended"]
    /\ job' = [job EXCEPT ![s] = None]
    /\ UNCHANGED <<m_assetUrlToPath, files, counts>>

\* A stream that failed to write once does not write again.
Written(f) ==
    \/ dl[f].lost = 0 /\ dl' = [dl EXCEPT ![f].n = @ + 1]
    \/ DiskMayFill /\ dl' = [dl EXCEPT ![f].lost = @ + 1]

Chunk_PastEnd(s) ==
    /\ AtUrl(s) /\ job[s].got \in 0..Chunks
    /\ job' = [job EXCEPT ![s].got = @ + 1]
    /\ Written(FileName[Current(s)])
    /\ UNCHANGED <<st, m_assetUrlToPath, dir, counts>>

\* get_next_chunk and ofs.write, whose failure nobody looks at.
Chunk(s) ==
    /\ AtUrl(s) /\ job[s].got \in 0..(Chunks - 1)
    /\ job' = [job EXCEPT ![s].got = @ + 1]
    /\ Written(FileName[Current(s)])
    /\ UNCHANGED <<st, m_assetUrlToPath, dir, counts>>

DownloadFails_Retries(s) ==
    /\ AtUrl(s) /\ job[s].got # None
    /\ job' = [job EXCEPT ![s].got = None]
    /\ UNCHANGED <<st, m_assetUrlToPath, files, counts>>

DownloadFails_Caches(s) ==
    /\ AtUrl(s) /\ job[s].got # None
    /\ NextUrl(s, EmptyPath)
    /\ m_assetUrlToPath' = [m_assetUrlToPath EXCEPT ![Current(s)] = FileName[Current(s)]]
    /\ UNCHANGED <<st, files, counts>>

\* get_sync or get_next_chunk throws, or mv does when the file is gone: the
\* path stays empty and the file is left behind.
DownloadFails(s) ==
    /\ AtUrl(s) /\ job[s].got # None
    /\ NextUrl(s, EmptyPath)
    /\ UNCHANGED <<st, m_assetUrlToPath, files, counts>>

Complete_Early(s) == job[s].got # None

\* gen.done(), which comes with the last byte of the asset if its length was
\* announced (StreamSpec in HttpDownload).
Complete(s) == job[s].got = Chunks

\* ofs.close() and fs::mv, which puts the whole file in place at once.
FinishDownload(s) ==
    /\ AtUrl(s) /\ Complete(s)
    /\ LET u == Current(s)  f == FileName[u] IN
       /\ dir' = [dir EXCEPT ![f] = dl[f]]
       /\ dl' = [dl EXCEPT ![f] = None]
       /\ m_assetUrlToPath' = [m_assetUrlToPath EXCEPT ![u] = f]
       /\ NextUrl(s, f)
    /\ UNCHANGED <<st, counts>>

\* io.push of the paths.
Push(s) ==
    /\ st[s] = "run" /\ Len(job[s].paths) = Len(job[s].urls)
    /\ st' = [st EXCEPT ![s] = "push"]
    /\ job' = [job EXCEPT ![s] = None]
    /\ UNCHANGED <<m_assetUrlToPath, files, counts>>

\* The push was taken, or the client is gone: co_await throws.
Resume(s) ==
    /\ st[s] \in {"push", "poll", "asked"} /\ StrandIsFree(s)
    /\ \/ st[s] = "push" /\ st' = [st EXCEPT ![s] = "poll"]
       \/ st' = [st EXCEPT ![s] = "ended"]
    /\ job' = [job EXCEPT ![s] = None]
    /\ UNCHANGED <<m_assetUrlToPath, files, counts>>

SessionNext(s) ==
    \/ Greet(s) \/ Poll(s) \/ PollUnknown(s) \/ Resume(s) \/ Push(s)
    \/ FoundInCache(s) \/ FoundInDir(s)
    \/ StartDownload(s) \/ OpenFails(s) \/ TouchThrows(s) \/ Chunk(s)
    \/ DownloadFails(s) \/ FinishDownload(s)

-----------------------------------------------------------------------------
(* The rest of the world.                                                  *)

\* The process dies and is started again: only the files are left.
Crash ==
    /\ counts.crash < MaxCrashes
    /\ counts' = [counts EXCEPT !.crash = @ + 1]
    /\ st' = [s \in Sessions |-> "none"]
    /\ job' = [s \in Sessions |-> None]
    /\ m_assetUrlToPath' = [u \in Urls |-> None]
    /\ UNCHANGED files

\* Somebody deletes an asset.
Delete(f) ==
    /\ counts.del < MaxDeletes /\ dir[f] # None
    /\ counts' = [counts EXCEPT !.del = @ + 1]
    /\ dir' = [dir EXCEPT ![f] = None]
    /\ UNCHANGED <<st, job, m_assetUrlToPath, dl>>

Commands == UNION { [1..n -> Urls] : n \in 1..MaxUrls }

Next ==
    \/ \E s \in Sessions : SessionNext(s) \/ \E c \in Commands : Ask(s, c)
    \/ Crash
    \/ \E f \in Names : Delete(f)

Spec == Init /\ [][Next]_vars

\* The session waits for the remote server, and blocks the strand.
Fetching(s) == AtUrl(s) /\ job[s].got # None

\* What a session does of itself.
Proceeds(s) == st[s] = "run" /\ ~Fetching(s) /\ SessionNext(s)

\* The strand runs what is queued in its order: a session that has a command
\* comes to its turn, and then goes on to the end of it.  But a download may
\* hang, as no request has a time limit, and nothing is assumed of the clients.
FairSpec ==
    /\ Spec
    /\ \A s \in Sessions : SF_vars(Poll(s)) /\ WF_vars(Proceeds(s))

-----------------------------------------------------------------------------
(* Properties.                                                             *)

\* The types of the variables.
TypeOK ==
    /\ st \in [Sessions -> {"none", "poll", "asked", "run", "push", "ended"}]
    /\ job \in [Sessions -> Job \cup {None}]
    /\ \A s \in Sessions : st[s] \in {"asked", "run"} <=> job[s] # None
    /\ m_assetUrlToPath \in [Urls -> Names \cup {None}]
    /\ dir \in [Names -> File \cup {None}] /\ dl \in [Names -> File \cup {None}]

\* A file in the asset directory is a whole asset, whatever else is running
\* and wherever the process dies: downloads grow elsewhere and are moved.  On a
\* disk that fills, it lacks the chunks whose write failed and nothing else.
AssetsAreWhole == \A f \in Names : dir[f] # None => dir[f].n + dir[f].lost = Chunks

\* An asset that is there is never replaced: somebody may have its path.
NeverReplaced == [][\A f \in Names : dir[f] # None => dir'[f] \in {None, dir[f]}]_vars

\* As long as nobody deletes assets and their file names differ, the cache
\* tells the truth, after any failed download and any restart.
CacheIsTrue ==
    \A u \in Urls : m_assetUrlToPath[u] # None =>
        dir[m_assetUrlToPath[u]] = Whole(u)

\* Under the same conditions, so does every path that goes into an answer.
Added(s) == /\ job[s] # None /\ job'[s] # None
            /\ Len(job'[s].paths) > Len(job[s].paths)
AddedPath(s) == job'[s].paths[Len(job[s].paths) + 1]
PathHoldsAsset ==
    [][\A s \in Sessions : Added(s) /\ AddedPath(s) # EmptyPath =>
          dir'[AddedPath(s)] = Whole(Current(s))]_vars

\* No download hangs, or goes round in redirects for ever.
DownloadsEnd == \A s \in Sessions : []<>~Fetching(s)

\* A command that was asked is served, provided that downloads end: its paths
\* are found, whether each download ends well or badly and however many commands
\* of the other sessions are before it on the strand, unless the session ends or
\* the process dies.  One download that hangs holds up every session.
CommandsAreServed ==
    DownloadsEnd =>
        \A s \in Sessions :
            st[s] \in {"asked", "run"} ~> st[s] \in {"push", "ended", "none"}

\* "CHECK(fs::basicStat(fname).file())": a path in an answer is a file.  When
\* the asset was deleted since it was last asked for, it is not: the cache is
\* believed without a look at the directory.
PathIsAFile ==
    [][\A s \in Sessions : Added(s) /\ AddedPath(s) # EmptyPath =>
          dir'[AddedPath(s)] # None]_vars
=============================================================================
