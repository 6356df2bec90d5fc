----------------------------- MODULE UpdateSwap -----------------------------
(***************************************************************************)
(* cmd/rfc-mcp "update" at the level of files, next to a running "serve".  *)
(* An update copies the served database with VACUUM INTO to <db>.new, opens*)
(* the copy in WAL mode, refreshes it, folds the log back into the file and*)
(* renames it over <db>.  Names and files are apart: a process keeps the   *)
(* file it opened whatever becomes of the name.  What the refresh does to  *)
(* the content is module Pipeline's subject; here a content is the highest *)
(* RFC it has and whether every write of the refresh that made it is in.   *)
(*                                                                         *)
(* Serve reads through a pool of connections that are opened by name when  *)
(* they are needed, and caches the highest RFC number for its lifetime.    *)
(***************************************************************************)
EXTENDS Integers

CONSTANTS
    Inodes,    \* files the directory may refer to
    NoFile,    \* no name, no open file
    Updaters,  \* "update" processes that may run at the same time
    Conns,     \* the connections of serve's pool (four in the code)
    MaxRFC,    \* bound: the highest RFC number ever issued
    MaxCrash   \* bound: updates killed

ASSUME FilesAssumption == NoFile \notin Inodes
ASSUME BoundsAssumption == MaxRFC \in Nat \ {0} /\ MaxCrash \in Nat

VARIABLES
    latest,   \* upstream: the highest RFC number issued
    dir,      \* the names <db> and <db>.new
    newLog,   \* the name <db>.new-wal: the file whose log it is
    file,     \* what each database file holds
    log,      \* what it holds with the transactions in its log
    pc,       \* the next step of each updater
    mine,     \* the file of each updater's handle d
    goal,     \* the highest RFC of the index each updater loaded
    conn,     \* the file of each of serve's connections
    hint,     \* maxRFCNumbers: the cached answer, 0 before there is one
    crashes   \* updates killed so far

disk    == <<dir, newLog, file, log>>
updater == <<pc, mine, goal>>
serve   == <<conn, hint>>
vars    == <<latest, disk, updater, serve, crashes>>

Content == [rfc : 0..MaxRFC, whole : BOOLEAN]
Steps == {"idle", "copy", "open", "load", "refresh", "commit", "checkpoint",
          "close", "rename", "ok"}

TypeOK ==
    /\ latest \in 1..MaxRFC
    /\ dir \in [{"db", "new"} -> Inodes \union {NoFile}] /\ dir["db"] # NoFile
    /\ newLog \in Inodes \union {NoFile}
    /\ file \in [Inodes -> Content] /\ log \in [Inodes -> Content]
    /\ pc \in [Updaters -> Steps]
    /\ mine \in [Updaters -> Inodes \union {NoFile}]
    /\ goal \in [Updaters -> 1..MaxRFC]
    /\ conn \in [Conns -> Inodes \union {NoFile}]
    /\ hint \in 0..MaxRFC /\ crashes \in 0..MaxCrash

InUse == {dir["db"], dir["new"], newLog} \union {mine[u] : u \in Updaters}
            \union {conn[c] : c \in Conns}

\* The served database was built before the first update.
Init ==
    /\ latest = 1
    /\ \E i \in Inodes : dir = [db |-> i, new |-> NoFile]
    /\ newLog = NoFile
    /\ file = [i \in Inodes |-> [rfc |-> 1, whole |-> TRUE]] /\ log = file
    /\ pc = [u \in Updaters |-> "idle"] /\ mine = [u \in Updaters |-> NoFile]
    /\ goal = [u \in Updaters |-> 1]
    /\ conn = [c \in Conns |-> NoFile] /\ hint = 0 /\ crashes = 0

Issue == /\ latest < MaxRFC /\ latest' = latest + 1
         /\ UNCHANGED <<disk, updater, serve, crashes>>
-----------------------------------------------------------------------------
(***************************************************************************)
(* cmdUpdate.                                                              *)
(***************************************************************************)
Goto(u, from, to) == pc[u] = from /\ pc' = [pc EXCEPT ![u] = to]

\* The served database removed together with the copy.
RemoveAll == dir' = [p \in {"db", "new"} |-> NoFile] /\ newLog' = NoFile

\* removeWorkingCopy, by name: whoever's files they are.
RemoveWorkingCopy == dir' = [dir EXCEPT !["new"] = NoFile] /\ newLog' = NoFile

RemoveStale(u) ==
    /\ \/ Goto(u, "idle", "copy")
       \/ Goto(u, "ok", "copy")
    /\ RemoveWorkingCopy
    /\ mine' = [mine EXCEPT ![u] = NoFile]
    /\ UNCHANGED <<latest, file, log, goal, serve, crashes>>

\* VacuumInto: a new file with what a reader of <db> sees.
Copy(u) ==
    /\ Goto(u, "copy", "open") /\ dir["new"] = NoFile
    /\ \E i \in Inodes \ InUse :
          /\ dir' = [dir EXCEPT !["new"] = i]
          /\ file' = [file EXCEPT ![i] = file[dir["db"]]]
          /\ log' = [log EXCEPT ![i] = file[dir["db"]]]
    /\ UNCHANGED <<latest, newLog, mine, goal, serve, crashes>>

\* ... which fails when the file exists, or for any other reason.
CopyFails(u) ==
    /\ Goto(u, "copy", "idle")
    /\ UNCHANGED <<latest, disk, mine, goal, serve, crashes>>

\* The update works on the served database itself.
OpenServed(u) ==
    /\ Goto(u, "open", "load")
    /\ mine' = [mine EXCEPT ![u] = dir["db"]] /\ newLog' = NoFile
    /\ UNCHANGED <<latest, dir, file, log, goal, serve, crashes>>

\* OpenReadWrite and InitSchema: if the copy is gone, by another update's
\* removeWorkingCopy, an empty database is created instead.
Open(u) ==
    /\ Goto(u, "open", "load")
    /\ IF dir["new"] # NoFile
       THEN /\ mine' = [mine EXCEPT ![u] = dir["new"]] /\ newLog' = dir["new"]
            /\ UNCHANGED <<dir, file, log>>
       ELSE \E i \in Inodes \ InUse :
              /\ mine' = [mine EXCEPT ![u] = i] /\ newLog' = i
              /\ dir' = [dir EXCEPT !["new"] = i]
              /\ file' = [file EXCEPT ![i] = [rfc |-> 0, whole |-> FALSE]]
              /\ log' = [log EXCEPT ![i] = [rfc |-> 0, whole |-> FALSE]]
    /\ UNCHANGED <<latest, goal, serve, crashes>>

\* The index taken from the cache, as build takes it.
LoadCached(u) ==
    /\ Goto(u, "load", "refresh")
    /\ \E m \in 1..latest : goal' = [goal EXCEPT ![u] = m]
    /\ UNCHANGED <<latest, disk, mine, serve, crashes>>

\* RunUpdate: the live index, the first of its many transactions, the last.
Load(u) ==
    /\ Goto(u, "load", "refresh")
    /\ goal' = [goal EXCEPT ![u] = latest]
    /\ UNCHANGED <<latest, disk, mine, serve, crashes>>

Write(u, whole) ==
    /\ log' = [log EXCEPT ![mine[u]] = [rfc |-> goal[u], whole |-> whole]]
    /\ UNCHANGED <<latest, dir, newLog, file, mine, goal, serve, crashes>>

FirstWrite(u) == Goto(u, "refresh", "commit") /\ Write(u, FALSE)
LastWrite(u) == Goto(u, "commit", "checkpoint") /\ Write(u, TRUE)

\* SQLite moves a grown log into the file by itself (external).
AutoCheckpoint(u) ==
    /\ pc[u] \in {"commit", "checkpoint"} /\ file[mine[u]] # log[mine[u]]
    /\ file' = [file EXCEPT ![mine[u]] = log[mine[u]]]
    /\ UNCHANGED <<latest, dir, newLog, log, updater, serve, crashes>>

\* The checkpoint's "busy" row is not looked at.
CheckpointUnverified(u) ==
    /\ Goto(u, "checkpoint", "close")
    /\ \/ file' = [file EXCEPT ![mine[u]] = log[mine[u]]]
       \/ UNCHANGED file
    /\ UNCHANGED <<latest, dir, newLog, log, mine, goal, serve, crashes>>

\* finalizeWorkingCopy: WALCheckpointTruncate, Close, remove the sidecars.
Checkpoint(u) ==
    /\ Goto(u, "checkpoint", "close")
    /\ file' = [file EXCEPT ![mine[u]] = log[mine[u]]]
    /\ UNCHANGED <<latest, dir, newLog, log, mine, goal, serve, crashes>>

CloseCopy(u) ==
    /\ Goto(u, "close", "rename")
    /\ newLog' = NoFile /\ mine' = [mine EXCEPT ![u] = NoFile]
    /\ UNCHANGED <<latest, dir, file, log, goal, serve, crashes>>

\* os.Rename moves the name; the handles and the log's name stay.
Rename(u) ==
    /\ Goto(u, "rename", "ok") /\ dir["new"] # NoFile
    /\ dir' = [db |-> dir["new"], new |-> NoFile]
    /\ UNCHANGED <<latest, newLog, file, log, mine, goal, serve, crashes>>

\* Any error after the copy: the handle is closed, which may fold the log
\* into the file once more, and the working copy is removed by name.
Abort(u) ==
    /\ pc[u] \in {"open", "load", "refresh", "commit", "checkpoint", "close",
                  "rename"}
    /\ pc' = [pc EXCEPT ![u] = "idle"]
    /\ \/ UNCHANGED file
       \/ /\ mine[u] # NoFile
          /\ file' = [file EXCEPT ![mine[u]] = log[mine[u]]]
    /\ RemoveWorkingCopy
    /\ mine' = [mine EXCEPT ![u] = NoFile]
    /\ UNCHANGED <<latest, log, goal, serve, crashes>>

\* Killed: names, files and the log's transactions stay as they are.
Crash(u) ==
    /\ pc[u] \notin {"idle", "ok"} /\ crashes < MaxCrash
    /\ crashes' = crashes + 1
    /\ pc' = [pc EXCEPT ![u] = "idle"] /\ mine' = [mine EXCEPT ![u] = NoFile]
    /\ UNCHANGED <<latest, disk, goal, serve>>

Update(u) == \/ RemoveStale(u) \/ Copy(u) \/ CopyFails(u) \/ Open(u) \/ Load(u)
             \/ FirstWrite(u) \/ LastWrite(u) \/ AutoCheckpoint(u)
             \/ Checkpoint(u) \/ CloseCopy(u) \/ Rename(u)
             \/ Abort(u) \/ Crash(u)
-----------------------------------------------------------------------------
(***************************************************************************)
(* serve.                                                                  *)
(***************************************************************************)
\* database/sql opens a connection when none is idle, by the name given to
\* db.Open, and closes it again when too many are idle (external).
OpenConn(c) ==
    /\ conn[c] = NoFile
    /\ conn' = [conn EXCEPT ![c] = dir["db"]]
    /\ UNCHANGED <<latest, disk, updater, hint, crashes>>

CloseConn(c) ==
    /\ conn[c] # NoFile
    /\ conn' = [conn EXCEPT ![c] = NoFile]
    /\ UNCHANGED <<latest, disk, updater, hint, crashes>>

\* maxRFCNumber: a first query counts the rows, a second one, which may run
\* on another connection, reads the last of them; the answer is kept.
CacheMax(c, d) ==
    /\ hint = 0 /\ conn[c] # NoFile /\ conn[d] # NoFile
    /\ file[conn[c]].rfc > 0 /\ file[conn[d]].rfc >= file[conn[c]].rfc
    /\ hint' = file[conn[c]].rfc
    /\ UNCHANGED <<latest, disk, updater, conn, crashes>>

Serve == \/ \E c \in Conns : OpenConn(c) \/ CloseConn(c)
         \/ \E c, d \in Conns : CacheMax(c, d)

Next == Issue \/ (\E u \in Updaters : Update(u)) \/ Serve

Spec == Init /\ [][Next]_vars
-----------------------------------------------------------------------------
\* The name of the served database always refers to a whole one: "either the
\* fully-old or fully-new file, never a partial write" (main.go:250-251).
ServedWhole == file[dir["db"]].whole

\* What a connection of serve reads never changes under it: the refresh is
\* confined to a file no reader has open until it is renamed, and nothing is
\* written to that file afterwards (main.go:185-187).
ReadersUndisturbed ==
    [][\A c \in Conns : conn[c] # NoFile /\ conn'[c] = conn[c] =>
           file'[conn[c]] = file[conn[c]]]_vars

\* An update that reports success has put a whole database under the served
\* name, with every RFC of the index it loaded and in the file itself, where
\* a reader that finds no log sees it (main.go:166-182).
SuccessIsVisible ==
    \A u \in Updaters : pc[u] = "ok" =>
        file[dir["db"]].whole /\ file[dir["db"]].rfc >= goal[u]

\* The served database never goes back to an older corpus.
NeverBack == [][file'[dir'["db"]].rfc >= file[dir["db"]].rfc]_vars
=============================================================================
