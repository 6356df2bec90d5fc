-------------------------- MODULE UpdateSwapProofs --------------------------
(***************************************************************************)
(* Proofs about module UpdateSwap: its types for any updates, and, when    *)
(* updates do not overlap, what every run of the model shows of the served *)
(* name, for any number of files, of connections and of kills.             *)
(***************************************************************************)
EXTENDS UpdateSwap, TLAPS

\* An updater with a handle has a file behind it.
HandleOf(u) == pc[u] \in {"load", "refresh", "commit", "checkpoint", "close"} =>
                   mine[u] \in Inodes
TInv == TypeOK /\ \A u \in Updaters : HandleOf(u)

LEMMA InitTyped == Init => TInv
  BY FilesAssumption, BoundsAssumption, SMT DEF Init, TInv, TypeOK, HandleOf, Content, Steps

LEMMA CopyTyped ==
  ASSUME TInv, NEW u \in Updaters, Copy(u)
  PROVE  TInv'
<1>1. PICK i \in Inodes :
        /\ dir' = [dir EXCEPT !["new"] = i]
        /\ file' = [file EXCEPT ![i] = file[dir["db"]]]
        /\ log' = [log EXCEPT ![i] = file[dir["db"]]]
  BY DEF Copy
<1>2. /\ pc' = [pc EXCEPT ![u] = "open"]
      /\ UNCHANGED <<latest, newLog, mine, goal, conn, hint, crashes>>
  BY DEF Copy, Goto, serve
<1>3. file[dir["db"]] \in Content
  BY DEF TInv, TypeOK
<1>4. file' \in [Inodes -> Content] /\ log' \in [Inodes -> Content]
  BY <1>1, <1>3 DEF TInv, TypeOK
<1>5. dir' \in [{"db", "new"} -> Inodes \union {NoFile}] /\ dir'["db"] # NoFile
  BY <1>1 DEF TInv, TypeOK
<1>6. pc' \in [Updaters -> Steps] /\ \A v \in Updaters : HandleOf(v)'
  BY <1>2 DEF TInv, TypeOK, HandleOf, Steps
<1>7. QED
  BY <1>2, <1>4, <1>5, <1>6 DEF TInv, TypeOK

LEMMA OpenTyped ==
  ASSUME TInv, NEW u \in Updaters, Open(u)
  PROVE  TInv'
<1>1. PICK i \in Inodes :
        /\ mine' = [mine EXCEPT ![u] = i] /\ newLog' = i
        /\ \/ UNCHANGED <<dir, file, log>>
           \/ /\ dir' = [dir EXCEPT !["new"] = i]
              /\ file' = [file EXCEPT ![i] = [rfc |-> 0, whole |-> FALSE]]
              /\ log' = [log EXCEPT ![i] = [rfc |-> 0, whole |-> FALSE]]
  BY SMT DEF Open, TInv, TypeOK
<1>2. /\ pc' = [pc EXCEPT ![u] = "load"]
      /\ UNCHANGED <<latest, goal, conn, hint, crashes>>
  BY DEF Open, Goto, serve
<1>3. [rfc |-> 0, whole |-> FALSE] \in Content
  BY BoundsAssumption DEF Content
<1>4. file' \in [Inodes -> Content] /\ log' \in [Inodes -> Content]
  <2>1. CASE UNCHANGED <<dir, file, log>>
    BY <2>1 DEF TInv, TypeOK
  <2>2. CASE /\ file' = [file EXCEPT ![i] = [rfc |-> 0, whole |-> FALSE]]
             /\ log' = [log EXCEPT ![i] = [rfc |-> 0, whole |-> FALSE]]
    BY <2>2, <1>3, Zenon DEF TInv, TypeOK
  <2>3. QED
    BY <1>1, <2>1, <2>2
<1>5. dir' \in [{"db", "new"} -> Inodes \union {NoFile}] /\ dir'["db"] # NoFile
  BY <1>1 DEF TInv, TypeOK
<1>6. /\ pc' \in [Updaters -> Steps] /\ mine' \in [Updaters -> Inodes \union {NoFile}]
      /\ \A v \in Updaters : HandleOf(v)'
  BY <1>1, <1>2 DEF TInv, TypeOK, HandleOf, Steps
<1>7. QED
  BY <1>1, <1>2, <1>4, <1>5, <1>6 DEF TInv, TypeOK

LEMMA UpdateTyped ==
  ASSUME TInv, NEW u \in Updaters, Update(u)
  PROVE  TInv'
<1> USE FilesAssumption, BoundsAssumption
    DEF TInv, TypeOK, HandleOf, Content, Steps, Goto, serve
<1>1. CASE RemoveStale(u)
  BY <1>1 DEF RemoveStale, RemoveWorkingCopy
<1>2. CASE Copy(u)
  BY <1>2, CopyTyped
<1>3. CASE CopyFails(u)
  BY <1>3 DEF CopyFails, disk
<1>4. CASE Open(u)
  BY <1>4, OpenTyped
<1>5. CASE Load(u)
  BY <1>5 DEF Load, disk
<1>6. CASE FirstWrite(u)
  BY <1>6 DEF FirstWrite, Write
<1>7. CASE LastWrite(u)
  BY <1>7 DEF LastWrite, Write
<1>8. CASE AutoCheckpoint(u)
  BY <1>8 DEF AutoCheckpoint, updater
<1>9. CASE Checkpoint(u)
  BY <1>9 DEF Checkpoint
<1>10. CASE CloseCopy(u)
  BY <1>10 DEF CloseCopy
<1>11. CASE Rename(u)
  BY <1>11 DEF Rename
<1>12. CASE Abort(u)
  BY <1>12 DEF Abort, RemoveWorkingCopy
<1>13. CASE Crash(u)
  BY <1>13 DEF Crash, disk
<1>14. QED
  BY <1>1, <1>2, <1>3, <1>4, <1>5, <1>6, <1>7, <1>8, <1>9, <1>10, <1>11, <1>12, <1>13
     DEF Update

LEMMA OthersTyped ==
  ASSUME TInv, Issue \/ Serve \/ UNCHANGED vars
  PROVE  TInv'
<1> USE FilesAssumption, BoundsAssumption DEF TInv, TypeOK, HandleOf, serve
<1>1. CASE Issue
  BY <1>1 DEF Issue, disk, updater, serve
<1>2. ASSUME NEW c \in Conns, OpenConn(c) \/ CloseConn(c)
      PROVE  TInv'
  BY <1>2 DEF OpenConn, CloseConn, disk, updater
<1>3. ASSUME NEW c \in Conns, NEW d \in Conns, CacheMax(c, d)
      PROVE  TInv'
  BY <1>3 DEF CacheMax, disk, updater, Content
<1>4. CASE UNCHANGED vars
  BY <1>4 DEF vars, disk, updater, serve
<1>5. QED
  BY <1>1, <1>2, <1>3, <1>4 DEF Serve

\* The state of every run is well-typed, however many updates overlap.
THEOREM TypeCorrect == Spec => []TypeOK
<1>1. TInv /\ [Next]_vars => TInv'
  BY UpdateTyped, OthersTyped DEF Next
<1>2. TInv => TypeOK
  BY DEF TInv
<1>3. QED
  BY InitTyped, <1>1, <1>2, PTL DEF Spec

-----------------------------------------------------------------------------
(***************************************************************************)
(* One update at a time.  Two of them break what follows, as the run with  *)
(* two updaters shows.                                                     *)
(***************************************************************************)
OneUpdater == \A u, v \in Updaters : u = v

\* The working copy is neither the served file nor open in a connection.
CopyApart ==
    dir["new"] # NoFile =>
        dir["new"] # dir["db"] /\ \A c \in Conns : conn[c] # dir["new"]

\* The served file is whole and has nothing that was not yet issued.
ServedIsPast == file[dir["db"]].whole /\ file[dir["db"]].rfc <= latest

\* What the position of an update says of the working copy: the handle is the
\* copy's while it is open; the copy is there until it is renamed; the index
\* loaded is no older than the served file; after the last write the log, and
\* after the checkpoint the file, holds all of it.
CopyOf(u) ==
    /\ mine[u] = IF pc[u] \in {"load", "refresh", "commit", "checkpoint", "close"}
                 THEN dir["new"] ELSE NoFile
    /\ pc[u] \in {"open", "load", "refresh", "commit", "checkpoint", "close", "rename"} =>
          dir["new"] # NoFile
    /\ goal[u] <= latest
    /\ pc[u] \in {"refresh", "commit", "checkpoint", "close", "rename"} =>
          file[dir["db"]].rfc <= goal[u]
    /\ pc[u] = "checkpoint" => log[dir["new"]] = [rfc |-> goal[u], whole |-> TRUE]
    /\ pc[u] \in {"close", "rename"} => file[dir["new"]] = [rfc |-> goal[u], whole |-> TRUE]
    /\ pc[u] = "ok" => file[dir["db"]].rfc >= goal[u]

SInv == TInv /\ CopyApart /\ ServedIsPast /\ \A u \in Updaters : CopyOf(u)

\* What one step may do to those who read.
Undisturbed ==
    \A c \in Conns : conn[c] # NoFile /\ conn'[c] = conn[c] =>
        file'[conn[c]] = file[conn[c]]
Forward == file'[dir'["db"]].rfc >= file[dir["db"]].rfc
SafeStep == CopyApart' /\ ServedIsPast' /\ (\A u \in Updaters : CopyOf(u)')
                /\ Undisturbed /\ Forward

LEMMA InitInv == Init => SInv
<1> SUFFICES ASSUME Init PROVE SInv
  OBVIOUS
<1>1. TInv
  BY InitTyped
<1>2. QED
  BY <1>1, FilesAssumption DEF Init, SInv, CopyApart, ServedIsPast, CopyOf, TInv, TypeOK

LEMMA UpdateSafe ==
  ASSUME OneUpdater, SInv, NEW u \in Updaters, Update(u)
  PROVE  SafeStep
<1> USE DEF Goto, serve
<1>0. /\ TypeOK /\ CopyApart /\ ServedIsPast /\ CopyOf(u)
      /\ \A v \in Updaters : v = u
  BY DEF SInv, TInv, OneUpdater
<1>1. CASE RemoveStale(u)
  BY <1>0, <1>1 DEF RemoveStale, RemoveWorkingCopy, TypeOK,
       SafeStep, CopyApart, ServedIsPast, CopyOf, Undisturbed, Forward, Content
<1>2. CASE Copy(u)
  <2>1. PICK i \in Inodes :
          /\ i \notin InUse
          /\ dir' = [dir EXCEPT !["new"] = i]
          /\ file' = [file EXCEPT ![i] = file[dir["db"]]]
    BY <1>2 DEF Copy
  <2>2. UNCHANGED <<latest, mine, goal, conn>>
    BY <1>2 DEF Copy
  <2>3. pc[u] = "copy" /\ pc'[u] = "open"
    BY <1>0, <1>2 DEF Copy, TypeOK
  <2>4. i # dir["db"] /\ \A c \in Conns : conn[c] # i
    BY <2>1 DEF InUse
  <2>5. dir'["db"] = dir["db"] /\ dir'["new"] = i
    BY <1>0, <2>1 DEF TypeOK
  <2>6. \A j \in Inodes : j # i => file'[j] = file[j]
    BY <1>0, <2>1, Zenon DEF TypeOK
  <2>7. QED
    BY <1>0, <2>2, <2>3, <2>4, <2>5, <2>6, FilesAssumption DEF TypeOK, Content,
       SafeStep, CopyApart, ServedIsPast, CopyOf, Undisturbed, Forward
<1>3. CASE CopyFails(u)
  BY <1>0, <1>3 DEF CopyFails, disk, TypeOK,
       SafeStep, CopyApart, ServedIsPast, CopyOf, Undisturbed, Forward, Content
<1>4. CASE Open(u)
  <2>1. pc[u] = "open" /\ pc'[u] = "load"
    BY <1>0, <1>4 DEF Open, TypeOK
  <2>2. dir["new"] # NoFile
    BY <1>0, <2>1 DEF CopyOf
  <2>3. mine' = [mine EXCEPT ![u] = dir["new"]]
        /\ UNCHANGED <<latest, dir, file, log, goal, conn>>
    BY <1>4, <2>2 DEF Open
  <2>4. QED
    BY <1>0, <2>1, <2>2, <2>3 DEF TypeOK, Content,
       SafeStep, CopyApart, ServedIsPast, CopyOf, Undisturbed, Forward
<1>5. CASE Load(u)
  BY <1>0, <1>5 DEF Load, disk, TypeOK,
       SafeStep, CopyApart, ServedIsPast, CopyOf, Undisturbed, Forward, Content
<1>6. CASE FirstWrite(u)
  <2>1. UNCHANGED <<latest, dir, file, mine, goal, conn>>
    BY <1>6 DEF FirstWrite, Write
  <2>2. pc[u] = "refresh" /\ pc'[u] = "commit"
    BY <1>0, <1>6 DEF FirstWrite, TypeOK
  <2>3. QED
    BY <1>0, <2>1, <2>2 DEF TypeOK, Content,
       SafeStep, CopyApart, ServedIsPast, CopyOf, Undisturbed, Forward
<1>7. CASE LastWrite(u)
  <2>1. UNCHANGED <<latest, dir, file, mine, goal, conn>>
    BY <1>7 DEF LastWrite, Write
  <2>2. pc[u] = "commit" /\ pc'[u] = "checkpoint"
    BY <1>0, <1>7 DEF LastWrite, TypeOK
  <2>3. mine[u] = dir["new"] /\ mine[u] \in Inodes
    BY <1>0, <2>2 DEF TypeOK, CopyOf
  <2>4. log'[dir["new"]] = [rfc |-> goal[u], whole |-> TRUE]
    BY <1>0, <1>7, <2>3, Zenon DEF LastWrite, Write, TypeOK
  <2>5. CopyOf(u)'
    BY <1>0, <2>1, <2>2, <2>4 DEF CopyOf
  <2>6. CopyApart' /\ ServedIsPast' /\ Undisturbed /\ Forward
    BY <1>0, <2>1 DEF TypeOK, Content, CopyApart, ServedIsPast, Undisturbed, Forward
  <2>7. QED
    BY <1>0, <2>5, <2>6 DEF SafeStep
<1>8. CASE AutoCheckpoint(u)
  <2>1. /\ UNCHANGED <<latest, dir, log, pc, mine, goal, conn>>
        /\ pc[u] \in {"commit", "checkpoint"}
        /\ file' = [file EXCEPT ![mine[u]] = log[mine[u]]]
    BY <1>8 DEF AutoCheckpoint, updater
  <2>2. mine[u] = dir["new"] /\ mine[u] \in Inodes
    BY <1>0, <2>1 DEF TypeOK, CopyOf
  <2>3. \A i \in Inodes : i # mine[u] => file'[i] = file[i]
    BY <1>0, <2>1, Zenon DEF TypeOK
  <2>4. dir["db"] \in Inodes /\ dir["db"] # mine[u]
        /\ \A c \in Conns : conn[c] # mine[u]
    BY <1>0, <2>2, FilesAssumption DEF TypeOK, CopyApart
  <2>5. CopyApart' /\ ServedIsPast' /\ Undisturbed /\ Forward
    BY <1>0, <2>1, <2>3, <2>4 DEF TypeOK, Content, CopyApart, ServedIsPast, Undisturbed, Forward
  <2>6. CopyOf(u)'
    BY <1>0, <2>1, <2>3, <2>4 DEF CopyOf
  <2>7. QED
    BY <1>0, <2>5, <2>6 DEF SafeStep
<1>9. CASE Checkpoint(u)
  <2>1. /\ UNCHANGED <<latest, dir, mine, goal, conn>>
        /\ file' = [file EXCEPT ![mine[u]] = log[mine[u]]]
    BY <1>9 DEF Checkpoint
  <2>2. pc[u] = "checkpoint" /\ pc'[u] = "close"
    BY <1>0, <1>9 DEF Checkpoint, TypeOK
  <2>3. mine[u] = dir["new"] /\ mine[u] \in Inodes
    BY <1>0, <2>2 DEF TypeOK, CopyOf
  <2>4. /\ \A i \in Inodes : i # mine[u] => file'[i] = file[i]
        /\ file'[mine[u]] = log[mine[u]]
    BY <1>0, <2>1, <2>3, Zenon DEF TypeOK
  <2>5. QED
    BY <1>0, <2>1, <2>2, <2>3, <2>4 DEF TypeOK, Content,
       SafeStep, CopyApart, ServedIsPast, CopyOf, Undisturbed, Forward
<1>10. CASE CloseCopy(u)
  <2>1. UNCHANGED <<latest, dir, file, goal, conn>> /\ mine'[u] = NoFile
    BY <1>0, <1>10 DEF CloseCopy, TypeOK
  <2>2. pc[u] = "close" /\ pc'[u] = "rename"
    BY <1>0, <1>10 DEF CloseCopy, TypeOK
  <2>3. CopyOf(u)'
    BY <1>0, <2>1, <2>2 DEF CopyOf
  <2>4. CopyApart' /\ ServedIsPast' /\ Undisturbed /\ Forward
    BY <1>0, <2>1 DEF TypeOK, Content, CopyApart, ServedIsPast, Undisturbed, Forward
  <2>5. QED
    BY <1>0, <2>3, <2>4 DEF SafeStep
<1>11. CASE Rename(u)
  BY <1>0, <1>11 DEF Rename, TypeOK,
       SafeStep, CopyApart, ServedIsPast, CopyOf, Undisturbed, Forward, Content
<1>12. CASE Abort(u)
  BY <1>0, <1>12 DEF Abort, RemoveWorkingCopy, TypeOK,
       SafeStep, CopyApart, ServedIsPast, CopyOf, Undisturbed, Forward, Content
<1>13. CASE Crash(u)
  BY <1>0, <1>13 DEF Crash, disk, TypeOK,
       SafeStep, CopyApart, ServedIsPast, CopyOf, Undisturbed, Forward, Content
<1>14. QED
  BY <1>1, <1>2, <1>3, <1>4, <1>5, <1>6, <1>7, <1>8, <1>9, <1>10, <1>11, <1>12, <1>13
     DEF Update

LEMMA OthersSafe ==
  ASSUME OneUpdater, SInv, Issue \/ Serve \/ UNCHANGED vars
  PROVE  SafeStep
<1>0. /\ TypeOK /\ CopyApart /\ ServedIsPast /\ \A v \in Updaters : CopyOf(v)
  BY DEF SInv, TInv
<1>1. CASE Issue
  BY <1>0, <1>1 DEF Issue, disk, updater, serve, TypeOK, Content,
     SafeStep, CopyApart, ServedIsPast, CopyOf, Undisturbed, Forward
<1>2. ASSUME NEW c \in Conns, OpenConn(c) \/ CloseConn(c)
      PROVE  SafeStep
  BY <1>0, <1>2 DEF OpenConn, CloseConn, disk, updater, TypeOK, Content,
     SafeStep, CopyApart, ServedIsPast, CopyOf, Undisturbed, Forward
<1>3. ASSUME NEW c \in Conns, NEW d \in Conns, CacheMax(c, d)
      PROVE  SafeStep
  BY <1>0, <1>3 DEF CacheMax, disk, updater, TypeOK, Content,
     SafeStep, CopyApart, ServedIsPast, CopyOf, Undisturbed, Forward
<1>4. CASE UNCHANGED vars
  BY <1>0, <1>4 DEF vars, disk, updater, serve, TypeOK, Content,
     SafeStep, CopyApart, ServedIsPast, CopyOf, Undisturbed, Forward
<1>5. QED
  BY <1>1, <1>2, <1>3, <1>4 DEF Serve

\* Every step keeps the invariant and is safe for those who read.
LEMMA StepSafe ==
  ASSUME OneUpdater, SInv, [Next]_vars
  PROVE  SInv' /\ SafeStep
<1>1. TInv'
  BY UpdateTyped, OthersTyped DEF Next, SInv
<1>2. SafeStep
  BY UpdateSafe, OthersSafe DEF Next
<1>3. QED
  BY <1>1, <1>2 DEF SInv, SafeStep

THEOREM Invariance == OneUpdater /\ Spec => []SInv
<1>1. OneUpdater /\ SInv /\ [Next]_vars => SInv'
  BY StepSafe
<1>2. SUFFICES ASSUME OneUpdater PROVE Spec => []SInv
  OBVIOUS
<1>3. SInv /\ [Next]_vars => SInv'
  BY <1>1, <1>2
<1>4. QED
  BY InitInv, <1>3, PTL DEF Spec

\* The served name refers to a whole database, whatever update is killed or
\* fails wherever (main.go:250-251).
THEOREM ServedIsWhole == OneUpdater /\ Spec => []ServedWhole
<1>1. SInv => ServedWhole
  BY DEF SInv, ServedIsPast, ServedWhole
<1>2. QED
  BY Invariance, <1>1, PTL

\* An update that reports success has put everything into the file itself
\* (main.go:166-182).
THEOREM SuccessShows == OneUpdater /\ Spec => []SuccessIsVisible
<1>1. SInv => SuccessIsVisible
  BY DEF SInv, ServedIsPast, CopyOf, SuccessIsVisible
<1>2. QED
  BY Invariance, <1>1, PTL

\* What an open connection reads does not change (main.go:185-187).
THEOREM ReadersAreLeftAlone == OneUpdater /\ Spec => ReadersUndisturbed
<1>1. SUFFICES ASSUME OneUpdater PROVE Spec => ReadersUndisturbed
  OBVIOUS
<1>2. SInv /\ [Next]_vars =>
        [\A c \in Conns : conn[c] # NoFile /\ conn'[c] = conn[c] =>
             file'[conn[c]] = file[conn[c]]]_vars
  BY <1>1, StepSafe DEF SafeStep, Undisturbed
<1>3. Spec => []SInv
  BY <1>1, Invariance
<1>4. QED
  BY <1>2, <1>3, PTL DEF Spec, ReadersUndisturbed

\* No step makes the served database older (main.go:185-187, 252).
THEOREM OnlyForward == OneUpdater /\ Spec => NeverBack
<1>1. SUFFICES ASSUME OneUpdater PROVE Spec => NeverBack
  OBVIOUS
<1>2. SInv /\ [Next]_vars => [file'[dir'["db"]].rfc >= file[dir["db"]].rfc]_vars
  BY <1>1, StepSafe DEF SafeStep, Forward
<1>3. Spec => []SInv
  BY <1>1, Invariance
<1>4. QED
  BY <1>2, <1>3, PTL DEF Spec, NeverBack

=============================================================================
