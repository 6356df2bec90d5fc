-------------------------- MODULE IngestFilesProofs --------------------------
(***************************************************************************)
(* Proofs about module IngestFiles: what the commands read from the files  *)
(* they share and what an import stores, for any RFCs and files, any       *)
(* number of goroutines, and any wrong answers, failed writes, signals and *)
(* other processes.                                                        *)
(***************************************************************************)
EXTENDS IngestFiles, TLAPS

TaskRecord == [at : TaskStages, attempt : 0..Attempts - 1,
               body : {Nothing, Zero, Partial, Whole}, row : {"none", "index", "made"}]
RunRecord == [cmd : Commands \union {"none"}, at : Stages,
              data : Indexes \union {Nothing, Partial}, stamp : Ages,
              age : Ages, attempt : 0..Attempts - 1, floor : Versions, cut : BOOLEAN]
DocRecord == [row : {"none", "index", "made"}, sections : Sources, references : Sources]

(***************************************************************************)
(* Which stage belongs to which command, and who has goroutines.           *)
(***************************************************************************)
Importing == {"open", "row", "insert", "refs"}
StageInv ==
    /\ run.at \in Ended => run.cmd = "none"
    /\ run.at # "pool" => task = [f \in Names |-> NoTask]
    /\ run.cmd = "import" => run.at \in {"list", "pool"} /\ ~run.cut
    /\ \A f \in Names :
          /\ task[f].at \in Importing => run.cmd = "import"
          /\ run.cmd = "import" =>
                task[f].at \in Importing \union {"none", "queued", "done", "failed"}

\* The file of an import's goroutine is there, and what it read is its text.
TextInv ==
    \A f \in Names :
        /\ run.cmd = "import" /\ task[f].at # "none" => raw[f] # Nothing
        /\ task[f].at \in {"row", "insert", "refs"} \/ (run.cmd = "import" /\ task[f].at = "done")
              => task[f].body \in {Zero, Whole} /\ About(f) \in RFCs
        /\ task[f].at \in {"save", "rename"} => task[f].body \in {Zero, Whole}

Sane == TypeOK /\ NothingPartial /\ StageInv /\ TextInv

\* The actions by what they touch.
IndexStep == Stat \/ Read \/ Answer \/ Retry \/ CreateTemp \/ Rename \/ SaveFails
OtherStep == Publish \/ Outage \/ Tick \/ OtherProcess \/ Interrupt
FinalStep == Kill \/ LoadFails \/ Join \/ (ParseIndex /\ run'.at # "pool")
                \/ (ListDir /\ run'.at # "pool")
QueueStep == (ParseIndex \/ ListDir) /\ run'.at = "pool"

LEMMA NextParts ==
  Next <=> \/ OtherStep \/ FinalStep \/ QueueStep \/ IndexStep
           \/ \E c \in Commands : Start(c)
           \/ \E f \in Names : Goroutine(f)
  BY DEF Next, OtherStep, FinalStep, QueueStep, IndexStep, Work, LoadIndex

LEMMA AboutTyped == \A f \in Names : About(f) \in RFCs \union {NoNumber}
  BY FilesAssumption DEF About, Names

LEMMA InitSane == Init => Sane
<1> USE FilesAssumption, BoundsAssumption, ContentsAssumption DEF Init
<1>1. Init => TypeOK
  BY DEF TypeOK, Idle, NoTask, NewStore, Doc, NoSource, Sources, Ages, Versions, Stages,
         TaskStages, Attempts, Names
<1>2. Init => NothingPartial
  BY DEF NothingPartial, Idle, NoTask, Names
<1>3. Init => StageInv /\ TextInv
  BY DEF StageInv, TextInv, Idle, NoTask, Importing, Ended
<1>4. QED
  BY <1>1, <1>2, <1>3 DEF Sane

LEMMA IdleTyped == Idle \in RunRecord
  BY BoundsAssumption DEF Idle, RunRecord, Stages, Ages, Attempts, Versions

\* A command ends, however it does.
LEMMA FinalFrame ==
  ASSUME FinalStep
  PROVE  \E r \in {"idle", "done", "failed"} :
           /\ run' = [Idle EXCEPT !.at = r]
           /\ task' = [f \in Names |-> NoTask]
           /\ store' = IF run.cmd = "import" THEN NewStore ELSE store
           /\ UNCHANGED <<world, cache, raw>>
           /\ faults' = faults \/ (faults < MaxFaults /\ faults' = faults + 1)
<1>1. CASE Kill
  BY <1>1 DEF Kill, Fault, End
<1>2. CASE LoadFails
  BY <1>2 DEF LoadFails, End
<1>3. CASE Join
  BY <1>3 DEF Join, End
<1>4. \A files : Queue(files) => run'.at = "pool"
  BY DEF Queue, Idle
<1>5. CASE ParseIndex /\ run'.at # "pool"
  <2>1. (End("failed") \/ End("done")) /\ UNCHANGED faults
    BY <1>4, <1>5 DEF ParseIndex
  <2>2. QED
    BY <2>1 DEF End
<1>6. CASE ListDir /\ run'.at # "pool"
  <2>1. End("failed") /\ (Fault \/ UNCHANGED faults)
    BY <1>4, <1>6 DEF ListDir
  <2>2. QED
    BY <2>1 DEF End, Fault
<1>7. QED
  BY <1>1, <1>2, <1>3, <1>5, <1>6 DEF FinalStep

LEMMA FinalSane ==
  ASSUME Sane, FinalStep
  PROVE  Sane'
<1> USE FilesAssumption, BoundsAssumption, ContentsAssumption
<1>1. PICK r \in {"idle", "done", "failed"} :
        /\ run' = [Idle EXCEPT !.at = r]
        /\ task' = [f \in Names |-> NoTask]
        /\ store' = IF run.cmd = "import" THEN NewStore ELSE store
        /\ UNCHANGED <<world, cache, raw>>
        /\ faults' = faults \/ (faults < MaxFaults /\ faults' = faults + 1)
  BY FinalFrame
<1>2. run' \in RunRecord
  BY <1>1, IdleTyped DEF RunRecord, Stages
<1>3. NoTask \in TaskRecord
  BY DEF NoTask, TaskRecord, TaskStages, Attempts
<1>4. NewStore \in [RFCs -> DocRecord]
  BY DEF NewStore, Doc, DocRecord, Sources
<1>5. TypeOK'
  BY <1>1, <1>2, <1>3, <1>4 DEF Sane, TypeOK, world, RunRecord, TaskRecord, DocRecord
<1>6. NothingPartial'
  BY <1>1 DEF Sane, NothingPartial, Idle, NoTask
<1>7. StageInv' /\ TextInv'
  BY <1>1 DEF StageInv, TextInv, Idle, NoTask, Importing, Ended
<1>8. QED
  BY <1>5, <1>6, <1>7 DEF Sane

LEMMA OtherSane ==
  ASSUME Sane, OtherStep
  PROVE  Sane'
<1> USE FilesAssumption, BoundsAssumption, ContentsAssumption DEF Sane
<1>1. CASE Publish
  BY <1>1 DEF Publish, TypeOK, NothingPartial, StageInv, TextInv
<1>2. CASE Outage
  BY <1>2 DEF Outage, TypeOK, NothingPartial, StageInv, TextInv
<1>3. CASE Tick
  <2>0. \A x \in Ages : Aged(x) \in Ages
    BY DEF Aged, Ages
  <2>1. TypeOK'
    <3>1. cache' \in [data : Indexes \union {Nothing, Partial}, age : Ages]
      BY <1>3, <2>0 DEF Tick, TypeOK
    <3>2. run' \in RunRecord
      BY <1>3, <2>0 DEF Tick, TypeOK, RunRecord
    <3>3. QED
      BY <1>3, <3>1, <3>2 DEF Tick, TypeOK, world, RunRecord
  <2>2. NothingPartial' /\ StageInv' /\ TextInv'
    BY <1>3 DEF Tick, TypeOK, NothingPartial, StageInv, TextInv
  <2>3. QED
    BY <2>1, <2>2
<1>4. CASE OtherProcess
  <2>1. \A d \in Answers : d \in Indexes /\ d # Partial
    BY DEF Answers, Indexes, Versions, TypeOK
  <2>2. TypeOK'
    BY <1>4, <2>1 DEF OtherProcess, TypeOK, world, Ages
  <2>3. NothingPartial' /\ StageInv' /\ TextInv'
    BY <1>4, <2>1 DEF OtherProcess, TypeOK, NothingPartial, StageInv, TextInv
  <2>4. QED
    BY <2>2, <2>3
<1>5. CASE Interrupt
  <2>1. run' \in RunRecord
    BY <1>5 DEF Interrupt, TypeOK, RunRecord
  <2>2. TypeOK'
    BY <1>5, <2>1 DEF Interrupt, Fault, TypeOK, world, RunRecord
  <2>3. NothingPartial' /\ StageInv' /\ TextInv'
    BY <1>5 DEF Interrupt, TypeOK, NothingPartial, StageInv, TextInv
  <2>4. QED
    BY <2>2, <2>3
<1>6. QED
  BY <1>1, <1>2, <1>3, <1>4, <1>5 DEF OtherStep

\* A command begins.
LEMMA StartSane ==
  ASSUME Sane, NEW c \in Commands, Start(c)
  PROVE  Sane'
<1> USE FilesAssumption, BoundsAssumption, ContentsAssumption DEF Sane
<1>1. PICK floor \in Versions, stage \in {"get", "list", "stat"} :
        /\ run' = [Idle EXCEPT !.cmd = c, !.floor = floor, !.at = stage]
        /\ c = "import" => stage = "list"
  <2>1. site \in Versions /\ 0 \in Versions
    BY DEF TypeOK, Versions
  <2>2. QED
    BY <2>1 DEF Start
<1>2. run' \in RunRecord
  BY <1>1, IdleTyped DEF RunRecord, Stages
<1>3. \A n \in RFCs : NewStore[n] \in DocRecord /\ OldStore[n] \in DocRecord
  BY DEF NewStore, OldStore, Doc, DocRecord, Sources
<1>4. store' \in [RFCs -> DocRecord]
  BY <1>3, Zenon DEF Start, TypeOK, NewStore, OldStore, DocRecord
<1>5. TypeOK'
  BY <1>2, <1>4 DEF Start, TypeOK, world, RunRecord, DocRecord
<1>6. NothingPartial'
  BY <1>1 DEF Start, NothingPartial, Idle
<1>7. StageInv' /\ TextInv'
  BY <1>1 DEF Start, StageInv, TextInv, Idle, NoTask, Importing, Ended
<1>8. QED
  BY <1>5, <1>6, <1>7

\* The goroutines are set up.
LEMMA QueueSane ==
  ASSUME Sane, QueueStep
  PROVE  Sane'
<1> USE FilesAssumption, BoundsAssumption, ContentsAssumption DEF Sane
<1>1. PICK files :
        /\ Queue(files) /\ UNCHANGED faults
        /\ run.cmd = "import" => \A f \in files : raw[f] # Nothing
  <2>1. \A r : End(r) => run'.at # "pool" \/ r = "pool"
    BY DEF End, Idle
  <2>2. CASE ParseIndex
    BY <2>1, <2>2 DEF QueueStep, ParseIndex, At, StageInv
  <2>3. CASE ListDir
    BY <2>1, <2>3 DEF QueueStep, ListDir, At, StageInv
  <2>4. QED
    BY <2>2, <2>3 DEF QueueStep
<1>2. run' = [Idle EXCEPT !.cmd = run.cmd, !.at = "pool", !.cut = run.cut]
  BY <1>1 DEF Queue
<1>3. task' = [f \in Names |-> IF f \in files THEN [NoTask EXCEPT !.at = "queued"] ELSE NoTask]
  BY <1>1 DEF Queue
<1>4. UNCHANGED <<site, outages, cache, raw, store>>
  BY <1>1 DEF Queue, world
<1>5. run' \in RunRecord
  BY <1>2, IdleTyped DEF RunRecord, Stages, TypeOK
<1>6. task' \in [Names -> TaskRecord]
  <2>1. NoTask \in TaskRecord /\ [NoTask EXCEPT !.at = "queued"] \in TaskRecord
    BY DEF NoTask, TaskRecord, TaskStages, Attempts
  <2>2. QED
    BY <1>3, <2>1
<1>7. TypeOK'
  BY <1>1, <1>4, <1>5, <1>6 DEF TypeOK, RunRecord, TaskRecord
<1>8. NothingPartial'
  BY <1>2, <1>3, <1>4 DEF NothingPartial, Idle, NoTask
<1>9. StageInv' /\ TextInv'
  BY <1>1, <1>2, <1>3, <1>4 DEF StageInv, TextInv, Idle, NoTask, Importing, Ended
<1>10. QED
  BY <1>7, <1>8, <1>9

\* Loading the index.
IndexFrame ==
    /\ run' \in RunRecord /\ run'.cmd = run.cmd /\ run'.cut = run.cut
    /\ run.at \notin Ended \union {"list", "pool"}
    /\ run'.at \notin Ended \union {"list", "pool"} /\ run'.data # Partial
    /\ cache' \in [data : Indexes \union {Nothing}, age : Ages]
    /\ faults' \in 0..MaxFaults
    /\ UNCHANGED <<raw, store, task, site, outages>>

LEMMA IndexFramed ==
  ASSUME Sane, IndexStep
  PROVE  IndexFrame
<1> USE FilesAssumption, BoundsAssumption, ContentsAssumption DEF Sane, At, OnlyRun, world
<1>0. /\ run \in RunRecord /\ run.data # Partial /\ faults \in 0..MaxFaults
      /\ cache \in [data : Indexes \union {Nothing}, age : Ages]
  BY DEF TypeOK, NothingPartial, RunRecord
<1>1. 0 \in Ages /\ 0 \in 0..Attempts - 1
  BY DEF Ages, Attempts
<1>2. {"get", "read", "save", "rename", "parse"} \subseteq Stages
  BY DEF Stages
<1>3. CASE Stat
  <2>1. run' \in RunRecord
    BY <1>0, <1>3 DEF Stat, RunRecord, Stages
  <2>2. run'.cmd = run.cmd /\ run'.cut = run.cut /\ run'.data = run.data
        /\ run.at = "stat" /\ run'.at \in {"get", "read"}
    BY <1>0, <1>3 DEF Stat, RunRecord
  <2>3. QED
    BY <1>0, <1>3, <2>1, <2>2 DEF Stat, IndexFrame, Ended
<1>4. CASE Read
  <2>1. run' \in RunRecord
    <3>1. CASE cache.data = Zero
      BY <1>0, <1>1, <1>2, <1>4, <3>1 DEF Read, RunRecord
    <3>2. CASE cache.data # Zero
      BY <1>0, <1>1, <1>2, <1>4, <3>2 DEF Read, RunRecord
    <3>3. QED
      BY <3>1, <3>2
  <2>2. run'.cmd = run.cmd /\ run'.cut = run.cut /\ run'.data \in {run.data, cache.data}
        /\ run.at = "read" /\ run'.at \in {"get", "parse"}
    BY <1>0, <1>4 DEF Read, RunRecord
  <2>3. cache.data # Partial
    BY DEF NothingPartial
  <2>4. QED
    BY <1>0, <1>4, <2>1, <2>2, <2>3 DEF Read, IndexFrame, Ended
<1>5. CASE Answer
  <2>1. PICK d \in Answers : run' = [run EXCEPT !.at = "save", !.data = d, !.age = 0,
                                               !.stamp = 0, !.attempt = 0]
    BY <1>5 DEF Answer
  <2>2. d \in Indexes /\ d # Partial
    BY DEF Answers, Indexes, Versions, TypeOK
  <2>3. run' \in RunRecord
    BY <1>0, <1>1, <1>2, <2>1, <2>2 DEF RunRecord
  <2>4. run'.cmd = run.cmd /\ run'.cut = run.cut /\ run'.data = d /\ run'.at = "save"
    BY <1>0, <2>1 DEF RunRecord
  <2>5. QED
    BY <1>0, <1>5, <2>2, <2>3, <2>4 DEF Answer, IndexFrame, Ended
<1>6. CASE Retry
  <2>1. run' \in RunRecord
    BY <1>0, <1>6 DEF Retry, RunRecord, Attempts
  <2>2. run'.cmd = run.cmd /\ run'.cut = run.cut /\ run'.data = run.data
        /\ run.at = "get" /\ run'.at = "get"
    BY <1>0, <1>6 DEF Retry, RunRecord
  <2>3. QED
    BY <1>0, <1>6, <2>1, <2>2 DEF Retry, IndexFrame, Ended
<1>7. CASE CreateTemp
  <2>1. run' \in RunRecord
    BY <1>0, <1>7 DEF CreateTemp, RunRecord, Stages
  <2>2. run'.cmd = run.cmd /\ run'.cut = run.cut /\ run'.data = run.data
        /\ run.at = "save" /\ run'.at = "rename"
    BY <1>0, <1>7 DEF CreateTemp, RunRecord
  <2>3. QED
    BY <1>0, <1>7, <2>1, <2>2 DEF CreateTemp, IndexFrame, Ended
<1>8. ASSUME Saved, run.at \in {"save", "rename"}
      PROVE  /\ run' \in RunRecord
             /\ run'.cmd = run.cmd /\ run'.cut = run.cut /\ run'.data = run.data
             /\ run'.at = "parse"
  <2>1. CASE run.cmd = "update"
    BY <1>0, <1>1, <1>2, <1>8, <2>1 DEF Saved, RunRecord
  <2>2. CASE run.cmd # "update"
    BY <1>0, <1>1, <1>2, <1>8, <2>2 DEF Saved, RunRecord
  <2>3. QED
    BY <2>1, <2>2
<1>9. CASE Rename
  <2>1. cache' = [data |-> run.data, age |-> 0] /\ Saved /\ run.at = "rename"
    BY <1>9 DEF Rename
  <2>2. run.data \in Indexes \union {Nothing} /\ 0 \in Ages
    BY <1>0 DEF RunRecord, Ages
  <2>3. QED
    BY <1>0, <1>8, <1>9, <2>1, <2>2 DEF Rename, IndexFrame, Ended
<1>10. CASE SaveFails
  BY <1>0, <1>8, <1>10 DEF SaveFails, Fault, IndexFrame, Ended
<1>11. QED
  BY <1>3, <1>4, <1>5, <1>6, <1>7, <1>9, <1>10 DEF IndexStep

LEMMA IndexSane ==
  ASSUME Sane, IndexStep
  PROVE  Sane'
<1>1. IndexFrame
  BY IndexFramed
<1>2. TypeOK'
  BY <1>1 DEF Sane, IndexFrame, TypeOK, RunRecord
<1>3. NothingPartial'
  BY <1>1, ContentsAssumption DEF Sane, IndexFrame, NothingPartial, Indexes, Versions
<1>4. StageInv' /\ TextInv'
  BY <1>1 DEF Sane, IndexFrame, StageInv, TextInv
<1>5. QED
  BY <1>2, <1>3, <1>4 DEF Sane

\* A goroutine.
FileSane(f) ==
    /\ task[f] \in TaskRecord /\ raw[f] \in {Nothing, Zero, Whole} /\ task[f].body # Partial
    /\ task[f].at \in Importing => run.cmd = "import"
    /\ run.cmd = "import" =>
          task[f].at \in Importing \union {"none", "queued", "done", "failed"}
    /\ run.cmd = "import" /\ task[f].at # "none" => raw[f] # Nothing
    /\ task[f].at \in {"row", "insert", "refs"} \/ (run.cmd = "import" /\ task[f].at = "done")
          => task[f].body \in {Zero, Whole} /\ About(f) \in RFCs
    /\ task[f].at \in {"save", "rename"} => task[f].body \in {Zero, Whole}

TaskFrame(f) ==
    /\ run.at = "pool" /\ UNCHANGED <<run, cache, site, outages>>
    /\ task' = [task EXCEPT ![f] = task'[f]]
    /\ raw' = raw \/ (raw' = [raw EXCEPT ![f] = raw'[f]])
    /\ store' \in [RFCs -> DocRecord] /\ faults' \in 0..MaxFaults
    /\ FileSane(f)'

LEMMA FileIsSane ==
  Sane => \A f \in Names : FileSane(f)
  BY DEF Sane, TypeOK, NothingPartial, StageInv, TextInv, FileSane, TaskRecord

LEMMA TaskFramed ==
  ASSUME Sane, NEW f \in Names, Goroutine(f)
  PROVE  TaskFrame(f)
<1> USE FilesAssumption, BoundsAssumption, ContentsAssumption
    DEF OnTask, At, OnlyTask, world, Move, Return
<1>0. /\ FileSane(f) /\ task \in [Names -> TaskRecord] /\ faults \in 0..MaxFaults
      /\ raw \in [Names -> {Nothing, Zero, Partial, Whole}]
      /\ store \in [RFCs -> DocRecord]
      /\ run.cmd = "import" => ~run.cut
      /\ About(f) \in RFCs \union {NoNumber} /\ NoNumber \notin RFCs
  BY FileIsSane, AboutTyped DEF Sane, TypeOK, StageInv, TaskRecord, DocRecord
<1>1. /\ NoTask \in TaskRecord /\ NoTask.body = Nothing
      /\ \A r \in {"none", "done", "failed"} :
            /\ [NoTask EXCEPT !.at = r] \in TaskRecord
            /\ [NoTask EXCEPT !.at = r].at = r /\ [NoTask EXCEPT !.at = r].body = Nothing
  BY DEF NoTask, TaskRecord, TaskStages, Attempts
<1>2. CASE Acquire(f)
  BY <1>0, <1>2 DEF Acquire, TaskFrame, FileSane, TaskRecord, TaskStages, Importing
<1>3. CASE Skip(f)
  BY <1>0, <1>1, <1>3 DEF Skip, TaskFrame, FileSane, Importing
<1>4. CASE Check(f)
  BY <1>0, <1>4 DEF Check, TaskFrame, FileSane, TaskRecord, TaskStages, Importing
<1>5. CASE Body(f)
  <2>1. PICK b \in {Zero, Whole} : task' = [task EXCEPT ![f] = [NoTask EXCEPT !.at = "save", !.body = b]]
    BY <1>5 DEF Body
  <2>2. task'[f] = [NoTask EXCEPT !.at = "save", !.body = b]
    BY <1>0, <2>1
  <2>3. task'[f] \in TaskRecord /\ task'[f].at = "save" /\ task'[f].body = b
    <3>1. "save" \in TaskStages
      BY DEF TaskStages
    <3>2. NoTask \in [at : TaskStages, attempt : 0..Attempts - 1,
                      body : {Nothing, Zero, Partial, Whole}, row : {"none", "index", "made"}]
      BY <1>1 DEF TaskRecord
    <3>3. QED
      BY <2>2, <3>1, <3>2 DEF TaskRecord
  <2>4. task[f].at = "get"
    BY <1>5 DEF Body
  <2>5. QED
    BY <1>0, <1>5, <2>1, <2>2, <2>3, <2>4 DEF Body, TaskFrame, FileSane, Importing
<1>6. CASE RetryBody(f)
  BY <1>0, <1>6 DEF RetryBody, TaskFrame, FileSane, TaskRecord, Attempts, Importing
<1>7. CASE FetchFails(f)
  BY <1>0, <1>1, <1>7 DEF FetchFails, TaskFrame, FileSane, Importing
<1>8. CASE CreateBodyTemp(f)
  BY <1>0, <1>8 DEF CreateBodyTemp, TaskFrame, FileSane, TaskRecord, TaskStages, Importing
<1>9. CASE RenameBody(f)
  BY <1>0, <1>1, <1>9 DEF RenameBody, TaskFrame, FileSane, Importing
<1>10. CASE SaveBodyFails(f)
  BY <1>0, <1>1, <1>10 DEF SaveBodyFails, Fault, TaskFrame, FileSane, Importing
<1>11. CASE ImportFile(f)
  BY <1>0, <1>1, <1>11 DEF ImportFile, TaskFrame, FileSane, TaskRecord, TaskStages, Importing
<1>12. CASE FindRow(f)
  BY <1>0, <1>12 DEF FindRow, TaskFrame, FileSane, TaskRecord, DocRecord, TaskStages, Importing
<1>13. CASE InsertSections(f)
  <2>1. Source(f) \in Sources /\ About(f) \in RFCs /\ task[f].row \in {"none", "index", "made"}
    BY <1>0, <1>13 DEF InsertSections, Source, Sources, FileSane, TaskRecord
  <2>2. store' \in [RFCs -> DocRecord]
    <3>1. store' = [store EXCEPT ![About(f)] = [store[About(f)] EXCEPT !.row = task[f].row,
                                                                     !.sections = Source(f)]]
      BY <1>0, <1>13, <2>1 DEF InsertSections
    <3>2. [store[About(f)] EXCEPT !.row = task[f].row, !.sections = Source(f)] \in DocRecord
      BY <1>0, <2>1 DEF DocRecord
    <3>3. QED
      BY <1>0, <2>1, <3>1, <3>2
  <2>3. task' = [task EXCEPT ![f] = task'[f]] /\ FileSane(f)'
    BY <1>0, <1>13 DEF InsertSections, FileSane, TaskRecord, TaskStages, Importing
  <2>4. QED
    BY <1>0, <1>13, <2>2, <2>3 DEF InsertSections, TaskFrame
<1>14. CASE ReplaceReferences(f)
  BY <1>0, <1>14 DEF ReplaceReferences, Source, Sources, TaskFrame, FileSane, TaskRecord, DocRecord, TaskStages, Importing
<1>15. CASE ImportFails(f)
  BY <1>0, <1>1, <1>15 DEF ImportFails, Fault, TaskFrame, FileSane, Importing
<1>16. QED
  BY <1>2, <1>3, <1>4, <1>5, <1>6, <1>7, <1>8, <1>9, <1>10, <1>11, <1>12, <1>13, <1>14, <1>15
     DEF Goroutine, Fetch, Import

LEMMA TaskSane ==
  ASSUME Sane, NEW f \in Names, TaskFrame(f)
  PROVE  Sane'
<1>1. /\ task \in [Names -> TaskRecord] /\ raw \in [Names -> {Nothing, Zero, Partial, Whole}]
      /\ \A g \in Names : FileSane(g)
  BY FileIsSane DEF Sane, TypeOK, TaskRecord
<1>2. /\ task' \in [Names -> TaskRecord] /\ raw' \in [Names -> {Nothing, Zero, Partial, Whole}]
  BY <1>1 DEF TaskFrame, FileSane
<1>3. \A g \in Names : FileSane(g)'
  BY <1>1 DEF TaskFrame, FileSane
<1>4. TypeOK'
  BY <1>2 DEF Sane, TaskFrame, TypeOK, TaskRecord, DocRecord
<1>5. NothingPartial'
  BY <1>3, ContentsAssumption DEF Sane, NothingPartial, TaskFrame, FileSane
<1>6. StageInv' /\ TextInv'
  BY <1>3 DEF Sane, StageInv, TextInv, TaskFrame, FileSane, Ended
<1>7. QED
  BY <1>4, <1>5, <1>6 DEF Sane

LEMMA StepSane ==
  ASSUME Sane, [Next]_vars
  PROVE  Sane'
<1>1. CASE UNCHANGED vars
  BY <1>1 DEF vars, Sane, TypeOK, NothingPartial, StageInv, TextInv
<1>2. CASE Next
  BY <1>2, NextParts, OtherSane, FinalSane, QueueSane, IndexSane, StartSane, TaskFramed, TaskSane
<1>3. QED
  BY <1>1, <1>2

\* What is read from the cache and the raw directory is whole, however many
\* commands write there and wherever they are killed (cache.go:60-85).
THEOREM FilesStayWhole == Spec => []FilesAreWhole
<1>1. Sane => FilesAreWhole
  BY DEF Sane, FilesAreWhole
<1>2. Sane /\ [Next]_vars => Sane'
  BY StepSane
<1>3. QED
  BY InitSane, <1>1, <1>2, PTL DEF Spec

-----------------------------------------------------------------------------
(***************************************************************************)
(* The index a command loads: how new it is, and how old the command takes *)
(* it to be.                                                               *)
(***************************************************************************)
Holds == {"save", "rename", "parse"}
LoadInv ==
    /\ run.cmd = "update" => run.floor <= site /\ run.at \notin {"stat", "read", "list"}
    /\ run.cmd = "update" /\ run.at \in Holds /\ run.data \in 1..MaxVersion =>
          run.data >= run.floor
    /\ run.at = "read" => run.stamp >= cache.age
    /\ run.cmd # "update" /\ run.at \in Holds => run.stamp >= run.age

LEMMA LoadedIndexStep ==
  ASSUME Sane, LoadInv, IndexStep
  PROVE  LoadInv'
<1> USE BoundsAssumption, ContentsAssumption DEF At, OnlyRun, world
<1>0. /\ run \in RunRecord /\ site \in 1..MaxVersion
      /\ cache \in [data : Indexes \union {Nothing, Partial}, age : Ages]
  BY DEF Sane, TypeOK, RunRecord
<1>1. CASE Stat
  BY <1>0, <1>1 DEF Stat, LoadInv, RunRecord, Holds, Ages
<1>2. CASE Read
  <2>1. run.at = "read" /\ run.stamp >= cache.age /\ run.cmd # "update"
    BY <1>2 DEF Read, LoadInv
  <2>2. /\ run'.cmd = run.cmd /\ run'.at \in {"get", "parse"}
        /\ run'.at = "parse" => run'.stamp = run.stamp /\ run'.age = cache.age
    BY <1>0, <1>2 DEF Read, RunRecord
  <2>3. QED
    BY <2>1, <2>2 DEF LoadInv, Holds
<1>3. CASE Answer
  <2>1. PICK d \in Answers : run' = [run EXCEPT !.at = "save", !.data = d, !.age = 0,
                                               !.stamp = 0, !.attempt = 0]
    BY <1>3 DEF Answer
  <2>2. d \in 1..MaxVersion => d = site
    BY <1>0 DEF Answers
  <2>3. /\ run'.cmd = run.cmd /\ run'.floor = run.floor /\ run'.at = "save"
        /\ run'.data = d /\ run'.stamp = 0 /\ run'.age = 0
    BY <1>0, <2>1 DEF RunRecord
  <2>4. QED
    BY <1>0, <1>3, <2>2, <2>3 DEF Answer, LoadInv, Holds
<1>4. CASE Retry
  BY <1>0, <1>4 DEF Retry, LoadInv, RunRecord, Holds
<1>5. CASE CreateTemp
  BY <1>0, <1>5 DEF CreateTemp, LoadInv, RunRecord, Holds
<1>6. ASSUME Saved, run.at \in {"save", "rename"}, UNCHANGED site
      PROVE  LoadInv'
  <2>1. /\ run'.cmd = run.cmd /\ run'.at = "parse" /\ run'.data = run.data
        /\ run'.floor = run.floor /\ run'.age = run.age
        /\ run.cmd # "update" => run'.stamp = run.stamp
    BY <1>0, <1>6 DEF Saved, RunRecord
  <2>2. QED
    BY <1>6, <2>1 DEF LoadInv, Holds
<1>7. CASE Rename
  BY <1>6, <1>7 DEF Rename
<1>8. CASE SaveFails
  BY <1>6, <1>8 DEF SaveFails
<1>9. QED
  BY <1>1, <1>2, <1>3, <1>4, <1>5, <1>7, <1>8 DEF IndexStep

LEMMA LoadedOtherStep ==
  ASSUME Sane, LoadInv, OtherStep
  PROVE  LoadInv'
<1> USE BoundsAssumption DEF world
<1>0. /\ run \in RunRecord /\ site \in 1..MaxVersion
      /\ cache \in [data : Indexes \union {Nothing, Partial}, age : Ages]
  BY DEF Sane, TypeOK, RunRecord
<1>1. CASE Publish
  BY <1>0, <1>1 DEF Publish, LoadInv, RunRecord, Versions
<1>2. CASE Outage
  BY <1>2 DEF Outage, LoadInv
<1>3. CASE Tick
  <2>1. \A x, y \in Ages : x >= y => Aged(x) >= Aged(y) /\ Aged(x) >= y
    BY DEF Ages, Aged
  <2>2. cache'.age \in {cache.age, Aged(cache.age)} /\ UNCHANGED site
    BY <1>0, <1>3 DEF Tick
  <2>3. CASE run.at \in {"read", "save", "parse"}
    <3>1. /\ run'.cmd = run.cmd /\ run'.at = run.at /\ run'.data = run.data
          /\ run'.floor = run.floor
          /\ run'.stamp = Aged(run.stamp) /\ run'.age = Aged(run.age)
      BY <1>0, <1>3, <2>3 DEF Tick, RunRecord
    <3>2. run.stamp \in Ages /\ run.age \in Ages /\ cache.age \in Ages
      BY <1>0 DEF RunRecord
    <3>3. QED
      BY <2>1, <2>2, <3>1, <3>2 DEF LoadInv, Holds
  <2>4. CASE run.at \notin {"read", "save", "parse"}
    BY <1>3, <2>2, <2>4 DEF Tick, LoadInv, Holds
  <2>5. QED
    BY <2>3, <2>4
<1>4. CASE OtherProcess
  BY <1>0, <1>4 DEF OtherProcess, LoadInv, RunRecord, Ages
<1>5. CASE Interrupt
  BY <1>0, <1>5 DEF Interrupt, LoadInv, RunRecord
<1>6. QED
  BY <1>1, <1>2, <1>3, <1>4, <1>5 DEF OtherStep

LEMMA LoadedStep ==
  ASSUME Sane, LoadInv, [Next]_vars
  PROVE  LoadInv'
<1>1. CASE FinalStep
  BY <1>1, FinalFrame DEF LoadInv, Idle, Holds
<1>2. CASE QueueStep
  <2>1. run'.at = "pool" /\ run'.cmd # "update"
    <3>1. run.cmd # "update"
      <4>1. \A r : End(r) => run'.at = r
        BY DEF End, Idle
      <4>2. QED
        BY <1>2, <4>1 DEF QueueStep, ParseIndex, ListDir, At, LoadInv
    <3>2. PICK files : Queue(files)
      <4>1. \A r : End(r) => run'.at = r
        BY DEF End, Idle
      <4>2. QED
        BY <1>2, <4>1 DEF QueueStep, ParseIndex, ListDir
    <3>3. QED
      BY <3>1, <3>2 DEF Queue, Idle
  <2>2. QED
    BY <2>1 DEF LoadInv, Holds
<1>3. ASSUME NEW c \in Commands, Start(c)
      PROVE  LoadInv'
  BY <1>3, BoundsAssumption DEF Start, LoadInv, Idle, Holds, world, Sane, TypeOK
<1>4. ASSUME NEW f \in Names, Goroutine(f)
      PROVE  LoadInv'
  <2>1. TaskFrame(f)
    BY <1>4, TaskFramed
  <2>2. QED
    BY <2>1 DEF TaskFrame, LoadInv
<1>5. CASE UNCHANGED vars
  BY <1>5 DEF vars, LoadInv
<1>6. QED
  BY <1>1, <1>2, <1>3, <1>4, <1>5, NextParts, LoadedIndexStep, LoadedOtherStep

THEOREM LoadInvariance == Spec => [](Sane /\ LoadInv)
<1>1. Init => LoadInv
  BY DEF Init, LoadInv, Idle, Holds
<1>2. Sane /\ LoadInv /\ [Next]_vars => Sane' /\ LoadInv'
  BY StepSane, LoadedStep
<1>3. QED
  BY InitSane, <1>1, <1>2, PTL DEF Spec

\* An update works on an index with everything published before it began
\* (pipeline.go:162-186).
THEOREM UpdatesSeeAll == Spec => []UpdateSeesAll
<1>1. Sane /\ LoadInv => UpdateSeesAll
  BY DEF LoadInv, UpdateSeesAll, Holds, At
<1>2. QED
  BY LoadInvariance, <1>1, PTL

\* The time a build or download records for its index is never later than the
\* index itself (cache.go:60-74).
THEOREM StampsAreNotLater == Spec => []StampIsNotLater
<1>1. Sane /\ LoadInv => StampIsNotLater
  BY DEF LoadInv, StampIsNotLater, Holds, At
<1>2. QED
  BY LoadInvariance, <1>1, PTL

-----------------------------------------------------------------------------
(***************************************************************************)
(* What an import stores.                                                  *)
(***************************************************************************)
RivalsOf(f) == {g \in Names : About(g) = About(f) /\ task[g].at # "none"}

\* A goroutine that is about to write the row has read whether it is the
\* index's; one that has written the sections, and the references, is found in
\* the store unless a rival wrote after it.
ImportInv(f) ==
    LET doc == store[About(f)]
    IN /\ task[f].at = "insert" => (task[f].row = "index" <=> doc.row = "index")
       /\ run.cmd = "import" /\ task[f].at \in {"refs", "done"} =>
             /\ \E g \in RivalsOf(f) : doc.sections.file = g
             /\ RivalsOf(f) = {f} => doc.sections = Source(f)
       /\ run.cmd = "import" /\ task[f].at = "done" =>
             /\ doc.references = NoSource
                   \/ \E g \in RivalsOf(f) : doc.references = [file |-> g, body |-> Whole]
             /\ RivalsOf(f) = {f} =>
                   doc.references = IF task[f].body = Zero THEN NoSource ELSE Source(f)
StoreInv == \A f \in Names : ImportInv(f)

RowsStay == run.cmd = "import" /\ run'.cmd = "import" =>
                \A n \in RFCs : store[n].row = "index" => store'[n].row = "index"

\* An import's goroutines fetch nothing and are not given up.
LEMMA OnlyImports ==
  ASSUME Sane, NEW g \in Names, Goroutine(g), run.cmd = "import"
  PROVE  Acquire(g) \/ Import(g)
<1>1. ~run.cut /\ task[g].at \in Importing \union {"none", "queued", "done", "failed"}
  BY DEF Sane, StageInv
<1>2. ~Skip(g)
  BY <1>1 DEF Skip
<1>3. ~Fetch(g)
  BY <1>1 DEF Fetch, Check, Body, RetryBody, FetchFails, CreateBodyTemp, RenameBody,
     SaveBodyFails, OnTask, Importing
<1>4. QED
  BY <1>2, <1>3 DEF Goroutine

\* In an import the goroutines that there are stay the same.
LEMMA RivalsStay ==
  ASSUME Sane, NEW g \in Names, Goroutine(g), run.cmd = "import"
  PROVE  \A f \in Names : (RivalsOf(f))' = RivalsOf(f)
<1>1. TaskFrame(g) /\ task \in [Names -> TaskRecord] /\ task[g] \in TaskRecord
  BY TaskFramed, FileIsSane DEF Sane, TypeOK, TaskRecord
<1>2. task[g].at # "none" /\ task'[g].at # "none"
  <2>1. CASE Acquire(g)
    BY <1>1, <2>1 DEF Acquire, OnTask, Move, TaskRecord
  <2>2. CASE ImportFile(g)
    BY <1>1, <2>2 DEF ImportFile, OnTask, Move, Return, NoTask, TaskRecord
  <2>3. CASE FindRow(g)
    BY <1>1, <2>3 DEF FindRow, OnTask, TaskRecord
  <2>4. CASE InsertSections(g)
    BY <1>1, <2>4 DEF InsertSections, OnTask, Move, TaskRecord
  <2>5. CASE ReplaceReferences(g)
    BY <1>1, <2>5 DEF ReplaceReferences, OnTask, Move, TaskRecord
  <2>6. CASE ImportFails(g)
    BY <1>1, <2>6 DEF ImportFails, Return, NoTask, TaskRecord
  <2>7. QED
    BY <2>1, <2>2, <2>3, <2>4, <2>5, <2>6, OnlyImports DEF Import
<1>3. \A f \in Names : task'[f].at # "none" <=> task[f].at # "none"
  BY <1>1, <1>2 DEF TaskFrame
<1>4. QED
  BY <1>3 DEF RivalsOf, About

LEMMA ImportStores ==
  ASSUME Sane, StoreInv, NEW g \in Names, Goroutine(g), run.cmd = "import"
  PROVE  StoreInv' /\ RowsStay
<1> USE DEF OnTask, Move, Return, OnlyTask, At
<1>0. /\ TaskFrame(g) /\ task \in [Names -> TaskRecord] /\ FileSane(g)
      /\ \A f \in Names : task'[f] \in TaskRecord
      /\ store \in [RFCs -> DocRecord] /\ run' = run
      /\ \A f \in Names : f # g => task'[f] = task[f]
  BY TaskFramed, TaskSane, FileIsSane DEF Sane, TypeOK, TaskRecord, DocRecord, TaskFrame
<1>1. \A f \in Names : (RivalsOf(f))' = RivalsOf(f) /\ About(f)' = About(f)
  BY RivalsStay DEF About
<1>2. \A f \in Names : ImportInv(f)
  BY DEF StoreInv
<1>3. \A f \in Names : About(f) = About(g) => g \in RivalsOf(f)
  <2>1. task[g].at # "none"
    BY <1>0, OnlyImports DEF Acquire, Import, ImportFile, FindRow, InsertSections,
       ReplaceReferences, ImportFails
  <2>2. QED
    BY <2>1 DEF RivalsOf
\* A goroutine that leaves the store alone changes only what is said of itself.
<1>4. ASSUME store' = store, task'[g].at \notin {"insert", "refs", "done"}
      PROVE  StoreInv' /\ RowsStay
  <2>1. ASSUME NEW f \in Names PROVE ImportInv(f)'
    <3>1. CASE f = g
      BY <1>0, <1>4, <3>1 DEF ImportInv
    <3>2. CASE f # g
      BY <1>0, <1>1, <1>2, <1>4, <3>2 DEF ImportInv, Source
    <3>3. QED
      BY <3>1, <3>2
  <2>2. QED
    BY <1>4, <2>1 DEF StoreInv, RowsStay
<1>5. CASE Acquire(g)
  BY <1>0, <1>4, <1>5 DEF Acquire, TaskRecord
<1>6. CASE ImportFile(g)
  BY <1>0, <1>4, <1>6 DEF ImportFile, NoTask, TaskRecord
<1>7. CASE ImportFails(g)
  BY <1>0, <1>4, <1>7 DEF ImportFails, NoTask, TaskRecord
<1>8. CASE FindRow(g)
  <2>1. /\ store' = store /\ task'[g].at = "insert"
        /\ task'[g].row = IF store[About(g)].row = "none" THEN "made" ELSE store[About(g)].row
    BY <1>0, <1>8 DEF FindRow, TaskRecord
  <2>2. ASSUME NEW f \in Names PROVE ImportInv(f)'
    <3>1. CASE f = g
      BY <1>0, <1>1, <2>1, <3>1 DEF ImportInv
    <3>2. CASE f # g
      BY <1>0, <1>1, <1>2, <2>1, <3>2 DEF ImportInv, Source
    <3>3. QED
      BY <3>1, <3>2
  <2>3. QED
    BY <2>1, <2>2 DEF StoreInv, RowsStay
<1>9. CASE InsertSections(g)
  <2>1. /\ About(g) \in RFCs /\ task[g].at = "insert"
        /\ task'[g].at = "refs" /\ task'[g].body = task[g].body
    BY <1>0, <1>9 DEF InsertSections, FileSane, TaskRecord
  <2>2. /\ \A n \in RFCs : n # About(g) => store'[n] = store[n]
        /\ store'[About(g)].row = task[g].row
        /\ store'[About(g)].sections = Source(g)
        /\ store'[About(g)].references = store[About(g)].references
    BY <1>0, <1>9, <2>1 DEF InsertSections, DocRecord
  <2>3. task[g].row = "index" <=> store[About(g)].row = "index"
    BY <1>2, <2>1 DEF ImportInv
  <2>4. Source(g)' = Source(g) /\ Source(g).file = g
    BY <2>1 DEF Source
  <2>5. ASSUME NEW f \in Names PROVE ImportInv(f)'
    <3>0. task'[f].at \in {"insert", "refs", "done"} => About(f) \in RFCs
      BY <1>0, TaskSane, FileIsSane DEF TaskFrame, FileSane, Sane, TextInv
    <3>1. CASE f = g
      BY <1>0, <1>1, <1>3, <2>1, <2>2, <2>3, <2>4, <3>1 DEF ImportInv
    <3>2. CASE f # g /\ About(f) = About(g)
      <4>1. g \in RivalsOf(f) /\ RivalsOf(f) # {f} /\ task'[f] = task[f]
        BY <1>0, <1>3, <3>2
      <4>2. task[f].at = "insert" => (task[f].row = "index" <=> task[g].row = "index")
        BY <1>2, <2>3, <3>2 DEF ImportInv
      <4>3. run.cmd = "import" /\ task[f].at = "done" =>
              store[About(g)].references = NoSource
                \/ \E h \in RivalsOf(f) : store[About(g)].references = [file |-> h, body |-> Whole]
        BY <1>2, <3>2 DEF ImportInv
      <4>4. QED
        BY <1>0, <1>1, <2>2, <2>4, <3>2, <4>1, <4>2, <4>3 DEF ImportInv
    <3>3. CASE f # g /\ About(f) # About(g)
      <4>1. task'[f] = task[f] /\ run' = run /\ RivalsOf(f)' = RivalsOf(f)
            /\ About(f)' = About(f) /\ Source(f)' = Source(f)
        BY <1>0, <1>1, <3>3 DEF Source
      <4>2. CASE task[f].at \in {"insert", "refs", "done"}
        <5>1. store'[About(f)] = store[About(f)]
          BY <2>2, <3>0, <3>3, <4>1, <4>2
        <5>2. ImportInv(f)
          BY <1>2
        <5>3. QED
          BY <4>1, <5>1, <5>2 DEF ImportInv
      <4>3. CASE task[f].at \notin {"insert", "refs", "done"}
        BY <4>1, <4>3 DEF ImportInv
      <4>4. QED
        BY <4>2, <4>3
    <3>4. QED
      BY <3>1, <3>2, <3>3
  <2>6. QED
    BY <2>1, <2>2, <2>3, <2>5 DEF StoreInv, RowsStay
<1>10. CASE ReplaceReferences(g)
  <2>1. /\ About(g) \in RFCs /\ task[g].at = "refs" /\ task[g].body \in {Zero, Whole}
        /\ task'[g].at = "done" /\ task'[g].body = task[g].body
    BY <1>0, <1>10 DEF ReplaceReferences, FileSane, TaskRecord
  <2>2. /\ \A n \in RFCs : n # About(g) => store'[n] = store[n]
        /\ store'[About(g)].row = store[About(g)].row
        /\ store'[About(g)].sections = store[About(g)].sections
        /\ store'[About(g)].references =
              IF task[g].body = Zero THEN NoSource ELSE Source(g)
    BY <1>0, <1>10, <2>1 DEF ReplaceReferences, DocRecord
  <2>3. /\ Source(g)' = Source(g)
        /\ task[g].body # Zero => Source(g) = [file |-> g, body |-> Whole]
    BY <2>1 DEF Source
  <2>4. ASSUME NEW f \in Names PROVE ImportInv(f)'
    <3>0. task'[f].at \in {"insert", "refs", "done"} => About(f) \in RFCs
      BY <1>0, TaskSane, FileIsSane DEF TaskFrame, FileSane, Sane, TextInv
    <3>1. CASE f = g
      BY <1>0, <1>1, <1>2, <1>3, <2>1, <2>2, <2>3, <3>1 DEF ImportInv
    <3>2. CASE f # g /\ About(f) = About(g)
      BY <1>0, <1>1, <1>2, <1>3, <2>2, <2>3, <3>2 DEF ImportInv
    <3>3. CASE f # g /\ About(f) # About(g)
      BY <1>0, <1>1, <1>2, <2>2, <3>0, <3>3 DEF ImportInv, Source
    <3>4. QED
      BY <3>1, <3>2, <3>3
  <2>5. QED
    BY <2>1, <2>2, <2>4 DEF StoreInv, RowsStay
<1>11. QED
  BY <1>5, <1>6, <1>7, <1>8, <1>9, <1>10, OnlyImports DEF Import

LEMMA StoredStep ==
  ASSUME Sane, StoreInv, [Next]_vars
  PROVE  StoreInv' /\ RowsStay
<1>1. ASSUME UNCHANGED <<task, store>>, run'.cmd = run.cmd
      PROVE  StoreInv' /\ RowsStay
  BY <1>1 DEF StoreInv, ImportInv, RivalsOf, About, Source, RowsStay
<1>2. ASSUME \A f \in Names : task'[f].at \notin {"insert", "refs", "done"},
             run'.cmd # "import" \/ store' = store
      PROVE  StoreInv' /\ RowsStay
  BY <1>2 DEF StoreInv, ImportInv, RowsStay
<1>3. CASE OtherStep
  <2>1. UNCHANGED <<task, store>> /\ run'.cmd = run.cmd
    BY <1>3 DEF OtherStep, Publish, Outage, Tick, OtherProcess, Interrupt, Sane, TypeOK
  <2>2. QED
    BY <1>1, <2>1
<1>4. CASE FinalStep
  BY <1>2, <1>4, FinalFrame DEF Idle, NoTask
<1>5. CASE QueueStep
  <2>1. PICK files : Queue(files)
    <3>1. \A r : End(r) => run'.at = r
      BY DEF End, Idle
    <3>2. QED
      BY <1>5, <3>1 DEF QueueStep, ParseIndex, ListDir
  <2>2. QED
    BY <1>2, <2>1 DEF Queue, NoTask
<1>6. CASE IndexStep
  BY <1>1, <1>6, IndexFramed DEF IndexFrame
<1>7. ASSUME NEW c \in Commands, Start(c)
      PROVE  StoreInv' /\ RowsStay
  <2>1. /\ \A f \in Names : task'[f] = NoTask
        /\ run.cmd # "import"
    BY <1>7 DEF Start, Sane, StageInv, Ended
  <2>2. QED
    BY <2>1 DEF StoreInv, ImportInv, NoTask, RowsStay
<1>8. ASSUME NEW g \in Names, Goroutine(g)
      PROVE  StoreInv' /\ RowsStay
  <2>1. CASE run.cmd = "import"
    BY <1>8, <2>1, ImportStores
  <2>2. CASE run.cmd # "import"
    <3>1. Sane' /\ run' = run
      BY <1>8, TaskFramed, TaskSane DEF TaskFrame
    <3>2. \A f \in Names : task'[f].at # "insert"
      BY <2>2, <3>1 DEF Sane, StageInv, Importing
    <3>3. QED
      BY <2>2, <3>1, <3>2 DEF StoreInv, ImportInv, RowsStay
  <2>3. QED
    BY <2>1, <2>2
<1>9. CASE UNCHANGED vars
  BY <1>1, <1>9 DEF vars
<1>10. QED
  BY <1>3, <1>4, <1>5, <1>6, <1>7, <1>8, <1>9, NextParts

THEOREM StoreInvariance == Spec => [](Sane /\ StoreInv)
<1>1. Init => StoreInv
  BY DEF Init, StoreInv, ImportInv, NoTask, Idle
<1>2. Sane /\ StoreInv /\ [Next]_vars => Sane' /\ StoreInv'
  BY StepSane, StoredStep
<1>3. QED
  BY InitSane, <1>1, <1>2, PTL DEF Spec

\* What is counted as imported is stored, of one text or of two that name the
\* same RFC (pipeline.go:682-725).
THEOREM ImportsAreStored == Spec => []ImportedIsStored
<1>1. Sane /\ StoreInv => ImportedIsStored
  <2> SUFFICES ASSUME Sane, StoreInv, NEW f \in Names,
                      run.cmd = "import", task[f].at = "done"
               PROVE  LET doc == store[About(f)]
                          Rivals == {g \in Names : About(g) = About(f) /\ task[g].at # "none"}
                      IN /\ doc.sections.file \in Rivals
                         /\ doc.references \in {NoSource} \union [file : Rivals, body : {Whole}]
                         /\ Rivals = {f} =>
                               /\ doc.sections = Source(f)
                               /\ doc.references = IF task[f].body = Zero THEN NoSource
                                                   ELSE doc.sections
    BY DEF ImportedIsStored
  <2>1. ImportInv(f)
    BY DEF StoreInv
  <2>2. /\ \E g \in RivalsOf(f) : store[About(f)].sections.file = g
        /\ store[About(f)].references = NoSource
              \/ \E g \in RivalsOf(f) : store[About(f)].references = [file |-> g, body |-> Whole]
        /\ RivalsOf(f) = {f} =>
              /\ store[About(f)].sections = Source(f)
              /\ store[About(f)].references = IF task[f].body = Zero THEN NoSource ELSE Source(f)
    BY <2>1 DEF ImportInv
  <2>3. store[About(f)].references \in {NoSource} \union [file : RivalsOf(f), body : {Whole}]
    <3>1. \A g \in RivalsOf(f) : [file |-> g, body |-> Whole] \in [file : RivalsOf(f), body : {Whole}]
      OBVIOUS
    <3>2. QED
      BY <2>2, <3>1, Zenon
  <2>4. QED
    BY <2>2, <2>3 DEF RivalsOf
<1>2. QED
  BY StoreInvariance, <1>1, PTL

\* A row of the index is not replaced by a made-up one (pipeline.go:690-702).
THEOREM IndexRowsAreKept == Spec => RowsAreKept
<1>1. Sane /\ StoreInv /\ [Next]_vars =>
        [run.cmd = "import" /\ run'.cmd = "import" =>
            \A n \in RFCs : store[n].row = "index" => store'[n].row = "index"]_vars
  BY StoredStep DEF RowsStay
<1>2. QED
  BY StoreInvariance, <1>1, PTL DEF Spec, RowsAreKept

=============================================================================
