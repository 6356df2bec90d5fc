----------------------------- MODULE IngestFiles -----------------------------
(***************************************************************************)
(* The files the commands share: the cached rfc-index.xml                  *)
(* (ingest/pipeline/cache.go), the raw directory of RFC texts              *)
(* (ingest/pipeline/download.go), and the commands of                      *)
(* ingest/pipeline/pipeline.go that read and write them: the index loads   *)
(* of build and update, Download, and ImportDir, which stores what it      *)
(* finds in the directory.  One process runs command after command, is     *)
(* interrupted and killed, cannot write, and gets wrong answers; the other *)
(* processes that do the same at the same time are seen by the files they  *)
(* rename into place.  What build and update do once the index is loaded   *)
(* is module Pipeline's.                                                   *)
(***************************************************************************)
EXTENDS Naturals, FiniteSets

CONSTANTS
    RFCs,        \* RFC numbers; a number also stands for the file rfcN.txt
    Extras,      \* other .txt files in the directory
    AboutExtra,  \* the RFC such a file's header names, or NoNumber
    Workers,     \* Pipeline.Workers
    TTL,         \* defaultCacheTTL, in ticks
    MaxVersion,  \* bound on the index versions the site publishes
    MaxOutages,  \* bound on the times the site misbehaves
    MaxFaults,   \* bound on failed writes and signals
    Nothing, Zero, Partial, Whole, Broken, NoNumber

Names == RFCs \union Extras

ASSUME FilesAssumption ==
    /\ RFCs \subseteq Nat \ {0} /\ Extras \intersect RFCs = {}
    /\ AboutExtra \in [Extras -> RFCs \union {NoNumber}]
ASSUME BoundsAssumption ==
    /\ Workers \in Nat \ {0} /\ TTL \in Nat /\ MaxVersion \in Nat \ {0}
    /\ MaxOutages \in Nat /\ MaxFaults \in Nat
ASSUME ContentsAssumption ==
    /\ Nothing \notin {Zero, Partial, Whole, Broken}
    /\ Zero \notin {Partial, Whole, Broken}
    /\ Partial \notin {Whole, Broken} /\ Whole # Broken
    /\ {Nothing, Zero, Partial, Whole, Broken, NoNumber} \intersect Nat = {}

\* rfc-index.xml: version v lists the RFCs up to v.  Version 0 stands for a
\* body that is XML without an entry, Broken for one that is not XML.
Versions == 0..MaxVersion
Indexes == Versions \union {Zero, Broken}
Ages == 0..TTL + 1
Attempts == 3

VARIABLES
    site,     \* the version of the index the RFC Editor publishes
    outages,  \* odd while the site answers wrongly
    cache,    \* the cached index and the age of its modification time
    raw,      \* the files of the raw directory
    store,    \* the database: an RFC's row, and whose sections and references
    run,      \* what the command is doing
    task,     \* its goroutines, one per RFC or file
    faults

vars == <<site, outages, cache, raw, store, run, task, faults>>
world == <<site, outages>>

Commands == {"build", "update", "download", "import"}
Stages == {"idle", "stat", "read", "get", "save", "rename", "parse", "list",
           "pool", "done", "failed"}
Ended == {"idle", "done", "failed"}
TaskStages == {"none", "queued", "check", "get", "save", "rename", "open",
               "row", "insert", "refs", "done", "failed"}

NoSource == [file |-> Nothing, body |-> Nothing]
Older == [file |-> Nothing, body |-> Whole]
Sources == {NoSource, Older} \union [file : Names, body : {Whole, Zero, Partial}]

Idle == [cmd |-> "none", at |-> "idle", data |-> Nothing, stamp |-> 0,
         age |-> 0, attempt |-> 0, floor |-> 0, cut |-> FALSE]
NoTask == [at |-> "none", attempt |-> 0, body |-> Nothing, row |-> "none"]

TypeOK ==
    /\ site \in 1..MaxVersion /\ outages \in 0..2 * MaxOutages
    /\ faults \in 0..MaxFaults
    /\ cache \in [data : Indexes \union {Nothing, Partial}, age : Ages]
    /\ raw \in [Names -> {Nothing, Zero, Partial, Whole}]
    /\ store \in [RFCs -> [row : {"none", "index", "made"},
                           sections : Sources, references : Sources]]
    /\ run \in [cmd : Commands \union {"none"}, at : Stages,
                data : Indexes \union {Nothing, Partial}, stamp : Ages,
                age : Ages, attempt : 0..Attempts - 1, floor : Versions,
                cut : BOOLEAN]
    /\ task \in [Names -> [at : TaskStages, attempt : 0..Attempts - 1,
                           body : {Nothing, Zero, Partial, Whole},
                           row : {"none", "index", "made"}]]

(***************************************************************************)
(* The database that import-dir is told to write may be new, or hold the   *)
(* index and the documents of earlier commands.                            *)
(***************************************************************************)
Doc(row, source) == [row |-> row, sections |-> source, references |-> source]
NewStore == [n \in RFCs |-> Doc("none", NoSource)]
OldStore == [n \in RFCs |-> Doc("index", Older)]

Init ==
    /\ site = 1 /\ outages = 0 /\ faults = 0
    /\ cache = [data |-> Nothing, age |-> 0]
    /\ raw = [f \in Names |-> IF f \in RFCs THEN Nothing ELSE Whole]
    /\ store = NewStore
    /\ run = Idle
    /\ task = [f \in Names |-> NoTask]

-----------------------------------------------------------------------------
(***************************************************************************)
(* The world: the site publishes, misbehaves and recovers, time passes,    *)
(* and other processes rename what they are answered into place.  A tick   *)
(* is some hours: nobody takes that long to write a file.                  *)
(***************************************************************************)
Publish ==
    /\ site < MaxVersion /\ site' = site + 1
    /\ UNCHANGED <<outages, cache, raw, store, run, task, faults>>

Outage ==
    /\ outages < 2 * MaxOutages /\ outages' = outages + 1
    /\ UNCHANGED <<site, cache, raw, store, run, task, faults>>

Down == outages % 2 = 1

Aged(a) == IF a > TTL THEN a ELSE a + 1

Tick ==
    /\ run.at # "rename"
    /\ cache' = [cache EXCEPT !.age = IF cache.data = Nothing THEN @ ELSE Aged(@)]
    /\ run' = IF run.at \in {"read", "save", "parse"}
              THEN [run EXCEPT !.stamp = Aged(@), !.age = Aged(@)] ELSE run
    /\ UNCHANGED <<world, raw, store, task, faults>>

Answers == IF Down THEN {Zero, Broken, 0} ELSE {site}

OtherProcess ==
    /\ \/ /\ \E d \in Answers : cache' = [data |-> d, age |-> 0]
          /\ UNCHANGED raw
       \/ /\ \E n \in 1..site \intersect RFCs :
                 raw' = [raw EXCEPT ![n] = IF Down THEN Zero ELSE Whole]
          /\ UNCHANGED cache
    /\ UNCHANGED <<world, store, run, task, faults>>

Fault == faults < MaxFaults /\ faults' = faults + 1

\* import-dir has no context that a signal could end.
Interrupt ==
    /\ Fault
    /\ run.cmd # "import" /\ run.at \notin Ended /\ ~run.cut
    /\ run' = [run EXCEPT !.cut = TRUE]
    /\ UNCHANGED <<world, cache, raw, store, task>>

End(result) ==
    /\ run' = [Idle EXCEPT !.at = result]
    /\ task' = [f \in Names |-> NoTask]
    /\ store' = IF run.cmd = "import" THEN NewStore ELSE store
    /\ UNCHANGED <<world, cache, raw>>

Kill == Fault /\ run.at \notin Ended /\ End("idle")

-----------------------------------------------------------------------------
(***************************************************************************)
(* Loading the index.  "age" is the age of the data the command holds,     *)
(* "stamp" that of the time it goes on to record as rfc_index_fetched_at;  *)
(* "floor" is history, the version published when an update began.         *)
(***************************************************************************)
\* A mutant: an update looks into the cache first.
StartCached(c) ==
    /\ run.at \in Ended
    /\ run' = [Idle EXCEPT !.cmd = c, !.floor = IF c = "update" THEN site ELSE 0,
                           !.at = IF c = "import" THEN "list" ELSE "stat"]
    /\ store' \in (IF c = "import" THEN {NewStore, OldStore} ELSE {store})
    /\ UNCHANGED <<world, cache, raw, task, faults>>

Start(c) ==
    /\ run.at \in Ended
    /\ run' = [Idle EXCEPT !.cmd = c, !.floor = IF c = "update" THEN site ELSE 0,
                           !.at = CASE c = "update" -> "get"
                                    [] c = "import" -> "list"
                                    [] OTHER -> "stat"]
    /\ store' \in (IF c = "import" THEN {NewStore, OldStore} ELSE {store})
    /\ UNCHANGED <<world, cache, raw, task, faults>>

At(stage) == run.at = stage
OnlyRun == UNCHANGED <<world, cache, raw, store, task, faults>>

\* loadCache: the file's age, then, in another step, its content.
Stat ==
    /\ At("stat")
    /\ run' = IF cache.data = Nothing \/ cache.age > TTL
              THEN [run EXCEPT !.at = "get"]
              ELSE [run EXCEPT !.at = "read", !.stamp = cache.age]
    /\ OnlyRun

\* A mutant: a hit is stamped with the time of the read.
ReadNow ==
    /\ At("read")
    /\ run' = IF cache.data = Zero
              THEN [run EXCEPT !.at = "get", !.stamp = 0, !.age = 0]
              ELSE [run EXCEPT !.at = "parse", !.data = cache.data,
                               !.age = cache.age, !.stamp = 0]
    /\ OnlyRun

Read ==
    /\ At("read")
    /\ run' = IF cache.data = Zero
              THEN [run EXCEPT !.at = "get", !.stamp = 0, !.age = 0]
              ELSE [run EXCEPT !.at = "parse", !.data = cache.data,
                               !.age = cache.age]
    /\ OnlyRun

\* A 200 whose body is read to its end, whatever is in it.
Answer ==
    /\ At("get") /\ ~run.cut
    /\ \E d \in Answers :
           run' = [run EXCEPT !.at = "save", !.data = d, !.age = 0,
                              !.stamp = 0, !.attempt = 0]
    /\ OnlyRun

\* Another attempt, while there are any left and the context has not ended.
Retry ==
    /\ At("get") /\ Down /\ ~run.cut /\ run.attempt + 1 < Attempts
    /\ run' = [run EXCEPT !.attempt = @ + 1]
    /\ OnlyRun

\* The third failure, a 404, or the end of the context.
LoadFails ==
    /\ At("get") /\ (run.cut \/ Down)
    /\ End("failed") /\ UNCHANGED faults

\* writeFileAtomic: the body goes to a temporary file, which takes the name.
CreateTemp ==
    /\ At("save")
    /\ run' = [run EXCEPT !.at = "rename"]
    /\ OnlyRun

\* fetchCached takes the time before it saves, loadIndexLive after.
Saved ==
    run' = [run EXCEPT !.at = "parse",
                       !.stamp = IF run.cmd = "update" THEN 0 ELSE @]

Rename ==
    /\ At("rename")
    /\ cache' = [data |-> run.data, age |-> 0]
    /\ Saved
    /\ UNCHANGED <<world, raw, store, task, faults>>

\* A file that cannot be written is a warning.
SaveFails ==
    /\ run.at \in {"save", "rename"}
    /\ Fault /\ Saved
    /\ UNCHANGED <<world, cache, raw, store, task>>

\* parseIndex: only a parse error without an entry is fatal.
Listed(d) == IF d \in Versions THEN {n \in RFCs : n <= d} ELSE {}

Queue(files) ==
    /\ run' = [Idle EXCEPT !.cmd = run.cmd, !.at = "pool", !.cut = run.cut]
    /\ task' = [f \in Names |-> IF f \in files THEN [NoTask EXCEPT !.at = "queued"]
                                               ELSE NoTask]
    /\ UNCHANGED <<world, cache, raw, store>>

ParseIndex ==
    /\ At("parse") /\ UNCHANGED faults
    /\ IF run.data \in {Broken, Partial} THEN End("failed")
       ELSE IF run.cmd = "download" THEN Queue(Listed(run.data))
       ELSE End("done")

LoadIndex ==
    Stat \/ Read \/ Answer \/ Retry \/ LoadFails \/ CreateTemp \/ Rename
        \/ SaveFails \/ ParseIndex

-----------------------------------------------------------------------------
(***************************************************************************)
(* The goroutines of Download and ImportDir, one for each RFC or file.     *)
(***************************************************************************)
Holding == {f \in Names : task[f].at \notin {"none", "queued", "done", "failed"}}
Finished == \A f \in Names : task[f].at \in {"none", "done", "failed"}

OnTask(f, stage) == At("pool") /\ task[f].at = stage
OnlyTask == UNCHANGED <<world, cache, raw, store, run, faults>>

Move(f, stage) == task' = [task EXCEPT ![f].at = stage]
Return(f, result) == task' = [task EXCEPT ![f] = [NoTask EXCEPT !.at = result]]

Acquire(f) ==
    /\ OnTask(f, "queued") /\ Cardinality(Holding) < Workers
    /\ Move(f, IF run.cmd = "import" THEN "open" ELSE "check")
    /\ OnlyTask

\* Not dispatched, or given up at the semaphore.
Skip(f) ==
    /\ OnTask(f, "queued") /\ run.cut
    /\ Return(f, "none")
    /\ OnlyTask

\* A mutant: any file is a text, as in the cache of the drafts.
CheckAny(f) ==
    /\ OnTask(f, "check")
    /\ Move(f, IF raw[f] = Nothing THEN "get" ELSE "done")
    /\ OnlyTask

\* fetchRFCText: a file that is not empty is the text, for ever.
Check(f) ==
    /\ OnTask(f, "check")
    /\ Move(f, IF raw[f] \in {Nothing, Zero} THEN "get" ELSE "done")
    /\ OnlyTask

Body(f) ==
    /\ OnTask(f, "get") /\ ~run.cut
    /\ task' = [task EXCEPT ![f] = [NoTask EXCEPT !.at = "save",
                    !.body = IF Down THEN Zero ELSE Whole]]
    /\ OnlyTask

RetryBody(f) ==
    /\ OnTask(f, "get") /\ Down /\ ~run.cut /\ task[f].attempt + 1 < Attempts
    /\ task' = [task EXCEPT ![f].attempt = @ + 1]
    /\ OnlyTask

\* A mutant: the wait for the next attempt ignores the context.
FetchFailsLate(f) ==
    /\ OnTask(f, "get") /\ Down
    /\ Return(f, "failed")
    /\ OnlyTask

FetchFails(f) ==
    /\ OnTask(f, "get") /\ (run.cut \/ Down)
    /\ Return(f, "failed")
    /\ OnlyTask

\* A mutant: the file is written in place.
WriteInPlace(f) ==
    /\ OnTask(f, "save")
    /\ Move(f, "rename")
    /\ raw' = [raw EXCEPT ![f] = Partial]
    /\ UNCHANGED <<world, cache, store, run, faults>>

\* writeFileAtomic again: nothing takes the name before it is whole.
CreateBodyTemp(f) ==
    /\ OnTask(f, "save")
    /\ Move(f, "rename")
    /\ OnlyTask

RenameBody(f) ==
    /\ OnTask(f, "rename")
    /\ raw' = [raw EXCEPT ![f] = task[f].body]
    /\ Return(f, "done")
    /\ UNCHANGED <<world, cache, store, run, faults>>

SaveBodyFails(f) ==
    /\ At("pool") /\ task[f].at \in {"save", "rename"}
    /\ Fault /\ Return(f, "failed")
    /\ UNCHANGED <<world, cache, raw, store, run>>

Fetch(f) ==
    Check(f) \/ Body(f) \/ RetryBody(f) \/ FetchFails(f)
        \/ CreateBodyTemp(f) \/ RenameBody(f) \/ SaveBodyFails(f)

-----------------------------------------------------------------------------
(***************************************************************************)
(* ImportDir lists the names that end in .txt, which no temporary file's   *)
(* does, if it can, and imports each: number, row, sections, references.   *)
(***************************************************************************)
ListDir ==
    /\ At("list")
    /\ LET files == {f \in Names : raw[f] # Nothing}
       IN  \/ files # {} /\ Queue(files) /\ UNCHANGED faults
           \/ files = {} /\ End("failed") /\ UNCHANGED faults
           \/ Fault /\ End("failed")

About(f) == IF f \in RFCs THEN f ELSE AboutExtra[f]

\* ReadFile, then the number from the header, else from the file's name.
ImportFile(f) ==
    /\ OnTask(f, "open")
    /\ IF About(f) = NoNumber THEN Return(f, "failed")
       ELSE task' = [task EXCEPT ![f].at = "row", ![f].body = raw[f]]
    /\ OnlyTask

\* A mutant: any error of the lookup makes a row up.
FindRowOrMakeUp(f) ==
    /\ OnTask(f, "row")
    /\ \/ /\ task' = [task EXCEPT ![f].at = "insert",
                          ![f].row = IF store[About(f)].row = "none" THEN "made"
                                     ELSE store[About(f)].row]
          /\ UNCHANGED faults
       \/ /\ task' = [task EXCEPT ![f].at = "insert", ![f].row = "made"]
          /\ Fault
    /\ UNCHANGED <<world, cache, raw, store, run>>

\* GetRFCMetadata: only a row that is not there is made up.
FindRow(f) ==
    /\ OnTask(f, "row")
    /\ task' = [task EXCEPT ![f].at = "insert",
                    ![f].row = IF store[About(f)].row = "none" THEN "made"
                               ELSE store[About(f)].row]
    /\ OnlyTask

Source(f) == [file |-> f, body |-> task[f].body]

InsertSections(f) ==
    /\ OnTask(f, "insert")
    /\ store' = [store EXCEPT ![About(f)].row = task[f].row,
                              ![About(f)].sections = Source(f)]
    /\ Move(f, "refs")
    /\ UNCHANGED <<world, cache, raw, run, faults>>

\* A mutant: InsertReferences alone, which clears nothing for an empty list.
InsertReferences(f) ==
    /\ OnTask(f, "refs")
    /\ store' = IF task[f].body = Zero THEN store
                ELSE [store EXCEPT ![About(f)].references = Source(f)]
    /\ Move(f, "done")
    /\ UNCHANGED <<world, cache, raw, run, faults>>

\* replaceReferences: a text without references clears the rows.
ReplaceReferences(f) ==
    /\ OnTask(f, "refs")
    /\ store' = [store EXCEPT ![About(f)].references =
                     IF task[f].body = Zero THEN NoSource ELSE Source(f)]
    /\ Move(f, "done")
    /\ UNCHANGED <<world, cache, raw, run, faults>>

\* The file cannot be read, or an error of the database at any of the three.
ImportFails(f) ==
    /\ At("pool") /\ task[f].at \in {"open", "row", "insert", "refs"}
    /\ Fault /\ Return(f, "failed")
    /\ UNCHANGED <<world, cache, raw, store, run>>

Import(f) ==
    ImportFile(f) \/ FindRow(f) \/ InsertSections(f) \/ ReplaceReferences(f)
        \/ ImportFails(f)

\* wg.Wait: Download always succeeds, ImportDir unless every file failed.
Join ==
    /\ At("pool") /\ Finished /\ UNCHANGED faults
    /\ End(IF run.cmd = "import" /\ \A f \in Names : task[f].at # "done"
           THEN "failed" ELSE "done")

Goroutine(f) == Acquire(f) \/ Skip(f) \/ Fetch(f) \/ Import(f)
Work == LoadIndex \/ ListDir \/ Join \/ \E f \in Names : Goroutine(f)

Next ==
    \/ Publish \/ Outage \/ Tick \/ OtherProcess \/ Interrupt \/ Kill
    \/ \E c \in Commands : Start(c)
    \/ Work

(***************************************************************************)
(* A command that can go on does (requests time out after p.Timeout), time *)
(* passes, an outage ends, and somebody who downloads does so again.       *)
(***************************************************************************)
Fairness ==
    /\ WF_vars(Work) /\ SF_vars(Start("download"))
    /\ SF_vars(Tick) /\ WF_vars(Down /\ Outage)

Spec == Init /\ [][Next]_vars /\ Fairness

-----------------------------------------------------------------------------
(***************************************************************************)
(* Files are written under temporary names: whoever reads the cached index *)
(* or a text reads all of it, although it is written while they look and   *)
(* the writer may be killed (writeFileAtomic).                             *)
(***************************************************************************)
NothingPartial ==
    /\ Partial \notin {cache.data, run.data}
    /\ \A f \in Names : Partial \notin {raw[f], task[f].body}

(***************************************************************************)
(* The state is well-typed - attempts never exceed three - and no file or  *)
(* reader's copy is partial.                                               *)
(***************************************************************************)
FilesAreWhole == TypeOK /\ NothingPartial

(***************************************************************************)
(* loadCache takes the age from a stat and the data from a later read, and *)
(* another process may replace the file in between: the time a build goes  *)
(* on to record as rfc_index_fetched_at is then too early, never later     *)
(* than the file its index came from.                                      *)
(***************************************************************************)
StampIsNotLater ==
    run.cmd \in {"build", "download"} /\ At("parse") => run.stamp >= run.age

(***************************************************************************)
(* fetchLive: whatever the cache holds, and whoever replaces it meanwhile, *)
(* an update works on an index with everything published before it began.  *)
(***************************************************************************)
UpdateSeesAll ==
    run.cmd = "update" /\ At("parse") /\ run.data \in 1..MaxVersion
        => run.data >= run.floor

(***************************************************************************)
(* What import-dir counts as imported is in the database, sections and     *)
(* references of one text, although the directory is filled meanwhile, if  *)
(* one of its files is about that RFC; of two such files, imported at the  *)
(* same time in two transactions each, each half may win, never an older   *)
(* document.                                                               *)
(***************************************************************************)
ImportedIsStored ==
    \A f \in Names : run.cmd = "import" /\ task[f].at = "done" =>
        LET doc == store[About(f)]
            Rivals == {g \in Names : About(g) = About(f) /\ task[g].at # "none"}
        IN /\ doc.sections.file \in Rivals
           /\ doc.references \in {NoSource} \union [file : Rivals, body : {Whole}]
           /\ Rivals = {f} =>
                 /\ doc.sections = Source(f)
                 /\ doc.references = IF task[f].body = Zero THEN NoSource
                                     ELSE doc.sections

(***************************************************************************)
(* importRaw: a row of rfc-index.xml is never replaced by a made-up one,   *)
(* also not when looking it up fails.                                      *)
(***************************************************************************)
RowsAreKept ==
    [][run.cmd = "import" /\ run'.cmd = "import" =>
          \A n \in RFCs : store[n].row = "index" => store'[n].row = "index"]_vars

(***************************************************************************)
(* Every command ends, however the site answers: three attempts, and       *)
(* goroutines that give their slots back.                                  *)
(***************************************************************************)
CommandsEnd == run.at \notin Ended ~> run.at \in Ended

(***************************************************************************)
(* Once the site behaves, the text of every published RFC is in the raw    *)
(* directory for good: a wrong index leaves the cache when it expires, an  *)
(* empty file is not taken for a text, whoever left them there.            *)
(***************************************************************************)
TextsArrive == \A n \in RFCs : [](site >= n => <>[](raw[n] = Whole))
=============================================================================
