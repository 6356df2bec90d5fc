------------------------------ MODULE Pipeline ------------------------------
(***************************************************************************)
(* ingest/pipeline: the commands "build" (Pipeline.Run, which writes the   *)
(* served database in place) and "update" (Pipeline.RunUpdate, which       *)
(* writes a copy that cmdUpdate swaps in when it succeeds), one process at *)
(* a time, run again and again.  A run loads the index, upserts its rows,  *)
(* replaces the errata, chooses the numbers to process, hands each number  *)
(* to a goroutine of its own, waits for them all and stamps the meta       *)
(* table.  A goroutine takes one of Workers semaphore slots, fetches the   *)
(* text (from the raw directory when it is there), stores the sections in  *)
(* one transaction and the references in a second one, and reports.        *)
(*                                                                         *)
(* The environment issues new RFCs, lets a fetch fail, fails a database    *)
(* write, interrupts the process (SIGINT cancels the context), kills it,   *)
(* or installs a new program version whose parser yields other results.    *)
(* A text may also be one that a version can never store, on no run: its   *)
(* parser panics on it, or gives two of its sections the same number.      *)
(***************************************************************************)
EXTENDS Integers, FiniteSets

CONSTANTS
    RFCs,         \* RFC numbers, positive integers
    Unfetchable,  \* index entries not issued, or issued without plain text
    Workers,      \* Pipeline.Workers: the capacity of the semaphore
    Ranges,       \* the --from and --to of builds; 0 = unbounded
    MaxVersion,   \* program versions 1..MaxVersion
    RefsOf,       \* RefsOf[n][v]: what version v extracts from RFC n's body
    Refused,      \* Refused[v]: the RFCs whose text version v cannot store
    MaxHard,      \* bound: writes that fail by chance and kills, over all runs
    MaxSigint     \* bound: interrupts, over all runs

ASSUME RFCsAssumption == RFCs \subseteq Nat \ {0} /\ IsFiniteSet(RFCs)
ASSUME UnfetchableAssumption == Unfetchable \subseteq RFCs
ASSUME WorkersAssumption == Workers \in Nat \ {0}
Bounds == [from : Nat, to : Nat]
Everything == [from |-> 0, to |-> 0]
ASSUME RangesAssumption == Ranges \subseteq Bounds
ASSUME VersionAssumption == MaxVersion \in Nat \ {0}
ASSUME RefsAssumption == RefsOf \in [RFCs -> [1..MaxVersion -> SUBSET RFCs]]
ASSUME RefusedAssumption == Refused \in [1..MaxVersion -> SUBSET RFCs]
ASSUME BoundsAssumption == MaxHard \in Nat /\ MaxSigint \in Nat

VARIABLES
    published,   \* upstream: the numbers rfc-index.xml lists
    indexCache,  \* the numbers in the cached rfc-index.xml; {} = no file
    raw,         \* the numbers with a body in the raw directory
    version,     \* the installed program version
    dbs,         \* the database files: the served one and update's copy
    kind,        \* the command of the current or last run
    range,       \* its --from and --to
    phase,       \* where its main goroutine is; "idle" between runs
    indexed,     \* p.indexed: the index this run loaded
    queue,       \* rows still to upsert, then numbers still to dispatch
    numbers,     \* the numbers this run processes
    task,        \* the goroutine of each number
    outcome,     \* the status each number was counted under in stats
    dbErr,       \* processAll's dbErr is set (and cancel() was called)
    sigint,      \* the run's context was cancelled by SIGINT
    stamp,       \* meta keys this run has written: built_at, then the other
    result,      \* what the last run returned
    hard,        \* writes failed by chance and kills so far
    cut,         \* history: served RFCs that lost their second transaction
    sigints      \* interrupts so far

world == <<published, indexCache, raw, version>>
pool  == <<task, outcome, dbErr>>
run   == <<kind, range, indexed, numbers>>
vars  == <<world, dbs, run, phase, queue, pool, sigint, stamp, result, hard,
           cut, sigints>>

Files == {"live", "new"}

\* rows: rfcs; secs[n]: the version that parsed RFC n's sections, 0 when it
\* has none; refs[n]: rfc_references of source n; errata: the table has rows.
Database == [rows : SUBSET RFCs, secs : [RFCs -> 0..MaxVersion],
             refs : [RFCs -> SUBSET RFCs], errata : BOOLEAN]

EmptyDB == [rows |-> {}, secs |-> [n \in RFCs |-> 0],
            refs |-> [n \in RFCs |-> {}], errata |-> FALSE]

Phases == {"idle", "index", "upsert", "errata", "diff", "dispatch", "wait",
           "meta", "swap"}

\* "idle": not started; "select": at the semaphore; "ok", "fetch_failed" and
\* "db_failed": processOne has returned; "done": the goroutine has ended.
TaskStates == {"idle", "select", "fetch", "insert", "refs", "ok",
               "fetch_failed", "db_failed", "done"}
Outcomes == {"none", "ok", "fetch_failed", "db_failed"}
Results  == {"none", "ok", "error", "killed"}

TypeOK ==
    /\ published \in SUBSET RFCs /\ indexCache \in SUBSET RFCs
    /\ raw \in SUBSET RFCs /\ version \in 1..MaxVersion
    /\ dbs \in [Files -> Database]
    /\ kind \in {"build", "update"} /\ range \in Bounds
    /\ phase \in Phases
    /\ indexed \in SUBSET RFCs /\ queue \in SUBSET RFCs
    /\ numbers \in SUBSET RFCs
    /\ task \in [RFCs -> TaskStates] /\ outcome \in [RFCs -> Outcomes]
    /\ dbErr \in BOOLEAN /\ sigint \in BOOLEAN
    /\ stamp \in 0..2 /\ result \in Results
    /\ hard \in 0..MaxHard /\ cut \in SUBSET RFCs /\ sigints \in 0..MaxSigint
-----------------------------------------------------------------------------
\* The file a run writes to.
Target == IF kind = "update" THEN "new" ELSE "live"

\* processAll's derived context: SIGINT cancels its parent, cancel() itself.
CtxDone == sigint \/ dbErr

Holding == {n \in RFCs : task[n] \in {"fetch", "insert", "refs", "ok",
                                      "fetch_failed", "db_failed"}}
Ended == \A n \in RFCs : task[n] \in {"idle", "done"}

InRange(n) == /\ range.from = 0 \/ n >= range.from
              /\ range.to = 0 \/ n <= range.to

\* Numbers are taken in ascending order, and rows in the order of the index.
IsFirst(n) == n \in queue /\ \A m \in queue : n <= m

\* The numbers of the index to process: not those without a text, those out
\* of build's range, or those update finds stored already.
DiffAll == {n \in indexed \ Unfetchable : InRange(n)}
ToProcess == {n \in indexed \ Unfetchable :
                 /\ InRange(n)
                 /\ kind = "update" => dbs["new"].secs[n] = 0}

\* The run ends.  A failed update removes its working copy.
Return(res) ==
    /\ phase' = "idle"
    /\ result' = res
    /\ UNCHANGED <<world, run, queue, pool, sigint, stamp, sigints>>

DropCopy == dbs' = [dbs EXCEPT !["new"] = EmptyDB]
-----------------------------------------------------------------------------
Init ==
    /\ published \in SUBSET RFCs
    /\ indexCache = {} /\ raw = {} /\ version = 1
    /\ dbs = [f \in Files |-> EmptyDB]
    /\ kind = "build" /\ range = Everything /\ phase = "idle"
    /\ indexed = {} /\ queue = {} /\ numbers = {}
    /\ task = [n \in RFCs |-> "idle"] /\ outcome = [n \in RFCs |-> "none"]
    /\ dbErr = FALSE /\ sigint = FALSE /\ stamp = 0 /\ result = "none"
    /\ hard = 0 /\ cut = {} /\ sigints = 0

\* The environment: a new index entry, a new program between two runs.
PublishRFC ==
    \E n \in RFCs \ published :
        /\ published' = published \union {n}
        /\ UNCHANGED <<indexCache, raw, version, dbs, run, phase, queue, pool,
                       sigint, stamp, result, hard, cut, sigints>>

Upgrade ==
    /\ phase = "idle" /\ version < MaxVersion
    /\ version' = version + 1
    /\ UNCHANGED <<published, indexCache, raw, dbs, run, phase, queue, pool,
                   sigint, stamp, result, hard, cut, sigints>>

\* An update that opens a fresh file instead of a copy of the served one.
StartEmpty(k, r) ==
    /\ phase = "idle"
    /\ phase' = "index"
    /\ kind' = k /\ range' = r
    /\ indexed' = {} /\ queue' = {} /\ numbers' = {}
    /\ task' = [n \in RFCs |-> "idle"] /\ outcome' = [n \in RFCs |-> "none"]
    /\ dbErr' = FALSE /\ sigint' = FALSE /\ stamp' = 0 /\ result' = "none"
    /\ UNCHANGED <<world, dbs, hard, cut, sigints>>

\* A new process: cmdBuild opens the served file, cmdUpdate a VACUUM INTO
\* copy of it.  Nothing in memory survives from an earlier run.
Start(k, r) ==
    /\ phase = "idle"
    /\ phase' = "index"
    /\ kind' = k /\ range' = r
    /\ dbs' = IF k = "update" THEN [dbs EXCEPT !["new"] = dbs["live"]] ELSE dbs
    /\ indexed' = {} /\ queue' = {} /\ numbers' = {}
    /\ task' = [n \in RFCs |-> "idle"] /\ outcome' = [n \in RFCs |-> "none"]
    /\ dbErr' = FALSE /\ sigint' = FALSE /\ stamp' = 0 /\ result' = "none"
    /\ UNCHANGED <<world, hard, cut, sigints>>

StartBuild  == \E r \in Ranges : Start("build", r)
StartUpdate == Start("update", Everything)

Sigint ==
    /\ phase # "idle" /\ ~sigint /\ sigints < MaxSigint
    /\ sigint' = TRUE /\ sigints' = sigints + 1
    /\ UNCHANGED <<world, dbs, run, phase, queue, pool, stamp, result, hard,
                   cut>>

\* The goroutines of a build that are between their two transactions.
Halfway == IF kind = "build" THEN {n \in RFCs : task[n] = "refs"} ELSE {}

\* The process dies: committed transactions stay, the rest is lost.  The
\* stale copy of an update is never read again: the next update removes it.
Dies ==
    /\ phase' = "idle" /\ result' = "killed"
    /\ task' = [n \in RFCs |-> "idle"] /\ outcome' = [n \in RFCs |-> "none"]
    /\ dbErr' = FALSE
    /\ DropCopy
    /\ cut' = cut \union Halfway
    /\ UNCHANGED <<world, run, queue, sigint, stamp, sigints>>

Kill ==
    /\ phase # "idle" /\ hard < MaxHard
    /\ hard' = hard + 1
    /\ Dies

\* Nothing recovers the panic of a goroutine: it ends the process, on every
\* run that comes to this text again.
ParsePanics(n) ==
    /\ task[n] = "insert" /\ n \in Refused[version]
    /\ Dies
    /\ UNCHANGED hard
-----------------------------------------------------------------------------
Indexed(idx) ==
    /\ phase' = "upsert" /\ indexed' = idx /\ queue' = idx
    /\ UNCHANGED <<published, raw, version, dbs, kind, range, numbers, pool,
                   sigint, stamp, result, hard, cut, sigints>>

\* loadIndex: a cache file within its TTL (the model lets it expire at any
\* time).  Only build reads it.
LoadIndexCached ==
    /\ phase = "index" /\ kind = "build" /\ indexCache # {}
    /\ Indexed(indexCache) /\ UNCHANGED indexCache

\* loadIndexLive, and loadIndex on a miss; a failed saveCache is only logged.
LoadIndexLive ==
    /\ phase = "index" /\ ~sigint /\ published # {}
    /\ Indexed(published)
    /\ indexCache' \in {published, indexCache}

\* Any error on the way to the worker pool ends the run: the index or the
\* errata cannot be fetched or parsed, or an empty errata.json is refused.
LoadFails ==
    /\ phase \in {"index", "errata"}
    /\ DropCopy /\ Return("error") /\ UNCHANGED <<hard, cut>>

UpsertRFC ==
    /\ phase = "upsert"
    /\ \/ \E n \in queue :
            /\ IsFirst(n)
            /\ queue' = queue \ {n}
            /\ dbs' = [dbs EXCEPT ![Target].rows = @ \union {n}]
            /\ UNCHANGED phase
       \/ queue = {} /\ phase' = "errata" /\ UNCHANGED <<queue, dbs>>
    /\ UNCHANGED <<world, run, pool, sigint, stamp, result, hard, cut,
                   sigints>>

\* loadErrata/loadErrataLive and ReplaceAllErrata: an empty list is accepted
\* only over an empty table, and then writes nothing.
ReplaceErrata(rows) ==
    /\ phase = "errata" /\ (kind = "build" \/ ~sigint)
    /\ rows \/ ~dbs[Target].errata
    /\ phase' = "diff"
    /\ dbs' = [dbs EXCEPT ![Target].errata = rows]
    /\ UNCHANGED <<world, run, queue, pool, sigint, stamp, result, hard, cut,
                   sigints>>

\* The numbers update finds in the database are not taken out.
ChooseAll ==
    /\ phase = "diff"
    /\ phase' = "dispatch"
    /\ numbers' = DiffAll /\ queue' = DiffAll
    /\ UNCHANGED <<world, dbs, kind, range, indexed, pool, sigint, stamp,
                   result, hard, cut, sigints>>

\* A text on disk is taken for a text stored.
ChooseNotFetched ==
    /\ phase = "diff"
    /\ phase' = "dispatch"
    /\ numbers' = ToProcess \ raw /\ queue' = ToProcess \ raw
    /\ UNCHANGED <<world, dbs, kind, range, indexed, pool, sigint, stamp,
                   result, hard, cut, sigints>>

\* issuedNumbersInRange, and for update ExistingRFCNumbers.
ChooseNumbers ==
    /\ phase = "diff"
    /\ phase' = "dispatch"
    /\ numbers' = ToProcess /\ queue' = ToProcess
    /\ UNCHANGED <<world, dbs, kind, range, indexed, pool, sigint, stamp,
                   result, hard, cut, sigints>>

\* A database call of the main goroutine fails and rolls back.
DbFails ==
    /\ phase \in {"upsert", "errata", "diff", "meta"} /\ hard < MaxHard
    /\ hard' = hard + 1 /\ UNCHANGED cut
    /\ DropCopy /\ Return("error")
-----------------------------------------------------------------------------
\* processAll's loop: one goroutine per number until the context is done.
Dispatch ==
    /\ phase = "dispatch"
    /\ \/ \E n \in queue :
            /\ IsFirst(n) /\ ~CtxDone
            /\ queue' = queue \ {n}
            /\ task' = [task EXCEPT ![n] = "select"]
            /\ UNCHANGED phase
       \/ /\ queue = {} \/ CtxDone
          /\ phase' = "wait"
          /\ UNCHANGED <<queue, task>>
    /\ UNCHANGED <<world, dbs, run, outcome, dbErr, sigint, stamp, result,
                   hard, cut, sigints>>

\* The steps of a goroutine leave the main goroutine's state alone.
Step(n, from, to) == /\ task[n] = from
                     /\ task' = [task EXCEPT ![n] = to]
                     /\ UNCHANGED <<run, phase, queue, sigint, stamp, result,
                                    sigints, published, indexCache, version>>

\* A dropped semaphore: no test for a free slot.
AcquireUnbounded(n) ==
    /\ Step(n, "select", "fetch")
    /\ UNCHANGED <<raw, dbs, outcome, dbErr, hard, cut>>

\* The select: a free slot is taken even when the context is done too.
Acquire(n) ==
    /\ Cardinality(Holding) < Workers
    /\ Step(n, "select", "fetch")
    /\ UNCHANGED <<raw, dbs, outcome, dbErr, hard, cut>>

GiveUp(n) ==
    /\ CtxDone
    /\ Step(n, "select", "done")
    /\ UNCHANGED <<raw, dbs, outcome, dbErr, hard, cut>>

\* fetchRFCText: the raw directory, else the network, which needs a live
\* context; a body fetched is saved before it is used.
FetchHit(n) ==
    /\ n \in raw
    /\ Step(n, "fetch", "insert")
    /\ UNCHANGED <<raw, dbs, outcome, dbErr, hard, cut>>

FetchOK(n) ==
    /\ n \notin raw /\ ~CtxDone
    /\ Step(n, "fetch", "insert")
    /\ raw' = raw \union {n}
    /\ UNCHANGED <<dbs, outcome, dbErr, hard, cut>>

FetchFails(n) ==
    /\ n \notin raw
    /\ Step(n, "fetch", "fetch_failed")
    /\ UNCHANGED <<raw, dbs, outcome, dbErr, hard, cut>>

\* InsertRFCWithSections: one transaction for the row and all the sections.
InsertRFCWithSections(n) ==
    /\ n \notin Refused[version]
    /\ Step(n, "insert", "refs")
    /\ dbs' = [dbs EXCEPT ![Target].rows = @ \union {n},
                          ![Target].secs[n] = version]
    /\ UNCHANGED <<raw, outcome, dbErr, hard, cut>>

\* Two sections with one number: UNIQUE(rfc, number) fails the insert, the
\* transaction rolls back, and it will again on the next run.
InsertClashes(n) ==
    /\ n \in Refused[version]
    /\ Step(n, "insert", "db_failed")
    /\ UNCHANGED <<raw, dbs, outcome, dbErr, hard, cut>>

\* InsertReferences alone: nothing to insert leaves the old rows behind.
InsertOnly(n) ==
    /\ Step(n, "refs", "ok")
    /\ dbs' = IF RefsOf[n][version] = {} THEN dbs
              ELSE [dbs EXCEPT ![Target].refs[n] = RefsOf[n][version]]
    /\ cut' = IF kind = "build" THEN cut \ {n} ELSE cut
    /\ UNCHANGED <<raw, outcome, dbErr, hard>>

\* replaceReferences: a transaction of its own, empty set or not.
ReplaceReferences(n) ==
    /\ Step(n, "refs", "ok")
    /\ dbs' = [dbs EXCEPT ![Target].refs[n] = RefsOf[n][version]]
    /\ cut' = IF kind = "build" THEN cut \ {n} ELSE cut
    /\ UNCHANGED <<raw, outcome, dbErr, hard>>

\* Either transaction fails by chance and rolls back: a full disk, a lock.
StoreFails(n) ==
    /\ hard < MaxHard
    /\ \/ Step(n, "insert", "db_failed") /\ UNCHANGED cut
       \/ /\ Step(n, "refs", "db_failed")
          /\ cut' = cut \union (Halfway \intersect {n})
    /\ hard' = hard + 1
    /\ UNCHANGED <<raw, dbs, outcome, dbErr>>

\* Reported, but a failed write counted like a failed fetch.
ReportUncounted(n) ==
    /\ task[n] \in {"ok", "fetch_failed", "db_failed"}
    /\ Step(n, task[n], "done")
    /\ outcome' = [outcome EXCEPT ![n] = task[n]]
    /\ UNCHANGED <<raw, dbs, dbErr, hard, cut>>

\* An early return on a database error: no wg.Done, no slot release.
ReportLeaks(n) ==
    /\ task[n] \in {"ok", "fetch_failed"}
    /\ Step(n, task[n], "done")
    /\ outcome' = [outcome EXCEPT ![n] = task[n]]
    /\ UNCHANGED <<raw, dbs, dbErr, hard, cut>>

\* The critical section after processOne, and the deferred slot release.
Report(n) ==
    /\ task[n] \in {"ok", "fetch_failed", "db_failed"}
    /\ Step(n, task[n], "done")
    /\ outcome' = [outcome EXCEPT ![n] = task[n]]
    /\ dbErr' = (dbErr \/ task[n] = "db_failed")
    /\ UNCHANGED <<raw, dbs, hard, cut>>

Worker(n) == \/ Acquire(n) \/ GiveUp(n)
             \/ FetchHit(n) \/ FetchOK(n) \/ FetchFails(n)
             \/ InsertRFCWithSections(n) \/ InsertClashes(n)
             \/ ReplaceReferences(n) \/ StoreFails(n) \/ Report(n)
-----------------------------------------------------------------------------
Joined(next) ==
    /\ phase' = next
    /\ UNCHANGED <<world, dbs, run, queue, pool, sigint, stamp, result, hard,
                   cut, sigints>>

\* wg.Wait, then the database error if there was one.
Wait ==
    /\ phase = "wait" /\ Ended
    /\ \/ dbErr /\ DropCopy /\ Return("error") /\ UNCHANGED <<hard, cut>>
       \/ ~dbErr /\ Joined("meta")

\* The second key does not end the run: the table is stamped again.
RecordMetaAgain ==
    /\ phase = "meta"
    /\ stamp' = stamp + 1
    /\ UNCHANGED <<phase, result, world, dbs, run, queue, pool, sigint, hard,
                   cut, sigints>>

\* recordBuildMeta: two separate writes.  A build has then succeeded.
RecordBuildMeta ==
    /\ phase = "meta"
    /\ stamp' = stamp + 1
    /\ \/ stamp = 0 /\ UNCHANGED <<phase, result>>
       \/ stamp = 1 /\ kind = "update" /\ phase' = "swap" /\ UNCHANGED result
       \/ stamp = 1 /\ kind = "build" /\ phase' = "idle" /\ result' = "ok"
    /\ UNCHANGED <<world, dbs, run, queue, pool, sigint, hard, cut, sigints>>

\* cmdUpdate: finalizeWorkingCopy and the rename.
Swap ==
    /\ phase = "swap"
    /\ dbs' = [live |-> dbs["new"], new |-> EmptyDB]
    /\ Return("ok") /\ UNCHANGED <<hard, cut>>

SwapFails ==
    /\ phase = "swap" /\ hard < MaxHard
    /\ hard' = hard + 1 /\ UNCHANGED cut
    /\ DropCopy /\ Return("error")

Main == \/ LoadIndexCached \/ LoadIndexLive \/ LoadFails
        \/ UpsertRFC
        \/ \E rows \in BOOLEAN : ReplaceErrata(rows)
        \/ ChooseNumbers \/ DbFails
        \/ Dispatch \/ Wait \/ RecordBuildMeta \/ Swap \/ SwapFails

Next == \/ PublishRFC \/ Upgrade \/ StartBuild \/ StartUpdate
        \/ Sigint \/ Kill
        \/ Main
        \/ \E n \in RFCs : Worker(n) \/ ParsePanics(n)

Safety == Init /\ [][Next]_vars

(***************************************************************************)
(* The code makes progress by itself: its main goroutine and every worker  *)
(* are scheduled.  The rest is asked of the environment, and only for the  *)
(* promise that a published RFC is eventually served: the update timer     *)
(* (examples/systemd) gets its turn again and again, and the RFC Editor    *)
(* does not fail every request for the index, the errata or one text.      *)
(* Writes that fail by chance stop failing (MaxHard).  Texts that are      *)
(* refused do not: see CorpusSpec.                                         *)
(***************************************************************************)
Fairness ==
    /\ WF_vars(Main)
    /\ \A n \in RFCs : WF_vars(Worker(n)) /\ SF_vars(FetchOK(n))
    /\ SF_vars(StartUpdate)
    /\ SF_vars(kind = "update" /\ LoadIndexLive)
    /\ SF_vars(kind = "update" /\ ReplaceErrata(TRUE))

Spec == Safety /\ Fairness
-----------------------------------------------------------------------------
\* RFC n's references are the ones extracted with its sections.
Agrees(d, n) ==
    d.refs[n] = IF d.secs[n] = 0 THEN {} ELSE RefsOf[n][d.secs[n]]

Torn(d) == {n \in RFCs : ~Agrees(d, n)}
Stored(d) == {n \in RFCs : d.secs[n] # 0}

\* At most Workers goroutines are past the semaphore, and none outlives
\* processAll: no write reaches the database once the run goes on to stamp,
\* swap or close it (pipeline.go:362-405).
BoundedWorkers ==
    /\ Cardinality(Holding) <= Workers
    /\ phase \notin {"dispatch", "wait"} => Ended

\* In the served file, sections and references disagree only for an RFC that
\* a build is about to give its references, or whose last build was cut off
\* right there, by a failed second transaction or the end of the process, and
\* no build has come back to it since.  Nothing else tears one: no interrupt,
\* although it cancels the context of every goroutine (pipeline.go:426-431),
\* no update, and no re-parse that finds no references (pipeline.go:719).
TornOnlyWhereCut ==
    \A n \in Torn(dbs["live"]) :
        \/ n \in cut
        \/ kind = "build" /\ phase \in {"dispatch", "wait"} /\ task[n] = "refs"

\* A run that returned nil has dealt with every number it chose: stored with
\* its references, or counted as a failed fetch -- or, if it was interrupted,
\* left alone.  No failed write hides behind a nil (pipeline.go:252-268).
SuccessIsComplete ==
    phase = "idle" /\ result = "ok" =>
        \A n \in numbers :
            \/ /\ outcome[n] = "ok"
               /\ n \in Stored(dbs["live"]) /\ n \notin Torn(dbs["live"])
            \/ outcome[n] = "fetch_failed"
            \/ sigint /\ outcome[n] = "none"

\* An update neither changes nor drops a document the served file holds, and
\* gives it no document without its references: a torn RFC in the served file
\* was torn before.  Failed writes and kills included (main.go:185-257).
UpdateOnlyAdds ==
    [][kind = "update" =>
          /\ \A n \in Stored(dbs["live"]) :
                /\ dbs'["live"].secs[n] = dbs["live"].secs[n]
                /\ dbs'["live"].refs[n] = dbs["live"].refs[n]
          /\ Torn(dbs'["live"]) \subseteq Torn(dbs["live"])]_vars

\* The served database implements the abstract corpus: it only grows, only
\* with available RFCs, and every available one is stored in the end -- if the
\* program can store every available one that is missing.  One it cannot, by
\* a clash of section numbers (parser.go:415) or a panic (parser.go:301), ends
\* every update without a swap, and keeps all the later RFCs out with it.
C == INSTANCE Corpus WITH corpus <- Stored(dbs["live"]),
                          refused <- Refused[version]
CorpusSpec == C!Spec

\* Every run ends: no goroutine waits for ever at the semaphore, and the main
\* goroutine not for ever for one of them (pipeline.go:373-403).
RunsEnd == phase # "idle" ~> phase = "idle"

\* recordBuildMeta's comment: the meta table is stamped "once the corpus
\* insert/refresh transaction has completed successfully" (pipeline.go:335).
\* An interrupted run stamps it with numbers nobody has looked at.
StampedWhenProcessed ==
    phase \in {"meta", "swap"} /\ stamp > 0 =>
        \A n \in numbers : outcome[n] # "none"
-----------------------------------------------------------------------------
(***************************************************************************)
(* The inductive invariant behind the safety properties above.             *)
(***************************************************************************)
\* Everything a run works on was published and has a text.
IndexInv ==
    /\ indexCache \subseteq published /\ indexed \subseteq published
    /\ numbers \subseteq published \ Unfetchable
    /\ \A f \in Files : Stored(dbs[f]) \subseteq published \ Unfetchable

\* Only a running update has a working copy, and only an update swaps.
CopyInv == /\ phase = "idle" \/ kind = "build" => dbs["new"] = EmptyDB
           /\ phase = "swap" => kind = "update"

\* The pool is clean until the numbers are chosen; the loop then hands over
\* every one of them unless the context is done.
QueueInv ==
    /\ phase \in {"index", "upsert", "errata", "diff"} =>
          /\ ~dbErr
          /\ \A n \in RFCs : task[n] = "idle" /\ outcome[n] = "none"
    /\ phase = "dispatch" =>
          queue \subseteq numbers /\ \A n \in queue : task[n] = "idle"
    /\ phase \in {"dispatch", "wait", "meta", "swap"} =>
          \A n \in numbers : \/ phase = "dispatch" /\ n \in queue
                             \/ task[n] # "idle"
                             \/ CtxDone
    /\ phase \in {"meta", "swap"} => ~dbErr

\* What the state and the status of a goroutine say of the file written.
TaskInv ==
    \A n \in RFCs :
       /\ task[n] # "idle" => n \in numbers
       /\ outcome[n] # "none" => task[n] = "done"
       /\ task[n] = "done" => outcome[n] # "none" \/ CtxDone
       /\ outcome[n] = "db_failed" => dbErr
       /\ task[n] = "refs" => dbs[Target].secs[n] = version
       /\ phase # "idle" /\ (task[n] = "ok" \/ outcome[n] = "ok") =>
             n \in Stored(dbs[Target]) /\ n \notin Torn(dbs[Target])

\* The working copy keeps what it was copied from, and is torn only where the
\* served file is or where a failed write will stop the swap.
UpdateInv ==
    kind = "update" /\ phase # "idle" =>
       /\ \A n \in Stored(dbs["live"]) :
             /\ n \notin numbers
             /\ dbs["new"].secs[n] = dbs["live"].secs[n]
             /\ dbs["new"].refs[n] = dbs["live"].refs[n]
       /\ Stored(dbs["new"]) \intersect Refused[version]
             \subseteq Stored(dbs["live"])
       /\ \A n \in Torn(dbs["new"]) :
             \/ n \in Torn(dbs["live"])
             \/ task[n] \in {"refs", "db_failed"}
             \/ outcome[n] = "db_failed"

IInv == /\ TypeOK /\ BoundedWorkers /\ IndexInv /\ CopyInv /\ QueueInv
        /\ TaskInv /\ UpdateInv /\ TornOnlyWhereCut /\ SuccessIsComplete
=============================================================================
