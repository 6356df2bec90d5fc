--------------------------- MODULE PipelineProofs ---------------------------
(***************************************************************************)
(* Proofs about module Pipeline, for every set of RFCs, every number of    *)
(* workers, every parser and every bound on the faults.                    *)
(***************************************************************************)
EXTENDS Pipeline, FiniteSetTheorems, TLAPS

(***************************************************************************)
(* The writes of the program keep a file a well-formed database.           *)
(***************************************************************************)
LEMMA FilesFact == "new" \in Files /\ "live" \in Files /\ Target \in Files
  BY DEF Files, Target

LEMMA EmptyDBType == EmptyDB \in Database
  BY VersionAssumption DEF EmptyDB, Database

LEMMA CleanPool == /\ [n \in RFCs |-> "idle"] \in [RFCs -> TaskStates]
                   /\ [n \in RFCs |-> "none"] \in [RFCs -> Outcomes]
  BY DEF TaskStates, Outcomes

LEMMA RowsType ==
  ASSUME dbs \in [Files -> Database], NEW f \in Files, NEW n \in RFCs
  PROVE  [dbs EXCEPT ![f].rows = @ \union {n}] \in [Files -> Database]
  BY DEF Database

LEMMA SectionsType ==
  ASSUME dbs \in [Files -> Database], NEW f \in Files, NEW n \in RFCs,
         NEW v \in 0..MaxVersion
  PROVE  [dbs EXCEPT ![f].rows = @ \union {n}, ![f].secs[n] = v]
            \in [Files -> Database]
<1>1. PICK db \in Database : db = [dbs[f] EXCEPT !.rows = @ \union {n}, !.secs[n] = v]
  BY DEF Database
<1>2. [dbs EXCEPT ![f].rows = @ \union {n}, ![f].secs[n] = v] = [dbs EXCEPT ![f] = db]
  BY <1>1
<1>3. QED
  BY <1>2

LEMMA ReferencesType ==
  ASSUME dbs \in [Files -> Database], NEW f \in Files, NEW n \in RFCs,
         NEW S \in SUBSET RFCs
  PROVE  [dbs EXCEPT ![f].refs[n] = S] \in [Files -> Database]
  BY DEF Database

LEMMA ErrataType ==
  ASSUME dbs \in [Files -> Database], NEW f \in Files, NEW b \in BOOLEAN
  PROVE  [dbs EXCEPT ![f].errata = b] \in [Files -> Database]
  BY DEF Database

LEMMA DropType ==
  ASSUME dbs \in [Files -> Database], DropCopy
  PROVE  dbs' \in [Files -> Database]
  BY EmptyDBType DEF DropCopy, Files

LEMMA InitType == Init => TypeOK
<1> SUFFICES ASSUME Init PROVE TypeOK
  OBVIOUS
<1>1. dbs \in [Files -> Database]
  BY EmptyDBType DEF Init
<1>2. task \in [RFCs -> TaskStates] /\ outcome \in [RFCs -> Outcomes]
  BY CleanPool DEF Init
<1>3. dbErr \in BOOLEAN /\ sigint \in BOOLEAN
  BY DEF Init
<1>4. QED
  BY <1>1, <1>2, <1>3, VersionAssumption, BoundsAssumption
     DEF Init, TypeOK, Phases, Results, Everything, Bounds

\* The environment's and the main goroutine's steps keep the types.
LEMMA MainType ==
  ASSUME TypeOK,
         \/ PublishRFC \/ Upgrade \/ StartBuild \/ StartUpdate \/ Sigint
         \/ Main
  PROVE  TypeOK'
<1> USE RangesAssumption, VersionAssumption, BoundsAssumption
    DEF TypeOK, Phases, Results, world, run, pool
<1> USE FilesFact, DropType
<1>1. CASE PublishRFC  BY <1>1 DEF PublishRFC
<1>2. CASE Upgrade     BY <1>2 DEF Upgrade
<1>3. CASE StartBuild
  <2>0. dbErr' \in BOOLEAN /\ sigint' \in BOOLEAN
    BY <1>3 DEF StartBuild, Start
  <2>1. task' \in [RFCs -> TaskStates] /\ outcome' \in [RFCs -> Outcomes]
    BY <1>3, CleanPool DEF StartBuild, Start
  <2>2. QED BY <1>3, <2>0, <2>1 DEF StartBuild, Start
<1>4. CASE StartUpdate
  <2>0. dbErr' \in BOOLEAN /\ sigint' \in BOOLEAN
    BY <1>4 DEF StartUpdate, Start
  <2>1. dbs' \in [Files -> Database]
    BY <1>4 DEF StartUpdate, Start
  <2>2. task' \in [RFCs -> TaskStates] /\ outcome' \in [RFCs -> Outcomes]
    BY <1>4, CleanPool DEF StartUpdate, Start
  <2>3. QED
    BY <1>4, <2>0, <2>1, <2>2 DEF StartUpdate, Start, Everything, Bounds
<1>5. CASE Sigint      BY <1>5 DEF Sigint
<1>6. CASE Main
  <2>1. CASE LoadIndexCached BY <2>1 DEF LoadIndexCached, Indexed
  <2>2. CASE LoadIndexLive   BY <2>2 DEF LoadIndexLive, Indexed
  <2>3. CASE LoadFails       BY <2>3 DEF LoadFails, Return
  <2>4. CASE UpsertRFC
    BY <2>4, RowsType DEF UpsertRFC, IsFirst
  <2>5. CASE \E rows \in BOOLEAN : ReplaceErrata(rows)
    BY <2>5, ErrataType DEF ReplaceErrata
  <2>6. CASE ChooseNumbers   BY <2>6 DEF ChooseNumbers, ToProcess
  <2>7. CASE DbFails         BY <2>7 DEF DbFails, Return
  <2>8. CASE Dispatch        BY <2>8 DEF Dispatch, IsFirst, TaskStates
  <2>9. CASE Wait            BY <2>9 DEF Wait, Joined, Return
  <2>10. CASE RecordBuildMeta BY <2>10 DEF RecordBuildMeta
  <2>11. CASE Swap           BY <2>11, EmptyDBType DEF Swap, Return, Files
  <2>12. CASE SwapFails      BY <2>12 DEF SwapFails, Return
  <2>13. QED
    BY <1>6, <2>1, <2>2, <2>3, <2>4, <2>5, <2>6, <2>7, <2>8, <2>9, <2>10,
       <2>11, <2>12 DEF Main
<1>7. QED BY <1>1, <1>2, <1>3, <1>4, <1>5, <1>6

\* Kills and panics: the end of the process, wherever it is.
Death == Kill \/ \E n \in RFCs : ParsePanics(n)

LEMMA DeathFrame == Death => Dies
  BY DEF Death, Kill, ParsePanics

LEMMA DeathType ==
  ASSUME TypeOK, Death
  PROVE  TypeOK'
<1>1. Dies /\ hard' \in 0..MaxHard
  BY BoundsAssumption DEF Death, Kill, ParsePanics, TypeOK
<1>2. dbErr' \in BOOLEAN /\ sigint' \in BOOLEAN
  BY <1>1 DEF Dies, TypeOK
<1>3. task' \in [RFCs -> TaskStates] /\ outcome' \in [RFCs -> Outcomes]
  BY <1>1, CleanPool DEF Dies
<1>4. dbs' \in [Files -> Database] /\ cut' \in SUBSET RFCs
  BY <1>1, DropType DEF Dies, Halfway, TypeOK
<1>5. QED
  BY <1>1, <1>2, <1>3, <1>4 DEF Dies, TypeOK, Phases, Results, world, run

LEMMA WorkerType ==
  ASSUME TypeOK, NEW n \in RFCs, Worker(n)
  PROVE  TypeOK'
<1> USE RefsAssumption, VersionAssumption, BoundsAssumption
    DEF TypeOK, TaskStates, Outcomes, run, Step
<1>0. RefsOf[n][version] \in SUBSET RFCs /\ version \in 0..MaxVersion
  BY RefsAssumption
<1>1. CASE Acquire(n) \/ GiveUp(n) \/ FetchHit(n) \/ FetchOK(n) \/ FetchFails(n)
  BY <1>1 DEF Acquire, GiveUp, FetchHit, FetchOK, FetchFails
<1>2. CASE InsertRFCWithSections(n)
  BY <1>2, <1>0, FilesFact, SectionsType DEF InsertRFCWithSections
<1>3. CASE ReplaceReferences(n)
  <2>1. dbs' \in [Files -> Database] /\ cut' \in SUBSET RFCs
    BY <1>3, <1>0, FilesFact, ReferencesType DEF ReplaceReferences
  <2>2. QED BY <1>3, <2>1 DEF ReplaceReferences
<1>4. CASE StoreFails(n) \/ InsertClashes(n)
  BY <1>4 DEF StoreFails, InsertClashes, Halfway
<1>5. CASE Report(n)      BY <1>5 DEF Report
<1>6. QED BY <1>1, <1>2, <1>3, <1>4, <1>5 DEF Worker

LEMMA TypePreserved == TypeOK /\ [Next]_vars => TypeOK'
<1> SUFFICES ASSUME TypeOK, [Next]_vars PROVE TypeOK'
  OBVIOUS
<1>1. CASE UNCHANGED vars
  BY <1>1 DEF TypeOK, vars, world, run, pool
<1>2. CASE Next
  BY <1>2, MainType, DeathType, WorkerType DEF Next, Death
<1>3. QED BY <1>1, <1>2

\* Every variable keeps the type of the program's data (TypeOK).
THEOREM TypeCorrect == Safety => []TypeOK
  BY InitType, TypePreserved, PTL DEF Safety
-----------------------------------------------------------------------------
(***************************************************************************)
(* The worker pool.  Holding is finite, so taking a slot adds one to its   *)
(* cardinality and nothing else a goroutine does adds to it.               *)
(***************************************************************************)
LEMMA HoldingFinite == IsFiniteSet(Holding)
<1>1. Holding \subseteq RFCs
  BY DEF Holding
<1>2. QED BY <1>1, RFCsAssumption, FS_Subset

LEMMA HoldingSmaller ==
  ASSUME Holding' \subseteq Holding, Cardinality(Holding) <= Workers
  PROVE  Cardinality(Holding') <= Workers
<1>1. /\ IsFiniteSet(Holding')
      /\ Cardinality(Holding') <= Cardinality(Holding)
  BY HoldingFinite, FS_Subset
<1>2. Cardinality(Holding') \in Nat /\ Cardinality(Holding) \in Nat
  BY <1>1, HoldingFinite, FS_CardinalityType
<1>3. QED BY <1>1, <1>2, WorkersAssumption

LEMMA InitPool == Init => BoundedWorkers
<1> SUFFICES ASSUME Init PROVE BoundedWorkers
  OBVIOUS
<1>1. Holding = {}
  BY DEF Init, Holding
<1>2. Cardinality(Holding) = 0
  BY <1>1, FS_EmptySet
<1>3. QED BY <1>2, WorkersAssumption DEF Init, BoundedWorkers, Ended

LEMMA MainPool ==
  ASSUME TypeOK, BoundedWorkers,
         \/ PublishRFC \/ Upgrade \/ StartBuild \/ StartUpdate \/ Sigint
         \/ Death \/ Main
  PROVE  BoundedWorkers'
<1>1. Holding' \subseteq Holding /\ (phase' \notin {"dispatch", "wait"} => Ended')
  <2> USE DEF BoundedWorkers, Holding, Ended, pool
  <2>1. CASE PublishRFC \/ Upgrade \/ Sigint
    BY <2>1 DEF PublishRFC, Upgrade, Sigint
  <2>2. CASE StartBuild \/ StartUpdate \/ Death
    BY <2>2, DeathFrame DEF StartBuild, StartUpdate, Start, Dies
  <2>3. CASE LoadIndexCached \/ LoadIndexLive \/ ChooseNumbers \/ RecordBuildMeta
    BY <2>3 DEF LoadIndexCached, LoadIndexLive, Indexed, ChooseNumbers,
                RecordBuildMeta
  <2>4. CASE LoadFails \/ DbFails \/ Swap \/ SwapFails
    BY <2>4 DEF LoadFails, DbFails, Swap, SwapFails, Return
  <2>5. CASE UpsertRFC \/ \E rows \in BOOLEAN : ReplaceErrata(rows)
    BY <2>5 DEF UpsertRFC, ReplaceErrata
  <2>6. CASE Dispatch
    BY <2>6 DEF Dispatch, IsFirst, TypeOK
  <2>7. CASE Wait
    BY <2>7 DEF Wait, Joined, Return
  <2>8. QED BY <2>1, <2>2, <2>3, <2>4, <2>5, <2>6, <2>7 DEF Main
<1>2. Cardinality(Holding') <= Workers
  BY <1>1, HoldingSmaller DEF BoundedWorkers
<1>3. QED BY <1>1, <1>2 DEF BoundedWorkers

LEMMA WorkerPool ==
  ASSUME TypeOK, BoundedWorkers, NEW n \in RFCs, Worker(n)
  PROVE  BoundedWorkers'
<1>1. phase' = phase /\ phase \in {"dispatch", "wait"}
  <2>1. phase' = phase /\ task[n] \notin {"idle", "done"}
    BY DEF Worker, Acquire, GiveUp, FetchHit, FetchOK, FetchFails,
           InsertRFCWithSections, ReplaceReferences, StoreFails, InsertClashes, InsertClashes, Report, Step
  <2>2. QED BY <2>1 DEF BoundedWorkers, Ended
<1>2. CASE Acquire(n)
  <2>1. Holding' \subseteq Holding \union {n} /\ Cardinality(Holding) < Workers
    BY <1>2 DEF Acquire, Step, Holding, TypeOK
  <2>2. /\ IsFiniteSet(Holding \union {n})
        /\ Cardinality(Holding \union {n}) <= Cardinality(Holding) + 1
    BY HoldingFinite, FS_AddElement, FS_CardinalityType
  <2>3. /\ IsFiniteSet(Holding')
        /\ Cardinality(Holding') <= Cardinality(Holding \union {n})
    BY <2>1, <2>2, FS_Subset
  <2>4. /\ Cardinality(Holding') \in Nat
        /\ Cardinality(Holding) \in Nat
        /\ Cardinality(Holding \union {n}) \in Nat
    BY <2>2, <2>3, HoldingFinite, FS_CardinalityType
  <2>5. Cardinality(Holding') <= Workers
    BY <2>1, <2>2, <2>3, <2>4, WorkersAssumption
  <2>6. QED BY <1>1, <2>5 DEF BoundedWorkers
<1>3. CASE ~Acquire(n)
  <2>1. Holding' \subseteq Holding
    BY <1>3 DEF Worker, GiveUp, FetchHit, FetchOK, FetchFails, Report, Step,
                InsertRFCWithSections, ReplaceReferences, StoreFails, InsertClashes, Holding,
                TypeOK
  <2>2. QED BY <1>1, <2>1, HoldingSmaller DEF BoundedWorkers
<1>4. QED BY <1>2, <1>3

\* At most Workers goroutines are past the semaphore, and none outlives
\* processAll, whatever fails, is interrupted or killed (BoundedWorkers).
THEOREM PoolIsBounded == Safety => []BoundedWorkers
<1>1. TypeOK /\ BoundedWorkers /\ [Next]_vars => BoundedWorkers'
  <2> SUFFICES ASSUME TypeOK, BoundedWorkers, [Next]_vars
               PROVE  BoundedWorkers'
    OBVIOUS
  <2>1. CASE UNCHANGED vars
    BY <2>1 DEF BoundedWorkers, Holding, Ended, vars, pool
  <2>2. CASE Next
    BY <2>2, MainPool, WorkerPool DEF Next, Death
  <2>3. QED BY <2>1, <2>2
<1>2. QED BY InitPool, <1>1, TypeCorrect, PTL DEF Safety
-----------------------------------------------------------------------------
(***************************************************************************)
(* What each write does to the documents -- sections and references -- of  *)
(* the two files.                                                          *)
(***************************************************************************)
SameDocs(d, e) == d.secs = e.secs /\ d.refs = e.refs

LEMMA SameDocsFact ==
  ASSUME NEW d, NEW e, SameDocs(d, e)
  PROVE  Stored(d) = Stored(e) /\ Torn(d) = Torn(e)
  BY DEF SameDocs, Stored, Torn, Agrees

LEMMA EmptyDocs == Stored(EmptyDB) = {} /\ Torn(EmptyDB) = {}
  BY DEF EmptyDB, Stored, Torn, Agrees

LEMMA DropDocs ==
  ASSUME TypeOK, DropCopy
  PROVE  dbs'["live"] = dbs["live"] /\ dbs'["new"] = EmptyDB
  BY DEF TypeOK, DropCopy, Files

\* Rows and errata are no part of a document.
LEMMA RowDocs ==
  ASSUME TypeOK, UpsertRFC \/ \E rows \in BOOLEAN : ReplaceErrata(rows)
  PROVE  /\ \A f \in Files : SameDocs(dbs'[f], dbs[f])
         /\ kind = "update" => dbs'["live"] = dbs["live"]
         /\ kind = "build" => dbs'["new"] = dbs["new"]
<1>1. CASE UpsertRFC
  <2>1. CASE UNCHANGED dbs
    BY <2>1 DEF SameDocs
  <2>2. CASE \E n \in queue : dbs' = [dbs EXCEPT ![Target].rows = @ \union {n}]
    BY <2>2 DEF TypeOK, Database, Files, Target, SameDocs
  <2>3. QED BY <1>1, <2>1, <2>2 DEF UpsertRFC
<1>2. CASE \E rows \in BOOLEAN : ReplaceErrata(rows)
  BY <1>2 DEF ReplaceErrata, TypeOK, Database, Files, Target, SameDocs
<1>3. QED BY <1>1, <1>2

LEMMA InsertDocs ==
  ASSUME TypeOK, NEW n \in RFCs, InsertRFCWithSections(n)
  PROVE  /\ dbs'[Target].secs = [dbs[Target].secs EXCEPT ![n] = version]
         /\ dbs'[Target].refs = dbs[Target].refs
         /\ \A f \in Files \ {Target} : dbs'[f] = dbs[f]
  BY DEF InsertRFCWithSections, TypeOK, Database, Files, Target

LEMMA ReplaceDocs ==
  ASSUME TypeOK, NEW n \in RFCs, ReplaceReferences(n)
  PROVE  /\ dbs'[Target].secs = dbs[Target].secs
         /\ dbs'[Target].refs = [dbs[Target].refs EXCEPT ![n] = RefsOf[n][version]]
         /\ \A f \in Files \ {Target} : dbs'[f] = dbs[f]
  BY DEF ReplaceReferences, TypeOK, Database, Files, Target

\* Every other step of a goroutine leaves the files alone.
Quiet(n) == \/ Acquire(n) \/ GiveUp(n) \/ FetchHit(n) \/ FetchOK(n)
            \/ FetchFails(n) \/ StoreFails(n) \/ InsertClashes(n)
            \/ Report(n)

LEMMA QuietDocs ==
  ASSUME NEW n \in RFCs, Quiet(n)
  PROVE  dbs' = dbs
  BY DEF Quiet, Acquire, GiveUp, FetchHit, FetchOK, FetchFails, StoreFails, InsertClashes,
         Report
-----------------------------------------------------------------------------
(***************************************************************************)
(* The inductive invariant, one conjunct at a time.                        *)
(***************************************************************************)
LEMMA InitInv == Init => IInv
<1> SUFFICES ASSUME Init PROVE IInv
  OBVIOUS
<1>1. TypeOK /\ BoundedWorkers
  BY InitType, InitPool
<1>2. \A f \in Files : Stored(dbs[f]) = {} /\ Torn(dbs[f]) = {}
  BY EmptyDocs DEF Init
<1>3. IndexInv
  BY <1>2 DEF Init, IndexInv
<1>4. CopyInv
  BY DEF Init, CopyInv, Files
<1>5. QueueInv /\ UpdateInv /\ SuccessIsComplete
  BY DEF Init, QueueInv, UpdateInv, SuccessIsComplete
<1>6. TaskInv
  BY DEF Init, TaskInv
<1>7. TornOnlyWhereCut
  BY <1>2, FilesFact DEF TornOnlyWhereCut
<1>8. QED BY <1>1, <1>3, <1>4, <1>5, <1>6, <1>7 DEF IInv

LEMMA IndexStep ==
  ASSUME IInv, Next PROVE IndexInv'
<1> USE DEF IInv, IndexInv, world, run
<1>1. CASE PublishRFC \/ Upgrade \/ Sigint
  BY <1>1 DEF PublishRFC, Upgrade, Sigint
<1>2. CASE StartBuild \/ StartUpdate
  BY <1>2 DEF StartBuild, StartUpdate, Start, TypeOK, Files
<1>3. CASE Death \/ LoadFails \/ DbFails \/ Wait \/ SwapFails
  BY <1>3, DeathFrame, DropDocs, EmptyDocs
     DEF Dies, LoadFails, DbFails, Wait, Joined, SwapFails, Return, Files
<1>4. CASE LoadIndexCached \/ LoadIndexLive
  BY <1>4 DEF LoadIndexCached, LoadIndexLive, Indexed
<1>5. CASE UpsertRFC \/ \E rows \in BOOLEAN : ReplaceErrata(rows)
  <2>1. \A f \in Files : Stored(dbs'[f]) = Stored(dbs[f])
    BY <1>5, RowDocs, SameDocsFact
  <2>2. QED BY <1>5, <2>1 DEF UpsertRFC, ReplaceErrata
<1>6. CASE ChooseNumbers \/ Dispatch \/ RecordBuildMeta
  BY <1>6 DEF ChooseNumbers, ToProcess, Dispatch, RecordBuildMeta
<1>7. CASE Swap
  BY <1>7, EmptyDocs DEF Swap, Return, Files
<1>8. ASSUME NEW n \in RFCs, Quiet(n) PROVE IndexInv'
  BY <1>8, QuietDocs DEF Quiet, Acquire, GiveUp, FetchHit, FetchOK,
     FetchFails, StoreFails, InsertClashes, Report, Step
<1>9. ASSUME NEW n \in RFCs, InsertRFCWithSections(n) PROVE IndexInv'
  <2>1. \A f \in Files : Stored(dbs'[f]) \subseteq Stored(dbs[f]) \union {n}
    <3>1. ASSUME NEW m \in Stored(dbs'[Target])
          PROVE  m \in Stored(dbs[Target]) \union {n}
      <4>1. /\ dbs'[Target].secs = [dbs[Target].secs EXCEPT ![n] = version]
            /\ dbs[Target].secs \in [RFCs -> 0..MaxVersion]
        BY <1>9, InsertDocs, FilesFact DEF TypeOK, Database
      <4>2. QED BY <4>1 DEF Stored
    <3>2. \A f \in Files \ {Target} : Stored(dbs'[f]) = Stored(dbs[f])
      BY <1>9, InsertDocs
    <3>3. QED BY <3>1, <3>2
  <2>2. n \in published \ Unfetchable
    BY <1>9 DEF InsertRFCWithSections, Step, TaskInv
  <2>3. QED BY <1>9, <2>1, <2>2 DEF InsertRFCWithSections, Step
<1>10. ASSUME NEW n \in RFCs, ReplaceReferences(n) PROVE IndexInv'
  <2>1. \A f \in Files : Stored(dbs'[f]) = Stored(dbs[f])
    BY <1>10, ReplaceDocs DEF Stored
  <2>2. QED BY <1>10, <2>1 DEF ReplaceReferences, Step
<1>11. QED
  BY <1>1, <1>2, <1>3, <1>4, <1>5, <1>6, <1>7, <1>8, <1>9, <1>10
     DEF Next, Death, Main, Worker, Quiet

LEMMA CopyStep ==
  ASSUME IInv, Next PROVE CopyInv'
<1> USE DEF IInv, CopyInv, run
<1>1. CASE PublishRFC \/ Upgrade \/ Sigint
  BY <1>1 DEF PublishRFC, Upgrade, Sigint
<1>2. CASE StartBuild \/ StartUpdate
  BY <1>2 DEF StartBuild, StartUpdate, Start
<1>3. CASE Death \/ LoadFails \/ DbFails \/ SwapFails
  BY <1>3, DeathFrame, DropDocs DEF Dies, LoadFails, DbFails, SwapFails, Return
<1>4. CASE Wait
  BY <1>4, DropDocs DEF Wait, Joined, Return
<1>5. CASE LoadIndexCached \/ LoadIndexLive \/ ChooseNumbers \/ Dispatch
             \/ RecordBuildMeta
  BY <1>5 DEF LoadIndexCached, LoadIndexLive, Indexed, ChooseNumbers, Dispatch,
              RecordBuildMeta
<1>6. CASE UpsertRFC \/ \E rows \in BOOLEAN : ReplaceErrata(rows)
  BY <1>6, RowDocs DEF UpsertRFC, ReplaceErrata
<1>7. CASE Swap
  BY <1>7 DEF Swap, Return
<1>8. ASSUME NEW n \in RFCs, Worker(n) PROVE CopyInv'
  <2>1. kind' = kind /\ phase' = phase /\ phase # "idle"
    <3>1. task[n] \notin {"idle", "done"} /\ kind' = kind /\ phase' = phase
      BY <1>8 DEF Worker, Acquire, GiveUp, FetchHit, FetchOK, FetchFails,
         InsertRFCWithSections, ReplaceReferences, StoreFails, InsertClashes, InsertClashes, Report, Step
    <3>2. QED BY <3>1 DEF BoundedWorkers, Ended
  <2>2. CASE Quiet(n)
    BY <2>1, <2>2, QuietDocs
  <2>3. CASE InsertRFCWithSections(n) \/ ReplaceReferences(n)
    BY <2>1, <2>3, InsertDocs, ReplaceDocs DEF Files, Target
  <2>4. QED BY <1>8, <2>2, <2>3 DEF Worker, Quiet
<1>9. QED
  BY <1>1, <1>2, <1>3, <1>4, <1>5, <1>6, <1>7, <1>8 DEF Next, Death, Main

LEMMA QueueStep ==
  ASSUME IInv, Next PROVE QueueInv'
<1> USE DEF IInv, QueueInv, CtxDone, pool, run
<1>1. CASE PublishRFC \/ Upgrade \/ Sigint
  BY <1>1 DEF PublishRFC, Upgrade, Sigint
<1>2. CASE StartBuild \/ StartUpdate \/ Death
  BY <1>2, DeathFrame DEF StartBuild, StartUpdate, Start, Dies
<1>3. CASE LoadFails \/ DbFails \/ Swap \/ SwapFails
  BY <1>3 DEF LoadFails, DbFails, Swap, SwapFails, Return
<1>4. CASE LoadIndexCached \/ LoadIndexLive
  BY <1>4 DEF LoadIndexCached, LoadIndexLive, Indexed
<1>5. CASE UpsertRFC \/ \E rows \in BOOLEAN : ReplaceErrata(rows)
  BY <1>5 DEF UpsertRFC, ReplaceErrata
<1>6. CASE ChooseNumbers
  BY <1>6 DEF ChooseNumbers, ToProcess, TypeOK
<1>7. CASE Dispatch
  BY <1>7 DEF Dispatch, IsFirst, TypeOK
<1>8. CASE Wait
  BY <1>8 DEF Wait, Joined, Return
<1>9. CASE RecordBuildMeta
  BY <1>9 DEF RecordBuildMeta
<1>10. ASSUME NEW n \in RFCs, Worker(n) PROVE QueueInv'
  <2>1. /\ phase' = phase /\ queue' = queue /\ numbers' = numbers
        /\ sigint' = sigint /\ (dbErr => dbErr')
        /\ task[n] \notin {"idle", "done"}
        /\ \A m \in RFCs \ {n} : task'[m] = task[m]
        /\ task'[n] # "idle"
    BY <1>10 DEF Worker, Acquire, GiveUp, FetchHit, FetchOK, FetchFails,
       InsertRFCWithSections, ReplaceReferences, StoreFails, InsertClashes, InsertClashes, Report, Step, TypeOK
  <2>2. phase \in {"dispatch", "wait"}
    BY <2>1 DEF BoundedWorkers, Ended
  <2>3. QED BY <2>1, <2>2 DEF TypeOK
<1>11. QED
  BY <1>1, <1>2, <1>3, <1>4, <1>5, <1>6, <1>7, <1>8, <1>9, <1>10 DEF Next, Death, Main

\* A goroutine runs only inside processAll, on a number of the run.
LEMMA WorkerFrame ==
  ASSUME IInv, NEW n \in RFCs, Worker(n)
  PROVE  /\ phase' = phase /\ phase \in {"dispatch", "wait"}
         /\ kind' = kind /\ numbers' = numbers /\ version' = version
         /\ sigint' = sigint /\ (dbErr => dbErr') /\ Target' = Target
         /\ task[n] \notin {"idle", "done"} /\ outcome[n] = "none"
         /\ n \in numbers /\ result' = result
         /\ \A m \in RFCs \ {n} : task'[m] = task[m] /\ outcome'[m] = outcome[m]
<1>1. /\ phase' = phase /\ kind' = kind /\ numbers' = numbers
      /\ version' = version /\ sigint' = sigint /\ (dbErr => dbErr')
      /\ task[n] \notin {"idle", "done"} /\ result' = result
      /\ \A m \in RFCs \ {n} : task'[m] = task[m] /\ outcome'[m] = outcome[m]
  BY DEF Worker, Acquire, GiveUp, FetchHit, FetchOK, FetchFails, Step, Report,
         InsertRFCWithSections, ReplaceReferences, StoreFails, InsertClashes, IInv, TypeOK, run
<1>2. phase \in {"dispatch", "wait"}
  BY <1>1 DEF IInv, BoundedWorkers, Ended
<1>3. n \in numbers /\ outcome[n] = "none"
  BY <1>1 DEF IInv, TaskInv
<1>4. QED BY <1>1, <1>2, <1>3 DEF Target

\* Outside processAll no goroutine is running.
LEMMA MainFrame ==
  ASSUME IInv, phase \notin {"dispatch", "wait"}
  PROVE  \A n \in RFCs : task[n] \in {"idle", "done"}
  BY DEF IInv, BoundedWorkers, Ended

LEMMA TaskStep ==
  ASSUME IInv, Next PROVE TaskInv'
<1> USE DEF IInv, TaskInv, CtxDone
<1>1. CASE PublishRFC \/ Upgrade \/ Sigint
  <2>1. /\ UNCHANGED <<task, outcome, dbErr, numbers, dbs, phase, kind>>
        /\ sigint => sigint'
        /\ version' = version \/ phase = "idle"
    BY <1>1 DEF PublishRFC, Upgrade, Sigint, pool, run, world
  <2>2. Target' = Target
    BY <2>1 DEF Target
  <2>3. QED BY <2>1, <2>2, MainFrame
<1>2. CASE StartBuild \/ StartUpdate \/ Death
  BY <1>2, DeathFrame DEF StartBuild, StartUpdate, Start, Dies
<1>3. CASE LoadFails \/ DbFails \/ Swap \/ SwapFails
  <2>1. /\ UNCHANGED <<task, outcome, dbErr, sigint, numbers>>
        /\ phase \notin {"dispatch", "wait"} /\ phase' = "idle"
    BY <1>3 DEF LoadFails, DbFails, Swap, SwapFails, Return, pool, run
  <2>2. QED BY <2>1, MainFrame
<1>4. CASE \/ LoadIndexCached \/ LoadIndexLive \/ UpsertRFC \/ ChooseNumbers
           \/ \E rows \in BOOLEAN : ReplaceErrata(rows)
  <2>1. /\ UNCHANGED <<task, outcome, dbErr, sigint>>
        /\ phase \in {"index", "upsert", "errata", "diff"}
    BY <1>4 DEF LoadIndexCached, LoadIndexLive, Indexed, UpsertRFC, ChooseNumbers,
                ReplaceErrata, pool
  <2>2. QED BY <2>1 DEF QueueInv
<1>5. CASE Dispatch
  <2>1. UNCHANGED <<outcome, dbErr, sigint, numbers, dbs, version, kind>>
    BY <1>5 DEF Dispatch, world, run
  <2>2. phase = "dispatch" /\ phase' \in {"dispatch", "wait"} /\ Target' = Target
    BY <1>5, <2>1 DEF Dispatch, Target
  <2>3. CASE task' = task
    BY <2>1, <2>2, <2>3
  <2>4. ASSUME NEW n \in queue, task' = [task EXCEPT ![n] = "select"]
        PROVE  TaskInv'
    <3>1. n \in numbers /\ task[n] = "idle" /\ n \in RFCs
      BY <2>2 DEF QueueInv, TypeOK
    <3>2. QED BY <2>1, <2>2, <2>4, <3>1 DEF TypeOK
  <2>5. QED BY <1>5, <2>3, <2>4 DEF Dispatch
<1>6. CASE Wait
  <2>1. /\ UNCHANGED <<task, outcome, dbErr, sigint, numbers, version>>
        /\ Ended
        /\ \/ phase' = "idle"
           \/ phase # "idle" /\ UNCHANGED <<dbs, kind>>
    BY <1>6 DEF Wait, Joined, Return, world, run, pool
  <2>2. QED BY <2>1 DEF Ended, Target
<1>7. CASE RecordBuildMeta
  <2>1. /\ UNCHANGED <<task, outcome, dbErr, sigint, numbers, version, dbs, kind>>
        /\ phase # "idle"
    BY <1>7 DEF RecordBuildMeta, world, run, pool
  <2>2. QED BY <2>1 DEF Target
<1>8. ASSUME NEW n \in RFCs, Quiet(n) PROVE TaskInv'
  <2>1. Worker(n) /\ dbs' = dbs
    BY <1>8, QuietDocs DEF Quiet, Worker
  <2>2. /\ task'[n] \notin {"idle", "refs", "ok"}
        /\ outcome'[n] # "none" => task'[n] = "done"
        /\ task'[n] = "done" => outcome'[n] # "none" \/ CtxDone
        /\ outcome'[n] = "db_failed" => dbErr'
        /\ outcome'[n] = "ok" => task[n] = "ok"
    BY <1>8, <2>1, WorkerFrame
       DEF Quiet, Acquire, GiveUp, FetchHit, FetchOK, FetchFails, StoreFails, InsertClashes,
           Report, Step, TypeOK
  <2>3. QED BY <2>1, <2>2, WorkerFrame
<1>9. ASSUME NEW n \in RFCs, InsertRFCWithSections(n) PROVE TaskInv'
  <2>1. Worker(n) /\ task'[n] = "refs" /\ outcome' = outcome /\ dbErr' = dbErr
    BY <1>9 DEF Worker, InsertRFCWithSections, Step, TypeOK
  <2>2. /\ dbs'[Target].secs[n] = version
        /\ \A m \in RFCs \ {n} : /\ dbs'[Target].secs[m] = dbs[Target].secs[m]
                                /\ dbs'[Target].refs[m] = dbs[Target].refs[m]
    <3>1. dbs[Target].secs \in [RFCs -> 0..MaxVersion]
      BY FilesFact DEF TypeOK, Database
    <3>2. QED BY <1>9, <3>1, InsertDocs
  <2>3. QED BY <2>1, <2>2, WorkerFrame DEF Stored, Torn, Agrees
<1>10. ASSUME NEW n \in RFCs, ReplaceReferences(n) PROVE TaskInv'
  <2>1. /\ Worker(n) /\ task[n] = "refs" /\ task'[n] = "ok"
        /\ outcome' = outcome /\ dbErr' = dbErr
    BY <1>10 DEF Worker, ReplaceReferences, Step, TypeOK
  <2>2. /\ dbs'[Target].secs = dbs[Target].secs
        /\ dbs'[Target].refs[n] = RefsOf[n][version]
        /\ \A m \in RFCs \ {n} : dbs'[Target].refs[m] = dbs[Target].refs[m]
    <3>1. dbs[Target].refs \in [RFCs -> SUBSET RFCs]
      BY FilesFact DEF TypeOK, Database
    <3>2. QED BY <1>10, <3>1, ReplaceDocs
  <2>3. dbs[Target].secs[n] = version /\ version # 0
    BY <2>1 DEF TypeOK
  <2>4. QED BY <2>1, <2>2, <2>3, WorkerFrame DEF Stored, Torn, Agrees
<1>11. QED
  BY <1>1, <1>2, <1>3, <1>4, <1>5, <1>6, <1>7, <1>8, <1>9, <1>10
     DEF Next, Death, Main, Worker, Quiet

LEMMA UpdateStep ==
  ASSUME IInv, Next PROVE UpdateInv'
<1> USE DEF IInv, UpdateInv
<1>1. CASE \/ PublishRFC \/ Upgrade \/ Sigint \/ LoadIndexCached \/ LoadIndexLive
           \/ RecordBuildMeta
  <2>1. /\ UNCHANGED <<dbs, numbers, kind, task, outcome>>
        /\ phase = "idle" => phase' = "idle"
        /\ version' = version \/ phase = "idle"
    BY <1>1 DEF PublishRFC, Upgrade, Sigint, LoadIndexCached, LoadIndexLive,
                Indexed, RecordBuildMeta, world, pool, run
  <2>2. QED BY <2>1
<1>2. CASE StartBuild
  BY <1>2 DEF StartBuild, Start
<1>3. CASE StartUpdate
  <2>1. dbs'["live"] = dbs["live"] /\ dbs'["new"] = dbs["live"] /\ numbers' = {}
    BY <1>3 DEF StartUpdate, Start, TypeOK, Files
  <2>2. QED BY <2>1
<1>4. CASE Death \/ LoadFails \/ DbFails \/ Swap \/ SwapFails
  BY <1>4, DeathFrame DEF Dies, LoadFails, DbFails, Swap, SwapFails, Return
<1>5. CASE Wait
  <2>1. \/ phase' = "idle"
        \/ /\ UNCHANGED <<dbs, numbers, kind, task, outcome, version>>
           /\ phase # "idle"
    BY <1>5 DEF Wait, Joined, Return, world, pool, run
  <2>2. QED BY <2>1
<1>6. CASE UpsertRFC \/ \E rows \in BOOLEAN : ReplaceErrata(rows)
  <2>1. UNCHANGED <<numbers, kind, task, outcome, version>> /\ phase # "idle"
    BY <1>6 DEF UpsertRFC, ReplaceErrata, world, pool, run
  <2>2. kind = "update" =>
           /\ dbs'["live"] = dbs["live"] /\ SameDocs(dbs'["new"], dbs["new"])
           /\ Torn(dbs'["new"]) = Torn(dbs["new"])
           /\ Stored(dbs'["new"]) = Stored(dbs["new"])
    BY <1>6, RowDocs, SameDocsFact, FilesFact
  <2>3. QED BY <2>1, <2>2 DEF SameDocs
<1>7. CASE ChooseNumbers
  <2>1. UNCHANGED <<dbs, kind, task, outcome, version>> /\ phase # "idle"
    BY <1>7 DEF ChooseNumbers, world, pool
  <2>2. kind = "update" => \A n \in Stored(dbs["live"]) : n \notin numbers'
    BY <1>7 DEF ChooseNumbers, ToProcess, Stored
  <2>3. QED BY <2>1, <2>2
<1>8. CASE Dispatch
  <2>1. UNCHANGED <<dbs, numbers, kind, outcome, version>> /\ phase = "dispatch"
    BY <1>8 DEF Dispatch, world, run
  <2>2. \A n \in RFCs : task'[n] = task[n] \/ task[n] = "idle"
    BY <1>8 DEF Dispatch, QueueInv, TypeOK
  <2>3. QED BY <2>1, <2>2 DEF Torn
<1>9. ASSUME NEW n \in RFCs, Quiet(n) PROVE UpdateInv'
  <2>1. Worker(n) /\ dbs' = dbs
    BY <1>9, QuietDocs DEF Quiet, Worker
  <2>2. /\ task[n] = "refs" => task'[n] = "db_failed"
        /\ task[n] = "db_failed" => outcome'[n] = "db_failed"
    BY <1>9 DEF Quiet, Acquire, GiveUp, FetchHit, FetchOK, FetchFails,
                StoreFails, InsertClashes, Report, Step, TypeOK
  <2>3. QED BY <2>1, <2>2, WorkerFrame DEF Torn
<1>10. ASSUME NEW n \in RFCs, InsertRFCWithSections(n) PROVE UpdateInv'
  <2>1. Worker(n) /\ task'[n] = "refs" /\ n \notin Refused[version]
    BY <1>10 DEF Worker, InsertRFCWithSections, Step, TypeOK
  <2>2. kind = "update" =>
          /\ dbs'["live"] = dbs["live"]
          /\ \A m \in RFCs \ {n} : /\ dbs'["new"].secs[m] = dbs["new"].secs[m]
                                  /\ dbs'["new"].refs[m] = dbs["new"].refs[m]
    <3> SUFFICES ASSUME kind = "update"
                 PROVE  /\ dbs'["live"] = dbs["live"]
                        /\ \A m \in RFCs \ {n} :
                              /\ dbs'["new"].secs[m] = dbs["new"].secs[m]
                              /\ dbs'["new"].refs[m] = dbs["new"].refs[m]
      OBVIOUS
    <3>1. Target = "new" /\ "live" \in Files \ {Target}
      BY DEF Target, Files
    <3>2. /\ dbs'["new"].secs = [dbs["new"].secs EXCEPT ![n] = version]
          /\ dbs'["new"].refs = dbs["new"].refs
          /\ dbs'["live"] = dbs["live"]
      BY <1>10, <3>1, InsertDocs
    <3>3. dbs["new"].secs \in [RFCs -> 0..MaxVersion]
      BY FilesFact DEF TypeOK, Database
    <3>4. QED BY <3>2, <3>3
  <2>3. QED BY <2>1, <2>2, WorkerFrame DEF Stored, Torn, Agrees
<1>11. ASSUME NEW n \in RFCs, ReplaceReferences(n) PROVE UpdateInv'
  <2>1. Worker(n) /\ task[n] = "refs"
    BY <1>11 DEF Worker, ReplaceReferences, Step, TypeOK
  <2>2. kind = "update" =>
          /\ dbs'["live"] = dbs["live"]
          /\ dbs'["new"].secs = dbs["new"].secs
          /\ dbs'["new"].refs[n] = RefsOf[n][version]
          /\ \A m \in RFCs \ {n} : dbs'["new"].refs[m] = dbs["new"].refs[m]
    <3> SUFFICES ASSUME kind = "update"
                 PROVE  /\ dbs'["live"] = dbs["live"]
                        /\ dbs'["new"].secs = dbs["new"].secs
                        /\ dbs'["new"].refs[n] = RefsOf[n][version]
                        /\ \A m \in RFCs \ {n} :
                              dbs'["new"].refs[m] = dbs["new"].refs[m]
      OBVIOUS
    <3>1. Target = "new" /\ "live" \in Files \ {Target}
      BY DEF Target, Files
    <3>2. /\ dbs'["new"].secs = dbs["new"].secs
          /\ dbs'["new"].refs
               = [dbs["new"].refs EXCEPT ![n] = RefsOf[n][version]]
          /\ dbs'["live"] = dbs["live"]
      BY <1>11, <3>1, ReplaceDocs
    <3>3. dbs["new"].refs \in [RFCs -> SUBSET RFCs]
      BY FilesFact DEF TypeOK, Database
    <3>4. QED BY <3>2, <3>3
  <2>3. kind = "update" => n \notin Torn(dbs'["new"])
    BY <2>1, <2>2 DEF TaskInv, Target, Torn, Agrees, TypeOK
  <2>4. QED BY <2>1, <2>2, <2>3, WorkerFrame DEF Stored, Torn, Agrees
<1>12. QED
  BY <1>1, <1>2, <1>3, <1>4, <1>5, <1>6, <1>7, <1>8, <1>9, <1>10, <1>11
     DEF Next, Death, Main, Worker, Quiet

\* The served file: its documents change in a swap, and in a build by a goroutine's writes.
LEMMA ServedFrame ==
  ASSUME IInv, Next
  PROVE  \/ SameDocs(dbs'["live"], dbs["live"])
         \/ Swap
         \/ kind = "build" /\ \E n \in RFCs : \/ InsertRFCWithSections(n)
                                             \/ ReplaceReferences(n)
<1> USE DEF IInv, SameDocs
<1>1. CASE \/ PublishRFC \/ Upgrade \/ Sigint \/ LoadIndexCached
           \/ LoadIndexLive \/ ChooseNumbers \/ Dispatch \/ RecordBuildMeta
  BY <1>1 DEF PublishRFC, Upgrade, Sigint, LoadIndexCached, LoadIndexLive,
              Indexed, ChooseNumbers, Dispatch, RecordBuildMeta
<1>2. CASE StartBuild \/ StartUpdate
  BY <1>2 DEF StartBuild, StartUpdate, Start, TypeOK, Files
<1>3. CASE Death \/ LoadFails \/ DbFails \/ Wait \/ SwapFails
  BY <1>3, DeathFrame, DropDocs DEF Dies, LoadFails, DbFails, Wait, Joined, SwapFails
<1>4. CASE UpsertRFC \/ \E rows \in BOOLEAN : ReplaceErrata(rows)
  BY <1>4, RowDocs, FilesFact
<1>5. ASSUME NEW n \in RFCs, Quiet(n) PROVE dbs' = dbs
  BY <1>5, QuietDocs
<1>6. ASSUME NEW n \in RFCs, InsertRFCWithSections(n) \/ ReplaceReferences(n),
             kind # "build"
      PROVE  dbs'["live"] = dbs["live"]
  <2>1. "live" \in Files \ {Target}
    BY <1>6 DEF TypeOK, Target, Files
  <2>2. QED BY <1>6, <2>1, InsertDocs, ReplaceDocs
<1>7. QED
  BY <1>1, <1>2, <1>3, <1>4, <1>5, <1>6 DEF Next, Death, Main, Worker, Quiet

\* The copy that is swapped in holds what the served file held, and is torn
\* only where that one is.
LEMMA SwapFact ==
  ASSUME IInv, Swap
  PROVE  /\ dbs'["live"] = dbs["new"]
         /\ \A n \in Stored(dbs["live"]) :
               /\ dbs["new"].secs[n] = dbs["live"].secs[n]
               /\ dbs["new"].refs[n] = dbs["live"].refs[n]
         /\ Torn(dbs["new"]) \subseteq Torn(dbs["live"])
<1> USE DEF IInv
<1>1. phase = "swap" /\ kind = "update" /\ ~dbErr /\ dbs'["live"] = dbs["new"]
  BY DEF Swap, CopyInv, QueueInv
<1>2. \A n \in RFCs : /\ task[n] \notin {"refs", "db_failed"}
                      /\ outcome[n] # "db_failed"
  BY <1>1, MainFrame DEF TaskInv
<1>3. QED BY <1>1, <1>2 DEF UpdateInv, Torn

\* A document cut off stays so, and one between its transactions ends up cut
\* off or there, unless a build replaces its references.
LEMMA CutFrame ==
  ASSUME IInv, Next, NEW m \in RFCs,
         ~ (kind = "build" /\ \E n \in RFCs : ReplaceReferences(n))
  PROVE  /\ cut \subseteq cut'
         /\ kind = "build" /\ phase \in {"dispatch", "wait"} /\ task[m] = "refs"
            => \/ m \in cut'
               \/ /\ kind' = "build" /\ phase' \in {"dispatch", "wait"}
                  /\ task'[m] = "refs"
<1> USE DEF IInv, Halfway
<1>1. CASE PublishRFC \/ Upgrade \/ Sigint \/ StartBuild \/ StartUpdate
  BY <1>1 DEF PublishRFC, Upgrade, Sigint, StartBuild, StartUpdate, Start,
              run, pool
<1>2. CASE Death
  BY <1>2, DeathFrame DEF Dies
<1>3. CASE \/ LoadIndexCached \/ LoadIndexLive \/ LoadFails \/ UpsertRFC
           \/ \E rows \in BOOLEAN : ReplaceErrata(rows)
           \/ ChooseNumbers \/ DbFails \/ RecordBuildMeta \/ Swap \/ SwapFails
  BY <1>3 DEF LoadIndexCached, LoadIndexLive, Indexed, LoadFails, UpsertRFC,
              ReplaceErrata, ChooseNumbers, DbFails, RecordBuildMeta, Swap,
              SwapFails
<1>4. CASE Dispatch
  <2>1. task[m] = "refs" => task'[m] = "refs"
    BY <1>4 DEF Dispatch, QueueInv, TypeOK
  <2>2. QED BY <1>4, <2>1 DEF Dispatch, run
<1>5. CASE Wait
  BY <1>5 DEF Wait, Joined, Return, Ended
<1>6. ASSUME NEW n \in RFCs, Worker(n)
      PROVE  /\ cut \subseteq cut'
             /\ kind = "build" /\ task[m] = "refs" =>
                   m \in cut' \/ task'[m] = "refs"
  <2>1. cut \subseteq cut'
    BY <1>6 DEF Worker, Acquire, GiveUp, FetchHit, FetchOK, FetchFails, Report,
                InsertRFCWithSections, InsertClashes, ReplaceReferences,
                StoreFails
  <2>2. CASE m # n
    BY <1>6, <2>1, <2>2, WorkerFrame
  <2>3. CASE m = n
    BY <1>6, <2>3 DEF Worker, Acquire, GiveUp, FetchHit, FetchOK, FetchFails,
       Report, InsertRFCWithSections, InsertClashes, ReplaceReferences,
       StoreFails, Step
  <2>4. QED BY <2>1, <2>2, <2>3
<1>7. QED
  BY <1>1, <1>2, <1>3, <1>4, <1>5, <1>6, WorkerFrame DEF Next, Death, Main

LEMMA TornStep ==
  ASSUME IInv, Next PROVE TornOnlyWhereCut'
<1> DEFINE Midway(m) == /\ kind = "build" /\ phase \in {"dispatch", "wait"}
                        /\ task[m] = "refs"
<1> SUFFICES ASSUME NEW m \in Torn(dbs'["live"])
             PROVE  m \in cut' \/ Midway(m)'
  BY DEF TornOnlyWhereCut
<1>0. m \in RFCs
  BY DEF Torn
<1>1. m \in Torn(dbs["live"]) => m \in cut \/ Midway(m)
  BY DEF IInv, TornOnlyWhereCut
<1>2. ASSUME kind = "build", NEW n \in RFCs, ReplaceReferences(n)
      PROVE  m \in cut' \/ Midway(m)'
  <2>1. /\ Worker(n) /\ task[n] = "refs" /\ cut' = cut \ {n}
        /\ Target = "live"
    BY <1>2 DEF Worker, ReplaceReferences, Step, Target
  <2>2. /\ dbs'["live"].secs = dbs["live"].secs
        /\ dbs'["live"].refs
             = [dbs["live"].refs EXCEPT ![n] = RefsOf[n][version]]
        /\ dbs["live"].refs \in [RFCs -> SUBSET RFCs]
    BY <1>2, <2>1, ReplaceDocs, FilesFact DEF IInv, TypeOK, Database
  <2>3. dbs["live"].secs[n] = version /\ version # 0
    BY <2>1 DEF IInv, TaskInv, TypeOK
  <2>4. m # n /\ m \in Torn(dbs["live"])
    BY <1>0, <2>2, <2>3 DEF Torn, Agrees
  <2>5. QED BY <1>0, <1>1, <2>1, <2>4, WorkerFrame
<1>3. CASE ~ (kind = "build" /\ \E n \in RFCs : ReplaceReferences(n))
  <2>1. CASE m \in Torn(dbs["live"])
    BY <1>0, <1>1, <1>3, <2>1, CutFrame
  <2>2. CASE m \notin Torn(dbs["live"])
    <3>1. ~SameDocs(dbs'["live"], dbs["live"]) /\ ~Swap
      BY <2>2, SameDocsFact, SwapFact
    <3>2. PICK n \in RFCs : kind = "build" /\ InsertRFCWithSections(n)
      BY <1>3, <3>1, ServedFrame
    <3>3. Worker(n) /\ task'[n] = "refs" /\ Target = "live"
      BY <3>2 DEF Worker, InsertRFCWithSections, Step, Target, IInv, TypeOK
    <3>4. m = n
      <4>1. /\ dbs'["live"].secs = [dbs["live"].secs EXCEPT ![n] = version]
            /\ dbs'["live"].refs = dbs["live"].refs
            /\ dbs["live"].secs \in [RFCs -> 0..MaxVersion]
        BY <3>2, <3>3, InsertDocs, FilesFact DEF IInv, TypeOK, Database
      <4>2. QED BY <1>0, <2>2, <4>1 DEF Torn, Agrees
    <3>5. QED BY <3>2, <3>3, <3>4, WorkerFrame
  <2>3. QED BY <2>1, <2>2
<1>4. QED BY <1>2, <1>3

\* At the end of a run every number is settled in the file it wrote.
LEMMA SettledFact ==
  ASSUME IInv, phase \in {"meta", "swap"}, NEW n \in numbers
  PROVE  \/ /\ outcome[n] = "ok"
            /\ n \in Stored(dbs[Target]) /\ n \notin Torn(dbs[Target])
         \/ outcome[n] = "fetch_failed"
         \/ sigint /\ outcome[n] = "none"
<1> USE DEF IInv
<1>1. n \in RFCs /\ ~dbErr
  BY DEF TypeOK, QueueInv
<1>2. task[n] = "idle" \/ task[n] = "done"
  BY <1>1, MainFrame
<1>3. outcome[n] # "none" \/ sigint
  BY <1>1, <1>2 DEF QueueInv, TaskInv, CtxDone
<1>4. outcome[n] # "db_failed"
  BY <1>1 DEF TaskInv
<1>5. outcome[n] \in {"none", "ok", "fetch_failed"}
  BY <1>1, <1>4 DEF TypeOK, Outcomes
<1>6. CASE outcome[n] = "ok"
  BY <1>1, <1>6 DEF TaskInv
<1>7. QED BY <1>3, <1>5, <1>6

LEMMA SuccessStep ==
  ASSUME IInv, Next PROVE SuccessIsComplete'
<1> SUFFICES ASSUME phase' = "idle", result' = "ok", NEW n \in numbers'
             PROVE  \/ /\ outcome'[n] = "ok"
                       /\ n \in Stored(dbs'["live"])
                       /\ n \notin Torn(dbs'["live"])
                    \/ outcome'[n] = "fetch_failed"
                    \/ sigint' /\ outcome'[n] = "none"
  BY DEF SuccessIsComplete
<1> USE DEF IInv
<1>1. CASE PublishRFC \/ Upgrade
  <2>1. UNCHANGED <<dbs, phase, result, numbers, outcome, sigint>>
    BY <1>1 DEF PublishRFC, Upgrade, pool, run
  <2>2. QED BY <2>1 DEF SuccessIsComplete
<1>2. CASE \/ Sigint \/ StartBuild \/ StartUpdate \/ Death \/ LoadFails
           \/ DbFails \/ SwapFails
  BY <1>2, DeathFrame DEF Sigint, StartBuild, StartUpdate, Start, Dies, LoadFails, DbFails,
              SwapFails, Return
<1>3. CASE \/ LoadIndexCached \/ LoadIndexLive \/ UpsertRFC
           \/ ChooseNumbers \/ Dispatch
           \/ \E rows \in BOOLEAN : ReplaceErrata(rows)
  BY <1>3 DEF LoadIndexCached, LoadIndexLive, Indexed, UpsertRFC, ChooseNumbers,
              Dispatch, ReplaceErrata
<1>4. CASE Wait
  BY <1>4 DEF Wait, Joined, Return
<1>5. CASE RecordBuildMeta
  <2>1. /\ UNCHANGED <<dbs, numbers, outcome, sigint>>
        /\ phase = "meta" /\ kind = "build"
    BY <1>5 DEF RecordBuildMeta, pool, run
  <2>2. QED BY <2>1, SettledFact DEF Target
<1>6. CASE Swap
  <2>1. /\ UNCHANGED <<numbers, outcome, sigint>> /\ phase = "swap"
        /\ dbs'["live"] = dbs["new"]
    BY <1>6 DEF Swap, Return, pool, run
  <2>2. Target = "new"
    BY <2>1 DEF CopyInv, Target
  <2>3. QED BY <2>1, <2>2, SettledFact
<1>7. ASSUME NEW m \in RFCs, Worker(m) PROVE FALSE
  BY <1>7, WorkerFrame
<1>8. QED
  BY <1>1, <1>2, <1>3, <1>4, <1>5, <1>6, <1>7 DEF Next, Death, Main

LEMMA StutterInv ==
  ASSUME IInv, UNCHANGED vars PROVE IInv'
<1> USE DEF IInv, vars, world, run, pool, Target, CtxDone, Holding, Ended,
            Stored, Torn, Agrees
<1>1. (TypeOK /\ BoundedWorkers /\ IndexInv /\ CopyInv)'
  BY DEF TypeOK, BoundedWorkers, IndexInv, CopyInv
<1>2. (QueueInv /\ TaskInv)'
  BY DEF QueueInv, TaskInv
<1>3. (UpdateInv /\ TornOnlyWhereCut /\ SuccessIsComplete)'
  BY DEF UpdateInv, TornOnlyWhereCut, SuccessIsComplete
<1>4. QED BY <1>1, <1>2, <1>3

LEMMA InvPreserved == IInv /\ [Next]_vars => IInv'
<1> SUFFICES ASSUME IInv, [Next]_vars PROVE IInv'
  OBVIOUS
<1>1. CASE UNCHANGED vars
  BY <1>1, StutterInv
<1>2. CASE Next
  <2>1. TypeOK'
    BY TypePreserved DEF IInv
  <2>2. BoundedWorkers'
    BY <1>2, MainPool, WorkerPool DEF Next, Death, IInv
  <2>3. QED
    BY <1>2, <2>1, <2>2, IndexStep, CopyStep, QueueStep, TaskStep, UpdateStep,
       TornStep, SuccessStep DEF IInv
<1>3. QED BY <1>1, <1>2

\* The inductive invariant holds in every reachable state.
THEOREM Invariance == Safety => []IInv
  BY InitInv, InvPreserved, PTL DEF Safety

\* In the served file, sections and references disagree only where a build
\* was cut off between its two transactions, or is between them now: nothing
\* else tears a document (TornOnlyWhereCut).
THEOREM OnlyCutsTear == Safety => []TornOnlyWhereCut
<1>1. IInv => TornOnlyWhereCut
  BY DEF IInv
<1>2. QED BY <1>1, Invariance, PTL

\* A run that returns nil has stored every number it chose, or counted it as
\* a failed fetch, or was interrupted (SuccessIsComplete).
THEOREM SuccessMeansComplete == Safety => []SuccessIsComplete
<1>1. IInv => SuccessIsComplete
  BY DEF IInv
<1>2. QED BY <1>1, Invariance, PTL
-----------------------------------------------------------------------------
\* An update, whatever fails in it, neither changes nor drops a document the
\* served file holds, and tears none in it (UpdateOnlyAdds).
THEOREM UpdatesOnlyAdd == Safety => UpdateOnlyAdds
<1> DEFINE Adds == kind = "update" =>
             /\ \A n \in Stored(dbs["live"]) :
                   /\ dbs'["live"].secs[n] = dbs["live"].secs[n]
                   /\ dbs'["live"].refs[n] = dbs["live"].refs[n]
             /\ Torn(dbs'["live"]) \subseteq Torn(dbs["live"])
<1>1. IInv /\ [Next]_vars => [Adds]_vars
  <2> SUFFICES ASSUME IInv, Next, kind = "update" PROVE Adds
    OBVIOUS
  <2>1. CASE Swap
    BY <2>1, SwapFact
  <2>2. CASE SameDocs(dbs'["live"], dbs["live"])
    BY <2>2, SameDocsFact DEF SameDocs
  <2>3. QED BY <2>1, <2>2, ServedFrame
<1>2. QED BY <1>1, Invariance, PTL DEF Safety, UpdateOnlyAdds

\* The served database only ever gains documents that were issued with a
\* text: a build's goroutine ingests one, an update's swap all its new ones
\* at once, and every other step, re-parsing included, ingests nothing.
LEMMA CorpusStep ==
  ASSUME IInv, Next
  PROVE  C!Next \/ UNCHANGED C!vars
<1> DEFINE old == Stored(dbs["live"])
           new == Stored(dbs'["live"])
<1> USE DEF IInv
<1>1. old \subseteq new
  <2>1. CASE SameDocs(dbs'["live"], dbs["live"])
    BY <2>1, SameDocsFact
  <2>2. CASE Swap
    BY <2>2, SwapFact DEF Stored
  <2>3. ASSUME kind = "build", NEW n \in RFCs, InsertRFCWithSections(n)
        PROVE  old \subseteq new
    <3>1. Target = "live" /\ version # 0
      BY <2>3 DEF Target, TypeOK
    <3>2. QED
      BY <2>3, <3>1, InsertDocs, FilesFact DEF Stored, TypeOK, Database
  <2>4. ASSUME kind = "build", NEW n \in RFCs, ReplaceReferences(n)
        PROVE  old \subseteq new
    BY <2>4, ReplaceDocs DEF Stored, Target
  <2>5. QED BY <2>1, <2>2, <2>3, <2>4, ServedFrame
<1>2. new \subseteq published' \ Unfetchable
  BY IndexStep, FilesFact DEF IndexInv
<1>3. old \subseteq RFCs /\ new \subseteq RFCs
  BY DEF Stored
<1>4. new \intersect Refused[version] \subseteq old
  <2>1. CASE SameDocs(dbs'["live"], dbs["live"])
    BY <2>1, SameDocsFact
  <2>2. CASE Swap
    <3>1. phase # "idle" /\ kind = "update"
      BY <2>2 DEF Swap, CopyInv
    <3>2. QED BY <2>2, <3>1, SwapFact DEF UpdateInv
  <2>3. ASSUME kind = "build", NEW n \in RFCs, InsertRFCWithSections(n)
        PROVE  new \intersect Refused[version] \subseteq old
    <3>1. Target = "live" /\ n \notin Refused[version]
      BY <2>3 DEF Target, InsertRFCWithSections
    <3>2. /\ dbs'["live"].secs = [dbs["live"].secs EXCEPT ![n] = version]
          /\ dbs["live"].secs \in [RFCs -> 0..MaxVersion]
      BY <2>3, <3>1, InsertDocs, FilesFact DEF TypeOK, Database
    <3>3. QED BY <3>1, <3>2 DEF Stored
  <2>4. ASSUME kind = "build", NEW n \in RFCs, ReplaceReferences(n)
        PROVE  new \subseteq old
    BY <2>4, ReplaceDocs DEF Stored, Target
  <2>5. QED BY <2>1, <2>2, <2>3, <2>4, ServedFrame
<1>5. CASE PublishRFC
  <2>1. C!Publish
    BY <1>5 DEF PublishRFC, C!Publish
  <2>2. QED BY <2>1 DEF C!Next
<1>6. CASE Upgrade
  <2>1. Refused[version'] \in SUBSET RFCs
    BY <1>6, VersionAssumption, RefusedAssumption DEF Upgrade, TypeOK
  <2>2. C!Release
    BY <1>6, <2>1 DEF Upgrade, C!Release
  <2>3. QED BY <2>2 DEF C!Next
<1>7. CASE ~PublishRFC /\ ~Upgrade
  <2>1. published' = published /\ version' = version
    BY <1>7, DeathFrame DEF Next, Death, Main, Worker, StartBuild, StartUpdate,
       Start, Sigint, Dies, LoadIndexCached, LoadIndexLive, Indexed, LoadFails,
       Return, UpsertRFC, ReplaceErrata, ChooseNumbers, DbFails, Dispatch, Wait,
       Joined, RecordBuildMeta, Swap, SwapFails, Acquire, GiveUp, FetchHit,
       FetchOK, FetchFails, InsertRFCWithSections, InsertClashes,
       ReplaceReferences, StoreFails, Report, Step, world
  <2>2. CASE new = old
    BY <2>1, <2>2 DEF C!vars
  <2>3. CASE new # old
    <3>1. C!Ingest(new \ old)
      BY <1>1, <1>2, <1>4, <2>1, <2>3 DEF C!Ingest, C!Missing, C!Available
    <3>2. QED BY <1>3, <3>1 DEF C!Next
  <2>4. QED BY <2>2, <2>3
<1>8. QED BY <1>5, <1>6, <1>7

\* Runs of build and update, in any order and with any faults and
\* any texts the parsers cannot store, implement the safety part of the
\* abstract corpus (CorpusSpec is C!Spec, which adds the liveness that only the
\* model checker can check).
THEOREM ImplementsCorpus == Safety => C!Safety
<1>1. Init => C!Init
  BY EmptyDocs, VersionAssumption, RefusedAssumption DEF Init, C!Init, Files
<1>2. IInv /\ [Next]_vars => [C!Next]_(C!vars)
  <2> SUFFICES ASSUME IInv, [Next]_vars PROVE C!Next \/ UNCHANGED C!vars
    OBVIOUS
  <2>1. CASE Next
    BY <2>1, CorpusStep
  <2>2. CASE UNCHANGED vars
    BY <2>2 DEF vars, world, C!vars, Stored
  <2>3. QED BY <2>1, <2>2
<1>3. QED BY <1>1, <1>2, Invariance, PTL DEF Safety, C!Safety
=============================================================================
