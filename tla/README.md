# TLA+ specifications of rfc-mcp

rfc-mcp keeps a SQLite database of RFCs (texts cut into sections, references,
errata, metadata) and serves it to language models over MCP. This directory
models how that database comes about and is replaced, checks the models with
TLC and proves the main results with TLAPS.

All paths below are relative to `src/`.

## 1. The system

| Component | State it keeps | Operations | Interacts with |
|---|---|---|---|
| Ingestion pipeline (`ingest/pipeline/pipeline.go`) | `p.indexed`; in `processAll` a semaphore, a wait group, `stats`, `dbErr`, a derived context | `Run` (build), `RunUpdate`, `Download`, `ImportFile`, `ImportDir` | RFC Editor over HTTP, raw directory, ingest cache, store, parser |
| Fetching and ingest cache (`download.go`, `cache.go`) | `rfcN.txt` files (valid for ever), `rfc-index.xml` and `errata.json` with a TTL | `fetchRFCText`, `fetchCached`, `fetchLive`, `saveCache`; three attempts with back-off | pipeline; other processes using the same directories |
| Commands (`cmd/rfc-mcp/main.go`) | the database file, update's `<db>.new` and its `-wal`/`-shm` files, a signal context | `build` in place; `update` on a copy that is renamed; `download`, `import`, `import-dir`, `serve` | pipeline, store, file system, SIGINT |
| Store (`db/`) | tables `rfcs`, `sections` with a full-text index kept by triggers, `rfc_references`, `errata`, `meta` | one-transaction writes (`InsertRFCWithSections`, `InsertReferences`, `ReplaceAllErrata`), lookups, search | pipeline writes through one connection, serve reads through up to four |
| Text parser (`ingest/rfctxt/`) | none | `ParseRFCText`: three tiers of heading detection, then passes over the heading tree | pipeline, draft tools |
| Index and errata parsers (`ingest/rfcindex`, `ingest/errata`) | none | decode, skipping malformed entries | pipeline |
| Draft sources (`ingest/drafts/`) | a cache with a TTL per kind of answer | metadata, text, search, IPR disclosures over the Datatracker | tools |
| Tools (`tools/`) | `maxRFCNumbers`, a cache per database handle | the MCP handlers; `paginateText` | store, draft sources |
| Server (`cmdServe`, `newServer`) | the connection pool of `database/sql` | stdio or HTTP transport | tools; the file the served name refers to |

What is hard about it:

* **Two transactions per document.** Sections and references are stored one
  after the other (`pipeline.go:426-431`). An interrupt, a failed write and a
  kill all fall in between, at different points of the goroutines.
* **Cancellation.** SIGINT and the first failed write cancel the same context,
  while goroutines wait at the semaphore, fetch or write; afterwards the run
  must still join them all and return the right result.
* **What a later run repairs.** `update` fetches only the numbers that have no
  sections; everything it takes for done is done for ever.
* **Names and files.** `update` renames a file under a running server, and finds
  the working copy by name whoever made it.
* **Answers kept beyond their file or time**: `maxRFCNumbers`, the ingest cache,
  the drafts cache, partial answers stored as complete ones.

What makes each component correct, in the order of importance:

1. Pipeline: the served database only grows, only with issued documents that
   have a text, and in the end has all of them; a document never lacks its
   references; a nil error means the chosen numbers are dealt with; every run
   ends and never uses more than `Workers` slots.
2. Update and server: the served name always refers to a whole database, never
   an older one; an open reader is not disturbed; success is visible.
3. Fetching: a cached body is complete; an expired or empty file is not used.
4. Heading tree: the parser returns; no dangling parent, no cycle, no lost line,
   unique numbers.
5. Pagination: following the offsets gets on and ends, within the caller's caps.
6. Draft sources: an answer is complete and sound for what it says it searched;
   a partial answer is not cached as a complete one; every call ends.
7. Store: the full-text index agrees with the sections; deletes are complete.

## 2. The modules

| Module | Models | Proofs |
|---|---|---|
| `Corpus` | Abstract: a set of published numbers and a served corpus that grows by ingestion, each available document in the end unless the program stays unable to store one that is missing | |
| `Pipeline` | `build` and `update` in detail, one run after another, with the environment's faults | `PipelineProofs` |
| `IngestFiles` | The cached index and the raw directory, shared with other processes; the index loads, `download` and `import-dir` | `IngestFilesProofs` |
| `UpdateSwap` | The files of `update`: copy, log, checkpoint, rename, with any number of updates at a time and a server's connections | `UpdateSwapProofs` |
| `HeadingTree` | `ParseRFCText` from the detected lines to the sections: two tiers, three repairs of the parents, the cutting of the text | `HeadingTreeProofs` |
| `SectionLookup` | The store's rows of one RFC with the full-text triggers, the import's two transactions, and the tools that read them query by query | `SectionLookupProofs` |
| `Paginate` | `paginateText` and a client that follows its offsets | `PaginateProofs` |
| `DraftTools` | Metadata and text of one draft, their cache, and the tools that ask for them | `DraftsProofs` |
| `DraftSearch` | `search_drafts`: the walk over the Datatracker's pages and the concurrent lookups | `DraftsProofs` |
| `FetchIPR` | `get_ipr`'s lookups over the Datatracker: fan-out, paging, retries, cancellation, cache | `FetchIPRProofs` |
| `MCPipeline`, `MCIngestFiles`, `MCUpdateSwap`, `MCHeadingTree`, `MCSectionLookup`, `MCPaginate`, `MCDrafts`, `MCFetchIPR` | Instances for TLC | |

How they fit together: `Pipeline` implements `Corpus`. What it takes as outcomes,
an index load that hits, misses or fails and a text that comes or does not, is what
`IngestFiles` models step by step; what it takes as one transaction of the store,
`SectionLookup` models statement by statement; what it takes as a swap is
`UpdateSwap`; what it takes as `RefsOf` and as a version number is the parser.
`HeadingTree` and `Paginate` are sequential: the former's `SectionsAreATree` is
what `SectionLookup` assumes of a document (`DocumentsAreClosed`), the latter pages
what the lookups return. Drafts never enter the database.

### Pipeline

`dbs["live"]` is the served file, `dbs["new"]` the working copy of an update;
`Target` is the one the current run writes to. A database holds per RFC whether
it has a row (`rows`), the program version that parsed its sections (`secs`, 0
for none) and the set of RFCs it references (`refs`), plus whether there are
errata. `RefsOf[n][v]` is what version `v` of the parser extracts from RFC `n`:
the constant ranges over all functions, so nothing is assumed of a parser
except that the same version extracts the same from the same body. `Refused[v]`
are the RFCs whose text version `v` cannot store, on no run: its parser panics on
the text, or gives two of its sections one number.

`phase` is the position of the main goroutine:

| `phase` | Code | Actions |
|---|---|---|
| `idle` | between two processes | `StartBuild`, `StartUpdate`, `Upgrade` |
| `index` | `loadIndex`, `loadIndexLive` | `LoadIndexCached`, `LoadIndexLive`, `LoadFails` |
| `upsert` | the loop over `UpsertRFC` | `UpsertRFC`, `DbFails` |
| `errata` | `loadErrata(Live)`, `ReplaceAllErrata` | `ReplaceErrata`, `LoadFails`, `DbFails` |
| `diff` | `ExistingRFCNumbers`, `issuedNumbersInRange` | `ChooseNumbers`, `DbFails` |
| `dispatch` | the loop of `processAll` | `Dispatch` |
| `wait` | `wg.Wait`, then the test of `dbErr` | `Wait` |
| `meta` | `recordBuildMeta`, two writes | `RecordBuildMeta`, `DbFails` |
| `swap` | `finalizeWorkingCopy`, `os.Rename` | `Swap`, `SwapFails` |

`task[n]` is the position of the goroutine of RFC `n`: `select` at the
semaphore, then `fetch`, `insert` (sections), `refs` (references), its status,
and `done`. A Go `select` takes either ready branch, so `Acquire` is enabled
although the context is done, and `FetchHit` needs no live context. `outcome`
is the status counted in `stats`; PARSE_DEGRADED counts as `ok`.

`Sigint` cancels the run's context, `Kill` ends the process at any point,
`StoreFails` and `DbFails` are transactions that fail by chance, `LoadFails` and
`FetchFails` failed downloads. What a refused text does is no chance:
`InsertClashes` is the insert that the `UNIQUE` constraint fails (two sections
called `header`, `parser.go:415`), `ParsePanics` the panic of a goroutine, which
nothing recovers and which ends the process (`parser.go:301`). `cut` is history:
the RFCs of the served file that a build left without its second transaction, and
that no build has come back to. `Kill` also stands for a signal that arrives
before the handler is installed. Nothing but the database, the raw files and
the cached index survives a process. A stale copy of a killed update is never
read (the next update removes it first), so `Kill` may drop it.

One build or update runs at a time here; updates that overlap are the subject
of `UpdateSwap`.

### UpdateSwap

`dir` maps the two names `<db>` and `<db>.new` to files, `newLog` is the file
whose log `<db>.new-wal` is. `file` is what a database file holds, `log` what it
holds together with the transactions of its log, which only its writers see.
An updater keeps the file it opened in `mine`, a connection of serve in `conn`.
A content is the highest RFC it has and whether all writes of the refresh are
in it. What `RunUpdate` writes is reduced to a first and a last transaction,
since `Pipeline` has the rest.

Names are what goes wrong: `removeWorkingCopy` and the rename work on the name,
whoever's file it refers to, and `OpenReadWrite` creates an empty database if
the copy is gone. The checkpoint SQLite makes by itself (`AutoCheckpoint`) and
the opening and closing of pooled connections are library behaviour.

### IngestFiles

`cache` is the cached `rfc-index.xml` with the age of its modification time, `raw`
the files of the raw directory, `store` what `import-dir` writes: of each RFC its
row (from the index or made up) and the file and body its sections and its
references were taken from. `run` is what the command does, `task[f]` the
goroutine of one RFC or file. The RFC Editor (`site`) publishes new versions of
its index and, during an outage, answers errors, empty bodies or wrong ones with
status 200. `OtherProcess` is any process that does the same with the same
directories: as they rename too, all that can be seen of them is a whole file.

| `run.at` | Code | Actions |
|---|---|---|
| `stat`, `read` | `loadCache`: `os.Stat`, then `os.ReadFile` | `Stat`, `Read` |
| `get` | `httpGetWithRetry`, three attempts | `Answer`, `Retry`, `LoadFails` |
| `save`, `rename` | `writeFileAtomic` | `CreateTemp`, `Rename`, `SaveFails` |
| `parse` | `parseIndex`, `issuedNumbersInRange` | `ParseIndex` |
| `list` | `ImportDir`: `os.ReadDir` | `ListDir` |
| `pool` | the goroutines, `wg.Wait` | `Join`, and those of `task` |

| `task[f].at` | Code | Actions |
|---|---|---|
| `queued` | the semaphore | `Acquire`, `Skip` |
| `check` | `fetchRFCText`: an existing file that is not empty | `Check` |
| `get`, `save`, `rename` | `httpGetWithRetry`, `writeFileAtomic` | `Body`, `RetryBody`, `FetchFails`, `CreateBodyTemp`, `RenameBody`, `SaveBodyFails` |
| `open` | `importRaw`: read, number of the RFC | `ImportFile` |
| `row`, `insert`, `refs` | `GetRFCMetadata`, `InsertRFCWithSections`, `replaceReferences` | `FindRow`, `InsertSections`, `ReplaceReferences`, `ImportFails` |

`Interrupt` ends the context, which `import-dir` does not have; `Kill` the process.
`age` is how old the data at hand are, `stamp` what the command takes for their
age, `floor` (history) what was published when an update began. What a build or
an update does after the index is `Pipeline`'s.

### HeadingTree

A document is a sequence of lines and perhaps a table of contents (`doc`). A
line is reduced to what the passes look at: its numbering token, its title,
whether it follows a blank line. A number is the sequence of its segments, the
slug of a title a number of one segment that is no segment of the others. `pc`
is the pass that runs next and each pass is one action, but `promoteDotZero`,
which rewrites the list while it walks it and takes one step per heading:

| `pc` | Code | Action |
|---|---|---|
| `detect` | `detectTier1`, `detectTier2`, the choice between them, Tier 3 | `Detect` (`Wholesale`, `Supplement`, `TierOneOnly`) |
| `promote` | `promoteDotZero` | `Promote` |
| `rescue` | `rescueDanglingParents`, one pass over the lines | `Rescue` |
| `reparent` | `reparentDanglingAncestors`, `recomputeLevels` | `ReparentDangling` |
| `assemble` | `assembleSections`, `clipExcluded` | `Assemble` |

Levels before `recomputeLevels` overwrites them are left out (0). Where two
headings share a line, the slice between them is out of range: `Assemble` ends
in `panic`. Where the lines come from (regular expressions, page breaks), where
the table of contents lies and roman numerals are left out; the table's end may
lie one line too far, as `findTOCBlock` may put it. `exclude` is the code's pair
`excludeStart`, `excludeEnd`, and `ClipExcluded` the slices it takes between them;
that they are what is left of a section without the table is `TextIsKept`, and for
any bounds the lemma `ClipFacts`. The first characters that `parser.go:146` and
`:297` let a title begin with are both `Upper`, although the second also takes a
digit.

One assumption connects numbers and slugs: no numbering token starts with a segment
that is a slug (`Tokens`). Slugs are lower case where a heading's letters are upper
case, and the table drops lines of digits only (`pureNumberRE`), so the slug of a
title is not `4` or `A`. An entry of digits and punctuation alone, as `(4)`, would be
an exception; the model leaves such tables out.

### SectionLookup

`row`, `table`, `fts` and `refs` are the committed rows of one RFC: its metadata,
its sections with their ids, the entries of the full-text index, its references.
`tx` is the import in progress with its own view of them: `DeleteSections` and
`InsertSection` are the statements of one transaction, each with its trigger
(`db.go:171-192`), `Commit` shows them to the readers, `Rollback` drops them, or
ends an import between its two transactions; `StoreReferences` is the second one.
`call` is one tool call. Each of its queries is an action that reads what is
committed when it runs, so an import may fall between any two:

| `call.pc` | Code | Action |
|---|---|---|
| `exists`, `select` | `GetSection`, with and without subsections | `CheckExists`, `Select` |
| `kids` | `GetChildren` for a blank section | `AskKids` |
| `toc`, `children`, `prefix` | the guidance for a missing section | `AskTOC`, `AskChildren`, `AskPrefix` |
| `row` | `rfcNotFoundResult` | `AskRow` |
| `select` | `HandleGetTOC`, `HandleGetDocument`, `GetReferences` | `HandleGetTOC`, `HandleGetDocument`, `AskReferences` |

What a query finds is a set of positions in the table, and an answer the sections at
them (`Picked`), so that the rows' order, which is `ORDER BY id`, is kept without a
sort. `Descendants` is the recursive query: the least set of numbers with the asked
one that has, with a number, those of its children. The properties say the same from
the other end, by the ancestors of a section (`Under`).

`DraftAnswer` is `get_draft_section`'s answer, computed from a parsed draft in
memory, with its own walk below a number: `Round` is one round over the sections in
their order, `DraftWanted` what is wanted after the last. `last`, `cited` and `seen` are history: what was committed last, and
whatever was committed during the call, by which an answer is judged.

### Paginate

A text is the sequence of the byte positions of its lines. One call of the tool
is the action `Call`; `Window`, `Stop` and `Paragraphs` are its three decisions,
by lines, by bytes and at an empty line. `Plus` is the machine's addition, which
wraps. The client continues where the page said, or, at first, anywhere, with
other limits each time.

### DraftTools

`latest`, `archived`, `published` and `related` are what the Datatracker and the
archive know of one draft; `Submit`, `Archive`, `Publish` and `Relate` move them
forward, in the order in which the servers may show them. `meta` is the cached
metadata with its age, `texts[r]` the cached body of revision `r`, given as the
revision it really is. `calls[c].pc` is the step of a tool call:

| `pc` | Code | Actions |
|---|---|---|
| `idle`, `done`, `notFound` | `resolveDraftRevision` begins | `AskDraft` |
| `stat`, `read` | `loadCache` of the metadata | `StatMeta`, `ReadMeta` |
| `document`, `related` | `FetchMetadata`: the document, then `becameRFC` | `FetchDocument`, `FetchRelated`, `RelatedFails`, `RequestFails` |
| `saveMeta` | `saveCache` | `SaveMeta`, `SaveMetaFails` |
| `text`, `archive`, `saveText` | `FetchText` | `LoadText`, `FetchText`, `SaveText`, `SaveTextFails`, `RequestFails` |

`Tick` lets time pass for the cache and for the history `since`: how long ago each
revision was the latest, the draft had no number, a lookup failed. A call may last
into the next tick but no longer; ages stop growing where nothing compares them
any more, so that time is not bounded.

### DraftSearch

`listing` is the Datatracker's list for the filter, in its order; while pages are
fetched a draft leaves it (`Expire`) or comes in anywhere (`Appear`). A search of one
word is one request (`SearchOneWord`). With several words `ScanPage` is one turn of
the loop of `searchMultiWord`: a page, up to the cap, the matches, the next offset.
`Enter` and `LookUp` are the goroutines of `resolveResultItems` with their
semaphore; a lookup that fails leaves its row without a number. `Only(list, S)` is
what a filter keeps of a list, in its order: the titles with all the words.

### FetchIPR

`call[c].at` is the request a call waits for, or what it does next:

| `at` | Code | Actions |
|---|---|---|
| `verify` | `verifyDocExists` | `Verify` |
| `cache` | `loadCache` of `ipr/<name>.json` | `Lookup` |
| `link` | `draftForRFC` | `Link` |
| `replaces` | `replacedDrafts`, one page | `Replaces` |
| `rows` | `fetchDisclosuresForDoc`, one page of one kind of one document | `Rows` |
| `save` | `saveCache` | `Save` |

`Retry` and `GiveUp` are a failed request with and without another attempt
(`httpGetWithRetry`); giving up fails the call, except at `link`. The order in
which documents and kinds are read is fixed but arbitrary. The Datatracker is
external: it files disclosures anywhere in its lists (`Disclose`), posts and
withdraws them, and either honours offsets or not (`stuck`). A withdrawn
disclosure stays in the lists in another state, which is what the source says of
those states (`ipr.go:27-34`). `Expire` is the hour of `metadataCacheTTL`. An
answer carries two history components, `must` and `may`, by which it is judged;
the code has neither.

## 3. What is checked

| Run | Instance | Properties |
|---|---|---|
| `pipeline_safety` | 3 RFCs, one without a text; 2 workers; 2 parser versions; unbounded and bounded builds; version 2 refuses one text; 1 failed write or kill, 1 interrupt | `TypeOK`, `TornOnlyWhereCut`, `SuccessIsComplete`, `UpdateOnlyAdds` |
| `pipeline_live` | 2 RFCs, 1 worker, 2 parser versions, the first of which refuses one text; 1 interrupt, fairness | `BoundedWorkers`, `RunsEnd`, `CorpusSpec` |
| `pipeline_interrupt` | 3 RFCs, 1 interrupt | a counterexample to `StampedWhenProcessed` |
| `files` | an RFC and a second file about it, 2 workers, a TTL of 1 tick, 2 versions of the index, 1 outage, 1 fault | `FilesAreWhole`, `StampIsNotLater`, `UpdateSeesAll`, `ImportedIsStored`, `RowsAreKept`, `CommandsEnd`, `TextsArrive` |
| `swap_one` | 1 updater, 2 connections, 4 files, 3 RFCs, 1 kill | `TypeOK`, `ServedWhole`, `SuccessIsVisible`, `ReadersUndisturbed`, `NeverBack` |
| `swap_two` | 2 updaters, 1 connection | a counterexample to `ServedWhole` |
| `tree` | all bodies of up to 4 lines out of 13 without a table; all of 3 lines out of 6 below a table of up to 3 entries out of 5 | `SectionsAreATree`, `TextIsKept`, `NestedByNumber` |
| `tree_panic` | the same lines, tables of up to 2 entries | a counterexample to `AlwaysReturns` |
| `lookup` | 5 parses of one RFC, 6 section numbers, 2 imports | `AnswersAreTrue`, `AdviceCanBeFollowed`, `DraftsAgree`, `FtsInStep`, `ReferencesFollowText` |
| `paginate` | all texts of up to 5 lines of 3 sizes, 4 texts of 13 lines; any limits of 5 and 3 values | `PageAdvances`, `WithinLimits`, `NotShort`, `ReadingEnds` |
| `drafts` | 2 callers, one per kind of tool, 2 revisions, a TTL of 1 tick, 1 failure; a search over 5 drafts, pages of 2, a cap of 4, 2 results at a time, 1 lookup at a time, 2 changes of the list | `TextMatchesLabel`, `MetadataAreFresh`, `NotFoundIsFresh`, `SearchIsRight`, `PagesFit`, `SearchEnds` |
| `ipr` | an RFC, its draft, two drafts behind it, an unknown document; 2 disclosures, pages of 1 row, a cap of 3 pages | `CompleteForSearched`, `AnswersAreRight`, `CallsEnd` |

Pipeline:

* `TornOnlyWhereCut`: in the served file the sections and the references of a
  document disagree only while a build's goroutine is between its two transactions,
  or where one was cut off right there, by a failed second transaction or the end
  of its process. Nothing else tears a document: no interrupt, no update, no
  re-parse that finds no references.
* `SuccessIsComplete`: after a run that returned nil every number it chose is
  stored with its references or counted as a failed fetch, unless the run was
  interrupted. A failed write never ends in success.
* `UpdateOnlyAdds` (of every step): an update neither changes nor drops nor
  tears a document of the served file, whatever fails in it.
* `BoundedWorkers`: at most `Workers` goroutines are past the semaphore, and
  none outlives `processAll`.
* `RunsEnd`: every run ends. `CorpusSpec`: the served database implements
  `Corpus`, where every available document is ingested in the end, unless the
  program stays unable to store one of those that are missing. The exception is
  needed and is no smaller in the code: an update that meets a refused text fails as
  a whole and drops its copy, so that one such text keeps every later RFC out of the
  served file, whether it could be stored or not, until a version with another
  parser is installed; only a build, which writes in place, can still add some. Without the exception
  (`Missing \intersect refused = {}` in `Corpus`'s `IngestInTime`) the run finds a
  counterexample: the same update panics for ever.

Files:

* `FilesAreWhole`: nobody reads a half-written index or text, though writers
  write while readers read, and are killed.
* `StampIsNotLater`: `loadCache` takes the age from a stat and the data from a
  later read. If another process replaces the file in between, the fetch time a
  build records is too early, never too late.
* `UpdateSeesAll`: an update's index has all that was published before it began,
  whatever the cache holds.
* `ImportedIsStored`: what `import-dir` counts as imported is stored, sections and
  references of one text, if one file is about that RFC; of two such files, each
  half is one of theirs. `RowsAreKept`: no import takes the index's metadata off a
  row, also not when looking the row up fails.
* `CommandsEnd`: every command ends. `TextsArrive`: once the site behaves, every
  published text is in the raw directory for good; a wrong index leaves the cache
  when it expires, an empty file is not taken for a text.

Served database:

* `ServedWhole`, `NeverBack`: `<db>` refers to a whole database, never to one
  with fewer RFCs than before.
* `ReadersUndisturbed`: the file behind an open connection does not change.
* `SuccessIsVisible`: after a successful update a reader that finds no log sees
  all of the index the update loaded.

Sections:

* `SectionsAreATree`: a section's parent is a section or the root, one level above
  it, so there is no cycle, whatever the passes did to the parents and although
  Tier 2's parents come from a table; and numbers are unique, as the store's
  `UNIQUE` constraint asks. The synthetic section `header` is exempt: a document
  with a heading of that title has two, and the code does nothing about it. So the
  property says that no other number can clash; what follows from the clash is in
  `Pipeline`, where such a text is one of `Refused`.
* `TextIsKept`: every line is a heading, cut out with the table, or part of
  exactly one section, and no line of the table that is cut out is part of one.
* `NestedByNumber`: without a table, the repairs move no section below one
  that its number does not name (a prefix, or `N.0` for a missing `N`), nor out of
  one that Tier 1 found. The root is not a missing `N`: a number of one segment is
  no child of a section called `0`.
* `AnswersAreTrue`: the text a tool returns, or the table of contents, is that of one
  document that was stored at some moment of the call: the asked section, alone or
  with all below it, or the whole of it; and each reason it gives for finding nothing
  was true at one.
* `AdviceCanBeFollowed`: sections named as guidance belong to one stored document;
  where `include_subsections` is offered, following the offer reaches them.
* `DraftsAgree`: `get_draft_section` answers as `get_section` does, but for sections
  whose number differs from the asked one in case only. Its rounds over the parsed
  sections find what the recursive query finds, also where a section stands before
  its parent; one round would not.
* `FtsInStep`: the full-text index has an entry for every section and no other,
  whichever import fails after whichever statement.
* `ReferencesFollowText`: the references reported for a section, alone or with its
  subsections, are those found in the text `get_section` returns for them, once both of the
  import's transactions are through.

Pages: `PageAdvances` and `ReadingEnds`: a page has a line and lies in the text, and
a client that follows the offsets reaches the end. `WithinLimits` and `NotShort`: a
page keeps to `max_chars` but for a single line, to the lines plus a fifth, and is
shorter than asked for only with a reason.

Drafts:

* `TextMatchesLabel`: the text under the label of a revision is that revision's,
  whatever is submitted while the call resolves, loads, fetches and saves.
* `MetadataAreFresh`: what is called the latest revision was it within the cache's
  lifetime and two calls, the one that fetched it and the one that reads it; an
  RFC number is withheld no longer, from its appearance or a failed lookup on.
* `NotFoundIsFresh`: only a call during which a draft or revision was not there calls
  it unknown.
* `SearchIsRight`: if no draft left the list while its pages were fetched, a search
  misses none that has all the words, or says that it is truncated; it makes
  nothing up, and repeats a draft only if others came in between.
* `PagesFit`: on a list at rest the result pages cut the matches up without gap or
  overlap, the total is their number, and `truncated` means the list is longer than
  the cap. `SearchEnds`: a search ends, with all its lookups.
* `CompleteForSearched`: an answer of `get_ipr`, given or cached, has every
  disclosure on the documents it names that was posted all along, however the
  lists move between the pages. `AnswersAreRight`: it has none that was not posted
  during the lookup, and its documents are those of the fan-out rule, or the RFC
  alone. `CallsEnd`: every call ends, whatever the Datatracker answers.

**Bounds.** In `pipeline_*` any property is violated, if at all, by one or two
goroutines, two runs in a row and one fault. With three numbers two goroutines
hold slots and one waits or is dispatched; two versions are a parse and a
re-parse, and `MCRefsOf` has a document that loses its references, one that gains
some and one that keeps them. `MaxHard` and `MaxSigint` count over all runs, so that
a run with a fault is followed by fault-free ones; any number of runs follow each
other. A refused text fails every run that comes to it and counts under no bound.
In `pipeline_safety` the version that refuses one is installed while the text may
be stored already; in `pipeline_live` it is the first version, so that updates fail
for as long as `Upgrade` does not come, and it need not come. `pipeline_live` has
`MaxHard` at 0: a failed write and a kill leave what the refused text leaves too, a
rolled back transaction and a dead process, and there without a bound. What is
assumed of failures by chance, and cannot be left out, is that they stop.

In `files` two names about one RFC are what a conflict needs; time is counted in
ticks up to the lifetime, and one fault is a failed write or a kill, followed by
commands without one. Other processes are not bounded. In `swap_one` four files
are enough for the served one, the copy and two that connections still have open.

The numbers of `tree` have up to four segments and end in `0` at two depths, so
that a promotion meets another one, a rescue needs a second pass and a climb
skips two segments; four lines let a promotion, a rescue and a climb happen in
one document. Below a table three lines and three entries are enough for both
branches (a Tier 1 of fewer than three headings or not), a duplicate entry and
a heading that the table spells differently. The documents of `lookup` are four
parses that differ where the tools branch: a blank section with and without
children, a number without a heading above and below others, slugs under a number,
two spellings of one letter; two imports let the text change twice, or the first
be the one that begins the corpus, between the queries of one call. In `paginate`
the largest integer is 40, so that the largest limit added to an offset would
wrap; in the long texts a fifth of a page is two lines.

In `drafts` a cached entry can be fetched by one call, age, and be read by another
into the next tick. The list of five drafts is longer than the cap of two pages
and may become shorter; three drafts match, which is more than a page of results.
`DraftTools` and `DraftSearch` share no variable, since a search keeps no file, so
the run takes either the one or the other. In `ipr` a list of two disclosures
takes three pages, which is the cap, so both a shift between pages and the cap
occur. Calls share nothing but the cache, whose entries are replaced whole, so one
caller, calling again and again, meets every entry another could have left; the
theorems have any number.

**Fairness.** `Pipeline` assumes weak fairness of the main goroutine and of each
worker: the Go scheduler runs them, and every blocking call has a timeout
(`http.Client.Timeout`, `busy_timeout`) after which a failure action is taken.
That is all `RunsEnd` uses. `CorpusSpec` also needs the environment: updates
are started again and again (`examples/systemd/rfc-mcp-update.timer`), and
index, errata and each text can be fetched infinitely often when they are asked
for again and again (strong fairness of `StartUpdate`, `LoadIndexLive` and
`ReplaceErrata` of an update, `FetchOK`). Writes that fail by chance, a full disk or
a lock, stop failing (`MaxHard`). Without these the promise is false: a network or a
disk that always fails is never caught up with. Nothing of the kind is assumed of
texts the program cannot store, neither that there are none nor that an upgrade
follows; there the promise itself is weaker (`CorpusSpec` above).

`IngestFiles` assumes weak fairness of the command's own steps (`Work`), and for
`TextsArrive` alone that downloads are started again and again, that time passes
(both strong, since other processes may disable them for a moment) and that an
outage ends. `DraftSearch` and `FetchIPR` assume that a search or call goes on, since
the HTTP client has a timeout; `HeadingTree` and `Paginate` that the function, and
the client, go on. Safety runs use no fairness. Deadlock is checked in all runs but
those of `HeadingTree` and `Paginate`, which end.

### Disagreements with the source's own words

1. `StampedWhenProcessed`: `recordBuildMeta`'s comment says the meta table is
   stamped "once the corpus insert/refresh transaction has completed
   successfully" (`pipeline.go:335-336`). After SIGINT the loop of `processAll`
   just breaks (`pipeline.go:374`), `dbErr` is nil, and the run stamps `built_at`
   and, for an update, swaps and reports success.
2. `ServedWhole` with two updates at once: "the served DB path always resolves
   to either the fully-old or fully-new file, never a partial write"
   (`main.go:250-251`). Both work on `<db>.new`; the one that finishes first
   renames a file the other one is writing.
3. `AlwaysReturns`: `ParseRFCText` promises "at least one section to index"
   (`ingest/rfctxt/parser.go:30-31`). Take a table without numbers that lists "Foo"
   and "Bar", and in the body "1 Foo", right under a line of text "2 Bar", then
   "2.1 tail" and so many other headings that Tier 1 is kept. Tier 1 misses
   "2 Bar", Tier 2 finds it as `bar`, and `rescueDanglingParents` adds the same
   line again as `2`, since 2.1 needs it (`parser.go:301`): `supplementFromTier2`
   compares lines (`parser.go:166-168`), the rescue does not. The text between
   the two headings is then a slice with its start behind its end.

Others the models have as the code has them, without a run of their own:

* `processAll`'s comment says that a failed write "means the database itself is
  broken and every remaining write would fail too" (`pipeline.go:358-359`), and that
  "Per-RFC fetch/parse failures are counted in stats and never returned as an error"
  (`pipeline.go:357-358`). One document whose sections share a number fails its
  insert in a sound database and cancels all the others, and one whose parse panics
  ends the process: `InsertClashes` and `ParsePanics`, with what follows from them in
  `CorpusSpec`.
* "The content of an open database never changes while it's being served"
  (`tools/rfc_lookup.go:14-15`): the handle is a pool that opens connections by
  name, so an update's rename changes what it reads, and `maxRFCNumbers` keeps the
  old number (`hint` of `UpdateSwap`).
* "An incomplete list must never be returned (and cached) as success"
  (`ingest/drafts/ipr.go:168-169`): when the lookup of an RFC's draft fails, the
  disclosures of the RFC alone are, for an hour (`ipr.go:329-334`, `373-375`);
  `searched_docs` is the only sign of it. `AnswersAreRight` allows for this.
* `parseIndex`'s comment (`pipeline.go:114-115`) calls an index without entries
  fatal; an empty body, which decodes to none, is an index of nothing
  (`Broken` and `Zero` of `IngestFiles`).
* "Draft tools … always current" (`cmd/rfc-mcp/main.go:416`): metadata are up to an
  hour and two calls old, which is what `MetadataAreFresh` allows.
* The drafts' cache takes an empty file for a hit (`drafts/cache.go:45`,
  `text.go:24`), the raw directory does not (`download.go:71`).
* "Section not found" and "no parsed sections" may join the findings of two moments,
  between which an import committed: each part is true, their sum may never have
  been. `AnswersAreTrue` asks for the parts.
* `LIKE` ignores case and `HasPrefix` does not: `DraftsAgree` says how far the two
  lookups of descendants differ.

Two further effects `HeadingTree` shows, about which the source says nothing: with
`1.0` before `1.1.0` the latter stays at the root, because its promotion comes
after `1.0` has taken in the children of `1`; and a heading rescued as `N` comes
after an `N.0` was promoted for want of it, so both are siblings.

## 4. What is proved

Every safety invariant and every action property of the runs that pass is a theorem.
Every theorem holds for all values of the constants that satisfy the named
assumptions of the module it is about: any finite or infinite sets of callers,
files and documents, any bounds on faults, any page sizes and lifetimes.

| Module | Theorem | States |
|---|---|---|
| `PipelineProofs` | `TypeCorrect`, `PoolIsBounded` | `TypeOK`, `BoundedWorkers` |
| | `Invariance` | `IInv`, from which the rest follows |
| | `OnlyCutsTear` | `TornOnlyWhereCut` |
| | `SuccessMeansComplete` | `SuccessIsComplete` |
| | `UpdatesOnlyAdd` | `UpdateOnlyAdds` |
| | `ImplementsCorpus` | the refinement of `Corpus`, without its fairness |
| `IngestFilesProofs` | `FilesStayWhole` | `FilesAreWhole` |
| | `UpdatesSeeAll`, `StampsAreNotLater` | `UpdateSeesAll`, `StampIsNotLater` |
| | `ImportsAreStored`, `IndexRowsAreKept` | `ImportedIsStored`, `RowsAreKept` |
| `UpdateSwapProofs` | `TypeCorrect` | `TypeOK`, for any updaters |
| | `ServedIsWhole`, `SuccessShows` | `ServedWhole`, `SuccessIsVisible`, for one updater |
| | `ReadersAreLeftAlone`, `OnlyForward` | `ReadersUndisturbed`, `NeverBack`, for one updater |
| `HeadingTreeProofs` | `Invariance` | `IInv`, from which the rest follows |
| | `TreeInvariance` | `SectionsAreATree` |
| | `TextInvariance`, `NestingInvariance` | `TextIsKept`, `NestedByNumber` |
| `SectionLookupProofs` | `Invariance` | `IInv`, from which the rest follows |
| | `IndexInStep` | `FtsInStep` |
| | `AnswersStayTrue`, `AdviceStaysGood` | `AnswersAreTrue`, `AdviceCanBeFollowed` |
| | `DraftsStayAlike` | `DraftsAgree` |
| | `ReferencesAreOfTheText` | `ReferencesFollowText` |
| `PaginateProofs` | `PagesAdvance` | `PageAdvances` |
| | `LimitsHold`, `PagesAreFull` | `WithinLimits` (`BytesAreCapped`, `LinesAreCapped`), `NotShort` |
| `DraftsProofs` | `TextsMatch` | `TextMatchesLabel` |
| | `MetadataStayFresh`, `NotFoundStaysFresh` | `MetadataAreFresh`, `NotFoundIsFresh` |
| | `SearchInvariance` | `SearchInv`, from which the next two follow |
| | `SearchFindsAll`, `PagesAreCut` | `SearchIsRight`, `PagesFit` |
| `FetchIPRProofs` | `SearchIsComplete` | `CompleteForSearched` |
| | `AnswersStayRight` | `AnswersAreRight` |

**Pipeline.** None of the properties is inductive alone. `IInv` adds what
connects them:

* `QueueInv`: the pool is clean until the numbers are chosen; the loop hands
  over every number unless the context is done; no run gets past `Wait` with
  `dbErr` set. With `BoundedWorkers` (no goroutine outside `processAll`) this
  settles the outcome of every number at the end of a run.
* `TaskInv`: what a goroutine's position says of the file: at `refs` the
  sections are the current version's, at `ok` the document is whole. The
  version cannot change under a running goroutine, which is why `Upgrade`
  happens between runs only.
* `UpdateInv`: the working copy still has what it was copied from, the numbers
  chosen are not among it, a document is torn in the copy only if it is torn
  in the served file or its failed write will stop the swap, and a refused text is
  in the copy only if it was in the served file.
* `IndexInv`, `CopyInv`: only published documents with a text are stored; only
  a running update has a copy, and only an update swaps.

`IInv` is preserved one conjunct at a time (`IndexStep` to `SuccessStep`), with
one step per action or group of actions; what each write does to the two files
is stated once (`RowDocs`, `InsertDocs`, `ReplaceDocs`, `DropDocs`, `QuietDocs`).
`TornOnlyWhereCut` rests on `Death` (the process dies, and `cut` gains the goroutines
of a build that are halfway) and `CutFrame` (what else changes `cut`). For it and for
the refinement, `ServedFrame` says which steps can change the documents of
the served file at all, and `SwapFact` what a swap brings in.

**Files.** `Sane` ties a command's stage to its goroutines and says that whoever is
past a check holds the text it checked for. On it stand two invariants: `LoadInv`
orders the time stamp, the age of the data and the age of the file at each stage of
a load, and keeps an update's data above its `floor`; `StoreInv` says what each
position of an import's goroutine has stored, and by whom. Neither `StampIsNotLater`
nor `ImportedIsStored` speaks of the stages before the last, where they are decided.

**Update.** `ServedWhole` fails with two updaters (run `swap_two`), so the theorems
about the served file assume `OneUpdater`. The invariant `SInv` then keeps apart what
the name tells apart only by luck: the copy an updater writes is neither the served
file nor one a connection has open (`CopyApart`), and the served content is a past
one (`ServedIsPast`).

**Full-text index.** Each statement of an import keeps the writer's view of table and
index in step (`InTx`), so that whatever is committed is. A rollback drops both.

**Heading tree.** The hard conjunct of `SectionsAreATree` is that no chain of parents
is a circle, since each pass rewrites parents that another one chose. `Acyclic` says
that a rank falls from child to parent (`Ordered`): twice its length for a number, one
less for an `N.0` that took the place of `N`, and for a slug twice its depth in the
table, or 0. The depths come from the table and the promoted numbers from the walk, so
the rank is quantified in the invariant: a promotion adds its `N.0` to `Z`, a rescue
adds a heading in the middle of the order, a climb replaces a parent by an ancestor
of lower rank. When the last pass has closed the parents, a falling rank means that
every chain reaches the root within as many steps as there are headings, so that
`DepthIn` is one more than the parent's (`Joined`), which `Assemble` copies to the
sections. `HeadsInv` has the
uniqueness of the numbers, and until `promote` ends of the lines: the rescue may break
it, and that is the panic. `TextIsKept` needs no history: the headings' lines, with
the line after the last, cut the others into intervals. `Nested` gives for each pass
what a parent may be without a table, and which climbs have a reason.

**Sections and their readers.** The invariant is a history argument. `StoreInv` ties
the committed rows to the document imported last, `TxInv` those of the transaction to
the part of its document it has written, and `CallInv` says what each step of a call
has established: each of its findings holds of some version in `seen`. A commit in
between adds a version and takes none away, so nothing found is ever lost; an answer
joins what was found, and each part of it keeps its version. What remains is about one
document whose parents exist: the least set below a number (`Descendants`) is the set of
sections with that number among their ancestors (`Under`), and the children, the
prefixes and the blank section lie in it as the guidance says. The rounds of the
lookup in memory find that set too (`RoundsFindDescendants`): a round from a set that
is not closed adds a number, and there is at most one number more than there are
sections. `DocumentsAreClosed` is what `HeadingTreeProofs` shows of the parser, but
for a heading called `header`.

**Pages.** The assumptions are that line starts grow and that a text has fewer than
half as many lines as the largest integer, without which the clamp would not keep
the sum of two line counts from wrapping. The argument follows the code:
`WindowBounds` (the clamp), `StopBounds` (the cut by bytes, from `FirstIsLeast` and
`SizeGrows`), `PageBounds` (the extension).

**Drafts.** `DInv` gives every cached entry and every position of a call an age: a
cached entry was true no longer ago than its own age and one tick, a call's data no
longer than its ticks, and what is read within the lifetime adds the two up to
`TTL + 2`. Texts need no age: a body is saved under the revision it was fetched for,
which no step changes.

**Search.** `ScanInv` says of a search under way: each draft with all the words that
was listed at the start is among the matches or still ahead of the offset, unless one
left the list; nothing is ahead that is among the matches, unless one came in. An
insertion before the offset pushes drafts ahead, so it repeats but never hides; a
removal pulls one behind it, which is why the promise ends there. On a list at rest
the matches are those of the part scanned, `Only` of its prefix, and a turn appends
`Only` of the next piece: that `Only` of a concatenation is the concatenation of the
two is the lemma that makes the pages fit.

**Disclosures.** `IInv` says of a call that walks a list: each disclosure that was
posted all along is already in the answer or still beyond the offset (`Walking`),
and of the lists walked to their end that all are in. It is stable because a
disclosure that is filed pushes rows away from the start only (`Inserted`,
`DiscloseInv`). A Datatracker that ignores offsets never ends a list that is longer
than a page, so nothing is asked of the rows before the offset (`stuck`); it ends a
shorter one with the whole list at once (`PageFacts`). `Following` is the same for
the replaced drafts.

**Recursive functions.** `Only`, `Located` and `DepthIn` are recursive functions, and
the library's induction rules take an operator as a parameter, which no prover here can
instantiate. The proofs go by the smallest counterexample instead: the set of the
numbers where the claim fails is a set of naturals, so it has a least element
(`Least`, from `WFMin`), and the equation of the function refutes it. That each such
function satisfies its equation is shown once, in the same way.

Only model-checked: liveness (`RunsEnd`, `CommandsEnd`, `TextsArrive`, `ReadingEnds`,
`SearchEnds`, `CallsEnd`, and the fairness part of `CorpusSpec`, whose safety part is
`ImplementsCorpus`), which needs ENABLED and is out of the prover's reach; and what
the three counterexamples show, which no theorem could.

## 5. What is not modelled

* The recognition of headings, tables and references in text (`rfctxt/headings.go`,
  `cleanup.go`, the expressions of `toc.go`; `ExtractReferences` of `db/references.go`):
  regular expressions over characters, for which the repository's tests are the
  better check. The models take any outcome of them: `Plain` and `Listed` of
  `HeadingTree`, `RefsOf` of `Pipeline`, `Citing` of `SectionLookup`.
* Decoding of the index's XML and the errata's JSON, which keep no state. The callers'
  view of it, a list, nothing or an error, is in `IngestFiles` and `Pipeline`. A
  malformed entry of the errata is skipped and its stored row then goes with the
  others.
* The sanitising of a search and its ranking, which is SQLite's, and the queries of
  `list_rfcs`, `get_metadata`, `get_errata` and incoming references: one statement
  each, whose rows are formatted.
* What SQLite does with a log that stays next to a renamed file, although a build
  killed while a server is connected can leave one: it depends on salts and
  checksums of the log's frames.
* The versions of the index's rows: a build that fails on the way leaves rows of
  two, in the served file, and the next build upserts them all; the source promises
  no more.
* How a title is scraped from the header of an imported text, the wording of answers
  and logs, flags, authentication and transports, packaging.

Where a model is coarser than the code:

* `LoadIndexLive` of `Pipeline` takes the whole published index or fails. An index
  that decodes to nothing or in part, and the wrong answers of the site, are outcomes
  of `IngestFiles`.
* `UpdateSwap` counts a refresh that SIGINT ends early as a whole one, as `RunUpdate`
  does by returning nil; which numbers it lacks is `StampedWhenProcessed`.
* In `IngestFiles` a file named `rfcN.txt` is about RFC `N`. One whose header names
  another RFC is one of the `Extras`, whose RFC is a constant. A failed read of the
  directory or of a file counts as a fault, like a failed statement.
* `ReadMeta` of `DraftTools` finds the file whose age it has looked at; nothing in the
  code deletes an entry of that cache.
* `FetchIPR` assumes that the rows of a list keep their order between two pages and
  that none is removed, although the requests for them ask for no order
  (`ipr.go:227-231`; the one in `draftForRFC`, `ipr.go:140-143`, does), and that the
  drafts a draft replaces stay the same during a call. Without the first, paging by
  offset can promise nothing. The run has one caller; that calls which overlap leave
  a good entry, whichever ends last, is the theorem's.

The compositions the modules leave open are those section 2 names: `Pipeline`
takes outcomes of `IngestFiles` and transactions of `SectionLookup` as single steps.
A refinement that replaces them by the detailed steps would multiply the states
beyond what TLC can enumerate, and the theorems of the parts do not depend on it.
