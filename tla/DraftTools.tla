----------------------------- MODULE DraftTools -----------------------------
(***************************************************************************)
(* The tools about one Internet-Draft and their on-disk cache              *)
(* (src/ingest/drafts/metadata.go, text.go, cache.go, http.go,             *)
(* src/tools/draft_helpers.go, get_draft_metadata.go, get_draft_toc.go,    *)
(* get_draft_section.go).  A call without a revision first resolves the    *)
(* latest one from the metadata, which are cached for an hour; the text of *)
(* a revision is cached for ever.  Calls run concurrently and share only   *)
(* the files.  Meanwhile the draft gets new revisions and is published as  *)
(* an RFC; the Datatracker may show that state before the related document *)
(* that holds the number, and requests and writes may fail.                *)
(*                                                                         *)
(* Time passes in ticks; an entry older than TTL ticks has expired.  A     *)
(* call is much shorter than a tick: none ends more than a tick after it   *)
(* began.  Ages saturate just beyond what the code and the properties      *)
(* compare, so time may go on for ever.                                    *)
(***************************************************************************)
EXTENDS Naturals, FiniteSets

CONSTANTS
  Callers,    \* concurrent tool calls
  Tools,      \* the tools each may call: "metadata", or "section" for
              \* get_draft_toc and get_draft_section, which read the text
  MaxRev,     \* bound: revisions 1 .. MaxRev; 0 is a draft not yet submitted
  TTL,        \* metadataCacheTTL, in ticks
  MaxFaults   \* bound: requests that fail

ASSUME DraftBounds ==
  /\ Tools \in [Callers -> SUBSET {"metadata", "section"}]
  /\ MaxRev \in Nat \ {0} /\ TTL \in Nat \ {0} /\ MaxFaults \in Nat

VARIABLES
  latest,     \* the Datatracker's latest revision
  archived,   \* the latest revision whose text the archive has
  published,  \* its state shows the draft as published
  related,    \* it has the became_rfc document, with the number
  meta,       \* the cached metadata, or NoEntry
  texts,      \* the cached body of each revision: the revision it is the text of
  calls,      \* what each caller is doing
  faults,     \* requests that have failed
  since       \* history: how long ago each of these last held

world == <<latest, archived, published, related>>
fetchVars == <<latest, archived, published, related, meta, texts, calls, faults, since>>

Revisions == 1 .. MaxRev
NoEntry == [rev |-> 0]
Horizon == TTL + 3
Older(age) == IF age < Horizon THEN age + 1 ELSE age

Ended == {"idle", "done", "notFound"}
Idle == [pc |-> "idle"]

FetchInit ==
  /\ latest = 0 /\ archived = 0 /\ published = FALSE /\ related = FALSE
  /\ meta = NoEntry /\ texts = [r \in Revisions |-> 0]
  /\ calls = [c \in Callers |-> Idle]
  /\ faults = 0
  /\ since = [latest |-> [r \in Revisions |-> Horizon],
              unrelated |-> 0, failed |-> Horizon]

-----------------------------------------------------------------------------
(* The world.                                                              *)

Submit ==
  /\ latest < MaxRev /\ ~published
  /\ latest' = latest + 1
  /\ since' = [since EXCEPT !.latest[latest + 1] = 0]
  /\ UNCHANGED <<archived, published, related, meta, texts, calls, faults>>

(* The archive is another server: its copy may come later.                 *)
Archive ==
  /\ archived < latest /\ archived' = latest
  /\ UNCHANGED <<latest, published, related, meta, texts, calls, faults, since>>

Publish ==
  /\ latest > 0 /\ ~published /\ published' = TRUE
  /\ UNCHANGED <<latest, archived, related, meta, texts, calls, faults, since>>

Relate ==
  /\ published /\ ~related /\ related' = TRUE
  /\ UNCHANGED <<latest, archived, published, meta, texts, calls, faults, since>>

(* No call is two ticks long.                                              *)
Tick ==
  /\ \A c \in Callers : calls[c].pc \notin Ended => calls[c].ticks = 0
  /\ meta' = IF meta = NoEntry THEN meta ELSE [meta EXCEPT !.age = Older(@)]
  /\ calls' = [c \in Callers |->
                IF calls[c].pc \in Ended THEN Idle ELSE [calls[c] EXCEPT !.ticks = 1]]
  /\ since' = [latest |-> [r \in Revisions |->
                           IF r = latest THEN 0 ELSE Older(since.latest[r])],
               unrelated |-> IF related THEN Older(since.unrelated) ELSE 0,
               failed |-> Older(since.failed)]
  /\ UNCHANGED <<world, texts, faults>>

(* A request that three attempts did not answer: see FetchIPR and          *)
(* IngestFiles for the attempts.                                           *)
Fault == faults < MaxFaults /\ faults' = faults + 1

-----------------------------------------------------------------------------
(* A call: what it is doing, its tool, the revision it is about (0 until   *)
(* resolved), whether it resolved it, the RFC it found, the body it        *)
(* answers from, its ticks; history: what it asks for was not there when it*)
(* began to look for it.                                                   *)

Set(c, call) == calls' = [calls EXCEPT ![c] = call]
Goto(c, pc) == Set(c, [calls[c] EXCEPT !.pc = pc])
Pc(c) == calls[c].pc

(* An answered call is known by its answer only.                           *)
Answer(c, call) == Set(c, [call EXCEPT !.pc = "done", !.ticks = 0, !.missing = FALSE])

Answered(c) == calls[c].pc = "done"

(* resolveDraftRevision: an explicit or embedded revision needs no         *)
(* metadata.                                                               *)
AskDraft(c, tool, rev) ==
  /\ Pc(c) \in Ended
  /\ tool = "metadata" => rev = 0
  /\ Set(c, [pc |-> IF rev = 0 THEN "stat" ELSE "text", tool |-> tool,
             rev |-> rev, latest |-> rev = 0, rfc |-> FALSE, body |-> 0, ticks |-> 0,
             missing |-> IF rev = 0 THEN latest = 0 ELSE rev > archived])
  /\ UNCHANGED <<meta, texts, faults, since>>

(* The metadata are there: the answer of get_draft_metadata, and the       *)
(* revision for the other tools.                                           *)
Resolved(c, m) ==
  IF calls[c].tool = "metadata"
  THEN Answer(c, [calls[c] EXCEPT !.rev = m.rev, !.rfc = m.rfc])
  ELSE Set(c, [calls[c] EXCEPT !.pc = "text", !.rev = m.rev, !.rfc = FALSE,
                               !.missing = m.rev > archived])

(* A mutant: an entry of any age is taken.                                 *)
StatMetaForEver(c) ==
  /\ Pc(c) = "stat"
  /\ Goto(c, IF meta = NoEntry THEN "document" ELSE "read")
  /\ UNCHANGED <<meta, texts, faults, since>>

(* loadCache: the age is the file's at the time of the stat ...            *)
StatMeta(c) ==
  /\ Pc(c) = "stat"
  /\ Goto(c, IF meta = NoEntry \/ meta.age > TTL THEN "document" ELSE "read")
  /\ UNCHANGED <<meta, texts, faults, since>>

(* ... and the data are the file's at the time of the read.                *)
ReadMeta(c) ==
  /\ Pc(c) = "read"
  /\ Resolved(c, meta)
  /\ UNCHANGED <<meta, texts, faults, since>>

(* GET the document: the latest revision and the state, or 404.            *)
FetchDocument(c) ==
  /\ Pc(c) = "document"
  /\ IF latest = 0 THEN Goto(c, "notFound")
     ELSE Set(c, [calls[c] EXCEPT !.pc = IF published THEN "related" ELSE "saveMeta",
                                  !.rev = latest])
  /\ UNCHANGED <<meta, texts, faults, since>>

(* GET the related document; that there is none is an error no one sees.   *)
FetchRelated(c) ==
  /\ Pc(c) = "related"
  /\ Set(c, [calls[c] EXCEPT !.pc = "saveMeta", !.rfc = related])
  /\ UNCHANGED <<meta, texts, faults, since>>

RelatedFails(c) ==
  /\ Pc(c) = "related" /\ Fault
  /\ Goto(c, "saveMeta")
  /\ since' = [since EXCEPT !.failed = 0]
  /\ UNCHANGED <<meta, texts>>

Entry(c) == [rev |-> calls[c].rev, rfc |-> calls[c].rfc, age |-> 0]

(* saveCache: a temporary file is renamed, with the time of the write.     *)
SaveMeta(c) ==
  /\ Pc(c) = "saveMeta"
  /\ meta' = Entry(c)
  /\ Resolved(c, Entry(c))
  /\ UNCHANGED <<texts, faults, since>>

(* A failed write is ignored: the next call fetches again.                 *)
SaveMetaFails(c) ==
  /\ Pc(c) = "saveMeta" /\ Fault
  /\ Resolved(c, Entry(c))
  /\ UNCHANGED <<meta, texts, since>>

(* FetchText: the cached body, of any age, or the archive's.               *)
LoadText(c) ==
  /\ Pc(c) = "text"
  /\ LET body == texts[calls[c].rev]
     IN  IF body = 0 THEN Goto(c, "archive")
         ELSE Answer(c, [calls[c] EXCEPT !.body = body])
  /\ UNCHANGED <<meta, texts, faults, since>>

FetchText(c) ==
  /\ Pc(c) = "archive"
  /\ IF calls[c].rev > archived THEN Goto(c, "notFound")
     ELSE Set(c, [calls[c] EXCEPT !.pc = "saveText", !.body = calls[c].rev])
  /\ UNCHANGED <<meta, texts, faults, since>>

(* A mutant: the cache key lacks the revision.                             *)
SaveTextByName(c) ==
  /\ Pc(c) = "saveText"
  /\ texts' = [r \in Revisions |-> calls[c].body]
  /\ Answer(c, calls[c])
  /\ UNCHANGED <<meta, faults, since>>

SaveText(c) ==
  /\ Pc(c) = "saveText"
  /\ texts' = [texts EXCEPT ![calls[c].rev] = calls[c].body]
  /\ Answer(c, calls[c])
  /\ UNCHANGED <<meta, faults, since>>

SaveTextFails(c) ==
  /\ Pc(c) = "saveText" /\ Fault
  /\ Answer(c, calls[c])
  /\ UNCHANGED <<meta, texts, since>>

(* A mutant: every failure is taken for a 404.                             *)
RequestIsNotFound(c) ==
  /\ Pc(c) \in {"document", "archive"} /\ Fault
  /\ Goto(c, "notFound")
  /\ UNCHANGED <<meta, texts, since>>

(* Any other request that fails ends the call, with an error.              *)
RequestFails(c) ==
  /\ Pc(c) \in {"document", "archive"} /\ Fault
  /\ Set(c, Idle)
  /\ UNCHANGED <<meta, texts, since>>

Work(c) ==
  \/ StatMeta(c) \/ ReadMeta(c) \/ FetchDocument(c) \/ FetchRelated(c) \/ RelatedFails(c)
  \/ SaveMeta(c) \/ SaveMetaFails(c)
  \/ LoadText(c) \/ FetchText(c) \/ SaveText(c) \/ SaveTextFails(c) \/ RequestFails(c)

FetchNext ==
  \/ Submit \/ Archive \/ Publish \/ Relate \/ Tick
  \/ \E c \in Callers :
       /\ \/ \E tool \in Tools[c], rev \in 0 .. MaxRev : AskDraft(c, tool, rev)
          \/ Work(c)
       /\ UNCHANGED world

FetchSpec == FetchInit /\ [][FetchNext]_fetchVars

-----------------------------------------------------------------------------
(* Properties.                                                             *)

(* The text under the label of a revision is that revision's, whatever was *)
(* submitted while the call resolved, loaded, fetched and saved            *)
(* (draft_helpers.go:99-117, text.go:14-38).                               *)
TextMatchesLabel ==
  \A c \in Callers : Answered(c) /\ calls[c].tool = "section" => calls[c].body = calls[c].rev

(* What a call resolves as the latest revision was the latest within the   *)
(* cache's lifetime and the length of two calls: the one that fetched it   *)
(* and this one (metadata.go:13-17, cache.go:34-49).                       *)
RevWasLatest ==
  \A c \in Callers :
    Answered(c) /\ calls[c].latest => since.latest[calls[c].rev] <= TTL + 2

(* Metadata carry an RFC number only once there is one, and withhold it no *)
(* longer than an entry lives: since the related document appeared, or a   *)
(* lookup failed (metadata.go:76-85).                                      *)
RFCIsReported ==
  \A c \in Callers :
    Answered(c) /\ calls[c].tool = "metadata" =>
      IF calls[c].rfc THEN published /\ related
      ELSE since.unrelated <= TTL + 2 \/ since.failed <= TTL + 2

(* Both: metadata are as fresh as the cache's lifetime promises.           *)
MetadataAreFresh == RevWasLatest /\ RFCIsReported

(* A draft or a revision is called unknown only by a call during which it  *)
(* was not there: a 404 is never remembered (http.go:65-67, text.go:31-34).*)
NotFoundIsFresh == \A c \in Callers : Pc(c) = "notFound" => calls[c].missing
=============================================================================
