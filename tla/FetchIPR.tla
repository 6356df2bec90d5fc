------------------------------ MODULE FetchIPR ------------------------------
(***************************************************************************)
(* ingest/drafts/ipr.go: get_ipr's lookups of the disclosures filed        *)
(* against an RFC or a draft.  A call asks the Datatracker whether the     *)
(* document exists, takes an answer from the disk cache if it can, else    *)
(* finds the documents to search (the RFC's draft, the drafts that one     *)
(* replaces), walks the pages of each document's lists, and caches the     *)
(* answer.  Calls run at the same time, fail, and are cancelled, while the *)
(* Datatracker's lists change.                                             *)
(*                                                                         *)
(* Assumed of the Datatracker: between two pages the rows of a list keep   *)
(* their order and none goes away, although the requests for them ask for  *)
(* no order (ipr.go:227-231; draftForRFC does, ipr.go:140-143), and the    *)
(* drafts that a draft replaces stay the same.  Without a stable order no  *)
(* walk by offset is complete.                                             *)
(***************************************************************************)
EXTENDS Integers, FiniteSets, Sequences, SequencesExt

CONSTANTS
    Callers,    \* tool calls running at the same time
    Docs, Rfcs, \* the documents the Datatracker knows, those that are RFCs
    Primaries,  \* the documents asked for, known or not
    DraftOf,    \* the draft that became an RFC, or NoDoc
    Replaced,   \* the drafts that a draft replaces, as the Datatracker lists them
    Kinds,      \* iprDisclosureKinds
    Ids,        \* disclosures
    About,      \* the documents of a disclosure
    KindOf,     \* its kind
    PageLimit,  \* datatrackerPageLimit
    MaxPages,   \* datatrackerMaxPages
    NoDoc

ASSUME DocsAssumption ==
    /\ Rfcs \subseteq Docs /\ NoDoc \notin Docs \union Primaries
    /\ DraftOf \in [Rfcs -> (Docs \ Rfcs) \union {NoDoc}]
    /\ Replaced \in [Docs \ Rfcs -> Seq(Docs \ Rfcs)]
    /\ About \in [Ids -> SUBSET Docs] /\ KindOf \in [Ids -> Kinds] /\ Kinds # {}
ASSUME PagesAssumption == PageLimit \in Nat \ {0} /\ MaxPages \in Nat \ {0}

\* What a list is asked for with: a document and a kind.
Queries == Docs \X Kinds
Matches(i, q) == q[1] \in About[i] /\ q[2] = KindOf[i]

VARIABLES
    lists,   \* the Datatracker's list of disclosures for each query, in its order
    posted,  \* those in the state "posted"
    stuck,   \* the Datatracker ignores the offset of a request
    cache,   \* ipr/<name>.json for each document asked for
    call     \* what each caller is doing

vars == <<lists, posted, stuck, cache, call>>

(***************************************************************************)
(* An answer is the documents searched and the disclosures found.  Two     *)
(* further components are history: the disclosures posted from the start   *)
(* of the lookup on without a break ("must"), and all that were posted at  *)
(* some time during it ("may").                                            *)
(***************************************************************************)
NoAnswer == [docs |-> {}, items |-> {}, must |-> {}, may |-> {}]
Answers == [docs : (SUBSET Docs) \union (SUBSET Primaries),
            items : SUBSET Ids, must : SUBSET Ids, may : SUBSET Ids]

Stages == {"idle", "verify", "cache", "link", "replaces", "rows", "save",
           "done", "failed"}
Ended == {"idle", "done", "failed"}

Idle == [at |-> "idle", doc |-> NoDoc, cancelled |-> FALSE, attempt |-> 0,
         pages |-> 0, offset |-> 0, left |-> {}, ans |-> NoAnswer]

Calls == [at : Stages, doc : Primaries \union {NoDoc}, cancelled : BOOLEAN,
          attempt : 0..2, pages : 0..(MaxPages - 1), offset : Nat,
          left : SUBSET Queries, ans : Answers]

TypeOK ==
    /\ lists \in [Queries -> Seq(Ids)] /\ posted \subseteq Ids /\ stuck \in BOOLEAN
    /\ cache \in [Primaries -> Answers]
    /\ call \in [Callers -> Calls]

Init == /\ lists = [q \in Queries |-> <<>>] /\ posted = {} /\ stuck \in BOOLEAN
        /\ cache = [p \in Primaries |-> NoAnswer]
        /\ call = [c \in Callers |-> Idle]
-----------------------------------------------------------------------------
(***************************************************************************)
(* The Datatracker.  A new disclosure may appear anywhere in the lists;    *)
(* one that is withdrawn stays in them, in another state.                  *)
(***************************************************************************)
Listed == UNION {ToSet(lists[q]) : q \in Queries}

Disclose ==
    \E i \in Ids \ Listed :
      /\ \E at \in [Queries -> 1..(Cardinality(Listed) + 1)] :
           /\ \A q \in Queries : at[q] <= Len(lists[q]) + 1
           /\ lists' = [q \in Queries |-> IF Matches(i, q) THEN InsertAt(lists[q], at[q], i)
                                                         ELSE lists[q]]
      /\ UNCHANGED <<posted, stuck, cache, call>>

Post == \E i \in Listed \ posted :
          /\ posted' = posted \union {i}
          /\ call' = [c \in Callers |->
               IF call[c].at \in Ended THEN call[c]
               ELSE [call[c] EXCEPT !.ans.may = @ \union {i}]]
          /\ UNCHANGED <<lists, stuck, cache>>

Withdraw == \E i \in posted :
              /\ posted' = posted \ {i}
              /\ call' = [c \in Callers |-> [call[c] EXCEPT !.ans.must = @ \ {i}]]
              /\ cache' = [p \in Primaries |-> [cache[p] EXCEPT !.must = @ \ {i}]]
              /\ UNCHANGED <<lists, stuck>>

\* metadataCacheTTL has passed since an answer was written.
Expire == \E p \in Primaries :
            /\ cache[p] # NoAnswer
            /\ cache' = [cache EXCEPT ![p] = NoAnswer]
            /\ UNCHANGED <<lists, posted, stuck, call>>

Datatracker == Disclose \/ Post \/ Withdraw
-----------------------------------------------------------------------------
(***************************************************************************)
(* A call.  Every request may fail; httpGetWithRetry makes three attempts. *)
(***************************************************************************)
At(c, stage) == call[c].at = stage
Becomes(c, k) == call' = [call EXCEPT ![c] = k]

\* The state of a call that goes on to another stage.
Onward(k, stage) == [k EXCEPT !.at = stage, !.attempt = 0, !.pages = 0, !.offset = 0]

Begin(c, p) ==
    /\ call[c].at \in Ended
    /\ Becomes(c, [Idle EXCEPT !.at = "verify", !.doc = p,
                               !.ans = [docs |-> {p}, items |-> {},
                                        must |-> posted, may |-> posted]])
    /\ UNCHANGED <<lists, posted, stuck, cache>>

Requesting(c) == call[c].at \in {"verify", "link", "replaces", "rows"}
Answered(c) == Requesting(c) /\ ~call[c].cancelled

Verify(c) ==
    /\ At(c, "verify") /\ Answered(c) /\ call[c].doc \in Docs
    /\ Becomes(c, Onward(call[c], "cache"))
    /\ UNCHANGED <<lists, posted, stuck, cache>>

\* The draft whose replaced drafts are looked up, if there is one.
Origin(k) == IF k.doc \in Rfcs THEN DraftOf[k.doc] ELSE k.doc

Search(k) == [Onward(k, "rows") EXCEPT !.left = k.ans.docs \X Kinds]
Gathered(k) == IF k.ans.docs \subseteq Rfcs THEN Search(k) ELSE Onward(k, "replaces")

Lookup(c) ==
    /\ At(c, "cache")
    /\ LET k == call[c]
       IN  Becomes(c, IF cache[k.doc] # NoAnswer
                      THEN [Onward(k, "done") EXCEPT !.ans = cache[k.doc]]
                      ELSE IF k.doc \in Rfcs THEN Onward(k, "link") ELSE Gathered(k))
    /\ UNCHANGED <<lists, posted, stuck, cache>>

\* draftForRFC: no row, no draft.
Link(c) ==
    /\ At(c, "link") /\ Answered(c)
    /\ LET found == {DraftOf[call[c].doc]} \ {NoDoc}
       IN  Becomes(c, Gathered([call[c] EXCEPT !.ans.docs = @ \union found]))
    /\ UNCHANGED <<lists, posted, stuck, cache>>

\* The page of a list that a request is answered with.
Page(list, offset) ==
    LET from == IF stuck THEN 0 ELSE offset
    IN  {i \in DOMAIN list : from < i /\ i <= from + PageLimit}

IsLast(page) == Cardinality(page) < PageLimit

\* The walk stops at the cap as if the list had ended.
PagedCapped(k, page, end) ==
    IF IsLast(page) \/ k.pages + 1 = MaxPages THEN end
    ELSE [k EXCEPT !.attempt = 0, !.pages = @ + 1, !.offset = @ + Cardinality(page)]

\* A page shorter than asked for is the last one; a full one at the cap fails
\* the call, any other is followed by the next.
Paged(k, page, end) ==
    IF IsLast(page) THEN end
    ELSE IF k.pages + 1 = MaxPages THEN Onward(k, "failed")
    ELSE [k EXCEPT !.attempt = 0, !.pages = @ + 1, !.offset = @ + Cardinality(page)]

\* replacedDrafts: one hop.
Replaces(c) ==
    /\ At(c, "replaces") /\ Answered(c)
    /\ LET k == call[c]
           list == Replaced[Origin(k)]
           page == Page(list, k.offset)
           more == [k EXCEPT !.ans.docs = @ \union {list[i] : i \in page}]
       IN  Becomes(c, Paged(more, page, Search(more)))
    /\ UNCHANGED <<lists, posted, stuck, cache>>

\* The documents' lists are read one after the other.
Query(left) == CHOOSE q \in left : TRUE
Kept(list, page) == {list[i] : i \in page} \intersect posted

\* fetchDisclosuresForDoc
Rows(c) ==
    /\ At(c, "rows") /\ Answered(c)
    /\ LET k == call[c]
           list == lists[Query(k.left)]
           page == Page(list, k.offset)
           more == [k EXCEPT !.ans.items = @ \union Kept(list, page)]
           rest == k.left \ {Query(k.left)}
           end == [Onward(more, IF rest = {} THEN "save" ELSE "rows") EXCEPT !.left = rest]
       IN  Becomes(c, Paged(more, page, end))
    /\ UNCHANGED <<lists, posted, stuck, cache>>

\* The write of the cache file may fail; the answer is given all the same.
Save(c) ==
    /\ At(c, "save")
    /\ \/ cache' = [cache EXCEPT ![call[c].doc] = call[c].ans]
       \/ UNCHANGED cache
    /\ Becomes(c, Onward(call[c], "done"))
    /\ UNCHANGED <<lists, posted, stuck>>
-----------------------------------------------------------------------------
\* There is no last attempt.
RetryForEver(c) ==
    /\ Requesting(c) /\ ~call[c].cancelled
    /\ call' = [call EXCEPT ![c].attempt = IF @ < 2 THEN @ + 1 ELSE 0]
    /\ UNCHANGED <<lists, posted, stuck, cache>>

\* A request fails and is made again.
Retry(c) ==
    /\ Requesting(c) /\ ~call[c].cancelled /\ call[c].attempt < 2
    /\ call' = [call EXCEPT ![c].attempt = @ + 1]
    /\ UNCHANGED <<lists, posted, stuck, cache>>

\* Any lookup of documents is given up like draftForRFC's.
GiveUpGently(c) ==
    /\ Requesting(c)
    /\ LET k == call[c]
       IN  Becomes(c, CASE k.at = "link" -> Search(k)
                        [] k.at = "replaces" -> Search(k)
                        [] OTHER -> Onward(k, "failed"))
    /\ UNCHANGED <<lists, posted, stuck, cache>>

\* A request fails for good: the third time, not to be repeated (404), not to
\* be parsed, or cancelled.  The lookup of an RFC's draft does without.
GiveUp(c) ==
    /\ Requesting(c)
    /\ LET k == call[c]
       IN  Becomes(c, IF k.at = "link" THEN Gathered(k) ELSE Onward(k, "failed"))
    /\ UNCHANGED <<lists, posted, stuck, cache>>

Cancel(c) ==
    /\ ~(call[c].at \in Ended) /\ ~call[c].cancelled
    /\ call' = [call EXCEPT ![c].cancelled = TRUE]
    /\ UNCHANGED <<lists, posted, stuck, cache>>

Step(c) == \/ Verify(c) \/ Lookup(c) \/ Link(c) \/ Replaces(c) \/ Rows(c)
           \/ Save(c) \/ Retry(c) \/ GiveUp(c)

Next == \/ Datatracker \/ Expire
        \/ \E c \in Callers : Step(c) \/ Cancel(c) \/ \E p \in Primaries : Begin(c, p)

Safety == Init /\ [][Next]_vars
Spec == Safety /\ \A c \in Callers : WF_vars(Step(c))
-----------------------------------------------------------------------------
Given == {call[c].ans : c \in {c \in Callers : At(c, "done")}}
Stored == {cache[p] : p \in Primaries} \ {NoAnswer}
Against(docs) == {i \in Ids : About[i] \intersect docs # {}}

\* What is searched is searched completely: an answer, given or cached, has
\* every disclosure against one of its documents that was posted all along,
\* however the lists moved between the pages (ipr.go:64-66, 164-170).
CompleteForSearched ==
    \A a \in Given \union Stored : a.must \intersect Against(a.docs) \subseteq a.items

\* Nothing else is: a disclosure of an answer is against one of its documents
\* and was posted during the lookup (ipr.go:27-34, 214-216).
Sound == \A a \in Given \union Stored : a.items \subseteq a.may \intersect Against(a.docs)

\* The documents searched are those of the fan-out rule; only an RFC's draft
\* may be missing, with all that follows from it, and a document that does
\* not exist has no answer (ipr.go:109-113, 294-303, 329-340).
FanOut(p) ==
    LET d == IF p \in Rfcs THEN DraftOf[p] ELSE p
    IN  {p} \union ({d} \ {NoDoc})
            \union (IF d = NoDoc THEN {} ELSE ToSet(Replaced[d]))

Covers(p, a) == /\ p \in Docs
                /\ a.docs = FanOut(p) \/ (p \in Rfcs /\ a.docs = {p})

CoverageIsShown ==
    /\ \A c \in Callers : At(c, "done") => Covers(call[c].doc, call[c].ans)
    /\ \A p \in Primaries : cache[p] # NoAnswer => Covers(p, cache[p])

\* The state is well-typed, attempts and pages within their limits; every
\* answer, given or cached, is sound and says what it covers.
AnswersAreRight == TypeOK /\ Sound /\ CoverageIsShown

\* Every call ends, though the Datatracker repeats its pages for ever and
\* every request may fail (ipr.go:164-170, http.go:49-53).
CallsEnd == \A c \in Callers : []<>(call[c].at \in Ended)
=============================================================================
