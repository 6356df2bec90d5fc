---------------------------- MODULE DraftSearch ----------------------------
(***************************************************************************)
(* search_drafts (src/tools/search_drafts.go,                              *)
(* src/ingest/drafts/search.go): a query of one word is one request, a     *)
(* query of several walks the Datatracker's pages for the longest word and *)
(* keeps the titles with all the others.  The list is the Datatracker's    *)
(* and changes while it is walked by offset.  The RFC numbers of published *)
(* drafts on the result page are then looked up concurrently.              *)
(*                                                                         *)
(* A draft is one the server-side filter lets through; AllWords are those  *)
(* whose titles have the other words too.                                  *)
(***************************************************************************)
EXTENDS Naturals, FiniteSets, SequencesExt

CONSTANTS
  Drafts,       \* a sequence: the server's order
  AllWords,     \* the drafts whose titles contain every word
  InRFCState,   \* the drafts whose state shows a publication
  PageSize,     \* multiWordPageSize
  ScanCap,      \* multiWordScanCap
  Limit,        \* the result page: the default or the caller's limit
  Concurrency,  \* becameRFCConcurrency
  MaxOffset,    \* bound: offsets callers ask for
  MaxChanges    \* bound: changes of the list during a search

ASSUME SearchBounds ==
  /\ Drafts \in Seq(Range(Drafts)) /\ IsInjective(Drafts)
  /\ AllWords \subseteq Range(Drafts) /\ InRFCState \subseteq Range(Drafts)
  /\ PageSize \in Nat \ {0} /\ ScanCap \in Nat \ {0} /\ Limit \in Nat \ {0}
  /\ Concurrency \in Nat \ {0} /\ MaxOffset \in Nat /\ MaxChanges \in Nat

VARIABLES
  listing,   \* the drafts of the server-side filter, in the server's order
  changes,   \* changes of the list in this search
  search,    \* the search in progress
  lookups,   \* of each row of the result page, its became_rfc lookup
  watched    \* history: the list when the scan began, and the drafts that
             \* went and those that came while it went on

searchVars == <<listing, changes, search, lookups, watched>>

NoSearch == [pc |-> "idle"]

Quiet(list) == [first |-> list, gone |-> {}, come |-> {}]

(* What is in S, in the order of the list.                                 *)
Only(list, S) ==
  LET kept[n \in 0 .. Len(list)] ==
        IF n = 0 THEN <<>>
        ELSE IF list[n] \in S THEN Append(kept[n - 1], list[n]) ELSE kept[n - 1]
  IN  kept[Len(list)]

(* The list of a search to come: any of the drafts.                        *)
Listings == {Only(Drafts, listed) : listed \in SUBSET Range(Drafts)}

SearchInit ==
  /\ listing = Drafts /\ changes = 0
  /\ search = NoSearch /\ lookups = <<>>
  /\ watched = Quiet(listing)

-----------------------------------------------------------------------------
(* The Datatracker: while pages are fetched a draft expires, or one comes  *)
(* at any place of the order.                                              *)

Change ==
  /\ search.pc = "scan" /\ changes < MaxChanges
  /\ changes' = changes + 1
  /\ UNCHANGED <<search, lookups>>

Expire(i) ==
  /\ Change
  /\ listing' = RemoveAt(listing, i)
  /\ watched' = [watched EXCEPT !.gone = @ \union {listing[i]}]

Appear(d, i) ==
  /\ Change
  /\ d \notin Range(listing)
  /\ listing' = InsertAt(listing, i, d)
  /\ watched' = [watched EXCEPT !.come = @ \union {d}]

(* Between two searches the list may become any.                           *)
Later ==
  /\ search.pc \in {"idle", "done", "failed"}
  /\ listing' \in Listings
  /\ changes' = 0 /\ search' = NoSearch /\ lookups' = <<>> /\ watched' = Quiet(listing')

(* GET a page of the list.                                                 *)
Page(offset, limit) ==
  SubSeq(listing, offset + 1, IF offset + limit < Len(listing) THEN offset + limit ELSE Len(listing))

-----------------------------------------------------------------------------
(* The search.                                                             *)

Smaller(m, n) == IF m < n THEN m ELSE n

Begin(words, offset) ==
  /\ search.pc = "idle"
  /\ search' = [pc |-> "scan", words |-> words, offset |-> offset, scanned |-> 0,
                serverOffset |-> 0, matches |-> <<>>, items |-> <<>>,
                total |-> 0, truncated |-> FALSE]
  /\ UNCHANGED <<listing, changes, lookups, watched>>

(* resolveResultItems begins: a goroutine for every published row.         *)
Resolve(s, page) ==
  /\ search' = [s EXCEPT !.pc = "resolve", !.items = page]
  /\ lookups' = [i \in DOMAIN page |-> IF page[i] \in InRFCState THEN "waiting" ELSE "none"]

(* One word: the server filters, skips and limits.                         *)
SearchOneWord ==
  /\ search.pc = "scan" /\ search.words = "one"
  /\ Resolve([search EXCEPT !.total = Len(listing)], Page(search.offset, Limit))
  /\ UNCHANGED <<listing, changes, watched>>

(* A mutant: the matches of the last page only.                            *)
ScannedAfresh(s, page) ==
  LET taken == SubSeq(page, 1, Smaller(Len(page), ScanCap - s.scanned))
  IN  [s EXCEPT !.scanned = @ + Len(taken),
                !.matches = Only(taken, AllWords),
                !.serverOffset = @ + Len(page)]

(* One turn of the loop: the objects of the page up to the cap.            *)
Scanned(s, page) ==
  LET taken == SubSeq(page, 1, Smaller(Len(page), ScanCap - s.scanned))
  IN  [s EXCEPT !.scanned = @ + Len(taken),
                !.matches = @ \o Only(taken, AllWords),
                !.serverOffset = @ + Len(page)]

(* The loop ends on a short page, at the server's total, or at the cap.    *)
Exhausted(s, page) ==
  Len(page) < PageSize \/ s.serverOffset >= Len(listing) \/ s.scanned >= ScanCap

(* A mutant: the end of the page does not move with its start.             *)
ResultPageTo(s) ==
  LET start == Smaller(s.offset, Len(s.matches))
  IN  SubSeq(s.matches, start + 1, Smaller(Limit, Len(s.matches)))

ResultPage(s) ==
  LET start == Smaller(s.offset, Len(s.matches))
  IN  SubSeq(s.matches, start + 1, Smaller(start + Limit, Len(s.matches)))

ScanPage ==
  LET page == Page(search.serverOffset, PageSize)
      s == Scanned(search, page)
  IN  /\ search.pc = "scan" /\ search.words = "several"
      /\ IF Exhausted(s, page)
         THEN Resolve([s EXCEPT !.total = Len(s.matches),
                                !.truncated = Len(listing) > s.scanned], ResultPage(s))
         ELSE search' = s /\ UNCHANGED lookups
      /\ UNCHANGED <<listing, changes, watched>>

(* A request that three attempts did not answer fails the search.          *)
SearchFails ==
  /\ search.pc = "scan"
  /\ search' = [search EXCEPT !.pc = "failed"]
  /\ UNCHANGED <<listing, changes, lookups, watched>>

Running == {i \in DOMAIN lookups : lookups[i] = "running"}

(* sem <- struct{}{}                                                       *)
Enter(i) ==
  /\ search.pc = "resolve" /\ lookups[i] = "waiting" /\ Cardinality(Running) < Concurrency
  /\ lookups' = [lookups EXCEPT ![i] = "running"]
  /\ UNCHANGED <<listing, changes, search, watched>>

(* A mutant: a failed lookup is made again, any number of times.           *)
LookUpAgain(i) ==
  /\ search.pc = "resolve" /\ lookups[i] = "running"
  /\ \E outcome \in {"found", "waiting"} : lookups' = [lookups EXCEPT ![i] = outcome]
  /\ UNCHANGED <<listing, changes, search, watched>>

(* becameRFC answers, or fails and leaves the row without its number; the  *)
(* goroutine writes its own row only.                                      *)
LookUp(i) ==
  /\ search.pc = "resolve" /\ lookups[i] = "running"
  /\ \E outcome \in {"found", "failed"} : lookups' = [lookups EXCEPT ![i] = outcome]
  /\ UNCHANGED <<listing, changes, search, watched>>

Finish ==
  /\ search.pc = "resolve" /\ \A i \in DOMAIN lookups : lookups[i] \notin {"waiting", "running"}
  /\ search' = [search EXCEPT !.pc = "done"]
  /\ UNCHANGED <<listing, changes, lookups, watched>>

SearchStep ==
  \/ SearchOneWord \/ ScanPage \/ SearchFails
  \/ \E i \in DOMAIN lookups : Enter(i) \/ LookUp(i)
  \/ Finish

SearchNext ==
  \/ \E i \in DOMAIN listing : Expire(i)
  \/ \E d \in Range(Drafts), i \in 1 .. Len(listing) + 1 : Appear(d, i)
  \/ Later
  \/ \E words \in {"one", "several"}, offset \in 0 .. MaxOffset : Begin(words, offset)
  \/ SearchStep

SearchSpec == SearchInit /\ [][SearchNext]_searchVars

(* A search under way goes on: its requests and lookups end, by a time-out *)
(* if by nothing else.                                                     *)
SearchFairness == WF_searchVars(SearchStep)

-----------------------------------------------------------------------------
(* Properties.                                                             *)

Scan == search.pc \in {"resolve", "done"} /\ search.words = "several"

(* If no draft left the list while its pages were fetched, a search of     *)
(* several words missed none that has all of them, wherever others came in *)
(* between - or it says that it is truncated (search.go:219-263).          *)
SearchCovers ==
  Scan /\ ~search.truncated /\ watched.gone = {} =>
    AllWords \intersect Range(watched.first) \subseteq Range(search.matches)

(* What it found has all the words and was listed, and nothing is there    *)
(* twice unless drafts came in between (search.go:243-263).                *)
SearchSound ==
  Scan =>
    /\ Range(search.matches) \subseteq
         AllWords \intersect (Range(watched.first) \union watched.come)
    /\ watched.come = {} => IsInjective(search.matches)

(* Both: nothing is missed and nothing is made up.                         *)
SearchIsRight == SearchCovers /\ SearchSound

(* On a list that stays as it is the result pages, by offset, cut the      *)
(* matches up without gap or overlap, total_count is their number unless   *)
(* the result is truncated, and it is truncated if and only if the list is *)
(* longer than the cap (search.go:265-270, 90-114).                        *)
PagesFit ==
  Scan /\ watched = Quiet(listing) =>
    LET all == Only(SubSeq(listing, 1, Smaller(Len(listing), ScanCap)), AllWords)
    IN  /\ search.truncated <=> Len(listing) > ScanCap
        /\ search.total = Len(all)
        /\ search.items = [i \in 1 .. Cardinality({k \in DOMAIN all : k > search.offset
                                                               /\ k <= search.offset + Limit})
                            |-> all[search.offset + i]]

(* A search ends, whatever the Datatracker's list does, and with at most   *)
(* becameRFCConcurrency lookups at a time every row's is made (search.go:  *)
(* 126-157).                                                               *)
SearchEnds == search.pc = "scan" ~> search.pc \in {"done", "failed"}
=============================================================================
