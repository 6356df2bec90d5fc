---------------------------- MODULE DraftsProofs ----------------------------
(***************************************************************************)
(* Proofs about the draft tools: first module DraftTools, what the tools   *)
(* about one draft answer, for any number of callers, of revisions and of  *)
(* failures, and any lifetime of the cache; then module DraftSearch, what  *)
(* a search of several words finds, for any list, page size and cap and    *)
(* any changes of the list under it.                                       *)
(***************************************************************************)
EXTENDS DraftTools, DraftSearch, FiniteSetTheorems, SequenceTheorems, WellFoundedInduction, TLAPS


Under == {"stat", "read", "document", "related", "saveMeta", "text", "archive",
          "saveText", "notFound", "done"}
Active == [pc : Under, tool : {"metadata", "section"}, rev : 0 .. MaxRev,
           latest : BOOLEAN, rfc : BOOLEAN, body : 0 .. MaxRev, ticks : 0 .. 1,
           missing : BOOLEAN]
Entries == [rev : Revisions, rfc : BOOLEAN, age : 0 .. Horizon]
Ago == [latest : [Revisions -> 0 .. Horizon], unrelated : 0 .. Horizon, failed : 0 .. Horizon]

Typed ==
  /\ latest \in 0 .. MaxRev /\ archived \in 0 .. latest
  /\ published \in BOOLEAN /\ related \in BOOLEAN
  /\ meta \in Entries \union {NoEntry}
  /\ texts \in [Revisions -> 0 .. MaxRev]
  /\ calls \in [Callers -> Active \union {Idle}]
  /\ faults \in 0 .. MaxFaults
  /\ since \in Ago

(* The world and its history, and the files: a text is stored under its    *)
(* own revision, and an entry is as old as it says, give or take the call  *)
(* that fetched it.                                                        *)
WasLatest(r, k) == since.latest[r] <= k
WasWithout(k) == since.unrelated <= k \/ since.failed <= k

FilesInv ==
  /\ related => published
  /\ latest > 0 => since.latest[latest] = 0
  /\ ~related => since.unrelated = 0
  /\ \A r \in Revisions : texts[r] \in {0, r}
  /\ meta # NoEntry =>
       /\ WasLatest(meta.rev, meta.age + 1)
       /\ IF meta.rfc THEN related ELSE WasWithout(meta.age + 1)

(* What a call's position says.                                            *)
CallInv(c) ==
  LET k == calls[c]
  IN  /\ k.pc \in {"stat", "read", "document", "related", "saveMeta"} => k.latest
      /\ k.pc \in {"stat", "read", "document"} => (latest = 0 => k.missing)
      /\ k.pc \in {"stat", "read", "document", "related"} => ~k.rfc
      /\ k.pc \in {"related", "saveMeta"} => k.rev \in Revisions /\ WasLatest(k.rev, k.ticks)
      /\ k.pc = "read" => meta # NoEntry /\ meta.age <= TTL + k.ticks
      /\ k.pc = "saveMeta" => IF k.rfc THEN related ELSE WasWithout(k.ticks)
      /\ k.pc \in {"text", "archive", "saveText"} =>
           /\ k.rev \in Revisions /\ k.tool = "section"
           /\ k.latest => WasLatest(k.rev, TTL + 1 + k.ticks)
      /\ k.pc \in {"text", "archive"} => (k.rev > archived => k.missing)
      /\ k.pc = "saveText" => k.body = k.rev
      /\ k.pc = "notFound" => k.missing
      /\ k.pc = "done" =>
           /\ k.rev \in Revisions
           /\ k.tool = "section" => k.body = k.rev
           /\ k.latest => WasLatest(k.rev, TTL + 2)
           /\ k.tool = "metadata" => IF k.rfc THEN related ELSE WasWithout(TTL + 2)

DInv == Typed /\ FilesInv /\ \A c \in Callers : CallInv(c)

LEMMA Bounds ==
  /\ MaxRev \in Nat \ {0} /\ TTL \in Nat \ {0} /\ Horizon \in Nat /\ Horizon = TTL + 3
  /\ 1 \in Revisions /\ Revisions \subseteq 0 .. MaxRev
  /\ Idle.pc = "idle" /\ "idle" \notin Under /\ Idle \notin Active
  /\ NoEntry \notin Entries /\ NoEntry.rev = 0
<1>1. Idle \notin Active
  BY DEF Idle, Active, Under
<1>2. NoEntry \notin Entries
  BY DEF NoEntry, Entries, Revisions
<1>3. QED
  BY <1>1, <1>2, DraftBounds DEF Horizon, Revisions, Idle, Under, NoEntry

LEMMA InitInv == FetchInit => DInv
<1> SUFFICES ASSUME FetchInit PROVE DInv
  OBVIOUS
<1>1. Typed
  <2>1. since \in Ago
    BY Bounds DEF FetchInit, Ago
  <2>2. /\ texts \in [Revisions -> 0 .. MaxRev]
        /\ calls \in [Callers -> Active \union {Idle}]
    BY Bounds DEF FetchInit
  <2>3. /\ latest = 0 /\ archived = 0 /\ published = FALSE /\ related = FALSE
        /\ meta = NoEntry /\ faults = 0
    BY DEF FetchInit
  <2>4. latest \in 0 .. MaxRev /\ archived \in 0 .. latest /\ faults \in 0 .. MaxFaults
    BY <2>3, DraftBounds
  <2>5. QED
    BY <2>1, <2>2, <2>3, <2>4, Zenon DEF Typed
<1>2. FilesInv
  BY Bounds DEF FetchInit, FilesInv
<1>3. \A c \in Callers : CallInv(c)
  BY Bounds DEF FetchInit, CallInv
<1>4. QED
  BY <1>1, <1>2, <1>3 DEF DInv

-----------------------------------------------------------------------------
(* The world moves on.                                                     *)

LEMMA AgesGrow ==
  \A a, b \in 0 .. Horizon :
    /\ Older(a) \in 0 .. Horizon /\ Older(a) >= a /\ Older(a) <= a + 1
    /\ \A k \in Nat : a <= k => Older(a) <= k + 1
    /\ a <= b + 1 => Older(a) <= Older(b) + 1
  BY Bounds DEF Older

(* What a tick does to the ages of the history.                            *)
LEMMA TickedHistory ==
  ASSUME Typed, FilesInv, Tick
  PROVE  /\ since' \in Ago
         /\ \A r \in Revisions : since'.latest[r] <= Older(since.latest[r])
         /\ \A r \in Revisions : r = latest => since'.latest[r] = 0
         /\ since'.unrelated <= Older(since.unrelated)
         /\ since'.failed <= Older(since.failed)
         /\ ~related => since'.unrelated = 0
<1>1. since' = [latest |-> [r \in Revisions |->
                             IF r = latest THEN 0 ELSE Older(since.latest[r])],
                unrelated |-> IF related THEN Older(since.unrelated) ELSE 0,
                failed |-> Older(since.failed)]
  BY DEF Tick
<1>2. /\ \A r \in Revisions : since.latest[r] \in 0 .. Horizon
      /\ since.unrelated \in 0 .. Horizon /\ since.failed \in 0 .. Horizon
  BY DEF Typed, Ago
<1>3. /\ \A r \in Revisions : Older(since.latest[r]) \in 0 .. Horizon
      /\ Older(since.unrelated) \in 0 .. Horizon /\ Older(since.failed) \in 0 .. Horizon
  BY <1>2, AgesGrow
<1>4. since' \in Ago
  BY <1>1, <1>3, Bounds DEF Ago
<1>5. QED
  BY <1>1, <1>3, <1>4, Bounds

LEMMA TickSafe ==
  ASSUME DInv, Tick
  PROVE  DInv'
<1> USE DEF DInv
<1>0. /\ UNCHANGED <<latest, archived, published, related, texts, faults>>
      /\ meta' = IF meta = NoEntry THEN meta ELSE [meta EXCEPT !.age = Older(@)]
      /\ calls' = [c \in Callers |->
                    IF calls[c].pc \in Ended THEN Idle ELSE [calls[c] EXCEPT !.ticks = 1]]
      /\ \A c \in Callers : calls[c].pc \notin Ended => calls[c].ticks = 0
  BY DEF Tick, world
<1>1. /\ since' \in Ago
      /\ \A r \in Revisions : since'.latest[r] <= Older(since.latest[r])
      /\ \A r \in Revisions : r = latest => since'.latest[r] = 0
      /\ since'.unrelated <= Older(since.unrelated)
      /\ since'.failed <= Older(since.failed)
      /\ ~related => since'.unrelated = 0
  BY TickedHistory
<1>2. /\ \A r \in Revisions : since.latest[r] \in 0 .. Horizon /\ since'.latest[r] \in 0 .. Horizon
      /\ since.unrelated \in 0 .. Horizon /\ since.failed \in 0 .. Horizon
      /\ since'.unrelated \in 0 .. Horizon /\ since'.failed \in 0 .. Horizon
  BY <1>1 DEF Typed, Ago
<1>3. \A k \in Nat :
        /\ \A r \in Revisions : WasLatest(r, k) => since'.latest[r] <= k + 1
        /\ WasWithout(k) => since'.unrelated <= k + 1 \/ since'.failed <= k + 1
  <2>1. \A x, y \in 0 .. Horizon, k \in Nat : y <= Older(x) /\ x <= k => y <= k + 1
    BY AgesGrow, Bounds
  <2>2. ASSUME NEW k \in Nat, NEW r \in Revisions, WasLatest(r, k)
        PROVE  since'.latest[r] <= k + 1
    BY <1>1, <1>2, <2>1, <2>2 DEF WasLatest
  <2>3. ASSUME NEW k \in Nat, WasWithout(k)
        PROVE  since'.unrelated <= k + 1 \/ since'.failed <= k + 1
    BY <1>1, <1>2, <2>1, <2>3 DEF WasWithout
  <2>4. QED
    BY <2>2, <2>3
<1>4. meta' \in Entries \union {NoEntry} /\ (meta' = NoEntry <=> meta = NoEntry)
  <2>1. CASE meta = NoEntry
    BY <1>0, <2>1
  <2>2. CASE meta # NoEntry
    <3>1. meta \in Entries /\ meta.age \in 0 .. Horizon
      BY <2>2 DEF Typed, Entries
    <3>2. meta' \in Entries
      BY <1>0, <2>2, <3>1, AgesGrow DEF Entries
    <3>3. QED
      BY <2>2, <3>2, Bounds
  <2>3. QED
    BY <2>1, <2>2
<1>5. calls' \in [Callers -> Active \union {Idle}]
  BY <1>0, Bounds DEF Typed, Active, Ended, Idle
<1>6. Typed'
  BY <1>0, <1>1, <1>4, <1>5 DEF Typed
<1>7. FilesInv'
  <2>1. ASSUME meta' # NoEntry
        PROVE  /\ since'.latest[meta'.rev] <= meta'.age + 1
               /\ IF meta'.rfc THEN related
                  ELSE since'.unrelated <= meta'.age + 1 \/ since'.failed <= meta'.age + 1
    <3>1. /\ meta.age \in 0 .. Horizon /\ meta.rev \in Revisions /\ meta.rfc \in BOOLEAN
          /\ meta'.age = Older(meta.age) /\ meta'.rev = meta.rev /\ meta'.rfc = meta.rfc
      BY <1>0, <1>4, <2>1 DEF Typed, Entries
    <3>2. \A x, y \in 0 .. Horizon :
             y <= Older(x) /\ x <= meta.age + 1 => y <= Older(meta.age) + 1
      <4>1. ASSUME NEW x \in 0 .. Horizon, NEW y \in 0 .. Horizon,
                   y <= Older(x), x <= meta.age + 1
            PROVE  y <= Older(meta.age) + 1
        <5>1. Older(x) <= Older(meta.age) + 1 /\ Older(x) \in 0 .. Horizon
              /\ Older(meta.age) \in 0 .. Horizon
          BY <3>1, <4>1, AgesGrow
        <5>2. QED
          BY <4>1, <5>1, Bounds
      <4>2. QED
        BY <4>1
    <3>3. since.latest[meta.rev] <= meta.age + 1 /\ (meta.rfc => related)
          /\ (~meta.rfc => since.unrelated <= meta.age + 1 \/ since.failed <= meta.age + 1)
      BY <1>4, <2>1, <3>1 DEF FilesInv, WasLatest, WasWithout
    <3>4. since'.latest[meta'.rev] <= meta'.age + 1
      BY <1>1, <1>2, <3>1, <3>2, <3>3
    <3>5. ~meta'.rfc => since'.unrelated <= meta'.age + 1 \/ since'.failed <= meta'.age + 1
      BY <1>1, <1>2, <3>1, <3>2, <3>3
    <3>6. QED
      BY <3>1, <3>3, <3>4, <3>5
  <2>2. latest > 0 => since'.latest[latest] = 0
    <3>1. latest > 0 => latest \in Revisions
      BY Bounds DEF Typed, Revisions
    <3>2. QED
      BY <1>1, <3>1
  <2>3. QED
    BY <1>0, <1>1, <2>1, <2>2 DEF FilesInv, WasLatest, WasWithout
<1>8. ASSUME NEW c \in Callers PROVE CallInv(c)'
  <2>1. CASE calls[c].pc \in Ended
    BY <1>0, <2>1, Bounds DEF CallInv
  <2>2. CASE calls[c].pc \notin Ended
    <3>1. /\ calls[c] \in Active /\ calls[c].ticks = 0
          /\ calls'[c] = [calls[c] EXCEPT !.ticks = 1]
      BY <1>0, <2>2, Bounds DEF Typed, Ended
    <3>2. /\ calls'[c].pc = calls[c].pc /\ calls'[c].tool = calls[c].tool
          /\ calls'[c].rev = calls[c].rev /\ calls'[c].latest = calls[c].latest
          /\ calls'[c].rfc = calls[c].rfc /\ calls'[c].body = calls[c].body
          /\ calls'[c].missing = calls[c].missing /\ calls'[c].ticks = 1
          /\ calls[c].pc # "done" /\ calls[c].pc # "notFound"
      BY <2>2, <3>1 DEF Active, Ended
    <3>3. calls[c].pc = "read" => meta' # NoEntry /\ meta'.age <= TTL + 1
      <4>1. SUFFICES ASSUME calls[c].pc = "read" PROVE meta' # NoEntry /\ meta'.age <= TTL + 1
        OBVIOUS
      <4>2. meta # NoEntry /\ meta.age <= TTL
        BY <3>1, <4>1, Bounds DEF CallInv
      <4>3. meta.age \in 0 .. Horizon /\ meta'.age = Older(meta.age)
        BY <1>0, <4>2 DEF Typed, Entries
      <4>4. QED
        BY <1>4, <4>2, <4>3, AgesGrow, Bounds
    <3>4. TTL + 1 \in Nat /\ 0 \in Nat
      BY Bounds
    <3>5. QED
      BY <1>0, <1>3, <3>1, <3>2, <3>3, <3>4, Bounds DEF CallInv, WasLatest, WasWithout
  <2>3. QED
    BY <2>1, <2>2
<1>9. QED
  BY <1>6, <1>7, <1>8

(* A new revision, or a state that shows more, falsifies nothing.          *)
LEMMA WorldSafe ==
  ASSUME DInv, Submit \/ Archive \/ Publish \/ Relate
  PROVE  DInv'
<1> USE DEF DInv
<1>1. CASE Submit
  <2>1. /\ latest' = latest + 1 /\ latest' \in Revisions /\ ~published
        /\ since' = [since EXCEPT !.latest[latest'] = 0]
        /\ UNCHANGED <<archived, published, related, meta, texts, calls, faults>>
    BY <1>1, DraftBounds DEF Submit, Typed, Revisions
  <2>2. /\ since' \in Ago /\ since'.latest[latest'] = 0
        /\ since'.unrelated = since.unrelated /\ since'.failed = since.failed
        /\ \A r \in Revisions : since'.latest[r] <= since.latest[r]
    <3>1. since'.latest = [since.latest EXCEPT ![latest'] = 0]
          /\ since'.unrelated = since.unrelated /\ since'.failed = since.failed
      BY <2>1 DEF Typed, Ago
    <3>2. since' = [latest |-> since'.latest, unrelated |-> since'.unrelated,
                    failed |-> since'.failed]
      BY <2>1 DEF Typed, Ago
    <3>3. /\ since.latest \in [Revisions -> 0 .. Horizon]
          /\ since.unrelated \in 0 .. Horizon /\ since.failed \in 0 .. Horizon
      BY DEF Typed, Ago
    <3>4. since'.latest \in [Revisions -> 0 .. Horizon]
      <4>1. 0 \in 0 .. Horizon
        BY Bounds
      <4>2. QED
        BY <3>1, <3>3, <4>1, Zenon
    <3>5. since' \in Ago
      BY <3>1, <3>2, <3>3, <3>4 DEF Ago
    <3>6. \A r \in Revisions : since'.latest[r] <= since.latest[r]
      BY <3>1, <3>3, Bounds
    <3>7. QED
      BY <2>1, <3>1, <3>3, <3>5, <3>6
  <2>3. /\ \A r \in Revisions : since.latest[r] \in 0 .. Horizon /\ since'.latest[r] \in 0 .. Horizon
        /\ \A r \in Revisions, k \in Nat : WasLatest(r, k) => since'.latest[r] <= k
    <3>1. \A r \in Revisions : since.latest[r] \in 0 .. Horizon /\ since'.latest[r] \in 0 .. Horizon
      BY <2>2 DEF Typed, Ago
    <3>2. QED
      BY <2>2, <3>1, Bounds DEF WasLatest
  <2>4. Typed'
    BY <2>1, <2>2, Bounds DEF Typed, Revisions
  <2>5. FilesInv'
    <3>1. meta # NoEntry => meta.rev \in Revisions /\ meta.age + 1 \in Nat
      BY Bounds DEF Typed, Entries
    <3>2. QED
      BY <2>1, <2>2, <2>3, <3>1 DEF FilesInv, WasLatest, WasWithout
  <2>6. ASSUME NEW c \in Callers PROVE CallInv(c)'
    <3>1. CASE calls[c] = Idle
      BY <2>1, <3>1, Bounds DEF CallInv
    <3>2. CASE calls[c] # Idle
      <4>1. calls[c] \in Active /\ calls[c].ticks \in Nat /\ TTL + 1 + calls[c].ticks \in Nat
            /\ TTL + 2 \in Nat
        BY <3>2, Bounds DEF Typed, Active
      <4>2. latest' # 0
        BY <2>1 DEF Typed
      <4>3. QED
        BY <2>1, <2>2, <2>3, <4>1, <4>2 DEF CallInv, WasLatest, WasWithout
    <3>3. QED
      BY <3>1, <3>2
  <2>7. QED
    BY <2>4, <2>5, <2>6
<1>2. CASE Archive
  <2>1. /\ archived' = latest /\ archived <= latest
        /\ UNCHANGED <<latest, published, related, meta, texts, calls, faults, since>>
    BY <1>2 DEF Archive, Typed
  <2>2. Typed'
    BY <2>1 DEF Typed
  <2>3. ASSUME NEW c \in Callers PROVE CallInv(c)'
    <3>1. \A r \in Revisions : r > archived' => r > archived
      BY <2>1 DEF Typed, Revisions
    <3>2. QED
      BY <2>1, <3>1 DEF CallInv, WasLatest, WasWithout
  <2>4. QED
    BY <2>1, <2>2, <2>3 DEF FilesInv, WasLatest, WasWithout
<1>3. CASE Publish
  BY <1>3 DEF Publish, Typed, FilesInv, CallInv, WasLatest, WasWithout
<1>4. CASE Relate
  BY <1>4 DEF Relate, Typed, FilesInv, CallInv, WasLatest, WasWithout
<1>5. QED
  BY <1>1, <1>2, <1>3, <1>4

-----------------------------------------------------------------------------
(* The calls.                                                              *)

(* What a step of a call does to the files, and that it is its own.        *)
Touches(c) ==
  /\ UNCHANGED world
  /\ calls' = [calls EXCEPT ![c] = calls'[c]] /\ calls'[c] \in Active \union {Idle}
  /\ faults' \in 0 .. MaxFaults
  /\ since' = since \/ since' = [since EXCEPT !.failed = 0]
  /\ texts' \in [Revisions -> 0 .. MaxRev] /\ \A r \in Revisions : texts'[r] \in {0, r}
  /\ \/ meta' = meta
     \/ /\ meta' \in Entries /\ meta'.age = 0 /\ WasLatest(meta'.rev, 1)
        /\ IF meta'.rfc THEN related ELSE WasWithout(1)

LEMMA SinceFalls ==
  ASSUME Typed, since' = since \/ since' = [since EXCEPT !.failed = 0]
  PROVE  /\ since' \in Ago
         /\ since'.latest = since.latest /\ since'.unrelated = since.unrelated
         /\ \A k \in Nat : since.failed <= k => since'.failed <= k
<1>1. CASE since' = since
  BY <1>1 DEF Typed
<1>2. CASE since' = [since EXCEPT !.failed = 0]
  BY <1>2, Bounds DEF Typed, Ago
<1>3. QED
  BY <1>1, <1>2

LEMMA StepSafe ==
  ASSUME DInv, NEW c \in Callers, Touches(c), CallInv(c)'
  PROVE  DInv'
<1> USE DEF DInv
<1>1. /\ since' \in Ago
      /\ since'.latest = since.latest /\ since'.unrelated = since.unrelated
      /\ \A k \in Nat : since.failed <= k => since'.failed <= k
  BY SinceFalls DEF Touches
<1>2. Typed'
  <2>1. calls' \in [Callers -> Active \union {Idle}]
    BY DEF Touches, Typed
  <2>2. QED
    BY <1>1, <2>1 DEF Touches, Typed, world
<1>3. FilesInv'
  <2>1. CASE meta' = meta
    <3>1. meta # NoEntry => meta.age + 1 \in Nat
      BY Bounds DEF Typed, Entries
    <3>2. QED
      BY <1>1, <2>1, <3>1 DEF Touches, FilesInv, WasLatest, WasWithout, world
  <2>2. CASE /\ meta' \in Entries /\ meta'.age = 0 /\ WasLatest(meta'.rev, 1)
             /\ IF meta'.rfc THEN related ELSE WasWithout(1)
    BY <1>1, <2>2 DEF Touches, FilesInv, WasLatest, WasWithout, world
  <2>3. QED
    BY <2>1, <2>2 DEF Touches
<1>4. ASSUME NEW d \in Callers PROVE CallInv(d)'
  <2>1. CASE d = c
    BY <2>1
  <2>2. CASE d # c
    <3>1. calls'[d] = calls[d]
      BY <2>2 DEF Touches, Typed
    <3>2. CASE calls[d] = Idle
      BY <3>1, <3>2, Bounds DEF CallInv
    <3>3. CASE calls[d] # Idle
      <4>1. calls[d] \in Active /\ calls[d].ticks \in Nat /\ TTL + calls[d].ticks \in Nat
            /\ TTL + 2 \in Nat
        BY <3>3, Bounds DEF Typed, Active
      <4>2. calls[d].pc = "read" => meta' # NoEntry /\ meta'.age <= TTL + calls[d].ticks
        BY <4>1, Bounds DEF Touches, CallInv, Typed, Entries
      <4>3. QED
        BY <1>1, <3>1, <4>1, <4>2 DEF Touches, CallInv, WasLatest, WasWithout, world
    <3>4. QED
      BY <3>2, <3>3
  <2>3. QED
    BY <2>1, <2>2
<1>5. QED
  BY <1>2, <1>3, <1>4

(* Records: what the updates of a call leave of it.                        *)
LEMMA PcCall ==
  ASSUME NEW k \in Active, NEW p \in Under, NEW n, n = [k EXCEPT !.pc = p]
  PROVE  /\ n \in Active
         /\ n.pc = p /\ n.tool = k.tool /\ n.rev = k.rev /\ n.latest = k.latest
         /\ n.rfc = k.rfc /\ n.body = k.body /\ n.ticks = k.ticks /\ n.missing = k.missing
<1>1. n \in Active
  BY DEF Active
<1>2. /\ n.pc = p /\ n.tool = k.tool /\ n.rev = k.rev /\ n.latest = k.latest
      /\ n.rfc = k.rfc /\ n.body = k.body /\ n.ticks = k.ticks /\ n.missing = k.missing
  BY DEF Active
<1>3. QED
  BY <1>1, <1>2

Over(k) == [k EXCEPT !.pc = "done", !.ticks = 0, !.missing = FALSE]

LEMMA DoneCall ==
  ASSUME NEW k \in Active, NEW n, n = Over(k)
  PROVE  /\ n \in Active
         /\ n.pc = "done" /\ n.tool = k.tool /\ n.rev = k.rev /\ n.latest = k.latest
         /\ n.rfc = k.rfc /\ n.body = k.body
<1>1. n = [pc |-> "done", tool |-> k.tool, rev |-> k.rev, latest |-> k.latest,
           rfc |-> k.rfc, body |-> k.body, ticks |-> 0, missing |-> FALSE]
  BY DEF Active, Over
<1>2. /\ k.tool \in {"metadata", "section"} /\ k.rev \in 0 .. MaxRev
      /\ k.latest \in BOOLEAN /\ k.rfc \in BOOLEAN /\ k.body \in 0 .. MaxRev
  BY DEF Active
<1>3. "done" \in Under /\ 0 \in 0 .. 1 /\ FALSE \in BOOLEAN
  BY DEF Under
<1>4. n \in Active
  BY ONLY <1>1, <1>2, <1>3 DEF Active
<1>5. QED
  BY <1>1, <1>4

Noted(k, m) == [k EXCEPT !.rev = m.rev, !.rfc = m.rfc]

LEMMA RevCall ==
  ASSUME NEW k \in Active, NEW m \in Entries, NEW n, n = Noted(k, m)
  PROVE  /\ n \in Active
         /\ n.pc = k.pc /\ n.tool = k.tool /\ n.rev = m.rev /\ n.latest = k.latest
         /\ n.rfc = m.rfc /\ n.body = k.body /\ n.ticks = k.ticks
<1>0. n = [k EXCEPT !.rev = m.rev, !.rfc = m.rfc]
  BY DEF Noted
<1>1. m.rev \in 0 .. MaxRev /\ m.rfc \in BOOLEAN
  BY Bounds DEF Entries
<1>2. n \in Active
  BY <1>0, <1>1 DEF Active
<1>3. /\ n.pc = k.pc /\ n.tool = k.tool /\ n.rev = m.rev /\ n.latest = k.latest
      /\ n.rfc = m.rfc /\ n.body = k.body /\ n.ticks = k.ticks
  BY <1>0 DEF Active
<1>4. QED
  BY <1>2, <1>3

(* A call begins.                                                          *)
LEMMA AskSafe ==
  ASSUME DInv, NEW c \in Callers, NEW tool \in Tools[c], NEW rev \in 0 .. MaxRev,
         AskDraft(c, tool, rev), UNCHANGED world
  PROVE  DInv'
<1>1. calls'[c] = [pc |-> IF rev = 0 THEN "stat" ELSE "text", tool |-> tool,
                   rev |-> rev, latest |-> rev = 0, rfc |-> FALSE, body |-> 0, ticks |-> 0,
                   missing |-> IF rev = 0 THEN latest = 0 ELSE rev > archived]
      /\ calls' = [calls EXCEPT ![c] = calls'[c]]
      /\ UNCHANGED <<meta, texts, faults, since>> /\ (tool = "metadata" => rev = 0)
  BY DEF AskDraft, Set, DInv, Typed
<1>2. tool \in {"metadata", "section"}
  BY DraftBounds
<1>3. /\ calls'[c] \in Active /\ calls'[c].pc = IF rev = 0 THEN "stat" ELSE "text"
      /\ calls'[c].tool = tool /\ calls'[c].rev = rev /\ (calls'[c].latest <=> rev = 0)
      /\ ~calls'[c].rfc /\ (rev = 0 /\ latest = 0 => calls'[c].missing)
      /\ (rev # 0 /\ rev > archived => calls'[c].missing)
  <2>1. CASE rev = 0
    <3>1. calls'[c] = [pc |-> "stat", tool |-> tool, rev |-> 0, latest |-> TRUE, rfc |-> FALSE,
                       body |-> 0, ticks |-> 0, missing |-> latest = 0]
      BY <1>1, <2>1
    <3>2. "stat" \in Under /\ 0 \in 0 .. MaxRev /\ 0 \in 0 .. 1
          /\ TRUE \in BOOLEAN /\ FALSE \in BOOLEAN /\ (latest = 0) \in BOOLEAN
      BY DraftBounds DEF Under
    <3>3. calls'[c] \in Active
      BY ONLY <1>2, <3>1, <3>2 DEF Active
    <3>4. /\ calls'[c].pc = "stat" /\ calls'[c].tool = tool /\ calls'[c].rev = 0
          /\ calls'[c].latest /\ ~calls'[c].rfc
      BY ONLY <3>1
    <3>5. ASSUME latest = 0 PROVE calls'[c].missing
      <4>1. calls'[c] = [pc |-> "stat", tool |-> tool, rev |-> 0, latest |-> TRUE,
                         rfc |-> FALSE, body |-> 0, ticks |-> 0, missing |-> TRUE]
        BY <3>1, <3>5
      <4>2. QED
        BY ONLY <4>1
    <3>6. QED
      BY <2>1, <3>3, <3>4, <3>5
  <2>2. CASE rev # 0
    <3>1. calls'[c] = [pc |-> "text", tool |-> tool, rev |-> rev, latest |-> FALSE, rfc |-> FALSE,
                       body |-> 0, ticks |-> 0, missing |-> rev > archived]
      BY <1>1, <2>2
    <3>2. "text" \in Under /\ 0 \in 0 .. MaxRev /\ 0 \in 0 .. 1
          /\ FALSE \in BOOLEAN /\ (rev > archived) \in BOOLEAN
      BY DraftBounds DEF Under
    <3>3. calls'[c] \in Active
      BY ONLY <1>2, <3>1, <3>2, rev \in 0 .. MaxRev DEF Active
    <3>4. /\ calls'[c].pc = "text" /\ calls'[c].tool = tool /\ calls'[c].rev = rev
          /\ ~calls'[c].latest /\ ~calls'[c].rfc
      BY ONLY <3>1
    <3>5. ASSUME rev > archived PROVE calls'[c].missing
      <4>1. calls'[c] = [pc |-> "text", tool |-> tool, rev |-> rev, latest |-> FALSE,
                         rfc |-> FALSE, body |-> 0, ticks |-> 0, missing |-> TRUE]
        BY <3>1, <3>5
      <4>2. QED
        BY ONLY <4>1
    <3>6. QED
      BY <2>2, <3>3, <3>4, <3>5
  <2>3. QED
    BY <2>1, <2>2
<1>4. Touches(c)
  BY <1>1, <1>3 DEF Touches, DInv, Typed, FilesInv
<1>5. CallInv(c)'
  <2>1. rev # 0 => rev \in Revisions /\ tool = "section"
    BY <1>1, <1>2, DraftBounds DEF Revisions
  <2>2. QED
    BY <1>1, <1>3, <2>1 DEF CallInv, world
<1>6. QED
  BY <1>4, <1>5, StepSafe

(* A call that answers, or resolves its revision, from metadata as old as  *)
(* they may be.                                                            *)
LEMMA ResolvedSafe ==
  ASSUME DInv, NEW c \in Callers, NEW m \in Entries,
         calls[c] \in Active, calls[c].latest, 
         UNCHANGED world, since' = since,
         Resolved(c, m),
         WasLatest(m.rev, TTL + 1 + calls[c].ticks),
         IF m.rfc THEN related ELSE WasWithout(TTL + 1 + calls[c].ticks)
  PROVE  /\ calls' = [calls EXCEPT ![c] = calls'[c]] /\ calls'[c] \in Active
         /\ CallInv(c)'
<1>1. /\ calls[c].tool \in {"metadata", "section"} /\ calls[c].ticks \in {0, 1}
      /\ m.rev \in Revisions /\ m.rev \in 0 .. MaxRev /\ m.rfc \in BOOLEAN
  <2>1. calls[c].tool \in {"metadata", "section"} /\ calls[c].ticks \in {0, 1}
    BY DEF Active
  <2>2. m.rev \in Revisions /\ m.rfc \in BOOLEAN
    BY DEF Entries
  <2>3. QED
    BY <2>1, <2>2, Bounds
<1>2. /\ since.latest[m.rev] \in 0 .. Horizon
      /\ since.unrelated \in 0 .. Horizon /\ since.failed \in 0 .. Horizon
  BY <1>1 DEF DInv, Typed, Ago
<1>3. /\ WasLatest(m.rev, TTL + 2)
      /\ ~m.rfc => WasWithout(TTL + 2)
  BY <1>1, <1>2, Bounds DEF WasLatest, WasWithout
<1>4. calls' = [calls EXCEPT ![c] = calls'[c]]
  BY DEF Resolved, Answer, Set, DInv, Typed
<1>5. CASE calls[c].tool = "metadata"
  <2>1. PICK n : n = Noted(calls[c], m)
    OBVIOUS
  <2>2. n \in Active /\ n.tool = "metadata" /\ n.rev = m.rev /\ n.rfc = m.rfc
        /\ n.latest = calls[c].latest
    BY ONLY calls[c] \in Active, m \in Entries, <1>5, <2>1, RevCall
  <2>3. calls'[c] = Over(n)
    BY <1>5, <2>1 DEF Resolved, Answer, Set, DInv, Typed, Noted, Over
  <2>4. /\ calls'[c] \in Active
        /\ calls'[c].pc = "done" /\ calls'[c].tool = "metadata"
        /\ calls'[c].rev = m.rev /\ calls'[c].rfc = m.rfc
    BY <2>2, <2>3, DoneCall
  <2>5. QED
    BY <1>1, <1>3, <1>4, <2>4 DEF CallInv, WasLatest, WasWithout, world
<1>6. CASE calls[c].tool = "section"
  <2>1. calls'[c] = [calls[c] EXCEPT !.pc = "text", !.rev = m.rev, !.rfc = FALSE,
                                     !.missing = m.rev > archived]
    BY <1>6 DEF Resolved, Set, DInv, Typed
  <2>2. /\ calls'[c] \in Active
        /\ calls'[c].pc = "text" /\ calls'[c].tool = "section"
        /\ calls'[c].rev = m.rev /\ calls'[c].ticks = calls[c].ticks
        /\ m.rev > archived => calls'[c].missing
    <3>1. PICK k \in Active : k = calls[c]
      OBVIOUS
    <3>2. PICK n : n = calls'[c]
      OBVIOUS
    <3>3. PICK r \in 0 .. MaxRev : r = m.rev
      BY <1>1
    <3>4. n = [k EXCEPT !.pc = "text", !.rev = r, !.rfc = FALSE, !.missing = r > archived]
      BY <2>1, <3>1, <3>2, <3>3
    <3>5. n = [pc |-> "text", tool |-> k.tool, rev |-> r, latest |-> k.latest,
               rfc |-> FALSE, body |-> k.body, ticks |-> k.ticks, missing |-> r > archived]
      BY ONLY k \in Active, <3>4 DEF Active
    <3>6. /\ k.tool \in {"metadata", "section"} /\ k.ticks \in 0 .. 1
          /\ k.latest \in BOOLEAN /\ k.body \in 0 .. MaxRev
      BY ONLY k \in Active DEF Active
    <3>7. "text" \in Under /\ FALSE \in BOOLEAN /\ (r > archived) \in BOOLEAN
      BY DEF Under
    <3>8. n \in Active
      BY ONLY <3>5, <3>6, <3>7, r \in 0 .. MaxRev DEF Active
    <3>9. ASSUME r > archived PROVE n.missing
      <4>1. n = [pc |-> "text", tool |-> k.tool, rev |-> r, latest |-> k.latest,
                 rfc |-> FALSE, body |-> k.body, ticks |-> k.ticks, missing |-> TRUE]
        BY <3>5, <3>9
      <4>2. QED
        BY ONLY <4>1
    <3>10. n.pc = "text" /\ n.tool = k.tool /\ n.rev = r /\ n.ticks = k.ticks
      BY ONLY <3>5
    <3>11. QED
      BY <1>6, <3>1, <3>2, <3>3, <3>8, <3>9, <3>10
  <2>3. QED
    BY <1>1, <1>4, <2>2 DEF CallInv, WasLatest, WasWithout, world
<1>7. QED
  BY <1>1, <1>5, <1>6

(* The steps that leave the files alone and only move the call on.         *)
LEMMA MoveSafe ==
  ASSUME DInv, NEW c \in Callers, Pc(c) # "idle", UNCHANGED world,
         \/ StatMeta(c) \/ FetchDocument(c) \/ FetchRelated(c) \/ RelatedFails(c)
         \/ FetchText(c) \/ RequestFails(c)
  PROVE  DInv'
<1>1. /\ calls[c] \in Active /\ calls[c].ticks \in Nat /\ CallInv(c)
      /\ calls[c].rev \in 0 .. MaxRev
  BY Bounds DEF DInv, Typed, Active, Pc
<1>2. /\ latest \in 0 .. MaxRev /\ archived \in 0 .. latest /\ published \in BOOLEAN
      /\ related \in BOOLEAN /\ faults \in 0 .. MaxFaults
      /\ (latest > 0 => latest \in Revisions)
  BY Bounds DEF DInv, Typed, Revisions
<1>3. /\ related => published
      /\ latest > 0 => since.latest[latest] = 0
      /\ ~related => since.unrelated = 0
  BY DEF DInv, FilesInv
<1>4. ASSUME NEW call, Set(c, call), call \in Active \union {Idle},
             faults' \in 0 .. MaxFaults, UNCHANGED <<meta, texts>>,
             since' = since \/ since' = [since EXCEPT !.failed = 0]
      PROVE  Touches(c) /\ calls'[c] = call
  BY <1>4 DEF Touches, Set, DInv, Typed, FilesInv
<1>5. CASE StatMeta(c)
  <2>1. PICK p \in {"document", "read"} :
           /\ Goto(c, p) /\ UNCHANGED <<meta, texts, faults, since>>
           /\ p = "read" => meta # NoEntry /\ ~(meta.age > TTL)
    BY <1>5 DEF StatMeta
  <2>2. PICK call : call = [calls[c] EXCEPT !.pc = p]
    OBVIOUS
  <2>3. /\ call \in Active /\ call.pc = p /\ call.latest = calls[c].latest
        /\ call.rfc = calls[c].rfc /\ call.missing = calls[c].missing
        /\ call.ticks = calls[c].ticks
    <3>1. p \in Under
      BY DEF Under
    <3>2. QED
      BY ONLY <1>1, <2>2, <3>1, PcCall
  <2>4. Touches(c) /\ calls'[c] = call
    BY <1>2, <1>4, <2>1, <2>2, <2>3 DEF Goto
  <2>5. p = "read" => meta' # NoEntry /\ meta'.age <= TTL + calls[c].ticks
    <3>1. meta # NoEntry => meta.age \in Nat
      BY Bounds DEF DInv, Typed, Entries
    <3>2. QED
      BY <1>1, <2>1, <3>1, Bounds
  <2>6. CallInv(c)'
    BY <1>1, <1>5, <2>1, <2>3, <2>4, <2>5 DEF CallInv, StatMeta, Pc, world
  <2>7. QED
    BY <2>4, <2>6, StepSafe
<1>6. CASE FetchDocument(c)
  <2>1. CASE latest = 0
    <3>1. PICK call : call = [calls[c] EXCEPT !.pc = "notFound"]
      OBVIOUS
    <3>2. call \in Active /\ call.pc = "notFound" /\ call.missing = calls[c].missing
      <4>1. "notFound" \in Under
        BY DEF Under
      <4>2. QED
        BY ONLY <1>1, <3>1, <4>1, PcCall
    <3>3. Touches(c) /\ calls'[c] = call
      BY <1>2, <1>4, <1>6, <2>1, <3>1, <3>2 DEF FetchDocument, Goto
    <3>4. CallInv(c)'
      BY <1>1, <1>6, <2>1, <3>2, <3>3 DEF CallInv, FetchDocument, Pc, world
    <3>5. QED
      BY <3>3, <3>4, StepSafe
  <2>2. CASE latest # 0
    <3>1. PICK p \in {"related", "saveMeta"} :
             /\ calls' = [calls EXCEPT ![c] = [calls[c] EXCEPT !.pc = p, !.rev = latest]]
             /\ UNCHANGED <<meta, texts, faults, since>>
             /\ p = "saveMeta" => ~published
      BY <1>6, <2>2 DEF FetchDocument, Set
    <3>2. PICK call : call = [calls[c] EXCEPT !.pc = p, !.rev = latest]
      OBVIOUS
    <3>3. /\ call \in Active /\ call.pc = p /\ (call.latest <=> calls[c].latest)
          /\ call.rfc = calls[c].rfc /\ call.ticks = calls[c].ticks /\ call.rev = latest
      BY <1>1, <1>2, <3>2 DEF Active, Under
    <3>4. Touches(c) /\ calls'[c] = call
      BY <1>2, <1>4, <3>1, <3>2, <3>3 DEF Set
    <3>5. CallInv(c)'
      <4>1. latest \in Revisions /\ since.latest[latest] = 0
        BY <1>2, <1>3, <2>2
      <4>2. calls[c].latest /\ ~calls[c].rfc /\ (p = "saveMeta" => since.unrelated = 0)
        BY <1>1, <1>3, <1>6, <3>1 DEF CallInv, FetchDocument, Pc
      <4>3. QED
        BY <1>1, <3>1, <3>3, <3>4, <4>1, <4>2 DEF CallInv, WasLatest, WasWithout, world
    <3>6. QED
      BY <3>4, <3>5, StepSafe
  <2>3. QED
    BY <2>1, <2>2
<1>7. CASE FetchRelated(c) \/ RelatedFails(c)
  <2>1. PICK f \in BOOLEAN :
           /\ calls' = [calls EXCEPT ![c] = [calls[c] EXCEPT !.pc = "saveMeta", !.rfc = f]]
           /\ IF f THEN related ELSE since'.unrelated = 0 \/ since'.failed = 0
           /\ faults' \in 0 .. MaxFaults /\ UNCHANGED <<meta, texts>>
           /\ since' = since \/ since' = [since EXCEPT !.failed = 0]
    <3>1. CASE FetchRelated(c)
      BY <1>2, <1>3, <3>1 DEF FetchRelated, Set
    <3>2. CASE RelatedFails(c)
      <4>1. since'.failed = 0 /\ faults' \in 0 .. MaxFaults
        BY <1>2, <3>2, DraftBounds DEF RelatedFails, Fault, DInv, Typed, Ago
      <4>2. ~calls[c].rfc
        BY <1>1, <3>2 DEF RelatedFails, CallInv, Pc
      <4>3. calls' = [calls EXCEPT ![c] = [calls[c] EXCEPT !.pc = "saveMeta", !.rfc = FALSE]]
        <5>1. [calls[c] EXCEPT !.pc = "saveMeta"]
                = [calls[c] EXCEPT !.pc = "saveMeta", !.rfc = FALSE]
          BY <1>1, <4>2 DEF Active
        <5>2. QED
          BY <3>2, <5>1 DEF RelatedFails, Goto, Set
      <4>4. QED
        BY <3>2, <4>1, <4>3 DEF RelatedFails
    <3>3. QED
      BY <1>7, <3>1, <3>2
  <2>2. PICK call : call = [calls[c] EXCEPT !.pc = "saveMeta", !.rfc = f]
    OBVIOUS
  <2>3. /\ call \in Active /\ call.pc = "saveMeta" /\ call.rev = calls[c].rev
        /\ (call.rfc <=> f) /\ call.ticks = calls[c].ticks
        /\ (call.latest <=> calls[c].latest)
    BY <1>1, <2>2 DEF Active, Under
  <2>4. Touches(c) /\ calls'[c] = call
    BY <1>4, <2>1, <2>2, <2>3 DEF Set
  <2>5. CallInv(c)'
    <3>1. /\ calls[c].rev \in Revisions /\ WasLatest(calls[c].rev, calls[c].ticks)
          /\ calls[c].latest
      BY <1>1, <1>7 DEF CallInv, FetchRelated, RelatedFails, Pc
    <3>2. since'.latest = since.latest
      BY <2>1, SinceFalls DEF DInv
    <3>3. QED
      BY <1>1, <2>1, <2>3, <2>4, <3>1, <3>2 DEF CallInv, WasLatest, WasWithout, world
  <2>6. QED
    BY <2>4, <2>5, StepSafe
<1>8. CASE FetchText(c)
  <2>1. calls[c].rev \in Revisions /\ calls[c].tool = "section"
        /\ (calls[c].latest => WasLatest(calls[c].rev, TTL + 1 + calls[c].ticks))
        /\ (calls[c].rev > archived => calls[c].missing)
    BY <1>1, <1>8 DEF CallInv, FetchText, Pc
  <2>2. CASE calls[c].rev > archived
    <3>1. PICK call : call = [calls[c] EXCEPT !.pc = "notFound"]
      OBVIOUS
    <3>2. call \in Active /\ call.pc = "notFound" /\ call.missing = calls[c].missing
      <4>1. "notFound" \in Under
        BY DEF Under
      <4>2. QED
        BY ONLY <1>1, <3>1, <4>1, PcCall
    <3>3. Touches(c) /\ calls'[c] = call
      BY <1>2, <1>4, <1>8, <2>2, <3>1, <3>2 DEF FetchText, Goto
    <3>4. CallInv(c)'
      BY <2>1, <2>2, <3>2, <3>3 DEF CallInv, world
    <3>5. QED
      BY <3>3, <3>4, StepSafe
  <2>3. CASE ~(calls[c].rev > archived)
    <3>1. PICK call : call = [calls[c] EXCEPT !.pc = "saveText", !.body = calls[c].rev]
      OBVIOUS
    <3>2. /\ call \in Active /\ call.pc = "saveText" /\ call.tool = calls[c].tool
          /\ call.rev = calls[c].rev /\ call.body = calls[c].rev
          /\ (call.latest <=> calls[c].latest) /\ call.ticks = calls[c].ticks
      BY <1>1, <3>1 DEF Active, Under
    <3>3. Touches(c) /\ calls'[c] = call
      BY <1>2, <1>4, <1>8, <2>3, <3>1, <3>2 DEF FetchText, Set
    <3>4. CallInv(c)'
      BY <1>8, <2>1, <3>2, <3>3 DEF CallInv, FetchText, WasLatest, world
    <3>5. QED
      BY <3>3, <3>4, StepSafe
  <2>4. QED
    BY <2>2, <2>3
<1>9. CASE RequestFails(c)
  <2>1. faults' \in 0 .. MaxFaults
    BY <1>2, <1>9, DraftBounds DEF RequestFails, Fault
  <2>2. Touches(c) /\ calls'[c] = Idle
    BY <1>4, <1>9, <2>1 DEF RequestFails
  <2>3. CallInv(c)'
    BY <2>2, Bounds DEF CallInv
  <2>4. QED
    BY <2>2, <2>3, StepSafe
<1>10. QED
  BY <1>5, <1>6, <1>7, <1>8, <1>9

(* The steps that take metadata, from the file or as fetched.              *)
LEMMA MetaSafe ==
  ASSUME DInv, NEW c \in Callers, UNCHANGED world,
         ReadMeta(c) \/ SaveMeta(c) \/ SaveMetaFails(c)
  PROVE  DInv'
<1>1. /\ calls[c] \in Active /\ CallInv(c) /\ calls[c].ticks \in {0, 1}
      /\ calls[c].latest /\ since' = since /\ faults' \in 0 .. MaxFaults
      /\ UNCHANGED texts
  <2>1. Pc(c) \in {"read", "saveMeta"} /\ since' = since /\ UNCHANGED texts
    BY DEF ReadMeta, SaveMeta, SaveMetaFails
  <2>2. calls[c] \in Active /\ calls[c].ticks \in {0, 1} /\ CallInv(c)
    BY <2>1, Bounds DEF DInv, Typed, Active, Pc
  <2>3. calls[c].latest
    BY <2>1, <2>2 DEF CallInv, Pc
  <2>4. faults' \in 0 .. MaxFaults
    BY DraftBounds DEF ReadMeta, SaveMeta, SaveMetaFails, Fault, DInv, Typed
  <2>5. QED
    BY <2>1, <2>2, <2>3, <2>4
<1>2. /\ \A r \in Revisions : since.latest[r] \in 0 .. Horizon
      /\ since.unrelated \in 0 .. Horizon /\ since.failed \in 0 .. Horizon
  BY DEF DInv, Typed, Ago
<1>3. PICK m \in Entries :
        /\ Resolved(c, m)
        /\ meta' = meta \/ (meta' = m /\ m.age = 0 /\ calls[c].ticks <= 1
                              /\ WasLatest(m.rev, 1)
                              /\ IF m.rfc THEN related ELSE WasWithout(1))
        /\ WasLatest(m.rev, TTL + 1 + calls[c].ticks)
        /\ IF m.rfc THEN related ELSE WasWithout(TTL + 1 + calls[c].ticks)
  <2>1. CASE ReadMeta(c)
    <3>1. meta # NoEntry /\ meta.age <= TTL + calls[c].ticks
      BY <1>1, <2>1 DEF ReadMeta, CallInv, Pc
    <3>2. meta \in Entries /\ meta.age \in Nat /\ meta.rev \in Revisions /\ meta.rfc \in BOOLEAN
      BY <3>1, Bounds DEF DInv, Typed, Entries
    <3>3. WasLatest(meta.rev, meta.age + 1)
          /\ (meta.rfc => related) /\ (~meta.rfc => WasWithout(meta.age + 1))
      BY <3>1 DEF DInv, FilesInv
    <3>4. meta.age + 1 <= TTL + 1 + calls[c].ticks /\ since.latest[meta.rev] \in Nat
          /\ since.unrelated \in Nat /\ since.failed \in Nat
          /\ TTL + 1 + calls[c].ticks \in Nat /\ meta.age + 1 \in Nat
      <4>1. TTL + 1 + calls[c].ticks \in Nat /\ meta.age + 1 <= TTL + 1 + calls[c].ticks
        BY <1>1, <3>1, <3>2, Bounds
      <4>2. since.latest[meta.rev] \in 0 .. Horizon
        BY <1>2, <3>2
      <4>3. QED
        BY <1>2, <3>2, <4>1, <4>2, Bounds
    <3>5. WasLatest(meta.rev, TTL + 1 + calls[c].ticks)
      BY <3>3, <3>4 DEF WasLatest
    <3>6. ~meta.rfc => WasWithout(TTL + 1 + calls[c].ticks)
      BY <3>3, <3>4 DEF WasWithout
    <3>7. QED
      BY <2>1, <3>2, <3>3, <3>5, <3>6 DEF ReadMeta
  <2>2. CASE SaveMeta(c) \/ SaveMetaFails(c)
    <3>1. PICK m : m = Entry(c)
      OBVIOUS
    <3>2. m = [rev |-> calls[c].rev, rfc |-> calls[c].rfc, age |-> 0]
      BY <3>1 DEF Entry
    <3>3. calls[c].rev \in Revisions /\ WasLatest(calls[c].rev, calls[c].ticks)
          /\ (calls[c].rfc => related) /\ (~calls[c].rfc => WasWithout(calls[c].ticks))
      BY <1>1, <2>2 DEF SaveMeta, SaveMetaFails, CallInv, Pc
    <3>4. calls[c].rfc \in BOOLEAN
      BY <1>1 DEF Active
    <3>5. m \in Entries /\ m.age = 0 /\ m.rev = calls[c].rev /\ (m.rfc <=> calls[c].rfc)
      BY <3>2, <3>3, <3>4, Bounds DEF Entries
    <3>6. /\ since.latest[m.rev] \in Nat /\ since.unrelated \in Nat /\ since.failed \in Nat
          /\ calls[c].ticks \in Nat /\ calls[c].ticks <= 1
          /\ calls[c].ticks <= TTL + 1 + calls[c].ticks /\ TTL + 1 + calls[c].ticks \in Nat
      <4>1. /\ calls[c].ticks \in Nat /\ calls[c].ticks <= 1
            /\ calls[c].ticks <= TTL + 1 + calls[c].ticks /\ TTL + 1 + calls[c].ticks \in Nat
        BY <1>1, Bounds
      <4>2. since.latest[m.rev] \in 0 .. Horizon
        BY <1>2, <3>3, <3>5
      <4>3. QED
        BY <1>2, <4>1, <4>2, Bounds
    <3>7. /\ WasLatest(m.rev, 1) /\ WasLatest(m.rev, TTL + 1 + calls[c].ticks)
          /\ ~m.rfc => WasWithout(1) /\ WasWithout(TTL + 1 + calls[c].ticks)
      BY <3>3, <3>5, <3>6 DEF WasLatest, WasWithout
    <3>8. Resolved(c, m) /\ (meta' = meta \/ meta' = m)
      BY <2>2, <3>1 DEF SaveMeta, SaveMetaFails
    <3>9. QED
      BY <3>3, <3>5, <3>6, <3>7, <3>8
  <2>3. QED
    BY <2>1, <2>2
<1>4. /\ calls' = [calls EXCEPT ![c] = calls'[c]] /\ calls'[c] \in Active
      /\ CallInv(c)'
  BY <1>1, <1>3, ResolvedSafe
<1>5. Touches(c)
  BY <1>1, <1>3, <1>4 DEF Touches, DInv, Typed, FilesInv
<1>6. QED
  BY <1>4, <1>5, StepSafe

(* The steps that take a text, from the file or as fetched.                *)
LEMMA TextSafe ==
  ASSUME DInv, NEW c \in Callers, UNCHANGED world,
         LoadText(c) \/ SaveText(c) \/ SaveTextFails(c)
  PROVE  DInv'
<1>1. /\ calls[c] \in Active /\ calls[c].ticks \in {0, 1}
      /\ calls[c].rev \in Revisions /\ calls[c].rev \in 0 .. MaxRev
      /\ calls[c].tool = "section"
      /\ (calls[c].latest => WasLatest(calls[c].rev, TTL + 1 + calls[c].ticks))
      /\ (Pc(c) = "text" => (calls[c].rev > archived => calls[c].missing))
      /\ (Pc(c) = "saveText" => calls[c].body = calls[c].rev)
  <2>1. Pc(c) \in {"text", "saveText"}
    BY DEF LoadText, SaveText, SaveTextFails
  <2>2. calls[c] \in Active /\ calls[c].ticks \in {0, 1} /\ CallInv(c)
    BY <2>1, Bounds DEF DInv, Typed, Active, Pc
  <2>3. QED
    BY <2>1, <2>2, Bounds DEF CallInv, Pc
<1>2. calls[c].latest => WasLatest(calls[c].rev, TTL + 2)
  <2>1. since.latest[calls[c].rev] \in 0 .. Horizon
    BY <1>1 DEF DInv, Typed, Ago
  <2>2. QED
    BY <1>1, <2>1, Bounds DEF WasLatest
<1>3. CASE LoadText(c) /\ texts[calls[c].rev] = 0
  <2>1. PICK call : call = [calls[c] EXCEPT !.pc = "archive"]
    OBVIOUS
  <2>2. /\ call \in Active /\ call.pc = "archive" /\ call.tool = calls[c].tool
        /\ call.rev = calls[c].rev /\ (call.latest <=> calls[c].latest)
        /\ call.ticks = calls[c].ticks /\ (call.missing <=> calls[c].missing)
    BY <1>1, <2>1 DEF Active, Under
  <2>3. Touches(c) /\ calls'[c] = call
    BY <1>3, <2>1, <2>2 DEF Touches, LoadText, Goto, Set, DInv, Typed, FilesInv
  <2>4. CallInv(c)'
    BY <1>1, <1>3, <2>2, <2>3 DEF CallInv, LoadText, WasLatest, Touches, world
  <2>5. QED
    BY <2>3, <2>4, StepSafe
<1>4. CASE SaveText(c) \/ SaveTextFails(c) \/ (LoadText(c) /\ texts[calls[c].rev] # 0)
  <2>1. PICK n \in Active : /\ n.tool = "section" /\ n.rev = calls[c].rev /\ n.body = n.rev
                            /\ (n.latest <=> calls[c].latest)
                            /\ Answer(c, n) /\ UNCHANGED <<meta, since>>
                            /\ faults' \in 0 .. MaxFaults
                            /\ texts' = texts \/ texts' = [texts EXCEPT ![n.rev] = n.rev]
    <3>1. CASE SaveText(c) \/ SaveTextFails(c)
      <4>1. faults' \in 0 .. MaxFaults
        BY <3>1, DraftBounds DEF SaveText, SaveTextFails, Fault, DInv, Typed
      <4>2. QED
        BY <1>1, <3>1, <4>1 DEF SaveText, SaveTextFails
    <3>2. CASE LoadText(c) /\ texts[calls[c].rev] # 0
      <4>1. texts[calls[c].rev] = calls[c].rev
        BY <1>1, <3>2 DEF DInv, FilesInv
      <4>2. PICK n : n = [calls[c] EXCEPT !.body = calls[c].rev]
        OBVIOUS
      <4>3. /\ n \in Active /\ n.tool = "section" /\ n.rev = calls[c].rev /\ n.body = n.rev
            /\ (n.latest <=> calls[c].latest)
        BY <1>1, <4>2 DEF Active
      <4>4. Answer(c, n) /\ UNCHANGED <<meta, since, texts, faults>>
        BY <3>2, <4>1, <4>2 DEF LoadText
      <4>5. QED
        BY <4>3, <4>4 DEF DInv, Typed
    <3>3. QED
      BY <1>4, <3>1, <3>2
  <2>2. PICK call : call = Over(n)
    OBVIOUS
  <2>3. /\ call \in Active /\ call.pc = "done" /\ call.tool = "section"
        /\ call.rev = calls[c].rev /\ call.body = calls[c].rev
        /\ call.latest = n.latest
    BY ONLY <2>1, <2>2, n \in Active, DoneCall
  <2>4. calls' = [calls EXCEPT ![c] = call]
    BY <2>1, <2>2 DEF Answer, Set, Over
  <2>5. texts' \in [Revisions -> 0 .. MaxRev] /\ \A r \in Revisions : texts'[r] \in {0, r}
    BY <1>1, <2>1 DEF DInv, Typed, FilesInv
  <2>6. Touches(c) /\ calls'[c] = call
    BY <2>1, <2>3, <2>4, <2>5 DEF Touches, DInv, Typed
  <2>7. CallInv(c)'
    BY <1>1, <1>2, <2>1, <2>3, <2>6 DEF CallInv, WasLatest
  <2>8. QED
    BY <2>6, <2>7, StepSafe
<1>5. QED
  BY <1>3, <1>4

(* What a call finds in the files and in the Datatracker agrees, now and   *)
(* later, with what FilesInv and CallInv say of their ages.                *)
THEOREM Invariance == FetchSpec => []DInv
<1>1. FetchInit => DInv
  BY InitInv
<1>2. DInv /\ [FetchNext]_fetchVars => DInv'
  <2> SUFFICES ASSUME DInv, [FetchNext]_fetchVars PROVE DInv'
    OBVIOUS
  <2>1. CASE Submit \/ Archive \/ Publish \/ Relate
    BY <2>1, WorldSafe
  <2>2. CASE Tick
    BY <2>2, TickSafe
  <2>3. ASSUME NEW c \in Callers, NEW tool \in Tools[c], NEW rev \in 0 .. MaxRev,
               AskDraft(c, tool, rev), UNCHANGED world
        PROVE  DInv'
    BY <2>3, AskSafe
  <2>4. ASSUME NEW c \in Callers, Work(c), UNCHANGED world
        PROVE  DInv'
    <3>1. CASE \/ StatMeta(c) \/ FetchDocument(c) \/ FetchRelated(c) \/ RelatedFails(c)
               \/ FetchText(c) \/ RequestFails(c)
      <4>1. Pc(c) # "idle"
        BY <3>1 DEF StatMeta, FetchDocument, FetchRelated, RelatedFails, FetchText, RequestFails
      <4>2. QED
        BY <2>4, <3>1, <4>1, MoveSafe
    <3>2. CASE ReadMeta(c) \/ SaveMeta(c) \/ SaveMetaFails(c)
      BY <2>4, <3>2, MetaSafe
    <3>3. CASE LoadText(c) \/ SaveText(c) \/ SaveTextFails(c)
      BY <2>4, <3>3, TextSafe
    <3>4. QED
      BY <2>4, <3>1, <3>2, <3>3 DEF Work
  <2>5. CASE UNCHANGED fetchVars
    BY <2>5 DEF fetchVars, DInv, Typed, FilesInv, CallInv, WasLatest, WasWithout
  <2>6. QED
    BY <2>1, <2>2, <2>3, <2>4, <2>5 DEF FetchNext
<1>3. QED
  BY <1>1, <1>2, PTL DEF FetchSpec

(* The text under a revision's label is that revision's, however the calls *)
(* interleave with new revisions (text.go:14-38).                          *)
THEOREM TextsMatch == FetchSpec => []TextMatchesLabel
<1>1. DInv => TextMatchesLabel
  BY DEF DInv, CallInv, TextMatchesLabel, Answered
<1>2. QED
  BY <1>1, Invariance, PTL

(* Metadata are as fresh as the lifetime of the cache, and of two calls,   *)
(* promises (metadata.go:13-17, cache.go:34-49).                           *)
THEOREM MetadataStayFresh == FetchSpec => []MetadataAreFresh
<1>1. DInv => RevWasLatest
  BY DEF DInv, CallInv, RevWasLatest, Answered, WasLatest
<1>2. DInv => RFCIsReported
  BY DEF DInv, FilesInv, CallInv, RFCIsReported, Answered, WasWithout
<1>3. QED
  BY <1>1, <1>2, Invariance, PTL DEF MetadataAreFresh

(* Nothing is called unknown but what was not there when the call began to *)
(* look for it: a 404 is never remembered (http.go:65-67).                 *)
THEOREM NotFoundStaysFresh == FetchSpec => []NotFoundIsFresh
<1>1. DInv => NotFoundIsFresh
  BY DEF DInv, CallInv, NotFoundIsFresh, Pc
<1>2. QED
  BY <1>1, Invariance, PTL

-----------------------------------------------------------------------------
(***************************************************************************)
(* The search (module DraftSearch).  First the lists: Only is a recursive  *)
(* function, and what it computes is shown by the smallest place at which  *)
(* it would go wrong.                                                      *)
(***************************************************************************)

LEMMA Least ==
  ASSUME NEW S, S \subseteq Nat, S # {}
  PROVE  \E n \in S : \A m \in S : n <= m
<1>1. IsWellFoundedOn(OpToRel(<, Nat), Nat)
  BY NatLessThanWellFounded
<1>2. PICK n \in S : \A m \in S : <<m, n>> \notin OpToRel(<, Nat)
  BY <1>1, WFMin
<1>3. \A m \in S : ~(m < n)
  BY <1>2 DEF OpToRel
<1>4. QED
  BY <1>3

(* What holds at 0, and after k when it holds at k, holds up to n.         *)
LEMMA UpToN ==
  ASSUME NEW n \in Nat, NEW S, 0 \in S, \A k \in 0 .. n - 1 : k \in S => k + 1 \in S
  PROVE  0 .. n \subseteq S
<1> DEFINE Bad == {k \in 0 .. n : k \notin S}
<1> SUFFICES ASSUME Bad # {} PROVE FALSE
  OBVIOUS
<1>1. PICK k \in Bad : \A j \in Bad : k <= j
  <2>1. Bad \subseteq Nat
    OBVIOUS
  <2> HIDE DEF Bad
  <2>2. QED
    BY <2>1, Least
<1>2. k \in 0 .. n /\ k # 0 /\ k \notin S
  OBVIOUS
<1>3. k - 1 \in 0 .. n - 1 /\ k - 1 \notin Bad
  BY <1>1, <1>2
<1>4. k - 1 \in S
  BY <1>3
<1>5. QED
  BY <1>2, <1>3, <1>4

(* A function given by its value at 0 and by steps.                        *)
Runs(f, n, S, x, step) ==
    f \in [0 .. n -> S] /\ f[0] = x /\ \A k \in 1 .. n : f[k] = step[k][f[k - 1]]

LEMMA Iterate ==
  ASSUME NEW n \in Nat, NEW S, NEW x \in S, NEW step \in [1 .. n -> [S -> S]]
  PROVE  \E f : Runs(f, n, S, x, step)
<1> DEFINE Part(k, f) == /\ f \in [0 .. k -> S] /\ f[0] = x
                         /\ \A j \in 1 .. k : f[j] = step[j][f[j - 1]]
           Good == {k \in 0 .. n : \E f : Part(k, f)}
<1>1. 0 \in Good
  <2>1. Part(0, [k \in 0 .. 0 |-> x])
    OBVIOUS
  <2>2. 0 \in 0 .. n
    OBVIOUS
  <2> HIDE DEF Part
  <2>3. QED
    BY <2>1, <2>2
<1>2. ASSUME NEW k \in 0 .. n - 1, k \in Good PROVE k + 1 \in Good
  <2>1. PICK f : Part(k, f)
    BY <1>2
  <2> DEFINE g == [j \in 0 .. k + 1 |-> IF j = k + 1 THEN step[k + 1][f[k]] ELSE f[j]]
  <2>2. g \in [0 .. k + 1 -> S] /\ g[0] = x
    BY <2>1
  <2>3. ASSUME NEW j \in 1 .. k + 1 PROVE g[j] = step[j][g[j - 1]]
    BY <2>1
  <2> HIDE DEF g
  <2>4. QED
    BY <2>2, <2>3
<1>3. n \in Good
  <2> HIDE DEF Good
  <2>1. 0 .. n \subseteq Good
    BY <1>1, <1>2, UpToN
  <2>2. QED
    BY <2>1
<1>4. PICK f : Part(n, f)
  BY <1>3
<1>5. QED
  BY <1>4 DEF Runs

(* The function within Only: what it has kept of the first k.              *)
Keeps(f, D, list, S) ==
  /\ f \in [0 .. Len(list) -> Seq(D)] /\ f[0] = <<>>
  /\ \A k \in 1 .. Len(list) :
       f[k] = IF list[k] \in S THEN Append(f[k - 1], list[k]) ELSE f[k - 1]

LEMMA OnlyIsRun ==
  ASSUME NEW D, NEW list \in Seq(D), NEW S
  PROVE  \E f : Keeps(f, D, list, S) /\ Only(list, S) = f[Len(list)]
<1> PICK n \in Nat : n = Len(list) /\ \A k \in 1 .. n : list[k] \in D
  BY LenProperties, ElementOfSeq
<1> DEFINE Then(x, k) == IF list[k] \in S THEN Append(x, list[k]) ELSE x
           step == [k \in 1 .. n |-> [x \in Seq(D) |-> Then(x, k)]]
           Is(f) == f = [k \in 0 .. Len(list) |->
                      IF k = 0 THEN <<>>
                      ELSE IF list[k] \in S THEN Append(f[k - 1], list[k]) ELSE f[k - 1]]
           kept == CHOOSE f : Is(f)
<1>1. \A k \in 1 .. n : \A x \in Seq(D) : Then(x, k) \in Seq(D)
  BY AppendProperties
<1>2. step \in [1 .. n -> [Seq(D) -> Seq(D)]] /\ <<>> \in Seq(D)
  BY <1>1
<1>3. PICK f : Runs(f, n, Seq(D), <<>>, step)
  <2> HIDE DEF step
  <2>1. QED
    BY <1>2, Iterate
<1>4. f \in [0 .. n -> Seq(D)] /\ f[0] = <<>> /\ \A k \in 1 .. n : f[k] = Then(f[k - 1], k)
  <2>1. f \in [0 .. n -> Seq(D)] /\ f[0] = <<>> /\ \A k \in 1 .. n : f[k] = step[k][f[k - 1]]
    BY <1>3 DEF Runs
  <2>2. \A k \in 1 .. n : k - 1 \in 0 .. n
    OBVIOUS
  <2>3. \A k \in 1 .. n : step[k][f[k - 1]] = Then(f[k - 1], k)
    BY <2>1, <2>2
  <2> HIDE DEF Then, step
  <2>4. QED
    BY <2>1, <2>3
<1>5. Keeps(f, D, list, S)
  BY <1>4 DEF Keeps
<1>6. Is(f)
  <2> DEFINE g(k) == IF k = 0 THEN <<>> ELSE Then(f[k - 1], k)
  <2>1. \A k \in 0 .. n : f[k] = g(k)
    <3> TAKE k \in 0 .. n
    <3>1. k = 0 \/ k \in 1 .. n
      OBVIOUS
    <3> HIDE DEF Then
    <3>2. QED
      BY <1>4, <3>1
  <2> HIDE DEF g
  <2>2. f = [k \in 0 .. n |-> g(k)]
    BY <1>4, <2>1
  <2>3. QED
    BY <2>2 DEF g
<1>7. ASSUME NEW g, Is(g) PROVE g = f
  <2>1. /\ DOMAIN g = 0 .. n /\ g[0] = <<>> /\ \A k \in 1 .. n : g[k] = Then(g[k - 1], k)
        /\ g = [k \in 0 .. n |-> g[k]]
    <3>1. \A k \in 1 .. n : k \in 0 .. n /\ k # 0
      OBVIOUS
    <3>2. 0 \in 0 .. n
      OBVIOUS
    <3>3. QED
      BY <1>7, <3>1, <3>2
  <2> DEFINE Same == {k \in 0 .. n : g[k] = f[k]}
  <2>2. 0 \in Same
    BY <1>4, <2>1
  <2>3. ASSUME NEW k \in 0 .. n - 1, k \in Same PROVE k + 1 \in Same
    <3>1. k + 1 \in 1 .. n /\ k + 1 - 1 = k /\ k + 1 \in 0 .. n
      OBVIOUS
    <3>2. g[k + 1] = Then(g[k], k + 1) /\ f[k + 1] = Then(f[k], k + 1)
      <4>1. PICK l \in 1 .. n : l = k + 1 /\ l - 1 = k
        BY <3>1
      <4> HIDE DEF Then
      <4>2. g[l] = Then(g[l - 1], l) /\ f[l] = Then(f[l - 1], l)
        BY <1>4, <2>1
      <4>3. QED
        BY <4>1, <4>2
    <3>3. g[k] = f[k]
      BY <2>3
    <3> HIDE DEF Then
    <3>4. QED
      BY <3>1, <3>2, <3>3
  <2>4. 0 .. n \subseteq Same
    <3> HIDE DEF Same
    <3>1. QED
      BY <2>2, <2>3, UpToN
  <2> HIDE DEF Is
  <2>5. \A k \in 0 .. n : g[k] = f[k]
    BY <2>4
  <2>6. QED
    BY <1>4, <2>1, <2>5
<1>8. kept = f
  <2> HIDE DEF Is
  <2>1. QED
    BY <1>6, <1>7
<1>9. Only(list, S) = kept[n]
  BY DEF Only
<1>10. QED
  BY <1>5, <1>8, <1>9

(* What Append and concatenation do to the members.                        *)
LEMMA AppendFacts ==
  ASSUME NEW D, NEW s \in Seq(D), NEW d \in D
  PROVE  /\ Append(s, d) \in Seq(D) /\ Range(Append(s, d)) = Range(s) \union {d}
         /\ IsInjective(s) /\ d \notin Range(s) => IsInjective(Append(s, d))
<1> PICK t : t = Append(s, d)
  OBVIOUS
<1> PICK n \in Nat : n = Len(s) /\ DOMAIN s = 1 .. n
  BY LenProperties
<1>1. /\ t \in Seq(D) /\ DOMAIN t = 1 .. n + 1
      /\ \A i \in 1 .. n : t[i] = s[i]
      /\ t[n + 1] = d
  BY AppendProperties, LenProperties
<1>2. /\ n + 1 \in 1 .. n + 1 /\ 1 .. n \subseteq 1 .. n + 1
      /\ \A i \in 1 .. n + 1 : i = n + 1 \/ i \in 1 .. n
  OBVIOUS
<1>3. Range(t) = Range(s) \union {d}
  BY <1>1, <1>2 DEF Range
<1>4. IsInjective(s) /\ d \notin Range(s) => IsInjective(t)
  BY <1>1, <1>2 DEF Range, IsInjective
<1>5. QED
  BY <1>1, <1>3, <1>4

(* A name the provers do not look into, and where its elements come from.  *)
Joined(s, t) == s \o t

Glued(u, s, t, m, n) ==
  Len(u) = m + n /\ \A j \in 1 .. m + n : u[j] = IF j <= m THEN s[j] ELSE t[j - m]

LEMMA JoinedAt ==
  ASSUME NEW D, NEW s \in Seq(D), NEW t \in Seq(D), NEW u, u = Joined(s, t),
         NEW m \in Nat, m = Len(s), NEW n \in Nat, n = Len(t)
  PROVE  u \in Seq(D) /\ Glued(u, s, t, m, n)
BY ConcatProperties DEF Joined, Glued

LEMMA AppendToConcat ==
  ASSUME NEW D, NEW s \in Seq(D), NEW t \in Seq(D), NEW d \in D
  PROVE  Append(Joined(s, t), d) = Joined(s, Append(t, d)) /\ Joined(s, <<>>) = s
<1>1. s \o t \in Seq(D) /\ <<d>> \in Seq(D)
  BY ConcatProperties
<1>2. Append(s \o t, d) = (s \o t) \o <<d>> /\ Append(t, d) = t \o <<d>>
  BY <1>1, AppendIsConcat
<1>3. (s \o t) \o <<d>> = s \o (t \o <<d>>)
  BY <1>1, ConcatAssociative
<1>4. s \o <<>> = s
  BY ConcatEmptySeq
<1>5. QED
  BY <1>2, <1>3, <1>4 DEF Joined

LEMMA ConcatFacts ==
  ASSUME NEW D, NEW s \in Seq(D), NEW t \in Seq(D)
  PROVE  /\ Joined(s, t) \in Seq(D)
         /\ Range(Joined(s, t)) = Range(s) \union Range(t)
         /\ IsInjective(s) /\ IsInjective(t) /\ Range(s) \intersect Range(t) = {} =>
              IsInjective(Joined(s, t))
<1> PICK u : u = Joined(s, t) /\ u = s \o t
  BY DEF Joined
<1> PICK m \in Nat, n \in Nat : m = Len(s) /\ n = Len(t) /\ DOMAIN s = 1 .. m /\ DOMAIN t = 1 .. n
  BY LenProperties
<1>1. /\ u \in Seq(D) /\ Len(u) = m + n /\ DOMAIN u = 1 .. m + n
      /\ \A i \in 1 .. m + n : u[i] = IF i <= m THEN s[i] ELSE t[i - m]
  BY ConcatProperties, LenProperties
<1>2. Range(u) = Range(s) \union Range(t)
  BY RangeConcatenation
<1>3. ASSUME IsInjective(s), IsInjective(t), Range(s) \intersect Range(t) = {}
      PROVE  IsInjective(u)
  <2> SUFFICES ASSUME NEW i \in 1 .. m + n, NEW j \in 1 .. m + n, u[i] = u[j] PROVE i = j
    BY <1>1 DEF IsInjective
  <2>1. ASSUME NEW k \in 1 .. m + n
        PROVE  /\ k <= m => k \in DOMAIN s /\ u[k] = s[k] /\ u[k] \in Range(s)
               /\ ~(k <= m) => /\ k - m \in DOMAIN t /\ u[k] = t[k - m] /\ u[k] \in Range(t)
    <3>1. CASE k <= m
      <4>1. k \in 1 .. m
        BY <3>1
      <4>2. QED
        BY <1>1, <3>1, <4>1 DEF Range
    <3>2. CASE ~(k <= m)
      <4>1. k - m \in 1 .. n
        BY <3>2
      <4>2. QED
        BY <1>1, <3>2, <4>1 DEF Range
    <3>3. QED
      BY <3>1, <3>2
  <2>2. CASE i <= m /\ j <= m
    BY <1>3, <2>1, <2>2 DEF IsInjective
  <2>3. CASE ~(i <= m) /\ ~(j <= m)
    <3>1. i - m = j - m
      BY <1>3, <2>1, <2>3 DEF IsInjective
    <3>2. QED
      BY <3>1
  <2>4. CASE ~(i <= m <=> j <= m)
    BY <1>3, <2>1, <2>4
  <2>5. QED
    BY <2>2, <2>3, <2>4
<1>4. QED
  BY <1>1, <1>2, <1>3

(* Only keeps what is in S, and keeps a list free of repetitions.          *)
LEMMA OnlyFacts ==
  ASSUME NEW D, NEW list \in Seq(D), NEW S
  PROVE  /\ Only(list, S) \in Seq(D)
         /\ Range(Only(list, S)) = S \intersect Range(list)
         /\ IsInjective(list) => IsInjective(Only(list, S))
<1> PICK n \in Nat : n = Len(list) /\ DOMAIN list = 1 .. n /\ \A k \in 1 .. n : list[k] \in D
  BY LenProperties, ElementOfSeq
<1>1. PICK f : Keeps(f, D, list, S) /\ Only(list, S) = f[n]
  BY OnlyIsRun
<1>2. /\ f \in [0 .. n -> Seq(D)] /\ f[0] = <<>>
      /\ \A k \in 1 .. n :
           f[k] = IF list[k] \in S THEN Append(f[k - 1], list[k]) ELSE f[k - 1]
  BY <1>1 DEF Keeps
<1> DEFINE Seen(k) == {list[j] : j \in 1 .. k}
           Good(k) == /\ Range(f[k]) = S \intersect Seen(k)
                      /\ IsInjective(list) => IsInjective(f[k])
           K == {k \in 0 .. n : Good(k)}
<1>3. 0 \in K
  <2>1. Range(<<>>) = {} /\ IsInjective(<<>>) /\ Seen(0) = {}
    BY DEF Range, IsInjective
  <2>2. Good(0) /\ 0 \in 0 .. n
    BY <1>2, <2>1
  <2> HIDE DEF Good
  <2>3. QED
    BY <2>2
<1>4. ASSUME NEW k \in 0 .. n - 1, k \in K PROVE k + 1 \in K
  <2>1. PICK l \in 1 .. n : l = k + 1 /\ l - 1 = k /\ l \in 0 .. n
    OBVIOUS
  <2>2. /\ f[k] \in Seq(D) /\ Good(k) /\ list[l] \in D
        /\ f[l] = IF list[l] \in S THEN Append(f[k], list[l]) ELSE f[k]
    <3>1. k \in 0 .. n
      OBVIOUS
    <3> HIDE DEF Good
    <3>2. QED
      BY <1>2, <1>4, <2>1, <3>1
  <2>3. Seen(l) = Seen(k) \union {list[l]}
    <3>1. \A j \in 1 .. l : j = l \/ j \in 1 .. k
      BY <2>1
    <3>2. l \in 1 .. l /\ \A j \in 1 .. k : j \in 1 .. l
      BY <2>1
    <3>3. QED
      BY <3>1, <3>2
  <2>4. IsInjective(list) => list[l] \notin Seen(k)
    <3>1. \A j \in 1 .. k : j \in 1 .. n /\ j # l
      BY <2>1
    <3>2. QED
      BY <3>1 DEF IsInjective
  <2> HIDE DEF Seen
  <2>5. Good(l)
    <3>1. CASE list[l] \in S
      BY <2>2, <2>3, <2>4, <3>1, AppendFacts
    <3>2. CASE list[l] \notin S
      BY <2>2, <2>3, <3>2
    <3>3. QED
      BY <3>1, <3>2
  <2> HIDE DEF Good
  <2>6. QED
    BY <2>1, <2>5
<1>5. n \in K
  <2> HIDE DEF K
  <2>1. 0 .. n \subseteq K
    BY <1>3, <1>4, UpToN
  <2>2. QED
    BY <2>1
<1>6. Seen(n) = Range(list)
  BY DEF Range
<1>7. n \in 0 .. n
  OBVIOUS
<1> HIDE DEF Seen
<1>8. QED
  BY <1>1, <1>2, <1>5, <1>6, <1>7

(* What is kept of two lists in a row is what is kept of the one, and then *)
(* of the other: the matches of the pages are the matches of the list.     *)
LEMMA OnlyConcat ==
  ASSUME NEW D, NEW a \in Seq(D), NEW b \in Seq(D), NEW S
  PROVE  Only(Joined(a, b), S) = Joined(Only(a, S), Only(b, S))
<1> PICK m \in Nat, n \in Nat : m = Len(a) /\ n = Len(b)
  BY LenProperties
<1> PICK c : c = Joined(a, b)
  OBVIOUS
<1>1. /\ c \in Seq(D) /\ Len(c) = m + n /\ m + n \in Nat
      /\ \A i \in 1 .. m : c[i] = a[i]
      /\ \A i \in 1 .. n : c[m + i] = b[i]
      /\ \A i \in 1 .. n : b[i] \in D
  <2>1. c \in Seq(D) /\ Glued(c, a, b, m, n)
    BY JoinedAt
  <2>2. Len(c) = m + n
    BY <2>1 DEF Glued
  <2>3. \A i \in 1 .. m : c[i] = a[i]
    BY <2>1 DEF Glued
  <2>4. ASSUME NEW i \in 1 .. n PROVE c[m + i] = b[i]
    <3>1. PICK j \in 1 .. m + n : j = m + i /\ ~(j <= m) /\ j - m = i
      OBVIOUS
    <3>2. c[j] = b[i]
      BY <2>1, <3>1 DEF Glued
    <3>3. QED
      BY <3>1, <3>2
  <2>5. \A i \in 1 .. n : b[i] \in D
    BY ElementOfSeq
  <2>6. m + n \in Nat
    OBVIOUS
  <2>7. QED
    BY <2>1, <2>2, <2>3, <2>4, <2>5, <2>6, Zenon
<1>2. PICK f : Keeps(f, D, a, S) /\ Only(a, S) = f[m]
  BY OnlyIsRun
<1>3. PICK g : Keeps(g, D, b, S) /\ Only(b, S) = g[n]
  BY OnlyIsRun
<1>4. PICK h : Keeps(h, D, c, S) /\ Only(c, S) = h[m + n]
  <2>1. PICK h : Keeps(h, D, c, S) /\ Only(c, S) = h[Len(c)]
    <3>1. c \in Seq(D)
      BY <1>1
    <3>2. QED
      BY ONLY <3>1, OnlyIsRun
  <2>2. Only(c, S) = h[m + n]
    BY <1>1, <2>1
  <2>3. QED
    BY <2>1, <2>2
<1>5. /\ f \in [0 .. m -> Seq(D)] /\ f[0] = <<>>
      /\ \A k \in 1 .. m : f[k] = IF a[k] \in S THEN Append(f[k - 1], a[k]) ELSE f[k - 1]
  BY <1>2 DEF Keeps
<1>6. /\ g \in [0 .. n -> Seq(D)] /\ g[0] = <<>>
      /\ \A k \in 1 .. n : g[k] = IF b[k] \in S THEN Append(g[k - 1], b[k]) ELSE g[k - 1]
  BY <1>3 DEF Keeps
<1>7. /\ h \in [0 .. m + n -> Seq(D)] /\ h[0] = <<>>
      /\ \A k \in 1 .. m + n : h[k] = IF c[k] \in S THEN Append(h[k - 1], c[k]) ELSE h[k - 1]
  BY <1>1, <1>4 DEF Keeps
<1> DEFINE J == {k \in 0 .. m : h[k] = f[k]}
           K == {k \in 0 .. n : h[m + k] = Joined(f[m], g[k])}
<1>8. 0 \in J
  BY <1>5, <1>7
<1>9. ASSUME NEW k \in 0 .. m - 1, k \in J PROVE k + 1 \in J
  <2>1. PICK l \in 1 .. m : l = k + 1 /\ l - 1 = k /\ l \in 0 .. m /\ l \in 1 .. m + n
    OBVIOUS
  <2>2. h[l] = IF a[l] \in S THEN Append(h[l - 1], a[l]) ELSE h[l - 1]
    BY <1>1, <1>7, <2>1
  <2>3. f[l] = IF a[l] \in S THEN Append(f[l - 1], a[l]) ELSE f[l - 1]
    BY <1>5
  <2>4. h[l] = f[l]
    BY <1>9, <2>1, <2>2, <2>3
  <2>5. QED
    BY <2>1, <2>4
<1>10. h[m] = f[m] /\ f[m] \in Seq(D)
  <2>0. m \in 0 .. m
    OBVIOUS
  <2> HIDE DEF J
  <2>1. 0 .. m \subseteq J
    BY <1>8, <1>9, UpToN
  <2>2. QED
    BY <1>5, <2>0, <2>1 DEF J
<1>11. 0 \in K
  <2>1. Joined(f[m], <<>>) = f[m]
    BY <1>10, ConcatEmptySeq DEF Joined
  <2>2. h[m + 0] = Joined(f[m], g[0]) /\ 0 \in 0 .. n
    BY <1>6, <1>10, <2>1
  <2>3. QED
    BY <2>2
<1>12. ASSUME NEW k \in 0 .. n - 1, k \in K PROVE k + 1 \in K
  <2>1. PICK l \in 1 .. n : l = k + 1 /\ l - 1 = k /\ l \in 0 .. n /\ k \in 0 .. n
    OBVIOUS
  <2>2. PICK j \in 1 .. m + n : j = m + l /\ j - 1 = m + k
    BY <2>1
  <2>3. h[j] = IF b[l] \in S THEN Append(h[m + k], b[l]) ELSE h[m + k]
    <3>1. h[j] = IF c[j] \in S THEN Append(h[j - 1], c[j]) ELSE h[j - 1]
      BY <1>7
    <3>2. QED
      BY <1>1, <2>2, <3>1
  <2>4. g[l] = IF b[l] \in S THEN Append(g[k], b[l]) ELSE g[k]
    <3>1. g[l] = IF b[l] \in S THEN Append(g[l - 1], b[l]) ELSE g[l - 1]
      BY <1>6
    <3>2. QED
      BY <2>1, <3>1
  <2>5. h[m + k] = Joined(f[m], g[k]) /\ g[k] \in Seq(D) /\ b[l] \in D
    BY <1>1, <1>6, <1>12, <2>1
  <2>6. Append(Joined(f[m], g[k]), b[l]) = Joined(f[m], Append(g[k], b[l]))
    <3>1. PICK x \in Seq(D), y \in Seq(D), d \in D : x = f[m] /\ y = g[k] /\ d = b[l]
      BY <1>10, <2>5
    <3>2. Append(Joined(x, y), d) = Joined(x, Append(y, d))
      BY AppendToConcat
    <3>3. QED
      BY <3>1, <3>2
  <2>7. h[m + l] = Joined(f[m], g[l])
    BY <2>2, <2>3, <2>4, <2>5, <2>6
  <2>8. QED
    BY <2>1, <2>7
<1>13. h[m + n] = Joined(f[m], g[n])
  <2>0. n \in 0 .. n
    OBVIOUS
  <2> HIDE DEF K
  <2>1. 0 .. n \subseteq K
    BY <1>11, <1>12, UpToN
  <2>2. QED
    BY <2>0, <2>1 DEF K
<1>14. QED
  BY <1>2, <1>3, <1>4, <1>13
-----------------------------------------------------------------------------
(***************************************************************************)
(* The list and its pages.                                                 *)
(***************************************************************************)

Removed(u, s, i, n) ==
  Len(u) = n - 1 /\ \A j \in 1 .. n - 1 : u[j] = IF j < i THEN s[j] ELSE s[j + 1]

Inserted(u, s, i, d, n) ==
  /\ Len(u) = n + 1
  /\ \A j \in 1 .. n + 1 : u[j] = IF j < i THEN s[j] ELSE IF j = i THEN d ELSE s[j - 1]

LEMMA RemoveFacts ==
  ASSUME NEW D, NEW s \in Seq(D), NEW i \in DOMAIN s, NEW u, u = RemoveAt(s, i)
  PROVE  u \in Seq(D) /\ Removed(u, s, i, Len(s))
<1> PICK n \in Nat : n = Len(s) /\ DOMAIN s = 1 .. n /\ \A j \in 1 .. n : s[j] \in D
  BY LenProperties, ElementOfSeq
<1> i \in 1 .. n /\ i \in Nat
  OBVIOUS
<1> DEFINE a == SubSeq(s, 1, i - 1)
           b == SubSeq(s, i + 1, n)
           r == Joined(a, b)
<1>1. a \in Seq(D) /\ Len(a) = i - 1 /\ \A j \in 1 .. i - 1 : a[j] = s[j]
  <2>1. \A j \in 1 .. i - 1 : s[j] \in D
    OBVIOUS
  <2>2. /\ a \in Seq(D) /\ Len(a) = IF 1 <= i - 1 THEN i - 1 - 1 + 1 ELSE 0
        /\ \A j \in 1 .. i - 1 - 1 + 1 : a[j] = s[1 + j - 1]
    BY <2>1, SubSeqProperties
  <2>3. QED
    BY <2>2
<1>2. b \in Seq(D) /\ Len(b) = n - i /\ \A j \in 1 .. n - i : b[j] = s[i + j]
  <2>1. \A j \in i + 1 .. n : s[j] \in D
    OBVIOUS
  <2>2. /\ b \in Seq(D) /\ Len(b) = IF i + 1 <= n THEN n - (i + 1) + 1 ELSE 0
        /\ \A j \in 1 .. n - (i + 1) + 1 : b[j] = s[i + 1 + j - 1]
    BY <2>1, SubSeqProperties
  <2>3. QED
    BY <2>2
<1>3. r = RemoveAt(s, i)
  BY DEF RemoveAt, Joined
<1> HIDE DEF a, b, r
<1>4. /\ r \in Seq(D) /\ Len(r) = n - 1
      /\ \A j \in 1 .. n - 1 : r[j] = IF j <= i - 1 THEN a[j] ELSE b[j - (i - 1)]
  <2>1. PICK p \in Nat, q \in Nat : p = i - 1 /\ q = n - i /\ p + q = n - 1
    OBVIOUS
  <2>2. r = Joined(a, b) /\ Len(a) = p /\ Len(b) = q
    BY <1>1, <1>2, <2>1 DEF r
  <2>3. r \in Seq(D) /\ Glued(r, a, b, p, q)
    BY <1>1, <1>2, <2>2, JoinedAt
  <2>4. QED
    BY <2>1, <2>3 DEF Glued
<1>5. ASSUME NEW j \in 1 .. n - 1 PROVE r[j] = IF j < i THEN s[j] ELSE s[j + 1]
  <2>1. CASE j < i
    <3>1. j \in 1 .. i - 1 /\ j <= i - 1
      BY <2>1
    <3>2. QED
      BY <1>1, <1>4, <2>1, <3>1
  <2>2. CASE ~(j < i)
    <3>1. PICK k \in 1 .. n - i : k = j - (i - 1) /\ i + k = j + 1 /\ ~(j <= i - 1)
      BY <2>2
    <3>2. QED
      BY <1>2, <1>4, <2>2, <3>1
  <2>3. QED
    BY <2>1, <2>2
<1>6. QED
  BY <1>3, <1>4, <1>5 DEF Removed

LEMMA InsertFacts ==
  ASSUME NEW D, NEW s \in Seq(D), NEW n \in Nat, n = Len(s), NEW i \in 1 .. n + 1, NEW d \in D,
         NEW u, u = InsertAt(s, i, d)
  PROVE  u \in Seq(D) /\ Inserted(u, s, i, d, n)
<1> DOMAIN s = 1 .. n /\ \A j \in 1 .. n : s[j] \in D
  BY LenProperties, ElementOfSeq
<1> i \in Nat
  OBVIOUS
<1> PICK e \in Seq(D) : e = <<d>> /\ Len(e) = 1 /\ e[1] = d
  <2>1. <<d>> \in Seq(D) /\ Len(<<d>>) = 1 /\ <<d>>[1] = d
    OBVIOUS
  <2>2. QED
    BY <2>1
<1> DEFINE a == SubSeq(s, 1, i - 1)
           b == SubSeq(s, i, n)
           c == Joined(a, e)
           r == Joined(c, b)
<1>1. a \in Seq(D) /\ Len(a) = i - 1 /\ \A j \in 1 .. i - 1 : a[j] = s[j]
  <2>1. \A j \in 1 .. i - 1 : s[j] \in D
    OBVIOUS
  <2>2. /\ a \in Seq(D) /\ Len(a) = IF 1 <= i - 1 THEN i - 1 - 1 + 1 ELSE 0
        /\ \A j \in 1 .. i - 1 - 1 + 1 : a[j] = s[1 + j - 1]
    BY <2>1, SubSeqProperties
  <2>3. QED
    BY <2>2
<1>2. b \in Seq(D) /\ Len(b) = n - i + 1 /\ \A j \in 1 .. n - i + 1 : b[j] = s[i + j - 1]
  <2>1. \A j \in i .. n : s[j] \in D
    OBVIOUS
  <2>2. /\ b \in Seq(D) /\ Len(b) = IF i <= n THEN n - i + 1 ELSE 0
        /\ \A j \in 1 .. n - i + 1 : b[j] = s[i + j - 1]
    BY <2>1, SubSeqProperties
  <2>3. QED
    BY <2>2
<1>3. r = InsertAt(s, i, d)
  BY DEF InsertAt, Joined
<1> HIDE DEF a, b, c, r
<1>4. c \in Seq(D) /\ Len(c) = i /\ c[i] = d /\ \A j \in 1 .. i - 1 : c[j] = s[j]
  <2>1. PICK p \in Nat : p = i - 1 /\ p + 1 = i
    OBVIOUS
  <2>0. c = Joined(a, e) /\ Len(a) = p
    BY <1>1, <2>1 DEF c
  <2> PICK q \in Nat : q = 1 /\ Len(e) = q
    OBVIOUS
  <2>2. c \in Seq(D) /\ Glued(c, a, e, p, q)
    BY <1>1, <2>0, JoinedAt
  <2>3. i \in 1 .. i /\ ~(i <= i - 1) /\ i - (i - 1) = 1
        /\ \A j \in 1 .. i - 1 : j \in 1 .. i /\ j <= i - 1
    OBVIOUS
  <2>4. QED
    BY <1>1, <2>1, <2>2, <2>3 DEF Glued
<1>5. /\ r \in Seq(D) /\ Len(r) = n + 1
      /\ \A j \in 1 .. n + 1 : r[j] = IF j <= i THEN c[j] ELSE b[j - i]
  <2>1. PICK q \in Nat : q = n - i + 1 /\ i + q = n + 1
    OBVIOUS
  <2>0. r = Joined(c, b) /\ Len(c) = i /\ Len(b) = q
    BY <1>2, <1>4, <2>1 DEF r
  <2>2. r \in Seq(D) /\ Glued(r, c, b, i, q)
    BY ONLY <1>2, <1>4, <2>0, i \in Nat, q \in Nat, JoinedAt
  <2>3. QED
    BY <2>1, <2>2 DEF Glued
<1>6. ASSUME NEW j \in 1 .. n + 1
      PROVE  r[j] = IF j < i THEN s[j] ELSE IF j = i THEN d ELSE s[j - 1]
  <2>1. CASE j < i
    <3>1. j \in 1 .. i - 1 /\ j <= i
      BY <2>1
    <3>2. QED
      BY <1>4, <1>5, <2>1, <3>1
  <2>2. CASE j = i
    BY <1>4, <1>5, <2>2
  <2>3. CASE i < j
    <3>1. j - i \in 1 .. n - i + 1 /\ ~(j <= i) /\ i + (j - i) - 1 = j - 1 /\ ~(j < i) /\ j # i
      BY <2>3
    <3>2. QED
      BY <1>2, <1>5, <3>1
  <2>4. QED
    BY <2>1, <2>2, <2>3
<1>7. QED
  BY <1>3, <1>5, <1>6 DEF Inserted

(* What lies behind the first o elements, up to the p-th.                  *)
Slice(s, o, p) == SubSeq(s, o + 1, p)

Cut(t, s, o, p) ==
  /\ Len(t) = IF o <= p THEN p - o ELSE 0
  /\ \A j \in 1 .. p - o : t[j] = s[o + j]
  /\ o <= p => Range(t) = {s[i] : i \in o + 1 .. p}
  /\ IsInjective(s) => IsInjective(t)

LEMMA SliceIsCut ==
  ASSUME NEW D, NEW s \in Seq(D), NEW o \in Nat, NEW p \in Nat, p <= Len(s),
         NEW t, t = Slice(s, o, p)
  PROVE  t \in Seq(D) /\ Cut(t, s, o, p)
<1> PICK n \in Nat : n = Len(s) /\ DOMAIN s = 1 .. n /\ p <= n /\ \A j \in 1 .. n : s[j] \in D
  BY LenProperties, ElementOfSeq
<1>1. /\ t \in Seq(D) /\ Len(t) = IF o + 1 <= p THEN p - (o + 1) + 1 ELSE 0
      /\ \A j \in 1 .. p - (o + 1) + 1 : t[j] = s[o + 1 + j - 1]
  <2>1. \A j \in o + 1 .. p : s[j] \in D
    OBVIOUS
  <2>2. o + 1 \in Int /\ p \in Int
    OBVIOUS
  <2>3. t = SubSeq(s, o + 1, p)
    BY DEF Slice
  <2>4. QED
    BY <2>1, <2>3, SubSeqProperties
<1>2. Len(t) = IF o <= p THEN p - o ELSE 0
  BY <1>1
<1>3. \A j \in 1 .. p - o : t[j] = s[o + j]
  BY <1>1
<1>4. DOMAIN t = 1 .. Len(t)
  BY <1>1, LenProperties
<1>5. ASSUME o <= p PROVE Range(t) = {s[i] : i \in o + 1 .. p}
  <2>1. \A i \in o + 1 .. p : i - o \in 1 .. p - o /\ o + (i - o) = i
    OBVIOUS
  <2>2. \A j \in 1 .. p - o : o + j \in o + 1 .. p
    OBVIOUS
  <2>3. DOMAIN t = 1 .. p - o
    BY <1>2, <1>4, <1>5
  <2>4. ASSUME NEW i \in o + 1 .. p PROVE s[i] \in Range(t)
    <3>1. PICK j \in 1 .. p - o : o + j = i
      BY <2>1
    <3>2. t[j] = s[i]
      BY <1>3, <3>1
    <3>3. QED
      BY <2>3, <3>2 DEF Range
  <2>5. ASSUME NEW j \in 1 .. p - o PROVE t[j] \in {s[i] : i \in o + 1 .. p}
    BY <1>3, <2>2
  <2>6. QED
    BY <2>3, <2>4, <2>5 DEF Range
<1>6. ASSUME IsInjective(s) PROVE IsInjective(t)
  <2> SUFFICES ASSUME NEW j \in DOMAIN t, NEW k \in DOMAIN t, t[j] = t[k] PROVE j = k
    BY DEF IsInjective
  <2>1. j \in 1 .. p - o /\ k \in 1 .. p - o
    BY <1>2, <1>4
  <2>2. PICK x \in 1 .. n, y \in 1 .. n : x = o + j /\ y = o + k
    BY <2>1
  <2>3. s[x] = s[y]
    BY <1>3, <2>1, <2>2
  <2>4. x = y
    BY <1>6, <2>3 DEF IsInjective
  <2>5. QED
    BY <2>1, <2>2, <2>4
<1>7. Cut(t, s, o, p)
  BY <1>2, <1>3, <1>5, <1>6 DEF Cut
<1>8. QED
  BY <1>1, <1>7

(* A list up to its o-th element, and from there to its p-th.              *)
LEMMA SliceJoined ==
  ASSUME NEW D, NEW s \in Seq(D), NEW o \in Nat, NEW p \in Nat, o <= p, p <= Len(s)
  PROVE  Joined(Slice(s, 0, o), Slice(s, o, p)) = Slice(s, 0, p)
<1> PICK n \in Nat : n = Len(s) /\ o <= n /\ p <= n
  BY LenProperties
<1> PICK z \in Nat : z = 0 /\ z <= o /\ z <= p
  OBVIOUS
<1> PICK a : a = Slice(s, z, o)
  OBVIOUS
<1> PICK b : b = Slice(s, o, p)
  OBVIOUS
<1> PICK c : c = Slice(s, z, p)
  OBVIOUS
<1> PICK r : r = Joined(a, b)
  OBVIOUS
<1> PICK q \in Nat : q = p - o /\ o + q = p
  OBVIOUS
<1>1. a \in Seq(D) /\ Cut(a, s, z, o)
  BY SliceIsCut
<1>2. b \in Seq(D) /\ Cut(b, s, o, p)
  BY SliceIsCut
<1>3. c \in Seq(D) /\ Cut(c, s, z, p)
  BY SliceIsCut
<1>4. Len(a) = o /\ Len(b) = q /\ Len(c) = p
  BY <1>1, <1>2, <1>3 DEF Cut
<1>5. r \in Seq(D) /\ Glued(r, a, b, o, q)
  BY <1>1, <1>2, <1>4, JoinedAt
<1>6. Len(r) = p
  BY <1>5 DEF Glued
<1>7. ASSUME NEW j \in 1 .. p PROVE r[j] = c[j]
  <2>1. c[j] = s[j]
    <3>1. j \in 1 .. p - z /\ z + j = j
      OBVIOUS
    <3>2. c[j] = s[z + j]
      BY <1>3, <3>1 DEF Cut
    <3>3. QED
      BY <3>1, <3>2
  <2>2. r[j] = IF j <= o THEN a[j] ELSE b[j - o]
    BY <1>5 DEF Glued
  <2>3. CASE j <= o
    <3>1. j \in 1 .. o - z /\ z + j = j
      BY <2>3
    <3>2. a[j] = s[z + j]
      BY <1>1, <3>1 DEF Cut
    <3>3. QED
      BY <2>1, <2>2, <2>3, <3>1, <3>2
  <2>4. CASE ~(j <= o)
    <3>1. PICK k \in 1 .. p - o : k = j - o /\ o + k = j
      BY <2>4
    <3>2. b[k] = s[j]
      BY <1>2, <3>1 DEF Cut
    <3>3. QED
      BY <2>1, <2>2, <2>4, <3>1, <3>2
  <2>5. QED
    BY <2>3, <2>4
<1>8. r = c
  BY <1>3, <1>4, <1>5, <1>6, <1>7, SeqEqual
<1>9. QED
  BY <1>8
-----------------------------------------------------------------------------
(***************************************************************************)
(* The search.  While pages are fetched, what is to be found is among the  *)
(* matches or behind the offset of the next page, unless it left the list; *)
(* and what is behind it was not found, unless it came to the list.        *)
(***************************************************************************)

Members == Range(Drafts)
Searches == [pc : {"scan", "resolve", "done", "failed"}, words : {"one", "several"},
             offset : Nat, scanned : Nat, serverOffset : Nat, matches : Seq(Members),
             items : Seq(Members), total : Nat, truncated : BOOLEAN]

SearchTyped ==
  /\ listing \in Seq(Members) /\ IsInjective(listing)
  /\ search \in Searches \union {NoSearch}
  /\ watched \in [first : Seq(Members), gone : SUBSET Members, come : SUBSET Members]

Ahead(d) == \E i \in DOMAIN listing : i > search.serverOffset /\ listing[i] = d

ListInv ==
  /\ watched.gone = {} => Range(watched.first) \subseteq Range(listing)
  /\ Range(listing) \subseteq Range(watched.first) \union watched.come

ScanInv ==
  search.pc = "scan" /\ search.words = "several" =>
    /\ search.scanned = search.serverOffset /\ search.serverOffset < ScanCap
    /\ Range(search.matches) \subseteq
         AllWords \intersect (Range(watched.first) \union watched.come)
    /\ watched.gone = {} =>
         \A d \in AllWords \intersect Range(watched.first) :
           d \in Range(search.matches) \/ Ahead(d)
    /\ watched.come = {} =>
         /\ IsInjective(search.matches)
         /\ \A d \in Range(search.matches) : ~Ahead(d)
    /\ watched = Quiet(listing) =>
         /\ search.serverOffset <= Len(listing)
         /\ search.matches = Only(SubSeq(listing, 1, search.serverOffset), AllWords)

SearchInv == SearchTyped /\ ListInv /\ ScanInv /\ SearchIsRight /\ PagesFit
-----------------------------------------------------------------------------
(* A list that loses a draft keeps the order of the rest.                  *)
LEMMA RemovedFrom ==
  ASSUME NEW D, NEW s \in Seq(D), NEW i \in DOMAIN s, NEW r, r = RemoveAt(s, i)
  PROVE  /\ r \in Seq(D) /\ Range(r) \subseteq Range(s)
         /\ \A j \in DOMAIN r : \E k \in DOMAIN s : k >= j /\ r[j] = s[k]
         /\ IsInjective(s) => IsInjective(r)
<1> PICK n \in Nat : n = Len(s) /\ DOMAIN s = 1 .. n
  BY LenProperties
<1>1. /\ r \in Seq(D) /\ Len(r) = n - 1
      /\ \A j \in 1 .. n - 1 : r[j] = IF j < i THEN s[j] ELSE s[j + 1]
  <2>1. r \in Seq(D) /\ Removed(r, s, i, n)
    BY RemoveFacts
  <2>2. QED
    BY <2>1 DEF Removed
<1>2. DOMAIN r = 1 .. n - 1
  BY <1>1, LenProperties
<1> DEFINE Was(j) == IF j < i THEN j ELSE j + 1
<1>3. \A j \in 1 .. n - 1 : Was(j) \in 1 .. n /\ Was(j) >= j /\ r[j] = s[Was(j)]
  BY <1>1
<1>4. \A j, k \in 1 .. n - 1 : Was(j) = Was(k) => j = k
  OBVIOUS
<1> HIDE DEF Was
<1>5. IsInjective(s) => IsInjective(r)
  BY <1>2, <1>3, <1>4 DEF IsInjective
<1>6. \A j \in DOMAIN r : \E k \in DOMAIN s : k >= j /\ r[j] = s[k]
  BY <1>2, <1>3
<1>7. Range(r) \subseteq Range(s)
  BY <1>6 DEF Range
<1>8. QED
  BY <1>1, <1>5, <1>6, <1>7

(* A list to which a draft comes keeps the others, at their place or after.*)
LEMMA InsertedIn ==
  ASSUME NEW D, NEW s \in Seq(D), NEW i \in 1 .. Len(s) + 1, NEW d \in D,
         NEW r, r = InsertAt(s, i, d)
  PROVE  /\ r \in Seq(D) /\ Range(r) = Range(s) \union {d}
         /\ \A k \in DOMAIN s : \E j \in DOMAIN r : j >= k /\ r[j] = s[k]
         /\ IsInjective(s) /\ d \notin Range(s) => IsInjective(r)
<1> PICK n \in Nat : n = Len(s) /\ DOMAIN s = 1 .. n
  BY LenProperties
<1> i \in 1 .. n + 1
  OBVIOUS
<1>1. /\ r \in Seq(D) /\ Len(r) = n + 1
      /\ \A j \in 1 .. n + 1 : r[j] = IF j < i THEN s[j] ELSE IF j = i THEN d ELSE s[j - 1]
  <2>1. r \in Seq(D) /\ Inserted(r, s, i, d, n)
    BY InsertFacts
  <2>2. QED
    BY <2>1 DEF Inserted
<1>2. DOMAIN r = 1 .. n + 1
  BY <1>1, LenProperties
<1> DEFINE Was(j) == IF j < i THEN j ELSE j - 1
           Now(k) == IF k < i THEN k ELSE k + 1
<1>3. \A j \in 1 .. n + 1 : j # i => Was(j) \in 1 .. n /\ r[j] = s[Was(j)]
  BY <1>1
<1>4. \A j, k \in 1 .. n + 1 : j # i /\ k # i /\ Was(j) = Was(k) => j = k
  OBVIOUS
<1>5. \A k \in 1 .. n : Now(k) \in 1 .. n + 1 /\ Now(k) >= k /\ r[Now(k)] = s[k]
  <2> TAKE k \in 1 .. n
  <2>1. PICK j \in 1 .. n + 1 : j = Now(k) /\ j >= k
    OBVIOUS
  <2>2. r[j] = s[k]
    BY <1>1, <2>1
  <2>3. QED
    BY <2>1, <2>2
<1>6. r[i] = d
  BY <1>1
<1> HIDE DEF Was, Now
<1>7. Range(r) = Range(s) \union {d}
  <2>1. \A j \in 1 .. n + 1 : r[j] \in Range(s) \union {d}
    BY <1>3, <1>6 DEF Range
  <2>2. \A k \in 1 .. n : s[k] \in Range(r)
    BY <1>2, <1>5 DEF Range
  <2>3. d \in Range(r)
    BY <1>2, <1>6 DEF Range
  <2>4. QED
    BY <1>2, <2>1, <2>2, <2>3 DEF Range
<1>8. ASSUME IsInjective(s), d \notin Range(s) PROVE IsInjective(r)
  <2> SUFFICES ASSUME NEW j \in 1 .. n + 1, NEW k \in 1 .. n + 1, r[j] = r[k] PROVE j = k
    BY <1>2 DEF IsInjective
  <2>1. \A l \in 1 .. n + 1 : l # i => r[l] \in Range(s)
    BY <1>3 DEF Range
  <2>2. CASE j = i \/ k = i
    BY <1>6, <1>8, <2>1, <2>2
  <2>3. CASE j # i /\ k # i
    BY <1>3, <1>4, <1>8, <2>3 DEF IsInjective
  <2>4. QED
    BY <2>2, <2>3
<1>9. QED
  BY <1>1, <1>2, <1>5, <1>7, <1>8

ListMembers == Drafts \in Seq(Members) /\ IsInjective(Drafts) /\ PageSize \in Nat /\ PageSize > 0
               /\ ScanCap \in Nat /\ ScanCap > 0 /\ Limit \in Nat

LEMMA BoundsHold == ListMembers
BY SearchBounds DEF ListMembers, Members

LEMMA QuietIs ==
  ASSUME NEW list
  PROVE  Quiet(list).first = list /\ Quiet(list).gone = {} /\ Quiet(list).come = {}
BY DEF Quiet

LEMMA ExpireKeeps ==
  ASSUME SearchInv, NEW i \in DOMAIN listing, Expire(i)
  PROVE  SearchInv'
<1> PICK r : r = RemoveAt(listing, i)
  OBVIOUS
<1>1. /\ search.pc = "scan" /\ search' = search /\ listing' = r
      /\ watched' = [watched EXCEPT !.gone = @ \union {listing[i]}]
  BY DEF Expire, Change
<1>2. listing \in Seq(Members) /\ IsInjective(listing) /\ search \in Searches
      /\ watched \in [first : Seq(Members), gone : SUBSET Members, come : SUBSET Members]
  BY <1>1 DEF SearchInv, SearchTyped, NoSearch
<1>3. /\ r \in Seq(Members) /\ Range(r) \subseteq Range(listing) /\ IsInjective(r)
      /\ \A j \in DOMAIN r : \E k \in DOMAIN listing : k >= j /\ r[j] = listing[k]
  BY <1>2, RemovedFrom
<1>4. listing[i] \in Members
  BY <1>2, ElementOfSeq, LenProperties
<1>5. /\ watched'.first = watched.first /\ watched'.come = watched.come
      /\ watched'.gone = watched.gone \union {listing[i]}
      /\ watched' \in [first : Seq(Members), gone : SUBSET Members, come : SUBSET Members]
  BY <1>1, <1>2, <1>4
<1>6. watched'.gone # {} /\ watched' # Quiet(listing')
  <2>1. watched'.gone # {}
    BY <1>5
  <2>2. Quiet(r).gone = {}
    BY QuietIs
  <2>3. watched' # Quiet(r)
    BY <2>1, <2>2
  <2>4. QED
    BY <1>1, <2>1, <2>3
<1>7. SearchTyped'
  BY <1>1, <1>2, <1>3, <1>5 DEF SearchTyped
<1>8. ListInv'
  BY <1>1, <1>3, <1>5, <1>6 DEF SearchInv, ListInv
<1>9. ASSUME NEW d, Ahead(d)' PROVE Ahead(d)
  <2>1. PICK j \in DOMAIN r : j > search.serverOffset /\ r[j] = d
    BY <1>1, <1>9 DEF Ahead
  <2>2. PICK k \in DOMAIN listing : k >= j /\ r[j] = listing[k]
    BY <1>3, <2>1
  <2>3. j \in Nat /\ k \in Nat /\ search.serverOffset \in Nat
    BY <1>2, <1>3, LenProperties DEF Searches
  <2>4. k > search.serverOffset
    BY <2>1, <2>2, <2>3
  <2>5. QED
    BY <2>1, <2>2, <2>4 DEF Ahead
<1>10. ScanInv'
  BY <1>1, <1>5, <1>6, <1>9 DEF SearchInv, ScanInv
<1>11. SearchIsRight' /\ PagesFit'
  BY <1>1 DEF SearchIsRight, SearchCovers, SearchSound, PagesFit, Scan
<1>12. QED
  BY <1>7, <1>8, <1>10, <1>11 DEF SearchInv

LEMMA AppearKeeps ==
  ASSUME SearchInv, NEW d \in Members, NEW i \in 1 .. Len(listing) + 1, Appear(d, i)
  PROVE  SearchInv'
<1> PICK r : r = InsertAt(listing, i, d)
  OBVIOUS
<1>1. /\ search.pc = "scan" /\ search' = search /\ listing' = r /\ d \notin Range(listing)
      /\ watched' = [watched EXCEPT !.come = @ \union {d}]
  BY DEF Appear, Change
<1>2. listing \in Seq(Members) /\ IsInjective(listing) /\ search \in Searches
      /\ watched \in [first : Seq(Members), gone : SUBSET Members, come : SUBSET Members]
  BY <1>1 DEF SearchInv, SearchTyped, NoSearch
<1>3. /\ r \in Seq(Members) /\ Range(r) = Range(listing) \union {d} /\ IsInjective(r)
      /\ \A k \in DOMAIN listing : \E j \in DOMAIN r : j >= k /\ r[j] = listing[k]
  BY <1>1, <1>2, InsertedIn
<1>5. /\ watched'.first = watched.first /\ watched'.gone = watched.gone
      /\ watched'.come = watched.come \union {d}
      /\ watched' \in [first : Seq(Members), gone : SUBSET Members, come : SUBSET Members]
  BY <1>1, <1>2
<1>6. watched'.come # {} /\ watched' # Quiet(listing')
  <2>1. watched'.come # {}
    BY <1>5
  <2>2. Quiet(r).come = {}
    BY QuietIs
  <2>3. watched' # Quiet(r)
    BY <2>1, <2>2
  <2>4. QED
    BY <1>1, <2>1, <2>3
<1>7. SearchTyped'
  BY <1>1, <1>2, <1>3, <1>5 DEF SearchTyped
<1>8. ListInv'
  BY <1>1, <1>3, <1>5 DEF SearchInv, ListInv
<1>9. ASSUME NEW e, Ahead(e) PROVE Ahead(e)'
  <2>1. PICK k \in DOMAIN listing : k > search.serverOffset /\ listing[k] = e
    BY <1>9 DEF Ahead
  <2>2. PICK j \in DOMAIN r : j >= k /\ r[j] = listing[k]
    BY <1>3, <2>1
  <2>3. j \in Nat /\ k \in Nat /\ search.serverOffset \in Nat
    BY <1>2, <1>3, LenProperties DEF Searches
  <2>4. j > search.serverOffset
    BY <2>1, <2>2, <2>3
  <2>5. QED
    BY <1>1, <2>1, <2>2, <2>4 DEF Ahead
<1>10. ScanInv'
  BY <1>1, <1>5, <1>6, <1>9 DEF SearchInv, ScanInv
<1>11. SearchIsRight' /\ PagesFit'
  BY <1>1 DEF SearchIsRight, SearchCovers, SearchSound, PagesFit, Scan
<1>12. QED
  BY <1>7, <1>8, <1>10, <1>11 DEF SearchInv

LEMMA LaterKeeps ==
  ASSUME Later
  PROVE  SearchInv'
<1>1. PICK listed \in SUBSET Members : listing' = Only(Drafts, listed)
  BY DEF Later, Listings, Members
<1>2. search' = NoSearch /\ watched' = Quiet(listing') /\ search'.pc = "idle"
  BY DEF Later, NoSearch
<1>3. listing' \in Seq(Members) /\ IsInjective(listing')
  BY <1>1, BoundsHold, OnlyFacts DEF ListMembers
<1>4. /\ watched'.first = listing' /\ watched'.gone = {} /\ watched'.come = {}
      /\ watched' \in [first : Seq(Members), gone : SUBSET Members, come : SUBSET Members]
  BY <1>2, <1>3 DEF Quiet
<1>5. SearchTyped'
  BY <1>2, <1>3, <1>4 DEF SearchTyped
<1>6. ListInv'
  BY <1>4 DEF ListInv
<1>7. ScanInv' /\ SearchIsRight' /\ PagesFit'
  BY <1>2 DEF ScanInv, SearchIsRight, SearchCovers, SearchSound, PagesFit, Scan
<1>8. QED
  BY <1>5, <1>6, <1>7 DEF SearchInv

LEMMA NothingYet ==
  ASSUME NEW list \in Seq(Members)
  PROVE  Only(SubSeq(list, 1, 0), AllWords) = <<>>
<1> PICK t : t = SubSeq(list, 1, 0)
  OBVIOUS
<1>1. t \in Seq(Members) /\ Len(t) = 0
  <2>1. t = <<>>
    OBVIOUS
  <2>2. QED
    BY <2>1
<1>2. PICK f : Keeps(f, Members, t, AllWords) /\ Only(t, AllWords) = f[Len(t)]
  BY <1>1, OnlyIsRun
<1>3. f[0] = <<>>
  BY <1>2 DEF Keeps
<1>4. QED
  BY <1>1, <1>2, <1>3

LEMMA BeginKeeps ==
  ASSUME SearchInv, NEW words \in {"one", "several"}, NEW offset \in 0 .. MaxOffset,
         Begin(words, offset)
  PROVE  SearchInv'
<1>1. /\ search' = [pc |-> "scan", words |-> words, offset |-> offset, scanned |-> 0,
                serverOffset |-> 0, matches |-> <<>>, items |-> <<>>,
                total |-> 0, truncated |-> FALSE]
      /\ listing' = listing /\ watched' = watched
  BY DEF Begin
<1>2. offset \in Nat /\ <<>> \in Seq(Members)
  BY SearchBounds
<1>3. search' \in Searches
  BY <1>1, <1>2 DEF Searches
<1>4. SearchTyped'
  BY <1>1, <1>3 DEF SearchInv, SearchTyped
<1>5. ListInv'
  BY <1>1 DEF SearchInv, ListInv
<1>6. ScanInv'
  <2>1. search'.scanned = 0 /\ search'.serverOffset = 0 /\ 0 < ScanCap /\ search'.matches = <<>>
    BY <1>1, BoundsHold DEF ListMembers
  <2>2. Range(<<>>) = {} /\ IsInjective(<<>>)
    BY DEF Range, IsInjective
  <2>3. ASSUME watched.gone = {}, NEW d \in Range(watched.first) PROVE Ahead(d)'
    <3>1. d \in Range(listing) /\ listing \in Seq(Members)
      BY <2>3 DEF SearchInv, ListInv, SearchTyped
    <3>2. PICK i \in DOMAIN listing : listing[i] = d /\ i > 0
      BY <3>1, LenProperties DEF Range
    <3>3. QED
      BY <1>1, <2>1, <3>2 DEF Ahead
  <2>4. 0 <= Len(listing) /\ Only(SubSeq(listing, 1, 0), AllWords) = <<>>
    BY NothingYet, LenProperties DEF SearchInv, SearchTyped
  <2>5. QED
    BY <1>1, <2>1, <2>2, <2>3, <2>4 DEF ScanInv
<1>7. SearchIsRight' /\ PagesFit'
  BY <1>1 DEF SearchIsRight, SearchCovers, SearchSound, PagesFit, Scan
<1>8. QED
  BY <1>4, <1>5, <1>6, <1>7 DEF SearchInv

(* A search that does not scan is right as long as it keeps what it found. *)
LEMMA AnsweredKeeps ==
  ASSUME SearchInv, UNCHANGED <<listing, watched>>, search \in Searches, search' \in Searches,
         search'.pc # "scan", search' = [search EXCEPT !.pc = search'.pc],
         search'.pc \in {"resolve", "done"} => search.pc \in {"resolve", "done"}
  PROVE  SearchInv'
<1>1. /\ search'.words = search.words /\ search'.matches = search.matches
      /\ search'.truncated = search.truncated /\ search'.total = search.total
      /\ search'.items = search.items /\ search'.offset = search.offset
  BY DEF Searches
<1>2. SearchTyped' /\ ListInv'
  BY DEF SearchInv, SearchTyped, ListInv
<1>3. ScanInv'
  BY DEF ScanInv
<1>4. Scan' => Scan
  BY <1>1 DEF Scan
<1>5. SearchIsRight'
  BY <1>1, <1>4 DEF SearchInv, SearchIsRight, SearchCovers, SearchSound
<1>6. PagesFit'
  BY <1>1, <1>4 DEF SearchInv, PagesFit
<1>7. QED
  BY <1>2, <1>3, <1>5, <1>6 DEF SearchInv

LEMMA PageIsSlice ==
  ASSUME NEW list \in Seq(Members), NEW o \in Nat, NEW limit \in Nat
  PROVE  \E p \in Nat : /\ p <= Len(list) /\ p <= o + limit
                        /\ p = Len(list) \/ p = o + limit
                        /\ SubSeq(list, o + 1, IF o + limit < Len(list) THEN o + limit ELSE Len(list))
                             = Slice(list, o, p)
BY LenProperties DEF Slice

LEMMA OneWordKeeps ==
  ASSUME SearchInv, SearchOneWord
  PROVE  SearchInv'
<1>1. search \in Searches /\ search.words = "one" /\ listing \in Seq(Members)
  BY DEF SearchInv, SearchTyped, NoSearch, SearchOneWord
<1> PICK page : page = Page(search.offset, Limit)
  OBVIOUS
<1>2. page \in Seq(Members)
  <2>1. search.offset \in Nat /\ Limit \in Nat
    BY <1>1, BoundsHold DEF Searches, ListMembers
  <2>2. PICK p \in Nat : p <= Len(listing) /\ page = Slice(listing, search.offset, p)
    BY <1>1, <2>1, PageIsSlice DEF Page
  <2>3. QED
    BY <1>1, <2>1, <2>2, SliceIsCut
<1>3. /\ search' = [search EXCEPT !.total = Len(listing), !.pc = "resolve", !.items = page]
      /\ listing' = listing /\ watched' = watched
  BY DEF SearchOneWord, Resolve
<1>4. Len(listing) \in Nat
  BY <1>1, LenProperties
<1>5. search' \in Searches /\ search'.words = "one"
  BY <1>1, <1>2, <1>3, <1>4 DEF Searches
<1>6. SearchTyped' /\ ListInv'
  BY <1>3, <1>5 DEF SearchInv, SearchTyped, ListInv
<1>7. ScanInv' /\ SearchIsRight' /\ PagesFit'
  BY <1>5 DEF ScanInv, SearchIsRight, SearchCovers, SearchSound, PagesFit, Scan
<1>8. QED
  BY <1>6, <1>7 DEF SearchInv
-----------------------------------------------------------------------------
(***************************************************************************)
(* One turn of the loop over the pages.                                    *)
(***************************************************************************)

LEMMA FirstOfSlice ==
  ASSUME NEW D, NEW s \in Seq(D), NEW o \in Nat, NEW p \in Nat, o <= p, p <= Len(s),
         NEW l \in Nat, l = p - o, NEW t \in Nat, t <= l,
         NEW page, page = Slice(s, o, p), NEW taken, taken = Slice(page, 0, t),
         NEW q \in Nat, q = o + t
  PROVE  taken = Slice(s, o, q)
<1> PICK n \in Nat : n = Len(s) /\ p <= n
  BY LenProperties
<1> PICK z \in Nat : z = 0 /\ z <= t
  OBVIOUS
<1> PICK c : c = Slice(s, o, q)
  OBVIOUS
<1>1. page \in Seq(D) /\ Cut(page, s, o, p)
  BY SliceIsCut
<1>2. Len(page) = l
  BY <1>1 DEF Cut
<1>3. taken \in Seq(D) /\ Cut(taken, page, z, t)
  <2>1. taken = Slice(page, z, t)
    OBVIOUS
  <2>2. QED
    BY <1>1, <1>2, <2>1, SliceIsCut
<1>4. c \in Seq(D) /\ Cut(c, s, o, q)
  <2>1. o <= q /\ q <= Len(s)
    OBVIOUS
  <2>2. QED
    BY <2>1, SliceIsCut
<1>5. Len(taken) = t /\ Len(c) = t
  BY <1>3, <1>4 DEF Cut
<1>6. ASSUME NEW j \in 1 .. t PROVE taken[j] = c[j]
  <2>1. taken[j] = page[j]
    BY <1>3 DEF Cut
  <2>2. j \in 1 .. p - o /\ j \in 1 .. q - o
    OBVIOUS
  <2>3. page[j] = s[o + j]
    BY <1>1, <2>2 DEF Cut
  <2>4. c[j] = s[o + j]
    BY <1>4, <2>2 DEF Cut
  <2>5. QED
    BY <2>1, <2>3, <2>4
<1>7. QED
  BY <1>3, <1>4, <1>5, <1>6, SeqEqual

(* What a turn takes: the next objects of the list, up to the page's end,  *)
(* the list's, and the cap.                                                *)
Taken(taken, list, o, t) ==
  /\ taken \in Seq(Members) /\ Len(taken) = t
  /\ Range(taken) = {list[i] : i \in o + 1 .. o + t}
  /\ o + 1 .. o + t \subseteq DOMAIN list
  /\ IsInjective(taken)

NextPage(list, o, size) ==
  SubSeq(list, o + 1, IF o + size < Len(list) THEN o + size ELSE Len(list))

LEMMA TurnTakes ==
  ASSUME NEW list \in Seq(Members), IsInjective(list), NEW n \in Nat, n = Len(list),
         NEW o \in Nat, NEW cap \in Nat, o < cap, NEW size \in Nat, size > 0,
         NEW page, page = NextPage(list, o, size),
         NEW l, l = Len(page), NEW t, t = Smaller(l, cap - o),
         NEW taken, taken = Slice(page, 0, t)
  PROVE  /\ l \in Nat /\ t \in Nat /\ t <= l /\ l <= size /\ t <= cap - o
         /\ t = l \/ t = cap - o
         /\ l < size => o + l >= n
         /\ Taken(taken, list, o, t)
         /\ o <= n => o + l <= n /\ taken = Slice(list, o, o + t)
<1>1. PICK p \in Nat : p <= n /\ p <= o + size /\ (p = n \/ p = o + size) /\ page = Slice(list, o, p)
  <2>1. \E p \in Nat : /\ p <= n /\ p <= o + size
                       /\ p = n \/ p = o + size
                       /\ p = IF o + size < n THEN o + size ELSE n
    OBVIOUS
  <2>2. PICK p \in Nat : /\ p <= n /\ p <= o + size
                         /\ p = n \/ p = o + size
                         /\ p = IF o + size < n THEN o + size ELSE n
    BY <2>1
  <2>3. page = Slice(list, o, p)
    BY <2>2 DEF Slice, NextPage
  <2>4. QED
    BY <2>2, <2>3
<1>2. page \in Seq(Members) /\ l = (IF o <= p THEN p - o ELSE 0) /\ IsInjective(page)
  <2>1. p <= Len(list)
    BY <1>1
  <2>2. page \in Seq(Members) /\ Cut(page, list, o, p)
    BY <1>1, <2>1, SliceIsCut
  <2>3. QED
    BY <2>2 DEF Cut
<1>3. l \in Nat /\ l <= size /\ (l < size => o + l >= n) /\ (o <= n => o + l <= n)
  BY <1>1, <1>2
<1>4. t \in Nat /\ t <= l /\ t <= cap - o /\ (t = l \/ t = cap - o)
  BY <1>3 DEF Smaller
<1>5. taken = Slice(page, 0, t)
  OBVIOUS
<1>6. taken \in Seq(Members) /\ Len(taken) = t /\ IsInjective(taken)
  <2>1. PICK z \in Nat : z = 0 /\ z <= t
    BY <1>4
  <2>2. taken = Slice(page, z, t) /\ t <= Len(page) /\ t \in Nat
    BY <1>4, <1>5, <2>1
  <2>3. taken \in Seq(Members) /\ Cut(taken, page, z, t)
    BY <1>2, <2>2, SliceIsCut
  <2>4. QED
    BY <1>2, <1>4, <2>1, <2>3 DEF Cut
<1>7. CASE o <= p
  <2>1. PICK q \in Nat : q = o + t /\ q <= p /\ o <= q
    BY <1>2, <1>4, <1>7
  <2>2. taken = Slice(list, o, q)
    <3>1. p <= Len(list) /\ l = p - o
      BY <1>1, <1>2, <1>7
    <3>2. QED
      BY <1>1, <1>3, <1>4, <1>5, <1>7, <2>1, <3>1, FirstOfSlice
  <2>3. Cut(taken, list, o, q)
    <3>1. q <= Len(list)
      BY <1>1, <2>1
    <3>2. QED
      BY <2>1, <2>2, <3>1, SliceIsCut
  <2>4. Range(taken) = {list[i] : i \in o + 1 .. q}
    BY <2>1, <2>3 DEF Cut
  <2>5. o + 1 .. q \subseteq DOMAIN list
    BY <1>1, <2>1, LenProperties
  <2>6. Taken(taken, list, o, t)
    BY <1>6, <2>1, <2>4, <2>5 DEF Taken
  <2>7. QED
    BY <1>3, <1>4, <2>1, <2>2, <2>6
<1>8. CASE ~(o <= p)
  <2>1. t = 0 /\ ~(o <= n)
    BY <1>1, <1>2, <1>4, <1>8
  <2>2. DOMAIN taken = {} /\ o + 1 .. o + t = {}
    BY <1>6, <2>1, LenProperties
  <2>3. Range(taken) = {list[i] : i \in o + 1 .. o + t}
    BY <2>2 DEF Range
  <2>4. Taken(taken, list, o, t)
    BY <1>6, <2>2, <2>3 DEF Taken
  <2>5. QED
    BY <1>3, <1>4, <2>1, <2>4
<1>9. QED
  BY <1>7, <1>8

(* The state after a turn: m is what was found so far.                     *)
Turned(m, k, c) == [search EXCEPT !.scanned = k, !.matches = m, !.serverOffset = c]

AtEnd(l, c, e) == l < PageSize \/ c >= Len(listing) \/ e >= ScanCap

Ends(s, m, l, c, e) ==
  /\ AtEnd(l, c, e)
  /\ search' = [s EXCEPT !.total = Len(m), !.truncated = Len(listing) > e,
                         !.pc = "resolve", !.items = ResultPage(s)]

GoesOn(s, l, c, e) == ~AtEnd(l, c, e) /\ search' = s

LEMMA TurnIs ==
  ASSUME SearchInv, ScanPage,
         NEW o, o = search.serverOffset, NEW page, page = NextPage(listing, o, PageSize),
         NEW l, l = Len(page), NEW t, t = Smaller(l, ScanCap - o),
         NEW taken, taken = Slice(page, 0, t), taken \in Seq(Members), Len(taken) = t,
         NEW m, m = Joined(search.matches, Only(taken, AllWords)),
         NEW e, e = o + t, NEW c, c = o + l, NEW s, s = Turned(m, e, c)
  PROVE  UNCHANGED <<listing, watched>> /\ (Ends(s, m, l, c, e) \/ GoesOn(s, l, c, e))
<1>1. search.pc = "scan" /\ search.words = "several" /\ search \in Searches
  BY DEF ScanPage, SearchInv, SearchTyped, NoSearch
<1>2. search.scanned = o
  BY <1>1 DEF SearchInv, ScanInv
<1>3. page = Page(search.serverOffset, PageSize)
  BY DEF Page, NextPage
<1>4. s = Scanned(search, page)
  <2>1. taken = SubSeq(page, 1, Smaller(Len(page), ScanCap - search.scanned))
    <3>1. 0 + 1 = 1
      OBVIOUS
    <3>2. QED
      BY <1>2, <3>1 DEF Slice
  <2>2. m = search.matches \o Only(taken, AllWords)
    BY DEF Joined
  <2>3. Scanned(search, page) =
          [search EXCEPT !.scanned = search.scanned + t, !.matches = search.matches \o Only(taken, AllWords),
                         !.serverOffset = search.serverOffset + l]
    <3> HIDE DEF Only
    <3>1. QED
      BY <2>1, <1>1 DEF Scanned, Searches
  <2>4. QED
    BY <1>2, <2>2, <2>3 DEF Turned
<1>5. /\ s.serverOffset = c /\ s.scanned = e /\ s.matches = m
  BY <1>1 DEF Turned, Searches
<1>6. Exhausted(s, page) <=> AtEnd(l, c, e)
  BY <1>5 DEF Exhausted, AtEnd
<1>7. UNCHANGED <<listing, watched>>
  BY DEF ScanPage
<1>8. CASE Exhausted(s, page)
  <2>1. Resolve([s EXCEPT !.total = Len(s.matches), !.truncated = Len(listing) > s.scanned],
                ResultPage(s))
    BY <1>3, <1>4, <1>8 DEF ScanPage
  <2>2. search' = [[s EXCEPT !.total = Len(s.matches), !.truncated = Len(listing) > s.scanned]
                     EXCEPT !.pc = "resolve", !.items = ResultPage(s)]
    BY <2>1 DEF Resolve
  <2>3. QED
    BY <1>5, <1>6, <1>7, <1>8, <2>2 DEF Ends
<1>9. CASE ~Exhausted(s, page)
  <2>1. search' = s
    BY <1>3, <1>4, <1>9 DEF ScanPage
  <2>2. QED
    BY <1>6, <1>7, <1>9, <2>1 DEF GoesOn
<1>10. QED
  BY <1>8, <1>9

(* The result page: what lies behind the offset, up to the limit.          *)
Rows(all, offset) ==
  [i \in 1 .. Cardinality({k \in DOMAIN all : k > offset /\ k <= offset + Limit})
     |-> all[offset + i]]

LEMMA ItemsFit ==
  ASSUME NEW all \in Seq(Members), NEW offset \in Nat, NEW s,
         s.matches = all, s.offset = offset, Limit \in Nat, NEW r, r = ResultPage(s)
  PROVE  r \in Seq(Members) /\ r = Rows(all, offset)
<1> PICK n \in Nat : n = Len(all) /\ DOMAIN all = 1 .. n /\ \A i \in 1 .. n : all[i] \in Members
  BY LenProperties, ElementOfSeq
<1> DEFINE On == {k \in DOMAIN all : k > offset /\ k <= offset + Limit}
<1> PICK start \in Nat : start = Smaller(offset, n) /\ start <= n
  BY DEF Smaller
<1> PICK end \in Nat : end = Smaller(start + Limit, n) /\ end <= n /\ start <= end
  BY DEF Smaller
<1>1. ResultPage(s) = SubSeq(all, start + 1, end)
  BY DEF ResultPage
<1>2. r \in Seq(Members) /\ Cut(r, all, start, end)
  <2>1. r = Slice(all, start, end)
    BY <1>1 DEF Slice
  <2>2. QED
    BY <2>1, SliceIsCut
<1>3. Len(r) = end - start /\ \A j \in 1 .. end - start : r[j] = all[start + j]
  BY <1>2 DEF Cut
<1>4. Cardinality(On) = end - start
  <2>1. On = start + 1 .. end
    BY DEF Smaller
  <2>2. PICK a \in Int : a = start + 1
    OBVIOUS
  <2> PICK b \in Int : b = end
    OBVIOUS
  <2>3. Cardinality(a .. b) = IF a > b THEN 0 ELSE b - a + 1
    BY FS_Interval
  <2>4. Cardinality(On) = Cardinality(a .. b)
    BY <2>1, <2>2
  <2>5. QED
    BY <2>2, <2>3, <2>4
<1>5. \A j \in 1 .. end - start : all[start + j] = all[offset + j]
  BY DEF Smaller
<1>6. r = [j \in 1 .. end - start |-> r[j]]
  <2>1. DOMAIN r = 1 .. end - start
    BY <1>2, <1>3, LenProperties
  <2>2. QED
    BY <1>2, <2>1
<1>7. r = [j \in 1 .. end - start |-> all[offset + j]]
  BY <1>3, <1>5, <1>6
<1>8. QED
  BY <1>2, <1>4, <1>7 DEF Rows

(* What the loop has after a turn that took the list up to its e-th        *)
(* element.                                                                *)
Behind(d, e) == \E i \in DOMAIN listing : i > e /\ listing[i] = d

Found(m, e) ==
  /\ m \in Seq(Members)
  /\ Range(m) \subseteq AllWords \intersect (Range(watched.first) \union watched.come)
  /\ watched.gone = {} =>
       \A d \in AllWords \intersect Range(watched.first) : d \in Range(m) \/ Behind(d, e)
  /\ watched.come = {} => IsInjective(m) /\ \A d \in Range(m) : ~Behind(d, e)

LEMMA TurnFinds ==
  ASSUME SearchInv, NEW o \in Nat, NEW t \in Nat, NEW taken, Taken(taken, listing, o, t),
         NEW old, NEW found, found = Only(taken, AllWords),
         Found(old, o), NEW m, m = Joined(old, found), NEW e \in Nat, e = o + t
  PROVE  Found(m, e)
<1>1. listing \in Seq(Members) /\ IsInjective(listing) /\ ListInv
  BY DEF SearchInv, SearchTyped
<1>2. /\ taken \in Seq(Members) /\ IsInjective(taken)
      /\ Range(taken) = {listing[i] : i \in o + 1 .. o + t}
      /\ o + 1 .. o + t \subseteq DOMAIN listing
  BY DEF Taken
<1>3. found \in Seq(Members) /\ Range(found) = AllWords \intersect Range(taken) /\ IsInjective(found)
  BY <1>2, OnlyFacts
<1>4. DOMAIN listing \subseteq Nat
  BY <1>1, LenProperties
<1>5. \A d \in Range(taken) : Behind(d, o) /\ d \in Range(listing)
  <2> TAKE d \in Range(taken)
  <2>1. PICK i \in o + 1 .. o + t : listing[i] = d
    BY <1>2
  <2>2. i \in DOMAIN listing /\ i > o
    BY <1>2
  <2>3. QED
    BY <2>1, <2>2 DEF Behind, Range
<1>6. \A d \in Range(taken) : ~Behind(d, e)
  <2> SUFFICES ASSUME NEW d \in Range(taken), Behind(d, e) PROVE FALSE
    OBVIOUS
  <2>1. PICK i \in o + 1 .. o + t : listing[i] = d
    BY <1>2
  <2>2. PICK j \in DOMAIN listing : j > e /\ listing[j] = d
    BY DEF Behind
  <2>3. i = j
    BY <1>1, <1>2, <2>1, <2>2 DEF IsInjective
  <2>4. QED
    BY <2>2, <2>3
<1>7. \A d : Behind(d, e) => Behind(d, o)
  <2> SUFFICES ASSUME NEW d, Behind(d, e) PROVE Behind(d, o)
    OBVIOUS
  <2>1. PICK j \in DOMAIN listing : j > e /\ listing[j] = d
    BY DEF Behind
  <2>2. j > o
    BY <1>4, <2>1
  <2>3. QED
    BY <2>1, <2>2 DEF Behind
<1>8. \A d : Behind(d, o) => d \in Range(taken) \/ Behind(d, e)
  <2> SUFFICES ASSUME NEW d, Behind(d, o), ~Behind(d, e) PROVE d \in Range(taken)
    OBVIOUS
  <2>1. PICK j \in DOMAIN listing : j > o /\ listing[j] = d
    BY DEF Behind
  <2>2. ~(j > e) /\ j \in Nat
    BY <1>4, <2>1 DEF Behind
  <2>3. j \in o + 1 .. o + t
    BY <2>1, <2>2
  <2>4. QED
    BY <1>2, <2>1, <2>3
<1>9. /\ m \in Seq(Members) /\ Range(m) = Range(old) \union Range(found)
      /\ IsInjective(old) /\ IsInjective(found) /\ Range(old) \intersect Range(found) = {} =>
           IsInjective(m)
  BY <1>3, ConcatFacts DEF Found
<1>10. Range(m) \subseteq AllWords \intersect (Range(watched.first) \union watched.come)
  BY <1>1, <1>3, <1>5, <1>9 DEF Found, ListInv
<1>11. ASSUME watched.gone = {}, NEW d \in AllWords \intersect Range(watched.first)
       PROVE  d \in Range(m) \/ Behind(d, e)
  <2>1. d \in Range(old) \/ Behind(d, o)
    BY <1>11 DEF Found
  <2>2. QED
    BY <1>3, <1>8, <1>9, <2>1
<1>12. ASSUME watched.come = {}
       PROVE  IsInjective(m) /\ \A d \in Range(m) : ~Behind(d, e)
  <2>1. IsInjective(old) /\ \A d \in Range(old) : ~Behind(d, o)
    BY <1>12 DEF Found
  <2>2. Range(old) \intersect Range(found) = {}
    BY <1>3, <1>5, <2>1
  <2>3. QED
    BY <1>3, <1>6, <1>7, <1>9, <2>1, <2>2
<1>13. QED
  BY <1>9, <1>10, <1>11, <1>12 DEF Found

(* PagesFit, of a result.                                                  *)
Fits(truncated, total, items, offset, list) ==
  LET all == Only(SubSeq(list, 1, Smaller(Len(list), ScanCap)), AllWords)
  IN  /\ truncated <=> Len(list) > ScanCap
      /\ total = Len(all)
      /\ items = Rows(all, offset)

AnswerOf(s, k, b, r) ==
  [s EXCEPT !.total = k, !.truncated = b, !.pc = "resolve", !.items = r]

IsAnswer(t, s, k, b, r) ==
  /\ t.pc = "resolve" /\ t.words = s.words /\ t.matches = s.matches
  /\ t.total = k /\ t.truncated = b /\ t.items = r
  /\ t.offset = s.offset /\ t \in Searches

LEMMA AnsweredIs ==
  ASSUME NEW s \in Searches, NEW k \in Nat, NEW b \in BOOLEAN, NEW r \in Seq(Members), NEW t,
         t = AnswerOf(s, k, b, r)
  PROVE  IsAnswer(t, s, k, b, r)
BY DEF Searches, AnswerOf, IsAnswer

LEMMA ScanPageKeeps ==
  ASSUME SearchInv, ScanPage
  PROVE  SearchInv'
<1>1. /\ search.pc = "scan" /\ search.words = "several" /\ search \in Searches
      /\ listing \in Seq(Members) /\ IsInjective(listing)
      /\ watched \in [first : Seq(Members), gone : SUBSET Members, come : SUBSET Members]
  BY DEF ScanPage, SearchInv, SearchTyped, NoSearch
<1>2. ListMembers
  BY BoundsHold
<1> PICK o \in Nat : o = search.serverOffset /\ o = search.scanned /\ o < ScanCap
  BY <1>1 DEF SearchInv, ScanInv, Searches
<1> PICK n \in Nat : n = Len(listing)
  BY <1>1, LenProperties
<1> PICK old : old = search.matches
  OBVIOUS
<1> PICK page : page = NextPage(listing, o, PageSize)
  OBVIOUS
<1> PICK l : l = Len(page)
  OBVIOUS
<1> PICK t : t = Smaller(l, ScanCap - o)
  OBVIOUS
<1> PICK taken : taken = Slice(page, 0, t)
  OBVIOUS
<1> PICK found : found = Only(taken, AllWords)
  OBVIOUS
<1> PICK m : m = Joined(old, found)
  OBVIOUS
<1>3. /\ l \in Nat /\ t \in Nat /\ t <= l /\ l <= PageSize /\ t <= ScanCap - o
      /\ t = l \/ t = ScanCap - o
      /\ l < PageSize => o + l >= n
      /\ Taken(taken, listing, o, t)
      /\ o <= n => o + l <= n /\ taken = Slice(listing, o, o + t)
  <2>1. PageSize \in Nat /\ PageSize > 0 /\ ScanCap \in Nat
    BY <1>2 DEF ListMembers
  <2>2. QED
    BY <1>1, <2>1, TurnTakes
<1> PICK e \in Nat, c \in Nat : e = o + t /\ c = o + l
  BY <1>3
<1> PICK s : s = Turned(m, e, c)
  OBVIOUS
<1>4. taken \in Seq(Members) /\ Len(taken) = t
  BY <1>3 DEF Taken
<1>5. UNCHANGED <<listing, watched>> /\ (Ends(s, m, l, c, e) \/ GoesOn(s, l, c, e))
  BY <1>4, TurnIs
<1>6. Found(old, o)
  <2>1. old \in Seq(Members)
    BY <1>1 DEF Searches
  <2>2. \A d : Behind(d, o) <=> Ahead(d)
    BY DEF Behind, Ahead
  <2>3. QED
    BY <1>1, <2>1, <2>2 DEF SearchInv, ScanInv, Found
<1>7. Found(m, e)
  BY <1>3, <1>6, TurnFinds
<1>8. m \in Seq(Members) /\ Len(m) \in Nat
  BY <1>7, LenProperties DEF Found
<1>9. /\ s \in Searches /\ s.pc = "scan" /\ s.words = "several" /\ s.matches = m /\ s.scanned = e
      /\ s.serverOffset = c /\ s.offset = search.offset /\ s.offset \in Nat
  <2>1. s = [search EXCEPT !.scanned = e, !.matches = m, !.serverOffset = c]
    BY DEF Turned
  <2>2. QED
    BY <1>1, <1>8, <2>1 DEF Searches
<1>10. ASSUME watched = Quiet(listing), o <= n
       PROVE  e <= n /\ m = Only(SubSeq(listing, 1, e), AllWords)
  <2>1. e <= n
    BY <1>3, <1>10
  <2>2. old = Only(SubSeq(listing, 1, o), AllWords)
    BY <1>1, <1>10 DEF SearchInv, ScanInv
  <2>3. 0 + 1 = 1
    OBVIOUS
  <2>4. SubSeq(listing, 1, o) = Slice(listing, 0, o) /\ SubSeq(listing, 1, e) = Slice(listing, 0, e)
    BY <2>3 DEF Slice
  <2>5. taken = Slice(listing, o, e)
    BY <1>3, <1>10
  <2> PICK before : before = Slice(listing, 0, o)
    OBVIOUS
  <2>6. before \in Seq(Members)
    <3>1. PICK z \in Nat : z = 0 /\ before = Slice(listing, z, o) /\ o <= Len(listing)
      BY <1>10
    <3>2. QED
      BY <1>1, <3>1, SliceIsCut
  <2>7. Only(Joined(before, taken), AllWords) = Joined(Only(before, AllWords), Only(taken, AllWords))
    BY <1>4, <2>6, OnlyConcat
  <2>8. Joined(before, taken) = Slice(listing, 0, e)
    <3>1. o <= e /\ e <= Len(listing)
      BY <1>3, <2>1
    <3>2. QED
      BY <1>1, <2>5, <3>1, SliceJoined
  <2>9. QED
    BY <2>1, <2>2, <2>4, <2>7, <2>8
<1>11. watched = Quiet(listing) => o <= n
  BY <1>1 DEF SearchInv, ScanInv
<1>12. listing' = listing /\ watched' = watched
  BY <1>5
<1>13. ListInv'
  BY <1>12 DEF SearchInv, ListInv
<1>14. CASE Ends(s, m, l, c, e)
  <2> PICK r : r = ResultPage(s)
    OBVIOUS
  <2>0. /\ l < PageSize \/ c >= n \/ e >= ScanCap
        /\ search' = [s EXCEPT !.total = Len(m), !.truncated = n > e,
                               !.pc = "resolve", !.items = r]
    BY <1>14 DEF Ends, AtEnd
  <2>1. r \in Seq(Members) /\ r = Rows(m, s.offset)
    <3>1. Limit \in Nat
      BY <1>2 DEF ListMembers
    <3>2. PICK offset \in Nat : offset = s.offset
      BY <1>9
    <3>3. QED
      BY <1>8, <1>9, <3>1, <3>2, ItemsFit
  <2>2. /\ search'.pc = "resolve" /\ search'.words = "several" /\ search'.matches = m
        /\ search'.total = Len(m) /\ search'.truncated = (n > e) /\ search'.items = r
        /\ search'.offset = s.offset /\ search' \in Searches
    <3>0. PICK b \in BOOLEAN : b = (n > e)
      <4>1. (n > e) = TRUE \/ (n > e) = FALSE
        OBVIOUS
      <4>2. QED
        BY <4>1, Zenon
    <3>1. PICK k \in Nat : k = Len(m) /\ b = (n > e)
      BY <1>8, <3>0
    <3>2. search' = AnswerOf(s, k, b, r)
      BY <2>0, <3>1 DEF AnswerOf
    <3>3. s \in Searches /\ r \in Seq(Members)
      BY <1>9, <2>1
    <3>4. PICK u : u = search'
      OBVIOUS
    <3>5. IsAnswer(u, s, k, b, r)
      BY ONLY k \in Nat, b \in BOOLEAN, <3>2, <3>3, <3>4, AnsweredIs
    <3>6. QED
      BY <1>9, <3>1, <3>4, <3>5 DEF IsAnswer
  <2>3. SearchTyped'
    BY <1>1, <1>12, <2>2 DEF SearchTyped
  <2>4. ScanInv'
    BY <2>2 DEF ScanInv
  <2>5. SearchCovers'
    <3> SUFFICES ASSUME ~(n > e), watched.gone = {},
                        NEW d \in AllWords \intersect Range(watched.first)
                 PROVE  d \in Range(m)
      BY <1>12, <2>2 DEF SearchCovers
    <3>1. d \in Range(m) \/ Behind(d, e)
      BY <1>7 DEF Found
    <3>2. ~Behind(d, e)
      BY <1>1, LenProperties DEF Behind
    <3>3. QED
      BY <3>1, <3>2
  <2>6. SearchSound'
    BY <1>7, <1>12, <2>2 DEF SearchSound, Found
  <2>7. PagesFit'
    <3> SUFFICES ASSUME watched = Quiet(listing) PROVE Fits(n > e, Len(m), r, s.offset, listing)
      <4>1. PagesFit' <=> (Scan' /\ watched' = Quiet(listing') =>
                            Fits(search'.truncated, search'.total, search'.items,
                                 search'.offset, listing'))
        BY DEF PagesFit, Fits, Rows
      <4>2. QED
        BY <1>12, <2>2, <4>1
    <3>1. e <= n /\ m = Only(SubSeq(listing, 1, e), AllWords)
      BY <1>10, <1>11
    <3>2. e = Smaller(n, ScanCap)
      <4>1. ScanCap \in Nat /\ PageSize \in Nat
        BY <1>2 DEF ListMembers
      <4>2. QED
        BY <1>3, <2>0, <3>1, <4>1 DEF Smaller
    <3>3. n > e <=> n > ScanCap
      <4>1. ScanCap \in Nat
        BY <1>2 DEF ListMembers
      <4>2. QED
        BY <3>1, <3>2, <4>1 DEF Smaller
    <3>4. QED
      BY <2>1, <3>1, <3>2, <3>3 DEF Fits
  <2>8. QED
    BY <1>13, <2>3, <2>4, <2>5, <2>6, <2>7 DEF SearchInv, SearchIsRight
<1>15. CASE GoesOn(s, l, c, e)
  <2>0. ~(l < PageSize \/ c >= n \/ e >= ScanCap) /\ search' = s
    BY <1>15 DEF GoesOn, AtEnd
  <2>1. l = PageSize /\ t = l /\ e = c /\ e < ScanCap /\ e <= n
    <3>1. ScanCap \in Nat /\ PageSize \in Nat
      BY <1>2 DEF ListMembers
    <3>2. QED
      BY <1>3, <2>0, <3>1
  <2>2. search'.pc = "scan" /\ search'.serverOffset = e /\ search'.scanned = e /\ search'.matches = m
    BY <1>9, <2>0, <2>1
  <2>3. SearchTyped'
    BY <1>1, <1>9, <1>12, <2>0 DEF SearchTyped
  <2>4. ScanInv'
    <3>1. \A d : Ahead(d)' <=> Behind(d, e)
      BY <1>12, <2>2 DEF Ahead, Behind
    <3>2. watched = Quiet(listing) => m = Only(SubSeq(listing, 1, e), AllWords)
      BY <1>10, <1>11
    <3>3. QED
      BY <1>7, <1>12, <2>1, <2>2, <3>1, <3>2 DEF ScanInv, Found
  <2>5. SearchIsRight' /\ PagesFit'
    BY <2>2 DEF SearchIsRight, SearchCovers, SearchSound, PagesFit, Scan
  <2>6. QED
    BY <1>13, <2>3, <2>4, <2>5 DEF SearchInv
<1>16. QED
  BY <1>5, <1>14, <1>15

LEMMA FailsKeeps ==
  ASSUME SearchInv, SearchFails
  PROVE  SearchInv'
<1>1. /\ search.pc = "scan" /\ search' = [search EXCEPT !.pc = "failed"]
      /\ UNCHANGED <<listing, watched>>
  BY DEF SearchFails
<1>2. search \in Searches
  BY <1>1 DEF SearchInv, SearchTyped, NoSearch
<1>3. search' \in Searches /\ search'.pc = "failed"
  BY <1>1, <1>2 DEF Searches
<1>4. search' = [search EXCEPT !.pc = search'.pc]
  BY <1>1, <1>3
<1>5. QED
  BY <1>1, <1>2, <1>3, <1>4, AnsweredKeeps

LEMMA FinishKeeps ==
  ASSUME SearchInv, Finish
  PROVE  SearchInv'
<1>1. /\ search.pc = "resolve" /\ search' = [search EXCEPT !.pc = "done"]
      /\ UNCHANGED <<listing, watched>>
  BY DEF Finish
<1>2. search \in Searches
  BY <1>1 DEF SearchInv, SearchTyped, NoSearch
<1>3. search' \in Searches /\ search'.pc = "done"
  BY <1>1, <1>2 DEF Searches
<1>4. search' = [search EXCEPT !.pc = search'.pc]
  BY <1>1, <1>3
<1>5. QED
  BY <1>1, <1>2, <1>3, <1>4, AnsweredKeeps

LEMMA QuietKeeps ==
  ASSUME SearchInv, UNCHANGED <<listing, search, watched>>
  PROVE  SearchInv'
<1>1. listing' = listing /\ search' = search /\ watched' = watched
  OBVIOUS
<1>2. SearchTyped' /\ ListInv' /\ ScanInv'
  BY <1>1 DEF SearchInv, SearchTyped, ListInv, ScanInv, Ahead
<1>3. SearchIsRight'
  BY <1>1 DEF SearchInv, SearchIsRight, SearchCovers, SearchSound, Scan
<1>4. PagesFit'
  BY <1>1 DEF SearchInv, PagesFit, Scan
<1>5. QED
  BY <1>2, <1>3, <1>4 DEF SearchInv

LEMMA SearchStarts ==
  ASSUME SearchInit
  PROVE  SearchInv
<1>1. /\ listing = Drafts /\ search = NoSearch /\ search.pc = "idle" /\ watched = Quiet(listing)
  BY DEF SearchInit, NoSearch
<1>2. listing \in Seq(Members) /\ IsInjective(listing)
  BY <1>1, BoundsHold DEF ListMembers
<1>3. /\ watched.first = listing /\ watched.gone = {} /\ watched.come = {}
      /\ watched \in [first : Seq(Members), gone : SUBSET Members, come : SUBSET Members]
  BY <1>1, <1>2 DEF Quiet
<1>4. SearchTyped
  BY <1>1, <1>2, <1>3 DEF SearchTyped
<1>5. ListInv
  BY <1>3 DEF ListInv
<1>6. ScanInv /\ SearchIsRight /\ PagesFit
  BY <1>1 DEF ScanInv, SearchIsRight, SearchCovers, SearchSound, PagesFit, Scan
<1>7. QED
  BY <1>4, <1>5, <1>6 DEF SearchInv

LEMMA SearchStepKeeps ==
  ASSUME SearchInv, SearchStep
  PROVE  SearchInv'
<1>1. CASE SearchOneWord
  BY <1>1, OneWordKeeps
<1>2. CASE ScanPage
  BY <1>2, ScanPageKeeps
<1>3. CASE SearchFails
  BY <1>3, FailsKeeps
<1>4. ASSUME NEW i \in DOMAIN lookups, Enter(i) \/ LookUp(i) PROVE SearchInv'
  <2>1. UNCHANGED <<listing, search, watched>>
    BY <1>4 DEF Enter, LookUp
  <2>2. QED
    BY <2>1, QuietKeeps
<1>5. CASE Finish
  BY <1>5, FinishKeeps
<1>6. QED
  BY <1>1, <1>2, <1>3, <1>4, <1>5 DEF SearchStep

(* The search of several words at every step, and the list the server      *)
(* changes under it (search.go:219-270, search_drafts.go:63-114).          *)
THEOREM SearchInvariance == SearchSpec => []SearchInv
<1>1. SearchInit => SearchInv
  BY SearchStarts
<1>2. ASSUME SearchInv, [SearchNext]_searchVars PROVE SearchInv'
  <2>1. ASSUME NEW i \in DOMAIN listing, Expire(i) PROVE SearchInv'
    BY <1>2, <2>1, ExpireKeeps
  <2>2. ASSUME NEW d \in Range(Drafts), NEW i \in 1 .. Len(listing) + 1, Appear(d, i)
        PROVE  SearchInv'
    <3>1. d \in Members
      BY DEF Members
    <3>2. QED
      BY <1>2, <2>2, <3>1, AppearKeeps
  <2>3. CASE Later
    BY <2>3, LaterKeeps
  <2>4. ASSUME NEW words \in {"one", "several"}, NEW offset \in 0 .. MaxOffset,
               Begin(words, offset)
        PROVE  SearchInv'
    BY <1>2, <2>4, BeginKeeps
  <2>5. CASE SearchStep
    BY <1>2, <2>5, SearchStepKeeps
  <2>6. CASE UNCHANGED searchVars
    BY <1>2, <2>6, QuietKeeps DEF searchVars
  <2>7. QED
    BY <1>2, <2>1, <2>2, <2>3, <2>4, <2>5, <2>6 DEF SearchNext
<1>3. QED
  BY <1>1, <1>2, PTL DEF SearchSpec

(* A search of several words that is not truncated misses no draft that    *)
(* was listed all the while, however the others move under its offset, and *)
(* what it returns has all the words and was listed, once unless drafts    *)
(* came in between (search.go:219-263): for every list, page size and cap, *)
(* and however often the list changes.                                     *)
THEOREM SearchFindsAll == SearchSpec => []SearchIsRight
<1>1. SearchInv => SearchIsRight
  BY DEF SearchInv
<1>2. QED
  BY <1>1, SearchInvariance, PTL

(* On a list that stays as it is the pages by offset are the matches cut   *)
(* without gap or overlap, total_count is their number up to the cap, and  *)
(* truncated says that the list is longer than the cap (search.go:         *)
(* 257-270, 90-114).                                                       *)
THEOREM PagesAreCut == SearchSpec => []PagesFit
<1>1. SearchInv => PagesFit
  BY DEF SearchInv
<1>2. QED
  BY <1>1, SearchInvariance, PTL
=============================================================================
