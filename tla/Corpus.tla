------------------------------- MODULE Corpus -------------------------------
(***************************************************************************)
(* What the ingestion pipeline promises its readers, with the pipeline     *)
(* left out: the RFC Editor issues documents, and the served database      *)
(* holds a set of documents that only ever grows and contains nothing that *)
(* was not issued with a plain-text rendition.  Some documents may be      *)
(* beyond the program that is installed.  In the end the database contains *)
(* every document issued with a text, unless the program stays unable to   *)
(* store one of those that are missing: then it need not gain any other    *)
(* either.  ingest/pipeline's build and update commands are shown to       *)
(* implement this in module Pipeline.                                      *)
(***************************************************************************)
CONSTANTS RFCs,        \* the RFC numbers that may ever be issued
          Unfetchable  \* those never issued, or issued without a .txt file

VARIABLES published,   \* numbers listed in rfc-index.xml upstream
          corpus,      \* numbers whose body the served database holds
          refused      \* numbers whose body the installed program cannot store

vars == <<published, corpus, refused>>

Available == published \ Unfetchable
Missing == Available \ corpus

Init == /\ published \in SUBSET RFCs
        /\ corpus = {}
        /\ refused \in SUBSET RFCs

\* The RFC Editor adds an entry to the index; bodies are immutable.
Publish == \E n \in RFCs \ published :
              /\ published' = published \union {n}
              /\ UNCHANGED <<corpus, refused>>

\* Another program is installed, with another parser.
Release == /\ refused' \in SUBSET RFCs
           /\ UNCHANGED <<published, corpus>>

\* The served database gains some bodies at once: one for a build, which
\* writes in place, any number for an update, which swaps files.
Ingest(S) == /\ S # {}
             /\ S \subseteq Missing \ refused
             /\ corpus' = corpus \union S
             /\ UNCHANGED <<published, refused>>

\* An ingestion that must happen, for nothing that is missing stands in its
\* way: an update is served as a whole, or not at all.
IngestInTime(n) == /\ Missing \intersect refused = {}
                   /\ \E S \in SUBSET RFCs : n \in S /\ Ingest(S)

Next == Publish \/ Release \/ \E S \in SUBSET RFCs : Ingest(S)

Safety == Init /\ [][Next]_vars

\* Every available document is eventually part of some ingestion.
Spec == Safety /\ \A n \in RFCs : WF_vars(IngestInTime(n))
=============================================================================
