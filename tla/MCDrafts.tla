------------------------------ MODULE MCDrafts ------------------------------
(* Instances of DraftTools and DraftSearch.  They share no variable - a    *)
(* search reads and writes no file of the cache - so that the run takes    *)
(* either the one or the other: each begins while the other has not.       *)
EXTENDS DraftTools, DraftSearch, TLC

CONSTANTS a, b

MCTools == a :> {"metadata"} @@ b :> {"section"}
MCDrafts5 == <<"bess", "idr", "mup", "quic", "safi">>
MCAllWords == {"bess", "mup", "safi"}
MCInRFCState == {"bess", "mup", "quic"}

Init == FetchInit /\ SearchInit
Next ==
  \/ SearchInit /\ FetchNext /\ UNCHANGED searchVars
  \/ FetchInit /\ SearchNext /\ UNCHANGED fetchVars
Spec == Init /\ [][Next]_<<fetchVars, searchVars>> /\ SearchFairness
=============================================================================
