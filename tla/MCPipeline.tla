----------------------------- MODULE MCPipeline -----------------------------
(* Instances of Pipeline for TLC.                                          *)
EXTENDS Pipeline

\* RFC 1 loses its references in version 2, RFC 2 gains one, RFC 3 keeps its.
MCRefsOf ==
    [n \in RFCs |-> [v \in 1..MaxVersion |->
        CASE n = 1 /\ v = 1 -> RFCs \ {1}
          [] n = 2 /\ v = 2 -> {1}
          [] n = 3           -> {2}
          [] OTHER           -> {}]]

\* The parser of version 1 cannot store RFC 2; that of version 2 can.
MCRefused == [v \in 1..MaxVersion |-> IF v = 1 THEN {2} ELSE {}]

\* Version 1 stores every text, version 2 refuses RFC 2.
MCRegression == [v \in 1..MaxVersion |-> IF v = 2 THEN {2} ELSE {}]
NoneRefused == [v \in 1..MaxVersion |-> {}]

MCRanges == {Everything, [from |-> 2, to |-> 2]}
OneRange == {Everything}
=============================================================================
