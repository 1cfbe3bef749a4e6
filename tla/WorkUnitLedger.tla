--------------------------- MODULE WorkUnitLedger ---------------------------
(***************************************************************************)
(* What the agent and the core promise about one result, with no process,  *)
(* no message and no crash in sight: the core consumes a result once, only *)
(* a consumed unit is marked seen, and only a marked unit gets the         *)
(* "wu_processed" row of the job log.  None of the three is ever undone.   *)
(* NodeAgent implements this module.                                       *)
(***************************************************************************)
CONSTANT Ids

VARIABLES
    consumed,   \* wu_ids whose result the core has taken
    marked,     \* wu_ids in the anti-replay store
    logged      \* wu_ids with a "wu_processed" row

ledgerVars == <<consumed, marked, logged>>

Init ==
    /\ consumed = {}
    /\ marked = {}
    /\ logged = {}

Consume(i) ==
    /\ i \notin consumed
    /\ consumed' = consumed \cup {i}
    /\ UNCHANGED <<marked, logged>>

Mark(i) ==
    /\ i \in consumed
    /\ i \notin marked
    /\ marked' = marked \cup {i}
    /\ UNCHANGED <<consumed, logged>>

Log(i) ==
    /\ i \in marked
    /\ i \notin logged
    /\ logged' = logged \cup {i}
    /\ UNCHANGED <<consumed, marked>>

Next == \E i \in Ids : Consume(i) \/ Mark(i) \/ Log(i)

Spec == Init /\ [][Next]_ledgerVars
=============================================================================
