---------------------------- MODULE BrowserNode ----------------------------
(***************************************************************************)
(* The node in the browser: node_agent/wasm.py (_BrowserNode) over         *)
(* node_agent/storage.py (BrowserStore).  One page, a tab, holds one node; *)
(* the tabs of the origin share one IndexedDB store with the seed, the job *)
(* log (one JSON array) and the ship cursor (an index into it).            *)
(*                                                                         *)
(* Every access to the store is awaited, and another tab may run between   *)
(* any two of them.  A page may be closed or reloaded at any moment: its   *)
(* memory is lost, and with it the file system of Pyodide, where the seen  *)
(* store is.                                                               *)
(*                                                                         *)
(* External: the page that starts run_once, _ship_logs and leave, one at a *)
(* time; IndexedDB; the edge, which takes or refuses, and whose answers    *)
(* may be lost.                                                            *)
(***************************************************************************)
EXTENDS Naturals, Sequences, FiniteSets, SequencesExt

CONSTANTS
    Tabs,
    Seeds,       \* what generate_seed may return
    NoSeed,
    Units,       \* wu_ids of the units the edge may hand out
    NoUnit,
    MaxRows,     \* bound on the rows appended
    MaxReloads,  \* bound on the pages closed or reloaded
    MaxLeaves    \* bound on the calls of leave

ASSUME BrowserNodeAssumption ==
    /\ NoSeed \notin Seeds
    /\ NoUnit \notin Units
    /\ {MaxRows, MaxReloads, MaxLeaves} \subseteq Nat

VARIABLES
    \* the store
    seed,        \* "seed"
    joblog,      \* "joblog": the rows, each with a number of its own
    cursor,      \* "ship_cursor"
    \* the tabs
    pc,          \* where the call under way stands
    call,        \* which call it is: "run" or "ship"
    ring,        \* _ring: the seed it was made of
    registered,  \* _registered
    seen,        \* the seen store, of the client and of Pyodide's file system
    wu,          \* the unit in hand
    rows,        \* what read_all returned
    from,        \* what _get_ship_cursor returned
    \* the edge
    enrolled,    \* the seeds whose public key it knows
    consumed,    \* the units whose result it has taken
    shipped,     \* the rows that were POSTed and were taken or refused
    \* history
    made,        \* the number of rows made
    told,        \* the units whose acceptance the page of a tab has seen
    used,        \* the tabs in which a call has ever been made
    reloads, leaves

storeVars == <<seed, joblog, cursor>>
nodeVars == <<ring, registered, seen>>
callVars == <<call, wu, rows, from>>
edgeVars == <<enrolled, consumed, shipped>>
histVars == <<made, told, used, reloads, leaves>>
vars == <<storeVars, pc, nodeVars, callVars, edgeVars, histVars>>

----------------------------------------------------------------------------
Goto(t, label) == pc' = [pc EXCEPT ![t] = label]

(* Where _ensure_keyring returns to: shipping, registration, or work. *)
AfterKeyring(t, c) ==
    IF c = "ship" THEN "ship_rows" ELSE IF registered[t] THEN "pull" ELSE "register"

(* The call returns or raises. *)
Return(t) ==
    /\ Goto(t, "idle")
    /\ wu' = [wu EXCEPT ![t] = NoUnit]
    /\ rows' = [rows EXCEPT ![t] = <<>>]
    /\ from' = [from EXCEPT ![t] = 0]
    /\ UNCHANGED call

Batch(t) == ToSet(SubSeq(rows[t], from[t] + 1, Len(rows[t])))

----------------------------------------------------------------------------
(* Mutated forms: plausible slips in the code, each of which some property *)
(* below must notice.                                                      *)

(* The seed is not saved: the next page makes another one. *)
GenerateUnsaved(t, s) ==
    /\ pc[t] = "seed"
    /\ seed = NoSeed
    /\ s \notin enrolled \cup {ring[q] : q \in Tabs}
    /\ ring' = [ring EXCEPT ![t] = s]
    /\ Goto(t, AfterKeyring(t, call[t]))
    /\ UNCHANGED <<storeVars, registered, seen, callVars, edgeVars, histVars>>

(* The node counts as registered before the edge has agreed. *)
RegisterFailsQuietly(t) ==
    /\ pc[t] = "register"
    /\ registered' = [registered EXCEPT ![t] = TRUE]
    /\ Return(t)
    /\ UNCHANGED <<storeVars, ring, seen, edgeVars, histVars>>

(* append does not read the array it writes back. *)
AppendReadNothing(t) ==
    /\ pc[t] = "append"
    /\ rows' = [rows EXCEPT ![t] = <<>>]
    /\ Goto(t, "write")
    /\ UNCHANGED <<storeVars, nodeVars, call, wu, from, edgeVars, histVars>>

(* The unit is not marked seen. *)
PostForgets(t) ==
    /\ pc[t] = "post"
    /\ wu[t] \notin consumed
    /\ consumed' = consumed \cup {wu[t]}
    /\ told' = [told EXCEPT ![t] = @ \cup {wu[t]}]
    /\ Goto(t, "append")
    /\ UNCHANGED <<storeVars, nodeVars, callVars, enrolled, shipped, made, used, reloads, leaves>>

(* The store is cleared of all but the cursor. *)
LeaveTheCursor(t) ==
    /\ pc[t] = "idle"
    /\ leaves < MaxLeaves
    /\ leaves' = leaves + 1
    /\ seed' = NoSeed
    /\ joblog' = <<>>
    /\ ring' = [ring EXCEPT ![t] = NoSeed]
    /\ registered' = [registered EXCEPT ![t] = FALSE]
    /\ used' = used \cup {t}
    /\ UNCHANGED <<cursor, pc, seen, callVars, edgeVars, made, told, reloads>>

----------------------------------------------------------------------------
Init ==
    /\ seed = NoSeed
    /\ joblog = <<>>
    /\ cursor = 0
    /\ pc = [t \in Tabs |-> "idle"]
    /\ call = [t \in Tabs |-> "run"]
    /\ ring = [t \in Tabs |-> NoSeed]
    /\ registered = [t \in Tabs |-> FALSE]
    /\ seen = [t \in Tabs |-> {}]
    /\ wu = [t \in Tabs |-> NoUnit]
    /\ rows = [t \in Tabs |-> <<>>]
    /\ from = [t \in Tabs |-> 0]
    /\ enrolled = {}
    /\ consumed = {}
    /\ shipped = {}
    /\ made = 0
    /\ told = [t \in Tabs |-> {}]
    /\ used = {}
    /\ reloads = 0
    /\ leaves = 0

(* run_once or _ship_logs is called. *)
Begin(t, c) ==
    /\ pc[t] = "idle"
    /\ call' = [call EXCEPT ![t] = c]
    /\ Goto(t, IF ring[t] = NoSeed THEN "seed" ELSE AfterKeyring(t, c))
    /\ used' = used \cup {t}
    /\ UNCHANGED <<storeVars, nodeVars, wu, rows, from, edgeVars, made, told, reloads, leaves>>

(* _ensure_keyring *)

LoadSeed(t) ==
    /\ pc[t] = "seed"
    /\ seed # NoSeed
    /\ ring' = [ring EXCEPT ![t] = seed]
    /\ Goto(t, AfterKeyring(t, call[t]))
    /\ UNCHANGED <<storeVars, registered, seen, callVars, edgeVars, histVars>>

Generate(t, s) ==
    /\ pc[t] = "seed"
    /\ seed = NoSeed
    /\ s \notin enrolled \cup {ring[q] : q \in Tabs}
    /\ ring' = [ring EXCEPT ![t] = s]
    /\ Goto(t, "save")
    /\ UNCHANGED <<storeVars, registered, seen, callVars, edgeVars, histVars>>

SaveSeed(t) ==
    /\ pc[t] = "save"
    /\ seed' = ring[t]
    /\ Goto(t, AfterKeyring(t, call[t]))
    /\ UNCHANGED <<joblog, cursor, nodeVars, callVars, edgeVars, histVars>>

----------------------------------------------------------------------------
(* run_once *)

(* register_agent succeeds, and has a row to append. *)
Register(t) ==
    /\ pc[t] = "register"
    /\ enrolled' = enrolled \cup {ring[t]}
    /\ Goto(t, "append")
    /\ UNCHANGED <<storeVars, nodeVars, callVars, consumed, shipped, histVars>>

(* It raises; the edge may have taken the key all the same. *)
RegisterFails(t) ==
    /\ pc[t] = "register"
    /\ enrolled' \in {enrolled, enrolled \cup {ring[t]}}
    /\ Return(t)
    /\ UNCHANGED <<storeVars, nodeVars, consumed, shipped, histVars>>

(* BrowserStore.append: the whole array is read, ... *)
AppendRead(t) ==
    /\ pc[t] = "append"
    /\ rows' = [rows EXCEPT ![t] = joblog]
    /\ Goto(t, "write")
    /\ UNCHANGED <<storeVars, nodeVars, call, wu, from, edgeVars, histVars>>

(* ... and written back with one row more.  After the row of its registration *)
(* the node goes on to work; every other row is the last of its call.         *)
AppendWrite(t) ==
    /\ pc[t] = "write"
    /\ made < MaxRows
    /\ made' = made + 1
    /\ joblog' = Append(rows[t], made')
    /\ IF registered[t]
       THEN Return(t) /\ UNCHANGED registered
       ELSE /\ registered' = [registered EXCEPT ![t] = TRUE]
            /\ Goto(t, "pull")
            /\ UNCHANGED callVars
    /\ UNCHANGED <<seed, cursor, ring, seen, edgeVars, told, used, reloads, leaves>>

NoWork(t) ==
    /\ pc[t] = "pull"
    /\ Goto(t, "append")
    /\ UNCHANGED <<storeVars, nodeVars, callVars, edgeVars, histVars>>

(* The request fails, or the unit is rejected: no row. *)
PullFails(t) ==
    /\ pc[t] = "pull"
    /\ Return(t)
    /\ UNCHANGED <<storeVars, nodeVars, edgeVars, histVars>>

(* A unit that is seen gets its replay_rejected row, any other its result. *)
Pull(t, u) ==
    /\ pc[t] = "pull"
    /\ wu' = [wu EXCEPT ![t] = u]
    /\ Goto(t, IF u \in seen[t] THEN "append" ELSE "post")
    /\ UNCHANGED <<storeVars, nodeVars, call, rows, from, edgeVars, histVars>>

(* The result is taken, and the unit marked seen. *)
PostResult(t) ==
    /\ pc[t] = "post"
    /\ wu[t] \notin consumed
    /\ consumed' = consumed \cup {wu[t]}
    /\ seen' = [seen EXCEPT ![t] = @ \cup {wu[t]}]
    /\ told' = [told EXCEPT ![t] = @ \cup {wu[t]}]
    /\ Goto(t, "append")
    /\ UNCHANGED <<storeVars, ring, registered, callVars, enrolled, shipped, made, used, reloads, leaves>>

(* It is refused, or its answer lost. *)
PostFails(t) ==
    /\ pc[t] = "post"
    /\ consumed' \in {consumed, consumed \cup {wu[t]}}
    /\ Return(t)
    /\ UNCHANGED <<storeVars, nodeVars, enrolled, shipped, histVars>>

----------------------------------------------------------------------------
(* _ship_logs *)

ShipRows(t) ==
    /\ pc[t] = "ship_rows"
    /\ rows' = [rows EXCEPT ![t] = joblog]
    /\ Goto(t, "ship_cursor")
    /\ UNCHANGED <<storeVars, nodeVars, call, wu, from, edgeVars, histVars>>

ShipCursor(t) ==
    /\ pc[t] = "ship_cursor"
    /\ IF cursor >= Len(rows[t])
       THEN Return(t)
       ELSE /\ from' = [from EXCEPT ![t] = cursor]
            /\ Goto(t, "ship_post")
            /\ UNCHANGED <<call, wu, rows>>
    /\ UNCHANGED <<storeVars, nodeVars, edgeVars, histVars>>

(* Taken or refused, the batch is done with. *)
ShipBatch(t) ==
    /\ pc[t] = "ship_post"
    /\ shipped' = shipped \cup Batch(t)
    /\ Goto(t, "set")
    /\ UNCHANGED <<storeVars, nodeVars, callVars, enrolled, consumed, histVars>>

(* TransportError: the cursor stays. *)
ShipFails(t) ==
    /\ pc[t] = "ship_post"
    /\ shipped' \in {shipped, shipped \cup Batch(t)}
    /\ Return(t)
    /\ UNCHANGED <<storeVars, nodeVars, enrolled, consumed, histVars>>

SetCursor(t) ==
    /\ pc[t] = "set"
    /\ cursor' = Len(rows[t])
    /\ Return(t)
    /\ UNCHANGED <<seed, joblog, nodeVars, edgeVars, histVars>>

----------------------------------------------------------------------------
(* leave: the store is cleared and the node forgets; the seen store stays. *)
Leave(t) ==
    /\ pc[t] = "idle"
    /\ leaves < MaxLeaves
    /\ leaves' = leaves + 1
    /\ seed' = NoSeed
    /\ joblog' = <<>>
    /\ cursor' = 0
    /\ ring' = [ring EXCEPT ![t] = NoSeed]
    /\ registered' = [registered EXCEPT ![t] = FALSE]
    /\ used' = used \cup {t}
    /\ UNCHANGED <<pc, seen, callVars, edgeVars, made, told, reloads>>

(* The page is closed or reloaded. *)
Reload(t) ==
    /\ reloads < MaxReloads
    /\ reloads' = reloads + 1
    /\ Return(t)
    /\ ring' = [ring EXCEPT ![t] = NoSeed]
    /\ registered' = [registered EXCEPT ![t] = FALSE]
    /\ seen' = [seen EXCEPT ![t] = {}]
    /\ told' = [told EXCEPT ![t] = {}]
    /\ UNCHANGED <<storeVars, edgeVars, made, used, leaves>>

----------------------------------------------------------------------------
KeyringStep(t) ==
    \/ LoadSeed(t)
    \/ \E s \in Seeds : Generate(t, s)
    \/ SaveSeed(t)

RunStep(t) ==
    \/ Register(t)
    \/ RegisterFails(t)
    \/ AppendRead(t)
    \/ AppendWrite(t)
    \/ NoWork(t)
    \/ PullFails(t)
    \/ \E u \in Units : Pull(t, u)
    \/ PostResult(t)
    \/ PostFails(t)

ShipStep(t) ==
    \/ ShipRows(t)
    \/ ShipCursor(t)
    \/ ShipBatch(t)
    \/ ShipFails(t)
    \/ SetCursor(t)

Next ==
    \E t \in Tabs :
        \/ \E c \in {"run", "ship"} : Begin(t, c)
        \/ KeyringStep(t)
        \/ RunStep(t)
        \/ ShipStep(t)
        \/ Leave(t)
        \/ Reload(t)

Spec == Init /\ [][Next]_vars

----------------------------------------------------------------------------
(* However many tabs race for the seed, leave and come back, a tab submits    *)
(* results only under a seed whose key the edge has enrolled.                 *)
EnrolledBeforeWork == \A t \in Tabs : pc[t] = "post" => ring[t] \in enrolled

(* README.md: "a repeated wu_id (or nonce, if present) is refused".  A page   *)
(* does not submit a unit again after it has been told that its result was    *)
(* taken, not even after a leave.  (Another page may: the seen store is lost  *)
(* with the page.)                                                            *)
NoResubmission == \A t \in Tabs : pc[t] = "post" => wu[t] \notin told[t]

(* As long as the node is used in one tab, however often it is reloaded.      *)
OneTab == Cardinality(used) <= 1

(* A node that counts as registered has its seed in the store, so that the    *)
(* next page goes on under the same identity.                                 *)
IdentityIsStored == OneTab => \A t \in Tabs : registered[t] => seed = ring[t]

(* wasm.py: the cursor "tracks the index of the last shipped joblog row".     *)
(* Every row before it was POSTed, and taken or refused.                      *)
NothingSkipped ==
    OneTab => \A n \in DOMAIN joblog : n <= cursor => joblog[n] \in shipped

(* Rows are added at the end of the job log, and go with `leave` only ...     *)
OneTabAppendsOnly ==
    [][OneTab' /\ leaves' = leaves => IsPrefix(joblog, joblog')]_vars

(* ... as storage.py has it of any use: "a single JSON-encoded array of rows  *)
(* (append-only)".                                                            *)
AppendOnly == [][leaves' = leaves => IsPrefix(joblog, joblog')]_vars
=============================================================================
