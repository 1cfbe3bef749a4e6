------------------------------ MODULE LogShip ------------------------------
(***************************************************************************)
(* Shipping the job log to the central wall (node_agent/client.py,         *)
(* _ship_logs): read the cursor, read the log, POST the rows behind the    *)
(* cursor, move the cursor past them, log the outcome.                     *)
(*                                                                         *)
(* Rows are appended, by this and by other processes, while a batch is     *)
(* under way; a shipper may die at any step; several may overlap; and      *)
(* `node-agent leave` may delete the files, of a state directory that is   *)
(* a mount point and stays.                                                *)
(*                                                                         *)
(* Offsets count rows here, bytes in the code.  The core is external: it   *)
(* refuses a batch that holds a poisoned row, may refuse any, and may take *)
(* one whose answer is lost.                                               *)
(***************************************************************************)
EXTENDS Naturals

CONSTANTS
    Shippers,    \* slots in which a _ship_logs may be under way
    NoCursor,    \* there is no shipped.offset
    Poisoned,    \* the numbers of the rows the core never takes
    MaxRows,     \* bound on the length of a log: later rows are not followed
    MaxCrashes,  \* bound on the number of shippers that die
    MaxLeaves    \* bound on the number of `node-agent leave`

ASSUME LogShipAssumption ==
    /\ NoCursor \notin Nat
    /\ Poisoned \subseteq Nat
    /\ {MaxRows, MaxCrashes, MaxLeaves} \subseteq Nat

VARIABLES
    \* the state directory
    len,        \* the number of rows of the job log; 0 when it is not there
    cursor,     \* shipped.offset; 0 when it is empty
    \* the shippers
    pc,         \* where _ship_logs stands
    from,       \* offset
    upto,       \* offset + len(batch)
    read,       \* the log the batch was read from
    opened,     \* the cursor file that was opened for writing
    conn,       \* the POST /v1/wu/node-logs, as the core left it
    \* leave
    todo,       \* the entries rmtree has still to unlink
    leaves,
    \* history
    log,        \* the number of logs deleted so far: the name of this one
    file,       \* the number of cursor files deleted so far
    delivered,  \* the rows the core has taken
    refused,    \* the rows of the batches it has refused
    acked,      \* the rows whose acceptance a shipper has seen
    mingled,    \* a shipper has been under way during a leave
    overlapped, \* two shippers have been under way at once
    garbled,    \* a shipper's number was left with digits of a longer one
    crashes

shipVars == <<pc, from, upto, read, opened, conn>>
leaveVars == <<todo, leaves, log, file>>
coreVars == <<delivered, refused, acked>>
flagVars == <<mingled, overlapped, garbled>>
vars == <<len, cursor, shipVars, leaveVars, coreVars, flagVars, crashes>>

----------------------------------------------------------------------------
(* A missing and an empty cursor file both mean 0. *)
Offset == IF cursor = NoCursor THEN 0 ELSE cursor

Batch(p) == {<<read[p], n>> : n \in from[p] + 1 .. upto[p]}

(* JobLog.append, and the bound on what is followed. *)
AppendOne == len' = IF len < MaxRows THEN len + 1 ELSE len

Goto(p, label) == pc' = [pc EXCEPT ![p] = label]

Exit(p) ==
    /\ pc' = [pc EXCEPT ![p] = "off"]
    /\ from' = [from EXCEPT ![p] = 0]
    /\ upto' = [upto EXCEPT ![p] = 0]
    /\ read' = [read EXCEPT ![p] = 0]
    /\ opened' = [opened EXCEPT ![p] = 0]
    /\ conn' = [conn EXCEPT ![p] = "none"]

----------------------------------------------------------------------------
(* Mutated forms: plausible slips in the code, each of which some property *)
(* below must notice.                                                      *)

(* The cursor is moved to the present end of the log. *)
WriteCursorAtEnd(p) ==
    /\ pc[p] = "write"
    /\ cursor' = len
    /\ Goto(p, "row")
    /\ UNCHANGED <<len, from, upto, read, opened, conn, leaveVars, coreVars, flagVars, crashes>>

(* The cursor forgets what was shipped before this batch. *)
WriteCursorRelative(p) ==
    /\ pc[p] = "write"
    /\ cursor' = upto[p] - from[p]
    /\ Goto(p, "row")
    /\ UNCHANGED <<len, from, upto, read, opened, conn, leaveVars, coreVars, flagVars, crashes>>

(* A refused batch is kept for a retry, as after a transport error. *)
OpenCursorIfTaken(p) ==
    /\ pc[p] = "open"
    /\ \/ /\ conn[p] = "accepted"
          /\ cursor' = 0
          /\ opened' = [opened EXCEPT ![p] = file]
          /\ Goto(p, "write")
          /\ UNCHANGED <<len, from, upto, read, conn>>
       \/ /\ conn[p] = "refused"
          /\ AppendOne
          /\ Exit(p)
          /\ UNCHANGED cursor
    /\ UNCHANGED <<leaveVars, coreVars, flagVars, crashes>>

(* leave deletes the log, and keeps the cursor. *)
LeaveTheCursor ==
    /\ todo = {}
    /\ leaves < MaxLeaves
    /\ leaves' = leaves + 1
    /\ todo' = IF len > 0 THEN {"joblog"} ELSE {}
    /\ mingled' = (mingled \/ \E p \in Shippers : pc[p] # "off")
    /\ UNCHANGED <<len, cursor, shipVars, log, file, coreVars, overlapped, garbled, crashes>>

----------------------------------------------------------------------------
Init ==
    /\ len = 0
    /\ cursor = NoCursor
    /\ pc = [p \in Shippers |-> "off"]
    /\ from = [p \in Shippers |-> 0]
    /\ upto = [p \in Shippers |-> 0]
    /\ read = [p \in Shippers |-> 0]
    /\ opened = [p \in Shippers |-> 0]
    /\ conn = [p \in Shippers |-> "none"]
    /\ todo = {}
    /\ leaves = 0
    /\ log = 0
    /\ file = 0
    /\ delivered = {}
    /\ refused = {}
    /\ acked = {}
    /\ mingled = FALSE
    /\ overlapped = FALSE
    /\ garbled = FALSE
    /\ crashes = 0

ReadCursor(p) ==
    /\ pc[p] = "off"
    /\ from' = [from EXCEPT ![p] = Offset]
    /\ Goto(p, "read")
    /\ mingled' = (mingled \/ todo # {})
    /\ overlapped' = (overlapped \/ \E q \in Shippers : pc[q] # "off")
    /\ UNCHANGED <<len, cursor, upto, read, opened, conn, leaveVars, coreVars, garbled, crashes>>

(* No log, or nothing behind the cursor. *)
NothingToShip(p) ==
    /\ pc[p] = "read"
    /\ len <= from[p]
    /\ Exit(p)
    /\ UNCHANGED <<len, cursor, leaveVars, coreVars, flagVars, crashes>>

ReadLog(p) ==
    /\ pc[p] = "read"
    /\ len > from[p]
    /\ upto' = [upto EXCEPT ![p] = len]
    /\ read' = [read EXCEPT ![p] = log]
    /\ Goto(p, "post")
    /\ UNCHANGED <<len, cursor, from, opened, conn, leaveVars, coreVars, flagVars, crashes>>

Post(p) ==
    /\ pc[p] = "post"
    /\ conn' = [conn EXCEPT ![p] = "sent"]
    /\ Goto(p, "await")
    /\ UNCHANGED <<len, cursor, from, upto, read, opened, leaveVars, coreVars, flagVars, crashes>>

(* Any answer moves the cursor: a refused batch is skipped. *)
ReceiveAnswer(p) ==
    /\ pc[p] = "await"
    /\ conn[p] \in {"accepted", "refused"}
    /\ acked' = IF conn[p] = "accepted" THEN acked \cup Batch(p) ELSE acked
    /\ Goto(p, "open")
    /\ UNCHANGED <<len, cursor, from, upto, read, opened, conn, leaveVars, delivered, refused,
                   flagVars, crashes>>

(* httpx.HTTPError: the cursor stays, and the failure is a row. *)
TransportError(p) ==
    /\ pc[p] = "await"
    /\ AppendOne
    /\ Exit(p)
    /\ UNCHANGED <<cursor, leaveVars, coreVars, flagVars, crashes>>

(* write_text opens the file, which empties it, ... *)
OpenCursor(p) ==
    /\ pc[p] = "open"
    /\ cursor' = 0
    /\ opened' = [opened EXCEPT ![p] = file]
    /\ Goto(p, "write")
    /\ UNCHANGED <<len, from, upto, read, conn, leaveVars, coreVars, flagVars, crashes>>

(* ... and writes the number at its start: over what another shipper has      *)
(* written since, of which the digits past its own remain; and to no effect   *)
(* when `leave` has unlinked the file.                                        *)
WriteCursor(p) ==
    /\ pc[p] = "write"
    /\ IF opened[p] # file \/ cursor = NoCursor
       THEN UNCHANGED <<cursor, garbled>>
       ELSE /\ cursor' \in IF cursor <= upto[p] THEN {upto[p]} ELSE upto[p] .. MaxRows
            /\ garbled' = (garbled \/ cursor' # upto[p])
    /\ Goto(p, "row")
    /\ UNCHANGED <<len, from, upto, read, opened, conn, leaveVars, coreVars, mingled, overlapped,
                   crashes>>

(* logs_shipped, or ship_logs_failed. *)
LogOutcome(p) ==
    /\ pc[p] = "row"
    /\ AppendOne
    /\ Exit(p)
    /\ UNCHANGED <<cursor, leaveVars, coreVars, flagVars, crashes>>

Crash(p) ==
    /\ pc[p] # "off"
    /\ crashes < MaxCrashes
    /\ crashes' = crashes + 1
    /\ Exit(p)
    /\ UNCHANGED <<len, cursor, leaveVars, coreVars, flagVars>>

----------------------------------------------------------------------------
(* The rest of the agent appends rows; `leave` deletes what it has listed. *)

AppendRow ==
    /\ len < MaxRows
    /\ AppendOne
    /\ UNCHANGED <<cursor, shipVars, leaveVars, coreVars, flagVars, crashes>>

LeaveBegin ==
    /\ todo = {}
    /\ leaves < MaxLeaves
    /\ leaves' = leaves + 1
    /\ todo' = (IF len > 0 THEN {"joblog"} ELSE {})
                    \cup (IF cursor # NoCursor THEN {"offset"} ELSE {})
    /\ mingled' = (mingled \/ \E p \in Shippers : pc[p] # "off")
    /\ UNCHANGED <<len, cursor, shipVars, log, file, coreVars, overlapped, garbled, crashes>>

UnlinkLog ==
    /\ "joblog" \in todo
    /\ todo' = todo \ {"joblog"}
    /\ len' = 0
    /\ log' = log + 1
    /\ UNCHANGED <<cursor, shipVars, leaves, file, coreVars, flagVars, crashes>>

UnlinkCursor ==
    /\ "offset" \in todo
    /\ todo' = todo \ {"offset"}
    /\ cursor' = NoCursor
    /\ file' = file + 1
    /\ UNCHANGED <<len, shipVars, leaves, log, coreVars, flagVars, crashes>>

----------------------------------------------------------------------------
(* The core. *)

CoreTakes(p) ==
    /\ conn[p] = "sent"
    /\ \A row \in Batch(p) : row[2] \notin Poisoned
    /\ delivered' = delivered \cup Batch(p)
    /\ conn' = [conn EXCEPT ![p] = "accepted"]
    /\ UNCHANGED <<len, cursor, pc, from, upto, read, opened, leaveVars, refused, acked,
                   flagVars, crashes>>

CoreRefuses(p) ==
    /\ conn[p] = "sent"
    /\ refused' = refused \cup Batch(p)
    /\ conn' = [conn EXCEPT ![p] = "refused"]
    /\ UNCHANGED <<len, cursor, pc, from, upto, read, opened, leaveVars, delivered, acked,
                   flagVars, crashes>>

----------------------------------------------------------------------------
ShipStep(p) ==
    \/ ReadCursor(p)
    \/ NothingToShip(p)
    \/ ReadLog(p)
    \/ Post(p)
    \/ ReceiveAnswer(p)
    \/ TransportError(p)
    \/ OpenCursor(p)
    \/ WriteCursor(p)
    \/ LogOutcome(p)

CoreStep(p) == CoreTakes(p) \/ CoreRefuses(p)

Next ==
    \/ \E p \in Shippers : ShipStep(p) \/ Crash(p) \/ CoreStep(p)
    \/ AppendRow
    \/ LeaveBegin
    \/ UnlinkLog
    \/ UnlinkCursor

Spec == Init /\ [][Next]_vars

(* _ship_logs is called again and again, every request ends (30 s), and       *)
(* neither the core nor the network fails every time.                         *)
FairSpec ==
    /\ Spec
    /\ \A p \in Shippers :
        /\ WF_vars(ShipStep(p))
        /\ SF_vars(CoreStep(p))
        /\ SF_vars(ReceiveAnswer(p))

----------------------------------------------------------------------------
Logs == 0 .. MaxLeaves
RowNames == Logs \X (1 .. MaxRows)

TypeOK ==
    /\ len \in 0 .. MaxRows
    /\ cursor \in 0 .. MaxRows \cup {NoCursor}
    /\ pc \in [Shippers -> {"off", "read", "post", "await", "open", "write", "row"}]
    /\ from \in [Shippers -> 0 .. MaxRows]
    /\ upto \in [Shippers -> 0 .. MaxRows]
    /\ read \in [Shippers -> Logs]
    /\ opened \in [Shippers -> Logs]
    /\ conn \in [Shippers -> {"none", "sent", "accepted", "refused"}]
    /\ todo \in SUBSET {"joblog", "offset"}
    /\ leaves \in 0 .. MaxLeaves
    /\ log \in Logs
    /\ file \in Logs
    /\ delivered \in SUBSET RowNames
    /\ refused \in SUBSET RowNames
    /\ acked \in SUBSET RowNames
    /\ mingled \in BOOLEAN
    /\ overlapped \in BOOLEAN
    /\ garbled \in BOOLEAN
    /\ crashes \in 0 .. MaxCrashes

(* client.py: the cursor is the "byte-offset into the joblog marking which    *)
(* rows have been shipped".  Every row before it has been taken by the core,  *)
(* or was in a batch the core refused, although several shippers truncate and *)
(* write the file at once and may move it back; and a `leave`, which deletes  *)
(* log and cursor in either order, leaves no cursor that would skip rows of   *)
(* the next log.  Two things only do skip rows: a `leave` while a shipper is  *)
(* under way, and a number written over a longer one (`garbled`), which takes *)
(* two shippers at once.                                                      *)
NothingSkipped ==
    /\ ~mingled /\ ~garbled /\ todo = {} =>
        \A n \in 1 .. Offset : n <= len => <<log, n>> \in delivered \cup refused
    /\ garbled => overlapped

(* client.py: the cursor is persisted "so a restart doesn't re-ship old       *)
(* rows".  No batch on its way holds a row whose acceptance a shipper has     *)
(* seen, unless shippers have overlapped, one has died since, or the log is   *)
(* being deleted.                                                             *)
NothingShippedTwice ==
    ~overlapped /\ crashes = 0 /\ leaves = 0 =>
        \A p \in Shippers : conn[p] = "sent" => Batch(p) \cap acked = {}

(* "A poisoned batch can't wedge the ship loop", and a transport error is     *)
(* retried: the cursor passes every row of the log in the end.                *)
EveryRowIsPassed ==
    \A n \in 1 .. MaxRows : len >= n ~> (cursor # NoCursor /\ cursor >= n) \/ leaves > 0
=============================================================================
