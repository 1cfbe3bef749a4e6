------------------------------ MODULE LogPage ------------------------------
(***************************************************************************)
(* The page of `node-agent serve-log` in front of the live tail of LogWall *)
(* (node_agent/logwall.py, the script of PAGE_HTML and _serve_api_log).    *)
(* The script asks for the history and opens the stream at once: the two   *)
(* answers are not ordered, nor are two histories.  A row is its file and  *)
(* its number there; the page is its rows from the top down.  The filters  *)
(* only hide rows and are left out, as is the status line.                 *)
(*                                                                         *)
(* External: the browser's EventSource, which connects again when its      *)
(* connection is lost and gives up when it is refused.                     *)
(***************************************************************************)
EXTENDS LogWall, SequencesExt

CONSTANTS
    Loads,          \* slots for histories under way
    Inputs,         \* what the limit field may hold, 0 for no number
    DefaultLimit,   \* its first value
    MaxShown,       \* MAX_RENDERED_EVENTS, and MAX_API_LOG_LIMIT
    MaxDrops,       \* bound on the connections lost
    NoConn

ASSUME LogPageAssumption ==
    /\ DefaultLimit \in 1 .. MaxShown /\ MaxDrops \in Nat
    /\ MaxShown \in Nat /\ Inputs \subseteq Int /\ NoConn \notin Conns

VARIABLES
    es,       \* readyState of the EventSource: "waiting" to connect, "connecting", "open", "closed"
    via,      \* its connection
    wire,     \* rows sent to it and not received
    shown,    \* #events
    loads,    \* the requests for /api/log
    base,     \* the log as the history on the page was read, and how much of it
    late,     \* rows the stream had brought before that history came
    drops

pageVars == <<es, via, wire, shown, loads, base, late, drops>>
allVars == <<vars, pageVars>>

NoHistory == [log |-> Never, limit |-> 0]
Idle == [state |-> "idle", limit |-> 0, at |-> NoHistory, rows |-> <<>>]

(* parseInt(...) || 100, from 1 to 1000 *)
Limit(input) ==
    LET n == IF input = 0 THEN DefaultLimit ELSE input
    IN  IF n < 1 THEN 1 ELSE IF n > MaxShown THEN MaxShown ELSE n

(* Mutated form: the page is cut before the row is added. *)
AddEventLate(row, page) == <<row>> \o SubSeq(page, 1, Min({MaxShown, Len(page)}))

(* addEvent: on top, and the bottom row goes when there are too many. *)
AddEvent(row, page) == <<row>> \o SubSeq(page, 1, Min({MaxShown - 1, Len(page)}))

(* Mutated form: records[:limit]. *)
FirstRecords(limit) == [k \in 1 .. Min({limit, Now.len}) |-> <<file, k>>]

(* records[-limit:] *)
Records(limit) ==
    LET m == Min({limit, Now.len}) IN [k \in 1 .. m |-> <<file, Now.len - m + k>>]

(* Mutated form: what is shown stays. *)
RenderedOnTop(rows) == FoldRight(AddEvent, rows, shown)

(* rows.slice().reverse().forEach(addEvent), on an empty page. *)
Rendered(rows) == FoldRight(AddEvent, rows, <<>>)

----------------------------------------------------------------------------
PageInit ==
    /\ Init
    /\ es = "none" /\ via = NoConn
    /\ wire = <<>> /\ shown = <<>>
    /\ loads = [l \in Loads |-> Idle]
    /\ base = NoHistory
    /\ late = {}
    /\ drops = 0

(* loadHistory, up to its fetch. *)
Ask(l, input) ==
    /\ loads[l].state = "idle"
    /\ loads' = [loads EXCEPT ![l] = [Idle EXCEPT !.state = "asked", !.limit = Limit(input)]]

(* The script: loadHistory(); connect(). *)
OpenPage ==
    /\ es = "none"
    /\ es' = "waiting"
    /\ \E l \in Loads : Ask(l, 0)
    /\ UNCHANGED <<vars, via, wire, shown, base, late, drops>>

(* Refresh, or another limit. *)
Refresh(l) ==
    /\ es # "none"
    /\ \E input \in Inputs : Ask(l, input)
    /\ UNCHANGED <<vars, es, via, wire, shown, base, late, drops>>

(* _serve_api_log: the last records of the log. *)
ServeLog(l) ==
    /\ loads[l].state = "asked"
    /\ LET limit == loads[l].limit IN
        loads' = [loads EXCEPT ![l] = [@ EXCEPT !.state = "answered", !.rows = Records(limit),
                                                !.at = [log |-> Now, limit |-> limit]]]
    /\ UNCHANGED <<vars, es, via, wire, shown, base, late, drops>>

(* The answer is here: clearChildren, then its rows. *)
ShowHistory(l) ==
    /\ loads[l].state = "answered"
    /\ shown' = Rendered(loads[l].rows)
    /\ base' = loads[l].at
    /\ late' = IF via = NoConn THEN {}
               ELSE {<<handle[via], n>> : n \in start[via] + 1 .. pos[via] - Len(wire)}
    /\ loads' = [loads EXCEPT ![l] = Idle]
    /\ UNCHANGED <<vars, es, via, wire, drops>>

(* Not ok, as of a log above MAX_API_LOG_BYTES, or the network failed: the    *)
(* page stays as it is.                                                       *)
HistoryFails(l) ==
    /\ loads[l].state # "idle"
    /\ loads' = [loads EXCEPT ![l] = Idle]
    /\ UNCHANGED <<vars, es, via, wire, shown, base, late, drops>>

----------------------------------------------------------------------------
(* connect(), and EventSource on its own when the connection was lost. *)
OpenStream(c) ==
    /\ es = "waiting"
    /\ Connect(c)
    /\ es' = "connecting" /\ via' = c
    /\ UNCHANGED <<wire, shown, loads, base, late, drops>>

(* The network drops the connection with what is on its way. *)
Drop ==
    /\ via # NoConn /\ drops < MaxDrops
    /\ Close(via)
    /\ es' = "waiting" /\ via' = NoConn /\ wire' = <<>>
    /\ drops' = drops + 1
    /\ UNCHANGED <<shown, loads, base, late>>

(* A step of a handler; those of the page's own connection reach the page. *)
Handler(c) ==
    /\ Serve(c)
    /\ IF c # via THEN UNCHANGED <<es, via, wire>>
       ELSE /\ via' = IF pc'[c] = "none" THEN NoConn ELSE via
            /\ es' = CASE pc'[c] = "none" -> (IF pc[c] = "accept" THEN "closed" ELSE "waiting")
                       [] pc[c] = "headers" -> "open"
                       [] OTHER -> es
            /\ wire' = IF pc[c] = "follow" /\ pos'[c] > pos[c]
                       THEN Append(wire, <<handle[c], pos'[c]>>) ELSE wire
    /\ UNCHANGED <<shown, loads, base, late, drops>>

(* onmessage *)
Receive ==
    /\ wire # <<>>
    /\ shown' = AddEvent(Head(wire), shown)
    /\ wire' = Tail(wire)
    /\ UNCHANGED <<vars, es, via, loads, base, late, drops>>

LogChanges == (AppendRow \/ Leave) /\ UNCHANGED pageVars

----------------------------------------------------------------------------
HistoryStep(l) == ServeLog(l) \/ ShowHistory(l) \/ HistoryFails(l)

PageNext ==
    \/ OpenPage \/ Drop \/ Receive \/ LogChanges
    \/ \E l \in Loads : Refresh(l) \/ HistoryStep(l)
    \/ \E c \in Conns : OpenStream(c) \/ Handler(c)

PageSpec == PageInit /\ [][PageNext]_allVars

----------------------------------------------------------------------------
OnPage(row) == \E k \in DOMAIN shown : shown[k] = row
OnWire(row) == \E k \in DOMAIN wire : wire[k] = row
Copies(row) == Cardinality({k \in DOMAIN shown : shown[k] = row})

PageTypeOK ==
    /\ TypeOK
    /\ es \in {"none", "waiting", "connecting", "open", "closed"}
    /\ via \in Conns \cup {NoConn}
    /\ (via # NoConn) = (es \in {"connecting", "open"})
    /\ Len(shown) <= MaxShown /\ Len(wire) <= MaxRows
    /\ \A l \in Loads : loads[l].state # "idle" => loads[l].limit \in 1 .. MaxShown
    /\ drops \in 0 .. MaxDrops

(* The plan of the log wall: "/events replayed the entire joblog ... on every *)
(* connect (and every browser auto-reconnect), duplicating history".  A row   *)
(* stands on the page once from the history and once from the stream at most, *)
(* however often the stream reconnects and the history is loaded again.       *)
AtMostTwice == \A i \in Inodes, n \in 1 .. MaxRows : Copies(<<i, n>>) <= 2

(* README.md: the page "updates as new work units are processed".  A row that *)
(* the stream is past and that neither is older than the history asked for    *)
(* nor is shown or on its way fell between the reading of the history and the *)
(* start of the stream, or came before a history that had been read before    *)
(* it, or went when the page was full.                                        *)
HolesAreExplained ==
    \A c \in Conns :
        c = via /\ pc[c] = "follow" /\ base.log.file = handle[c] =>
            \A n \in base.log.len - base.limit + 1 .. pos[c] :
                LET row == <<handle[c], n>> IN
                    \/ n < 1 \/ OnPage(row) \/ OnWire(row)
                    \/ base.log.len < n /\ (n <= start[c] \/ row \in late)
                    \/ Len(shown) = MaxShown

(* A page that is alone with the server is refused, and left without a stream *)
(* for good, only when as many of its connections were lost as there are      *)
(* slots: no handler that ends by itself, its log deleted under it, keeps one. *)
RefusedOnlyAfterDrops == es = "closed" => drops >= MaxClients
=============================================================================
