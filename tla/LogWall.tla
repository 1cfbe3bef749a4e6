------------------------------ MODULE LogWall ------------------------------
(***************************************************************************)
(* The live half of `node-agent serve-log`: the /events handler            *)
(* (node_agent/logwall.py, _serve_events), one thread per connection, with *)
(* its bounded number of slots, and the tail of the job log each thread    *)
(* follows (node_agent/joblog.py, JobLog.iter_lines and append).           *)
(*                                                                         *)
(* The job log is a file that appends create when it is not there and      *)
(* `node-agent leave` deletes: a file is known by its inode, and a row by  *)
(* the inode and its number.  A thread keeps the file it has opened,       *)
(* deleted or not.                                                         *)
(*                                                                         *)
(* External: the browser, which opens and closes connections (EventSource  *)
(* reconnects by itself), and TCP: a write to a peer that has gone         *)
(* succeeds until its reset has come back, and raises from then on.        *)
(***************************************************************************)
EXTENDS Naturals, FiniteSets

CONSTANTS
    Conns,         \* connections, each with its handler thread
    MaxClients,    \* MAX_SSE_CLIENTS
    MaxRows,       \* bound on the rows appended to one file
    MaxLeaves,     \* bound on the number of `node-agent leave`
    EarlyResets    \* a client may reset its connection before the headers are out

ASSUME LogWallAssumption ==
    /\ MaxClients \in Nat \ {0}
    /\ MaxRows \in Nat
    /\ MaxLeaves \in Nat
    /\ EarlyResets \in BOOLEAN

Inodes == 1 .. MaxLeaves + 1
NoFile == 0

VARIABLES
    \* the job log
    file,      \* the inode of the file, or NoFile
    len,       \* the number of rows of each inode
    leaves,
    \* the server
    free,      \* the value of _sse_semaphore
    pc,        \* where _serve_events stands
    handle,    \* the inode the thread has opened
    start,     \* the number of rows it skipped
    pos,       \* the number of rows it is past
    \* the network
    peer,      \* the client's end of the connection
    \* history
    asked      \* file and length when the client asked

logVars == <<file, len, leaves>>
connVars == <<pc, handle, start, pos, peer, asked>>
vars == <<logVars, free, connVars>>

----------------------------------------------------------------------------
Goto(c, label) == pc' = [pc EXCEPT ![c] = label]

Now == [file |-> file, len |-> IF file = NoFile THEN 0 ELSE len[file]]
Never == [file |-> NoFile, len |-> 0]

(* The thread ends and its connection with it. *)
EndThread(c) ==
    /\ pc' = [pc EXCEPT ![c] = "none"]
    /\ handle' = [handle EXCEPT ![c] = NoFile]
    /\ start' = [start EXCEPT ![c] = 0]
    /\ pos' = [pos EXCEPT ![c] = 0]
    /\ peer' = [peer EXCEPT ![c] = "none"]
    /\ asked' = [asked EXCEPT ![c] = Never]

(* The finally clause. *)
Release(c) ==
    /\ EndThread(c)
    /\ free' = free + 1

(* A write succeeds; a peer that has gone answers it with a reset. *)
Written(c) ==
    /\ peer[c] # "reset"
    /\ peer' = [peer EXCEPT ![c] = IF @ = "open" THEN "open" ELSE "reset"]

----------------------------------------------------------------------------
(* Mutated forms: plausible slips in the code, each of which some property *)
(* below must notice.                                                      *)

(* The acquire is moved inside the try: a refused client releases a slot. *)
RefuseReleases(c) ==
    /\ pc[c] = "accept"
    /\ free = 0
    /\ Release(c)
    /\ UNCHANGED logVars

(* The thread forgets that it is to skip what the file holds already. *)
OpenFileAtStart(c) ==
    /\ pc[c] \in {"open_end", "open_start"}
    /\ file # NoFile
    /\ handle' = [handle EXCEPT ![c] = file]
    /\ Goto(c, "follow")
    /\ UNCHANGED <<logVars, free, start, pos, peer, asked>>

(* No heartbeat: an idle thread writes nothing. *)
FollowSilently(c) ==
    /\ pc[c] = "follow"
    /\ pos[c] < len[handle[c]]
    /\ \/ /\ Written(c)
          /\ pos' = [pos EXCEPT ![c] = @ + 1]
          /\ UNCHANGED <<free, pc, handle, start, asked>>
       \/ /\ peer[c] = "reset"
          /\ Release(c)
    /\ UNCHANGED logVars

(* The end of the file, once met, is taken for final: heartbeats only. *)
FollowSnapshot(c) ==
    /\ pc[c] = "follow"
    /\ \/ /\ Written(c)
          /\ UNCHANGED <<free, pc, handle, start, pos, asked>>
       \/ /\ peer[c] = "reset"
          /\ Release(c)
    /\ UNCHANGED logVars

(* The log is gone when it is to be opened: the handler forgets its slot. *)
OpenFileLeaks(c) ==
    /\ pc[c] \in {"open_end", "open_start"}
    /\ file = NoFile
    /\ EndThread(c)
    /\ UNCHANGED <<logVars, free>>

----------------------------------------------------------------------------
Init ==
    /\ file = NoFile
    /\ len = [i \in Inodes |-> 0]
    /\ leaves = 0
    /\ free = MaxClients
    /\ pc = [c \in Conns |-> "none"]
    /\ handle = [c \in Conns |-> NoFile]
    /\ start = [c \in Conns |-> 0]
    /\ pos = [c \in Conns |-> 0]
    /\ peer = [c \in Conns |-> "none"]
    /\ asked = [c \in Conns |-> Never]

----------------------------------------------------------------------------
(* The browser. *)

Connect(c) ==
    /\ pc[c] = "none"
    /\ Goto(c, "accept")
    /\ peer' = [peer EXCEPT ![c] = "open"]
    /\ asked' = [asked EXCEPT ![c] = Now]
    /\ UNCHANGED <<logVars, free, handle, start, pos>>

(* The tab is closed or reloaded, or the network drops the connection. *)
Close(c) ==
    /\ peer[c] = "open"
    /\ EarlyResets \/ pc[c] \notin {"accept", "headers"}
    /\ \E end \in {"closed", "reset"} : peer' = [peer EXCEPT ![c] = end]
    /\ UNCHANGED <<logVars, free, pc, handle, start, pos, asked>>

----------------------------------------------------------------------------
(* _serve_events *)

(* A slot is taken without waiting. *)
Accept(c) ==
    /\ pc[c] = "accept"
    /\ free > 0
    /\ free' = free - 1
    /\ Goto(c, "headers")
    /\ UNCHANGED <<logVars, handle, start, pos, peer, asked>>

(* 503, too many live clients. *)
Refuse(c) ==
    /\ pc[c] = "accept"
    /\ free = 0
    /\ EndThread(c)
    /\ UNCHANGED <<logVars, free>>

(* 200: end_headers writes to the socket. *)
SendHeaders(c) ==
    /\ pc[c] = "headers"
    /\ Written(c)
    /\ Goto(c, "check")
    /\ UNCHANGED <<logVars, free, handle, start, pos, asked>>

(* The write raises before the try block is entered: nobody releases the slot. *)
HeadersFail(c) ==
    /\ pc[c] = "headers"
    /\ peer[c] = "reset"
    /\ EndThread(c)
    /\ UNCHANGED <<logVars, free>>

(* iter_lines: file_pre_existed. *)
CheckFile(c) ==
    /\ pc[c] = "check"
    /\ Goto(c, IF file = NoFile THEN "wait" ELSE "open_end")
    /\ UNCHANGED <<logVars, free, handle, start, pos, peer, asked>>

(* No file yet: a heartbeat on every poll. *)
WaitForFile(c) ==
    /\ pc[c] = "wait"
    /\ IF file # NoFile
       THEN /\ Goto(c, "open_start")
            /\ UNCHANGED <<free, handle, start, pos, peer, asked>>
       ELSE \/ /\ Written(c)
               /\ UNCHANGED <<free, pc, handle, start, pos, asked>>
            \/ /\ peer[c] = "reset"
               /\ Release(c)
    /\ UNCHANGED logVars

(* Open and, if the file was there before, go to its end; it may have been    *)
(* deleted since it was looked at, and the exception ends the thread.         *)
OpenFile(c) ==
    /\ pc[c] \in {"open_end", "open_start"}
    /\ IF file = NoFile
       THEN Release(c)
       ELSE LET skip == IF pc[c] = "open_end" THEN len[file] ELSE 0 IN
            /\ handle' = [handle EXCEPT ![c] = file]
            /\ start' = [start EXCEPT ![c] = skip]
            /\ pos' = [pos EXCEPT ![c] = skip]
            /\ Goto(c, "follow")
            /\ UNCHANGED <<free, peer, asked>>
    /\ UNCHANGED logVars

(* The next row of the open file, or a heartbeat at its end. *)
Follow(c) ==
    /\ pc[c] = "follow"
    /\ \/ /\ Written(c)
          /\ pos' = [pos EXCEPT ![c] = IF @ < len[handle[c]] THEN @ + 1 ELSE @]
          /\ UNCHANGED <<free, pc, handle, start, asked>>
       \/ /\ peer[c] = "reset"
          /\ Release(c)
    /\ UNCHANGED logVars

----------------------------------------------------------------------------
(* The agent. *)

(* JobLog.append: the file is created when it is not there. *)
AppendRow ==
    LET inode == IF file = NoFile THEN leaves + 1 ELSE file IN
        /\ len[inode] < MaxRows
        /\ file' = inode
        /\ len' = [len EXCEPT ![inode] = @ + 1]
        /\ UNCHANGED <<leaves, free, connVars>>

Leave ==
    /\ file # NoFile
    /\ leaves < MaxLeaves
    /\ leaves' = leaves + 1
    /\ file' = NoFile
    /\ UNCHANGED <<len, free, connVars>>

----------------------------------------------------------------------------
Serve(c) ==
    \/ Accept(c)
    \/ Refuse(c)
    \/ SendHeaders(c)
    \/ HeadersFail(c)
    \/ CheckFile(c)
    \/ WaitForFile(c)
    \/ OpenFile(c)
    \/ Follow(c)

Next ==
    \/ \E c \in Conns : Connect(c) \/ Close(c) \/ Serve(c)
    \/ AppendRow
    \/ Leave

Spec == Init /\ [][Next]_vars

(* The threads run; nobody is obliged to connect, to close or to append. *)
FairSpec == Spec /\ \A c \in Conns : WF_vars(Serve(c))

(* ... and clients go away in the end. *)
ClosingSpec == FairSpec /\ \A c \in Conns : WF_vars(Close(c))

----------------------------------------------------------------------------
Holding(c) == pc[c] \in {"headers", "check", "wait", "open_end", "open_start", "follow"}

TypeOK ==
    /\ file \in Inodes \cup {NoFile}
    /\ len \in [Inodes -> 0 .. MaxRows]
    /\ leaves \in 0 .. MaxLeaves
    /\ free \in 0 .. MaxClients
    /\ pc \in [Conns -> {"none", "accept", "headers", "check", "wait",
                         "open_end", "open_start", "follow"}]
    /\ handle \in [Conns -> Inodes \cup {NoFile}]
    /\ start \in [Conns -> 0 .. MaxRows]
    /\ pos \in [Conns -> 0 .. MaxRows]
    /\ peer \in [Conns -> {"none", "open", "closed", "reset"}]
    /\ asked \in [Conns -> [file : Inodes \cup {NoFile}, len : 0 .. MaxRows]]

(* No more than MAX_SSE_CLIENTS threads are live, and a slot is never given   *)
(* back twice, on any of the paths that end a thread.                         *)
SlotsAreNotOverrun == Cardinality({c \in Conns : Holding(c)}) + free <= MaxClients

(* A connection replays no row that was in the log when the client asked      *)
(* (the blocker test_logwall_sse_does_not_replay_history is about), even when *)
(* the log is created, or deleted and created again, in between.              *)
NoReplay ==
    \A c \in Conns : pc[c] = "follow" /\ handle[c] = asked[c].file
                        => start[c] >= asked[c].len

(* A client that has gone is noticed, log idle or not, and its slot is free   *)
(* again: the heartbeat's purpose.                                            *)
GoneClientsAreNoticed ==
    \A c \in Conns : Holding(c) /\ pc[c] # "headers" /\ peer[c] \in {"closed", "reset"}
                        ~> pc[c] = "none"

(* As clients come and go, a slot is free again and again.                    *)
SlotsRecover == []<>(free > 0)

(* iter_lines: "block and yield new records as they are appended".  A row of  *)
(* the file a live client follows reaches the client, unless the client goes. *)
(* A log that `leave` has deleted and a run has created again is another      *)
(* file: its rows do not.                                                     *)
RowsReachClients ==
    \A c \in Conns : \A i \in Inodes : \A n \in 1 .. MaxRows :
        pc[c] = "follow" /\ peer[c] = "open" /\ handle[c] = i /\ len[i] = n
            ~> (handle[c] = i /\ pos[c] >= n) \/ peer[c] # "open"
=============================================================================
