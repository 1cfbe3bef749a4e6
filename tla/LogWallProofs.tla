---------------------------- MODULE LogWallProofs ----------------------------
(***************************************************************************)
(* Invariants of LogWall for any number of connections, slots, rows and    *)
(* `leave`: no slot is given back twice on any of the paths that end a     *)
(* thread, and no connection replays what was in the log when the client   *)
(* asked.                                                                  *)
(***************************************************************************)
EXTENDS LogWall, FiniteSetTheorems, TLAPS

Live == {c \in Conns : Holding(c)}

(* The threads that hold a slot are finitely many, and fit. *)
Slots == IsFiniteSet(Live) /\ Cardinality(Live) + free <= MaxClients

(* An inode number is used once: the log, when it is there, has the next one, *)
(* and a thread that is past the look at the file follows one.                *)
Files ==
    /\ file \in {NoFile, leaves + 1}
    /\ \A c \in Conns : pc[c] = "follow" => handle[c] \in Inodes

(* What the client saw when it asked is part of a log that only grows; a      *)
(* thread that found no file starts a log the client cannot have seen.        *)
Asked ==
    \A c \in Conns :
        /\ asked[c].file = NoFile => asked[c].len = 0
        /\ asked[c].file # NoFile => asked[c].len <= len[asked[c].file]
        /\ asked[c].file <= leaves \/ asked[c].file = file
        /\ pc[c] \in {"wait", "open_start"} => asked[c].file <= leaves

IInv == TypeOK /\ Slots /\ Files /\ Asked /\ NoReplay

----------------------------------------------------------------------------
(* Every step keeps the slots: a thread takes one and gives it back once,     *)
(* unless it ends before the try block, which loses it.                       *)
LEMMA SlotsStep == TypeOK /\ Slots /\ [Next]_vars => Slots'
<1> SUFFICES ASSUME TypeOK, Slots, [Next]_vars PROVE Slots'
  OBVIOUS
<1> USE LogWallAssumption DEF TypeOK, Slots, Live, Holding
<1>same. ASSUME Live' = Live, free' = free PROVE Slots'
  BY <1>same
<1>end. ASSUME NEW c \in Conns, c \in Live, EndThread(c), free' \in {free, free + 1}
        PROVE Slots'
  <2>1. Live' = Live \ {c}
    BY <1>end DEF EndThread
  <2>2. /\ IsFiniteSet(Live \ {c})
        /\ Cardinality(Live \ {c}) = Cardinality(Live) - 1
    BY <1>end, FS_RemoveElement
  <2>3. Cardinality(Live) \in Nat
    BY FS_CardinalityType
  <2> HIDE DEF Live
  <2> QED BY <1>end, <2>1, <2>2, <2>3
<1>1. CASE UNCHANGED vars
  BY <1>1, <1>same DEF vars, connVars
<1>2. ASSUME NEW c \in Conns, Connect(c) PROVE Slots'
  BY <1>2, <1>same DEF Connect, Goto
<1>3. ASSUME NEW c \in Conns, Close(c) PROVE Slots'
  BY <1>3, <1>same DEF Close
<1>4. ASSUME NEW c \in Conns, Accept(c) PROVE Slots'
  <2>1. c \notin Live /\ Live' = Live \cup {c}
    BY <1>4 DEF Accept, Goto
  <2>2. /\ IsFiniteSet(Live \cup {c})
        /\ Cardinality(Live \cup {c}) = Cardinality(Live) + 1
    BY <2>1, FS_AddElement
  <2>3. Cardinality(Live) \in Nat
    BY FS_CardinalityType
  <2> HIDE DEF Live
  <2> QED BY <1>4, <2>1, <2>2, <2>3 DEF Accept
<1>5. ASSUME NEW c \in Conns, Refuse(c) PROVE Slots'
  BY <1>5, <1>same DEF Refuse, EndThread
<1>6. ASSUME NEW c \in Conns, SendHeaders(c) PROVE Slots'
  BY <1>6, <1>same DEF SendHeaders, Goto
<1>7. ASSUME NEW c \in Conns, HeadersFail(c) PROVE Slots'
  BY <1>7, <1>end DEF HeadersFail
<1>8. ASSUME NEW c \in Conns, CheckFile(c) PROVE Slots'
  BY <1>8, <1>same DEF CheckFile, Goto
<1>9. ASSUME NEW c \in Conns, WaitForFile(c) PROVE Slots'
  <2>1. CASE Release(c)
    BY <1>9, <2>1, <1>end DEF WaitForFile, Release
  <2>2. CASE ~Release(c)
    BY <1>9, <2>2, <1>same DEF WaitForFile, Goto
  <2> QED BY <2>1, <2>2
<1>10. ASSUME NEW c \in Conns, OpenFile(c) PROVE Slots'
  <2>1. CASE Release(c)
    BY <1>10, <2>1, <1>end DEF OpenFile, Release
  <2>2. CASE ~Release(c)
    BY <1>10, <2>2, <1>same DEF OpenFile, Goto
  <2> QED BY <2>1, <2>2
<1>11. ASSUME NEW c \in Conns, Follow(c) PROVE Slots'
  <2>1. CASE Release(c)
    BY <1>11, <2>1, <1>end DEF Follow, Release
  <2>2. CASE ~Release(c)
    BY <1>11, <2>2, <1>same DEF Follow
  <2> QED BY <2>1, <2>2
<1>12. CASE AppendRow
  BY <1>12, <1>same DEF AppendRow, connVars
<1>13. CASE Leave
  BY <1>13, <1>same DEF Leave, connVars
<1> QED
  BY <1>1, <1>2, <1>3, <1>4, <1>5, <1>6, <1>7, <1>8, <1>9, <1>10, <1>11, <1>12, <1>13
  DEF Next, Serve

(* Every step keeps the types, the file of each thread and what the client    *)
(* saw of it.                                                                 *)
LEMMA Step == IInv /\ [Next]_vars => TypeOK' /\ Files' /\ Asked' /\ NoReplay'
<1> SUFFICES ASSUME IInv, [Next]_vars PROVE TypeOK' /\ Files' /\ Asked' /\ NoReplay'
  OBVIOUS
<1>0. free' \in Nat => free' \in 0 .. MaxClients
  <2>1. IsFiniteSet(Live') /\ Cardinality(Live') + free' <= MaxClients
    BY SlotsStep DEF IInv, Slots
  <2>2. Cardinality(Live') \in Nat
    BY <2>1, FS_CardinalityType
  <2> QED BY <2>1, <2>2, LogWallAssumption
<1> USE LogWallAssumption DEF IInv, TypeOK, Files, Asked, NoReplay, Inodes, NoFile
<1>1. CASE UNCHANGED vars
  BY <1>1 DEF vars, logVars, connVars
<1>2. ASSUME NEW c \in Conns, Connect(c) PROVE TypeOK' /\ Files' /\ Asked' /\ NoReplay'
  BY SMTT(20), <1>2 DEF Connect, Goto, Now, logVars
<1>3. ASSUME NEW c \in Conns, Close(c) PROVE TypeOK' /\ Files' /\ Asked' /\ NoReplay'
  BY <1>3 DEF Close, logVars
<1>4. ASSUME NEW c \in Conns, Accept(c) PROVE TypeOK' /\ Files' /\ Asked' /\ NoReplay'
  BY <1>4 DEF Accept, Goto, logVars
<1>5. ASSUME NEW c \in Conns, Refuse(c) PROVE TypeOK' /\ Files' /\ Asked' /\ NoReplay'
  BY <1>5 DEF Refuse, EndThread, Never, logVars
<1>6. ASSUME NEW c \in Conns, SendHeaders(c) PROVE TypeOK' /\ Files' /\ Asked' /\ NoReplay'
  BY <1>6 DEF SendHeaders, Written, Goto, logVars
<1>7. ASSUME NEW c \in Conns, HeadersFail(c) PROVE TypeOK' /\ Files' /\ Asked' /\ NoReplay'
  BY <1>7 DEF HeadersFail, EndThread, Never, logVars
<1>8. ASSUME NEW c \in Conns, CheckFile(c) PROVE TypeOK' /\ Files' /\ Asked' /\ NoReplay'
  BY <1>8 DEF CheckFile, Goto, logVars
<1>release. ASSUME NEW c \in Conns, Release(c), UNCHANGED logVars
            PROVE TypeOK' /\ Files' /\ Asked' /\ NoReplay'
  BY <1>release, <1>0 DEF Release, EndThread, Never, logVars
<1>9. ASSUME NEW c \in Conns, WaitForFile(c) PROVE TypeOK' /\ Files' /\ Asked' /\ NoReplay'
  <2>1. CASE Release(c)
    BY <1>9, <2>1, <1>release DEF WaitForFile
  <2>2. CASE ~Release(c)
    BY <1>9, <2>2 DEF WaitForFile, Written, Goto, logVars
  <2> QED BY <2>1, <2>2
<1>10. ASSUME NEW c \in Conns, OpenFile(c) PROVE TypeOK' /\ Files' /\ Asked' /\ NoReplay'
  <2>1. CASE file = NoFile
    BY <1>10, <2>1, <1>release DEF OpenFile
  <2>2. CASE file # NoFile
    <3> DEFINE skip == IF pc[c] = "open_end" THEN len[file] ELSE 0
    <3>1. /\ file \in Inodes /\ len[file] \in 0 .. MaxRows
          /\ skip \in 0 .. MaxRows
      BY <2>2
    <3>2. /\ pc[c] \in {"open_end", "open_start"}
          /\ handle' = [handle EXCEPT ![c] = file]
          /\ start' = [start EXCEPT ![c] = skip]
          /\ pos' = [pos EXCEPT ![c] = skip]
          /\ pc' = [pc EXCEPT ![c] = "follow"]
          /\ UNCHANGED <<logVars, free, peer, asked>>
      BY <1>10, <2>2 DEF OpenFile, Goto
    <3>3. TypeOK' /\ Files' /\ Asked'
      <4> HIDE DEF skip
      <4> QED BY <3>1, <3>2 DEF logVars
    <3>4. asked[c].file = file => skip >= asked[c].len
      <4>1. CASE pc[c] = "open_end"
        BY <2>2, <4>1
      <4>2. CASE pc[c] = "open_start"
        <5>1. asked[c].file <= leaves /\ file = leaves + 1 /\ leaves \in Nat
          BY <2>2, <4>2
        <5> QED BY <5>1
      <4> QED BY <3>2, <4>1, <4>2
    <3>5. NoReplay'
      <4> HIDE DEF skip
      <4> QED BY <3>2, <3>4
    <3> QED BY <3>3, <3>5
  <2> QED BY <2>1, <2>2
<1>11. ASSUME NEW c \in Conns, Follow(c) PROVE TypeOK' /\ Files' /\ Asked' /\ NoReplay'
  <2>1. CASE Release(c)
    BY <1>11, <2>1, <1>release DEF Follow
  <2>2. CASE ~Release(c)
    <3>1. /\ pc[c] = "follow" /\ Written(c)
          /\ pos' = [pos EXCEPT ![c] = IF @ < len[handle[c]] THEN @ + 1 ELSE @]
          /\ UNCHANGED <<logVars, free, pc, handle, start, asked>>
      BY <1>11, <2>2 DEF Follow
    <3>2. len[handle[c]] \in 0 .. MaxRows
      BY <3>1
    <3>3. pos' \in [Conns -> 0 .. MaxRows]
      BY <3>1, <3>2
    <3> QED BY <3>1, <3>3 DEF Written, logVars
  <2> QED BY <2>1, <2>2
<1>12. CASE AppendRow
  <2>1. /\ leaves + 1 \in Inodes /\ len[leaves + 1] < MaxRows
        /\ file' = leaves + 1
        /\ len' = [len EXCEPT ![leaves + 1] = @ + 1]
        /\ UNCHANGED <<leaves, free, connVars>>
    <3> DEFINE inode == IF file = NoFile THEN leaves + 1 ELSE file
    <3>1. inode = leaves + 1
      OBVIOUS
    <3>2. leaves + 1 \in Inodes
      OBVIOUS
    <3> QED BY <1>12, <3>1, <3>2 DEF AppendRow
  <2>2. TypeOK' /\ Files' /\ NoReplay'
    BY SMTT(20), <2>1 DEF connVars
  <2>3. Asked'
    <3> SUFFICES ASSUME NEW c \in Conns
                 PROVE  /\ asked[c].file # NoFile => asked[c].len <= len'[asked[c].file]
                        /\ asked[c].file <= leaves \/ asked[c].file = leaves + 1
      BY <2>1 DEF connVars
    <3>1. asked[c].file \in Inodes \cup {NoFile} /\ asked[c].len \in Nat
      BY <1>12
    <3> QED BY <2>1, <3>1
  <2> QED BY <2>2, <2>3
<1>13. CASE Leave
  BY <1>13 DEF Leave, connVars
<1> QED
  BY <1>1, <1>2, <1>3, <1>4, <1>5, <1>6, <1>7, <1>8, <1>9, <1>10, <1>11, <1>12, <1>13
  DEF Next, Serve

----------------------------------------------------------------------------
(* The invariant is one of the specification. *)
LEMMA Initially == Init => IInv
<1> SUFFICES ASSUME Init PROVE IInv
  OBVIOUS
<1>1. Live = {}
  BY DEF Init, Live, Holding
<1>2. Slots
  BY <1>1, FS_EmptySet, LogWallAssumption DEF Init, Slots
<1> QED
  BY <1>2, LogWallAssumption
  DEF Init, IInv, TypeOK, Files, Asked, NoReplay, Never, Inodes, NoFile

LEMMA Invariant == Spec => []IInv
<1>1. IInv /\ [Next]_vars => IInv'
  BY SlotsStep, Step DEF IInv
<1> QED BY <1>1, Initially, PTL DEF Spec

(* The log, the semaphore and the threads keep their types. *)
THEOREM TypeCorrect == Spec => []TypeOK
<1>1. IInv => TypeOK
  BY DEF IInv
<1> QED BY <1>1, Invariant, PTL

(* _serve_events: with any number of connections, never more than             *)
(* MAX_SSE_CLIENTS of them hold a slot, and no path gives one back twice.     *)
THEOREM SlotsCorrect == Spec => []SlotsAreNotOverrun
<1>1. IInv => SlotsAreNotOverrun
  BY DEF IInv, Slots, Live, SlotsAreNotOverrun
<1> QED BY <1>1, Invariant, PTL

(* iter_lines with since_end: however often the log is created, deleted and   *)
(* created again around the look at the file, no row the log held when the    *)
(* client asked is sent to it.                                                *)
THEOREM ReplayFree == Spec => []NoReplay
<1>1. IInv => NoReplay
  BY DEF IInv
<1> QED BY <1>1, Invariant, PTL
=============================================================================
