--------------------------- MODULE LogShipProofs ---------------------------
(***************************************************************************)
(* Invariants of LogShip, however long the log, however many rows are      *)
(* poisoned and however often a shipper dies, of any number of shippers.   *)
(* That no row is skipped holds until a number is garbled, which takes two *)
(* of them at once; that none is shipped twice holds until two overlap.    *)
(***************************************************************************)
EXTENDS LogShip, TLAPS

(* Each `leave` deletes each file once at most. *)
Deletions ==
    /\ log + (IF "joblog" \in todo THEN 1 ELSE 0) <= leaves
    /\ file + (IF "offset" \in todo THEN 1 ELSE 0) <= leaves

(* What a shipper has in hand, and what the core has said of it. *)
Control ==
    \A p \in Shippers :
        /\ pc[p] = "await" => conn[p] # "none"
        /\ conn[p] # "none" => pc[p] \in {"await", "open", "write", "row"}
        /\ pc[p] \in {"open", "write", "row"} => conn[p] \in {"accepted", "refused"}
        /\ conn[p] = "accepted" => Batch(p) \subseteq delivered
        /\ conn[p] = "refused" => Batch(p) \subseteq refused

(* Until they overlap, shippers are under way one at a time. *)
Single ==
    ~overlapped => \A p, q \in Shippers : pc[p] # "off" /\ pc[q] # "off" => p = q

IInv == TypeOK /\ Deletions /\ Control /\ Single

Handled(n) == <<log, n>> \in delivered \cup refused

(* As long as no shipper meets a `leave` and no number is garbled: the cursor *)
(* and what a shipper has read of it lie in the log, behind rows that are     *)
(* handled; and a cursor that is about another log is about to be deleted.    *)
Behind ==
    ~mingled /\ ~garbled =>
        /\ todo = {} => Offset <= len /\ \A n \in 1 .. Offset : Handled(n)
        /\ todo # {} => "offset" \in todo \/ cursor = NoCursor
        /\ \A p \in Shippers :
            /\ pc[p] # "off" => todo = {}
            /\ pc[p] \notin {"off", "row"} =>
                from[p] <= len /\ \A n \in 1 .. from[p] : Handled(n)
            /\ pc[p] \in {"post", "await", "open", "write"} =>
                from[p] < upto[p] /\ upto[p] <= len /\ read[p] = log

(* A shipper that is about to write, alone, finds the file it has emptied.    *)
Emptied ==
    /\ garbled => overlapped
    /\ \A p \in Shippers :
        /\ opened[p] <= file
        /\ ~overlapped /\ pc[p] = "write" /\ opened[p] = file => cursor \in {0, NoCursor}

(* As long as nobody overlaps, dies or leaves: the rows whose acceptance was  *)
(* seen lie behind the cursor, or in the batch that is about to move it.      *)
Acknowledged ==
    ~overlapped /\ crashes = 0 /\ leaves = 0 =>
        /\ (\A p \in Shippers : pc[p] \notin {"open", "write"}) =>
            \A row \in acked : row[2] <= Offset
        /\ \A p \in Shippers :
            /\ pc[p] \in {"read", "post", "await"} => from[p] = Offset
            /\ pc[p] \in {"open", "write"} => \A row \in acked : row[2] <= upto[p]
            /\ pc[p] \in {"post", "await", "open", "write"} => from[p] < upto[p]
            /\ pc[p] = "write" => opened[p] = file /\ cursor = 0

----------------------------------------------------------------------------
(* Every step keeps the types. *)
LEMMA TypeStep == IInv /\ [Next]_vars => TypeOK'
<1> SUFFICES ASSUME IInv, [Next]_vars PROVE TypeOK'
  OBVIOUS
<1> USE LogShipAssumption DEF IInv, TypeOK, Deletions, Logs, RowNames
<1>1. CASE UNCHANGED vars
  BY <1>1 DEF vars, shipVars, leaveVars, coreVars, flagVars
<1>2. ASSUME NEW p \in Shippers, ReadCursor(p) PROVE TypeOK'
  BY <1>2 DEF ReadCursor, leaveVars, coreVars, flagVars, Goto, Offset
<1>3. ASSUME NEW p \in Shippers, NothingToShip(p) PROVE TypeOK'
  BY <1>3 DEF NothingToShip, leaveVars, coreVars, flagVars, Exit
<1>4. ASSUME NEW p \in Shippers, ReadLog(p) PROVE TypeOK'
  BY <1>4 DEF ReadLog, leaveVars, coreVars, flagVars, Goto
<1>5. ASSUME NEW p \in Shippers, Post(p) PROVE TypeOK'
  BY <1>5 DEF Post, leaveVars, coreVars, flagVars, Goto
<1>6. ASSUME NEW p \in Shippers, ReceiveAnswer(p) PROVE TypeOK'
  BY <1>6 DEF ReceiveAnswer, leaveVars, flagVars, Goto, Batch
<1>7. ASSUME NEW p \in Shippers, TransportError(p) PROVE TypeOK'
  BY <1>7 DEF TransportError, leaveVars, coreVars, flagVars, Exit, AppendOne
<1>8. ASSUME NEW p \in Shippers, OpenCursor(p) PROVE TypeOK'
  BY <1>8 DEF OpenCursor, leaveVars, coreVars, flagVars, Goto
<1>9. ASSUME NEW p \in Shippers, WriteCursor(p) PROVE TypeOK'
  <2>1. /\ pc' = [pc EXCEPT ![p] = "row"]
        /\ UNCHANGED <<len, from, upto, read, opened, conn, todo, leaves, log, file, delivered,
                       refused, acked, mingled, overlapped, crashes>>
    BY <1>9 DEF WriteCursor, leaveVars, coreVars, flagVars, Goto
  <2>2. cursor' \in 0 .. MaxRows \cup {NoCursor} /\ garbled' \in BOOLEAN
    <3>1. CASE opened[p] # file \/ cursor = NoCursor
      BY <1>9, <3>1 DEF WriteCursor
    <3>2. CASE ~(opened[p] # file \/ cursor = NoCursor)
      <4>1. cursor' \in {upto[p]} \cup upto[p] .. MaxRows
        BY <1>9, <3>2 DEF WriteCursor
      <4>2. garbled' \in BOOLEAN
        BY <1>9, <3>2 DEF WriteCursor
      <4>3. QED
        BY <4>1, <4>2
    <3>3. QED
      BY <3>1, <3>2
  <2>3. QED
    BY <2>1, <2>2
<1>10. ASSUME NEW p \in Shippers, LogOutcome(p) PROVE TypeOK'
  BY <1>10 DEF LogOutcome, leaveVars, coreVars, flagVars, Exit, AppendOne
<1>11. ASSUME NEW p \in Shippers, Crash(p) PROVE TypeOK'
  BY <1>11 DEF Crash, leaveVars, coreVars, flagVars, Exit
<1>12. ASSUME NEW p \in Shippers, CoreTakes(p) PROVE TypeOK'
  BY <1>12 DEF CoreTakes, leaveVars, flagVars, Batch
<1>13. ASSUME NEW p \in Shippers, CoreRefuses(p) PROVE TypeOK'
  BY <1>13 DEF CoreRefuses, leaveVars, flagVars, Batch
<1>14. CASE AppendRow
  BY <1>14 DEF AppendRow, shipVars, leaveVars, coreVars, flagVars, AppendOne
<1>15. CASE LeaveBegin
  BY <1>15 DEF LeaveBegin, shipVars, coreVars, flagVars
<1>16. CASE UnlinkLog
  BY <1>16 DEF UnlinkLog, shipVars, coreVars, flagVars
<1>17. CASE UnlinkCursor
  BY <1>17 DEF UnlinkCursor, shipVars, coreVars, flagVars
<1>18. QED
  BY <1>1, <1>2, <1>3, <1>4, <1>5, <1>6, <1>7, <1>8, <1>9, <1>10, <1>11, <1>12, <1>13, <1>14,
     <1>15, <1>16, <1>17
  DEF Next, ShipStep, CoreStep

(* A `leave` deletes what it has listed, and lists when it begins. *)
LEMMA DeletionsStep == IInv /\ [Next]_vars => Deletions'
<1> SUFFICES ASSUME IInv, [Next]_vars PROVE Deletions'
  OBVIOUS
<1> USE LogShipAssumption DEF IInv, TypeOK, Deletions, Logs
<1>1. CASE UNCHANGED vars
  BY <1>1 DEF vars, shipVars, leaveVars, coreVars, flagVars
<1>2. ASSUME NEW p \in Shippers, ReadCursor(p) PROVE Deletions'
  BY <1>2 DEF ReadCursor, leaveVars, coreVars, flagVars, Goto, Offset
<1>3. ASSUME NEW p \in Shippers, NothingToShip(p) PROVE Deletions'
  BY <1>3 DEF NothingToShip, leaveVars, coreVars, flagVars, Exit
<1>4. ASSUME NEW p \in Shippers, ReadLog(p) PROVE Deletions'
  BY <1>4 DEF ReadLog, leaveVars, coreVars, flagVars, Goto
<1>5. ASSUME NEW p \in Shippers, Post(p) PROVE Deletions'
  BY <1>5 DEF Post, leaveVars, coreVars, flagVars, Goto
<1>6. ASSUME NEW p \in Shippers, ReceiveAnswer(p) PROVE Deletions'
  BY <1>6 DEF ReceiveAnswer, leaveVars, flagVars, Goto, Batch
<1>7. ASSUME NEW p \in Shippers, TransportError(p) PROVE Deletions'
  BY <1>7 DEF TransportError, leaveVars, coreVars, flagVars, Exit, AppendOne
<1>8. ASSUME NEW p \in Shippers, OpenCursor(p) PROVE Deletions'
  BY <1>8 DEF OpenCursor, leaveVars, coreVars, flagVars, Goto
<1>9. ASSUME NEW p \in Shippers, WriteCursor(p) PROVE Deletions'
  BY <1>9 DEF WriteCursor, leaveVars, coreVars, flagVars, Goto
<1>10. ASSUME NEW p \in Shippers, LogOutcome(p) PROVE Deletions'
  BY <1>10 DEF LogOutcome, leaveVars, coreVars, flagVars, Exit, AppendOne
<1>11. ASSUME NEW p \in Shippers, Crash(p) PROVE Deletions'
  BY <1>11 DEF Crash, leaveVars, coreVars, flagVars, Exit
<1>12. ASSUME NEW p \in Shippers, CoreTakes(p) PROVE Deletions'
  BY <1>12 DEF CoreTakes, leaveVars, flagVars, Batch
<1>13. ASSUME NEW p \in Shippers, CoreRefuses(p) PROVE Deletions'
  BY <1>13 DEF CoreRefuses, leaveVars, flagVars, Batch
<1>14. CASE AppendRow
  BY <1>14 DEF AppendRow, shipVars, leaveVars, coreVars, flagVars, AppendOne
<1>15. CASE LeaveBegin
  BY <1>15 DEF LeaveBegin, shipVars, coreVars, flagVars
<1>16. CASE UnlinkLog
  BY <1>16 DEF UnlinkLog, shipVars, coreVars, flagVars
<1>17. CASE UnlinkCursor
  BY <1>17 DEF UnlinkCursor, shipVars, coreVars, flagVars
<1>18. QED
  BY <1>1, <1>2, <1>3, <1>4, <1>5, <1>6, <1>7, <1>8, <1>9, <1>10, <1>11, <1>12, <1>13, <1>14,
     <1>15, <1>16, <1>17
  DEF Next, ShipStep, CoreStep

(* Every step keeps what the shippers have in hand. *)
LEMMA ControlStep == IInv /\ [Next]_vars => Control'
<1> SUFFICES ASSUME IInv, [Next]_vars PROVE Control'
  OBVIOUS
<1> USE LogShipAssumption DEF IInv, TypeOK, Control, Batch
<1>1. CASE UNCHANGED vars
  BY <1>1 DEF vars, shipVars, leaveVars, coreVars, flagVars
<1>2. ASSUME NEW p \in Shippers, ReadCursor(p) PROVE Control'
  BY <1>2 DEF ReadCursor, leaveVars, coreVars, flagVars, Goto, Offset
<1>3. ASSUME NEW p \in Shippers, NothingToShip(p) PROVE Control'
  BY <1>3 DEF NothingToShip, leaveVars, coreVars, flagVars, Exit
<1>4. ASSUME NEW p \in Shippers, ReadLog(p) PROVE Control'
  BY <1>4 DEF ReadLog, leaveVars, coreVars, flagVars, Goto
<1>5. ASSUME NEW p \in Shippers, Post(p) PROVE Control'
  BY <1>5 DEF Post, leaveVars, coreVars, flagVars, Goto
<1>6. ASSUME NEW p \in Shippers, ReceiveAnswer(p) PROVE Control'
  BY <1>6 DEF ReceiveAnswer, leaveVars, flagVars, Goto, Batch
<1>7. ASSUME NEW p \in Shippers, TransportError(p) PROVE Control'
  BY <1>7 DEF TransportError, leaveVars, coreVars, flagVars, Exit, AppendOne
<1>8. ASSUME NEW p \in Shippers, OpenCursor(p) PROVE Control'
  BY <1>8 DEF OpenCursor, leaveVars, coreVars, flagVars, Goto
<1>9. ASSUME NEW p \in Shippers, WriteCursor(p) PROVE Control'
  BY <1>9 DEF WriteCursor, leaveVars, coreVars, flagVars, Goto
<1>10. ASSUME NEW p \in Shippers, LogOutcome(p) PROVE Control'
  BY <1>10 DEF LogOutcome, leaveVars, coreVars, flagVars, Exit, AppendOne
<1>11. ASSUME NEW p \in Shippers, Crash(p) PROVE Control'
  BY <1>11 DEF Crash, leaveVars, coreVars, flagVars, Exit
<1>12. ASSUME NEW p \in Shippers, CoreTakes(p) PROVE Control'
  BY <1>12 DEF CoreTakes, leaveVars, flagVars, Batch
<1>13. ASSUME NEW p \in Shippers, CoreRefuses(p) PROVE Control'
  BY <1>13 DEF CoreRefuses, leaveVars, flagVars, Batch
<1>14. CASE AppendRow
  BY <1>14 DEF AppendRow, shipVars, leaveVars, coreVars, flagVars, AppendOne
<1>15. CASE LeaveBegin
  BY <1>15 DEF LeaveBegin, shipVars, coreVars, flagVars
<1>16. CASE UnlinkLog
  BY <1>16 DEF UnlinkLog, shipVars, coreVars, flagVars
<1>17. CASE UnlinkCursor
  BY <1>17 DEF UnlinkCursor, shipVars, coreVars, flagVars
<1>18. QED
  BY <1>1, <1>2, <1>3, <1>4, <1>5, <1>6, <1>7, <1>8, <1>9, <1>10, <1>11, <1>12, <1>13, <1>14,
     <1>15, <1>16, <1>17
  DEF Next, ShipStep, CoreStep

(* A shipper that starts next to another is an overlap. *)
LEMMA SingleStep == IInv /\ [Next]_vars => Single'
<1> SUFFICES ASSUME IInv, [Next]_vars PROVE Single'
  OBVIOUS
<1> USE LogShipAssumption DEF IInv, TypeOK, Single
<1>1. CASE UNCHANGED vars
  BY <1>1 DEF vars, shipVars, leaveVars, coreVars, flagVars
<1>2. ASSUME NEW p \in Shippers, ReadCursor(p) PROVE Single'
  BY <1>2 DEF ReadCursor, leaveVars, coreVars, flagVars, Goto, Offset
<1>3. ASSUME NEW p \in Shippers, NothingToShip(p) PROVE Single'
  BY <1>3 DEF NothingToShip, leaveVars, coreVars, flagVars, Exit
<1>4. ASSUME NEW p \in Shippers, ReadLog(p) PROVE Single'
  BY <1>4 DEF ReadLog, leaveVars, coreVars, flagVars, Goto
<1>5. ASSUME NEW p \in Shippers, Post(p) PROVE Single'
  BY <1>5 DEF Post, leaveVars, coreVars, flagVars, Goto
<1>6. ASSUME NEW p \in Shippers, ReceiveAnswer(p) PROVE Single'
  BY <1>6 DEF ReceiveAnswer, leaveVars, flagVars, Goto, Batch
<1>7. ASSUME NEW p \in Shippers, TransportError(p) PROVE Single'
  BY <1>7 DEF TransportError, leaveVars, coreVars, flagVars, Exit, AppendOne
<1>8. ASSUME NEW p \in Shippers, OpenCursor(p) PROVE Single'
  BY <1>8 DEF OpenCursor, leaveVars, coreVars, flagVars, Goto
<1>9. ASSUME NEW p \in Shippers, WriteCursor(p) PROVE Single'
  BY <1>9 DEF WriteCursor, leaveVars, coreVars, flagVars, Goto
<1>10. ASSUME NEW p \in Shippers, LogOutcome(p) PROVE Single'
  BY <1>10 DEF LogOutcome, leaveVars, coreVars, flagVars, Exit, AppendOne
<1>11. ASSUME NEW p \in Shippers, Crash(p) PROVE Single'
  BY <1>11 DEF Crash, leaveVars, coreVars, flagVars, Exit
<1>12. ASSUME NEW p \in Shippers, CoreTakes(p) PROVE Single'
  BY <1>12 DEF CoreTakes, leaveVars, flagVars, Batch
<1>13. ASSUME NEW p \in Shippers, CoreRefuses(p) PROVE Single'
  BY <1>13 DEF CoreRefuses, leaveVars, flagVars, Batch
<1>14. CASE AppendRow
  BY <1>14 DEF AppendRow, shipVars, leaveVars, coreVars, flagVars, AppendOne
<1>15. CASE LeaveBegin
  BY <1>15 DEF LeaveBegin, shipVars, coreVars, flagVars
<1>16. CASE UnlinkLog
  BY <1>16 DEF UnlinkLog, shipVars, coreVars, flagVars
<1>17. CASE UnlinkCursor
  BY <1>17 DEF UnlinkCursor, shipVars, coreVars, flagVars
<1>18. QED
  BY <1>1, <1>2, <1>3, <1>4, <1>5, <1>6, <1>7, <1>8, <1>9, <1>10, <1>11, <1>12, <1>13, <1>14,
     <1>15, <1>16, <1>17
  DEF Next, ShipStep, CoreStep

(* The invariant holds in every state. *)
LEMMA Invariance == Spec => []IInv
<1>1. Init => IInv
  <2> SUFFICES ASSUME Init PROVE IInv
    OBVIOUS
  <2>1. MaxRows \in Nat /\ MaxLeaves \in Nat /\ MaxCrashes \in Nat
    BY LogShipAssumption
  <2>2. TypeOK
    <3>1. /\ len \in 0 .. MaxRows
          /\ cursor \in 0 .. MaxRows \cup {NoCursor}
          /\ leaves \in 0 .. MaxLeaves
          /\ log \in Logs
          /\ file \in Logs
          /\ crashes \in 0 .. MaxCrashes
      BY <2>1 DEF Init, Logs
    <3>2. /\ from \in [Shippers -> 0 .. MaxRows]
          /\ upto \in [Shippers -> 0 .. MaxRows]
          /\ read \in [Shippers -> Logs]
          /\ opened \in [Shippers -> Logs]
      BY <2>1 DEF Init, Logs
    <3>3. QED
      BY <3>1, <3>2 DEF Init, TypeOK
  <2>3. Deletions
    BY DEF Init, Deletions
  <2>4. Control
    BY DEF Init, Control
  <2>5. Single
    BY DEF Init, Single
  <2>6. QED
    BY <2>2, <2>3, <2>4, <2>5 DEF IInv
<1>2. IInv /\ [Next]_vars => IInv'
  BY TypeStep, DeletionsStep, ControlStep, SingleStep DEF IInv
<1>3. QED
  BY <1>1, <1>2, PTL DEF Spec

(* The files, the shippers, `leave` and the core keep their types, whatever   *)
(* overlaps, dies or is deleted.                                              *)
THEOREM TypeCorrect == Spec => []TypeOK
<1>1. IInv => TypeOK
  BY DEF IInv
<1>2. QED
  BY Invariance, <1>1, PTL

----------------------------------------------------------------------------
(* Every step keeps the cursor behind what is handled. *)
LEMMA BehindStep == IInv /\ IInv' /\ Behind /\ [Next]_vars => Behind'
<1> SUFFICES ASSUME IInv, IInv', Behind, [Next]_vars PROVE Behind'
  OBVIOUS
<1> USE LogShipAssumption DEF IInv, TypeOK, Logs, RowNames, Control, Behind, Handled,
   Offset, Batch
<1>1. CASE UNCHANGED vars
  BY <1>1 DEF vars, shipVars, leaveVars, coreVars, flagVars
<1>2. ASSUME NEW p \in Shippers, ReadCursor(p) PROVE Behind'
  <2>1. /\ pc[p] = "off" /\ pc' = [pc EXCEPT ![p] = "read"] /\ from' = [from EXCEPT ![p] = Offset]
        /\ mingled' = (mingled \/ todo # {})
        /\ UNCHANGED <<len, cursor, upto, read, log, todo, delivered, refused, garbled>>
    BY <1>2 DEF ReadCursor, leaveVars, coreVars, Goto
  <2>2. SUFFICES ASSUME ~mingled, ~garbled, todo = {} PROVE Behind'
    BY <2>1
  <2>3. Offset <= len /\ \A n \in 1 .. Offset : Handled(n)
    BY <2>2
  <2>4. ASSUME NEW q \in Shippers
        PROVE  /\ pc'[q] \notin {"off", "row"} =>
                     from'[q] <= len' /\ \A n \in 1 .. from'[q] : Handled(n)'
               /\ pc'[q] \in {"post", "await", "open", "write"} =>
                     from'[q] < upto'[q] /\ upto'[q] <= len' /\ read'[q] = log'
    <3>1. CASE q = p
      BY <2>1, <2>3, <3>1
    <3>2. CASE q # p
      BY <2>1, <2>2, <3>2
    <3> QED BY <3>1, <3>2
  <2> QED BY <2>1, <2>2, <2>3, <2>4
<1>3. ASSUME NEW p \in Shippers, NothingToShip(p) PROVE Behind'
  BY <1>3 DEF NothingToShip, leaveVars, coreVars, flagVars, Exit
<1>4. ASSUME NEW p \in Shippers, ReadLog(p) PROVE Behind'
  BY <1>4 DEF ReadLog, leaveVars, coreVars, flagVars, Goto
<1>5. ASSUME NEW p \in Shippers, Post(p) PROVE Behind'
  BY <1>5 DEF Post, leaveVars, coreVars, flagVars, Goto
<1>6. ASSUME NEW p \in Shippers, ReceiveAnswer(p) PROVE Behind'
  BY <1>6 DEF ReceiveAnswer, leaveVars, flagVars, Goto
<1>7. ASSUME NEW p \in Shippers, TransportError(p) PROVE Behind'
  BY <1>7 DEF TransportError, leaveVars, coreVars, flagVars, Exit, AppendOne
<1>8. ASSUME NEW p \in Shippers, OpenCursor(p) PROVE Behind'
  <2>1. /\ cursor' = 0
        /\ pc[p] = "open" /\ pc' = [pc EXCEPT ![p] = "write"]
        /\ UNCHANGED <<len, from, upto, read, log, todo, delivered, refused, mingled, garbled>>
    BY <1>8 DEF OpenCursor, leaveVars, coreVars, flagVars, Goto
  <2>2. SUFFICES ASSUME ~mingled, ~garbled PROVE Behind'
    BY <2>1
  <2>3. todo' = {}
    BY <2>1, <2>2
  <2>4. Offset' <= len' /\ \A n \in 1 .. Offset' : Handled(n)'
    BY <2>1
  <2>5. ASSUME NEW q \in Shippers
        PROVE  /\ pc'[q] \notin {"off", "row"} =>
                     from'[q] <= len' /\ \A n \in 1 .. from'[q] : Handled(n)'
               /\ pc'[q] \in {"post", "await", "open", "write"} =>
                     from'[q] < upto'[q] /\ upto'[q] <= len' /\ read'[q] = log'
    BY <2>1, <2>2
  <2>6. QED
    BY <2>3, <2>4, <2>5
<1>9. ASSUME NEW p \in Shippers, WriteCursor(p) PROVE Behind'
  BY <1>9 DEF WriteCursor, leaveVars, coreVars, flagVars, Goto
<1>10. ASSUME NEW p \in Shippers, LogOutcome(p) PROVE Behind'
  BY <1>10 DEF LogOutcome, leaveVars, coreVars, flagVars, Exit, AppendOne
<1>11. ASSUME NEW p \in Shippers, Crash(p) PROVE Behind'
  BY <1>11 DEF Crash, leaveVars, coreVars, flagVars, Exit
<1>12. ASSUME NEW p \in Shippers, CoreTakes(p) PROVE Behind'
  BY <1>12 DEF CoreTakes, leaveVars, flagVars
<1>13. ASSUME NEW p \in Shippers, CoreRefuses(p) PROVE Behind'
  BY <1>13 DEF CoreRefuses, leaveVars, flagVars
<1>14. CASE AppendRow
  BY <1>14 DEF AppendRow, shipVars, leaveVars, coreVars, flagVars, AppendOne
<1>15. CASE LeaveBegin
  BY <1>15 DEF LeaveBegin, shipVars, coreVars, flagVars
<1>16. CASE UnlinkLog
  BY <1>16 DEF UnlinkLog, shipVars, coreVars, flagVars
<1>17. CASE UnlinkCursor
  BY <1>17 DEF UnlinkCursor, shipVars, coreVars, flagVars
<1>18. QED
  BY <1>1, <1>2, <1>3, <1>4, <1>5, <1>6, <1>7, <1>8, <1>9, <1>10, <1>11, <1>12, <1>13, <1>14,
     <1>15, <1>16, <1>17
  DEF Next, ShipStep, CoreStep

(* Every step keeps what was acknowledged behind the cursor. *)
LEMMA AcknowledgedStep == IInv /\ IInv' /\ Acknowledged /\ [Next]_vars =>
   Acknowledged'
<1> SUFFICES ASSUME IInv, IInv', Acknowledged, [Next]_vars PROVE Acknowledged'
  OBVIOUS
<1> USE LogShipAssumption DEF IInv, Single, TypeOK, Deletions, Logs, RowNames, Control,
   Acknowledged, Offset, Batch
<1>1. CASE UNCHANGED vars
  BY <1>1 DEF vars, shipVars, leaveVars, coreVars, flagVars
<1>2. ASSUME NEW p \in Shippers, ReadCursor(p) PROVE Acknowledged'
  BY <1>2 DEF ReadCursor, leaveVars, coreVars, flagVars, Goto
<1>3. ASSUME NEW p \in Shippers, NothingToShip(p) PROVE Acknowledged'
  BY <1>3 DEF NothingToShip, leaveVars, coreVars, flagVars, Exit
<1>4. ASSUME NEW p \in Shippers, ReadLog(p) PROVE Acknowledged'
  BY <1>4 DEF ReadLog, leaveVars, coreVars, flagVars, Goto
<1>5. ASSUME NEW p \in Shippers, Post(p) PROVE Acknowledged'
  BY <1>5 DEF Post, leaveVars, coreVars, flagVars, Goto
<1>6. ASSUME NEW p \in Shippers, ReceiveAnswer(p) PROVE Acknowledged'
  BY <1>6 DEF ReceiveAnswer, leaveVars, flagVars, Goto
<1>7. ASSUME NEW p \in Shippers, TransportError(p) PROVE Acknowledged'
  BY <1>7 DEF TransportError, leaveVars, coreVars, flagVars, Exit, AppendOne
<1>8. ASSUME NEW p \in Shippers, OpenCursor(p) PROVE Acknowledged'
  BY <1>8 DEF OpenCursor, leaveVars, coreVars, flagVars, Goto
<1>9. ASSUME NEW p \in Shippers, WriteCursor(p) PROVE Acknowledged'
  BY <1>9 DEF WriteCursor, leaveVars, coreVars, flagVars, Goto
<1>10. ASSUME NEW p \in Shippers, LogOutcome(p) PROVE Acknowledged'
  BY <1>10 DEF LogOutcome, leaveVars, coreVars, flagVars, Exit, AppendOne
<1>11. ASSUME NEW p \in Shippers, Crash(p) PROVE Acknowledged'
  BY <1>11 DEF Crash, leaveVars, coreVars, flagVars, Exit
<1>12. ASSUME NEW p \in Shippers, CoreTakes(p) PROVE Acknowledged'
  BY <1>12 DEF CoreTakes, leaveVars, flagVars
<1>13. ASSUME NEW p \in Shippers, CoreRefuses(p) PROVE Acknowledged'
  BY <1>13 DEF CoreRefuses, leaveVars, flagVars
<1>14. CASE AppendRow
  BY <1>14 DEF AppendRow, shipVars, leaveVars, coreVars, flagVars, AppendOne
<1>15. CASE LeaveBegin
  BY <1>15 DEF LeaveBegin, shipVars, coreVars, flagVars
<1>16. CASE UnlinkLog
  BY <1>16 DEF UnlinkLog, shipVars, coreVars, flagVars
<1>17. CASE UnlinkCursor
  BY <1>17 DEF UnlinkCursor, shipVars, coreVars, flagVars
<1>18. QED
  BY <1>1, <1>2, <1>3, <1>4, <1>5, <1>6, <1>7, <1>8, <1>9, <1>10, <1>11, <1>12, <1>13, <1>14,
     <1>15, <1>16, <1>17
  DEF Next, ShipStep, CoreStep

(* Every step finds the cursor file as the last one left it. *)
LEMMA EmptiedStep == IInv /\ Emptied /\ [Next]_vars => Emptied'
<1> SUFFICES ASSUME IInv, Emptied, [Next]_vars PROVE Emptied'
  OBVIOUS
<1> USE LogShipAssumption DEF IInv, Single, TypeOK, Logs, Emptied
<1>1. CASE UNCHANGED vars
  BY <1>1 DEF vars, shipVars, leaveVars, coreVars, flagVars
<1>2. ASSUME NEW p \in Shippers, ReadCursor(p) PROVE Emptied'
  BY <1>2 DEF ReadCursor, leaveVars, coreVars, flagVars, Goto
<1>3. ASSUME NEW p \in Shippers, NothingToShip(p) PROVE Emptied'
  BY <1>3 DEF NothingToShip, leaveVars, coreVars, flagVars, Exit
<1>4. ASSUME NEW p \in Shippers, ReadLog(p) PROVE Emptied'
  BY <1>4 DEF ReadLog, leaveVars, coreVars, flagVars, Goto
<1>5. ASSUME NEW p \in Shippers, Post(p) PROVE Emptied'
  BY <1>5 DEF Post, leaveVars, coreVars, flagVars, Goto
<1>6. ASSUME NEW p \in Shippers, ReceiveAnswer(p) PROVE Emptied'
  BY <1>6 DEF ReceiveAnswer, leaveVars, flagVars, Goto
<1>7. ASSUME NEW p \in Shippers, TransportError(p) PROVE Emptied'
  BY <1>7 DEF TransportError, leaveVars, coreVars, flagVars, Exit, AppendOne
<1>8. ASSUME NEW p \in Shippers, OpenCursor(p) PROVE Emptied'
  BY <1>8 DEF OpenCursor, leaveVars, coreVars, flagVars, Goto
<1>9. ASSUME NEW p \in Shippers, WriteCursor(p) PROVE Emptied'
  BY <1>9 DEF WriteCursor, leaveVars, coreVars, flagVars, Goto
<1>10. ASSUME NEW p \in Shippers, LogOutcome(p) PROVE Emptied'
  BY <1>10 DEF LogOutcome, leaveVars, coreVars, flagVars, Exit, AppendOne
<1>11. ASSUME NEW p \in Shippers, Crash(p) PROVE Emptied'
  BY <1>11 DEF Crash, leaveVars, coreVars, flagVars, Exit
<1>12. ASSUME NEW p \in Shippers, CoreTakes(p) PROVE Emptied'
  BY <1>12 DEF CoreTakes, leaveVars, flagVars
<1>13. ASSUME NEW p \in Shippers, CoreRefuses(p) PROVE Emptied'
  BY <1>13 DEF CoreRefuses, leaveVars, flagVars
<1>14. CASE AppendRow
  BY <1>14 DEF AppendRow, shipVars, leaveVars, coreVars, flagVars, AppendOne
<1>15. CASE LeaveBegin
  BY <1>15 DEF LeaveBegin, shipVars, coreVars, flagVars
<1>16. CASE UnlinkLog
  BY <1>16 DEF UnlinkLog, shipVars, coreVars, flagVars
<1>17. CASE UnlinkCursor
  BY <1>17 DEF UnlinkCursor, shipVars, coreVars, flagVars
<1>18. QED
  BY <1>1, <1>2, <1>3, <1>4, <1>5, <1>6, <1>7, <1>8, <1>9, <1>10, <1>11, <1>12, <1>13, <1>14,
     <1>15, <1>16, <1>17
  DEF Next, ShipStep, CoreStep

(* Until a number is garbled, every row behind the cursor was taken by the    *)
(* core, or was in a batch it refused, whoever wrote it and whatever is       *)
(* appended or dies meanwhile, and no cursor outlives its log; and it takes   *)
(* two shippers under way at once to garble a number.                         *)
THEOREM NothingSkippedCorrect == Spec => []NothingSkipped
<1>1. Init => Behind /\ Emptied
  BY LogShipAssumption DEF Init, Behind, Emptied, Offset
<1>2. IInv /\ IInv' /\ Behind /\ [Next]_vars => Behind'
  BY BehindStep
<1>3. IInv /\ Emptied /\ [Next]_vars => Emptied'
  BY EmptiedStep
<1>4. Behind /\ Emptied => NothingSkipped
  BY DEF Behind, Emptied, NothingSkipped, Handled
<1>5. QED
  BY Invariance, <1>1, <1>2, <1>3, <1>4, PTL DEF Spec

(* Until two shippers overlap, no batch on its way holds a row whose          *)
(* acceptance a shipper has seen, as long as none dies and nobody leaves.     *)
THEOREM NothingShippedTwiceCorrect == Spec => []NothingShippedTwice
<1>1. Init => Acknowledged
  BY LogShipAssumption DEF Init, Acknowledged
<1>2. IInv /\ IInv' /\ Acknowledged /\ [Next]_vars => Acknowledged'
  BY AcknowledgedStep
<1>3. IInv /\ Acknowledged => NothingShippedTwice
  <2> SUFFICES ASSUME IInv, Acknowledged, ~overlapped, crashes = 0, leaves = 0,
                      NEW p \in Shippers, conn[p] = "sent"
               PROVE  Batch(p) \cap acked = {}
    BY DEF NothingShippedTwice
  <2>1. pc[p] = "await" /\ \A q \in Shippers : q = p \/ pc[q] = "off"
    BY DEF IInv, Control, Single
  <2>2. QED
    BY <2>1 DEF Acknowledged, Batch, IInv, TypeOK
<1>4. QED
  BY Invariance, <1>1, <1>2, <1>3, PTL DEF Spec
=============================================================================
