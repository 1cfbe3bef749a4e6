-------------------------- MODULE NodeAgentProofs --------------------------
(***************************************************************************)
(* Invariants of NodeAgent, for any set of runs, of units and any number   *)
(* of crashes, and the proofs that NodeAgent implements WorkUnitLedger and *)
(* ReplayMemory.                                                           *)
(*                                                                         *)
(* The inductive invariant relates where a process stands to what it       *)
(* holds (Control), what it holds to the core (Delivery), what it has read *)
(* to the seen store (Memory), and the store to the job log (Trail).       *)
(***************************************************************************)
EXTENDS NodeAgent, TLAPS

(* Where a process stands says what it has in hand. *)
Control ==
    \A p \in Runs :
        /\ pc[p] = "off" => wu[p] = NoWU /\ conn[p] = "none" /\ seen[p] = {} /\ fresh[p] = {}
        /\ pc[p] \notin {"off", "pull"} => wu[p] \in WorkUnits
        /\ conn[p] # "none" => pc[p] \in {"await", "mark", "activity", "log"}
        /\ Holds(p) => conn[p] = "accepted"
        /\ pc[p] \in {"activity", "log"} => wu[p].id \in MarkedIds

(* An acceptance is the core's, and it is given once. *)
Delivery ==
    /\ OnlyVerifiedWork
    /\ \A p \in Runs : conn[p] = "accepted" => wu[p].id \in consumed
    /\ \A p, q \in Runs :
        p # q /\ conn[p] = "accepted" /\ conn[q] = "accepted" => wu[p].id # wu[q].id

(* A process has read what was recorded before it started, and only that. *)
Memory ==
    /\ \A rec \in seenFile : rec.id \in consumed
    /\ \A p \in Runs :
        /\ seen[p] \subseteq seenFile
        /\ pc[p] # "off" => seenFile \subseteq seen[p] \cup fresh[p]
        /\ pc[p] \in {"post", "await", "mark"} => \A rec \in seen[p] : ~Matches(wu[p], rec)
        /\ fresh[p] # {} /\ pc[p] \in {"pull", "check", "post", "await", "mark"}
              => \E q \in Runs : q # p

(* The rows a process has yet to write are the ones that are missing. *)
Trail ==
    /\ MarkedIsAccountedFor
    /\ LogTellsTheTruth

IInv == TypeOK /\ Control /\ Delivery /\ Memory /\ Trail

(* Every step keeps the types. *)
LEMMA TypeStep == TypeOK /\ Control /\ [Next]_vars => TypeOK'
<1> SUFFICES ASSUME TypeOK, Control, [Next]_vars PROVE TypeOK'
  OBVIOUS
<1> USE WorkUnitsAssumption, ParametersAssumption DEF TypeOK, Control, Rows, Row, SeenRecords, SeenRecord
<1>1. CASE UNCHANGED vars
  BY <1>1 DEF vars, procVars
<1>2. ASSUME NEW p \in Runs, Launch(p) PROVE TypeOK'
  BY <1>2 DEF Launch, Goto
<1>3. ASSUME NEW p \in Runs, NoWork(p) PROVE TypeOK'
  BY <1>3 DEF NoWork, Exit, AppendRow
<1>4. ASSUME NEW p \in Runs, PullFails(p) PROVE TypeOK'
  BY <1>4 DEF PullFails, Exit
<1>5. ASSUME NEW p \in Runs, NEW w \in WorkUnits, Pull(p, w) PROVE TypeOK'
  BY <1>5 DEF Pull, Goto
<1>6. ASSUME NEW p \in Runs, RejectMalformed(p) PROVE TypeOK'
  BY <1>6 DEF RejectMalformed, Exit
<1>7. ASSUME NEW p \in Runs, RejectReplay(p) PROVE TypeOK'
  BY <1>7 DEF RejectReplay, Exit, AppendRow
<1>8. ASSUME NEW p \in Runs, RejectUnsigned(p) PROVE TypeOK'
  BY <1>8 DEF RejectUnsigned, Exit
<1>9. ASSUME NEW p \in Runs, VerifyAndSign(p) PROVE TypeOK'
  BY <1>9 DEF VerifyAndSign, Goto
<1>10. ASSUME NEW p \in Runs, Post(p) PROVE TypeOK'
  BY <1>10 DEF Post, Goto
<1>11. ASSUME NEW p \in Runs, ReceiveAccepted(p) PROVE TypeOK'
  BY <1>11 DEF ReceiveAccepted, Goto
<1>12. ASSUME NEW p \in Runs, PostFails(p) PROVE TypeOK'
  BY <1>12 DEF PostFails, Exit, Abandon
<1>13. ASSUME NEW p \in Runs, MarkSeen(p) PROVE TypeOK'
  BY <1>13 DEF MarkSeen, Goto
<1>14. ASSUME NEW p \in Runs, SkipActivity(p) PROVE TypeOK'
  BY <1>14 DEF SkipActivity, Goto
<1>15. ASSUME NEW p \in Runs, ReportActivity(p) PROVE TypeOK'
  BY <1>15 DEF ReportActivity, AppendRow, Goto
<1>16. ASSUME NEW p \in Runs, LogProcessed(p) PROVE TypeOK'
  BY <1>16 DEF LogProcessed, Exit, AppendRow
<1>17. ASSUME NEW p \in Runs, Crash(p) PROVE TypeOK'
  BY <1>17 DEF Crash, Exit, Abandon
<1>18. ASSUME NEW p \in Runs, CoreAccepts(p) PROVE TypeOK'
  BY <1>18 DEF CoreAccepts
<1>19. ASSUME NEW p \in Runs, CoreRefuses(p) PROVE TypeOK'
  BY <1>19 DEF CoreRefuses
<1>20. ASSUME NEW i \in Ids, LateArrival(i) PROVE TypeOK'
  BY <1>20 DEF LateArrival, procVars
<1>21. QED
  BY <1>1, <1>2, <1>3, <1>4, <1>5, <1>6, <1>7, <1>8, <1>9, <1>10, <1>11, <1>12, <1>13, <1>14, <1>15, <1>16, <1>17, <1>18, <1>19, <1>20 DEF Next, PullStep, LocalStep, CoreStep

(* A unit the core has consumed or a run has marked stays so. *)
LEMMA MarkedGrows ==
  ASSUME NEW p \in Runs, MarkSeen(p)
  PROVE  MarkedIds' = MarkedIds \cup {wu[p].id}
<1> DEFINE r == SeenRecord(wu[p])
<1>1. r.id = wu[p].id
  BY DEF SeenRecord
<1>2. seenFile' = seenFile \cup {r}
  BY DEF MarkSeen
<1> HIDE DEF r
<1>3. QED
  BY <1>1, <1>2 DEF MarkedIds

(* Every step keeps what a run has in hand at each of its labels. *)
LEMMA ControlStep == IInv /\ [Next]_vars => Control'
<1> SUFFICES ASSUME IInv, [Next]_vars PROVE Control'
  OBVIOUS
<1> USE WorkUnitsAssumption DEF IInv, TypeOK, Control, Holds, MarkedIds
<1>1. CASE UNCHANGED vars
  BY <1>1 DEF vars, procVars
<1>2. ASSUME NEW p \in Runs, Launch(p) PROVE Control'
  BY <1>2 DEF Launch, Goto
<1>3. ASSUME NEW p \in Runs, NoWork(p) PROVE Control'
  BY <1>3 DEF NoWork, Exit, AppendRow
<1>4. ASSUME NEW p \in Runs, PullFails(p) PROVE Control'
  BY <1>4 DEF PullFails, Exit
<1>5. ASSUME NEW p \in Runs, NEW w \in WorkUnits, Pull(p, w) PROVE Control'
  BY <1>5 DEF Pull, Goto
<1>6. ASSUME NEW p \in Runs, RejectMalformed(p) PROVE Control'
  BY <1>6 DEF RejectMalformed, Exit
<1>7. ASSUME NEW p \in Runs, RejectReplay(p) PROVE Control'
  BY <1>7 DEF RejectReplay, Exit, AppendRow
<1>8. ASSUME NEW p \in Runs, RejectUnsigned(p) PROVE Control'
  BY <1>8 DEF RejectUnsigned, Exit
<1>9. ASSUME NEW p \in Runs, VerifyAndSign(p) PROVE Control'
  BY <1>9 DEF VerifyAndSign, Goto
<1>10. ASSUME NEW p \in Runs, Post(p) PROVE Control'
  BY <1>10 DEF Post, Goto
<1>11. ASSUME NEW p \in Runs, ReceiveAccepted(p) PROVE Control'
  BY <1>11 DEF ReceiveAccepted, Goto
<1>12. ASSUME NEW p \in Runs, PostFails(p) PROVE Control'
  BY <1>12 DEF PostFails, Exit, Abandon
<1>13. ASSUME NEW p \in Runs, MarkSeen(p) PROVE Control'
  <2> HIDE DEF MarkedIds
  <2>1. MarkedIds' = MarkedIds \cup {wu[p].id}
    BY <1>13, MarkedGrows
  <2>2. QED
    BY <1>13, <2>1 DEF MarkSeen, Goto
<1>14. ASSUME NEW p \in Runs, SkipActivity(p) PROVE Control'
  BY <1>14 DEF SkipActivity, Goto
<1>15. ASSUME NEW p \in Runs, ReportActivity(p) PROVE Control'
  BY <1>15 DEF ReportActivity, AppendRow, Goto
<1>16. ASSUME NEW p \in Runs, LogProcessed(p) PROVE Control'
  BY <1>16 DEF LogProcessed, Exit, AppendRow
<1>17. ASSUME NEW p \in Runs, Crash(p) PROVE Control'
  BY <1>17 DEF Crash, Exit, Abandon
<1>18. ASSUME NEW p \in Runs, CoreAccepts(p) PROVE Control'
  BY <1>18 DEF CoreAccepts
<1>19. ASSUME NEW p \in Runs, CoreRefuses(p) PROVE Control'
  BY <1>19 DEF CoreRefuses
<1>20. ASSUME NEW i \in Ids, LateArrival(i) PROVE Control'
  BY <1>20 DEF LateArrival, procVars
<1>21. QED
  BY <1>1, <1>2, <1>3, <1>4, <1>5, <1>6, <1>7, <1>8, <1>9, <1>10, <1>11, <1>12, <1>13, <1>14, <1>15, <1>16, <1>17, <1>18, <1>19, <1>20 DEF Next, PullStep, LocalStep, CoreStep

(* Every step keeps the bookkeeping of what the core has taken. *)
LEMMA DeliveryStep == IInv /\ [Next]_vars => Delivery'
<1> SUFFICES ASSUME IInv, [Next]_vars PROVE Delivery'
  OBVIOUS
<1> USE WorkUnitsAssumption DEF IInv, TypeOK, Control, Delivery, OnlyVerifiedWork, Holds, SignedIds
<1>1. CASE UNCHANGED vars
  BY <1>1 DEF vars, procVars
<1>2. ASSUME NEW p \in Runs, Launch(p) PROVE Delivery'
  BY <1>2 DEF Launch, Goto
<1>3. ASSUME NEW p \in Runs, NoWork(p) PROVE Delivery'
  BY <1>3 DEF NoWork, Exit, AppendRow
<1>4. ASSUME NEW p \in Runs, PullFails(p) PROVE Delivery'
  BY <1>4 DEF PullFails, Exit
<1>5. ASSUME NEW p \in Runs, NEW w \in WorkUnits, Pull(p, w) PROVE Delivery'
  BY <1>5 DEF Pull, Goto
<1>6. ASSUME NEW p \in Runs, RejectMalformed(p) PROVE Delivery'
  BY <1>6 DEF RejectMalformed, Exit
<1>7. ASSUME NEW p \in Runs, RejectReplay(p) PROVE Delivery'
  BY <1>7 DEF RejectReplay, Exit, AppendRow
<1>8. ASSUME NEW p \in Runs, RejectUnsigned(p) PROVE Delivery'
  BY <1>8 DEF RejectUnsigned, Exit
<1>9. ASSUME NEW p \in Runs, VerifyAndSign(p) PROVE Delivery'
  BY <1>9 DEF VerifyAndSign, Goto
<1>10. ASSUME NEW p \in Runs, Post(p) PROVE Delivery'
  BY <1>10 DEF Post, Goto
<1>11. ASSUME NEW p \in Runs, ReceiveAccepted(p) PROVE Delivery'
  BY <1>11 DEF ReceiveAccepted, Goto
<1>12. ASSUME NEW p \in Runs, PostFails(p) PROVE Delivery'
  BY <1>12 DEF PostFails, Exit, Abandon
<1>13. ASSUME NEW p \in Runs, MarkSeen(p) PROVE Delivery'
  BY <1>13 DEF MarkSeen, Goto
<1>14. ASSUME NEW p \in Runs, SkipActivity(p) PROVE Delivery'
  BY <1>14 DEF SkipActivity, Goto
<1>15. ASSUME NEW p \in Runs, ReportActivity(p) PROVE Delivery'
  BY <1>15 DEF ReportActivity, AppendRow, Goto
<1>16. ASSUME NEW p \in Runs, LogProcessed(p) PROVE Delivery'
  BY <1>16 DEF LogProcessed, Exit, AppendRow
<1>17. ASSUME NEW p \in Runs, Crash(p) PROVE Delivery'
  BY <1>17 DEF Crash, Exit, Abandon
<1>18. ASSUME NEW p \in Runs, CoreAccepts(p) PROVE Delivery'
  BY <1>18 DEF CoreAccepts
<1>19. ASSUME NEW p \in Runs, CoreRefuses(p) PROVE Delivery'
  BY <1>19 DEF CoreRefuses
<1>20. ASSUME NEW i \in Ids, LateArrival(i) PROVE Delivery'
  BY <1>20 DEF LateArrival, procVars
<1>21. QED
  BY <1>1, <1>2, <1>3, <1>4, <1>5, <1>6, <1>7, <1>8, <1>9, <1>10, <1>11, <1>12, <1>13, <1>14, <1>15, <1>16, <1>17, <1>18, <1>19, <1>20 DEF Next, PullStep, LocalStep, CoreStep

(* Every step keeps what each seen store, in memory and on disk, knows. *)
LEMMA MemoryStep == IInv /\ [Next]_vars => Memory'
<1> SUFFICES ASSUME IInv, [Next]_vars PROVE Memory'
  OBVIOUS
<1> USE WorkUnitsAssumption DEF IInv, TypeOK, Control, Delivery, Memory, Holds
<1>1. CASE UNCHANGED vars
  BY <1>1 DEF vars, procVars
<1>2. ASSUME NEW p \in Runs, Launch(p) PROVE Memory'
  BY <1>2 DEF Launch, Goto
<1>3. ASSUME NEW p \in Runs, NoWork(p) PROVE Memory'
  BY <1>3 DEF NoWork, Exit, AppendRow
<1>4. ASSUME NEW p \in Runs, PullFails(p) PROVE Memory'
  BY <1>4 DEF PullFails, Exit
<1>5. ASSUME NEW p \in Runs, NEW w \in WorkUnits, Pull(p, w) PROVE Memory'
  BY <1>5 DEF Pull, Goto
<1>6. ASSUME NEW p \in Runs, RejectMalformed(p) PROVE Memory'
  BY <1>6 DEF RejectMalformed, Exit
<1>7. ASSUME NEW p \in Runs, RejectReplay(p) PROVE Memory'
  BY <1>7 DEF RejectReplay, Exit, AppendRow
<1>8. ASSUME NEW p \in Runs, RejectUnsigned(p) PROVE Memory'
  BY <1>8 DEF RejectUnsigned, Exit
<1>9. ASSUME NEW p \in Runs, VerifyAndSign(p) PROVE Memory'
  BY <1>9 DEF VerifyAndSign, Goto, Seen
<1>10. ASSUME NEW p \in Runs, Post(p) PROVE Memory'
  BY <1>10 DEF Post, Goto
<1>11. ASSUME NEW p \in Runs, ReceiveAccepted(p) PROVE Memory'
  BY <1>11 DEF ReceiveAccepted, Goto
<1>12. ASSUME NEW p \in Runs, PostFails(p) PROVE Memory'
  BY <1>12 DEF PostFails, Exit, Abandon
<1>13. ASSUME NEW p \in Runs, MarkSeen(p) PROVE Memory'
  <2> DEFINE r == SeenRecord(wu[p])
  <2>1. r.id \in consumed /\ seenFile' = seenFile \cup {r} /\ consumed' = consumed
    BY <1>13 DEF MarkSeen, SeenRecord
  <2>2. \A q \in Runs : q # p => pc'[q] = pc[q] /\ seen'[q] = seen[q]
    BY <1>13 DEF MarkSeen, Goto
  <2>3. pc'[p] = "activity" /\ seen'[p] = seen[p] \cup {r} /\ pc[p] = "mark" /\ wu' = wu
    BY <1>13 DEF MarkSeen, Goto
  <2>4. \A q \in Runs : fresh'[q] = IF pc[q] = "off" THEN fresh[q] ELSE fresh[q] \cup {r}
    BY <1>13 DEF MarkSeen
  <2> HIDE DEF r
  <2>5. \A q \in Runs : seen'[q] \subseteq seenFile'
    BY <2>1, <2>2, <2>3
  <2>6. \A q \in Runs : pc'[q] # "off" => seenFile' \subseteq seen'[q] \cup fresh'[q]
    <3>1. pc[p] # "off" /\ \A q \in Runs : pc'[q] # "off" => pc[q] # "off"
      BY <2>2, <2>3
    <3>2. \A q \in Runs : seen[q] \subseteq seen'[q]
      BY <2>2, <2>3
    <3>3. \A q \in Runs : pc[q] # "off" => seenFile \subseteq seen[q] \cup fresh[q]
      OBVIOUS
    <3>4. \A q \in Runs : pc[q] # "off" => fresh'[q] = fresh[q] \cup {r}
      BY <2>4
    <3>5. QED
      BY <2>1, <3>1, <3>2, <3>3, <3>4
  <2>7. \A q \in Runs : pc'[q] \in {"post", "await", "mark"} =>
            \A rec \in seen'[q] : ~Matches(wu[q], rec)
    BY <2>2, <2>3
  <2>8. \A q \in Runs : fresh'[q] # {} /\ pc'[q] \in {"pull", "check", "post", "await", "mark"}
            => \E o \in Runs : o # q
    BY <2>2, <2>3, <2>4
  <2>9. QED
    BY <2>1, <2>3, <2>5, <2>6, <2>7, <2>8
<1>14. ASSUME NEW p \in Runs, SkipActivity(p) PROVE Memory'
  BY <1>14 DEF SkipActivity, Goto
<1>15. ASSUME NEW p \in Runs, ReportActivity(p) PROVE Memory'
  BY <1>15 DEF ReportActivity, AppendRow, Goto
<1>16. ASSUME NEW p \in Runs, LogProcessed(p) PROVE Memory'
  BY <1>16 DEF LogProcessed, Exit, AppendRow
<1>17. ASSUME NEW p \in Runs, Crash(p) PROVE Memory'
  BY <1>17 DEF Crash, Exit, Abandon
<1>18. ASSUME NEW p \in Runs, CoreAccepts(p) PROVE Memory'
  BY <1>18 DEF CoreAccepts
<1>19. ASSUME NEW p \in Runs, CoreRefuses(p) PROVE Memory'
  BY <1>19 DEF CoreRefuses
<1>20. ASSUME NEW i \in Ids, LateArrival(i) PROVE Memory'
  BY <1>20 DEF LateArrival, procVars
<1>21. QED
  BY <1>1, <1>2, <1>3, <1>4, <1>5, <1>6, <1>7, <1>8, <1>9, <1>10, <1>11, <1>12, <1>13, <1>14, <1>15, <1>16, <1>17, <1>18, <1>19, <1>20 DEF Next, PullStep, LocalStep, CoreStep

(* Every step keeps the audit trail of the marked units. *)
LEMMA TrailStep == IInv /\ [Next]_vars => Trail'
<1> SUFFICES ASSUME IInv, [Next]_vars PROVE Trail'
  OBVIOUS
<1> USE WorkUnitsAssumption, ParametersAssumption DEF IInv, TypeOK, Control, Memory, Trail, MarkedIsAccountedFor, LogTellsTheTruth, MarkedIds, LoggedIds, Row
<1>1. CASE UNCHANGED vars
  BY <1>1 DEF vars, procVars
<1>2. ASSUME NEW p \in Runs, Launch(p) PROVE Trail'
  BY <1>2 DEF Launch, Goto
<1>3. ASSUME NEW p \in Runs, NoWork(p) PROVE Trail'
  BY <1>3 DEF NoWork, Exit, AppendRow
<1>4. ASSUME NEW p \in Runs, PullFails(p) PROVE Trail'
  BY <1>4 DEF PullFails, Exit
<1>5. ASSUME NEW p \in Runs, NEW w \in WorkUnits, Pull(p, w) PROVE Trail'
  BY <1>5 DEF Pull, Goto
<1>6. ASSUME NEW p \in Runs, RejectMalformed(p) PROVE Trail'
  BY <1>6 DEF RejectMalformed, Exit
<1>7. ASSUME NEW p \in Runs, RejectReplay(p) PROVE Trail'
  BY <1>7 DEF RejectReplay, Exit, AppendRow, Seen
<1>8. ASSUME NEW p \in Runs, RejectUnsigned(p) PROVE Trail'
  BY <1>8 DEF RejectUnsigned, Exit
<1>9. ASSUME NEW p \in Runs, VerifyAndSign(p) PROVE Trail'
  BY <1>9 DEF VerifyAndSign, Goto
<1>10. ASSUME NEW p \in Runs, Post(p) PROVE Trail'
  BY <1>10 DEF Post, Goto
<1>11. ASSUME NEW p \in Runs, ReceiveAccepted(p) PROVE Trail'
  BY <1>11 DEF ReceiveAccepted, Goto
<1>12. ASSUME NEW p \in Runs, PostFails(p) PROVE Trail'
  BY <1>12 DEF PostFails, Exit, Abandon
<1>13. ASSUME NEW p \in Runs, MarkSeen(p) PROVE Trail'
  <2> HIDE DEF MarkedIds
  <2>1. MarkedIds' = MarkedIds \cup {wu[p].id}
    BY <1>13, MarkedGrows
  <2>2. pc'[p] = "activity" /\ (\A q \in Runs : q # p => pc'[q] = pc[q]) /\ wu' = wu /\ joblog' = joblog /\ cut' = cut
    BY <1>13 DEF MarkSeen, Goto
  <2>3. MarkedIsAccountedFor'
    <3>1. LoggedIds' = LoggedIds
      BY <2>2
    <3> HIDE DEF LoggedIds
    <3>2. \A i \in MarkedIds : \/ i \in LoggedIds \/ i \in cut
                             \/ \E q \in Runs : pc[q] \in {"activity", "log"} /\ wu[q].id = i
      OBVIOUS
    <3>3. \A q \in Runs : pc[q] \in {"activity", "log"} => pc'[q] \in {"activity", "log"}
      BY <2>2
    <3>4. QED
      BY <2>1, <2>2, <3>1, <3>2, <3>3
  <2>4. seenFile \subseteq seenFile'
    BY <1>13 DEF MarkSeen
  <2>5. LogTellsTheTruth'
    <3>1. \A row \in joblog : row.event = "replay_rejected" =>
            \E w \in WorkUnits : w.id = row.id /\ \E rec \in seenFile' : Matches(w, rec)
      BY <2>4
    <3>2. \A row \in joblog :
            row.event \in {"wu_processed", "activity_synced", "activity_sync_failed"}
                => row.id \in MarkedIds'
      BY <2>1
    <3>3. \A q \in WithToken : pc'[q] = "log" =>
            \/ Row("activity_synced", wu[q].id) \in joblog
            \/ Row("activity_sync_failed", wu[q].id) \in joblog
      BY <2>2, ParametersAssumption
    <3> HIDE DEF IInv, Row
    <3>4. QED
      BY <2>2, <3>1, <3>2, <3>3, Zenon DEF Matches
  <2>6. QED
    BY <2>2, <2>3, <2>5
<1>14. ASSUME NEW p \in Runs, SkipActivity(p) PROVE Trail'
  BY <1>14 DEF SkipActivity, Goto
<1>15. ASSUME NEW p \in Runs, ReportActivity(p) PROVE Trail'
  BY <1>15 DEF ReportActivity, AppendRow, Goto
<1>16. ASSUME NEW p \in Runs, LogProcessed(p) PROVE Trail'
  BY <1>16 DEF LogProcessed, Exit, AppendRow
<1>17. ASSUME NEW p \in Runs, Crash(p) PROVE Trail'
  BY <1>17 DEF Crash, Exit, Abandon
<1>18. ASSUME NEW p \in Runs, CoreAccepts(p) PROVE Trail'
  BY <1>18 DEF CoreAccepts
<1>19. ASSUME NEW p \in Runs, CoreRefuses(p) PROVE Trail'
  BY <1>19 DEF CoreRefuses
<1>20. ASSUME NEW i \in Ids, LateArrival(i) PROVE Trail'
  BY <1>20 DEF LateArrival, procVars
<1>21. QED
  BY <1>1, <1>2, <1>3, <1>4, <1>5, <1>6, <1>7, <1>8, <1>9, <1>10, <1>11, <1>12, <1>13, <1>14, <1>15, <1>16, <1>17, <1>18, <1>19, <1>20 DEF Next, PullStep, LocalStep, CoreStep

(* The inductive invariant holds initially. *)
LEMMA InitIInv == Init => IInv
<1> SUFFICES ASSUME Init PROVE IInv
  OBVIOUS
<1> USE WorkUnitsAssumption, ParametersAssumption DEF Init
<1>1. TypeOK
  BY DEF TypeOK
<1>2. Control /\ Memory
  BY DEF Control, Memory, Holds
<1>3. Delivery
  BY DEF Delivery, OnlyVerifiedWork
<1>4. Trail
  BY DEF Trail, MarkedIsAccountedFor, LogTellsTheTruth, MarkedIds
<1>5. QED
  BY <1>1, <1>2, <1>3, <1>4 DEF IInv

(* Every step keeps the inductive invariant. *)
LEMMA NextIInv == IInv /\ [Next]_vars => IInv'
BY TypeStep, ControlStep, DeliveryStep, MemoryStep, TrailStep DEF IInv

(* The inductive invariant holds in every state. *)
LEMMA Invariance == Spec => []IInv
<1>1. IInv /\ [Next]_vars => IInv'
  BY NextIInv
<1>2. QED
  BY InitIInv, <1>1, PTL DEF Spec

(* Every variable of the agent, of its files and of the core keeps its type. *)
THEOREM TypeCorrect == Spec => []TypeOK
<1>1. IInv => TypeOK
  BY DEF IInv
<1>2. QED
  BY Invariance, <1>1, PTL

(* No record, on disk or in memory, is that of a unit the core has not taken: *)
(* a failed delivery never makes the agent refuse the retry.                  *)
THEOREM SeenIsAccepted == Spec => []SeenOnlyAfterAcceptance
<1>1. IInv => SeenOnlyAfterAcceptance
  BY DEF IInv, Memory, SeenOnlyAfterAcceptance
<1>2. QED
  BY Invariance, <1>1, PTL

(* Only signed units are worked on, submitted and consumed. *)
THEOREM VerifiedOnly == Spec => []OnlyVerifiedWork
<1>1. IInv => OnlyVerifiedWork
  BY DEF IInv, Delivery
<1>2. QED
  BY Invariance, <1>1, PTL

(* A run repeats a recorded unit only when the record is younger than the run, *)
(* however many runs overlap and die.                                          *)
THEOREM RepeatsNeedOverlap == Spec => []OnlyOverlapRepeats
<1>1. IInv => OnlyOverlapRepeats
  <2> SUFFICES ASSUME IInv, NEW p \in Runs, pc[p] \in {"post", "await"},
                      NEW rec \in seenFile, Matches(wu[p], rec)
               PROVE  rec \in fresh[p]
    BY DEF OnlyOverlapRepeats
  <2>1. rec \in seen[p] \cup fresh[p]
    BY DEF IInv, Memory
  <2>2. rec \notin seen[p]
    BY DEF IInv, Memory
  <2>3. QED
    BY <2>1, <2>2
<1>2. QED
  BY Invariance, <1>1, PTL

(* With one run at a time no unit of the seen store is ever submitted again. *)
THEOREM SequentialRunsNeverRepeat ==
  ASSUME \A p, q \in Runs : p = q
  PROVE  Spec => []NoRepeatedSubmission
<1>1. IInv => NoRepeatedSubmission
  <2> SUFFICES ASSUME IInv, NEW p \in Runs, pc[p] = "post",
                      NEW rec \in seenFile, Matches(wu[p], rec)
               PROVE  FALSE
    BY DEF NoRepeatedSubmission
  <2>1. fresh[p] = {}
    BY DEF IInv, Memory
  <2>2. rec \in seen[p]
    BY <2>1 DEF IInv, Memory
  <2>3. QED
    BY <2>2 DEF IInv, Memory
<1>2. QED
  BY Invariance, <1>1, PTL

(* Two runs never both hold the core's acceptance of the same unit. *)
THEOREM OneAcceptance == Spec => []OneHolder
<1>1. IInv => OneHolder
  BY DEF IInv, Control, Delivery, OneHolder
<1>2. QED
  BY Invariance, <1>1, PTL

(* The audit trail has no hole except where a run died in the middle of it. *)
THEOREM AuditTrail == Spec => []MarkedIsAccountedFor
<1>1. IInv => MarkedIsAccountedFor
  BY DEF IInv, Trail
<1>2. QED
  BY Invariance, <1>1, PTL

(* What the job log says of a unit is what became of it. *)
THEOREM LogCorrect == Spec => []LogTellsTheTruth
<1>1. IInv => LogTellsTheTruth
  BY DEF IInv, Trail
<1>2. QED
  BY Invariance, <1>1, PTL

----------------------------------------------------------------------------
(* The refinement: the steps that move the ledger, and the others. *)

(* The initial states of the agent are initial states of the ledger. *)
LEMMA LedgerInit == Init => Ledger!Init
BY DEF Init, Ledger!Init, MarkedIds, LoggedIds

(* Every step of the agent is a step of the ledger or changes nothing of it. *)
LEMMA LedgerStep == IInv /\ [Next]_vars => [Ledger!Next]_(Ledger!ledgerVars)
<1> DEFINE LedgerNext == [Ledger!Next]_(Ledger!ledgerVars)
<1> SUFFICES ASSUME IInv, [Next]_vars PROVE LedgerNext
  OBVIOUS
<1>1. ASSUME seenFile' = seenFile, joblog' = joblog, consumed' = consumed
      PROVE  LedgerNext
  BY <1>1 DEF Ledger!ledgerVars, MarkedIds, LoggedIds
<1>2. ASSUME NEW i \in Ids, consumed' = consumed \cup {i}, seenFile' = seenFile, joblog' = joblog
      PROVE  LedgerNext
  <2>1. MarkedIds' = MarkedIds /\ LoggedIds' = LoggedIds
    BY <1>2 DEF MarkedIds, LoggedIds
  <2>2. CASE i \in consumed
    BY <2>1, <2>2, <1>2 DEF Ledger!ledgerVars
  <2>3. CASE i \notin consumed
    BY <2>1, <2>3, <1>2 DEF Ledger!Next, Ledger!Consume
  <2>4. QED
    BY <2>2, <2>3
<1>3. ASSUME NEW event \in {"no_work", "replay_rejected", "activity_synced", "activity_sync_failed"},
             NEW id, AppendRow(event, id), seenFile' = seenFile, consumed' = consumed
      PROVE  LedgerNext
  <2>1. LoggedIds' = LoggedIds
    BY <1>3 DEF LoggedIds, AppendRow, Row
  <2>2. QED
    BY <2>1, <1>3 DEF Ledger!ledgerVars, MarkedIds
<1>4. ASSUME NEW p \in Runs, MarkSeen(p) PROVE LedgerNext
  <2>1. wu[p].id \in Ids /\ wu[p].id \in consumed
    BY <1>4, WorkUnitsAssumption DEF MarkSeen, IInv, Control, Delivery, Holds
  <2>2. MarkedIds' = MarkedIds \cup {wu[p].id} /\ LoggedIds' = LoggedIds /\ consumed' = consumed
    BY <1>4, MarkedGrows DEF MarkSeen, LoggedIds
  <2>3. CASE wu[p].id \in MarkedIds
    BY <2>2, <2>3 DEF Ledger!ledgerVars
  <2>4. CASE wu[p].id \notin MarkedIds
    BY <2>1, <2>2, <2>4 DEF Ledger!Next, Ledger!Mark
  <2>5. QED
    BY <2>3, <2>4
<1>5. ASSUME NEW p \in Runs, LogProcessed(p) PROVE LedgerNext
  <2>1. wu[p].id \in Ids /\ wu[p].id \in MarkedIds
    BY <1>5, WorkUnitsAssumption DEF LogProcessed, IInv, Control
  <2>2. LoggedIds' = LoggedIds \cup {wu[p].id} /\ MarkedIds' = MarkedIds /\ consumed' = consumed
    BY <1>5, <2>1 DEF LogProcessed, LoggedIds, MarkedIds, AppendRow, Row
  <2>3. CASE wu[p].id \in LoggedIds
    BY <2>2, <2>3 DEF Ledger!ledgerVars
  <2>4. CASE wu[p].id \notin LoggedIds
    BY <2>1, <2>2, <2>4 DEF Ledger!Next, Ledger!Log
  <2>5. QED
    BY <2>3, <2>4
<1>6. ASSUME NEW p \in Runs, CoreAccepts(p) PROVE LedgerNext
  <2>1. wu[p].id \in Ids
    BY <1>6, WorkUnitsAssumption DEF CoreAccepts, IInv, Control
  <2>2. QED
    BY <1>2, <1>6, <2>1 DEF CoreAccepts
<1>7. ASSUME NEW p \in Runs, Launch(p) \/ CoreRefuses(p) \/ Crash(p) PROVE LedgerNext
  BY <1>1, <1>7 DEF Launch, CoreRefuses, Crash
<1>8. ASSUME NEW p \in Runs, PullStep(p) PROVE LedgerNext
  BY <1>1, <1>3, <1>8 DEF PullStep, NoWork, PullFails, Pull
<1>9. ASSUME NEW p \in Runs, LocalStep(p) PROVE LedgerNext
  <2>1. CASE RejectReplay(p) \/ ReportActivity(p)
    BY <1>3, <2>1 DEF RejectReplay, ReportActivity
  <2>2. CASE MarkSeen(p) \/ LogProcessed(p)
    BY <1>4, <1>5, <2>2
  <2>3. CASE \/ RejectMalformed(p) \/ RejectUnsigned(p) \/ VerifyAndSign(p) \/ Post(p)
             \/ ReceiveAccepted(p) \/ PostFails(p) \/ SkipActivity(p)
    BY <1>1, <2>3 DEF RejectMalformed, RejectUnsigned, VerifyAndSign, Post,
                      ReceiveAccepted, PostFails, SkipActivity
  <2>4. QED
    BY <1>9, <2>1, <2>2, <2>3 DEF LocalStep
<1>10. ASSUME NEW i \in Ids, LateArrival(i) PROVE LedgerNext
  BY <1>2, <1>10 DEF LateArrival
<1>11. CASE UNCHANGED vars
  BY <1>1, <1>11 DEF vars
<1>12. QED
  BY <1>6, <1>7, <1>8, <1>9, <1>10, <1>11 DEF Next, CoreStep

(* The agent with its overlaps, losses and deaths implements the ledger. *)
THEOREM Refinement == Spec => ImplementsLedger
<1>1. IInv /\ [Next]_vars => [Ledger!Next]_(Ledger!ledgerVars)
  BY LedgerStep
<1>2. QED
  BY Invariance, LedgerInit, <1>1, PTL DEF Spec, ImplementsLedger, Ledger!Spec

----------------------------------------------------------------------------
LEMMA ReplayInit == Init => Replay!Init
  BY DEF Init, Replay!Init

ReplayNext == [Replay!Next]_(Replay!replayVars)

(* A mark is of a unit the run does not know; launching reads what is stored, *)
(* and ending forgets it.                                                     *)
LEMMA ReplayStep == IInv /\ [Next]_vars => ReplayNext
<1> SUFFICES ASSUME IInv, [Next]_vars PROVE ReplayNext
  OBVIOUS
<1> USE DEF ReplayNext
<1>1. ASSUME seenFile' = seenFile, seen' = seen PROVE ReplayNext
  BY <1>1 DEF Replay!replayVars
<1>2. ASSUME NEW p \in Runs, Exit(p), seenFile' = seenFile PROVE ReplayNext
  BY <1>2 DEF Exit, Replay!Next, Replay!Close
<1>3. ASSUME NEW p \in Runs, Launch(p) PROVE ReplayNext
  BY <1>3 DEF Launch, Replay!Next, Replay!Open
<1>4. ASSUME NEW p \in Runs, MarkSeen(p) PROVE ReplayNext
  <2> DEFINE u == SeenRecord(wu[p])
  <2>1. u \in SeenRecords
    BY <1>4 DEF MarkSeen, IInv, Control, SeenRecords
  <2>2. ASSUME NEW rec \in seen[p] PROVE ~Replay!Conflict(u, rec)
    <3>1. ~Matches(wu[p], rec)
      BY <1>4, <2>2 DEF MarkSeen, IInv, Memory
    <3>2. u.id = wu[p].id /\ u.nonce = wu[p].nonce
      BY DEF SeenRecord
    <3>3. QED
      BY <3>1, <3>2 DEF Matches, Replay!Conflict
  <2>3. seen' = [seen EXCEPT ![p] = @ \cup {u}] /\ seenFile' = seenFile \cup {u}
    BY <1>4 DEF MarkSeen
  <2> HIDE DEF u
  <2>4. Replay!Mark(p, u)
    BY <2>2, <2>3 DEF Replay!Mark
  <2>5. QED
    BY <2>1, <2>4 DEF Replay!Next
<1>5. ASSUME NEW p \in Runs, CoreStep(p) PROVE ReplayNext
  BY <1>1, <1>5 DEF CoreStep, CoreAccepts, CoreRefuses
<1>6. ASSUME NEW p \in Runs, Crash(p) PROVE ReplayNext
  BY <1>2, <1>6 DEF Crash
<1>7. ASSUME NEW p \in Runs, PullStep(p) PROVE ReplayNext
  BY <1>1, <1>2, <1>7 DEF PullStep, NoWork, PullFails, Pull
<1>8. ASSUME NEW p \in Runs, LocalStep(p) PROVE ReplayNext
  <2>1. CASE \/ RejectMalformed(p) \/ RejectReplay(p) \/ RejectUnsigned(p) \/ PostFails(p)
             \/ LogProcessed(p)
    BY <1>2, <2>1 DEF RejectMalformed, RejectReplay, RejectUnsigned, PostFails, LogProcessed
  <2>2. CASE MarkSeen(p)
    BY <1>4, <2>2
  <2>3. CASE \/ VerifyAndSign(p) \/ Post(p) \/ ReceiveAccepted(p) \/ SkipActivity(p)
             \/ ReportActivity(p)
    BY <1>1, <2>3 DEF VerifyAndSign, Post, ReceiveAccepted, SkipActivity, ReportActivity
  <2>4. QED
    BY <1>8, <2>1, <2>2, <2>3 DEF LocalStep
<1>9. ASSUME NEW i \in Ids, LateArrival(i) PROVE ReplayNext
  BY <1>1, <1>9 DEF LateArrival, procVars
<1>10. CASE UNCHANGED vars
  BY <1>1, <1>10 DEF vars, procVars
<1>11. QED
  BY <1>3, <1>5, <1>6, <1>7, <1>8, <1>9, <1>10 DEF Next

(* client.py, __init__, process_wu and _mark_seen: whatever overlaps, dies or *)
(* arrives late, a run starts from what is stored and marks no unit that its  *)
(* copy knows by id or nonce.                                                 *)
THEOREM ReplayRefinement == Spec => ImplementsReplayMemory
<1>1. IInv /\ [Next]_vars => [Replay!Next]_(Replay!replayVars)
  BY ReplayStep DEF ReplayNext
<1>2. QED
  BY Invariance, ReplayInit, <1>1, PTL DEF Spec, ImplementsReplayMemory, Replay!Spec
=============================================================================
