-------------------------- MODULE EnrolmentProofs --------------------------
(***************************************************************************)
(* Invariants of Enrolment for any number of runs, crashes and `leave`:    *)
(* the marker is that of an enrolled key; and, until somebody leaves, the  *)
(* runs past ensure_keypair share the identity of the key file, which the  *)
(* core knows before any of them pulls work.  A written key goes with      *)
(* `leave` only, and a `leave` on its own leaves nothing.                  *)
(***************************************************************************)
EXTENDS Enrolment, TLAPS

(* What a run has in hand, and that an answered registration is the core's. *)
Control ==
  /\ keyFile.written => keyFile.for \in Keys
  /\ \A p \in Runs :
        /\ pc[p] \notin {"off", "start", "load"} => key[p] \in Keys
        /\ conn[p] # "none" => pc[p] \in {"await", "mark", "pull", "log"}
        /\ conn[p] = "accepted" => key[p] \in enrolled
        /\ pc[p] = "mark" => key[p] \in enrolled

IInv == TypeOK /\ Control /\ MarkerIsEnrolled

(* Until somebody leaves, the key file, once there, is there for good. *)
Identity ==
    leaves = 0 =>
        /\ lpc = "idle"
        /\ \A p \in Runs : Loaded(p) => keyFile = KeyOf(key[p], TRUE)
        /\ MarkerPresent => keyFile = KeyOf(marker, TRUE)
        /\ \A p \in Runs : pc[p] \in {"pull", "log"} => key[p] \in enrolled

(* Every step keeps the types. *)
LEMMA TypeStep == IInv /\ [Next]_vars => TypeOK'
<1> SUFFICES ASSUME TypeOK, Control, [Next]_vars PROVE TypeOK'
  BY DEF IInv
<1> USE EnrolmentAssumption DEF TypeOK, Control
<1>1. CASE UNCHANGED vars
  BY <1>1 DEF vars, runVars, fsVars, leaveVars, coreVars
<1>2. ASSUME NEW p \in Runs, Launch(p) PROVE TypeOK'
  BY <1>2 DEF Launch, Goto, fsVars, coreVars
<1>3. ASSUME NEW p \in Runs, KeyExists(p) PROVE TypeOK'
  BY <1>3 DEF KeyExists, Goto, fsVars, leaveVars, coreVars, KeyPresent
<1>4. ASSUME NEW p \in Runs, NEW k \in Keys, Generate(p, k) PROVE TypeOK'
  BY <1>4 DEF Generate, Goto, leaveVars, coreVars, KnownKeys, KeyPresent
<1>5. ASSUME NEW p \in Runs, CreateKey(p) PROVE TypeOK'
  BY <1>5 DEF CreateKey, Goto, leaveVars, coreVars, KeyOf, KeyPresent
<1>6. ASSUME NEW p \in Runs, CreateKeyFails(p) PROVE TypeOK'
  BY <1>6 DEF CreateKeyFails, Exit, fsVars, leaveVars, coreVars, KeyPresent
<1>7. ASSUME NEW p \in Runs, WriteKey(p) PROVE TypeOK'
  BY <1>7 DEF WriteKey, Goto, leaveVars, coreVars, KeyOf
<1>8. ASSUME NEW p \in Runs, LoadKey(p) PROVE TypeOK'
  BY <1>8 DEF LoadKey, Goto, fsVars, leaveVars, coreVars
<1>9. ASSUME NEW p \in Runs, LoadKeyFails(p) PROVE TypeOK'
  BY <1>9 DEF LoadKeyFails, Exit, fsVars, leaveVars, coreVars
<1>10. ASSUME NEW p \in Runs, OpenLog(p) PROVE TypeOK'
  BY <1>10 DEF OpenLog, Goto, leaveVars, coreVars
<1>11. ASSUME NEW p \in Runs, AlreadyRegistered(p) PROVE TypeOK'
  BY <1>11 DEF AlreadyRegistered, Goto, fsVars, leaveVars, coreVars, MarkerPresent
<1>12. ASSUME NEW p \in Runs, NotRegistered(p) PROVE TypeOK'
  BY <1>12 DEF NotRegistered, Goto, leaveVars, coreVars, MarkerPresent
<1>13. ASSUME NEW p \in Runs, PostKey(p) PROVE TypeOK'
  BY <1>13 DEF PostKey, Goto, fsVars, leaveVars, coreVars
<1>14. ASSUME NEW p \in Runs, AttemptFails(p) PROVE TypeOK'
  BY <1>14 DEF AttemptFails, Exit, Goto, fsVars, leaveVars, coreVars
<1>15. ASSUME NEW p \in Runs, LogRegistered(p) PROVE TypeOK'
  <2>1. CASE dir
    BY <1>15, <2>1 DEF LogRegistered, Goto, leaveVars, coreVars
  <2>2. CASE ~dir
    <3>1. Exit(p) /\ UNCHANGED <<fsVars, leaveVars, coreVars, crashes>>
      BY <1>15, <2>2 DEF LogRegistered, fsVars
    <3>2. QED
      BY <3>1 DEF Exit, fsVars, leaveVars, coreVars
  <2>3. QED
    BY <2>1, <2>2
<1>16. ASSUME NEW p \in Runs, WriteMarker(p) PROVE TypeOK'
  BY <1>16 DEF WriteMarker, Exit, Goto, leaveVars, coreVars
<1>17. ASSUME NEW p \in Runs, JobEnds(p) PROVE TypeOK'
  BY <1>17 DEF JobEnds, Exit, fsVars, leaveVars, coreVars
<1>18. ASSUME NEW p \in Runs, JobDone(p) PROVE TypeOK'
  BY <1>18 DEF JobDone, Goto, leaveVars, coreVars
<1>19. ASSUME NEW p \in Runs, LogJob(p) PROVE TypeOK'
  BY <1>19 DEF LogJob, Exit, leaveVars, coreVars
<1>20. ASSUME NEW p \in Runs, Crash(p) PROVE TypeOK'
  BY <1>20 DEF Crash, Exit, fsVars, leaveVars, coreVars
<1>21. ASSUME NEW p \in Runs, CoreEnrols(p) PROVE TypeOK'
  BY <1>21 DEF CoreEnrols, fsVars, leaveVars
<1>22. ASSUME NEW p \in Runs, CoreRefuses(p) PROVE TypeOK'
  BY <1>22 DEF CoreRefuses, fsVars, leaveVars, coreVars
<1>23. ASSUME NEW name \in todo, Unlink(name) PROVE TypeOK'
  BY <1>23 DEF Unlink, coreVars, runVars, NoFile
<1>24. CASE LeaveBegin
  BY <1>24 DEF LeaveBegin, fsVars, coreVars, runVars, Entries
<1>25. CASE LeaveDone
  BY <1>25 DEF LeaveDone, coreVars, runVars, Entries
<1>26. CASE LeaveFails
  BY <1>26 DEF LeaveFails, fsVars, coreVars, runVars, Entries
<1>27. QED
  BY <1>1, <1>2, <1>3, <1>4, <1>5, <1>6, <1>7, <1>8, <1>9, <1>10, <1>11, <1>12, <1>13, <1>14, <1>15, <1>16, <1>17, <1>18, <1>19, <1>20, <1>21, <1>22, <1>23, <1>24, <1>25, <1>26 DEF Next, KeyStep, RunStep, LeaveStep, CoreStep

(* Every step keeps what a run has in hand. *)
LEMMA ControlStep == IInv /\ [Next]_vars => Control'
<1> SUFFICES ASSUME IInv, [Next]_vars PROVE Control'
  OBVIOUS
<1> USE EnrolmentAssumption DEF IInv, TypeOK, Control
<1>1. CASE UNCHANGED vars
  BY <1>1 DEF vars, runVars, fsVars, leaveVars, coreVars
<1>2. ASSUME NEW p \in Runs, Launch(p) PROVE Control'
  BY <1>2 DEF Launch, Goto, fsVars, coreVars
<1>3. ASSUME NEW p \in Runs, KeyExists(p) PROVE Control'
  BY <1>3 DEF KeyExists, Goto, fsVars, leaveVars, coreVars, KeyPresent
<1>4. ASSUME NEW p \in Runs, NEW k \in Keys, Generate(p, k) PROVE Control'
  BY <1>4 DEF Generate, Goto, leaveVars, coreVars, KnownKeys, KeyPresent
<1>5. ASSUME NEW p \in Runs, CreateKey(p) PROVE Control'
  BY <1>5 DEF CreateKey, Goto, leaveVars, coreVars, KeyOf, KeyPresent
<1>6. ASSUME NEW p \in Runs, CreateKeyFails(p) PROVE Control'
  BY <1>6 DEF CreateKeyFails, Exit, fsVars, leaveVars, coreVars, KeyPresent
<1>7. ASSUME NEW p \in Runs, WriteKey(p) PROVE Control'
  BY <1>7 DEF WriteKey, Goto, leaveVars, coreVars, KeyOf
<1>8. ASSUME NEW p \in Runs, LoadKey(p) PROVE Control'
  BY <1>8 DEF LoadKey, Goto, fsVars, leaveVars, coreVars
<1>9. ASSUME NEW p \in Runs, LoadKeyFails(p) PROVE Control'
  BY <1>9 DEF LoadKeyFails, Exit, fsVars, leaveVars, coreVars
<1>10. ASSUME NEW p \in Runs, OpenLog(p) PROVE Control'
  BY <1>10 DEF OpenLog, Goto, leaveVars, coreVars
<1>11. ASSUME NEW p \in Runs, AlreadyRegistered(p) PROVE Control'
  BY <1>11 DEF AlreadyRegistered, Goto, fsVars, leaveVars, coreVars, MarkerPresent
<1>12. ASSUME NEW p \in Runs, NotRegistered(p) PROVE Control'
  BY <1>12 DEF NotRegistered, Goto, leaveVars, coreVars, MarkerPresent
<1>13. ASSUME NEW p \in Runs, PostKey(p) PROVE Control'
  BY <1>13 DEF PostKey, Goto, fsVars, leaveVars, coreVars
<1>14. ASSUME NEW p \in Runs, AttemptFails(p) PROVE Control'
  BY <1>14 DEF AttemptFails, Exit, Goto, fsVars, leaveVars, coreVars
<1>15. ASSUME NEW p \in Runs, LogRegistered(p) PROVE Control'
  BY <1>15 DEF LogRegistered, Exit, Goto, leaveVars, coreVars
<1>16. ASSUME NEW p \in Runs, WriteMarker(p) PROVE Control'
  BY <1>16 DEF WriteMarker, Exit, Goto, leaveVars, coreVars
<1>17. ASSUME NEW p \in Runs, JobEnds(p) PROVE Control'
  BY <1>17 DEF JobEnds, Exit, fsVars, leaveVars, coreVars
<1>18. ASSUME NEW p \in Runs, JobDone(p) PROVE Control'
  BY <1>18 DEF JobDone, Goto, leaveVars, coreVars
<1>19. ASSUME NEW p \in Runs, LogJob(p) PROVE Control'
  BY <1>19 DEF LogJob, Exit, leaveVars, coreVars
<1>20. ASSUME NEW p \in Runs, Crash(p) PROVE Control'
  BY <1>20 DEF Crash, Exit, fsVars, leaveVars, coreVars
<1>21. ASSUME NEW p \in Runs, CoreEnrols(p) PROVE Control'
  BY <1>21 DEF CoreEnrols, fsVars, leaveVars
<1>22. ASSUME NEW p \in Runs, CoreRefuses(p) PROVE Control'
  BY <1>22 DEF CoreRefuses, fsVars, leaveVars, coreVars
<1>23. ASSUME NEW name \in todo, Unlink(name) PROVE Control'
  BY <1>23 DEF Unlink, coreVars, runVars, NoFile
<1>24. CASE LeaveBegin
  BY <1>24 DEF LeaveBegin, fsVars, coreVars, runVars, Entries
<1>25. CASE LeaveDone
  BY <1>25 DEF LeaveDone, coreVars, runVars, Entries
<1>26. CASE LeaveFails
  BY <1>26 DEF LeaveFails, fsVars, coreVars, runVars, Entries
<1>27. QED
  BY <1>1, <1>2, <1>3, <1>4, <1>5, <1>6, <1>7, <1>8, <1>9, <1>10, <1>11, <1>12, <1>13, <1>14, <1>15, <1>16, <1>17, <1>18, <1>19, <1>20, <1>21, <1>22, <1>23, <1>24, <1>25, <1>26 DEF Next, KeyStep, RunStep, LeaveStep, CoreStep

(* Every step keeps the marker true. *)
LEMMA MarkerStep == IInv /\ [Next]_vars => MarkerIsEnrolled'
<1> SUFFICES ASSUME IInv, [Next]_vars PROVE MarkerIsEnrolled'
  OBVIOUS
<1> USE EnrolmentAssumption DEF IInv, TypeOK, Control, MarkerIsEnrolled, MarkerPresent
<1>1. CASE UNCHANGED vars
  BY <1>1 DEF vars, runVars, fsVars, leaveVars, coreVars
<1>2. ASSUME NEW p \in Runs, Launch(p) PROVE MarkerIsEnrolled'
  BY <1>2 DEF Launch, Goto, fsVars, coreVars
<1>3. ASSUME NEW p \in Runs, KeyExists(p) PROVE MarkerIsEnrolled'
  BY <1>3 DEF KeyExists, Goto, fsVars, leaveVars, coreVars, KeyPresent
<1>4. ASSUME NEW p \in Runs, NEW k \in Keys, Generate(p, k) PROVE MarkerIsEnrolled'
  BY <1>4 DEF Generate, Goto, leaveVars, coreVars, KnownKeys, KeyPresent
<1>5. ASSUME NEW p \in Runs, CreateKey(p) PROVE MarkerIsEnrolled'
  BY <1>5 DEF CreateKey, Goto, leaveVars, coreVars, KeyOf, KeyPresent
<1>6. ASSUME NEW p \in Runs, CreateKeyFails(p) PROVE MarkerIsEnrolled'
  BY <1>6 DEF CreateKeyFails, Exit, fsVars, leaveVars, coreVars, KeyPresent
<1>7. ASSUME NEW p \in Runs, WriteKey(p) PROVE MarkerIsEnrolled'
  BY <1>7 DEF WriteKey, Goto, leaveVars, coreVars, KeyOf
<1>8. ASSUME NEW p \in Runs, LoadKey(p) PROVE MarkerIsEnrolled'
  BY <1>8 DEF LoadKey, Goto, fsVars, leaveVars, coreVars
<1>9. ASSUME NEW p \in Runs, LoadKeyFails(p) PROVE MarkerIsEnrolled'
  BY <1>9 DEF LoadKeyFails, Exit, fsVars, leaveVars, coreVars
<1>10. ASSUME NEW p \in Runs, OpenLog(p) PROVE MarkerIsEnrolled'
  BY <1>10 DEF OpenLog, Goto, leaveVars, coreVars
<1>11. ASSUME NEW p \in Runs, AlreadyRegistered(p) PROVE MarkerIsEnrolled'
  BY <1>11 DEF AlreadyRegistered, Goto, fsVars, leaveVars, coreVars, MarkerPresent
<1>12. ASSUME NEW p \in Runs, NotRegistered(p) PROVE MarkerIsEnrolled'
  BY <1>12 DEF NotRegistered, Goto, leaveVars, coreVars, MarkerPresent
<1>13. ASSUME NEW p \in Runs, PostKey(p) PROVE MarkerIsEnrolled'
  BY <1>13 DEF PostKey, Goto, fsVars, leaveVars, coreVars
<1>14. ASSUME NEW p \in Runs, AttemptFails(p) PROVE MarkerIsEnrolled'
  BY <1>14 DEF AttemptFails, Exit, Goto, fsVars, leaveVars, coreVars
<1>15. ASSUME NEW p \in Runs, LogRegistered(p) PROVE MarkerIsEnrolled'
  BY <1>15 DEF LogRegistered, Exit, Goto, leaveVars, coreVars
<1>16. ASSUME NEW p \in Runs, WriteMarker(p) PROVE MarkerIsEnrolled'
  BY <1>16 DEF WriteMarker, Exit, Goto, leaveVars, coreVars
<1>17. ASSUME NEW p \in Runs, JobEnds(p) PROVE MarkerIsEnrolled'
  BY <1>17 DEF JobEnds, Exit, fsVars, leaveVars, coreVars
<1>18. ASSUME NEW p \in Runs, JobDone(p) PROVE MarkerIsEnrolled'
  BY <1>18 DEF JobDone, Goto, leaveVars, coreVars
<1>19. ASSUME NEW p \in Runs, LogJob(p) PROVE MarkerIsEnrolled'
  BY <1>19 DEF LogJob, Exit, leaveVars, coreVars
<1>20. ASSUME NEW p \in Runs, Crash(p) PROVE MarkerIsEnrolled'
  BY <1>20 DEF Crash, Exit, fsVars, leaveVars, coreVars
<1>21. ASSUME NEW p \in Runs, CoreEnrols(p) PROVE MarkerIsEnrolled'
  BY <1>21 DEF CoreEnrols, fsVars, leaveVars
<1>22. ASSUME NEW p \in Runs, CoreRefuses(p) PROVE MarkerIsEnrolled'
  BY <1>22 DEF CoreRefuses, fsVars, leaveVars, coreVars
<1>23. ASSUME NEW name \in todo, Unlink(name) PROVE MarkerIsEnrolled'
  BY <1>23 DEF Unlink, coreVars, runVars, NoFile
<1>24. CASE LeaveBegin
  BY <1>24 DEF LeaveBegin, fsVars, coreVars, runVars, Entries
<1>25. CASE LeaveDone
  BY <1>25 DEF LeaveDone, coreVars, runVars, Entries
<1>26. CASE LeaveFails
  BY <1>26 DEF LeaveFails, fsVars, coreVars, runVars, Entries
<1>27. QED
  BY <1>1, <1>2, <1>3, <1>4, <1>5, <1>6, <1>7, <1>8, <1>9, <1>10, <1>11, <1>12, <1>13, <1>14, <1>15, <1>16, <1>17, <1>18, <1>19, <1>20, <1>21, <1>22, <1>23, <1>24, <1>25, <1>26 DEF Next, KeyStep, RunStep, LeaveStep, CoreStep

(* With no `leave`, every step keeps the identity of the node. *)
LEMMA IdentityStep == IInv /\ Identity /\ [Next]_vars => Identity'
<1> SUFFICES ASSUME IInv, Identity, [Next]_vars PROVE Identity'
  OBVIOUS
<1> USE EnrolmentAssumption DEF IInv, TypeOK, Control, MarkerIsEnrolled, MarkerPresent, Identity, Loaded, KeyOf, NoFile, KeyPresent
<1>1. CASE UNCHANGED vars
  BY <1>1 DEF vars, runVars, fsVars, leaveVars, coreVars
<1>2. ASSUME NEW p \in Runs, Launch(p) PROVE Identity'
  BY <1>2 DEF Launch, Goto, fsVars, coreVars
<1>3. ASSUME NEW p \in Runs, KeyExists(p) PROVE Identity'
  BY <1>3 DEF KeyExists, Goto, fsVars, leaveVars, coreVars, KeyPresent
<1>4. ASSUME NEW p \in Runs, NEW k \in Keys, Generate(p, k) PROVE Identity'
  BY <1>4 DEF Generate, Goto, leaveVars, coreVars, KnownKeys, KeyPresent
<1>5. ASSUME NEW p \in Runs, CreateKey(p) PROVE Identity'
  BY <1>5 DEF CreateKey, Goto, leaveVars, coreVars, KeyOf, KeyPresent
<1>6. ASSUME NEW p \in Runs, CreateKeyFails(p) PROVE Identity'
  BY <1>6 DEF CreateKeyFails, Exit, fsVars, leaveVars, coreVars, KeyPresent
<1>7. ASSUME NEW p \in Runs, WriteKey(p) PROVE Identity'
  <2>1. CASE keyFile = KeyOf(key[p], FALSE)
    <3>1. CASE leaves = 0
      <4>1. \A q \in Runs : ~Loaded(q)
        BY <2>1, <3>1
      <4>2. ~MarkerPresent
        BY <2>1, <3>1
      <4>3. QED
        BY <1>7, <4>1, <4>2 DEF WriteKey, Goto, leaveVars, coreVars
    <3>2. CASE leaves # 0
      BY <1>7, <3>2 DEF WriteKey, leaveVars
    <3>3. QED
      BY <3>1, <3>2
  <2>2. CASE keyFile # KeyOf(key[p], FALSE)
    BY <1>7, <2>2 DEF WriteKey, Goto, leaveVars, coreVars
  <2>3. QED
    BY <2>1, <2>2
<1>8. ASSUME NEW p \in Runs, LoadKey(p) PROVE Identity'
  BY <1>8 DEF LoadKey, Goto, fsVars, leaveVars, coreVars
<1>9. ASSUME NEW p \in Runs, LoadKeyFails(p) PROVE Identity'
  BY <1>9 DEF LoadKeyFails, Exit, fsVars, leaveVars, coreVars
<1>10. ASSUME NEW p \in Runs, OpenLog(p) PROVE Identity'
  BY <1>10 DEF OpenLog, Goto, leaveVars, coreVars
<1>11. ASSUME NEW p \in Runs, AlreadyRegistered(p) PROVE Identity'
  BY <1>11 DEF AlreadyRegistered, Goto, fsVars, leaveVars, coreVars, MarkerPresent
<1>12. ASSUME NEW p \in Runs, NotRegistered(p) PROVE Identity'
  BY <1>12 DEF NotRegistered, Goto, leaveVars, coreVars, MarkerPresent
<1>13. ASSUME NEW p \in Runs, PostKey(p) PROVE Identity'
  BY <1>13 DEF PostKey, Goto, fsVars, leaveVars, coreVars
<1>14. ASSUME NEW p \in Runs, AttemptFails(p) PROVE Identity'
  BY <1>14 DEF AttemptFails, Exit, Goto, fsVars, leaveVars, coreVars
<1>15. ASSUME NEW p \in Runs, LogRegistered(p) PROVE Identity'
  BY <1>15 DEF LogRegistered, Exit, Goto, leaveVars, coreVars
<1>16. ASSUME NEW p \in Runs, WriteMarker(p) PROVE Identity'
  BY <1>16 DEF WriteMarker, Exit, Goto, leaveVars, coreVars
<1>17. ASSUME NEW p \in Runs, JobEnds(p) PROVE Identity'
  BY <1>17 DEF JobEnds, Exit, fsVars, leaveVars, coreVars
<1>18. ASSUME NEW p \in Runs, JobDone(p) PROVE Identity'
  BY <1>18 DEF JobDone, Goto, leaveVars, coreVars
<1>19. ASSUME NEW p \in Runs, LogJob(p) PROVE Identity'
  BY <1>19 DEF LogJob, Exit, leaveVars, coreVars
<1>20. ASSUME NEW p \in Runs, Crash(p) PROVE Identity'
  BY <1>20 DEF Crash, Exit, fsVars, leaveVars, coreVars
<1>21. ASSUME NEW p \in Runs, CoreEnrols(p) PROVE Identity'
  BY <1>21 DEF CoreEnrols, fsVars, leaveVars
<1>22. ASSUME NEW p \in Runs, CoreRefuses(p) PROVE Identity'
  BY <1>22 DEF CoreRefuses, fsVars, leaveVars, coreVars
<1>23. ASSUME NEW name \in todo, Unlink(name) PROVE Identity'
  BY <1>23 DEF Unlink, coreVars, runVars, NoFile
<1>24. CASE LeaveBegin
  BY <1>24 DEF LeaveBegin, fsVars, coreVars, runVars, Entries
<1>25. CASE LeaveDone
  BY <1>25 DEF LeaveDone, coreVars, runVars, Entries
<1>26. CASE LeaveFails
  BY <1>26 DEF LeaveFails, fsVars, coreVars, runVars, Entries
<1>27. QED
  BY <1>1, <1>2, <1>3, <1>4, <1>5, <1>6, <1>7, <1>8, <1>9, <1>10, <1>11, <1>12, <1>13, <1>14, <1>15, <1>16, <1>17, <1>18, <1>19, <1>20, <1>21, <1>22, <1>23, <1>24, <1>25, <1>26 DEF Next, KeyStep, RunStep, LeaveStep, CoreStep

(* The invariant holds in every state. *)
LEMMA Invariance == Spec => []IInv
<1>1. Init => IInv
  <2> SUFFICES ASSUME Init PROVE IInv
    OBVIOUS
  <2>1. TypeOK
    <3>1. keyFile \in [for : Keys \cup {NoKey}, written : BOOLEAN]
      BY DEF Init, NoFile
    <3>2. /\ key \in [Runs -> Keys \cup {NoKey}]
          /\ attempt \in [Runs -> 0 .. MaxAttempts]
          /\ crashes \in 0 .. MaxCrashes
          /\ leaves \in 0 .. MaxLeaves
      BY EnrolmentAssumption DEF Init
    <3>3. /\ dir \in BOOLEAN
          /\ marker \in Keys \cup {NoKey}
          /\ others \in SUBSET {"joblog", "seen"}
          /\ lpc \in {"idle", "unlink"}
          /\ todo \in SUBSET {"key", "registered", "joblog", "seen"}
          /\ enrolled \in SUBSET Keys
          /\ inviteUsed \in BOOLEAN
          /\ alone \in BOOLEAN
      BY EnrolmentAssumption DEF Init
    <3>4. pc \in [Runs -> {"off", "start", "create", "write", "load", "open", "marker",
                        "register", "await", "mark", "pull", "log"}]
      BY DEF Init
    <3>5. conn \in [Runs -> {"none", "sent", "accepted", "refused"}]
      BY DEF Init
    <3>6. QED
      BY <3>1, <3>2, <3>3, <3>4, <3>5 DEF TypeOK
  <2>2. Control
    BY DEF Init, Control, NoFile
  <2>3. MarkerIsEnrolled
    BY DEF Init, MarkerIsEnrolled, MarkerPresent
  <2>4. QED
    BY <2>1, <2>2, <2>3 DEF IInv
<1>2. IInv /\ [Next]_vars => IInv'
  BY TypeStep, ControlStep, MarkerStep DEF IInv
<1>3. QED
  BY <1>1, <1>2, PTL DEF Spec

(* The local state, the runs, `leave` and the core keep their types. *)
THEOREM TypeCorrect == Spec => []TypeOK
<1>1. IInv => TypeOK
  BY DEF IInv
<1>2. QED
  BY Invariance, <1>1, PTL

(* Whatever overlaps, dies or is deleted, the marker on disk is the public    *)
(* key of a pair the core has enrolled.                                       *)
THEOREM MarkerCorrect == Spec => []MarkerIsEnrolled
<1>1. IInv => MarkerIsEnrolled
  BY DEF IInv
<1>2. QED
  BY Invariance, <1>1, PTL

(* Until somebody leaves, the identity of the node is one in every state. *)
LEMMA IdentityInvariance == Spec => []Identity
<1>1. Init => Identity
  BY EnrolmentAssumption DEF Init, Identity, Loaded, MarkerPresent
<1>2. IInv /\ Identity /\ [Next]_vars => Identity'
  BY IdentityStep
<1>3. QED
  BY Invariance, <1>1, <1>2, PTL DEF Spec

(* Until somebody leaves, runs that race to generate the key pair end up with *)
(* one identity, that of the key file and of the marker.                      *)
THEOREM OneIdentityCorrect == Spec => []OneIdentity
<1>1. Identity => OneIdentity
  BY DEF Identity, OneIdentity
<1>2. QED
  BY <1>1, IdentityInvariance, PTL

(* Until somebody leaves, a run that goes on to pull work signs with a key    *)
(* the core has enrolled.                                                     *)
THEOREM EnrolledBeforeWorkCorrect == Spec => []EnrolledBeforeWork
<1>1. Identity => EnrolledBeforeWork
  BY DEF Identity, EnrolledBeforeWork
<1>2. QED
  BY <1>1, IdentityInvariance, PTL

(* A `leave` on its own has listed what there is to delete, and ends with *)
(* nothing; nobody but a run could make a file.                           *)
Undisturbed ==
    alone =>
        /\ \A p \in Runs : pc[p] = "off"
        /\ lpc = "unlink" => Entries \subseteq todo
        /\ lpc = "idle" => Entries = {} /\ dir = BindMount

(* While no run is alive, a run takes no step but the one that starts it. *)
LEMMA NobodyActs ==
  ASSUME IInv, NEW p \in Runs, pc[p] = "off",
         KeyStep(p) \/ RunStep(p) \/ Crash(p) \/ CoreStep(p)
  PROVE  FALSE
<1>1. conn[p] = "none"
  BY DEF IInv, Control
<1>2. ~KeyStep(p)
  BY DEF KeyStep, KeyExists, Generate, CreateKey, CreateKeyFails, WriteKey, LoadKey, LoadKeyFails
<1>3. ~RunStep(p)
  BY DEF RunStep, OpenLog, AlreadyRegistered, NotRegistered, PostKey, AttemptFails, LogRegistered,
         WriteMarker, JobEnds, JobDone, LogJob
<1>4. ~Crash(p) /\ ~CoreStep(p)
  BY <1>1 DEF Crash, CoreStep, CoreEnrols, CoreRefuses
<1>5. QED
  BY <1>2, <1>3, <1>4

(* Every step keeps what a `leave` on its own has achieved. *)
LEMMA UndisturbedStep == IInv /\ Undisturbed /\ [Next]_vars => Undisturbed'
<1> SUFFICES ASSUME IInv, Undisturbed, [Next]_vars, alone' PROVE Undisturbed'
  BY DEF Undisturbed
<1> USE EnrolmentAssumption DEF Undisturbed
<1>1. CASE UNCHANGED vars
  BY <1>1 DEF vars, runVars, fsVars, leaveVars, Entries, KeyPresent, MarkerPresent
<1>2. ASSUME NEW p \in Runs, Launch(p) \/ KeyStep(p) \/ RunStep(p) \/ Crash(p) \/ CoreStep(p)
      PROVE  Undisturbed'
  <2>1. CASE Launch(p)
    BY <2>1 DEF Launch
  <2>2. CASE KeyStep(p) \/ RunStep(p) \/ Crash(p) \/ CoreStep(p)
    <3>1. pc[p] # "off"
      BY <2>2, NobodyActs
    <3>2. ~alone
      BY <3>1
    <3>3. alone' = alone
      BY <2>2 DEF KeyStep, KeyExists, Generate, CreateKey, CreateKeyFails, WriteKey, LoadKey, LoadKeyFails,
         RunStep, OpenLog, AlreadyRegistered, NotRegistered, PostKey, AttemptFails, LogRegistered,
         WriteMarker, JobEnds, JobDone, LogJob, Crash, CoreStep, CoreEnrols, CoreRefuses, leaveVars
    <3>4. QED
      BY <3>2, <3>3
  <2>3. QED
    BY <1>2, <2>1, <2>2
<1>3. CASE LeaveBegin
  BY <1>3 DEF LeaveBegin, runVars, fsVars, Entries, KeyPresent, MarkerPresent
<1>4. ASSUME NEW name \in todo, Unlink(name) PROVE Undisturbed'
  <2>1. lpc = "unlink" /\ lpc' = "unlink" /\ pc' = pc /\ alone /\ todo' = todo \ {name}
    BY <1>4 DEF Unlink, runVars
  <2>2. Entries' \subseteq Entries \ {name}
    <3>1. "key" \notin others /\ "registered" \notin others
      BY DEF IInv, TypeOK
    <3>2. QED
      BY <1>4, <3>1 DEF Unlink, Entries, KeyPresent, MarkerPresent, NoFile
  <2>3. QED
    BY <2>1, <2>2
<1>5. CASE LeaveDone
  BY <1>5 DEF LeaveDone, runVars, Entries, KeyPresent, MarkerPresent
<1>6. CASE LeaveFails
  <2>1. lpc = "unlink" /\ todo = {} /\ Entries # {} /\ alone' = alone
    BY <1>6 DEF LeaveFails
  <2>2. QED
    BY <2>1
<1>7. QED
  BY <1>1, <1>2, <1>3, <1>4, <1>5, <1>6 DEF Next, LeaveStep

(* A `leave` with no run alive deletes everything, the directory included     *)
(* unless it is a mount point, and nothing comes back until a run is started. *)
THEOREM LeaveAloneCorrect == Spec => []LeaveAloneIsComplete
<1>1. Init => Undisturbed
  BY DEF Init, Undisturbed
<1>2. IInv /\ Undisturbed /\ [Next]_vars => Undisturbed'
  BY UndisturbedStep
<1>3. Undisturbed => LeaveAloneIsComplete
  BY DEF Undisturbed, LeaveAloneIsComplete
<1>4. QED
  BY Invariance, <1>1, <1>2, <1>3, PTL DEF Spec

(* A written key file is neither replaced nor emptied, whoever runs next to   *)
(* whom: only `leave` deletes it (O_EXCL in ensure_keypair).                  *)
THEOREM KeyIsKeptCorrect == Spec => KeyIsKept
<1> DEFINE Kept == keyFile.written /\ keyFile' # keyFile => keyFile' = NoFile /\ lpc = "unlink"
<1>1. IInv /\ [Next]_vars => [Kept]_vars
  <2> SUFFICES ASSUME IInv, Next, keyFile.written, keyFile' # keyFile
               PROVE  keyFile' = NoFile /\ lpc = "unlink"
    BY DEF vars, fsVars
  <2>1. ASSUME NEW p \in Runs, Launch(p) \/ KeyStep(p) PROVE FALSE
    BY <2>1 DEF Launch, KeyStep, KeyExists, Generate, CreateKey, CreateKeyFails, WriteKey, LoadKey,
       LoadKeyFails, fsVars, KeyPresent, NoFile, KeyOf
  <2>2. ASSUME NEW p \in Runs, RunStep(p) \/ Crash(p) \/ CoreStep(p) PROVE FALSE
    BY <2>2 DEF RunStep, OpenLog, AlreadyRegistered, NotRegistered, PostKey, AttemptFails, LogRegistered,
       WriteMarker, JobEnds, JobDone, LogJob, Crash, CoreStep, CoreEnrols, CoreRefuses, fsVars
  <2>3. ASSUME NEW name \in todo, Unlink(name) PROVE keyFile' = NoFile /\ lpc = "unlink"
    BY <2>3 DEF Unlink
  <2>4. ~LeaveBegin /\ ~LeaveDone /\ ~LeaveFails
    BY DEF LeaveBegin, LeaveDone, LeaveFails, fsVars
  <2>5. QED
    BY <2>1, <2>2, <2>3, <2>4 DEF Next, LeaveStep
<1>2. QED
  BY Invariance, <1>1, PTL DEF Spec, KeyIsKept
=============================================================================
