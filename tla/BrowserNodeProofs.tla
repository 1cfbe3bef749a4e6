------------------------- MODULE BrowserNodeProofs -------------------------
(***************************************************************************)
(* Invariants of BrowserNode: for any number of tabs, results are          *)
(* submitted under an enrolled key and no page resubmits; and as long as   *)
(* one tab alone is used, with any number of reloads and leaves, its       *)
(* identity is stored, its log only grows and no row is skipped.           *)
(***************************************************************************)
EXTENDS BrowserNode, FiniteSetTheorems, TLAPS

Labels == {"idle", "seed", "save", "register", "append", "write", "pull", "post",
           "ship_rows", "ship_cursor", "ship_post", "set"}

Types ==
    /\ seed \in Seeds \cup {NoSeed}
    /\ joblog \in Seq(Nat)
    /\ cursor \in Nat
    /\ pc \in [Tabs -> Labels]
    /\ call \in [Tabs -> {"run", "ship"}]
    /\ ring \in [Tabs -> Seeds \cup {NoSeed}]
    /\ registered \in [Tabs -> BOOLEAN]
    /\ seen \in [Tabs -> SUBSET Units]
    /\ wu \in [Tabs -> Units \cup {NoUnit}]
    /\ rows \in [Tabs -> Seq(Nat)]
    /\ from \in [Tabs -> Nat]
    /\ made \in Nat
    /\ told \in [Tabs -> SUBSET Units]
    /\ leaves \in Nat
    /\ used \in SUBSET Tabs

(* What a tab has in hand.  A node that counts as registered has a key ring,  *)
(* and the edge knows its key; what a page was told of, it has marked seen.   *)
Control ==
    \A t \in Tabs :
        /\ pc[t] = "seed" => ring[t] = NoSeed
        /\ pc[t] \notin {"idle", "seed"} => ring[t] # NoSeed
        /\ pc[t] = "save" => ~registered[t]
        /\ registered[t] => ring[t] \in enrolled /\ ring[t] # NoSeed
        /\ pc[t] \in {"append", "write", "pull", "post"} => ring[t] \in enrolled
        /\ pc[t] = "post" => wu[t] \in Units /\ wu[t] \notin seen[t]
        /\ told[t] \subseteq seen[t]

(* A tab in which nothing was ever called has done nothing. *)
Untouched ==
    /\ IsFiniteSet(used)
    /\ \A t \in Tabs \ used : pc[t] = "idle" /\ ring[t] = NoSeed

IInv == Types /\ Control /\ Untouched

(* With one tab, what it has read is what is there, and the cursor has passed *)
(* nothing that was not POSTed.                                               *)
Coherent ==
    /\ \A t \in Tabs : ring[t] # NoSeed /\ pc[t] # "save" => seed = ring[t]
    /\ cursor <= Len(joblog)
    /\ \A n \in 1 .. cursor : joblog[n] \in shipped
    /\ \A t \in Tabs :
        /\ pc[t] \in {"write", "ship_cursor", "ship_post", "set"} => rows[t] = joblog
        /\ pc[t] = "ship_post" => from[t] = cursor
        /\ pc[t] = "set" => \A n \in 1 .. Len(joblog) : joblog[n] \in shipped

Solo == OneTab => Coherent

----------------------------------------------------------------------------
(* Every step keeps the types. *)
LEMMA TypesStep == IInv /\ [Next]_vars => Types'
<1> SUFFICES ASSUME IInv, [Next]_vars PROVE Types'
  OBVIOUS
<1> USE BrowserNodeAssumption DEF IInv, Types, Labels
<1>1. CASE UNCHANGED vars
  BY <1>1 DEF vars, storeVars, nodeVars, callVars, edgeVars, histVars
<1>2. ASSUME NEW t \in Tabs, NEW c \in {"run", "ship"}, Begin(t, c) PROVE Types'
  BY <1>2 DEF Begin, AfterKeyring, Goto, storeVars, nodeVars, edgeVars
<1>3. ASSUME NEW t \in Tabs, LoadSeed(t) PROVE Types'
  BY <1>3 DEF LoadSeed, AfterKeyring, Goto, storeVars, callVars, edgeVars, histVars
<1>4. ASSUME NEW t \in Tabs, NEW s \in Seeds, Generate(t, s) PROVE Types'
  BY <1>4 DEF Generate, Goto, storeVars, callVars, edgeVars, histVars
<1>5. ASSUME NEW t \in Tabs, SaveSeed(t) PROVE Types'
  BY <1>5 DEF SaveSeed, AfterKeyring, Goto, nodeVars, callVars, edgeVars, histVars
<1>6. ASSUME NEW t \in Tabs, Register(t) PROVE Types'
  BY <1>6 DEF Register, Goto, storeVars, nodeVars, callVars, histVars
<1>7. ASSUME NEW t \in Tabs, RegisterFails(t) PROVE Types'
  BY <1>7 DEF RegisterFails, Return, Goto, storeVars, nodeVars, histVars
<1>8. ASSUME NEW t \in Tabs, AppendRead(t) PROVE Types'
  BY <1>8 DEF AppendRead, Goto, storeVars, nodeVars, edgeVars, histVars
<1>9. ASSUME NEW t \in Tabs, AppendWrite(t) PROVE Types'
  <2>1. joblog' \in Seq(Nat) /\ made' \in Nat
    BY <1>9 DEF AppendWrite
  <2>2. UNCHANGED <<seed, cursor, ring, seen, told, used, leaves>>
    BY <1>9 DEF AppendWrite
  <2>3. CASE Return(t) /\ UNCHANGED registered
    BY <2>1, <2>2, <2>3 DEF Return, Goto
  <2>4. CASE registered' = [registered EXCEPT ![t] = TRUE] /\ Goto(t, "pull") /\ UNCHANGED callVars
    BY <2>1, <2>2, <2>4 DEF Goto, callVars
  <2>5. QED
    BY <1>9, <2>3, <2>4 DEF AppendWrite
<1>10. ASSUME NEW t \in Tabs, NoWork(t) PROVE Types'
  BY <1>10 DEF NoWork, Goto, storeVars, nodeVars, callVars, edgeVars, histVars
<1>11. ASSUME NEW t \in Tabs, PullFails(t) PROVE Types'
  BY <1>11 DEF PullFails, Return, Goto, storeVars, nodeVars, edgeVars, histVars
<1>12. ASSUME NEW t \in Tabs, NEW u \in Units, Pull(t, u) PROVE Types'
  BY <1>12 DEF Pull, Goto, storeVars, nodeVars, edgeVars, histVars
<1>13. ASSUME NEW t \in Tabs, PostResult(t) PROVE Types'
  <2>1. wu[t] \in Units
    BY <1>13 DEF PostResult, Control
  <2>2. QED
    BY <1>13, <2>1 DEF PostResult, Goto, storeVars, callVars
<1>14. ASSUME NEW t \in Tabs, PostFails(t) PROVE Types'
  BY <1>14 DEF PostFails, Return, Goto, storeVars, nodeVars, histVars
<1>15. ASSUME NEW t \in Tabs, ShipRows(t) PROVE Types'
  BY <1>15 DEF ShipRows, Goto, storeVars, nodeVars, edgeVars, histVars
<1>16. ASSUME NEW t \in Tabs, ShipCursor(t) PROVE Types'
  <2>1. CASE Return(t)
    <3>1. UNCHANGED <<storeVars, nodeVars, histVars>>
      BY <1>16 DEF ShipCursor
    <3>2. QED
      BY <2>1, <3>1 DEF Return, Goto, storeVars, nodeVars, histVars
  <2>2. CASE from' = [from EXCEPT ![t] = cursor] /\ Goto(t, "ship_post") /\ UNCHANGED <<call, wu,
     rows>>
    <3>1. UNCHANGED <<storeVars, nodeVars, histVars>>
      BY <1>16 DEF ShipCursor
    <3>2. QED
      BY <2>2, <3>1 DEF Goto, storeVars, nodeVars, histVars
  <2>3. QED
    BY <1>16, <2>1, <2>2 DEF ShipCursor
<1>17. ASSUME NEW t \in Tabs, ShipBatch(t) PROVE Types'
  BY <1>17 DEF ShipBatch, Goto, storeVars, nodeVars, callVars, histVars
<1>18. ASSUME NEW t \in Tabs, ShipFails(t) PROVE Types'
  BY <1>18 DEF ShipFails, Return, Goto, storeVars, nodeVars, histVars
<1>19. ASSUME NEW t \in Tabs, SetCursor(t) PROVE Types'
  BY <1>19 DEF SetCursor, Return, Goto, nodeVars, edgeVars, histVars
<1>20. ASSUME NEW t \in Tabs, Leave(t) PROVE Types'
  BY <1>20 DEF Leave, callVars, edgeVars
<1>21. ASSUME NEW t \in Tabs, Reload(t) PROVE Types'
  BY <1>21 DEF Reload, Return, Goto, storeVars, edgeVars
<1>22. QED
  BY <1>1, <1>2, <1>3, <1>4, <1>5, <1>6, <1>7, <1>8, <1>9, <1>10, <1>11, <1>12, <1>13, <1>14,
     <1>15, <1>16, <1>17, <1>18, <1>19, <1>20, <1>21
  DEF Next, KeyringStep, RunStep, ShipStep

(* Every step keeps what the tabs have in hand. *)
LEMMA ControlStep == IInv /\ [Next]_vars => Control'
<1> SUFFICES ASSUME IInv, [Next]_vars PROVE Control'
  OBVIOUS
<1> USE BrowserNodeAssumption DEF IInv, Types, Labels, Control
<1>1. CASE UNCHANGED vars
  BY <1>1 DEF vars, storeVars, nodeVars, callVars, edgeVars, histVars
<1>2. ASSUME NEW t \in Tabs, NEW c \in {"run", "ship"}, Begin(t, c) PROVE Control'
  BY <1>2 DEF Begin, AfterKeyring, Goto, storeVars, nodeVars, edgeVars
<1>3. ASSUME NEW t \in Tabs, LoadSeed(t) PROVE Control'
  BY <1>3 DEF LoadSeed, AfterKeyring, Goto, storeVars, callVars, edgeVars, histVars
<1>4. ASSUME NEW t \in Tabs, NEW s \in Seeds, Generate(t, s) PROVE Control'
  BY <1>4 DEF Generate, Goto, storeVars, callVars, edgeVars, histVars
<1>5. ASSUME NEW t \in Tabs, SaveSeed(t) PROVE Control'
  BY <1>5 DEF SaveSeed, AfterKeyring, Goto, nodeVars, callVars, edgeVars, histVars
<1>6. ASSUME NEW t \in Tabs, Register(t) PROVE Control'
  BY <1>6 DEF Register, Goto, storeVars, nodeVars, callVars, histVars
<1>7. ASSUME NEW t \in Tabs, RegisterFails(t) PROVE Control'
  BY <1>7 DEF RegisterFails, Return, Goto, storeVars, nodeVars, histVars
<1>8. ASSUME NEW t \in Tabs, AppendRead(t) PROVE Control'
  BY <1>8 DEF AppendRead, Goto, storeVars, nodeVars, edgeVars, histVars
<1>9. ASSUME NEW t \in Tabs, AppendWrite(t) PROVE Control'
  <2>1. CASE registered[t]
    <3>1. Return(t) /\ UNCHANGED <<ring, registered, seen, enrolled, told>>
      BY <1>9, <2>1 DEF AppendWrite, edgeVars
    <3>2. QED
      BY <3>1 DEF Return, Goto
  <2>2. CASE ~registered[t]
    BY SMTT(20), <1>9, <2>2 DEF AppendWrite, Goto, callVars, edgeVars
  <2>3. QED
    BY <2>1, <2>2
<1>10. ASSUME NEW t \in Tabs, NoWork(t) PROVE Control'
  BY <1>10 DEF NoWork, Goto, storeVars, nodeVars, callVars, edgeVars, histVars
<1>11. ASSUME NEW t \in Tabs, PullFails(t) PROVE Control'
  BY <1>11 DEF PullFails, Return, Goto, storeVars, nodeVars, edgeVars, histVars
<1>12. ASSUME NEW t \in Tabs, NEW u \in Units, Pull(t, u) PROVE Control'
  BY <1>12 DEF Pull, Goto, storeVars, nodeVars, edgeVars, histVars
<1>13. ASSUME NEW t \in Tabs, PostResult(t) PROVE Control'
  BY <1>13 DEF PostResult, Goto, storeVars, callVars
<1>14. ASSUME NEW t \in Tabs, PostFails(t) PROVE Control'
  BY <1>14 DEF PostFails, Return, Goto, storeVars, nodeVars, histVars
<1>15. ASSUME NEW t \in Tabs, ShipRows(t) PROVE Control'
  BY <1>15 DEF ShipRows, Goto, storeVars, nodeVars, edgeVars, histVars
<1>16. ASSUME NEW t \in Tabs, ShipCursor(t) PROVE Control'
  <2>1. CASE Return(t)
    BY <1>16, <2>1 DEF ShipCursor, Return, Goto, nodeVars, edgeVars, histVars
  <2>2. CASE Goto(t, "ship_post") /\ UNCHANGED wu
    BY <1>16, <2>2 DEF ShipCursor, Goto, nodeVars, edgeVars, histVars
  <2>3. QED
    BY <1>16, <2>1, <2>2 DEF ShipCursor
<1>17. ASSUME NEW t \in Tabs, ShipBatch(t) PROVE Control'
  BY <1>17 DEF ShipBatch, Goto, storeVars, nodeVars, callVars, histVars
<1>18. ASSUME NEW t \in Tabs, ShipFails(t) PROVE Control'
  BY <1>18 DEF ShipFails, Return, Goto, storeVars, nodeVars, histVars
<1>19. ASSUME NEW t \in Tabs, SetCursor(t) PROVE Control'
  BY <1>19 DEF SetCursor, Return, Goto, nodeVars, edgeVars, histVars
<1>20. ASSUME NEW t \in Tabs, Leave(t) PROVE Control'
  BY <1>20 DEF Leave, callVars, edgeVars
<1>21. ASSUME NEW t \in Tabs, Reload(t) PROVE Control'
  BY <1>21 DEF Reload, Return, Goto, storeVars, edgeVars
<1>22. QED
  BY <1>1, <1>2, <1>3, <1>4, <1>5, <1>6, <1>7, <1>8, <1>9, <1>10, <1>11, <1>12, <1>13, <1>14,
     <1>15, <1>16, <1>17, <1>18, <1>19, <1>20, <1>21
  DEF Next, KeyringStep, RunStep, ShipStep

(* Every step leaves alone the tabs in which nothing is called. *)
LEMMA UntouchedStep == IInv /\ [Next]_vars => Untouched'
<1> SUFFICES ASSUME IInv, [Next]_vars PROVE Untouched'
  OBVIOUS
<1> USE FS_AddElement DEF IInv, Types, Labels, Untouched
<1>1. CASE UNCHANGED vars
  BY <1>1 DEF vars, storeVars, nodeVars, callVars, edgeVars, histVars
<1>2. ASSUME NEW t \in Tabs, NEW c \in {"run", "ship"}, Begin(t, c) PROVE Untouched'
  <2>1. IsFiniteSet(used')
    BY <1>2 DEF Begin
  <2>2. \A q \in Tabs \ used' : q # t /\ q \notin used
    BY <1>2 DEF Begin
  <2>3. QED
    BY <1>2, <2>1, <2>2 DEF Begin, AfterKeyring, Goto, nodeVars
<1>3. ASSUME NEW t \in Tabs, LoadSeed(t) PROVE Untouched'
  BY <1>3 DEF LoadSeed, AfterKeyring, Goto, storeVars, callVars, edgeVars, histVars
<1>4. ASSUME NEW t \in Tabs, NEW s \in Seeds, Generate(t, s) PROVE Untouched'
  BY <1>4 DEF Generate, Goto, storeVars, callVars, edgeVars, histVars
<1>5. ASSUME NEW t \in Tabs, SaveSeed(t) PROVE Untouched'
  BY <1>5 DEF SaveSeed, AfterKeyring, Goto, nodeVars, callVars, edgeVars, histVars
<1>6. ASSUME NEW t \in Tabs, Register(t) PROVE Untouched'
  BY <1>6 DEF Register, Goto, storeVars, nodeVars, callVars, histVars
<1>7. ASSUME NEW t \in Tabs, RegisterFails(t) PROVE Untouched'
  BY <1>7 DEF RegisterFails, Return, Goto, storeVars, nodeVars, histVars
<1>8. ASSUME NEW t \in Tabs, AppendRead(t) PROVE Untouched'
  BY <1>8 DEF AppendRead, Goto, storeVars, nodeVars, edgeVars, histVars
<1>9. ASSUME NEW t \in Tabs, AppendWrite(t) PROVE Untouched'
  BY <1>9 DEF AppendWrite, Return, Goto, callVars, edgeVars
<1>10. ASSUME NEW t \in Tabs, NoWork(t) PROVE Untouched'
  BY <1>10 DEF NoWork, Goto, storeVars, nodeVars, callVars, edgeVars, histVars
<1>11. ASSUME NEW t \in Tabs, PullFails(t) PROVE Untouched'
  BY <1>11 DEF PullFails, Return, Goto, storeVars, nodeVars, edgeVars, histVars
<1>12. ASSUME NEW t \in Tabs, NEW u \in Units, Pull(t, u) PROVE Untouched'
  BY <1>12 DEF Pull, Goto, storeVars, nodeVars, edgeVars, histVars
<1>13. ASSUME NEW t \in Tabs, PostResult(t) PROVE Untouched'
  BY <1>13 DEF PostResult, Goto, storeVars, callVars
<1>14. ASSUME NEW t \in Tabs, PostFails(t) PROVE Untouched'
  BY <1>14 DEF PostFails, Return, Goto, storeVars, nodeVars, histVars
<1>15. ASSUME NEW t \in Tabs, ShipRows(t) PROVE Untouched'
  BY <1>15 DEF ShipRows, Goto, storeVars, nodeVars, edgeVars, histVars
<1>16. ASSUME NEW t \in Tabs, ShipCursor(t) PROVE Untouched'
  BY <1>16 DEF ShipCursor, Return, Goto, storeVars, nodeVars, edgeVars, histVars
<1>17. ASSUME NEW t \in Tabs, ShipBatch(t) PROVE Untouched'
  BY <1>17 DEF ShipBatch, Goto, storeVars, nodeVars, callVars, histVars
<1>18. ASSUME NEW t \in Tabs, ShipFails(t) PROVE Untouched'
  BY <1>18 DEF ShipFails, Return, Goto, storeVars, nodeVars, histVars
<1>19. ASSUME NEW t \in Tabs, SetCursor(t) PROVE Untouched'
  BY <1>19 DEF SetCursor, Return, Goto, nodeVars, edgeVars, histVars
<1>20. ASSUME NEW t \in Tabs, Leave(t) PROVE Untouched'
  <2>1. used' = used \cup {t} /\ IsFiniteSet(used')
    BY <1>20 DEF Leave
  <2>2. UNCHANGED pc /\ ring' = [ring EXCEPT ![t] = NoSeed]
    BY <1>20 DEF Leave
  <2>3. QED
    BY <2>1, <2>2
<1>21. ASSUME NEW t \in Tabs, Reload(t) PROVE Untouched'
  BY <1>21 DEF Reload, Return, Goto, storeVars, edgeVars
<1>22. QED
  BY <1>1, <1>2, <1>3, <1>4, <1>5, <1>6, <1>7, <1>8, <1>9, <1>10, <1>11, <1>12, <1>13, <1>14,
     <1>15, <1>16, <1>17, <1>18, <1>19, <1>20, <1>21
  DEF Next, KeyringStep, RunStep, ShipStep

(* The invariant holds in every state. *)
LEMMA Invariance == Spec => []IInv
<1>1. Init => IInv
  BY FS_EmptySet, BrowserNodeAssumption DEF Init, IInv, Types, Labels, Control, Untouched
<1>2. IInv /\ [Next]_vars => IInv'
  BY TypesStep, ControlStep, UntouchedStep DEF IInv
<1>3. QED
  BY <1>1, <1>2, PTL DEF Spec

(* However many tabs race for the seed, leave and come back, a tab submits    *)
(* results only under a seed whose key the edge has enrolled.                 *)
THEOREM EnrolledBeforeWorkCorrect == Spec => []EnrolledBeforeWork
<1>1. IInv => EnrolledBeforeWork
  BY DEF IInv, Control, EnrolledBeforeWork
<1>2. QED
  BY Invariance, <1>1, PTL

(* A page never submits a unit again after it has been told that its result   *)
(* was taken, whatever the other tabs do.                                     *)
THEOREM NoResubmissionCorrect == Spec => []NoResubmission
<1>1. IInv => NoResubmission
  BY DEF IInv, Types, Control, NoResubmission
<1>2. QED
  BY Invariance, <1>1, PTL

----------------------------------------------------------------------------
(* Two members of a set of one are the same. *)
LEMMA OneMember ==
    ASSUME NEW S, IsFiniteSet(S), Cardinality(S) <= 1, NEW x \in S, NEW y \in S
    PROVE  x = y
<1>1. Cardinality(S) \in Nat
  BY FS_CardinalityType
<1>2. Cardinality(S) # 0
  BY FS_EmptySet
<1>3. Cardinality(S) = 1
  BY <1>1, <1>2
<1>4. PICK z : S = {z}
  BY <1>3, FS_Singleton
<1>5. QED
  BY <1>4

(* What stands behind the cursor is in the batch. *)
LEMMA BatchCovers ==
    ASSUME NEW s \in Seq(Nat), NEW k \in Nat, NEW n \in 1 .. Len(s), n > k
    PROVE  s[n] \in ToSet(SubSeq(s, k + 1, Len(s)))
<1> DEFINE b == SubSeq(s, k + 1, Len(s))
<1>1. n - k \in 1 .. Len(b) /\ b[n - k] = s[n]
  OBVIOUS
<1>2. n - k \in DOMAIN b
  BY <1>1
<1>3. QED
  BY <1>1, <1>2 DEF ToSet

(* A tab that was used stays used. *)
LEMMA UsedGrows == ASSUME Next PROVE used \subseteq used'
BY DEF Next, Begin, KeyringStep, LoadSeed, Generate, SaveSeed, RunStep, Register, RegisterFails,
   AppendRead, AppendWrite, NoWork, PullFails, Pull, PostResult, PostFails, ShipStep, ShipRows,
   ShipCursor, ShipBatch, ShipFails, SetCursor, Leave, Reload, histVars

(* Every tab but t is as it was opened. *)
OthersIdle(t) == \A q \in Tabs \ {t} : pc[q] = "idle" /\ ring[q] = NoSeed

(* When one tab is used after a step, no other was before. *)
LEMMA OneTabIsLeft ==
    ASSUME IInv, Next, OneTab'
    PROVE  /\ OneTab
           /\ \A t \in used' : OthersIdle(t)
<1>1. used \subseteq used' /\ IsFiniteSet(used')
  BY UsedGrows, UntouchedStep DEF Untouched
<1>2. Cardinality(used) \in Nat /\ Cardinality(used') \in Nat /\ Cardinality(used) <=
   Cardinality(used')
  BY <1>1, FS_Subset, FS_CardinalityType
<1>3. ASSUME NEW t \in used', NEW q \in Tabs \ {t} PROVE pc[q] = "idle" /\ ring[q] = NoSeed
  <2>1. q \notin used'
    BY <1>1, OneMember DEF OneTab
  <2>2. QED
    BY <1>1, <2>1 DEF IInv, Untouched
<1>4. QED
  BY <1>2, <1>3 DEF OneTab, OthersIdle

(* With one tab, every step keeps what it has read true. *)
LEMMA SoloStep == IInv /\ Solo /\ [Next]_vars => Solo'
<1> SUFFICES ASSUME IInv, Solo, [Next]_vars, OneTab' PROVE Coherent'
  BY DEF Solo
<1>1. Types
  BY DEF IInv
<1>2. CASE Next
  <2>a. Coherent /\ Types
    BY <1>1, <1>2, OneTabIsLeft DEF Solo
  <2>b. ASSUME NEW t \in Tabs, pc[t] # "idle" \/ t \in used' PROVE OthersIdle(t)
    <3>1. t \in used'
      BY <2>b, <1>2, UsedGrows DEF IInv, Untouched
    <3>2. QED
      BY <1>2, <3>1, OneTabIsLeft
  <2>1. ASSUME NEW t \in Tabs, NEW c \in {"run", "ship"}, Begin(t, c) PROVE Coherent'
    <3>1. OthersIdle(t)
      BY <2>b, <2>1 DEF Begin
    <3>2. QED
      BY <2>a, <2>1, <3>1 DEF Begin, AfterKeyring, Goto, storeVars, nodeVars, edgeVars, Coherent,
         OthersIdle, Types
  <2>2. ASSUME NEW t \in Tabs, LoadSeed(t) PROVE Coherent'
    <3>1. OthersIdle(t)
      BY <2>b, <2>2 DEF LoadSeed
    <3>2. QED
      BY <2>a, <2>2, <3>1 DEF LoadSeed, AfterKeyring, Goto, storeVars, callVars, edgeVars,
         histVars, Coherent, OthersIdle, Types
  <2>3. ASSUME NEW t \in Tabs, NEW s \in Seeds, Generate(t, s) PROVE Coherent'
    <3>1. OthersIdle(t)
      BY <2>b, <2>3 DEF Generate
    <3>2. QED
      BY <2>a, <2>3, <3>1 DEF Generate, Goto, storeVars, callVars, edgeVars, histVars, Coherent,
         OthersIdle, Types
  <2>4. ASSUME NEW t \in Tabs, SaveSeed(t) PROVE Coherent'
    <3>1. OthersIdle(t)
      BY <2>b, <2>4 DEF SaveSeed
    <3>2. QED
      BY <2>a, <2>4, <3>1 DEF SaveSeed, AfterKeyring, Goto, nodeVars, callVars, edgeVars,
         histVars, Coherent, OthersIdle, Types
  <2>5. ASSUME NEW t \in Tabs, Register(t) PROVE Coherent'
    <3>1. OthersIdle(t)
      BY <2>b, <2>5 DEF Register
    <3>2. QED
      BY <2>a, <2>5, <3>1 DEF Register, Goto, storeVars, nodeVars, callVars, histVars, Coherent,
         OthersIdle, Types
  <2>6. ASSUME NEW t \in Tabs, RegisterFails(t) PROVE Coherent'
    <3>1. OthersIdle(t)
      BY <2>b, <2>6 DEF RegisterFails
    <3>2. QED
      BY <2>a, <2>6, <3>1 DEF RegisterFails, Return, Goto, storeVars, nodeVars, histVars,
         Coherent, OthersIdle, Types
  <2>7. ASSUME NEW t \in Tabs, AppendRead(t) PROVE Coherent'
    <3>1. OthersIdle(t)
      BY <2>b, <2>7 DEF AppendRead
    <3>2. QED
      BY <2>a, <2>7, <3>1 DEF AppendRead, Goto, storeVars, nodeVars, edgeVars, histVars, Coherent,
         OthersIdle, Types
  <2>8. ASSUME NEW t \in Tabs, AppendWrite(t) PROVE Coherent'
    <3>1. OthersIdle(t)
      BY <2>b, <2>8 DEF AppendWrite
    <3>2. rows[t] = joblog /\ pc[t] = "write"
      BY <2>a, <2>8 DEF AppendWrite, Coherent
    <3>3. /\ joblog' = Append(joblog, made')
          /\ UNCHANGED <<cursor, shipped, seed, ring>>
          /\ made' \in Nat
      BY <2>a, <3>2, <2>8 DEF AppendWrite, edgeVars, Types
    <3>4. /\ Len(joblog') = Len(joblog) + 1
          /\ \A n \in 1 .. Len(joblog) : joblog'[n] = joblog[n]
      BY <2>a, <3>3 DEF Types
    <3>5. cursor' <= Len(joblog') /\ \A n \in 1 .. cursor' : joblog'[n] \in shipped'
      BY <2>a, <3>3, <3>4 DEF Types, Coherent
    <3>6. pc' = [pc EXCEPT ![t] = pc'[t]] /\ pc'[t] \in {"idle", "pull"}
      BY <2>a, <2>8 DEF AppendWrite, Return, Goto, Types
    <3>7. \A q \in Tabs : pc'[q] \in {"idle", "pull"}
      BY <2>a, <3>1, <3>6 DEF Types, OthersIdle
    <3>8. \A q \in Tabs : ring'[q] # NoSeed /\ pc'[q] # "save" => seed' = ring'[q]
      BY <2>a, <3>1, <3>2, <3>3 DEF Types, OthersIdle, Coherent
    <3>9. QED
      BY <3>5, <3>7, <3>8 DEF Coherent
  <2>9. ASSUME NEW t \in Tabs, NoWork(t) PROVE Coherent'
    <3>1. OthersIdle(t)
      BY <2>b, <2>9 DEF NoWork
    <3>2. QED
      BY <2>a, <2>9, <3>1 DEF NoWork, Goto, storeVars, nodeVars, callVars, edgeVars, histVars,
         Coherent, OthersIdle, Types
  <2>10. ASSUME NEW t \in Tabs, PullFails(t) PROVE Coherent'
    <3>1. OthersIdle(t)
      BY <2>b, <2>10 DEF PullFails
    <3>2. QED
      BY <2>a, <2>10, <3>1 DEF PullFails, Return, Goto, storeVars, nodeVars, edgeVars, histVars,
         Coherent, OthersIdle, Types
  <2>11. ASSUME NEW t \in Tabs, NEW u \in Units, Pull(t, u) PROVE Coherent'
    <3>1. OthersIdle(t)
      BY <2>b, <2>11 DEF Pull
    <3>2. QED
      BY <2>a, <2>11, <3>1 DEF Pull, Goto, storeVars, nodeVars, edgeVars, histVars, Coherent,
         OthersIdle, Types
  <2>12. ASSUME NEW t \in Tabs, PostResult(t) PROVE Coherent'
    <3>1. OthersIdle(t)
      BY <2>b, <2>12 DEF PostResult
    <3>2. QED
      BY <2>a, <2>12, <3>1 DEF PostResult, Goto, storeVars, callVars, Coherent, OthersIdle, Types
  <2>13. ASSUME NEW t \in Tabs, PostFails(t) PROVE Coherent'
    <3>1. OthersIdle(t)
      BY <2>b, <2>13 DEF PostFails
    <3>2. QED
      BY <2>a, <2>13, <3>1 DEF PostFails, Return, Goto, storeVars, nodeVars, histVars, Coherent,
         OthersIdle, Types
  <2>14. ASSUME NEW t \in Tabs, ShipRows(t) PROVE Coherent'
    <3>1. OthersIdle(t)
      BY <2>b, <2>14 DEF ShipRows
    <3>2. QED
      BY <2>a, <2>14, <3>1 DEF ShipRows, Goto, storeVars, nodeVars, edgeVars, histVars, Coherent,
         OthersIdle, Types
  <2>15. ASSUME NEW t \in Tabs, ShipCursor(t) PROVE Coherent'
    <3>1. OthersIdle(t)
      BY <2>b, <2>15 DEF ShipCursor
    <3>2. UNCHANGED <<storeVars, ring, shipped>>
      BY <2>15 DEF ShipCursor, nodeVars, edgeVars
    <3>3. CASE Return(t)
      <4>1. \A q \in Tabs : pc'[q] = "idle"
        BY <2>a, <3>1, <3>3 DEF Return, Goto, OthersIdle, Types
      <4>2. \A q \in Tabs : ring'[q] # NoSeed /\ pc'[q] # "save" => seed' = ring'[q]
        BY <2>a, <3>1, <3>2, <2>15 DEF Types, OthersIdle, Coherent, storeVars, ShipCursor
      <4>3. QED
        BY <2>a, <3>2, <4>1, <4>2 DEF Coherent, storeVars
    <3>4. CASE from' = [from EXCEPT ![t] = cursor] /\ Goto(t, "ship_post") /\ UNCHANGED rows
      BY <2>a, <3>1, <3>2, <3>4, <2>15 DEF ShipCursor, Goto, Coherent, OthersIdle, Types, storeVars
    <3>5. QED
      BY <3>3, <3>4, <2>15 DEF ShipCursor
  <2>16. ASSUME NEW t \in Tabs, ShipBatch(t) PROVE Coherent'
    <3>1. OthersIdle(t)
      BY <2>b, <2>16 DEF ShipBatch
    <3>2. rows[t] = joblog /\ from[t] = cursor /\ pc[t] = "ship_post"
      BY <2>a, <2>16 DEF ShipBatch, Coherent
    <3>3. ASSUME NEW n \in 1 .. Len(joblog) PROVE joblog[n] \in shipped'
      <4>1. CASE n <= cursor
        BY <2>a, <4>1, <2>16 DEF Coherent, Types, ShipBatch
      <4>2. CASE n > cursor
        BY <2>a, <3>2, <4>2, BatchCovers, <2>16 DEF Types, ShipBatch, Batch
      <4>3. QED
        BY <2>a, <4>1, <4>2 DEF Types
    <3>4. UNCHANGED <<storeVars, ring, rows, from>> /\ pc' = [pc EXCEPT ![t] = "set"]
      BY <2>16 DEF ShipBatch, nodeVars, callVars, Goto
    <3>5. /\ \A n \in 1 .. cursor' : joblog'[n] \in shipped'
          /\ cursor' <= Len(joblog')
      BY <2>a, <3>3, <3>4 DEF Coherent, Types, storeVars
    <3>6. \A q \in Tabs : ring'[q] # NoSeed /\ pc'[q] # "save" => seed' = ring'[q]
      BY <2>a, <3>1, <3>2, <3>4 DEF Types, OthersIdle, Coherent, storeVars
    <3>7. \A q \in Tabs \ {t} : pc'[q] = "idle"
      BY <2>a, <3>1, <3>4 DEF Types, OthersIdle
    <3>8. pc'[t] = "set" /\ rows'[t] = joblog' /\ \A n \in 1 .. Len(joblog') : joblog'[n] \in
       shipped'
      BY <2>a, <3>2, <3>3, <3>4 DEF Types, storeVars
    <3>9. QED
      BY <3>5, <3>6, <3>7, <3>8 DEF Coherent
  <2>17. ASSUME NEW t \in Tabs, ShipFails(t) PROVE Coherent'
    <3>1. OthersIdle(t)
      BY <2>b, <2>17 DEF ShipFails
    <3>2. QED
      BY <2>a, <2>17, <3>1 DEF ShipFails, Return, Goto, storeVars, nodeVars, histVars, Coherent,
         OthersIdle, Types
  <2>18. ASSUME NEW t \in Tabs, SetCursor(t) PROVE Coherent'
    <3>1. OthersIdle(t)
      BY <2>b, <2>18 DEF SetCursor
    <3>2. cursor' = Len(joblog) /\ UNCHANGED <<joblog, shipped, seed, ring>>
      BY <2>a, <2>18 DEF SetCursor, Coherent, edgeVars, nodeVars
    <3>3. pc' = [pc EXCEPT ![t] = "idle"]
      BY <2>18 DEF SetCursor, Return, Goto
    <3>4. \A q \in Tabs : pc'[q] = "idle"
      BY <2>a, <3>1, <3>3 DEF OthersIdle, Types
    <3>5. cursor' <= Len(joblog') /\ \A n \in 1 .. cursor' : joblog'[n] \in shipped'
      BY <2>a, <3>2, <2>18 DEF Types, SetCursor, Coherent
    <3>6. \A q \in Tabs : ring'[q] # NoSeed /\ pc'[q] # "save" => seed' = ring'[q]
      BY <2>a, <3>1, <3>2, <2>18 DEF Types, OthersIdle, Coherent, SetCursor
    <3>7. QED
      BY <3>4, <3>5, <3>6 DEF Coherent
  <2>19. ASSUME NEW t \in Tabs, Leave(t) PROVE Coherent'
    <3>1. OthersIdle(t)
      BY <2>b, <2>19 DEF Leave
    <3>2. joblog' = <<>> /\ cursor' = 0 /\ \A q \in Tabs : pc'[q] = "idle" /\ ring'[q] = NoSeed
      BY <2>a, <3>1, <2>19 DEF Leave, OthersIdle, Types
    <3>3. QED
      BY <3>2 DEF Coherent
  <2>20. ASSUME NEW t \in Tabs, Reload(t) PROVE Coherent'
    BY <2>a, <2>20 DEF Reload, Return, Goto, storeVars, edgeVars, Coherent, Types
  <2>21. QED
    BY <1>2, <2>1, <2>2, <2>3, <2>4, <2>5, <2>6, <2>7, <2>8, <2>9, <2>10, <2>11, <2>12, <2>13,
       <2>14, <2>15, <2>16, <2>17, <2>18, <2>19, <2>20
    DEF Next, KeyringStep, RunStep, ShipStep
<1>3. CASE UNCHANGED vars
  <2>1. OneTab
    BY <1>3 DEF OneTab, vars, histVars
  <2>2. Coherent
    BY <2>1 DEF Solo
  <2>3. QED
    BY <1>3, <2>2 DEF Coherent, vars, storeVars, nodeVars, callVars, edgeVars, histVars
<1>4. QED
  BY <1>2, <1>3

(* As long as one tab is used, what is read there is what is there. *)
LEMMA SoloInvariance == Spec => []Solo
<1>1. Init => Solo
  BY DEF Init, Solo, Coherent
<1>2. IInv /\ Solo /\ [Next]_vars => Solo'
  BY SoloStep
<1>3. QED
  BY Invariance, <1>1, <1>2, PTL DEF Spec

(* With one tab, a node that counts as registered has its seed in the store:  *)
(* the next page goes on under the same identity.                             *)
THEOREM IdentityCorrect == Spec => []IdentityIsStored
<1>1. IInv /\ Solo => IdentityIsStored
  BY DEF IInv, Control, Solo, Coherent, IdentityIsStored
<1>2. QED
  BY Invariance, SoloInvariance, <1>1, PTL

(* With one tab, every row behind the ship cursor was POSTed, whatever is     *)
(* reloaded or left in between.                                               *)
THEOREM NothingSkippedCorrect == Spec => []NothingSkipped
<1>1. IInv /\ Solo => NothingSkipped
  <2> SUFFICES ASSUME IInv, Coherent, NEW n \in DOMAIN joblog, n <= cursor PROVE joblog[n] \in
     shipped
    BY DEF Solo, NothingSkipped
  <2>1. n \in 1 .. cursor
    BY DEF IInv, Types
  <2>2. QED
    BY <2>1 DEF Coherent
<1>2. QED
  BY Invariance, SoloInvariance, <1>1, PTL

(* With one tab, rows are added at the end of the job log and go with `leave` *)
(* only: what append writes back is what it has read, and one row more.       *)
THEOREM OneTabAppendsOnlyCorrect == Spec => OneTabAppendsOnly
<1> DEFINE Grows == OneTab' /\ leaves' = leaves => IsPrefix(joblog, joblog')
<1>1. IInv /\ Solo /\ [Next]_vars => [Grows]_vars
  <2> SUFFICES ASSUME IInv, Solo, Next, OneTab', leaves' = leaves PROVE IsPrefix(joblog, joblog')
    OBVIOUS
  <2>1. joblog \in Seq(Nat) /\ leaves \in Nat
    BY DEF IInv, Types
  <2>2. CASE joblog' = joblog
    BY <2>1, <2>2 DEF IsPrefix
  <2>3. ASSUME NEW t \in Tabs, AppendWrite(t) PROVE IsPrefix(joblog, joblog')
    <3>1. Coherent
      BY OneTabIsLeft DEF Solo
    <3>2. rows[t] = joblog
      BY <2>3, <3>1 DEF AppendWrite, Coherent
    <3>3. joblog' = Append(joblog, made') /\ made' \in Nat
      BY <2>3, <3>2 DEF AppendWrite, IInv, Types
    <3>4. QED
      BY <2>1, <3>3 DEF IsPrefix
  <2>4. ASSUME NEW t \in Tabs, Leave(t) PROVE FALSE
    BY <2>1, <2>4 DEF Leave
  <2>5. CASE ~\E t \in Tabs : AppendWrite(t) \/ Leave(t)
    <3>1. joblog' = joblog
      BY <2>5 DEF Next, Begin, KeyringStep, LoadSeed, Generate, SaveSeed, RunStep, Register,
         RegisterFails, AppendRead, NoWork, PullFails, Pull, PostResult, PostFails, ShipStep,
         ShipRows, ShipCursor, ShipBatch, ShipFails, SetCursor, Reload, storeVars
    <3>2. QED
      BY <2>2, <3>1
  <2>6. QED
    BY <2>3, <2>4, <2>5
<1>2. QED
  BY Invariance, SoloInvariance, <1>1, PTL DEF Spec, OneTabAppendsOnly
=============================================================================
