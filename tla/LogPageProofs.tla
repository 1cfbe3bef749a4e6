---------------------------- MODULE LogPageProofs ----------------------------
(***************************************************************************)
(* Invariants of LogPage for any number of connections, histories under    *)
(* way, rows, `leave`, lost connections and any size of the page: no row   *)
(* is shown three times, a row that is missing is accounted for, and the   *)
(* page is refused only after as many lost connections as there are slots. *)
(* LogWall's invariant carries over, for every step of the page is one of  *)
(* LogWall's or none.                                                      *)
(***************************************************************************)
EXTENDS LogPage, LogWallProofs, WellFoundedInduction, SequenceTheorems

Rows == Inodes \X (1 .. MaxRows)
History == [log : [file : Inodes \cup {NoFile}, len : 0 .. MaxRows], limit : 0 .. MaxShown]
Slot == [state : {"idle", "asked", "answered"}, limit : 0 .. MaxShown,
         at : History, rows : Seq(Rows)]

PageTypes ==
    /\ es \in {"none", "waiting", "connecting", "open", "closed"}
    /\ via \in Conns \cup {NoConn}
    /\ via # NoConn <=> es \in {"connecting", "open"}
    /\ wire \in Seq(Rows)
    /\ shown \in Seq(Rows) /\ Len(shown) <= MaxShown
    /\ loads \in [Loads -> Slot]
    /\ base \in History
    /\ late \subseteq Rows
    /\ drops \in 0 .. MaxDrops

(* The last rows of a log, as far as the limit goes. *)
LastRows(h) ==
    LET m == Min({h.limit, h.log.len})
    IN  [k \in 1 .. m |-> <<h.log.file, h.log.len - m + k>>]

Sound(slot) ==
    /\ slot.state # "idle" => slot.limit \in 1 .. MaxShown
    /\ slot.state = "answered" => slot.at.limit = slot.limit /\ slot.rows = LastRows(slot.at)

(* What is asked for is within the limits, and the answer is of one log. *)
Answers == \A l \in Loads : Sound(loads[l])

(* The page's connection is followed by a thread. *)
Following == via # NoConn /\ pc[via] = "follow"

(* The rows of the stream that have come. *)
Received == pos[via] - Len(wire)

(* The page never closes its connection while it has it, so no thread ends    *)
(* with rows on the wire; those on it are the last the thread is past.        *)
Stream ==
    /\ via # NoConn => peer[via] = "open"
    /\ wire # <<>> => Following
    /\ Following =>
          /\ start[via] <= Received
          /\ \A k \in 1 .. Len(wire) : wire[k] = <<handle[via], Received + k>>

(* A log that is not there yet has no rows, and a thread reads no further     *)
(* than the end of its log.                                                   *)
Reads ==
    /\ \A i \in Inodes : leaves < i /\ i # file => len[i] = 0
    /\ \A c \in Conns : IF pc[c] = "follow" THEN start[c] <= pos[c] /\ pos[c] <= len[handle[c]]
                        ELSE pos[c] = 0

(* How far the page is in a log: no row up to here comes on the stream again, *)
(* however often it connects.                                                 *)
Got(i) ==
    IF via = NoConn THEN len[i]
    ELSE IF pc[via] = "follow" THEN (IF handle[via] = i THEN Received ELSE len[i])
    ELSE IF asked[via].file = i THEN asked[via].len
    ELSE IF leaves < i THEN 0 ELSE len[i]

Once(row) == \A a, b \in DOMAIN shown : shown[a] = row /\ shown[b] = row => a = b
Twice(row) ==
    \A a, b, d \in DOMAIN shown :
        shown[a] = row /\ shown[b] = row /\ shown[d] = row => a = b \/ b = d \/ a = d

(* A row is on the page twice at most, and once while the stream has yet to   *)
(* bring it.                                                                  *)
Shown == \A i \in Inodes, n \in 1 .. MaxRows :
            Twice(<<i, n>>) /\ (Got(i) < n => Once(<<i, n>>))

(* As long as the page has room, the rows of the history are on it, and those *)
(* of the stream that came after that history.                                *)
FromHistory ==
    base.log.file # NoFile /\ Len(shown) < MaxShown =>
        \A n \in 1 .. base.log.len :
            base.log.len - base.limit < n => OnPage(<<base.log.file, n>>)

FromStream ==
    Following /\ base.log.file = handle[via] /\ Len(shown) < MaxShown =>
        \A n \in start[via] + 1 .. Received :
            base.log.len < n => OnPage(<<handle[via], n>>) \/ <<handle[via], n>> \in late

(* The threads that are not the page's own are what is left of its lost       *)
(* connections, and each takes one slot with it at most.                      *)
Others == {c \in Conns : c # via /\ pc[c] # "none"}
Losses ==
    /\ IsFiniteSet(Others)
    /\ MaxClients - free - Cardinality(Live) + Cardinality(Others) <= drops
    /\ es = "closed" => MaxClients <= drops

PageInv ==
    /\ IInv /\ PageTypes /\ Answers /\ Stream /\ Reads
    /\ Shown /\ FromHistory /\ FromStream /\ Losses

----------------------------------------------------------------------------
(* Numbers, and the order the rows of a history are shown in. *)

(* Every set of numbers has a least one, and `Min` is it. *)
LEMMA LeastNumber ==
  ASSUME NEW T, T \subseteq Nat, T # {}
  PROVE  \E m \in T : \A n \in T : m <= n
<1>1. \E m \in T : \A n \in T : ~(<<n, m>> \in OpToRel(<, Nat))
  BY NatLessThanWellFounded, WFMin
<1>2. \A m, n \in Nat : <<n, m>> \in OpToRel(<, Nat) <=> n < m
  BY DEF OpToRel
<1>3. PICK m \in T : \A n \in T : ~(<<n, m>> \in OpToRel(<, Nat))
  BY <1>1
<1>4. \A n \in T : ~(n < m)
  BY <1>2, <1>3
<1>5. \A n \in T : m <= n
  BY <1>4
<1> QED BY <1>5

LEMMA MinIs ==
  ASSUME NEW T, T \subseteq Nat, T # {}
  PROVE  Min(T) \in T /\ \A n \in T : Min(T) <= n
BY LeastNumber DEF Min

(* Induction on the numbers, over the set of those that have the property. *)
LEMMA SetInduction ==
  ASSUME NEW T, 0 \in T, \A n \in Nat : n \in T => n + 1 \in T
  PROVE  Nat \subseteq T
<1> SUFFICES ASSUME Nat \ T # {} PROVE FALSE
  OBVIOUS
<1>1. PICK m \in Nat \ T : \A n \in Nat \ T : m <= n
  BY LeastNumber
<1>2. m - 1 \in Nat /\ m - 1 \notin Nat \ T
  BY <1>1
<1> QED BY <1>2

LEMMA MinOfTwo ==
  ASSUME NEW a \in Nat, NEW b \in Nat
  PROVE  Min({a, b}) = IF a <= b THEN a ELSE b
BY MinIs

(* What FoldRight makes of the rows with the numbers in s, for every s. *)
Unfolded(rows, g, S) ==
    [s \in SUBSET S |-> IF s = {} THEN <<>> ELSE AddEvent(rows[Min(s)], g[s \ {Min(s)}])]

LEMMA FoldExists ==
  ASSUME NEW rows, NEW n \in Nat
  PROVE  \E g : g = Unfolded(rows, g, 1 .. n)
<1> DEFINE T == {j \in Nat : j <= n => \E g : g = Unfolded(rows, g, n - j + 1 .. n)}
<1>1. 0 \in T
  <2> DEFINE g0 == [s \in SUBSET (n + 1 .. n) |-> <<>>]
  <2>1. n + 1 .. n = {}
    OBVIOUS
  <2>2. g0 = Unfolded(rows, g0, n + 1 .. n)
    BY <2>1 DEF Unfolded
  <2>3. n - 0 + 1 = n + 1
    OBVIOUS
  <2> HIDE DEF g0
  <2> QED BY <2>2, <2>3
<1>2. ASSUME NEW j \in Nat, j \in T, j + 1 <= n PROVE j + 1 \in T
  <2> DEFINE k == n - j
  <2>1. k \in Nat /\ n - j + 1 = k + 1 /\ n - (j + 1) + 1 = k
    BY <1>2
  <2>2. PICK g : g = Unfolded(rows, g, k + 1 .. n)
    BY <1>2, <2>1
  <2> HIDE DEF k
  <2> DEFINE h == Unfolded(rows, g, k .. n)
  <2>3. ASSUME NEW s \in SUBSET (k .. n), s # {}
        PROVE  h[s \ {Min(s)}] = g[s \ {Min(s)}]
    <3> DEFINE t == s \ {Min(s)}
    <3>0. s \subseteq Nat
      BY <2>1
    <3>1. Min(s) \in s /\ \A m \in s : Min(s) <= m
      BY <2>3, <3>0, MinIs
    <3>2. ASSUME NEW m \in t PROVE m \in k + 1 .. n
      <4>1. m \in k .. n /\ Min(s) \in k .. n /\ m # Min(s) /\ Min(s) <= m
        BY <3>1
      <4> QED BY <2>1, <4>1
    <3>3. t \in SUBSET (k .. n)
      OBVIOUS
    <3>4. g[t] = IF t = {} THEN <<>> ELSE AddEvent(rows[Min(t)], g[t \ {Min(t)}])
      <4> HIDE DEF t
      <4> QED BY <2>2, <3>2 DEF Unfolded
    <3>5. h[t] = IF t = {} THEN <<>> ELSE AddEvent(rows[Min(t)], g[t \ {Min(t)}])
      <4> HIDE DEF t
      <4> QED BY <3>3 DEF Unfolded
    <3> QED BY <3>4, <3>5
  <2>4. h = Unfolded(rows, h, k .. n)
    <3> HIDE DEF h
    <3>1. h = Unfolded(rows, g, k .. n)
      BY DEF h
    <3> QED BY <2>3, <3>1 DEF Unfolded
  <2> HIDE DEF h
  <2> QED BY <2>1, <2>4
<1> HIDE DEF T
<1>3. Nat \subseteq T
  <2>1. \A j \in Nat : j \in T => j + 1 \in T
    BY <1>2 DEF T
  <2> QED BY <1>1, <2>1, SetInduction
<1>4. n \in T /\ n - n + 1 = 1
  BY <1>3
<1> QED BY <1>4 DEF T

(* A row on top of those after it. *)
LEMMA AddOnTop ==
  ASSUME NEW S, NEW rows \in Seq(S), NEW k \in 1 .. Len(rows), Len(rows) - k < MaxShown
  PROVE  AddEvent(rows[k], SubSeq(rows, k + 1, Len(rows))) = SubSeq(rows, k, Len(rows))
<1> DEFINE n == Len(rows)
           page == SubSeq(rows, k + 1, n)
<1>1. n \in Nat /\ k \in Nat /\ k <= n /\ n - k \in Nat /\ MaxShown \in Nat
  BY LogPageAssumption
<1>2. page \in Seq(S) /\ Len(page) = n - k
  <2>1. \A i \in k + 1 .. n : rows[i] \in S
    BY <1>1
  <2> HIDE DEF n
  <2> QED BY <1>1, <2>1, SubSeqProperties
<1>3. Min({MaxShown - 1, Len(page)}) = Len(page)
  <2> HIDE DEF page, n
  <2>1. MaxShown - 1 \in Nat /\ n - k <= MaxShown - 1
    BY <1>1 DEF n
  <2> QED BY <1>1, <1>2, <2>1, MinOfTwo
<1>4. SubSeq(page, 1, Len(page)) = page
  BY <1>2, SubSeqFull
<1>5. SubSeq(rows, k, n) = <<rows[k]>> \o page
  BY <1>1, SubSeqRecursiveFirst
<1> HIDE DEF page, n
<1> QED BY <1>3, <1>4, <1>5 DEF AddEvent, page, n

(* What loadHistory shows: the rows of the answer in its order, the oldest on *)
(* top, as many as the page holds.                                            *)
THEOREM RenderedRows ==
  ASSUME NEW S, NEW rows \in Seq(S), Len(rows) <= MaxShown
  PROVE  Rendered(rows) = rows
<1> DEFINE n == Len(rows)
           G == CHOOSE g : g = Unfolded(rows, g, 1 .. n)
<1>1. n \in Nat /\ DOMAIN rows = 1 .. n
  OBVIOUS
<1>2. Rendered(rows) = (CHOOSE g : g = Unfolded(rows, g, DOMAIN rows))[DOMAIN rows]
  BY DEF Rendered, FoldRight, MapThenFoldSet, Unfolded
<1>3. Rendered(rows) = G[1 .. n]
  BY <1>1, <1>2
<1>4. G = Unfolded(rows, G, 1 .. n)
  BY <1>1, FoldExists
<1> HIDE DEF G
<1> DEFINE T == {j \in Nat : j <= n => G[n - j + 1 .. n] = SubSeq(rows, n - j + 1, n)}
<1>5. 0 \in T
  <2>1. n - 0 + 1 = n + 1 /\ n + 1 .. n = {}
    BY <1>1
  <2>2. G[{}] = <<>>
    BY <1>4 DEF Unfolded
  <2>3. SubSeq(rows, n + 1, n) = <<>>
    BY <1>1, SubSeqEmpty
  <2> QED BY <2>1, <2>2, <2>3
<1>6. ASSUME NEW j \in Nat, j \in T, j + 1 <= n PROVE j + 1 \in T
  <2> DEFINE k == n - j
  <2>1. k \in 1 .. n /\ n - j + 1 = k + 1 /\ n - (j + 1) + 1 = k /\ n - k = j
    BY <1>1, <1>6
  <2>2. G[k + 1 .. n] = SubSeq(rows, k + 1, n)
    BY <1>6, <2>1
  <2> HIDE DEF k
  <2>3. Min(k .. n) = k
    <3>1. k .. n \subseteq Nat /\ k .. n # {} /\ k \in k .. n
      BY <1>1, <2>1
    <3>2. Min(k .. n) \in k .. n /\ Min(k .. n) <= k
      BY <3>1, MinIs
    <3> HIDE DEF n
    <3> QED BY <1>1, <2>1, <3>2
  <2>4. (k .. n) \ {k} = k + 1 .. n /\ k .. n # {} /\ k .. n \in SUBSET (1 .. n)
    BY <1>1, <2>1
  <2>5. G[k .. n] = AddEvent(rows[k], SubSeq(rows, k + 1, n))
    <3> HIDE DEF n
    <3> QED BY <1>4, <2>2, <2>3, <2>4 DEF Unfolded
  <2>6. n - k < MaxShown
    BY <1>1, <1>6, <2>1, LogPageAssumption
  <2>7. G[k .. n] = SubSeq(rows, k, n)
    BY <2>1, <2>5, <2>6, AddOnTop
  <2> QED BY <2>1, <2>7
<1> HIDE DEF T
<1>7. Nat \subseteq T
  <2>1. \A j \in Nat : j + 1 <= n \/ j + 1 \in T
    BY <1>1 DEF T
  <2>2. \A j \in Nat : j \in T => j + 1 \in T
    BY <1>6, <2>1
  <2> QED BY <1>5, <2>2, SetInduction
<1>8. n \in T /\ n - n + 1 = 1
  BY <1>1, <1>7
<1> QED BY <1>3, <1>8, SubSeqFull DEF T

----------------------------------------------------------------------------
(* addEvent: the row is on top of what was there, and the page has no more    *)
(* rows than it may.                                                          *)
LEMMA Added ==
  ASSUME NEW row \in Rows, NEW page \in Seq(Rows), Len(page) <= MaxShown
  PROVE  /\ AddEvent(row, page) \in Seq(Rows)
         /\ Len(AddEvent(row, page)) = IF Len(page) < MaxShown THEN Len(page) + 1 ELSE MaxShown
         /\ AddEvent(row, page)[1] = row
         /\ \A k \in 2 .. Len(AddEvent(row, page)) : k - 1 \in 1 .. Len(page)
                                                 /\ AddEvent(row, page)[k] = page[k - 1]
<1> DEFINE m == Min({MaxShown - 1, Len(page)})
           rest == SubSeq(page, 1, m)
<1>1. MaxShown - 1 \in Nat /\ Len(page) \in Nat
  BY LogPageAssumption
<1>2. m = IF Len(page) < MaxShown THEN Len(page) ELSE MaxShown - 1
  <2>1. m = IF MaxShown - 1 <= Len(page) THEN MaxShown - 1 ELSE Len(page)
    BY <1>1, MinOfTwo
  <2> HIDE DEF m
  <2> QED BY <1>1, <2>1, LogPageAssumption
<1> HIDE DEF m
<1>3. m \in Nat /\ m <= Len(page)
  BY <1>1, <1>2, LogPageAssumption
<1>4. /\ rest \in Seq(Rows) /\ Len(rest) = m
      /\ \A i \in 1 .. m : rest[i] = page[i]
  <2>1. \A i \in 1 .. m : page[i] \in Rows
    BY <1>3
  <2> QED BY <1>3, <2>1, SubSeqProperties
<1> HIDE DEF rest
<1>5. /\ <<row>> \o rest \in Seq(Rows) /\ Len(<<row>> \o rest) = m + 1
      /\ \A k \in 1 .. m + 1 : (<<row>> \o rest)[k] = IF k <= 1 THEN row ELSE rest[k - 1]
  <2>1. <<row>> \in Seq(Rows) /\ Len(<<row>>) = 1 /\ <<row>>[1] = row
    OBVIOUS
  <2> QED BY <1>3, <1>4, <2>1, ConcatProperties
<1>6. AddEvent(row, page) = <<row>> \o rest
  BY DEF AddEvent, rest, m
<1>7. m + 1 = IF Len(page) < MaxShown THEN Len(page) + 1 ELSE MaxShown
  BY <1>1, <1>2, LogPageAssumption
<1>8. \A k \in 2 .. m + 1 : k - 1 \in 1 .. Len(page) /\ (<<row>> \o rest)[k] = page[k - 1]
  BY <1>1, <1>3, <1>4, <1>5
<1> QED BY <1>3, <1>5, <1>6, <1>7, <1>8

(* The rows of an answer. *)
LEMMA LastRowsAre ==
  ASSUME NEW h \in History
  PROVE  /\ Len(LastRows(h)) <= h.limit
         /\ DOMAIN LastRows(h) = 1 .. Len(LastRows(h))
         /\ \A k \in DOMAIN LastRows(h) :
              LastRows(h)[k] = <<h.log.file, h.log.len - Len(LastRows(h)) + k>>
         /\ Len(LastRows(h)) = IF h.limit <= h.log.len THEN h.limit ELSE h.log.len
         /\ Len(LastRows(h)) \in Nat
<1> DEFINE m == Min({h.limit, h.log.len})
<1>1. h.limit \in Nat /\ h.log.len \in Nat
  BY LogPageAssumption, LogWallAssumption DEF History
<1>2. m = IF h.limit <= h.log.len THEN h.limit ELSE h.log.len
  BY <1>1, MinOfTwo
<1>3. LastRows(h) = [k \in 1 .. m |-> <<h.log.file, h.log.len - m + k>>]
  BY DEF LastRows
<1>4. m \in Nat /\ m <= h.limit
  BY <1>1, <1>2
<1> HIDE DEF m
<1>5. Len(LastRows(h)) = m
  BY <1>3, <1>4
<1> QED BY <1>2, <1>3, <1>4, <1>5

----------------------------------------------------------------------------
(* Every step of the page is one of the log wall or leaves it alone. *)
LEMMA WallMoves == PageTypes /\ [PageNext]_allVars => [Next]_vars
<1> SUFFICES ASSUME PageTypes, [PageNext]_allVars PROVE [Next]_vars
  OBVIOUS
<1>1. CASE UNCHANGED allVars
  BY <1>1 DEF allVars
<1>2. CASE OpenPage
  BY <1>2 DEF OpenPage
<1>3. CASE Drop
  BY <1>3 DEF Drop, Next, PageTypes
<1>4. CASE Receive
  BY <1>4 DEF Receive
<1>5. CASE LogChanges
  BY <1>5 DEF LogChanges, Next
<1>6. ASSUME NEW l \in Loads, Refresh(l) PROVE UNCHANGED vars
  BY <1>6 DEF Refresh
<1>7. ASSUME NEW l \in Loads, HistoryStep(l) PROVE UNCHANGED vars
  BY <1>7 DEF HistoryStep, ServeLog, ShowHistory, HistoryFails
<1>8. ASSUME NEW c \in Conns, OpenStream(c) PROVE Next
  BY <1>8 DEF OpenStream, Next
<1>9. ASSUME NEW c \in Conns, Handler(c) PROVE Next
  BY <1>9 DEF Handler, Next
<1> QED BY <1>1, <1>2, <1>3, <1>4, <1>5, <1>6, <1>7, <1>8, <1>9 DEF PageNext

LEMMA WallStep == IInv /\ PageTypes /\ [PageNext]_allVars => IInv'
BY WallMoves, SlotsStep, Step DEF IInv

LEMMA ReadsStep == IInv /\ Reads /\ [Next]_vars => Reads'
<1> SUFFICES ASSUME IInv, Reads, [Next]_vars PROVE Reads'
  OBVIOUS
<1> USE LogWallAssumption DEF Reads, NoFile
<1>0. /\ TypeOK /\ TypeOK'
      /\ file = NoFile \/ file = leaves + 1
      /\ \A c \in Conns : pc[c] = "follow" => handle[c] \in Inodes
  BY Step DEF IInv, Files
<1>1. CASE UNCHANGED vars
  BY <1>1 DEF vars, logVars, connVars
<1>2. ASSUME NEW c \in Conns, Connect(c) PROVE Reads'
  BY <1>0, <1>2 DEF Connect, Goto, logVars, TypeOK
<1>3. ASSUME NEW c \in Conns, Close(c) PROVE Reads'
  BY <1>0, <1>3 DEF Close, logVars, TypeOK
<1>end. ASSUME NEW c \in Conns, EndThread(c), UNCHANGED logVars PROVE Reads'
  BY <1>0, <1>end DEF EndThread, logVars, TypeOK
<1>4. ASSUME NEW c \in Conns, Serve(c) PROVE Reads'
  <2>1. CASE EndThread(c) /\ UNCHANGED logVars
    BY <1>end, <2>1
  <2>2. CASE ~(EndThread(c) /\ UNCHANGED logVars)
    <3> USE <1>0, <2>2
    <3>1. CASE Accept(c)
      BY <3>1 DEF Accept, Goto, logVars, TypeOK
    <3>2. CASE Refuse(c) \/ HeadersFail(c)
      BY <3>2 DEF Refuse, HeadersFail
    <3>3. CASE SendHeaders(c)
      BY <3>3 DEF SendHeaders, Goto, logVars, TypeOK
    <3>4. CASE CheckFile(c)
      BY <3>4 DEF CheckFile, Goto, logVars, TypeOK
    <3>5. CASE WaitForFile(c)
      BY <3>5 DEF WaitForFile, Release, Goto, logVars, TypeOK
    <3>6. CASE OpenFile(c)
      <4>1. CASE file = NoFile
        BY <3>6, <4>1 DEF OpenFile, Release
      <4>2. CASE file # NoFile
        <5> DEFINE skip == IF pc[c] = "open_end" THEN len[file] ELSE 0
        <5>1. file \in Inodes /\ len[file] \in Nat /\ skip <= len[file] /\ skip \in Nat
          BY <4>2 DEF TypeOK
        <5>2. /\ handle' = [handle EXCEPT ![c] = file]
              /\ start' = [start EXCEPT ![c] = skip]
              /\ pos' = [pos EXCEPT ![c] = skip]
              /\ pc' = [pc EXCEPT ![c] = "follow"]
              /\ UNCHANGED logVars
          BY <3>6, <4>2 DEF OpenFile, Goto
        <5> HIDE DEF skip
        <5> QED BY <5>1, <5>2 DEF logVars, TypeOK
      <4> QED BY <4>1, <4>2
    <3>7. CASE Follow(c)
      <4>1. /\ pc[c] = "follow"
            /\ pos' = [pos EXCEPT ![c] = IF @ < len[handle[c]] THEN @ + 1 ELSE @]
            /\ UNCHANGED <<logVars, pc, handle, start>>
        BY <3>7 DEF Follow, Release
      <4>2. start[c] \in Nat /\ pos[c] \in Nat /\ len[handle[c]] \in Nat
        BY <4>1 DEF TypeOK
      <4>3. /\ start[c] <= pos'[c] /\ pos'[c] <= len[handle[c]]
            /\ \A d \in Conns \ {c} : pos'[d] = pos[d]
        BY <4>1, <4>2 DEF TypeOK
      <4> QED BY <4>1, <4>3 DEF logVars
    <3> QED BY <1>4, <3>1, <3>2, <3>3, <3>4, <3>5, <3>6, <3>7 DEF Serve
  <2> QED BY <2>1, <2>2
<1>5. CASE AppendRow
  <2>1. /\ leaves + 1 \in Inodes /\ file' = leaves + 1 /\ leaves' = leaves
        /\ len' = [len EXCEPT ![leaves + 1] = @ + 1]
        /\ UNCHANGED connVars
    <3> DEFINE inode == IF file = NoFile THEN leaves + 1 ELSE file
    <3>1. inode = leaves + 1
      BY <1>0
    <3>2. leaves + 1 \in Inodes
      BY <1>0, <1>5, <3>1 DEF AppendRow, TypeOK, Inodes
    <3> QED BY <1>5, <3>1, <3>2 DEF AppendRow
  <2>2. \A i \in Inodes : len'[i] \in Nat /\ len[i] \in Nat /\ len[i] <= len'[i]
    BY <1>0, <2>1 DEF TypeOK
  <2>3. \A c \in Conns : pos[c] \in Nat
    BY <1>0 DEF TypeOK
  <2>4. \A i \in Inodes : leaves' < i /\ i # file' => len'[i] = 0
    BY <1>0, <2>1 DEF TypeOK, Inodes
  <2>5. ASSUME NEW c \in Conns, pc[c] = "follow"
        PROVE  start[c] <= pos[c] /\ pos[c] <= len'[handle[c]]
    BY <1>0, <2>2, <2>3, <2>5
  <2> QED BY <2>1, <2>4, <2>5 DEF connVars
<1>6. CASE Leave
  BY <1>0, <1>6 DEF Leave, connVars, TypeOK, Inodes
<1> QED BY <1>1, <1>2, <1>3, <1>4, <1>5, <1>6 DEF Next

----------------------------------------------------------------------------
(* What a step of a handler does, for the page's own connection and others.   *)

Same(d) ==
    /\ pc'[d] = pc[d] /\ handle'[d] = handle[d] /\ start'[d] = start[d]
    /\ pos'[d] = pos[d] /\ peer'[d] = peer[d] /\ asked'[d] = asked[d]

(* Towards the opening of the log, or a heartbeat. *)
Advances(c) ==
    /\ pc[c] # "none" /\ pc'[c] # "none" /\ (pc[c] = "follow") = (pc'[c] = "follow")
    /\ handle'[c] = handle[c] /\ start'[c] = start[c] /\ pos'[c] = pos[c]
    /\ peer'[c] = "open" /\ asked'[c] = asked[c]
    /\ via' = via /\ wire' = wire
    /\ es' \in {es, "open"}

Opens(c) ==
    /\ pc[c] \in {"open_end", "open_start"} /\ pc'[c] = "follow"
    /\ file # NoFile /\ handle'[c] = file /\ pos'[c] = start'[c]
    /\ peer'[c] = "open" /\ asked'[c] = asked[c]
    /\ via' = via /\ wire' = wire /\ es' = es

Ends(c) ==
    /\ pc[c] \in {"accept", "open_end", "open_start"} /\ pc'[c] = "none"
    /\ via' = NoConn /\ wire' = wire
    /\ es' = IF pc[c] = "accept" THEN "closed" ELSE "waiting"
    /\ pc[c] = "accept" => free = 0

NextRow(c) ==
    /\ pc[c] = "follow" /\ pc'[c] = "follow"
    /\ pos[c] < len[handle[c]]
    /\ handle'[c] = handle[c] /\ start'[c] = start[c] /\ pos'[c] = pos[c] + 1
    /\ peer'[c] = "open" /\ asked'[c] = asked[c]
    /\ via' = via /\ wire' = Append(wire, <<handle[c], pos[c] + 1>>) /\ es' = es

LEMMA HandlerStep ==
  ASSUME IInv, PageTypes, Stream, NEW c \in Conns, Handler(c)
  PROVE  /\ UNCHANGED <<logVars, shown, loads, base, late, drops>>
         /\ \A d \in Conns \ {c} : Same(d)
         /\ IF c # via THEN UNCHANGED <<es, via, wire>>
            ELSE Advances(c) \/ Opens(c) \/ Ends(c) \/ NextRow(c)
<1> USE DEF Handler, Same
<1>0. /\ TypeOK
      /\ c = via => peer[c] = "open"
  BY LogPageAssumption DEF IInv, Stream
<1>1. CASE Accept(c)
  BY <1>0, <1>1 DEF Accept, Goto, TypeOK, Advances, logVars
<1>2. CASE Refuse(c)
  BY <1>0, <1>2 DEF Refuse, EndThread, TypeOK, Ends
<1>3. CASE SendHeaders(c)
  BY <1>0, <1>3 DEF SendHeaders, Written, Goto, TypeOK, Advances
<1>4. CASE HeadersFail(c)
  BY <1>0, <1>4 DEF HeadersFail, EndThread, TypeOK, Ends
<1>5. CASE CheckFile(c)
  BY <1>0, <1>5 DEF CheckFile, Goto, TypeOK, Advances
<1>6. CASE WaitForFile(c)
  <2>1. CASE Release(c)
    BY <1>0, <1>6, <2>1 DEF WaitForFile, Release, EndThread, Goto, TypeOK, Advances
  <2>2. CASE ~Release(c)
    BY <1>0, <1>6, <2>2 DEF WaitForFile, Written, Goto, TypeOK, Advances
  <2> QED BY <2>1, <2>2
<1>7. CASE OpenFile(c)
  <2>1. CASE file = NoFile
    BY <1>0, <1>7, <2>1 DEF OpenFile, Release, EndThread, TypeOK, Ends
  <2>2. CASE file # NoFile
    BY <1>0, <1>7, <2>2 DEF OpenFile, Goto, TypeOK, Opens
  <2> QED BY <2>1, <2>2
<1>8. CASE Follow(c)
  <2>1. CASE Release(c)
    BY <1>0, <1>8, <2>1 DEF Follow, Release, EndThread, TypeOK
  <2>2. CASE ~Release(c) /\ pos[c] < len[handle[c]]
    <3>1. /\ pc[c] = "follow" /\ Written(c)
          /\ pos' = [pos EXCEPT ![c] = @ + 1]
          /\ UNCHANGED <<logVars, free, pc, handle, start, asked>>
      BY <1>8, <2>2 DEF Follow
    <3> QED BY <1>0, <2>2, <3>1 DEF Written, TypeOK, NextRow
  <2>3. CASE ~Release(c) /\ ~(pos[c] < len[handle[c]])
    <3>1. /\ pc[c] = "follow" /\ Written(c)
          /\ pos' = pos
          /\ UNCHANGED <<logVars, free, pc, handle, start, asked>>
      BY <1>0, <1>8, <2>3 DEF Follow, TypeOK
    <3> QED BY <1>0, <2>3, <3>1 DEF Written, TypeOK, Advances
  <2> QED BY <2>1, <2>2, <2>3
<1> QED BY <1>1, <1>2, <1>3, <1>4, <1>5, <1>6, <1>7, <1>8 DEF Serve

----------------------------------------------------------------------------
(* The types of the page, and what is on its way. *)

(* What the page holds after a history has come. *)
LEMMA HistoryShown ==
  ASSUME PageTypes, Answers, NEW l \in Loads, ShowHistory(l)
  PROVE  /\ shown' = LastRows(loads[l].at) /\ shown' \in Seq(Rows)
         /\ Len(shown') <= MaxShown
         /\ base' = loads[l].at /\ loads[l].at \in History
<1>1. /\ loads[l].rows \in Seq(Rows) /\ loads[l].at \in History
      /\ loads[l].rows = LastRows(loads[l].at)
      /\ loads[l].at.limit \in 1 .. MaxShown
  BY DEF PageTypes, Answers, Sound, ShowHistory, Slot
<1>2. Len(loads[l].rows) <= MaxShown
  BY <1>1, LastRowsAre, LogPageAssumption
<1>3. Rendered(loads[l].rows) = loads[l].rows
  BY <1>1, <1>2, RenderedRows
<1> QED BY <1>1, <1>2, <1>3 DEF ShowHistory

LEMMA TypesStep ==
  IInv /\ PageTypes /\ Answers /\ Stream /\ Reads /\ [PageNext]_allVars => PageTypes' /\ Answers'
<1> SUFFICES ASSUME IInv, PageTypes, Answers, Stream, Reads, [PageNext]_allVars
             PROVE  PageTypes' /\ Answers'
  OBVIOUS
<1> USE LogPageAssumption, LogWallAssumption
<1>0. IInv' /\ TypeOK /\ TypeOK'
  BY WallStep DEF IInv
<1>keep. ASSUME UNCHANGED loads PROVE Answers'
  BY <1>keep DEF Answers, Sound, LastRows
<1>put. ASSUME NEW l \in Loads, NEW slot \in Slot, Sound(slot),
               loads' = [loads EXCEPT ![l] = slot]
        PROVE  loads' \in [Loads -> Slot] /\ Answers'
  <2>1. loads \in [Loads -> Slot]
    BY DEF PageTypes
  <2>2. loads' \in [Loads -> Slot]
    BY <1>put, <2>1
  <2>3. \A k \in Loads : loads'[k] = slot \/ loads'[k] = loads[k]
    BY <1>put, <2>1
  <2>4. \A k \in Loads : Sound(loads'[k])
    BY <1>put, <2>3 DEF Answers
  <2>5. Answers'
    BY <2>4 DEF Answers, Sound, LastRows
  <2> QED BY <2>2, <2>5
<1>empty. NoHistory \in History /\ <<>> \in Seq(Rows)
  BY DEF NoHistory, Never, History
<1>types. ASSUME UNCHANGED <<via, wire, shown, base, late, drops>>, loads' \in [Loads -> Slot],
                 es' = es \/ (es = "none" /\ es' = "waiting")
          PROVE  PageTypes'
  BY <1>types DEF PageTypes, Rows, History, Slot
<1>1. CASE UNCHANGED allVars
  BY <1>1, <1>keep, <1>types DEF allVars, pageVars, PageTypes
<1>ask. ASSUME NEW l \in Loads, NEW input \in Inputs \cup {0}, Ask(l, input)
        PROVE  loads' \in [Loads -> Slot] /\ Answers'
  <2> DEFINE slot == [Idle EXCEPT !.state = "asked", !.limit = Limit(input)]
  <2>1. Limit(input) \in 1 .. MaxShown
    BY DEF Limit
  <2>2. loads' = [loads EXCEPT ![l] = slot]
    BY <1>ask DEF Ask
  <2>3. slot \in Slot /\ slot.state = "asked" /\ slot.limit = Limit(input)
    <3> DEFINE limit == Limit(input)
    <3>1. limit \in 0 .. MaxShown
      BY <2>1
    <3>2. Idle \in Slot
      BY <1>empty DEF Idle, Slot
    <3> HIDE DEF limit
    <3>3. [Idle EXCEPT !.state = "asked", !.limit = limit] \in Slot
      BY <3>1, <3>2 DEF Slot
    <3>4. /\ [Idle EXCEPT !.state = "asked", !.limit = limit].state = "asked"
          /\ [Idle EXCEPT !.state = "asked", !.limit = limit].limit = limit
      BY <3>2 DEF Slot
    <3> QED BY <3>3, <3>4 DEF limit
  <2>4. Sound(slot)
    <3> HIDE DEF slot
    <3> QED BY <2>1, <2>3 DEF Sound
  <2> HIDE DEF slot
  <2> QED BY <1>put, <2>2, <2>3, <2>4
<1>idle. ASSUME NEW l \in Loads, loads' = [loads EXCEPT ![l] = Idle]
         PROVE  loads' \in [Loads -> Slot] /\ Answers'
  <2>1. Idle \in Slot
    BY <1>empty DEF Idle, Slot
  <2>2. Sound(Idle)
    BY DEF Idle, Sound
  <2> QED BY <1>idle, <1>put, <2>1, <2>2
<1>2. CASE OpenPage
  BY <1>2, <1>ask, <1>types DEF OpenPage
<1>3. ASSUME NEW l \in Loads, Refresh(l) PROVE PageTypes' /\ Answers'
  BY <1>3, <1>ask, <1>types DEF Refresh
<1>4. ASSUME NEW l \in Loads, ServeLog(l) PROVE PageTypes' /\ Answers'
  <2> DEFINE limit == loads[l].limit
             at == [log |-> Now, limit |-> limit]
             slot == [loads[l] EXCEPT !.state = "answered", !.rows = Records(limit), !.at = at]
  <2>1. loads[l] \in Slot /\ limit \in 1 .. MaxShown /\ limit \in 0 .. MaxShown
    BY <1>4 DEF ServeLog, Answers, Sound, PageTypes
  <2>2. /\ Now \in [file : Inodes \cup {NoFile}, len : 0 .. MaxRows]
        /\ Now.file = file
        /\ file = NoFile => Now.len = 0
    BY <1>0 DEF TypeOK, Now, NoFile
  <2>3. at \in History /\ at.limit = limit /\ at.log = Now
    BY <2>1, <2>2 DEF History
  <2>4. Records(limit) = LastRows(at)
    BY <2>2, <2>3 DEF Records, LastRows
  <2>5. LastRows(at) \in Seq(Rows)
    <3>1. Now.len = 0 \/ file \in Inodes
      BY <1>0, <2>2 DEF TypeOK
    <3> DEFINE rows == LastRows(at)
    <3> HIDE DEF at, rows
    <3>2. /\ DOMAIN rows = 1 .. Len(rows) /\ Len(rows) \in Nat /\ Len(rows) <= Now.len
          /\ \A k \in DOMAIN rows : rows[k] = <<file, Now.len - Len(rows) + k>>
      BY <2>1, <2>2, <2>3, LastRowsAre DEF rows
    <3>3. rows = [k \in 1 .. Len(rows) |-> rows[k]]
      BY <3>2 DEF rows, LastRows
    <3>4. ASSUME NEW k \in 1 .. Len(rows) PROVE rows[k] \in Rows
      <4> DEFINE n == Now.len - Len(rows) + k
      <4>1. Now.len \in 0 .. MaxRows
        BY <2>2
      <4>2. n \in 1 .. MaxRows /\ Now.len # 0
        BY <3>2, <4>1
      <4>3. rows[k] = <<file, n>>
        BY <3>2
      <4> HIDE DEF n
      <4> QED BY <3>1, <4>2, <4>3 DEF Rows
    <3> QED BY <3>2, <3>3, <3>4 DEF rows
  <2> HIDE DEF at
  <2>6. loads' = [loads EXCEPT ![l] = slot]
    BY <1>4 DEF ServeLog, PageTypes, at
  <2>7. /\ slot \in Slot /\ slot.limit = limit /\ slot.at = at /\ slot.rows = Records(limit)
    <3> HIDE DEF limit
    <3> QED BY <2>1, <2>3, <2>4, <2>5 DEF Slot, limit
  <2>8. Sound(slot)
    <3> HIDE DEF slot
    <3> QED BY <2>1, <2>3, <2>4, <2>7 DEF Sound
  <2> HIDE DEF slot
  <2> QED BY <1>4, <1>put, <1>types, <2>6, <2>7, <2>8 DEF ServeLog
<1>5. ASSUME NEW l \in Loads, ShowHistory(l) PROVE PageTypes' /\ Answers'
  <2>1. loads' = [loads EXCEPT ![l] = Idle]
    BY <1>5 DEF ShowHistory
  <2>2. late' \subseteq Rows
    <3> SUFFICES ASSUME via # NoConn, NEW n \in start[via] + 1 .. pos[via] - Len(wire)
                 PROVE  <<handle[via], n>> \in Rows
      BY <1>5 DEF ShowHistory
    <3>1. /\ via \in Conns /\ Len(wire) \in Nat
          /\ start[via] \in 0 .. MaxRows /\ pos[via] \in 0 .. MaxRows
      BY <1>0 DEF TypeOK, PageTypes
    <3>2. n \in 1 .. MaxRows /\ start[via] < pos[via]
      BY <3>1
    <3>3. handle[via] \in Inodes
      BY <3>1, <3>2 DEF Reads, IInv, Files
    <3> QED BY <3>2, <3>3 DEF Rows
  <2>3. /\ shown' \in Seq(Rows) /\ Len(shown') <= MaxShown /\ base' \in History
    BY <1>5, HistoryShown
  <2> QED BY <1>5, <1>idle, <2>1, <2>2, <2>3 DEF PageTypes, ShowHistory, Rows, History, Slot
<1>6. ASSUME NEW l \in Loads, HistoryFails(l) PROVE PageTypes' /\ Answers'
  BY <1>6, <1>idle, <1>types DEF HistoryFails
<1>7. ASSUME NEW c \in Conns, OpenStream(c) PROVE PageTypes' /\ Answers'
  BY <1>7, <1>keep DEF OpenStream, PageTypes, Rows, History, Slot
<1>8. CASE Drop
  <2>1. <<>> \in Seq(Rows) /\ drops' \in 0 .. MaxDrops
    BY <1>8 DEF Drop, PageTypes
  <2> QED BY <1>8, <1>keep, <2>1 DEF Drop, PageTypes, Rows, History, Slot
<1>9. ASSUME NEW c \in Conns, Handler(c) PROVE PageTypes' /\ Answers'
  <2>1. UNCHANGED <<shown, loads, base, late, drops>>
    BY <1>9, HandlerStep
  <2>2. Answers'
    BY <1>keep, <2>1
  <2>3. /\ via' \in Conns \cup {NoConn}
        /\ es' \in {"none", "waiting", "connecting", "open", "closed"}
        /\ via' # NoConn <=> es' \in {"connecting", "open"}
    <3>1. CASE c # via
      BY <1>9, <3>1, HandlerStep DEF PageTypes
    <3>2. CASE c = via
      BY <1>9, <3>2, HandlerStep DEF PageTypes, Advances, Opens, Ends, NextRow
    <3> QED BY <3>1, <3>2
  <2>4. wire' \in Seq(Rows)
    <3>1. CASE c = via /\ NextRow(c)
      <4>1. handle[c] \in Inodes /\ pos[c] + 1 \in 1 .. MaxRows
        <5>1. handle[c] \in Inodes
          BY <3>1 DEF NextRow, IInv, Files
        <5>2. pos[c] \in 0 .. MaxRows /\ len[handle[c]] \in 0 .. MaxRows
          BY <1>0, <5>1 DEF TypeOK
        <5> QED BY <3>1, <5>1, <5>2 DEF NextRow
      <4>2. <<handle[c], pos[c] + 1>> \in Rows
        BY <4>1 DEF Rows
      <4> QED BY <3>1, <4>2 DEF NextRow, PageTypes
    <3>2. CASE ~(c = via /\ NextRow(c))
      BY <1>9, <3>2, HandlerStep DEF PageTypes, Advances, Opens, Ends
    <3> QED BY <3>1, <3>2
  <2> QED BY <2>1, <2>2, <2>3, <2>4 DEF PageTypes, Rows, History, Slot
<1>10. CASE Receive
  <2>1. Head(wire) \in Rows /\ Tail(wire) \in Seq(Rows)
    BY <1>10 DEF Receive, PageTypes
  <2>2. shown' \in Seq(Rows) /\ Len(shown') <= MaxShown
    BY <1>10, <2>1, Added DEF Receive, PageTypes
  <2> QED BY <1>10, <1>keep, <2>1, <2>2 DEF Receive, PageTypes, Rows, History, Slot
<1>11. CASE LogChanges
  BY <1>11, <1>keep, <1>types DEF LogChanges, pageVars, PageTypes
<1> QED
  BY <1>1, <1>2, <1>3, <1>4, <1>5, <1>6, <1>7, <1>8, <1>9, <1>10, <1>11
  DEF PageNext, HistoryStep

----------------------------------------------------------------------------
(* The stream: what is on the wire, and how far the page is in a log. *)

LEMMA StreamStep == IInv /\ PageTypes /\ Stream /\ Reads /\ [PageNext]_allVars => Stream'
<1> SUFFICES ASSUME IInv, PageTypes, Stream, Reads, [PageNext]_allVars PROVE Stream'
  OBVIOUS
<1> USE LogPageAssumption, LogWallAssumption DEF Following, Received
<1>0. /\ TypeOK
      /\ via \in Conns => pos[via] \in Nat /\ start[via] \in Nat
      /\ wire \in Seq(Rows) /\ Len(wire) \in Nat
      /\ via \in Conns \cup {NoConn}
  BY DEF IInv, TypeOK, PageTypes
<1>same. ASSUME UNCHANGED <<via, wire>>, via # NoConn => Same(via) PROVE Stream'
  BY <1>same DEF Stream, Same
<1>1. ASSUME UNCHANGED <<vars, via, wire>> PROVE Stream'
  BY <1>1, <1>same DEF vars, connVars, Same
<1>2. ASSUME NEW c \in Conns, OpenStream(c) PROVE Stream'
  <2>1. wire' = <<>>
    BY <1>2 DEF OpenStream, Stream, PageTypes
  <2> QED BY <1>0, <1>2, <2>1 DEF OpenStream, Connect, Goto, TypeOK, Stream
<1>3. CASE Drop
  BY <1>3 DEF Drop, Stream
<1>4. ASSUME NEW c \in Conns, Handler(c), c # via PROVE Stream'
  BY <1>0, <1>4, <1>same, HandlerStep
<1>5. ASSUME NEW c \in Conns, Handler(c), c = via PROVE Stream'
  <2>1. CASE Advances(c)
    BY <1>5, <2>1 DEF Advances, Stream
  <2>2. CASE Opens(c)
    <3>1. wire = <<>> /\ wire' = <<>> /\ Len(wire') = 0
      BY <1>5, <2>2 DEF Opens, Stream
    <3>2. start'[c] \in Nat /\ pos'[c] = start'[c]
      BY <2>2, WallStep DEF Opens, IInv, TypeOK
    <3> QED BY <1>5, <2>2, <3>1, <3>2 DEF Opens, Stream
  <2>3. CASE Ends(c)
    BY <1>5, <2>3 DEF Ends, Stream
  <2>4. CASE NextRow(c)
    <3> DEFINE row == <<handle[c], pos[c] + 1>>
    <3>1. /\ via' = c /\ wire' = Append(wire, row) /\ Following /\ Following'
          /\ pos'[c] = pos[c] + 1 /\ handle'[c] = handle[c] /\ start'[c] = start[c]
          /\ peer'[c] = "open"
      BY <1>5, <2>4 DEF NextRow
    <3>2. /\ Len(wire') = Len(wire) + 1 /\ wire'[Len(wire) + 1] = row
          /\ \A k \in 1 .. Len(wire) : wire'[k] = wire[k]
      <4> HIDE DEF row
      <4> QED BY <1>0, <3>1
    <3>3. pos[c] \in Nat /\ Received' = Received /\ start[c] <= Received
      BY <1>0, <1>5, <3>1, <3>2 DEF Stream
    <3>4. ASSUME NEW k \in 1 .. Len(wire') PROVE wire'[k] = <<handle'[via'], Received' + k>>
      <4>1. CASE k = Len(wire) + 1
        <5>1. Received + (Len(wire) + 1) = pos[c] + 1
          BY <1>0, <1>5, <3>3
        <5> QED BY <3>1, <3>2, <3>3, <4>1, <5>1
      <4>2. CASE k \in 1 .. Len(wire)
        BY <1>5, <3>1, <3>2, <3>3, <4>2 DEF Stream
      <4> QED BY <1>0, <3>2, <4>1, <4>2
    <3> HIDE DEF Following, Received
    <3> QED BY <1>5, <3>1, <3>3, <3>4 DEF Stream
  <2> QED BY <1>5, <2>1, <2>2, <2>3, <2>4, HandlerStep
<1>6. CASE Receive
  <2>1. /\ wire # <<>> /\ Following /\ wire' = Tail(wire)
        /\ UNCHANGED <<pc, handle, start, pos, peer, via>>
    BY <1>6 DEF Receive, Stream, vars, connVars
  <2>2. /\ Len(wire') = Len(wire) - 1 /\ Len(wire') \in Nat
        /\ \A k \in 1 .. Len(wire') : wire'[k] = wire[k + 1] /\ k + 1 \in 1 .. Len(wire)
    BY <1>0, <2>1
  <2>3. Received' = Received + 1 /\ Received \in Int /\ start[via] <= Received
    BY <1>0, <2>1, <2>2 DEF Stream
  <2>4. ASSUME NEW k \in 1 .. Len(wire') PROVE wire'[k] = <<handle'[via'], Received' + k>>
    <3> HIDE DEF Received, Following
    <3>0. k \in Int
      BY <2>2
    <3>1. Received + (k + 1) = Received' + k
      <4>1. \A i, j \in Int : i + (j + 1) = (i + 1) + j
        OBVIOUS
      <4> QED BY <2>3, <3>0, <4>1
    <3> QED BY <2>1, <2>2, <3>1 DEF Stream
  <2>5. start[via] <= Received'
    <3>1. start[via] \in Int
      BY <1>0, <2>1
    <3> HIDE DEF Received
    <3> QED BY <2>3, <3>1
  <2>6. Following' /\ peer'[via'] = "open"
    BY <2>1 DEF Stream
  <2> HIDE DEF Received
  <2> QED BY <2>1, <2>4, <2>5, <2>6 DEF Stream
<1>7. CASE LogChanges
  BY <1>7, <1>same DEF LogChanges, pageVars, AppendRow, Leave, connVars, Same
<1>8. ASSUME NEW l \in Loads, Refresh(l) \/ HistoryStep(l) PROVE UNCHANGED <<vars, via, wire>>
  BY <1>8 DEF Refresh, HistoryStep, ServeLog, ShowHistory, HistoryFails
<1>9. CASE OpenPage \/ UNCHANGED allVars
  BY <1>1, <1>9 DEF OpenPage, allVars, pageVars
<1> QED
  BY <1>1, <1>2, <1>3, <1>4, <1>5, <1>6, <1>7, <1>8, <1>9 DEF PageNext

(* The page is no further in a log than there are rows. *)
LEMMA GotBound ==
  ASSUME IInv, PageTypes, Stream, Reads, NEW i \in Inodes
  PROVE  Got(i) \in Nat /\ Got(i) <= len[i] /\ len[i] \in Nat
<1> USE LogPageAssumption, LogWallAssumption DEF Got
<1>0. TypeOK /\ via \in Conns \cup {NoConn} /\ len[i] \in Nat /\ i # NoFile
  BY SMTT(20) DEF IInv, TypeOK, PageTypes, Inodes, NoFile
<1>1. CASE via = NoConn
  BY <1>0, <1>1
<1>2. CASE Following
  <2>1. /\ start[via] \in Nat /\ pos[via] \in Nat /\ Len(wire) \in Nat
        /\ start[via] <= Received /\ pos[via] <= len[handle[via]]
    BY <1>0, <1>2 DEF TypeOK, PageTypes, Stream, Reads, Following
  <2> QED BY <1>0, <1>2, <2>1 DEF Following, Received
<1>3. CASE via # NoConn /\ pc[via] # "follow"
  <2>1. via \in Conns /\ asked[via].len \in Nat
    BY <1>0, <1>3 DEF TypeOK
  <2>2. asked[via].file = i => asked[via].len <= len[i]
    BY <1>0, <2>1 DEF IInv, Asked
  <2> QED BY <1>0, <1>3, <2>1, <2>2
<1> QED BY <1>1, <1>2, <1>3 DEF Following

GotIsNumber == \A i \in Inodes : Got(i) \in Nat

LEMMA GotType == IInv' /\ PageTypes' /\ Stream' /\ Reads' => GotIsNumber'
<1>1. IInv /\ PageTypes /\ Stream /\ Reads => GotIsNumber
  BY GotBound DEF GotIsNumber
<1> QED BY <1>1, PTL

(* ... and never back: a new connection replays nothing. *)
LEMMA GotGrows ==
  ASSUME IInv, PageTypes, Stream, Reads, [PageNext]_allVars, NEW i \in Inodes
  PROVE  Got(i) <= Got(i)'
<1> USE LogPageAssumption, LogWallAssumption
<1>0. /\ Got(i) \in Nat /\ Got(i) <= len[i] /\ len[i] \in Nat /\ i # NoFile
      /\ via \in Conns \cup {NoConn} /\ TypeOK
      /\ file = NoFile \/ file = leaves + 1
  BY GotBound DEF PageTypes, Inodes, NoFile, IInv, Files
<1>same. ASSUME UNCHANGED <<via, wire, len, leaves>>, via # NoConn => Same(via)
         PROVE  Got(i) <= Got(i)'
  <2>1. Got(i)' = Got(i)
    BY <1>same DEF Got, Received, Same
  <2> QED BY <1>0, <2>1
<1>1. ASSUME UNCHANGED <<vars, via, wire>> PROVE Got(i) <= Got(i)'
  BY <1>1, <1>same DEF vars, connVars, logVars, Same
<1>lost. ASSUME via' = NoConn, len' = len PROVE Got(i) <= Got(i)'
  BY <1>0, <1>lost DEF Got
<1>2. ASSUME NEW c \in Conns, OpenStream(c) PROVE Got(i) <= Got(i)'
  <2>1. via = NoConn /\ via' = c /\ pc'[c] = "accept" /\ asked'[c] = Now
        /\ UNCHANGED logVars /\ c # NoConn
    BY <1>0, <1>2 DEF OpenStream, Connect, Goto, PageTypes, TypeOK
  <2>2. CASE file = i
    BY <1>0, <2>1, <2>2 DEF Got, Now
  <2>3. CASE file # i /\ leaves < i
    BY <1>0, <2>1, <2>3 DEF Got, Now, Reads, logVars
  <2>4. CASE file # i /\ ~(leaves < i)
    BY <1>0, <2>1, <2>4 DEF Got, Now, logVars
  <2> QED BY <2>2, <2>3, <2>4
<1>3. CASE Drop
  BY <1>3, <1>lost DEF Drop, Close, logVars
<1>4. ASSUME NEW c \in Conns, Handler(c), c # via PROVE Got(i) <= Got(i)'
  BY <1>0, <1>4, <1>same, HandlerStep DEF logVars
<1>5. ASSUME NEW c \in Conns, Handler(c), c = via PROVE Got(i) <= Got(i)'
  <2>0. UNCHANGED logVars /\ c # NoConn
    BY <1>5, HandlerStep
  <2>1. CASE Advances(c)
    <3>1. Got(i)' = Got(i)
      BY <1>5, <2>0, <2>1 DEF Advances, Got, Received, logVars
    <3> QED BY <1>0, <3>1
  <2>2. CASE Opens(c)
    <3>1. /\ via' = c /\ pc'[c] = "follow" /\ handle'[c] = file /\ pos'[c] = start'[c]
          /\ pc[c] # "follow" /\ asked'[c] = asked[c] /\ file = leaves + 1
      BY <1>0, <1>5, <2>2 DEF Opens
    <3>2. Received' = start'[c] /\ start'[c] \in Nat
      <4>1. wire' = <<>>
        BY <1>5, <2>2 DEF Opens, Stream, Following
      <4>2. start'[c] \in Nat
        BY WallStep DEF IInv, TypeOK
      <4> QED BY <3>1, <4>1, <4>2 DEF Received
    <3>3. CASE i = file
      <4>1. Got(i)' = start'[c]
        BY <2>0, <3>1, <3>2, <3>3 DEF Got
      <4>2. CASE asked[c].file = i
        <5>1. Got(i) = asked[c].len
          BY <1>5, <2>0, <3>1, <4>2 DEF Got
        <5>2. asked'[c].len <= start'[c]
          <6>1. NoReplay'
            BY WallStep DEF IInv
          <6>2. asked'[c].len \in Nat
            BY WallStep DEF IInv, TypeOK
          <6> QED BY <3>1, <3>2, <3>3, <4>2, <6>1, <6>2 DEF NoReplay
        <5> QED BY <3>1, <4>1, <5>1, <5>2
      <4>3. CASE asked[c].file # i
        <5>1. leaves < i
          BY <1>0, <3>1, <3>3 DEF TypeOK
        <5>2. Got(i) = 0
          BY <1>5, <2>0, <3>1, <4>3, <5>1 DEF Got
        <5> QED BY <3>2, <4>1, <5>2
      <4> QED BY <4>2, <4>3
    <3>4. CASE i # file
      BY <1>0, <2>0, <3>1, <3>4 DEF Got, logVars
    <3> QED BY <3>3, <3>4
  <2>3. CASE Ends(c)
    BY <1>lost, <2>0, <2>3 DEF Ends, logVars
  <2>4. CASE NextRow(c)
    <3>1. pos[c] \in Nat /\ Len(wire) \in Nat /\ Len(wire') = Len(wire) + 1 /\ pos'[c] = pos[c] + 1
      BY <1>0, <2>4 DEF NextRow, TypeOK, PageTypes
    <3>2. Received' = Received
      <4>1. Received' = pos[c] + 1 - (Len(wire) + 1) /\ Received = pos[c] - Len(wire)
        BY <1>5, <2>4, <3>1 DEF Received, NextRow
      <4> HIDE DEF Received
      <4> QED BY <3>1, <4>1
    <3>3. Got(i)' = Got(i)
      BY <1>5, <2>0, <2>4, <3>2 DEF NextRow, Got, logVars
    <3> QED BY <1>0, <3>3
  <2> QED BY <1>5, <2>1, <2>2, <2>3, <2>4, HandlerStep
<1>6. CASE Receive
  <2>1. /\ Following /\ UNCHANGED vars /\ via' = via /\ Len(wire') = Len(wire) - 1
        /\ pos[via] \in Nat /\ Len(wire) \in Nat
    BY <1>0, <1>6 DEF Receive, Stream, PageTypes, TypeOK, Following
  <2>2. Received' = Received + 1 /\ Received \in Int
    BY <2>1 DEF Received, vars, connVars
  <2>3. Got(i)' = IF handle[via] = i THEN Got(i) + 1 ELSE Got(i)
    BY <2>1, <2>2 DEF Following, Got, vars, connVars, logVars
  <2> QED BY <1>0, <2>3
<1>7. CASE AppendRow /\ UNCHANGED pageVars
  <2>1. len'[i] \in Nat /\ len[i] <= len'[i]
    BY <1>0, <1>7 DEF AppendRow, TypeOK
  <2>2. UNCHANGED <<pc, handle, pos, asked, leaves, via, wire>>
    BY <1>7 DEF AppendRow, connVars, pageVars
  <2>3. Got(i)' = Got(i) \/ (Got(i) = len[i] /\ Got(i)' = len'[i])
    BY <2>2 DEF Got, Received
  <2> QED BY <1>0, <2>1, <2>3
<1>8. CASE Leave /\ UNCHANGED pageVars
  <2>1. UNCHANGED <<len, pc, handle, pos, asked, via, wire>> /\ leaves' = leaves + 1
    BY <1>8 DEF Leave, connVars, pageVars
  <2>2. leaves \in Nat /\ i \in Int
    BY <1>0 DEF TypeOK, Inodes
  <2>3. Got(i)' = Got(i) \/ Got(i)' = len[i]
    BY <2>1, <2>2 DEF Got, Received
  <2> QED BY <1>0, <2>3
<1>9. ASSUME NEW l \in Loads, Refresh(l) \/ HistoryStep(l) PROVE UNCHANGED <<vars, via, wire>>
  BY <1>9 DEF Refresh, HistoryStep, ServeLog, ShowHistory, HistoryFails
<1>10. CASE OpenPage \/ UNCHANGED allVars
  BY <1>1, <1>10 DEF OpenPage, allVars, pageVars
<1> QED
  BY <1>1, <1>2, <1>3, <1>4, <1>5, <1>6, <1>7, <1>8, <1>9, <1>10 DEF PageNext, LogChanges

----------------------------------------------------------------------------
(* The rows on the page. *)

(* onmessage: the next row of the log, on top of those that stay. *)
LEMMA RowComes ==
  ASSUME IInv, PageTypes, Stream, Receive
  PROVE  /\ Following /\ UNCHANGED <<vars, via, loads, base, late>> /\ Received' = Received + 1
         /\ Received \in Int /\ Received + 1 \in 1 .. pos[via]
         /\ shown' \in Seq(Rows) /\ 1 \in DOMAIN shown' /\ shown'[1] = <<handle[via], Received + 1>>
         /\ Len(shown') = IF Len(shown) < MaxShown THEN Len(shown) + 1 ELSE MaxShown
         /\ \A k \in DOMAIN shown' :
              k = 1 \/ (k - 1 \in DOMAIN shown /\ shown'[k] = shown[k - 1] /\ k \in Nat)
<1>0. MaxShown \in Nat /\ MaxShown >= 1
  BY LogPageAssumption
<1>1. /\ Following /\ wire # <<>> /\ wire' = Tail(wire) /\ shown' = AddEvent(Head(wire), shown)
      /\ UNCHANGED <<vars, via, loads, base, late>>
  BY DEF Receive, Stream
<1>2. /\ Head(wire) = wire[1] /\ Head(wire) \in Rows /\ 1 \in 1 .. Len(wire) /\ Len(wire) \in Nat
      /\ Len(wire') = Len(wire) - 1
      /\ shown \in Seq(Rows) /\ Len(shown) \in Nat /\ Len(shown) <= MaxShown
  BY <1>1 DEF PageTypes
<1>3. wire[1] = <<handle[via], Received + 1>>
  BY <1>1, <1>2 DEF Stream
<1>4. pos[via] \in Nat /\ start[via] \in Nat /\ start[via] <= Received
  BY <1>1 DEF IInv, TypeOK, PageTypes, Following, Stream
<1>5. Received = pos[via] - Len(wire) /\ Received' = pos[via] - Len(wire')
  BY <1>1 DEF Received, vars, connVars
<1>6. Received' = Received + 1 /\ Received \in Int /\ Received + 1 \in 1 .. pos[via]
  <2> HIDE DEF Received
  <2> QED BY SMTT(20), <1>2, <1>4, <1>5
<1>7. /\ shown' \in Seq(Rows) /\ shown'[1] = wire[1]
      /\ Len(shown') = IF Len(shown) < MaxShown THEN Len(shown) + 1 ELSE MaxShown
      /\ \A k \in 2 .. Len(shown') : k - 1 \in 1 .. Len(shown) /\ shown'[k] = shown[k - 1]
  BY <1>1, <1>2, Added
<1>8. DOMAIN shown' = 1 .. Len(shown') /\ DOMAIN shown = 1 .. Len(shown)
      /\ Len(shown') \in Nat /\ Len(shown') >= 1
  BY <1>0, <1>2, <1>7
<1>9. \A k \in DOMAIN shown' :
        k = 1 \/ (k - 1 \in DOMAIN shown /\ shown'[k] = shown[k - 1] /\ k \in Nat)
  BY <1>7, <1>8
<1> QED BY <1>1, <1>3, <1>6, <1>7, <1>8, <1>9

(* Other steps but the showing of a history leave the page alone. *)
LEMMA PageStays ==
  ASSUME IInv, PageTypes, Stream, [PageNext]_allVars
  PROVE  \/ UNCHANGED <<shown, base, late>>
         \/ Receive
         \/ \E l \in Loads : ShowHistory(l)
<1>1. ASSUME NEW c \in Conns, Handler(c) PROVE UNCHANGED <<shown, base, late>>
  BY <1>1, HandlerStep
<1>2. ASSUME NEW l \in Loads, Refresh(l) \/ ServeLog(l) \/ HistoryFails(l)
      PROVE  UNCHANGED <<shown, base, late>>
  BY <1>2 DEF Refresh, ServeLog, HistoryFails
<1>3. CASE OpenPage \/ Drop \/ LogChanges \/ (\E c \in Conns : OpenStream(c)) \/ UNCHANGED allVars
  BY <1>3 DEF OpenPage, Drop, LogChanges, OpenStream, allVars, pageVars
<1> QED BY <1>1, <1>2, <1>3 DEF PageNext, HistoryStep

LEMMA ShownStep ==
  IInv /\ PageTypes /\ Answers /\ Stream /\ Reads /\ Shown /\ [PageNext]_allVars => Shown'
<1> SUFFICES ASSUME IInv, PageTypes, Answers, Stream, Reads, Shown, [PageNext]_allVars,
                    NEW i \in Inodes, NEW n \in 1 .. MaxRows
             PROVE  Twice(<<i, n>>)' /\ (Got(i)' < n => Once(<<i, n>>)')
  BY DEF Shown
<1> DEFINE row == <<i, n>>
<1>0. /\ Twice(row) /\ (Got(i) < n => Once(row))
      /\ Got(i) \in Nat /\ Got(i)' \in Nat /\ Got(i) <= Got(i)' /\ n \in Nat
  <2>1. Got(i)' \in Nat
    <3>1. /\ IInv' /\ PageTypes' /\ Stream' /\ Reads'
      BY WallStep, WallMoves, TypesStep, StreamStep, ReadsStep
    <3> QED BY <3>1, GotType DEF GotIsNumber, Inodes
  <2> QED BY <2>1, GotBound, GotGrows DEF Shown
<1>1. CASE UNCHANGED <<shown, base, late>>
  BY <1>0, <1>1 DEF Twice, Once
<1>2. ASSUME NEW l \in Loads, ShowHistory(l)
      PROVE  Once(row)'
  <2>1. /\ shown' = LastRows(loads[l].at) /\ loads[l].at \in History
    BY <1>2, HistoryShown
  <2>2. /\ DOMAIN shown' \subseteq Int
        /\ \E m \in Int : \A k \in DOMAIN shown' : shown'[k] = <<loads[l].at.log.file, m + k>>
    <3> DEFINE m == loads[l].at.log.len - Len(LastRows(loads[l].at))
    <3>1. m \in Int
      BY <2>1, LastRowsAre DEF History
    <3>2. \A k \in DOMAIN shown' : shown'[k] = <<loads[l].at.log.file, m + k>> /\ k \in Int
      BY <2>1, LastRowsAre
    <3> HIDE DEF m
    <3> QED BY <3>1, <3>2
  <2>3. ASSUME NEW a \in DOMAIN shown', NEW b \in DOMAIN shown', shown'[a] = row, shown'[b] = row
        PROVE  a = b
    BY <2>2, <2>3
  <2> QED BY <2>3 DEF Once
<1>3. CASE Receive
  <2>1. /\ Following /\ Received \in Int
        /\ shown'[1] = <<handle[via], Received + 1>>
        /\ \A k \in DOMAIN shown' :
             k = 1 \/ (k - 1 \in DOMAIN shown /\ shown'[k] = shown[k - 1] /\ k \in Nat)
    BY <1>3, RowComes
  <2>2. CASE shown'[1] = row
    <3>1. handle[via] = i /\ n = Received + 1
      BY <2>1, <2>2
    <3>2. Got(i) = Received
      BY <2>1, <3>1 DEF Got, Following
    <3>3. Got(i)' = n
      <4>1. Received' = Received + 1 /\ UNCHANGED <<pc, handle, via>>
        BY <1>3, RowComes DEF vars, connVars
      <4> QED BY <2>1, <3>1, <4>1 DEF Got, Following
    <3>4. Once(row)
      BY <1>0, <2>1, <3>1, <3>2
    <3>5. Twice(row)'
      <4> SUFFICES ASSUME NEW a \in DOMAIN shown', NEW b \in DOMAIN shown', NEW d \in DOMAIN shown',
                          shown'[a] = row, shown'[b] = row, shown'[d] = row
                   PROVE  a = b \/ b = d \/ a = d
        BY DEF Twice
      <4>1. ASSUME NEW x \in DOMAIN shown', NEW y \in DOMAIN shown', x # 1, y # 1,
                   shown'[x] = row, shown'[y] = row
            PROVE  x = y
        <5>1. /\ x - 1 \in DOMAIN shown /\ y - 1 \in DOMAIN shown
              /\ shown[x - 1] = row /\ shown[y - 1] = row
              /\ x \in Nat /\ y \in Nat
          BY <2>1, <4>1
        <5>2. x - 1 = y - 1
          BY <3>4, <5>1 DEF Once
        <5> QED BY <5>1, <5>2
      <4> QED BY <4>1
    <3> QED BY <1>0, <3>3, <3>5
  <2>3. CASE shown'[1] # row
    <3>1. ASSUME NEW a \in DOMAIN shown', shown'[a] = row
          PROVE  a - 1 \in DOMAIN shown /\ shown[a - 1] = row /\ a \in Nat
      BY <2>1, <2>3, <3>1
    <3>2. Twice(row)'
      <4> SUFFICES ASSUME NEW a \in DOMAIN shown', NEW b \in DOMAIN shown', NEW d \in DOMAIN shown',
                          shown'[a] = row, shown'[b] = row, shown'[d] = row
                   PROVE  a = b \/ b = d \/ a = d
        BY DEF Twice
      <4>1. /\ a - 1 \in DOMAIN shown /\ b - 1 \in DOMAIN shown /\ d - 1 \in DOMAIN shown
            /\ shown[a - 1] = row /\ shown[b - 1] = row /\ shown[d - 1] = row
            /\ a \in Nat /\ b \in Nat /\ d \in Nat
        BY <3>1
      <4>2. a - 1 = b - 1 \/ b - 1 = d - 1 \/ a - 1 = d - 1
        BY <1>0, <4>1 DEF Twice
      <4> QED BY <4>1, <4>2
    <3>3. Once(row) => Once(row)'
      <4> SUFFICES ASSUME Once(row), NEW a \in DOMAIN shown', NEW b \in DOMAIN shown',
                          shown'[a] = row, shown'[b] = row
                   PROVE  a = b
        BY DEF Once
      <4>1. /\ a - 1 \in DOMAIN shown /\ b - 1 \in DOMAIN shown
            /\ shown[a - 1] = row /\ shown[b - 1] = row /\ a \in Nat /\ b \in Nat
        BY <3>1
      <4>2. a - 1 = b - 1
        BY <4>1 DEF Once
      <4> QED BY <4>1, <4>2
    <3> QED BY <1>0, <3>2, <3>3
  <2> QED BY <2>2, <2>3
<1>4. Once(row)' => Twice(row)'
  BY DEF Once, Twice
<1> QED BY <1>1, <1>2, <1>3, <1>4, PageStays

LEMMA FromHistoryStep ==
  IInv /\ PageTypes /\ Answers /\ Stream /\ FromHistory /\ [PageNext]_allVars => FromHistory'
<1> SUFFICES ASSUME IInv, PageTypes, Answers, Stream, FromHistory, [PageNext]_allVars,
                    Len(shown') < MaxShown, NEW n \in 1 .. base'.log.len,
                    base'.log.file # NoFile, base'.log.len - base'.limit < n
             PROVE  \E k \in DOMAIN shown' : shown'[k] = <<base'.log.file, n>>
  BY DEF FromHistory, OnPage
<1>1. CASE UNCHANGED <<shown, base, late>>
  BY <1>1 DEF FromHistory, OnPage
<1>2. ASSUME NEW l \in Loads, ShowHistory(l)
      PROVE  \E k \in DOMAIN shown' : shown'[k] = <<base'.log.file, n>>
  <2> DEFINE h == loads[l].at
             m == Len(LastRows(h))
  <2>1. shown' = LastRows(h) /\ base' = h /\ h \in History
    BY <1>2, HistoryShown
  <2>2. h.log.len \in Nat /\ h.limit \in Nat /\ n \in Nat /\ n >= 1 /\ n <= h.log.len
        /\ h.log.len - h.limit < n
    BY <2>1, LogPageAssumption, LogWallAssumption DEF History
  <2>3. /\ m \in Nat /\ m = IF h.limit <= h.log.len THEN h.limit ELSE h.log.len
        /\ DOMAIN LastRows(h) = 1 .. m
        /\ \A k \in 1 .. m : LastRows(h)[k] = <<h.log.file, h.log.len - m + k>>
    <3> HIDE DEF h
    <3> QED BY <2>1, LastRowsAre
  <2> HIDE DEF h, m
  <2>4. n - (h.log.len - m) \in 1 .. m /\ h.log.len - m + (n - (h.log.len - m)) = n
    BY SMTT(20), <2>2, <2>3
  <2> QED BY <2>1, <2>3, <2>4
<1>3. CASE Receive
  <2>1. /\ UNCHANGED base /\ shown' \in Seq(Rows) /\ shown \in Seq(Rows)
        /\ Len(shown) < MaxShown /\ Len(shown') = Len(shown) + 1
        /\ \A k \in DOMAIN shown' :
             k = 1 \/ (k - 1 \in DOMAIN shown /\ shown'[k] = shown[k - 1] /\ k \in Nat)
    BY <1>3, RowComes, LogPageAssumption DEF PageTypes
  <2>2. PICK k \in DOMAIN shown : shown[k] = <<base.log.file, n>>
    BY <2>1 DEF FromHistory, OnPage
  <2>3. k + 1 \in DOMAIN shown' /\ k + 1 # 1 /\ k + 1 - 1 = k
    BY <2>1
  <2> QED BY <2>1, <2>2, <2>3
<1> QED BY <1>1, <1>2, <1>3, PageStays

LEMMA FromStreamStep ==
  IInv /\ PageTypes /\ Answers /\ Stream /\ Reads /\ FromStream /\ [PageNext]_allVars => FromStream'
<1> SUFFICES ASSUME IInv, PageTypes, Answers, Stream, Reads, FromStream, [PageNext]_allVars,
                    Following', base'.log.file = handle'[via'], Len(shown') < MaxShown,
                    NEW n \in start'[via'] + 1 .. Received', base'.log.len < n
             PROVE  \/ \E k \in DOMAIN shown' : shown'[k] = <<handle'[via'], n>>
                    \/ <<handle'[via'], n>> \in late'
  BY DEF FromStream, OnPage
<1> DEFINE Accounted == \/ \E k \in DOMAIN shown' : shown'[k] = <<handle'[via'], n>>
                        \/ <<handle'[via'], n>> \in late'
<1>0. TypeOK /\ via \in Conns \cup {NoConn} /\ TypeOK' /\ Len(wire) \in Nat
  BY WallStep DEF IInv, PageTypes
<1>same. ASSUME UNCHANGED <<via, shown, base, late>>, Same(via), Received' = Received
         PROVE  Accounted
  BY <1>same DEF FromStream, Following, OnPage, Same
<1>1. ASSUME UNCHANGED <<vars, via, wire, shown, base, late>> PROVE Accounted
  BY <1>1, <1>same DEF vars, connVars, Same, Received
<1>2. ASSUME NEW c \in Conns, OpenStream(c) PROVE FALSE
  BY <1>0, <1>2 DEF OpenStream, Connect, Goto, TypeOK, Following
<1>3. CASE Drop
  BY <1>3 DEF Drop, Following
<1>4. ASSUME NEW c \in Conns, Handler(c) PROVE Accounted
  <2>0. UNCHANGED <<shown, base, late>> /\ \A d \in Conns \ {c} : Same(d)
    BY <1>4, HandlerStep
  <2>1. CASE c # via
    <3>1. UNCHANGED <<via, wire>>
      BY <1>4, <2>1, HandlerStep
    <3>2. Same(via)
      BY <1>0, <2>0, <2>1, <3>1 DEF Following
    <3> QED BY <1>same, <2>0, <3>1, <3>2 DEF Received, Same
  <2>2. CASE c = via /\ (Advances(c) \/ NextRow(c))
    <3>1. /\ UNCHANGED <<via, shown, base, late>>
          /\ handle'[via] = handle[via] /\ start'[via] = start[via] /\ Following
      BY <2>0, <2>2 DEF Advances, NextRow, Following
    <3>2. Received' = Received
      <4>1. CASE Advances(c)
        BY <2>2, <4>1 DEF Advances, Received
      <4>2. CASE NextRow(c)
        <5>1. /\ via' = via /\ pos'[via] = pos[via] + 1 /\ pos[via] \in Nat
              /\ Len(wire') = Len(wire) + 1
          BY <1>0, <1>4, <2>2, <4>2 DEF NextRow, TypeOK, PageTypes
        <5>2. Received' = pos[via] + 1 - (Len(wire) + 1) /\ Received = pos[via] - Len(wire)
          BY <5>1 DEF Received
        <5> HIDE DEF Received
        <5> QED BY <1>0, <5>1, <5>2
      <4> QED BY <2>2, <4>1, <4>2
    <3> HIDE DEF Received
    <3> QED BY <3>1, <3>2 DEF FromStream, OnPage
  <2>3. CASE c = via /\ Opens(c)
    <3>1. wire' = <<>> /\ via' = c /\ pos'[c] = start'[c] /\ start'[c] \in Nat
      BY <1>0, <1>4, <2>3 DEF Opens, Stream, Following, TypeOK
    <3> QED BY <3>1 DEF Received
  <2>4. CASE c = via /\ Ends(c)
    BY <2>4 DEF Ends, Following
  <2> QED BY <1>4, <2>1, <2>2, <2>3, <2>4, HandlerStep
<1>5. CASE Receive
  <2>1. /\ UNCHANGED <<vars, via, base, late>> /\ Following /\ Received' = Received + 1
        /\ Received \in Int /\ 1 \in DOMAIN shown' /\ shown'[1] = <<handle[via], Received + 1>>
        /\ shown' \in Seq(Rows) /\ shown \in Seq(Rows)
        /\ Len(shown) < MaxShown /\ Len(shown') = Len(shown) + 1
        /\ \A k \in DOMAIN shown' :
             k = 1 \/ (k - 1 \in DOMAIN shown /\ shown'[k] = shown[k - 1] /\ k \in Nat)
    BY <1>5, RowComes, LogPageAssumption DEF PageTypes
  <2>2. handle'[via'] = handle[via] /\ start'[via'] = start[via] /\ start[via] \in Nat /\ n \in Int
    BY <1>0, <2>1 DEF vars, connVars, TypeOK, Following
  <2> HIDE DEF Received
  <2>3. CASE n = Received + 1
    BY <2>1, <2>2, <2>3
  <2>4. CASE n \in start[via] + 1 .. Received
    <3>1. CASE <<handle[via], n>> \in late
      BY <2>1, <2>2, <3>1
    <3>2. CASE <<handle[via], n>> \notin late
      <4>1. PICK k \in DOMAIN shown : shown[k] = <<handle[via], n>>
        BY <2>1, <2>2, <2>4, <3>2 DEF FromStream, OnPage
      <4>2. k + 1 \in DOMAIN shown' /\ k + 1 # 1 /\ k + 1 - 1 = k
        BY <2>1
      <4> QED BY <2>1, <2>2, <4>1, <4>2
    <3> QED BY <3>1, <3>2
  <2> QED BY <2>1, <2>2, <2>3, <2>4
<1>6. ASSUME NEW l \in Loads, ShowHistory(l) PROVE Accounted
  <2>1. /\ UNCHANGED <<vars, via, wire>> /\ via # NoConn
        /\ late' = {<<handle[via], m>> : m \in start[via] + 1 .. pos[via] - Len(wire)}
    BY <1>6 DEF ShowHistory, Following
  <2>2. /\ handle'[via'] = handle[via] /\ start'[via'] = start[via]
        /\ Received' = pos[via] - Len(wire)
    BY <2>1 DEF vars, connVars, Received
  <2> HIDE DEF Received
  <2> QED BY <2>1, <2>2
<1>7. CASE LogChanges
  <2>1. UNCHANGED <<connVars, pageVars>>
    BY <1>7 DEF LogChanges, AppendRow, Leave
  <2> QED BY <1>same, <2>1 DEF connVars, pageVars, Same, Received
<1>8. ASSUME NEW l \in Loads, Refresh(l) \/ ServeLog(l) \/ HistoryFails(l)
      PROVE  UNCHANGED <<vars, via, wire, shown, base, late>>
  BY <1>8 DEF Refresh, ServeLog, HistoryFails
<1>9. CASE OpenPage \/ UNCHANGED allVars
  BY <1>1, <1>9 DEF OpenPage, allVars, pageVars
<1> QED
  BY <1>1, <1>2, <1>3, <1>4, <1>5, <1>6, <1>7, <1>8, <1>9 DEF PageNext, HistoryStep

----------------------------------------------------------------------------
(* Lost connections and lost slots. *)

(* A step of a handler moves one slot between those that are free and those   *)
(* that are held, unless its client is gone before the headers.               *)
LEMMA SlotMoves ==
  ASSUME IInv, NEW c \in Conns, Serve(c)
  PROVE  /\ pc[c] # "none" /\ UNCHANGED logVars
         /\ \A d \in Conns \ {c} : pc'[d] = pc[d]
         /\ IsFiniteSet(Live')
         /\ \/ free' + Cardinality(Live') = free + Cardinality(Live)
            \/ /\ peer[c] = "reset" /\ pc'[c] = "none"
               /\ free' = free /\ Cardinality(Live') = Cardinality(Live) - 1
<1> DEFINE Kept == free' + Cardinality(Live') = free + Cardinality(Live)
           Lost == /\ peer[c] = "reset" /\ pc'[c] = "none"
                   /\ free' = free /\ Cardinality(Live') = Cardinality(Live) - 1
           Moved == \A d \in Conns \ {c} : pc'[d] = pc[d]
           Goal == pc[c] # "none" /\ UNCHANGED logVars /\ Moved /\ (Kept \/ Lost)
<1>0. /\ TypeOK /\ IsFiniteSet(Live) /\ Cardinality(Live) \in Nat /\ free \in Nat
  BY FS_CardinalityType, LogWallAssumption DEF IInv, Slots, TypeOK
<1>fin. IsFiniteSet(Live')
  <2>1. Next
    BY DEF Next
  <2> QED BY <2>1, SlotsStep DEF IInv, Slots
<1>same. ASSUME Live' = Live, free' = free PROVE Kept
  BY <1>same
<1>end. ASSUME EndThread(c), c \in Live
        PROVE  Cardinality(Live') = Cardinality(Live) - 1 /\ pc'[c] = "none"
  <2>1. Live' = Live \ {c} /\ pc'[c] = "none"
    BY <1>0, <1>end DEF EndThread, Live, Holding, TypeOK
  <2> QED BY <1>0, <1>end, <2>1, FS_RemoveElement
<1>1. CASE Accept(c)
  <2>1. c \notin Live /\ Live' = Live \cup {c} /\ free' = free - 1 /\ free > 0
    BY <1>0, <1>1 DEF Accept, Goto, Live, Holding, TypeOK
  <2>2. Cardinality(Live') = Cardinality(Live) + 1
    BY <1>0, <2>1, FS_AddElement
  <2> QED BY <1>0, <1>1, <1>fin, <2>1, <2>2 DEF Accept, Goto, TypeOK, logVars
<1>2. CASE Refuse(c)
  <2>1. Live' = Live
    BY <1>0, <1>2 DEF Refuse, EndThread, Live, Holding, TypeOK
  <2> QED BY <1>0, <1>2, <1>fin, <1>same, <2>1 DEF Refuse, EndThread, TypeOK
<1>3. CASE HeadersFail(c)
  <2>1. c \in Live
    BY <1>3 DEF HeadersFail, Live, Holding
  <2> QED BY <1>0, <1>3, <1>fin, <1>end, <2>1 DEF HeadersFail, EndThread, TypeOK
<1>4. CASE Release(c) /\ c \in Live /\ UNCHANGED logVars
  BY <1>0, <1>4, <1>fin, <1>end DEF Release, EndThread, TypeOK, Live, Holding
<1>5. ASSUME c \in Live, pc' = [pc EXCEPT ![c] = pc'[c]], UNCHANGED <<logVars, free>>,
             pc'[c] \in {"headers", "check", "wait", "open_end", "open_start", "follow"}
      PROVE  Goal
  <2>1. Live' = Live
    BY <1>0, <1>5 DEF Live, Holding, TypeOK
  <2> QED BY <1>0, <1>5, <1>same, <2>1 DEF Live, Holding, TypeOK
<1>6. CASE SendHeaders(c)
  BY <1>0, <1>6, <1>5, <1>fin DEF SendHeaders, Goto, Live, Holding, TypeOK
<1>7. CASE CheckFile(c)
  BY <1>0, <1>7, <1>5, <1>fin DEF CheckFile, Goto, Live, Holding, TypeOK
<1>8. CASE WaitForFile(c)
  <2>1. c \in Live
    BY <1>8 DEF WaitForFile, Live, Holding
  <2>2. CASE Release(c)
    BY <1>4, <1>8, <2>1, <2>2 DEF WaitForFile
  <2>3. CASE ~Release(c)
    BY <1>0, <1>5, <1>8, <1>fin, <2>1, <2>3 DEF WaitForFile, Goto, TypeOK
  <2> QED BY <2>2, <2>3
<1>9. CASE OpenFile(c)
  <2>1. c \in Live
    BY <1>9 DEF OpenFile, Live, Holding
  <2>2. CASE file = NoFile
    BY <1>4, <1>9, <2>1, <2>2 DEF OpenFile
  <2>3. CASE file # NoFile
    BY <1>0, <1>5, <1>9, <1>fin, <2>1, <2>3 DEF OpenFile, Goto, TypeOK
  <2> QED BY <2>2, <2>3
<1>10. CASE Follow(c)
  <2>1. c \in Live
    BY <1>10 DEF Follow, Live, Holding
  <2>2. CASE Release(c)
    BY <1>4, <1>10, <2>1, <2>2 DEF Follow
  <2>3. CASE ~Release(c)
    BY <1>0, <1>5, <1>10, <1>fin, <2>1, <2>3 DEF Follow, TypeOK
  <2> QED BY <2>2, <2>3
<1> QED BY <1>1, <1>2, <1>3, <1>4, <1>6, <1>7, <1>8, <1>9, <1>10 DEF Serve

LEMMA LossesStep ==
  IInv /\ PageTypes /\ Stream /\ Losses /\ [PageNext]_allVars => Losses'
<1> SUFFICES ASSUME IInv, PageTypes, Stream, Losses, [PageNext]_allVars PROVE Losses'
  OBVIOUS
<1> USE LogPageAssumption, LogWallAssumption
<1> DEFINE lost == MaxClients - free - Cardinality(Live)
<1>0. /\ TypeOK /\ via \in Conns \cup {NoConn}
      /\ IsFiniteSet(Live) /\ Cardinality(Live) \in Nat /\ free \in Nat
      /\ Cardinality(Live) + free <= MaxClients
      /\ IsFiniteSet(Others) /\ Cardinality(Others) \in Nat /\ drops \in Nat
      /\ lost + Cardinality(Others) <= drops
      /\ es = "closed" => MaxClients <= drops
  BY SMTT(20), FS_CardinalityType DEF IInv, Slots, TypeOK, PageTypes, Losses
<1>same. ASSUME UNCHANGED <<free, drops>>, Live' = Live, Others' = Others,
                es' = "closed" => es = "closed"
         PROVE  Losses'
  BY <1>0, <1>same DEF Losses
<1>1. ASSUME UNCHANGED <<free, pc, via, drops>>, es' = "closed" => es = "closed" PROVE Losses'
  BY <1>1, <1>same DEF Live, Holding, Others
<1>2. ASSUME NEW c \in Conns, OpenStream(c) PROVE Losses'
  <2>1. /\ pc[c] = "none" /\ pc' = [pc EXCEPT ![c] = "accept"] /\ via = NoConn /\ via' = c
        /\ es' = "connecting" /\ UNCHANGED <<free, drops>>
    BY <1>2 DEF OpenStream, Connect, Goto, PageTypes
  <2>2. Live' = Live
    BY <1>0, <2>1 DEF Live, Holding, TypeOK
  <2>3. Others' = Others
    BY <1>0, <2>1 DEF Others, TypeOK
  <2> QED BY <1>same, <2>1, <2>2, <2>3
<1>3. CASE Drop
  <2>1. /\ via' = NoConn /\ drops' = drops + 1 /\ es' = "waiting" /\ UNCHANGED <<free, pc>>
        /\ via \in Conns
    BY <1>0, <1>3 DEF Drop, Close
  <2>2. Live' = Live
    BY <2>1 DEF Live, Holding
  <2>3. Others' = Others \/ (via \notin Others /\ Others' = Others \cup {via})
    BY <2>1 DEF Others
  <2>4. IsFiniteSet(Others') /\ Cardinality(Others') \in Nat
        /\ Cardinality(Others') <= Cardinality(Others) + 1
    <3>1. CASE Others' = Others
      BY <1>0, <3>1
    <3>2. CASE via \notin Others /\ Others' = Others \cup {via}
      <4>1. /\ IsFiniteSet(Others \cup {via})
            /\ Cardinality(Others \cup {via}) = Cardinality(Others) + 1
        BY <1>0, <3>2, FS_AddElement
      <4> QED BY <1>0, <3>2, <4>1
    <3> HIDE DEF Others
    <3> QED BY <2>3, <3>1, <3>2
  <2> HIDE DEF Others, Live
  <2> QED BY <1>0, <2>1, <2>2, <2>4 DEF Losses
<1>4. ASSUME NEW c \in Conns, Handler(c) PROVE Losses'
  <2>0. Serve(c) /\ UNCHANGED drops /\ Cardinality(Live') \in Nat /\ free' \in Nat
    <3>1. Serve(c) /\ UNCHANGED drops
      BY <1>4 DEF Handler
    <3>2. IInv'
      BY WallStep
    <3> QED BY <3>1, <3>2, SlotMoves, FS_CardinalityType DEF IInv, TypeOK
  <2>1. CASE c # via
    <3>1. UNCHANGED <<es, via>>
      BY <1>4, <2>1, HandlerStep
    <3>2. c \in Others /\ Others' = IF pc'[c] = "none" THEN Others \ {c} ELSE Others
      BY <2>0, <2>1, <3>1, SlotMoves DEF Others
    <3>3. IsFiniteSet(Others \ {c}) /\ Cardinality(Others \ {c}) = Cardinality(Others) - 1
      BY <1>0, <3>2, FS_RemoveElement
    <3>4. IsFiniteSet(Others')
      BY <1>0, <3>2, <3>3
    <3>5. MaxClients - free' - Cardinality(Live') + Cardinality(Others') <= drops
      <4>1. CASE free' + Cardinality(Live') = free + Cardinality(Live)
        <5>1. Cardinality(Others') <= Cardinality(Others) /\ Cardinality(Others') \in Int
          BY <1>0, <3>2, <3>3
        <5> HIDE DEF Others, Live
        <5> QED BY <1>0, <2>0, <4>1, <5>1
      <4>2. CASE pc'[c] = "none" /\ free' = free /\ Cardinality(Live') = Cardinality(Live) - 1
        <5>1. Cardinality(Others') = Cardinality(Others) - 1
          BY <3>2, <3>3, <4>2
        <5> HIDE DEF Others, Live
        <5> QED BY <1>0, <4>2, <5>1
      <4> QED BY <2>0, <4>1, <4>2, SlotMoves
    <3> QED BY <1>0, <2>0, <3>1, <3>4, <3>5 DEF Losses
  <2>2. CASE c = via
    <3>1. peer[c] = "open"
      BY <1>0, <2>2 DEF Stream
    <3>2. free' + Cardinality(Live') = free + Cardinality(Live)
      BY <2>0, <3>1, SlotMoves
    <3>3. Advances(c) \/ Opens(c) \/ Ends(c) \/ NextRow(c)
      BY <1>4, <2>2, HandlerStep
    <3>4. Others' = Others
      <4>1. \A d \in Conns \ {c} : pc'[d] = pc[d]
        BY <2>0, SlotMoves
      <4>2. via' = via \/ (via' = NoConn /\ pc'[c] = "none")
        BY <3>3 DEF Advances, Opens, Ends, NextRow
      <4> QED BY <2>2, <4>1, <4>2 DEF Others
    <3>5. MaxClients - free' - Cardinality(Live') + Cardinality(Others') <= drops
      <4> HIDE DEF Others, Live
      <4> QED BY <1>0, <2>0, <3>2, <3>4
    <3>6. es' = "closed" => MaxClients <= drops
      <4> SUFFICES ASSUME es' = "closed" PROVE MaxClients <= drops
        OBVIOUS
      <4>1. es # "closed"
        BY <2>2 DEF PageTypes
      <4>2. pc[c] = "accept" /\ free = 0
        BY <3>3, <4>1 DEF Advances, Opens, Ends, NextRow
      <4>3. Live \subseteq Others
        BY <2>2, <4>2 DEF Live, Others, Holding
      <4>4. Cardinality(Live) <= Cardinality(Others)
        BY <1>0, <4>3, FS_Subset
      <4> HIDE DEF Live, Others
      <4> QED BY <1>0, <4>2, <4>4
    <3> QED BY <1>0, <2>0, <3>4, <3>5, <3>6 DEF Losses
  <2> QED BY <2>1, <2>2
<1>5. CASE Receive \/ LogChanges \/ OpenPage \/ UNCHANGED allVars
  BY <1>1, <1>5
  DEF Receive, LogChanges, AppendRow, Leave, OpenPage, allVars, pageVars, vars, connVars
<1>6. ASSUME NEW l \in Loads, Refresh(l) \/ HistoryStep(l)
      PROVE  UNCHANGED <<free, pc, via, drops, es>>
  BY <1>6 DEF Refresh, HistoryStep, ServeLog, ShowHistory, HistoryFails, vars, connVars
<1> QED BY <1>1, <1>2, <1>3, <1>4, <1>5, <1>6 DEF PageNext

----------------------------------------------------------------------------
(* The invariant is one of the specification. *)

LEMMA PageInitially == PageInit => PageInv
<1> SUFFICES ASSUME PageInit PROVE PageInv
  OBVIOUS
<1> USE LogPageAssumption, LogWallAssumption
<1>1. Init /\ IInv
  BY Initially DEF PageInit
<1>2. NoHistory \in History /\ <<>> \in Seq(Rows)
  BY DEF NoHistory, Never, History
<1>3. Idle \in Slot /\ Idle.state = "idle"
  BY <1>2 DEF Idle, Slot
<1>4. PageTypes /\ Answers
  BY <1>2, <1>3 DEF PageInit, PageTypes, Answers, Sound
<1>5. Stream /\ Reads /\ FromHistory /\ FromStream
  BY <1>1 DEF PageInit, Init, Stream, Reads, FromHistory, FromStream, Following, NoHistory, Never
<1>6. Shown
  BY DEF PageInit, Shown, Twice, Once
<1>7. Losses
  <2>1. Others = {} /\ Live = {} /\ free = MaxClients /\ drops = 0 /\ es = "none"
    BY DEF PageInit, Init, Others, Live, Holding
  <2> QED BY <2>1, FS_EmptySet DEF Losses
<1> QED BY <1>1, <1>4, <1>5, <1>6, <1>7 DEF PageInv

LEMMA PageInvariant == PageSpec => []PageInv
<1>1. PageInv /\ [PageNext]_allVars => PageInv'
  BY WallMoves, WallStep, ReadsStep, TypesStep, StreamStep, ShownStep, FromHistoryStep,
     FromStreamStep, LossesStep
  DEF PageInv
<1> QED BY <1>1, PageInitially, PTL DEF PageSpec

(* Every behaviour of the page is one of the log wall: what is proved of its  *)
(* slots and of its replays holds under the page as well.                     *)
THEOREM PageKeepsTheWall == PageSpec => Spec
<1>1. PageInit => Init
  BY DEF PageInit
<1>2. PageInv /\ [PageNext]_allVars => [Next]_vars
  BY WallMoves DEF PageInv
<1> QED BY <1>1, <1>2, PageInvariant, PTL DEF PageSpec, Spec

(* The EventSource, the histories under way and the page keep their types,    *)
(* and the page never grows beyond MAX_RENDERED_EVENTS.                       *)
THEOREM PageTypeCorrect == PageSpec => []PageTypeOK
<1>1. PageInv => PageTypeOK
  <2> SUFFICES ASSUME PageInv PROVE PageTypeOK
    OBVIOUS
  <2>1. Len(wire) <= MaxRows
    <3>1. CASE wire = <<>>
      BY <3>1, LogWallAssumption
    <3>2. CASE wire # <<>>
      <4>1. /\ via \in Conns /\ start[via] \in 0 .. MaxRows /\ pos[via] \in 0 .. MaxRows
            /\ Len(wire) \in Nat /\ start[via] <= pos[via] - Len(wire)
        BY <3>2 DEF PageInv, IInv, TypeOK, PageTypes, Stream, Following, Received
      <4> QED BY <4>1, LogWallAssumption
    <3> QED BY <3>1, <3>2
  <2> QED BY <2>1 DEF PageInv, PageTypes, Answers, Sound, IInv, PageTypeOK
<1> QED BY <1>1, PageInvariant, PTL

(* However often the stream reconnects and the history is loaded again, no    *)
(* row is on the page three times.                                            *)
THEOREM ShownTwiceAtMost == PageSpec => []AtMostTwice
<1>1. PageInv => AtMostTwice
  <2> SUFFICES ASSUME PageInv, NEW i \in Inodes, NEW n \in 1 .. MaxRows
               PROVE  Copies(<<i, n>>) <= 2
    BY DEF AtMostTwice
  <2> DEFINE S == {k \in DOMAIN shown : shown[k] = <<i, n>>}
  <2>1. \A a, b, d \in S : a = b \/ b = d \/ a = d
    BY DEF PageInv, Shown, Twice
  <2> HIDE DEF S
  <2>2. CASE S = {}
    BY <2>2, FS_EmptySet DEF Copies, S
  <2>3. CASE S # {}
    <3>1. PICK a \in S : TRUE
      BY <2>3
    <3>2. PICK b \in S : S = {a} \cup {b}
      <4>1. CASE S = {a}
        BY <3>1, <4>1
      <4>2. CASE S # {a}
        <5>1. PICK b \in S : b # a
          BY <3>1, <4>2
        <5>2. S = {a} \cup {b}
          BY <2>1, <3>1, <5>1
        <5> QED BY <5>2
      <4> QED BY <4>1, <4>2
    <3>3. IsFiniteSet({a}) /\ Cardinality({a}) = 1
      BY FS_Singleton
    <3>4. Cardinality({a} \cup {b}) = 1 \/ Cardinality({a} \cup {b}) = 1 + 1
      <4>1. CASE a = b
        BY <3>3, <4>1
      <4>2. CASE a # b
        BY <3>3, <4>2, FS_AddElement
      <4> QED BY <4>1, <4>2
    <3> QED BY <3>2, <3>4 DEF Copies, S
  <2> QED BY <2>2, <2>3
<1> QED BY <1>1, PageInvariant, PTL

(* A row that the stream is past and that is neither older than the history   *)
(* asked for nor shown or on its way fell into one of the three gaps there    *)
(* are, or went when the page was full.                                       *)
THEOREM HolesExplained == PageSpec => []HolesAreExplained
<1>1. PageInv => HolesAreExplained
  <2> SUFFICES ASSUME PageInv, NEW c \in Conns, c = via, pc[c] = "follow",
                      base.log.file = handle[c],
                      NEW n \in base.log.len - base.limit + 1 .. pos[c],
                      1 <= n, Len(shown) # MaxShown, ~OnPage(<<handle[c], n>>)
               PROVE  \/ OnWire(<<handle[c], n>>)
                      \/ base.log.len < n /\ (n <= start[c] \/ <<handle[c], n>> \in late)
    BY LogPageAssumption DEF HolesAreExplained
  <2>1. /\ Following /\ c # NoConn /\ handle[c] \in Inodes /\ handle[c] # NoFile
        /\ start[c] \in Nat /\ pos[c] \in Nat /\ base.log.len \in Nat /\ base.limit \in Nat
        /\ Len(wire) \in Nat /\ Received = pos[c] - Len(wire) /\ Len(shown) < MaxShown
        /\ start[c] <= Received
    BY SMTT(20), LogPageAssumption, LogWallAssumption
    DEF PageInv, IInv, TypeOK, Files, PageTypes, History, Following, Received, Stream,
        Inodes, NoFile
  <2>2. n \in Nat /\ base.log.len - base.limit < n /\ n <= pos[c]
    BY <2>1
  <2> HIDE DEF Received
  <2>3. base.log.len < n
    BY <2>1, <2>2 DEF PageInv, FromHistory
  <2>4. CASE n <= start[c]
    BY <2>3, <2>4
  <2>5. CASE start[c] < n /\ n <= Received
    <3>1. n \in start[via] + 1 .. Received
      BY <2>1, <2>2, <2>5
    <3> QED BY <2>1, <2>3, <3>1 DEF PageInv, FromStream
  <2>6. CASE Received < n
    <3>1. n - Received \in 1 .. Len(wire) /\ Received + (n - Received) = n
      BY SMTT(20), <2>1, <2>2, <2>6
    <3>2. wire[n - Received] = <<handle[via], Received + (n - Received)>>
      BY <2>1, <3>1 DEF PageInv, Stream
    <3>3. DOMAIN wire = 1 .. Len(wire)
      BY DEF PageInv, PageTypes
    <3> QED BY <3>1, <3>2, <3>3 DEF OnWire
  <2> QED BY <2>1, <2>2, <2>4, <2>5, <2>6
<1> QED BY <1>1, PageInvariant, PTL

(* The page is refused only after as many lost connections as there are       *)
(* slots: no handler that ends by itself keeps one.                           *)
THEOREM RefusedAfterDrops == PageSpec => []RefusedOnlyAfterDrops
<1>1. PageInv => RefusedOnlyAfterDrops
  BY LogPageAssumption, LogWallAssumption DEF PageInv, Losses, PageTypes, RefusedOnlyAfterDrops
<1> QED BY <1>1, PageInvariant, PTL
=============================================================================
