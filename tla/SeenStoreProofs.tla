--------------------------- MODULE SeenStoreProofs ---------------------------
(***************************************************************************)
(* Invariants of SeenStore for any number of clients, units, faults and    *)
(* restarts: a client forgets nothing until it has to evict and refuses    *)
(* nothing but replays, a mark takes no set further over its bound, a      *)
(* write that fails costs one record at most, lock or no lock; and the     *)
(* proof that SeenStore implements ReplayMemory.                           *)
(***************************************************************************)
EXTENDS SeenStore, FiniteSetTheorems, TLAPS

KnownIds(c) == {u.id : u \in Known(c)}
KnownNonces(c) == {u.nonce : u \in Known(c)}
StoredNonces == {rec.nonce : rec \in Loadable}

(* A set in memory holds what the client knows, but for the values that are   *)
(* none, or part of it after an eviction; and there was none while what it    *)
(* knows fits.                                                                *)
Tracks(set, knows, none) ==
    /\ IsFiniteSet(knows)
    /\ set \subseteq knows
    /\ Cardinality(knows) <= MaxEntries => knows \ none \subseteq set

Memory ==
    /\ IsFiniteSet(LoadedIds)
    /\ IsFiniteSet(StoredNonces)
    /\ \A c \in Clients :
        /\ Tracks(ids[c], KnownIds(c), {})
        /\ Tracks(nonces[c], KnownNonces(c), {NoNonce})

(* The units that returned and would be missed by a restart. *)
Lost == {u \in returned \ Loadable : u.nonce \notin LineBreaks}

(* A part of a line at the end of the file is a fault that has not cost its   *)
(* record yet.                                                                *)
Damage ==
    /\ IsFiniteSet(Lost)
    /\ Cardinality(Lost) + (IF torn THEN 1 ELSE 0) <= faults

(* A client has a unit in hand from the first step of _mark_seen to the last. *)
InHand ==
    \A c \in Clients :
        /\ pc[c] # "idle" => unit[c] \in Units
        /\ pc[c] = "idle" => unit[c] = NoRecord

(* It did not know it, if it remembers what it knows. *)
NotKnown ==
    \A c \in Clients : pc[c] # "idle" /\ Fits(known[c]) =>
        \A rec \in known[c] : ~Replay!Conflict(unit[c], rec)

IInv == TypeOK /\ InHand /\ Memory /\ NotKnown /\ Damage

----------------------------------------------------------------------------
(* What a set is after _mark_seen: the new set, or a part of it if the new    *)
(* set is over the bound.                                                     *)
LEMMA AddAndEvictBounds ==
    ASSUME NEW set, NEW x, NEW s \in AddAndEvict(set, x)
    PROVE  /\ s \subseteq set \cup {x}
           /\ ~(Cardinality(set \cup {x}) > MaxEntries) => s = set \cup {x}
<1> DEFINE new == set \cup {x}
<1>1. CASE Cardinality(new) > MaxEntries
  BY <1>1 DEF AddAndEvict
<1>2. CASE ~(Cardinality(new) > MaxEntries)
  BY <1>2 DEF AddAndEvict
<1> QED BY <1>1, <1>2

(* What _mark_seen adds is added to both, and an eviction takes from the set  *)
(* in memory alone.                                                           *)
LEMMA MarkTracks ==
    ASSUME NEW set, NEW knows, NEW none, NEW x, Tracks(set, knows, none),
           NEW s \in AddAndEvict(set, x)
    PROVE  Tracks(s, knows \cup {x}, none)
<1>1. IsFiniteSet(knows) /\ set \subseteq knows
  BY DEF Tracks
<1>2. IsFiniteSet(knows \cup {x})
  BY <1>1, FS_AddElement
<1>3. s \subseteq set \cup {x}
  BY AddAndEvictBounds
<1>4. ASSUME Cardinality(knows \cup {x}) <= MaxEntries
      PROVE  (knows \cup {x}) \ none \subseteq s
  <2>1. /\ Cardinality(knows) <= Cardinality(knows \cup {x})
        /\ Cardinality(set \cup {x}) <= Cardinality(knows \cup {x})
    <3>1. knows \in SUBSET (knows \cup {x}) /\ set \cup {x} \in SUBSET (knows \cup {x})
      BY <1>1
    <3> QED BY <1>2, <3>1, FS_Subset
  <2>2. IsFiniteSet(set \cup {x})
    BY <1>1, <1>2, FS_Subset
  <2>3. /\ Cardinality(knows) \in Nat /\ Cardinality(knows \cup {x}) \in Nat
        /\ Cardinality(set \cup {x}) \in Nat /\ MaxEntries \in Nat
    BY <1>1, <1>2, <2>2, FS_CardinalityType, SeenStoreAssumption
  <2>4. knows \ none \subseteq set
    BY <1>4, <2>1, <2>3 DEF Tracks
  <2>5. ~(Cardinality(set \cup {x}) > MaxEntries)
    BY <1>4, <2>1, <2>3
  <2>6. s = set \cup {x}
    BY <2>5, AddAndEvictBounds
  <2> QED BY <2>4, <2>6
<1> QED BY <1>1, <1>2, <1>3, <1>4 DEF Tracks

(* A value that is none is not added in memory. *)
LEMMA KeepTracks ==
    ASSUME NEW set, NEW knows, NEW none, NEW x \in none, Tracks(set, knows, none)
    PROVE  Tracks(set, knows \cup {x}, none)
<1>1. IsFiniteSet(knows) /\ set \subseteq knows
  BY DEF Tracks
<1>2. IsFiniteSet(knows \cup {x})
  BY <1>1, FS_AddElement
<1>3. Cardinality(knows) <= Cardinality(knows \cup {x})
  BY <1>2, FS_Subset
<1>4. Cardinality(knows) \in Nat /\ Cardinality(knows \cup {x}) \in Nat /\ MaxEntries \in Nat
  BY <1>1, <1>2, FS_CardinalityType, SeenStoreAssumption
<1>5. Cardinality(knows \cup {x}) <= MaxEntries => Cardinality(knows) <= MaxEntries
  BY <1>3, <1>4
<1> QED BY <1>1, <1>2, <1>5 DEF Tracks

(* Eviction: the set is within the bound afterwards, or no larger than it was. *)
LEMMA EvictionBounds ==
    ASSUME NEW set, NEW x, IsFiniteSet(set), NEW s \in AddAndEvict(set, x)
    PROVE  NoFuller(s, set)
<1> DEFINE new == set \cup {x}
<1>1. IsFiniteSet(new) /\ Cardinality(new) <= Cardinality(set) + 1
  <2>1. Cardinality(set) \in Nat
    BY FS_CardinalityType
  <2>2. /\ IsFiniteSet(set \cup {x})
        /\ Cardinality(set \cup {x}) = IF x \in set THEN Cardinality(set) ELSE Cardinality(set) + 1
    BY FS_AddElement
  <2> QED BY <2>1, <2>2
<1>2. Cardinality(new) \in Nat /\ Cardinality(set) \in Nat
  BY <1>1, FS_CardinalityType
<1>3. CASE Cardinality(new) > MaxEntries
  <2>1. PICK out \in SUBSET new : Cardinality(out) = EvictCount /\ s = new \ out
    BY <1>3 DEF AddAndEvict
  <2> HIDE DEF new
  <2>2. EvictCount \in Nat /\ EvictCount >= 1
    BY SeenStoreAssumption
  <2>3. out # {}
    BY <2>1, <2>2, FS_EmptySet
  <2>4. PICK y \in out : TRUE
    BY <2>3
  <2>5. IsFiniteSet(new \ {y}) /\ Cardinality(new \ {y}) = Cardinality(new) - 1
    BY <1>1, <2>1, <2>4, FS_RemoveElement
  <2>6. s \in SUBSET (new \ {y})
    BY <2>1, <2>4
  <2>7. IsFiniteSet(s) /\ Cardinality(s) <= Cardinality(new \ {y})
    BY <2>5, <2>6, FS_Subset
  <2>8. Cardinality(s) \in Nat
    BY <2>7, FS_CardinalityType
  <2> QED BY <1>1, <1>2, <2>5, <2>7, <2>8 DEF NoFuller
<1>4. CASE ~(Cardinality(new) > MaxEntries)
  <2>1. s = new
    BY <1>4 DEF AddAndEvict
  <2>2. MaxEntries \in Nat
    BY SeenStoreAssumption
  <2> QED BY <1>2, <1>4, <2>1, <2>2 DEF NoFuller
<1> QED BY <1>3, <1>4

(* Every step keeps the types, and the unit in hand. *)
LEMMA TypeStep == IInv /\ [Next]_vars => TypeOK' /\ InHand'
<1> SUFFICES ASSUME TypeOK, InHand, [Next]_vars PROVE TypeOK' /\ InHand'
  BY DEF IInv
<1>0. /\ \A c \in Clients, u \in Units : \A s \in AddAndEvict(ids[c], u.id) :
            s \subseteq ids[c] \cup {u.id}
      /\ \A c \in Clients, u \in Units : \A s \in AddAndEvict(nonces[c], u.nonce) :
            s \subseteq nonces[c] \cup {u.nonce}
  BY AddAndEvictBounds
<1> USE SeenStoreAssumption DEF TypeOK, InHand
<1>1. CASE UNCHANGED vars
  BY <1>1 DEF vars
<1>2. ASSUME NEW c \in Clients, NEW u \in Units, MarkInMemory(c, u) PROVE TypeOK' /\ InHand'
  <2>1. PICK s \in AddAndEvict(ids[c], u.id) : ids' = [ids EXCEPT ![c] = s]
    BY <1>2 DEF MarkInMemory
  <2>2. u.id \in Ids /\ u.nonce \in Nonces \cup {NoNonce}
    OBVIOUS
  <2>3. ids' \in [Clients -> SUBSET Ids]
    <3>1. s \subseteq ids[c] \cup {u.id}
      BY <2>1, <1>0
    <3> QED BY <2>1, <2>2, <3>1
  <2>4. nonces' \in [Clients -> SUBSET Nonces]
    <3>1. CASE u.nonce = NoNonce
      BY <1>2, <3>1 DEF MarkInMemory
    <3>2. CASE u.nonce # NoNonce
      <4>1. PICK t \in AddAndEvict(nonces[c], u.nonce) : nonces' = [nonces EXCEPT ![c] = t]
        BY <1>2, <3>2 DEF MarkInMemory
      <4>2. t \subseteq nonces[c] \cup {u.nonce}
        BY <4>1, <1>0
      <4> QED BY <2>2, <3>2, <4>1, <4>2
    <3> QED BY <3>1, <3>2
  <2> QED BY <1>2, <2>3, <2>4 DEF MarkInMemory, Goto
<1>3. ASSUME NEW c \in Clients, Lock(c) PROVE TypeOK' /\ InHand'
  BY <1>3 DEF Lock, Goto
<1>4. ASSUME NEW c \in Clients, LockFails(c) PROVE TypeOK' /\ InHand'
  BY <1>4 DEF LockFails, Goto
<1>5. ASSUME NEW c \in Clients, Unlock(c) PROVE TypeOK' /\ InHand'
  BY <1>5 DEF Unlock, Goto
<1>6. ASSUME NEW c \in Clients, Flush(c) PROVE TypeOK' /\ InHand'
  BY <1>6 DEF Flush, WriteLine, EndOfMark, Goto
<1>7. ASSUME NEW c \in Clients, FlushFails(c) PROVE TypeOK' /\ InHand'
  <2>1. torn' \in BOOLEAN /\ faults' \in 0 .. MaxFaults
    <3>1. faults \in Nat /\ MaxFaults \in Nat /\ faults < MaxFaults
      BY <1>7 DEF FlushFails
    <3>2. faults' = faults + 1 /\ torn' \in {torn, TRUE}
      BY <1>7 DEF FlushFails
    <3>3. torn' \in BOOLEAN
      BY <3>2
    <3>4. faults' \in 0 .. MaxFaults
      BY <3>1, <3>2
    <3> QED BY <3>3, <3>4
  <2>2. CASE pc[c] = "flush"
    BY <1>7, <2>1, <2>2 DEF FlushFails, Goto
  <2>3. CASE pc[c] = "fallback"
    BY <1>7, <2>1, <2>3 DEF FlushFails, EndOfMark, Goto
  <2> QED BY <1>7, <2>2, <2>3 DEF FlushFails
<1>8. ASSUME NEW c \in Clients, Restart(c) PROVE TypeOK' /\ InHand'
  <2>1. LoadedIds \in SUBSET Ids /\ LoadedNonces \in SUBSET Nonces /\ Loadable \in SUBSET Units
    BY DEF LoadedIds, LoadedNonces, Loadable
  <2> QED BY <1>8, <2>1 DEF Restart, Goto
<1> QED
  BY <1>1, <1>2, <1>3, <1>4, <1>5, <1>6, <1>7, <1>8 DEF Next

----------------------------------------------------------------------------
(* What a client knows changes when it takes a unit in hand, and when it goes. *)
LEMMA KnownSame ==
    ASSUME TypeOK, InHand, NEW c \in Clients, pc[c] # "idle", EndOfMark(c)
    PROVE  \A d \in Clients : Known(d)' = Known(d)
<1>1. /\ known' = [known EXCEPT ![c] = @ \cup {unit[c]}]
      /\ unit' = [unit EXCEPT ![c] = NoRecord]
  BY DEF EndOfMark
<1>2. unit[c] \in Units /\ unit[c] # NoRecord
  BY SeenStoreAssumption DEF InHand
<1> QED BY <1>1, <1>2 DEF TypeOK, Known

(* Every step keeps what the clients remember. *)
LEMMA MemoryStep == IInv /\ [Next]_vars => Memory'
<1> SUFFICES ASSUME TypeOK, InHand, Memory, [Next]_vars PROVE Memory'
  BY DEF IInv
<1>same. ASSUME UNCHANGED <<ids, nonces, Loadable>>, \A d \in Clients : Known(d)' = Known(d)
         PROVE  Memory'
  BY <1>same DEF Memory, Tracks, KnownIds, KnownNonces, LoadedIds, StoredNonces
<1>still. ASSUME UNCHANGED <<ids, nonces, known, unit, records>> PROVE Memory'
  BY <1>same, <1>still DEF Known, Loadable
<1>1. CASE UNCHANGED vars
  BY <1>1, <1>still DEF vars
<1>2. ASSUME NEW c \in Clients, NEW u \in Units, MarkInMemory(c, u) PROVE Memory'
  <2>1. PICK s \in AddAndEvict(ids[c], u.id) : ids' = [ids EXCEPT ![c] = s]
    BY <1>2 DEF MarkInMemory
  <2>2. /\ unit' = [unit EXCEPT ![c] = u]
        /\ UNCHANGED <<known, records>>
        /\ unit[c] = NoRecord
        /\ u # NoRecord
    BY <1>2, SeenStoreAssumption DEF MarkInMemory, InHand
  <2>3. LoadedIds' = LoadedIds /\ StoredNonces' = StoredNonces
    BY <2>2 DEF LoadedIds, StoredNonces, Loadable
  <2>4. Known(c)' = Known(c) \cup {u}
    BY <2>2 DEF TypeOK, Known
  <2>5. KnownIds(c)' = KnownIds(c) \cup {u.id} /\ KnownNonces(c)' = KnownNonces(c) \cup {u.nonce}
    BY <2>4 DEF KnownIds, KnownNonces
  <2>6. Tracks(ids[c], KnownIds(c), {}) /\ Tracks(nonces[c], KnownNonces(c), {NoNonce})
    BY DEF Memory
  <2>7. Tracks(ids'[c], KnownIds(c)', {})
    <3>1. Tracks(s, KnownIds(c) \cup {u.id}, {})
      BY <2>6, MarkTracks
    <3>2. ids'[c] = s
      BY <2>1 DEF TypeOK
    <3> QED BY <2>5, <3>1, <3>2
  <2>8. Tracks(nonces'[c], KnownNonces(c)', {NoNonce})
    <3>1. CASE u.nonce = NoNonce
      <4>1. Tracks(nonces[c], KnownNonces(c) \cup {u.nonce}, {NoNonce})
        BY <2>6, <3>1, KeepTracks
      <4>2. nonces' = nonces
        BY <1>2, <3>1 DEF MarkInMemory
      <4> QED BY <2>5, <4>1, <4>2
    <3>2. CASE u.nonce # NoNonce
      <4>1. PICK t \in AddAndEvict(nonces[c], u.nonce) : nonces' = [nonces EXCEPT ![c] = t]
        BY <1>2, <3>2 DEF MarkInMemory
      <4>2. Tracks(t, KnownNonces(c) \cup {u.nonce}, {NoNonce})
        BY <2>6, MarkTracks
      <4>3. nonces'[c] = t
        BY <4>1 DEF TypeOK
      <4> QED BY <2>5, <4>2, <4>3
    <3> QED BY <3>1, <3>2
  <2>9. ASSUME NEW d \in Clients, d # c
        PROVE  Tracks(ids'[d], KnownIds(d)', {}) /\ Tracks(nonces'[d], KnownNonces(d)', {NoNonce})
    <3>1. Known(d)' = Known(d)
      BY <2>2, <2>9 DEF TypeOK, Known
    <3>2. KnownIds(d)' = KnownIds(d) /\ KnownNonces(d)' = KnownNonces(d)
      BY <3>1 DEF KnownIds, KnownNonces
    <3>3. ids'[d] = ids[d]
      BY <2>1, <2>9 DEF TypeOK
    <3>4. nonces'[d] = nonces[d]
      BY <1>2, <2>9 DEF TypeOK, MarkInMemory
    <3> QED BY <3>2, <3>3, <3>4 DEF Memory
  <2>10. IsFiniteSet(LoadedIds') /\ IsFiniteSet(StoredNonces')
    BY <2>3 DEF Memory
  <2> QED BY <2>7, <2>8, <2>9, <2>10 DEF Memory, Tracks
<1>3. ASSUME NEW c \in Clients, Lock(c) PROVE Memory'
  BY <1>3, <1>still DEF Lock
<1>4. ASSUME NEW c \in Clients, LockFails(c) PROVE Memory'
  BY <1>4, <1>still DEF LockFails
<1>5. ASSUME NEW c \in Clients, Unlock(c) PROVE Memory'
  BY <1>5, <1>still DEF Unlock
<1>6. ASSUME NEW c \in Clients, Flush(c) PROVE Memory'
  <2>1. records' \in {records, records \cup {unit[c]}} /\ UNCHANGED <<ids, nonces>>
    BY <1>6 DEF Flush, WriteLine
  <2>2. \A d \in Clients : Known(d)' = Known(d)
    BY <1>6, KnownSame DEF Flush
  <2>3. Loadable' \in {Loadable, Loadable \cup {unit[c]}}
    BY <2>1 DEF Loadable
  <2>4. /\ LoadedIds' \in {LoadedIds, LoadedIds \cup {unit[c].id}}
        /\ StoredNonces' \in {StoredNonces, StoredNonces \cup {unit[c].nonce}}
    BY <2>3 DEF LoadedIds, StoredNonces
  <2>5. IsFiniteSet(LoadedIds') /\ IsFiniteSet(StoredNonces')
    <3>1. /\ IsFiniteSet(LoadedIds) /\ IsFiniteSet(LoadedIds \cup {unit[c].id})
          /\ IsFiniteSet(StoredNonces) /\ IsFiniteSet(StoredNonces \cup {unit[c].nonce})
      BY FS_AddElement DEF Memory
    <3> QED BY <2>4, <3>1
  <2> QED BY <2>1, <2>2, <2>5 DEF Memory, Tracks, KnownIds, KnownNonces
<1>7. ASSUME NEW c \in Clients, FlushFails(c) PROVE Memory'
  <2>1. UNCHANGED <<ids, nonces, records>>
    BY <1>7 DEF FlushFails
  <2>2. \A d \in Clients : Known(d)' = Known(d)
    <3>1. CASE pc[c] = "flush"
      BY <1>7, <3>1 DEF FlushFails, Known
    <3>2. CASE pc[c] = "fallback"
      BY <1>7, <3>2, KnownSame DEF FlushFails
    <3> QED BY <1>7, <3>1, <3>2 DEF FlushFails
  <2> QED BY <1>same, <2>1, <2>2 DEF Loadable
<1>8. ASSUME NEW c \in Clients, Restart(c) PROVE Memory'
  <2>1. /\ ids' = [ids EXCEPT ![c] = LoadedIds]
        /\ nonces' = [nonces EXCEPT ![c] = LoadedNonces]
        /\ known' = [known EXCEPT ![c] = Loadable]
        /\ unit' = [unit EXCEPT ![c] = NoRecord]
        /\ UNCHANGED records
    BY <1>8 DEF Restart
  <2>2. LoadedIds' = LoadedIds /\ StoredNonces' = StoredNonces
    BY <2>1 DEF LoadedIds, StoredNonces, Loadable
  <2>3. ASSUME NEW d \in Clients, d # c
        PROVE  Tracks(ids'[d], KnownIds(d)', {}) /\ Tracks(nonces'[d], KnownNonces(d)', {NoNonce})
    <3>1. Known(d)' = Known(d) /\ ids'[d] = ids[d] /\ nonces'[d] = nonces[d]
      BY <2>1, <2>3 DEF TypeOK, Known
    <3> QED BY <3>1 DEF Memory, Tracks, KnownIds, KnownNonces
  <2>4. Known(c)' = Loadable /\ ids'[c] = LoadedIds /\ nonces'[c] = StoredNonces \ {NoNonce}
    BY <2>1 DEF TypeOK, Known, LoadedNonces, StoredNonces
  <2>5. KnownIds(c)' = LoadedIds /\ KnownNonces(c)' = StoredNonces
    BY <2>4 DEF KnownIds, KnownNonces, LoadedIds, StoredNonces
  <2>6. Tracks(ids'[c], KnownIds(c)', {}) /\ Tracks(nonces'[c], KnownNonces(c)', {NoNonce})
    BY <2>4, <2>5 DEF Memory, Tracks
  <2> QED BY <2>2, <2>3, <2>6 DEF Memory, Tracks
<1> QED
  BY <1>1, <1>2, <1>3, <1>4, <1>5, <1>6, <1>7, <1>8 DEF Next

----------------------------------------------------------------------------
(* Every step keeps the damage below the faults: a complete line behind a     *)
(* part of one costs its record, and the fault that left the part has been    *)
(* counted.                                                                   *)
LEMMA DamageStep == IInv /\ [Next]_vars => Damage'
<1> SUFFICES ASSUME TypeOK, InHand, Damage, [Next]_vars PROVE Damage'
  BY DEF IInv
<1>0. Cardinality(Lost) \in Nat /\ faults \in Nat /\ torn \in BOOLEAN
  BY FS_CardinalityType, SeenStoreAssumption DEF Damage, TypeOK
<1>same. ASSUME Lost' = Lost, UNCHANGED <<torn, faults>> PROVE Damage'
  BY <1>same DEF Damage
<1>1. CASE UNCHANGED vars
  BY <1>1, <1>same DEF vars, Lost, Loadable
<1>2. ASSUME NEW c \in Clients, NEW u \in Units, MarkInMemory(c, u) PROVE Damage'
  BY <1>2, <1>same DEF MarkInMemory, Lost, Loadable
<1>3. ASSUME NEW c \in Clients, Lock(c) PROVE Damage'
  BY <1>3, <1>same DEF Lock, Lost, Loadable
<1>4. ASSUME NEW c \in Clients, LockFails(c) PROVE Damage'
  BY <1>4, <1>same DEF LockFails, Lost, Loadable
<1>5. ASSUME NEW c \in Clients, Unlock(c) PROVE Damage'
  BY <1>5, <1>same DEF Unlock, Lost, Loadable
<1>6. ASSUME NEW c \in Clients, Flush(c) PROVE Damage'
  <2>1. /\ WriteLine(unit[c])
        /\ returned' = returned \cup {unit[c]}
        /\ UNCHANGED faults
    BY <1>6 DEF Flush
  <2>2. IsFiniteSet(Lost) /\ Cardinality(Lost) + (IF torn THEN 1 ELSE 0) <= faults
    BY DEF Damage
  <2>3. ~torn'
    BY <2>1 DEF WriteLine
  <2>4. CASE torn
    <3>1. Lost' \subseteq Lost \cup {unit[c]}
      BY <2>1, <2>4 DEF WriteLine, Lost, Loadable
    <3>2. /\ IsFiniteSet(Lost \cup {unit[c]})
          /\ Cardinality(Lost \cup {unit[c]}) <= Cardinality(Lost) + 1
      BY <1>0, <2>2, FS_AddElement
    <3>3. /\ IsFiniteSet(Lost')
          /\ Cardinality(Lost') <= Cardinality(Lost \cup {unit[c]})
      BY <3>1, <3>2, FS_Subset
    <3>4. Cardinality(Lost') \in Nat /\ Cardinality(Lost \cup {unit[c]}) \in Nat
      BY <3>2, <3>3, FS_CardinalityType
    <3>5. Cardinality(Lost') <= faults
      BY <1>0, <2>2, <2>4, <3>2, <3>3, <3>4
    <3> QED BY <2>1, <2>3, <3>3, <3>4, <3>5 DEF Damage
  <2>5. CASE ~torn
    <3>1. Lost' \subseteq Lost
      BY <2>1, <2>5 DEF WriteLine, Lost, Loadable
    <3>2. IsFiniteSet(Lost') /\ Cardinality(Lost') <= Cardinality(Lost)
      BY <2>2, <3>1, FS_Subset
    <3>3. Cardinality(Lost') \in Nat
      BY <3>2, FS_CardinalityType
    <3>4. Cardinality(Lost') <= faults
      BY <1>0, <2>2, <2>5, <3>2, <3>3
    <3> QED BY <2>1, <2>3, <3>2, <3>3, <3>4 DEF Damage
  <2> QED BY <1>0, <2>4, <2>5
<1>7. ASSUME NEW c \in Clients, FlushFails(c) PROVE Damage'
  <2>1. faults' = faults + 1 /\ torn' \in {torn, TRUE} /\ UNCHANGED <<records, returned>>
    BY <1>7 DEF FlushFails
  <2>2. Lost' = Lost
    BY <2>1 DEF Lost, Loadable
  <2>3. Cardinality(Lost) <= faults
    BY <1>0 DEF Damage
  <2>4. torn' \in BOOLEAN
    BY <1>0, <2>1
  <2>5. Cardinality(Lost) + (IF torn' THEN 1 ELSE 0) <= faults + 1
    BY <1>0, <2>3, <2>4
  <2> QED BY <2>1, <2>2, <2>5 DEF Damage
<1>8. ASSUME NEW c \in Clients, Restart(c) PROVE Damage'
  BY <1>8, <1>same DEF Restart, Lost, Loadable
<1> QED
  BY <1>1, <1>2, <1>3, <1>4, <1>5, <1>6, <1>7, <1>8 DEF Next

----------------------------------------------------------------------------
(* What a client refuses, as long as it remembers what it knows. *)
LEMMA Remembers ==
    ASSUME TypeOK, Memory, NEW c \in Clients, Fits(Known(c)),
           NEW u, NEW rec \in Known(c), Replay!Conflict(u, rec)
    PROVE  Seen(c, u)
<1>1. KnownIds(c) \subseteq ids[c] /\ KnownNonces(c) \ {NoNonce} \subseteq nonces[c]
  BY DEF Memory, Tracks, Fits, KnownIds, KnownNonces
<1>2. rec.id \in KnownIds(c) /\ rec.nonce \in KnownNonces(c)
  BY DEF KnownIds, KnownNonces
<1>3. CASE u.id = rec.id
  BY <1>1, <1>2, <1>3 DEF Seen
<1>4. CASE u.nonce # NoNonce /\ u.nonce = rec.nonce
  BY <1>1, <1>2, <1>4 DEF Seen
<1> QED BY <1>3, <1>4 DEF Replay!Conflict

(* Every step keeps a unit in hand apart from what its client knows. *)
LEMMA NotKnownStep == IInv /\ [Next]_vars => NotKnown'
<1> SUFFICES ASSUME TypeOK, InHand, Memory, NotKnown, [Next]_vars PROVE NotKnown'
  BY DEF IInv
<1>same. ASSUME UNCHANGED <<known, unit>>, \A d \in Clients : pc'[d] # "idle" => pc[d] # "idle"
         PROVE  NotKnown'
  BY <1>same DEF NotKnown, Fits, Replay!Conflict
<1>idle. ASSUME NEW c \in Clients, pc' = [pc EXCEPT ![c] = "idle"],
                \A d \in Clients : d # c => known'[d] = known[d] /\ unit'[d] = unit[d]
         PROVE  NotKnown'
  BY <1>idle DEF TypeOK, NotKnown, Fits, Replay!Conflict
<1>1. CASE UNCHANGED vars
  BY <1>1, <1>same DEF vars
<1>2. ASSUME NEW c \in Clients, NEW u \in Units, MarkInMemory(c, u) PROVE NotKnown'
  <2>1. /\ unit' = [unit EXCEPT ![c] = u] /\ known' = known
        /\ pc' = [pc EXCEPT ![c] = "lock"]
        /\ ~Seen(c, u)
        /\ Known(c) = known[c]
    BY <1>2 DEF MarkInMemory, Goto, InHand, Known
  <2>2. ASSUME Fits(known[c]), NEW rec \in known[c] PROVE ~Replay!Conflict(u, rec)
    BY <2>1, <2>2, Remembers
  <2>3. ASSUME NEW d \in Clients, pc'[d] # "idle", Fits(known[d]), NEW rec \in known[d]
        PROVE  ~Replay!Conflict(unit'[d], rec)
    <3>1. CASE d = c
      <4>1. unit'[d] = u
        BY <2>1, <3>1 DEF TypeOK
      <4> QED BY <2>2, <2>3, <3>1, <4>1
    <3>2. CASE d # c
      <4>1. unit'[d] = unit[d] /\ pc'[d] = pc[d]
        BY <2>1, <3>2 DEF TypeOK
      <4> QED BY <2>3, <4>1 DEF NotKnown
    <3> QED BY <3>1, <3>2
  <2> QED BY <2>1, <2>3 DEF NotKnown, Fits, Replay!Conflict
<1>3. ASSUME NEW c \in Clients, Lock(c) PROVE NotKnown'
  BY <1>3, <1>same DEF TypeOK, Lock, Goto
<1>4. ASSUME NEW c \in Clients, LockFails(c) PROVE NotKnown'
  BY <1>4, <1>same DEF TypeOK, LockFails, Goto
<1>5. ASSUME NEW c \in Clients, Unlock(c) PROVE NotKnown'
  BY <1>5, <1>same DEF TypeOK, Unlock, Goto
<1>6. ASSUME NEW c \in Clients, Flush(c) PROVE NotKnown'
  BY <1>6, <1>idle DEF TypeOK, Flush, EndOfMark, Goto
<1>7. ASSUME NEW c \in Clients, FlushFails(c) PROVE NotKnown'
  <2>1. CASE pc[c] = "flush"
    BY <1>7, <2>1, <1>same DEF TypeOK, FlushFails, Goto
  <2>2. CASE pc[c] = "fallback"
    BY <1>7, <2>2, <1>idle DEF TypeOK, FlushFails, EndOfMark, Goto
  <2> QED BY <1>7, <2>1, <2>2 DEF FlushFails
<1>8. ASSUME NEW c \in Clients, Restart(c) PROVE NotKnown'
  BY <1>8, <1>idle DEF TypeOK, Restart, Goto
<1> QED
  BY <1>1, <1>2, <1>3, <1>4, <1>5, <1>6, <1>7, <1>8 DEF Next

----------------------------------------------------------------------------
(* The invariant is one of the specification. *)
LEMMA Invariant == Spec => []IInv
<1>1. Init => IInv
  <2> SUFFICES ASSUME Init PROVE IInv
    OBVIOUS
  <2>1. /\ Loadable = {} /\ Lost = {}
        /\ \A c \in Clients : Known(c) = {} /\ ids[c] = {} /\ nonces[c] = {}
    BY DEF Init, Loadable, Lost, Known
  <2>2. Memory
    <3>1. LoadedIds = {} /\ StoredNonces = {}
      BY <2>1 DEF LoadedIds, StoredNonces
    <3>2. \A c \in Clients : KnownIds(c) = {} /\ KnownNonces(c) = {}
      BY <2>1 DEF KnownIds, KnownNonces
    <3> QED BY <2>1, <3>1, <3>2, FS_EmptySet DEF Memory, Tracks
  <2>3. Damage
    BY <2>1, FS_EmptySet DEF Init, Damage
  <2>4. TypeOK /\ InHand
    <3>1. MaxFaults \in Nat /\ MaxMarks \in Nat /\ MaxRestarts \in Nat
      BY SeenStoreAssumption
    <3>2. /\ ids \in [Clients -> SUBSET Ids] /\ nonces \in [Clients -> SUBSET Nonces]
          /\ known \in [Clients -> SUBSET Units]
      BY DEF Init
    <3>3. /\ pc \in [Clients -> {"idle", "lock", "buffered", "flush", "fallback"}]
          /\ unit \in [Clients -> Units \cup {NoRecord}]
          /\ InHand
      BY DEF Init, InHand
    <3>4. records \in SUBSET Units /\ returned \in SUBSET Units
      BY DEF Init
    <3>5. torn \in BOOLEAN /\ lock \in Clients \cup {Free}
      BY DEF Init
    <3>6. faults \in 0 .. MaxFaults /\ marks \in 0 .. MaxMarks /\ restarts \in 0 .. MaxRestarts
      BY <3>1 DEF Init
    <3> QED BY <3>2, <3>3, <3>4, <3>5, <3>6 DEF TypeOK
  <2>5. NotKnown
    BY DEF Init, NotKnown
  <2> QED BY <2>2, <2>3, <2>4, <2>5 DEF IInv
<1>2. IInv /\ [Next]_vars => IInv'
  BY TypeStep, MemoryStep, NotKnownStep, DamageStep DEF IInv
<1> QED BY <1>1, <1>2, PTL DEF Spec

(* The clients, the file and the lock keep their types. *)
THEOREM TypeCorrect == Spec => []TypeOK
<1>1. IInv => TypeOK
  BY DEF IInv
<1> QED BY <1>1, Invariant, PTL

(* _persist_seen and _load_seen: whatever clients overlap, die between the    *)
(* unlock and the flush, or append without the lock, a restart misses at most *)
(* one returned unit per failed write.                                        *)
THEOREM DamageCorrect == Spec => []DamageIsBounded
<1>1. IInv => DamageIsBounded
  <2> SUFFICES ASSUME TypeOK, Damage PROVE DamageIsBounded
    BY DEF IInv
  <2>1. Cardinality(Lost) \in Nat /\ faults \in Nat
    BY FS_CardinalityType, SeenStoreAssumption DEF Damage, TypeOK
  <2>2. Cardinality(Lost) <= faults
    BY <2>1 DEF Damage
  <2> QED BY <2>2 DEF Lost, DamageIsBounded
<1> QED BY <1>1, Invariant, PTL

(* _seen and _mark_seen: as long as what a client has loaded and marked fits  *)
(* in its sets, it refuses every replay of it.                                *)
THEOREM NothingForgotten == Spec => []NothingForgottenBelowBound
<1>1. IInv => NothingForgottenBelowBound
  BY Remembers DEF IInv, NothingForgottenBelowBound
<1> QED BY <1>1, Invariant, PTL

(* _seen: a client refuses nothing but replays of what it has loaded or       *)
(* marked, whatever it has evicted.                                           *)
THEOREM RefusalsAreReplays == Spec => []RefusesOnlyReplays
<1>1. IInv => RefusesOnlyReplays
  <2> SUFFICES ASSUME TypeOK, Memory, NEW c \in Clients, NEW u \in Units, Seen(c, u)
               PROVE  \E rec \in Known(c) : Replay!Conflict(u, rec)
    BY DEF IInv, RefusesOnlyReplays
  <2>1. CASE u.id \in ids[c]
    BY <2>1 DEF Memory, Tracks, KnownIds, Replay!Conflict
  <2>2. CASE u.nonce \in nonces[c]
    <3>1. u.nonce # NoNonce
      BY <2>2, SeenStoreAssumption DEF TypeOK
    <3> QED BY <2>2, <3>1 DEF Memory, Tracks, KnownNonces, Replay!Conflict
  <2> QED BY <2>1, <2>2 DEF Seen
<1> QED BY <1>1, Invariant, PTL

(* _mark_seen: a mark takes no set over the bound, nor further over it.       *)
THEOREM EvictionKeepsUp == Spec => MarksDoNotOverfill
<1>1. ASSUME IInv, [Next]_vars, restarts' = restarts, NEW c \in Clients
      PROVE  NoFuller(ids'[c], ids[c]) /\ NoFuller(nonces'[c], nonces[c])
  <2>1. IsFiniteSet(ids[c]) /\ IsFiniteSet(nonces[c])
    <3>1. /\ IsFiniteSet(KnownIds(c)) /\ ids[c] \subseteq KnownIds(c)
          /\ IsFiniteSet(KnownNonces(c)) /\ nonces[c] \subseteq KnownNonces(c)
      BY <1>1 DEF IInv, Memory, Tracks
    <3> QED BY <3>1, FS_Subset
  <2>2. Cardinality(ids[c]) \in Nat /\ Cardinality(nonces[c]) \in Nat
    BY <2>1, FS_CardinalityType
  <2>3. /\ NoFuller(ids[c], ids[c]) /\ NoFuller(nonces[c], nonces[c])
        /\ \A x : \A s \in AddAndEvict(ids[c], x) : NoFuller(s, ids[c])
        /\ \A x : \A s \in AddAndEvict(nonces[c], x) : NoFuller(s, nonces[c])
    <3>1. NoFuller(ids[c], ids[c]) /\ NoFuller(nonces[c], nonces[c])
      BY <2>2 DEF NoFuller
    <3>2. ASSUME NEW x, NEW s \in AddAndEvict(ids[c], x) PROVE NoFuller(s, ids[c])
      BY <2>1, EvictionBounds
    <3>3. ASSUME NEW x, NEW s \in AddAndEvict(nonces[c], x) PROVE NoFuller(s, nonces[c])
      BY <2>1, EvictionBounds
    <3> QED BY <3>1, <3>2, <3>3
  <2>4. CASE UNCHANGED <<ids, nonces>>
    BY <2>3, <2>4
  <2>5. ASSUME NEW d \in Clients, NEW u \in Units, MarkInMemory(d, u)
        PROVE  NoFuller(ids'[c], ids[c]) /\ NoFuller(nonces'[c], nonces[c])
    <3>1. PICK s \in AddAndEvict(ids[d], u.id) : ids' = [ids EXCEPT ![d] = s]
      BY <2>5 DEF MarkInMemory
    <3>2. NoFuller(ids'[c], ids[c])
      BY <1>1, <2>3, <3>1 DEF IInv, TypeOK
    <3>3. NoFuller(nonces'[c], nonces[c])
      <4>1. CASE u.nonce = NoNonce
        BY <2>3, <2>5, <4>1 DEF MarkInMemory
      <4>2. CASE u.nonce # NoNonce
        <5>1. PICK t \in AddAndEvict(nonces[d], u.nonce) : nonces' = [nonces EXCEPT ![d] = t]
          BY <2>5, <4>2 DEF MarkInMemory
        <5> QED BY <1>1, <2>3, <5>1 DEF IInv, TypeOK
      <4> QED BY <4>1, <4>2
    <3> QED BY <3>2, <3>3
  <2>6. ASSUME NEW d \in Clients, Restart(d) PROVE FALSE
    <3>1. restarts \in Nat
      BY <1>1, SeenStoreAssumption DEF IInv, TypeOK
    <3> QED BY <1>1, <2>6, <3>1 DEF Restart
  <2>7. ASSUME NEW d \in Clients, Lock(d) \/ LockFails(d) \/ Unlock(d) \/ Flush(d) \/ FlushFails(d)
        PROVE  UNCHANGED <<ids, nonces>>
    BY <2>7 DEF Lock, LockFails, Unlock, Flush, FlushFails
  <2>8. CASE UNCHANGED vars
    BY <2>4, <2>8 DEF vars
  <2> QED BY <1>1, <2>4, <2>5, <2>6, <2>7, <2>8 DEF Next
<1>2. IInv /\ [Next]_vars =>
        [restarts' = restarts => \A c \in Clients :
            NoFuller(ids'[c], ids[c]) /\ NoFuller(nonces'[c], nonces[c])]_vars
  BY <1>1
<1> QED BY <1>2, Invariant, PTL DEF Spec, MarksDoNotOverfill

----------------------------------------------------------------------------
ReplayNext == [Replay!Next]_(Replay!replayVars)

(* _mark_seen is a mark of the contract when it is over, stored unless a      *)
(* write has failed or the line is cut when it is loaded.                     *)
LEMMA ReplayStep == IInv /\ [Next]_vars => ReplayNext
<1> SUFFICES ASSUME IInv, [Next]_vars PROVE ReplayNext
  OBVIOUS
<1> USE DEF ReplayNext
<1>same. ASSUME UNCHANGED <<known, records>> PROVE ReplayNext
  BY <1>same DEF Replay!replayVars, Loadable
<1>end. ASSUME NEW c \in Clients, pc[c] # "idle", EndOfMark(c),
               \/ Loadable' = Loadable \cup {unit[c]}
               \/ Loadable' = Loadable /\ (unit[c].nonce \in LineBreaks \/ MaxFaults > 0)
        PROVE  ReplayNext
  <2>1. unit[c] \in Units /\ known[c] \in SUBSET Units
    BY <1>end DEF IInv, TypeOK, InHand
  <2>2. Fits(known[c]) => \A rec \in known[c] : ~Replay!Conflict(unit[c], rec)
    BY <1>end DEF IInv, NotKnown
  <2>3. known' = [known EXCEPT ![c] = @ \cup {unit[c]}]
    BY <1>end DEF EndOfMark
  <2>4. Replay!Mark(c, unit[c])
    BY <1>end, <2>1, <2>2, <2>3 DEF Replay!Mark
  <2> QED BY <2>1, <2>4 DEF Replay!Next
<1>1. CASE UNCHANGED vars
  BY <1>1, <1>same DEF vars
<1>2. ASSUME NEW c \in Clients,
             \/ \E u \in Units : MarkInMemory(c, u)
             \/ Lock(c) \/ LockFails(c) \/ Unlock(c)
      PROVE  ReplayNext
  BY <1>2, <1>same DEF MarkInMemory, Lock, LockFails, Unlock
<1>3. ASSUME NEW c \in Clients, Flush(c) PROVE ReplayNext
  <2>1. EndOfMark(c) /\ WriteLine(unit[c]) /\ pc[c] # "idle"
    BY <1>3 DEF Flush
  <2>2. CASE torn
    <3>1. MaxFaults > 0
      <4>1. Cardinality(Lost) \in Nat /\ Cardinality(Lost) + 1 <= faults
        BY <2>2, FS_CardinalityType DEF IInv, Damage
      <4>2. faults \in Nat /\ MaxFaults \in Nat /\ faults <= MaxFaults
        BY SeenStoreAssumption DEF IInv, TypeOK
      <4> QED BY <4>1, <4>2
    <3>2. Loadable' = Loadable
      BY <2>1, <2>2 DEF WriteLine, Loadable
    <3> QED BY <1>end, <2>1, <3>1, <3>2
  <2>3. CASE ~torn /\ unit[c].nonce \in LineBreaks
    <3>1. Loadable' = Loadable
      BY <2>1, <2>3 DEF WriteLine, Loadable
    <3> QED BY <1>end, <2>1, <2>3, <3>1
  <2>4. CASE ~torn /\ unit[c].nonce \notin LineBreaks
    <3>1. Loadable' = Loadable \cup {unit[c]}
      BY <2>1, <2>4 DEF WriteLine, Loadable
    <3> QED BY <1>end, <2>1, <3>1
  <2> QED BY <2>2, <2>3, <2>4
<1>4. ASSUME NEW c \in Clients, FlushFails(c) PROVE ReplayNext
  <2>1. CASE pc[c] = "flush"
    BY <1>4, <2>1, <1>same DEF FlushFails
  <2>2. CASE pc[c] = "fallback"
    <3>1. MaxFaults > 0
      BY <1>4, SeenStoreAssumption DEF FlushFails, IInv, TypeOK
    <3>2. EndOfMark(c) /\ Loadable' = Loadable
      BY <1>4, <2>2 DEF FlushFails, Loadable
    <3> QED BY <1>end, <2>2, <3>1, <3>2
  <2> QED BY <1>4, <2>1, <2>2 DEF FlushFails
<1>5. ASSUME NEW c \in Clients, Restart(c) PROVE ReplayNext
  BY <1>5 DEF Restart, Loadable, Replay!Next, Replay!Open
<1> QED
  BY <1>1, <1>2, <1>3, <1>4, <1>5 DEF Next

LEMMA ReplayInit == Init => Replay!Init
  BY DEF Init, Loadable, Replay!Init

(* The sets and the file with its lock, its torn lines, its evictions and its *)
(* restarts keep the contract of ReplayMemory.                                *)
THEOREM ReplayRefinement == Spec => ImplementsReplayMemory
<1>1. IInv /\ [Next]_vars => [Replay!Next]_(Replay!replayVars)
  BY ReplayStep DEF ReplayNext
<1> QED BY Invariant, ReplayInit, <1>1, PTL DEF Spec, ImplementsReplayMemory, Replay!Spec

(* The contract as NodeAgent has it: nothing is forgotten, and nothing lost. *)
Reliable == INSTANCE ReplayMemory WITH
              Records <- Units,
              Remembered <- SUBSET Units,
              Lossy <- {},
              stored <- Loadable,
              copy <- known

(* Where no write fails, no line is cut and all units fit in the sets, the    *)
(* store is what NodeAgent takes it for, whatever clients overlap or die, and *)
(* with or without the lock.                                                  *)
THEOREM FaultlessRefinement ==
    ASSUME MaxFaults = 0, LineBreaks = {}, \A set \in SUBSET Units : Fits(set)
    PROVE  Spec => Reliable!Spec
<1>1. Init => Reliable!Init
  BY ReplayInit DEF Replay!Init, Reliable!Init
<1>2. ReplayNext => [Reliable!Next]_(Reliable!replayVars)
  <2>1. {set \in SUBSET Units : Fits(set)} = SUBSET Units
    OBVIOUS
  <2>2. {u \in Units : u.nonce \in LineBreaks \/ MaxFaults > 0} = {}
    OBVIOUS
  <2>3. ASSUME NEW c \in Clients, NEW u, Replay!Mark(c, u) PROVE Reliable!Mark(c, u)
    BY <2>1, <2>2, <2>3 DEF Replay!Mark, Reliable!Mark, Replay!Conflict, Reliable!Conflict
  <2>4. Replay!Next => Reliable!Next
    BY <2>3 DEF Replay!Next, Reliable!Next, Replay!Open, Reliable!Open, Replay!Close,
                Reliable!Close
  <2> QED BY <2>4 DEF ReplayNext, Replay!replayVars, Reliable!replayVars
<1>3. IInv /\ [Next]_vars => [Reliable!Next]_(Reliable!replayVars)
  BY <1>2, ReplayStep
<1> QED BY Invariant, <1>1, <1>3, PTL DEF Spec, Reliable!Spec
=============================================================================
