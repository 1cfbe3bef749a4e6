----------------------------- MODULE SeenStore -----------------------------
(***************************************************************************)
(* The anti-replay store of node_agent/client.py: the two sets a client    *)
(* keeps in memory, bounded by eviction, and the append-only file they     *)
(* come back from after a restart (_load_seen, _persist_seen, _seen,       *)
(* _mark_seen).                                                            *)
(*                                                                         *)
(* Clients are long-lived here: a NodeAgentClient may mark many units      *)
(* before it goes, where `node-agent run` has it mark one.  They share     *)
(* the file.  An append is one write(2) at close, after the lock is given  *)
(* back; it may fail, before or after a part of the line has reached the   *)
(* file, and is then tried once more without the lock.                     *)
(*                                                                         *)
(* A line is a record, or the whole of it is lost to _load_seen: because   *)
(* it follows a part of another with no newline in between, or because     *)
(* splitlines cuts it where json.dumps did not escape a line separator.    *)
(***************************************************************************)
EXTENDS Naturals, FiniteSets

CONSTANTS
    Clients,
    Ids,          \* wu_id values
    Nonces,       \* nonce values
    NoNonce,      \* the unit carries no nonce
    NoRecord,     \* no unit is being marked
    Units,        \* what process_wu may have to mark: [id, nonce] records
    LineBreaks,   \* the nonces that hold a character splitlines breaks at
    MaxEntries,   \* MAX_SEEN_ENTRIES
    EvictCount,   \* MAX_SEEN_ENTRIES // 10
    MaxFaults,    \* bound on the number of writes that fail
    MaxMarks,     \* bound on the number of units marked
    MaxRestarts   \* bound on the number of clients that go and come back

ASSUME SeenStoreAssumption ==
    /\ Units \subseteq [id : Ids, nonce : Nonces \cup {NoNonce}]
    /\ NoRecord \notin Units
    /\ NoNonce \notin Nonces
    /\ LineBreaks \subseteq Nonces
    /\ MaxEntries \in Nat \ {0}
    /\ EvictCount \in 1 .. MaxEntries
    /\ {MaxFaults, MaxMarks, MaxRestarts} \subseteq Nat

VARIABLES
    \* the clients
    ids,        \* _seen_wu_ids
    nonces,     \* _seen_nonces
    pc,         \* where _mark_seen stands
    unit,       \* the unit it is marking
    \* the file
    records,    \* the records of its well-formed lines
    torn,       \* it ends in a part of a line
    lock,       \* who holds the flock
    \* history
    returned,   \* the units whose _mark_seen has returned
    known,      \* of each client: the units it has loaded, or is through with marking
    faults, marks, restarts

vars == <<ids, nonces, pc, unit, records, torn, lock, returned, known, faults, marks, restarts>>

Free == "free"

----------------------------------------------------------------------------
(* Mutated forms: plausible slips in the code, each of which some property *)
(* below must notice.                                                      *)

(* The bound is compared with >= in place of >. *)
AddAndEvictEarly(set, x) ==
    LET new == set \cup {x} IN
        IF Cardinality(new) >= MaxEntries
        THEN {new \ out : out \in {o \in SUBSET new : Cardinality(o) = EvictCount}}
        ELSE {new}

(* One entry too few is evicted. *)
AddAndEvictOneLess(set, x) ==
    LET new == set \cup {x} IN
        IF Cardinality(new) > MaxEntries
        THEN {new \ out : out \in {o \in SUBSET new : Cardinality(o) = EvictCount - 1}}
        ELSE {new}

(* The nonce is stored and not compared. *)
SeenById(c, u) == u.id \in ids[c]

(* The fallback does not end the line it finds unfinished, nor its own. *)
WriteLineUnterminated(u) ==
    /\ records' = IF torn THEN records ELSE records \cup {u}
    /\ UNCHANGED torn

----------------------------------------------------------------------------
(* _load_seen: the records of the lines that parse. *)
Loadable == {rec \in records : rec.nonce \notin LineBreaks}

LoadedIds == {rec.id : rec \in Loadable}
LoadedNonces == {rec.nonce : rec \in Loadable} \ {NoNonce}

(* _seen *)
Seen(c, u) == u.id \in ids[c] \/ u.nonce \in nonces[c]

(* The possible results of adding x to a set and evicting an arbitrary        *)
(* EvictCount of its elements when that takes it over the bound: the sets are *)
(* unordered, so "the first" elements of list(set) are any.                   *)
AddAndEvict(set, x) ==
    LET new == set \cup {x} IN
        IF Cardinality(new) > MaxEntries
        THEN {new \ out : out \in {o \in SUBSET new : Cardinality(o) = EvictCount}}
        ELSE {new}

Init ==
    /\ ids = [c \in Clients |-> {}]
    /\ nonces = [c \in Clients |-> {}]
    /\ pc = [c \in Clients |-> "idle"]
    /\ unit = [c \in Clients |-> NoRecord]
    /\ records = {}
    /\ torn = FALSE
    /\ lock = Free
    /\ returned = {}
    /\ known = [c \in Clients |-> {}]
    /\ faults = 0
    /\ marks = 0
    /\ restarts = 0

Goto(c, label) == pc' = [pc EXCEPT ![c] = label]

(* _mark_seen is over, by its return or by an exception. *)
EndOfMark(c) ==
    /\ known' = [known EXCEPT ![c] = @ \cup {unit[c]}]
    /\ unit' = [unit EXCEPT ![c] = NoRecord]
    /\ Goto(c, "idle")

(* Mutated: the test `nonce is not None` is missing. *)
MarkNoneInMemory(c, u) ==
    /\ pc[c] = "idle"
    /\ marks < MaxMarks
    /\ ~Seen(c, u)
    /\ marks' = marks + 1
    /\ \E s \in AddAndEvict(ids[c], u.id) : ids' = [ids EXCEPT ![c] = s]
    /\ \E s \in AddAndEvict(nonces[c], u.nonce) : nonces' = [nonces EXCEPT ![c] = s]
    /\ unit' = [unit EXCEPT ![c] = u]
    /\ Goto(c, "lock")
    /\ UNCHANGED <<records, torn, lock, returned, known, faults, restarts>>

(* What a complete line does to the file: alone it is a record, after a part  *)
(* of another line it ends a line that does not parse.                        *)
WriteLine(u) ==
    /\ records' = IF torn THEN records ELSE records \cup {u}
    /\ torn' = FALSE

(* _mark_seen, in memory: add to each set, evict when over the bound. *)
MarkInMemory(c, u) ==
    /\ pc[c] = "idle"
    /\ marks < MaxMarks
    /\ ~Seen(c, u)
    /\ marks' = marks + 1
    /\ \E s \in AddAndEvict(ids[c], u.id) : ids' = [ids EXCEPT ![c] = s]
    /\ IF u.nonce = NoNonce
       THEN UNCHANGED nonces
       ELSE \E s \in AddAndEvict(nonces[c], u.nonce) : nonces' = [nonces EXCEPT ![c] = s]
    /\ unit' = [unit EXCEPT ![c] = u]
    /\ Goto(c, "lock")
    /\ UNCHANGED <<records, torn, lock, returned, known, faults, restarts>>

(* _persist_seen: flock(LOCK_EX), then the write, into the buffer. *)
Lock(c) ==
    /\ pc[c] = "lock"
    /\ lock = Free
    /\ lock' = c
    /\ Goto(c, "buffered")
    /\ UNCHANGED <<ids, nonces, unit, records, torn, returned, known, faults, marks, restarts>>

(* No fcntl, or flock is refused (ImportError, OSError): append without it. *)
LockFails(c) ==
    /\ pc[c] = "lock"
    /\ Goto(c, "fallback")
    /\ UNCHANGED <<ids, nonces, unit, records, torn, lock, returned, known, faults, marks, restarts>>

(* flock(LOCK_UN) comes before the close that flushes the buffer. *)
Unlock(c) ==
    /\ pc[c] = "buffered"
    /\ lock' = Free
    /\ Goto(c, "flush")
    /\ UNCHANGED <<ids, nonces, unit, records, torn, returned, known, faults, marks, restarts>>

(* The line reaches the file and _mark_seen returns. *)
Flush(c) ==
    /\ pc[c] \in {"flush", "fallback"}
    /\ WriteLine(unit[c])
    /\ returned' = returned \cup {unit[c]}
    /\ EndOfMark(c)
    /\ UNCHANGED <<ids, nonces, lock, faults, marks, restarts>>

(* The write raises OSError, with nothing or a part of the line in the file;  *)
(* the first time, _persist_seen falls back to a second append.  The second   *)
(* time the exception leaves process_wu and the client goes on to other work. *)
FlushFails(c) ==
    /\ pc[c] \in {"flush", "fallback"}
    /\ faults < MaxFaults
    /\ faults' = faults + 1
    /\ torn' \in {torn, TRUE}
    /\ IF pc[c] = "flush"
       THEN Goto(c, "fallback") /\ UNCHANGED <<unit, known>>
       ELSE EndOfMark(c)
    /\ UNCHANGED <<ids, nonces, records, lock, returned, marks, restarts>>

(* The client goes, at any step (the kernel drops its lock), and a new one    *)
(* loads the file.                                                            *)
Restart(c) ==
    /\ restarts < MaxRestarts
    /\ restarts' = restarts + 1
    /\ ids' = [ids EXCEPT ![c] = LoadedIds]
    /\ nonces' = [nonces EXCEPT ![c] = LoadedNonces]
    /\ known' = [known EXCEPT ![c] = Loadable]
    /\ unit' = [unit EXCEPT ![c] = NoRecord]
    /\ lock' = IF lock = c THEN Free ELSE lock
    /\ Goto(c, "idle")
    /\ UNCHANGED <<records, torn, returned, faults, marks>>

Next ==
    \E c \in Clients :
        \/ \E u \in Units : MarkInMemory(c, u)
        \/ Lock(c)
        \/ LockFails(c)
        \/ Unlock(c)
        \/ Flush(c)
        \/ FlushFails(c)
        \/ Restart(c)

Spec == Init /\ [][Next]_vars

----------------------------------------------------------------------------
TypeOK ==
    /\ ids \in [Clients -> SUBSET Ids]
    /\ nonces \in [Clients -> SUBSET Nonces]
    /\ pc \in [Clients -> {"idle", "lock", "buffered", "flush", "fallback"}]
    /\ unit \in [Clients -> Units \cup {NoRecord}]
    /\ records \in SUBSET Units
    /\ torn \in BOOLEAN
    /\ lock \in Clients \cup {Free}
    /\ returned \in SUBSET Units
    /\ known \in [Clients -> SUBSET Units]
    /\ faults \in 0 .. MaxFaults
    /\ marks \in 0 .. MaxMarks
    /\ restarts \in 0 .. MaxRestarts

(* client.py, _load_seen: seen units are loaded "so anti-replay survives      *)
(* restarts".  A failed write costs one record at most: of the units whose    *)
(* _mark_seen has returned, a restart misses no more than writes have failed, *)
(* and those whose nonce holds a line break, whatever clients overlap, are    *)
(* killed between the unlock and the flush, or append without the lock.       *)
DamageIsBounded ==
    Cardinality({u \in returned \ Loadable : u.nonce \notin LineBreaks}) <= faults

(* What a client has loaded or marked, the unit in its hand included. *)
Known(c) == known[c] \cup ({unit[c]} \ {NoRecord})

(* It fits in the sets in memory. *)
Fits(set) ==
    /\ Cardinality({u.id : u \in set}) <= MaxEntries
    /\ Cardinality({u.nonce : u \in set}) <= MaxEntries

(* _seen and _mark_seen keep the contract of ReplayMemory.  A unit is marked  *)
(* there when _mark_seen is over here: nobody else sees the memory, and the   *)
(* file is written last.  A client remembers what fits; a record is lost      *)
(* where a write may fail, or the line is cut when it is loaded.              *)
Replay == INSTANCE ReplayMemory WITH
            Records <- Units,
            Remembered <- {set \in SUBSET Units : Fits(set)},
            Lossy <- {u \in Units : u.nonce \in LineBreaks \/ MaxFaults > 0},
            stored <- Loadable,
            copy <- known

ImplementsReplayMemory == Replay!Spec

(* Until it has to evict, a client refuses every unit that has the id or the  *)
(* nonce of one it has loaded or marked ...                                   *)
NothingForgottenBelowBound ==
    \A c \in Clients : Fits(Known(c)) =>
        \A u \in Units, rec \in Known(c) : Replay!Conflict(u, rec) => Seen(c, u)

(* ... and, whatever is evicted, it refuses no other: units without a nonce   *)
(* are no replays of each other.                                              *)
RefusesOnlyReplays ==
    \A c \in Clients, u \in Units :
        Seen(c, u) => \E rec \in Known(c) : Replay!Conflict(u, rec)

NoFuller(new, old) ==
    Cardinality(new) <= MaxEntries \/ Cardinality(new) <= Cardinality(old)

(* client.py, _mark_seen: eviction is there "to prevent unbounded memory      *)
(* growth".  A mark leaves each set within the bound, or no larger than it    *)
(* was: also the sets that a restart has loaded beyond it.                    *)
MarksDoNotOverfill ==
    [][restarts' = restarts =>
        \A c \in Clients : NoFuller(ids'[c], ids[c]) /\ NoFuller(nonces'[c], nonces[c])]_vars
=============================================================================
