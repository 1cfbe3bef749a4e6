---------------------------- MODULE ReplayMemory ----------------------------
(***************************************************************************)
(* What an anti-replay store promises the job cycle, with no eviction, no  *)
(* lock and no line of a file in sight: a client that starts knows what is *)
(* stored; it marks no unit that it knows by its id or by its nonce; and   *)
(* what it marks it knows, and is stored, in one step and for good.        *)
(*                                                                         *)
(* Two parameters say how far the promise goes: a client that knows more   *)
(* than it can remember may mark a unit again, and a lossy record may be   *)
(* known to its client and never stored.  NodeAgent implements this module *)
(* with nothing forgotten and nothing lost, SeenStore with both.           *)
(***************************************************************************)
CONSTANTS
    Clients,
    Records,     \* what is stored of a unit: [id, nonce] records
    NoNonce,     \* the nonce of a unit that carries none
    Remembered,  \* the sets of records that a client can remember
    Lossy        \* the records that may fail to be stored

VARIABLES
    stored,      \* the records a new client will know
    copy         \* of each client: the records it knows

replayVars == <<stored, copy>>

(* One is a replay of the other. *)
Conflict(u, rec) ==
    \/ u.id = rec.id
    \/ u.nonce # NoNonce /\ u.nonce = rec.nonce

Init ==
    /\ stored = {}
    /\ copy = [c \in Clients |-> {}]

Open(c) ==
    /\ copy' = [copy EXCEPT ![c] = stored]
    /\ UNCHANGED stored

Close(c) ==
    /\ copy' = [copy EXCEPT ![c] = {}]
    /\ UNCHANGED stored

Mark(c, u) ==
    /\ copy[c] \in Remembered => \A rec \in copy[c] : ~Conflict(u, rec)
    /\ copy' = [copy EXCEPT ![c] = @ \cup {u}]
    /\ \/ stored' = stored \cup {u}
       \/ u \in Lossy /\ UNCHANGED stored

Next ==
    \E c \in Clients :
        \/ Open(c)
        \/ Close(c)
        \/ \E u \in Records : Mark(c, u)

Spec == Init /\ [][Next]_replayVars
=============================================================================
