----------------------------- MODULE Enrolment -----------------------------
(***************************************************************************)
(* The local state of the agent over its life: the key pair (keys.py,      *)
(* ensure_keypair and AgentKeys), the registration of its public key with  *)
(* the edge (client.py, register_agent), the `registered` marker           *)
(* (cli.py, cmd_run) and `node-agent leave` (cli.py, cmd_leave).           *)
(*                                                                         *)
(* Invocations of `node-agent run` may overlap each other and `leave`, and *)
(* may die at any step.  Every access to the state directory is a step of  *)
(* its own: nothing locks it.                                              *)
(*                                                                         *)
(* External: the core, which enrols keys, against a single-use invite when *)
(* one is configured; and the file system, on which the state directory    *)
(* may be a mount point that cannot be removed.                            *)
(***************************************************************************)
EXTENDS Naturals, FiniteSets

CONSTANTS
    Runs,         \* slots in which an invocation of `node-agent run` may live
    Keys,         \* key pairs Ed25519PrivateKey.generate may return
    NoKey,        \* no key
    HasInvite,    \* LUSTRO_NODE_INVITE_TOKEN is set
    BindMount,    \* the state directory is a mount point
    MaxAttempts,  \* MAX_REGISTRATION_ATTEMPTS
    MaxCrashes,   \* bound on the number of runs that die
    MaxLeaves     \* bound on the number of `node-agent leave`

ASSUME EnrolmentAssumption ==
    /\ NoKey \notin Keys
    /\ HasInvite \in BOOLEAN
    /\ BindMount \in BOOLEAN
    /\ MaxAttempts \in Nat \ {0}
    /\ MaxCrashes \in Nat
    /\ MaxLeaves \in Nat

VARIABLES
    \* the state directory
    dir,         \* it exists
    keyFile,     \* agent_ed25519.key: the key it is for, and whether it is written
    marker,      \* registered: the public key in it
    others,      \* the job log and the seen store, when they exist
    \* the runs
    pc,          \* where cmd_run stands
    key,         \* the key in memory
    attempt,     \* the attempt of register_agent
    conn,        \* the POST /v1/wu/register-agent, as the core left it
    \* leave
    lpc,         \* where cmd_leave stands
    todo,        \* the directory entries rmtree has still to unlink
    \* the core
    enrolled,    \* the keys it knows
    inviteUsed,
    \* history
    alone,       \* no run has been alive since the last `leave` began
    crashes,
    leaves

runVars == <<pc, key, attempt, conn>>
fsVars == <<dir, keyFile, marker, others>>
leaveVars == <<lpc, todo, alone, leaves>>
coreVars == <<enrolled, inviteUsed>>
vars == <<runVars, fsVars, leaveVars, coreVars, crashes>>

----------------------------------------------------------------------------
NoFile == [for |-> NoKey, written |-> FALSE]
KeyOf(k, written) == [for |-> k, written |-> written]

KeyPresent == keyFile # NoFile
MarkerPresent == marker # NoKey

(* The keys that somebody still has: Generate returns another one. *)
KnownKeys == enrolled \cup {marker, keyFile.for} \cup {key[q] : q \in Runs}

(* The names in the state directory. *)
Entries ==
    others \cup (IF KeyPresent THEN {"key"} ELSE {})
           \cup (IF MarkerPresent THEN {"registered"} ELSE {})

Goto(p, label) == pc' = [pc EXCEPT ![p] = label]

(* The process is gone: it returned, raised or was killed. *)
Exit(p) ==
    /\ pc' = [pc EXCEPT ![p] = "off"]
    /\ key' = [key EXCEPT ![p] = NoKey]
    /\ attempt' = [attempt EXCEPT ![p] = 0]
    /\ conn' = [conn EXCEPT ![p] = "none"]

----------------------------------------------------------------------------
(* Mutated forms: plausible slips in the code, each of which some property *)
(* below must notice.                                                      *)

(* O_TRUNC in place of O_EXCL: the last run to open the file wins. *)
CreateKeyTruncates(p) ==
    /\ pc[p] = "create"
    /\ dir
    /\ keyFile' = KeyOf(key[p], FALSE)
    /\ Goto(p, "write")
    /\ UNCHANGED <<key, attempt, conn, dir, marker, others, leaveVars, coreVars, crashes>>

(* The loop makes one attempt too many. *)
AttemptFailsOnceMore(p) ==
    /\ pc[p] = "await"
    /\ \/ /\ attempt[p] <= MaxAttempts
          /\ attempt' = [attempt EXCEPT ![p] = @ + 1]
          /\ conn' = [conn EXCEPT ![p] = "none"]
          /\ Goto(p, "register")
          /\ UNCHANGED key
       \/ /\ attempt[p] > MaxAttempts
          /\ Exit(p)
    /\ UNCHANGED <<fsVars, leaveVars, coreVars, crashes>>

(* register_agent does not call raise_for_status. *)
LogRegisteredAnyway(p) ==
    /\ pc[p] = "await"
    /\ conn[p] \in {"accepted", "refused"}
    /\ dir
    /\ others' = others \cup {"joblog"}
    /\ Goto(p, "mark")
    /\ UNCHANGED <<key, attempt, conn, dir, keyFile, marker, leaveVars, coreVars, crashes>>

(* The key is lost between os.open and os.close; the file stays empty. *)
WriteNoKey(p) ==
    /\ pc[p] = "write"
    /\ Goto(p, "load")
    /\ UNCHANGED <<key, attempt, conn, fsVars, leaveVars, coreVars, crashes>>

(* `leave` deletes the keys and the job log, as its help says, and no more. *)
UnlinkListed(name) ==
    /\ lpc = "unlink"
    /\ name \in todo
    /\ todo' = todo \ {name}
    /\ keyFile' = IF name = "key" THEN NoFile ELSE keyFile
    /\ others' = others \ ({name} \cap {"joblog"})
    /\ UNCHANGED <<marker, dir, lpc, alone, leaves, runVars, coreVars, crashes>>

----------------------------------------------------------------------------
Init ==
    /\ dir = BindMount
    /\ keyFile = NoFile
    /\ marker = NoKey
    /\ others = {}
    /\ pc = [p \in Runs |-> "off"]
    /\ key = [p \in Runs |-> NoKey]
    /\ attempt = [p \in Runs |-> 0]
    /\ conn = [p \in Runs |-> "none"]
    /\ lpc = "idle"
    /\ todo = {}
    /\ enrolled = {}
    /\ inviteUsed = FALSE
    /\ alone = FALSE
    /\ crashes = 0
    /\ leaves = 0

----------------------------------------------------------------------------
(* ensure_keypair *)

Launch(p) ==
    /\ pc[p] = "off"
    /\ Goto(p, "start")
    /\ alone' = FALSE
    /\ UNCHANGED <<key, attempt, conn, fsVars, lpc, todo, leaves, coreVars, crashes>>

KeyExists(p) ==
    /\ pc[p] = "start"
    /\ KeyPresent
    /\ Goto(p, "load")
    /\ UNCHANGED <<key, attempt, conn, fsVars, leaveVars, coreVars, crashes>>

(* No key file: make the directory and generate a key pair. *)
Generate(p, k) ==
    /\ pc[p] = "start"
    /\ ~KeyPresent
    /\ k \notin KnownKeys
    /\ dir' = TRUE
    /\ key' = [key EXCEPT ![p] = k]
    /\ Goto(p, "create")
    /\ UNCHANGED <<attempt, conn, keyFile, marker, others, leaveVars, coreVars, crashes>>

(* os.open with O_CREAT|O_EXCL: an empty file. *)
CreateKey(p) ==
    /\ pc[p] = "create"
    /\ dir
    /\ ~KeyPresent
    /\ keyFile' = KeyOf(key[p], FALSE)
    /\ Goto(p, "write")
    /\ UNCHANGED <<key, attempt, conn, dir, marker, others, leaveVars, coreVars, crashes>>

(* FileExistsError, or the directory is gone: the exception ends the run. *)
CreateKeyFails(p) ==
    /\ pc[p] = "create"
    /\ ~dir \/ KeyPresent
    /\ Exit(p)
    /\ UNCHANGED <<fsVars, leaveVars, coreVars, crashes>>

(* os.write to the descriptor, which `leave` may have unlinked meanwhile. *)
WriteKey(p) ==
    /\ pc[p] = "write"
    /\ keyFile' = IF keyFile = KeyOf(key[p], FALSE) THEN KeyOf(key[p], TRUE) ELSE keyFile
    /\ Goto(p, "load")
    /\ UNCHANGED <<key, attempt, conn, dir, marker, others, leaveVars, coreVars, crashes>>

LoadKey(p) ==
    /\ pc[p] = "load"
    /\ keyFile.written
    /\ key' = [key EXCEPT ![p] = keyFile.for]
    /\ Goto(p, "open")
    /\ UNCHANGED <<attempt, conn, fsVars, leaveVars, coreVars, crashes>>

(* The file is gone, or empty: load_pem_private_key raises. *)
LoadKeyFails(p) ==
    /\ pc[p] = "load"
    /\ ~keyFile.written
    /\ Exit(p)
    /\ UNCHANGED <<fsVars, leaveVars, coreVars, crashes>>

----------------------------------------------------------------------------
(* cmd_run, up to the job *)

(* JobLog makes the directory. *)
OpenLog(p) ==
    /\ pc[p] = "open"
    /\ dir' = TRUE
    /\ Goto(p, "marker")
    /\ UNCHANGED <<key, attempt, conn, keyFile, marker, others, leaveVars, coreVars, crashes>>

AlreadyRegistered(p) ==
    /\ pc[p] = "marker"
    /\ MarkerPresent
    /\ Goto(p, "pull")
    /\ UNCHANGED <<key, attempt, conn, fsVars, leaveVars, coreVars, crashes>>

NotRegistered(p) ==
    /\ pc[p] = "marker"
    /\ ~MarkerPresent
    /\ dir' = TRUE
    /\ attempt' = [attempt EXCEPT ![p] = 1]
    /\ Goto(p, "register")
    /\ UNCHANGED <<key, conn, keyFile, marker, others, leaveVars, coreVars, crashes>>

(* POST the public key with the invite, or with the nonce just fetched. *)
PostKey(p) ==
    /\ pc[p] = "register"
    /\ Goto(p, "await")
    /\ conn' = [conn EXCEPT ![p] = "sent"]
    /\ UNCHANGED <<key, attempt, fsVars, leaveVars, coreVars, crashes>>

(* One attempt failed: no nonce, a refusal, or no answer, though the core may *)
(* have enrolled the key.  The next attempt comes after the back-off; the     *)
(* last failure makes cmd_run return 2.                                       *)
AttemptFails(p) ==
    /\ \/ pc[p] = "register" /\ ~HasInvite
       \/ pc[p] = "await"
    /\ \/ /\ attempt[p] < MaxAttempts
          /\ attempt' = [attempt EXCEPT ![p] = @ + 1]
          /\ conn' = [conn EXCEPT ![p] = "none"]
          /\ Goto(p, "register")
          /\ UNCHANGED key
       \/ /\ attempt[p] = MaxAttempts
          /\ Exit(p)
    /\ UNCHANGED <<fsVars, leaveVars, coreVars, crashes>>

(* The row "agent_registered"; no directory, no log: cmd_run returns 2. *)
LogRegistered(p) ==
    /\ pc[p] = "await"
    /\ conn[p] = "accepted"
    /\ IF dir
       THEN /\ others' = others \cup {"joblog"}
            /\ Goto(p, "mark")
            /\ UNCHANGED <<key, attempt, conn>>
       ELSE /\ Exit(p)
            /\ UNCHANGED others
    /\ UNCHANGED <<dir, keyFile, marker, leaveVars, coreVars, crashes>>

WriteMarker(p) ==
    /\ pc[p] = "mark"
    /\ IF dir
       THEN /\ marker' = key[p]
            /\ Goto(p, "pull")
            /\ UNCHANGED <<key, attempt, conn>>
       ELSE /\ Exit(p)
            /\ UNCHANGED marker
    /\ UNCHANGED <<dir, keyFile, others, leaveVars, coreVars, crashes>>

----------------------------------------------------------------------------
(* The job, as far as the state directory goes (NodeAgent has the rest). *)

(* Nothing came of it, or the failure left no row. *)
JobEnds(p) ==
    /\ pc[p] = "pull"
    /\ Exit(p)
    /\ UNCHANGED <<fsVars, leaveVars, coreVars, crashes>>

(* A result signed by an enrolled key is taken; _persist_seen makes the      *)
(* directory again.                                                          *)
JobDone(p) ==
    /\ pc[p] = "pull"
    /\ key[p] \in enrolled
    /\ dir' = TRUE
    /\ others' = others \cup {"seen"}
    /\ Goto(p, "log")
    /\ UNCHANGED <<key, attempt, conn, keyFile, marker, leaveVars, coreVars, crashes>>

(* The last row of the run, no_work or wu_processed. *)
LogJob(p) ==
    /\ pc[p] \in {"pull", "log"}
    /\ others' = IF dir THEN others \cup {"joblog"} ELSE others
    /\ Exit(p)
    /\ UNCHANGED <<dir, keyFile, marker, leaveVars, coreVars, crashes>>

(* Killed, or ended by an exception (a full disk, no model artifact...). *)
Crash(p) ==
    /\ pc[p] # "off"
    /\ crashes < MaxCrashes
    /\ crashes' = crashes + 1
    /\ Exit(p)
    /\ UNCHANGED <<fsVars, leaveVars, coreVars>>

----------------------------------------------------------------------------
(* cmd_leave *)

LeaveBegin ==
    /\ lpc = "idle"
    /\ dir
    /\ leaves < MaxLeaves
    /\ leaves' = leaves + 1
    /\ todo' = Entries
    /\ lpc' = "unlink"
    /\ alone' = (\A p \in Runs : pc[p] = "off")
    /\ UNCHANGED <<runVars, fsVars, coreVars, crashes>>

Unlink(name) ==
    /\ lpc = "unlink"
    /\ name \in todo
    /\ todo' = todo \ {name}
    /\ keyFile' = IF name = "key" THEN NoFile ELSE keyFile
    /\ marker' = IF name = "registered" THEN NoKey ELSE marker
    /\ others' = others \ {name}
    /\ UNCHANGED <<dir, lpc, alone, leaves, runVars, coreVars, crashes>>

(* rmdir: gone; or EBUSY, which cmd_leave reports as success. *)
LeaveDone ==
    /\ lpc = "unlink"
    /\ todo = {}
    /\ BindMount \/ Entries = {}
    /\ dir' = BindMount
    /\ lpc' = "idle"
    /\ UNCHANGED <<keyFile, marker, others, todo, alone, leaves, runVars, coreVars, crashes>>

(* ENOTEMPTY: somebody has made a file since the directory was listed. *)
LeaveFails ==
    /\ lpc = "unlink"
    /\ todo = {}
    /\ ~BindMount
    /\ Entries # {}
    /\ lpc' = "idle"
    /\ UNCHANGED <<fsVars, todo, alone, leaves, runVars, coreVars, crashes>>

----------------------------------------------------------------------------
(* The core takes an invite once; whether it answers 2xx again for a key it *)
(* has enrolled already is left open.                                       *)

CoreEnrols(p) ==
    /\ conn[p] = "sent"
    /\ HasInvite => ~inviteUsed \/ key[p] \in enrolled
    /\ enrolled' = enrolled \cup {key[p]}
    /\ inviteUsed' = HasInvite
    /\ conn' = [conn EXCEPT ![p] = "accepted"]
    /\ UNCHANGED <<pc, key, attempt, fsVars, leaveVars, crashes>>

CoreRefuses(p) ==
    /\ conn[p] = "sent"
    /\ conn' = [conn EXCEPT ![p] = "refused"]
    /\ UNCHANGED <<pc, key, attempt, fsVars, leaveVars, coreVars, crashes>>

----------------------------------------------------------------------------
KeyStep(p) ==
    \/ KeyExists(p)
    \/ \E k \in Keys : Generate(p, k)
    \/ CreateKey(p)
    \/ CreateKeyFails(p)
    \/ WriteKey(p)
    \/ LoadKey(p)
    \/ LoadKeyFails(p)

RunStep(p) ==
    \/ OpenLog(p)
    \/ AlreadyRegistered(p)
    \/ NotRegistered(p)
    \/ PostKey(p)
    \/ AttemptFails(p)
    \/ LogRegistered(p)
    \/ WriteMarker(p)
    \/ JobEnds(p)
    \/ JobDone(p)
    \/ LogJob(p)

LeaveStep ==
    \/ \E name \in todo : Unlink(name)
    \/ LeaveDone
    \/ LeaveFails

CoreStep(p) ==
    \/ CoreEnrols(p)
    \/ CoreRefuses(p)

Next ==
    \/ \E p \in Runs : Launch(p) \/ KeyStep(p) \/ RunStep(p) \/ Crash(p) \/ CoreStep(p)
    \/ LeaveBegin
    \/ LeaveStep

Spec == Init /\ [][Next]_vars

(* The scheduler starts runs again and again, requests time out, and the      *)
(* core neither refuses for ever nor has every one of its answers lost.       *)
Fairness ==
    \A p \in Runs :
        /\ WF_vars(Launch(p))
        /\ WF_vars(KeyStep(p))
        /\ WF_vars(RunStep(p))
        /\ SF_vars(PostKey(p))
        /\ SF_vars(CoreEnrols(p))
        /\ SF_vars(LogRegistered(p))

FairSpec == Spec /\ Fairness

----------------------------------------------------------------------------
Loaded(p) == pc[p] \in {"open", "marker", "register", "await", "mark", "pull", "log"}

TypeOK ==
    /\ dir \in BOOLEAN
    /\ keyFile \in [for : Keys \cup {NoKey}, written : BOOLEAN]
    /\ marker \in Keys \cup {NoKey}
    /\ others \in SUBSET {"joblog", "seen"}
    /\ pc \in [Runs -> {"off", "start", "create", "write", "load", "open", "marker",
                        "register", "await", "mark", "pull", "log"}]
    /\ key \in [Runs -> Keys \cup {NoKey}]
    /\ attempt \in [Runs -> 0 .. MaxAttempts]
    /\ conn \in [Runs -> {"none", "sent", "accepted", "refused"}]
    /\ lpc \in {"idle", "unlink"}
    /\ todo \in SUBSET {"key", "registered", "joblog", "seen"}
    /\ enrolled \in SUBSET Keys
    /\ inviteUsed \in BOOLEAN
    /\ alone \in BOOLEAN
    /\ crashes \in 0 .. MaxCrashes
    /\ leaves \in 0 .. MaxLeaves

(* The marker never speaks for a key the core has not enrolled, whatever      *)
(* overlaps, dies or is deleted: cmd_run writes it after register_agent.      *)
MarkerIsEnrolled == MarkerPresent => marker \in enrolled

(* Before any `leave`, all the runs past ensure_keypair have one identity, that *)
(* of the key file, and the marker is about it: two first runs that race to     *)
(* generate a key do not end up with one each.                                  *)
OneIdentity ==
    leaves = 0 =>
        /\ \A p \in Runs : Loaded(p) => keyFile = KeyOf(key[p], TRUE)
        /\ MarkerPresent => keyFile = KeyOf(marker, TRUE)

(* Before any `leave`, a run that goes on to pull work has an enrolled key.     *)
EnrolledBeforeWork ==
    leaves = 0 => \A p \in Runs : pc[p] \in {"pull", "log"} => key[p] \in enrolled

(* A written key is never replaced nor emptied, except by `leave` deleting it *)
(* (O_EXCL in ensure_keypair).                                                *)
KeyIsKept ==
    [][keyFile.written /\ keyFile' # keyFile => keyFile' = NoFile /\ lpc = "unlink"]_vars

(* `leave` with no run alive deletes everything, the directory included       *)
(* unless it is a mount point, in whatever order it unlinks and whatever      *)
(* deaths have left behind, and nothing comes back by itself.                 *)
LeaveAloneIsComplete ==
    alone /\ lpc = "idle" => Entries = {} /\ dir = BindMount

(* A node that is started again and again, and none of whose runs dies, is    *)
(* registered in the end (cmd_run, register_agent): lost answers, refusals,   *)
(* a race for the key and a `leave` notwithstanding.                          *)
EventuallyRegistered == [](crashes = 0) => <>MarkerPresent

(* ensure_keypair: "Load the local keypair, generating + persisting it if     *)
(* absent".  A node that is started again and again is registered in the end, *)
(* also if a run has died.  The code says otherwise: an empty key file stays. *)
RegisteredInSpiteOfDeath == <>MarkerPresent
=============================================================================
