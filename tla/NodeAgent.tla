----------------------------- MODULE NodeAgent -----------------------------
(***************************************************************************)
(* The job cycle of `node-agent run` (node_agent/cli.py, cmd_run, and      *)
(* node_agent/client.py, NodeAgentClient): load the anti-replay store,     *)
(* pull one work unit from the edge, check, verify, classify and sign it,  *)
(* POST the result, mark the unit seen, report the activity, append to the *)
(* job log, exit.                                                          *)
(*                                                                         *)
(* The agent is one process per invocation, started by a scheduler such as *)
(* cron.  Two invocations may overlap: they share the files of the state   *)
(* directory and nothing else, and the anti-replay set a process consults  *)
(* is the copy it read when it started.  A process may die at any step.    *)
(*                                                                         *)
(* The edge and the core behind it are external.  The core takes at most   *)
(* one result per wu_id; an answer may be lost, and a request the client   *)
(* gave up on may still reach the core later.                              *)
(*                                                                         *)
(* Left to other modules: the key pair, registration and `leave`           *)
(* (Enrolment), the bytes and the eviction of the seen store (SeenStore).  *)
(***************************************************************************)
EXTENDS Naturals

CONSTANTS
    Runs,        \* slots in which an invocation of `node-agent run` may live
    Ids,         \* wu_id values
    Nonces,      \* nonce values
    NoNonce,     \* the unit carries no nonce
    WorkUnits,   \* the units the edge may answer GET /v1/wu with
    NoWU,        \* no unit in hand
    NoId,        \* the wu_id field of a row that has none
    WithToken,   \* those of Runs with LUSTRO_NODE_TOKEN set
    MaxCrashes   \* bound on the number of processes that die

Forms == {"malformed", "unsigned", "signed"}

ASSUME WorkUnitsAssumption ==
    /\ WorkUnits \subseteq [id : Ids, nonce : Nonces \cup {NoNonce}, form : Forms]
    /\ NoWU \notin WorkUnits
    /\ NoId \notin Ids
    /\ NoNonce \notin Nonces

ASSUME ParametersAssumption ==
    /\ WithToken \subseteq Runs
    /\ MaxCrashes \in Nat

VARIABLES
    \* the process in each slot
    pc,          \* where cmd_run stands
    wu,          \* the unit pull_and_process handed to process_wu
    seen,        \* _seen_wu_ids and _seen_nonces, as records
    conn,        \* the POST /v1/wu/{id}/result of the process, as the core left it
    \* the state directory
    seenFile,    \* the records of the seen store
    joblog,      \* the rows of the job log
    \* the core
    consumed,    \* wu_ids whose result the core has taken
    inFlight,    \* wu_ids of requests that outlived the process that sent them
    \* history
    fresh,       \* records added to the seen store since the process started
    cut,         \* wu_ids marked seen whose process died before its last row
    crashes

procVars == <<pc, wu, seen, conn, fresh>>
vars == <<procVars, seenFile, joblog, consumed, inFlight, cut, crashes>>

----------------------------------------------------------------------------
(* What _persist_seen stores of a unit, and what _seen compares. *)
SeenRecord(w) == [id |-> w.id, nonce |-> w.nonce]

Matches(w, rec) ==
    \/ rec.id = w.id
    \/ w.nonce # NoNonce /\ rec.nonce = w.nonce

(* Mutated form: the nonce is not compared. *)
SeenById(p) == \E rec \in seen[p] : rec.id = wu[p].id

Seen(p) == \E rec \in seen[p] : Matches(wu[p], rec)

SeenRecords == {SeenRecord(w) : w \in WorkUnits}

Row(event, id) == [event |-> event, id |-> id]

Rows == [event : {"no_work", "replay_rejected", "activity_synced",
                  "activity_sync_failed", "wu_processed"},
         id : Ids \cup {NoId}]

AppendRow(event, id) == joblog' = joblog \cup {Row(event, id)}

Goto(p, label) == pc' = [pc EXCEPT ![p] = label]

(* The process is gone and its memory with it. *)
Exit(p) ==
    /\ pc' = [pc EXCEPT ![p] = "off"]
    /\ wu' = [wu EXCEPT ![p] = NoWU]
    /\ seen' = [seen EXCEPT ![p] = {}]
    /\ conn' = [conn EXCEPT ![p] = "none"]
    /\ fresh' = [fresh EXCEPT ![p] = {}]

(* A request nobody waits for any more is dropped, or reaches the core later. *)
Abandon(p) ==
    \/ UNCHANGED inFlight
    \/ conn[p] = "sent" /\ inFlight' = inFlight \cup {wu[p].id}

----------------------------------------------------------------------------
(* Mutated forms: plausible slips in the code, each of which some property *)
(* below must notice.                                                      *)

(* The constructor forgets _load_seen. *)
LaunchForgetful(p) ==
    /\ pc[p] = "off"
    /\ Goto(p, "pull")
    /\ UNCHANGED <<wu, seen, conn, fresh, seenFile, joblog, consumed, inFlight, cut, crashes>>

(* The unit is marked seen before its result is delivered. *)
PostMarks(p) ==
    /\ pc[p] = "post"
    /\ Goto(p, "await")
    /\ conn' = [conn EXCEPT ![p] = "sent"]
    /\ seenFile' = seenFile \cup {SeenRecord(wu[p])}
    /\ UNCHANGED <<wu, seen, fresh, joblog, consumed, inFlight, cut, crashes>>

(* raise_for_status is not called. *)
ReceiveAnyStatus(p) ==
    /\ pc[p] = "await"
    /\ conn[p] \in {"accepted", "refused"}
    /\ Goto(p, "mark")
    /\ UNCHANGED <<wu, seen, conn, fresh, seenFile, joblog, consumed, inFlight, cut, crashes>>

(* _mark_seen keeps the record in memory and does not persist it. *)
MarkInMemory(p) ==
    /\ pc[p] = "mark"
    /\ Goto(p, "activity")
    /\ seen' = [seen EXCEPT ![p] = @ \cup {SeenRecord(wu[p])}]
    /\ UNCHANGED <<wu, conn, fresh, seenFile, joblog, consumed, inFlight, cut, crashes>>

(* A failed activity report is raised instead of logged. *)
ReportActivityRaises(p) ==
    /\ pc[p] = "activity"
    /\ p \in WithToken
    /\ \/ /\ AppendRow("activity_synced", wu[p].id)
          /\ Goto(p, "log")
          /\ UNCHANGED <<wu, seen, conn, fresh>>
       \/ /\ Exit(p)
          /\ UNCHANGED joblog
    /\ UNCHANGED <<seenFile, consumed, inFlight, cut, crashes>>

----------------------------------------------------------------------------
Init ==
    /\ pc = [p \in Runs |-> "off"]
    /\ wu = [p \in Runs |-> NoWU]
    /\ seen = [p \in Runs |-> {}]
    /\ conn = [p \in Runs |-> "none"]
    /\ seenFile = {}
    /\ joblog = {}
    /\ consumed = {}
    /\ inFlight = {}
    /\ fresh = [p \in Runs |-> {}]
    /\ cut = {}
    /\ crashes = 0

(* cmd_run builds the client, whose constructor loads the seen store. *)
Launch(p) ==
    /\ pc[p] = "off"
    /\ Goto(p, "pull")
    /\ seen' = [seen EXCEPT ![p] = seenFile]
    /\ UNCHANGED <<wu, conn, fresh, seenFile, joblog, consumed, inFlight, cut, crashes>>

(* GET /v1/wu answers 204. *)
NoWork(p) ==
    /\ pc[p] = "pull"
    /\ AppendRow("no_work", NoId)
    /\ Exit(p)
    /\ UNCHANGED <<seenFile, consumed, inFlight, cut, crashes>>

(* Transport error, oversized body, not JSON, or not an object. *)
PullFails(p) ==
    /\ pc[p] = "pull"
    /\ Exit(p)
    /\ UNCHANGED <<seenFile, joblog, consumed, inFlight, cut, crashes>>

Pull(p, w) ==
    /\ pc[p] = "pull"
    /\ Goto(p, "check")
    /\ wu' = [wu EXCEPT ![p] = w]
    /\ UNCHANGED <<seen, conn, fresh, seenFile, joblog, consumed, inFlight, cut, crashes>>

(* process_wu, the format checks: CorePinError, nothing recorded. *)
RejectMalformed(p) ==
    /\ pc[p] = "check"
    /\ wu[p].form = "malformed"
    /\ Exit(p)
    /\ UNCHANGED <<seenFile, joblog, consumed, inFlight, cut, crashes>>

(* process_wu, anti-replay: ReplayError, before the signature is looked at. *)
RejectReplay(p) ==
    /\ pc[p] = "check"
    /\ wu[p].form # "malformed"
    /\ Seen(p)
    /\ AppendRow("replay_rejected", wu[p].id)
    /\ Exit(p)
    /\ UNCHANGED <<seenFile, consumed, inFlight, cut, crashes>>

(* process_wu, bad or missing core_sig: CorePinError, nothing recorded. *)
RejectUnsigned(p) ==
    /\ pc[p] = "check"
    /\ wu[p].form = "unsigned"
    /\ ~Seen(p)
    /\ Exit(p)
    /\ UNCHANGED <<seenFile, joblog, consumed, inFlight, cut, crashes>>

(* The unit verifies; it is classified and the result signed with the local key. *)
VerifyAndSign(p) ==
    /\ pc[p] = "check"
    /\ wu[p].form = "signed"
    /\ ~Seen(p)
    /\ Goto(p, "post")
    /\ UNCHANGED <<wu, seen, conn, fresh, seenFile, joblog, consumed, inFlight, cut, crashes>>

Post(p) ==
    /\ pc[p] = "post"
    /\ Goto(p, "await")
    /\ conn' = [conn EXCEPT ![p] = "sent"]
    /\ UNCHANGED <<wu, seen, fresh, seenFile, joblog, consumed, inFlight, cut, crashes>>

(* The POST returned 2xx. *)
ReceiveAccepted(p) ==
    /\ pc[p] = "await"
    /\ conn[p] = "accepted"
    /\ Goto(p, "mark")
    /\ UNCHANGED <<wu, seen, conn, fresh, seenFile, joblog, consumed, inFlight, cut, crashes>>

(* Transport error, timeout or a status raise_for_status refuses: the exception *)
(* ends the process.  The core may have taken the result, or may yet take it.   *)
PostFails(p) ==
    /\ pc[p] = "await"
    /\ Abandon(p)
    /\ Exit(p)
    /\ UNCHANGED <<seenFile, joblog, consumed, cut, crashes>>

(* _mark_seen: the memory, then the file. *)
MarkSeen(p) ==
    /\ pc[p] = "mark"
    /\ Goto(p, "activity")
    /\ LET rec == SeenRecord(wu[p]) IN
        /\ seen' = [seen EXCEPT ![p] = @ \cup {rec}]
        /\ seenFile' = seenFile \cup {rec}
        /\ fresh' = [q \in Runs |-> IF pc[q] = "off" THEN fresh[q]
                                                     ELSE fresh[q] \cup {rec}]
    /\ UNCHANGED <<wu, conn, joblog, consumed, inFlight, cut, crashes>>

(* _report_activity: no token, nothing to do; else the POST succeeds or fails, *)
(* and either outcome is a row and nothing more.                               *)
SkipActivity(p) ==
    /\ pc[p] = "activity"
    /\ p \notin WithToken
    /\ Goto(p, "log")
    /\ UNCHANGED <<wu, seen, conn, fresh, seenFile, joblog, consumed, inFlight, cut, crashes>>

ReportActivity(p) ==
    /\ pc[p] = "activity"
    /\ p \in WithToken
    /\ \/ AppendRow("activity_synced", wu[p].id)
       \/ AppendRow("activity_sync_failed", wu[p].id)
    /\ Goto(p, "log")
    /\ UNCHANGED <<wu, seen, conn, fresh, seenFile, consumed, inFlight, cut, crashes>>

LogProcessed(p) ==
    /\ pc[p] = "log"
    /\ AppendRow("wu_processed", wu[p].id)
    /\ Exit(p)
    /\ UNCHANGED <<seenFile, consumed, inFlight, cut, crashes>>

(* The process is killed, or an exception nothing catches ends it. *)
Crash(p) ==
    /\ pc[p] # "off"
    /\ crashes < MaxCrashes
    /\ crashes' = crashes + 1
    /\ Abandon(p)
    /\ cut' = IF pc[p] \in {"activity", "log"} THEN cut \cup {wu[p].id} ELSE cut
    /\ Exit(p)
    /\ UNCHANGED <<seenFile, joblog, consumed>>

----------------------------------------------------------------------------
(* The core. *)
CoreAccepts(p) ==
    /\ conn[p] = "sent"
    /\ wu[p].id \notin consumed
    /\ consumed' = consumed \cup {wu[p].id}
    /\ conn' = [conn EXCEPT ![p] = "accepted"]
    /\ UNCHANGED <<pc, wu, seen, fresh, seenFile, joblog, inFlight, cut, crashes>>

(* The unit is consumed already, the key is not enrolled, the core is down... *)
CoreRefuses(p) ==
    /\ conn[p] = "sent"
    /\ conn' = [conn EXCEPT ![p] = "refused"]
    /\ UNCHANGED <<pc, wu, seen, fresh, seenFile, joblog, consumed, inFlight, cut, crashes>>

LateArrival(i) ==
    /\ i \in inFlight
    /\ inFlight' = inFlight \ {i}
    /\ consumed' = consumed \cup {i}
    /\ UNCHANGED <<procVars, seenFile, joblog, cut, crashes>>

----------------------------------------------------------------------------
PullStep(p) ==
    \/ NoWork(p)
    \/ PullFails(p)
    \/ \E w \in WorkUnits : Pull(p, w)

LocalStep(p) ==
    \/ RejectMalformed(p)
    \/ RejectReplay(p)
    \/ RejectUnsigned(p)
    \/ VerifyAndSign(p)
    \/ Post(p)
    \/ ReceiveAccepted(p)
    \/ PostFails(p)
    \/ MarkSeen(p)
    \/ SkipActivity(p)
    \/ ReportActivity(p)
    \/ LogProcessed(p)

CoreStep(p) ==
    \/ CoreAccepts(p)
    \/ CoreRefuses(p)

Next ==
    \/ \E p \in Runs : Launch(p) \/ PullStep(p) \/ LocalStep(p) \/ Crash(p) \/ CoreStep(p)
    \/ \E i \in Ids : LateArrival(i)

Spec == Init /\ [][Next]_vars

(* The scheduler starts a run in a free slot; a live process does not stop by *)
(* itself, and both requests carry a 30 s timeout; the edge offers every unit *)
(* again and again, and the core does not refuse for ever.                    *)
Fairness ==
    /\ \A p \in Runs :
        /\ WF_vars(Launch(p))
        /\ WF_vars(PullStep(p))
        /\ WF_vars(LocalStep(p))
        /\ SF_vars(CoreAccepts(p))
    /\ \A w \in WorkUnits : SF_vars(\E p \in Runs : Pull(p, w))

FairSpec == Spec /\ Fairness

----------------------------------------------------------------------------
MarkedIds == {rec.id : rec \in seenFile}
LoggedIds == {i \in Ids : Row("wu_processed", i) \in joblog}
Holds(p) == pc[p] \in {"mark", "activity", "log"}
SignedIds == {w.id : w \in {v \in WorkUnits : v.form = "signed"}}

TypeOK ==
    /\ pc \in [Runs -> {"off", "pull", "check", "post", "await", "mark", "activity", "log"}]
    /\ wu \in [Runs -> WorkUnits \cup {NoWU}]
    /\ seen \in [Runs -> SUBSET SeenRecords]
    /\ conn \in [Runs -> {"none", "sent", "accepted", "refused"}]
    /\ fresh \in [Runs -> SUBSET SeenRecords]
    /\ seenFile \in SUBSET SeenRecords
    /\ joblog \in SUBSET Rows
    /\ consumed \in SUBSET Ids
    /\ inFlight \in SUBSET Ids
    /\ cut \in SUBSET Ids
    /\ crashes \in 0 .. MaxCrashes

(* Nothing is refused as a replay unless the core has taken its result: a     *)
(* record, on disk or in a live process, is that of a consumed unit.  This is *)
(* what "mark seen only AFTER a successful core POST" is for.                 *)
SeenOnlyAfterAcceptance ==
    /\ \A rec \in seenFile : rec.id \in consumed
    /\ \A p \in Runs : \A rec \in seen[p] : rec.id \in consumed

(* Whatever the edge answers, only units the pinned core signed are worked on *)
(* past the check, reach the core, or are marked.                             *)
OnlyVerifiedWork ==
    /\ \A p \in Runs : pc[p] \in {"post", "await", "mark", "activity", "log"}
                            => wu[p].form = "signed"
    /\ consumed \cup inFlight \subseteq SignedIds

(* A run may submit a unit that is in the seen store only when the record was *)
(* added after the run started, that is by an invocation that overlapped it:  *)
(* the copy the constructor loads covers everything older, crashes included.  *)
OnlyOverlapRepeats ==
    \A p \in Runs : pc[p] \in {"post", "await"} =>
        \A rec \in seenFile : Matches(wu[p], rec) => rec \in fresh[p]

(* Two overlapping runs never both believe that the core took their result    *)
(* for the same unit, so each unit is marked, reported and logged once.       *)
OneHolder ==
    \A p, q \in Runs : p # q /\ Holds(p) /\ Holds(q) => wu[p].id # wu[q].id

(* A marked unit has its "wu_processed" row, or a live run is about to write  *)
(* it, or that run died: a failed activity report loses no row.               *)
MarkedIsAccountedFor ==
    \A i \in MarkedIds :
        \/ i \in LoggedIds
        \/ i \in cut
        \/ \E p \in Runs : pc[p] \in {"activity", "log"} /\ wu[p].id = i

(* What the job log says is so: a processed unit or one with an activity      *)
(* outcome was marked, a replay is of a unit that the seen store knows by its *)
(* id or its nonce, and a run with a token is not about to write its last row *)
(* without an activity outcome in the log.                                    *)
LogTellsTheTruth ==
    /\ \A row \in joblog :
        /\ row.event \in {"wu_processed", "activity_synced", "activity_sync_failed"}
              => row.id \in MarkedIds
        /\ row.event = "replay_rejected" =>
              \E w \in WorkUnits : w.id = row.id /\ \E rec \in seenFile : Matches(w, rec)
    /\ \A p \in WithToken : pc[p] = "log" =>
        \/ Row("activity_synced", wu[p].id) \in joblog
        \/ Row("activity_sync_failed", wu[p].id) \in joblog

(* The agent implements the ledger of WorkUnitLedger: consumed once, marked   *)
(* only if consumed, logged only if marked, and nothing undone.               *)
Ledger == INSTANCE WorkUnitLedger WITH
            marked <- MarkedIds,
            logged <- LoggedIds

ImplementsLedger == Ledger!Spec

(* What a run asks of its seen store is the contract of ReplayMemory, with    *)
(* nothing forgotten and nothing lost: it starts from what is stored, and     *)
(* marks no unit that it knows, although it has looked before the submission. *)
(* SeenStore keeps the same contract.                                         *)
Replay == INSTANCE ReplayMemory WITH
            Clients <- Runs,
            Records <- SeenRecords,
            Remembered <- SUBSET SeenRecords,
            Lossy <- {},
            stored <- seenFile,
            copy <- seen

ImplementsReplayMemory == Replay!Spec

(* A failed delivery leaves the unit eligible for a retry: as long as the     *)
(* edge offers a signed unit again, its result reaches the core in the end,   *)
(* unless every nonce it is signed with has been marked with another unit.    *)
EventuallyConsumed ==
    \A i \in SignedIds :
        <>(\/ i \in consumed
           \/ \A w \in WorkUnits : w.id = i /\ w.form = "signed" =>
                  \E rec \in seenFile : rec.id # i /\ Matches(w, rec))

(* README.md: "a repeated wu_id (or nonce, if present) is refused".  No run   *)
(* submits a unit that is in the seen store: so it is when runs do not        *)
(* overlap (SequentialRunsNeverRepeat), and OnlyOverlapRepeats when they do.  *)
NoRepeatedSubmission ==
    \A p \in Runs : pc[p] = "post" =>
        \A rec \in seenFile : ~Matches(wu[p], rec)
=============================================================================
