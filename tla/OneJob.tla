------------------------------- MODULE OneJob -------------------------------
(***************************************************************************)
(* What one job makes of what it is given, from the model on disk and the  *)
(* bytes the edge answers to the signed result: ModelClassifier.__init__   *)
(* and classify (node_agent/classifier.py), pull_and_process over httpx    *)
(* and over fetch (client.py, transport.py), the checks of process_wu in   *)
(* their order, the trust of CorePin and the signatures of Ed25519.        *)
(* NodeAgent has the same job among others, with the answer of the edge    *)
(* reduced to a class; here there is one job and the classes are the point.*)
(*                                                                         *)
(* External: whoever promotes a new model artifact while one is read, the  *)
(* page that makes another node, the network, the scores of the model and  *)
(* the hashes of SHA-512.                                                  *)
(***************************************************************************)
EXTENDS CorePin, Ed25519

CONSTANTS
    Jobs,           \* what a job may be given, see JobSet
    PageKeys,       \* the keys a page may hand to new_node
    Probabilities,  \* the model's, in units of 1/10000; `predict` may give any number
    Thresholds,     \* thresholds_by_language of each version, same unit
    Joblib,         \* of each version, its disinfo_classifier.joblib
    MaxPromotions,  \* bound on the promotions while an artifact is read
    MaxBytes,       \* MAX_WU_RESPONSE_BYTES
    ChunkSize,      \* MAX_CHUNK_SIZE
    Seeds,          \* what the hash of a seed begins with
    Hashes          \* the other hashes, as numbers

Versions == DOMAIN Thresholds

(* The files of an artifact in the order __init__ reads them; the classifier *)
(* is read twice, to hash it and to load it.                                 *)
LoadOrder == <<"card", "embedder", "features", "calibration", "hash", "weights">>
Optional == {"features", "calibration"}
NoFlaw == <<"no", "flaw">>

UnitSet == [
    wu_id : {"absent", "empty", "number", "long", "odd", "seen", "fresh"},
    field : {"absent", "long", "ok"},            \* kind, payload, core_pubkey_id
    key_id : {"pinned", "other"},
    nonce : {"absent", "seen", "fresh", "list"},
    core_sig : Keys \cup {"absent", "not base64", "number"},
    text : {"text", "blank", "surrogate"},
    lang : STRING]

(* "bad text" is a unit with bytes in a string that are no UTF-8; fetch puts   *)
(* U+FFFD in their place, and the fields of the unit are those of what it      *)
(* makes of it.  "not utf-8" has such bytes where they leave no JSON object.   *)
JobSet == [
    node : {"cli", "browser"},
    native : BOOLEAN,                            \* `cryptography` can be imported
    pins : Pins,
    base : [scheme : STRING, host : STRING, port : Int],
    flaw : {NoFlaw} \cup ({"missing", "invalid", "odd"} \X {"card", "embedder",
                            "features", "calibration", "weights", "runtime"}),
    status : Nat, size : Nat,
    body : {"unit", "bad text", "not utf-8", "not json", "not an object"},
    unit : UnitSet]

ASSUME OneJobAssumption ==
    /\ MaxBytes \in Nat /\ ChunkSize \in Nat \ {0}
    /\ \A j \in Jobs : j \in JobSet /\ (j.node = "browser" => j.flaw = NoFlaw)

ASSUME SeedsAssumption == Seeds \subseteq Nat /\ Hashes \subseteq Nat

ASSUME PageAssumption == PageKeys \subseteq Keys \cup {Unset, "", "garbage"}

ASSUME ModelAssumption ==
    /\ 1 \in Versions /\ Probabilities \subseteq Int
    /\ Versions \subseteq Nat \ {0} /\ DOMAIN Joblib = Versions /\ MaxPromotions \in Nat
    /\ \A v \in Versions : /\ "default" \in DOMAIN Thresholds[v]
                          /\ \A key \in DOMAIN Thresholds[v] : Thresholds[v][key] \in Int

VARIABLES
    job,        \* what it is given
    pc, outcome,
    pins,       \* where the process finds the pinned key
    current,    \* the versions `current` has pointed to, the last of them now
    loaded,     \* the version each file was read at, 0 for not yet
    got,        \* bytes of the body
    result,     \* label, score and the threshold compared with
    sig         \* key, hashes and signature of the result

vars == <<job, pc, outcome, pins, current, loaded, got, result, sig>>

version == current[Len(current)]

NoResult == [label |-> "none", score |-> 0, threshold |-> 0]
NoSig == <<>>

End(how) ==
    /\ pc' = "done" /\ outcome' = how
    /\ UNCHANGED <<job, pins, current, loaded, got, result, sig>>

Goto(label) == pc' = label /\ UNCHANGED <<job, outcome, pins, current>>

FirstOf(ladder, otherwise) ==
    LET met == {i \in DOMAIN ladder : ladder[i][1]}
    IN  IF met = {} THEN otherwise
        ELSE ladder[CHOOSE i \in met : \A j \in met : i <= j][2]

----------------------------------------------------------------------------
Init ==
    /\ job \in Jobs
    /\ pc = IF job.node = "cli" THEN LoadOrder[1] ELSE "client"
    /\ outcome = "none"
    /\ pins = job.pins
    /\ current = <<1>>
    /\ loaded = [i \in DOMAIN LoadOrder |-> 0]
    /\ got = 0
    /\ result = NoResult
    /\ sig = NoSig

Finished == pc = "done" /\ UNCHANGED vars

(* `current` is moved to another artifact, or back to an earlier one. *)
Promote ==
    /\ \E i \in DOMAIN LoadOrder : pc = LoadOrder[i]
    /\ Len(current) <= MaxPromotions
    /\ \E v \in Versions \ {version} : current' = Append(current, v)
    /\ UNCHANGED <<job, pc, outcome, pins, loaded, got, result, sig>>

(* The page makes another node while this one waits for the edge. *)
NewNode(key) ==
    /\ job.node = "browser" /\ pc \in {"client", "pull", "read"}
    /\ pins' = PinCoreKey(pins, key)
    /\ UNCHANGED <<job, pc, outcome, current, loaded, got, result, sig>>

(* Mutated form: the checksum is not compared. *)
ChecksumIgnored == FALSE

(* The card has the hash of one file of its artifact, the classifier; two     *)
(* versions may have it in common.                                            *)
ChecksumDiffers == Joblib[loaded[1]] # Joblib[version]

(* What is wrong with a file as __init__ reads it. *)
Fault(i) ==
    LET name == IF LoadOrder[i] = "hash" THEN "weights" ELSE LoadOrder[i]
        flawed(how) == job.flaw = <<how, name>>
    IN  FirstOf(<<
            <<flawed("missing") /\ name \in Optional, "none">>,
            <<flawed("missing"), IF name = "weights" THEN "crash" ELSE "RuntimeError">>,
            <<flawed("invalid") /\ i # 6, "RuntimeError">>,
            <<flawed("odd") /\ i # 5, "crash">>,
            <<LoadOrder[i] = "hash" /\ ChecksumDiffers, "RuntimeError">>,
            <<LoadOrder[i] = "weights" /\ job.flaw[2] = "runtime",
              "RuntimeError">> >>, "none")

ReadFile(i) ==
    /\ pc = LoadOrder[i]
    /\ IF Fault(i) # "none" THEN End(Fault(i))
       ELSE /\ Goto(IF i = Len(LoadOrder) THEN "client" ELSE LoadOrder[i + 1])
            /\ loaded' = [loaded EXCEPT ![i] = version]
            /\ UNCHANGED <<got, result, sig>>

(* NodeAgentClient.__init__ builds the egress guard. *)
BuildClient ==
    /\ pc = "client"
    /\ IF ValidBase(job.base)
       THEN Goto("pull") /\ UNCHANGED <<loaded, got, result, sig>>
       ELSE End("crash")

----------------------------------------------------------------------------
(* pull_and_process; both of its URLs are the base URL with a path. *)
Pull ==
    /\ pc = "pull"
    /\ IF Admits(job.base, job.base)
       THEN Goto("read") /\ UNCHANGED <<loaded, got, result, sig>>
       ELSE End("blocked")

(* Mutated form: the bound itself is too large. *)
TooLargeAtBound(n) == n >= MaxBytes

TooLarge(n) == n > MaxBytes

NetworkFails == pc \in {"read", "post"} /\ End("network")

(* The size of a fetched body is looked at before its status. *)
NoWork ==
    /\ pc = "read" /\ job.status = 204
    /\ End(IF job.node = "browser" /\ TooLarge(job.size) THEN "network" ELSE "no_work")

(* httpx: one chunk after the other, refused before it is appended. *)
ReadChunk ==
    /\ pc = "read" /\ job.status # 204 /\ job.node = "cli" /\ got < job.size
    /\ LET chunk == IF job.size - got < ChunkSize THEN job.size - got ELSE ChunkSize IN
        IF TooLarge(got + chunk) THEN End("CorePinError")
        ELSE Goto("read") /\ got' = got + chunk /\ UNCHANGED <<loaded, result, sig>>

(* fetch: the whole body, which is one chunk. *)
ReadText ==
    /\ pc = "read" /\ job.status # 204 /\ job.node = "browser" /\ got < job.size
    /\ IF TooLarge(job.size) THEN End("network")
       ELSE Goto("read") /\ got' = job.size /\ UNCHANGED <<loaded, result, sig>>

(* What is not UTF-8 does not decode; fetch has replaced it.  No status but   *)
(* 204 is looked at.                                                          *)
Parse ==
    /\ pc = "read" /\ job.status # 204 /\ got = job.size
    /\ CASE job.node = "cli" /\ job.body \in {"bad text", "not utf-8"} -> End("crash")
         [] job.body \in {"not utf-8", "not json", "not an object"} -> End("CorePinError")
         [] OTHER -> Goto("check") /\ UNCHANGED <<loaded, got, result, sig>>

----------------------------------------------------------------------------
(* process_wu, up to the signature, in the order of the code. *)
Rejection(u) == FirstOf(<<
    <<u.wu_id \in {"absent", "empty", "number", "long", "odd"}, "CorePinError">>,
    <<u.field \in {"absent", "long"}, "CorePinError">>,
    <<u.wu_id = "seen", "ReplayError">>,
    <<u.nonce = "list", "crash">>,
    <<u.nonce = "seen", "ReplayError">>,
    <<u.core_sig \in {"absent", "not base64"}, "CorePinError">>,
    <<u.core_sig = "number", "crash">>,
    <<u.text = "surrogate", "crash">>,
    <<u.key_id = "pinned" /\ ~job.native, "crash">>,
    <<~Verifies(pins, u.key_id, u.core_sig), "CorePinError">> >>, "none")

Check ==
    /\ pc = "check"
    /\ IF Rejection(job.unit) # "none" THEN End(Rejection(job.unit))
       ELSE Goto("classify") /\ UNCHANGED <<loaded, got, result, sig>>

(* classify: the threshold of the language, else the default; the label       *)
(* compares the probability itself, the score is bounded and rounded.         *)
ThresholdOf(v, lang) ==
    IF job.flaw = <<"missing", "calibration">> THEN 6000
    ELSE IF lang \in DOMAIN Thresholds[v] THEN Thresholds[v][lang] ELSE Thresholds[v]["default"]

Bounded(p) == IF p < 0 THEN 0 ELSE IF p > 10000 THEN 10000 ELSE p
Thousandths(p) == (Bounded(p) + 5) \div 10

Classification(p, threshold) ==
    [label |-> IF p >= threshold THEN "misinformation" ELSE "factual",
     score |-> Thousandths(p), threshold |-> threshold]

Classify ==
    /\ pc = "classify"
    /\ Goto("sign")
    /\ result' \in
          IF job.node = "browser" THEN {[NoResult EXCEPT !.label = "factual"]}
          ELSE IF job.unit.text = "blank"
               THEN {[NoResult EXCEPT !.label = "unverified", !.score = 500]}
          ELSE {Classification(p, ThresholdOf(loaded[4], job.unit.lang)) : p \in Probabilities}
    /\ UNCHANGED <<loaded, got, sig>>

(* model inference failed. *)
ClassifyFails == pc = "classify" /\ job.node = "cli" /\ End("RuntimeError")

(* The result is signed with the local key, by `cryptography` or, in the      *)
(* browser, by Ed25519; the hashes, which the code reduces modulo L, come out *)
(* as they do.                                                                *)
SignResult ==
    /\ pc = "sign"
    /\ Goto("post")
    /\ IF job.node = "cli" THEN sig' = sig
       ELSE \E a \in {Clamp(h) : h \in Seeds}, r, k \in Hashes :
                sig' = [pub |-> PublicKey(a), k |-> k, sig |-> SignWith(a, r, k)]
    /\ UNCHANGED <<loaded, got, result>>

Post ==
    /\ pc = "post"
    /\ End(IF Admits(job.base, job.base) THEN "processed" ELSE "blocked")

(* Mutated form: 0.6 is not enough. *)
ShownAbove == result.label # "benign" /\ result.score > 600

(* _print_result *)
ShownAsDisinformation == result.label # "benign" /\ result.score >= 600

----------------------------------------------------------------------------
Step ==
    \/ \E i \in DOMAIN LoadOrder : ReadFile(i)
    \/ BuildClient
    \/ Pull \/ NetworkFails \/ NoWork \/ ReadChunk \/ ReadText \/ Parse
    \/ Check \/ Classify \/ ClassifyFails \/ SignResult \/ Post

Next == Step \/ Promote \/ (\E key \in PageKeys : NewNode(key)) \/ Finished

Spec == Init /\ [][Next]_vars

----------------------------------------------------------------------------
PastTheChecks == pc \in {"classify", "sign", "post"} \/ outcome = "processed"

(* What the job was given deserves an answer to the core, whatever libraries  *)
(* the node has.                                                              *)
Acceptable ==
    /\ ValidBase(job.base)
    /\ job.flaw = NoFlaw \/ (job.flaw[1] = "missing" /\ job.flaw[2] \in Optional)
    /\ job.status # 204 /\ job.size <= MaxBytes
    /\ job.body = "unit" \/ (job.body = "bad text" /\ job.node = "browser")
    /\ job.unit.wu_id = "fresh" /\ job.unit.field = "ok" /\ job.unit.text # "surrogate"
    /\ job.unit.nonce \in {"absent", "fresh"}
    /\ job.unit.key_id = "pinned" /\ job.unit.core_sig = EffectivePinnedKey(pins)

(* A job is processed only if everything it was given is in order, and turned *)
(* down only if something is not, whichever transport brings the body, however *)
(* it is cut into chunks and in whatever order the checks are made; the egress *)
(* guard never stands between a node and its own edge.  An exception that is  *)
(* none of the client's own ends a job that was in order in one case only,    *)
(* that of NoUncaughtCrash: `cryptography` cannot be imported.                *)
SubmittedIffAcceptable ==
    /\ outcome = "processed" => Acceptable
    /\ outcome \in {"no_work", "CorePinError", "ReplayError", "blocked"} => ~Acceptable
    /\ outcome = "crash" /\ Acceptable => ~job.native

(* client.py: "never an uncaught crash on adversary-influenced edge JSON", and *)
(* core_pin.py: the browser node "never calls this (it uses                   *)
(* pure_verify_wu_signature)".  With its model and its base URL in order, and *)
(* a JSON object for an answer, no node ends in an exception that is none of  *)
(* the client's own.  The code says otherwise: core_sig may be a number, and  *)
(* the browser node does import `cryptography`.                               *)
NoUncaughtCrash ==
    ValidBase(job.base) /\ job.flaw = NoFlaw /\ job.body = "unit" => outcome # "crash"

(* core_pin.py: "the default trust set is empty, never the dev key".  A unit  *)
(* gets past the checks only under a key that the operator, the build or the  *)
(* page has named, or under the dev key with the dev flag set.                *)
OnlyNamedKeys ==
    PastTheChecks => \/ job.unit.core_sig \in {job.pins.override, job.pins.patched}
                     \/ (job.unit.core_sig = "dev" /\ job.pins.dev)
                     \/ (job.unit.core_sig \in PageKeys /\ job.node = "browser")

(* `current` has come back to an artifact it had left. *)
RolledBack == \E i, j \in DOMAIN current : i < j /\ current[i] = current[j]

(* The classifier that runs is the file the card names, promotions while the  *)
(* files were read notwithstanding, unless one fell between the hash and the  *)
(* load.  That the thresholds and the features are those of the card's        *)
(* artifact too takes more than the checksum: that no other version has the   *)
(* same classifier, and that `current` did not come back to an earlier one.   *)
OneVersion ==
    job.node = "cli" /\ loaded[6] # 0 /\ loaded[6] = loaded[5] =>
        /\ Joblib[loaded[6]] = Joblib[loaded[1]]
        /\ ~RolledBack /\ (\A v \in Versions : Joblib[v] = Joblib[loaded[1]] => v = loaded[1])
              => \A i \in DOMAIN LoadOrder : loaded[i] = loaded[1]

(* A result signed in the browser satisfies the textbook equation             *)
(* sB = R + kA, and no other number below twice the group's order is taken    *)
(* for its s, the congruent one included.                                     *)
SignaturesVerify ==
    sig # NoSig =>
        LET s == sig.sig[2]
        IN  /\ Times(s, BasePoint) = AffineAdd(PointOf(sig.sig[1]), Times(sig.k, PointOf(sig.pub)))
            /\ \A t \in 0 .. 2 * L - 1 : Verify(sig.pub, <<sig.sig[1], t>>, sig.k) <=> t = s

(* What is submitted as misinformation under a threshold of at least 0.6 is   *)
(* shown to the volunteer as such: the rounded score does not fall below the  *)
(* 0.6 the command line compares it with.                                     *)
MisinformationIsShown ==
    pc = "post" /\ result.label = "misinformation" /\ result.threshold >= 6000
        => ShownAsDisinformation
=============================================================================
