---------------------------- MODULE OneJobProofs ----------------------------
(***************************************************************************)
(* Invariants of OneJob for any jobs, artifacts, probabilities, thresholds *)
(* and limits: what a job is given decides whether it is answered, only    *)
(* named keys are trusted, what the checksum of the classifier holds       *)
(* together and what not while artifacts are promoted and rolled back, and *)
(* what is submitted as misinformation is shown as such.  The last         *)
(* part is Ed25519 on any curve that satisfies the assumptions of that     *)
(* module: double-and-add is multiplication, and what is signed verifies.  *)
(***************************************************************************)
EXTENDS OneJob, WellFoundedInduction, TLAPS

Files == 1 .. 6
Loading == {LoadOrder[i] : i \in Files}
Checked == {"classify", "sign", "post"}
Answered == {"check"} \cup Checked
Admitted == {"read"} \cup Answered
Built == {"pull"} \cup Admitted
Ready == {"client"} \cup Built

Types ==
    /\ job \in Jobs
    /\ pc \in Loading \cup Ready \cup {"done"}
    /\ pc = "done" <=> outcome # "none"
    /\ pins \in Pins
    /\ current \in Seq(Versions) /\ current # <<>>
    /\ loaded \in [Files -> Nat]
    /\ got \in Nat /\ got <= MaxBytes /\ got <= job.size

(* An artifact without a flaw, or without an optional file, loads; another    *)
(* one has its flaw in a file still to be read.                               *)
Harmless == job.flaw = NoFlaw \/ (job.flaw[1] = "missing" /\ job.flaw[2] \in Optional)
Artifact ==
    /\ \A i \in Files : pc = LoadOrder[i] =>
          \/ Harmless
          \/ job.flaw[2] \in {LoadOrder[j] : j \in i .. 6} \cup {"weights", "runtime"}
    /\ pc = "weights" => job.flaw # <<"invalid", "weights">>
    /\ pc \in Ready \/ outcome = "processed" => Harmless

(* A file is of the version that is current, or of one that was left.  Of two *)
(* files, the one read first is of the same version or of one that was left,  *)
(* and without a rollback the current version is none of those: so when the   *)
(* hash of the classifier is that of the card's and no other version has it,  *)
(* nothing was promoted between the two.                                      *)
Left == {current[n] : n \in 1 .. Len(current) - 1}
Unique == \A v \in Versions : Joblib[v] = Joblib[loaded[1]] => v = loaded[1]
Versioned ==
    /\ \A i \in Files : pc = LoadOrder[i] => \A j \in Files : loaded[j] # 0 <=> j < i
    /\ job.node = "cli" /\ pc \in Ready => \A j \in Files : loaded[j] # 0
    /\ \A j \in Files : loaded[j] # 0 => loaded[j] \in Versions
    /\ \A j \in Files : loaded[j] # 0 => loaded[j] = version \/ loaded[j] \in Left
    /\ \A j, k \in Files : j <= k /\ loaded[k] # 0 =>
          loaded[j] # 0 /\ (loaded[j] \in Left \/ loaded[j] = loaded[k])
    /\ loaded[5] # 0 => Joblib[loaded[5]] = Joblib[loaded[1]]
    /\ loaded[5] # 0 /\ ~RolledBack /\ Unique => \A j \in 1 .. 5 : loaded[j] = loaded[1]

(* What a job has behind it is in order. *)
UnitInOrder ==
    /\ job.unit.wu_id = "fresh" /\ job.unit.field = "ok" /\ job.unit.text # "surrogate"
    /\ job.unit.nonce \in {"absent", "fresh"}
    /\ job.unit.key_id = "pinned" /\ job.unit.core_sig = EffectivePinnedKey(pins)
BodyInOrder == job.body = "unit" \/ (job.body = "bad text" /\ job.node = "browser")
Past(stages) == pc \in stages \/ outcome = "processed"
InOrder ==
    /\ Past(Built) => ValidBase(job.base)
    /\ Past(Answered) => job.status # 204 /\ job.size <= MaxBytes /\ BodyInOrder
    /\ Past(Checked) => UnitInOrder

(* What was turned down is not, unless `cryptography` was missing. *)
Refusals == {"no_work", "CorePinError", "ReplayError", "blocked"}
TurnedDown ==
    /\ outcome \in Refusals => ~Acceptable
    /\ outcome = "crash" /\ Acceptable => ~job.native

(* The keys of the process are those it was given, or a page's. *)
Named ==
    /\ pins.patched = job.pins.patched /\ pins.dev = job.pins.dev
    /\ pins.override = job.pins.override
          \/ (job.node = "browser" /\ pins.override \in PageKeys)

(* The label says which side of the threshold the probability was on. *)
Labelled ==
    result.label = "misinformation" =>
        /\ result.threshold \in Int
        /\ \E p \in Probabilities : p >= result.threshold /\ result.score = Thousandths(p)

IInv ==
    /\ Types /\ Artifact /\ Versioned /\ InOrder /\ TurnedDown /\ Named /\ Labelled

----------------------------------------------------------------------------
(* The first of the conditions of a ladder that is met decides. *)

LEMMA LeastNumber ==
  ASSUME NEW T, T \subseteq Nat, T # {}
  PROVE  \E m \in T : \A n \in T : m <= n
<1>1. \E m \in T : \A n \in T : ~(<<n, m>> \in OpToRel(<, Nat))
  BY NatLessThanWellFounded, WFMin
<1>2. \A m, n \in Nat : <<n, m>> \in OpToRel(<, Nat) <=> n < m
  BY DEF OpToRel
<1>3. PICK m \in T : \A n \in T : ~(<<n, m>> \in OpToRel(<, Nat))
  BY <1>1
<1>4. \A n \in T : ~(n < m)
  BY <1>2, <1>3
<1>5. \A n \in T : m <= n
  BY <1>4
<1> QED BY <1>5

LEMMA FirstOfIs ==
  ASSUME NEW n \in Nat, NEW ladder, DOMAIN ladder = 1 .. n, NEW otherwise
  PROVE  \/ /\ \A i \in 1 .. n : ~ladder[i][1]
            /\ FirstOf(ladder, otherwise) = otherwise
         \/ \E i \in 1 .. n : /\ ladder[i][1] /\ (\A j \in 1 .. i - 1 : ~ladder[j][1])
                              /\ FirstOf(ladder, otherwise) = ladder[i][2]
<1> DEFINE met == {i \in 1 .. n : ladder[i][1]}
           first == CHOOSE i \in met : \A j \in met : i <= j
<1>1. FirstOf(ladder, otherwise) = IF met = {} THEN otherwise ELSE ladder[first][2]
  BY DEF FirstOf
<1>2. CASE met = {}
  BY <1>1, <1>2
<1>3. CASE met # {}
  <2>1. met \subseteq Nat
    OBVIOUS
  <2>4. \E i \in met : \A j \in met : i <= j
    <3> HIDE DEF met
    <3> QED BY <1>3, <2>1, LeastNumber
  <2>5. first \in met /\ \A j \in met : first <= j
    BY <2>4
  <2>6. ladder[first][1] /\ first \in 1 .. n
    BY <2>5
  <2>7. \A j \in 1 .. first - 1 : ~ladder[j][1]
    <3> HIDE DEF first
    <3> SUFFICES ASSUME NEW j \in 1 .. first - 1, ladder[j][1] PROVE FALSE
      OBVIOUS
    <3>1. j \in met /\ ~(first <= j)
      BY <2>6
    <3> QED BY <2>5, <3>1
  <2>8. FirstOf(ladder, otherwise) = ladder[first][2]
    BY <1>1, <1>3
  <2> HIDE DEF first
  <2> QED BY <2>6, <2>7, <2>8
<1> QED BY <1>2, <1>3

(* A ladder whose conditions all have a consequence of their own leads to     *)
(* nothing if and only if none is met.                                        *)
LEMMA NoneIsMet ==
  ASSUME NEW n \in Nat, NEW ladder, DOMAIN ladder = 1 .. n,
         NEW V, "none" \notin V, \A i \in 1 .. n : ladder[i][2] \in V
  PROVE  /\ FirstOf(ladder, "none") \in V \cup {"none"}
         /\ FirstOf(ladder, "none") = "none" <=> \A i \in 1 .. n : ~ladder[i][1]
         /\ \/ FirstOf(ladder, "none") = "none"
            \/ \E i \in 1 .. n : ladder[i][1] /\ FirstOf(ladder, "none") = ladder[i][2]
<1>1. \/ /\ \A i \in 1 .. n : ~ladder[i][1]
         /\ FirstOf(ladder, "none") = "none"
      \/ \E i \in 1 .. n : /\ ladder[i][1] /\ (\A j \in 1 .. i - 1 : ~ladder[j][1])
                           /\ FirstOf(ladder, "none") = ladder[i][2]
  BY FirstOfIs, Zenon
<1> QED BY <1>1

----------------------------------------------------------------------------
(* The files of an artifact, and what may be wrong with them. *)

LEMMA Names ==
  /\ DOMAIN LoadOrder = Files /\ Len(LoadOrder) = 6
  /\ Loading = {"card", "embedder", "features", "calibration", "hash", "weights"}
  /\ LoadOrder[1] = "card" /\ LoadOrder[2] = "embedder" /\ LoadOrder[3] = "features"
  /\ LoadOrder[4] = "calibration" /\ LoadOrder[5] = "hash" /\ LoadOrder[6] = "weights"
  /\ \A i, j \in Files : LoadOrder[i] = LoadOrder[j] => i = j
  /\ \A i \in Files : LoadOrder[i] \notin Ready \cup {"done"}
<1>1. /\ DOMAIN LoadOrder = 1 .. 6 /\ Len(LoadOrder) = 6
      /\ LoadOrder[1] = "card" /\ LoadOrder[2] = "embedder" /\ LoadOrder[3] = "features"
      /\ LoadOrder[4] = "calibration" /\ LoadOrder[5] = "hash" /\ LoadOrder[6] = "weights"
  BY DEF LoadOrder
<1>2. Files = {1, 2, 3, 4, 5, 6}
  BY DEF Files
<1>3. \A i, j \in Files : LoadOrder[i] = LoadOrder[j] => i = j
  BY <1>1, <1>2
<1>4. Loading = {"card", "embedder", "features", "calibration", "hash", "weights"}
  BY <1>1, <1>2 DEF Loading
<1>5. \A i \in Files : LoadOrder[i] \notin Ready \cup {"done"}
  BY <1>1, <1>2 DEF Ready, Built, Admitted, Answered, Checked
<1> QED BY <1>1, <1>3, <1>4, <1>5 DEF Files

(* What is wrong with the i-th file. *)
LEMMA FaultIs ==
  ASSUME NEW i \in Files
  PROVE  LET name == IF LoadOrder[i] = "hash" THEN "weights" ELSE LoadOrder[i]
         IN  Fault(i) =
               IF job.flaw = <<"missing", name>> /\ name \in Optional THEN "none"
               ELSE IF job.flaw = <<"missing", name>>
                    THEN IF name = "weights" THEN "crash" ELSE "RuntimeError"
               ELSE IF job.flaw = <<"invalid", name>> /\ i # 6 THEN "RuntimeError"
               ELSE IF job.flaw = <<"odd", name>> /\ i # 5 THEN "crash"
               ELSE IF LoadOrder[i] = "hash" /\ ChecksumDiffers THEN "RuntimeError"
               ELSE IF LoadOrder[i] = "weights" /\ job.flaw[2] = "runtime"
                    THEN "RuntimeError" ELSE "none"
<1> DEFINE name == IF LoadOrder[i] = "hash" THEN "weights" ELSE LoadOrder[i]
           c1 == job.flaw = <<"missing", name>> /\ name \in Optional
           c2 == job.flaw = <<"missing", name>>
           c3 == job.flaw = <<"invalid", name>> /\ i # 6
           c4 == job.flaw = <<"odd", name>> /\ i # 5
           c5 == LoadOrder[i] = "hash" /\ ChecksumDiffers
           c6 == LoadOrder[i] = "weights" /\ job.flaw[2] = "runtime"
           v2 == IF name = "weights" THEN "crash" ELSE "RuntimeError"
           ladder == << <<c1, "none">>, <<c2, v2>>, <<c3, "RuntimeError">>,
                        <<c4, "crash">>, <<c5, "RuntimeError">>, <<c6, "RuntimeError">> >>
           Decides(j) == /\ ladder[j][1] /\ (\A k \in 1 .. j - 1 : ~ladder[k][1])
                         /\ Fault(i) = ladder[j][2]
<1>1. Fault(i) = FirstOf(ladder, "none")
  BY DEF Fault
<1>2. /\ DOMAIN ladder = 1 .. 6 /\ 6 \in Nat
      /\ ladder[1][1] = c1 /\ ladder[2][1] = c2 /\ ladder[3][1] = c3
      /\ ladder[4][1] = c4 /\ ladder[5][1] = c5 /\ ladder[6][1] = c6
      /\ ladder[1][2] = "none" /\ ladder[2][2] = v2 /\ ladder[3][2] = "RuntimeError"
      /\ ladder[4][2] = "crash" /\ ladder[5][2] = "RuntimeError"
      /\ ladder[6][2] = "RuntimeError"
  <2> HIDE DEF name, c1, c2, c3, c4, c5, c6, v2
  <2> QED OBVIOUS
<1>3. \/ (\A j \in 1 .. 6 : ~ladder[j][1]) /\ Fault(i) = "none"
      \/ \E j \in 1 .. 6 : Decides(j)
  <2> HIDE DEF ladder
  <2>1. ASSUME NEW n \in Nat, NEW f, DOMAIN f = 1 .. n
        PROVE  \/ (\A j \in 1 .. n : ~f[j][1]) /\ FirstOf(f, "none") = "none"
               \/ \E j \in 1 .. n : /\ f[j][1] /\ (\A k \in 1 .. j - 1 : ~f[k][1])
                                    /\ FirstOf(f, "none") = f[j][2]
    BY <2>1, FirstOfIs, Zenon
  <2>2. DOMAIN ladder = 1 .. 6 /\ 6 \in Nat
    BY <1>2
  <2>3. \/ (\A j \in 1 .. 6 : ~ladder[j][1]) /\ FirstOf(ladder, "none") = "none"
        \/ \E j \in 1 .. 6 : /\ ladder[j][1] /\ (\A k \in 1 .. j - 1 : ~ladder[k][1])
                             /\ FirstOf(ladder, "none") = ladder[j][2]
    BY <2>1, <2>2
  <2> QED BY <1>1, <2>3, Zenon
<1>4. Fault(i) = IF c1 THEN "none" ELSE IF c2 THEN v2 ELSE IF c3 THEN "RuntimeError"
                 ELSE IF c4 THEN "crash" ELSE IF c5 THEN "RuntimeError"
                 ELSE IF c6 THEN "RuntimeError" ELSE "none"
  <2> HIDE DEF name, c1, c2, c3, c4, c5, c6, v2, ladder
  <2>1. CASE \A j \in 1 .. 6 : ~ladder[j][1]
    <3>1. ~c1 /\ ~c2 /\ ~c3 /\ ~c4 /\ ~c5 /\ ~c6
      BY <1>2, <2>1
    <3>2. Fault(i) = "none"
      BY <1>3, <2>1
    <3> QED BY <3>1, <3>2
  <2>2. ASSUME NEW j \in 1 .. 6, Decides(j)
        PROVE  Fault(i) = IF c1 THEN "none" ELSE IF c2 THEN v2 ELSE IF c3 THEN "RuntimeError"
                 ELSE IF c4 THEN "crash" ELSE IF c5 THEN "RuntimeError"
                 ELSE IF c6 THEN "RuntimeError" ELSE "none"
    BY <1>2, <2>2
  <2> QED BY <1>3, <2>1, <2>2
<1> QED BY <1>4

LEMMA RejectionNone ==
  ASSUME NEW u
  PROVE  /\ Rejection(u) \in {"none", "CorePinError", "ReplayError", "crash"}
         /\ Rejection(u) = "none" <=>
           /\ u.wu_id \notin {"absent", "empty", "number", "long", "odd"}
           /\ u.field \notin {"absent", "long"} /\ u.wu_id # "seen"
           /\ u.nonce # "list" /\ u.nonce # "seen"
           /\ u.core_sig \notin {"absent", "not base64"} /\ u.core_sig # "number"
           /\ u.text # "surrogate"
           /\ ~(u.key_id = "pinned" /\ ~job.native)
           /\ Verifies(pins, u.key_id, u.core_sig)
         /\ Rejection(u) \in {"CorePinError", "ReplayError"} =>
           \/ u.wu_id \in {"absent", "empty", "number", "long", "odd", "seen"}
           \/ u.field \in {"absent", "long"} \/ u.nonce = "seen"
           \/ u.core_sig \in {"absent", "not base64"}
           \/ ~Verifies(pins, u.key_id, u.core_sig)
         /\ Rejection(u) = "crash" =>
           \/ u.nonce = "list" \/ u.core_sig = "number" \/ u.text = "surrogate"
           \/ u.key_id = "pinned" /\ ~job.native
<1> DEFINE ladder == <<
      <<u.wu_id \in {"absent", "empty", "number", "long", "odd"}, "CorePinError">>,
      <<u.field \in {"absent", "long"}, "CorePinError">>,
      <<u.wu_id = "seen", "ReplayError">>,
      <<u.nonce = "list", "crash">>,
      <<u.nonce = "seen", "ReplayError">>,
      <<u.core_sig \in {"absent", "not base64"}, "CorePinError">>,
      <<u.core_sig = "number", "crash">>,
      <<u.text = "surrogate", "crash">>,
      <<u.key_id = "pinned" /\ ~job.native, "crash">>,
      <<~Verifies(pins, u.key_id, u.core_sig), "CorePinError">> >>
           V == {"CorePinError", "ReplayError", "crash"}
<1>1. Rejection(u) = FirstOf(ladder, "none")
  BY DEF Rejection
<1>2. DOMAIN ladder = 1 .. 10 /\ 10 \in Nat
  OBVIOUS
<1>3. 1 .. 10 = {1, 2, 3, 4, 5, 6, 7, 8, 9, 10}
  OBVIOUS
<1>4. /\ ladder[1][2] = "CorePinError" /\ ladder[2][2] = "CorePinError"
      /\ ladder[3][2] = "ReplayError" /\ ladder[4][2] = "crash"
      /\ ladder[5][2] = "ReplayError" /\ ladder[6][2] = "CorePinError"
      /\ ladder[7][2] = "crash" /\ ladder[8][2] = "crash"
      /\ ladder[9][2] = "crash" /\ ladder[10][2] = "CorePinError"
  OBVIOUS
<1>5. (\A i \in 1 .. 10 : ~ladder[i][1]) <=>
           /\ ~ladder[1][1] /\ ~ladder[2][1] /\ ~ladder[3][1] /\ ~ladder[4][1] /\ ~ladder[5][1]
           /\ ~ladder[6][1] /\ ~ladder[7][1] /\ ~ladder[8][1] /\ ~ladder[9][1] /\ ~ladder[10][1]
  <2> HIDE DEF ladder
  <2> QED BY <1>3
<1>6. /\ FirstOf(ladder, "none") \in V \cup {"none"}
      /\ FirstOf(ladder, "none") = "none" <=> \A i \in 1 .. 10 : ~ladder[i][1]
      /\ \/ FirstOf(ladder, "none") = "none"
         \/ \E i \in 1 .. 10 : ladder[i][1] /\ FirstOf(ladder, "none") = ladder[i][2]
  <2> HIDE DEF ladder, V
  <2>1. ASSUME NEW n \in Nat, NEW f, DOMAIN f = 1 .. n,
               "none" \notin V, \A i \in 1 .. n : f[i][2] \in V
        PROVE  /\ FirstOf(f, "none") \in V \cup {"none"}
               /\ FirstOf(f, "none") = "none" <=> \A i \in 1 .. n : ~f[i][1]
               /\ \/ FirstOf(f, "none") = "none"
                  \/ \E i \in 1 .. n : f[i][1] /\ FirstOf(f, "none") = f[i][2]
    BY <2>1, NoneIsMet, Zenon
  <2>2. DOMAIN ladder = 1 .. 10
    BY <1>2
  <2>3. "none" \notin V
    BY DEF V
  <2>4. \A i \in 1 .. 10 : ladder[i][2] \in V
    BY <1>3, <1>4 DEF V
  <2> QED BY <1>2, <2>1, <2>2, <2>3, <2>4
<1>7. ASSUME NEW i \in 1 .. 10, ladder[i][1], Rejection(u) = ladder[i][2]
      PROVE  /\ Rejection(u) \in {"CorePinError", "ReplayError"} =>
                  \/ ladder[1][1] \/ ladder[2][1] \/ ladder[3][1] \/ ladder[5][1]
                  \/ ladder[6][1] \/ ladder[10][1]
             /\ Rejection(u) = "crash" =>
                  ladder[4][1] \/ ladder[7][1] \/ ladder[8][1] \/ ladder[9][1]
  <2>1. \/ i = 1 \/ i = 2 \/ i = 3 \/ i = 4 \/ i = 5
        \/ i = 6 \/ i = 7 \/ i = 8 \/ i = 9 \/ i = 10
    OBVIOUS
  <2> HIDE DEF ladder
  <2> QED BY <1>4, <1>7, <2>1
<1>8. Rejection(u) = "none" \/ \E i \in 1 .. 10 : ladder[i][1] /\ Rejection(u) = ladder[i][2]
  <2> HIDE DEF ladder
  <2> QED BY <1>1, <1>6
<1>9. /\ Rejection(u) \in {"CorePinError", "ReplayError"} =>
           \/ ladder[1][1] \/ ladder[2][1] \/ ladder[3][1] \/ ladder[5][1]
           \/ ladder[6][1] \/ ladder[10][1]
      /\ Rejection(u) = "crash" =>
           ladder[4][1] \/ ladder[7][1] \/ ladder[8][1] \/ ladder[9][1]
  <2> HIDE DEF ladder
  <2>1. CASE Rejection(u) = "none"
    BY <2>1
  <2>2. CASE Rejection(u) # "none"
    <3>1. PICK i \in 1 .. 10 : ladder[i][1] /\ Rejection(u) = ladder[i][2]
      BY <1>8, <2>2
    <3> QED BY <1>7, <3>1
  <2> QED BY <2>1, <2>2
<1>10. /\ ladder[1][1] <=> u.wu_id \in {"absent", "empty", "number", "long", "odd"}
       /\ ladder[2][1] <=> u.field \in {"absent", "long"}
       /\ ladder[3][1] <=> u.wu_id = "seen"
       /\ ladder[4][1] <=> u.nonce = "list"
       /\ ladder[5][1] <=> u.nonce = "seen"
       /\ ladder[6][1] <=> u.core_sig \in {"absent", "not base64"}
       /\ ladder[7][1] <=> u.core_sig = "number"
       /\ ladder[8][1] <=> u.text = "surrogate"
       /\ ladder[9][1] <=> u.key_id = "pinned" /\ ~job.native
       /\ ladder[10][1] <=> ~Verifies(pins, u.key_id, u.core_sig)
  OBVIOUS
<1>11. Rejection(u) \in V \cup {"none"}
  <2> HIDE DEF ladder
  <2> QED BY <1>1, <1>6
<1> HIDE DEF ladder
<1> QED BY <1>1, <1>5, <1>6, <1>9, <1>10, <1>11

(* The egress guard lets a node reach its own edge. *)
LEMMA OwnEdge == ASSUME NEW base PROVE Admits(base, base)
BY DEF Admits, GuardPort

(* A file that is read without a fault is the flawed one only if it may be    *)
(* missing, and a flawed optional file that is missing stops nothing.         *)
LEMMA FaultFacts ==
  ASSUME NEW i \in Files, job \in JobSet
  PROVE  /\ Fault(i) \in {"none", "RuntimeError", "crash"}
         /\ Fault(i) = "crash" => ~Harmless
         /\ Fault(i) = "none" =>
              /\ i # 6 => Harmless \/ job.flaw[2] # LoadOrder[i]
              /\ i = 5 => job.flaw # <<"invalid", "weights">> /\ Joblib[loaded[1]] = Joblib[version]
              /\ i = 6 => \/ Harmless \/ job.flaw = <<"invalid", "weights">>
                          \/ job.flaw[2] \notin {"weights", "runtime"}
<1> DEFINE name == IF LoadOrder[i] = "hash" THEN "weights" ELSE LoadOrder[i]
<1>1. Fault(i) =
        IF job.flaw = <<"missing", name>> /\ name \in Optional THEN "none"
        ELSE IF job.flaw = <<"missing", name>>
             THEN IF name = "weights" THEN "crash" ELSE "RuntimeError"
        ELSE IF job.flaw = <<"invalid", name>> /\ i # 6 THEN "RuntimeError"
        ELSE IF job.flaw = <<"odd", name>> /\ i # 5 THEN "crash"
        ELSE IF LoadOrder[i] = "hash" /\ ChecksumDiffers THEN "RuntimeError"
        ELSE IF LoadOrder[i] = "weights" /\ job.flaw[2] = "runtime"
             THEN "RuntimeError" ELSE "none"
  BY FaultIs
<1>2. \/ job.flaw = <<"no", "flaw">>
      \/ \E how \in {"missing", "invalid", "odd"},
            what \in {"card", "embedder", "features", "calibration", "weights", "runtime"} :
              job.flaw = <<how, what>>
  <2> DEFINE f == job.flaw
  <2>1. f = <<"no", "flaw">> \/ f \in {"missing", "invalid", "odd"} \X
             {"card", "embedder", "features", "calibration", "weights", "runtime"}
    BY DEF JobSet, NoFlaw
  <2> HIDE DEF f
  <2>2. \/ f = <<"no", "flaw">>
        \/ /\ f = <<f[1], f[2]>> /\ f[1] \in {"missing", "invalid", "odd"}
           /\ f[2] \in {"card", "embedder", "features", "calibration", "weights", "runtime"}
    BY <2>1
  <2> QED BY <2>2, Zenon DEF f
<1>3. /\ i = 5 <=> LoadOrder[i] = "hash"
      /\ i = 6 <=> LoadOrder[i] = "weights"
      /\ LoadOrder[i] \in {"card", "embedder", "features", "calibration", "hash", "weights"}
  BY Names DEF Files, Loading
<1>4. CASE job.flaw = <<"no", "flaw">>
  BY <1>1, <1>3, <1>4 DEF Harmless, NoFlaw, ChecksumDiffers
<1>5. ASSUME NEW how \in {"missing", "invalid", "odd"},
             NEW what \in {"card", "embedder", "features", "calibration", "weights", "runtime"},
             job.flaw = <<how, what>>
      PROVE  /\ Fault(i) \in {"none", "RuntimeError", "crash"}
             /\ Fault(i) = "crash" => ~Harmless
             /\ Fault(i) = "none" =>
                  /\ i # 6 => Harmless \/ job.flaw[2] # LoadOrder[i]
                  /\ i = 5 => job.flaw # <<"invalid", "weights">> /\ Joblib[loaded[1]] = Joblib[version]
                  /\ i = 6 => \/ Harmless \/ job.flaw = <<"invalid", "weights">>
                              \/ job.flaw[2] \notin {"weights", "runtime"}
  <2>1. job.flaw[1] = how /\ job.flaw[2] = what
    BY <1>5
  <2>2. \A h, w : job.flaw = <<h, w>> <=> h = how /\ w = what
    BY <1>5
  <2>3. Harmless <=> how = "missing" /\ what \in Optional
    BY <2>1, <2>2 DEF Harmless, NoFlaw
  <2> QED BY <1>1, <1>3, <2>1, <2>2, <2>3 DEF ChecksumDiffers, Optional
<1> QED BY <1>2, <1>4, <1>5

----------------------------------------------------------------------------
(* What `current` points to, and what a promotion makes of it. *)

LEMMA VersionIs ==
  ASSUME Types
  PROVE  /\ version \in Versions /\ Versions \subseteq Nat \ {0}
         /\ Left \subseteq Versions
         /\ ~RolledBack => version \notin Left
<1>1. current \in Seq(Versions) /\ Len(current) \in Nat \ {0}
  BY DEF Types
<1>2. \A n \in 1 .. Len(current) : current[n] \in Versions
  BY <1>1
<1>3. version \in Versions /\ Left \subseteq Versions
  BY <1>1, <1>2 DEF version, Left
<1>4. ASSUME version \in Left PROVE RolledBack
  <2>1. PICK n \in 1 .. Len(current) - 1 : current[n] = current[Len(current)]
    BY <1>4 DEF version, Left
  <2>2. n \in DOMAIN current /\ Len(current) \in DOMAIN current /\ n < Len(current)
    BY <1>1
  <2> QED BY <2>1, <2>2 DEF RolledBack
<1> QED BY <1>3, <1>4, ModelAssumption

LEMMA SameVersions ==
  ASSUME current' = current
  PROVE  version' = version /\ Left' = Left /\ (RolledBack' <=> RolledBack)
BY DEF version, Left, RolledBack

LEMMA PromoteIs ==
  ASSUME Types, Promote
  PROVE  /\ current' \in Seq(Versions) /\ current' # <<>>
         /\ Left' = Left \cup {version}
         /\ RolledBack => RolledBack'
<1>1. PICK v \in Versions : current' = Append(current, v)
  BY DEF Promote
<1>2. current \in Seq(Versions) /\ Len(current) \in Nat \ {0}
  BY DEF Types
<1>3. /\ current' \in Seq(Versions) /\ Len(current') = Len(current) + 1
      /\ \A n \in 1 .. Len(current) : current'[n] = current[n]
      /\ DOMAIN current' = 1 .. Len(current) + 1 /\ DOMAIN current = 1 .. Len(current)
  BY <1>1, <1>2
<1>4. Left' = {current'[n] : n \in 1 .. Len(current)}
  BY <1>2, <1>3 DEF Left
<1>5. {current'[n] : n \in 1 .. Len(current)} = {current[n] : n \in 1 .. Len(current)}
  BY <1>3
<1>6. {current[n] : n \in 1 .. Len(current)} = Left \cup {version}
  <2>1. \A n \in 1 .. Len(current) : n \in 1 .. Len(current) - 1 \/ n = Len(current)
    BY <1>2
  <2> QED BY <1>2, <2>1 DEF Left, version
<1>7. ASSUME RolledBack PROVE RolledBack'
  <2>1. PICK i, j \in DOMAIN current : i < j /\ current[i] = current[j]
    BY <1>7 DEF RolledBack
  <2>2. i \in DOMAIN current' /\ j \in DOMAIN current' /\ current'[i] = current'[j]
    BY <1>2, <1>3, <2>1
  <2> QED BY <2>1, <2>2 DEF RolledBack
<1> QED BY <1>3, <1>4, <1>5, <1>6, <1>7

(* Every step keeps the types. *)
LEMMA TypesStep == IInv /\ [Next]_vars => Types'
<1> SUFFICES ASSUME Types, [Next]_vars PROVE Types'
  BY DEF IInv
<1> USE DEF Types
<1>0. job \in JobSet
  BY OneJobAssumption
<1>a. job.size \in Nat /\ ChunkSize \in Nat \ {0} /\ MaxBytes \in Nat
  BY <1>0, OneJobAssumption DEF JobSet
<1>b. ASSUME NEW how, how # "none", End(how) PROVE Types'
  BY <1>b DEF End
<1>c. \A label \in Loading \cup Ready : label # "done"
  BY Names DEF Loading, Ready, Built, Admitted, Answered, Checked
<1>d. ASSUME NEW label \in Loading \cup Ready, Goto(label), pc # "done", got' = got,
             loaded' = loaded
      PROVE  Types'
  BY <1>c, <1>d DEF Goto
<1>1. CASE UNCHANGED vars
  BY <1>1 DEF vars
<1>2. ASSUME NEW i \in Files, ReadFile(i) PROVE Types'
  <2>1. CASE Fault(i) # "none"
    BY <1>2, <1>b, <2>1 DEF ReadFile
  <2>2. CASE Fault(i) = "none"
    <3> DEFINE label == IF i = 6 THEN "client" ELSE LoadOrder[i + 1]
    <3>1. Goto(label)
      BY <1>2, <2>2, Names DEF ReadFile
    <3>2. loaded' = [loaded EXCEPT ![i] = version] /\ UNCHANGED <<got, result, sig>>
      BY <1>2, <2>2 DEF ReadFile
    <3>3. label \in Loading \cup Ready
      BY DEF Loading, Ready, Files
    <3>4. pc \in Loading
      BY <1>2 DEF ReadFile, Loading
    <3>5. loaded' \in [Files -> Nat]
      BY <3>2, VersionIs
    <3> HIDE DEF label
    <3> QED BY <1>c, <3>1, <3>2, <3>3, <3>4, <3>5 DEF Goto
  <2> QED BY <2>1, <2>2
<1> USE DEF Ready, Built, Admitted, Answered, Checked
<1>3. CASE BuildClient
  BY <1>3, <1>b, <1>d DEF BuildClient
<1>4. CASE Pull
  BY <1>4, <1>b, <1>d DEF Pull
<1>5. CASE NetworkFails
  BY <1>5, <1>b DEF NetworkFails
<1>6. CASE NoWork
  BY <1>6, <1>b DEF NoWork
<1>7. CASE ReadChunk
  <2> DEFINE chunk == IF job.size - got < ChunkSize THEN job.size - got ELSE ChunkSize
  <2>1. CASE TooLarge(got + chunk)
    BY <1>7, <1>b, <2>1 DEF ReadChunk
  <2>2. CASE ~TooLarge(got + chunk)
    <3>1. Goto("read") /\ got' = got + chunk /\ UNCHANGED <<loaded, result, sig>>
      BY <1>7, <2>2 DEF ReadChunk
    <3>2. got + chunk \in Nat /\ got + chunk <= job.size /\ got + chunk <= MaxBytes
      BY <1>a, <2>2 DEF TooLarge
    <3>3. pc = "read"
      BY <1>7 DEF ReadChunk
    <3> QED BY <1>c, <3>1, <3>2, <3>3 DEF Goto
  <2> QED BY <2>1, <2>2
<1>8. CASE ReadText
  <2>1. CASE TooLarge(job.size)
    BY <1>8, <1>b, <2>1 DEF ReadText
  <2>2. CASE ~TooLarge(job.size)
    <3>1. /\ pc = "read" /\ Goto("read") /\ got' = job.size /\ loaded' = loaded
          /\ job.size <= MaxBytes
      BY <1>8, <1>a, <2>2 DEF ReadText, TooLarge
    <3> QED BY <1>a, <1>c, <3>1 DEF Goto
  <2> QED BY <2>1, <2>2
<1>9. CASE Parse
  BY <1>9, <1>b, <1>d DEF Parse
<1>10. CASE Check
  BY <1>10, <1>b, <1>d DEF Check
<1>11. CASE Classify
  BY <1>11, <1>d DEF Classify
<1>12. CASE ClassifyFails
  BY <1>12, <1>b DEF ClassifyFails
<1>13. CASE SignResult
  BY <1>13, <1>d DEF SignResult
<1>14. CASE Post
  BY <1>14, <1>b DEF Post
<1>15. CASE Promote
  BY <1>15, PromoteIs DEF Promote
<1>16. ASSUME NEW key \in PageKeys, NewNode(key) PROVE Types'
  <2>1. key \in Keys \cup {Unset, "", "garbage"}
    BY PageAssumption
  <2>2. pins' \in Pins
    BY <1>16, <2>1 DEF NewNode, PinCoreKey, Pins
  <2> QED BY <1>16, <2>2 DEF NewNode
<1>17. CASE Finished
  BY <1>17 DEF Finished, vars
<1> QED
  BY <1>1, <1>2, <1>3, <1>4, <1>5, <1>6, <1>7, <1>8, <1>9, <1>10, <1>11, <1>12, <1>13,
     <1>14, <1>15, <1>16, <1>17, Names DEF Next, Step

----------------------------------------------------------------------------
(* Once the client is there, nothing of the artifact or of the keys changes   *)
(* but by another node of the page.                                           *)
Later ==
    /\ pc \in Ready /\ pc' \in Ready \cup {"done"}
    /\ UNCHANGED <<job, pins, current, loaded>>

LEMMA Moves ==
  ASSUME Types, [Next]_vars
  PROVE  \/ \E i \in Files : ReadFile(i)
         \/ Promote
         \/ \E key \in PageKeys : NewNode(key)
         \/ Later
         \/ UNCHANGED vars
<1> USE DEF Later, Ready, Built, Admitted, Answered, Checked
<1>a. ASSUME NEW how, End(how), pc \in Ready PROVE Later
  BY <1>a DEF End
<1>b. ASSUME NEW label \in Ready, Goto(label), pc \in Ready, loaded' = loaded PROVE Later
  BY <1>b DEF Goto
<1>1. CASE BuildClient
  BY <1>1, <1>a, <1>b DEF BuildClient
<1>2. CASE Pull
  BY <1>2, <1>a, <1>b DEF Pull
<1>3. CASE NetworkFails
  BY <1>3, <1>a DEF NetworkFails
<1>4. CASE NoWork
  BY <1>4, <1>a DEF NoWork
<1>5. CASE ReadChunk
  BY <1>5, <1>a, <1>b DEF ReadChunk
<1>6. CASE ReadText
  BY <1>6, <1>a, <1>b DEF ReadText
<1>7. CASE Parse
  BY <1>7, <1>a, <1>b DEF Parse
<1>8. CASE Check
  BY <1>8, <1>a, <1>b DEF Check
<1>9. CASE Classify
  BY <1>9, <1>b DEF Classify
<1>10. CASE ClassifyFails
  BY <1>10, <1>a DEF ClassifyFails
<1>11. CASE SignResult
  BY <1>11, <1>b DEF SignResult
<1>12. CASE Post
  BY <1>12, <1>a DEF Post
<1>13. CASE Finished
  BY <1>13 DEF Finished
<1> QED
  BY <1>1, <1>2, <1>3, <1>4, <1>5, <1>6, <1>7, <1>8, <1>9, <1>10, <1>11, <1>12, <1>13, Names
  DEF Next, Step

(* A step that reads a file ends the job or goes on with the next file. *)
LEMMA Reading ==
  ASSUME NEW i \in Files, ReadFile(i)
  PROVE  /\ pc = LoadOrder[i]
         /\ UNCHANGED <<job, pins, current>>
         /\ \/ /\ Fault(i) # "none" /\ pc' = "done" /\ outcome' = Fault(i)
               /\ loaded' = loaded
            \/ /\ Fault(i) = "none" /\ outcome' = outcome
               /\ pc' = IF i = 6 THEN "client" ELSE LoadOrder[i + 1]
               /\ loaded' = [loaded EXCEPT ![i] = version]
BY Names DEF ReadFile, End, Goto

(* Every step keeps what is known of the artifact's flaw. *)
LEMMA ArtifactStep == IInv /\ [Next]_vars => Artifact'
<1> SUFFICES ASSUME Types, Artifact, [Next]_vars PROVE Artifact'
  BY DEF IInv
<1>0. job \in JobSet
  BY OneJobAssumption DEF Types
<1>1. ASSUME NEW i \in Files, ReadFile(i) PROVE Artifact'
  <2> USE <1>1, Reading
  <2>1. CASE Fault(i) # "none"
    <3>1. pc' = "done" /\ outcome' # "processed"
      BY <1>0, <2>1, FaultFacts
    <3> QED BY <3>1, Names DEF Artifact, Ready, Built, Admitted, Answered, Checked
  <2>2. CASE Fault(i) = "none"
    <3>1. /\ i # 6 => Harmless \/ job.flaw[2] # LoadOrder[i]
          /\ i = 5 => job.flaw # <<"invalid", "weights">>
          /\ i = 6 => \/ Harmless \/ job.flaw = <<"invalid", "weights">>
                      \/ job.flaw[2] \notin {"weights", "runtime"}
      BY <1>0, <2>2, FaultFacts
    <3>2. Harmless' <=> Harmless
      BY DEF Harmless
    <3>3. \/ Harmless
          \/ job.flaw[2] \in {LoadOrder[j] : j \in i .. 6} \cup {"weights", "runtime"}
      BY DEF Artifact
    <3>4. outcome' = "none"
      BY <2>2, Names DEF Types, Files
    <3>5. CASE i = 6
      <4>1. Harmless
        BY <3>1, <3>3, <3>5, Names DEF Artifact
      <4>2. pc' = "client"
        BY <2>2, <3>5
      <4> QED BY <3>2, <4>1, <4>2, Names DEF Artifact, Ready
    <3>6. CASE i # 6
      <4>1. pc' = LoadOrder[i + 1] /\ i + 1 \in Files
        BY <2>2, <3>6 DEF Files
      <4>2. \/ Harmless
            \/ job.flaw[2] \in {LoadOrder[j] : j \in i + 1 .. 6} \cup {"weights", "runtime"}
        BY <3>1, <3>3, <3>6 DEF Files
      <4>3. \A k \in Files : pc' = LoadOrder[k] => k = i + 1
        BY <4>1, Names
      <4>4. pc' = "weights" => i = 5
        BY <4>1, Names DEF Files
      <4>5. pc' \notin Ready
        BY <4>1, Names
      <4> QED BY <3>1, <3>2, <3>4, <4>2, <4>3, <4>4, <4>5 DEF Artifact
    <3> QED BY <3>5, <3>6
  <2> QED BY <2>1, <2>2
<1>2. CASE Promote
  BY <1>2 DEF Promote, Artifact, Harmless
<1>3. ASSUME NEW key \in PageKeys, NewNode(key) PROVE Artifact'
  BY <1>3 DEF NewNode, Artifact, Harmless
<1>4. CASE Later
  <2>1. Harmless /\ Harmless'
    BY <1>4 DEF Later, Artifact, Harmless
  <2>2. \A i \in Files : pc' # LoadOrder[i]
    BY <1>4, Names DEF Later
  <2> QED BY <2>1, <2>2, Names DEF Artifact, Files
<1>5. CASE UNCHANGED vars
  BY <1>5 DEF vars, Artifact, Harmless
<1> QED BY <1>1, <1>2, <1>3, <1>4, <1>5, Moves

(* Every step keeps what is known of the versions that were read. *)
LEMMA VersionedStep == IInv /\ [Next]_vars => Versioned'
<1> SUFFICES ASSUME Types, Versioned, [Next]_vars PROVE Versioned'
  BY DEF IInv
<1>0. /\ version \in Versions /\ Versions \subseteq Nat \ {0} /\ loaded \in [Files -> Nat]
      /\ ~RolledBack => version \notin Left
  BY VersionIs DEF Types
<1>1. ASSUME NEW i \in Files, ReadFile(i) PROVE Versioned'
  <2>0. /\ pc = LoadOrder[i] /\ UNCHANGED <<job, pins, current>>
        /\ \A j \in Files : loaded[j] # 0 <=> j < i
    BY <1>1, Reading DEF Versioned
  <2>a. version' = version /\ Left' = Left /\ (RolledBack' <=> RolledBack)
    BY <2>0, SameVersions
  <2>1. CASE Fault(i) # "none"
    <3>1. pc' = "done" /\ loaded' = loaded /\ (Unique' <=> Unique)
      BY <1>1, <2>1, Reading DEF Unique
    <3> QED BY <2>0, <2>a, <3>1, Names DEF Versioned, Ready, Built, Admitted, Answered, Checked
  <2>2. CASE Fault(i) = "none"
    <3>1. /\ pc' = IF i = 6 THEN "client" ELSE LoadOrder[i + 1]
          /\ loaded' = [loaded EXCEPT ![i] = version]
      BY <1>1, <2>2, Reading
    <3>2. /\ loaded'[i] = version
          /\ \A j \in Files : j # i => loaded'[j] = loaded[j]
          /\ \A j \in Files : loaded[j] \in Nat
      BY <1>0, <3>1
    <3>3. \A j \in Files : loaded'[j] # 0 <=> j <= i
      BY <1>0, <2>0, <3>2 DEF Files
    <3>4. \A k \in Files : pc' = LoadOrder[k] => k = i + 1
      <4>1. CASE i = 6
        BY <3>1, <4>1, Names DEF Ready
      <4>2. CASE i # 6
        BY <3>1, <4>2, Names DEF Files
      <4> QED BY <4>1, <4>2
    <3>5. \A k \in Files : pc' = LoadOrder[k] => \A j \in Files : loaded'[j] # 0 <=> j < k
      BY <3>3, <3>4 DEF Files
    <3>6. pc' \in Ready => \A j \in Files : loaded'[j] # 0
      <4>1. i # 6 => pc' \notin Ready
        BY <3>1, Names DEF Files
      <4> QED BY <3>3, <4>1 DEF Files
    <3>7. \A j \in Files : loaded'[j] # 0 =>
              loaded'[j] \in Versions /\ (loaded'[j] = version' \/ loaded'[j] \in Left')
      BY <1>0, <2>a, <3>2 DEF Versioned
    <3>8. \A j, k \in Files : j <= k /\ loaded'[k] # 0 =>
              loaded'[j] # 0 /\ (loaded'[j] \in Left' \/ loaded'[j] = loaded'[k])
      <4> SUFFICES ASSUME NEW j \in Files, NEW k \in Files, j <= k, loaded'[k] # 0
                   PROVE  loaded'[j] # 0 /\ (loaded'[j] \in Left' \/ loaded'[j] = loaded'[k])
        OBVIOUS
      <4>1. j <= i /\ k <= i
        BY <3>3 DEF Files
      <4>2. CASE k = i
        BY <2>a, <3>2, <3>3, <3>7, <4>1, <4>2
      <4>3. CASE k # i
        <5>1. j # i
          BY <4>1, <4>3 DEF Files
        <5> QED BY <2>a, <3>2, <4>3, <5>1 DEF Versioned
      <4> QED BY <4>2, <4>3
    <3>9. /\ loaded'[5] # 0 => Joblib[loaded'[5]] = Joblib[loaded'[1]]
          /\ loaded'[5] # 0 /\ ~RolledBack' /\ Unique' =>
                \A j \in 1 .. 5 : loaded'[j] = loaded'[1]
      <4>1. CASE i = 5
        <5>1. Joblib[loaded[1]] = Joblib[version]
          BY <2>2, <4>1, FaultFacts, OneJobAssumption DEF Types
        <5>2. loaded'[1] = loaded[1] /\ loaded'[5] = version
          BY <3>2, <4>1 DEF Files
        <5>3. ASSUME ~RolledBack', Unique', NEW j \in 1 .. 5 PROVE loaded'[j] = loaded'[1]
          <6>1. loaded'[1] = version
            BY <1>0, <5>1, <5>2, <5>3 DEF Unique
          <6>2. loaded'[1] \notin Left'
            BY <1>0, <2>a, <5>3, <6>1
          <6>3. 1 \in Files /\ j \in Files /\ 1 <= j /\ loaded'[j] # 0
            BY <3>3, <4>1 DEF Files
          <6> QED BY <3>8, <6>2, <6>3
        <5> QED BY <5>1, <5>2, <5>3
      <4>2. CASE i # 5 /\ loaded'[5] # 0
        <5>1. \A j \in 1 .. 5 : j \in Files /\ loaded'[j] = loaded[j]
          BY <3>2, <3>3, <4>2 DEF Files
        <5>2. loaded'[1] = loaded[1] /\ loaded'[5] = loaded[5]
          BY <5>1
        <5>3. Unique' <=> Unique
          BY <5>2 DEF Unique
        <5> QED BY <2>a, <4>2, <5>1, <5>2, <5>3 DEF Versioned
      <4> QED BY <4>1, <4>2
    <3> QED BY <3>5, <3>6, <3>7, <3>8, <3>9, <2>0 DEF Versioned
  <2> QED BY <2>1, <2>2
<1>2. CASE Promote
  <2>1. UNCHANGED <<job, pc, loaded>>
    BY <1>2 DEF Promote
  <2>2. Left' = Left \cup {version} /\ (RolledBack => RolledBack')
    BY <1>2, PromoteIs
  <2>3. Unique' <=> Unique
    BY <2>1 DEF Unique
  <2> QED BY <2>1, <2>2, <2>3 DEF Versioned
<1>a. ASSUME UNCHANGED <<current, loaded>>
      PROVE  /\ version' = version /\ Left' = Left /\ (RolledBack' <=> RolledBack)
             /\ loaded' = loaded /\ (Unique' <=> Unique)
  BY <1>a, SameVersions DEF Unique
<1>3. ASSUME NEW key \in PageKeys, NewNode(key) PROVE Versioned'
  <2>1. UNCHANGED <<job, pc, current, loaded>>
    BY <1>3 DEF NewNode
  <2> QED BY <1>a, <2>1 DEF Versioned
<1>4. CASE Later
  <2>1. \A i \in Files : pc' # LoadOrder[i]
    BY <1>4, Names DEF Later
  <2>2. job.node = "cli" => \A j \in Files : loaded[j] # 0
    BY <1>4 DEF Later, Versioned
  <2>3. UNCHANGED <<job, current, loaded>>
    BY <1>4 DEF Later
  <2> QED BY <1>a, <2>1, <2>2, <2>3 DEF Versioned
<1>5. CASE UNCHANGED vars
  <2>1. UNCHANGED <<job, pc, current, loaded>>
    BY <1>5 DEF vars
  <2> QED BY <1>a, <2>1 DEF Versioned
<1> QED BY <1>1, <1>2, <1>3, <1>4, <1>5, Moves

(* Every step keeps the keys among those that were named. *)
LEMMA NamedStep == IInv /\ [Next]_vars => Named'
<1> SUFFICES ASSUME Types, Named, [Next]_vars PROVE Named'
  BY DEF IInv
<1>1. ASSUME NEW key \in PageKeys, NewNode(key) PROVE Named'
  BY <1>1 DEF NewNode, PinCoreKey, Named, Types, Pins
<1>2. CASE UNCHANGED <<job, pins>>
  BY <1>2 DEF Named
<1>3. \/ UNCHANGED <<job, pins>>
      \/ \E key \in PageKeys : NewNode(key)
  BY Moves, Reading DEF Promote, Later, vars
<1> QED BY <1>1, <1>2, <1>3

(* Every step keeps the label on its side of the threshold. *)
LEMMA LabelledStep == IInv /\ [Next]_vars => Labelled'
<1> SUFFICES ASSUME Types, Artifact, Versioned, Labelled, [Next]_vars PROVE Labelled'
  BY DEF IInv
<1>1. CASE Classify
  <2>1. CASE job.node = "browser"
    <3>1. result' = [NoResult EXCEPT !.label = "factual"]
      BY <1>1, <2>1 DEF Classify
    <3> QED BY <3>1 DEF Labelled, NoResult
  <2>2. CASE job.node # "browser" /\ job.unit.text = "blank"
    <3>1. result' = [NoResult EXCEPT !.label = "unverified", !.score = 500]
      BY <1>1, <2>2 DEF Classify
    <3> QED BY <3>1 DEF Labelled, NoResult
  <2>3. CASE job.node # "browser" /\ job.unit.text # "blank"
    <3> DEFINE t == ThresholdOf(loaded[4], job.unit.lang)
    <3>1. PICK p \in Probabilities : result' = Classification(p, t)
      BY <1>1, <2>3 DEF Classify
    <3>2. t \in Int
      <4>1. job.node = "cli"
        BY <2>3, OneJobAssumption DEF Types, JobSet
      <4>2. loaded[4] \in Versions
        BY <1>1, <4>1 DEF Classify, Versioned, Ready, Built, Admitted, Answered, Checked, Files
      <4>3. /\ "default" \in DOMAIN Thresholds[loaded[4]]
            /\ \A key \in DOMAIN Thresholds[loaded[4]] : Thresholds[loaded[4]][key] \in Int
        BY <4>2, ModelAssumption
      <4> QED BY <4>3 DEF ThresholdOf
    <3> HIDE DEF t
    <3>3. /\ result'.threshold = t /\ result'.score = Thousandths(p)
          /\ result'.label = "misinformation" => p >= t
      BY <3>1 DEF Classification
    <3> QED BY <3>2, <3>3 DEF Labelled
  <2> QED BY <2>1, <2>2, <2>3
<1>2. CASE UNCHANGED result
  BY <1>2 DEF Labelled
<1>3. UNCHANGED result \/ Classify
  BY DEF Next, Step, ReadFile, BuildClient, Pull, NetworkFails, NoWork, ReadChunk, ReadText,
         Parse, Check, ClassifyFails, SignResult, Post, Promote, NewNode, Finished, End, vars
<1> QED BY <1>1, <1>2, <1>3

----------------------------------------------------------------------------
(* What is turned down has something wrong with it. *)

(* A unit the checks let pass is in order, and a unit in order passes. *)
LEMMA SignedUnderAKey ==
  ASSUME job \in JobSet, pins \in Pins, UnitInOrder
  PROVE  EffectivePinnedKey(pins) \in Keys
<1>1. EffectivePinnedKey(pins) \in Keys \cup {"", "garbage"}
  BY DEF Pins, EffectivePinnedKey, DefaultPinnedKey, Keys, Unset
<1>2. job.unit.core_sig \in Keys \cup {"absent", "not base64", "number"}
  BY DEF JobSet, UnitSet
<1>3. job.unit.core_sig = EffectivePinnedKey(pins)
  BY DEF UnitInOrder
<1> QED BY <1>1, <1>2, <1>3 DEF Keys

LEMMA RejectionIs ==
  ASSUME job \in JobSet, pins \in Pins
  PROVE  /\ Rejection(job.unit) = "none" <=> UnitInOrder /\ job.native
         /\ UnitInOrder => Rejection(job.unit) \in {"none", "crash"}
         /\ Rejection(job.unit) = "crash" /\ UnitInOrder => ~job.native
<1> DEFINE u == job.unit
<1>1. /\ u.wu_id \in {"absent", "empty", "number", "long", "odd", "seen", "fresh"}
      /\ u.field \in {"absent", "long", "ok"} /\ u.key_id \in {"pinned", "other"}
      /\ u.nonce \in {"absent", "seen", "fresh", "list"}
      /\ u.core_sig \in Keys \cup {"absent", "not base64", "number"}
      /\ job.native \in BOOLEAN
  BY DEF JobSet, UnitSet
<1>2. UnitInOrder => EffectivePinnedKey(pins) \in Keys
  BY SignedUnderAKey
<1>3. UnitInOrder <=>
         /\ u.wu_id = "fresh" /\ u.field = "ok" /\ u.text # "surrogate"
         /\ u.nonce \in {"absent", "fresh"}
         /\ u.key_id = "pinned" /\ u.core_sig = EffectivePinnedKey(pins)
  BY DEF UnitInOrder
<1>4. "absent" \notin Keys /\ "not base64" \notin Keys /\ "number" \notin Keys
  BY DEF Keys
<1> HIDE DEF u
<1>5. /\ UnitInOrder => Verifies(pins, u.key_id, u.core_sig)
      /\ Verifies(pins, u.key_id, u.core_sig) =>
            /\ u.key_id = "pinned" /\ u.core_sig = EffectivePinnedKey(pins)
            /\ EffectivePinnedKey(pins) \in Keys
  BY <1>2, <1>3 DEF Verifies
<1>6. Rejection(u) = "none" <=> UnitInOrder /\ job.native
  BY <1>1, <1>2, <1>3, <1>4, <1>5, RejectionNone
<1>7. UnitInOrder => Rejection(u) \in {"none", "crash"}
  BY <1>2, <1>3, <1>4, <1>5, RejectionNone
<1>8. Rejection(u) = "crash" /\ UnitInOrder => ~job.native
  BY <1>2, <1>3, <1>4, <1>5, RejectionNone
<1> QED BY <1>6, <1>7, <1>8 DEF u

LEMMA AcceptableIs ==
         Acceptable <=>
           /\ ValidBase(job.base) /\ Harmless
           /\ job.status # 204 /\ job.size <= MaxBytes /\ BodyInOrder
           /\ UnitInOrder
BY DEF Acceptable, Harmless, UnitInOrder, BodyInOrder

(* Every step keeps what a job has behind it in order. *)
LEMMA InOrderStep == IInv /\ [Next]_vars => InOrder'
<1> SUFFICES ASSUME Types, InOrder, [Next]_vars PROVE InOrder'
  BY DEF IInv
<1> USE DEF InOrder, Past, Built, Admitted, Answered, Checked
<1>a. /\ UNCHANGED job => /\ ValidBase(job.base)' <=> ValidBase(job.base)
                         /\ BodyInOrder' <=> BodyInOrder
      /\ UNCHANGED <<job, pins>> => (UnitInOrder' <=> UnitInOrder)
  <2>1. ASSUME UNCHANGED job
        PROVE  (ValidBase(job.base)' <=> ValidBase(job.base)) /\ (BodyInOrder' <=> BodyInOrder)
    BY <2>1 DEF ValidBase, BodyInOrder
  <2>2. ASSUME UNCHANGED <<job, pins>> PROVE UnitInOrder' <=> UnitInOrder
    <3>1. job' = job /\ pins' = pins
      BY <2>2
    <3>2. EffectivePinnedKey(pins)' = EffectivePinnedKey(pins)
      BY <3>1 DEF EffectivePinnedKey, DefaultPinnedKey
    <3> QED BY <3>1, <3>2 DEF UnitInOrder
  <2> QED BY <2>1, <2>2
<1>c. job \in JobSet /\ pins \in Pins
  BY OneJobAssumption DEF Types
<1>b. ASSUME NEW how, how # "processed", End(how), pc # "done" PROVE InOrder'
  BY <1>b DEF End
<1>1. ASSUME NEW i \in Files, ReadFile(i) PROVE InOrder'
  <2>1. pc = LoadOrder[i] /\ outcome = "none"
    BY <1>1, Reading, Names DEF Types
  <2>2. pc' \in Loading \cup {"client", "done"} /\ outcome' # "processed"
    BY <1>1, <2>1, Reading, FaultFacts, OneJobAssumption DEF Types, Loading, Files
  <2> QED BY <2>2, Names
<1>2. CASE BuildClient
  BY <1>2, <1>a, <1>b DEF BuildClient, Goto, Types
<1>3. CASE Pull
  BY <1>3, <1>a, <1>b DEF Pull, Goto, Types
<1>4. CASE NetworkFails
  BY <1>4, <1>b DEF NetworkFails
<1>5. CASE NoWork
  BY <1>5, <1>b DEF NoWork
<1>6. CASE ReadChunk
  BY <1>6, <1>a, <1>b DEF ReadChunk, Goto, Types
<1>7. CASE ReadText
  BY <1>7, <1>a, <1>b DEF ReadText, Goto, Types
<1>8. CASE Parse
  <2>1. CASE job.node = "cli" /\ job.body \in {"bad text", "not utf-8"}
    BY <1>8, <1>b, <2>1 DEF Parse
  <2>2. CASE /\ ~(job.node = "cli" /\ job.body \in {"bad text", "not utf-8"})
             /\ job.body \in {"not utf-8", "not json", "not an object"}
    BY <1>8, <1>b, <2>2 DEF Parse
  <2>3. CASE /\ ~(job.node = "cli" /\ job.body \in {"bad text", "not utf-8"})
             /\ job.body \notin {"not utf-8", "not json", "not an object"}
    <3>1. BodyInOrder
      BY <1>c, <2>3 DEF BodyInOrder, JobSet
    <3>2. Goto("check") /\ job.status # 204 /\ got = job.size /\ pc = "read"
      BY <1>8, <2>3 DEF Parse
    <3> QED BY <1>a, <3>1, <3>2 DEF Goto, Types
  <2> QED BY <2>1, <2>2, <2>3
<1>9. CASE Check
  <2>1. CASE Rejection(job.unit) = "none"
    BY <1>9, <1>a, <1>c, <2>1, RejectionIs DEF Check, Goto, Types
  <2>2. CASE Rejection(job.unit) # "none"
    BY <1>9, <1>b, <2>2, RejectionNone DEF Check
  <2> QED BY <2>1, <2>2
<1>10. CASE Classify
  BY <1>10, <1>a DEF Classify, Goto, Types
<1>11. CASE ClassifyFails
  BY <1>11, <1>b DEF ClassifyFails
<1>12. CASE SignResult
  BY <1>12, <1>a DEF SignResult, Goto, Types
<1>13. CASE Post
  BY <1>13, <1>a DEF Post, End, Types
<1>14. CASE Promote
  BY <1>14, <1>a DEF Promote
<1>15. ASSUME NEW key \in PageKeys, NewNode(key) PROVE InOrder'
  BY <1>15, <1>a DEF NewNode, Types
<1>16. CASE UNCHANGED vars
  BY <1>16, <1>a DEF vars
<1> QED
  BY <1>1, <1>2, <1>3, <1>4, <1>5, <1>6, <1>7, <1>8, <1>9, <1>10, <1>11, <1>12, <1>13,
     <1>14, <1>15, <1>16, Names DEF Next, Step, Finished

(* Every step turns down only what is not acceptable. *)
LEMMA TurnedDownStep == IInv /\ [Next]_vars => TurnedDown'
<1> SUFFICES ASSUME Types, TurnedDown, [Next]_vars PROVE TurnedDown'
  BY DEF IInv
<1>0. /\ job \in JobSet /\ pins \in Pins /\ job.size \in Nat /\ MaxBytes \in Nat
      /\ got \in Nat /\ got <= job.size
  BY OneJobAssumption DEF Types, JobSet
<1>a. ASSUME UNCHANGED <<job, pins>> PROVE (Acceptable' <=> Acceptable) /\ job' = job
  <2>1. EffectivePinnedKey(pins)' = EffectivePinnedKey(pins)
    BY <1>a DEF EffectivePinnedKey, DefaultPinnedKey
  <2>2. ValidBase(job.base)' <=> ValidBase(job.base)
    BY <1>a DEF ValidBase
  <2> QED BY <1>a, <2>1, <2>2 DEF Acceptable
<1>b. ASSUME outcome' \notin Refusals, outcome' # "crash" PROVE TurnedDown'
  BY <1>b DEF TurnedDown
<1>c. ASSUME NEW how, End(how), how \in Refusals => ~Acceptable,
             how = "crash" /\ Acceptable => ~job.native
      PROVE  TurnedDown'
  BY <1>a, <1>c DEF End, TurnedDown
<1> USE DEF Refusals
<1>d. ASSUME NEW label, Goto(label), pc # "done" PROVE TurnedDown'
  BY <1>b, <1>d DEF Goto, Types
<1>1. ASSUME NEW i \in Files, ReadFile(i) PROVE TurnedDown'
  <2>1. CASE Fault(i) = "none"
    <3>1. outcome' = "none"
      BY <1>1, <2>1, Reading, Names DEF Types
    <3> QED BY <1>b, <3>1
  <2>2. CASE Fault(i) # "none"
    <3>1. Fault(i) = "crash" => ~Acceptable
      BY <1>0, AcceptableIs, FaultFacts
    <3>2. Fault(i) \in {"RuntimeError", "crash"}
      BY <1>0, <2>2, FaultFacts
    <3>3. End(Fault(i))
      BY <1>1, <2>2 DEF ReadFile
    <3> QED BY <1>c, <3>1, <3>2, <3>3
  <2> QED BY <2>1, <2>2
<1>2. CASE BuildClient
  BY <1>2, <1>c, <1>d, AcceptableIs DEF BuildClient
<1>3. CASE Pull
  BY <1>3, <1>d, OwnEdge DEF Pull
<1>4. CASE NetworkFails
  BY <1>4, <1>c DEF NetworkFails
<1>5. CASE NoWork
  BY <1>5, <1>c, AcceptableIs DEF NoWork
<1>6. CASE ReadChunk
  <2> DEFINE chunk == IF job.size - got < ChunkSize THEN job.size - got ELSE ChunkSize
  <2>1. CASE TooLarge(got + chunk)
    <3>1. got + chunk <= job.size /\ got + chunk \in Nat
      BY <1>0, OneJobAssumption
    <3>2. ~(job.size <= MaxBytes)
      <4> HIDE DEF chunk
      <4> QED BY <1>0, <2>1, <3>1 DEF TooLarge
    <3>3. End("CorePinError")
      BY <1>6, <2>1 DEF ReadChunk
    <3> QED BY <1>c, <3>2, <3>3, AcceptableIs
  <2>2. CASE ~TooLarge(got + chunk)
    BY <1>6, <1>d, <2>2 DEF ReadChunk
  <2> QED BY <2>1, <2>2
<1>7. CASE ReadText
  BY <1>7, <1>c, <1>d DEF ReadText
<1>8. CASE Parse
  BY <1>8, <1>c, <1>d, AcceptableIs DEF Parse, BodyInOrder
<1>9. CASE Check
  <2>1. CASE Rejection(job.unit) = "none"
    BY <1>9, <1>d, <2>1 DEF Check
  <2>2. CASE Rejection(job.unit) # "none"
    <3>1. /\ Rejection(job.unit) # "crash" => ~Acceptable
          /\ Rejection(job.unit) = "crash" /\ Acceptable => ~job.native
      BY <1>0, <2>2, RejectionIs, AcceptableIs
    <3>2. End(Rejection(job.unit))
      BY <1>9, <2>2 DEF Check
    <3> QED BY <1>c, <3>1, <3>2
  <2> QED BY <2>1, <2>2
<1>10. CASE Classify
  BY <1>10, <1>d DEF Classify
<1>11. CASE ClassifyFails
  BY <1>11, <1>c DEF ClassifyFails
<1>12. CASE SignResult
  BY <1>12, <1>d DEF SignResult
<1>13. CASE Post
  BY <1>13, <1>c, OwnEdge DEF Post
<1>14. CASE Promote
  BY <1>14, <1>b, Names DEF Promote, Types
<1>15. ASSUME NEW key \in PageKeys, NewNode(key) PROVE TurnedDown'
  BY <1>15, <1>b DEF NewNode, Types
<1>16. CASE UNCHANGED vars
  BY <1>16, <1>a DEF vars, TurnedDown
<1> QED
  BY <1>1, <1>2, <1>3, <1>4, <1>5, <1>6, <1>7, <1>8, <1>9, <1>10, <1>11, <1>12, <1>13,
     <1>14, <1>15, <1>16, Names DEF Next, Step, Finished

----------------------------------------------------------------------------
LEMMA InitIInv == Init => IInv
<1> SUFFICES ASSUME Init PROVE IInv
  OBVIOUS
<1>1. /\ job \in Jobs /\ outcome = "none" /\ pins = job.pins
      /\ current = <<1>> /\ got = 0 /\ result = NoResult
  BY DEF Init
<1>2. job \in JobSet /\ (job.node = "browser" => job.flaw = NoFlaw)
  BY <1>1, OneJobAssumption
<1>3. /\ loaded \in [Files -> Nat] /\ \A i \in Files : loaded[i] = 0
  BY Names DEF Init
<1>4. /\ job.node = "cli" => pc = LoadOrder[1]
      /\ job.node = "browser" => pc = "client"
      /\ job.node \in {"cli", "browser"}
  BY <1>2 DEF Init, JobSet
<1>5. Types
  <2>1. pc \in Loading \cup Ready
    BY <1>4 DEF Loading, Files, Ready
  <2>2. pc # "done"
    BY <2>1, Names DEF Ready, Built, Admitted, Answered, Checked
  <2>3. pins \in Pins /\ job.size \in Nat
    BY <1>1, <1>2 DEF JobSet
  <2>4. current \in Seq(Versions) /\ current # <<>> /\ MaxBytes \in Nat
    BY <1>1, ModelAssumption, OneJobAssumption
  <2>5. got \in Nat /\ got <= MaxBytes /\ got <= job.size
    BY <1>1, <2>3, <2>4
  <2>6. pc = "done" <=> outcome # "none"
    BY <1>1, <2>2
  <2> QED BY <1>1, <1>3, <2>1, <2>3, <2>4, <2>5, <2>6 DEF Types
<1>6. CASE job.node = "browser"
  <2>1. pc = "client" /\ Harmless
    BY <1>2, <1>4, <1>6 DEF Harmless
  <2>2. \A i \in Files : pc # LoadOrder[i]
    BY <2>1, Names DEF Ready
  <2>3. Artifact /\ Versioned
    BY <1>1, <1>3, <1>6, <2>1, <2>2, Names DEF Artifact, Versioned, Files
  <2> QED BY <1>1, <1>5, <2>1, <2>3 DEF IInv, InOrder, Past, Built, Admitted, Answered,
                 Checked, TurnedDown, Refusals, Named, Labelled, NoResult
<1>7. CASE job.node = "cli"
  <2>1. pc = LoadOrder[1] /\ pc = "card"
    BY <1>4, <1>7, Names
  <2>2. \A i \in Files : pc = LoadOrder[i] => i = 1
    BY <2>1, Names DEF Files
  <2>3. Harmless \/ job.flaw[2] \in {LoadOrder[j] : j \in 1 .. 6} \cup {"weights", "runtime"}
    <3> DEFINE f == job.flaw
    <3>1. f = NoFlaw \/ f \in {"missing", "invalid", "odd"} \X
             {"card", "embedder", "features", "calibration", "weights", "runtime"}
      BY <1>2 DEF JobSet
    <3> HIDE DEF f
    <3>2. \/ f = NoFlaw
          \/ f[2] \in {"card", "embedder", "features", "calibration", "weights", "runtime"}
      BY <3>1
    <3>3. {LoadOrder[j] : j \in 1 .. 6} =
             {"card", "embedder", "features", "calibration", "hash", "weights"}
      BY Names DEF Loading, Files
    <3> QED BY <3>2, <3>3 DEF f, Harmless
  <2>4. pc # "weights" /\ pc \notin Ready
    BY <2>1 DEF Ready, Built, Admitted, Answered, Checked
  <2>5. Artifact
    BY <1>1, <2>2, <2>3, <2>4 DEF Artifact
  <2>6. Versioned
    BY <1>1, <1>3, <2>2, <2>4 DEF Versioned, Files
  <2>7. InOrder
    BY <1>1, <2>1 DEF InOrder, Past, Built, Admitted, Answered, Checked
  <2> QED BY <1>1, <1>5, <2>5, <2>6, <2>7 DEF IInv, TurnedDown, Refusals, Named, Labelled, NoResult
<1> QED BY <1>4, <1>6, <1>7

LEMMA NextIInv == IInv /\ [Next]_vars => IInv'
BY TypesStep, ArtifactStep, VersionedStep, InOrderStep, TurnedDownStep, NamedStep, LabelledStep
   DEF IInv

LEMMA Invariance == Spec => []IInv
BY InitIInv, NextIInv, PTL DEF Spec

----------------------------------------------------------------------------
(* A job is processed only if what it was given is in order, turned down only *)
(* if it is not, and ends in another exception in spite of being in order     *)
(* only where `cryptography` is missing, for any jobs, limit and size of the  *)
(* chunks.                                                                    *)
THEOREM AnswersWhatIsDue == Spec => []SubmittedIffAcceptable
<1>1. ASSUME IInv, outcome = "processed" PROVE Acceptable
  BY <1>1, AcceptableIs DEF IInv, Artifact, InOrder, Past
<1>2. IInv => SubmittedIffAcceptable
  BY <1>1 DEF IInv, TurnedDown, Refusals, SubmittedIffAcceptable
<1> QED BY <1>2, Invariance, PTL

(* Whatever the pages hand over and whenever they do, a unit gets past the    *)
(* checks only under a key that was named, or the dev key with its flag.      *)
THEOREM TrustsNamedKeys == Spec => []OnlyNamedKeys
<1>1. ASSUME IInv, PastTheChecks PROVE OnlyNamedKeys
  <2>1. Types /\ Named /\ UnitInOrder
    BY <1>1 DEF IInv, InOrder, Past, PastTheChecks, Checked
  <2>2. job \in JobSet
    BY <2>1, OneJobAssumption DEF Types
  <2>3. job.unit.core_sig = EffectivePinnedKey(pins)
    BY <2>1 DEF UnitInOrder
  <2>4. EffectivePinnedKey(pins) \in Keys
    BY <2>1, <2>2, SignedUnderAKey DEF Types
  <2>5. \/ EffectivePinnedKey(pins) = pins.override
        \/ EffectivePinnedKey(pins) = pins.patched
        \/ EffectivePinnedKey(pins) = "dev" /\ pins.dev
    BY <2>4 DEF EffectivePinnedKey, DefaultPinnedKey, Keys
  <2> QED BY <2>1, <2>3, <2>5 DEF Named, OnlyNamedKeys
<1>2. IInv => OnlyNamedKeys
  BY <1>1 DEF OnlyNamedKeys
<1> QED BY <1>2, Invariance, PTL

(* Whatever is promoted and rolled back while the files are read, without a   *)
(* promotion between the hash of the classifier and its load the classifier   *)
(* is the one the card names; and all files are of the card's version if no   *)
(* other has its classifier and no version came back.                         *)
THEOREM LoadsOneVersion == Spec => []OneVersion
<1>1. ASSUME IInv, loaded[6] # 0, loaded[6] = loaded[5]
      PROVE  /\ Joblib[loaded[6]] = Joblib[loaded[1]]
             /\ ~RolledBack /\ Unique => \A i \in DOMAIN LoadOrder : loaded[i] = loaded[1]
  <2>1. Joblib[loaded[5]] = Joblib[loaded[1]]
    BY <1>1 DEF IInv, Versioned
  <2>2. ~RolledBack /\ Unique => \A i \in 1 .. 5 : loaded[i] = loaded[1]
    BY <1>1 DEF IInv, Versioned
  <2> QED BY <1>1, <2>1, <2>2, Names DEF Files
<1>2. IInv => OneVersion
  BY <1>1 DEF OneVersion, Unique
<1> QED BY <1>2, Invariance, PTL

(* A probability of at least a threshold of 0.6 or more is rounded to a score *)
(* of at least 0.6, for any probabilities and thresholds.                     *)
THEOREM MisinformationShown == Spec => []MisinformationIsShown
<1>1. ASSUME IInv, result.label = "misinformation", result.threshold >= 6000
      PROVE  ShownAsDisinformation
  <2>1. PICK p \in Probabilities : p >= result.threshold /\ result.score = Thousandths(p)
    BY <1>1 DEF IInv, Labelled
  <2>2. result.threshold \in Int /\ p \in Int
    BY <1>1, ModelAssumption DEF IInv, Labelled
  <2>3. p >= 6000
    BY <1>1, <2>1, <2>2
  <2>4. Bounded(p) \in Int /\ Bounded(p) >= 6000
    BY <2>2, <2>3 DEF Bounded
  <2>5. Thousandths(p) >= 600
    BY <2>4 DEF Thousandths
  <2> QED BY <1>1, <2>1, <2>5 DEF ShownAsDisinformation
<1>2. IInv => MisinformationIsShown
  BY <1>1 DEF MisinformationIsShown
<1> QED BY <1>2, Invariance, PTL

----------------------------------------------------------------------------
(* Induction and recursion over Nat. *)

(* A set in place of the predicate of an induction. *)
LEMMA SetInduction ==
  ASSUME NEW T, 0 \in T, \A n \in Nat : n \in T => n + 1 \in T
  PROVE  Nat \subseteq T
<1> SUFFICES ASSUME Nat \ T # {} PROVE FALSE
  OBVIOUS
<1>1. PICK m \in Nat \ T : \A n \in Nat \ T : m <= n
  BY LeastNumber
<1>2. m - 1 \in Nat /\ m - 1 \notin Nat \ T
  BY <1>1
<1> QED BY <1>2

(* A function can be defined by its first value and a step. *)
Iterates(S, a, f, n, h) ==
  h \in [0 .. n -> S] /\ h[0] = a /\ \A i \in 0 .. n - 1 : h[i + 1] = f[h[i]]

LEMMA Iteration ==
  ASSUME NEW S, NEW a \in S, NEW f \in [S -> S]
  PROVE  \E g \in [Nat -> S] : g[0] = a /\ \A n \in Nat : g[n + 1] = f[g[n]]
<1> DEFINE T == {n \in Nat : \E h : Iterates(S, a, f, n, h)}
<1>1. 0 \in T
  <2>1. Iterates(S, a, f, 0, [i \in 0 .. 0 |-> a])
    BY DEF Iterates
  <2> QED BY <2>1
<1>2. ASSUME NEW n \in Nat, n \in T PROVE n + 1 \in T
  <2>1. PICK h : Iterates(S, a, f, n, h)
    BY <1>2
  <2> DEFINE longer == [i \in 0 .. n + 1 |-> IF i <= n THEN h[i] ELSE f[h[n]]]
  <2>2. h \in [0 .. n -> S] /\ h[n] \in S /\ f[h[n]] \in S
    BY <2>1 DEF Iterates
  <2>3. longer \in [0 .. n + 1 -> S] /\ longer[0] = a
    BY <2>1, <2>2 DEF Iterates
  <2>4. \A i \in 0 .. n : longer[i + 1] = f[longer[i]]
    BY <2>1, <2>2 DEF Iterates
  <2>5. Iterates(S, a, f, n + 1, longer)
    <3> HIDE DEF longer
    <3> QED BY <2>3, <2>4 DEF Iterates
  <2> QED BY <2>5
<1> HIDE DEF T
<1>3. Nat \subseteq T
  BY <1>1, <1>2, SetInduction
<1> DEFINE H == [n \in Nat |-> CHOOSE h : Iterates(S, a, f, n, h)]
<1>4. \A n \in Nat : Iterates(S, a, f, n, H[n])
  BY <1>3 DEF T
<1> HIDE DEF H
<1> DEFINE U == {i \in Nat : \A n \in Nat : i <= n => H[n][i] = H[i][i]}
<1>5. 0 \in U
  BY <1>4 DEF Iterates
<1>6. ASSUME NEW i \in Nat, i \in U PROVE i + 1 \in U
  <2> SUFFICES ASSUME NEW n \in Nat, i + 1 <= n PROVE H[n][i + 1] = H[i + 1][i + 1]
    OBVIOUS
  <2>1. H[n][i + 1] = f[H[n][i]]
    BY <1>4 DEF Iterates
  <2>2. H[i + 1][i + 1] = f[H[i + 1][i]]
    BY <1>4 DEF Iterates
  <2>3. H[n][i] = H[i][i] /\ H[i + 1][i] = H[i][i]
    BY <1>6
  <2> QED BY <2>1, <2>2, <2>3
<1> HIDE DEF U
<1>7. Nat \subseteq U
  BY <1>5, <1>6, SetInduction
<1> DEFINE g == [n \in Nat |-> H[n][n]]
<1>8. g \in [Nat -> S] /\ g[0] = a
  BY <1>4 DEF Iterates
<1>9. \A n \in Nat : g[n + 1] = f[g[n]]
  <2> TAKE n \in Nat
  <2>1. H[n + 1][n + 1] = f[H[n + 1][n]]
    BY <1>4 DEF Iterates
  <2>2. H[n + 1][n] = H[n][n]
    BY <1>7 DEF U
  <2> QED BY <2>1, <2>2
<1> QED BY <1>8, <1>9

----------------------------------------------------------------------------
LEMMA TimesIs ==
  ASSUME NEW p \in Curve
  PROVE  /\ Times(0, p) = Neutral
         /\ \A n \in Nat : Times(n, p) \in Curve /\ Times(n + 1, p) = AffineAdd(Times(n, p), p)
<1> DEFINE body(g) == [m \in Nat |-> IF m = 0 THEN Neutral ELSE AffineAdd(g[m - 1], p)]
           f == [q \in Curve |-> AffineAdd(q, p)]
           multiple == CHOOSE g : g = body(g)
<1>1. f \in [Curve -> Curve] /\ Neutral \in Curve
  BY GroupAssumption
<1>2. PICK g \in [Nat -> Curve] : g[0] = Neutral /\ \A n \in Nat : g[n + 1] = f[g[n]]
  <2> HIDE DEF f
  <2> QED BY SMTT(20), <1>1, Iteration
<1>3. g = body(g)
  <2>1. ASSUME NEW m \in Nat \ {0} PROVE g[m] = AffineAdd(g[m - 1], p)
    <3>1. m - 1 \in Nat /\ (m - 1) + 1 = m
      OBVIOUS
    <3>2. g[m] = f[g[m - 1]] /\ g[m - 1] \in Curve
      BY <1>2, <3>1
    <3> QED BY <3>2
  <2>2. \A m \in Nat : g[m] = body(g)[m]
    BY <1>2, <2>1
  <2> QED BY <1>2, <2>2
<1>4. multiple = body(multiple)
  <2> HIDE DEF body
  <2> QED BY <1>3
<1>5. \A n \in Nat : Times(n, p) = multiple[n]
  BY DEF Times
<1> HIDE DEF multiple
<1>6. multiple[0] = Neutral /\ \A n \in Nat : multiple[n + 1] = AffineAdd(multiple[n], p)
  <2>1. \A n \in Nat : n + 1 \in Nat /\ n + 1 # 0 /\ (n + 1) - 1 = n
    OBVIOUS
  <2> QED BY <1>4, <2>1
<1>7. \A n \in Nat : multiple[n] \in Curve
  <2> DEFINE T == {n \in Nat : multiple[n] \in Curve}
  <2>1. 0 \in T
    BY <1>6, GroupAssumption
  <2>2. ASSUME NEW n \in Nat, n \in T PROVE n + 1 \in T
    <3>1. multiple[n] \in Curve /\ multiple[n + 1] = AffineAdd(multiple[n], p)
      BY <1>6, <2>2
    <3>2. AffineAdd(multiple[n], p) \in Curve
      BY <3>1, GroupAssumption
    <3> QED BY <3>1, <3>2
  <2> HIDE DEF T
  <2>3. Nat \subseteq T
    BY <2>1, <2>2, SetInduction
  <2> QED BY <2>3 DEF T
<1> QED BY <1>5, <1>6, <1>7

LEMMA TimesSum ==
  ASSUME NEW p \in Curve, NEW m \in Nat, NEW n \in Nat
  PROVE  Times(m + n, p) = AffineAdd(Times(m, p), Times(n, p))
<1> DEFINE T == {i \in Nat : Times(m + i, p) = AffineAdd(Times(m, p), Times(i, p))}
<1>1. 0 \in T
  <2>1. m + 0 = m
    OBVIOUS
  <2>2. AffineAdd(Times(m, p), Neutral) = Times(m, p)
    BY TimesIs, GroupAssumption
  <2> QED BY <2>1, <2>2, TimesIs
<1>2. ASSUME NEW i \in Nat, i \in T PROVE i + 1 \in T
  <2>1. m + (i + 1) = (m + i) + 1 /\ m + i \in Nat
    OBVIOUS
  <2>2. Times(m + (i + 1), p) = AffineAdd(Times(m + i, p), p)
    BY <2>1, TimesIs
  <2>3. Times(m + i, p) = AffineAdd(Times(m, p), Times(i, p))
    BY <1>2
  <2>4. Times(m, p) \in Curve /\ Times(i, p) \in Curve /\ Times(i + 1, p) = AffineAdd(Times(i, p), p)
    BY TimesIs
  <2>5. AffineAdd(AffineAdd(Times(m, p), Times(i, p)), p) = AffineAdd(Times(m, p), AffineAdd(Times(i, p), p))
    BY <2>4, GroupAssumption
  <2> QED BY <2>2, <2>3, <2>4, <2>5
<1> HIDE DEF T
<1>3. Nat \subseteq T
  BY <1>1, <1>2, SetInduction
<1> QED BY <1>3 DEF T

LEMMA TimesProduct ==
  ASSUME NEW p \in Curve, NEW m \in Nat, NEW n \in Nat
  PROVE  m * n \in Nat /\ Times(m * n, p) = Times(m, Times(n, p))
<1> DEFINE q == Times(n, p)
           T == {i \in Nat : Times(i * n, p) = Times(i, q)}
<1>0. q \in Curve
  BY TimesIs
<1> HIDE DEF q
<1>1. 0 \in T
  <2>1. 0 * n = 0
    OBVIOUS
  <2> QED BY <1>0, <2>1, TimesIs
<1>2. ASSUME NEW i \in Nat, i \in T PROVE i + 1 \in T
  <2>1. (i + 1) * n = i * n + n /\ i * n \in Nat
    OBVIOUS
  <2>2. Times((i + 1) * n, p) = AffineAdd(Times(i * n, p), Times(n, p))
    BY <2>1, TimesSum
  <2>3. Times(i * n, p) = Times(i, q)
    BY <1>2
  <2>4. Times(i + 1, q) = AffineAdd(Times(i, q), q)
    BY <1>0, TimesIs
  <2> QED BY <2>2, <2>3, <2>4 DEF q
<1> HIDE DEF T
<1>3. Nat \subseteq T
  BY <1>1, <1>2, SetInduction
<1> QED BY <1>3 DEF T, q

----------------------------------------------------------------------------
LEMMA EdwardsIsAPoint ==
  ASSUME NEW u \in Points, NEW v \in Points
  PROVE  Edwards(u, v) \in Points
<1>1. P \in Nat \ {0} /\ D \in Int
  BY CurveAssumption
<1>2. \A x \in Int : x % P \in Field
  BY <1>1 DEF Field
<1>3. \A i \in 1 .. 4 : u[i] \in Int /\ v[i] \in Int
  BY <1>1 DEF Points, Field
<1>4. u[1] \in Int /\ u[2] \in Int /\ u[3] \in Int /\ u[4] \in Int
  BY <1>3
<1>5. v[1] \in Int /\ v[2] \in Int /\ v[3] \in Int /\ v[4] \in Int
  BY <1>3
<1> DEFINE a == ((u[2] - u[1]) * (v[2] - v[1])) % P
           b == ((u[2] + u[1]) * (v[2] + v[1])) % P
           c == (u[4] * 2 * D * v[4]) % P
           d == (u[3] * 2 * v[3]) % P
<1>6. /\ (u[2] - u[1]) * (v[2] - v[1]) \in Int /\ (u[2] + u[1]) * (v[2] + v[1]) \in Int
      /\ u[4] * 2 * D * v[4] \in Int /\ u[3] * 2 * v[3] \in Int
  BY <1>1, <1>4, <1>5
<1>7. a \in Int /\ b \in Int /\ c \in Int /\ d \in Int
  <2>1. Field \subseteq Int
    BY <1>1 DEF Field
  <2>2. a \in Field /\ b \in Field /\ c \in Field /\ d \in Field
    <3> HIDE DEF Field
    <3> QED BY <1>2, <1>6
  <2> QED BY <2>1, <2>2
<1>8. Edwards(u, v) = <<((b - a) * (d - c)) % P, ((d + c) * (b + a)) % P,
                        ((d - c) * (d + c)) % P, ((b - a) * (b + a)) % P>>
  BY DEF Edwards
<1> HIDE DEF a, b, c, d
<1>9. /\ (b - a) * (d - c) \in Int /\ (d + c) * (b + a) \in Int
      /\ (d - c) * (d + c) \in Int /\ (b - a) * (b + a) \in Int
  BY <1>7
<1> QED BY <1>2, <1>8, <1>9 DEF Points

(* The loop of double-and-add, and a turn of it. *)
Loops == Points \X Points \X Nat

Turn(w) == <<IF w[3] % 2 = 1 THEN Edwards(w[1], w[2]) ELSE w[1], Edwards(w[2], w[2]), w[3] \div 2>>

LEMMA Halves ==
  ASSUME NEW e \in Nat
  PROVE  /\ e \div 2 \in Nat
         /\ e # 0 => e \div 2 <= e - 1
         /\ e = (IF e % 2 = 1 THEN 1 ELSE 0) + (e \div 2) * 2
OBVIOUS

LEMMA LoopIs ==
  ASSUME NEW w \in Loops
  PROVE  DoubleAndAdd[w] = IF w[3] = 0 THEN w[1] ELSE DoubleAndAdd[Turn(w)]
<1> DEFINE f == [x \in Loops |-> IF x[3] = 0 THEN x ELSE Turn(x)]
           body(g) == [x \in Loops |-> IF x[3] = 0 THEN x[1] ELSE g[Turn(x)]]
<1>1. \A x \in Loops : x[1] \in Points /\ x[2] \in Points /\ x[3] \in Nat
  BY DEF Loops
<1>2. \A x \in Loops : Turn(x) \in Loops /\ Turn(x)[3] = x[3] \div 2
  <2> TAKE x \in Loops
  <2>1. x[1] \in Points /\ x[2] \in Points /\ x[3] \div 2 \in Nat
    BY <1>1, Halves
  <2>2. Edwards(x[1], x[2]) \in Points /\ Edwards(x[2], x[2]) \in Points
    BY <2>1, EdwardsIsAPoint
  <2> QED BY <2>1, <2>2 DEF Turn, Loops
<1>3. f \in [Loops -> Loops]
  BY <1>2
<1>4. \A x \in Loops : f[x] = IF x[3] = 0 THEN x ELSE Turn(x)
  OBVIOUS
<1> HIDE DEF f
<1> DEFINE Runs(x, g) == g \in [Nat -> Loops] /\ g[0] = x /\ \A n \in Nat : g[n + 1] = f[g[n]]
           G == [x \in Loops |-> CHOOSE g : Runs(x, g)]
<1>5. \A x \in Loops : Runs(x, G[x])
  <2> TAKE x \in Loops
  <2>1. \E g : Runs(x, g)
    BY SMTT(20), <1>3, Iteration
  <2> HIDE DEF Runs
  <2> QED BY <2>1
<1> HIDE DEF G
<1>6. \A x \in Loops : /\ G[x][0] = x
                       /\ \A n \in Nat : G[x][n] \in Loops /\ G[x][n + 1] = f[G[x][n]]
  BY <1>5
<1> HIDE DEF Runs
(* A turn first or last. *)
<1>7. \A n \in Nat, x \in Loops : G[x][n + 1] = G[f[x]][n]
  <2> DEFINE T == {n \in Nat : \A x \in Loops : G[x][n + 1] = G[f[x]][n]}
  <2>0. \A x \in Loops : f[x] \in Loops
    BY <1>3
  <2>1. 0 \in T
    <3> SUFFICES ASSUME NEW x \in Loops PROVE G[x][0 + 1] = G[f[x]][0]
      OBVIOUS
    <3>1. G[x][0 + 1] = f[G[x][0]] /\ G[x][0] = x /\ G[f[x]][0] = f[x]
      BY <1>6, <2>0
    <3> QED BY <3>1
  <2>2. ASSUME NEW n \in Nat, n \in T PROVE n + 1 \in T
    <3> SUFFICES ASSUME NEW x \in Loops PROVE G[x][(n + 1) + 1] = G[f[x]][n + 1]
      OBVIOUS
    <3>1. G[x][(n + 1) + 1] = f[G[x][n + 1]]
      BY <1>6
    <3>2. G[x][n + 1] = G[f[x]][n]
      BY <2>2
    <3>3. G[f[x]][n + 1] = f[G[f[x]][n]]
      BY <1>6, <2>0
    <3> QED BY <3>1, <3>2, <3>3
  <2> HIDE DEF T
  <2>3. Nat \subseteq T
    BY <2>1, <2>2, SetInduction
  <2> QED BY <2>3 DEF T
(* As many turns as e are enough. *)
<1>8. \A n \in Nat, x \in Loops : x[3] <= n => G[x][n + 1] = G[x][n]
  <2> DEFINE T == {n \in Nat : \A x \in Loops : x[3] <= n => G[x][n + 1] = G[x][n]}
  <2>1. ASSUME NEW x \in Loops, x[3] = 0, NEW n \in Nat PROVE G[x][n + 1] = G[x][n]
    BY <1>4, <1>7, <2>1
  <2>2. 0 \in T
    <3>1. \A x \in Loops : x[3] <= 0 => x[3] = 0
      BY <1>1
    <3> QED BY <2>1, <3>1
  <2>3. ASSUME NEW n \in Nat, n \in T PROVE n + 1 \in T
    <3> SUFFICES ASSUME NEW x \in Loops, x[3] <= n + 1, x[3] # 0
                 PROVE  G[x][(n + 1) + 1] = G[x][n + 1]
      BY <2>1
    <3>1. f[x] \in Loops /\ f[x][3] <= n
      <4>1. f[x] = Turn(x) /\ x[3] \in Nat
        BY <1>1, <1>4
      <4>2. x[3] \div 2 <= x[3] - 1 /\ x[3] \div 2 \in Nat
        BY <4>1, Halves
      <4> QED BY <1>2, <4>1, <4>2
    <3>2. G[f[x]][n + 1] = G[f[x]][n]
      BY <2>3, <3>1
    <3>3. G[x][(n + 1) + 1] = G[f[x]][n + 1] /\ G[x][n + 1] = G[f[x]][n]
      BY <1>7
    <3> QED BY <3>2, <3>3
  <2> HIDE DEF T
  <2>4. Nat \subseteq T
    BY <2>2, <2>3, SetInduction
  <2> QED BY <2>4 DEF T
<1>9. ASSUME NEW x \in Loops, NEW n \in Nat, x[3] <= n PROVE G[x][n] = G[x][x[3]]
  <2> DEFINE T == {j \in Nat : G[x][x[3] + j] = G[x][x[3]]}
  <2>0. x[3] \in Nat
    BY <1>1
  <2>1. 0 \in T
    BY <2>0
  <2>2. ASSUME NEW j \in Nat, j \in T PROVE j + 1 \in T
    <3>1. x[3] + (j + 1) = (x[3] + j) + 1 /\ x[3] + j \in Nat /\ x[3] <= x[3] + j
      BY <2>0
    <3>2. G[x][(x[3] + j) + 1] = G[x][x[3] + j]
      BY <1>8, <3>1
    <3> QED BY <2>2, <3>1, <3>2
  <2> HIDE DEF T
  <2>3. Nat \subseteq T
    BY <2>1, <2>2, SetInduction
  <2>4. n - x[3] \in T /\ x[3] + (n - x[3]) = n
    BY <1>9, <2>0, <2>3
  <2> QED BY <2>4 DEF T
<1> DEFINE F == [x \in Loops |-> G[x][x[3]][1]]
<1>10. F = body(F)
  <2>1. ASSUME NEW x \in Loops PROVE F[x] = IF x[3] = 0 THEN x[1] ELSE F[Turn(x)]
    <3>1. CASE x[3] = 0
      BY <1>6, <3>1
    <3>2. CASE x[3] # 0
      <4> DEFINE y == Turn(x)
      <4>1. x[3] \in Nat /\ x[3] - 1 \in Nat /\ (x[3] - 1) + 1 = x[3]
        BY <1>1, <3>2
      <4>2. f[x] = y /\ y \in Loops /\ y[3] = x[3] \div 2
        BY <1>2, <1>4, <3>2
      <4> HIDE DEF y
      <4>3. y[3] <= x[3] - 1
        BY <3>2, <4>1, <4>2, Halves
      <4>4. G[x][(x[3] - 1) + 1] = G[y][x[3] - 1]
        BY <1>7, <4>1, <4>2
      <4>5. G[x][x[3]] = G[y][y[3]]
        BY <1>9, <4>1, <4>2, <4>3, <4>4
      <4> QED BY <3>2, <4>2, <4>5 DEF y
    <3> QED BY <3>1, <3>2
  <2> HIDE DEF F
  <2>2. F = [x \in Loops |-> F[x]]
    BY DEF F
  <2> QED BY <2>1, <2>2
<1>11. DoubleAndAdd = CHOOSE g : g = body(g)
  BY DEF DoubleAndAdd, Loops, Turn
<1> HIDE DEF F
<1>12. DoubleAndAdd = body(DoubleAndAdd)
  <2> HIDE DEF body
  <2> QED BY <1>10, <1>11
<1> QED BY <1>12

----------------------------------------------------------------------------
(* Coordinates of points of the curve.                                        *)
LEMMA CoordinatesAreAPoint ==
  ASSUME NEW p \in Curve, NEW u \in CoordinatesOf(p)
  PROVE  u \in Points
<1>1. P \in Nat \ {0}
  BY CurveAssumption
<1>2. \A x \in Int : x % P \in Field
  BY <1>1 DEF Field
<1>3. p[1] \in Int /\ p[2] \in Int
  BY <1>1 DEF Curve, Field
<1>4. PICK z \in 1 .. P - 1 : u = <<(p[1] * z) % P, (p[2] * z) % P, z, (p[1] * p[2] * z) % P>>
  BY DEF CoordinatesOf
<1>5. p[1] * z \in Int /\ p[2] * z \in Int /\ p[1] * p[2] * z \in Int /\ z \in Field
  BY <1>1, <1>3 DEF Field
<1> QED BY <1>2, <1>4, <1>5 DEF Points

LEMMA ExtendedIs ==
  ASSUME NEW p \in Curve
  PROVE  Extended(p[1], p[2]) \in CoordinatesOf(p)
<1>1. P \in Nat /\ 1 \in 1 .. P - 1
  BY CurveAssumption
<1>2. p[1] \in 0 .. P - 1 /\ p[2] \in 0 .. P - 1
  BY DEF Curve, Field
<1>3. p[1] * 1 = p[1] /\ p[2] * 1 = p[2] /\ p[1] * p[2] * 1 = p[1] * p[2]
  BY <1>1, <1>2
<1>4. p[1] % P = p[1] /\ p[2] % P = p[2]
  BY <1>1, <1>2
<1>5. Extended(p[1], p[2]) = <<(p[1] * 1) % P, (p[2] * 1) % P, 1, (p[1] * p[2] * 1) % P>>
  BY <1>3, <1>4 DEF Extended
<1> QED BY <1>1, <1>5 DEF CoordinatesOf

(* A point of the curve is known by what is sent of it.                       *)
LEMMA CompressedIsInjective ==
  ASSUME NEW p \in Curve, NEW q \in Curve, Compressed(p) = Compressed(q)
  PROVE  p = q
<1>1. Extended(p[1], p[2]) = Extended(q[1], q[2])
  BY CoordinatesAssumption
<1>2. p[1] = q[1] /\ p[2] = q[2]
  BY <1>1 DEF Extended
<1>3. p = <<p[1], p[2]>> /\ q = <<q[1], q[2]>>
  BY DEF Curve
<1> QED BY <1>2, <1>3

LEMMA PointOfIs ==
  ASSUME NEW p \in Curve
  PROVE  PointOf(Compressed(p)) = p
BY CompressedIsInjective DEF PointOf

LEMMA BaseIs == BasePoint \in Curve /\ Base \in CoordinatesOf(BasePoint)
<1> DEFINE b == <<XRecover(BaseY, 0), BaseY>>
<1>1. b \in Curve /\ b[1] % 2 = 0 /\ b[1] = XRecover(BaseY, 0) /\ b[2] = BaseY
  BY BaseAssumption
<1>2. Base = Extended(b[1], b[2])
  BY DEF Base
<1> HIDE DEF b
<1>3. ASSUME NEW p \in Curve, p[2] = BaseY, p[1] % 2 = 0 PROVE p = b
  <2>1. Compressed(p) = Compressed(b)
    BY <1>1, <1>3 DEF Compressed
  <2> QED BY <1>1, <2>1, CompressedIsInjective
<1>4. BasePoint = b
  BY <1>1, <1>3 DEF BasePoint
<1>5. Base \in CoordinatesOf(b)
  BY <1>1, <1>2, ExtendedIs
<1> QED BY <1>1, <1>4, <1>5

(* Double and add computes result + e * addend, whatever the coordinates.     *)
LEMMA DoubleAndAddIs ==
  ASSUME NEW e \in Nat, NEW p \in Curve, NEW q \in Curve,
         NEW u \in CoordinatesOf(p), NEW v \in CoordinatesOf(q)
  PROVE  DoubleAndAdd[<<u, v, e>>] \in CoordinatesOf(AffineAdd(p, Times(e, q)))
<1> DEFINE Right(d) ==
        \A p1, q1 \in Curve : \A u1 \in CoordinatesOf(p1), v1 \in CoordinatesOf(q1) :
            DoubleAndAdd[<<u1, v1, d>>] \in CoordinatesOf(AffineAdd(p1, Times(d, q1)))
           T == {n \in Nat : \A d \in Nat : d <= n => Right(d)}
<1>1. Right(0)
  <2> SUFFICES ASSUME NEW p1 \in Curve, NEW q1 \in Curve,
                      NEW u1 \in CoordinatesOf(p1), NEW v1 \in CoordinatesOf(q1)
               PROVE  DoubleAndAdd[<<u1, v1, 0>>] \in CoordinatesOf(AffineAdd(p1, Times(0, q1)))
    OBVIOUS
  <2>1. <<u1, v1, 0>> \in Loops
    BY CoordinatesAreAPoint DEF Loops
  <2>2. DoubleAndAdd[<<u1, v1, 0>>] = u1
    BY <2>1, LoopIs
  <2>3. AffineAdd(p1, Times(0, q1)) = p1
    BY TimesIs, GroupAssumption
  <2> QED BY <2>2, <2>3
<1>2. ASSUME NEW n \in Nat, n \in T PROVE Right(n + 1)
  <2> SUFFICES ASSUME NEW p1 \in Curve, NEW q1 \in Curve,
                      NEW u1 \in CoordinatesOf(p1), NEW v1 \in CoordinatesOf(q1)
               PROVE  DoubleAndAdd[<<u1, v1, n + 1>>]
                            \in CoordinatesOf(AffineAdd(p1, Times(n + 1, q1)))
    OBVIOUS
  <2> DEFINE h == (n + 1) \div 2
             odd == (n + 1) % 2 = 1
             p2 == IF odd THEN AffineAdd(p1, q1) ELSE p1
             u2 == IF odd THEN Edwards(u1, v1) ELSE u1
             q2 == AffineAdd(q1, q1)
             v2 == Edwards(v1, v1)
  <2>1. h \in Nat /\ h <= n /\ n + 1 = (IF odd THEN 1 ELSE 0) + h * 2
    BY Halves
  <2>2. DoubleAndAdd[<<u1, v1, n + 1>>] = DoubleAndAdd[<<u2, v2, h>>]
    <3>1. <<u1, v1, n + 1>> \in Loops
      BY CoordinatesAreAPoint DEF Loops
    <3>2. Turn(<<u1, v1, n + 1>>) = <<u2, v2, h>>
      BY DEF Turn
    <3> QED BY <3>1, <3>2, LoopIs
  <2>3. p2 \in Curve /\ q2 \in Curve
    BY GroupAssumption
  <2>4. u2 \in CoordinatesOf(p2) /\ v2 \in CoordinatesOf(q2)
    BY CoordinatesAssumption
  <2> HIDE DEF h, u2, v2
  <2>5. DoubleAndAdd[<<u2, v2, h>>] \in CoordinatesOf(AffineAdd(p2, Times(h, q2)))
    BY <1>2, <2>1, <2>3, <2>4
  <2>6. Times(1, q1) = q1 /\ q2 = Times(2, q1)
    <3>1. Times(0 + 1, q1) = AffineAdd(Neutral, q1)
      BY TimesIs
    <3>2. Times(1 + 1, q1) = AffineAdd(Times(1, q1), q1)
      BY TimesIs
    <3>3. 0 + 1 = 1 /\ 1 + 1 = 2
      OBVIOUS
    <3> QED BY <3>1, <3>2, <3>3, GroupAssumption
  <2>7. Times(h, q2) = Times(h * 2, q1) /\ h * 2 \in Nat
    BY <2>1, <2>6, TimesProduct
  <2>8. AffineAdd(p2, Times(h, q2)) = AffineAdd(p1, Times(n + 1, q1))
    <3>1. CASE odd
      <4>1. p2 = AffineAdd(p1, q1) /\ n + 1 = 1 + h * 2
        BY <2>1, <3>1
      <4>2. Times(1 + h * 2, q1) = AffineAdd(q1, Times(h * 2, q1))
        BY <2>6, <2>7, TimesSum
      <4>3. Times(h * 2, q1) \in Curve
        BY <2>7, TimesIs
      <4>4. AffineAdd(AffineAdd(p1, q1), Times(h * 2, q1))
                = AffineAdd(p1, AffineAdd(q1, Times(h * 2, q1)))
        BY <4>3, GroupAssumption
      <4> HIDE DEF odd, p2, q2
      <4> QED BY <2>7, <4>1, <4>2, <4>4
    <3>2. CASE ~odd
      <4>1. p2 = p1 /\ n + 1 = h * 2
        BY <2>1, <2>7, <3>2
      <4> HIDE DEF odd, p2, q2
      <4> QED BY <2>7, <4>1
    <3> QED BY <3>1, <3>2
  <2> QED BY <2>2, <2>5, <2>8
<1> HIDE DEF Right
<1>3. 0 \in T
  BY <1>1
<1>4. ASSUME NEW n \in Nat, n \in T PROVE n + 1 \in T
  <2>1. \A d \in Nat : d <= n + 1 => d <= n \/ d = n + 1
    OBVIOUS
  <2> QED BY <1>2, <1>4, <2>1
<1>5. Nat \subseteq T
  <2> HIDE DEF T
  <2> QED BY <1>3, <1>4, SetInduction
<1>6. Right(e)
  BY <1>5
<1> QED BY <1>6 DEF Right

(* _scalarmult is repeated addition, for every scalar and every point.        *)
THEOREM ScalarMultIsTimes ==
  ASSUME NEW e \in Nat, NEW q \in Curve, NEW v \in CoordinatesOf(q)
  PROVE  ScalarMult(v, e) \in CoordinatesOf(Times(e, q))
<1>1. Neutral \in Curve /\ Neutral[1] = 0 /\ Neutral[2] = 1
  BY GroupAssumption DEF Neutral
<1>2. Identity \in CoordinatesOf(Neutral)
  <2>1. Identity = Extended(Neutral[1], Neutral[2])
    BY <1>1 DEF Identity
  <2> QED BY <1>1, <2>1, ExtendedIs
<1>3. ScalarMult(v, e) \in CoordinatesOf(AffineAdd(Neutral, Times(e, q)))
  BY <1>1, <1>2, DoubleAndAddIs DEF ScalarMult
<1>4. AffineAdd(Neutral, Times(e, q)) = Times(e, q)
  BY TimesIs, GroupAssumption
<1> QED BY <1>3, <1>4

----------------------------------------------------------------------------
(* The multiples of the base point repeat after L, and not before.            *)
LEMMA TimesNeutral ==
  ASSUME NEW n \in Nat
  PROVE  Times(n, Neutral) = Neutral
<1> DEFINE T == {m \in Nat : Times(m, Neutral) = Neutral}
<1>1. Neutral \in Curve /\ AffineAdd(Neutral, Neutral) = Neutral
  BY GroupAssumption
<1>2. 0 \in T
  BY <1>1, TimesIs
<1>3. ASSUME NEW m \in Nat, m \in T PROVE m + 1 \in T
  BY <1>1, <1>3, TimesIs
<1> HIDE DEF T
<1>4. Nat \subseteq T
  BY <1>2, <1>3, SetInduction
<1> QED BY <1>4 DEF T

LEMMA Remainder ==
  ASSUME NEW n \in Nat, NEW m \in Nat \ {0}
  PROVE  /\ n % m \in 0 .. m - 1 /\ n \div m \in Nat /\ (n \div m) * m \in Nat
         /\ n = (n \div m) * m + (n % m)
<1> DEFINE q == n \div m
           e == n % m
<1>1. q \in Int /\ e \in 0 .. m - 1 /\ n = m * q + e
  OBVIOUS
<1> HIDE DEF q, e
<1>2. q >= 0
  <2> SUFFICES ASSUME q <= -1 PROVE FALSE
    BY <1>1
  <2>1. m * q <= m * (-1)
    BY <1>1
  <2> QED BY <1>1, <2>1
<1>3. m * q = q * m /\ q * m >= 0
  BY <1>1, <1>2
<1> QED BY <1>1, <1>2, <1>3 DEF q, e

LEMMA TimesRemainder ==
  ASSUME NEW n \in Nat
  PROVE  Times(n % L, BasePoint) = Times(n, BasePoint)
<1> DEFINE q == n \div L
           e == n % L
<1>1. L \in Nat \ {0}
  BY CurveAssumption
<1>2. e \in Nat /\ q \in Nat /\ q * L \in Nat /\ n = q * L + e
  BY <1>1, Remainder
<1> HIDE DEF q, e
<1>3. BasePoint \in Curve /\ Times(L, BasePoint) = Neutral
  BY BaseIs, BaseAssumption
<1>4. Times(q * L, BasePoint) = Neutral
  <2>1. Times(q, Times(L, BasePoint)) = Times(q * L, BasePoint)
    BY <1>1, <1>2, <1>3, TimesProduct
  <2> QED BY <1>2, <1>3, <2>1, TimesNeutral
<1>5. Times(q * L + e, BasePoint)
          = AffineAdd(Times(q * L, BasePoint), Times(e, BasePoint))
  BY <1>2, <1>3, TimesSum
<1>6. Times(e, BasePoint) \in Curve
  BY <1>2, <1>3, TimesIs
<1>7. AffineAdd(Neutral, Times(e, BasePoint)) = Times(e, BasePoint)
  BY <1>6, GroupAssumption
<1>8. Times(n, BasePoint) = Times(q * L + e, BasePoint)
  BY <1>2
<1> QED BY <1>4, <1>5, <1>7, <1>8 DEF e

LEMMA MultiplesDiffer ==
  ASSUME NEW m \in 0 .. L - 1, NEW n \in 0 .. L - 1,
         Times(m, BasePoint) = Times(n, BasePoint)
  PROVE  m = n
<1>1. L \in Nat \ {0} /\ BasePoint \in Curve /\ Times(L, BasePoint) = Neutral
  BY CurveAssumption, BaseIs, BaseAssumption
<1>2. ASSUME NEW i \in 0 .. L - 1, NEW j \in 0 .. L - 1, i < j,
             Times(i, BasePoint) = Times(j, BasePoint)
      PROVE  FALSE
  <2>1. i \in Nat /\ j \in Nat /\ L - j \in Nat /\ i + (L - j) \in 1 .. L - 1 /\ j + (L - j) = L
    BY <1>1, <1>2
  <2> DEFINE d == L - j
  <2> HIDE DEF d
  <2>2. Times(i + d, BasePoint) = AffineAdd(Times(i, BasePoint), Times(d, BasePoint))
    BY <1>1, <2>1, TimesSum DEF d
  <2>3. Times(j + d, BasePoint) = AffineAdd(Times(j, BasePoint), Times(d, BasePoint))
    BY <1>1, <2>1, TimesSum DEF d
  <2>4. Times(i + d, BasePoint) = Neutral
    BY <1>1, <1>2, <2>1, <2>2, <2>3 DEF d
  <2> QED BY <2>1, <2>4, BaseAssumption DEF d
<1>3. m < n \/ n < m \/ m = n
  BY <1>1
<1> QED BY <1>2, <1>3

(* What the code makes of a public key and of the point of a signature.       *)
LEMMA EncodedMultiple ==
  ASSUME NEW n \in Nat
  PROVE  EncodePoint(ScalarMult(Base, n)) = Compressed(Times(n, BasePoint))
<1>1. BasePoint \in Curve /\ Base \in CoordinatesOf(BasePoint) /\ Times(n, BasePoint) \in Curve
  BY BaseIs, TimesIs
<1>2. ScalarMult(Base, n) \in CoordinatesOf(Times(n, BasePoint))
  BY <1>1, ScalarMultIsTimes
<1> QED BY <1>1, <1>2, CoordinatesAssumption

(* A signature with any key and any hashes satisfies the equation of the      *)
(* scheme, and the one number accepted with its point is its own.             *)
THEOREM SignedIsVerified ==
  ASSUME NEW a \in Nat, NEW r \in Nat, NEW k \in Nat
  PROVE  LET pub == PublicKey(a)
             sent == SignWith(a, r, k)
         IN  /\ Times(sent[2], BasePoint)
                    = AffineAdd(PointOf(sent[1]), Times(k, PointOf(pub)))
             /\ \A t \in Nat : Verify(pub, <<sent[1], t>>, k) <=> t = sent[2]
<1> DEFINE n == r % L
           s == (k * a + n) % L
           pointR == Times(n, BasePoint)
           pointA == Times(a, BasePoint)
<1>1. L \in Nat \ {0} /\ k \in Nat /\ k % L \in Nat /\ n \in Nat
  BY CurveAssumption, Remainder
<1>2. k * a \in Nat /\ n + k * a \in Nat /\ n + k * a = k * a + n /\ s \in 0 .. L - 1
  <2>1. k * a \in Nat
    BY <1>1
  <2> HIDE DEF n
  <2>2. k * a + n \in Nat /\ n + k * a = k * a + n
    BY <1>1, <2>1
  <2> QED BY <1>1, <2>1, <2>2, Remainder
<1>3. BasePoint \in Curve /\ pointR \in Curve /\ pointA \in Curve
  BY <1>1, BaseIs, TimesIs
<1>4. /\ PublicKey(a) = Compressed(pointA)
      /\ SignWith(a, r, k) = <<Compressed(pointR), s>>
  <2>1. EncodePoint(ScalarMult(Base, a)) = Compressed(pointA)
    BY EncodedMultiple
  <2>2. EncodePoint(ScalarMult(Base, n)) = Compressed(pointR)
    BY <1>1, EncodedMultiple
  <2> QED BY <2>1, <2>2 DEF PublicKey, SignWith
<1> HIDE DEF n, s
(* The equation of the scheme. *)
<1>5. AffineAdd(pointR, Times(k, pointA)) = Times(s, BasePoint)
  <2>1. Times(k, pointA) = Times(k * a, BasePoint)
    BY <1>1, <1>3, TimesProduct
  <2>2. Times(n + k * a, BasePoint) = AffineAdd(pointR, Times(k * a, BasePoint))
    BY <1>1, <1>2, <1>3, TimesSum
  <2>3. Times(s, BasePoint) = Times(n + k * a, BasePoint)
    BY <1>2, TimesRemainder DEF s
  <2> QED BY <2>1, <2>2, <2>3
<1> HIDE DEF pointR, pointA
<1>6. PointOf(Compressed(pointR)) = pointR /\ PointOf(Compressed(pointA)) = pointA
  BY <1>3, PointOfIs
(* What the code decodes and adds. *)
<1> DEFINE r_point == DecodePoint(Compressed(pointR))
           a_point == DecodePoint(Compressed(pointA))
<1>7. /\ r_point \in CoordinatesOf(pointR) /\ a_point \in CoordinatesOf(pointA)
      /\ r_point # NotAPoint /\ a_point # NotAPoint
  <2>1. ASSUME NEW p \in Curve
        PROVE  /\ DecodePoint(Compressed(p)) \in CoordinatesOf(p)
               /\ DecodePoint(Compressed(p)) # NotAPoint
    <3>1. DecodePoint(Compressed(p)) = Extended(p[1], p[2])
      BY CoordinatesAssumption
    <3>2. Extended(p[1], p[2]) # NotAPoint
      BY DEF Extended, NotAPoint
    <3> QED BY <3>1, <3>2, ExtendedIs
  <2> QED BY <1>3, <2>1
<1> HIDE DEF r_point, a_point
<1>8. EncodePoint(Edwards(r_point, ScalarMult(a_point, k % L))) = Compressed(Times(s, BasePoint))
  <2> DEFINE j == k % L
  <2>a. j \in Nat
    BY <1>1
  <2>b. Times(j, pointA) = Times(k, pointA)
    <3>1. Times(k, BasePoint) = Times(j, BasePoint)
      BY <1>1, TimesRemainder
    <3> HIDE DEF j
    <3>2. ASSUME NEW m \in Nat PROVE Times(m, Times(a, BasePoint)) = Times(a, Times(m, BasePoint))
      <4>1. Times(m, Times(a, BasePoint)) = Times(m * a, BasePoint)
        BY <1>3, TimesProduct
      <4>2. Times(a, Times(m, BasePoint)) = Times(a * m, BasePoint)
        BY <1>3, TimesProduct
      <4>3. m * a = a * m
        OBVIOUS
      <4> QED BY <4>1, <4>2, <4>3
    <3> QED BY <1>1, <2>a, <3>1, <3>2 DEF pointA
  <2> HIDE DEF j
  <2>1. ScalarMult(a_point, j) \in CoordinatesOf(Times(k, pointA)) /\ Times(k, pointA) \in Curve
    BY <1>1, <1>3, <1>7, <2>a, <2>b, ScalarMultIsTimes, TimesIs
  <2>2. Edwards(r_point, ScalarMult(a_point, j))
            \in CoordinatesOf(AffineAdd(pointR, Times(k, pointA)))
    BY <1>3, <1>7, <2>1, CoordinatesAssumption
  <2>3. Times(s, BasePoint) \in Curve
    BY <1>2, <1>3, TimesIs
  <2> QED BY <1>1, <1>5, <2>2, <2>3, CoordinatesAssumption DEF j
<1>9. ASSUME NEW t \in Nat
      PROVE  Verify(Compressed(pointA), <<Compressed(pointR), t>>, k) <=> t = s
  <2>1. Verify(Compressed(pointA), <<Compressed(pointR), t>>, k)
            <=> t < L /\ EncodePoint(ScalarMult(Base, t)) = Compressed(Times(s, BasePoint))
    BY <1>7, <1>8 DEF Verify, r_point, a_point
  <2>2. EncodePoint(ScalarMult(Base, t)) = Compressed(Times(t, BasePoint))
    BY EncodedMultiple
  <2>3. Times(t, BasePoint) \in Curve /\ Times(s, BasePoint) \in Curve
    BY <1>2, <1>3, TimesIs
  <2>4. ASSUME t < L, Compressed(Times(t, BasePoint)) = Compressed(Times(s, BasePoint))
        PROVE  t = s
    <3>1. Times(t, BasePoint) = Times(s, BasePoint)
      BY <2>3, <2>4, CompressedIsInjective
    <3>2. t \in 0 .. L - 1
      BY <1>1, <2>4
    <3> QED BY <1>2, <3>1, <3>2, MultiplesDiffer
  <2>5. s < L
    BY <1>1, <1>2
  <2> QED BY <2>1, <2>2, <2>4, <2>5
<1> QED BY <1>4, <1>5, <1>6, <1>9

----------------------------------------------------------------------------
(* A signature that a job has made is one that SignWith makes. *)
Signed ==
    sig # NoSig =>
        \E a, r, k \in Nat :
            sig = [pub |-> PublicKey(a), k |-> k, sig |-> SignWith(a, r, k)]

LEMMA SignedStep == Signed /\ [Next]_vars => Signed'
<1> SUFFICES ASSUME Signed, [Next]_vars PROVE Signed'
  OBVIOUS
<1>1. CASE SignResult
  <2>1. CASE sig' = sig
    BY <2>1 DEF Signed
  <2>2. ASSUME NEW h \in Seeds, NEW r \in Hashes, NEW k \in Hashes,
               sig' = [pub |-> PublicKey(Clamp(h)), k |-> k, sig |-> SignWith(Clamp(h), r, k)]
        PROVE  Signed'
    <3>1. Clamp(h) \in Nat
      <4>1. h \in Nat
        BY SeedsAssumption
      <4>2. h % 32 \in Nat /\ h % 8 \in Nat /\ h % 8 <= h % 32
        BY <4>1
      <4> QED BY <4>2 DEF Clamp
    <3> QED BY <2>2, <3>1, SeedsAssumption DEF Signed
  <2> QED BY <1>1, <2>1, <2>2 DEF SignResult
<1>2. CASE UNCHANGED sig
  BY <1>2 DEF Signed
<1>3. SignResult \/ UNCHANGED sig
  BY DEF Next, Step, ReadFile, BuildClient, Pull, NetworkFails, NoWork, ReadChunk, ReadText,
         Parse, Check, Classify, ClassifyFails, Post, Promote, NewNode, Finished, End, Goto, vars
<1> QED BY <1>1, <1>2, <1>3

(* What a browser node signs verifies, on any such curve and for any seed,    *)
(* and the verification takes no other number for it.                         *)
THEOREM SignaturesCorrect == Spec => []SignaturesVerify
<1>1. Init => Signed
  BY DEF Init, Signed
<1>2. ASSUME Signed, sig # NoSig PROVE SignaturesVerify
  <2>1. PICK a \in Nat, r \in Nat, k \in Nat :
            sig = [pub |-> PublicKey(a), k |-> k, sig |-> SignWith(a, r, k)]
    BY <1>2 DEF Signed
  <2>2. /\ sig.pub = PublicKey(a) /\ sig.k = k /\ sig.sig = SignWith(a, r, k)
        /\ L \in Nat
    BY <2>1, CurveAssumption
  <2>3. /\ Times(sig.sig[2], BasePoint)
                = AffineAdd(PointOf(sig.sig[1]), Times(sig.k, PointOf(sig.pub)))
        /\ \A t \in Nat : Verify(sig.pub, <<sig.sig[1], t>>, sig.k) <=> t = sig.sig[2]
    BY <2>2, SignedIsVerified
  <2>4. 0 .. 2 * L - 1 \subseteq Nat
    BY <2>2
  <2> QED BY <2>3, <2>4 DEF SignaturesVerify
<1>3. Signed => SignaturesVerify
  BY <1>2 DEF SignaturesVerify
<1> QED BY <1>1, <1>3, SignedStep, PTL DEF Spec
=============================================================================
