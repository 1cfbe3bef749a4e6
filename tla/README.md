# The LUSTRO node agent in TLA+

The node agent (`src/node_agent`) pulls one signed work unit from the edge,
verifies it against the pinned core key, classifies it, signs the result with the
node's own key and submits it. It keeps an anti-replay store, a job log, a key pair
and a registration marker in one state directory. Its processes are short-lived and
started by a scheduler, so the hard part is seldom in one function: it is in what
two invocations, a `leave`, a lost answer or a death between two writes leave in
that directory. These modules are about that.

## The system, component by component

| component | state | operations | interacts with |
|---|---|---|---|
| job cycle (`client.py` `pull_and_process`, `process_wu`; `cli.py` `cmd_run`) | where the run stands, the unit, its copy of the seen sets | pull, check, replay check, verify, sign, POST the result, mark, report the activity, log, exit | seen store and job log (files), the edge, the core |
| key pair, registration, `leave` (`keys.py`, `cli.py`, `register_agent`) | `agent_ed25519.key`, `registered`, the directory; the core's enrolment and invites | create and write the key, load it, register with retries, write the marker; list and unlink | every run; the job log and the seen store as directory entries |
| seen store (`client.py` `_load_seen`, `_seen`, `_mark_seen`, `_persist_seen`) | two bounded sets in memory, an append-only file, a lock | load, compare, add and evict, append a line | the job cycle |
| job log (`joblog.py`) | an append-only file | append, `read_all`, `iter_lines` | the job cycle, the log wall, log shipping |
| log wall, live tail (`logwall.py` `_serve_events`) | a semaphore of slots; per thread a file handle and a position | accept or refuse, send the headers, follow the log, heartbeat, release | job log; clients that come and go; `leave` |
| log wall, page and history (`logwall.py`) | what the page shows | `/api/log`, the page's script, the Host check | job log, live tail |
| log shipping (`client.py` `_ship_logs`) | the cursor file | read the cursor, read a batch, POST, truncate and write the cursor, log the outcome | job log, the core, `leave` |
| browser node (`wasm.py`, `storage.py`, `transport.py`) | IndexedDB (seed, job log, cursor) shared by tabs; key ring, registration flag and seen set of each page | the same cycle in one page, shipping, `leave` | the other tabs of the origin, the edge |
| transport (`transport.py`, `pull_and_process`) | the body so far | requests with size limits, in chunks or whole | the job cycle, the edge |
| core key pinning (`core_pin.py`, `_pin_core_key`), egress guard (`egress.py`) | the environment of the process; the base URL | which key is pinned, does a unit verify; may a URL be called | the job cycle; the page that makes nodes |
| classifier (`classifier.py`) | the model loaded | read and check the artifact; label a text | the artifact's directory, the job cycle |
| Ed25519 (`_ed25519_pure.py`) | none | public key, sign, verify | the browser node |
| command line | none | parse arguments, `dump-log`, `serve-log` | all of the above |

### What is hard, and what correctness means

* **Job cycle.** The core may take a result whose answer is lost; the client may
  give up on a request that still arrives; a run may die anywhere; a run consults
  the copy of the seen store it read when it started. Correct: nothing is refused
  as a replay unless its result was taken; only verified units are worked on; a unit
  is repeated only through an overlap; two runs never both hold the acceptance of
  one unit; a marked unit has its row unless its run has died; a failed delivery is
  retried until it succeeds.
* **Identity.** Two first runs race to create the key; a run may die between the
  creation of the file and the write; the answer to a registration may be lost;
  `leave` unlinks entry by entry while a run goes on. Correct: one identity, enrolled
  before it works, a marker that is never about an unknown key, a `leave` after which
  nothing is left.
* **Seen store.** Eviction at the bound, a write that fails half-way and is
  repeated without the lock, a lock given back before the buffered line is written,
  characters at which `splitlines` cuts a line. Correct: the damage of a fault is one
  record; below the bound nothing is forgotten.
* **Live tail.** A slot is taken on one path and must be given back on every
  path; an idle log hides that a client has gone; the log may come into being, be
  deleted and be made again while the thread looks for it. Correct: slots are neither
  overrun nor lost, history is not replayed, rows reach the clients.
* **Log shipping.** Death between the core's answer and the cursor, or between the
  truncation and the number; a refused batch; a `leave` in between. Correct: no row
  is skipped, none is shipped twice without a reason, none holds up the others.
* **Browser node.** Every storage call awaits; tabs share the store. Correct:
  results are submitted under an enrolled key, no page resubmits, the log only grows.
* **The log wall's page.** It asks for the history and opens the stream at once, may
  ask for another history while the first is on its way, and reconnects. Correct: a row
  is shown, unless it falls into a gap that can be named, and never three times.
* **One job.** Ten checks in a fixed order, two transports with limits of their own, a
  key that may come from four places, an artifact whose files are read one by one while
  another may be promoted, a score that is rounded after the label has been decided.
  Correct: what is in order is processed and nothing else is, under a key somebody has
  named, by the classifier the artifact's card names, with a signature that verifies.

The hazards, each at its line and with the properties that cover it, are listed in
`PROJECT.json`.

## The modules

Order of work: the core first (job cycle, its abstract ledger, its proofs), then the
identity it depends on, then the components that share the state directory, then what
one job is made of and what the volunteer sees of it.

| module | what it is |
|---|---|
| `WorkUnitLedger` | abstract: a unit is consumed, then marked, then logged, each for good |
| `ReplayMemory` | abstract: what an anti-replay store promises the job cycle |
| `NodeAgent` | the job cycle; implements `WorkUnitLedger` and `ReplayMemory` |
| `NodeAgentProofs` | its theorems |
| `Enrolment` | key, registration, marker and `leave` |
| `EnrolmentProofs` | its theorems |
| `SeenStore` | the seen sets and their file, in detail; implements `ReplayMemory` |
| `LogWall` | the live tail |
| `LogShip` | log shipping |
| `BrowserNode` | the browser node, in several tabs |
| `SeenStoreProofs`, `LogWallProofs`, `LogShipProofs`, `BrowserNodeProofs` | the theorems of these four |
| `LogPage` | the log wall's page in front of `LogWall`, which it extends |
| `LogPageProofs` | its theorems; extends `LogWallProofs`, whose invariant it needs |
| `CorePin` | the pinned key and the egress guard, as operators |
| `Ed25519` | the browser node's signatures, as operators on a small curve |
| `OneJob` | one job from the model on disk to the signed result, over `CorePin` and `Ed25519` |
| `OneJobProofs` | its theorems |
| `MC...` | the small instances of each |

Each `MC` module holds the constants' values and the symmetry sets, nothing else.
The operators under the heading "Mutated forms" of a module are variants of its
actions that a mistake in the code would lead to; the specification never uses
them, and each property was seen to fail when one of them takes the place of the
action it varies (`PROJECT.json`, "mutants").

### NodeAgent, WorkUnitLedger and ReplayMemory

`pc[p]` is where `cmd_run` stands in slot `p`; a slot is a process, and `off` means
none. `Launch` is the constructor with `_load_seen` (`seen[p] = seenFile`). `NoWork`,
`PullFails` and `Pull` are the outcomes of GET `/v1/wu`. `RejectMalformed`,
`RejectReplay`, `RejectUnsigned` and `VerifyAndSign` are the early returns of
`process_wu` in their order; which of them leave a row is part of the model. `Post`
and `ReceiveAccepted`/`PostFails` are the two ends of the submission;
`CoreAccepts`, `CoreRefuses` and `LateArrival` are the external core in between.
`MarkSeen`, `SkipActivity`/`ReportActivity` and `LogProcessed` are the three writes
after the acceptance, in order, and `Crash` may fall between any two.

`seenFile` is the set of the store's records and `joblog` the set of the log's rows
(by event and unit): no property of this module tells the order of two rows apart.
`WithToken` are the invocations that have an activity token in their environment.
The field checks of `process_wu` are one class, `malformed`; `OneJob` takes them apart.
`fresh`, `cut` and `crashes` are history.

The refinement maps `consumed` to itself, `marked` to the ids in the seen file and
`logged` to the ids with a `wu_processed` row. It says that no order of
steps of any runs, with deaths and late requests, marks a unit the core has not
taken or logs one that is not marked, and that nothing is undone.

`ReplayMemory` has the records that are stored and, of each client, those it knows. A
client that starts knows what is stored; it marks no unit that it knows by its id or
its nonce; what it marks it knows, and is stored, at once and for good. Two parameters
say how far that goes: which sets a client can remember, and which records may be lost.
`NodeAgent` keeps its seen store as one set of records, and implements the
module with nothing forgotten and nothing lost. `SeenStore` implements it with what
the bound and the faults take from it, and without faults, below the bound, as
`NodeAgent` does (`FaultlessRefinement`): that is what joins the two modules.

### Enrolment

One action for each access to the state directory: the `exists` of the key,
`os.open` with `O_EXCL` (`CreateKey`, `CreateKeyFails`), the write (`WriteKey`), the
load, the opening of the log, the look at the marker, each registration attempt
with its retries, the row, the marker, and the job, whose details are in `NodeAgent`.
`LeaveBegin` is the listing; `Unlink(name)` deletes an entry of that listing, in any
order; `LeaveDone` removes the directory, or leaves it where it is a mount point;
`LeaveFails` is an `rmdir` on a directory that a run has written to since. A run that
keeps its open file or finds its directory gone does what the code does then.

`WriteMarker` is one action: an empty marker file, of a run that died inside the write,
behaves as a complete one, since the code looks only at whether it exists and never reads
its content. File modes are left out.

### SeenStore

`MarkInMemory` is the part of `_mark_seen` in memory (add, evict an arbitrary tenth of the
set: `set.pop` has no order), then the lock, the buffered write, the unlock, and the
flush when the file is closed, which is after the unlock, as in the code. A flush
may fail before or after part of the line has reached the file (`torn`); the
append is then repeated without the lock. `Restart` reloads what `_load_seen` can
parse. `LineBreaks` are the nonces that `splitlines` cuts. Clients are long-lived
here, so that eviction comes into play. `known` is history: what a client has loaded,
and the units whose `_mark_seen` is over (`EndOfMark`); with the unit in its hand that is
`Known(c)`, against which its sets are measured. In the refinement a unit is marked at
that end: nobody else sees the client's memory, and the file is written last.

### LogWall

`pc[c]` is where `_serve_events` and the generator `iter_lines` stand in the thread
of connection `c`; `free` is the semaphore. The file is an inode number, so that a log
that is deleted and made again is another file, and `handle[c]` keeps the old one.
`Close` is the peer; after a `reset` the next write raises, after a plain `closed`
it may be the second. `EarlyResets` says whether a peer may be gone before the headers
are sent; both runs of this module allow it. The heartbeat is a disjunct of `Follow`
and of `WaitForFile`.

### LogShip

`_ship_logs` from the read of the cursor to the row with the outcome, one action for
each read, request and write. Offsets count rows. `OpenCursor` truncates and
`WriteCursor` writes the number, with what is left of a longer number another
shipper wrote in between. `read`, `opened`, `log` and `file` tell the logs before and
after a `leave` apart. `mingled` records that a `leave` fell into a batch, `overlapped`
that a shipper started while another was under way, `garbled` that a number was written
over a longer one and left with its last digits. Nothing
in the repository but the tests calls `_ship_logs`, so who calls it, and how often, is
left open: any shipper may start at any time.

### BrowserNode

Every `await` of `_BrowserNode` ends an action; between two, any other tab may run.
`seed`, `joblog` and `cursor` are the shared IndexedDB; `ring`, `registered` and `seen`
belong to a page and go with it on `Reload`. The job log is a sequence here, because
the read and the write of the whole array are what can go wrong. A tab that
would append a row beyond `MaxRows` stops there; see the bounds.

### LogPage

`es`, `via` and `wire` are the page's EventSource, its connection (one of `LogWall`'s) and
what is on its way; `shown` is the page from the top down. `Ask` is `loadHistory` up to
its `fetch`, `ServeLog` the handler of `/api/log`, `ShowHistory` or `HistoryFails` what
follows; as many histories as `Loads` are under way at once. `Handler` is a step of a
thread of `LogWall`; what it writes to the page's connection goes on the wire. `Rendered`
adds the rows newest first, each on top (`rows.slice().reverse().forEach(addEvent)`), so
that the history stands in the order of the log, its oldest row on top and its newest at
the bottom; a live row comes on top of all, and the bottom row is the one `addEvent` drops
when the page is full. An EventSource connects again when a connection
it had, or was about to have, is lost, and gives up when it is refused with a status
other than 200. `base` and `late` remember which log the history was read from and what
the stream had brought by then.

### OneJob, CorePin and Ed25519

A job is a record of what the program is given: the classes of the unit's fields, the
artifact's flaw, the body, the pins, the base URL. `ReadFile` is one read of
`ModelClassifier.__init__`; the classifier's file is read twice, to hash it and to load
it, and in between `Promote` may move `current` to another artifact or back to one that
it has left. The card holds the hash of `disinfo_classifier.joblib` alone, which two versions
may have in common (`Joblib`). `Pull`, `ReadChunk` or `ReadText`,
`Parse` are the request over httpx, in chunks, and over fetch, whole; bytes that are not
UTF-8 end the one in an exception, while the other has replaced them before anybody
looks, so that a unit may still verify (`bad text`). `Rejection` is the
ladder of the checks of `process_wu`, in their order, with the exception each raises
(`crash` is one that is none of the client's own). `NewNode` is a page that makes another
node, whose key goes into the environment of both. `Acceptable` is written from what
a job ought to be, and not in the order of the code, nor with what the node happens to
have installed: that a good unit is lost where `cryptography` is missing is a finding.

`CorePin` says which key a process trusts, where a signature is known by the key that
made it, and which URL the guard lets pass. `Ed25519` has the formulas of the code over
the field with `P` elements; SHA-512's scalars are arguments (`Seeds` and `Hashes`). Below them stand the affine
curve, its addition law and multiplication as repeated addition, which
`SignaturesVerify` compares them with. What is taken from mathematics stands in three
assumptions at the end of the module, which TLC evaluates on the curve of the run:
`GroupAssumption` (the points are a monoid under the addition law), `BaseAssumption`
(the base point has order `L`) and `CoordinatesAssumption` (the formulas of the code for
*one* addition, *one* encoding and *one* decoding are those of the affine curve). What is
left is the algorithm: the loop, the reductions modulo `L`, what is signed and what is
compared.

## The runs

| run | expects | what it asks |
|---|---|---|
| `agent` | pass | the job cycle with two overlapping runs, one with a token, a death, lost and late answers, four units: the trail, the repeats, the refinement of the ledger and of the memory of replays, and that a failed delivery is retried until it is taken |
| `enrol` | pass | identity, enrolment and `leave` with two runs, three keys, two attempts, a death and a `leave`; and that a node none of whose runs dies is registered in the end |
| `enrol_crash_live` | violation | keys.py: the key pair is generated if absent, also after a death between the creation and the write of the key |
| `seen_store` | pass | eviction, faults, restarts and the lock, with two clients on one file: the damage, what is refused and what is not, the refinement of the memory of replays |
| `wall_tail` | pass | slots, history, heartbeat and rows while the log comes, goes and comes again |
| `wall_slot_leak` | violation | slots come free again, when a peer may reset before the headers |
| `ship_logs` | pass | the cursor over a growing log, with a batch that is always refused, a death and a `leave` |
| `browser_tabs` | pass | two tabs, three seeds, a reload and a `leave` |
| `browser_lost_row` | violation | storage.py: the array of rows is append-only |
| `log_page` | pass | the page with two histories and a stream that is lost, while the log comes, goes and comes again |
| `one_job` | pass | 214 jobs on both transports, with artifacts promoted and rolled back and another node of the page |
| `job_crash` | violation | client.py, core_pin.py: a JSON answer is never met with an uncaught exception, and a browser node does not need `cryptography` |

### Bounds, and why they are enough

* **Actors: two runs, clients or tabs.** Every race found in the code is between
  two parties (a check and another's write). The proofs of `NodeAgent`, `Enrolment`,
  `SeenStore`, `LogWall`, `LogShip`, `LogPage` and (for what several tabs keep)
  `BrowserNode` cover any number. `ship_logs` has one shipper, because two of them make
  735,000 states with `MaxRows = 2`, one poisoned row, a death and a `leave`, and TLC
  needs over five minutes for the liveness property; on that instance every property
  of `ship_logs` was checked too, and holds. Its invariants are proved for any number.
* **Type invariants** are theorems of six modules; two runs check theirs as well
  (`enrol`, `log_page`), the others leave the time to deeper properties.
* **Units.** `MixedUnits` has each relation two units may have: two signed ids under one
  nonce, so that a run that marks the one meets the other with its nonce in its copy of the
  store; one id under two nonces, one of them with a bad signature; malformed, without a
  nonce. A nonce that two signed ids share makes the agent refuse the second for ever, by
  design, and `EventuallyConsumed` says that nothing else does.
* **Deaths: one** (`MaxCrashes`); a second one adds a second residue of a kind the
  first leaves too. **`leave`: one** (`MaxLeaves`).
* **`enrol`** has no invite: the core then takes any key at any time, so that its guards
  are the weakest, and the agent does all it does with one and may fail at one point more
  (the nonce it fetches); a behaviour with a single-use invite is one without it as far as
  the properties go. The directory is an
  ordinary one, whose `rmdir` may fail; a mount point lacks that step and keeps the empty
  directory. The proofs have both, either way, and any number of leaves and attempts. Two
  attempts (`MAX_REGISTRATION_ATTEMPTS` is larger): the second already meets what the first
  left in the core. `enrol_crash_live` has one run and one attempt, where the next run of the
  scheduler is the retry.
* **`MaxRows`** of 2 or 3 in `LogWall` and `LogShip` gives rows before, inside and
  behind a batch or a position; `MaxEntries = 2` with `EvictCount = 1` and three
  ids makes eviction happen, and happen again, within `MaxMarks = 4`.
  `MaxFaults = 2` lets a fault hit the repetition of a write too. One restart, with what
  another client has written meanwhile, loads a set over the bound. The six units have two
  nonces under one id, one nonce under two ids, one that breaks the line, and two without.
* **`MaxClients = 1`** with two connections: the limit is reached and refused.
* **`log_page`**: two rows, a log that is deleted once, histories of one row or two, a page
  that holds three, and one lost connection: a row may come before, between and after
  two histories and a stream, and the page overflows by a history and a row. The second
  connection is the page's own next one, after the stream was lost. Connections and histories are
  interchangeable (symmetry); no liveness is checked there.
* **`one_job`**: the curve over 29 elements with `D = 27` has 40 points, cofactor 8 and a
  base point of order 5; the code's curve differs in size alone. The assumptions of `Ed25519`
  are evaluated for all points, those of small order included; the run signs under two seeds and with hashes (`Hashes`) below `L`, at `L` and
  above it. `MaxBytes = 8` and `ChunkSize = 3`
  with bodies of 5, 7, 8 and 9 bytes put the limit inside a chunk and at its end. The jobs
  are a good one and those that differ from it, or from one that was seen, in one field:
  every check is met alone and next to the replay check. Of three versions two share their
  classifier, and `MaxPromotions = 2` lets `current` go to any other and on to the third or back
  to the first, with any of the six reads before, between and behind; the bound is on what happens outside the agent. The probabilities lie on, next
  to and far from the thresholds; those that end in exactly half a thousandth, where
  Python's rounding depends on the binary fraction, are left out; one is above 1, as a
  `predict` without probabilities may be.
* `CHECK_DEADLOCK FALSE` stands where the bounds themselves end the behaviour
  (`seen_store` after `MaxMarks` and `MaxRestarts`; the browser runs, where all seeds
  or rows are used up).

### Fairness

* `NodeAgent!Fairness`, `Enrolment!Fairness`: a scheduler starts runs again and again
  (WF of `Launch`); a live process goes on, and both of its requests end, for they
  carry a 30 s timeout (WF of its steps). What is strong is outside the agent: the
  edge offers each unit again and again, and the core neither refuses nor has its
  answers lost for ever. Without these no agent could get anything delivered.
* `LogWall!FairSpec`: the server's threads run. Nobody is obliged to connect, close or
  append. `ClosingSpec` adds that clients go away in the end; only `wall_slot_leak`
  uses it, and the counterexample does not depend on a client that stays.
* `LogShip!FairSpec`: as for the agent; `_ship_logs` is called again and again.
* Deaths are never fair, and always bounded.

## Where the code and its documentation part

With a run that shows it:

* **`enrol_crash_live`**: a death between `os.open(O_CREAT|O_EXCL)` and the write
  (keys.py:50) leaves an empty key file that every later run fails to load.
* **`job_crash`**, twice. core_pin.py:78-80 says that the browser node never loads the key
  with `cryptography` and uses `pure_verify_wu_signature` (crypto.py:57-63 says the same).
  Nothing calls that function but tests; `process_wu` calls `verify_wu_signature`
  (client.py:427) on both, and where `cryptography` is not to be had every unit of the pinned
  key id ends in an ImportError. And client.py:419-421 promises a `CorePinError`, "never an
  uncaught crash on adversary-influenced edge JSON": a `core_sig` that is a number raises
  TypeError in `b64decode`. The run has one job of each kind; either alone violates the
  property, and TLC reports the browser's, whose trace is shorter. So do, unlisted in the run, a
  nonce that is a list or an object (TypeError in the set lookup) and a lone
  surrogate (UnicodeEncodeError in `canonical_wu_bytes`).
* **`wall_slot_leak`**: `end_headers` (logwall.py:367) stands outside the `try` whose
  `finally` releases the slot.
* **`browser_lost_row`**: `append` (storage.py:61) reads, awaits and writes back the
  whole array; a row another tab appended is lost.

Seen while modelling, without a run of their own; the properties say where they
stop:

* README.md:63 says that a repeated `wu_id` is refused. A run
  compares with the copy of the store it read in its constructor (client.py:223), so
  a run that overlaps another submits a unit the other has marked in the meantime.
  `OnlyOverlapRepeats` says exactly how far this goes, and is proved. The core takes
  one result of a unit, so that what is lost is work.
* A lost answer leaves a consumed unit without a mark or a row (README.md:32 has every
  job logged); runs that are refused, malformed or failing leave no row either
  (client.py:17).
* `leave` on a mount point, with a run under way, may leave what the run writes after
  the listing. `LeaveAloneIsComplete` is about a `leave` on its own.
* Seen store: a nonce with U+2028 is lost at a restart; the evicted entries are
  arbitrary, where the comment says the oldest; a reload may take the set over its
  bound (client.py:269), and a mark brings it back by a tenth at most; the flush happens
  outside the lock. `MarksDoNotOverfill` is what is left of the bound: a mark takes a set
  that is over it no further.
* Live tail: a first row appended between the 200 and the look at the file is taken
  for history; a thread keeps following a deleted file.
* Log shipping: a death after the core's answer ships the batch again; two shippers may
  leave a number that is neither's ("980" written over "1200" reads "9800"), behind which
  rows are never shipped; a `leave` during a batch leaves the old log's cursor next to the
  new log. `NothingSkipped` says that it takes one of these (`garbled`, `mingled`), and that
  the first takes an overlap.
* Browser: a reload forgets the seen set; a row lost under the cursor shifts the rest.
* The bytes of a body: one that is not UTF-8 ends a command-line job in a
  UnicodeDecodeError; a browser's is read with U+FFFD in their place (transport.py:231).
* The page: README.md:187-188 has it "updates as new work units are processed". A row
  appended between the reading of the history and the start of the stream, or while
  a lost stream is connecting again, is in neither; one the stream brought while a history
  was on its way is wiped by it; one may stand there twice. A page whose new connection
  is refused, because the slot of the lost one is not free yet, stays without a stream,
  and its status says "reconnecting...".
* The order on the page: the history stands oldest first, live rows come on top of it
  newest first (logwall.py:205, 240), and a full page drops from the bottom, the newest row
  of the history before its oldest. No document says which order is meant.
* The verdict: `_print_result` (cli.py:74) compares with 0.6 whatever the language's
  threshold, so that a unit may be submitted as misinformation and shown as benign, or
  submitted as factual and shown as disinformation.
* The artifact: the checksum (classifier.py:78-83) covers `disinfo_classifier.joblib` alone,
  and is taken after the card, the thresholds and the features were read. Promotions that
  change only those files, and one that is rolled back before the hash is taken, mix versions
  unnoticed; one between the hash and the load (classifier.py:82, 101) runs a classifier
  nobody hashed. `OneVersion` says what is left: but for that last moment the classifier is
  the one the card names, and all the files are of its version if no other version has its
  classifier and none came back. Each of its hypotheses is needed: without any one of them
  TLC finds it violated.

## What is proved

TLAPS checks the theorems of the eight `...Proofs` modules, for every value of the
constants; the strengthened invariants of the state machines were checked with TLC on small
instances first, that of `LogShip` with two shippers. What the curve's proofs rest on is
evaluated by TLC on the curve of `one_job`.

**NodeAgent**, from `WorkUnitsAssumption` (units are records of an id, a nonce or
none, and a form) and `ParametersAssumption` (`WithToken` is a set of runs, `MaxCrashes` a
natural number; no bound is needed otherwise). The safety properties are not
inductive as they stand: that nothing is marked before the core has taken it needs
that a run at `mark` holds an acceptance and that an acceptance is the core's; that
repeats need an overlap needs that a live run's copy together with the records added
since its start covers the file. The invariant is

    IInv == TypeOK /\ Control /\ Delivery /\ Memory /\ Trail

`Control`: what a run has in hand at each label. `Delivery`: only verified units
travel, an acceptance is the core's and is given once. `Memory`: what a process has
read, and what was recorded since. `Trail`: the rows still to be written are the ones
that are missing. One lemma shows that every step keeps each part. From it follow

* `TypeCorrect`, `SeenIsAccepted`, `RepeatsNeedOverlap`, `OneAcceptance`,
  `AuditTrail`, `LogCorrect`: the types and the invariants that `agent` checks;
* `VerifiedOnly`: only units that verify are worked on, submitted and consumed;
* `SequentialRunsNeverRepeat`: with one run at a time the sentence of README.md:63
  is true, whatever dies;
* `Refinement`: `Spec => Ledger!Spec`, every action a step of the ledger or a stutter;
* `ReplayRefinement`: `Spec => Replay!Spec`. A run that marks a unit has not had it in its
  copy since it checked it, although other runs have written to the file in between.

**Enrolment**, from `EnrolmentAssumption`. `IInv == TypeOK /\ Control /\
MarkerIsEnrolled` is inductive on its own (`TypeCorrect`, `MarkerCorrect`: whatever
overlaps, dies or is deleted, the marker is about an enrolled key). On top of it,
`Identity`, which holds until the first `leave`, gives `OneIdentityCorrect` and
`EnrolledBeforeWorkCorrect`: a key file, once complete, is there for good, so that
all the runs that got past `ensure_keypair` loaded the same one, and the marker,
which lets a run skip registration, can only be about that one. `KeyIsKeptCorrect`
needs no more than `IInv`: of the steps that write the key file, `CreateKey` finds
none and `WriteKey` completes one that is empty. `LeaveAloneCorrect` needs `Undisturbed`:
while no run is alive, what is in the directory is what `leave` has still to unlink.

**SeenStore**, from `SeenStoreAssumption`, which has `EvictCount` at least 1: with a bound
below ten, `MAX_SEEN_ENTRIES // 10` would be 0 and nothing evicted; the code has 10000. The
invariant is

    IInv == TypeOK /\ InHand /\ Memory /\ NotKnown /\ Damage

* `Memory`: a set in memory is part of what the client knows, and all of it as long as that
  fits. From it `NothingForgotten` (below the bound every replay is refused) and
  `RefusalsAreReplays` (nothing else ever is).
* `Damage`: the records that returned and would not survive a restart, and one more if the
  file ends in a torn line, are no more than the faults; from it `DamageCorrect`. The
  repetition of a write without the lock, which looks like the weak point, costs nothing
  further: a torn line spoils the next record, whoever writes it, and then the line is
  whole again.
* `EvictionKeepsUp` is an action property: one element comes and, over the bound, at least
  one goes.
* `NotKnown`: a unit in hand is no replay of what its client knew when it took it, although
  other clients have written since. With it `ReplayRefinement`, step by step, and
  `FaultlessRefinement`, the instance in which nothing is lost.

**LogWall**, from `LogWallAssumption`. `Slots`: the threads that hold a slot are finitely
many and fit with the free ones (`SlotsCorrect`: no path gives a slot back twice; that
one of them gives none back is `wall_slot_leak`). `Files` and `Asked`: an inode number is
used once, what the client saw when it asked lies in a log that only grows, and a thread that
found no file opens a log made since (`ReplayFree`).

**LogShip**, from `LogShipAssumption`, for any number of shippers that come, overlap and die
as they please. `Single`: until two have overlapped, one at most is under way. `Emptied`:
until then the one that is about to write finds the file it has truncated, so that
a number is garbled by an overlap only. `Behind`: until a number is garbled or a
`leave` falls into a batch, the cursor and each shipper's copy of it lie inside the log
behind rows that were handled, and a cursor that a `leave` has orphaned is on its list
(`NothingSkippedCorrect`); an overlap on its own costs no row, for whoever writes last
writes the end of a batch that was handled, from a cursor behind which all was handled.
`Acknowledged` has the rows whose acceptance was seen behind the cursor or in the batch
that is about to move it (`NothingShippedTwiceCorrect`).

**BrowserNode**, from `BrowserNodeAssumption`. For any number of tabs:
`EnrolledBeforeWorkCorrect` and `NoResubmissionCorrect`, from `Control` (a page that counts
as registered has a key the edge knows; what it was told of, it has marked). As long as
one tab alone has been used: `IdentityCorrect`, `NothingSkippedCorrect` and
`OneTabAppendsOnlyCorrect`, from `Solo`: what the tab has read is what is there.

**LogPage**, from `LogPageAssumption` and `LogWallAssumption`: `MaxShown`, the size of the
page, and the number of lost connections are natural numbers, and there are no bounds
besides; any number of connections and of histories under way. Every step of the page is a
step of `LogWall` or leaves it alone (`PageKeepsTheWall`), so that `LogWall`'s `IInv` is the
first part of

    PageInv == IInv /\ PageTypes /\ Answers /\ Stream /\ Reads
                    /\ Shown /\ FromHistory /\ FromStream /\ Losses

`Answers`: an answer on its way is the last rows of one log. `Stream`: what is on the wire
is the rows the thread has read last, in their order. `Reads`: no thread is past the end of
its log. From these `Got(i)`, how far the page is in log `i`, which no step lessens; `Shown`
says that a row further on than that is on the page once, and any row twice, whence
`ShownTwiceAtMost`. Counting the copies needs `Got`: the second copy is that of the stream,
and the stream never comes back to a row. `FromHistory` and `FromStream`: as long as the page
has room, what the answer held and what the stream has brought since is on it, whence
`HolesExplained`. `Losses`: each handler that is not the page's own is one of its lost
connections, and the slots that are taken are no more (`RefusedAfterDrops`).
`RenderedRows` says what the fold over `addEvent` returns: the rows themselves, if the page
has room for them. Induction over a fold needs a set in place of the operator the
library's theorems take: the numbers for which the statement holds have 0 in them and
with each its successor, and a set of the others would have a least element (`WFMin`).

**OneJob**, from four assumptions. `OneJobAssumption`: jobs are records of `JobSet`, and a
browser node, which has a stub in place of the classifier (wasm.py), loads no artifact.
`PageAssumption`: what a page hands over is a key, nothing, or something that is none.
`ModelAssumption`: a version of the calibration has a default threshold and its thresholds
are numbers (classifier.py:103-109 converts each with `float`, and takes 0.6 where there is
none), every version has a classifier, and the promotions are finitely many; a probability is
any number. `SeedsAssumption`: hashes are natural numbers. The invariant is

    IInv == Types /\ Artifact /\ Versioned /\ InOrder /\ TurnedDown /\ Named /\ Labelled

* `Artifact`: an artifact that is not harmless has its flaw in a file still to be read.
  `InOrder`: what a job has behind it is in order. `TurnedDown`: what was turned down is
  not, and what ends in another exception is not or had no `cryptography`. With them `AnswersWhatIsDue`. The ladders of checks are lists whose first true entry
  decides; `FirstOfIs` says so for a ladder of any length, and `FaultIs` and `RejectionNone`
  take it to the two there are. That the order of the checks decides nothing but the
  name of the exception is `RejectionIs`: a unit in order passes, or ends in the one
  exception that a missing `cryptography` raises.
* `Named`: `TrustsNamedKeys`, although a page may change the key in the middle of a job.
* `Versioned`: a file is of the version that is current or of one that was left (`Left`), and
  of two files the earlier is of the later's version or of one that was left. The hash holds
  the classifier of the fifth read to the card's; where that makes their versions equal and
  no version came back, the card's was never left, and nothing between the two can be of
  another (`LoadsOneVersion`). Nothing holds the sixth but that nobody promotes in that
  moment.
* `Labelled`: the threshold is the one compared with, and rounding never crosses a bound
  that is a multiple of a thousandth (`MisinformationShown`).

**Ed25519** (in `OneJobProofs`), from `CurveAssumption` and the three assumptions named
above, on any curve. A point of the curve has many extended coordinates, and the code never
compares them, but what `EncodePoint` makes of them; the relation
`u \in CoordinatesOf(p)` is kept by every step.

* The loop. A recursive function is a `CHOOSE`, and one that halves its argument is no
  function over `Nat` that a library theorem yields: `LoopIs` builds it by iterating one turn
  (`Iteration`) as often as the scalar says, which is enough, and shows that the rest
  of the turns change nothing. `DoubleAndAddIs` is the loop's invariant, the result plus `e`
  times the addend, by induction over all smaller scalars; an odd scalar needs that the
  addition is associative. `ScalarMultIsTimes`: the code multiplies.
* The group. `TimesSum` and `TimesProduct` (multiples add and multiply), `TimesRemainder`
  (a scalar counts modulo `L`), `MultiplesDiffer` (below `L` they differ).
* The scheme. `SignedIsVerified`: for every secret scalar and all hashes, `sB = R + kA`, and
  with its `R` no number is accepted but the reduced `s`, which excludes the congruent
  `s + L` and all the others. `SignaturesCorrect`: so it is of all that a job signs
  (`Signed`). `L` need not be prime for that, nor the cofactor 8.

**Only model-checked**: the five liveness properties (`EventuallyConsumed`,
`EventuallyRegistered`, `RowsReachClients`, `GoneClientsAreNoticed`, `EveryRowIsPassed`), whose
fairness and `ENABLED` are out of the prover's reach; every other property of a passing run is a theorem. That the formulas of one
addition, one encoding and one decoding fit the curve (`CoordinatesAssumption`), and that the
curve is a group, are assumptions of the proofs, which TLC evaluates on a curve of 40
points and nothing proves of the large one: it is polynomial algebra over a field, on
terms of degree eight and more.

## What is not modelled

* The embedding and the features of the classifier: a probability is any of a small set.
* SHA-512: its scalars are arguments. In `NodeAgent` and `OneJob` a signature of the core is
  sound or not.
* Transport: the reader of `_FetchResponse`, which nothing takes (transport.py:224-230), the
  abort after 30 s (an error like any other) and the limit on a request's body.
* The page's filters, which hide rows and change nothing, its status line, the Host check
  (a conversion on one string).
* The argument parser, `dump-log`, the opening of a browser by `serve-log`: no state that
  is shared.
* Modes of files, and the characters of a row of the job log.
* The rows the job cycle appends and those the live tail and the shipper read are one
  kind of thing in three modules, which are not composed.

## The plan

What a next step would add, in this order:

1. The job log as one module that `NodeAgent`, `LogWall` and `LogShip` share, in place of
   the three pictures they have of it.
2. `Enrolment` and `NodeAgent` composed: a `leave` during the job cycle, with the seen file
   and the log among the entries it deletes.
3. An abstract specification of shipping (each row handed over at least once, in order)
   for `LogShip` and `BrowserNode` to implement until they are garbled or mingled.
