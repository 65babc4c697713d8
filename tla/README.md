# Character Voice Service: verification project

TLA+ specifications, TLC configurations and TLAPS proofs for Character Voice
Service (CVS), a local service that turns text into speech with one of several
GPU engines. The engines do not fit on the GPU together, so the hard part of
the program is not the audio: it is deciding, across several CVS processes,
crashes and lost answers, which engine may be running and whether it may be
stopped. That core is modelled and proved, and with it the durable protocols
around it: the voice switch of the GPT-SoVITS backend, the activation of
external engines, the watchdog of the IndexTTS sidecar, the model registry with
its import, the benchmark runner with the chain of evidence from the frozen
corpus to the comparison report, the files of a voice with the scripts that change
them, and the bootstrap of the admin token.

## 1. The system

| Part | Source | State it keeps | Operations |
|---|---|---|---|
| Process tree containment | `server/runtime_process_tree.py`, `runtime_windows_job.py` | none of its own: the OS session of each engine | spawn as session leader, list live members, SIGTERM then SIGKILL, wait until empty |
| Slot lease | `server/runtime_slot_lease.py` | an OS file lock per exclusive group | acquire (nonblocking), release; dies with the process |
| Owner receipt | `server/runtime_orphan_receipt.py` | `<group>.owner.json`: absent, starting, running | publish_starting, publish_running, clear, reconcile_prior_owner |
| Group guard | `server/runtime_inference_admission.py` | activity lock, `inference-pending` receipt | enter (nonblocking, same-thread nesting), begin_inference, finish_inference |
| Runtime supervisor | `server/runtime_supervisor.py` | per process: RLock, `_owned` processes with `tree_uncertain` and `exit_observed`, restart backoffs | start, stop, restart, status, shutdown_all, ensure_ready |
| Engine dispatch | `server/engines/__init__.py`, `server/app.py` | none | synthesize: admit, ensure ready, begin, submit, classify the outcome |
| External activation | `server/runtime_external_activation.py`, supervisor lines 736-874 | request file, activation lease | publish, reconcile on health, acknowledge |
| GPT-SoVITS transaction | `server/backends/gpt_sovits.py` | selected weights, durable transaction record, a lock | switch two weights, synthesize, retire the record |
| IndexTTS sidecar | `sidecars/index_tts_api.py` | inference lock, active request, shutdown flag | infer with a watchdog, health, shutdown |
| Model registry | `server/model_registry.py` | `registry.json`, immutable model directories, a lock file | scan, resolve, set_status, promote, retire, import |
| Evaluation registry | `server/evaluation_registry.py` | create-only evaluation records | write, list, is promotable |
| Voicebench runner | `server/voicebench.py` | `run.json` checkpoint, staged and final WAV files | run, resume |
| Voicebench comparison | `server/voicebench_compare.py` | create-only report | compare two complete runs |
| Benchmark dataset | `server/benchmark_dataset.py` | create-only manifest of the corpus | freeze, verify |
| WAV validation | `server/audio_validation.py` | none | pure validation |
| Profiles, bindings, routing | `server/voice_profiles.py`, `voice_bindings.py`, `emotion_router.py` | JSON files, replaced by rename | selection of model, binding and reference for a request; register a binding |
| Reference import | `server/reference_import.py` | the WAV files of a voice, its profile | import a pack |
| System graph | `server/system_graph.py` | none | connect all identities, trace one voice |
| Registries and reports | `server/runtime_registry.py`, `engine_registry.py`, `reconciliation.py` | static JSON files | parse, report |
| Configuration | `server/config.py` | admin token file, bootstrap lock | create or read at start |
| Migration scripts | `scripts/migrate_model_registry.py`, `migrate_index_tts_binding.py` | profile, backup, shared manifest, bindings | convert a profile, bind a voice to the shared model |
| Other scripts | `scripts/` | none | preflight, benchmark commands |

How the core interacts. A speech request calls `ensure_ready`, then
`engines.synthesize`, which enters the group guard, calls `ensure_ready` again,
writes the pending receipt, sends the HTTP request and removes the receipt only
when it knows how the request ended. `start`, `stop` and `restart` take the
supervisor's RLock first and the group guard second, the opposite order. A start
stops the group's other engine, takes the slot lease, reconciles the owner
receipt of a predecessor, publishes its own and spawns the process.

How the evidence flows. `freeze_dataset` writes a manifest of the corpus once;
`run_voicebench` verifies the corpus against it, reads it once more for its rows
and its reference recording, and binds `run.json` to both; `compare_runs`
verifies the corpus again, reads the manifest again and compares the two, loads a
complete run and its files and creates a report. Every one of these is a process
of its own, and the service that speaks and the corpus that is read change under
them. An evaluation record is not part of the chain: `write_evaluation` stores any
well-formed record and opens neither run nor report
(`docs/evaluation-provenance-v1.md`), and `model_is_promotable` believes it.

How a model is served. `read_valid_profile` resolves every registry-backed model
of the profile; `resolve_profile_selection` then asks the registry for the default
of the voice, selects among the models that are resolved already, or falls back to
the profile's own default, and finally looks for a binding, whose model it resolves
anew. The registry may change between any two of these reads.

How the files of a voice change. `migrate_profile`, `import_reference_pack` and
the IndexTTS binding script read a file, write `<file>.tmp` under a fixed name
and rename it, without a lock. Requests and the system graph read the results at
any moment. Every process, scripts included, first obtains the admin token.

Hard behaviours: two locks taken in both orders; a durable record and an OS
lock that must agree although they are written at different moments and only
one survives a crash; a leader that dies before its workers; answers that never
come while the GPU is still computing; cleanup that cannot be verified; files
that are verified, read again and trusted while somebody edits them; scripts
that die between two of their files, or share a temporary one.

What makes each core part correct:

- containment, lease and receipt: at most one managed process tree per group,
  always named by the durable receipt, whoever crashes when;
- guard: one job at a time, durable evidence while it may run, no signal to an
  engine under a job;
- supervisor: backoff is honoured, no lease is given away while a tree may
  live, every call ends;
- the whole: the abstract group of `GpuGroup.tla` is implemented.
- GPT-SoVITS transaction: a voice never speaks with another voice's weights, and
  a backend that may still be working receives nothing else;
- external activation: one unanswered command per service key, and a late
  engine is not a dead end;
- sidecar: only an overdue inference is killed, and every overdue one is;
- model registry: no command undoes another one's change, the registry's default
  of a voice is served only by a revision that was evaluated, quarantine holds, an
  import is whole or absent;
- voicebench: what `run.json` records is what the files hold at every moment the
  runner may die, and nothing recorded is generated twice;
- evidence: every session of a run has verified the same corpus and uses the
  same reference recording, a report is of a complete run and of one corpus;
  manifests and reports are never replaced;
- voice files: what a profile or binding names is there, scripts that run one at
  a time lose nothing wherever they die, and the trace of a voice contains
  everything a request for it can depend on;
- admin token: a token in the making is not refused, a published one not
  replaced.

## 2. Modules

| Module | Models |
|---|---|
| `ProcessTree` | the host: leaders, workers, signals, engines started by hand, jobs being computed |
| `OwnerReceipt` | slot lease and owner receipt (extends `ProcessTree`) |
| `GroupGuard` | activity lock and pending receipt (extends `OwnerReceipt`) |
| `RuntimeSupervisor` | every supervisor operation as steps of threads (extends `GroupGuard`) |
| `SpeechService` | speech and synthesize; the complete specification of the core and its properties |
| `GpuGroup` | the abstract specification of the core: load, evict, vacate, accept, finish |
| `GptServing` | the weight switch and generation of one GPT-SoVITS request, against backends that answer late |
| `ExternalActivation` | engines of an external System Supervisor that share one service key |
| `IndexTtsSidecar` | the sidecar's handlers, inference slot, watchdog timers, shutdown |
| `ModelRegistry` | the registry file and its lock, the administrative commands, the requests that are served a model |
| `ModelImport` | the import, crashes, edits by hand; the complete specification of the registry and its properties |
| `VoicebenchRun` | one benchmark directory, its runner and the service it measures |
| `BenchmarkEvidence` | the corpus, its manifest, the runs bound to it, reports (extends `VoicebenchRun`) |
| `AdminToken` | the bootstrap of every CVS process |
| `VoiceFiles` | profile, bindings, WAVs and shared manifest of one voice, and the three scripts that change them (extends `AdminToken`) |
| `SystemGraph` | the graph and its trace, and what a request selects, over the same files; the properties of the voice files (extends `VoiceFiles`) |
| `VoiceService` | abstract: what a GPT-SoVITS backend promises the clients that share it |
| `ActivationLedger` | abstract: which commands to external engines are on record |
| `ModelLifecycle` | abstract: the model registry as one serial object |
| `EvidenceChain` | abstract: from the measured subject to the report |
| `MC...` | model values, functions and symmetry for TLC, one per specification |
| `RuntimeGroupProofs` | the core: types; one tree per group; the backoff; one job, no signal under a job; refinement of `GpuGroup` |
| `GptServingProofs`, `ExternalActivationProofs`, `ModelRegistryProofs` | one per specification, each with the refinement of its abstract specification |
| `IndexTtsSidecarProofs`, `VoicebenchRunProofs` | one per specification |
| `BenchmarkEvidenceProofs` | the evidence, that it refines `VoicebenchRun`, and that it refines `EvidenceChain` |
| `VoiceFilesProofs` | token, voice files and system graph |

Only the core and the GPT-SoVITS transaction meet in the program: the
transaction is what a backend does between begin and finish of the group guard,
which `SpeechService` sees as an answer, a refusal before submission (409) or an
unknown outcome. `ConflictBeforeReceipt` of `GptServing` is the half of that
contract the backend owes: a 409 is only raised when nothing was sent. The
other specifications share no state with the core; `ensure_ready` chooses
between the managed and the external path by the engine's fixed configuration.

Three specifications are compositions. `BenchmarkEvidence` lets the runner of
`VoicebenchRun` take its steps side by side with the commands that freeze and
compare; every behaviour of it is a behaviour of `VoicebenchRun`
(`EvidenceRefinesRun`), so that what is proved of the runner alone holds in the
composition. `VoiceFiles` starts its scripts in processes that went through
`AdminToken`. `SystemGraph` adds no step: it states what two independent readers
compute from the files in every state the scripts can leave. `ModelRegistry` and
`BenchmarkEvidence` do not meet: the evaluation records the registry reads are
declared by whoever writes them, and are a constant to it.

### Abstract specifications

Five abstract specifications say what a component promises, without the
processes, locks, receipts, files and crashes it is made of. Each is shown to be
implemented, by a run on a small instance and by a theorem for every one.

- `SpeechService` implements `GpuGroup`: one engine is loaded, accepts one job at
  a time, and is evicted only without a job.
- `GptServing` implements `VoiceService`. Per backend, `client` is the thread its
  transaction receipt names, `voice` (`Voicing`) the voice this thread still waits
  for, or nobody's if it has given up or died, `spoken` (`Spoken`) whether it
  knows of its audio; `switching` and `heard` (`Switching`, `Heard`) are what is
  in the backend's inbox, late or not. Whatever fails, the backend is in the turn
  of one client and speaks with the voice this client asked for; a client that
  gave up blocks it until it is quiet.
- `ExternalActivation` implements `ActivationLedger`. `intent` is the receipt,
  `fresh` whether some caller is between writing it and sending its command,
  `seen` whether some caller that holds the lease has seen its engine healthy,
  `working` the unanswered commands, `up` the engines alive. Leases, probes,
  crashes and timeouts do not show.
- `ModelImport` implements `ModelLifecycle`. `status`, `revision` and `default`
  are the published registry; a command takes effect at the step that replaces
  the file, and its scan, its draft, its import and its death do not show.
  `known` (`Known`) are the models a request has found in order, `answer`
  (`Answers`) the manifest it is served and by what right: the registry's default,
  the profile (a model named by the request, or the profile's own default), or a
  binding. Only the first is promised to be evaluated.
- `BenchmarkEvidence` implements `EvidenceChain`. `subject` is the identity, the
  corpus and the reference of `run.json`, `result` its recorded items with the
  corpus their rows came from, `published` the files under their final names,
  `report` the report once it is whole (`Whole`). A sample may come from another
  corpus than the subject's, only with the subject's reference; a report is made
  only if this reference is the one of the dataset it names. Sessions, retries,
  staged and torn files do not show.

### State of the core

`leaders` and `workers` are the live session leaders and
their live descendants, each named by the launch (the receipt's `launch_id`)
that created the session. `slot` is the process holding the flock of
`<group>.lock`; `receipt` the content of `<group>.owner.json`; `activity` the
thread holding the activity flock and `pending` the thread whose request the
pending receipt names. `owned`, `uncertain`, `exitSeen` and `cooldown` are
`_owned`, its two flags and the engines with a positive `_restart_cooldown`.
`pc`, `op`, `eng`, `victim`, `todo` and `launch` are the place and locals of a
request thread. `jobs` is what the backends are really computing, which no CVS
process can read.

### State of the other specifications

- `GptServing`: `mutex` is `_backend_lock` of each process, `active` its
  `_active_managed_model`, `lease` the OS lock and `receipt` the transaction
  file of each endpoint, `endpoint` what the runtime registry resolves to.
  `inbox` and `loaded` are the backend: the HTTP requests it has and has not
  finished, and its two weights; CVS reads neither. A call that times out leaves
  its request in `inbox`, to be performed later or never.
- `ExternalActivation`: `lease` and `receipt` are the lock and the pending
  receipt of the service key, `health` the engines, `saw` a caller's last probe.
  `unanswered` is history: commands whose engine has not been up since, the ones
  the external supervisor may still act upon.
- `IndexTtsSidecar`: `lock` is `_INFER_LOCK`, `active` `_ACTIVE_INFERENCE`,
  `timer` and `age` the `threading.Timer` and the monotonic age of each request,
  in ticks that saturate at the deadline. A timer may wake `Early`.
- `ModelRegistry`: `registry` is the registry file, `lock` its flock, `disk`
  and `weights` the directories of the Model Root with the content of their
  manifests and whether the weights are as recorded; `found` and `draft` are
  what a command has read and is about to publish. A scan reads one directory
  per step. A request resolves the models of its `Profile` one per step (`todo`,
  `found`), asks for the default after that, and `served` is the manifest it ends
  up with. `outdated` is history: commands that had looked before the last
  publication. Evaluation records are create-only, so they are a constant: every
  behaviour with fewer records is one of the modelled behaviours.
- `VoicebenchRun`: `run` is `run.json`, `saved` the runner's copy of it,
  `staged` and `final` the `.wav.part` and `.wav` files. Audio is named by the
  identity that spoke it and the take, so equal digests mean equal origin.

- `BenchmarkEvidence`: `corpus` is the content of the recordings and reviewed
  rows, `manifest` the frozen file, `bound` and `reference` the `dataset_sha256`
  and `reference_audio_sha256` in `run.json`, `stage` how far the runner is with
  the corpus, `claimed` the manifest it verified and `rows` the one it then read.
  `job` is the command of each worker process with what it has read. `report` is
  the file, `Torn` between its exclusive creation and the end of the write.
  `under` is history: the manifest that had been verified and the one the rows
  were from when an item was recorded.
- `AdminToken`: `tokenFile` is `admin-token.txt`, `bootLock` the bootstrap lock,
  `boot` where each process is.
- `VoiceFiles`: `live` and `staged` are the profile and the bindings file and
  their `.tmp` files, `backup`, `audio` and `manifest` the files written in
  place (`torn` between creation and the end of the write), `registered` and
  `default` what the model registry has of this voice. `job` is the script of
  each process with the content it read, `fd` where the file it opened is by
  now: still staged, renamed over the live file by somebody else, or replaced
  since. `overlapped` is history: files two scripts have worked on at a time.

### Grain

One action is one observation or change of something another actor can
see. In the core, `stop_managed_tree` is two actions (signal, verify), a launch
is four (publish_starting, Popen, publish_running, health polling), because a
crash or another process can come between them. Exceptions are branches of
actions that unwind every `with` block and `finally` (`Raise`, `Leave`,
`Return`, `Stop`). Files that are staged and then renamed, replaced or linked
appear at once; staged files with unique names are read by nobody and left out,
the fixed `.wav.part` of voicebench and the fixed `.json.tmp` of the voice files
are not. A file created exclusively and then written is two actions. The corpus
is read as one look, though the code reads it row by row, and so are the graph
and the selection of a reference. A verification opens the manifest and then the
recordings; an edit between is taken to come before or after both. Selecting a
binding and resolving its model are one step, since nothing else is read between.

### What is abstracted

Time: a backoff may expire at any moment, a startup
deadline may be missed by the engines in `Slow`, a health probe may go
unanswered although the engine lives, an HTTP call may time out at any moment.
An unreadable identity, session or receipt is the refusing branch, available
whatever the truth is. Reason strings, logs, HTTP bodies and diagnostics are
left out. The content of a corpus, a pack, a transcript or a statistic is a
value; the second run directory of a comparison was finished before and is
fixed. Launch and request identities are fresh uuids: an id may be reused
once nothing refers to it. In `ModelRegistry` a manifest is its digest, and the
status "discovered" is not told apart from "candidate".

The mutants (definitions marked `Mutant` in the modules) are plausible bugs of
a mapped definition; each property is known to fail under one of them.

## 3. Runs

| Run | Instance | Checks |
|---|---|---|
| `controllers` | two controller processes with one thread each, two engines, two launches; start, stop, restart, status, shutdown_all, crashes | `TypeOK`, `OneTree`, `ReceiptCoversTree`, `OwnerKeepsLease`, `BackoffRespected` |
| `speech` | two controllers, speech and stop; one engine started on demand, one run by hand | `OneJob`, `JobsLeaveEvidence`, `NoSignalDuringInference`, `ImplementsGroup` |
| `calls_end` | one controller with two threads; stop, restart, speech; fairness | `CallsEnd` |
| `stop_is_no_crash` | one controller; start, stop, status | the violated `StopIsNoCrash` |
| `two_processes` | two processes, one backend, two voices and a model loaded by hand | `OneOperation`, `UnresolvedIsRecorded`, `ImplementsVoiceService` |
| `two_endpoints` | one process with two threads, two backends, the endpoint edited under them | `ConflictBeforeReceipt`, `SpeaksWithItsVoice` |
| `activation` | two callers, two engines with one service key, three request ids; fairness | `UnansweredIsRecorded`, `LateHealthRecovers`, `ImplementsLedger` |
| `watchdog` | three handlers, deadline of two ticks, timers up to one tick early; fairness | `RunningIsTracked`, `AbortsOnlyOverdue`, `StallsAreBounded` |
| `returned_is_killed` | two handlers | the violated `ReturnedIsNotKilled` |
| `registry` | two processes, two models of one voice, two directories, two manifests (one asks for the status default), a profile of both models, two edits by hand | `NoStalePublication`, `ServedWasEvaluated`, `QuarantineHolds`, `InstalledWhole`, `ImplementsLifecycle` |
| `evidence` | two samples, two identities, two takes, two corpora with a reference recording each, two workers | `VerifiedCorpus`, `OneReference`, `ReportIsOfTheRun`, `EvidenceIsCreateOnly`, `ImplementsChain`; of the runner `JournalMatchesFiles`, `CompleteMeansPublished`, `OneIdentity`, `NeverRegenerated` |
| `voice_files` | two processes, two tokens, one legacy model, a pack of one reference, three scripts | `NamedIsThere`, `SerialScriptsAreSafe`, `SerialScriptsOnlyAdd`, `TraceCoversGeneration`, `TokenIsTrusted` |

The largest runs have about a million states (`registry` 994,000, `evidence`
1,009,000) and take two to four minutes with two workers; checking a refinement
is the larger part of it. The type invariants of the specifications other than
the core are not checked again by a run: their theorems (section 4) hold for
every instance.

What the less obvious properties say. `VerifiedCorpus`: every recorded sample was
made in a session that had verified the corpus `run.json` is bound to.
`OneReference`: every recorded sample was spoken with the reference recording
`run.json` names, whichever manifest its rows came from. That the rows themselves
come from the verified manifest is not claimed, because the code does not ensure
it (see "A gap" below). `ReportIsOfTheRun`: a report names the dataset the complete
run is bound to, and every sample was spoken with the reference of that dataset.
`ServedWasEvaluated`: a request that is given the registry's default is served by
a manifest some promotable evaluation names, though it was resolved before the
default was asked for; nothing is said of the profile's own default, of a named
model or of a binding.

### Bounds and symmetry

Two launches are enough for a live tree to meet a new one, and ids are
reused, so any number of generations is covered. Two threads are enough for
every pairwise race; three would add only queues on a nonblocking lock. Both
controllers being single-threaded in the first two runs leaves races inside one
process to `calls_end`, which has one controller with two threads.

`GptServing` needs two voices for a backend to hold a mixed pair and two
endpoints for a request to outlive a change of endpoint; either run has one of
them, since the mixed pair arises from two processes and the change of endpoint
concerns one. In `ExternalActivation` a third request id lets both callers hold
one and the receipt name another. In `IndexTtsSidecar` three handlers let one
timer be stale while a second request runs and a third is refused; handlers are
used again, so any number of requests is covered. In `ModelImport` the two edits
by hand (`MaxEdits`) change a manifest and restore it, or copy a directory and
remove the original; two directories are enough for a duplicate, two models for
a change of default. The status assigned by hand is default, the one that can
lead to serving without a promotion; validated arises from a change of default,
and retire is a command of its own. The profile of the voice has both models, so
that any of them may be resolved before the default changes. In
`BenchmarkEvidence` each corpus has a reference of its own, so that rows of the
other one can be told (the theorems hold for any `Ref`), two samples let one be
recorded while the other fails, two identities and two corpora change back and
forth, and two workers let any two commands meet, or one command meet the torn
file of another. In `VoiceFiles` `MaxScripts` is three: two scripts share a
temporary file while a third, in the process that is free again, finds what they
leave; two scripts that die one after the other and a third that copes with
both. A pack of one reference is enough because the WAVs are independent; a
legacy model, the shared model and bindings of either make every kind of node of
the graph and of selection occur. Started scripts and edits by hand are the only
counters. No process of the run is given its token in the environment
(`FromEnvironment`): such a process skips the bootstrap and touches nothing of
it; the theorems hold for any choice.

Symmetry is used only in runs without liveness properties and only over
constants the instance treats alike. `MCModelImport` exchanges two models only
together with their directories.

Deadlock is checked in every run: every specification can always go on.

### Fairness

`CallsEnd` assumes weak fairness of each thread's own steps (a Python
thread that can run does run, and every blocking call in the code has a
timeout) and strong fairness of taking the RLock (a waiter is not overtaken for
ever). Nothing is assumed about the environment: engines need not exit, die or
answer, and the operator need not act. Engines that never answer must be in
`Slow`, which is what `startup_timeout` gives every managed engine.

`StallsAreBounded` assumes weak fairness of handler threads, timer threads and
the clock. The end of an inference is not fair: it may hang for ever.

`LateHealthRecovers` says that clients which repeat their requests get a late
engine's receipt retired. Requests must therefore keep coming, a healthy engine
must not miss every probe, and a step that can succeed again and again must not
be refused, fail or be cut off by a crash every single time (strong fairness of
the five steps of the reconciliation). Two engines may share the service key and
either may have been asked for before, but from some point on the callers must
ask for the healthy one: the lease does not wait, so that callers of two engines
can refuse each other for ever.

### Findings

`docs/runtime-crash-loop-containment-v1.md:41` says an intentional
stop creates no unexpected-exit backoff. When a stop has signalled the tree but
cannot verify that it is empty, it raises and keeps the process listed; the next
`status()` or `start()` then finds the leader dead and records an unexpected
exit with a backoff. Run `stop_is_no_crash` shows the sequence.

`docs/indextts-hang-containment-v1.md:42` says that the watchdog is canceled if
the inference ends in time and that late callbacks check the active request
before terminating the process. The request stays active until the `finally`
block has taken `_STATE_LOCK`, so a callback that fires when `tts.infer()` has
returned and its `finally` block has not run yet kills the process with the
finished audio. Run `returned_is_killed` shows it; `AbortsOnlyOverdue` is what
does hold: nothing is killed before its deadline.

### A gap

`voicebench.py:207` verifies the manifest and line 208 reads it again; samples,
texts and the reference digest come from the second read, `dataset_sha256` from
the first, and nothing compares them (`compare_runs` does,
`voicebench_compare.py:149-158`). When a manifest is removed and another one frozen
between the two lines, a fresh run is bound to one corpus and speaks the rows of
the other. With another reference recording the run cannot be resumed nor compared
under the first corpus (`OneReference`, `ReportIsOfTheRun`); with the same
reference and the same ids nothing in the program notices. The model has these
behaviours, `under` records both manifests, and `EvidenceChain` promises no more.
Nor does the program promise that a served model was evaluated: without a usable
registry default in the profile, `voice_profiles.py:297` serves the profile's own,
as `docs/character-registry.md:154` says.

## 4. Proofs

Every theorem holds for any finite or infinite sets of the constants, under the
named assumptions of the modules: types of the constants, and the
"none" values being distinct from real ones.

The core:

- `TypeCorrect`: `TypeOK` is not inductive, since a step indexes `_owned` with a
  local chosen earlier; `FlowInv` adds what each local holds at each program
  point.
- `ReceiptAlwaysCovers`, `OwnerAlwaysLeased`, `OneTreeEver`: `OwnInv` adds that
  a thread inside the lock block holds its RLock (`LockHeld`) and what a thread
  knows at each point (`ThreadOwn`): from slot acquisition to the confirmation
  of the launch no process is listed anywhere, the receipt names this launch,
  and before Popen no tree is alive. Everything else is that receipts are
  cleared only after the tree was seen empty.
- `BackoffAlwaysRespected`: a start looks at the backoff once and spawns much
  later. `BackoffInv` says that in between its engine stays out of the backoffs:
  it holds the supervisor lock, so no other thread of its controller records a
  failure, and what it reaps itself is a sibling.
- `JobsAlwaysEvident`, `OneJobEver`, `NeverSignalledDuringInference`: `AdmitInv`
  adds that a thread at a guarded point holds the activity lock, that the
  holder sees no pending receipt except its own between begin and finish, and
  that every job belongs to the thread the receipt names.
- `GroupImplemented`: from `AdmitInv`, each step that touches trees or jobs is a
  Load, Evict, Vacate, Accept or Finish of `GpuGroup`, every other a stutter.

The others:

- `GptServingProofs` (`OneOperationEver`, `AlwaysRecorded`, `AlwaysItsVoice`,
  `ConflictNeverLate`): a receipt is published only where there is none, and a
  backend that may be busy always has one, so a transaction starts on an idle
  backend; the lease keeps it to one thread, the receipt to one request after
  that thread is gone. `Loading` says which weights are in place at each stage;
  only a restart disturbs them. For `ServiceImplemented` the step of a thread is
  taken to the turn its receipt stands for (`OwnTurn`), and threads without a
  receipt show nowhere (`NoTurn`). `ExternalOnlySpeaks` is the invariant it adds:
  a request for a hand-loaded model has nothing but a generation under way.
- `ExternalActivationProofs` (`SingleFlight`): the receipt is written before the
  command, over none, under the lease; it is removed by a caller that saw its
  engine healthy while it held the lease. `Knows` is what each caller knows of
  the receipt. For `LedgerImplemented` the two questions the ledger asks of all
  callers are questions about one: only the holder of the lease can be writing or
  have seen (`Alone`), and a step of another caller changes neither
  (`OnlyCaller`). Taking the lease, probing, waiting and dying are stutters, a
  lapse or an oversight of the ledger.
- `IndexTtsSidecarProofs` (`AlwaysTracked`, `NeverAbortsEarly`): whoever uses the
  slot holds the lock, and a request begins with its timer off and untracked, so
  a timer about to abort that finds its own request active has checked the age
  of that very request.
- `ModelRegistryProofs` (`NeverStale`, `AlwaysEvaluated`, `AlwaysQuarantined`,
  `AlwaysInstalledWhole`, `LifecycleImplemented`):
  commands exclude each other from their first look to their publication
  (`Exclusive`). A registered model keeps its revision through every draft
  (`Keeps`), whatever the scan found, so that what a request has resolved stays
  what the registry names (`RequestFits`), and the default it asks for afterwards
  was promoted with that very revision (`Vouched`, `ServedFits`), though other
  commands may have changed the default in between. `Confines` bounds what a
  draft does to quarantined models. `InPlace` says which weights an import has
  installed at each step; another import can only install the same. For
  `LifecycleImplemented`, `Effects` says that every draft about to be published is
  exactly what its command makes of the registry as it is now, not as it was when
  the command looked; publication is then one action of `ModelLifecycle`, and
  every other step of a command a stutter.
- `VoicebenchRunProofs` (`JournalAlwaysMatches`, `CompleteIsPublished`,
  `AlwaysOneIdentity`, `NothingRegenerated`): the runner's copy of `run.json`
  differs from the file only in the item whose exception it is handling, and at
  each step of an item it is known at which of its two names its bytes are.
- `BenchmarkEvidenceProofs` (`EvidenceRefinesRun`, `RunHasOneCorpus`,
  `RunHasOneReference`, `ReportStaysTrue`, `OnlyCreated`, `ChainImplemented`):
  every step is a step of `VoicebenchRun` or leaves its variables alone, so its
  invariant is at hand. `EvidenceInv` adds that a session runs only under the
  manifest and the reference `run.json` is bound to (`SessionIsBound`), that
  recorded items were made under them (`DigestsUnderBound`), that what a worker
  holds about a complete run is true and stays so, since complete runs do not
  change (`HeldIsTrue`, `WrittenIsTrue`), and that a torn file has one writer
  (`WritersAlone`). For `ChainImplemented` the end of the write of a report is the
  moment of comparison, because what the writer holds is still true of the run
  then. Recording
  and renaming are one measurement and one publication (`Measured`, `Renamed`).
- `VoiceFilesProofs` (`NamedAlwaysThere`, `SerialAlwaysSafe`,
  `SerialOnlyEverAdds`, `TraceAlwaysCovers`, `TokenAlwaysTrusted`): `FilesInv`
  says of every profile on disk and in a script what `NamedIsThere` says of the
  live one, and that a script has put there what it is going to name
  (`NamesInv`), since a late write may publish any of them; that the one script
  at work on a file drafts what is there and renames what it wrote
  (`SerialInv`); that such a script binds a model it has seen registered
  (`BindInv`); and that the backup is of an unconverted profile (`BackupInv`).
  `TraceCoversGeneration` needs no invariant: it holds in every state,
  reachable or not.
- The types of the smaller specifications (`ServingTyped`, `RegistryTyped`,
  `RunTyped`, `SidecarTyped`, `ActivationTyped`, `EvidenceTyped`, `VoiceTyped`)
  follow from the same invariants.

Only model-checked: `CallsEnd`, `StallsAreBounded` and `LateHealthRecovers`
(liveness under fairness and ENABLED are outside the prover's reach). The two
violated claims of the documents have counterexamples instead of theorems.

## 5. Not modelled

- The Windows paths: Job Object containment and byte-range locks.
- The inside of one `/proc` scan: it is taken as an atomic look, though a member
  that forks and exits during the scan can be missed. Likewise the two reads of
  one manifest by `validate_manifest`, and the registry and files one
  `resolve_model` reads.
- Engines without an exclusive group, and edits of the runtime registry while
  CVS runs (in the core; `GptServing` has them).
- Loss of power, where a rename may survive and the directory entry before it
  may not.
- `reset_model_state` of the GPT-SoVITS backend, which nothing calls; the
  `status()` report of external engines; a watchdog deadline of 0, which turns
  the watchdog off; the `busy` field of a 503 answer.
- Promotion without evaluation and `save_registry` (both used by tests only),
  legacy profiles of one model, the parameters of bindings, and the cue words of
  `choose_reference`, whose answer is any reference of the profile.
- `write_evaluation` and the records as files: whoever writes one declares it, so
  that its content is related to nothing else in the program.
- Models of a profile given by explicit weight paths, which the registry does not
  know.
- Two voicebench runners in one directory, and the statistics of a comparison.
- A repair of what stays torn after a crash: nothing in the code retries over a
  torn manifest, report, backup or shared manifest; the models have the
  torn file and the refusal of the next command, and for the evidence the
  operator who removes it.
- `audio_validation.py`: the walk over the chunks of one WAV file, a sequential
  parse of bytes whose every case a unit test reaches.
- `engine_registry.py` and the parsing half of `runtime_registry.py`: validation
  of static descriptors.
- `reconciliation.py` and `external_supervisor_preflight.py`: read-only reports
  over the host inventory, without state of their own; the nodes of capabilities
  and engine descriptors in the system graph, on which no generation depends.
- Read-only endpoints, parsing of configuration, wording and logging.

## 6. Plan

Done: the core, the durable protocols, the model registry, the chain of evidence,
the voice files with their scripts, the system graph and the admin token; every
safety property that is checked is also proved; the core, the GPT-SoVITS
transaction, the external activation, the registry and the evidence implement
their abstract specifications. Left, in order of importance:

1. `ProcScan`: the scan of a session whose members fork while it is read.
2. Engines without an exclusive group, side by side with the core.
3. An abstract specification of the voice files while scripts run one at a time.
4. `WavContract`: the chunk walk against a reference definition.
