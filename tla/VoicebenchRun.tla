---------------------------- MODULE VoicebenchRun ----------------------------
(***************************************************************************)
(* server/voicebench.py: a benchmark run generates one WAV per held-out    *)
(* sample and publishes it in two phases, a staged .wav.part and its       *)
(* digest in run.json first, the final name second.  The runner can die    *)
(* or fail at every step and be resumed; the service under test can change *)
(* its identity.  One runner works on a directory at a time.               *)
(*                                                                         *)
(* pc: idle; create (first checkpoint); recover, recovered; mark; item;    *)
(* resolve; speech; stage; journal; publish; settle; fail; finish.         *)
(***************************************************************************)
EXTENDS Naturals

CONSTANTS
    Samples,     \* the held-out items of the frozen corpus
    Identities,  \* what /v1/audio/resolve can answer
    Takes,       \* synthesis is not deterministic: takes differ in bytes
    NoAudio,     \* no file, no digest
    Torn         \* a file whose write was interrupted

\* Bytes, and their digest, are named by the identity and take they come from;
\* the values that stand for no file are none of them.
Audio == Identities \X Takes
ASSUME VoicebenchAssumption ==
    /\ NoAudio \notin Audio
    /\ Torn \notin Audio
    /\ Torn # NoAudio
    /\ NoAudio \notin Samples

VARIABLES
    serving,  \* the identity the service has now
    made,     \* the output directory exists
    run,      \* run.json, or NoRun
    staged,   \* staged[i]: content of <i>.wav.part
    final,    \* final[i]: content of <i>.wav
    pc,
    saved,    \* the runner's copy of run.json
    item,     \* the sample being generated
    audio     \* the response it got

files == <<staged, final>>
vars == <<serving, made, run, files, pc, saved, item, audio>>

Pending == [status |-> "pending", sha |-> NoAudio]
Failed == [status |-> "failed", sha |-> NoAudio]
Prepared(a) == [status |-> "prepared", sha |-> a]
Ok(a) == [status |-> "ok", sha |-> a]
Records == {Pending, Failed} \cup {Prepared(a) : a \in Audio} \cup {Ok(a) : a \in Audio}
Journaled(r) == r.status \in {"prepared", "ok"}

Runs == [status : {"running", "partial", "complete"},
         identity : Identities, items : [Samples -> Records]]
NoRun == [status |-> "none"]
FreshRun(d) == [status |-> "running", identity |-> d,
                items |-> [i \in Samples |-> Pending]]

Pcs == {"idle", "create", "recover", "recovered", "mark", "item", "resolve",
        "speech", "stage", "journal", "publish", "settle", "fail", "finish"}
ItemPcs == {"resolve", "speech", "stage", "journal", "publish", "settle", "fail"}

\* Every variable keeps its type; a digest is recorded with "prepared" and
\* "ok" and with no other status.
TypeOK ==
    /\ serving \in Identities
    /\ made \in BOOLEAN
    /\ run \in Runs \cup {NoRun}
    /\ staged \in [Samples -> Audio \cup {NoAudio, Torn}]
    /\ final \in [Samples -> Audio \cup {NoAudio, Torn}]
    /\ pc \in Pcs
    /\ saved \in Runs \cup {NoRun}
    /\ pc # "idle" => saved \in Runs
    /\ item \in Samples \cup {NoAudio}
    /\ pc \in ItemPcs \cup {"recovered"} => item \in Samples
    /\ audio \in Audio \cup {NoAudio}
    /\ pc \in {"stage", "journal"} => audio \in Audio

Init ==
    /\ serving \in Identities
    /\ made = FALSE
    /\ run = NoRun
    /\ staged = [i \in Samples |-> NoAudio]
    /\ final = [i \in Samples |-> NoAudio]
    /\ pc = "idle"
    /\ saved = NoRun
    /\ item = NoAudio
    /\ audio = NoAudio

-----------------------------------------------------------------------------
Stop ==
    /\ pc' = "idle"
    /\ saved' = NoRun
    /\ item' = NoAudio
    /\ audio' = NoAudio

\* _durable_json replaces run.json by s at once, or fails and changes nothing.
Checkpoint(s) == run' = s

SetItem(r) == [saved EXCEPT !.items[item] = r]

\* A fresh run resolves the serving identity, then makes its directory.
StartRun ==
    /\ pc = "idle"
    /\ ~made
    /\ made' = TRUE
    /\ saved' = FreshRun(serving)
    /\ pc' = "create"
    /\ UNCHANGED <<serving, run, files, item, audio>>

CreateCheckpoint ==
    /\ pc = "create"
    /\ \/ Checkpoint(saved) /\ pc' = "mark" /\ UNCHANGED <<saved, item, audio>>
       \/ Stop /\ UNCHANGED run
    /\ UNCHANGED <<serving, made, files>>

\* _validate_resume, for one item of run.json: the recorded bytes are at
\* exactly one of the two names, and no file is there that nothing records.
Consistent(i) ==
    LET r == run.items[i]
        candidate == IF final[i] # NoAudio THEN final[i] ELSE staged[i]
    IN  IF Journaled(r)
        THEN /\ r.status = "ok" => staged[i] = NoAudio
             /\ r.status = "prepared" => (final[i] = NoAudio) # (staged[i] = NoAudio)
             /\ candidate = r.sha
        ELSE final[i] = NoAudio /\ staged[i] = NoAudio

ResumeRun ==
    /\ pc = "idle"
    /\ run # NoRun
    /\ \A i \in Samples : Consistent(i)
    /\ run.identity = serving
    /\ run.status # "complete"
    /\ saved' = run
    /\ pc' = "recover"
    /\ UNCHANGED <<serving, made, run, files, item, audio>>

\* staged.rename(target)
Rename(i) ==
    /\ final' = [final EXCEPT ![i] = staged[i]]
    /\ staged' = [staged EXCEPT ![i] = NoAudio]

\* Mutant: resuming leaves prepared items to the loop.
RecoverNothing ==
    /\ pc = "recover"
    /\ pc' = "mark"
    /\ UNCHANGED <<serving, made, run, files, saved, item, audio>>

\* _recover_prepared, one prepared item at a time.
RecoverPrepared ==
    /\ pc = "recover"
    /\ \/ \E i \in Samples :
             /\ saved.items[i].status = "prepared"
             /\ \/ staged[i] # NoAudio /\ final[i] = NoAudio /\ Rename(i)
                \/ staged[i] = NoAudio /\ UNCHANGED files
             /\ item' = i
             /\ pc' = "recovered"
             /\ UNCHANGED <<saved, audio>>
       \/ /\ \A i \in Samples : saved.items[i].status # "prepared"
          /\ pc' = "mark"
          /\ UNCHANGED <<files, saved, item, audio>>
       \/ Stop /\ UNCHANGED files
    /\ UNCHANGED <<serving, made, run>>

RecordRecovered ==
    /\ pc = "recovered"
    /\ LET s == SetItem([saved.items[item] EXCEPT !.status = "ok"]) IN
       \/ /\ Checkpoint(s)
          /\ saved' = s
          /\ pc' = "recover"
          /\ UNCHANGED <<item, audio>>
       \/ Stop /\ UNCHANGED run
    /\ UNCHANGED <<serving, made, files>>

MarkRunning ==
    /\ pc = "mark"
    /\ LET s == [saved EXCEPT !.status = "running"] IN
       \/ /\ Checkpoint(s)
          /\ saved' = s
          /\ pc' = "item"
          /\ UNCHANGED <<item, audio>>
       \/ Stop /\ UNCHANGED run
    /\ UNCHANGED <<serving, made, files>>

-----------------------------------------------------------------------------
(* The loop over the samples.                                              *)

Attempted(i) == saved.items[i].status # "pending"   \* mutant
Done(i) == saved.items[i].status = "ok"

NextItem ==
    /\ pc = "item"
    /\ \/ \E i \in Samples : ~Done(i) /\ item' = i /\ pc' = "resolve"
       \/ (\A i \in Samples : Done(i)) /\ pc' = "finish" /\ UNCHANGED item
    /\ UNCHANGED <<serving, made, run, files, saved, audio>>

\* An exception inside the loop.
Fails == pc' = "fail" /\ UNCHANGED <<saved, item, audio>>

Resolve ==
    /\ pc = "resolve"
    /\ \/ serving = saved.identity /\ pc' = "speech" /\ UNCHANGED <<saved, item, audio>>
       \/ Fails
    /\ UNCHANGED <<serving, made, run, files>>

\* Mutant: the response headers are not compared with the resolved identity.
SpeechUnchecked ==
    /\ pc = "speech"
    /\ \E n \in Takes : audio' = <<serving, n>>
    /\ pc' = "stage"
    /\ UNCHANGED <<serving, made, run, files, saved, item>>

\* The service answers with the identity it has by now.
Speech ==
    /\ pc = "speech"
    /\ \/ /\ serving = saved.identity
          /\ \E n \in Takes : audio' = <<serving, n>>
          /\ pc' = "stage"
          /\ UNCHANGED <<saved, item>>
       \/ Fails
    /\ UNCHANGED <<serving, made, run, files>>

\* staged.open("xb"), write, fsync; an error leaves whatever was written.
Stage ==
    /\ pc = "stage"
    /\ \/ /\ staged[item] = NoAudio
          /\ staged' = [staged EXCEPT ![item] = audio]
          /\ pc' = "journal"
          /\ UNCHANGED <<saved, item, audio>>
       \/ /\ staged[item] = NoAudio
          /\ staged' = [staged EXCEPT ![item] = Torn]
          /\ Fails
       \/ Fails /\ UNCHANGED staged
    /\ UNCHANGED <<serving, made, run, final>>

Journal ==
    /\ pc = "journal"
    /\ saved' = SetItem(Prepared(audio))
    /\ \/ Checkpoint(saved') /\ pc' = "publish"
       \/ pc' = "fail" /\ UNCHANGED run
    /\ UNCHANGED <<serving, made, files, item, audio>>

Publish ==
    /\ pc = "publish"
    /\ \/ /\ final[item] = NoAudio
          /\ Rename(item)
          /\ pc' = "settle"
          /\ UNCHANGED <<saved, item, audio>>
       \/ Fails /\ UNCHANGED files
    /\ UNCHANGED <<serving, made, run>>

Settle ==
    /\ pc = "settle"
    /\ saved' = SetItem([saved.items[item] EXCEPT !.status = "ok"])
    /\ \/ Checkpoint(saved') /\ pc' = "item"
       \/ pc' = "fail" /\ UNCHANGED run
    /\ UNCHANGED <<serving, made, files, item, audio>>

\* Mutant: a failed item loses its digest.
RecordForgetful(r) == Failed

\* What the except branch makes of an item: a journaled digest is kept.
FailureRecord(r) == IF Journaled(r) THEN Prepared(r.sha) ELSE Failed

FailRun ==
    /\ pc = "fail"
    /\ \/ Checkpoint([SetItem(FailureRecord(saved.items[item])) EXCEPT !.status = "partial"])
       \/ UNCHANGED run
    /\ Stop
    /\ UNCHANGED <<serving, made, files>>

FinishRun ==
    /\ pc = "finish"
    /\ \/ Checkpoint([saved EXCEPT !.status = "complete"])
       \/ UNCHANGED run
    /\ Stop
    /\ UNCHANGED <<serving, made, files>>

-----------------------------------------------------------------------------
\* The runner is killed; while it writes, the staged file may be torn.
Crash ==
    /\ pc # "idle"
    /\ staged' \in {staged} \cup
          {[staged EXCEPT ![i] = Torn] : i \in {j \in {item} \cap Samples :
                                                  pc = "stage" /\ staged[j] = NoAudio}}
    /\ Stop
    /\ UNCHANGED <<serving, made, run, final>>

IdentityChanges ==
    /\ serving' \in Identities
    /\ UNCHANGED <<made, run, files, pc, saved, item, audio>>

\* An operator removes a staged file that run.json does not know.
OperatorRemoves(i) ==
    /\ pc = "idle"
    /\ run # NoRun
    /\ ~Journaled(run.items[i])
    /\ staged[i] # NoAudio
    /\ staged' = [staged EXCEPT ![i] = NoAudio]
    /\ UNCHANGED <<serving, made, run, final, pc, saved, item, audio>>

Next ==
    \/ StartRun  \/ CreateCheckpoint \/ ResumeRun \/ RecoverPrepared
    \/ RecordRecovered \/ MarkRunning \/ NextItem \/ Resolve \/ Speech
    \/ Stage \/ Journal \/ Publish \/ Settle \/ FailRun \/ FinishRun
    \/ Crash \/ IdentityChanges
    \/ \E i \in Samples : OperatorRemoves(i)

Spec == Init /\ [][Next]_vars

-----------------------------------------------------------------------------
(* Properties, all of the disk: they hold at every moment the runner may   *)
(* be killed.                                                              *)

\* Every recorded digest has its bytes at exactly one of the two names, and a
\* final file is always one run.json records: a resume after an interruption
\* is refused for no file but an untracked staged one.
JournalMatchesFiles ==
    run # NoRun =>
        \A i \in Samples :
            /\ Journaled(run.items[i]) => Consistent(i)
            /\ final[i] # NoAudio => Journaled(run.items[i])

\* A complete run has every sample under its final name, as recorded.
CompleteMeansPublished ==
    run # NoRun /\ run.status = "complete" =>
        \A i \in Samples : run.items[i] = Ok(final[i]) /\ staged[i] = NoAudio

\* All audio of a run was spoken by the one identity the run recorded, though
\* the service may change between the resolve call, the speech call and runs.
OneIdentity ==
    run # NoRun =>
        \A i \in Samples : Journaled(run.items[i]) => run.items[i].sha[1] = run.identity

\* Once recorded, an item is never generated again and its file never replaced,
\* however often the run fails, dies and is resumed.
NeverRegenerated ==
    [][\A i \in Samples :
          /\ run # NoRun /\ Journaled(run.items[i]) =>
                Journaled(run'.items[i]) /\ run'.items[i].sha = run.items[i].sha
          /\ final[i] # NoAudio => final'[i] = final[i]]_vars

=============================================================================
