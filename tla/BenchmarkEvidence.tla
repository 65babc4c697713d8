------------------------- MODULE BenchmarkEvidence -------------------------
(***************************************************************************)
(* The chain of evidence around a benchmark run: benchmark_dataset.py      *)
(* freezes the reviewed corpus into a manifest and verifies it,            *)
(* run_voicebench binds a run to the manifest it verified and to the       *)
(* reference recording of the manifest it then reads its rows from, and    *)
(* voicebench_compare.py reports on two complete runs.                     *)
(* The commands run in processes of their own, side by side with the       *)
(* runner of VoicebenchRun; any of them can die at every step.  Manifest   *)
(* and report are created exclusively, then written: whoever looks in      *)
(* between, or after the writer died, finds a torn file.                   *)
(*                                                                         *)
(* All corpora have the same samples: a run whose rows name others is      *)
(* refused when it is resumed or compared.                                 *)
(*                                                                         *)
(* job[w].pc: idle; freeze, fill; reread, load, audio, report, print.      *)
(***************************************************************************)
EXTENDS VoicebenchRun

CONSTANTS
    Workers,   \* processes that freeze and compare
    Corpora,   \* contents of the audio root and of its reviewed rows
    Ref,       \* Ref[c]: the digest of the reference recording in corpus c
    NoFile     \* no manifest or report; no corpus

\* What a report names.
Reports == [dataset : Corpora, identity : Identities, shas : [Samples -> Audio]]
References == {Ref[c] : c \in Corpora}
\* Where a sample comes from: the manifest its session had verified, and the
\* one it had its rows from.
Sources == [verified : Corpora, rows : Corpora]

\* Contents are told apart from no file and from a torn one.
ASSUME EvidenceAssumption ==
    /\ NoFile # Torn
    /\ \A f \in {NoFile, Torn} : f \notin Corpora /\ f \notin Reports
    /\ NoFile \notin References

VARIABLES
    corpus,    \* the original recordings and reviewed rows, as they are now
    manifest,  \* the frozen manifest, named by the corpus it was made of
    stage,     \* how far the runner is with the corpus: none, reread, ready,
               \* session
    claimed,   \* the manifest it verified
    rows,      \* the manifest it read its rows and its reference from
    bound,     \* settings.dataset_sha256 of run.json
    reference, \* settings.reference_audio_sha256 of run.json
    under,     \* under[i]: where the session had item i from when it was
               \* journaled (history)
    job,       \* the commands of the workers
    report     \* the comparison report

corpusVars == <<corpus, manifest>>
boundVars == <<stage, claimed, rows, bound, reference, under>>
evidence == <<corpusVars, boundVars, job, report>>
allVars == <<vars, evidence>>

Idle == [pc |-> "idle"]
\* What a worker holds: the corpus it read or the manifest it verified, the
\* manifest it read again, the run it loaded.
Jobs ==
    {Idle}
    \cup [pc : {"freeze", "fill", "reread"}, set : Corpora]
    \cup [pc : {"load"}, set : Corpora, again : Corpora]
    \cup [pc : {"audio", "report", "print"}, report : Reports]

\* Every variable keeps its type.
EvidenceTypeOK ==
    /\ TypeOK
    /\ corpus \in Corpora
    /\ manifest \in Corpora \cup {NoFile, Torn}
    /\ stage \in {"none", "reread", "ready", "session"}
    /\ claimed \in Corpora \cup {NoFile}
    /\ stage # "none" => claimed \in Corpora
    /\ rows \in Corpora \cup {NoFile}
    /\ stage \in {"ready", "session"} => rows \in Corpora
    /\ bound \in Corpora \cup {NoFile}
    /\ reference \in References \cup {NoFile}
    /\ under \in [Samples -> Sources \cup {NoFile}]
    /\ job \in [Workers -> Jobs]
    /\ report \in Reports \cup {NoFile, Torn}

EvidenceInit ==
    /\ Init
    /\ corpus \in Corpora
    /\ manifest = NoFile
    /\ stage = "none"
    /\ claimed = NoFile /\ rows = NoFile
    /\ bound = NoFile /\ reference = NoFile
    /\ under = [i \in Samples |-> NoFile]
    /\ job = [w \in Workers |-> Idle]
    /\ report = NoFile

-----------------------------------------------------------------------------
(* The runner: verify_dataset, then the manifest once more for its rows,   *)
(* which is not compared with the one that was verified.                   *)

\* verify_dataset: every recording is as the manifest says, or the command
\* ends.  An edit of the corpus between the two reads is one before or after.
Verified == manifest \in Corpora /\ corpus = manifest

BeginRun ==
    /\ pc = "idle" /\ stage = "none"
    /\ Verified
    /\ claimed' = manifest
    /\ stage' = "reread"
    /\ UNCHANGED <<vars, corpusVars, rows, bound, reference, under, job, report>>

\* The runner is gone, and what it had read with it.
Leaves == stage' = "none" /\ claimed' = NoFile /\ rows' = NoFile

ReadRows ==
    /\ stage = "reread"
    /\ IF manifest \in Corpora
       THEN stage' = "ready" /\ rows' = manifest /\ UNCHANGED claimed
       ELSE Leaves
    /\ UNCHANGED <<vars, corpusVars, bound, reference, under, job, report>>

\* A fresh run is bound to the manifest that was verified, and to the
\* reference of the one that was read after it.
BindRun ==
    /\ stage = "ready"
    /\ StartRun
    /\ bound' = claimed
    /\ reference' = Ref[rows]
    /\ stage' = "session"
    /\ UNCHANGED <<corpusVars, claimed, rows, under, job, report>>

Reopens ==
    /\ ResumeRun
    /\ stage' = "session"
    /\ UNCHANGED <<corpusVars, claimed, rows, bound, reference, under, job, report>>

\* Mutant: the saved settings are not compared.
ReopenAny == stage = "ready" /\ Reopens

\* Mutant: of the saved settings only the dataset is compared.
ReopenByDataset == stage = "ready" /\ bound = claimed /\ Reopens

\* A resumed one must be bound to both already.
ReopenRun ==
    /\ stage = "ready"
    /\ bound = claimed
    /\ reference = Ref[rows]
    /\ Reopens

\* Refused, failed or killed before the session.
GiveUp ==
    /\ stage \in {"reread", "ready"}
    /\ Leaves
    /\ UNCHANGED <<vars, corpusVars, bound, reference, under, job, report>>

\* The session itself: the steps of VoicebenchRun.
Session ==
    /\ \/ CreateCheckpoint \/ RecoverPrepared \/ RecordRecovered \/ MarkRunning
       \/ NextItem \/ Resolve \/ Speech \/ Stage \/ Journal \/ Publish \/ Settle
       \/ FailRun \/ FinishRun \/ Crash
    /\ IF pc' = "idle" THEN Leaves ELSE UNCHANGED <<stage, claimed, rows>>
    /\ under' = IF pc = "journal" /\ pc' # "idle"
                THEN [under EXCEPT ![item] = [verified |-> claimed, rows |-> rows]]
                ELSE under
    /\ UNCHANGED <<corpusVars, bound, reference, job, report>>

-----------------------------------------------------------------------------
Becomes(w, j) == job' = [job EXCEPT ![w] = j]
Ends(w) == Becomes(w, Idle)
Goes(w, p) == job' = [job EXCEPT ![w].pc = p]

(* freeze_dataset                                                          *)

Freeze(w) ==
    /\ job[w].pc = "idle"
    /\ Becomes(w, [pc |-> "freeze", set |-> corpus])
    /\ UNCHANGED <<vars, corpusVars, boundVars, report>>

\* Mutant: the look before it is trusted and the manifest opened for writing.
CreateManifestOver(w) ==
    /\ job[w].pc = "freeze"
    /\ manifest' = Torn /\ Goes(w, "fill")
    /\ UNCHANGED <<vars, corpus, boundVars, report>>

\* open("x"); an existing manifest with other contents is refused.
CreateManifest(w) ==
    /\ job[w].pc = "freeze"
    /\ IF manifest = NoFile
       THEN manifest' = Torn /\ Goes(w, "fill")
       ELSE Ends(w) /\ UNCHANGED manifest
    /\ UNCHANGED <<vars, corpus, boundVars, report>>

FillManifest(w) ==
    /\ job[w].pc = "fill"
    /\ manifest' = job[w].set
    /\ Ends(w)
    /\ UNCHANGED <<vars, corpus, boundVars, report>>

-----------------------------------------------------------------------------
(* compare_runs.  The second run directory was finished earlier and is not *)
(* touched any more; it may fail the same tests, which ends the command.   *)

CompareRuns(w) ==
    /\ job[w].pc = "idle"
    /\ Verified
    /\ Becomes(w, [pc |-> "reread", set |-> manifest])
    /\ UNCHANGED <<vars, corpusVars, boundVars, report>>

Reread(w) == [pc |-> "load", set |-> job[w].set, again |-> manifest]

\* Mutant: the manifest is read again and not compared with the verified one.
RereadAny(w) ==
    /\ job[w].pc = "reread"
    /\ IF manifest \in Corpora THEN Becomes(w, Reread(w)) ELSE Ends(w)
    /\ UNCHANGED <<vars, corpusVars, boundVars, report>>

RereadManifest(w) ==
    /\ job[w].pc = "reread"
    /\ IF manifest = job[w].set THEN Becomes(w, Reread(w)) ELSE Ends(w)
    /\ UNCHANGED <<vars, corpusVars, boundVars, report>>

ReportOf(w) ==
    [dataset |-> job[w].set, identity |-> run.identity,
     shas |-> [i \in Samples |-> run.items[i].sha]]

\* Mutant: a run whose samples are all there is taken for complete.
LoadUnfinished(w) ==
    /\ job[w].pc = "load"
    /\ IF run # NoRun /\ bound = job[w].again /\ \A i \in Samples : run.items[i].status = "ok"
       THEN Becomes(w, [pc |-> "audio", report |-> ReportOf(w)])
       ELSE Ends(w)
    /\ UNCHANGED <<vars, corpusVars, boundVars, report>>

\* _load_run: run.json, read once; its dataset and its reference are those of
\* the manifest.
LoadRun(w) ==
    /\ job[w].pc = "load"
    /\ IF /\ run # NoRun
          /\ run.status = "complete"
          /\ bound = job[w].again
          /\ reference = Ref[job[w].again]
          /\ \A i \in Samples : run.items[i].status = "ok"
       THEN Becomes(w, [pc |-> "audio", report |-> ReportOf(w)])
       ELSE Ends(w)
    /\ UNCHANGED <<vars, corpusVars, boundVars, report>>

\* Then the files; the second directory may fail the same tests.
LoadAudio(w) ==
    /\ job[w].pc = "audio"
    /\ \/ /\ \A i \in Samples : final[i] = job[w].report.shas[i] /\ staged[i] = NoAudio
          /\ Goes(w, "report")
       \/ Ends(w)
    /\ UNCHANGED <<vars, corpusVars, boundVars, report>>

CreateReport(w) ==
    /\ job[w].pc = "report"
    /\ IF report = NoFile
       THEN report' = Torn /\ Goes(w, "print")
       ELSE Ends(w) /\ UNCHANGED report
    /\ UNCHANGED <<vars, corpusVars, boundVars>>

FillReport(w) ==
    /\ job[w].pc = "print"
    /\ report' = job[w].report
    /\ Ends(w)
    /\ UNCHANGED <<vars, corpusVars, boundVars>>

Command(w) ==
    \/ Freeze(w) \/ CreateManifest(w) \/ FillManifest(w)
    \/ CompareRuns(w) \/ RereadManifest(w) \/ LoadRun(w)
    \/ LoadAudio(w) \/ CreateReport(w) \/ FillReport(w)

-----------------------------------------------------------------------------
CommandDies(w) ==
    /\ job[w].pc # "idle"
    /\ Ends(w)
    /\ UNCHANGED <<vars, corpusVars, boundVars, report>>

\* The service of VoicebenchRun changes, a staged file is removed by hand.
Outside ==
    /\ IdentityChanges \/ \E i \in Samples : OperatorRemoves(i)
    /\ UNCHANGED evidence

EditCorpus ==
    /\ corpus' \in Corpora \ {corpus}
    /\ UNCHANGED <<vars, manifest, boundVars, job, report>>

Writing(p) == \E w \in Workers : job[w].pc = p

\* An operator removes a manifest, or what an interrupted command left.
RemoveManifest ==
    /\ manifest # NoFile
    /\ ~Writing("fill")
    /\ manifest' = NoFile
    /\ UNCHANGED <<vars, corpus, boundVars, job, report>>

RemoveTornReport ==
    /\ report = Torn
    /\ ~Writing("print")
    /\ report' = NoFile
    /\ UNCHANGED <<vars, corpusVars, boundVars, job>>

EvidenceNext ==
    \/ BeginRun \/ ReadRows \/ BindRun \/ ReopenRun \/ GiveUp
    \/ Session \/ Outside \/ EditCorpus
    \/ RemoveManifest \/ RemoveTornReport
    \/ \E w \in Workers : Command(w) \/ CommandDies(w)

EvidenceSpec == EvidenceInit /\ [][EvidenceNext]_allVars

-----------------------------------------------------------------------------
\* Every item of a run was generated in a session that had verified the corpus
\* run.json is bound to, though the corpus and its manifest may change between
\* the sessions.
VerifiedCorpus ==
    run # NoRun =>
        \A i \in Samples : Journaled(run.items[i]) => under[i].verified = bound

\* Every item of a run was spoken with the reference recording run.json names,
\* though a session reads the manifest a second time, after verifying it, and
\* may have its rows from another one.
OneReference ==
    run # NoRun =>
        \A i \in Samples : Journaled(run.items[i]) => Ref[under[i].rows] = reference

\* A report is about a complete run, its digests are those of the published
\* files, the run is bound to the corpus the report names, and every sample of
\* it was spoken with the reference of that corpus.
ReportIsOfTheRun ==
    report \in Reports =>
        /\ run # NoRun /\ run.status = "complete"
        /\ report.dataset = bound
        /\ report.identity = run.identity
        /\ report.shas = final
        /\ \A i \in Samples : Ref[under[i].rows] = Ref[report.dataset]

\* What is written whole stays as it is: no command replaces a manifest or a
\* report, and two that create the same file do not both succeed.
EvidenceIsCreateOnly ==
    [][/\ manifest \in Corpora => manifest' \in {manifest, NoFile}
       /\ report \in Reports => report' = report]_allVars

-----------------------------------------------------------------------------
(* What all of it implements together.                                     *)

Recorded(i) == run # NoRun /\ Journaled(run.items[i])
Subject ==
    IF run = NoRun THEN {}
    ELSE {[identity |-> run.identity, dataset |-> bound, reference |-> reference]}
Result ==
    [i \in Samples |->
        IF Recorded(i) THEN {[audio |-> run.items[i].sha, corpus |-> under[i].rows]} ELSE {}]
Published == [i \in Samples |-> IF final[i] = NoAudio THEN {} ELSE {final[i]}]
Finished == run # NoRun /\ run.status = "complete"
Whole(f) == IF f \in {NoFile, Torn} THEN {} ELSE {f}

Chain == INSTANCE EvidenceChain WITH
    subject <- Subject, result <- Result, published <- Published, complete <- Finished,
    report <- Whole(report)

\* A runner that fails, dies and is resumed, a service and a corpus that change
\* and commands that meet each other's torn files still make one chain: each
\* sample measured once on one subject and with its reference, published
\* unchanged, and reported when all of it is complete and its reference is that
\* of its dataset.
ImplementsChain == Chain!Spec

=============================================================================
