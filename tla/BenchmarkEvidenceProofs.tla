----------------------- MODULE BenchmarkEvidenceProofs -----------------------
(***************************************************************************)
(* The chain of evidence holds for any corpus, any number of commands and  *)
(* however often they and the runner die.                                  *)
(*                                                                         *)
(* The argument.  To the runner the commands are stuttering, so the        *)
(* theorems of VoicebenchRunProofs hold of the composition.  A session     *)
(* begins with the manifest run.json is bound to and with rows of a        *)
(* manifest that has the reference run.json names, so all it journals is   *)
(* journaled under both.  Once a run is complete neither the runner nor    *)
(* its binding changes again, so what a command loaded stays true while it *)
(* waits.  A file that is being written is torn, and has one writer.       *)
(***************************************************************************)
EXTENDS BenchmarkEvidence, VoicebenchRunProofs

USE EvidenceAssumption

\* The runner holds the manifest run.json is bound to and rows with its
\* reference, and works only then.
SessionIsBound ==
    /\ pc # "idle" <=> stage = "session"
    /\ pc # "idle" => claimed = bound /\ Ref[rows] = reference

\* A digest is in run.json or in the runner's copy of it.
HasDigest(i) ==
    \/ run # NoRun /\ Journaled(run.items[i])
    \/ pc # "idle" /\ Journaled(saved.items[i])

\* A sample is from the verified manifest and the reference of the run.
FromTheRun(i) ==
    under[i] \in Sources /\ under[i].verified = bound /\ Ref[under[i].rows] = reference

\* Every digest was journaled under them.
DigestsUnderBound == \A i \in Samples : HasDigest(i) => FromTheRun(i)

\* Something was read of the complete run, whose reference was looked up.
OfTheRun(r) ==
    /\ run # NoRun /\ run.status = "complete"
    /\ r.dataset = bound
    /\ reference = Ref[bound]
    /\ r.identity = run.identity

\* What a command holds is still true, wherever it waits.
HeldIsTrue ==
    \A w \in Workers :
        /\ job[w].pc = "load" => job[w].again = job[w].set
        /\ job[w].pc \in {"audio", "report", "print"} =>
              OfTheRun(job[w].report) /\ job[w].report.shas = final

\* So is what was written.
WrittenIsTrue ==
    report \in Reports => OfTheRun(report) /\ report.shas = final

\* The file f is being written at p: it is torn and w is its only writer.
OneWriter(p, f) ==
    \A w \in Workers : job[w].pc = p =>
        f = Torn /\ \A v \in Workers : job[v].pc = p => v = w

WritersAlone ==
    OneWriter("fill", manifest) /\ OneWriter("print", report)

\* The inductive invariant, beside Inv of the runner.
EvidenceInv ==
    /\ EvidenceTypeOK
    /\ SessionIsBound
    /\ DigestsUnderBound
    /\ HeldIsTrue
    /\ WrittenIsTrue
    /\ WritersAlone

-----------------------------------------------------------------------------
(* To the runner, the commands are stuttering.                             *)

\* A step of the composition is a step of the runner or leaves it alone.
LEMMA StepOfTheRun == [EvidenceNext]_allVars => [Next]_vars
  BY DEF EvidenceNext, allVars, Next, BeginRun, ReadRows, BindRun, ReopenRun, Reopens,
         GiveUp, Session, Outside, EditCorpus, RemoveManifest, RemoveTornReport, Command, CommandDies, Freeze, CreateManifest, FillManifest,
         CompareRuns, RereadManifest, LoadRun, LoadAudio, CreateReport,
         FillReport, evidence

\* The chain of evidence implements the runner it is composed with.
THEOREM EvidenceRefinesRun == EvidenceSpec => Spec
<1>1. EvidenceInit => Init
  BY DEF EvidenceInit
<1> QED
  BY <1>1, StepOfTheRun, PTL DEF EvidenceSpec, Spec

-----------------------------------------------------------------------------
(* What a command holds.                                                   *)

Setting == {"freeze", "fill", "reread"}
Reporting == {"audio", "report", "print"}

\* A job is of the kind its program point says.
LEMMA JobIs ==
    ASSUME NEW j \in Jobs
    PROVE  /\ j.pc \in Setting \cup {"load"} => j.set \in Corpora
           /\ j.pc = "load" => j.again \in Corpora
           /\ j.pc \in Reporting => j.report \in Reports
  BY DEF Jobs, Idle, Setting, Reporting

\* To go on to another point of the same kind keeps what is held.
LEMMA Moved ==
    ASSUME NEW j \in Jobs, NEW p,
           \/ j.pc \in Setting /\ p \in Setting
           \/ j.pc \in Reporting /\ p \in Reporting
    PROVE  LET k == [j EXCEPT !.pc = p] IN
           /\ k \in Jobs /\ k.pc = p
           /\ p \in Setting => k.set = j.set
           /\ p \in Reporting => k.report = j.report
  BY DEF Jobs, Idle, Setting, Reporting

\* What a command begins with.
LEMMA Begun ==
    /\ Idle \in Jobs /\ Idle.pc = "idle"
    /\ \A p \in Setting, s \in Corpora : [pc |-> p, set |-> s] \in Jobs
    /\ \A s, a \in Corpora : [pc |-> "load", set |-> s, again |-> a] \in Jobs
    /\ \A r \in Reports : [pc |-> "audio", report |-> r] \in Jobs
  BY DEF Jobs, Idle, Setting

-----------------------------------------------------------------------------
(* The runner.                                                             *)

RunnerSteps ==
    BeginRun \/ ReadRows \/ BindRun \/ ReopenRun \/ GiveUp \/ Session \/ Outside

\* A complete run and its binding stay as they are, whoever steps.
LEMMA CompleteStays ==
    ASSUME Inv, EvidenceInv, EvidenceNext, run # NoRun, run.status = "complete"
    PROVE  UNCHANGED <<run, final, bound, reference>>
<1>1. pc = "idle" /\ made
  BY DEF Inv, CopyOfRun, NothingYet, Working
<1>2. CASE RunnerSteps
  BY <1>1, <1>2 DEF RunnerSteps, BeginRun, ReadRows, BindRun, ReopenRun, Reopens, GiveUp,
     Session, Outside, vars, files, boundVars, evidence, StartRun, ResumeRun, CreateCheckpoint,
     RecoverPrepared, RecordRecovered, MarkRunning, NextItem, Resolve, Speech, Stage, Journal,
     Publish, Settle, FailRun, FinishRun, Crash, IdentityChanges, OperatorRemoves
<1>3. CASE ~RunnerSteps
  BY <1>3 DEF RunnerSteps, EvidenceNext, vars, files, boundVars, EditCorpus, RemoveManifest,
     RemoveTornReport, Command, CommandDies, Freeze, CreateManifest,
     FillManifest, CompareRuns, RereadManifest, LoadRun, LoadAudio, CreateReport,
     FillReport
<1> QED
  BY <1>2, <1>3

\* A step of a session gives a digest to the item it journals, and to no other.
LEMMA NewDigest ==
    ASSUME Inv, Session, NEW i \in Samples, HasDigest(i)'
    PROVE  HasDigest(i) \/ (pc = "journal" /\ pc' # "idle" /\ i = item)
<1>1. CASE CreateCheckpoint \/ MarkRunning \/ FinishRun
  BY <1>1 DEF CreateCheckpoint, MarkRunning, FinishRun, Stop, Checkpoint, HasDigest, Inv, TypeOK,
     Runs
<1>2. CASE RecoverPrepared \/ NextItem \/ Resolve \/ Speech \/ Stage \/ Publish \/ Crash
  BY <1>2 DEF RecoverPrepared, NextItem, Resolve, Speech, Stage, Publish, Crash, Stop, Fails,
     HasDigest, Inv, TypeOK, files
<1>3. CASE RecordRecovered \/ Settle
  <2>1. item \in Samples /\ saved \in Runs /\ saved.items[item].status = "prepared"
    BY <1>3 DEF RecordRecovered, Settle, Inv, TypeOK, CopyOfRun, Working, ItemKnown, ItemPcs
  <2>2. PICK r \in Records : r = [saved.items[item] EXCEPT !.status = "ok"]
    BY <2>1, JournaledRecord DEF Journaled, Ok, Runs
  <2>3. \A j \in Samples : Journaled(SetItem(r).items[j]) => Journaled(saved.items[j])
    BY <2>1, <2>2, SetItemIs DEF Journaled
  <2> QED
    BY <1>3, <2>2, <2>3 DEF RecordRecovered, Settle, Checkpoint, Stop, HasDigest
<1>4. CASE Journal
  <2>1. item \in Samples /\ saved \in Runs /\ Prepared(audio) \in Records
    BY <1>4 DEF Journal, Inv, TypeOK, ItemPcs, Records
  <2>2. \A j \in Samples : j # item =>
           SetItem(Prepared(audio)).items[j] = saved.items[j]
    BY <2>1, SetItemIs
  <2> QED
    BY <1>4, <2>2 DEF Journal, Checkpoint, HasDigest
<1>5. CASE FailRun
  <2> DEFINE r == FailureRecord(saved.items[item])
  <2>1. item \in Samples /\ saved \in Runs
    BY <1>5 DEF FailRun, Inv, TypeOK, ItemPcs
  <2>2. r \in Records /\ (Journaled(r) => Journaled(saved.items[item]))
    BY <2>1, JournaledRecord DEF FailureRecord, Journaled, Runs, Records, Failed
  <2>3. run' = run \/ run' = [SetItem(r) EXCEPT !.status = "partial"]
    BY <1>5 DEF FailRun, Checkpoint
  <2> HIDE DEF r
  <2>4. \A j \in Samples : Journaled(SetItem(r).items[j]) => Journaled(saved.items[j])
    BY <2>1, <2>2, SetItemIs
  <2>5. run' = run \/ run'.items = SetItem(r).items
    BY <2>1, <2>2, <2>3, SetItemIs, PartialIs
  <2> QED
    BY <1>5, <2>4, <2>5 DEF FailRun, Stop, HasDigest
<1> QED
  BY <1>1, <1>2, <1>3, <1>4, <1>5 DEF Session

\* What the runner does keeps the invariant.
LEMMA RunnerKeeps ==
    ASSUME Inv, Inv', EvidenceInv, RunnerSteps
    PROVE  EvidenceInv'
<1>1. UNCHANGED <<corpusVars, job, report>>
  BY DEF RunnerSteps, BeginRun, ReadRows, BindRun, ReopenRun, Reopens, GiveUp, Session,
     Outside, evidence, corpusVars
<1>2. WritersAlone'
  BY <1>1 DEF WritersAlone, OneWriter, EvidenceInv, corpusVars
<1>3. SessionIsBound' /\ EvidenceTypeOK'
  <2>1. CASE BeginRun \/ ReadRows \/ GiveUp
    BY <1>1, <2>1 DEF BeginRun, ReadRows, GiveUp, Leaves, Verified, SessionIsBound, EvidenceTypeOK,
       EvidenceInv, Inv, vars, boundVars, corpusVars
  <2>2. CASE BindRun \/ ReopenRun
    BY <1>1, <2>2 DEF BindRun, ReopenRun, Reopens, References, StartRun, ResumeRun, SessionIsBound, EvidenceTypeOK,
       EvidenceInv, Inv, corpusVars
  <2>3. CASE Session
    <3>1. pc # "idle"
      BY <2>3 DEF Session, CreateCheckpoint, RecoverPrepared, RecordRecovered, MarkRunning,
         NextItem, Resolve, Speech, Stage, Journal, Publish, Settle, FailRun, FinishRun, Crash
    <3>2. /\ IF pc' = "idle" THEN stage' = "none" /\ claimed' = NoFile /\ rows' = NoFile
                             ELSE UNCHANGED <<stage, claimed, rows>>
          /\ under' \in [Samples -> Sources \cup {NoFile}]
          /\ UNCHANGED <<bound, reference>>
      BY <2>3, <3>1 DEF Session, Leaves, Sources, EvidenceTypeOK, EvidenceInv, SessionIsBound
    <3> QED
      BY <1>1, <3>1, <3>2 DEF SessionIsBound, EvidenceTypeOK, EvidenceInv, Inv, corpusVars
  <2>4. CASE Outside
    BY <1>1, <2>4 DEF Outside, IdentityChanges, OperatorRemoves, SessionIsBound, EvidenceTypeOK,
       EvidenceInv, Inv, evidence, boundVars, corpusVars
  <2> QED
    BY <2>1, <2>2, <2>3, <2>4 DEF RunnerSteps
<1>4. DigestsUnderBound'
  <2>1. CASE BeginRun \/ ReadRows \/ GiveUp \/ Outside
    BY <2>1 DEF BeginRun, ReadRows, GiveUp, Outside, IdentityChanges,
       OperatorRemoves, Leaves, DigestsUnderBound, FromTheRun, HasDigest, EvidenceInv, vars, evidence,
       boundVars
  <2>2. CASE BindRun
    <3>1. run' = NoRun /\ saved' = FreshRun(serving)
      BY <2>2 DEF BindRun, StartRun, Inv, NothingYet
    <3> QED
      BY <3>1 DEF DigestsUnderBound, HasDigest, FreshRun, Pending, Journaled
  <2>3. CASE ReopenRun
    BY <2>3 DEF ReopenRun, Reopens, ResumeRun, DigestsUnderBound, FromTheRun, HasDigest, EvidenceInv
  <2>4. CASE Session
    <3>1. SUFFICES ASSUME NEW i \in Samples, HasDigest(i)' PROVE FromTheRun(i)'
      BY DEF DigestsUnderBound
    <3>2. bound' = bound /\ reference' = reference
      BY <2>4 DEF Session
    <3>3. CASE pc = "journal" /\ pc' # "idle" /\ i = item
      <4>1. claimed \in Corpora /\ rows \in Corpora /\ claimed = bound /\ Ref[rows] = reference
        BY <3>3 DEF SessionIsBound, EvidenceTypeOK, EvidenceInv
      <4>2. under'[i] = [verified |-> claimed, rows |-> rows]
        BY <2>4, <3>3 DEF Session, EvidenceTypeOK, EvidenceInv
      <4> QED
        BY <3>2, <4>1, <4>2 DEF FromTheRun, Sources
    <3>4. CASE ~(pc = "journal" /\ pc' # "idle" /\ i = item)
      <4>1. under'[i] = under[i]
        BY <2>4, <3>4 DEF Session, EvidenceTypeOK, EvidenceInv
      <4>2. FromTheRun(i)
        BY <2>4, <3>1, <3>4, NewDigest DEF DigestsUnderBound, EvidenceInv
      <4> QED
        BY <3>2, <4>1, <4>2 DEF FromTheRun
    <3> QED
      BY <3>3, <3>4
  <2> QED
    BY <2>1, <2>2, <2>3, <2>4 DEF RunnerSteps
<1>5. HeldIsTrue' /\ WrittenIsTrue'
  <2>1. CASE run # NoRun /\ run.status = "complete"
    BY <1>1, <2>1, CompleteStays DEF RunnerSteps, EvidenceNext, HeldIsTrue, WrittenIsTrue,
       OfTheRun, EvidenceInv
  <2>2. CASE ~(run # NoRun /\ run.status = "complete")
    BY <1>1, <2>2 DEF HeldIsTrue, WrittenIsTrue, OfTheRun, EvidenceInv
  <2> QED
    BY <2>1, <2>2
<1> QED
  BY <1>2, <1>3, <1>4, <1>5 DEF EvidenceInv

-----------------------------------------------------------------------------
(* The commands.                                                           *)

\* Nothing but the jobs and the files changes.
LEMMA CommandsKeepTheRest ==
    ASSUME EvidenceInv, UNCHANGED <<vars, boundVars>>
    PROVE  TypeOK' /\ SessionIsBound' /\ DigestsUnderBound'
  BY DEF EvidenceInv, EvidenceTypeOK, TypeOK, SessionIsBound, DigestsUnderBound, FromTheRun,
     HasDigest, vars, files, boundVars

\* To go on to another point of the same kind.
LEMMA GoesOn ==
    ASSUME EvidenceInv, NEW w \in Workers, NEW p, Goes(w, p),
           \/ job[w].pc \in Setting /\ p \in Setting
           \/ job[w].pc \in Reporting /\ p \in Reporting
    PROVE  \E k \in Jobs :
              /\ Becomes(w, k) /\ k.pc = p
              /\ p \in Setting => k.set = job[w].set
              /\ p \in Reporting => k.report = job[w].report
<1> DEFINE k == [job[w] EXCEPT !.pc = p]
<1>1. job[w] \in Jobs
  BY DEF EvidenceInv, EvidenceTypeOK
<1>2. Becomes(w, k)
  BY DEF Goes, Becomes
<1>3. /\ k \in Jobs /\ k.pc = p
      /\ p \in Setting => k.set = job[w].set
      /\ p \in Reporting => k.report = job[w].report
  BY <1>1, Moved
<1> QED
  BY <1>2, <1>3

\* A step that only moves the job of w, into or at a point where it writes
\* nothing, keeps the invariant if what w then holds is true.
LEMMA MoveKeeps ==
    ASSUME EvidenceInv, NEW w \in Workers, NEW k \in Jobs, Becomes(w, k),
           UNCHANGED <<vars, corpusVars, boundVars, report>>,
           k.pc \notin {"fill", "print"},
           k.pc = "load" => k.again = k.set,
           k.pc \in Reporting => OfTheRun(k.report) /\ k.report.shas = final
    PROVE  EvidenceInv'
<1>1. TypeOK' /\ SessionIsBound' /\ DigestsUnderBound'
  BY CommandsKeepTheRest
<1>2. /\ job' \in [Workers -> Jobs] /\ job'[w] = k
      /\ \A v \in Workers : v # w => job'[v] = job[v]
  BY DEF Becomes, EvidenceInv, EvidenceTypeOK
<1>3. EvidenceTypeOK'
  BY <1>1, <1>2 DEF EvidenceInv, EvidenceTypeOK, corpusVars, boundVars
<1>4. WrittenIsTrue' /\ HeldIsTrue'
  BY <1>2 DEF HeldIsTrue, WrittenIsTrue, OfTheRun, EvidenceInv, Reporting, vars, files,
     boundVars
<1>5. WritersAlone'
  BY <1>2 DEF WritersAlone, OneWriter, EvidenceInv, corpusVars
<1> QED
  BY <1>1, <1>3, <1>4, <1>5 DEF EvidenceInv

\* A command ends or dies.
LEMMA EndKeeps ==
    ASSUME EvidenceInv, NEW w \in Workers, Ends(w),
           UNCHANGED <<vars, corpusVars, boundVars, report>>
    PROVE  EvidenceInv'
  BY MoveKeeps, Begun DEF Ends, Reporting, Idle

\* A record of a published item names its bytes.
LEMMA OkIs == \A a : Ok(a).sha = a /\ Ok(a).status = "ok"
  BY DEF Ok

\* A step of a command that creates no file and writes none.
LEMMA ReadingKeeps ==
    ASSUME Inv, EvidenceInv, NEW w \in Workers,
           \/ Freeze(w) \/ CompareRuns(w) \/ RereadManifest(w) \/ LoadRun(w)
           \/ LoadAudio(w) \/ CommandDies(w)
    PROVE  EvidenceInv'
<1> DEFINE j == job[w]
<1>1. j \in Jobs /\ UNCHANGED <<vars, corpusVars, boundVars, report>>
  BY DEF EvidenceInv, EvidenceTypeOK, Freeze, CompareRuns, RereadManifest, LoadRun,
     LoadAudio, CommandDies
<1>2. CASE Ends(w)
  BY <1>1, <1>2, EndKeeps
<1>3. CASE Freeze(w) \/ CompareRuns(w)
  <2>1. PICK p \in {"freeze", "reread"}, s \in Corpora : Becomes(w, [pc |-> p, set |-> s])
    BY <1>3 DEF Freeze, CompareRuns, Verified, EvidenceInv, EvidenceTypeOK
  <2> DEFINE k == [pc |-> p, set |-> s]
  <2>2. k \in Jobs /\ k.pc \in {"freeze", "reread"}
    BY Begun DEF Setting
  <2> QED
    BY <1>1, <2>1, <2>2, MoveKeeps DEF Reporting
<1>4. CASE RereadManifest(w) /\ ~Ends(w)
  <2>1. j.pc = "reread" /\ manifest = j.set /\ Becomes(w, Reread(w))
    BY <1>4 DEF RereadManifest
  <2>2. /\ Reread(w) \in Jobs /\ Reread(w).pc = "load"
        /\ Reread(w).again = Reread(w).set
    BY <1>1, <2>1, JobIs, Begun DEF Reread, Setting
  <2> QED
    BY <1>1, <2>1, <2>2, MoveKeeps DEF Reporting
<1>5. CASE LoadRun(w) /\ ~Ends(w)
  <2> DEFINE r == ReportOf(w)
             k == [pc |-> "audio", report |-> r]
  <2>1. /\ j.pc = "load" /\ run # NoRun /\ run.status = "complete" /\ bound = j.again
        /\ reference = Ref[j.again]
        /\ Becomes(w, k)
    BY <1>5 DEF LoadRun
  <2>2. run \in Runs /\ final \in [Samples -> Audio \cup {NoAudio, Torn}]
    BY <2>1 DEF Inv, TypeOK
  <2>3. \A i \in Samples : run.items[i] = Ok(final[i]) /\ run.items[i] \in Records
    BY <2>1, <2>2 DEF Inv, CompleteMeansPublished, Runs
  <2>4. \A i \in Samples : run.items[i].sha = final[i]
    BY <2>3, OkIs
  <2>5. ASSUME NEW i \in Samples PROVE run.items[i].sha \in Audio
    <3>1. Journaled(run.items[i])
      BY <2>3, OkIs DEF Journaled
    <3> QED
      BY <2>3, <3>1, JournaledRecord
  <2>6. r \in Reports /\ OfTheRun(r) /\ r.shas = final
    <3>1. final = [i \in Samples |-> run.items[i].sha]
      BY <2>2, <2>4
    <3> QED
      BY <1>1, <2>1, <2>2, <2>5, <3>1, JobIs DEF ReportOf, Reports, OfTheRun, EvidenceInv,
         HeldIsTrue, Runs
  <2> HIDE DEF r
  <2>7. k \in Jobs /\ k.pc = "audio" /\ k.report = r
    BY <2>6, Begun
  <2> QED
    BY <1>1, <2>1, <2>6, <2>7, MoveKeeps DEF Reporting
<1>6. CASE LoadAudio(w) /\ ~Ends(w)
  <2>1. j.pc = "audio" /\ Goes(w, "report")
    BY <1>6 DEF LoadAudio
  <2>2. OfTheRun(j.report) /\ j.report.shas = final
    BY <2>1 DEF EvidenceInv, HeldIsTrue
  <2> QED
    <3>1. PICK k \in Jobs : Becomes(w, k) /\ k.pc = "report" /\ k.report = j.report
      BY <2>1, GoesOn DEF Reporting
    <3> QED
      BY <1>1, <2>2, <3>1, MoveKeeps DEF Reporting
<1> QED
  BY <1>2, <1>3, <1>4, <1>5, <1>6 DEF CommandDies

\* A step of a command that creates a file or fills the one it created.
LEMMA WritingKeeps ==
    ASSUME Inv, EvidenceInv, NEW w \in Workers,
           \/ CreateManifest(w) \/ FillManifest(w) \/ CreateReport(w) \/ FillReport(w)
    PROVE  EvidenceInv'
<1>1. /\ UNCHANGED <<vars, boundVars, corpus>>
      /\ TypeOK' /\ SessionIsBound' /\ DigestsUnderBound'
  BY CommandsKeepTheRest DEF CreateManifest, FillManifest, CreateReport, FillReport, corpusVars
<1>2. CASE Ends(w) /\ UNCHANGED <<corpusVars, report>>
  BY <1>1, <1>2, EndKeeps
<1>3. CASE /\ CreateManifest(w) \/ CreateReport(w)
          /\ ~(Ends(w) /\ UNCHANGED <<corpusVars, report>>)
  <2>1. PICK k \in Jobs :
          /\ Becomes(w, k)
          /\ \/ /\ k.pc = "fill"
                /\ manifest = NoFile /\ manifest' = Torn /\ UNCHANGED report
             \/ /\ k.pc = "print" /\ OfTheRun(k.report) /\ k.report.shas = final
                /\ report = NoFile /\ report' = Torn /\ UNCHANGED corpusVars
    <3>1. CASE CreateManifest(w)
      <4>1. job[w].pc = "freeze" /\ Goes(w, "fill")
            /\ manifest = NoFile /\ manifest' = Torn /\ UNCHANGED report
        BY <1>1, <1>3, <3>1 DEF CreateManifest, corpusVars
      <4> QED
        BY <4>1, GoesOn DEF Setting
    <3>2. CASE CreateReport(w)
      <4>1. job[w].pc = "report" /\ Goes(w, "print")
            /\ report = NoFile /\ report' = Torn /\ UNCHANGED corpusVars
        BY <1>1, <1>3, <3>2 DEF CreateReport, corpusVars
      <4>2. OfTheRun(job[w].report) /\ job[w].report.shas = final
        BY <4>1 DEF EvidenceInv, HeldIsTrue
      <4>3. PICK k \in Jobs : Becomes(w, k) /\ k.pc = "print" /\ k.report = job[w].report
        BY <4>1, GoesOn DEF Reporting
      <4> QED
        BY <4>1, <4>2, <4>3
    <3> QED
      BY <1>3, <3>1, <3>2
  <2>2. /\ job' \in [Workers -> Jobs] /\ job'[w] = k
        /\ \A v \in Workers : v # w => job'[v] = job[v]
    BY <2>1 DEF Becomes, EvidenceInv, EvidenceTypeOK
  <2>3. EvidenceTypeOK'
    BY <1>1, <2>1, <2>2 DEF EvidenceInv, EvidenceTypeOK, corpusVars, boundVars
  <2>4. HeldIsTrue' /\ WrittenIsTrue'
    BY <1>1, <2>1, <2>2 DEF HeldIsTrue, WrittenIsTrue, OfTheRun, EvidenceInv, vars, files,
       boundVars
  <2>5. WritersAlone'
    BY <2>1, <2>2 DEF WritersAlone, OneWriter, EvidenceInv, corpusVars
  <2> QED
    BY <1>1, <2>3, <2>4, <2>5 DEF EvidenceInv
<1>4. CASE FillManifest(w) \/ FillReport(w)
  <2>1. job[w] \in Jobs /\ Ends(w)
    BY <1>4 DEF FillManifest, FillReport, EvidenceInv, EvidenceTypeOK
  <2>2. /\ job' \in [Workers -> Jobs] /\ job'[w].pc = "idle"
        /\ \A v \in Workers : v # w => job'[v] = job[v]
    BY <2>1, Begun DEF Ends, Becomes, EvidenceInv, EvidenceTypeOK
  <2>3. \/ /\ job[w].pc = "fill"
           /\ manifest' \in Corpora /\ UNCHANGED report
        \/ /\ job[w].pc = "print" /\ report' \in Reports /\ OfTheRun(report')
           /\ report'.shas = final /\ UNCHANGED corpusVars
    BY <1>4, <2>1, JobIs DEF FillManifest, FillReport, EvidenceInv, HeldIsTrue,
       Setting, Reporting
  <2>4. EvidenceTypeOK'
    BY <1>1, <2>2, <2>3 DEF EvidenceInv, EvidenceTypeOK, corpusVars, boundVars
  <2>5. HeldIsTrue' /\ WrittenIsTrue'
    BY <1>1, <2>2, <2>3 DEF HeldIsTrue, WrittenIsTrue, OfTheRun, EvidenceInv, vars, files,
       boundVars
  <2>6. WritersAlone'
    BY <2>2, <2>3 DEF WritersAlone, OneWriter, EvidenceInv, corpusVars
  <2> QED
    BY <1>1, <2>4, <2>5, <2>6 DEF EvidenceInv
<1> QED
  BY <1>2, <1>3, <1>4

\* An operator edits the corpus or removes a file nobody is writing.
LEMMA OperatorKeeps ==
    ASSUME Inv, EvidenceInv, EditCorpus \/ RemoveManifest \/ RemoveTornReport
    PROVE  EvidenceInv'
<1>1. /\ UNCHANGED <<vars, boundVars, job>>
      /\ TypeOK' /\ SessionIsBound' /\ DigestsUnderBound'
  BY CommandsKeepTheRest DEF EditCorpus, RemoveManifest, RemoveTornReport
<1>2. EvidenceTypeOK'
  BY <1>1 DEF EditCorpus, RemoveManifest, RemoveTornReport, EvidenceInv,
     EvidenceTypeOK, boundVars, corpusVars
<1>3. HeldIsTrue' /\ WrittenIsTrue'
  BY <1>1 DEF EditCorpus, RemoveManifest, RemoveTornReport, HeldIsTrue,
     WrittenIsTrue, OfTheRun, EvidenceInv, vars, files, boundVars, corpusVars
<1>4. WritersAlone'
  BY <1>1 DEF EditCorpus, RemoveManifest, RemoveTornReport, Writing,
     WritersAlone, OneWriter, EvidenceInv, corpusVars
<1> QED
  BY <1>1, <1>2, <1>3, <1>4 DEF EvidenceInv

-----------------------------------------------------------------------------
(* The theorems.                                                           *)

\* The initial states satisfy both invariants.
LEMMA EvidenceStarts == EvidenceInit => Inv /\ EvidenceInv
<1> SUFFICES ASSUME EvidenceInit PROVE Inv /\ EvidenceInv
  OBVIOUS
<1>1. Inv
  BY InitInv DEF EvidenceInit
<1>2. EvidenceTypeOK /\ SessionIsBound /\ HeldIsTrue /\ WrittenIsTrue /\ WritersAlone
  BY <1>1, Begun DEF EvidenceInit, Init, Inv, EvidenceTypeOK, SessionIsBound, HeldIsTrue,
     WrittenIsTrue, WritersAlone, OneWriter, Idle
<1>3. DigestsUnderBound
  BY DEF EvidenceInit, Init, DigestsUnderBound, HasDigest
<1> QED
  BY <1>1, <1>2, <1>3 DEF EvidenceInv

\* Every step keeps them.
LEMMA EvidenceStep == Inv /\ EvidenceInv /\ [EvidenceNext]_allVars => Inv' /\ EvidenceInv'
<1> SUFFICES ASSUME Inv, EvidenceInv, [EvidenceNext]_allVars PROVE Inv' /\ EvidenceInv'
  OBVIOUS
<1>1. Inv'
  BY StepOfTheRun, NextInv
<1>2. CASE UNCHANGED allVars
  <2>1. TypeOK' /\ SessionIsBound' /\ DigestsUnderBound'
    BY <1>2, CommandsKeepTheRest DEF allVars, evidence
  <2>2. EvidenceTypeOK' /\ HeldIsTrue' /\ WrittenIsTrue' /\ WritersAlone'
    BY <1>2, <2>1 DEF allVars, vars, files, evidence, corpusVars, boundVars, EvidenceInv,
       EvidenceTypeOK, HeldIsTrue, WrittenIsTrue, OfTheRun, WritersAlone, OneWriter
  <2> QED
    BY <1>1, <2>1, <2>2 DEF EvidenceInv
<1>3. CASE EvidenceNext
  BY <1>1, <1>3, RunnerKeeps, OperatorKeeps, ReadingKeeps, WritingKeeps
  DEF EvidenceNext, RunnerSteps, Command
<1> QED
  BY <1>1, <1>2, <1>3

LEMMA AlwaysEvidenceInv == EvidenceSpec => [](Inv /\ EvidenceInv)
  BY EvidenceStarts, EvidenceStep, PTL DEF EvidenceSpec

\* Every variable keeps its type.
THEOREM EvidenceTyped == EvidenceSpec => []EvidenceTypeOK
<1>1. Inv /\ EvidenceInv => EvidenceTypeOK
  BY DEF EvidenceInv
<1> QED
  BY <1>1, AlwaysEvidenceInv, PTL

\* Everything a run recorded was generated in a session that had verified the
\* corpus it is bound to.
THEOREM RunHasOneCorpus == EvidenceSpec => []VerifiedCorpus
<1>1. Inv /\ EvidenceInv => VerifiedCorpus
  BY DEF EvidenceInv, DigestsUnderBound, FromTheRun, HasDigest, VerifiedCorpus
<1> QED
  BY <1>1, AlwaysEvidenceInv, PTL

\* Everything a run recorded was spoken with the reference run.json names,
\* whatever the second reading of the manifest found in any session.
THEOREM RunHasOneReference == EvidenceSpec => []OneReference
<1>1. Inv /\ EvidenceInv => OneReference
  BY DEF EvidenceInv, DigestsUnderBound, FromTheRun, HasDigest, OneReference
<1> QED
  BY <1>1, AlwaysEvidenceInv, PTL

\* A report stays a report of the complete run and its published files, spoken
\* with the reference of the dataset it names.
THEOREM ReportStaysTrue == EvidenceSpec => []ReportIsOfTheRun
<1>1. ASSUME Inv, EvidenceInv, report \in Reports
      PROVE  /\ run # NoRun /\ run.status = "complete"
             /\ report.dataset = bound
             /\ report.identity = run.identity
             /\ report.shas = final
             /\ \A i \in Samples : Ref[under[i].rows] = Ref[report.dataset]
  <2>1. OfTheRun(report) /\ report.shas = final
    BY <1>1 DEF EvidenceInv, WrittenIsTrue
  <2>2. \A i \in Samples : Journaled(run.items[i])
    BY <1>1, <2>1, OkIs DEF OfTheRun, Inv, CompleteMeansPublished, Journaled
  <2>3. \A i \in Samples : Ref[under[i].rows] = reference
    BY <1>1, <2>1, <2>2 DEF OfTheRun, EvidenceInv, DigestsUnderBound, FromTheRun, HasDigest
  <2> QED
    BY <2>1, <2>3 DEF OfTheRun
<1>2. Inv /\ EvidenceInv => ReportIsOfTheRun
  BY <1>1 DEF ReportIsOfTheRun
<1> QED
  BY <1>2, AlwaysEvidenceInv, PTL

\* A step leaves what is written whole as it is.
WholeStays ==
    /\ manifest \in Corpora => manifest' \in {manifest, NoFile}
    /\ report \in Reports => report' = report

\* Only the one writer of a torn file writes to it.
LEMMA WholeStaysOnStep == EvidenceInv /\ [EvidenceNext]_allVars => WholeStays
<1> SUFFICES ASSUME EvidenceInv, [EvidenceNext]_allVars PROVE WholeStays
  OBVIOUS
<1>1. CASE UNCHANGED <<manifest, report>>
  BY <1>1 DEF WholeStays
<1>2. ASSUME NEW w \in Workers,
             \/ CreateManifest(w) \/ FillManifest(w) \/ CreateReport(w) \/ FillReport(w)
      PROVE  WholeStays
  BY <1>2 DEF CreateManifest, FillManifest, CreateReport, FillReport,
     WholeStays, EvidenceInv, WritersAlone, OneWriter, corpusVars
<1>3. CASE RemoveManifest \/ RemoveTornReport
  BY <1>3 DEF RemoveManifest, RemoveTornReport, WholeStays, corpusVars
<1> QED
  BY <1>1, <1>2, <1>3 DEF EvidenceNext, allVars, evidence, corpusVars, BeginRun, 
     ReadRows, BindRun, ReopenRun, Reopens, GiveUp, Session, Outside, EditCorpus, Command, CommandDies,
     Freeze, CompareRuns, RereadManifest, LoadRun, LoadAudio

\* Manifest and report are only ever created.
THEOREM OnlyCreated == EvidenceSpec => EvidenceIsCreateOnly
<1>1. (Inv /\ EvidenceInv) /\ [EvidenceNext]_allVars => [WholeStays]_allVars
  BY WholeStaysOnStep
<1> QED
  BY <1>1, AlwaysEvidenceInv, PTL DEF EvidenceSpec, EvidenceIsCreateOnly, WholeStays

-----------------------------------------------------------------------------
(* The composition keeps the abstract chain of evidence.                   *)

-----------------------------------------------------------------------------
(* What changes the chain, and what does not.                              *)

\* The view of a run that records the same of every sample.
SameRecords ==
    \A i \in Samples :
        /\ Recorded(i)' <=> Recorded(i)
        /\ Recorded(i) => run'.items[i].sha = run.items[i].sha /\ under'[i] = under[i]

\* A step that keeps the subject, the records and the files is not seen.
LEMMA NotSeen ==
    ASSUME SameRecords, UNCHANGED <<Subject, Finished, final, report>>
    PROVE  [Chain!Next]_(Chain!chainVars)
<1>1. Result' = Result
  BY DEF SameRecords, Result
<1>2. Published' = Published
  BY DEF Published
<1>3. Whole(report)' = Whole(report)
  BY DEF Whole
<1> QED
  BY <1>1, <1>2, <1>3 DEF Chain!chainVars

\* A step that leaves run.json and the final files alone is not seen.
LEMMA RunNotSeen ==
    ASSUME UNCHANGED <<run, final, report>>,
           run # NoRun => bound' = bound /\ reference' = reference,
           \A i \in Samples : Recorded(i) => under'[i] = under[i]
    PROVE  [Chain!Next]_(Chain!chainVars)
<1>1. SameRecords
  BY DEF SameRecords, Recorded
<1>2. UNCHANGED <<Subject, Finished>>
  BY DEF Subject, Finished
<1> QED
  BY <1>1, <1>2, NotSeen

\* Nor is one that only moves the records on.
LEMMA StatusNotSeen ==
    ASSUME run # NoRun, run' # NoRun, run'.identity = run.identity,
           run'.status = "complete" <=> run.status = "complete",
           \A i \in Samples :
              /\ Journaled(run'.items[i]) <=> Journaled(run.items[i])
              /\ Journaled(run.items[i]) => run'.items[i].sha = run.items[i].sha,
           UNCHANGED <<final, report, bound, reference, under>>
    PROVE  [Chain!Next]_(Chain!chainVars)
<1>1. SameRecords
  BY DEF SameRecords, Recorded
<1>2. UNCHANGED <<Subject, Finished>>
  BY DEF Subject, Finished
<1> QED
  BY <1>1, <1>2, NotSeen

\* A digest that run.json did not have is one measurement.
LEMMA Measured ==
    ASSUME NEW j \in Samples, NEW a \in Audio,
           run # NoRun, run' # NoRun, run'.identity = run.identity,
           run.status # "complete", run'.status # "complete",
           ~Journaled(run.items[j]), Journaled(run'.items[j]), run'.items[j].sha = a,
           a[1] = run.identity, FromTheRun(j)',
           \A i \in Samples : i # j =>
              /\ Journaled(run'.items[i]) <=> Journaled(run.items[i])
              /\ Journaled(run.items[i]) => run'.items[i].sha = run.items[i].sha
              /\ under'[i] = under[i],
           UNCHANGED <<final, report, bound, reference>>
    PROVE  \E c \in Corpora : Chain!Record(j, c)
<1> DEFINE s == [identity |-> run.identity, dataset |-> bound, reference |-> reference]
           c == under'[j].rows
<1>1. Subject = {s} /\ Subject' = Subject /\ ~Finished /\ Finished' = Finished
  BY DEF Subject, Finished
<1>2. PICK n \in Takes : a = <<run.identity, n>>
  BY DEF Audio
<1>3. Result[j] = {}
  BY DEF Result, Recorded
<1>4. Result' = [Result EXCEPT ![j] = {[audio |-> <<s.identity, n>>, corpus |-> c]}]
  BY <1>2 DEF Result, Recorded
<1>5. Published' = Published /\ Whole(report)' = Whole(report)
  BY DEF Published, Whole
<1>6. c \in Corpora /\ Ref[c] = s.reference
  BY DEF FromTheRun, Sources
<1> HIDE DEF s, c
<1>7. Chain!Record(j, c)
  BY <1>1, <1>3, <1>4, <1>5, <1>6 DEF Chain!Record
<1> QED
  BY <1>6, <1>7

\* A rename to the final name is one publication.
LEMMA Renamed ==
    ASSUME Inv, NEW j \in Samples, Recorded(j), final[j] = NoAudio, Rename(j),
           UNCHANGED <<run, bound, reference, under, report>>
    PROVE  Chain!Publish(j)
<1>1. run \in Runs /\ run.items[j] \in Records
  BY DEF Recorded, Inv, TypeOK, Runs
<1>2. staged[j] = run.items[j].sha /\ run.items[j].sha \in Audio
  BY <1>1, JournaledRecord DEF Recorded, Inv, JournalMatchesFiles, Consistent
<1>3. final' = [final EXCEPT ![j] = run.items[j].sha] /\ final \in [Samples -> Audio \cup {NoAudio, Torn}]
  BY <1>2 DEF Rename, Inv, TypeOK
<1>4. Published[j] = {}
  BY DEF Published
<1>5. Published' = [Published EXCEPT ![j] = {run.items[j].sha}]
  <2>1. final'[j] = run.items[j].sha /\ run.items[j].sha # NoAudio
    BY <1>2, <1>3, VoicebenchAssumption
  <2>2. \A i \in Samples : i # j => final'[i] = final[i]
    BY <1>3
  <2> QED
    BY <2>1, <2>2 DEF Published
<1>6. Result[j] = {[audio |-> run.items[j].sha, corpus |-> under[j].rows]}
  BY DEF Result
<1>7. Subject' = Subject /\ Result' = Result /\ Finished' = Finished
      /\ Whole(report)' = Whole(report)
  BY DEF Subject, Result, Recorded, Finished, Whole
<1> QED
  BY <1>4, <1>5, <1>6, <1>7 DEF Chain!Publish

-----------------------------------------------------------------------------
(* Each step of the runner.                                                *)

\* A step of a session leaves binding and files of the commands alone, and the
\* corpus of every sample but the one it journals.
LEMMA SessionFrame ==
    ASSUME Inv, EvidenceInv, Session
    PROVE  /\ UNCHANGED <<bound, reference, report>> /\ pc # "idle" /\ claimed = bound
           /\ pc # "journal" \/ pc' = "idle" => under' = under
           /\ \A i \in Samples : i # item => under'[i] = under[i]
           /\ pc = "journal" /\ pc' # "idle" =>
                 \A i \in Samples : i = item => FromTheRun(i)'
<1>1. pc # "idle"
  BY DEF Session, CreateCheckpoint, RecoverPrepared, RecordRecovered, MarkRunning, NextItem,
     Resolve, Speech, Stage, Journal, Publish, Settle, FailRun, FinishRun, Crash
<1>2. claimed \in Corpora /\ rows \in Corpora /\ claimed = bound /\ Ref[rows] = reference
  BY <1>1 DEF EvidenceInv, SessionIsBound, EvidenceTypeOK
<1> QED
  BY <1>1, <1>2 DEF Session, Sources, FromTheRun, EvidenceInv, EvidenceTypeOK

\* The first checkpoint names the subject.
LEMMA CreateCheckpointMaps ==
    ASSUME Inv, Inv', EvidenceInv, Session, CreateCheckpoint
    PROVE  [Chain!Next]_(Chain!chainVars)
<1>1. CASE Stop /\ UNCHANGED run
  BY <1>1, SessionFrame, RunNotSeen DEF Stop, CreateCheckpoint, files
<1>2. CASE ~(Stop /\ UNCHANGED run)
  <2>1. /\ pc = "create" /\ run' = saved /\ run = NoRun /\ saved = FreshRun(saved.identity)
        /\ UNCHANGED <<final, bound, reference, under, report>>
    BY <1>2, SessionFrame DEF CreateCheckpoint, Checkpoint, Inv, NothingYet, files
  <2>2. /\ saved \in Runs /\ saved.identity \in Identities /\ saved # NoRun
        /\ saved.status # "complete" /\ \A i \in Samples : ~Journaled(saved.items[i])
    BY <2>1, RunIsSome DEF Inv, TypeOK, Runs, FreshRun, Pending, Journaled
  <2>3. bound \in Corpora /\ rows \in Corpora /\ reference = Ref[rows]
    BY <2>1 DEF EvidenceInv, EvidenceTypeOK, SessionIsBound
  <2>4. /\ Subject = {}
        /\ Subject' = {[identity |-> saved.identity, dataset |-> bound, reference |-> Ref[rows]]}
    BY <2>1, <2>2, <2>3 DEF Subject
  <2>5. Result' = Result
    BY <2>1, <2>2 DEF Result, Recorded
  <2>6. /\ Finished' = Finished /\ Published' = Published
        /\ Whole(report)' = Whole(report)
    BY <2>1, <2>2 DEF Finished, Published, Whole
  <2>7. Chain!Open(saved.identity, bound, rows)
    BY <2>4, <2>5, <2>6 DEF Chain!Open
  <2> QED
    BY <2>2, <2>3, <2>7 DEF Chain!Next
<1> QED
  BY <1>1, <1>2

\* What was recorded is given its name, by the next runner or by the same.
LEMMA RenameMaps ==
    ASSUME Inv, Inv', EvidenceInv, Session, RecoverPrepared \/ Publish
    PROVE  [Chain!Next]_(Chain!chainVars)
<1>1. pc # "journal" /\ UNCHANGED <<run, bound, reference, under, report>>
  BY SessionFrame DEF RecoverPrepared, Publish
<1>2. CASE UNCHANGED final
  BY <1>1, <1>2, RunNotSeen
<1>3. CASE ~UNCHANGED final
  <2>1. PICK j \in Samples : run.items[j].status = "prepared" /\ final[j] = NoAudio /\ Rename(j)
    BY <1>3 DEF RecoverPrepared, Publish, Fails, files, Inv, TypeOK, ItemPcs, CopyOfRun, Working,
       ItemKnown
  <2>2. Recorded(j)
    BY <2>1 DEF Recorded, RecoverPrepared, Publish, Inv, CopyOfRun, Working, Journaled
  <2>3. Chain!Publish(j)
    BY <1>1, <2>1, <2>2, Renamed
  <2> QED
    BY <2>3 DEF Chain!Next
<1> QED
  BY <1>2, <1>3

\* A record that is settled keeps its digest.
LEMMA SettleMaps ==
    ASSUME Inv, Inv', EvidenceInv, Session, RecordRecovered \/ Settle
    PROVE  [Chain!Next]_(Chain!chainVars)
<1>1. /\ pc # "journal" /\ UNCHANGED <<final, bound, reference, under, report>>
      /\ item \in Samples /\ saved \in Runs /\ saved.items[item].status = "prepared"
      /\ run # NoRun /\ run.status # "complete" /\ saved.status # "complete"
      /\ saved.identity = run.identity
      /\ \A i \in Samples : saved.items[i] = run.items[i]
  BY SessionFrame DEF RecordRecovered, Settle, Inv, TypeOK, CopyOfRun, Working, ItemKnown,
     ItemPcs, files
<1>2. PICK r \in Records : /\ r = [saved.items[item] EXCEPT !.status = "ok"]
                           /\ r.sha = saved.items[item].sha /\ Journaled(r)
  <2>1. saved.items[item] \in Records /\ Journaled(saved.items[item])
    BY <1>1 DEF Runs, Journaled
  <2> QED
    BY <2>1, JournaledRecord DEF Journaled, Ok
<1>3. run' = run \/ run' = SetItem(r)
  BY <1>2 DEF RecordRecovered, Settle, Checkpoint, Stop
<1>4. /\ SetItem(r) \in Runs /\ SetItem(r).status = saved.status
      /\ SetItem(r).identity = saved.identity /\ SetItem(r).items[item] = r
      /\ \A i \in Samples : i # item => SetItem(r).items[i] = saved.items[i]
      /\ SetItem(r) # NoRun
  BY <1>1, SetItemIs, RunIsSome
<1>5. CASE run' = run
  BY <1>1, <1>5, RunNotSeen
<1>6. CASE run' = SetItem(r)
  <2>1. ASSUME NEW i \in Samples
        PROVE  /\ Journaled(run'.items[i]) <=> Journaled(run.items[i])
               /\ Journaled(run.items[i]) => run'.items[i].sha = run.items[i].sha
    <3>1. CASE i = item
      BY <1>1, <1>2, <1>4, <1>6, <3>1 DEF Journaled
    <3>2. CASE i # item
      BY <1>1, <1>4, <1>6, <3>2
    <3> QED
      BY <3>1, <3>2
  <2> QED
    BY <1>1, <1>4, <1>6, <2>1, StatusNotSeen
<1> QED
  BY <1>3, <1>5, <1>6

\* Marking the run changes no record; the mark at its end completes it.
LEMMA MarkMaps ==
    ASSUME Inv, Inv', EvidenceInv, Session, MarkRunning \/ FinishRun
    PROVE  [Chain!Next]_(Chain!chainVars)
<1>1. /\ pc # "journal" /\ UNCHANGED <<final, bound, reference, under, report>>
      /\ saved \in Runs /\ run # NoRun /\ run.status # "complete"
      /\ saved.identity = run.identity
      /\ \A i \in Samples : saved.items[i] = run.items[i]
  BY SessionFrame DEF MarkRunning, FinishRun, Inv, TypeOK, CopyOfRun, Working, files
<1>2. CASE run' = run
  BY <1>1, <1>2, RunNotSeen
<1>3. CASE MarkRunning /\ run' # run
  <2>1. /\ run' # NoRun /\ run'.status = "running"
        /\ run'.identity = run.identity /\ \A i \in Samples : run'.items[i] = run.items[i]
    BY <1>1, <1>3, RunIsSome DEF MarkRunning, Checkpoint, Runs, Stop
  <2> QED
    BY <1>1, <2>1, StatusNotSeen
<1>4. CASE FinishRun /\ run' # run
  <2>1. /\ run' # NoRun /\ run'.status = "complete"
        /\ run'.identity = run.identity /\ \A i \in Samples : run'.items[i] = run.items[i]
    BY <1>1, <1>4, RunIsSome DEF FinishRun, Checkpoint, Runs
  <2>2. \A i \in Samples : final[i] # NoAudio
    <3>1. \A i \in Samples : run.items[i].status = "ok" /\ run.items[i] \in Records
      BY <1>1, <1>4 DEF FinishRun, Inv, AllDone, Done, Runs
    <3>2. \A i \in Samples : Consistent(i) /\ run.items[i].sha \in Audio
      BY <1>1, <3>1, JournaledRecord DEF Journaled, Inv, JournalMatchesFiles
    <3> QED
      BY <3>1, <3>2, VoicebenchAssumption DEF Consistent, Journaled
  <2>3. Subject # {} /\ Subject' = Subject /\ Finished' = TRUE
    BY <1>1, <2>1 DEF Subject, Finished
  <2>4. Result' = Result
    BY <1>1, <2>1 DEF Result, Recorded
  <2>5. \A i \in Samples : Published[i] # {}
    BY <2>2 DEF Published
  <2>6. Published' = Published /\ Whole(report)' = Whole(report)
    BY <1>1 DEF Published, Whole
  <2>7. Chain!Complete
    BY <2>3, <2>4, <2>5, <2>6 DEF Chain!Complete
  <2> QED
    BY <2>7 DEF Chain!Next
<1> QED
  BY <1>2, <1>3, <1>4

\* The journal is the measurement, if its checkpoint is written.
LEMMA JournalMaps ==
    ASSUME Inv, Inv', EvidenceInv, Session, Journal
    PROVE  [Chain!Next]_(Chain!chainVars)
<1>1. /\ pc = "journal" /\ pc' # "idle" /\ UNCHANGED <<final, bound, reference, report>>
      /\ item \in Samples /\ audio \in Audio /\ saved \in Runs
      /\ run # NoRun /\ run.status # "complete" /\ saved.status # "complete"
      /\ saved.identity = run.identity /\ audio[1] = run.identity
      /\ \A i \in Samples : saved.items[i] = run.items[i]
      /\ ~Journaled(run.items[item])
  BY SessionFrame DEF Journal, Inv, TypeOK, CopyOfRun, Working, ItemKnown, ItemPcs, files
<1>2. PICK j \in Samples : j = item
  BY <1>1
<1>3. FromTheRun(j)' /\ \A i \in Samples : i # j => under'[i] = under[i]
  BY <1>1, <1>2, SessionFrame
<1>4. CASE run' = run
  BY <1>1, <1>2, <1>3, <1>4, RunNotSeen DEF Recorded
<1>5. CASE run' # run
  <2>1. Prepared(audio) \in Records /\ Prepared(audio).sha = audio /\ Journaled(Prepared(audio))
    BY <1>1 DEF Records, Prepared, Journaled
  <2>2. run' = SetItem(Prepared(audio))
    BY <1>5 DEF Journal, Checkpoint
  <2>3. /\ run' \in Runs /\ run'.status = saved.status /\ run'.identity = saved.identity
        /\ run'.items[j] = Prepared(audio) /\ run' # NoRun
        /\ \A i \in Samples : i # j => run'.items[i] = saved.items[i]
    BY <1>1, <1>2, <2>1, <2>2, SetItemIs, RunIsSome
  <2>4. \E c \in Corpora : Chain!Record(j, c)
    BY <1>1, <1>2, <1>3, <2>1, <2>3, Measured
  <2> QED
    BY <2>4 DEF Chain!Next
<1> QED
  BY <1>4, <1>5

\* So is the failure record, of a digest whose checkpoint had failed.
LEMMA FailRunMaps ==
    ASSUME Inv, Inv', EvidenceInv, Session, FailRun
    PROVE  [Chain!Next]_(Chain!chainVars)
<1> DEFINE s == saved.items[item]
           r == FailureRecord(s)
<1>1. /\ pc # "journal" /\ UNCHANGED <<final, bound, reference, under, report>>
      /\ item \in Samples /\ saved \in Runs
      /\ run # NoRun /\ run.status # "complete" /\ saved.identity = run.identity
      /\ \A i \in Samples : i # item => saved.items[i] = run.items[i]
      /\ Journaled(run.items[item]) => Journaled(s) /\ s.sha = run.items[item].sha
      /\ ~Journaled(run.items[item]) /\ Journaled(s) => s.sha[1] = run.identity
  BY SessionFrame DEF FailRun, Inv, TypeOK, CopyOfRun, Working, ItemKnown, ItemPcs, files
<1>2. /\ r \in Records
      /\ Journaled(r) <=> Journaled(s)
      /\ Journaled(s) => r.sha = s.sha /\ s.sha \in Audio
  <2>1. s \in Records
    BY <1>1 DEF Runs
  <2>2. CASE Journaled(s)
    BY <2>1, <2>2, JournaledRecord DEF FailureRecord, Journaled, Prepared
  <2>3. CASE ~Journaled(s)
    BY <2>3 DEF FailureRecord, Records, Failed, Journaled
  <2> QED
    BY <2>2, <2>3
<1>3. run' = run \/ run' = [SetItem(r) EXCEPT !.status = "partial"]
  BY DEF FailRun, Checkpoint
<1> HIDE DEF r
<1>4. CASE run' = run
  BY <1>1, <1>4, RunNotSeen
<1>5. CASE run' = [SetItem(r) EXCEPT !.status = "partial"]
  <2>1. /\ SetItem(r) \in Runs /\ SetItem(r).identity = saved.identity
        /\ SetItem(r).items[item] = r
        /\ \A i \in Samples : i # item => SetItem(r).items[i] = saved.items[i]
    BY <1>1, <1>2, SetItemIs
  <2>2. /\ run' \in Runs /\ run'.status = "partial" /\ run'.identity = saved.identity
        /\ run'.items = SetItem(r).items /\ run' # NoRun
    BY <1>5, <2>1, PartialIs, RunIsSome
  <2>3. CASE ~Journaled(run.items[item]) /\ Journaled(s)
    <3>1. PICK j \in Samples : j = item
      BY <1>1
    <3>2. FromTheRun(j)'
      BY <1>1, <2>3, <3>1 DEF EvidenceInv, DigestsUnderBound, FromTheRun, HasDigest, FailRun
    <3>3. \E c \in Corpora : Chain!Record(j, c)
      BY <1>1, <1>2, <2>1, <2>2, <2>3, <3>1, <3>2, Measured
    <3> QED
      BY <3>3 DEF Chain!Next
  <2>4. CASE ~(~Journaled(run.items[item]) /\ Journaled(s))
    <3>1. ASSUME NEW i \in Samples
          PROVE  /\ Journaled(run'.items[i]) <=> Journaled(run.items[i])
                 /\ Journaled(run.items[i]) => run'.items[i].sha = run.items[i].sha
      <4>1. CASE i = item
        BY <1>1, <1>2, <2>1, <2>2, <2>4, <4>1
      <4>2. CASE i # item
        BY <1>1, <2>1, <2>2, <4>2
      <4> QED
        BY <4>1, <4>2
    <3> QED
      BY <1>1, <2>2, <3>1, StatusNotSeen
  <2> QED
    BY <2>3, <2>4
<1> QED
  BY <1>3, <1>4, <1>5

\* Everything else the runner does before and between its checkpoints.
LEMMA RunnerMaps ==
    ASSUME Inv, Inv', EvidenceInv, RunnerSteps
    PROVE  [Chain!Next]_(Chain!chainVars)
<1>1. CASE Session
  <2>1. CASE NextItem \/ Resolve \/ Speech \/ Stage \/ Crash
    <3>1. UNCHANGED <<run, final>> /\ (pc # "journal" \/ pc' = "idle")
      BY <2>1 DEF NextItem, Resolve, Speech, Stage, Crash, Stop, files
    <3> QED
      BY <1>1, <3>1, SessionFrame, RunNotSeen
  <2> QED
    BY <1>1, <2>1, CreateCheckpointMaps, RenameMaps, SettleMaps, MarkMaps, JournalMaps,
       FailRunMaps DEF Session
<1>2. CASE ~Session
  <2>1. UNCHANGED <<run, final, report, under>> /\ (run # NoRun => bound' = bound /\ reference' = reference)
    BY <1>2 DEF RunnerSteps, BeginRun, ReadRows, BindRun, ReopenRun, Reopens, GiveUp,
       Outside, StartRun, ResumeRun, IdentityChanges, OperatorRemoves, vars, files, evidence,
       boundVars, Inv, NothingYet
  <2> QED
    BY <2>1, RunNotSeen
<1> QED
  BY <1>1, <1>2

-----------------------------------------------------------------------------
(* The commands.                                                           *)

\* A report is whole at once, and of all that was published.
LEMMA FillReportMaps ==
    ASSUME Inv, EvidenceInv, NEW w \in Workers, FillReport(w)
    PROVE  Chain!Compare
<1> DEFINE r == job[w].report
<1>1. r \in Reports /\ OfTheRun(r) /\ r.shas = final /\ report = Torn
  BY JobIs DEF FillReport, EvidenceInv, EvidenceTypeOK, HeldIsTrue, WritersAlone, OneWriter,
     Reporting
<1>2. report' = r /\ UNCHANGED <<run, bound, reference, under, final>>
  BY DEF FillReport, vars, files, boundVars
<1>3. Whole(report) = {} /\ Whole(report)' = {r}
  BY <1>1, <1>2 DEF Whole
<1>4. /\ r.shas \in [Samples -> Audio]
      /\ r = [dataset |-> r.dataset, identity |-> r.identity, shas |-> r.shas]
  BY <1>1 DEF Reports
<1> DEFINE s == [identity |-> r.identity, dataset |-> r.dataset, reference |-> Ref[r.dataset]]
<1>5. Subject = {s}
  BY <1>1 DEF OfTheRun, Subject
<1>6. \A i \in Samples : Published[i] = {r.shas[i]}
  BY <1>1, <1>4, VoicebenchAssumption DEF Published
<1>7. Finished
  BY <1>1 DEF OfTheRun, Finished
<1>8. /\ Subject' = Subject /\ Result' = Result /\ Published' = Published
      /\ Finished' = Finished
  BY <1>2 DEF Subject, Result, Recorded, Published, Finished, Whole
<1>9. s.reference = Ref[s.dataset] /\ s.dataset = r.dataset /\ s.identity = r.identity
  OBVIOUS
<1> HIDE DEF r, s
<1> QED
  BY <1>3, <1>4, <1>5, <1>6, <1>7, <1>8, <1>9 DEF Chain!Compare, Audio

\* Every step of the composition is a step of the chain or is not seen.
LEMMA ChainStepMaps ==
    ASSUME Inv, Inv', EvidenceInv, [EvidenceNext]_allVars
    PROVE  [Chain!Next]_(Chain!chainVars)
<1>1. CASE RunnerSteps
  BY <1>1, RunnerMaps
<1>2. ASSUME NEW w \in Workers, FillReport(w) PROVE [Chain!Next]_(Chain!chainVars)
  BY <1>2, FillReportMaps DEF Chain!Next
<1>3. CASE /\ UNCHANGED <<run, final, bound, reference, under>>
           /\ Whole(report)' = Whole(report)
  BY <1>3 DEF Chain!chainVars, Subject, Result, Recorded, Published, Finished
<1>4. UNCHANGED allVars => UNCHANGED <<run, final, bound, reference, under, report>>
  BY DEF allVars, vars, files, evidence, boundVars
<1>5. EditCorpus \/ RemoveManifest \/ RemoveTornReport =>
         /\ UNCHANGED <<run, final, bound, reference, under>>
         /\ Whole(report)' = Whole(report)
  BY DEF EditCorpus, RemoveManifest, RemoveTornReport, vars, files, boundVars, Whole
<1>6. ASSUME NEW w \in Workers, Command(w) \/ CommandDies(w), ~FillReport(w)
      PROVE  /\ UNCHANGED <<run, final, bound, reference, under>>
             /\ Whole(report)' = Whole(report)
  BY <1>6 DEF Command, CommandDies, Freeze, CreateManifest, FillManifest, CompareRuns,
     RereadManifest, LoadRun, LoadAudio, CreateReport, vars, files, boundVars, Whole
<1>7. CASE UNCHANGED allVars
  BY <1>3, <1>4, <1>7 DEF Whole
<1> QED
  BY <1>1, <1>2, <1>3, <1>5, <1>6, <1>7 DEF EvidenceNext, RunnerSteps

\* For any samples, corpora and commands: the runner, the commands and all that
\* interrupts them implement the chain of evidence.
THEOREM ChainImplemented == EvidenceSpec => ImplementsChain
<1>1. EvidenceInit => Chain!Init
  BY DEF EvidenceInit, Init, Chain!Init, Subject, Result, Recorded, Published, Finished, Whole
<1>2. (Inv /\ EvidenceInv) /\ (Inv /\ EvidenceInv)' /\ [EvidenceNext]_allVars
         => [Chain!Next]_(Chain!chainVars)
  BY ChainStepMaps
<1> QED
  BY <1>1, <1>2, AlwaysEvidenceInv, PTL DEF EvidenceSpec, ImplementsChain, Chain!Spec

=============================================================================
