------------------------ MODULE VoicebenchRunProofs ------------------------
(***************************************************************************)
(* The two-phase publication is safe for any corpus, and however often the *)
(* runner fails, dies and is resumed.                                      *)
(*                                                                         *)
(* The argument.  The runner's copy of run.json differs from the file only *)
(* in the item whose exception it is handling; an item is generated only   *)
(* while the file records no digest for it; and at each step of an item    *)
(* it is known at which of its two names its bytes are.                    *)
(***************************************************************************)
EXTENDS VoicebenchRun, TLAPS

USE VoicebenchAssumption

\* Without run.json no audio file exists.
NothingYet ==
    /\ ~made => run = NoRun /\ pc = "idle"
    /\ run = NoRun => /\ pc \in {"idle", "create"}
                      /\ \A i \in Samples : staged[i] = NoAudio /\ final[i] = NoAudio
    /\ pc = "create" => /\ run = NoRun
                        /\ saved = FreshRun(saved.identity)

Working == pc \notin {"idle", "create"}

\* The runner's copy is run.json, but for the item an exception interrupted.
CopyOfRun ==
    Working =>
        /\ run # NoRun
        /\ run.status # "complete" /\ saved.status # "complete"
        /\ saved.identity = run.identity
        /\ \A i \in Samples :
              saved.items[i] = run.items[i] \/ (pc = "fail" /\ i = item)

\* Between recovery and the journal no item is prepared, then only one is.
NonePrepared ==
    /\ pc \in {"mark", "item", "resolve", "speech", "stage", "journal", "finish"} =>
          \A i \in Samples : run.items[i].status # "prepared"
    /\ pc \in {"publish", "settle"} =>
          \A i \in Samples : run.items[i].status = "prepared" => i = item

\* What is known of the item being worked on.
ItemKnown ==
    LET r == run.items[item]  s == saved.items[item] IN
    /\ pc \in {"resolve", "speech", "stage", "journal"} => ~Journaled(r)
    /\ pc \in {"stage", "journal"} => audio[1] = run.identity
    /\ pc = "journal" => staged[item] = audio
    /\ pc \in {"publish", "settle", "recovered"} => r.status = "prepared"
    /\ pc = "publish" => final[item] = NoAudio /\ staged[item] # NoAudio
    /\ pc \in {"settle", "recovered"} => staged[item] = NoAudio
    /\ pc = "fail" =>
          /\ r.status # "ok"
          /\ Journaled(r) => Journaled(s) /\ s.sha = r.sha
          /\ ~Journaled(r) /\ Journaled(s) =>
                /\ staged[item] = s.sha
                /\ final[item] = NoAudio
                /\ s.sha[1] = run.identity

AllDone == pc = "finish" => \A i \in Samples : Done(i)

\* The inductive invariant.
Inv ==
    /\ TypeOK
    /\ NothingYet
    /\ CopyOfRun
    /\ NonePrepared
    /\ ItemKnown
    /\ AllDone
    /\ JournalMatchesFiles
    /\ CompleteMeansPublished
    /\ OneIdentity

-----------------------------------------------------------------------------
(* Steps that leave the disk alone, and the end of a run.                  *)

Disk == JournalMatchesFiles /\ CompleteMeansPublished /\ OneIdentity

\* What is said of the disk does not depend on the runner.
LEMMA DiskKept ==
    ASSUME Inv, UNCHANGED <<run, files>>
    PROVE  Disk'
  BY DEF Inv, Disk, JournalMatchesFiles, CompleteMeansPublished, OneIdentity,
         Consistent, files

\* A run may end at any moment.
LEMMA StopKeeps ==
    ASSUME Inv, Stop, UNCHANGED <<serving, made, run, files>>
    PROVE  Inv'
<1>1. Disk'
  BY DiskKept
<1>2. TypeOK'
  BY DEF TypeOK, Runs, Records, Pcs, ItemPcs, FreshRun, Pending, Failed,
         Prepared, Ok, Stop, files, Inv
<1>3. NothingYet' /\ CopyOfRun' /\ NonePrepared' /\ ItemKnown' /\ AllDone'
  BY DEF Stop, NothingYet, CopyOfRun, NonePrepared, ItemKnown, AllDone, Working,
         files, Inv
<1> QED
  BY <1>1, <1>2, <1>3 DEF Inv, Disk

-----------------------------------------------------------------------------
(* Each action preserves the invariant.                                    *)

\* Recording one item leaves the rest of the checkpoint alone.
LEMMA SetItemIs ==
    ASSUME saved \in Runs, item \in Samples, NEW r \in Records
    PROVE  /\ SetItem(r) \in Runs
           /\ SetItem(r).status = saved.status
           /\ SetItem(r).identity = saved.identity
           /\ SetItem(r).items[item] = r
           /\ \A i \in Samples : i # item => SetItem(r).items[i] = saved.items[i]
  BY DEF SetItem, Runs

\* So does marking the run.
LEMMA PartialIs ==
    ASSUME NEW s \in Runs
    PROVE  LET p == [s EXCEPT !.status = "partial"] IN
           p \in Runs /\ p.status = "partial" /\ p.identity = s.identity /\ p.items = s.items
  BY DEF Runs

\* A checkpoint is not the absence of one.
LEMMA RunIsSome == ASSUME NEW s \in Runs PROVE s # NoRun
  BY DEF Runs, NoRun

\* A journaled record has a digest; made prepared or ok it is one of Records.
LEMMA JournaledRecord ==
    ASSUME NEW r \in Records, Journaled(r)
    PROVE  /\ r.sha \in Audio
           /\ r = Prepared(r.sha) \/ r = Ok(r.sha)
           /\ [r EXCEPT !.status = "ok"] = Ok(r.sha)
           /\ Prepared(r.sha) \in Records /\ Ok(r.sha) \in Records
  BY DEF Records, Journaled, Pending, Failed, Prepared, Ok

\* A fresh run has no file and no checkpoint yet.
LEMMA StartRunKeeps ==
    ASSUME Inv, StartRun
    PROVE  Inv'
<1>1. TypeOK'
  BY DEF TypeOK, Runs, Records, Pcs, ItemPcs, FreshRun, Pending, Failed,
         Prepared, Ok, StartRun, files, Inv
<1>2. NothingYet'
  BY DEF TypeOK, NothingYet, Working, CopyOfRun, Runs, NoRun, FreshRun,
         StartRun, files, Inv
<1>3. CopyOfRun'
  BY DEF TypeOK, NothingYet, CopyOfRun, Working, Runs, NoRun, ItemPcs,
         FreshRun, StartRun, files, Inv
<1>4. NonePrepared'
  BY DEF TypeOK, NothingYet, CopyOfRun, NonePrepared, ItemKnown, Working,
         Runs, NoRun, ItemPcs, Journaled, FreshRun, Pending, StartRun,
         files, Inv
<1>5. ItemKnown'
  BY DEF TypeOK, CopyOfRun, NonePrepared, ItemKnown, JournalMatchesFiles,
         Consistent, Working, Runs, NoRun, ItemPcs, Journaled, Records,
         Pending, Failed, Prepared, Ok, StartRun, FreshRun, files, Inv
<1>6. AllDone'
  BY DEF TypeOK, CopyOfRun, AllDone, Done, Working, StartRun, FreshRun,
         files, Inv
<1>7. Disk'
  BY DiskKept DEF StartRun, files
<1> QED
  BY <1>1, <1>2, <1>3, <1>4, <1>5, <1>6, <1>7 DEF Inv, Disk

\* The first checkpoint is empty, as the directory.
LEMMA CreateCheckpointKeeps ==
    ASSUME Inv, CreateCheckpoint
    PROVE  Inv'
<1>1. CASE Stop
  BY <1>1, StopKeeps DEF CreateCheckpoint, Checkpoint, Rename, Stop, files, Inv, TypeOK, Runs
<1>2. CASE ~Stop
  <2>a. /\ pc' = "mark" /\ pc = "create"
        /\ run' = saved /\ saved \in Runs /\ saved # NoRun /\ made
        /\ saved.status = "running"
        /\ \A i \in Samples : /\ saved.items[i] = Pending
                              /\ final[i] = NoAudio /\ staged[i] = NoAudio
        /\ UNCHANGED <<serving, made, files, saved, item, audio>>
    BY <1>2, RunIsSome DEF CreateCheckpoint, Checkpoint, FreshRun, NothingYet, Inv,
       TypeOK
  <2>1. TypeOK'
    BY <2>a DEF TypeOK, Runs, Records, Pcs, ItemPcs, FreshRun, Pending,
           Failed, Prepared, Ok, files, Inv
  <2>2. NothingYet'
    BY <2>a DEF TypeOK, NothingYet, Working, CopyOfRun, Runs, NoRun,
           FreshRun, files, Inv
  <2>3. CopyOfRun'
    BY <2>a DEF TypeOK, NothingYet, CopyOfRun, Working, Runs, NoRun,
           ItemPcs, FreshRun, files, Inv
  <2>4. NonePrepared'
    BY <2>a DEF TypeOK, NothingYet, CopyOfRun, NonePrepared, ItemKnown,
           Working, Runs, NoRun, ItemPcs, Journaled, FreshRun, Pending,
           files, Inv
  <2>5. ItemKnown'
    BY <2>a DEF TypeOK, CopyOfRun, NonePrepared, ItemKnown,
           JournalMatchesFiles, Consistent, Working, Runs, NoRun, ItemPcs,
           Journaled, Records, Pending, Failed, Prepared, Ok, files, Inv
  <2>6. AllDone'
    BY <2>a DEF TypeOK, CopyOfRun, AllDone, Done, Working, files, Inv
  <2>7. JournalMatchesFiles'
    BY <2>a DEF TypeOK, CopyOfRun, NothingYet, NonePrepared, ItemKnown,
           JournalMatchesFiles, Consistent, Working, Runs, NoRun, ItemPcs,
           Journaled, Records, Pending, Failed, Prepared, Ok, files, Inv
  <2>8. CompleteMeansPublished'
    BY <2>a DEF TypeOK, CopyOfRun, NothingYet, AllDone, Done,
           JournalMatchesFiles, CompleteMeansPublished, Consistent, Working,
           Runs, NoRun, Journaled, Records, Pending, Failed, Prepared, Ok,
           files, Inv
  <2>9. OneIdentity'
    BY <2>a DEF TypeOK, CopyOfRun, NothingYet, ItemKnown, OneIdentity,
           Working, Runs, NoRun, ItemPcs, Journaled, Records, Pending,
           Failed, Prepared, Ok, files, Inv
  <2> QED
    BY <2>1, <2>2, <2>3, <2>4, <2>5, <2>6, <2>7, <2>8, <2>9 DEF Inv
<1> QED
  BY <1>1, <1>2

\* A resume copies a checkpoint that matches its files.
LEMMA ResumeRunKeeps ==
    ASSUME Inv, ResumeRun
    PROVE  Inv'
<1>1. TypeOK'
  BY DEF TypeOK, Runs, Records, Pcs, ItemPcs, FreshRun, Pending, Failed,
         Prepared, Ok, ResumeRun, files, Inv
<1>2. NothingYet'
  BY DEF TypeOK, NothingYet, Working, CopyOfRun, Runs, NoRun, FreshRun,
         ResumeRun, files, Inv
<1>3. CopyOfRun'
  BY DEF TypeOK, NothingYet, CopyOfRun, Working, Runs, NoRun, ItemPcs,
         FreshRun, ResumeRun, files, Inv
<1>4. NonePrepared'
  BY DEF TypeOK, NothingYet, CopyOfRun, NonePrepared, ItemKnown, Working,
         Runs, NoRun, ItemPcs, Journaled, FreshRun, Pending, ResumeRun,
         files, Inv
<1>5. ItemKnown'
  BY DEF TypeOK, CopyOfRun, NonePrepared, ItemKnown, JournalMatchesFiles,
         Consistent, Working, Runs, NoRun, ItemPcs, Journaled, Records,
         Pending, Failed, Prepared, Ok, ResumeRun, files, Inv
<1>6. AllDone'
  BY DEF TypeOK, CopyOfRun, AllDone, Done, Working, ResumeRun, files, Inv
<1>7. Disk'
  BY DiskKept DEF ResumeRun, files
<1> QED
  BY <1>1, <1>2, <1>3, <1>4, <1>5, <1>6, <1>7 DEF Inv, Disk

\* A prepared item is renamed or was already.
LEMMA RecoverPreparedKeeps ==
    ASSUME Inv, RecoverPrepared
    PROVE  Inv'
<1>1. CASE Stop
  BY <1>1, StopKeeps DEF RecoverPrepared, Checkpoint, Rename, Stop, files, Inv, TypeOK, Runs
<1>2. CASE ~Stop
  <2>1. TypeOK'
    BY <1>2 DEF TypeOK, Runs, Records, Pcs, ItemPcs, FreshRun, Pending,
           Failed, Prepared, Ok, RecoverPrepared, Rename, files, Inv
  <2>2. NothingYet'
    BY <1>2 DEF TypeOK, NothingYet, Working, CopyOfRun, Runs, NoRun,
           FreshRun, RecoverPrepared, Rename, files, Inv
  <2>3. CopyOfRun'
    BY <1>2 DEF TypeOK, NothingYet, CopyOfRun, Working, Runs, NoRun,
           ItemPcs, FreshRun, RecoverPrepared, Rename, files, Inv
  <2>4. NonePrepared'
    BY <1>2 DEF TypeOK, NothingYet, CopyOfRun, NonePrepared, ItemKnown,
           Working, Runs, NoRun, ItemPcs, Journaled, FreshRun, Pending,
           RecoverPrepared, Rename, files, Inv
  <2>5. ItemKnown'
    BY <1>2 DEF TypeOK, CopyOfRun, NonePrepared, ItemKnown,
           JournalMatchesFiles, Consistent, Working, Runs, NoRun, ItemPcs,
           Journaled, Records, Pending, Failed, Prepared, Ok,
           RecoverPrepared, Rename, files, Inv
  <2>6. AllDone'
    BY <1>2 DEF TypeOK, CopyOfRun, AllDone, Done, Working, RecoverPrepared,
           Rename, files, Inv
  <2>7. JournalMatchesFiles'
    BY <1>2 DEF TypeOK, CopyOfRun, NothingYet, NonePrepared, ItemKnown,
           JournalMatchesFiles, Consistent, Working, Runs, NoRun, ItemPcs,
           Journaled, Records, Pending, Failed, Prepared, Ok,
           RecoverPrepared, Rename, files, Inv
  <2>8. CompleteMeansPublished'
    BY <1>2 DEF TypeOK, CopyOfRun, NothingYet, AllDone, Done,
           JournalMatchesFiles, CompleteMeansPublished, Consistent, Working,
           Runs, NoRun, Journaled, Records, Pending, Failed, Prepared, Ok,
           RecoverPrepared, Rename, files, Inv
  <2>9. OneIdentity'
    BY <1>2 DEF TypeOK, CopyOfRun, NothingYet, ItemKnown, OneIdentity,
           Working, Runs, NoRun, ItemPcs, Journaled, Records, Pending,
           Failed, Prepared, Ok, RecoverPrepared, Rename, files, Inv
  <2> QED
    BY <2>1, <2>2, <2>3, <2>4, <2>5, <2>6, <2>7, <2>8, <2>9 DEF Inv
<1> QED
  BY <1>1, <1>2

\* A recovered item becomes ok.
LEMMA RecordRecoveredKeeps ==
    ASSUME Inv, RecordRecovered
    PROVE  Inv'
<1>1. CASE Stop
  BY <1>1, StopKeeps DEF RecordRecovered, Checkpoint, Rename, Stop, files, Inv, TypeOK, Runs
<1>2. CASE ~Stop
  <2>d. /\ run \in Runs /\ item \in Samples
        /\ saved.items[item] = run.items[item] /\ run.items[item].status = "prepared"
    BY DEF RecordRecovered, Inv, TypeOK, CopyOfRun, Working, ItemKnown, ItemPcs
  <2>e. run.items[item] \in Records
    BY <2>d DEF Runs
  <2>f. /\ run.items[item].sha \in Audio
        /\ run.items[item] = Prepared(run.items[item].sha)
        /\ [run.items[item] EXCEPT !.status = "ok"] = Ok(run.items[item].sha)
        /\ Ok(run.items[item].sha) \in Records
    BY <2>d, <2>e, JournaledRecord DEF Journaled, Prepared, Ok
  <2>a. PICK r \in Records : /\ r = Ok(run.items[item].sha)
                            /\ r = [saved.items[item] EXCEPT !.status = "ok"]
                            /\ run.items[item] = Prepared(r.sha)
                            /\ r.sha \in Audio
    BY <2>d, <2>f DEF Ok
  <2>b. /\ pc = "recovered" /\ pc' = "recover"
        /\ saved' = SetItem(r) /\ run' = SetItem(r)
        /\ UNCHANGED <<serving, made, files, item, audio>>
    BY <1>2, <2>a DEF RecordRecovered, Checkpoint
  <2>c. PICK s \in Runs : /\ s = SetItem(r)
                           /\ s # NoRun
                           /\ s.status = saved.status /\ s.identity = saved.identity
                           /\ s.items[item] = r
                           /\ \A i \in Samples : i # item => s.items[i] = saved.items[i]
    BY <2>a, <2>b, SetItemIs, RunIsSome DEF Runs, Inv, TypeOK, ItemPcs
  <2>g. /\ staged[item] = NoAudio /\ final[item] = r.sha /\ r.sha # NoAudio
        /\ r.sha[1] = run.identity /\ Journaled(r) /\ r.status # "prepared"
    BY <2>a, <2>b DEF Inv, TypeOK, ItemKnown, JournalMatchesFiles, OneIdentity, Consistent,
       Journaled, Prepared, CopyOfRun, Working, ItemPcs
  <2>h. \A i \in Samples : i # item => saved.items[i] = run.items[i]
    BY <2>b DEF Inv, CopyOfRun, Working
  <2>1. TypeOK'
    BY <2>a, <2>b, <2>g, <2>h, <2>c DEF TypeOK, Runs, Pcs, ItemPcs,
           FreshRun, Pending, Failed, Prepared, Ok, files, Inv
  <2>2. NothingYet'
    BY <2>a, <2>b, <2>g, <2>h, <2>c DEF TypeOK, NothingYet, Working,
           CopyOfRun, Runs, NoRun, FreshRun, files, Inv
  <2>3. CopyOfRun'
    BY <2>a, <2>b, <2>g, <2>h, <2>c DEF TypeOK, NothingYet, CopyOfRun,
           Working, Runs, NoRun, ItemPcs, FreshRun, files, Inv
  <2>4. NonePrepared'
    BY <2>a, <2>b, <2>g, <2>h, <2>c DEF TypeOK, NothingYet, CopyOfRun,
           NonePrepared, ItemKnown, Working, Runs, NoRun, ItemPcs,
           Journaled, FreshRun, Pending, files, Inv
  <2>5. ItemKnown'
    BY <2>a, <2>b, <2>g, <2>h, <2>c DEF TypeOK, CopyOfRun, NonePrepared,
           ItemKnown, JournalMatchesFiles, Consistent, Working, Runs, NoRun,
           ItemPcs, Journaled, Pending, Failed, Prepared, Ok, files, Inv
  <2>6. AllDone'
    BY <2>a, <2>b, <2>g, <2>h, <2>c DEF TypeOK, CopyOfRun, AllDone, Done,
           Working, files, Inv
  <2>7. JournalMatchesFiles'
    BY <2>a, <2>b, <2>g, <2>h, <2>c DEF TypeOK, CopyOfRun, NothingYet,
           NonePrepared, ItemKnown, JournalMatchesFiles, Consistent,
           Working, Runs, NoRun, ItemPcs, Journaled, Pending, Failed,
           Prepared, Ok, files, Inv
  <2>8. CompleteMeansPublished'
    BY <2>a, <2>b, <2>g, <2>h, <2>c DEF TypeOK, CopyOfRun, NothingYet,
           AllDone, Done, JournalMatchesFiles, CompleteMeansPublished,
           Consistent, Working, Runs, NoRun, Journaled, Pending, Failed,
           Prepared, Ok, files, Inv
  <2>9. OneIdentity'
    BY <2>a, <2>b, <2>g, <2>h, <2>c DEF TypeOK, CopyOfRun, NothingYet,
           ItemKnown, OneIdentity, Working, Runs, NoRun, ItemPcs, Journaled,
           Pending, Failed, Prepared, Ok, files, Inv
  <2> QED
    BY <2>1, <2>2, <2>3, <2>4, <2>5, <2>6, <2>7, <2>8, <2>9 DEF Inv
<1> QED
  BY <1>1, <1>2

\* Marking the run changes no item.
LEMMA MarkRunningKeeps ==
    ASSUME Inv, MarkRunning
    PROVE  Inv'
<1>1. CASE Stop
  BY <1>1, StopKeeps DEF MarkRunning, Checkpoint, Rename, Stop, files, Inv, TypeOK, Runs
<1>2. CASE ~Stop
  <2>1. TypeOK'
    BY <1>2 DEF TypeOK, Runs, Records, Pcs, ItemPcs, FreshRun, Pending,
           Failed, Prepared, Ok, MarkRunning, Checkpoint, files, Inv
  <2>2. NothingYet'
    BY <1>2 DEF TypeOK, NothingYet, Working, CopyOfRun, Runs, NoRun,
           FreshRun, MarkRunning, Checkpoint, files, Inv
  <2>3. CopyOfRun'
    BY <1>2 DEF TypeOK, NothingYet, CopyOfRun, Working, Runs, NoRun,
           ItemPcs, FreshRun, MarkRunning, Checkpoint, files, Inv
  <2>4. NonePrepared'
    BY <1>2 DEF TypeOK, NothingYet, CopyOfRun, NonePrepared, ItemKnown,
           Working, Runs, NoRun, ItemPcs, Journaled, FreshRun, Pending,
           MarkRunning, Checkpoint, files, Inv
  <2>5. ItemKnown'
    BY <1>2 DEF TypeOK, CopyOfRun, NonePrepared, ItemKnown,
           JournalMatchesFiles, Consistent, Working, Runs, NoRun, ItemPcs,
           Journaled, Records, Pending, Failed, Prepared, Ok, MarkRunning,
           Checkpoint, files, Inv
  <2>6. AllDone'
    BY <1>2 DEF TypeOK, CopyOfRun, AllDone, Done, Working, MarkRunning,
           Checkpoint, files, Inv
  <2>7. JournalMatchesFiles'
    BY <1>2 DEF TypeOK, CopyOfRun, NothingYet, NonePrepared, ItemKnown,
           JournalMatchesFiles, Consistent, Working, Runs, NoRun, ItemPcs,
           Journaled, Records, Pending, Failed, Prepared, Ok, MarkRunning,
           Checkpoint, files, Inv
  <2>8. CompleteMeansPublished'
    BY <1>2 DEF TypeOK, CopyOfRun, NothingYet, AllDone, Done,
           JournalMatchesFiles, CompleteMeansPublished, Consistent, Working,
           Runs, NoRun, Journaled, Records, Pending, Failed, Prepared, Ok,
           MarkRunning, Checkpoint, files, Inv
  <2>9. OneIdentity'
    BY <1>2 DEF TypeOK, CopyOfRun, NothingYet, ItemKnown, OneIdentity,
           Working, Runs, NoRun, ItemPcs, Journaled, Records, Pending,
           Failed, Prepared, Ok, MarkRunning, Checkpoint, files, Inv
  <2> QED
    BY <2>1, <2>2, <2>3, <2>4, <2>5, <2>6, <2>7, <2>8, <2>9 DEF Inv
<1> QED
  BY <1>1, <1>2

\* The loop takes an item that has no digest, or ends.
LEMMA NextItemKeeps ==
    ASSUME Inv, NextItem
    PROVE  Inv'
<1>1. TypeOK'
  BY DEF TypeOK, Runs, Records, Pcs, ItemPcs, FreshRun, Pending, Failed,
         Prepared, Ok, NextItem, Done, files, Inv
<1>2. NothingYet'
  BY DEF TypeOK, NothingYet, Working, CopyOfRun, Runs, NoRun, FreshRun,
         NextItem, Done, files, Inv
<1>3. CopyOfRun'
  BY DEF TypeOK, NothingYet, CopyOfRun, Working, Runs, NoRun, ItemPcs,
         FreshRun, NextItem, Done, files, Inv
<1>4. NonePrepared'
  BY DEF TypeOK, NothingYet, CopyOfRun, NonePrepared, ItemKnown, Working,
         Runs, NoRun, ItemPcs, Journaled, FreshRun, Pending, NextItem, Done,
         files, Inv
<1>5. ItemKnown'
  BY DEF TypeOK, CopyOfRun, NonePrepared, ItemKnown, JournalMatchesFiles,
         Consistent, Working, Runs, NoRun, ItemPcs, Journaled, Records,
         Pending, Failed, Prepared, Ok, NextItem, Done, files, Inv
<1>6. AllDone'
  BY DEF TypeOK, CopyOfRun, AllDone, Done, Working, NextItem, files, Inv
<1>7. Disk'
  BY DiskKept DEF NextItem, files
<1> QED
  BY <1>1, <1>2, <1>3, <1>4, <1>5, <1>6, <1>7 DEF Inv, Disk

\* A resolve call changes nothing on disk.
LEMMA ResolveKeeps ==
    ASSUME Inv, Resolve
    PROVE  Inv'
<1>1. TypeOK'
  BY DEF TypeOK, Runs, Records, Pcs, ItemPcs, FreshRun, Pending, Failed,
         Prepared, Ok, Resolve, Fails, files, Inv
<1>2. NothingYet'
  BY DEF TypeOK, NothingYet, Working, CopyOfRun, Runs, NoRun, FreshRun,
         Resolve, Fails, files, Inv
<1>3. CopyOfRun'
  BY DEF TypeOK, NothingYet, CopyOfRun, Working, Runs, NoRun, ItemPcs,
         FreshRun, Resolve, Fails, files, Inv
<1>4. NonePrepared'
  BY DEF TypeOK, NothingYet, CopyOfRun, NonePrepared, ItemKnown, Working,
         Runs, NoRun, ItemPcs, Journaled, FreshRun, Pending, Resolve, Fails,
         files, Inv
<1>5. ItemKnown'
  BY DEF TypeOK, CopyOfRun, NonePrepared, ItemKnown, JournalMatchesFiles,
         Consistent, Working, Runs, NoRun, ItemPcs, Journaled, Records,
         Pending, Failed, Prepared, Ok, Resolve, Fails, files, Inv
<1>6. AllDone'
  BY DEF TypeOK, CopyOfRun, AllDone, Done, Working, Resolve, Fails, files,
         Inv
<1>7. Disk'
  BY DiskKept DEF Resolve, files
<1> QED
  BY <1>1, <1>2, <1>3, <1>4, <1>5, <1>6, <1>7 DEF Inv, Disk

\* The response carries the identity of the run.
LEMMA SpeechKeeps ==
    ASSUME Inv, Speech
    PROVE  Inv'
<1>1. TypeOK'
  BY DEF TypeOK, Runs, Records, Pcs, ItemPcs, FreshRun, Pending, Failed,
         Prepared, Ok, Speech, Fails, Audio, files, Inv
<1>2. NothingYet'
  BY DEF TypeOK, NothingYet, Working, CopyOfRun, Runs, NoRun, FreshRun,
         Speech, Fails, Audio, files, Inv
<1>3. CopyOfRun'
  BY DEF TypeOK, NothingYet, CopyOfRun, Working, Runs, NoRun, ItemPcs,
         FreshRun, Speech, Fails, Audio, files, Inv
<1>4. NonePrepared'
  BY DEF TypeOK, NothingYet, CopyOfRun, NonePrepared, ItemKnown, Working,
         Runs, NoRun, ItemPcs, Journaled, FreshRun, Pending, Speech, Fails,
         Audio, files, Inv
<1>5. ItemKnown'
  BY DEF TypeOK, CopyOfRun, NonePrepared, ItemKnown, JournalMatchesFiles,
         Consistent, Working, Runs, NoRun, ItemPcs, Journaled, Records,
         Pending, Failed, Prepared, Ok, Speech, Fails, Audio, files, Inv
<1>6. AllDone'
  BY DEF TypeOK, CopyOfRun, AllDone, Done, Working, Speech, Fails, Audio,
         files, Inv
<1>7. Disk'
  BY DiskKept DEF Speech, files
<1> QED
  BY <1>1, <1>2, <1>3, <1>4, <1>5, <1>6, <1>7 DEF Inv, Disk

\* A staged file is created exclusively.
LEMMA StageKeeps ==
    ASSUME Inv, Stage
    PROVE  Inv'
<1>1. TypeOK'
  BY DEF TypeOK, Runs, Records, Pcs, ItemPcs, FreshRun, Pending, Failed,
         Prepared, Ok, Stage, Fails, files, Inv
<1>2. NothingYet'
  BY DEF TypeOK, NothingYet, Working, CopyOfRun, Runs, NoRun, FreshRun,
         Stage, Fails, files, Inv
<1>3. CopyOfRun'
  BY DEF TypeOK, NothingYet, CopyOfRun, Working, Runs, NoRun, ItemPcs,
         FreshRun, Stage, Fails, files, Inv
<1>4. NonePrepared'
  BY DEF TypeOK, NothingYet, CopyOfRun, NonePrepared, ItemKnown, Working,
         Runs, NoRun, ItemPcs, Journaled, FreshRun, Pending, Stage, Fails,
         files, Inv
<1>5. ItemKnown'
  BY DEF TypeOK, CopyOfRun, NonePrepared, ItemKnown, JournalMatchesFiles,
         Consistent, Working, Runs, NoRun, ItemPcs, Journaled, Records,
         Pending, Failed, Prepared, Ok, Stage, Fails, files, Inv
<1>6. AllDone'
  BY DEF TypeOK, CopyOfRun, AllDone, Done, Working, Stage, Fails, files, Inv
<1>7. JournalMatchesFiles'
  BY DEF TypeOK, CopyOfRun, NothingYet, NonePrepared, ItemKnown,
         JournalMatchesFiles, Consistent, Working, Runs, NoRun, ItemPcs,
         Journaled, Records, Pending, Failed, Prepared, Ok, Stage, Fails,
         files, Inv
<1>8. CompleteMeansPublished'
  BY DEF TypeOK, CopyOfRun, NothingYet, AllDone, Done, JournalMatchesFiles,
         CompleteMeansPublished, Consistent, Working, Runs, NoRun,
         Journaled, Records, Pending, Failed, Prepared, Ok, Stage, Fails,
         files, Inv
<1>9. OneIdentity'
  BY DEF TypeOK, CopyOfRun, NothingYet, ItemKnown, OneIdentity, Working,
         Runs, NoRun, ItemPcs, Journaled, Records, Pending, Failed,
         Prepared, Ok, Stage, Fails, files, Inv
<1> QED
  BY <1>1, <1>2, <1>3, <1>4, <1>5, <1>6, <1>7, <1>8, <1>9 DEF Inv

\* The digest is recorded with its staged bytes.
LEMMA JournalKeeps ==
    ASSUME Inv, Journal
    PROVE  Inv'
<1>a. PICK r \in Records : r = Prepared(audio) /\ audio \in Audio
  BY DEF Journal, Inv, TypeOK, Records
<1>b. /\ pc = "journal"
      /\ saved' = SetItem(r)
      /\ (run' = SetItem(r) /\ pc' = "publish") \/ (run' = run /\ pc' = "fail")
      /\ UNCHANGED <<serving, made, files, item, audio>>
  BY <1>a DEF Journal, Checkpoint
<1>c. PICK s \in Runs : /\ s = SetItem(r)
                         /\ s # NoRun
                         /\ s.status = saved.status /\ s.identity = saved.identity
                         /\ s.items[item] = r
                         /\ \A i \in Samples : i # item => s.items[i] = saved.items[i]
  BY <1>a, <1>b, SetItemIs, RunIsSome DEF Runs, Inv, TypeOK, ItemPcs
<1>1. TypeOK'
  BY <1>a, <1>b, <1>c DEF TypeOK, Runs, Pcs, ItemPcs, FreshRun, Pending,
         Failed, Prepared, Ok, files, Inv
<1>2. NothingYet'
  BY <1>a, <1>b, <1>c DEF TypeOK, NothingYet, Working, CopyOfRun, Runs,
         NoRun, FreshRun, Prepared, files, Inv
<1>3. CopyOfRun'
  BY <1>a, <1>b, <1>c DEF TypeOK, NothingYet, CopyOfRun, Working, Runs,
         NoRun, ItemPcs, FreshRun, Prepared, files, Inv
<1>4. NonePrepared'
  BY <1>a, <1>b, <1>c DEF TypeOK, NothingYet, CopyOfRun, NonePrepared,
         ItemKnown, Working, Runs, NoRun, ItemPcs, Journaled, FreshRun,
         Pending, Prepared, files, Inv
<1>5. ItemKnown'
  BY <1>a, <1>b, <1>c DEF TypeOK, CopyOfRun, NonePrepared, ItemKnown,
         JournalMatchesFiles, Consistent, Working, Runs, NoRun, ItemPcs,
         Journaled, Pending, Failed, Prepared, Ok, files, Inv
<1>6. AllDone'
  BY <1>a, <1>b, <1>c DEF TypeOK, CopyOfRun, AllDone, Done, Working,
         Prepared, files, Inv
<1>7. JournalMatchesFiles'
  BY <1>a, <1>b, <1>c DEF TypeOK, CopyOfRun, NothingYet, NonePrepared,
         ItemKnown, JournalMatchesFiles, Consistent, Working, Runs, NoRun,
         ItemPcs, Journaled, Pending, Failed, Prepared, Ok, files, Inv
<1>8. CompleteMeansPublished'
  BY <1>a, <1>b, <1>c DEF TypeOK, CopyOfRun, NothingYet, AllDone, Done,
         JournalMatchesFiles, CompleteMeansPublished, Consistent, Working,
         Runs, NoRun, Journaled, Pending, Failed, Prepared, Ok, files, Inv
<1>9. OneIdentity'
  BY <1>a, <1>b, <1>c DEF TypeOK, CopyOfRun, NothingYet, ItemKnown,
         OneIdentity, Working, Runs, NoRun, ItemPcs, Journaled, Pending,
         Failed, Prepared, Ok, files, Inv
<1> QED
  BY <1>1, <1>2, <1>3, <1>4, <1>5, <1>6, <1>7, <1>8, <1>9 DEF Inv

\* The final name is given once.
LEMMA PublishKeeps ==
    ASSUME Inv, Publish
    PROVE  Inv'
<1>1. TypeOK'
  BY DEF TypeOK, Runs, Records, Pcs, ItemPcs, FreshRun, Pending, Failed,
         Prepared, Ok, Publish, Rename, Fails, files, Inv
<1>2. NothingYet'
  BY DEF TypeOK, NothingYet, Working, CopyOfRun, Runs, NoRun, FreshRun,
         Publish, Rename, Fails, files, Inv
<1>3. CopyOfRun'
  BY DEF TypeOK, NothingYet, CopyOfRun, Working, Runs, NoRun, ItemPcs,
         FreshRun, Publish, Rename, Fails, files, Inv
<1>4. NonePrepared'
  BY DEF TypeOK, NothingYet, CopyOfRun, NonePrepared, ItemKnown, Working,
         Runs, NoRun, ItemPcs, Journaled, FreshRun, Pending, Publish,
         Rename, Fails, files, Inv
<1>5. ItemKnown'
  BY DEF TypeOK, CopyOfRun, NonePrepared, ItemKnown, JournalMatchesFiles,
         Consistent, Working, Runs, NoRun, ItemPcs, Journaled, Records,
         Pending, Failed, Prepared, Ok, Publish, Rename, Fails, files, Inv
<1>6. AllDone'
  BY DEF TypeOK, CopyOfRun, AllDone, Done, Working, Publish, Rename, Fails,
         files, Inv
<1>7. JournalMatchesFiles'
  BY DEF TypeOK, CopyOfRun, NothingYet, NonePrepared, ItemKnown,
         JournalMatchesFiles, Consistent, Working, Runs, NoRun, ItemPcs,
         Journaled, Records, Pending, Failed, Prepared, Ok, Publish, Rename,
         Fails, files, Inv
<1>8. CompleteMeansPublished'
  BY DEF TypeOK, CopyOfRun, NothingYet, AllDone, Done, JournalMatchesFiles,
         CompleteMeansPublished, Consistent, Working, Runs, NoRun,
         Journaled, Records, Pending, Failed, Prepared, Ok, Publish, Rename,
         Fails, files, Inv
<1>9. OneIdentity'
  BY DEF TypeOK, CopyOfRun, NothingYet, ItemKnown, OneIdentity, Working,
         Runs, NoRun, ItemPcs, Journaled, Records, Pending, Failed,
         Prepared, Ok, Publish, Rename, Fails, files, Inv
<1> QED
  BY <1>1, <1>2, <1>3, <1>4, <1>5, <1>6, <1>7, <1>8, <1>9 DEF Inv

\* A published item becomes ok.
LEMMA SettleKeeps ==
    ASSUME Inv, Settle
    PROVE  Inv'
<1>d. /\ run \in Runs /\ item \in Samples
      /\ saved.items[item] = run.items[item] /\ run.items[item].status = "prepared"
  BY DEF Settle, Inv, TypeOK, CopyOfRun, Working, ItemKnown, ItemPcs
<1>e. run.items[item] \in Records
  BY <1>d DEF Runs
<1>f. /\ run.items[item].sha \in Audio
      /\ run.items[item] = Prepared(run.items[item].sha)
      /\ [run.items[item] EXCEPT !.status = "ok"] = Ok(run.items[item].sha)
      /\ Ok(run.items[item].sha) \in Records
  BY <1>d, <1>e, JournaledRecord DEF Journaled, Prepared, Ok
<1>a. PICK r \in Records : /\ r = Ok(run.items[item].sha)
                          /\ r = [saved.items[item] EXCEPT !.status = "ok"]
                          /\ run.items[item] = Prepared(r.sha)
                          /\ r.sha \in Audio
  BY <1>d, <1>f DEF Ok
<1>b. /\ pc = "settle"
      /\ saved' = SetItem(r)
      /\ (run' = SetItem(r) /\ pc' = "item") \/ (run' = run /\ pc' = "fail")
      /\ UNCHANGED <<serving, made, files, item, audio>>
  BY <1>a DEF Settle, Checkpoint
<1>c. PICK s \in Runs : /\ s = SetItem(r)
                         /\ s # NoRun
                         /\ s.status = saved.status /\ s.identity = saved.identity
                         /\ s.items[item] = r
                         /\ \A i \in Samples : i # item => s.items[i] = saved.items[i]
  BY <1>a, <1>b, SetItemIs, RunIsSome DEF Runs, Inv, TypeOK, ItemPcs
<1>g. /\ staged[item] = NoAudio /\ final[item] = r.sha /\ r.sha # NoAudio
      /\ r.sha[1] = run.identity /\ Journaled(r) /\ r.status # "prepared"
  BY <1>a, <1>b DEF Inv, TypeOK, ItemKnown, JournalMatchesFiles, OneIdentity, Consistent,
     Journaled, Prepared, CopyOfRun, Working, ItemPcs
<1>h. \A i \in Samples : i # item => saved.items[i] = run.items[i]
  BY <1>b DEF Inv, CopyOfRun, Working
<1>1. TypeOK'
  BY <1>a, <1>b, <1>g, <1>h, <1>c DEF TypeOK, Runs, Pcs, ItemPcs, FreshRun,
         Pending, Failed, Prepared, Ok, files, Inv
<1>2. NothingYet'
  BY <1>a, <1>b, <1>g, <1>h, <1>c DEF TypeOK, NothingYet, Working,
         CopyOfRun, Runs, NoRun, FreshRun, files, Inv
<1>3. CopyOfRun'
  BY <1>a, <1>b, <1>g, <1>h, <1>c DEF TypeOK, NothingYet, CopyOfRun,
         Working, Runs, NoRun, ItemPcs, FreshRun, files, Inv
<1>4. NonePrepared'
  <2>1. CASE run' = s /\ pc' = "item"
    BY <2>1, <1>b, <1>c, <1>d, <1>g, <1>h DEF NonePrepared, Inv
  <2>2. CASE pc' = "fail"
    BY <2>2 DEF NonePrepared
  <2> QED
    BY <2>1, <2>2, <1>b, <1>c
<1>5. ItemKnown'
  <2>1. CASE pc' = "item"
    BY <2>1 DEF ItemKnown
  <2>2. CASE run' = run /\ pc' = "fail"
    BY <2>2, <1>a, <1>b, <1>c, <1>d, <1>g DEF ItemKnown, Journaled, Ok, Prepared
  <2> QED
    BY <2>1, <2>2, <1>b
<1>6. AllDone'
  BY <1>a, <1>b, <1>g, <1>h, <1>c DEF TypeOK, CopyOfRun, AllDone, Done,
         Working, files, Inv
<1>7. JournalMatchesFiles'
  BY <1>a, <1>b, <1>g, <1>h, <1>c DEF TypeOK, CopyOfRun, NothingYet,
         NonePrepared, ItemKnown, JournalMatchesFiles, Consistent, Working,
         Runs, NoRun, ItemPcs, Journaled, Pending, Failed, Prepared, Ok,
         files, Inv
<1>8. CompleteMeansPublished'
  BY <1>a, <1>b, <1>g, <1>h, <1>c DEF TypeOK, CopyOfRun, NothingYet,
         AllDone, Done, JournalMatchesFiles, CompleteMeansPublished,
         Consistent, Working, Runs, NoRun, Journaled, Pending, Failed,
         Prepared, Ok, files, Inv
<1>9. OneIdentity'
  BY <1>a, <1>b, <1>g, <1>h, <1>c DEF TypeOK, CopyOfRun, NothingYet,
         ItemKnown, OneIdentity, Working, Runs, NoRun, ItemPcs, Journaled,
         Pending, Failed, Prepared, Ok, files, Inv
<1> QED
  BY <1>1, <1>2, <1>3, <1>4, <1>5, <1>6, <1>7, <1>8, <1>9 DEF Inv

\* A failure keeps the digest that was recorded.
LEMMA FailRunKeeps ==
    ASSUME Inv, FailRun
    PROVE  Inv'
<1>a. PICK r \in Records :
          /\ r = FailureRecord(saved.items[item])
          /\ r = Failed \/ (Journaled(saved.items[item]) /\ r = Prepared(saved.items[item].sha))
          /\ Journaled(saved.items[item]) => r = Prepared(saved.items[item].sha)
                                              /\ saved.items[item].sha \in Audio
  BY JournaledRecord DEF FailRun, FailureRecord, Inv, TypeOK, Runs, ItemPcs, Records
<1>b. /\ pc = "fail"
      /\ run' = [SetItem(r) EXCEPT !.status = "partial"] \/ run' = run
      /\ Stop
      /\ UNCHANGED <<serving, made, files>>
  BY <1>a DEF FailRun, Checkpoint
<1>d. /\ SetItem(r) \in Runs /\ SetItem(r).identity = saved.identity
      /\ SetItem(r).items[item] = r
      /\ \A i \in Samples : i # item => SetItem(r).items[i] = saved.items[i]
  BY <1>a, <1>b, SetItemIs DEF Inv, TypeOK, ItemPcs
<1>e. LET p == [SetItem(r) EXCEPT !.status = "partial"] IN
      /\ p \in Runs /\ p.status = "partial" /\ p.identity = saved.identity
      /\ p.items = SetItem(r).items
  BY <1>d, PartialIs
<1>c. PICK s \in Runs : /\ s = [SetItem(r) EXCEPT !.status = "partial"]
                         /\ s # NoRun
                         /\ s.status = "partial" /\ s.identity = saved.identity
                         /\ s.items[item] = r
                         /\ \A i \in Samples : i # item => s.items[i] = saved.items[i]
  BY <1>a, <1>b, <1>d, <1>e, RunIsSome
<1>1. TypeOK'
  BY <1>a, <1>b, <1>c DEF TypeOK, Runs, Pcs, ItemPcs, FreshRun, Pending,
         Failed, Prepared, Ok, Stop, files, Inv
<1>2. NothingYet'
  BY <1>a, <1>b, <1>c DEF TypeOK, NothingYet, Working, CopyOfRun, Runs,
         NoRun, FreshRun, Stop, files, Inv
<1>3. CopyOfRun'
  BY <1>a, <1>b, <1>c DEF TypeOK, NothingYet, CopyOfRun, Working, Runs,
         NoRun, ItemPcs, FreshRun, Stop, files, Inv
<1>4. NonePrepared'
  BY <1>a, <1>b, <1>c DEF TypeOK, NothingYet, CopyOfRun, NonePrepared,
         ItemKnown, Working, Runs, NoRun, ItemPcs, Journaled, FreshRun,
         Pending, Stop, files, Inv
<1>5. ItemKnown'
  BY <1>a, <1>b, <1>c DEF TypeOK, CopyOfRun, NonePrepared, ItemKnown,
         JournalMatchesFiles, Consistent, Working, Runs, NoRun, ItemPcs,
         Journaled, Pending, Failed, Prepared, Ok, Stop, files, Inv
<1>6. AllDone'
  BY <1>a, <1>b, <1>c DEF TypeOK, CopyOfRun, AllDone, Done, Working, Stop,
         files, Inv
<1>7. JournalMatchesFiles'
  BY <1>a, <1>b, <1>c DEF TypeOK, CopyOfRun, NothingYet, NonePrepared,
         ItemKnown, JournalMatchesFiles, Consistent, Working, Runs, NoRun,
         ItemPcs, Journaled, Pending, Failed, Prepared, Ok, Stop, files, Inv
<1>8. CompleteMeansPublished'
  BY <1>a, <1>b, <1>c DEF TypeOK, CopyOfRun, NothingYet, AllDone, Done,
         JournalMatchesFiles, CompleteMeansPublished, Consistent, Working,
         Runs, NoRun, Journaled, Pending, Failed, Prepared, Ok, Stop, files,
         Inv
<1>9. OneIdentity'
  BY <1>a, <1>b, <1>c DEF TypeOK, CopyOfRun, NothingYet, ItemKnown,
         OneIdentity, Working, Runs, NoRun, ItemPcs, Journaled, Pending,
         Failed, Prepared, Ok, Stop, files, Inv
<1> QED
  BY <1>1, <1>2, <1>3, <1>4, <1>5, <1>6, <1>7, <1>8, <1>9 DEF Inv

\* Only a run with every item ok is complete.
LEMMA FinishRunKeeps ==
    ASSUME Inv, FinishRun
    PROVE  Inv'
<1>1. TypeOK'
  BY DEF TypeOK, Runs, Records, Pcs, ItemPcs, FreshRun, Pending, Failed,
         Prepared, Ok, FinishRun, Checkpoint, Stop, files, Inv
<1>2. NothingYet'
  BY DEF TypeOK, NothingYet, Working, CopyOfRun, Runs, NoRun, FreshRun,
         FinishRun, Checkpoint, Stop, files, Inv
<1>3. CopyOfRun'
  BY DEF TypeOK, NothingYet, CopyOfRun, Working, Runs, NoRun, ItemPcs,
         FreshRun, FinishRun, Checkpoint, Stop, files, Inv
<1>4. NonePrepared'
  BY DEF TypeOK, NothingYet, CopyOfRun, NonePrepared, ItemKnown, Working,
         Runs, NoRun, ItemPcs, Journaled, FreshRun, Pending, FinishRun,
         Checkpoint, Stop, files, Inv
<1>5. ItemKnown'
  BY DEF TypeOK, CopyOfRun, NonePrepared, ItemKnown, JournalMatchesFiles,
         Consistent, Working, Runs, NoRun, ItemPcs, Journaled, Records,
         Pending, Failed, Prepared, Ok, FinishRun, Checkpoint, Stop, files,
         Inv
<1>6. AllDone'
  BY DEF TypeOK, CopyOfRun, AllDone, Done, Working, FinishRun, Checkpoint,
         Stop, files, Inv
<1>7. JournalMatchesFiles'
  BY DEF TypeOK, CopyOfRun, NothingYet, NonePrepared, ItemKnown,
         JournalMatchesFiles, Consistent, Working, Runs, NoRun, ItemPcs,
         Journaled, Records, Pending, Failed, Prepared, Ok, FinishRun,
         Checkpoint, Stop, files, Inv
<1>8. CompleteMeansPublished'
  BY DEF TypeOK, CopyOfRun, NothingYet, AllDone, Done, JournalMatchesFiles,
         CompleteMeansPublished, Consistent, Working, Runs, NoRun,
         Journaled, Records, Pending, Failed, Prepared, Ok, FinishRun,
         Checkpoint, Stop, files, Inv
<1>9. OneIdentity'
  BY DEF TypeOK, CopyOfRun, NothingYet, ItemKnown, OneIdentity, Working,
         Runs, NoRun, ItemPcs, Journaled, Records, Pending, Failed,
         Prepared, Ok, FinishRun, Checkpoint, Stop, files, Inv
<1> QED
  BY <1>1, <1>2, <1>3, <1>4, <1>5, <1>6, <1>7, <1>8, <1>9 DEF Inv

\* A crash can only tear the file being staged.
LEMMA CrashKeeps ==
    ASSUME Inv, Crash
    PROVE  Inv'
<1>1. TypeOK'
  BY DEF TypeOK, Runs, Records, Pcs, ItemPcs, FreshRun, Pending, Failed,
         Prepared, Ok, Crash, Stop, files, Inv
<1>2. NothingYet'
  BY DEF TypeOK, NothingYet, Working, CopyOfRun, Runs, NoRun, FreshRun,
         Crash, Stop, files, Inv
<1>3. CopyOfRun'
  BY DEF TypeOK, NothingYet, CopyOfRun, Working, Runs, NoRun, ItemPcs,
         FreshRun, Crash, Stop, files, Inv
<1>4. NonePrepared'
  BY DEF TypeOK, NothingYet, CopyOfRun, NonePrepared, ItemKnown, Working,
         Runs, NoRun, ItemPcs, Journaled, FreshRun, Pending, Crash, Stop,
         files, Inv
<1>5. ItemKnown'
  BY DEF TypeOK, CopyOfRun, NonePrepared, ItemKnown, JournalMatchesFiles,
         Consistent, Working, Runs, NoRun, ItemPcs, Journaled, Records,
         Pending, Failed, Prepared, Ok, Crash, Stop, files, Inv
<1>6. AllDone'
  BY DEF TypeOK, CopyOfRun, AllDone, Done, Working, Crash, Stop, files, Inv
<1>7. JournalMatchesFiles'
  BY DEF TypeOK, CopyOfRun, NothingYet, NonePrepared, ItemKnown,
         JournalMatchesFiles, Consistent, Working, Runs, NoRun, ItemPcs,
         Journaled, Records, Pending, Failed, Prepared, Ok, Crash, Stop,
         files, Inv
<1>8. CompleteMeansPublished'
  BY DEF TypeOK, CopyOfRun, NothingYet, AllDone, Done, JournalMatchesFiles,
         CompleteMeansPublished, Consistent, Working, Runs, NoRun,
         Journaled, Records, Pending, Failed, Prepared, Ok, Crash, Stop,
         files, Inv
<1>9. OneIdentity'
  BY DEF TypeOK, CopyOfRun, NothingYet, ItemKnown, OneIdentity, Working,
         Runs, NoRun, ItemPcs, Journaled, Records, Pending, Failed,
         Prepared, Ok, Crash, Stop, files, Inv
<1> QED
  BY <1>1, <1>2, <1>3, <1>4, <1>5, <1>6, <1>7, <1>8, <1>9 DEF Inv

\* The service changes nothing on disk.
LEMMA IdentityChangesKeeps ==
    ASSUME Inv, IdentityChanges
    PROVE  Inv'
<1>1. TypeOK'
  BY DEF TypeOK, Runs, Records, Pcs, ItemPcs, FreshRun, Pending, Failed,
         Prepared, Ok, IdentityChanges, files, Inv
<1>2. NothingYet'
  BY DEF TypeOK, NothingYet, Working, CopyOfRun, Runs, NoRun, FreshRun,
         IdentityChanges, files, Inv
<1>3. CopyOfRun'
  BY DEF TypeOK, NothingYet, CopyOfRun, Working, Runs, NoRun, ItemPcs,
         FreshRun, IdentityChanges, files, Inv
<1>4. NonePrepared'
  BY DEF TypeOK, NothingYet, CopyOfRun, NonePrepared, ItemKnown, Working,
         Runs, NoRun, ItemPcs, Journaled, FreshRun, Pending,
         IdentityChanges, files, Inv
<1>5. ItemKnown'
  BY DEF TypeOK, CopyOfRun, NonePrepared, ItemKnown, JournalMatchesFiles,
         Consistent, Working, Runs, NoRun, ItemPcs, Journaled, Records,
         Pending, Failed, Prepared, Ok, IdentityChanges, files, Inv
<1>6. AllDone'
  BY DEF TypeOK, CopyOfRun, AllDone, Done, Working, IdentityChanges, files,
         Inv
<1>7. Disk'
  BY DiskKept DEF IdentityChanges, files
<1> QED
  BY <1>1, <1>2, <1>3, <1>4, <1>5, <1>6, <1>7 DEF Inv, Disk

\* Only an unrecorded staged file is removed.
LEMMA OperatorRemovesKeeps ==
    ASSUME Inv, NEW j \in Samples, OperatorRemoves(j)
    PROVE  Inv'
<1>1. TypeOK'
  BY DEF TypeOK, Runs, Records, Pcs, ItemPcs, FreshRun, Pending, Failed,
         Prepared, Ok, OperatorRemoves, files, Inv
<1>2. NothingYet'
  BY DEF TypeOK, NothingYet, Working, CopyOfRun, Runs, NoRun, FreshRun,
         OperatorRemoves, files, Inv
<1>3. CopyOfRun'
  BY DEF TypeOK, NothingYet, CopyOfRun, Working, Runs, NoRun, ItemPcs,
         FreshRun, OperatorRemoves, files, Inv
<1>4. NonePrepared'
  BY DEF TypeOK, NothingYet, CopyOfRun, NonePrepared, ItemKnown, Working,
         Runs, NoRun, ItemPcs, Journaled, FreshRun, Pending,
         OperatorRemoves, files, Inv
<1>5. ItemKnown'
  BY DEF TypeOK, CopyOfRun, NonePrepared, ItemKnown, JournalMatchesFiles,
         Consistent, Working, Runs, NoRun, ItemPcs, Journaled, Records,
         Pending, Failed, Prepared, Ok, OperatorRemoves, files, Inv
<1>6. AllDone'
  BY DEF TypeOK, CopyOfRun, AllDone, Done, Working, OperatorRemoves, files,
         Inv
<1>7. JournalMatchesFiles'
  BY DEF TypeOK, CopyOfRun, NothingYet, NonePrepared, ItemKnown,
         JournalMatchesFiles, Consistent, Working, Runs, NoRun, ItemPcs,
         Journaled, Records, Pending, Failed, Prepared, Ok, OperatorRemoves,
         files, Inv
<1>8. CompleteMeansPublished'
  BY DEF TypeOK, CopyOfRun, NothingYet, AllDone, Done, JournalMatchesFiles,
         CompleteMeansPublished, Consistent, Working, Runs, NoRun,
         Journaled, Records, Pending, Failed, Prepared, Ok, OperatorRemoves,
         files, Inv
<1>9. OneIdentity'
  BY DEF TypeOK, CopyOfRun, NothingYet, ItemKnown, OneIdentity, Working,
         Runs, NoRun, ItemPcs, Journaled, Records, Pending, Failed,
         Prepared, Ok, OperatorRemoves, files, Inv
<1> QED
  BY <1>1, <1>2, <1>3, <1>4, <1>5, <1>6, <1>7, <1>8, <1>9 DEF Inv

-----------------------------------------------------------------------------
(* The theorems.                                                           *)

\* The initial states satisfy the invariant.
LEMMA InitInv == Init => Inv
  BY DEF Init, Inv, TypeOK, NothingYet, CopyOfRun, NonePrepared, ItemKnown, AllDone,
         Working, JournalMatchesFiles, CompleteMeansPublished, OneIdentity, Pcs, ItemPcs

\* Every step keeps the invariant.
LEMMA NextInv == Inv /\ [Next]_vars => Inv'
<1> SUFFICES ASSUME Inv, [Next]_vars PROVE Inv'
  OBVIOUS
<1>1. CASE Next
  BY <1>1, StartRunKeeps, CreateCheckpointKeeps, ResumeRunKeeps, RecoverPreparedKeeps,
     RecordRecoveredKeeps, MarkRunningKeeps, NextItemKeeps, ResolveKeeps, SpeechKeeps,
     StageKeeps, JournalKeeps, PublishKeeps, SettleKeeps, FailRunKeeps, FinishRunKeeps,
     CrashKeeps, IdentityChangesKeeps, OperatorRemovesKeeps DEF Next
<1>2. CASE UNCHANGED vars
  <2>1. Disk'
    BY <1>2, DiskKept DEF vars
  <2>2. TypeOK' /\ NothingYet' /\ CopyOfRun' /\ NonePrepared' /\ ItemKnown' /\ AllDone'
    BY <1>2 DEF vars, files, Inv, TypeOK, NothingYet, CopyOfRun, NonePrepared,
                ItemKnown, AllDone, Done, Working
  <2> QED
    BY <2>1, <2>2 DEF Inv, Disk
<1> QED
  BY <1>1, <1>2

\* The invariant holds in every reachable state.
LEMMA AlwaysInv == Spec => []Inv
  BY InitInv, NextInv, PTL DEF Spec

\* Every recorded digest has its bytes at exactly one name, and every final
\* file is recorded.
THEOREM JournalAlwaysMatches == Spec => []JournalMatchesFiles
<1>1. Inv => JournalMatchesFiles
  BY DEF Inv
<1> QED
  BY <1>1, AlwaysInv, PTL

\* A complete run has every sample under its final name.
THEOREM CompleteIsPublished == Spec => []CompleteMeansPublished
<1>1. Inv => CompleteMeansPublished
  BY DEF Inv
<1> QED
  BY <1>1, AlwaysInv, PTL

\* All audio of a run was spoken by the identity the run recorded.
THEOREM AlwaysOneIdentity == Spec => []OneIdentity
<1>1. Inv => OneIdentity
  BY DEF Inv
<1> QED
  BY <1>1, AlwaysInv, PTL

\* A step keeps every recorded digest and every final file.
Kept ==
    \A i \in Samples :
        /\ run # NoRun /\ Journaled(run.items[i]) =>
              Journaled(run'.items[i]) /\ run'.items[i].sha = run.items[i].sha
        /\ final[i] # NoAudio => final'[i] = final[i]

\* Only the record of the item being worked on changes, and it has no digest
\* yet or keeps the one it has.
LEMMA StepKeeps == Inv /\ [Next]_vars => Kept
<1> SUFFICES ASSUME Inv, [Next]_vars PROVE Kept
  OBVIOUS
<1>1. CASE UNCHANGED <<run, final>>
  BY <1>1 DEF Kept
<1>2. CASE CreateCheckpoint
  BY <1>2 DEF CreateCheckpoint, Kept, Inv, NothingYet
<1>3. CASE RecoverPrepared
  BY <1>3 DEF RecoverPrepared, Rename, Kept, Inv, TypeOK, files
<1>4. CASE MarkRunning \/ FinishRun
  <2>1. /\ \A i \in Samples : saved.items[i] = run.items[i]
        /\ run' = run \/ run'.items = saved.items
        /\ UNCHANGED final
    BY <1>4, PartialIs DEF MarkRunning, FinishRun, Checkpoint, Inv, TypeOK, CopyOfRun,
       Working, files, Runs
  <2> QED
    BY <2>1 DEF Kept
<1>5. CASE RecordRecovered \/ Settle
  <2>1. /\ item \in Samples /\ saved \in Runs
        /\ saved.items[item].status = "prepared"
        /\ \A i \in Samples : saved.items[i] = run.items[i]
        /\ UNCHANGED final
    BY <1>5 DEF RecordRecovered, Settle, Stop, Inv, TypeOK, CopyOfRun, Working, ItemKnown,
       ItemPcs, files
  <2>2. saved.items[item] \in Records
    BY <2>1 DEF Runs
  <2>3. PICK r \in Records : /\ r = [saved.items[item] EXCEPT !.status = "ok"]
                            /\ r.sha = saved.items[item].sha /\ Journaled(r)
    BY <2>1, <2>2, JournaledRecord DEF Journaled, Ok
  <2>4. run' = run \/ run' = SetItem(r)
    BY <1>5, <2>3 DEF RecordRecovered, Settle, Checkpoint, Stop
  <2>5. /\ SetItem(r).items[item] = r
        /\ \A i \in Samples : i # item => SetItem(r).items[i] = saved.items[i]
    BY <2>1, SetItemIs
  <2>6. ASSUME NEW i \in Samples, Journaled(run.items[i])
        PROVE  Journaled(run'.items[i]) /\ run'.items[i].sha = run.items[i].sha
    <3>1. CASE i = item
      BY <3>1, <2>1, <2>3, <2>4, <2>5, <2>6
    <3>2. CASE i # item
      BY <3>2, <2>1, <2>4, <2>5, <2>6
    <3> QED
      BY <3>1, <3>2
  <2> QED
    BY <2>1, <2>6 DEF Kept
<1>6. CASE Journal
  <2>1. /\ item \in Samples /\ saved \in Runs
        /\ Prepared(audio) \in Records
        /\ ~Journaled(run.items[item])
        /\ \A i \in Samples : saved.items[i] = run.items[i]
        /\ UNCHANGED final
        /\ run' = run \/ run' = SetItem(Prepared(audio))
    BY <1>6 DEF Journal, Checkpoint, Inv, TypeOK, CopyOfRun, Working, ItemKnown,
       ItemPcs, files, Records
  <2> QED
    BY <2>1, SetItemIs DEF Kept
<1>7. CASE Publish
  BY <1>7 DEF Publish, Rename, Fails, Kept, Inv, TypeOK, ItemPcs, files
<1>8. CASE FailRun
  <2>1. /\ item \in Samples /\ saved \in Runs
        /\ \A i \in Samples : i # item => saved.items[i] = run.items[i]
        /\ Journaled(run.items[item]) =>
              Journaled(saved.items[item]) /\ saved.items[item].sha = run.items[item].sha
        /\ UNCHANGED final
    BY <1>8 DEF FailRun, Inv, TypeOK, CopyOfRun, Working, ItemKnown, ItemPcs, files
  <2> DEFINE r == FailureRecord(saved.items[item])
  <2>2. /\ r \in Records
        /\ Journaled(saved.items[item]) => Journaled(r) /\ r.sha = saved.items[item].sha
    <3>1. saved.items[item] \in Records
      BY <2>1 DEF Runs
    <3>2. CASE Journaled(saved.items[item])
      BY <3>1, <3>2, JournaledRecord DEF FailureRecord, Journaled, Prepared
    <3>3. CASE ~Journaled(saved.items[item])
      BY <3>3 DEF FailureRecord, Records
    <3> QED
      BY <3>2, <3>3
  <2>4. run' = run \/ run' = [SetItem(r) EXCEPT !.status = "partial"]
    BY <1>8 DEF FailRun, Checkpoint
  <2> HIDE DEF r
  <2>3. /\ SetItem(r) \in Runs
        /\ SetItem(r).items[item] = r
        /\ \A i \in Samples : i # item => SetItem(r).items[i] = saved.items[i]
    BY <2>1, <2>2, SetItemIs
  <2>5. run' = run \/ run'.items = SetItem(r).items
    BY <2>3, <2>4, PartialIs
  <2>6. ASSUME NEW i \in Samples, Journaled(run.items[i])
        PROVE  Journaled(run'.items[i]) /\ run'.items[i].sha = run.items[i].sha
    <3>1. CASE i = item
      BY <3>1, <2>1, <2>2, <2>3, <2>5, <2>6
    <3>2. CASE i # item
      BY <3>2, <2>1, <2>3, <2>5, <2>6
    <3> QED
      BY <3>1, <3>2
  <2> QED
    BY <2>1, <2>6 DEF Kept
<1> QED
  BY <1>1, <1>2, <1>3, <1>4, <1>5, <1>6, <1>7, <1>8
  DEF Next, vars, files, StartRun, ResumeRun, NextItem, Resolve, Speech, Stage, Crash,
      IdentityChanges, OperatorRemoves

\* Once recorded, an item is never generated again and its file never replaced.
THEOREM NothingRegenerated == Spec => NeverRegenerated
  BY StepKeeps, AlwaysInv, PTL DEF Spec, NeverRegenerated, Kept

\* Every variable keeps its type, for any samples, identities and takes: run.json
\* only ever holds records the runner can resume from.
THEOREM RunTyped == Spec => []TypeOK
<1>1. Inv => TypeOK
  BY DEF Inv
<1> QED
  BY <1>1, AlwaysInv, PTL

=============================================================================
