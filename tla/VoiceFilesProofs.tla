-------------------------- MODULE VoiceFilesProofs --------------------------
(***************************************************************************)
(* The admin token and the files of a voice, for any number of processes,  *)
(* scripts, models, references and bindings.                               *)
(*                                                                         *)
(* The argument.  A process past the bootstrap lock holds it until it is   *)
(* up, and the file it is creating stays empty meanwhile.  What a profile  *)
(* names is registered, or has its WAV, before any script drafts a profile *)
(* that names it, and neither is ever taken back.  While the scripts of a  *)
(* file run one at a time, a script drafts what is there and adds to it,   *)
(* and the .tmp file it renames is the one it wrote.                       *)
(***************************************************************************)
EXTENDS SystemGraph, TLAPS

USE AdminTokenAssumption, VoiceAssumption

-----------------------------------------------------------------------------
(* The admin token.                                                        *)

\* A process in the bootstrap holds the lock; until it has written the token
\* the file it created is empty.
TokenInv ==
    /\ TokenTypeOK
    /\ \A p \in Procs :
          /\ boot[p] \in Holding => bootLock = p
          /\ boot[p] = "write" => tokenFile = Empty

\* What TokenIsTrusted says of a step.
TrustedStep ==
    /\ (tokenFile \in Tokens) => tokenFile' = tokenFile
    /\ \A p, q \in Procs :
          boot[p] = "look" /\ boot'[p] # "look" /\ tokenFile = Empty => boot[q] # "write"

TokenSteps == (\E p \in Procs : Boot(p) \/ Leaves(p)) \/ OperatorPlacesToken

\* The bootstrap, the death of a process and the operator keep the invariant.
LEMMA TokenKept ==
    ASSUME TokenInv, TokenSteps \/ UNCHANGED tokenVars
    PROVE  TokenInv' /\ TrustedStep
<1>1. ASSUME NEW p \in Procs, StartProcess(p) \/ Leaves(p)
      PROVE  TokenInv' /\ TrustedStep
  BY <1>1 DEF StartProcess, Leaves, BootTo, Unlocked, TokenInv, TokenTypeOK, BootPcs, Holding,
     TrustedStep
<1>2. ASSUME NEW p \in Procs, TakeBootLock(p) \/ LookAtToken(p)
      PROVE  TokenInv' /\ TrustedStep
  BY <1>2 DEF TakeBootLock, LookAtToken, BootTo, Unlocked, TokenInv, TokenTypeOK, BootPcs,
     Holding, TrustedStep
<1>3. ASSUME NEW p \in Procs, CreateToken(p) \/ WriteToken(p)
      PROVE  TokenInv' /\ TrustedStep
  BY <1>3 DEF CreateToken, WriteToken, BootTo, Unlocked, TokenInv, TokenTypeOK, BootPcs,
     Holding, TrustedStep
<1>4. CASE OperatorPlacesToken \/ UNCHANGED tokenVars
  BY <1>4 DEF OperatorPlacesToken, tokenVars, TokenInv, TokenTypeOK, Holding, TrustedStep
<1> QED
  BY <1>1, <1>2, <1>3, <1>4 DEF TokenSteps, Boot

\* To the token, the scripts are stuttering.
LEMMA ScriptsLeaveToken == [VoiceNext]_allVars => TokenSteps \/ UNCHANGED tokenVars
  BY DEF VoiceNext, allVars, TokenSteps, Script, Dies, OpenStaging, WriteStaging, ReplaceFile,
     Migrate, ImportWeights, BackUp, CreateBackup, CopyBackup, ImportPack, TruncateAudio,
     CopyAudio, Bind, LookForManifest, CreateManifest, FillManifest, Scan, LoadBindings,
     DefaultChanges

LEMMA TokenStarts == VoiceInit => TokenInv
  BY DEF VoiceInit, TokenInit, TokenInv, TokenTypeOK, BootPcs, Holding

\* A token is never replaced, and one being written never taken for lost.
THEOREM TokenAlwaysTrusted == VoiceSpec => TokenIsTrusted
<1>1. TokenInv /\ [VoiceNext]_allVars => TokenInv' /\ [TrustedStep]_tokenVars
  BY TokenKept, ScriptsLeaveToken
<1> QED
  BY <1>1, TokenStarts, PTL DEF VoiceSpec, TokenIsTrusted, TrustedStep

-----------------------------------------------------------------------------
(* Types.                                                                  *)

Texts == {Empty, Broken, NoFile} \cup Profiles \cup BindingSets

\* What a script can be doing, by its kind.
Points(op) ==
    Replacing \cup
    CASE op = "migrate" -> {"weights", "backup", "create", "copy"}
      [] op = "import" -> {"audio", "wav"}
      [] op = "bind" -> {"look", "manifest", "fill", "scan", "load"}

\* The types, and a .tmp file is open in a process that is about to write it.
TypeInv ==
    /\ TokenInv
    /\ VoiceTypeOK
    /\ live \in [Files -> Texts] /\ staged \in [Files -> Texts]
    /\ \A p \in Procs : fd[p] # "none" => job[p].pc = "write"

\* A job is of its kind.
LEMMA JobIs ==
    ASSUME NEW j \in Jobs, j.pc # "idle"
    PROVE  /\ j.op \in {"migrate", "import", "bind"}
           /\ j.pc \in Points(j.op)
           /\ j.op \in {"migrate", "import"} => j.read \in Profiles
           /\ j.op = "bind" => j.read \in BindingSets
           /\ j.op = "import" => j.left \in SUBSET Refs
           /\ FileOf(j.op) \in Files
  BY DEF Jobs, Idle, Points, Replacing, FileOf, Files

\* To go on to another point of the same script.
LEMMA Moved ==
    ASSUME NEW j \in Jobs, j.pc # "idle", NEW s \in Points(j.op)
    PROVE  LET k == [j EXCEPT !.pc = s] IN
           /\ k \in Jobs /\ k.pc = s /\ k.op = j.op /\ k.read = j.read
           /\ j.op = "import" => k.left = j.left
  BY DEF Jobs, Idle, Points, Replacing

\* What a script begins with.
LEMMA Begun ==
    /\ Idle \in Jobs /\ Idle.pc = "idle"
    /\ \A c \in Profiles : Job("migrate", "weights", c) \in Jobs
    /\ \A c \in Profiles, l \in SUBSET Refs :
          Importing(c, l) \in Jobs /\ Importing(c, l).pc = "audio"
    /\ \A c \in BindingSets :
          Job("bind", "look", c) \in Jobs /\ Job("bind", "open", c) \in Jobs
  BY DEF Jobs, Idle, Job, Importing, Replacing

\* The job of one process changes.
LEMMA OneJobMoves ==
    ASSUME TypeInv, NEW p \in Procs, NEW k \in Jobs, job' = [job EXCEPT ![p] = k]
    PROVE  /\ job' \in [Procs -> Jobs] /\ job'[p] = k
           /\ \A q \in Procs : q # p => job'[q] = job[q]
  BY DEF TypeInv, VoiceTypeOK

\* A script goes on.
LEMMA GoesOn ==
    ASSUME TypeInv, NEW p \in Procs, NEW s, Goes(p, s),
           job[p].pc # "idle", s \in Points(job[p].op)
    PROVE  /\ job' \in [Procs -> Jobs]
           /\ \A q \in Procs : q # p => job'[q] = job[q]
           /\ job'[p].pc = s /\ job'[p].op = job[p].op /\ job'[p].read = job[p].read
           /\ job[p].op = "import" => job'[p].left = job[p].left
<1> DEFINE k == [job[p] EXCEPT !.pc = s]
<1>1. job[p] \in Jobs /\ job' = [job EXCEPT ![p] = k]
  BY DEF Goes, TypeInv, VoiceTypeOK
<1>2. /\ k \in Jobs /\ k.pc = s /\ k.op = job[p].op /\ k.read = job[p].read
      /\ job[p].op = "import" => k.left = job[p].left
  BY <1>1, Moved
<1> HIDE DEF k
<1> QED
  BY <1>1, <1>2, OneJobMoves

\* A script ends.
LEMMA EndsWell ==
    ASSUME TypeInv, NEW p \in Procs, Ends(p)
    PROVE  /\ job' \in [Procs -> Jobs] /\ job'[p].pc = "idle"
           /\ fd' \in [Procs -> {"none", "staged", "live", "lost"}] /\ fd'[p] = "none"
           /\ \A q \in Procs : q # p => job'[q] = job[q] /\ fd'[q] = fd[q]
<1>1. job' = [job EXCEPT ![p] = Idle]
  BY DEF Ends
<1>2. Idle \in Jobs /\ Idle.pc = "idle"
  BY Begun
<1> QED
  BY <1>1, <1>2, OneJobMoves DEF Ends, TypeInv, VoiceTypeOK

\* A draft is a content of its file.
LEMMA DraftIs ==
    ASSUME NEW p \in Procs, job[p] \in Jobs, job[p].pc # "idle"
    PROVE  /\ Draft(p) \in Contents[FileOf(job[p].op)]
           /\ job[p].op = "migrate" =>
                 Draft(p).managed = Legacy /\ Draft(p).refs = job[p].read.refs
           /\ job[p].op = "import" =>
                 /\ Draft(p).managed = job[p].read.managed
                 /\ Draft(p).refs = job[p].read.refs \cup Refs
           /\ job[p].op = "bind" => Draft(p) = job[p].read \cup {SharedBinding}
<1>1. /\ job[p].op \in {"migrate", "import", "bind"}
      /\ job[p].op \in {"migrate", "import"} => job[p].read \in Profiles
      /\ job[p].op = "bind" => job[p].read \in BindingSets
  BY JobIs
<1>2. CASE job[p].op = "migrate"
  BY <1>1, <1>2 DEF Draft, Contents, FileOf, Profiles
<1>3. CASE job[p].op = "import"
  BY <1>1, <1>3 DEF Draft, Contents, FileOf, Profiles
<1>4. CASE job[p].op = "bind"
  BY <1>1, <1>4 DEF Draft, Contents, FileOf, BindingSets
<1> QED
  BY <1>1, <1>2, <1>3, <1>4

\* Where a script with the program point s is, by its kind.
LEMMA KindOfPoint ==
    ASSUME TypeInv, NEW p \in Procs, job[p].pc # "idle"
    PROVE  /\ job[p].pc \in Replacing => Replacing \subseteq Points(job[p].op)
           /\ job[p].op = "migrate" => Points(job[p].op) =
                 Replacing \cup {"weights", "backup", "create", "copy"}
           /\ job[p].op = "import" => Points(job[p].op) = Replacing \cup {"audio", "wav"}
           /\ job[p].op = "bind" => Points(job[p].op) =
                 Replacing \cup {"look", "manifest", "fill", "scan", "load"}
  BY DEF Points

\* A script starts.
LEMMA BeginTyped ==
    ASSUME TypeInv, NEW p \in Procs, Migrate(p) \/ ImportPack(p) \/ Bind(p)
    PROVE  /\ job' \in [Procs -> Jobs] /\ job[p].pc = "idle"
           /\ \A q \in Procs : q # p => job'[q] = job[q]
           /\ \/ /\ Migrate(p) /\ job'[p] = Job("migrate", "weights", live["profile"])
                 /\ live["profile"] \in Profiles
              \/ /\ ImportPack(p) /\ live["profile"] \in Profiles
                 /\ job'[p] = Importing(live["profile"], Refs)
              \/ Bind(p) /\ job'[p] = Job("bind", "look", {})
           /\ overlapped' \in SUBSET Files /\ started' \in 0..MaxScripts
<1>1. Readable("profile") => live["profile"] \in Profiles
  BY DEF Readable, TypeInv, VoiceTypeOK, Files, Contents
<1>2. {} \in BindingSets
  BY DEF BindingSets
<1>3. PICK k \in Jobs :
        /\ Begins(p, k) /\ FileOf(k.op) \in Files
        /\ \/ /\ Migrate(p) /\ k = Job("migrate", "weights", live["profile"])
              /\ live["profile"] \in Profiles
           \/ /\ ImportPack(p) /\ live["profile"] \in Profiles
              /\ k = Importing(live["profile"], Refs)
           \/ Bind(p) /\ k = Job("bind", "look", {})
  BY <1>1, <1>2, Begun DEF Migrate, ImportPack, Bind, FileOf, Files, Job, Importing
<1>4. job[p].pc = "idle" /\ job' = [job EXCEPT ![p] = k]
      /\ overlapped' \in {overlapped, overlapped \cup {FileOf(k.op)}}
      /\ started' = started + 1 /\ started < MaxScripts
  BY <1>3 DEF Begins
<1>5. overlapped' \in SUBSET Files /\ started' \in 0..MaxScripts
  BY <1>3, <1>4 DEF TypeInv, VoiceTypeOK
<1> QED
  BY <1>3, <1>4, <1>5, OneJobMoves

\* Steps of a script that leave live, staged and the token alone.
Preparing(p) ==
    \/ Migrate(p) \/ ImportPack(p) \/ Bind(p)
    \/ ImportWeights(p) \/ BackUp(p) \/ CreateBackup(p) \/ CopyBackup(p)
    \/ TruncateAudio(p) \/ CopyAudio(p)
    \/ LookForManifest(p) \/ CreateManifest(p) \/ FillManifest(p) \/ Scan(p) \/ LoadBindings(p)

\* They move the job, and open no .tmp file.
LEMMA PreparingMoves ==
    ASSUME TypeInv, NEW p \in Procs, Preparing(p)
    PROVE  /\ job' \in [Procs -> Jobs] /\ fd' \in [Procs -> {"none", "staged", "live", "lost"}]
           /\ \A q \in Procs : q # p => job'[q] = job[q] /\ fd'[q] = fd[q]
           /\ job[p].pc # "write" /\ fd[p] = "none" /\ fd'[p] = "none"
           /\ UNCHANGED <<tokenVars, live, staged>>
<1>1. UNCHANGED <<tokenVars, live, staged>> /\ job[p].pc # "write" /\ fd[p] = "none"
  BY DEF Preparing, Migrate, ImportPack, Bind, Begins, ImportWeights, BackUp, CreateBackup,
     CopyBackup, TruncateAudio, CopyAudio, LookForManifest, CreateManifest, FillManifest, Scan,
     LoadBindings, At, TypeInv, VoiceTypeOK
<1>2. CASE Ends(p)
  BY <1>1, <1>2, EndsWell
<1>3. CASE ~Ends(p)
  <2>1. UNCHANGED fd
    BY <1>3 DEF Preparing, Migrate, ImportPack, Bind, ImportWeights, BackUp, CreateBackup,
       CopyBackup, TruncateAudio, CopyAudio, LookForManifest, CreateManifest, FillManifest, Scan,
       LoadBindings
  <2>2. job' \in [Procs -> Jobs] /\ \A q \in Procs : q # p => job'[q] = job[q]
    <3>1. CASE Migrate(p) \/ ImportPack(p) \/ Bind(p)
      BY <3>1, BeginTyped
    <3>2. CASE \E s : Goes(p, s) /\ job[p].pc # "idle" /\ s \in Points(job[p].op)
      BY <3>2, GoesOn
    <3>3. CASE CopyAudio(p)
      <4>1. job[p] \in Jobs /\ job[p].op = "import" /\ job[p].pc # "idle"
            /\ job' = [job EXCEPT ![p] = Importing(job[p].read, job[p].left \ {Wav(p)})]
        BY <3>3 DEF CopyAudio, At, TypeInv, VoiceTypeOK
      <4>2. job[p].read \in Profiles /\ job[p].left \ {Wav(p)} \in SUBSET Refs
        BY <4>1, JobIs
      <4> QED
        BY <4>1, <4>2, Begun, OneJobMoves
    <3>4. CASE LoadBindings(p)
      <4>1. job' = [job EXCEPT ![p] = Job("bind", "open", live["bindings"])]
            /\ live["bindings"] \in BindingSets
        BY <1>3, <3>4 DEF LoadBindings, Readable, TypeInv, VoiceTypeOK, Files, Contents
      <4> QED
        BY <4>1, Begun, OneJobMoves
    <3>5. CASE ~(CopyAudio(p) \/ LoadBindings(p) \/ Migrate(p) \/ ImportPack(p) \/ Bind(p))
      BY <1>3, <3>2, <3>5, KindOfPoint DEF Preparing, ImportWeights, BackUp, CreateBackup,
         CopyBackup, TruncateAudio, LookForManifest, CreateManifest, FillManifest, Scan, At,
         Replacing
    <3> QED
      BY <3>1, <3>3, <3>4, <3>5
  <2> QED
    BY <1>1, <2>1, <2>2 DEF TypeInv, VoiceTypeOK
<1> QED
  BY <1>2, <1>3

\* What is registered, and what of the pack is there, is never taken back.
Growing == registered \subseteq registered' /\ \A r \in Refs : audio[r] # "none" => audio'[r] # "none"

\* The other variables of a preparing step.
LEMMA PreparingTypes ==
    ASSUME TypeInv, NEW p \in Procs, Preparing(p)
    PROVE  /\ backup' \in Profiles \cup {Empty, Broken, NoFile}
           /\ audio' \in [Refs -> {"none", "torn", "whole"}]
           /\ manifest' \in {"none", "torn", "whole"}
           /\ registered' \in SUBSET Registrable
           /\ default' = default
           /\ started' \in 0..MaxScripts /\ overlapped' \in SUBSET Files
           /\ Growing
<1>1. CASE Migrate(p) \/ ImportPack(p) \/ Bind(p)
  BY <1>1, BeginTyped DEF Migrate, ImportPack, Bind, models, TypeInv, VoiceTypeOK, Growing
<1>2. CASE ImportWeights(p) \/ Scan(p)
  BY <1>2 DEF ImportWeights, Scan, history, TypeInv, VoiceTypeOK, Registrable, Growing
<1>3. CASE CreateBackup(p) \/ CopyBackup(p)
  BY <1>3 DEF CreateBackup, CopyBackup, history, models, TypeInv, VoiceTypeOK, Growing, Files,
     Contents
<1>4. CASE BackUp(p) \/ TruncateAudio(p) \/ CopyAudio(p) \/ LookForManifest(p)
           \/ CreateManifest(p) \/ FillManifest(p) \/ LoadBindings(p)
  BY <1>4 DEF BackUp, TruncateAudio, CopyAudio, LookForManifest, CreateManifest, FillManifest,
     LoadBindings, history, models, TypeInv, VoiceTypeOK, Growing
<1> QED
  BY <1>1, <1>2, <1>3, <1>4 DEF Preparing

\* A step that writes the .tmp file of its script and renames it.
Writing(p) == OpenStaging(p) \/ WriteStaging(p) \/ ReplaceFile(p)

\* It moves the script and touches no other file.
LEMMA WritingMoves ==
    ASSUME TypeInv, NEW p \in Procs, Writing(p)
    PROVE  LET f == FileOf(job[p].op) IN
           /\ f \in Files /\ job[p].pc \in Replacing
           /\ job' \in [Procs -> Jobs] /\ fd' \in [Procs -> {"none", "staged", "live", "lost"}]
           /\ \A q \in Procs : q # p => job'[q] = job[q]
           /\ \A q \in Procs : fd'[q] # "none" => job'[q].pc = "write"
           /\ live' \in [Files -> Texts] /\ staged' \in [Files -> Texts]
           /\ \A g \in Files : g # f => live'[g] = live[g] /\ staged'[g] = staged[g]
           /\ live'[f] \in {Empty, Broken} \cup Contents[f]
           /\ staged'[f] \in {Empty, Broken, NoFile} \cup Contents[f]
           /\ UNCHANGED <<tokenVars, backup, audio, models, history>>
<1> DEFINE f == FileOf(job[p].op)
<1>1. /\ job[p] \in Jobs /\ job[p].pc \in Replacing /\ job[p].pc # "idle"
      /\ UNCHANGED <<tokenVars, backup, audio, models, history>>
  BY DEF Writing, OpenStaging, WriteStaging, ReplaceFile, Replacing, TypeInv, VoiceTypeOK
<1>2. f \in Files /\ Draft(p) \in Contents[f] /\ Replacing \subseteq Points(job[p].op)
  BY <1>1, JobIs, DraftIs, KindOfPoint
<1>3. /\ live[f] \in {Empty, Broken} \cup Contents[f]
      /\ staged[f] \in {Empty, Broken, NoFile} \cup Contents[f]
      /\ Contents[f] \subseteq Texts
  BY <1>2 DEF TypeInv, VoiceTypeOK, Contents, Texts, Files
<1> HIDE DEF f
<1>4. CASE OpenStaging(p)
  <2>1. Goes(p, "write") /\ live' = live /\ staged' = [staged EXCEPT ![f] = Empty]
        /\ fd' = [fd EXCEPT ![p] = "staged"]
    BY <1>4 DEF OpenStaging, f
  <2>2. job' \in [Procs -> Jobs] /\ job'[p].pc = "write"
        /\ \A q \in Procs : q # p => job'[q] = job[q]
    BY <1>1, <1>2, <2>1, GoesOn DEF Replacing
  <2> QED
    BY <1>1, <1>2, <1>3, <2>1, <2>2 DEF TypeInv, VoiceTypeOK, Texts, f
<1>5. CASE WriteStaging(p)
  <2>1. /\ Goes(p, "rename") /\ fd' = [fd EXCEPT ![p] = "none"]
        /\ \E c \in Contents[f] \cup {Broken} :
              \/ staged' = [staged EXCEPT ![f] = c] /\ live' = live
              \/ live' = [live EXCEPT ![f] = c] /\ staged' = staged
              \/ UNCHANGED <<live, staged>>
    BY <1>2, <1>5 DEF WriteStaging, Over, f
  <2>2. job' \in [Procs -> Jobs] /\ \A q \in Procs : q # p => job'[q] = job[q]
    BY <1>1, <1>2, <2>1, GoesOn DEF Replacing
  <2>3. /\ fd' \in [Procs -> {"none", "staged", "live", "lost"}]
        /\ \A q \in Procs : fd'[q] # "none" => job'[q].pc = "write"
    BY <2>1, <2>2 DEF TypeInv, VoiceTypeOK
  <2>4. PICK c \in Contents[f] \cup {Broken} :
          \/ staged' = [staged EXCEPT ![f] = c] /\ live' = live
          \/ live' = [live EXCEPT ![f] = c] /\ staged' = staged
          \/ UNCHANGED <<live, staged>>
    BY <2>1
  <2>5. /\ live' \in [Files -> Texts] /\ staged' \in [Files -> Texts]
        /\ \A g \in Files : g # f => live'[g] = live[g] /\ staged'[g] = staged[g]
        /\ live'[f] \in {Empty, Broken} \cup Contents[f]
        /\ staged'[f] \in {Empty, Broken, NoFile} \cup Contents[f]
    BY <1>2, <1>3, <2>4 DEF TypeInv, Texts
  <2> QED
    BY <1>1, <1>2, <2>2, <2>3, <2>5 DEF f
<1>6. CASE ReplaceFile(p) /\ Ends(p) /\ UNCHANGED <<live, staged>>
  BY <1>1, <1>2, <1>3, <1>6, EndsWell DEF TypeInv, f
<1>7. CASE ReplaceFile(p) /\ ~(Ends(p) /\ UNCHANGED <<live, staged>>)
  <2>1. /\ job' = [job EXCEPT ![p] = Idle] /\ staged[f] # NoFile
        /\ live' = [live EXCEPT ![f] = staged[f]] /\ staged' = [staged EXCEPT ![f] = NoFile]
        /\ fd' \in [Procs -> {"none", "staged", "live", "lost"}]
        /\ \A q \in Procs : fd'[q] # "none" => fd[q] # "none"
        /\ fd'[p] = fd[p] /\ job[p].pc # "write"
    BY <1>7 DEF ReplaceFile, TypeInv, VoiceTypeOK, f
  <2>2. job' \in [Procs -> Jobs] /\ \A q \in Procs : q # p => job'[q] = job[q]
    BY <2>1, Begun, OneJobMoves
  <2> QED
    BY <1>1, <1>2, <1>3, <2>1, <2>2 DEF TypeInv, VoiceTypeOK, Texts, f
<1> QED
  BY <1>4, <1>5, <1>6, <1>7 DEF Writing, f

\* Every step keeps the types, and nothing registered or copied goes away.
LEMMA TypesKept ==
    ASSUME TypeInv, [VoiceNext]_allVars
    PROVE  TypeInv' /\ Growing
<1>1. TokenInv'
  BY TokenKept, ScriptsLeaveToken DEF TypeInv
<1>2. ASSUME NEW p \in Procs, Preparing(p) PROVE TypeInv' /\ Growing
  <2>1. \A q \in Procs : fd'[q] # "none" => job'[q].pc = "write"
    BY <1>2, PreparingMoves DEF TypeInv
  <2> QED
    BY <1>1, <1>2, <2>1, PreparingMoves, PreparingTypes DEF TypeInv, VoiceTypeOK, TokenInv
<1>3. ASSUME NEW p \in Procs, Writing(p) PROVE TypeInv' /\ Growing
  BY <1>1, <1>3, WritingMoves DEF TypeInv, VoiceTypeOK, TokenInv, Growing, models, history
<1>4. ASSUME NEW p \in Procs, Dies(p) PROVE TypeInv' /\ Growing
  BY <1>1, <1>4, EndsWell DEF Dies, TypeInv, VoiceTypeOK, TokenInv, Growing, models, history
<1>5. CASE UNCHANGED voiceVars
  BY <1>1, <1>5 DEF TypeInv, VoiceTypeOK, TokenInv, Growing, voiceVars, models, history
<1>6. CASE DefaultChanges
  BY <1>1, <1>6 DEF DefaultChanges, TypeInv, VoiceTypeOK, TokenInv, Growing, history, Registrable
<1> QED
  BY <1>2, <1>3, <1>4, <1>5, <1>6 DEF VoiceNext, allVars, Script, Preparing, Writing

\* The initial states are typed.
LEMMA TypesStart == VoiceInit => TypeInv
<1> SUFFICES ASSUME VoiceInit PROVE TypeInv
  OBVIOUS
<1>1. PICK b \in SUBSET HandBindings :
        live = [profile |-> [managed |-> {}, refs |-> {}], bindings |-> b]
  BY DEF VoiceInit
<1>2. [managed |-> {}, refs |-> {}] \in Profiles /\ b \in BindingSets
  BY DEF Profiles, BindingSets
<1>3. live \in [Files -> Texts] /\ \A f \in Files : live[f] \in Contents[f]
  BY <1>1, <1>2 DEF Files, Texts, Contents
<1>4. staged \in [Files -> Texts] /\ \A f \in Files : staged[f] = NoFile
  BY DEF VoiceInit, Texts
<1>5. job \in [Procs -> Jobs] /\ fd \in [Procs -> {"none", "staged", "live", "lost"}]
      /\ \A p \in Procs : fd[p] = "none"
  BY Begun DEF VoiceInit
<1>6. TokenInv /\ TokenTypeOK
  BY TokenStarts DEF TokenInv
<1>7. /\ backup \in Profiles \cup {Empty, Broken, NoFile}
      /\ audio \in [Refs -> {"none", "torn", "whole"}]
      /\ manifest \in {"none", "torn", "whole"}
      /\ registered \in SUBSET Registrable
      /\ default \in {Imported[m] : m \in Legacy} \cup {NoFile}
      /\ started \in 0..MaxScripts /\ overlapped \in SUBSET Files
  BY DEF VoiceInit
<1> QED
  BY <1>3, <1>4, <1>5, <1>6, <1>7 DEF TypeInv, VoiceTypeOK

\* Every variable keeps its type.
THEOREM VoiceTyped == VoiceSpec => []VoiceTypeOK
<1>1. TypeInv => VoiceTypeOK
  BY DEF TypeInv
<1> QED
  BY <1>1, TypesStart, TypesKept, PTL DEF VoiceSpec

-----------------------------------------------------------------------------
(* What the files name, and scripts that run one at a time.                *)

\* What a profile names is there, and it is converted as a whole or not at all.
Named(c) ==
    /\ c.managed \in {{}, Legacy}
    /\ \A m \in c.managed : Imported[m] \in registered
    /\ \A r \in c.refs : audio[r] # "none"

AllRegistered == \A m \in Legacy : Imported[m] \in registered

\* What a script holds: the profile it read, and what it will add to it.
Adds(j) ==
    /\ j.op # "bind" => Named(j.read)
    /\ j.op = "migrate" => j.read.managed # Legacy /\ (j.pc # "weights" => AllRegistered)
    /\ j.op = "import" =>
          \A r \in Refs : j.pc \in Replacing \/ r \notin j.left => audio[r] # "none"

\* So it is with every profile on disk and in a script; a script that will add
\* to it has put there what it will name.
NamesInv ==
    /\ \A c \in {live["profile"], staged["profile"]} : c \in Profiles => Named(c)
    /\ \A p \in Procs : job[p].pc # "idle" => Adds(job[p])

OnFile(p, f) == job[p].pc # "idle" /\ FileOf(job[p].op) = f
HasRead(p) == job[p].op # "bind" \/ job[p].pc \in Replacing

\* One script at a time drafts what is there and renames what it wrote.
SerialInv ==
    \A f \in Files \ overlapped :
        /\ Readable(f)
        /\ \A p \in Procs : OnFile(p, f) =>
              /\ \A q \in Procs : OnFile(q, f) => q = p
              /\ HasRead(p) => job[p].read = live[f]
              /\ job[p].pc = "write" => fd[p] = "staged" /\ staged[f] = Empty
              /\ job[p].pc = "rename" => staged[f] = Draft(p)

BackupInv == "profile" \notin overlapped /\ backup \in Profiles => backup.managed = {}

\* One binding script at a time binds a model it has seen registered.
BindInv ==
    "bindings" \notin overlapped =>
        /\ \A c \in {live["bindings"], staged["bindings"]} :
              c \in BindingSets /\ SharedBinding \in c => Shared \in registered
        /\ \A p \in Procs : OnFile(p, "bindings") =>
              /\ job[p].pc = "scan" => manifest = "whole"
              /\ job[p].pc \in {"load"} \cup Replacing => Shared \in registered

FilesInv == TypeInv /\ NamesInv /\ SerialInv /\ BackupInv /\ BindInv

\* A binding script that goes on has read the bindings.
LEMMA LoadGoes ==
    ASSUME TypeInv, NEW p \in Procs, LoadBindings(p), job'[p].pc # "idle"
    PROVE  /\ job[p].pc = "load" /\ job[p].op = "bind" /\ UNCHANGED overlapped
           /\ job'[p] = Job("bind", "open", live["bindings"]) /\ Readable("bindings")
  BY EndsWell DEF LoadBindings, At, history, TypeInv, VoiceTypeOK

\* Where a preparing script that goes on is afterwards.
LEMMA PreparingGoes ==
    ASSUME TypeInv, NEW p \in Procs, Preparing(p), job'[p].pc # "idle",
           ~(Migrate(p) \/ ImportPack(p) \/ Bind(p))
    PROVE  /\ job[p].pc # "idle" /\ job'[p].op = job[p].op
           /\ job'[p].pc \notin {"write", "rename"}
           /\ ~LoadBindings(p) => job'[p].read = job[p].read
           /\ UNCHANGED overlapped
           /\ \/ ImportWeights(p) /\ job[p].op = "migrate" /\ job'[p].pc = "backup"
                 /\ registered' =
                       registered \cup {Imported[m] : m \in Legacy \ job[p].read.managed}
              \/ (BackUp(p) \/ CreateBackup(p) \/ CopyBackup(p)) /\ job[p].op = "migrate"
                 /\ job[p].pc # "weights"
              \/ TruncateAudio(p) /\ job[p].op = "import" /\ job'[p].left = job[p].left
                 /\ job[p].pc \notin Replacing
                 /\ (job'[p].pc \in Replacing => job[p].left = {})
              \/ CopyAudio(p) /\ job[p].op = "import" /\ job'[p].left = job[p].left \ {Wav(p)}
                 /\ audio' = [audio EXCEPT ![Wav(p)] = "whole"] /\ job'[p].pc = "audio"
                 /\ job[p].pc = "wav"
              \/ LookForManifest(p) /\ job[p].op = "bind"
                 /\ job'[p].pc \in {"manifest", "scan"} /\ manifest' = manifest
                 /\ (job'[p].pc = "scan" => manifest = "whole")
              \/ CreateManifest(p) /\ job[p].op = "bind" /\ job'[p].pc = "fill"
              \/ FillManifest(p) /\ job[p].op = "bind" /\ job'[p].pc = "scan"
                 /\ manifest' = "whole"
              \/ Scan(p) /\ job[p].op = "bind" /\ job'[p].pc = "load" /\ job[p].pc = "scan"
                 /\ (manifest = "whole" => Shared \in registered')
              \/ LoadBindings(p) /\ job[p].op = "bind" /\ job'[p].pc = "open"
                 /\ job[p].pc = "load" /\ job'[p].read = live["bindings"] /\ Readable("bindings")
<1>1. job[p] \in Jobs /\ ~Ends(p)
  BY EndsWell DEF TypeInv, VoiceTypeOK
<1>2. CASE ImportWeights(p)
  <2>1. Goes(p, "backup") /\ job[p].pc = "weights" /\ job[p].op = "migrate"
    BY <1>1, <1>2 DEF ImportWeights, At
  <2> QED
    BY <1>1, <1>2, <2>1, GoesOn, KindOfPoint DEF ImportWeights, history
<1>3. CASE BackUp(p) \/ CreateBackup(p) \/ CopyBackup(p)
  <2>1. PICK s \in {"create", "copy", "open"} : Goes(p, s)
    BY <1>3 DEF BackUp, CreateBackup, CopyBackup
  <2>2. job[p].pc \in {"backup", "create", "copy"} /\ job[p].op = "migrate"
        /\ UNCHANGED overlapped
    BY <1>3 DEF BackUp, CreateBackup, CopyBackup, At, history
  <2>3. s \in Points(job[p].op)
    BY <2>2, KindOfPoint DEF Replacing
  <2>4. job'[p].pc = s /\ job'[p].op = job[p].op /\ job'[p].read = job[p].read
    BY <2>1, <2>2, <2>3, GoesOn
  <2> QED
    BY <1>3, <2>2, <2>4
<1>4. CASE TruncateAudio(p)
  <2>1. PICK s \in {"wav", "open"} : Goes(p, s) /\ (s = "open" => job[p].left = {})
    BY <1>4 DEF TruncateAudio
  <2>2. job[p].pc = "audio" /\ job[p].op = "import" /\ UNCHANGED overlapped
    BY <1>4 DEF TruncateAudio, At, history
  <2>3. s \in Points(job[p].op)
    BY <2>2, KindOfPoint DEF Replacing
  <2>4. job'[p].pc = s /\ job'[p].op = job[p].op /\ job'[p].read = job[p].read
        /\ job'[p].left = job[p].left
    BY <2>1, <2>2, <2>3, GoesOn
  <2> QED
    BY <1>4, <2>1, <2>2, <2>4 DEF Replacing
<1>5. CASE CopyAudio(p)
  <2>1. job[p].pc = "wav" /\ job[p].op = "import" /\ UNCHANGED overlapped
        /\ job'[p] = Importing(job[p].read, job[p].left \ {Wav(p)})
        /\ audio' = [audio EXCEPT ![Wav(p)] = "whole"]
    BY <1>5 DEF CopyAudio, At, history, TypeInv, VoiceTypeOK
  <2> QED
    BY <1>5, <2>1 DEF Importing
<1>6. CASE LookForManifest(p)
  <2>1. PICK s \in {"manifest", "scan"} : Goes(p, s) /\ (s = "scan" => manifest = "whole")
    BY <1>1, <1>6 DEF LookForManifest
  <2>2. job[p].pc = "look" /\ job[p].op = "bind" /\ UNCHANGED <<overlapped, manifest>>
    BY <1>6 DEF LookForManifest, At, history, models
  <2>3. s \in Points(job[p].op)
    BY <2>2, KindOfPoint
  <2>4. job'[p].pc = s /\ job'[p].op = job[p].op /\ job'[p].read = job[p].read
    BY <2>1, <2>2, <2>3, GoesOn
  <2> QED
    BY <1>6, <2>1, <2>2, <2>4
<1>7. CASE CreateManifest(p) \/ FillManifest(p) \/ Scan(p)
  <2>1. PICK s \in {"fill", "scan", "load"} :
          /\ Goes(p, s)
          /\ s = "fill" => CreateManifest(p)
          /\ s = "scan" => FillManifest(p)
          /\ s = "load" => Scan(p)
    BY <1>7 DEF CreateManifest, FillManifest, Scan
  <2>2. job[p].pc \in {"manifest", "fill", "scan"} /\ job[p].op = "bind"
        /\ (s = "load" => job[p].pc = "scan") /\ UNCHANGED overlapped
    BY <1>7, <2>1 DEF CreateManifest, FillManifest, Scan, At, history
  <2>3. s \in Points(job[p].op)
    BY <2>2, KindOfPoint
  <2>4. job'[p].pc = s /\ job'[p].op = job[p].op /\ job'[p].read = job[p].read
    BY <2>1, <2>2, <2>3, GoesOn
  <2> QED
    BY <2>1, <2>2, <2>4 DEF FillManifest, Scan
<1>8. CASE LoadBindings(p)
  BY <1>8, LoadGoes DEF Job
<1> QED
  BY <1>2, <1>3, <1>4, <1>5, <1>6, <1>7, <1>8 DEF Preparing

\* What is there stays there.
LEMMA NamedStays ==
    ASSUME TypeInv, Growing, NEW c \in Profiles, Named(c)
    PROVE  Named(c)'
  BY DEF Named, Growing, Profiles

\* What a script holds, and what it has put in place, stays.
LEMMA AddsStays ==
    ASSUME FilesInv, Growing, NEW j \in Jobs, j.pc # "idle", Adds(j)
    PROVE  Adds(j)'
<1>1. j.op # "bind" => j.read \in Profiles
  BY JobIs
<1>2. j.op # "bind" => Named(j.read)'
  BY <1>1, NamedStays DEF Adds, FilesInv
<1>3. AllRegistered => AllRegistered'
  BY DEF AllRegistered, Growing
<1>4. \A r \in Refs : audio[r] # "none" => audio'[r] # "none"
  BY DEF Growing
<1>5. j.op = "import" =>
         \A r \in Refs : j.pc \in Replacing \/ r \notin j.left => audio'[r] # "none"
  BY <1>4 DEF Adds
<1>6. j.op = "migrate" => j.read.managed # Legacy /\ (j.pc # "weights" => AllRegistered')
  BY <1>3 DEF Adds
<1> QED
  BY <1>2, <1>5, <1>6 DEF Adds

\* Preparing a draft keeps what is named in place.
LEMMA PreparingNames ==
    ASSUME FilesInv, NEW p \in Procs, Preparing(p)
    PROVE  NamesInv'
<1>1. TypeInv /\ Growing /\ UNCHANGED <<live, staged>> /\ job' \in [Procs -> Jobs]
      /\ \A q \in Procs : job[q] \in Jobs /\ (q # p => job'[q] = job[q])
  BY PreparingMoves, PreparingTypes DEF FilesInv, TypeInv, VoiceTypeOK
<1>2. \A c \in {live["profile"], staged["profile"]} : c \in Profiles => Named(c)'
  BY <1>1, NamedStays DEF FilesInv, NamesInv
<1>3. ASSUME NEW k, k = job'[p], k.pc # "idle"
      PROVE  Adds(k)'
  <2>1. CASE Bind(p) /\ k = Job("bind", "look", {})
    BY <2>1 DEF Adds, Job
  <2>2. CASE (Migrate(p) \/ ImportPack(p)) /\ ~(Bind(p) /\ k = Job("bind", "look", {}))
    <3>1. /\ live["profile"] \in Profiles
          /\ \/ Migrate(p) /\ k = Job("migrate", "weights", live["profile"])
             \/ ImportPack(p) /\ k = Importing(live["profile"], Refs)
      BY <1>1, <1>3, <2>2, BeginTyped
    <3>2. Named(live["profile"])
      BY <3>1 DEF FilesInv, NamesInv
    <3>3. k.read = live["profile"] /\ Named(k.read)'
      BY <1>1, <3>1, <3>2, NamedStays DEF Job, Importing
    <3> QED
      BY <3>1, <3>3 DEF Migrate, Job, Importing, Adds, Replacing
  <2>3. CASE ~(Migrate(p) \/ ImportPack(p) \/ Bind(p))
    <3>0. PICK j \in Jobs : j = job[p]
      BY <1>1
    <3>1. /\ j \in Jobs /\ j.pc # "idle" /\ k.op = j.op
          /\ ~LoadBindings(p) => k.read = j.read
          /\ LoadBindings(p) => k.op = "bind"
      BY <1>1, <1>3, <2>3, <3>0, PreparingGoes DEF LoadBindings, At
    <3>2. Adds(j) /\ Adds(j)'
      BY <3>0, <3>1, <1>1, AddsStays DEF FilesInv, NamesInv
    <3>3. CASE k.op = "bind"
      BY <3>3 DEF Adds
    <3>4. CASE k.op = "migrate"
      <4>1. AllRegistered'
        <5>1. CASE ImportWeights(p)
          BY <1>1, <1>3, <2>3, <3>0, <3>1, <3>2, <3>4, <5>1, PreparingGoes
          DEF Adds, Named, AllRegistered, Growing, ImportWeights
        <5>2. CASE ~ImportWeights(p)
          <6>1. j.pc # "weights"
            BY <1>3, <2>3, <3>0, <3>1, <3>4, <5>2, PreparingGoes DEF FilesInv
          <6> QED
            BY <3>1, <3>2, <3>4, <6>1 DEF Adds
        <5> QED
          BY <5>1, <5>2
      <4>2. k.read = j.read
        BY <3>1, <3>4
      <4> QED
        BY <3>1, <3>2, <3>4, <4>1, <4>2 DEF Adds
    <3>5. CASE k.op = "import"
      <4>1. ASSUME NEW r \in Refs, k.pc \in Replacing \/ r \notin k.left
            PROVE  audio'[r] # "none"
        <5>1. CASE TruncateAudio(p)
          BY <1>1, <1>3, <2>3, <3>0, <3>1, <3>2, <3>5, <4>1, <5>1, PreparingGoes
          DEF Adds, TruncateAudio, At
        <5>2. CASE CopyAudio(p)
          BY <1>1, <1>3, <2>3, <3>0, <3>1, <3>2, <3>5, <4>1, <5>2, PreparingGoes
          DEF Adds, Replacing, TypeInv, VoiceTypeOK
        <5> QED
          BY <1>1, <1>3, <2>3, <3>0, <3>1, <3>5, <5>1, <5>2, PreparingGoes
      <4>2. k.read = j.read
        BY <3>1, <3>5
      <4> QED
        BY <3>1, <3>2, <3>5, <4>1, <4>2 DEF Adds
    <3> QED
      BY <3>1, <3>3, <3>4, <3>5, JobIs
  <2> QED
    BY <1>1, <1>3, <2>1, <2>2, <2>3, BeginTyped
<1>4. ASSUME NEW q \in Procs, job'[q].pc # "idle"
      PROVE  Adds(job[q])'
  <2>1. CASE q = p
    BY <1>3, <1>4, <2>1
  <2>2. CASE q # p
    BY <1>1, <1>4, <2>2, AddsStays DEF FilesInv, NamesInv
  <2> QED
    BY <2>1, <2>2
<1>5. \A c \in {live'["profile"], staged'["profile"]} : c \in Profiles => Named(c)'
  BY <1>1, <1>2
<1> QED
  BY <1>4, <1>5 DEF NamesInv, Named

\* A file only two scripts have not worked on so far can become overlapped; if
\* it does not, a script that starts finds nobody at work.
LEMMA OverlapGrows ==
    ASSUME TypeInv, NEW p \in Procs, Preparing(p)
    PROVE  /\ overlapped \subseteq overlapped'
           /\ job[p].pc = "idle" =>
                 \A f \in Files \ overlapped', q \in Procs :
                    (OnFile(p, f))' => ~OnFile(q, f)
<1>1. CASE Migrate(p) \/ ImportPack(p) \/ Bind(p)
  <2>1. PICK k : /\ Begins(p, k)
                 /\ \/ k = Job("migrate", "weights", live["profile"])
                    \/ k = Importing(live["profile"], Refs)
                    \/ k = Job("bind", "look", {})
    BY <1>1 DEF Migrate, ImportPack, Bind
  <2>2. /\ job'[p] = k
        /\ overlapped' =
              IF \E q \in Procs : job[q].pc # "idle" /\ FileOf(job[q].op) = FileOf(k.op)
              THEN overlapped \cup {FileOf(k.op)} ELSE overlapped
    BY <2>1 DEF Begins, TypeInv, VoiceTypeOK
  <2> QED
    BY <2>2 DEF OnFile
<1>2. CASE ~(Migrate(p) \/ ImportPack(p) \/ Bind(p))
  <2>1. UNCHANGED overlapped
    BY <1>2 DEF Preparing, ImportWeights, BackUp, CreateBackup, CopyBackup, TruncateAudio,
       CopyAudio, LookForManifest, CreateManifest, FillManifest, Scan, LoadBindings, history
  <2>2. job[p].pc # "idle"
    BY <1>2 DEF Preparing, ImportWeights, BackUp, CreateBackup, CopyBackup, TruncateAudio,
       CopyAudio, LookForManifest, CreateManifest, FillManifest, Scan, LoadBindings, At
  <2> QED
    BY <2>1, <2>2
<1> QED
  BY <1>1, <1>2

\* Preparing a draft keeps the discipline of scripts that run one at a time.
LEMMA PreparingSerial ==
    ASSUME FilesInv, NEW p \in Procs, Preparing(p)
    PROVE  SerialInv'
<1>1. TypeInv /\ UNCHANGED <<live, staged>>
      /\ \A q \in Procs : q # p => job'[q] = job[q] /\ fd'[q] = fd[q]
  BY PreparingMoves DEF FilesInv
<1>2. overlapped \subseteq overlapped'
  BY <1>1, OverlapGrows
<1> SUFFICES ASSUME NEW f \in Files, f \notin overlapped'
             PROVE  /\ Readable(f)'
                    /\ \A q \in Procs : OnFile(q, f)' =>
                         /\ \A o \in Procs : OnFile(o, f)' => o = q
                         /\ HasRead(q)' => job'[q].read = live'[f]
                         /\ job'[q].pc = "write" => fd'[q] = "staged" /\ staged'[f] = Empty
                         /\ job'[q].pc = "rename" => staged'[f] = Draft(q)'
  BY DEF SerialInv
<1>3. /\ Readable(f)
      /\ \A q \in Procs : OnFile(q, f) =>
           /\ \A o \in Procs : OnFile(o, f) => o = q
           /\ HasRead(q) => job[q].read = live[f]
           /\ job[q].pc = "write" => fd[q] = "staged" /\ staged[f] = Empty
           /\ job[q].pc = "rename" => staged[f] = Draft(q)
  BY <1>2 DEF SerialInv, FilesInv
<1>4. Readable(f)'
  BY <1>1, <1>3 DEF Readable
<1>5. CASE ~OnFile(p, f)'
  <2>1. ASSUME NEW q \in Procs, OnFile(q, f)'
        PROVE  /\ job'[q] = job[q] /\ fd'[q] = fd[q] /\ OnFile(q, f)
               /\ Draft(q)' = Draft(q)
    BY <1>1, <1>5, <2>1 DEF OnFile, Draft
  <2> QED
    BY <1>1, <1>3, <1>4, <2>1 DEF HasRead
<1>6. CASE OnFile(p, f)' /\ (Migrate(p) \/ ImportPack(p) \/ Bind(p))
  <2>1. \A q \in Procs : q # p => ~OnFile(q, f)'
    BY <1>1, <1>6, BeginTyped, OverlapGrows DEF OnFile
  <2>2. job'[p].pc \notin Replacing /\ (job'[p].op # "bind" => job'[p].read = live["profile"])
    BY <1>1, <1>6, BeginTyped DEF Job, Importing, Replacing
  <2>3. job'[p].op # "bind" => f = "profile"
    BY <1>6 DEF OnFile, FileOf
  <2> QED
    BY <1>1, <1>4, <1>6, <2>1, <2>2, <2>3 DEF HasRead, Replacing
<1>7. CASE OnFile(p, f)' /\ ~(Migrate(p) \/ ImportPack(p) \/ Bind(p))
  <2>1. /\ OnFile(p, f)
        /\ job'[p].pc \notin {"write", "rename"}
        /\ ~LoadBindings(p) => job'[p].read = job[p].read
    BY <1>1, <1>7, PreparingGoes DEF OnFile
  <2>2. \A q \in Procs : q # p => ~OnFile(q, f)'
    BY <1>1, <1>3, <2>1 DEF OnFile
  <2>3. HasRead(p)' => job'[p].read = live'[f]
    <3>1. CASE LoadBindings(p)
      <4>1. job'[p].op = "bind" /\ job'[p].read = live["bindings"]
        BY <1>1, <1>7, <3>1, LoadGoes DEF OnFile, Job
      <4> QED
        BY <1>1, <1>7, <4>1 DEF OnFile, FileOf
    <3>2. CASE ~LoadBindings(p)
      <4>1. HasRead(p)' => HasRead(p)
        BY <1>1, <1>7, <3>2, PreparingGoes DEF OnFile, HasRead, Replacing
      <4> QED
        BY <1>1, <1>3, <2>1, <3>2, <4>1
    <3> QED
      BY <3>1, <3>2
  <2> QED
    BY <1>1, <1>4, <2>1, <2>2, <2>3
<1> QED
  BY <1>5, <1>6, <1>7

\* Preparing a draft keeps the backup and the binding in order.
LEMMA PreparingOrder ==
    ASSUME FilesInv, NEW p \in Procs, Preparing(p)
    PROVE  BackupInv' /\ BindInv'
<1>1. /\ TypeInv /\ Growing /\ UNCHANGED <<live, staged>>
      /\ \A q \in Procs : q # p => job'[q] = job[q]
      /\ overlapped \subseteq overlapped'
  BY PreparingMoves, PreparingTypes, OverlapGrows DEF FilesInv
<1>2. BackupInv'
  <2>1. CASE CopyBackup(p)
    <3>1. SUFFICES ASSUME "profile" \notin overlapped', backup' \in Profiles
                   PROVE  backup'.managed = {}
      BY DEF BackupInv
    <3>2. /\ job[p].op = "migrate" /\ job[p].pc = "copy" /\ backup' = live["profile"]
          /\ OnFile(p, "profile") /\ HasRead(p)
      BY <2>1 DEF CopyBackup, At, OnFile, FileOf, HasRead
    <3>3. job[p].read = live["profile"]
      BY <1>1, <3>1, <3>2 DEF FilesInv, SerialInv, Files
    <3>4. job[p].read.managed # Legacy
      BY <3>2 DEF FilesInv, NamesInv, Adds
    <3>5. Named(live["profile"])
      BY <3>1, <3>2 DEF FilesInv, NamesInv
    <3> QED
      BY <3>2, <3>3, <3>4, <3>5 DEF Named
  <2>2. CASE CreateBackup(p)
    BY <2>2 DEF CreateBackup, BackupInv
  <2>3. CASE ~CopyBackup(p) /\ ~CreateBackup(p)
    <3>1. UNCHANGED backup
      BY <2>3 DEF Preparing, Migrate, ImportPack, Bind, ImportWeights, BackUp, TruncateAudio,
         CopyAudio, LookForManifest, CreateManifest, FillManifest, Scan, LoadBindings
    <3> QED
      BY <1>1, <3>1 DEF FilesInv, BackupInv
  <2> QED
    BY <2>1, <2>2, <2>3
<1>3. BindInv'
  <2> SUFFICES ASSUME "bindings" \notin overlapped'
               PROVE  /\ \A c \in {live["bindings"], staged["bindings"]} :
                            c \in BindingSets /\ SharedBinding \in c => Shared \in registered'
                      /\ \A q \in Procs : OnFile(q, "bindings")' =>
                           /\ job'[q].pc = "scan" => manifest' = "whole"
                           /\ job'[q].pc \in {"load"} \cup Replacing => Shared \in registered'
    BY <1>1 DEF BindInv
  <2>1. /\ \A c \in {live["bindings"], staged["bindings"]} :
              c \in BindingSets /\ SharedBinding \in c => Shared \in registered'
        /\ \A q \in Procs : OnFile(q, "bindings") =>
              /\ job[q].pc = "scan" => manifest = "whole"
              /\ job[q].pc \in {"load"} \cup Replacing => Shared \in registered'
        /\ \A q, o \in Procs : OnFile(q, "bindings") /\ OnFile(o, "bindings") => o = q
    BY <1>1 DEF FilesInv, BindInv, SerialInv, Files, Growing
  <2>2. ASSUME NEW q \in Procs, q # p, OnFile(q, "bindings")'
        PROVE  /\ job'[q].pc = "scan" => manifest' = "whole"
               /\ job'[q].pc \in {"load"} \cup Replacing => Shared \in registered'
    <3>1. OnFile(q, "bindings") /\ job'[q] = job[q]
      BY <1>1, <2>2 DEF OnFile
    <3>2. manifest' = manifest \/ OnFile(p, "bindings")
      BY DEF Preparing, Migrate, ImportPack, Bind, ImportWeights, BackUp, CreateBackup,
         CopyBackup, TruncateAudio, CopyAudio, LookForManifest, CreateManifest, FillManifest,
         Scan, LoadBindings, models, At, OnFile, FileOf
    <3> QED
      BY <2>1, <2>2, <3>1, <3>2
  <2>3. ASSUME OnFile(p, "bindings")'
        PROVE  /\ job'[p].pc = "scan" => manifest' = "whole"
               /\ job'[p].pc \in {"load"} \cup Replacing => Shared \in registered'
    <3>1. CASE Migrate(p) \/ ImportPack(p) \/ Bind(p)
      BY <1>1, <3>1, BeginTyped DEF Job, Importing, Replacing
    <3>2. CASE ~(Migrate(p) \/ ImportPack(p) \/ Bind(p))
      <4>1. /\ job'[p].pc # "idle" /\ job[p].pc # "idle" /\ job[p].op = "bind"
            /\ OnFile(p, "bindings")
        BY <1>1, <2>3, <3>2, PreparingGoes, JobIs
        DEF OnFile, FileOf, TypeInv, VoiceTypeOK
      <4>2. CASE LoadBindings(p)
        BY <1>1, <2>1, <4>1, <4>2, LoadGoes DEF Job, Replacing
      <4>3. CASE ~LoadBindings(p)
        BY <1>1, <2>1, <3>2, <4>1, <4>3, PreparingGoes DEF Replacing
      <4> QED
        BY <4>2, <4>3
    <3> QED
      BY <3>1, <3>2
  <2> QED
    BY <2>1, <2>2, <2>3
<1> QED
  BY <1>2, <1>3

\* What a script is about to write names what is there.
LEMMA DraftNamed ==
    ASSUME FilesInv, NEW p \in Procs, job[p].pc \in Replacing, job[p].op # "bind"
    PROVE  Named(Draft(p))
<1>1. /\ job[p] \in Jobs /\ job[p].pc # "idle" /\ job[p].pc # "weights"
      /\ job[p].op \in {"migrate", "import"} /\ Adds(job[p])
  BY JobIs DEF Replacing, FilesInv, TypeInv, VoiceTypeOK, NamesInv
<1>2. job[p].read \in Profiles /\ Named(job[p].read)
  BY <1>1, JobIs DEF Adds
<1>3. CASE job[p].op = "migrate"
  BY <1>1, <1>2, <1>3, DraftIs DEF Adds, Named, AllRegistered
<1>4. CASE job[p].op = "import"
  BY <1>1, <1>2, <1>4, DraftIs DEF Adds, Named, Profiles
<1> QED
  BY <1>1, <1>3, <1>4

\* What a writing step does, to its job and to its file f.
LEMMA WritingGoes ==
    ASSUME TypeInv, NEW p \in Procs, Writing(p), NEW f, f = FileOf(job[p].op)
    PROVE  \/ /\ OpenStaging(p) /\ job[p].pc = "open" /\ job'[p].pc = "write"
              /\ job'[p].op = job[p].op /\ job'[p].read = job[p].read
              /\ fd'[p] = "staged" /\ \A q \in Procs : q # p => fd'[q] = fd[q]
              /\ live' = live /\ staged'[f] = Empty
           \/ /\ WriteStaging(p) /\ job[p].pc = "write" /\ job'[p].pc = "rename"
              /\ job'[p].op = job[p].op /\ job'[p].read = job[p].read
              /\ \A q \in Procs : q # p => fd'[q] = fd[q]
              /\ live'[f] \in {live[f], Draft(p), Broken}
              /\ staged'[f] \in {staged[f], Draft(p), Broken}
              /\ fd[p] = "staged" =>
                    live' = live /\ (staged[f] = Empty => staged'[f] = Draft(p))
           \/ /\ ReplaceFile(p) /\ job[p].pc = "rename" /\ job'[p].pc = "idle"
              /\ \/ live' = live /\ staged' = staged
                 \/ live'[f] = staged[f] /\ staged[f] # NoFile /\ staged'[f] = NoFile
              /\ \A q \in Procs :
                    q # p /\ (job[q].pc = "idle" \/ FileOf(job[q].op) # f) => fd'[q] = fd[q]
<1>1. /\ f \in Files /\ job[p].pc \in Replacing /\ job[p].pc # "idle"
      /\ Replacing \subseteq Points(job[p].op)
  BY WritingMoves, KindOfPoint DEF Replacing
<1>2. CASE OpenStaging(p)
  <2>1. Goes(p, "write") /\ live' = live /\ staged' = [staged EXCEPT ![f] = Empty]
        /\ fd' = [fd EXCEPT ![p] = "staged"] /\ job[p].pc = "open"
    BY <1>2 DEF OpenStaging
  <2>2. job'[p].pc = "write" /\ job'[p].op = job[p].op /\ job'[p].read = job[p].read
    BY <1>1, <2>1, GoesOn DEF Replacing
  <2> QED
    BY <1>1, <1>2, <2>1, <2>2 DEF TypeInv, VoiceTypeOK
<1>3. CASE WriteStaging(p)
  <2>1. Goes(p, "rename") /\ fd' = [fd EXCEPT ![p] = "none"] /\ job[p].pc = "write"
    BY <1>3 DEF WriteStaging
  <2>2. job'[p].pc = "rename" /\ job'[p].op = job[p].op /\ job'[p].read = job[p].read
    BY <1>1, <2>1, GoesOn DEF Replacing
  <2>3. \/ /\ fd[p] = "staged" /\ live' = live
           /\ \E c \in Over(staged[f], Draft(p)) : staged' = [staged EXCEPT ![f] = c]
        \/ /\ fd[p] = "live" /\ staged' = staged
           /\ \E c \in Over(live[f], Draft(p)) : live' = [live EXCEPT ![f] = c]
        \/ fd[p] = "lost" /\ UNCHANGED <<live, staged>>
    BY <1>3 DEF WriteStaging
  <2>4. /\ live'[f] \in {live[f], Draft(p), Broken}
        /\ staged'[f] \in {staged[f], Draft(p), Broken}
        /\ fd[p] = "staged" =>
              live' = live /\ (staged[f] = Empty => staged'[f] = Draft(p))
    BY <1>1, <2>3 DEF Over, TypeInv
  <2> QED
    BY <1>3, <2>1, <2>2, <2>4 DEF TypeInv, VoiceTypeOK
<1>4. CASE ReplaceFile(p)
  <2>1. CASE Ends(p) /\ UNCHANGED <<live, staged>>
    BY <1>4, <2>1, EndsWell DEF ReplaceFile
  <2>2. CASE ~(Ends(p) /\ UNCHANGED <<live, staged>>)
    <3>1. /\ job' = [job EXCEPT ![p] = Idle] /\ staged[f] # NoFile /\ job[p].pc = "rename"
          /\ live' = [live EXCEPT ![f] = staged[f]] /\ staged' = [staged EXCEPT ![f] = NoFile]
          /\ fd' = [q \in Procs |->
                      IF q # p /\ fd[q] # "none" /\ FileOf(job[q].op) = f
                      THEN IF fd[q] = "staged" THEN "live" ELSE "lost"
                      ELSE fd[q]]
      BY <1>4, <2>2 DEF ReplaceFile
    <3>2. job'[p].pc = "idle"
      BY <3>1, Begun, OneJobMoves
    <3>3. ASSUME NEW q \in Procs, job[q].pc = "idle" \/ FileOf(job[q].op) # f
          PROVE  fd'[q] = fd[q]
      <4>1. fd[q] = "none" \/ FileOf(job[q].op) # f
        BY <3>3 DEF TypeInv
      <4> QED
        BY <3>1, <4>1
    <3> QED
      BY <1>1, <1>4, <3>1, <3>2, <3>3 DEF TypeInv
  <2> QED
    BY <2>1, <2>2
<1> QED
  BY <1>2, <1>3, <1>4 DEF Writing

\* Writing a file keeps what is named in place.
LEMMA WritingNames ==
    ASSUME FilesInv, NEW p \in Procs, Writing(p)
    PROVE  NamesInv'
<1> DEFINE f == FileOf(job[p].op)
<1>1. /\ TypeInv /\ f \in Files /\ job[p].pc \in Replacing /\ job[p] \in Jobs
      /\ \A q \in Procs : q # p => job'[q] = job[q]
      /\ UNCHANGED <<audio, registered>>
      /\ \A g \in Files : g # f => live'[g] = live[g] /\ staged'[g] = staged[g]
  BY WritingMoves DEF FilesInv, TypeInv, VoiceTypeOK, models
<1>2. \A c : Named(c)' <=> Named(c)
  BY <1>1 DEF Named
<1>3. ASSUME NEW c \in Profiles, c \in {live'["profile"], staged'["profile"]}
      PROVE  Named(c)'
  <2>1. CASE f # "profile"
    BY <1>1, <1>2, <1>3, <2>1 DEF Files, FilesInv, NamesInv
  <2>2. CASE f = "profile"
    <3>1. job[p].op # "bind"
      BY <2>2 DEF FileOf
    <3>2. c \in {live["profile"], staged["profile"], Draft(p)}
      BY <1>1, <1>3, <2>2, WritingGoes
    <3> QED
      BY <1>1, <1>2, <1>3, <3>1, <3>2, DraftNamed DEF FilesInv, NamesInv
  <2> QED
    BY <2>1, <2>2
<1>4. ASSUME NEW q \in Procs, job'[q].pc # "idle"
      PROVE  Adds(job[q])'
  <2>1. CASE q # p
    BY <1>1, <1>4, <2>1 DEF FilesInv, NamesInv, Adds, Named, AllRegistered
  <2>2. CASE q = p
    <3>1. /\ job[p].pc # "idle" /\ job'[p].op = job[p].op /\ job'[p].read = job[p].read
          /\ job[p].pc \in Replacing /\ job'[p].pc \in Replacing
      BY <1>1, <1>4, <2>2, WritingGoes DEF Replacing
    <3>2. Adds(job[p])
      BY <3>1 DEF FilesInv, NamesInv
    <3> QED
      BY <1>1, <2>2, <3>1, <3>2 DEF Adds, Named, AllRegistered, Replacing
  <2> QED
    BY <2>1, <2>2
<1>5. \A c \in {live'["profile"], staged'["profile"]} : c \in Profiles => Named(c)'
  BY <1>3
<1> QED
  BY <1>4, <1>5 DEF NamesInv, Named

\* The .tmp file a script alone renames is the one it wrote.
LEMMA WritingSerial ==
    ASSUME FilesInv, NEW p \in Procs, Writing(p)
    PROVE  SerialInv'
<1>1. PICK f \in Files : f = FileOf(job[p].op)
  BY WritingMoves DEF FilesInv
<1>2. /\ TypeInv /\ job[p].pc \in Replacing /\ job[p] \in Jobs /\ job[p].pc # "idle"
      /\ \A q \in Procs : q # p => job'[q] = job[q]
      /\ UNCHANGED overlapped
      /\ \A g \in Files : g # f => live'[g] = live[g] /\ staged'[g] = staged[g]
  BY <1>1, WritingMoves DEF FilesInv, TypeInv, VoiceTypeOK, history, Replacing
<1> SUFFICES ASSUME NEW g \in Files, g \notin overlapped
             PROVE  /\ Readable(g)'
                    /\ \A q \in Procs : OnFile(q, g)' =>
                         /\ \A o \in Procs : OnFile(o, g)' => o = q
                         /\ HasRead(q)' => job'[q].read = live'[g]
                         /\ job'[q].pc = "write" => fd'[q] = "staged" /\ staged'[g] = Empty
                         /\ job'[q].pc = "rename" => staged'[g] = Draft(q)'
  BY <1>2 DEF SerialInv
<1>3. /\ Readable(g)
      /\ \A q \in Procs : OnFile(q, g) =>
           /\ \A o \in Procs : OnFile(o, g) => o = q
           /\ HasRead(q) => job[q].read = live[g]
           /\ job[q].pc = "write" => fd[q] = "staged" /\ staged[g] = Empty
           /\ job[q].pc = "rename" => staged[g] = Draft(q)
  BY DEF SerialInv, FilesInv
<1>4. ASSUME NEW q \in Procs, q # p, OnFile(q, g)'
      PROVE  OnFile(q, g) /\ job'[q] = job[q] /\ Draft(q)' = Draft(q)
  BY <1>2, <1>4 DEF OnFile, Draft
<1>5. job'[p].pc # "idle" => job'[p].op = job[p].op /\ job'[p].read = job[p].read
  BY <1>1, <1>2, WritingGoes
<1>6. CASE g # f
  <2>1. live'[g] = live[g] /\ staged'[g] = staged[g] /\ Readable(g)'
    BY <1>2, <1>3, <1>6 DEF Readable
  <2>2. ~OnFile(p, g)'
    BY <1>1, <1>5, <1>6 DEF OnFile
  <2>3. ASSUME NEW q \in Procs, OnFile(q, g)'
        PROVE  q # p /\ fd'[q] = fd[q]
    <3>1. q # p /\ OnFile(q, g)
      BY <1>4, <2>2, <2>3
    <3> QED
      BY <1>1, <1>2, <1>6, <3>1, WritingGoes DEF OnFile
  <2> QED
    BY <1>3, <1>4, <2>1, <2>3 DEF HasRead
<1>7. CASE g = f
  <2>1. OnFile(p, g)
    BY <1>1, <1>2, <1>7 DEF OnFile
  <2>2. \A q \in Procs : q # p => ~OnFile(q, g)'
    BY <1>3, <1>4, <2>1
  <2>3. job[p].read = live[g] /\ Draft(p) \in Contents[g]
    BY <1>1, <1>2, <1>3, <1>7, <2>1, DraftIs DEF HasRead
  <2>4. CASE OpenStaging(p) \/ WriteStaging(p)
    <3>1. live' = live
      BY <1>1, <1>2, <1>3, <1>7, <2>1, <2>4, WritingGoes DEF OpenStaging, WriteStaging
    <3>2. job'[p].pc = "write" => fd'[p] = "staged" /\ staged'[g] = Empty
      BY <1>1, <1>2, <1>7, <2>4, WritingGoes DEF OpenStaging, WriteStaging
    <3>3. job'[p].pc = "rename" => staged'[g] = Draft(p)
      BY <1>1, <1>2, <1>3, <1>7, <2>1, <2>4, WritingGoes DEF OpenStaging, WriteStaging
    <3>4. job'[p].pc # "idle" /\ job'[p].read = job[p].read /\ Draft(p)' = Draft(p)
      <4>1. job'[p].pc # "idle"
        BY <1>1, <1>2, <2>4, WritingGoes DEF OpenStaging, WriteStaging
      <4>2. job'[p].op = job[p].op /\ job'[p].read = job[p].read
        BY <1>5, <4>1
      <4> QED
        BY <1>2, <4>1, <4>2, JobIs DEF Draft
    <3>5. Readable(g)'
      BY <1>3, <3>1 DEF Readable
    <3> QED
      BY <2>2, <2>3, <3>1, <3>2, <3>3, <3>4, <3>5
  <2>5. CASE ReplaceFile(p)
    <3>1. job[p].pc = "rename" /\ job'[p].pc = "idle"
          /\ (live' = live \/ live'[g] = staged[g])
      BY <1>1, <1>2, <1>7, <2>5, WritingGoes DEF ReplaceFile
    <3>2. staged[g] = Draft(p)
      BY <1>3, <2>1, <3>1
    <3>3. Readable(g)'
      BY <1>3, <2>3, <3>1, <3>2 DEF Readable, Contents, Files
    <3> QED
      BY <2>2, <3>1, <3>3 DEF OnFile
  <2> QED
    BY <2>4, <2>5 DEF Writing
<1> QED
  BY <1>6, <1>7

\* Writing a file keeps the backup and the binding in order.
LEMMA WritingOrder ==
    ASSUME FilesInv, NEW p \in Procs, Writing(p)
    PROVE  BackupInv' /\ BindInv'
<1>1. PICK f \in Files : f = FileOf(job[p].op)
  BY WritingMoves DEF FilesInv
<1>2. /\ TypeInv /\ job[p].pc \in Replacing /\ job[p].pc # "idle"
      /\ \A q \in Procs : q # p => job'[q] = job[q]
      /\ UNCHANGED <<overlapped, backup, manifest, registered>>
      /\ \A g \in Files : g # f => live'[g] = live[g] /\ staged'[g] = staged[g]
      /\ job'[p].pc # "idle" => job'[p].op = job[p].op /\ job'[p].pc \in Replacing
  BY <1>1, WritingMoves, WritingGoes DEF FilesInv, models, history, Replacing
<1>3. BackupInv'
  BY <1>2 DEF BackupInv, FilesInv
<1>4. CASE f = "profile"
  <2>1. ~OnFile(p, "bindings")'
    BY <1>1, <1>2, <1>4 DEF OnFile
  <2>2. live'["bindings"] = live["bindings"] /\ staged'["bindings"] = staged["bindings"]
    BY <1>2, <1>4 DEF Files
  <2> QED
    BY <1>2, <1>3, <2>1, <2>2 DEF BindInv, FilesInv, OnFile
<1>5. CASE f = "bindings"
  <2>1. OnFile(p, "bindings")
    BY <1>1, <1>2, <1>5 DEF OnFile
  <2>2. "bindings" \notin overlapped => Shared \in registered
    BY <1>2, <2>1 DEF BindInv, FilesInv
  <2>3. job'[p].pc # "scan"
    BY <1>2 DEF Replacing
  <2> QED
    BY <1>2, <1>3, <2>2, <2>3 DEF BindInv, FilesInv, OnFile
<1> QED
  BY <1>1, <1>4, <1>5 DEF Files

\* A death ends one script; nothing else of the files changes.
LEMMA DeathKeeps ==
    ASSUME FilesInv, NEW p \in Procs, Dies(p)
    PROVE  NamesInv' /\ SerialInv' /\ BackupInv' /\ BindInv'
<1>1. /\ job'[p].pc = "idle"
      /\ \A q \in Procs : q # p => job'[q] = job[q] /\ fd'[q] = fd[q]
      /\ UNCHANGED <<live, staged, backup, audio, manifest, registered, overlapped>>
  BY EndsWell DEF Dies, FilesInv, models, history
<1>2. \A q \in Procs : job'[q].pc # "idle" => q # p /\ Draft(q)' = Draft(q)
  BY <1>1 DEF Draft
<1>3. NamesInv'
  BY <1>1 DEF FilesInv, NamesInv, Adds, Named, AllRegistered
<1>4. SerialInv'
  BY <1>1, <1>2 DEF FilesInv, SerialInv, OnFile, HasRead, Readable
<1>5. BackupInv' /\ BindInv'
  BY <1>1 DEF FilesInv, BackupInv, BindInv, OnFile
<1> QED
  BY <1>3, <1>4, <1>5

\* The scripts do not look at the default, nor at the token once they run.
LEMMA OutsideKeeps ==
    ASSUME FilesInv,
           UNCHANGED <<live, staged, backup, audio, manifest, registered, job, fd, overlapped>>
    PROVE  NamesInv' /\ SerialInv' /\ BackupInv' /\ BindInv'
<1>1. \A q : Draft(q)' = Draft(q)
  BY DEF Draft
<1>2. NamesInv'
  BY DEF FilesInv, NamesInv, Adds, Named, AllRegistered
<1>3. SerialInv'
  BY <1>1 DEF FilesInv, SerialInv, OnFile, HasRead, Readable
<1> QED
  BY <1>2, <1>3 DEF FilesInv, BackupInv, BindInv, OnFile

\* Every step keeps the invariant.
LEMMA FilesStep == FilesInv /\ [VoiceNext]_allVars => FilesInv'
<1> SUFFICES ASSUME FilesInv, [VoiceNext]_allVars PROVE FilesInv'
  OBVIOUS
<1>1. TypeInv'
  BY TypesKept DEF FilesInv
<1>2. ASSUME NEW p \in Procs, Preparing(p) PROVE FilesInv'
  BY <1>1, <1>2, PreparingNames, PreparingSerial, PreparingOrder DEF FilesInv
<1>3. ASSUME NEW p \in Procs, Writing(p) PROVE FilesInv'
  BY <1>1, <1>3, WritingNames, WritingSerial, WritingOrder DEF FilesInv
<1>4. ASSUME NEW p \in Procs, Dies(p) PROVE FilesInv'
  BY <1>1, <1>4, DeathKeeps DEF FilesInv
<1>5. CASE DefaultChanges \/ UNCHANGED voiceVars
  BY <1>1, <1>5, OutsideKeeps DEF DefaultChanges, voiceVars, models, history, FilesInv
<1> QED
  BY <1>2, <1>3, <1>4, <1>5 DEF VoiceNext, allVars, Script, Preparing, Writing

\* The initial states satisfy it.
LEMMA FilesStart == VoiceInit => FilesInv
<1> SUFFICES ASSUME VoiceInit PROVE FilesInv
  OBVIOUS
<1>1. TypeInv
  BY TypesStart
<1>2. PICK b \in SUBSET HandBindings :
        live = [profile |-> [managed |-> {}, refs |-> {}], bindings |-> b]
  BY DEF VoiceInit
<1>3. /\ live["profile"] = [managed |-> {}, refs |-> {}] /\ live["bindings"] = b
      /\ live["profile"] \in Profiles /\ b \in BindingSets /\ SharedBinding \notin b
  BY <1>2 DEF Profiles, BindingSets
<1>4. /\ \A f \in Files : staged[f] = NoFile
      /\ \A p \in Procs : job[p].pc = "idle"
      /\ backup = NoFile
  BY Begun DEF VoiceInit
<1>5. NamesInv
  <2>1. Named(live["profile"])
    BY <1>3 DEF Named
  <2> QED
    BY <1>4, <2>1 DEF NamesInv, Files
<1>6. SerialInv
  BY <1>3, <1>4 DEF SerialInv, OnFile, Readable, Files
<1>7. BackupInv /\ BindInv
  BY <1>3, <1>4 DEF BackupInv, BindInv, OnFile, Files
<1> QED
  BY <1>1, <1>5, <1>6, <1>7 DEF FilesInv

LEMMA AlwaysFilesInv == VoiceSpec => []FilesInv
  BY FilesStart, FilesStep, PTL DEF VoiceSpec

\* What a readable profile names is there, whatever the scripts do at a time.
THEOREM NamedAlwaysThere == VoiceSpec => []NamedIsThere
<1>1. ASSUME FilesInv PROVE NamedIsThere
  <2>1. /\ Readable("profile") => live["profile"] \in Profiles
        /\ Readable("bindings") => live["bindings"] \in BindingSets
    BY <1>1 DEF FilesInv, TypeInv, VoiceTypeOK, Readable, Files, Contents
  <2>2. Readable("profile") => Named(live["profile"])
    BY <1>1, <2>1 DEF FilesInv, NamesInv
  <2>3. Readable("bindings") /\ "bindings" \notin overlapped =>
           (SharedBinding \in live["bindings"] => Shared \in registered)
    BY <1>1, <2>1 DEF FilesInv, BindInv
  <2> QED
    BY <2>2, <2>3 DEF NamedIsThere, Named
<1> QED
  BY <1>1, AlwaysFilesInv, PTL

\* Scripts that run one at a time leave readable files and a true backup.
THEOREM SerialAlwaysSafe == VoiceSpec => []SerialScriptsAreSafe
<1>1. FilesInv => SerialScriptsAreSafe
  BY DEF FilesInv, SerialInv, BackupInv, SerialScriptsAreSafe
<1> QED
  BY <1>1, AlwaysFilesInv, PTL

\* What SerialScriptsOnlyAdd says of a step.
AddingStep ==
    /\ "profile" \notin overlapped' =>
          /\ live["profile"].managed \subseteq live'["profile"].managed
          /\ live["profile"].refs \subseteq live'["profile"].refs
    /\ "bindings" \notin overlapped' => live["bindings"] \subseteq live'["bindings"]

\* A file changes when a script alone renames what it drafted from it.
LEMMA StepAdds == FilesInv /\ [VoiceNext]_allVars => AddingStep
<1> SUFFICES ASSUME FilesInv, [VoiceNext]_allVars PROVE AddingStep
  OBVIOUS
<1>1. ASSUME NEW p \in Procs, Writing(p) PROVE AddingStep
  <2>1. PICK f \in Files : f = FileOf(job[p].op)
    BY <1>1, WritingMoves DEF FilesInv
  <2>2. /\ TypeInv /\ job[p] \in Jobs /\ job[p].pc \in Replacing /\ job[p].pc # "idle"
        /\ UNCHANGED overlapped
        /\ \A g \in Files : g # f => live'[g] = live[g]
    BY <1>1, <2>1, WritingMoves DEF FilesInv, TypeInv, VoiceTypeOK, history, Replacing
  <2>3. CASE f \in overlapped
    BY <2>2, <2>3 DEF AddingStep, Files
  <2>4. CASE f \notin overlapped
    <3>1. OnFile(p, f) /\ job[p].read = live[f]
      BY <2>1, <2>2, <2>4 DEF OnFile, HasRead, FilesInv, SerialInv
    <3>2. live'[f] \in {live[f], Draft(p)}
      BY <1>1, <2>1, <2>2, <2>4, <3>1, WritingGoes DEF FilesInv, SerialInv
    <3>3. /\ job[p].op \in {"migrate", "import", "bind"}
          /\ job[p].op \in {"migrate", "import"} => f = "profile" /\ job[p].read \in Profiles
          /\ job[p].op = "bind" => f = "bindings"
      BY <2>1, <2>2, JobIs DEF FileOf
    <3>4. CASE f = "profile"
      <4>1. /\ live["profile"].managed \subseteq live'["profile"].managed
            /\ live["profile"].refs \subseteq live'["profile"].refs
        BY <2>2, <3>1, <3>2, <3>3, <3>4, DraftIs DEF Profiles
      <4>2. live'["bindings"] = live["bindings"]
        BY <2>2, <3>4 DEF Files
      <4> QED
        BY <4>1, <4>2 DEF AddingStep
    <3>5. CASE f = "bindings"
      <4>1. live["bindings"] \subseteq live'["bindings"]
        BY <2>2, <3>1, <3>2, <3>3, <3>5, DraftIs
      <4>2. live'["profile"] = live["profile"]
        BY <2>2, <3>5 DEF Files
      <4> QED
        BY <4>1, <4>2 DEF AddingStep
    <3> QED
      BY <3>4, <3>5 DEF Files
  <2> QED
    BY <2>3, <2>4
<1>2. ASSUME NEW p \in Procs, Preparing(p) PROVE AddingStep
  BY <1>2, PreparingMoves DEF AddingStep, FilesInv
<1>3. ASSUME NEW p \in Procs, Dies(p) PROVE AddingStep
  BY <1>3 DEF AddingStep, Dies
<1>4. CASE DefaultChanges \/ UNCHANGED voiceVars
  BY <1>4 DEF AddingStep, DefaultChanges, voiceVars
<1> QED
  BY <1>1, <1>2, <1>3, <1>4 DEF VoiceNext, allVars, Script, Preparing, Writing

\* Nor do they lose a conversion, a reference or a binding.
THEOREM SerialOnlyEverAdds == VoiceSpec => SerialScriptsOnlyAdd
<1>1. FilesInv /\ [VoiceNext]_allVars => [AddingStep]_allVars
  BY StepAdds
<1> QED
  BY <1>1, AlwaysFilesInv, PTL DEF VoiceSpec, SerialScriptsOnlyAdd, AddingStep

-----------------------------------------------------------------------------
(* The graph.                                                              *)

USE GraphAssumption

\* The trace follows the edges, up to five of them.
LEMMA StepFollows ==
    ASSUME NEW N
    PROVE  /\ N \subseteq Step(Edges, N)
           /\ \A e \in Edges : e[1] \in N => e[2] \in Step(Edges, N)
  BY DEF Step

Near == Step(Edges, {VoiceNode})
Second == Step(Edges, Near)
Third == Step(Edges, Second)
Fourth == Step(Edges, Third)

LEMMA TraceGrows ==
    /\ VoiceNode \in Near /\ Near \subseteq Second /\ Second \subseteq Third
    /\ Third \subseteq Fourth /\ Fourth \subseteq TraceVoice
    /\ \A e \in Edges :
          /\ e[1] = VoiceNode => e[2] \in Near
          /\ e[1] \in Near => e[2] \in Second
          /\ e[1] \in Second => e[2] \in Third
          /\ e[1] \in Third => e[2] \in Fourth
          /\ e[1] \in Fourth => e[2] \in TraceVoice
  BY DEF Near, Second, Third, Fourth, TraceVoice, Step

\* An engine three edges away is traced with its runtime and what that needs.
LEMMA EngineTraced ==
    ASSUME NEW e, EngineNode(e) \in Third
    PROVE  OnEngine(e) \subseteq TraceVoice
<1>1. CASE e \notin Runtimes
  BY <1>1, TraceGrows DEF OnEngine
<1>2. CASE e \in Runtimes
  <2>1. <<EngineNode(e), RuntimeNode(e)>> \in Edges
    BY <1>2 DEF Edges, RuntimeEdges
  <2>2. RuntimeNode(e) \in Fourth
    <3> DEFINE g == <<EngineNode(e), RuntimeNode(e)>>
    <3>1. g \in Edges /\ g[1] = EngineNode(e) /\ g[2] = RuntimeNode(e)
      BY <2>1
    <3> QED
      BY <3>1, TraceGrows
  <2>3. ASSUME NEW n \in Needs[e] PROVE n \in TraceVoice
    <3> DEFINE g == <<RuntimeNode(e), n>>
    <3>1. g \in Edges
      BY <1>2 DEF Edges, RuntimeEdges
    <3>2. g[1] = RuntimeNode(e) /\ g[2] = n
      OBVIOUS
    <3> QED
      BY <2>2, <3>1, <3>2, TraceGrows
  <2> QED
    BY <1>2, <2>2, <2>3, TraceGrows DEF OnEngine
<1> QED
  BY <1>1, <1>2

\* A reference of the profile is traced.
LEMMA ReferenceTraced ==
    ASSUME Readable("profile"), NEW r \in References
    PROVE  RefNode(r) \in TraceVoice
<1> DEFINE g == <<VoiceNode, RefNode(r)>>
<1>1. g \in Edges
  BY DEF Edges, ProfileEdges
<1>2. g[1] = VoiceNode /\ g[2] = RefNode(r)
  OBVIOUS
<1> HIDE DEF g
<1> QED
  BY <1>1, <1>2, TraceGrows

\* So is a binding with its model and the engine of a registered model.
LEMMA BindingTraced ==
    ASSUME NEW b \in Bindings
    PROVE  /\ BindingNode(b) \in TraceVoice /\ ModelNode(b.model) \in TraceVoice
           /\ b.model \in registered => OnEngine(EngineOf(b.model)) \subseteq TraceVoice
<1> DEFINE first == <<VoiceNode, BindingNode(b)>>
           second == <<BindingNode(b), ModelNode(b.model)>>
           third == <<ModelNode(b.model), EngineNode(EngineOf(b.model))>>
<1>1. first \in Edges /\ second \in Edges
  BY DEF Edges, BindingEdges, BindingTargets
<1>2. b.model \in registered => third \in Edges
  BY DEF Edges, ModelEdges
<1>3. /\ first[1] = VoiceNode /\ first[2] = BindingNode(b)
      /\ second[1] = BindingNode(b) /\ second[2] = ModelNode(b.model)
      /\ third[1] = ModelNode(b.model) /\ third[2] = EngineNode(EngineOf(b.model))
  OBVIOUS
<1> HIDE DEF first, second, third
<1>4. BindingNode(b) \in Near /\ ModelNode(b.model) \in Second
  BY <1>1, <1>3, TraceGrows
<1>5. b.model \in registered => EngineNode(EngineOf(b.model)) \in Third
  BY <1>2, <1>3, <1>4, TraceGrows
<1> QED
  BY <1>4, <1>5, TraceGrows, EngineTraced

\* And an alias of the profile with its engine.
LEMMA AliasTraced ==
    ASSUME Readable("profile"), NEW m \in Aliases
    PROVE  AliasNode(m) \in TraceVoice /\ OnEngine(EngineOf(m)) \subseteq TraceVoice
<1> DEFINE first == <<VoiceNode, AliasNode(m)>>
           second == <<AliasNode(m), EngineNode(EngineOf(m))>>
<1>1. first \in Edges /\ second \in Edges
  BY DEF Edges, ProfileEdges
<1>2. /\ first[1] = VoiceNode /\ first[2] = AliasNode(m)
      /\ second[1] = AliasNode(m) /\ second[2] = EngineNode(EngineOf(m))
  OBVIOUS
<1> HIDE DEF first, second
<1>3. AliasNode(m) \in Near /\ EngineNode(EngineOf(m)) \in Third
  BY <1>1, <1>2, TraceGrows
<1> QED
  BY <1>3, TraceGrows, EngineTraced

\* Whatever a request selects, all one generation depends on is in the trace of
\* its voice; a binding it fails through is one the graph warns of.
LEMMA GenerationTraced == TraceCoversGeneration
<1> SUFFICES ASSUME Readable("profile"), NEW r \in Refs \cup {OwnRef, NoFile}, NEW x
             PROVE  /\ \A g \in Generations(x, r) : g \subseteq TraceVoice
                    /\ \A b \in Matches(x) :
                          Matches(x) = {b} /\ r = NoFile /\ Generations(x, r) = {}
                             => b \in Warned
  BY DEF TraceCoversGeneration
<1> DEFINE through(b) == {BindingNode(b), ModelNode(b.model)} \cup OnEngine(EngineOf(b.model))
                            \cup {RefNode(v) : v \in Voices(b, r)}
           chosen == {c \in Matches(x) : /\ Matches(x) = {c}
                                         /\ c.model \in registered
                                         /\ Voices(c, r) \subseteq References}
           direct == {AliasNode(x), RefNode(IF r = NoFile THEN OwnRef ELSE r)}
                        \cup OnEngine(EngineOf(x))
<1>1. ASSUME NEW b \in chosen PROVE through(b) \subseteq TraceVoice
  <2>1. b \in Bindings /\ b.model \in registered /\ Voices(b, r) \subseteq References
    BY <1>1 DEF Matches
  <2>2. \A v \in Voices(b, r) : RefNode(v) \in TraceVoice
    BY <2>1, ReferenceTraced
  <2> QED
    BY <2>1, <2>2, BindingTraced
<1>2. ASSUME x \in Aliases, r \in References \cup {NoFile} PROVE direct \subseteq TraceVoice
  <2>1. (IF r = NoFile THEN OwnRef ELSE r) \in References
    BY <1>2 DEF References
  <2> QED
    BY <1>2, <2>1, ReferenceTraced, AliasTraced
<1>3. Generations(x, r) =
         {through(b) : b \in chosen}
         \cup IF Matches(x) = {} /\ x \in Aliases /\ r \in References \cup {NoFile}
              THEN {direct} ELSE {}
  BY DEF Generations
<1>4. ASSUME NEW b \in Matches(x), Matches(x) = {b}, r = NoFile, Generations(x, r) = {}
      PROVE  b \in Warned
  <2>1. b \in Bindings /\ b \notin chosen
    <3>1. b \in chosen => through(b) \in Generations(x, r)
      BY <1>3
    <3> QED
      BY <1>4, <3>1 DEF Matches
  <2>2. b.model \notin registered \/ ~(Voices(b, NoFile) \subseteq References)
    BY <1>4, <2>1
  <2>3. Voices(b, NoFile) = {b.speaker, b.emotion} \ {NoFile}
    BY DEF Voices
  <2> QED
    BY <2>1, <2>2, <2>3 DEF Warned
<1> HIDE DEF through, chosen, direct
<1> QED
  BY <1>1, <1>2, <1>3, <1>4

\* The trace of a voice answers what a generation of it depends on, always.
THEOREM TraceAlwaysCovers == VoiceSpec => []TraceCoversGeneration
  BY GenerationTraced, PTL

=============================================================================
