----------------------------- MODULE VoiceFiles -----------------------------
(***************************************************************************)
(* The files of one voice and the scripts that change them:                *)
(*   migrate   migrate_profile: legacy weights into the Model Root         *)
(*   import    import_reference_pack: references of a pack                 *)
(*   bind      migrate_index_tts_binding.py: the shared IndexTTS model and *)
(*             a voice binding                                             *)
(* Nothing locks the profile or the bindings.  Each script reads the file, *)
(* writes <file>.tmp and renames it, and the name of the temporary file is *)
(* always the same: a script that opens it truncates what another one is   *)
(* writing, and after a rename a late write lands in the published file.   *)
(* Every process obtains the admin token first (AdminToken).               *)
(*                                                                         *)
(* pc: idle; weights, backup, create, copy; audio, wav; look, manifest,    *)
(* fill, scan, load; open, write, rename.                                  *)
(***************************************************************************)
EXTENDS AdminToken, Naturals

CONSTANTS
    Legacy,        \* model aliases of the profile that name weight files
    Imported,      \* Imported[m]: the registry id alias m is imported under
    Shared,        \* alias and registry id of the shared IndexTTS model
    Refs,          \* references of the pack
    OwnRef,        \* the reference the profile has anyway
    HandBindings,  \* bindings an administrator may have registered
    SharedBinding, \* the one the script registers
    Broken,        \* text that does not parse
    MaxScripts,    \* bound: scripts started
    NoFile

Registrable == {Imported[m] : m \in Legacy} \cup {Shared}

\* A profile: the aliases that name a registered model, the references added.
Profiles == [managed : SUBSET Legacy, refs : SUBSET Refs]
BindingSets == SUBSET (HandBindings \cup {SharedBinding})

ASSUME VoiceAssumption ==
    /\ Shared \notin Legacy \cup {Imported[m] : m \in Legacy}
    /\ OwnRef \notin Refs
    /\ NoFile \notin Registrable
    /\ SharedBinding.model = Shared
    /\ SharedBinding.speaker = OwnRef
    /\ SharedBinding.emotion = NoFile
    /\ SharedBinding \notin HandBindings
    /\ \A c \in Profiles : c \notin {Empty, Broken, NoFile}
    /\ \A c \in BindingSets : c \notin {Empty, Broken, NoFile}
    /\ NoFile \notin {Empty, Broken}
    /\ MaxScripts \in Nat

VARIABLES
    live,        \* the profile and the bindings file
    staged,      \* their .tmp files
    backup,      \* <profile>.json.pre-model-registry.bak
    audio,       \* audio[r]: the WAV of a pack reference
    manifest,    \* model.json of the shared model
    registered,  \* the models of the Model Registry
    default,     \* the voice's default there
    job,         \* the script of each process
    fd,          \* where the .tmp file it opened is by now
    started,     \* how many scripts were started
    overlapped   \* files two scripts have worked on at a time (history)

models == <<manifest, registered, default>>
history == <<started, overlapped>>
voiceVars == <<live, staged, backup, audio, models, job, fd, history>>
allVars == <<tokenVars, voiceVars>>

Files == {"profile", "bindings"}
FileOf(op) == IF op = "bind" THEN "bindings" ELSE "profile"

Contents == [profile |-> Profiles, bindings |-> BindingSets]
Readable(f) == live[f] \notin {Empty, Broken}

Idle == [pc |-> "idle"]
Job(op, s, c) == [op |-> op, pc |-> s, read |-> c]
Importing(c, l) == [op |-> "import", pc |-> "audio", read |-> c, left |-> l]
Replacing == {"open", "write", "rename"}
Jobs ==
    {Idle}
    \cup [op : {"migrate"}, read : Profiles,
          pc : {"weights", "backup", "create", "copy"} \cup Replacing]
    \cup [op : {"import"}, read : Profiles, left : SUBSET Refs,
          pc : {"audio", "wav"} \cup Replacing]
    \cup [op : {"bind"}, read : BindingSets,
          pc : {"look", "manifest", "fill", "scan", "load"} \cup Replacing]

\* Every variable keeps its type; a shared model is nobody's default.
VoiceTypeOK ==
    /\ TokenTypeOK
    /\ \A f \in Files : live[f] \in {Empty, Broken} \/ live[f] \in Contents[f]
    /\ \A f \in Files : staged[f] \in {Empty, Broken, NoFile} \/ staged[f] \in Contents[f]
    /\ backup \in Profiles \cup {Empty, Broken, NoFile}
    /\ audio \in [Refs -> {"none", "torn", "whole"}]
    /\ manifest \in {"none", "torn", "whole"}
    /\ registered \in SUBSET Registrable
    /\ default \in {Imported[m] : m \in Legacy} \cup {NoFile}
    /\ job \in [Procs -> Jobs]
    /\ fd \in [Procs -> {"none", "staged", "live", "lost"}]
    /\ started \in 0..MaxScripts
    /\ overlapped \in SUBSET Files

VoiceInit ==
    /\ TokenInit
    /\ \E b \in SUBSET HandBindings :
          live = [profile |-> [managed |-> {}, refs |-> {}], bindings |-> b]
    /\ staged = [f \in Files |-> NoFile]
    /\ backup = NoFile
    /\ audio = [r \in Refs |-> "none"]
    /\ manifest = "none"
    /\ registered = {}
    /\ default = NoFile
    /\ job = [p \in Procs |-> Idle]
    /\ fd = [p \in Procs |-> "none"]
    /\ started = 0
    /\ overlapped = {}

-----------------------------------------------------------------------------
At(p, op, s) == job[p].pc = s /\ job[p].op = op
Goes(p, s) == job' = [job EXCEPT ![p].pc = s]
Ends(p) ==
    /\ job' = [job EXCEPT ![p] = Idle]
    /\ fd' = [fd EXCEPT ![p] = "none"]

Begins(p, j) ==
    /\ boot[p] = "up"
    /\ job[p].pc = "idle"
    /\ started < MaxScripts
    /\ started' = started + 1
    /\ job' = [job EXCEPT ![p] = j]
    /\ overlapped' =
          IF \E q \in Procs : job[q].pc # "idle" /\ FileOf(job[q].op) = FileOf(j.op)
          THEN overlapped \cup {FileOf(j.op)} ELSE overlapped

(* Path.write_text(staging) and staging.replace(path).                     *)

\* Mutant: the file is rewritten in place, without a rename.
OpenInPlace(p) ==
    /\ job[p].pc = "open"
    /\ live' = [live EXCEPT ![FileOf(job[p].op)] = Empty]
    /\ staged' = [staged EXCEPT ![FileOf(job[p].op)] = Empty]
    /\ fd' = [fd EXCEPT ![p] = "staged"]
    /\ Goes(p, "write")
    /\ UNCHANGED <<tokenVars, backup, audio, models, history>>

\* open("w") creates the .tmp file or truncates the one that is there.
OpenStaging(p) ==
    /\ job[p].pc = "open"
    /\ staged' = [staged EXCEPT ![FileOf(job[p].op)] = Empty]
    /\ fd' = [fd EXCEPT ![p] = "staged"]
    /\ Goes(p, "write")
    /\ UNCHANGED <<tokenVars, live, backup, audio, models, history>>

\* What the script writes: the content it read, with its own addition.
Draft(p) ==
    CASE job[p].op = "migrate" -> [job[p].read EXCEPT !.managed = Legacy]
      [] job[p].op = "import" -> [job[p].read EXCEPT !.refs = @ \cup Refs]
      [] OTHER -> job[p].read \cup {SharedBinding}

\* Written over other text, a draft may leave a tail of it.
Over(old, c) == IF old = Empty THEN {c} ELSE {c, Broken}

WriteStaging(p) ==
    /\ job[p].pc = "write"
    /\ LET f == FileOf(job[p].op) IN
       \/ /\ fd[p] = "staged"
          /\ \E c \in Over(staged[f], Draft(p)) : staged' = [staged EXCEPT ![f] = c]
          /\ UNCHANGED live
       \/ /\ fd[p] = "live"
          /\ \E c \in Over(live[f], Draft(p)) : live' = [live EXCEPT ![f] = c]
          /\ UNCHANGED staged
       \/ fd[p] = "lost" /\ UNCHANGED <<live, staged>>
    /\ fd' = [fd EXCEPT ![p] = "none"]
    /\ Goes(p, "rename")
    /\ UNCHANGED <<tokenVars, backup, audio, models, history>>

\* A .tmp file somebody else has renamed already is FileNotFoundError.
ReplaceFile(p) ==
    /\ job[p].pc = "rename"
    /\ LET f == FileOf(job[p].op) IN
       \/ /\ staged[f] # NoFile
          /\ live' = [live EXCEPT ![f] = staged[f]]
          /\ staged' = [staged EXCEPT ![f] = NoFile]
          /\ fd' = [q \in Procs |->
                       IF q # p /\ fd[q] # "none" /\ FileOf(job[q].op) = f
                       THEN IF fd[q] = "staged" THEN "live" ELSE "lost"
                       ELSE fd[q]]
          /\ job' = [job EXCEPT ![p] = Idle]
       \/ staged[f] = NoFile /\ Ends(p) /\ UNCHANGED <<live, staged>>
    /\ UNCHANGED <<tokenVars, backup, audio, models, history>>

-----------------------------------------------------------------------------
(* migrate_profile                                                         *)

\* A profile without unconverted aliases is left alone.
Migrate(p) ==
    /\ Readable("profile")
    /\ live["profile"].managed # Legacy
    /\ Begins(p, Job("migrate", "weights", live["profile"]))
    /\ UNCHANGED <<tokenVars, live, staged, backup, audio, models, fd>>

\* Mutant: the profile is converted before its weights are imported.
ImportLater(p) ==
    /\ At(p, "migrate", "weights")
    /\ Goes(p, "backup")
    /\ UNCHANGED <<tokenVars, live, staged, backup, audio, models, fd, history>>

\* import_gpt_sovits_model for every such alias (ModelImport), or an error.
ImportWeights(p) ==
    /\ At(p, "migrate", "weights")
    /\ \/ /\ registered' = registered \cup {Imported[m] : m \in Legacy \ job[p].read.managed}
          /\ Goes(p, "backup") /\ UNCHANGED fd
       \/ Ends(p) /\ UNCHANGED registered
    /\ UNCHANGED <<tokenVars, live, staged, backup, audio, manifest, default, history>>

\* One backup, unless --no-backup.
BackUp(p) ==
    /\ At(p, "migrate", "backup")
    /\ \/ backup = NoFile /\ Goes(p, "create")
       \/ Goes(p, "open")
    /\ UNCHANGED <<tokenVars, live, staged, backup, audio, models, fd, history>>

\* shutil.copy2 creates or truncates, then copies what the profile is by now.
CreateBackup(p) ==
    /\ At(p, "migrate", "create")
    /\ backup' = Empty
    /\ Goes(p, "copy")
    /\ UNCHANGED <<tokenVars, live, staged, audio, models, fd, history>>

CopyBackup(p) ==
    /\ At(p, "migrate", "copy")
    /\ backup' = live["profile"]
    /\ Goes(p, "open")
    /\ UNCHANGED <<tokenVars, live, staged, audio, models, fd, history>>

-----------------------------------------------------------------------------
(* import_reference_pack                                                   *)

ImportPack(p) ==
    /\ Readable("profile")
    /\ Begins(p, Importing(live["profile"], Refs))
    /\ UNCHANGED <<tokenVars, live, staged, backup, audio, models, fd>>

\* Each WAV, in the order of the pack; a WAV an earlier import brought is
\* truncated and written again.
Wav(p) == CHOOSE r \in job[p].left : TRUE

\* Mutant: the profile is replaced before the audio is there.
CopyAudioLater(p) ==
    /\ At(p, "import", "audio")
    /\ Goes(p, "open")
    /\ UNCHANGED <<tokenVars, live, staged, backup, audio, models, fd, history>>

TruncateAudio(p) ==
    /\ At(p, "import", "audio")
    /\ \/ /\ job[p].left # {}
          /\ audio' = [audio EXCEPT ![Wav(p)] = "torn"]
          /\ Goes(p, "wav")
       \/ job[p].left = {} /\ Goes(p, "open") /\ UNCHANGED audio
    /\ UNCHANGED <<tokenVars, live, staged, backup, models, fd, history>>

CopyAudio(p) ==
    /\ At(p, "import", "wav")
    /\ audio' = [audio EXCEPT ![Wav(p)] = "whole"]
    /\ job' = [job EXCEPT ![p] = Importing(@.read, @.left \ {Wav(p)})]
    /\ UNCHANGED <<tokenVars, live, staged, backup, models, fd, history>>

-----------------------------------------------------------------------------
(* migrate_index_tts_binding.py                                            *)

Bind(p) ==
    /\ Readable("profile")
    /\ Begins(p, Job("bind", "look", {}))
    /\ UNCHANGED <<tokenVars, live, staged, backup, audio, models, fd>>

\* A manifest that is there must be the same, and parse.
LookForManifest(p) ==
    /\ At(p, "bind", "look")
    /\ \/ manifest = "none" /\ Goes(p, "manifest") /\ UNCHANGED fd
       \/ manifest = "whole" /\ Goes(p, "scan") /\ UNCHANGED fd
       \/ manifest = "torn" /\ Ends(p)
    /\ UNCHANGED <<tokenVars, live, staged, backup, audio, models, history>>

\* It is written in place.
CreateManifest(p) ==
    /\ At(p, "bind", "manifest")
    /\ manifest' = "torn"
    /\ Goes(p, "fill")
    /\ UNCHANGED <<tokenVars, live, staged, backup, audio, registered, default, fd, history>>

FillManifest(p) ==
    /\ At(p, "bind", "fill")
    /\ manifest' = "whole"
    /\ Goes(p, "scan")
    /\ UNCHANGED <<tokenVars, live, staged, backup, audio, registered, default, fd, history>>

\* scan_model_root reports a manifest it rejects and goes on.
Scan(p) ==
    /\ At(p, "bind", "scan")
    /\ registered' = IF manifest = "whole" THEN registered \cup {Shared} ELSE registered
    /\ Goes(p, "load")
    /\ UNCHANGED <<tokenVars, live, staged, backup, audio, manifest, default, fd, history>>

\* Mutant: the binding is registered into an empty registry.
LoadNothing(p) ==
    /\ At(p, "bind", "load")
    /\ job' = [job EXCEPT ![p] = Job("bind", "open", {})]
    /\ UNCHANGED <<tokenVars, live, staged, backup, audio, models, fd, history>>

LoadBindings(p) ==
    /\ At(p, "bind", "load")
    /\ \/ /\ Readable("bindings")
          /\ job' = [job EXCEPT ![p] = Job("bind", "open", live["bindings"])]
          /\ UNCHANGED fd
       \/ ~Readable("bindings") /\ Ends(p)
    /\ UNCHANGED <<tokenVars, live, staged, backup, audio, models, history>>

-----------------------------------------------------------------------------
Script(p) ==
    \/ OpenStaging(p) \/ WriteStaging(p) \/ ReplaceFile(p)
    \/ Migrate(p) \/ ImportWeights(p) \/ BackUp(p)
    \/ CreateBackup(p) \/ CopyBackup(p)
    \/ ImportPack(p) \/ TruncateAudio(p) \/ CopyAudio(p)
    \/ Bind(p) \/ LookForManifest(p) \/ CreateManifest(p) \/ FillManifest(p)
    \/ Scan(p) \/ LoadBindings(p)

\* A process ends or is killed, at any step of its script.
Dies(p) == Leaves(p) /\ Ends(p) /\ UNCHANGED <<live, staged, backup, audio, models, history>>

\* An administrator promotes a migrated model, never a shared one, or retires
\* the default.
DefaultChanges ==
    /\ default' \in (registered \ {Shared}) \cup {NoFile}
    /\ UNCHANGED <<tokenVars, live, staged, backup, audio, manifest, registered, job, fd,
                   history>>

VoiceNext ==
    \/ \E p \in Procs : Script(p) \/ Dies(p) \/ (Boot(p) /\ UNCHANGED voiceVars)
    \/ OperatorPlacesToken /\ UNCHANGED voiceVars
    \/ DefaultChanges

VoiceSpec == VoiceInit /\ [][VoiceNext]_allVars

-----------------------------------------------------------------------------
\* Whatever the scripts do to each other, a profile that can be read names
\* registered models and references whose WAV exists; the shared binding names
\* a registered model unless two binding scripts worked at a time.
NamedIsThere ==
    /\ Readable("profile") =>
          /\ \A m \in live["profile"].managed : Imported[m] \in registered
          /\ \A r \in live["profile"].refs : audio[r] # "none"
    /\ Readable("bindings") /\ "bindings" \notin overlapped =>
          (SharedBinding \in live["bindings"] => Shared \in registered)

\* Scripts that run one at a time and die wherever they may leave files that
\* can be read and a backup, if it is whole, of the unconverted profile.
SerialScriptsAreSafe ==
    /\ \A f \in Files : f \notin overlapped => Readable(f)
    /\ "profile" \notin overlapped /\ backup \in Profiles => backup.managed = {}

\* Nor do they lose what is there: conversions, references and bindings stay.
SerialScriptsOnlyAdd ==
    [][/\ "profile" \notin overlapped' =>
             /\ live["profile"].managed \subseteq live'["profile"].managed
             /\ live["profile"].refs \subseteq live'["profile"].refs
       /\ "bindings" \notin overlapped' => live["bindings"] \subseteq live'["bindings"]]_allVars

=============================================================================
