----------------------------- MODULE ModelImport -----------------------------
(***************************************************************************)
(* The import of server/model_registry.py, which installs a model of a     *)
(* legacy profile in the Model Root: two weights and a manifest, each      *)
(* staged, verified and linked under its final name, then a scan.  With    *)
(* the crashes of the processes and the edits of the administrator this is *)
(* the complete specification, and its properties.                         *)
(***************************************************************************)
EXTENDS ModelRegistry

CONSTANTS
    HomeDir,  \* HomeDir[m]: the directory the import gives model m
    MaxEdits  \* bound on what the administrator changes by hand

ASSUME ImportAssumption ==
    /\ HomeDir \in [Models -> Dirs]
    /\ MaxEdits \in Nat

VARIABLE edits  \* changes by hand so far

allVars == <<vars, edits>>

Importing == {"gpt", "sovits", "manifest"}
Empty == [role \in Roles |-> "none"]
Labels == {"idle", "lock", "look", "publish", "resolve", "serve"} \cup Importing
ImportJobs == [op : {"import"}, id : Models, rev : {r \in Revs : Declares[r] = "candidate"}]

TypeOK ==
    /\ disk \in [Dirs -> Manifests \cup {NoFile}]
    /\ weights \in [Dirs -> [Roles -> {"good", "bad", "none"}]]
    /\ registry \in Registries
    /\ lock \in Procs \cup {NoOne}
    /\ pc \in [Procs -> Labels]
    /\ job \in [Procs -> Jobs \cup ImportJobs \cup Requests \cup {NoJob}]
    /\ todo \in [Procs -> SUBSET (Dirs \cup Models)]
    /\ found \in [Procs -> SUBSET Items]
    /\ draft \in [Procs -> Registries]
    /\ served \in [Procs -> Manifests \cup {NoFile}]
    /\ outdated \subseteq Procs
    /\ edits \in 0..MaxEdits

Init ==
    /\ disk = [d \in Dirs |-> NoFile]
    /\ weights = [d \in Dirs |-> Empty]
    /\ registry = EmptyRegistry
    /\ lock = NoOne
    /\ pc = [p \in Procs |-> "idle"]
    /\ job = [p \in Procs |-> NoJob]
    /\ todo = [p \in Procs |-> {}]
    /\ found = [p \in Procs |-> {}]
    /\ draft = [p \in Procs |-> EmptyRegistry]
    /\ served = [p \in Procs |-> NoFile]
    /\ outdated = {}
    /\ edits = 0

-----------------------------------------------------------------------------
\* import_gpt_sovits_model has found and hashed both sources.
Import(p, j) ==
    /\ pc[p] = "idle"
    /\ Goto(p, "gpt")
    /\ job' = [job EXCEPT ![p] = j]
    /\ UNCHANGED <<rootVars, registry, lock, todo, found, draft, served,
                   outdated, edits>>

Fail(p) ==
    /\ Leave(p)
    /\ UNCHANGED <<disk, registry, outdated, edits>>

Installs(p, role, bytes) ==
    LET d == HomeDir[job[p].id] IN
    /\ weights' = [weights EXCEPT ![d][role] = bytes]
    /\ Goto(p, IF role = "gpt" THEN "sovits" ELSE "manifest")
    /\ UNCHANGED <<disk, registry, lock, job, todo, found, draft, served,
                   outdated, edits>>

\* Mutant: the staged copy is not hashed again, though the source may have
\* changed since it was.
CopyUnchecked(p, role) ==
    /\ pc[p] = role
    /\ LET here == weights[HomeDir[job[p].id]][role] IN
       \/ here = "none" /\ \E bytes \in {"good", "bad"} : Installs(p, role, bytes)
       \/ here = "good" /\ Installs(p, role, "good")
       \/ Fail(p) /\ UNCHANGED weights

\* _copy_immutable: an existing file must be the right one; a copy is linked
\* under its name only if it is, and without overwriting.
CopyImmutable(p, role) ==
    /\ pc[p] = role
    /\ \/ /\ weights[HomeDir[job[p].id]][role] \in {"none", "good"}
          /\ Installs(p, role, "good")
       \/ Fail(p) /\ UNCHANGED weights

\* The manifest is create-only too; one that is there must say the same.
PublishManifest(p) ==
    /\ pc[p] = "manifest"
    /\ LET d == HomeDir[job[p].id]
           new == [id |-> job[p].id, rev |-> job[p].rev]
       IN  \/ /\ disk[d] \in {NoFile, new}
              /\ disk' = [disk EXCEPT ![d] = new]
              /\ Goto(p, "lock")
              /\ job' = [job EXCEPT ![p] = [op |-> "scan"]]
              /\ UNCHANGED <<registry, lock, todo, found, draft, served,
                             outdated, edits>>
           \/ Fail(p)
    /\ UNCHANGED weights

-----------------------------------------------------------------------------
\* A process dies; staged files have names of their own and are never read.
Crash(p) ==
    /\ pc[p] # "idle"
    /\ Leave(p)
    /\ outdated' = outdated \ {p}
    /\ UNCHANGED <<rootVars, registry, edits>>

\* The Model Root is administratively controlled: nobody edits a directory
\* while a model is being imported into it.
Undisturbed(d) == \A p \in Procs : pc[p] \in Importing => HomeDir[job[p].id] # d

ByHand(d) ==
    /\ edits < MaxEdits
    /\ edits' = edits + 1
    /\ Undisturbed(d)
    /\ UNCHANGED <<registry, lock, procVars, outdated>>

EditManifest(d, r) ==
    /\ disk[d] # NoFile
    /\ disk' = [disk EXCEPT ![d].rev = r]
    /\ UNCHANGED weights
    /\ ByHand(d)

DamageWeights(d) ==
    /\ disk[d] # NoFile
    /\ weights' = [weights EXCEPT ![d].gpt = "bad"]
    /\ UNCHANGED disk
    /\ ByHand(d)

\* A directory disappears, or becomes a copy of another one.
RemoveDirectory(d) ==
    /\ disk[d] # NoFile
    /\ disk' = [disk EXCEPT ![d] = NoFile]
    /\ weights' = [weights EXCEPT ![d] = Empty]
    /\ ByHand(d)

CopyDirectory(from, d) ==
    /\ disk[from] # NoFile /\ disk[d] = NoFile
    /\ disk' = [disk EXCEPT ![d] = disk[from]]
    /\ weights' = [weights EXCEPT ![d] = weights[from]]
    /\ ByHand(d)

RegistryStep(p) ==
    /\ \/ LockTimeout(p) \/ Decide(p) \/ Publish(p)
       \/ SelectDefault(p) \/ SelectFromProfile(p) \/ Answer(p)
       \/ \E d \in Dirs : ReadDirectory(p, d)
       \/ \E j \in Jobs : LockRegistry(p, j)
       \/ \E v \in Voices : ReadProfile(p, v)
       \/ \E m \in Models : ResolveAlias(p, m) \/ ServeBinding(p, m)
    /\ UNCHANGED edits

Next ==
    \/ \E p \in Procs :
          \/ RegistryStep(p)
          \/ PublishManifest(p)
          \/ Crash(p)
          \/ \E j \in ImportJobs : Import(p, j)
          \/ \E role \in Roles : CopyImmutable(p, role)
    \/ \E d \in Dirs :
          \/ DamageWeights(d)
          \/ RemoveDirectory(d)
          \/ \E r \in Revs : EditManifest(d, r)
          \/ \E from \in Dirs : CopyDirectory(from, d)

Spec == Init /\ [][Next]_allVars

-----------------------------------------------------------------------------
(* Properties.                                                             *)

\* What is published was decided on the current registry and on directories
\* read since the last publication: no command undoes another one's change and
\* no slow scan publishes an inventory older than the published one.
NoStalePublication == \A p \in Procs : pc[p] = "publish" => p \notin outdated

\* Whoever is given the registry's default of a voice is served by a manifest
\* that a promotable evaluation vouches for, though it was resolved before the
\* default was looked up, and whatever commands and edits come in between.  The
\* profile's own default, a model named by the request and the model of a
\* binding need no evaluation.
ServedWasEvaluated ==
    \A p \in Procs : pc[p] = "serve" /\ job[p].by = "default" =>
        <<served[p].id, served[p].rev>> \in Evaluated

\* Only an explicit command takes a model out of quarantine: no scan does, not
\* even after its files are as they were.
QuarantineHolds ==
    [][\A m \in Models :
          registry.models[m] # NoEntry /\ registry.models[m].status = "quarantined" =>
              \/ registry'.models[m].status = "quarantined"
              \/ \E p \in Procs : pc[p] = "publish" /\ pc'[p] = "idle"
                                  /\ job[p].op \in {"set", "retire"} /\ job[p].id = m]_allVars

\* A manifest appears only over complete weights and is never overwritten by
\* an import, though imports are interrupted, repeated and concurrent.
InstalledWhole ==
    [][\A d \in Dirs : disk'[d] # disk[d] /\ edits' = edits =>
          disk[d] = NoFile /\ \A role \in Roles : weights'[d][role] = "good"]_allVars

-----------------------------------------------------------------------------
(* What registry, commands and requests implement.                         *)

Status == [m \in Models |-> registry.models[m].status]
Revision == [m \in Models |-> IF Registered(registry, m)
                              THEN registry.models[m].rev ELSE NoFile]
Known == [p \in Procs |-> IF pc[p] = "resolve" THEN {i.id : i \in found[p]} ELSE {}]
Answers == [p \in Procs |->
               IF pc[p] = "serve"
               THEN [id |-> served[p].id, rev |-> served[p].rev, by |-> job[p].by]
               ELSE NoFile]

Lifecycle == INSTANCE ModelLifecycle WITH
    Clients <- Procs, status <- Status, revision <- Revision,
    default <- registry.defaults, known <- Known, answer <- Answers

\* Commands in processes of their own, which scan, decide and publish in
\* separate steps and die between them, take effect one after the other; and
\* requests that read in between are served by registered revisions, the
\* registry's default of a voice by an evaluated one.
ImplementsLifecycle == Lifecycle!Spec

=============================================================================
