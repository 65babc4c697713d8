---------------------------- MODULE ModelRegistry ----------------------------
(***************************************************************************)
(* server/model_registry.py: the Model Root, where each directory holds a  *)
(* manifest and its weights, and the registry file with the lifecycle of   *)
(* every model and the default of every voice.  Administrative commands    *)
(* run in separate processes; each holds one file lock while it looks,     *)
(* decides and replaces the registry file.  Requests read without it.      *)
(*                                                                         *)
(* pc of a process: idle (which includes the wait for the lock), look,     *)
(* publish; resolve, serve (a request).  ModelImport adds the steps of an  *)
(* import: gpt, sovits, manifest.                                          *)
(***************************************************************************)
EXTENDS Naturals

CONSTANTS
    Procs,     \* administrative commands and request handlers
    Models,    \* model ids
    Voices,
    VoiceOf,   \* VoiceOf[m]: the voice of model m, or Shared
    Shared,
    Profile,   \* Profile[v]: the registry-backed models of v's voice profile
    Dirs,      \* directories of the Model Root that can hold a model.json
    Revs,      \* manifests by content; a revision is the digest of one
    Declares,  \* Declares[r]: the lifecycle status manifest r asks for
    Assigned,  \* the statuses administrators assign by hand
    Evaluated, \* models and revisions with a promotable evaluation record
    NoOne, NoModel, NoFile

Roles == {"gpt", "sovits"}
\* "candidate" stands for "discovered" too: nothing distinguishes them.
Statuses == {"candidate", "validated", "default", "retired", "quarantined"}

ASSUME RegistryAssumption ==
    /\ VoiceOf \in [Models -> Voices \cup {Shared}]
    /\ Shared \notin Voices
    /\ Profile \in [Voices -> SUBSET Models]
    /\ Declares \in [Revs -> Statuses]
    /\ Assigned \subseteq Statuses
    /\ Evaluated \subseteq Models \X Revs
    /\ NoOne \notin Procs
    /\ NoModel \notin Models

VARIABLES
    disk,      \* disk[d]: the manifest of directory d, or NoFile
    weights,   \* weights[d][role]: good (as the manifest records), bad, none
    registry,  \* model-registry.json
    lock,      \* the process holding model-registry.json.lock
    pc,
    job,       \* the operation of a process, its model and argument
    todo,      \* todo[p]: the directories p's scan has not read yet, or the
               \* models of the profile its request has not resolved yet
    found,     \* found[p]: the valid models it has read
    draft,     \* the registry p is about to publish
    served,    \* served[p]: the manifest p's request is served by, or NoFile
    outdated   \* processes that looked before the last publication (history)

rootVars == <<disk, weights>>
procVars == <<pc, job, todo, found, draft, served>>
vars == <<rootVars, registry, lock, procVars, outdated>>

Manifests == [id : Models, rev : Revs]
Entries == [status : Statuses, present : BOOLEAN, rev : Revs, dir : Dirs,
            error : BOOLEAN]
NoEntry == [status |-> "none"]
Registries == [models : [Models -> Entries \cup {NoEntry}],
               defaults : [Voices -> Models \cup {NoModel}]]
EmptyRegistry == [models |-> [m \in Models |-> NoEntry],
                  defaults |-> [v \in Voices |-> NoModel]]
Items == [dir : Dirs, id : Models, rev : Revs]

Registered(reg, m) == reg.models[m] # NoEntry

\* validate_manifest: every recorded artifact is there with its digest.
Valid(d) == disk[d] # NoFile /\ \A role \in Roles : weights[d][role] = "good"

Goto(p, l) == pc' = [pc EXCEPT ![p] = l]

NoJob == [op |-> "none"]

\* Every way out releases the lock and forgets what was read.
Leave(p) ==
    /\ Goto(p, "idle")
    /\ lock' = IF lock = p THEN NoOne ELSE lock
    /\ job' = [job EXCEPT ![p] = NoJob]
    /\ todo' = [todo EXCEPT ![p] = {}]
    /\ found' = [found EXCEPT ![p] = {}]
    /\ draft' = [draft EXCEPT ![p] = EmptyRegistry]
    /\ served' = [served EXCEPT ![p] = NoFile]

-----------------------------------------------------------------------------
(* What each operation makes of the registry.                              *)

\* Mutant: a model whose manifest is as registered again leaves quarantine.
KeptStatusForgiving(e, rev) ==
    IF e = NoEntry \/ e.status = "quarantined" THEN Declares[rev] ELSE e.status

\* A known model keeps its status, a new one gets what its manifest asks for.
KeptStatus(e, rev) == IF e = NoEntry THEN Declares[rev] ELSE e.status

Changed(e, rev) == e # NoEntry /\ e.rev # rev

\* Which of two copies is meant cannot be told.
Conflicted(e) ==
    IF e = NoEntry THEN e
    ELSE [e EXCEPT !.status = "quarantined", !.present = FALSE, !.error = TRUE]

\* What scan_model_root makes of model m, found in the places it was found in.
Merged(e, places) ==
    LET place == CHOOSE i \in places : TRUE
    IN  CASE \E i, j \in places : i # j -> Conflicted(e)
          [] places = {} ->
                IF e = NoEntry THEN e ELSE [e EXCEPT !.present = FALSE]
          [] places = {place} /\ Changed(e, place.rev) ->
                [e EXCEPT !.status = "quarantined", !.present = TRUE, !.error = TRUE]
          [] OTHER ->
                [status |-> KeptStatus(e, place.rev), present |-> TRUE,
                 rev |-> place.rev, dir |-> place.dir, error |-> FALSE]
Scanned(reg, items) ==
    [reg EXCEPT !.models =
        [m \in Models |-> Merged(reg.models[m], {i \in items : i.id = m})]]

\* Mutant: the manifest is not compared with the registered revision.
ResolvableUnpinned(reg, m) ==
    LET e == reg.models[m] IN
    /\ Registered(reg, m) /\ e.present /\ e.status # "quarantined" /\ ~e.error
    /\ Valid(e.dir) /\ disk[e.dir].id = m

\* resolve_model
Resolvable(reg, m) ==
    LET e == reg.models[m] IN
    /\ Registered(reg, m) /\ e.present /\ e.status # "quarantined" /\ ~e.error
    /\ Valid(e.dir)
    /\ disk[e.dir] = [id |-> m, rev |-> e.rev]

\* model_is_promotable
Evidence(m, rev) == <<m, rev>> \in Evaluated

\* The checks of promote_model.
Promotable(reg, m) ==
    LET e == reg.models[m] IN
    /\ Registered(reg, m)
    /\ VoiceOf[m] # Shared
    /\ e.status \in {"validated", "default"}
    /\ Resolvable(reg, m)
    /\ Evidence(m, e.rev)

\* Mutant: the model that was the default keeps that status.
PromotedBeside(reg, m) ==
    [models |-> [reg.models EXCEPT ![m].status = "default"],
     defaults |-> [reg.defaults EXCEPT ![VoiceOf[m]] = m]]

Promoted(reg, m) ==
    LET old == reg.defaults[VoiceOf[m]]
        Demoted(n) == n = old /\ n # m /\ Registered(reg, n)
                      /\ reg.models[n].status = "default"
    IN  [models |-> [n \in Models |->
                        CASE n = m -> [reg.models[n] EXCEPT !.status = "default"]
                          [] Demoted(n) -> [reg.models[n] EXCEPT !.status = "validated"]
                          [] OTHER -> reg.models[n]],
         defaults |-> [reg.defaults EXCEPT ![VoiceOf[m]] = m]]

IsDefault(reg, m) == VoiceOf[m] # Shared /\ reg.defaults[VoiceOf[m]] = m

\* default_model_id: the default must still be in order.
DefaultModel(reg, v) ==
    LET m == reg.defaults[v] IN
    IF /\ m # NoModel
       /\ reg.models[m].status = "default" /\ reg.models[m].present
       /\ ~reg.models[m].error
    THEN m ELSE NoModel

-----------------------------------------------------------------------------
(* Administrative commands.                                                *)

Jobs ==
    [op : {"scan"}] \cup [op : {"promote", "retire"}, id : Models]
    \cup [op : {"set"}, id : Models, status : Assigned]

\* An import goes on to scan; any other command starts here.
Calls(p, j) == pc[p] = "idle" \/ (pc[p] = "lock" /\ j.op = "scan")

Locked(p, j) ==
    /\ Goto(p, "look")
    /\ job' = [job EXCEPT ![p] = j]
    /\ todo' = [todo EXCEPT ![p] = IF j.op = "scan" THEN Dirs ELSE {}]
    /\ UNCHANGED <<rootVars, registry, found, draft, served, outdated>>

\* Mutant: who has waited long enough goes on without the lock.
LockOrProceed(p, j) ==
    /\ Calls(p, j)
    /\ lock' = IF lock = NoOne THEN p ELSE lock
    /\ Locked(p, j)

\* _registry_write_lock: a command waits for the lock, having read nothing ...
LockRegistry(p, j) ==
    /\ Calls(p, j)
    /\ lock = NoOne
    /\ lock' = p
    /\ Locked(p, j)

\* ... and gives up after a while.
LockTimeout(p) ==
    /\ pc[p] = "lock"
    /\ lock # NoOne
    /\ Leave(p)
    /\ UNCHANGED <<rootVars, registry, outdated>>

\* A scan reads and hashes one directory after the other.
ReadDirectory(p, d) ==
    /\ pc[p] = "look"
    /\ d \in todo[p]
    /\ todo' = [todo EXCEPT ![p] = @ \ {d}]
    /\ found' = [found EXCEPT ![p] =
                    IF Valid(d)
                    THEN @ \cup {[dir |-> d, id |-> disk[d].id, rev |-> disk[d].rev]}
                    ELSE @]
    /\ UNCHANGED <<rootVars, registry, lock, pc, job, draft, served, outdated>>

\* What the command wants the registry to be; none if its checks refuse.
Drafts(p) ==
    LET j == job[p] IN
    CASE j.op = "scan" -> {Scanned(registry, found[p])}
      [] j.op = "promote" ->
            IF Promotable(registry, j.id) THEN {Promoted(registry, j.id)} ELSE {}
      [] j.op = "retire" ->
            IF Registered(registry, j.id) /\ ~IsDefault(registry, j.id)
            THEN {[registry EXCEPT !.models[j.id].status = "retired"]} ELSE {}
      [] j.op = "set" ->
            IF Registered(registry, j.id)
            THEN {[registry EXCEPT !.models[j.id].status = j.status]} ELSE {}

\* Load the registry, decide.
Decide(p) ==
    /\ pc[p] = "look"
    /\ todo[p] = {}
    /\ \/ /\ \E r \in Drafts(p) : draft' = [draft EXCEPT ![p] = r]
          /\ Goto(p, "publish")
          /\ UNCHANGED <<lock, job, todo, found, served, outdated>>
       \/ /\ Drafts(p) = {}
          /\ Leave(p)
          /\ outdated' = outdated \ {p}
    /\ UNCHANGED <<rootVars, registry>>

Looking == {q \in Procs : pc[q] \in {"look", "publish"}}

\* _save_registry_unlocked replaces the file at once, or fails.
Publish(p) ==
    /\ pc[p] = "publish"
    /\ \/ registry' = draft[p] /\ outdated' = (outdated \cup Looking) \ {p}
       \/ outdated' = outdated \ {p} /\ UNCHANGED registry
    /\ Leave(p)
    /\ UNCHANGED <<rootVars>>

-----------------------------------------------------------------------------
(* Requests.                                                               *)

\* A request works on the profile of a voice, and is served by some right.
Requests ==
    [op : {"resolve"}, voice : Voices]
    \cup [op : {"serve"}, by : {"default", "profile", "binding"}]

Resolved(m) ==
    LET d == registry.models[m].dir IN [dir |-> d, id |-> disk[d].id, rev |-> disk[d].rev]

\* read_valid_profile resolves every registry-backed model of the profile ...
ReadProfile(p, v) ==
    /\ pc[p] = "idle"
    /\ Goto(p, "resolve")
    /\ job' = [job EXCEPT ![p] = [op |-> "resolve", voice |-> v]]
    /\ todo' = [todo EXCEPT ![p] = Profile[v]]
    /\ found' = [found EXCEPT ![p] = {}]
    /\ UNCHANGED <<rootVars, registry, lock, draft, served, outdated>>

\* ... one after the other; one that is not in order fails the request.
ResolveAlias(p, m) ==
    /\ pc[p] = "resolve"
    /\ m \in todo[p]
    /\ \/ /\ Resolvable(registry, m)
          /\ todo' = [todo EXCEPT ![p] = @ \ {m}]
          /\ found' = [found EXCEPT ![p] = @ \cup {Resolved(m)}]
          /\ UNCHANGED <<lock, pc, job, draft, served>>
       \/ ~Resolvable(registry, m) /\ Leave(p)
    /\ UNCHANGED <<rootVars, registry, outdated>>

Serves(p, by, item) ==
    /\ Goto(p, "serve")
    /\ job' = [job EXCEPT ![p] = [op |-> "serve", by |-> by]]
    /\ found' = [found EXCEPT ![p] = {}]
    /\ served' = [served EXCEPT ![p] = [id |-> item.id, rev |-> item.rev]]
    /\ UNCHANGED <<rootVars, registry, lock, todo, draft, outdated>>

Selecting(p) == pc[p] = "resolve" /\ todo[p] = {}

\* resolve_profile_selection asks for the default of the voice only now, and
\* selects among what is resolved already.
SelectDefault(p) ==
    /\ Selecting(p)
    /\ \E i \in found[p] :
          /\ i.id = DefaultModel(registry, job[p].voice)
          /\ Serves(p, "default", i)

\* The request names a model of the profile; or it names none, and the profile's
\* own default is taken because the registry's is out of order, not in the
\* profile, or cannot be read.
SelectFromProfile(p) ==
    /\ Selecting(p)
    /\ \E i \in found[p] : Serves(p, "profile", i)

\* What is selected, or named in the request, selects a binding of the voice,
\* which names any model: that one is resolved, and what was resolved before is
\* dropped.  (Selection and resolution are one step: they have nothing in common.)
ServeBinding(p, m) ==
    /\ Selecting(p)
    /\ \/ Resolvable(registry, m) /\ Serves(p, "binding", Resolved(m))
       \/ /\ ~Resolvable(registry, m)
          /\ Leave(p)
          /\ UNCHANGED <<rootVars, registry, outdated>>

Answer(p) ==
    /\ pc[p] = "serve"
    /\ Leave(p)
    /\ UNCHANGED <<rootVars, registry, outdated>>

=============================================================================
