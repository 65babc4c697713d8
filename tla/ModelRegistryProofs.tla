------------------------- MODULE ModelRegistryProofs -------------------------
(***************************************************************************)
(* Proofs about ModelImport, for any numbers of processes, models, voices, *)
(* directories and manifests: commands exclude each other (so no draft is  *)
(* stale), a registered model keeps its revision, and with both the        *)
(* default of a voice is always a revision with a promotable evaluation.   *)
(***************************************************************************)
EXTENDS ModelImport, TLAPS

\* A later registry knows what an earlier one knew, by the same revision.
Keeps(reg, new) ==
    \A m \in Models : Registered(reg, m) =>
        Registered(new, m) /\ new.models[m].rev = reg.models[m].rev

\* What each default was promoted by.
Vouched(reg) ==
    \A v \in Voices : reg.defaults[v] # NoModel =>
        /\ Registered(reg, reg.defaults[v])
        /\ Evidence(reg.defaults[v], reg.models[reg.defaults[v]].rev)

Quarantined(reg, m) == Registered(reg, m) /\ reg.models[m].status = "quarantined"

\* A command j may take its own model out of quarantine.
Confines(j, reg, new) ==
    \A m \in Models : Quarantined(reg, m) =>
        Quarantined(new, m) \/ (j.op \in {"set", "retire"} /\ j.id = m)

\* What a process is doing says what it can be working on.
JobFits(p) ==
    /\ pc[p] \in {"look", "publish"} => job[p] \in Jobs
    /\ pc[p] \in Importing => job[p] \in ImportJobs

\* A draft continues the present registry.
DraftFits(p) ==
    pc[p] = "publish" =>
        /\ Keeps(registry, draft[p])
        /\ Vouched(draft[p])
        /\ Confines(job[p], registry, draft[p])

\* What a request has resolved is still registered by the revision it has read.
RequestFits(p) ==
    pc[p] = "resolve" =>
        /\ job[p] \in [op : {"resolve"}, voice : Voices]
        /\ \A i \in found[p] : /\ Registered(registry, i.id)
                               /\ registry.models[i.id].rev = i.rev

\* What a default is served by was evaluated.
ServedFits(p) ==
    pc[p] = "serve" /\ job[p].by = "default" =>
        <<served[p].id, served[p].rev>> \in Evaluated

Exclusive == \A p \in Procs : pc[p] \in {"look", "publish"} => lock = p

RegistryInv ==
    /\ TypeOK
    /\ Exclusive
    /\ outdated = {}
    /\ \A p \in Procs : JobFits(p)
    /\ Vouched(registry)
    /\ \A p \in Procs : DraftFits(p)
    /\ \A p \in Procs : RequestFits(p)
    /\ ServedWasEvaluated

USE RegistryAssumption, ImportAssumption

-----------------------------------------------------------------------------
(* What the operations make of the registry.                               *)

\* An entry is not the missing entry: no status is "none".
LEMMA EntryIsSome == NoEntry \notin Entries
  BY DEF NoEntry, Entries, Statuses

\* A scan gives every model an entry or none, keeps the revision of a known
\* one, and its quarantine.
LEMMA MergedKeeps ==
  ASSUME NEW e \in Entries \cup {NoEntry}, NEW places \in SUBSET Items
  PROVE  /\ Merged(e, places) \in Entries \cup {NoEntry}
         /\ e # NoEntry => /\ Merged(e, places) # NoEntry
                           /\ Merged(e, places).rev = e.rev
                           /\ e.status = "quarantined" =>
                                Merged(e, places).status = "quarantined"
<1> DEFINE place == CHOOSE i \in places : TRUE
           taken == [status |-> KeptStatus(e, place.rev), present |-> TRUE,
                     rev |-> place.rev, dir |-> place.dir, error |-> FALSE]
           changed == [e EXCEPT !.status = "quarantined", !.present = TRUE, !.error = TRUE]
           gone == IF e = NoEntry THEN e ELSE [e EXCEPT !.present = FALSE]
<1>0. \A f : f \in Entries => f # NoEntry
  BY EntryIsSome
<1>1. e # NoEntry => e \in Entries
  OBVIOUS
<1>2. /\ Conflicted(e) \in Entries \cup {NoEntry}
      /\ e # NoEntry => /\ Conflicted(e) \in Entries
                        /\ Conflicted(e).rev = e.rev
                        /\ Conflicted(e).status = "quarantined"
  BY <1>1 DEF Conflicted, Entries, Statuses
<1>3. /\ gone \in Entries \cup {NoEntry}
      /\ e # NoEntry => gone \in Entries /\ gone.rev = e.rev /\ gone.status = e.status
  BY <1>1 DEF Entries, Statuses
<1>4. ASSUME Changed(e, place.rev)
      PROVE  changed \in Entries /\ changed.rev = e.rev /\ changed.status = "quarantined"
  BY <1>1, <1>4 DEF Changed, Entries, Statuses
<1>5. ASSUME places # {}, ~Changed(e, place.rev)
      PROVE  /\ taken \in Entries
             /\ e # NoEntry => taken.rev = e.rev /\ taken.status = e.status
  <2>1. place \in Items
    BY <1>5
  <2>2. place.rev \in Revs /\ place.dir \in Dirs
    BY <2>1 DEF Items
  <2>3. KeptStatus(e, place.rev) \in Statuses
    BY <2>2, <1>1 DEF KeptStatus, Entries
  <2>4. taken \in Entries
    BY <2>2, <2>3 DEF Entries
  <2>5. e # NoEntry => taken.rev = e.rev /\ taken.status = e.status
    BY <1>5 DEF Changed, KeptStatus
  <2> QED  BY <2>4, <2>5
<1> HIDE DEF taken, changed, gone
<1> DEFINE twice == \E i, j \in places : i # j
<1>6. CASE twice
  <2>1. Merged(e, places) = Conflicted(e)
    BY <1>6 DEF Merged
  <2> QED  BY <2>1, <1>0, <1>2
<1>7. CASE places = {}
  <2>1. Merged(e, places) = gone
    BY <1>7 DEF Merged, gone
  <2> QED  BY <2>1, <1>0, <1>3
<1>8. CASE ~twice /\ places # {} /\ Changed(e, place.rev)
  <2>1. Merged(e, places) = changed
    BY <1>8 DEF Merged, changed
  <2> QED  BY <2>1, <1>0, <1>4, <1>8
<1>9. CASE ~twice /\ places # {} /\ ~Changed(e, place.rev)
  <2>1. Merged(e, places) = taken
    BY <1>9 DEF Merged, taken
  <2> QED  BY <2>1, <1>0, <1>5, <1>9
<1> QED  BY <1>6, <1>7, <1>8, <1>9

\* A scan continues the registry, whatever it has found.
LEMMA ScannedContinues ==
  ASSUME NEW reg \in Registries, NEW items \in SUBSET Items, NEW j
  PROVE  /\ Scanned(reg, items) \in Registries
         /\ Keeps(reg, Scanned(reg, items))
         /\ Vouched(reg) => Vouched(Scanned(reg, items))
         /\ Confines(j, reg, Scanned(reg, items))
<1> DEFINE new == Scanned(reg, items)
           places(m) == {i \in items : i.id = m}
<1>1. \A m \in Models : reg.models[m] \in Entries \cup {NoEntry}
  BY DEF Registries
<1>2. /\ new.defaults = reg.defaults
      /\ new.models = [m \in Models |-> Merged(reg.models[m], places(m))]
  BY DEF Scanned, Registries
<1>3. \A m \in Models :
        /\ Merged(reg.models[m], places(m)) \in Entries \cup {NoEntry}
        /\ reg.models[m] # NoEntry =>
             /\ Merged(reg.models[m], places(m)) # NoEntry
             /\ Merged(reg.models[m], places(m)).rev = reg.models[m].rev
             /\ reg.models[m].status = "quarantined" =>
                  Merged(reg.models[m], places(m)).status = "quarantined"
  BY <1>1, MergedKeeps
<1>4. new \in Registries
  BY <1>2, <1>3 DEF Scanned, Registries
<1>5. Keeps(reg, new)
  BY <1>2, <1>3 DEF Keeps, Registered
<1>6. Vouched(reg) => Vouched(new)
  <2>1. \A v \in Voices : reg.defaults[v] # NoModel => reg.defaults[v] \in Models
    BY DEF Registries
  <2> QED  BY <2>1, <1>2, <1>5 DEF Vouched, Keeps
<1>7. Confines(j, reg, new)
  BY <1>2, <1>3 DEF Confines, Quarantined, Registered
<1> QED  BY <1>4, <1>5, <1>6, <1>7

\* Changing the status of one registered model continues the registry.
LEMMA StatusContinues ==
  ASSUME NEW reg \in Registries, NEW m \in Models, NEW s \in Statuses,
         Registered(reg, m), NEW new, new = [reg EXCEPT !.models[m].status = s]
  PROVE  /\ new \in Registries
         /\ Keeps(reg, new)
         /\ Vouched(reg) => Vouched(new)
         /\ \A n \in Models : n # m => new.models[n] = reg.models[n]
<1>1. reg.models[m] \in Entries
  BY DEF Registries, Registered
<1>2. /\ new.defaults = reg.defaults
      /\ new.models = [reg.models EXCEPT ![m].status = s]
  BY DEF Registries
<1>3. /\ [reg.models[m] EXCEPT !.status = s] \in Entries
      /\ [reg.models[m] EXCEPT !.status = s].rev = reg.models[m].rev
  BY <1>1 DEF Entries
<1>4. /\ new.models[m] = [reg.models[m] EXCEPT !.status = s]
      /\ \A n \in Models : n # m => new.models[n] = reg.models[n]
  BY <1>2 DEF Registries
<1>5. new \in Registries
  BY <1>1, <1>3 DEF Registries
<1>6. Keeps(reg, new)
  BY <1>3, <1>4, EntryIsSome DEF Keeps, Registered
<1>7. Vouched(reg) => Vouched(new)
  <2>1. \A v \in Voices : reg.defaults[v] # NoModel => reg.defaults[v] \in Models
    BY DEF Registries
  <2> QED  BY <2>1, <1>2, <1>6 DEF Vouched, Keeps
<1> QED  BY <1>4, <1>5, <1>6, <1>7

\* A promotion continues the registry: its model is evaluated.
LEMMA PromotedContinues ==
  ASSUME NEW reg \in Registries, NEW m \in Models, Promotable(reg, m), NEW j
  PROVE  /\ Promoted(reg, m) \in Registries
         /\ Keeps(reg, Promoted(reg, m))
         /\ Vouched(reg) => Vouched(Promoted(reg, m))
         /\ Confines(j, reg, Promoted(reg, m))
<1> DEFINE new == Promoted(reg, m)
           v == VoiceOf[m]
           old == reg.defaults[v]
           demoted(n) == n = old /\ n # m /\ Registered(reg, n)
                         /\ reg.models[n].status = "default"
<1>1. v \in Voices
  BY DEF Promotable
<1>2. /\ new.defaults = [reg.defaults EXCEPT ![v] = m]
      /\ \A n \in Models :
           /\ n = m => new.models[n] = [reg.models[n] EXCEPT !.status = "default"]
           /\ demoted(n) => new.models[n] = [reg.models[n] EXCEPT !.status = "validated"]
           /\ n # m /\ ~demoted(n) => new.models[n] = reg.models[n]
  BY DEF Promoted, Registries
<1>3. \A n \in Models : Registered(reg, n) => reg.models[n] \in Entries
  BY DEF Registries, Registered
<1>4. Registered(reg, m) /\ reg.models[m].status # "quarantined"
  BY DEF Promotable
<1>5. \A n \in Models :
        /\ new.models[n] \in Entries \cup {NoEntry}
        /\ Registered(reg, n) => /\ new.models[n] \in Entries
                                 /\ new.models[n].rev = reg.models[n].rev
                                 /\ Quarantined(reg, n) => new.models[n] = reg.models[n]
  <2> SUFFICES ASSUME NEW n \in Models
               PROVE  /\ new.models[n] \in Entries \cup {NoEntry}
                      /\ Registered(reg, n) =>
                           /\ new.models[n] \in Entries
                           /\ new.models[n].rev = reg.models[n].rev
                           /\ Quarantined(reg, n) => new.models[n] = reg.models[n]
    OBVIOUS
  <2>1. CASE n = m
    <3>1. new.models[n] = [reg.models[n] EXCEPT !.status = "default"]
      BY <2>1, <1>2
    <3>2. new.models[m] \in Entries /\ new.models[m].rev = reg.models[m].rev
      <4>1. "default" \in Statuses /\ reg.models[m] \in Entries
        BY <1>3, <1>4 DEF Statuses
      <4> QED  BY <2>1, <3>1, <4>1 DEF Entries
    <3>3. ~Quarantined(reg, m)
      BY <1>4 DEF Quarantined
    <3> QED  BY <2>1, <3>2, <3>3, Zenon
  <2>2. CASE demoted(n)
    <3>1. new.models[n] = [reg.models[n] EXCEPT !.status = "validated"]
      BY <2>2, <1>2
    <3>2. reg.models[n].status = "default"
      BY <2>2
    <3>3. reg.models[n] \in Entries
      BY <2>2, <1>3
    <3>4. new.models[n] \in Entries /\ new.models[n].rev = reg.models[n].rev
      <4>1. "validated" \in Statuses
        BY DEF Statuses
      <4> QED  BY <3>1, <3>3, <4>1 DEF Entries
    <3>5. ~Quarantined(reg, n)
      BY <3>2 DEF Quarantined
    <3> QED  BY <3>4, <3>5, Zenon
  <2>3. CASE n # m /\ ~demoted(n)
    BY <2>3, <1>2, <1>3 DEF Registries
  <2> QED  BY <2>1, <2>2, <2>3
<1>6. new \in Registries
  <2>1. new = [models |-> new.models, defaults |-> new.defaults]
    BY DEF Promoted
  <2>2. new.models = [n \in Models |-> new.models[n]]
    BY DEF Promoted
  <2>3. new.models \in [Models -> Entries \cup {NoEntry}]
    BY <2>2, <1>5
  <2>4. new.defaults \in [Voices -> Models \cup {NoModel}]
    BY <1>1, <1>2 DEF Registries
  <2> QED  BY <2>1, <2>3, <2>4, Zenon DEF Registries
<1>7. Keeps(reg, new)
  BY <1>5, EntryIsSome DEF Keeps, Registered
<1>8. Vouched(reg) => Vouched(new)
  <2>1. \A w \in Voices : reg.defaults[w] # NoModel => reg.defaults[w] \in Models
    BY DEF Registries
  <2>2. \A w \in Voices : new.defaults[w] = IF w = v THEN m ELSE reg.defaults[w]
    BY <1>2 DEF Registries
  <2>3. Evidence(m, reg.models[m].rev)
    BY DEF Promotable
  <2> QED  BY <2>1, <2>2, <2>3, <1>4, <1>7 DEF Vouched, Keeps
<1>9. Confines(j, reg, new)
  BY <1>5, EntryIsSome DEF Confines, Quarantined, Registered
<1> QED  BY <1>6, <1>7, <1>8, <1>9

\* Whatever a command decides continues the registry it has read.
LEMMA DraftsContinue ==
  ASSUME NEW p \in Procs, registry \in Registries, found[p] \in SUBSET Items,
         job[p] \in Jobs, NEW r \in Drafts(p)
  PROVE  /\ r \in Registries
         /\ Keeps(registry, r)
         /\ Vouched(registry) => Vouched(r)
         /\ Confines(job[p], registry, r)
<1> DEFINE j == job[p]
<1>1. CASE j \in [op : {"scan"}]
  <2>1. r = Scanned(registry, found[p])
    BY <1>1 DEF Drafts
  <2> QED  BY <2>1, ScannedContinues
<1>2. CASE j \in [op : {"promote", "retire"}, id : Models] /\ j.op = "promote"
  <2>1. Promotable(registry, j.id) /\ r = Promoted(registry, j.id)
    BY <1>2 DEF Drafts
  <2> QED  BY <1>2, <2>1, PromotedContinues
<1>3. CASE j \in [op : {"promote", "retire"}, id : Models] /\ j.op = "retire"
  <2>1. /\ Registered(registry, j.id)
        /\ r = [registry EXCEPT !.models[j.id].status = "retired"]
    BY <1>3 DEF Drafts
  <2>2. "retired" \in Statuses /\ j.id \in Models
    BY <1>3 DEF Statuses
  <2>3. /\ r \in Registries /\ Keeps(registry, r)
        /\ Vouched(registry) => Vouched(r)
        /\ \A n \in Models : n # j.id => r.models[n] = registry.models[n]
    BY <2>1, <2>2, StatusContinues
  <2> QED  BY <1>3, <2>3 DEF Confines, Quarantined, Registered
<1>4. CASE j \in [op : {"set"}, id : Models, status : Assigned]
  <2>1. /\ Registered(registry, j.id)
        /\ r = [registry EXCEPT !.models[j.id].status = j.status]
    BY <1>4 DEF Drafts
  <2>2. j.status \in Statuses /\ j.id \in Models
    BY <1>4
  <2>3. /\ r \in Registries /\ Keeps(registry, r)
        /\ Vouched(registry) => Vouched(r)
        /\ \A n \in Models : n # j.id => r.models[n] = registry.models[n]
    BY <2>1, <2>2, StatusContinues
  <2> QED  BY <1>4, <2>3 DEF Confines, Quarantined, Registered
<1> QED  BY <1>1, <1>2, <1>3, <1>4 DEF Jobs

-----------------------------------------------------------------------------
(* The invariant.                                                          *)

\* Nothing but process p moves, and p does not take the lock from another.
Only(p) ==
    /\ \A q \in Procs \ {p} : /\ pc'[q] = pc[q] /\ job'[q] = job[q]
                              /\ draft'[q] = draft[q] /\ served'[q] = served[q]
                              /\ found'[q] = found[q]
    /\ \A q \in Procs \ {p} : lock = q => lock' = q

\* What process p has to establish if it publishes nothing.
LEMMA LocalStep ==
  ASSUME RegistryInv, TypeOK', NEW p \in Procs, Only(p),
         UNCHANGED registry, outdated' = {},
         pc'[p] \in {"look", "publish"} => lock' = p,
         JobFits(p)', DraftFits(p)', RequestFits(p)', ServedFits(p)'
  PROVE  RegistryInv'
<1>1. Exclusive'
  BY DEF RegistryInv, Exclusive, Only
<1>2. \A q \in Procs : JobFits(q)'
  <2> SUFFICES ASSUME NEW q \in Procs PROVE JobFits(q)'
    OBVIOUS
  <2> QED  BY DEF RegistryInv, JobFits, Only, Jobs, ImportJobs, Importing
<1>3. Vouched(registry)'
  BY DEF RegistryInv, Vouched, Registered, Evidence
<1>4. \A q \in Procs : DraftFits(q)'
  <2> SUFFICES ASSUME NEW q \in Procs PROVE DraftFits(q)'
    OBVIOUS
  <2>1. CASE q = p
    BY <2>1
  <2>2. CASE q # p
    <3>1. pc'[q] = pc[q] /\ draft'[q] = draft[q] /\ job'[q] = job[q] /\ registry' = registry
      BY <2>2 DEF Only
    <3>2. DraftFits(q)
      BY DEF RegistryInv
    <3> QED  BY <3>1, <3>2 DEF DraftFits
  <2> QED  BY <2>1, <2>2
<1>5. \A q \in Procs : RequestFits(q)'
  <2> SUFFICES ASSUME NEW q \in Procs PROVE RequestFits(q)'
    OBVIOUS
  <2>1. CASE q = p
    BY <2>1
  <2>2. CASE q # p
    <3>1. pc'[q] = pc[q] /\ job'[q] = job[q] /\ found'[q] = found[q] /\ registry' = registry
      BY <2>2 DEF Only
    <3>2. RequestFits(q)
      BY DEF RegistryInv
    <3> QED  BY <3>1, <3>2 DEF RequestFits, Registered
  <2> QED  BY <2>1, <2>2
<1>6. ServedWasEvaluated'
  BY DEF RegistryInv, ServedWasEvaluated, ServedFits, Only
<1> QED  BY <1>1, <1>2, <1>3, <1>4, <1>5, <1>6 DEF RegistryInv

\* Whoever leaves has nothing to answer for.
LEMMA LeaveStep ==
  ASSUME RegistryInv, TypeOK', NEW p \in Procs, Leave(p),
         UNCHANGED registry, outdated' = {}
  PROVE  RegistryInv'
<1>1. pc'[p] = "idle" /\ Only(p)
  BY DEF RegistryInv, TypeOK, Leave, Goto, Only
<1>2. JobFits(p)' /\ DraftFits(p)' /\ RequestFits(p)' /\ ServedFits(p)'
  BY <1>1 DEF JobFits, DraftFits, RequestFits, ServedFits, Importing
<1> QED  BY <1>1, <1>2, LocalStep

LEMMA EmptyIsTyped == EmptyRegistry \in Registries
  BY DEF EmptyRegistry, Registries

LEMMA LeaveTyped ==
  ASSUME TypeOK, NEW p \in Procs, Leave(p)
  PROVE  /\ lock' \in Procs \cup {NoOne}
         /\ pc' \in [Procs -> Labels]
         /\ job' \in [Procs -> Jobs \cup ImportJobs \cup Requests \cup {NoJob}]
         /\ todo' \in [Procs -> SUBSET (Dirs \cup Models)]
         /\ found' \in [Procs -> SUBSET Items]
         /\ draft' \in [Procs -> Registries]
         /\ served' \in [Procs -> Manifests \cup {NoFile}]
<1> HIDE DEF Jobs, ImportJobs, Requests, Registries, Manifests, Items
<1> QED  BY EmptyIsTyped DEF TypeOK, Leave, Goto, Labels

LEMMA DefaultIsKnown ==
  ASSUME registry \in Registries, Vouched(registry), NEW v \in Voices,
         DefaultModel(registry, v) # NoModel
  PROVE  LET m == DefaultModel(registry, v)
         IN  m \in Models /\ Registered(registry, m)
             /\ Evidence(m, registry.models[m].rev)
<1>1. DefaultModel(registry, v) = registry.defaults[v]
  BY DEF DefaultModel
<1>2. registry.defaults[v] \in Models
  BY <1>1 DEF Registries
<1> QED  BY <1>1, <1>2 DEF Vouched

-----------------------------------------------------------------------------
(* The steps.                                                              *)

LEMMA LockStep ==
  ASSUME RegistryInv, NEW p \in Procs, NEW j \in Jobs, LockRegistry(p, j),
         UNCHANGED edits
  PROVE  RegistryInv'
<1>1. /\ pc'[p] = "look" /\ job'[p] = j /\ lock' = p
      /\ lock = NoOne /\ UNCHANGED registry /\ outdated' = {}
      /\ Only(p)
  BY DEF RegistryInv, TypeOK, LockRegistry, Locked, Goto, Only
<1>2. TypeOK'
  BY DEF RegistryInv, TypeOK, Labels, LockRegistry, Locked, Goto, rootVars
<1>3. JobFits(p)' /\ DraftFits(p)' /\ RequestFits(p)' /\ ServedFits(p)'
  BY <1>1 DEF JobFits, DraftFits, RequestFits, ServedFits, Importing
<1> QED  BY <1>1, <1>2, <1>3, LocalStep

LEMMA TimeoutStep ==
  ASSUME RegistryInv, NEW p \in Procs, LockTimeout(p), UNCHANGED edits
  PROVE  RegistryInv'
<1>1. TypeOK'
  BY LeaveTyped DEF RegistryInv, TypeOK, LockTimeout, rootVars
<1> QED  BY <1>1, LeaveStep DEF RegistryInv, LockTimeout

LEMMA ReadStep ==
  ASSUME RegistryInv, NEW p \in Procs, NEW d \in Dirs, ReadDirectory(p, d),
         UNCHANGED edits
  PROVE  RegistryInv'
<1>1. /\ pc' = pc /\ job' = job /\ lock' = lock /\ draft' = draft
      /\ pc[p] = "look" /\ UNCHANGED registry /\ outdated' = {}
      /\ Only(p)
  BY DEF RegistryInv, TypeOK, ReadDirectory, Only
<1>2. TypeOK'
  <2>1. Valid(d) => [dir |-> d, id |-> disk[d].id, rev |-> disk[d].rev] \in Items
    BY DEF RegistryInv, TypeOK, Valid, Manifests, Items
  <2>2. found' \in [Procs -> SUBSET Items]
    BY <2>1 DEF RegistryInv, TypeOK, ReadDirectory
  <2> QED  BY <2>2 DEF RegistryInv, TypeOK, ReadDirectory, rootVars
<1>3. JobFits(p)' /\ DraftFits(p)' /\ RequestFits(p)' /\ ServedFits(p)'
  BY <1>1 DEF RegistryInv, JobFits, DraftFits, RequestFits, ServedFits, Importing
<1>4. pc'[p] \in {"look", "publish"} => lock' = p
  BY <1>1 DEF RegistryInv, Exclusive
<1> QED  BY <1>1, <1>2, <1>3, <1>4, LocalStep

LEMMA DecideStep ==
  ASSUME RegistryInv, NEW p \in Procs, Decide(p), UNCHANGED edits
  PROVE  RegistryInv'
<1>1. CASE Drafts(p) = {} /\ Leave(p)
  <2>1. TypeOK'
    BY <1>1, LeaveTyped DEF RegistryInv, TypeOK, Decide, rootVars
  <2> QED  BY <1>1, <2>1, LeaveStep DEF RegistryInv, Decide
<1>2. ASSUME NEW r \in Drafts(p), draft' = [draft EXCEPT ![p] = r],
             Goto(p, "publish"), UNCHANGED <<lock, job, todo, found, served, outdated>>
      PROVE  RegistryInv'
  <2>1. /\ registry \in Registries /\ found[p] \in SUBSET Items /\ job[p] \in Jobs
        /\ Vouched(registry) /\ pc[p] = "look" /\ UNCHANGED registry
    BY DEF RegistryInv, TypeOK, JobFits, Decide
  <2>2. /\ r \in Registries /\ Keeps(registry, r) /\ Vouched(r)
        /\ Confines(job[p], registry, r)
    BY <2>1, DraftsContinue
  <2>3. TypeOK'
    BY <1>2, <2>1, <2>2 DEF RegistryInv, TypeOK, Labels, Decide, Goto, rootVars
  <2>4. /\ pc'[p] = "publish" /\ draft'[p] = r /\ job' = job
        /\ lock' = lock /\ outdated' = {}
        /\ Only(p)
    BY <1>2 DEF RegistryInv, TypeOK, Goto, Only
  <2>5. DraftFits(p)'
    BY <2>1, <2>2, <2>4 DEF DraftFits, Keeps, Vouched, Confines, Quarantined,
                            Registered, Evidence
  <2>6. JobFits(p)' /\ RequestFits(p)' /\ ServedFits(p)'
    BY <2>1, <2>4 DEF JobFits, RequestFits, ServedFits, Importing
  <2>7. pc'[p] \in {"look", "publish"} => lock' = p
    BY <2>1, <2>4 DEF RegistryInv, Exclusive
  <2> QED  BY <2>1, <2>3, <2>4, <2>5, <2>6, <2>7, LocalStep
<1> QED  BY <1>1, <1>2 DEF Decide

\* The one step that changes the registry: whoever publishes is alone, and
\* requests find what they have resolved registered as it was.
LEMMA PublishStep ==
  ASSUME RegistryInv, NEW p \in Procs, Publish(p), UNCHANGED edits
  PROVE  RegistryInv'
<1>1. TypeOK'
  <2>1. registry' \in Registries /\ outdated' \subseteq Procs
    BY DEF RegistryInv, TypeOK, Publish, Looking
  <2>2. TypeOK /\ Leave(p) /\ UNCHANGED <<disk, weights>>
    BY DEF RegistryInv, Publish, rootVars
  <2> QED  BY <2>1, <2>2, LeaveTyped DEF TypeOK
<1>2. \A q \in Procs \ {p} : pc[q] \notin {"look", "publish"}
  BY DEF RegistryInv, Exclusive, Publish
<1>3. outdated' = {}
  BY <1>2 DEF RegistryInv, Publish, Looking
<1>4. CASE UNCHANGED registry
  BY <1>1, <1>3, <1>4, LeaveStep DEF Publish
<1>5. CASE registry' = draft[p]
  <2>1. /\ Keeps(registry, registry') /\ Vouched(draft[p]) /\ registry' = draft[p]
    BY <1>5 DEF RegistryInv, DraftFits, Publish
  <2>2. pc'[p] = "idle" /\ Only(p)
    BY DEF RegistryInv, TypeOK, Publish, Leave, Goto, Only
  <2>3. Exclusive'
    BY <1>2, <2>2 DEF Exclusive, Only
  <2>4. \A q \in Procs : JobFits(q)'
    BY <2>2 DEF RegistryInv, JobFits, Only, Importing, Jobs, ImportJobs
  <2>5. Vouched(registry)'
    BY <2>1 DEF Vouched, Registered, Evidence
  <2>6. \A q \in Procs : DraftFits(q)'
    BY <1>2, <2>2 DEF DraftFits, Only
  <2>7. \A q \in Procs : RequestFits(q)'
    <3> SUFFICES ASSUME NEW q \in Procs, pc'[q] = "resolve" PROVE RequestFits(q)'
      BY DEF RequestFits
    <3>1. pc[q] = "resolve" /\ job'[q] = job[q] /\ found'[q] = found[q]
      BY <2>2 DEF Only
    <3>2. /\ job[q] \in [op : {"resolve"}, voice : Voices]
          /\ \A i \in found[q] : /\ Registered(registry, i.id)
                                 /\ registry.models[i.id].rev = i.rev
      BY <3>1 DEF RegistryInv, RequestFits
    <3>3. \A i \in found[q] : i.id \in Models
      BY DEF RegistryInv, TypeOK, Items
    <3>4. \A i \in found[q] : /\ Registered(registry', i.id)
                              /\ registry'.models[i.id].rev = i.rev
      BY <2>1, <3>2, <3>3 DEF Keeps
    <3> QED  BY <3>1, <3>2, <3>4 DEF RequestFits, Registered
  <2>8. ServedWasEvaluated'
    BY <2>2 DEF RegistryInv, ServedWasEvaluated, Only
  <2> QED  BY <1>1, <1>3, <2>3, <2>4, <2>5, <2>6, <2>7, <2>8 DEF RegistryInv
<1> QED  BY <1>4, <1>5 DEF Publish

\* A request starts having resolved nothing.
LEMMA ProfileStep ==
  ASSUME RegistryInv, NEW p \in Procs, NEW v \in Voices, ReadProfile(p, v),
         UNCHANGED edits
  PROVE  RegistryInv'
<1>1. /\ pc'[p] = "resolve" /\ job'[p] = [op |-> "resolve", voice |-> v]
      /\ found'[p] = {} /\ UNCHANGED registry /\ outdated' = {}
      /\ Only(p)
  BY DEF RegistryInv, TypeOK, ReadProfile, Goto, Only
<1>2. TypeOK'
  <2>1. job' \in [Procs -> Jobs \cup ImportJobs \cup Requests \cup {NoJob}]
    <3>1. [op |-> "resolve", voice |-> v] \in Requests
      BY DEF Requests
    <3> QED  BY <3>1 DEF RegistryInv, TypeOK, ReadProfile
  <2>2. todo' \in [Procs -> SUBSET (Dirs \cup Models)]
    BY DEF RegistryInv, TypeOK, ReadProfile
  <2> QED  BY <2>1, <2>2 DEF RegistryInv, TypeOK, Labels, ReadProfile, Goto, rootVars
<1>3. RequestFits(p)'
  BY <1>1 DEF RequestFits
<1>4. JobFits(p)' /\ DraftFits(p)' /\ ServedFits(p)'
  BY <1>1 DEF JobFits, DraftFits, ServedFits, Importing
<1> QED  BY <1>1, <1>2, <1>3, <1>4, LocalStep

\* What is resolved is the revision the model is registered by.
LEMMA ResolvedFits ==
  ASSUME RegistryInv, NEW m \in Models, Resolvable(registry, m)
  PROVE  /\ Resolved(m) \in Items
         /\ Resolved(m).id = m
         /\ Registered(registry, m)
         /\ registry.models[m].rev = Resolved(m).rev
         /\ registry.models[m].status # "quarantined"
<1> DEFINE e == registry.models[m]
<1>1. Registered(registry, m) /\ disk[e.dir] = [id |-> m, rev |-> e.rev]
      /\ e.status # "quarantined"
  BY DEF Resolvable
<1>2. e \in Entries
  BY <1>1 DEF RegistryInv, TypeOK, Registries, Registered
<1>3. e.dir \in Dirs /\ e.rev \in Revs
  BY <1>2 DEF Entries
<1>4. Resolved(m) = [dir |-> e.dir, id |-> m, rev |-> e.rev]
  BY <1>1 DEF Resolved
<1> QED  BY <1>1, <1>3, <1>4 DEF Items

LEMMA AliasStep ==
  ASSUME RegistryInv, NEW p \in Procs, NEW m \in Models, ResolveAlias(p, m),
         UNCHANGED edits
  PROVE  RegistryInv'
<1>1. CASE Leave(p)
  <2>1. TypeOK'
    BY <1>1, LeaveTyped DEF RegistryInv, TypeOK, ResolveAlias, rootVars
  <2> QED  BY <1>1, <2>1, LeaveStep DEF RegistryInv, ResolveAlias
<1>2. CASE ~Leave(p)
  <2>1. /\ pc[p] = "resolve" /\ Resolvable(registry, m)
        /\ todo' = [todo EXCEPT ![p] = @ \ {m}]
        /\ found' = [found EXCEPT ![p] = @ \cup {Resolved(m)}]
        /\ UNCHANGED <<disk, weights, registry, outdated, lock, pc, job, draft, served>>
    BY <1>2 DEF ResolveAlias, rootVars
  <2>2. /\ Resolved(m) \in Items /\ Resolved(m).id = m
        /\ Registered(registry, m) /\ registry.models[m].rev = Resolved(m).rev
    BY <2>1, ResolvedFits
  <2>3. TypeOK'
    <3>1. found' \in [Procs -> SUBSET Items]
      BY <2>1, <2>2 DEF RegistryInv, TypeOK
    <3>2. todo' \in [Procs -> SUBSET (Dirs \cup Models)]
      BY <2>1 DEF RegistryInv, TypeOK
    <3> QED  BY <2>1, <3>1, <3>2 DEF RegistryInv, TypeOK
  <2>4. /\ found'[p] = found[p] \cup {Resolved(m)} /\ outdated' = {}
        /\ Only(p)
    BY <2>1 DEF RegistryInv, TypeOK, Only
  <2>5. RequestFits(p)'
    <3>1. RequestFits(p)
      BY DEF RegistryInv
    <3> QED  BY <2>1, <2>2, <2>4, <3>1 DEF RequestFits, Registered
  <2>6. JobFits(p)' /\ DraftFits(p)' /\ ServedFits(p)'
    BY <2>1 DEF JobFits, DraftFits, ServedFits, Importing
  <2>7. pc'[p] \notin {"look", "publish"}
    BY <2>1
  <2> QED  BY <2>1, <2>3, <2>4, <2>5, <2>6, <2>7, LocalStep
<1> QED  BY <1>1, <1>2

\* Serving is right if what the default is served by was evaluated.
LEMMA ServesStep ==
  ASSUME RegistryInv, NEW p \in Procs, NEW by \in {"default", "profile", "binding"},
         NEW item \in Items, Serves(p, by, item),
         by = "default" => <<item.id, item.rev>> \in Evaluated,
         UNCHANGED edits
  PROVE  RegistryInv'
<1>1. /\ pc'[p] = "serve" /\ job'[p] = [op |-> "serve", by |-> by]
      /\ served'[p] = [id |-> item.id, rev |-> item.rev]
      /\ UNCHANGED registry /\ outdated' = {}
      /\ Only(p)
  BY DEF RegistryInv, TypeOK, Serves, Goto, Only
<1>2. TypeOK'
  <2>1. job' \in [Procs -> Jobs \cup ImportJobs \cup Requests \cup {NoJob}]
    <3>1. [op |-> "serve", by |-> by] \in Requests
      BY DEF Requests
    <3> QED  BY <3>1 DEF RegistryInv, TypeOK, Serves
  <2>2. served' \in [Procs -> Manifests \cup {NoFile}]
    <3>1. [id |-> item.id, rev |-> item.rev] \in Manifests
      BY DEF Items, Manifests
    <3> QED  BY <3>1 DEF RegistryInv, TypeOK, Serves
  <2> QED  BY <2>1, <2>2 DEF RegistryInv, TypeOK, Labels, Serves, Goto, rootVars
<1>3. ServedFits(p)'
  BY <1>1 DEF ServedFits
<1>4. JobFits(p)' /\ DraftFits(p)' /\ RequestFits(p)'
  BY <1>1 DEF JobFits, DraftFits, RequestFits, Importing
<1> QED  BY <1>1, <1>2, <1>3, <1>4, LocalStep

\* The default was resolved by the revision it is registered by still, and that
\* is the one it was promoted by.
LEMMA DefaultIsEvaluated ==
  ASSUME RegistryInv, NEW p \in Procs, Selecting(p), NEW i \in found[p],
         i.id = DefaultModel(registry, job[p].voice)
  PROVE  <<i.id, i.rev>> \in Evaluated
<1>1. /\ job[p].voice \in Voices /\ i.id \in Models
      /\ Registered(registry, i.id) /\ registry.models[i.id].rev = i.rev
  BY DEF RegistryInv, TypeOK, RequestFits, Selecting, Items
<1>2. /\ i.id \in Models /\ Registered(registry, i.id)
      /\ Evidence(i.id, registry.models[i.id].rev)
  BY <1>1, DefaultIsKnown DEF RegistryInv, TypeOK
<1> QED  BY <1>1, <1>2 DEF Evidence

LEMMA SelectStep ==
  ASSUME RegistryInv, NEW p \in Procs, UNCHANGED edits,
         \/ SelectDefault(p) \/ SelectFromProfile(p)
         \/ \E m \in Models : ServeBinding(p, m)
  PROVE  RegistryInv'
<1>1. \A i \in found[p] : i \in Items
  BY DEF RegistryInv, TypeOK
<1>2. CASE SelectDefault(p)
  <2>1. PICK i \in found[p] : /\ i.id = DefaultModel(registry, job[p].voice)
                              /\ Serves(p, "default", i)
    BY <1>2 DEF SelectDefault
  <2>2. <<i.id, i.rev>> \in Evaluated
    BY <1>2, <2>1, DefaultIsEvaluated DEF SelectDefault
  <2> QED  BY <1>1, <2>1, <2>2, ServesStep
<1>3. CASE SelectFromProfile(p)
  BY <1>1, <1>3, ServesStep DEF SelectFromProfile
<1>4. ASSUME NEW m \in Models, ServeBinding(p, m)
      PROVE  RegistryInv'
  <2>1. CASE Resolvable(registry, m) /\ Serves(p, "binding", Resolved(m))
    <3>1. Resolved(m) \in Items
      BY <2>1, ResolvedFits
    <3> QED  BY <2>1, <3>1, ServesStep
  <2>2. CASE Leave(p) /\ UNCHANGED <<rootVars, registry, outdated>>
    <3>1. TypeOK'
      BY <2>2, LeaveTyped DEF RegistryInv, TypeOK, rootVars
    <3> QED  BY <2>2, <3>1, LeaveStep DEF RegistryInv
  <2> QED  BY <1>4, <2>1, <2>2 DEF ServeBinding
<1> QED  BY <1>2, <1>3, <1>4

LEMMA AnswerStep ==
  ASSUME RegistryInv, NEW p \in Procs, Answer(p), UNCHANGED edits
  PROVE  RegistryInv'
<1>1. TypeOK'
  BY LeaveTyped DEF RegistryInv, TypeOK, Answer, rootVars
<1> QED  BY <1>1, LeaveStep DEF RegistryInv, Answer

LEMMA CrashStep ==
  ASSUME RegistryInv, NEW p \in Procs, Crash(p)
  PROVE  RegistryInv'
<1>1. TypeOK'
  BY LeaveTyped DEF RegistryInv, TypeOK, Crash, rootVars
<1> QED  BY <1>1, LeaveStep DEF RegistryInv, Crash

LEMMA FailStep ==
  ASSUME RegistryInv, NEW p \in Procs, Fail(p), UNCHANGED weights
  PROVE  RegistryInv'
<1>1. TypeOK'
  BY LeaveTyped DEF RegistryInv, TypeOK, Fail
<1> QED  BY <1>1, LeaveStep DEF RegistryInv, Fail

LEMMA ImportStep ==
  ASSUME RegistryInv, NEW p \in Procs, NEW j \in ImportJobs, Import(p, j)
  PROVE  RegistryInv'
<1>1. /\ pc'[p] = "gpt" /\ job'[p] = j
      /\ UNCHANGED registry /\ outdated' = {}
      /\ Only(p)
  BY DEF RegistryInv, TypeOK, Import, Goto, Only
<1>2. TypeOK'
  BY DEF RegistryInv, TypeOK, Labels, Import, Goto, Importing, rootVars
<1>3. JobFits(p)' /\ DraftFits(p)' /\ RequestFits(p)' /\ ServedFits(p)'
  BY <1>1 DEF JobFits, DraftFits, RequestFits, ServedFits, Importing
<1> QED  BY <1>1, <1>2, <1>3, LocalStep

LEMMA CopyStep ==
  ASSUME RegistryInv, NEW p \in Procs, NEW role \in Roles, CopyImmutable(p, role)
  PROVE  RegistryInv'
<1>1. CASE Fail(p) /\ UNCHANGED weights
  BY <1>1, FailStep
<1>2. CASE Installs(p, role, "good")
  <2>1. /\ pc[p] = role /\ pc[p] \in Importing /\ job[p] \in ImportJobs
    BY DEF CopyImmutable, Roles, Importing, RegistryInv, JobFits
  <2>2. /\ pc'[p] \in {"sovits", "manifest"} /\ job' = job
        /\ UNCHANGED registry /\ outdated' = {}
        /\ Only(p)
    BY <1>2 DEF RegistryInv, TypeOK, Installs, Goto, Only
  <2>3. TypeOK'
    <3>1. HomeDir[job[p].id] \in Dirs
      BY <2>1 DEF ImportJobs
    <3>2. weights' \in [Dirs -> [Roles -> {"good", "bad", "none"}]]
      BY <1>2, <3>1 DEF RegistryInv, TypeOK, Installs
    <3>3. pc' \in [Procs -> Labels]
      BY <1>2 DEF RegistryInv, TypeOK, Installs, Goto, Labels, Importing
    <3> QED  BY <1>2, <3>2, <3>3 DEF RegistryInv, TypeOK, Installs
  <2>4. JobFits(p)' /\ DraftFits(p)' /\ RequestFits(p)' /\ ServedFits(p)'
    BY <2>1, <2>2 DEF JobFits, DraftFits, RequestFits, ServedFits
  <2> QED  BY <2>2, <2>3, <2>4, LocalStep
<1> QED  BY <1>1, <1>2 DEF CopyImmutable

LEMMA ManifestStep ==
  ASSUME RegistryInv, NEW p \in Procs, PublishManifest(p)
  PROVE  RegistryInv'
<1> DEFINE d == HomeDir[job[p].id]
           new == [id |-> job[p].id, rev |-> job[p].rev]
<1>1. CASE Fail(p)
  BY <1>1, FailStep DEF PublishManifest
<1>2. CASE /\ disk' = [disk EXCEPT ![d] = new]
           /\ Goto(p, "lock")
           /\ job' = [job EXCEPT ![p] = [op |-> "scan"]]
           /\ UNCHANGED <<registry, lock, todo, found, draft, served, outdated, edits>>
  <2>1. job[p] \in ImportJobs
    BY DEF RegistryInv, JobFits, PublishManifest, Importing
  <2>2. d \in Dirs /\ new \in Manifests
    BY <2>1 DEF ImportJobs, Manifests
  <2>3. /\ pc'[p] = "lock"
        /\ UNCHANGED registry /\ outdated' = {}
        /\ Only(p)
    BY <1>2 DEF RegistryInv, TypeOK, Goto, Only
  <2>4. TypeOK'
    <3>1. disk' \in [Dirs -> Manifests \cup {NoFile}]
      BY <1>2, <2>2 DEF RegistryInv, TypeOK
    <3>2. [op |-> "scan"] \in Jobs
      BY DEF Jobs
    <3>3. job' \in [Procs -> Jobs \cup ImportJobs \cup Requests \cup {NoJob}]
      BY <1>2, <3>2 DEF RegistryInv, TypeOK
    <3> QED  BY <1>2, <3>1, <3>3 DEF RegistryInv, TypeOK, Labels, PublishManifest, Goto
  <2>5. JobFits(p)' /\ DraftFits(p)' /\ RequestFits(p)' /\ ServedFits(p)'
    BY <2>3 DEF JobFits, DraftFits, RequestFits, ServedFits, Importing
  <2> QED  BY <2>3, <2>4, <2>5, LocalStep
<1> QED  BY <1>1, <1>2 DEF PublishManifest

\* Edits of the Model Root concern nothing the invariant speaks of.
LEMMA HandStep ==
  ASSUME RegistryInv, TypeOK', UNCHANGED <<registry, lock, procVars, outdated>>
  PROVE  RegistryInv'
BY DEF RegistryInv, procVars, Exclusive, JobFits, Vouched, DraftFits, RequestFits,
       ServedWasEvaluated, Keeps, Confines, Quarantined, Registered, Evidence

LEMMA EditsStep ==
  ASSUME RegistryInv, NEW d \in Dirs,
         \/ DamageWeights(d)
         \/ RemoveDirectory(d)
         \/ \E r \in Revs : EditManifest(d, r)
         \/ \E from \in Dirs : CopyDirectory(from, d)
  PROVE  RegistryInv'
<1>1. /\ edits' \in 0..MaxEdits
      /\ UNCHANGED <<registry, lock, procVars, outdated>>
  BY DEF RegistryInv, TypeOK, DamageWeights, RemoveDirectory, EditManifest,
         CopyDirectory, ByHand
<1>2. disk' \in [Dirs -> Manifests \cup {NoFile}]
  <2>1. CASE DamageWeights(d)
    BY <2>1 DEF RegistryInv, TypeOK, DamageWeights
  <2>2. CASE RemoveDirectory(d)
    BY <2>2 DEF RegistryInv, TypeOK, RemoveDirectory
  <2>3. ASSUME NEW r \in Revs, EditManifest(d, r)
        PROVE  disk' \in [Dirs -> Manifests \cup {NoFile}]
    <3>1. disk[d] \in Manifests
      BY <2>3 DEF RegistryInv, TypeOK, EditManifest
    <3>2. [disk[d] EXCEPT !.rev = r] \in Manifests
      BY <3>1 DEF Manifests
    <3> QED  BY <2>3, <3>2 DEF RegistryInv, TypeOK, EditManifest
  <2>4. ASSUME NEW from \in Dirs, CopyDirectory(from, d)
        PROVE  disk' \in [Dirs -> Manifests \cup {NoFile}]
    BY <2>4 DEF RegistryInv, TypeOK, CopyDirectory
  <2> QED  BY <2>1, <2>2, <2>3, <2>4
<1>3. weights' \in [Dirs -> [Roles -> {"good", "bad", "none"}]]
  <2>1. CASE DamageWeights(d)
    <3>1. [weights[d] EXCEPT !.gpt = "bad"] \in [Roles -> {"good", "bad", "none"}]
      BY DEF RegistryInv, TypeOK
    <3> QED  BY <2>1, <3>1 DEF RegistryInv, TypeOK, DamageWeights
  <2>2. CASE RemoveDirectory(d)
    <3>1. Empty \in [Roles -> {"good", "bad", "none"}]
      BY DEF Empty
    <3> QED  BY <2>2, <3>1 DEF RegistryInv, TypeOK, RemoveDirectory
  <2>3. CASE \E r \in Revs : EditManifest(d, r)
    BY <2>3 DEF RegistryInv, TypeOK, EditManifest
  <2>4. CASE \E from \in Dirs : CopyDirectory(from, d)
    BY <2>4 DEF RegistryInv, TypeOK, CopyDirectory
  <2> QED  BY <2>1, <2>2, <2>3, <2>4
<1>4. TypeOK'
  BY <1>1, <1>2, <1>3 DEF RegistryInv, TypeOK, procVars
<1> QED  BY <1>1, <1>4, HandStep

-----------------------------------------------------------------------------
(* The theorems.                                                           *)

LEMMA InitEstablishes == Init => RegistryInv
<1> SUFFICES ASSUME Init PROVE RegistryInv
  OBVIOUS
<1>1. TypeOK
  BY EmptyIsTyped DEF Init, TypeOK, Labels, Empty, NoJob
<1>2. /\ Exclusive /\ outdated = {} /\ \A p \in Procs : JobFits(p)
      /\ \A p \in Procs : DraftFits(p) /\ RequestFits(p)
      /\ ServedWasEvaluated
  BY DEF Init, Exclusive, JobFits, DraftFits, RequestFits, ServedWasEvaluated, Importing
<1>3. Vouched(registry)
  BY DEF Init, EmptyRegistry, Vouched
<1> QED  BY <1>1, <1>2, <1>3 DEF RegistryInv

LEMMA NextPreserves == RegistryInv /\ [Next]_allVars => RegistryInv'
<1> SUFFICES ASSUME RegistryInv, [Next]_allVars PROVE RegistryInv'
  OBVIOUS
<1>1. CASE UNCHANGED allVars
  <2>1. TypeOK'
    BY <1>1 DEF RegistryInv, TypeOK, allVars, vars, rootVars, procVars
  <2> QED  BY <1>1, <2>1, HandStep DEF allVars, vars
<1>2. ASSUME NEW p \in Procs, RegistryStep(p) PROVE RegistryInv'
  BY <1>2, LockStep, TimeoutStep, ReadStep, DecideStep, PublishStep, ProfileStep,
     AliasStep, SelectStep, AnswerStep DEF RegistryStep
<1>3. ASSUME NEW p \in Procs,
             PublishManifest(p) \/ Crash(p)
               \/ (\E j \in ImportJobs : Import(p, j))
               \/ (\E role \in Roles : CopyImmutable(p, role))
      PROVE  RegistryInv'
  BY <1>3, ManifestStep, CrashStep, ImportStep, CopyStep
<1>4. ASSUME NEW d \in Dirs,
             \/ DamageWeights(d)
             \/ RemoveDirectory(d)
             \/ \E r \in Revs : EditManifest(d, r)
             \/ \E from \in Dirs : CopyDirectory(from, d)
      PROVE  RegistryInv'
  BY <1>4, EditsStep
<1> QED  BY <1>1, <1>2, <1>3, <1>4 DEF Next

THEOREM AlwaysRegistryInv == Spec => []RegistryInv
<1> QED  BY InitEstablishes, NextPreserves, PTL DEF Spec

\* Types of the Model Root, the registry and the processes.
THEOREM RegistryTyped == Spec => []TypeOK
<1>1. RegistryInv => TypeOK
  BY DEF RegistryInv
<1> QED  BY <1>1, AlwaysRegistryInv, PTL

\* What is published was decided on the present registry.
THEOREM NeverStale == Spec => []NoStalePublication
<1>1. RegistryInv => NoStalePublication
  BY DEF RegistryInv, NoStalePublication
<1> QED  BY <1>1, AlwaysRegistryInv, PTL

\* The registry's default of a voice is served by an evaluated revision, though it
\* is resolved before it is known to be the default, whatever commands and edits
\* come between the reads of a request.
THEOREM AlwaysEvaluated == Spec => []ServedWasEvaluated
<1>1. RegistryInv => ServedWasEvaluated
  BY DEF RegistryInv
<1> QED  BY <1>1, AlwaysRegistryInv, PTL

\* A step that is not a publication leaves the registry alone.
LEMMA OnlyPublications ==
  ASSUME [Next]_allVars, registry' # registry
  PROVE  \E p \in Procs : Publish(p)
<1>1. ~ UNCHANGED allVars
  BY DEF allVars, vars
<1>2. ASSUME NEW p \in Procs, RegistryStep(p) PROVE Publish(p)
  BY <1>2 DEF RegistryStep, LockTimeout, Decide, Answer, ReadDirectory, LockRegistry,
              Locked, ReadProfile, ResolveAlias, SelectDefault, SelectFromProfile,
              ServeBinding, Serves
<1>3. \A p \in Procs : ~PublishManifest(p) /\ ~Crash(p)
  BY DEF PublishManifest, Crash, Fail
<1>4. \A p \in Procs : /\ ~ \E j \in ImportJobs : Import(p, j)
                       /\ ~ \E role \in Roles : CopyImmutable(p, role)
  BY DEF Import, CopyImmutable, Installs, Fail
<1>5. \A d \in Dirs : /\ ~DamageWeights(d) /\ ~RemoveDirectory(d)
                      /\ ~ \E r \in Revs : EditManifest(d, r)
                      /\ ~ \E from \in Dirs : CopyDirectory(from, d)
  BY DEF DamageWeights, RemoveDirectory, EditManifest, CopyDirectory, ByHand
<1> QED  BY <1>1, <1>2, <1>3, <1>4, <1>5 DEF Next

\* Only a command about the model itself takes it out of quarantine.
THEOREM AlwaysQuarantined == Spec => QuarantineHolds
<1> DEFINE A == \A m \in Models :
          registry.models[m] # NoEntry /\ registry.models[m].status = "quarantined" =>
              \/ registry'.models[m].status = "quarantined"
              \/ \E p \in Procs : pc[p] = "publish" /\ pc'[p] = "idle"
                                  /\ job[p].op \in {"set", "retire"} /\ job[p].id = m
<1>1. RegistryInv /\ [Next]_allVars => [A]_allVars
  <2> SUFFICES ASSUME RegistryInv, [Next]_allVars PROVE A
    OBVIOUS
  <2>1. CASE registry' = registry
    BY <2>1
  <2>2. CASE registry' # registry
    <3>1. PICK p \in Procs : Publish(p)
      BY <2>2, OnlyPublications
    <3>2. pc[p] = "publish" /\ registry' = draft[p]
      BY <2>2, <3>1 DEF Publish
    <3>3. pc'[p] = "idle"
      BY <3>1 DEF RegistryInv, TypeOK, Publish, Leave, Goto
    <3>4. Confines(job[p], registry, draft[p])
      BY <3>2 DEF RegistryInv, DraftFits
    <3> QED  BY <3>2, <3>3, <3>4 DEF Confines, Quarantined, Registered
  <2> QED  BY <2>1, <2>2
<1> QED  BY <1>1, AlwaysRegistryInv, PTL DEF Spec, QuarantineHolds

-----------------------------------------------------------------------------
(* Imports.                                                                *)

\* What an import has installed is still in place when it goes on: another
\* import can only install the same, and nobody edits the directory meanwhile.
InPlace(p) ==
    LET here == weights[HomeDir[job[p].id]] IN
    /\ pc[p] \in {"sovits", "manifest"} => here.gpt = "good"
    /\ pc[p] = "manifest" => here.sovits = "good"

ImportInv == RegistryInv /\ \A p \in Procs : InPlace(p)

\* A step that leaves the weights alone keeps what is in place for whoever it
\* does not move, or moves out of the import.
LEMMA InPlaceKept ==
  ASSUME NEW p \in Procs, InPlace(p), UNCHANGED weights,
         pc'[p] \in Importing => pc'[p] = pc[p] /\ job'[p] = job[p]
  PROVE  InPlace(p)'
BY DEF InPlace, Importing

\* What an import in progress works on.
LEMMA HomeIsThere ==
  ASSUME RegistryInv, NEW p \in Procs, pc[p] \in Importing
  PROVE  HomeDir[job[p].id] \in Dirs
BY DEF RegistryInv, JobFits, ImportJobs

\* The weights of every directory are known for each role.
LEMMA WeightsTyped ==
  ASSUME RegistryInv
  PROVE  weights \in [Dirs -> [{"gpt", "sovits"} -> {"good", "bad", "none"}]]
BY DEF RegistryInv, TypeOK, Roles

\* Installing a weight disturbs no import.
LEMMA InstallKeeps ==
  ASSUME ImportInv, NEW p \in Procs, NEW role \in Roles, CopyImmutable(p, role)
  PROVE  \A q \in Procs : InPlace(q)'
<1> SUFFICES ASSUME NEW q \in Procs PROVE InPlace(q)'
  OBVIOUS
<1>1. CASE Fail(p) /\ UNCHANGED weights
  <2>1. pc'[q] \in Importing => pc'[q] = pc[q] /\ job'[q] = job[q]
    BY <1>1 DEF ImportInv, RegistryInv, TypeOK, Fail, Leave, Goto, Importing
  <2> QED  BY <1>1, <2>1, InPlaceKept DEF ImportInv
<1>2. CASE Installs(p, role, "good")
  <2> DEFINE d == HomeDir[job[p].id]
  <2>1. pc[p] = role /\ pc[p] \in Importing /\ role \in {"gpt", "sovits"}
    BY DEF CopyImmutable, Roles, Importing
  <2>2. d \in Dirs
    BY <2>1, HomeIsThere DEF ImportInv
  <2>3. /\ weights' = [weights EXCEPT ![d][role] = "good"]
        /\ job' = job
        /\ pc'[p] = IF role = "gpt" THEN "sovits" ELSE "manifest"
        /\ q # p => pc'[q] = pc[q]
    BY <1>2 DEF Installs, Goto, ImportInv, RegistryInv, TypeOK
  <2>4. \A c \in Dirs, r \in {"gpt", "sovits"} :
           weights[c][r] = "good" => weights'[c][r] = "good"
    BY <2>1, <2>2, <2>3, WeightsTyped DEF ImportInv
  <2>5. weights'[d][role] = "good"
    BY <2>1, <2>2, <2>3, WeightsTyped DEF ImportInv
  <2>6. InPlace(p) /\ InPlace(q)
    BY DEF ImportInv
  <2>7. CASE q = p
    BY <2>1, <2>2, <2>3, <2>4, <2>5, <2>6, <2>7 DEF InPlace
  <2>8. CASE q # p
    <3>1. pc[q] \in Importing => HomeDir[job[q].id] \in Dirs
      BY HomeIsThere DEF ImportInv
    <3> QED  BY <2>3, <2>4, <2>6, <2>8, <3>1 DEF InPlace, Importing
  <2> QED  BY <2>7, <2>8
<1> QED  BY <1>1, <1>2 DEF CopyImmutable

\* Nor does an edit by hand, which touches no directory being imported into.
LEMMA EditKeeps ==
  ASSUME ImportInv, NEW d \in Dirs,
         \/ DamageWeights(d)
         \/ RemoveDirectory(d)
         \/ \E r \in Revs : EditManifest(d, r)
         \/ \E from \in Dirs : CopyDirectory(from, d)
  PROVE  \A q \in Procs : InPlace(q)'
<1> SUFFICES ASSUME NEW q \in Procs PROVE InPlace(q)'
  OBVIOUS
<1>1. Undisturbed(d) /\ pc' = pc /\ job' = job
  BY DEF DamageWeights, RemoveDirectory, EditManifest, CopyDirectory, ByHand, procVars
<1>2. \A c \in Dirs \ {d} : weights'[c] = weights[c]
  BY WeightsTyped DEF ImportInv, DamageWeights, RemoveDirectory, EditManifest, CopyDirectory
<1>3. CASE pc[q] \in Importing
  <2>1. HomeDir[job[q].id] \in Dirs \ {d}
    BY <1>1, <1>3, HomeIsThere DEF ImportInv, Undisturbed
  <2> QED  BY <1>1, <1>2, <2>1 DEF ImportInv, InPlace
<1>4. CASE pc[q] \notin Importing
  BY <1>1, <1>4 DEF InPlace, Importing
<1> QED  BY <1>3, <1>4

\* Every other step leaves the weights alone and moves nobody into the middle
\* of an import.
LEMMA OthersKeep ==
  ASSUME ImportInv, NEW p \in Procs,
         \/ RegistryStep(p) \/ PublishManifest(p) \/ Crash(p)
         \/ \E j \in ImportJobs : Import(p, j)
  PROVE  \A q \in Procs : InPlace(q)'
<1> SUFFICES ASSUME NEW q \in Procs PROVE InPlace(q)'
  OBVIOUS
<1>1. UNCHANGED weights
  BY DEF RegistryStep, PublishManifest, Crash, Import, LockTimeout, Decide, Publish,
         Answer, ReadDirectory, LockRegistry, Locked, ReadProfile, ResolveAlias,
         SelectDefault, SelectFromProfile, ServeBinding, Serves, rootVars
<1>2. /\ q # p => pc'[q] = pc[q] /\ job'[q] = job[q]
      /\ pc'[p] \in {"sovits", "manifest"} => pc'[p] = pc[p] /\ job'[p] = job[p]
  <2>0. pc \in [Procs -> Labels] /\ DOMAIN job = Procs
    BY DEF ImportInv, RegistryInv, TypeOK
  <2>1. CASE Leave(p)
    BY <2>0, <2>1 DEF Leave, Goto
  <2>2. CASE \/ \E j \in Jobs : LockRegistry(p, j)
             \/ \E j \in ImportJobs : Import(p, j)
             \/ \E v \in Voices : ReadProfile(p, v)
    BY <2>0, <2>2 DEF LockRegistry, Locked, Import, ReadProfile, Goto
  <2>3. CASE \/ \E d \in Dirs : ReadDirectory(p, d)
             \/ ~Leave(p) /\ \E m \in Models : ResolveAlias(p, m)
    BY <2>3 DEF ReadDirectory, ResolveAlias
  <2>4. CASE ~Leave(p) /\ (Decide(p) \/ PublishManifest(p))
    BY <2>0, <2>4 DEF Decide, PublishManifest, Fail, Goto
  <2>5. ASSUME NEW by, NEW item, Serves(p, by, item)
        PROVE  /\ q # p => pc'[q] = pc[q] /\ job'[q] = job[q]
               /\ pc'[p] \in {"sovits", "manifest"} => pc'[p] = pc[p] /\ job'[p] = job[p]
    BY <2>0, <2>5 DEF Serves, Goto
  <2>6. CASE \/ SelectDefault(p) \/ SelectFromProfile(p)
             \/ ~Leave(p) /\ \E m \in Models : ServeBinding(p, m)
    BY <2>5, <2>6 DEF SelectDefault, SelectFromProfile, ServeBinding
  <2> QED
    BY <2>1, <2>2, <2>3, <2>4, <2>6 DEF RegistryStep, LockTimeout, Publish, Answer, Crash
<1>3. InPlace(q)
  BY DEF ImportInv
<1> QED  BY <1>1, <1>2, <1>3 DEF InPlace

LEMMA ImportInvPreserved == ImportInv /\ [Next]_allVars => ImportInv'
<1> SUFFICES ASSUME ImportInv, [Next]_allVars PROVE ImportInv'
  OBVIOUS
<1>1. RegistryInv'
  BY NextPreserves DEF ImportInv
<1>2. CASE UNCHANGED allVars
  BY <1>1, <1>2 DEF ImportInv, InPlace, allVars, vars, rootVars, procVars
<1>3. CASE Next
  BY <1>1, <1>3, InstallKeeps, EditKeeps, OthersKeep DEF Next, ImportInv
<1> QED  BY <1>2, <1>3

LEMMA ImportInvInitially == Init => ImportInv
  BY InitEstablishes DEF Init, ImportInv, InPlace

\* An import puts a manifest only where there is none, over complete weights.
THEOREM AlwaysInstalledWhole == Spec => InstalledWhole
<1> DEFINE A == \A d \in Dirs : disk'[d] # disk[d] /\ edits' = edits =>
                   disk[d] = NoFile /\ \A role \in Roles : weights'[d][role] = "good"
<1>1. ImportInv /\ [Next]_allVars => [A]_allVars
  <2> SUFFICES ASSUME ImportInv, Next PROVE A
    OBVIOUS
  <2> SUFFICES ASSUME NEW d \in Dirs, disk'[d] # disk[d], edits' = edits
               PROVE  disk[d] = NoFile /\ \A role \in Roles : weights'[d][role] = "good"
    OBVIOUS
  <2>1. PICK p \in Procs : PublishManifest(p)
    <3>1. \A c \in Dirs : /\ ~DamageWeights(c) /\ ~RemoveDirectory(c)
                          /\ ~ \E r \in Revs : EditManifest(c, r)
                          /\ ~ \E from \in Dirs : CopyDirectory(from, c)
      <4>1. edits' # edits + 1
        BY DEF ImportInv, RegistryInv, TypeOK
      <4> QED  BY <4>1 DEF DamageWeights, RemoveDirectory, EditManifest, CopyDirectory, ByHand
    <3>2. \A p \in Procs : /\ ~RegistryStep(p) /\ ~Crash(p)
                           /\ ~ \E j \in ImportJobs : Import(p, j)
                           /\ ~ \E role \in Roles : CopyImmutable(p, role)
      BY DEF RegistryStep, Crash, Import, CopyImmutable, Installs, Fail, LockTimeout,
             Decide, Publish, Answer, ReadDirectory, LockRegistry, Locked, ReadProfile,
             ResolveAlias, SelectDefault, SelectFromProfile, ServeBinding, Serves, rootVars
    <3> QED  BY <3>1, <3>2 DEF Next
  <2>2. pc[p] = "manifest" /\ UNCHANGED weights /\ ~Fail(p)
    BY <2>1 DEF PublishManifest, Fail
  <2> DEFINE home == HomeDir[job[p].id]
             new == [id |-> job[p].id, rev |-> job[p].rev]
  <2>3. disk[home] \in {NoFile, new} /\ disk' = [disk EXCEPT ![home] = new]
    BY <2>1, <2>2 DEF PublishManifest
  <2>4. d = home /\ disk[d] = NoFile
    BY <2>3 DEF ImportInv, RegistryInv, TypeOK
  <2>5. weights[home].gpt = "good" /\ weights[home].sovits = "good"
    BY <2>2 DEF ImportInv, InPlace
  <2> QED  BY <2>2, <2>4, <2>5 DEF Roles
<1> QED  BY <1>1, ImportInvInitially, ImportInvPreserved, PTL DEF Spec, InstalledWhole

-----------------------------------------------------------------------------
(* Refinement: the commands take effect one after the other.               *)

\* What a scan may make of the registry.
Inventoried(reg, new) ==
    /\ new.defaults = reg.defaults
    /\ \A m \in Models :
          IF Registered(reg, m)
          THEN /\ new.models[m].rev = reg.models[m].rev
               /\ new.models[m].status \in {reg.models[m].status, "quarantined"}
          ELSE Registered(new, m) =>
                  new.models[m].status = Declares[new.models[m].rev]

\* What command j may make of it.  A promotion has seen the disk as well, which
\* may have changed since.
Effect(j, reg, new) ==
    CASE j.op = "scan" -> Inventoried(reg, new)
      [] j.op = "promote" ->
            /\ Registered(reg, j.id) /\ VoiceOf[j.id] # Shared
            /\ reg.models[j.id].status \in {"validated", "default"}
            /\ Evidence(j.id, reg.models[j.id].rev)
            /\ new = Promoted(reg, j.id)
      [] j.op = "retire" ->
            /\ Registered(reg, j.id) /\ ~IsDefault(reg, j.id)
            /\ new = [reg EXCEPT !.models[j.id].status = "retired"]
      [] j.op = "set" ->
            /\ Registered(reg, j.id)
            /\ new = [reg EXCEPT !.models[j.id].status = j.status]

\* Every draft is what its command makes of the present registry.
Effects == \A p \in Procs : pc[p] = "publish" => Effect(job[p], registry, draft[p])

\* A scan gives a new model the status its manifest declares.
LEMMA MergedInventories ==
  ASSUME NEW e \in Entries \cup {NoEntry}, NEW places \in SUBSET Items
  PROVE  /\ e = NoEntry /\ Merged(e, places) # NoEntry =>
               Merged(e, places).status = Declares[Merged(e, places).rev]
         /\ e # NoEntry => Merged(e, places).status \in {e.status, "quarantined"}
<1> DEFINE place == CHOOSE i \in places : TRUE
           taken == [status |-> KeptStatus(e, place.rev), present |-> TRUE,
                     rev |-> place.rev, dir |-> place.dir, error |-> FALSE]
<1>1. e # NoEntry => e \in Entries
  OBVIOUS
<1>2. CASE \E i, j \in places : i # j
  <2>1. Merged(e, places) = Conflicted(e)
    BY <1>2 DEF Merged
  <2> QED  BY <1>1, <2>1 DEF Conflicted, Entries
<1>3. CASE places = {}
  <2>1. Merged(e, places) = IF e = NoEntry THEN e ELSE [e EXCEPT !.present = FALSE]
    BY <1>3 DEF Merged
  <2> QED  BY <1>1, <2>1 DEF Entries
<1>4. CASE (~\E i, j \in places : i # j) /\ places # {} /\ Changed(e, place.rev)
  <2>1. Merged(e, places)
            = [e EXCEPT !.status = "quarantined", !.present = TRUE, !.error = TRUE]
    BY <1>4 DEF Merged
  <2> QED  BY <1>1, <1>4, <2>1 DEF Changed, Entries
<1>5. CASE (~\E i, j \in places : i # j) /\ places # {} /\ ~Changed(e, place.rev)
  <2>1. Merged(e, places) = taken
    BY <1>5 DEF Merged
  <2> QED  BY <2>1 DEF KeptStatus
<1> QED  BY <1>2, <1>3, <1>4, <1>5

\* What a command decides is its effect on the registry it has read.
LEMMA DraftsHaveEffect ==
  ASSUME NEW p \in Procs, registry \in Registries, found[p] \in SUBSET Items,
         job[p] \in Jobs, NEW r \in Drafts(p)
  PROVE  Effect(job[p], registry, r)
<1>1. CASE job[p].op = "scan"
  <2>1. r = Scanned(registry, found[p])
    BY <1>1 DEF Drafts
  <2>2. /\ r.defaults = registry.defaults
        /\ r.models = [m \in Models |->
                          Merged(registry.models[m], {i \in found[p] : i.id = m})]
    BY <2>1 DEF Scanned, Registries
  <2>3. ASSUME NEW m \in Models
        PROVE  IF Registered(registry, m)
               THEN /\ r.models[m].rev = registry.models[m].rev
                    /\ r.models[m].status \in {registry.models[m].status, "quarantined"}
               ELSE Registered(r, m) => r.models[m].status = Declares[r.models[m].rev]
    <3>1. registry.models[m] \in Entries \cup {NoEntry}
      BY DEF Registries
    <3>2. r.models[m] = Merged(registry.models[m], {i \in found[p] : i.id = m})
      BY <2>2
    <3> QED  BY <3>1, <3>2, MergedInventories, MergedKeeps DEF Registered
  <2> QED  BY <1>1, <2>2, <2>3 DEF Effect, Inventoried
<1>2. CASE job[p].op = "promote"
  <2>1. Promotable(registry, job[p].id) /\ r = Promoted(registry, job[p].id)
    BY <1>2 DEF Drafts
  <2> QED  BY <1>2, <2>1 DEF Effect, Promotable
<1>3. CASE job[p].op = "retire"
  BY <1>3 DEF Drafts, Effect
<1>4. CASE job[p].op = "set"
  BY <1>4 DEF Drafts, Effect
<1> QED  BY <1>1, <1>2, <1>3, <1>4 DEF Jobs

\* Who publishes next has just decided, or was about to publish the same.
LEMMA WhoPublishes ==
  ASSUME RegistryInv, [Next]_allVars, NEW q \in Procs, pc'[q] = "publish"
  PROVE  /\ job'[q] = job[q]
         /\ \/ pc[q] = "publish" /\ draft'[q] = draft[q]
            \/ pc[q] = "look" /\ draft'[q] \in Drafts(q)
<1> USE DEF Goto
<1>0. /\ pc \in [Procs -> Labels]
      /\ draft \in [Procs -> Registries] /\ job = [p \in Procs |-> job[p]]
  BY DEF RegistryInv, TypeOK
<1>1. ASSUME NEW p \in Procs, Leave(p) PROVE q # p /\ UNCHANGED <<pc[q], job[q], draft[q]>>
  BY <1>0, <1>1 DEF Leave
<1>2. ASSUME NEW p \in Procs, RegistryStep(p)
      PROVE  /\ job'[q] = job[q]
             /\ \/ pc[q] = "publish" /\ draft'[q] = draft[q]
                \/ pc[q] = "look" /\ draft'[q] \in Drafts(q)
  <2>1. CASE Decide(p) /\ ~Leave(p)
    <3>1. PICK r \in Drafts(p) : draft' = [draft EXCEPT ![p] = r]
      BY <2>1 DEF Decide
    <3>2. job' = job /\ pc[p] = "look" /\ pc' = [pc EXCEPT ![p] = "publish"]
      BY <2>1 DEF Decide
    <3> QED  BY <1>0, <3>1, <3>2
  <2>2. CASE Leave(p) BY <1>1, <2>2
  <2>3. CASE \E d \in Dirs : ReadDirectory(p, d) BY <2>3 DEF ReadDirectory
  <2>4. CASE \E j \in Jobs : LockRegistry(p, j)
    BY <1>0, <2>4 DEF LockRegistry, Locked
  <2>5. CASE \E v \in Voices : ReadProfile(p, v) BY <1>0, <2>5 DEF ReadProfile
  <2>6. CASE (\E m \in Models : ResolveAlias(p, m)) /\ ~Leave(p)
    BY <2>6 DEF ResolveAlias
  <2>7. ASSUME NEW by, NEW item, Serves(p, by, item)
        PROVE  pc[q] = "publish" /\ UNCHANGED <<job[q], draft[q]>>
    BY <1>0, <2>7 DEF Serves
  <2>8. CASE \/ SelectDefault(p) \/ SelectFromProfile(p)
             \/ ~Leave(p) /\ \E m \in Models : ServeBinding(p, m)
    BY <2>7, <2>8 DEF SelectDefault, SelectFromProfile, ServeBinding
  <2> QED
    BY <1>2, <2>1, <2>2, <2>3, <2>4, <2>5, <2>6, <2>8
       DEF RegistryStep, LockTimeout, Publish, Answer
<1>3. ASSUME NEW p \in Procs,
             PublishManifest(p) \/ Crash(p)
               \/ (\E j \in ImportJobs : Import(p, j))
               \/ (\E role \in Roles : CopyImmutable(p, role))
      PROVE  pc[q] = "publish" /\ UNCHANGED <<job[q], draft[q]>>
  <2>1. CASE Leave(p) BY <1>1, <2>1
  <2>2. CASE PublishManifest(p) /\ ~Leave(p)
    BY <1>0, <2>2 DEF PublishManifest, Fail
  <2>3. CASE \E j \in ImportJobs : Import(p, j) BY <1>0, <2>3 DEF Import
  <2>4. CASE (\E role \in Roles : CopyImmutable(p, role)) /\ ~Leave(p)
    BY <1>0, <2>4 DEF CopyImmutable, Installs, Fail
  <2> QED  BY <1>3, <2>1, <2>2, <2>3, <2>4 DEF Crash
<1>4. ASSUME NEW d \in Dirs,
             \/ DamageWeights(d)
             \/ RemoveDirectory(d)
             \/ \E r \in Revs : EditManifest(d, r)
             \/ \E from \in Dirs : CopyDirectory(from, d)
      PROVE  UNCHANGED <<pc, job, draft>>
  BY <1>4 DEF DamageWeights, RemoveDirectory, EditManifest, CopyDirectory, ByHand, procVars
<1>5. CASE UNCHANGED allVars BY <1>5 DEF allVars, vars, procVars
<1> QED  BY <1>2, <1>3, <1>4, <1>5 DEF Next

\* A publication is of its command's effect, and of no other command's: they
\* exclude each other.
LEMMA EffectsPreserved ==
  ASSUME RegistryInv, Effects, [Next]_allVars
  PROVE  Effects'
<1> SUFFICES ASSUME NEW q \in Procs, pc'[q] = "publish"
             PROVE  Effect(job'[q], registry', draft'[q])
  BY DEF Effects, Effect, Inventoried, Registered, Evidence, Promoted, IsDefault
<1>1. registry' = registry
  <2> SUFFICES ASSUME registry' # registry PROVE FALSE
    OBVIOUS
  <2>1. PICK p \in Procs : Publish(p)
    BY OnlyPublications
  <2>2. pc[p] = "publish" /\ pc'[p] = "idle"
    BY <2>1 DEF RegistryInv, TypeOK, Publish, Leave, Goto
  <2>3. lock = q /\ lock = p
    BY <2>2, WhoPublishes DEF RegistryInv, Exclusive
  <2> QED  BY <2>2, <2>3
<1>2. CASE pc[q] = "publish" /\ job'[q] = job[q] /\ draft'[q] = draft[q]
  BY <1>1, <1>2 DEF Effects
<1>3. CASE pc[q] = "look" /\ job'[q] = job[q] /\ draft'[q] \in Drafts(q)
  <2>1. Effect(job[q], registry, draft'[q])
    BY <1>3, DraftsHaveEffect DEF RegistryInv, TypeOK, JobFits
  <2> QED  BY <1>1, <1>3, <2>1
<1> QED  BY <1>2, <1>3, WhoPublishes

\* What is seen of the registry.
LEMMA SeenAs ==
  ASSUME NEW m \in Models, registry \in Registries
  PROVE  /\ Status[m] = registry.models[m].status
         /\ Registered(registry, m) =>
              /\ Status[m] \in Statuses
              /\ Revision[m] = registry.models[m].rev /\ Revision[m] \in Revs
         /\ ~Registered(registry, m) => Status[m] = "none" /\ Revision[m] = NoFile
<1>1. registry.models[m] \in Entries \cup {NoEntry}
  BY DEF Registries
<1> QED  BY <1>1 DEF Status, Revision, Registered, NoEntry, Entries

LEMMA SeenAsNext ==
  ASSUME NEW m \in Models, registry' \in Registries
  PROVE  /\ Status'[m] = registry'.models[m].status
         /\ Registered(registry', m) =>
              /\ Status'[m] \in Statuses
              /\ Revision'[m] = registry'.models[m].rev /\ Revision'[m] \in Revs
         /\ ~Registered(registry', m) => Status'[m] = "none" /\ Revision'[m] = NoFile
<1>1. registry'.models[m] \in Entries \cup {NoEntry}
  BY DEF Registries
<1> QED  BY <1>1 DEF Status, Revision, Registered, NoEntry, Entries

\* "none" is no status.
LEMMA NoneIsNoStatus == "none" \notin Statuses
  BY DEF Statuses

\* A step of p which is not part of a request is invisible to the clients.
LEMMA NoRequest ==
  ASSUME NEW p \in Procs,
         Only(p),
         pc[p] \notin {"resolve", "serve"}, pc'[p] \notin {"resolve", "serve"}
  PROVE  Known' = Known /\ Answers' = Answers
<1>1. \A q \in Procs : Known'[q] = Known[q] /\ Answers'[q] = Answers[q]
  BY DEF Known, Answers, Only
<1> QED  BY <1>1 DEF Known, Answers

\* Who leaves forgets its request, if it had one.
LEMMA LeaveMaps ==
  ASSUME RegistryInv, NEW p \in Procs, Leave(p), UNCHANGED registry
  PROVE  [Lifecycle!Next]_(Lifecycle!lifecycleVars)
<1>1. pc'[p] = "idle" /\ Only(p)
  BY DEF Leave, Goto, Only, RegistryInv, TypeOK
<1>2. Status' = Status /\ Revision' = Revision
  BY DEF Status, Revision, Registered
<1>3. /\ Known' = [Known EXCEPT ![p] = {}]
      /\ Answers' = [Answers EXCEPT ![p] = NoFile]
  <2>1. /\ Known'[p] = {} /\ Answers'[p] = NoFile
        /\ \A q \in Procs \ {p} : Known'[q] = Known[q] /\ Answers'[q] = Answers[q]
    BY <1>1 DEF Known, Answers, Only
  <2> QED  BY <2>1 DEF Known, Answers
<1>4. Lifecycle!Forget(p)
  BY <1>2, <1>3 DEF Lifecycle!Forget, Lifecycle!registryVars
<1> QED  BY <1>4 DEF Lifecycle!Next

\* A publication takes its command's effect at once, for everybody to see.
LEMMA PublicationMaps ==
  ASSUME RegistryInv, RegistryInv', Effects, NEW p \in Procs, Publish(p), registry' # registry
  PROVE  Lifecycle!Next
<1> DEFINE j == job[p]
<1>1. /\ pc[p] = "publish" /\ registry' = draft[p]
      /\ j \in Jobs /\ Effect(j, registry, registry')
  BY DEF Publish, Effects, RegistryInv, JobFits
<1>2. registry \in Registries /\ registry' \in Registries
  BY DEF RegistryInv, TypeOK
<1>3. Known' = Known /\ Answers' = Answers
  <2>1. pc'[p] = "idle" /\ Only(p)
    BY DEF Publish, Leave, Goto, Only, RegistryInv, TypeOK
  <2> QED  BY <1>1, <2>1, NoRequest
<1>9. \A m \in Models : Registered(registry, m) =>
          Registered(registry', m) /\ registry'.models[m].rev = registry.models[m].rev
  BY <1>1 DEF RegistryInv, DraftFits, Keeps
<1>10. \A m \in Models : Registered(registry, m) => Revision'[m] = Revision[m]
  BY <1>2, <1>9, SeenAs, SeenAsNext
<1>4. CASE j.op = "scan"
  <2>1. Inventoried(registry, registry')
    BY <1>1, <1>4 DEF Effect
  <2>2. ASSUME NEW m \in Models
        PROVE  \/ Lifecycle!Keeps(m)
               \/ Status[m] = "none" /\ Lifecycle!Registers(m)
               \/ Status[m] # "none" /\ Lifecycle!Quarantines(m)
    <3>1. CASE Registered(registry, m)
      <4>1. Registered(registry', m)
        BY <1>9, <3>1
      <4>2. Revision'[m] = Revision[m] /\ Status'[m] \in {Status[m], "quarantined"}
        BY <1>2, <2>1, <3>1, <4>1, SeenAs, SeenAsNext DEF Inventoried
      <4>3. Status[m] # "none"
        BY <1>2, <3>1, SeenAs, NoneIsNoStatus
      <4> QED  BY <4>2, <4>3 DEF Lifecycle!Keeps, Lifecycle!Quarantines
    <3>2. CASE ~Registered(registry, m) /\ Registered(registry', m)
      <4>1. Status'[m] = Declares[Revision'[m]] /\ Revision'[m] \in Revs
        BY <1>2, <2>1, <3>2, SeenAsNext DEF Inventoried
      <4> QED  BY <1>2, <3>2, <4>1, SeenAs DEF Lifecycle!Registers
    <3>3. CASE ~Registered(registry, m) /\ ~Registered(registry', m)
      BY <1>2, <3>3, SeenAs, SeenAsNext DEF Lifecycle!Keeps
    <3> QED  BY <3>1, <3>2, <3>3
  <2>3. Status' = [m \in Models |-> Status'[m]] /\ Revision' = [m \in Models |-> Revision'[m]]
    BY DEF Status, Revision
  <2>4. Lifecycle!Scan
    BY <1>3, <2>1, <2>2, <2>3 DEF Inventoried, Lifecycle!Scan, Lifecycle!clientVars
  <2> QED  BY <2>4 DEF Lifecycle!Next
<1>5. CASE j.op = "promote"
  <2> DEFINE m == j.id
             v == VoiceOf[m]
             old == registry.defaults[v]
             demoted(n) == n = old /\ n # m /\ Registered(registry, n)
                           /\ registry.models[n].status = "default"
  <2>1. m \in Models
    BY <1>1, <1>5 DEF Jobs
  <2>2. /\ Registered(registry, m) /\ v \in Voices
        /\ registry.models[m].status \in {"validated", "default"}
        /\ Evidence(m, registry.models[m].rev)
        /\ registry' = Promoted(registry, m)
    BY <1>1, <1>5, <2>1 DEF Effect
  <2>3. /\ registry'.defaults = [registry.defaults EXCEPT ![v] = m]
        /\ \A n \in Models :
             /\ n = m => registry'.models[n] = [registry.models[n] EXCEPT !.status = "default"]
             /\ demoted(n) =>
                  registry'.models[n] = [registry.models[n] EXCEPT !.status = "validated"]
             /\ n # m /\ ~demoted(n) => registry'.models[n] = registry.models[n]
    BY <2>2 DEF Promoted
  <2>4. \A n \in Models : Registered(registry, n) => registry.models[n] \in Entries
    BY <1>2 DEF Registries, Registered
  <2>5. \A n \in Models : Registered(registry', n) <=> Registered(registry, n)
    BY <1>9, <2>2, <2>3 DEF Registered
  <2>6. ASSUME NEW n \in Models
        PROVE  /\ Status'[n] = IF n = m THEN "default"
                               ELSE IF n = old /\ Status[n] = "default"
                               THEN "validated" ELSE Status[n]
               /\ Revision'[n] = Revision[n]
    <3>1. CASE n = m
      <4>1. Status'[n] = "default"
        <5>1. registry'.models[m] = [registry.models[m] EXCEPT !.status = "default"]
          BY <2>1, <2>3
        <5>2. registry.models[m] \in Entries
          BY <2>1, <2>2, <2>4
        <5>3. registry'.models[m].status = "default"
          BY <5>1, <5>2 DEF Entries
        <5> QED  BY <1>2, <2>1, <3>1, <5>3, SeenAsNext
      <4> QED  BY <1>10, <2>2, <3>1, <4>1
    <3>2. CASE demoted(n)
      <4>1. Status'[n] = "validated"
        BY <1>2, <2>3, <2>4, <3>2, SeenAsNext DEF Entries
      <4>2. Revision'[n] = Revision[n]
        BY <1>10, <3>2
      <4>3. Status[n] = "default"
        BY <1>2, <3>2, SeenAs
      <4> QED  BY <3>2, <4>1, <4>2, <4>3
    <3>3. CASE n # m /\ ~demoted(n)
      <4>1. registry'.models[n] = registry.models[n]
        BY <2>3, <3>3
      <4>2. Status'[n] = Status[n] /\ Revision'[n] = Revision[n]
        BY <1>2, <2>5, <4>1, SeenAs, SeenAsNext
      <4>3. ~(n = old /\ Status[n] = "default")
        BY <1>2, <3>3, SeenAs
      <4> QED  BY <3>3, <4>2, <4>3
    <3> QED  BY <3>1, <3>2, <3>3
  <2>7. Revision' = Revision
    BY <2>6 DEF Revision
  <2>8. Status' = [n \in Models |-> IF n = m THEN "default"
                                    ELSE IF n = old /\ Status[n] = "default"
                                    THEN "validated" ELSE Status[n]]
    BY <2>6 DEF Status
  <2>9. /\ Status[m] \in {"validated", "default"} /\ v # Shared
        /\ <<m, Revision[m]>> \in Evaluated
    BY <1>2, <2>1, <2>2, SeenAs DEF Evidence
  <2>10. Lifecycle!Promote(m)
    BY <1>3, <2>3, <2>7, <2>8, <2>9 DEF Lifecycle!Promote, Lifecycle!clientVars
  <2> QED  BY <2>1, <2>10 DEF Lifecycle!Next
<1>6. ASSUME NEW s \in Assigned \cup {"retired"}, NEW m \in Models,
             Registered(registry, m), s \in Assigned \/ ~IsDefault(registry, m),
             registry' = [registry EXCEPT !.models[m].status = s]
      PROVE  Lifecycle!Next
  <2>1. s \in Statuses
    BY DEF Statuses
  <2>2. registry.models[m] \in Entries
    BY <1>2, <1>6 DEF Registries, Registered
  <2>3. /\ registry'.defaults = registry.defaults
        /\ registry'.models[m] = [registry.models[m] EXCEPT !.status = s]
        /\ \A n \in Models : n # m => registry'.models[n] = registry.models[n]
    BY <1>2, <1>6 DEF Registries
  <2>4. Registered(registry', m)
    BY <1>9, <1>6
  <2>5. Status'[m] = s /\ Revision'[m] = Revision[m]
    BY <1>2, <1>6, <1>10, <2>2, <2>3, SeenAsNext DEF Entries
  <2>6. \A n \in Models : n # m => Status'[n] = Status[n] /\ Revision'[n] = Revision[n]
    BY <2>3 DEF Status, Revision, Registered
  <2>7. Status' = [Status EXCEPT ![m] = s] /\ Revision' = Revision
    BY <2>5, <2>6 DEF Status, Revision
  <2>8. Status[m] # "none"
    BY <1>2, <1>6, SeenAs, NoneIsNoStatus
  <2>9. \/ s = "retired" /\ ~Lifecycle!IsDefault(m)
        \/ s \in Assigned
    BY <1>6 DEF IsDefault, Lifecycle!IsDefault
  <2>10. Lifecycle!Assign(m, s)
    BY <1>3, <2>3, <2>7, <2>8, <2>9 DEF Lifecycle!Assign, Lifecycle!clientVars
  <2> QED  BY <2>10 DEF Lifecycle!Next
<1>7. CASE j.op = "retire"
  <2>1. /\ j.id \in Models /\ Registered(registry, j.id) /\ ~IsDefault(registry, j.id)
        /\ registry' = [registry EXCEPT !.models[j.id].status = "retired"]
    BY <1>1, <1>7 DEF Jobs, Effect
  <2> QED  BY <1>6, <2>1
<1>8. CASE j.op = "set"
  <2>1. /\ j.id \in Models /\ j.status \in Assigned /\ Registered(registry, j.id)
        /\ registry' = [registry EXCEPT !.models[j.id].status = j.status]
    BY <1>1, <1>8 DEF Jobs, Effect
  <2> QED  BY <1>6, <2>1
<1> QED  BY <1>1, <1>4, <1>5, <1>7, <1>8 DEF Jobs

\* A request that starts knows nothing yet.
LEMMA ProfileMaps ==
  ASSUME RegistryInv, NEW p \in Procs, NEW v \in Voices, ReadProfile(p, v)
  PROVE  UNCHANGED Lifecycle!lifecycleVars
<1>1. /\ pc[p] = "idle" /\ pc'[p] = "resolve" /\ found'[p] = {}
      /\ UNCHANGED registry /\ Only(p)
  BY DEF ReadProfile, Goto, Only, RegistryInv, TypeOK
<1>2. Status' = Status /\ Revision' = Revision
  BY <1>1 DEF Status, Revision, Registered
<1>3. Known' = Known /\ Answers' = Answers
  <2>1. \A q \in Procs : Known'[q] = Known[q] /\ Answers'[q] = Answers[q]
    BY <1>1 DEF Known, Answers, Only
  <2> QED  BY <2>1 DEF Known, Answers
<1> QED
  BY <1>1, <1>2, <1>3 DEF Lifecycle!lifecycleVars, Lifecycle!registryVars, Lifecycle!clientVars

\* A model that is resolved is in order.
LEMMA AliasMaps ==
  ASSUME RegistryInv, NEW p \in Procs, NEW m \in Models, ResolveAlias(p, m)
  PROVE  [Lifecycle!Next]_(Lifecycle!lifecycleVars)
<1>1. CASE Leave(p)
  BY <1>1, LeaveMaps DEF ResolveAlias
<1>2. CASE ~Leave(p)
  <2>1. /\ pc[p] = "resolve" /\ Resolvable(registry, m)
        /\ found' = [found EXCEPT ![p] = @ \cup {Resolved(m)}]
        /\ UNCHANGED <<registry, pc, job, served>>
    BY <1>2 DEF ResolveAlias
  <2>2. /\ Resolved(m).id = m /\ Registered(registry, m)
        /\ registry.models[m].status # "quarantined"
    BY <2>1, ResolvedFits
  <2>3. Status' = Status /\ Revision' = Revision
    BY <2>1 DEF Status, Revision, Registered
  <2>4. /\ found'[p] = found[p] \cup {Resolved(m)}
        /\ \A q \in Procs \ {p} : found'[q] = found[q]
    BY <2>1 DEF RegistryInv, TypeOK
  <2>5. Known' = [Known EXCEPT ![p] = @ \cup {m}] /\ Answers' = Answers
    <3>1. /\ Known'[p] = Known[p] \cup {m}
          /\ \A q \in Procs \ {p} : Known'[q] = Known[q]
      BY <2>1, <2>2, <2>4 DEF Known
    <3> QED  BY <2>1, <3>1 DEF Known, Answers
  <2>6. Status[m] \notin {"none", "quarantined"}
    BY <2>2, SeenAs, NoneIsNoStatus DEF RegistryInv, TypeOK
  <2>7. Lifecycle!Learn(p, m)
    BY <2>1, <2>3, <2>5, <2>6 DEF Lifecycle!Learn, Lifecycle!InOrder, Lifecycle!registryVars
  <2> QED  BY <2>7 DEF Lifecycle!Next
<1> QED  BY <1>1, <1>2

\* What is served is the revision the model is registered by.
LEMMA ServesMaps ==
  ASSUME RegistryInv, NEW p \in Procs, NEW by, NEW item \in Items, Serves(p, by, item),
         Registered(registry, item.id), registry.models[item.id].rev = item.rev
  PROVE  /\ Revision[item.id] = item.rev
         /\ Lifecycle!Answered(p, item.id, by)
<1>1. /\ pc'[p] = "serve" /\ job'[p] = [op |-> "serve", by |-> by]
      /\ served'[p] = [id |-> item.id, rev |-> item.rev]
      /\ UNCHANGED registry /\ Only(p)
  BY DEF Serves, Goto, Only, RegistryInv, TypeOK
<1>2. Status' = Status /\ Revision' = Revision
  BY <1>1 DEF Status, Revision, Registered
<1>3. Revision[item.id] = item.rev
  BY SeenAs DEF RegistryInv, TypeOK, Items
<1> DEFINE shown == [id |-> item.id, rev |-> Revision[item.id], by |-> by]
<1>4. /\ Known' = [Known EXCEPT ![p] = {}]
      /\ Answers' = [Answers EXCEPT ![p] = shown]
  <2>1. [id |-> served'[p].id, rev |-> served'[p].rev, by |-> job'[p].by] = shown
    BY <1>1, <1>3
  <2> HIDE DEF shown
  <2>2. Known'[p] = {}
    BY <1>1 DEF Known
  <2>3. Answers'[p] = shown
    BY <1>1, <2>1 DEF Answers
  <2>4. \A q \in Procs \ {p} : Known'[q] = Known[q] /\ Answers'[q] = Answers[q]
    BY <1>1 DEF Known, Answers, Only
  <2> QED  BY <2>2, <2>3, <2>4 DEF Known, Answers
<1> QED
  BY <1>1, <1>2, <1>3, <1>4 DEF Lifecycle!Answered, Lifecycle!registryVars

\* The default that is selected is one, with that status, and evaluated; any
\* other model was in order when it was resolved, or is now.
LEMMA SelectMaps ==
  ASSUME RegistryInv, NEW p \in Procs,
         \/ SelectDefault(p) \/ SelectFromProfile(p)
         \/ \E m \in Models : ServeBinding(p, m)
  PROVE  [Lifecycle!Next]_(Lifecycle!lifecycleVars)
<1>1. Selecting(p)
  BY DEF SelectDefault, SelectFromProfile, ServeBinding
<1>2. \A i \in found[p] : /\ i \in Items /\ i.id \in Models
                          /\ Registered(registry, i.id)
                          /\ registry.models[i.id].rev = i.rev
  BY <1>1 DEF RegistryInv, TypeOK, RequestFits, Selecting, Items
<1>3. \A i \in found[p] : i.id \in Known[p]
  BY <1>1 DEF Known, Selecting
<1>4. CASE SelectDefault(p)
  <2>1. PICK i \in found[p] : /\ i.id = DefaultModel(registry, job[p].voice)
                              /\ Serves(p, "default", i)
    BY <1>4 DEF SelectDefault
  <2> DEFINE v == job[p].voice
  <2>2. v \in Voices /\ i.id # NoModel
    BY <1>1, <1>2 DEF RegistryInv, RequestFits, Selecting
  <2>3. registry.defaults[v] = i.id /\ registry.models[i.id].status = "default"
    BY <2>1, <2>2 DEF DefaultModel
  <2>4. Revision[i.id] = i.rev /\ Lifecycle!Answered(p, i.id, "default")
    BY <1>2, <2>1, ServesMaps
  <2>5. <<i.id, i.rev>> \in Evaluated
    BY <1>1, <2>1, DefaultIsEvaluated
  <2>6. Status[i.id] = "default"
    BY <1>2, <2>3, SeenAs DEF RegistryInv, TypeOK
  <2>7. Lifecycle!ServeDefault(p, v)
    BY <1>3, <2>3, <2>4, <2>5, <2>6 DEF Lifecycle!ServeDefault
  <2> QED  BY <2>2, <2>7 DEF Lifecycle!Next
<1>5. CASE SelectFromProfile(p)
  <2>1. PICK i \in found[p] : Serves(p, "profile", i)
    BY <1>5 DEF SelectFromProfile
  <2>2. Lifecycle!Answered(p, i.id, "profile")
    BY <1>2, <2>1, ServesMaps
  <2>3. Lifecycle!ServeOther(p, i.id)
    BY <1>3, <2>2 DEF Lifecycle!ServeOther
  <2> QED  BY <1>2, <2>3 DEF Lifecycle!Next
<1>6. ASSUME NEW m \in Models, ServeBinding(p, m)
      PROVE  [Lifecycle!Next]_(Lifecycle!lifecycleVars)
  <2>1. CASE Resolvable(registry, m) /\ Serves(p, "binding", Resolved(m))
    <3>1. /\ Resolved(m) \in Items /\ Resolved(m).id = m
          /\ Registered(registry, m) /\ registry.models[m].rev = Resolved(m).rev
          /\ registry.models[m].status # "quarantined"
      BY <2>1, ResolvedFits
    <3>2. Lifecycle!Answered(p, m, "binding")
      BY <2>1, <3>1, ServesMaps
    <3>3. Status[m] \notin {"none", "quarantined"}
      BY <3>1, SeenAs, NoneIsNoStatus DEF RegistryInv, TypeOK
    <3>4. Lifecycle!ServeOther(p, m)
      BY <3>2, <3>3 DEF Lifecycle!ServeOther, Lifecycle!InOrder
    <3> QED  BY <3>4 DEF Lifecycle!Next
  <2>2. CASE Leave(p) /\ UNCHANGED <<rootVars, registry, outdated>>
    BY <2>2, LeaveMaps
  <2> QED  BY <1>6, <2>1, <2>2 DEF ServeBinding
<1> QED  BY <1>4, <1>5, <1>6

\* Looking, deciding, waiting and importing are invisible.
LEMMA InvisibleSteps ==
  ASSUME RegistryInv, NEW p \in Procs, UNCHANGED registry, ~Leave(p),
         \/ Decide(p) \/ PublishManifest(p)
         \/ \E d \in Dirs : ReadDirectory(p, d)
         \/ \E j \in Jobs : LockRegistry(p, j)
         \/ \E j \in ImportJobs : Import(p, j)
         \/ \E role \in Roles : CopyImmutable(p, role)
  PROVE  UNCHANGED Lifecycle!lifecycleVars
<1> USE DEF Goto
<1>0. /\ DOMAIN pc = Procs /\ DOMAIN job = Procs /\ DOMAIN served = Procs
      /\ DOMAIN found = Procs /\ DOMAIN draft = Procs
  BY DEF RegistryInv, TypeOK
<1>1. Status' = Status /\ Revision' = Revision
  BY DEF Status, Revision, Registered
<1>2. /\ Only(p)
      /\ pc[p] \notin {"resolve", "serve"} /\ pc'[p] \notin {"resolve", "serve"}
  <2> USE DEF Only
  <2>1. CASE Decide(p) BY <1>0, <2>1 DEF Decide
  <2>2. CASE PublishManifest(p) BY <1>0, <2>2 DEF PublishManifest, Fail
  <2>3. CASE \E d \in Dirs : ReadDirectory(p, d) BY <1>0, <2>3 DEF ReadDirectory
  <2>4. CASE \E j \in Jobs : LockRegistry(p, j)
    BY <1>0, <2>4 DEF LockRegistry, Locked, Calls
  <2>5. CASE \E j \in ImportJobs : Import(p, j) BY <1>0, <2>5 DEF Import
  <2>6. CASE \E role \in Roles : CopyImmutable(p, role)
    BY <1>0, <2>6 DEF CopyImmutable, Installs, Fail, Roles
  <2> QED  BY <2>1, <2>2, <2>3, <2>4, <2>5, <2>6
<1>3. Known' = Known /\ Answers' = Answers
  BY <1>2, NoRequest
<1> QED
  BY <1>1, <1>3 DEF Lifecycle!lifecycleVars, Lifecycle!registryVars, Lifecycle!clientVars

\* Every step of the commands and requests is one of the lifecycle, or invisible.
LEMMA LifecycleStepMaps ==
  ASSUME RegistryInv, RegistryInv', Effects, [Next]_allVars
  PROVE  [Lifecycle!Next]_(Lifecycle!lifecycleVars)
<1>1. CASE registry' # registry
  <2>1. PICK p \in Procs : Publish(p)
    BY <1>1, OnlyPublications
  <2> QED  BY <1>1, <2>1, PublicationMaps
<1>2. ASSUME registry' = registry, NEW p \in Procs, Leave(p)
      PROVE  [Lifecycle!Next]_(Lifecycle!lifecycleVars)
  BY <1>2, LeaveMaps
<1>3. ASSUME registry' = registry, NEW p \in Procs, RegistryStep(p), ~Leave(p)
      PROVE  [Lifecycle!Next]_(Lifecycle!lifecycleVars)
  <2>1. CASE \E v \in Voices : ReadProfile(p, v) BY <2>1, ProfileMaps
  <2>2. CASE \E m \in Models : ResolveAlias(p, m) BY <2>2, AliasMaps
  <2>4. CASE \/ SelectDefault(p) \/ SelectFromProfile(p)
             \/ \E m \in Models : ServeBinding(p, m)
    BY <2>4, SelectMaps
  <2>3. CASE \/ Decide(p) \/ \E d \in Dirs : ReadDirectory(p, d)
             \/ \E j \in Jobs : LockRegistry(p, j)
    BY <1>3, <2>3, InvisibleSteps
  <2> QED  BY <1>3, <2>1, <2>2, <2>3, <2>4 DEF RegistryStep, LockTimeout, Publish, Answer
<1>4. ASSUME registry' = registry, NEW p \in Procs, ~Leave(p),
             PublishManifest(p) \/ Crash(p)
               \/ (\E j \in ImportJobs : Import(p, j))
               \/ (\E role \in Roles : CopyImmutable(p, role))
      PROVE  [Lifecycle!Next]_(Lifecycle!lifecycleVars)
  BY <1>4, InvisibleSteps DEF Crash
<1>5. ASSUME UNCHANGED <<registry, pc, job, found, served>>
      PROVE  UNCHANGED Lifecycle!lifecycleVars
  BY <1>5 DEF Lifecycle!lifecycleVars, Lifecycle!registryVars, Lifecycle!clientVars,
              Status, Revision, Registered, Known, Answers
<1>6. ASSUME NEW d \in Dirs,
             \/ DamageWeights(d)
             \/ RemoveDirectory(d)
             \/ \E r \in Revs : EditManifest(d, r)
             \/ \E from \in Dirs : CopyDirectory(from, d)
      PROVE  UNCHANGED Lifecycle!lifecycleVars
  <2>1. UNCHANGED <<registry, pc, job, found, served>>
    BY <1>6 DEF DamageWeights, RemoveDirectory, EditManifest, CopyDirectory, ByHand, procVars
  <2> QED  BY <1>5, <2>1
<1>7. CASE UNCHANGED allVars
  BY <1>5, <1>7 DEF allVars, vars, procVars
<1> QED  BY <1>1, <1>2, <1>3, <1>4, <1>6, <1>7 DEF Next

\* Whatever is scanned, decided, published, edited and killed in between, every
\* command takes effect at once on the present registry, every request is answered
\* by the registered revision of a model that was in order when it was resolved,
\* and the registry's default of a voice by an evaluated one.
THEOREM LifecycleImplemented == Spec => ImplementsLifecycle
<1>1. Init => Lifecycle!Init
  BY DEF Init, Lifecycle!Init, EmptyRegistry, NoEntry, Status, Revision, Registered,
         Known, Answers
<1>2. Init => Effects
  BY DEF Init, Effects
<1>3. RegistryInv /\ Effects /\ [Next]_allVars => Effects'
  BY EffectsPreserved
<1>4. RegistryInv /\ RegistryInv' /\ Effects /\ [Next]_allVars
          => [Lifecycle!Next]_(Lifecycle!lifecycleVars)
  BY LifecycleStepMaps
<1> QED
  BY <1>1, <1>2, <1>3, <1>4, AlwaysRegistryInv, PTL
     DEF Spec, ImplementsLifecycle, Lifecycle!Spec

=============================================================================
