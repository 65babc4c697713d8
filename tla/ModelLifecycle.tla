--------------------------- MODULE ModelLifecycle ---------------------------
(***************************************************************************)
(* What the model registry promises, without processes, locks, files or    *)
(* hashes: commands take effect at once and one after the other, a model   *)
(* keeps the revision it was registered by, only a promotion makes a model *)
(* the default of its voice, and a request is answered by the revision a   *)
(* model is registered by; the registry's default of a voice is one that   *)
(* was evaluated.                                                          *)
(* Stated by docs/model-registry-transactions-v1.md and                    *)
(* docs/character-registry.md; ModelImport implements it.                  *)
(***************************************************************************)
CONSTANTS Clients, Models, Voices, VoiceOf, Shared, Revs, Declares, Assigned,
          Evaluated, NoModel, NoFile

VARIABLES status,   \* status[m]: the lifecycle status of m, or "none"
          revision, \* revision[m]: what m was registered by, or NoFile
          default,  \* default[v]: the default model of voice v, or NoModel
          known,    \* known[c]: the models client c has found in order
          answer    \* answer[c]: what client c is served by, and by what right

registryVars == <<status, revision, default>>
clientVars == <<known, answer>>
lifecycleVars == <<registryVars, clientVars>>

Init ==
    /\ status = [m \in Models |-> "none"]
    /\ revision = [m \in Models |-> NoFile]
    /\ default = [v \in Voices |-> NoModel]
    /\ known = [c \in Clients |-> {}]
    /\ answer = [c \in Clients |-> NoFile]

\* A scan registers new models and may quarantine known ones.
Registers(m) ==
    /\ revision'[m] \in Revs
    /\ status'[m] = Declares[revision'[m]]
Keeps(m) == revision'[m] = revision[m] /\ status'[m] = status[m]
Quarantines(m) == revision'[m] = revision[m] /\ status'[m] = "quarantined"

Scan ==
    /\ UNCHANGED <<default, clientVars>>
    /\ status' = [m \in Models |-> status'[m]]
    /\ revision' = [m \in Models |-> revision'[m]]
    /\ \A m \in Models : \/ Keeps(m)
                         \/ status[m] = "none" /\ Registers(m)
                         \/ status[m] # "none" /\ Quarantines(m)

Promote(m) ==
    /\ UNCHANGED <<revision, clientVars>>
    /\ VoiceOf[m] # Shared
    /\ status[m] \in {"validated", "default"}
    /\ <<m, revision[m]>> \in Evaluated
    /\ default' = [default EXCEPT ![VoiceOf[m]] = m]
    /\ status' = [n \in Models |->
                     IF n = m THEN "default"
                     ELSE IF n = default[VoiceOf[m]] /\ status[n] = "default"
                     THEN "validated" ELSE status[n]]

IsDefault(m) == VoiceOf[m] # Shared /\ default[VoiceOf[m]] = m

\* Retiring a model, which no default may be, or assigning it a status.
Assign(m, s) ==
    /\ UNCHANGED <<revision, default, clientVars>>
    /\ status[m] # "none"
    /\ \/ s = "retired" /\ ~IsDefault(m)
       \/ s \in Assigned
    /\ status' = [status EXCEPT ![m] = s]

InOrder(m) == status[m] \notin {"none", "quarantined"}

\* A client first finds out which models are in order ...
Learn(c, m) ==
    /\ UNCHANGED <<registryVars, answer>>
    /\ InOrder(m)
    /\ known' = [known EXCEPT ![c] = @ \cup {m}]

Answered(c, m, by) ==
    /\ UNCHANGED registryVars
    /\ known' = [known EXCEPT ![c] = {}]
    /\ answer' = [answer EXCEPT ![c] = [id |-> m, rev |-> revision[m], by |-> by]]

\* ... and is given the default of a voice if it knows it, unchanged since and
\* evaluated, ...
ServeDefault(c, v) ==
    /\ default[v] \in known[c]
    /\ status[default[v]] = "default"
    /\ <<default[v], revision[default[v]]>> \in Evaluated
    /\ Answered(c, default[v], "default")

\* ... or some other model it knows, or one that is in order now.
ServeOther(c, m) ==
    \/ m \in known[c] /\ Answered(c, m, "profile")
    \/ InOrder(m) /\ Answered(c, m, "binding")

Forget(c) ==
    /\ UNCHANGED registryVars
    /\ known' = [known EXCEPT ![c] = {}]
    /\ answer' = [answer EXCEPT ![c] = NoFile]

Next ==
    \/ \E c \in Clients :
          \/ Forget(c)
          \/ \E v \in Voices : ServeDefault(c, v)
          \/ \E m \in Models : Learn(c, m) \/ ServeOther(c, m)
    \/ \E m \in Models : Promote(m) \/ \E s \in Assigned \cup {"retired"} : Assign(m, s)
    \/ Scan

Spec == Init /\ [][Next]_lifecycleVars

=============================================================================
