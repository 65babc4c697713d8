---------------------------- MODULE VoiceService ----------------------------
(***************************************************************************)
(* What a GPT-SoVITS backend shared by several CVS processes promises its  *)
(* clients, without processes, threads, locks, stages or timeouts: one     *)
(* client at a time, every word in the voice that client asked for, an     *)
(* answer only after the backend spoke, and a client that gave up blocks   *)
(* the backend until somebody has seen that it is quiet.                   *)
(* Stated by docs/gpt-sovits-serving-transaction-v1.md; GptServing         *)
(* implements it.                                                          *)
(***************************************************************************)
CONSTANTS Backends, Clients, Nobody,
          Voices,    \* managed voices
          External,  \* whatever was loaded by hand
          Sounds,    \* what a backend can sound like
          Timbre     \* Timbre[v]: the sound of managed voice v

VARIABLES client,    \* client[b]: whose turn b is not known to be done with
          voice,     \* voice[b]: the voice this client waits for, or Nobody
          spoken,    \* spoken[b]: b has spoken for it
          switching, \* switching[b]: b is changing voices
          heard,     \* heard[b]: what b is speaking with
          restarted  \* restarted[b]: b restarted in this turn

serviceVars == <<client, voice, spoken, switching, heard, restarted>>

Init ==
    /\ client = [b \in Backends |-> Nobody]
    /\ voice = [b \in Backends |-> Nobody]
    /\ spoken = [b \in Backends |-> FALSE]
    /\ switching = [b \in Backends |-> FALSE]
    /\ heard = [b \in Backends |-> {}]
    /\ restarted = [b \in Backends |-> FALSE]

Quiet(b) == ~switching[b] /\ heard[b] = {}

\* A turn starts on a backend that is quiet and owes nothing to anybody.
Open(b, c, v) ==
    /\ client[b] = Nobody
    /\ Quiet(b)
    /\ client' = [client EXCEPT ![b] = c]
    /\ voice' = [voice EXCEPT ![b] = v]
    /\ restarted' = [restarted EXCEPT ![b] = FALSE]
    /\ UNCHANGED <<spoken, switching, heard>>

\* Only a managed voice changes what the backend has loaded.
Switch(b) ==
    /\ voice[b] \in Voices
    /\ ~spoken[b]
    /\ Quiet(b)
    /\ switching' = [switching EXCEPT ![b] = TRUE]
    /\ UNCHANGED <<client, voice, spoken, heard, restarted>>

Speak(b, s) ==
    /\ voice[b] # Nobody
    /\ ~spoken[b]
    /\ Quiet(b)
    /\ voice[b] \in Voices /\ ~restarted[b] => s = Timbre[voice[b]]
    /\ heard' = [heard EXCEPT ![b] = {s}]
    /\ UNCHANGED <<client, voice, spoken, switching, restarted>>

\* The backend is done, and its client may or may not learn that it spoke.
Complete(b, told) ==
    /\ ~Quiet(b)
    /\ told => heard[b] # {} /\ voice[b] # Nobody
    /\ switching' = [switching EXCEPT ![b] = FALSE]
    /\ heard' = [heard EXCEPT ![b] = {}]
    /\ spoken' = [spoken EXCEPT ![b] = @ \/ told]
    /\ UNCHANGED <<client, voice, restarted>>

\* The client has its audio, and the backend is free.
Answer(b) ==
    /\ spoken[b]
    /\ Quiet(b)
    /\ client' = [client EXCEPT ![b] = Nobody]
    /\ voice' = [voice EXCEPT ![b] = Nobody]
    /\ spoken' = [spoken EXCEPT ![b] = FALSE]
    /\ UNCHANGED <<switching, heard, restarted>>

\* The client is gone, and the backend stays in its name.
Abandon(b) ==
    /\ voice[b] # Nobody
    /\ voice' = [voice EXCEPT ![b] = Nobody]
    /\ spoken' = [spoken EXCEPT ![b] = FALSE]
    /\ UNCHANGED <<client, switching, heard, restarted>>

\* An abandoned backend is freed once it is quiet.
Reconcile(b) ==
    /\ voice[b] = Nobody
    /\ client[b] # Nobody
    /\ Quiet(b)
    /\ client' = [client EXCEPT ![b] = Nobody]
    /\ UNCHANGED <<voice, spoken, switching, heard, restarted>>

Restart(b) ==
    /\ switching' = [switching EXCEPT ![b] = FALSE]
    /\ heard' = [heard EXCEPT ![b] = {}]
    /\ restarted' = [restarted EXCEPT ![b] = TRUE]
    /\ UNCHANGED <<client, voice, spoken>>

Next == \E b \in Backends :
    \/ \E c \in Clients, v \in Voices \cup {External} : Open(b, c, v)
    \/ Switch(b) \/ Answer(b) \/ Abandon(b) \/ Reconcile(b) \/ Restart(b)
    \/ \E s \in Sounds : Speak(b, s)
    \/ \E told \in BOOLEAN : Complete(b, told)

Spec == Init /\ [][Next]_serviceVars

=============================================================================
