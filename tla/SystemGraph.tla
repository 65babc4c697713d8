---------------------------- MODULE SystemGraph ----------------------------
(***************************************************************************)
(* What the service makes of the files of VoiceFiles at any moment:        *)
(*   a request   resolve_profile_selection picks model, binding, engine    *)
(*               and references of one generation                          *)
(*   the graph   build_system_graph connects the same identities, and      *)
(*               trace_voice keeps what one voice can reach                *)
(* The two read the same registries independently of each other.           *)
(***************************************************************************)
EXTENDS VoiceFiles, FiniteSets

CONSTANTS
    DefaultAlias,  \* default_model of the profile
    Gpt, Index,    \* the two engines
    Runtimes,      \* engines with an entry in the Runtime Registry
    Needs          \* Needs[e]: lifecycle owner, resource and dependencies

Aliases == Legacy \cup {Shared}
ASSUME GraphAssumption ==
    /\ DefaultAlias \in Aliases
    /\ Runtimes \subseteq {Gpt, Index}

\* Of an alias, or of a registered model.
EngineOf(m) == IF m = Shared THEN Index ELSE Gpt

Profile == live["profile"]
\* Unreadable bindings are an empty registry, to requests and graph alike.
Bindings == IF Readable("bindings") THEN live["bindings"] ELSE {}
References == Profile.refs \cup {OwnRef}

-----------------------------------------------------------------------------
(* build_system_graph and trace_voice                                      *)

VoiceNode == <<"voice", OwnRef>>
ModelNode(m) == <<"model", m>>
AliasNode(m) == IF m \in Profile.managed THEN ModelNode(Imported[m]) ELSE <<"alias", m>>
BindingNode(b) == <<"binding", b.id>>
EngineNode(e) == <<"engine", e>>
RuntimeNode(e) == <<"runtime", e>>
RefNode(r) == <<"reference", r>>

RuntimeEdges ==
    {<<EngineNode(e), RuntimeNode(e)>> : e \in Runtimes}
    \cup UNION {{RuntimeNode(e)} \X Needs[e] : e \in Runtimes}
ModelEdges == {<<ModelNode(m), EngineNode(EngineOf(m))>> : m \in registered}

\* Mutant: a binding is only connected with its engine.
BindingEngineOnly(b) == {EngineNode(b.engine)}
BindingTargets(b) == {ModelNode(b.model), EngineNode(b.engine)}

BindingEdges ==
    UNION {{<<VoiceNode, BindingNode(b)>>} \cup {BindingNode(b)} \X BindingTargets(b)
              : b \in Bindings}
ProfileEdges ==
    {<<VoiceNode, RefNode(r)>> : r \in References}
    \cup {<<VoiceNode, AliasNode(m)>> : m \in Aliases}
    \cup {<<AliasNode(m), EngineNode(EngineOf(m))>> : m \in Aliases}
    \cup UNION {{BindingNode(b)} \X {RefNode(r) : r \in {b.speaker, b.emotion} \cap References}
                   : b \in Bindings}

Edges ==
    RuntimeEdges \cup ModelEdges \cup BindingEdges
    \cup IF Readable("profile") THEN ProfileEdges ELSE {}

Step(edges, nodes) == nodes \cup {e[2] : e \in {g \in edges : g[1] \in nodes}}

\* A chain has at most five edges: binding, model, engine, runtime, need.
TraceVoice ==
    LET edges == Edges IN
    Step(edges, Step(edges, Step(edges, Step(edges, Step(edges, {VoiceNode})))))

\* The bindings the graph warns of.
Warned ==
    {b \in Bindings :
        \/ b.model \notin registered
        \/ Readable("profile") /\ ~({b.speaker, b.emotion} \subseteq References \cup {NoFile})}

-----------------------------------------------------------------------------
(* resolve_profile_selection, for selectors the request may carry.         *)

Selectors == Aliases \cup Registrable \cup {Gpt, Index} \cup {b.id : b \in Bindings}

\* The alias of the registry's default, or else the profile's own.
DefaultSelection ==
    LET named == {m \in Profile.managed : Imported[m] = default} IN
    IF named = {} THEN {DefaultAlias} ELSE named
Selected(x) == IF x = NoFile THEN DefaultSelection ELSE {x}

\* resolve_binding: one match is used, several are an error.
Matches(x) == {b \in Bindings : x \in {b.id, b.model, b.engine}}

OnEngine(e) ==
    {EngineNode(e)} \cup IF e \in Runtimes THEN {RuntimeNode(e)} \cup Needs[e] ELSE {}

\* The references a generation through b takes when the request names r.
Voices(b, r) == ({IF r = NoFile THEN b.speaker ELSE r} \cup {b.emotion}) \ {NoFile}

\* All a generation with selectors x and r depends on; none if it is refused.
Generations(x, r) ==
    {{BindingNode(b), ModelNode(b.model)} \cup OnEngine(EngineOf(b.model))
        \cup {RefNode(v) : v \in Voices(b, r)}
        : b \in {c \in Matches(x) : /\ Matches(x) = {c}
                                    /\ c.model \in registered
                                    /\ Voices(c, r) \subseteq References}}
    \cup IF Matches(x) = {} /\ x \in Aliases /\ r \in References \cup {NoFile}
         THEN {{AliasNode(x), RefNode(IF r = NoFile THEN OwnRef ELSE r)}
                  \cup OnEngine(EngineOf(x))}
         ELSE {}

-----------------------------------------------------------------------------
\* The trace of a voice answers what one generation of it depends on: whatever
\* a request selects, all of it is in the trace; and a binding a request fails
\* through is one the graph warns of.
TraceCoversGeneration ==
    Readable("profile") =>
        LET trace == TraceVoice IN
        \A s \in Selectors \cup {NoFile}, r \in Refs \cup {OwnRef, NoFile} :
            \A x \in Selected(s) :
                LET made == Generations(x, r) IN
                /\ \A g \in made : g \subseteq trace
                /\ r = NoFile /\ made = {} =>
                      \A b \in Matches(x) : Matches(x) = {b} => b \in Warned

=============================================================================
