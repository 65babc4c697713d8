---------------------------- MODULE ProcessTree ----------------------------
(***************************************************************************)
(* The operating-system side of one exclusive GPU group on POSIX           *)
(* (server/runtime_process_tree.py): every managed engine is spawned as    *)
(* the leader of a new session and may fork workers into it; the leader    *)
(* can die while workers survive.  What is outside CVS is here as well:    *)
(* engines somebody started by hand and the synthesis jobs the backends    *)
(* are really computing, which outlive the CVS process that asked.         *)
(*                                                                         *)
(* A process group is named by the launch that created it.  A scan of      *)
(* /proc is taken as one atomic look at the group.                         *)
(***************************************************************************)
EXTENDS Naturals, FiniteSets

CONSTANTS
    Engines,   \* the engines configured in the exclusive group
    NoEngine,  \* no engine
    Manual,    \* those of them somebody may also run by hand
    Launches,  \* launch ids, each naming one process group
    Threads    \* CVS request threads: a backend job names its requester

ASSUME TreeAssumption ==
    /\ Manual \subseteq Engines
    /\ NoEngine \notin Engines

VARIABLES
    leaders,    \* launches whose session leader is alive
    workers,    \* launches with a live, nonzombie descendant in the session
    signalled,  \* launches sent SIGTERM by a controller
    serves,     \* the engine each populated group runs
    external,   \* engines running outside every supervisor
    jobs        \* <<requester, server>> pairs being computed by a backend

treeVars == <<leaders, workers, signalled, serves, external, jobs>>

Servers == Launches \cup Manual

ProcessTreeType ==
    /\ leaders \subseteq Launches
    /\ workers \subseteq Launches
    /\ signalled \subseteq Launches
    /\ serves \in [Launches -> Engines \cup {NoEngine}]
    /\ external \subseteq Manual
    /\ jobs \subseteq Threads \X Servers

ProcessTreeInit ==
    /\ leaders = {}
    /\ workers = {}
    /\ signalled = {}
    /\ serves = [n \in Launches |-> NoEngine]
    /\ external = {}
    /\ jobs = {}

\* The groups _live_posix_group_members can report as populated.
Alive == leaders \cup workers

\* Processes that can answer engine e's health probe or synthesis requests.
ServersOf(e) == {n \in Alive : serves[n] = e} \cup (external \cap {e})

\* A health probe may miss a live server (still loading, slow, "stopping"),
\* but it never answers for an engine no process serves.
MayAnswerHealth(e) == ServersOf(e) # {}

\* Popen(start_new_session=True) for engine e.
Spawn(n, e) ==
    /\ leaders' = leaders \cup {n}
    /\ signalled' = signalled \ {n}
    /\ serves' = [serves EXCEPT ![n] = e]
    /\ UNCHANGED <<workers, external, jobs>>

\* os.killpg(pgid, SIGTERM): nothing dies in this step, the group is free to
\* ignore the signal.  The later SIGKILL permits the same exits.
SignalGroup(n) ==
    /\ signalled' = IF n \in Alive THEN signalled \cup {n} ELSE signalled
    /\ UNCHANGED <<leaders, workers, serves, external, jobs>>

-----------------------------------------------------------------------------
(* What the environment does on its own.                                   *)

JobsServedBy(servers) == {j \in jobs : j[2] \in servers}

\* With its last member a group stops serving and its backend jobs are lost.
GroupEmptied(n) ==
    /\ jobs' = jobs \ JobsServedBy({n})
    /\ serves' = [serves EXCEPT ![n] = NoEngine]

LeaderExits(n) ==
    /\ n \in leaders
    /\ leaders' = leaders \ {n}
    /\ IF n \in workers THEN UNCHANGED <<jobs, serves>> ELSE GroupEmptied(n)
    /\ UNCHANGED <<workers, signalled, external>>

WorkerForked(n) ==
    /\ n \in leaders \ workers
    /\ workers' = workers \cup {n}
    /\ UNCHANGED <<leaders, signalled, serves, external, jobs>>

WorkersExit(n) ==
    /\ n \in workers
    /\ workers' = workers \ {n}
    /\ IF n \in leaders THEN UNCHANGED <<jobs, serves>> ELSE GroupEmptied(n)
    /\ UNCHANGED <<leaders, signalled, external>>

ExternalToggled(e) ==
    /\ external' = IF e \in external THEN external \ {e} ELSE external \cup {e}
    /\ jobs' = jobs \ JobsServedBy({e})
    /\ UNCHANGED <<leaders, workers, signalled, serves>>

BackendFinishes(j) ==
    /\ j \in jobs
    /\ jobs' = jobs \ {j}
    /\ UNCHANGED <<leaders, workers, signalled, serves, external>>

ProcessTreeStep ==
    \/ \E n \in Launches : LeaderExits(n) \/ WorkerForked(n) \/ WorkersExit(n)
    \/ \E e \in Manual : ExternalToggled(e)
    \/ \E j \in jobs : BackendFinishes(j)

=============================================================================
