----------------------------- MODULE AdminToken -----------------------------
(***************************************************************************)
(* server/config.py: every CVS process, the service and each script alike, *)
(* obtains the admin token while it imports the configuration.  The first  *)
(* one creates data/admin-token.txt; an OS lock covers the creation and    *)
(* every reader.  A token from the environment needs no file.              *)
(*                                                                         *)
(* boot: off; lock; look; create; write; up.                               *)
(***************************************************************************)
CONSTANTS
    Procs,    \* CVS processes that may run
    Tokens,   \* what token_urlsafe can return, or an operator choose
    FromEnvironment, \* processes that are given CVS_ADMIN_TOKEN
    NoOne, NoToken, Empty

ASSUME AdminTokenAssumption ==
    /\ NoOne \notin Procs
    /\ FromEnvironment \subseteq Procs
    /\ {NoToken, Empty} \cap Tokens = {}
    /\ NoToken # Empty

VARIABLES
    tokenFile,  \* admin-token.txt: NoToken (absent), Empty, or a token
    bootLock,   \* the process that holds the bootstrap lock
    boot        \* where the import of server.config is

tokenVars == <<tokenFile, bootLock, boot>>

BootPcs == {"off", "lock", "look", "create", "write", "up"}
Holding == {"look", "create", "write"}

\* Every variable keeps its type.
TokenTypeOK ==
    /\ tokenFile \in Tokens \cup {NoToken, Empty}
    /\ bootLock \in Procs \cup {NoOne}
    /\ boot \in [Procs -> BootPcs]

TokenInit ==
    /\ tokenFile = NoToken
    /\ bootLock = NoOne
    /\ boot = [p \in Procs |-> "off"]

-----------------------------------------------------------------------------
BootTo(p, s) == boot' = [boot EXCEPT ![p] = s]

\* The lock is released when the process leaves the block, or dies in it.
Unlocked(p) == bootLock' = IF bootLock = p THEN NoOne ELSE bootLock

\* With CVS_ADMIN_TOKEN set the process is up at once.
StartProcess(p) ==
    /\ boot[p] = "off"
    /\ BootTo(p, IF p \in FromEnvironment THEN "up" ELSE "lock")
    /\ UNCHANGED <<tokenFile, bootLock>>

\* Mutant: the bootstrap goes on without the lock.
TakeBootLockOrProceed(p) ==
    /\ boot[p] = "lock"
    /\ bootLock' = IF bootLock = NoOne THEN p ELSE bootLock
    /\ BootTo(p, "look")
    /\ UNCHANGED tokenFile

\* One of 200 attempts gets the lock, or the start fails.
TakeBootLock(p) ==
    /\ boot[p] = "lock"
    /\ \/ bootLock = NoOne /\ bootLock' = p /\ BootTo(p, "look")
       \/ bootLock # NoOne /\ BootTo(p, "off") /\ UNCHANGED bootLock
    /\ UNCHANGED tokenFile

\* A token is taken, an empty file refused, a missing one created.
LookAtToken(p) ==
    /\ boot[p] = "look"
    /\ \/ tokenFile \in Tokens /\ BootTo(p, "up") /\ Unlocked(p)
       \/ tokenFile = Empty /\ BootTo(p, "off") /\ Unlocked(p)
       \/ tokenFile = NoToken /\ BootTo(p, "create") /\ UNCHANGED bootLock
    /\ UNCHANGED tokenFile

\* O_EXCL: whoever put a file there since, it is not touched.
CreateToken(p) ==
    /\ boot[p] = "create"
    /\ \/ tokenFile = NoToken /\ tokenFile' = Empty /\ BootTo(p, "write")
          /\ UNCHANGED bootLock
       \/ tokenFile # NoToken /\ BootTo(p, "off") /\ Unlocked(p)
          /\ UNCHANGED tokenFile

WriteToken(p) ==
    /\ boot[p] = "write"
    /\ tokenFile' \in Tokens
    /\ BootTo(p, "up")
    /\ Unlocked(p)

\* The process ends, fails or is killed.
Leaves(p) ==
    /\ boot[p] # "off"
    /\ BootTo(p, "off")
    /\ Unlocked(p)
    /\ UNCHANGED tokenFile

Boot(p) ==
    \/ StartProcess(p) \/ TakeBootLock(p) \/ LookAtToken(p)
    \/ CreateToken(p) \/ WriteToken(p)

\* An operator puts a token of his own in place, or removes the empty file an
\* interrupted start left behind.
OperatorPlacesToken ==
    /\ \/ tokenFile = NoToken /\ tokenFile' \in Tokens
       \/ tokenFile = Empty /\ bootLock = NoOne /\ tokenFile' = NoToken
    /\ UNCHANGED <<bootLock, boot>>

-----------------------------------------------------------------------------
\* A token some process or operator may hold already is never replaced, and a
\* file found empty is one an interrupted start left behind: a token that is
\* just being written is never taken for that.
TokenIsTrusted ==
    [][/\ (tokenFile \in Tokens) => tokenFile' = tokenFile
       /\ \A p, q \in Procs :
             boot[p] = "look" /\ boot'[p] # "look" /\ tokenFile = Empty => boot[q] # "write"]_tokenVars

=============================================================================
