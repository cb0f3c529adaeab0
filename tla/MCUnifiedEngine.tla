--------------------------- MODULE MCUnifiedEngine ---------------------------
(***************************************************************************)
(* Tasks that share connections to a database.  They share a UnifiedEngine *)
(* in one of three setups: everything may fail; nothing fails but nobody   *)
(* connected the engine before; or it was connected to an in-memory        *)
(* database before, and the tasks only send statements.  Or they share the *)
(* pool of a Python backend, which may hold one connection.  The pool is   *)
(* an instance of the module with its proofs, whose lemmas                 *)
(* MCUnifiedEngineProofs cites.                                            *)
(***************************************************************************)
EXTENDS UnifiedEngine, FiniteSets

CONSTANTS Conns, NoConn

Everything ==
    [kinds |-> AllKinds, connected |-> FALSE, inMemory |-> TRUE,
     connectFaults |-> TRUE, statementFaults |-> TRUE, lostReplies |-> TRUE]
Lazy ==
    [kinds |-> AllKinds \ {"close"}, connected |-> FALSE, inMemory |-> FALSE,
     connectFaults |-> FALSE, statementFaults |-> FALSE, lostReplies |-> FALSE]
Memory ==
    [kinds |-> {"query", "many"}, connected |-> TRUE, inMemory |-> TRUE,
     connectFaults |-> FALSE, statementFaults |-> TRUE, lostReplies |-> FALSE]
MCSetups == {Everything, Lazy, Memory}

VARIABLES idle, inUse, total, initialized, queue, open, dirty,
          at, invoked, conn, invocations, made, late, leaky
poolVars == <<idle, inUse, total, initialized, queue, open, dirty,
              at, invoked, conn, invocations, made, late, leaky>>

VARIABLE shared  \* "engine" or "pool"
mcvars == <<vars, poolVars, shared>>

Pool == INSTANCE ConnectionPoolProofs WITH
    PoolSize <- 1, MaxOverflow <- 0, Faults <- TRUE, Cancels <- TRUE,
    MaxCalls <- 2,
    pool <- idle, pc <- at, call <- invoked, calls <- invocations

ASSUME PoolAssumed == Pool!PoolAssumption

MCInit ==
    /\ Init /\ Pool!Init
    /\ \/ shared = "engine"
       \/ shared = "pool" /\ setup = Memory

\* Two calls of each task are enough where everything may fail.
Bounded == setup = Everything => \A t \in Tasks : calls'[t] <= 2

MCNext ==
    \/ shared = "engine" /\ Next /\ Bounded /\ UNCHANGED <<poolVars, shared>>
    \/ shared = "pool" /\ Pool!Next /\ UNCHANGED <<vars, shared>>

MCStep(t) ==
    \/ shared = "engine" /\ Step(t) /\ UNCHANGED <<setup, poolVars, shared>>
    \/ shared = "pool" /\ Pool!Step(t) /\ UNCHANGED <<vars, shared>>

\* Executor threads run and the event loop resumes who waits for them; every
\* await of the pool returns, a timeout passes, the lock serves in order.
MCSpec == MCInit /\ [][MCNext]_mcvars /\ \A t \in Tasks : WF_mcvars(MCStep(t))

(* The pool of a backend: a connection is with one task at most, through    *)
(* releases, closes under way and new initialisations.                      *)
ExclusiveUse == Pool!ExclusiveUse

(* An idle connection is open and in no transaction, and the pool's count   *)
(* is right when nobody works on it, unless closing or rolling back failed. *)
IdleIsUsable == Pool!IdleIsUsable

(* Never more connections than allowed, unless initialize() found some      *)
(* already there.                                                           *)
WithinCapacity == Pool!WithinCapacity

(* Every call returns: of the engine, whose reconnection is tried once, and *)
(* of the pool, where who waits for a connection keeps the lock that giving *)
(* one back needs, until the wait times out.                                *)
EveryCallReturns ==
    \A t \in Tasks : pc[t] # "idle" \/ at[t] # "idle"
                     ~> pc[t] = "idle" /\ at[t] = "idle"
=============================================================================
