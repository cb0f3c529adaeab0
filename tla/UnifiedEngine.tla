---------------------------- MODULE UnifiedEngine ----------------------------
(***************************************************************************)
(* oxen/engine.py over oxen/rust_bridge.py and src/lib.rs: asyncio tasks   *)
(* that share one UnifiedEngine.  Each call of the Rust engine runs in a   *)
(* thread of the default executor and holds the GIL from its start to its  *)
(* end (no allow_threads in lib.rs), so it is one step; the threads take   *)
(* the GIL in any order, and the Python code on both sides of the await is *)
(* a step of its own.                                                      *)
(***************************************************************************)
EXTENDS Integers

CONSTANTS
    Tasks,
    Setups,   \* the ways the engine is set up and used
    MaxCalls  \* bound: calls of each task

AllKinds == {"connect", "query", "many", "disconnect", "close"}

Setup ==
    [kinds : SUBSET AllKinds,   \* the calls tasks make
     connected : BOOLEAN,       \* did somebody await connect() before them?
     inMemory : BOOLEAN,        \* sqlite://:memory:, a new one for every pool
     connectFaults : BOOLEAN,   \* may opening the pool fail?
     statementFaults : BOOLEAN, \* may the database refuse a statement?
     lostReplies : BOOLEAN]     \* may a reply be lost after the effect?

ASSUME EngineAssumption == Setups \subseteq Setup /\ MaxCalls \in Nat

Statements == Tasks \X (1 .. MaxCalls)   \* what the n-th call of a task sends

VARIABLES
    setup,        \* the one of Setups this is; it never changes
    bridge,       \* is UnifiedEngine._rust_engine set?
    pool,         \* the pool of the Rust engine: "none", "open" or "closed"
    isConnected,  \* UnifiedEngine.is_connected
    stored,       \* the statements whose effect the database of the pool has
    times,        \* how many times each statement took effect
    acked,        \* the statements answered with a result
    failed,       \* the statements answered with an error
    lost,         \* those of them whose reply was lost after the effect
    pc, kind, calls

engine  == <<bridge, pool, isConnected>>
effects == <<stored, times>>
replies == <<acked, failed, lost>>
vars    == <<setup, bridge, pool, isConnected, stored, times, acked, failed, lost,
             pc, kind, calls>>

TypeOK ==
    /\ setup \in Setups
    /\ bridge \in BOOLEAN
    /\ pool \in {"none", "open", "closed"}
    /\ isConnected \in BOOLEAN
    /\ stored \subseteq Statements
    /\ times \in [Statements -> Nat]
    /\ acked \subseteq Statements
    /\ failed \subseteq Statements
    /\ lost \subseteq failed
    /\ pc \in [Tasks -> {"idle", "connect", "connected", "execute",
                         "reconnect", "retry", "close"}]
    /\ kind \in [Tasks -> AllKinds]
    /\ calls \in [Tasks -> 0 .. MaxCalls]

(* create_engine makes the bridge, UnifiedEngine(...) alone does not.       *)
Init ==
    /\ setup \in Setups
    /\ bridge \in IF setup.connected THEN {TRUE} ELSE BOOLEAN
    /\ pool = IF setup.connected THEN "open" ELSE "none"
    /\ isConnected = setup.connected
    /\ stored = {}
    /\ times = [s \in Statements |-> 0]
    /\ acked = {}
    /\ failed = {}
    /\ lost = {}
    /\ pc = [t \in Tasks |-> "idle"]
    /\ kind = [t \in Tasks |-> "connect"]
    /\ calls = [t \in Tasks |-> 0]

-----------------------------------------------------------------------------
(* The calls                                                                *)

(* Mutant: the answer goes to the call after this one.                      *)
SentNext(t) == <<t, calls[t] + 1>>

Sent(t) == <<t, calls[t]>>

(* Mutant: every call makes sure to connect.                                *)
ConnectsEveryTime(k) == k # "close"

(* Whether the call awaits UnifiedEngine.connect() first.                   *)
ConnectsFirst(k) ==
    \/ k = "connect"
    \/ k = "query" /\ ~bridge
    \/ k = "many" /\ ~(bridge /\ isConnected)

Invoke(t, k) ==
    /\ pc[t] = "idle" /\ calls[t] < MaxCalls
    /\ k \in setup.kinds \ {"disconnect"}
    /\ k = "close" => bridge
    /\ calls' = [calls EXCEPT ![t] = @ + 1]
    /\ kind' = [kind EXCEPT ![t] = k]
    /\ pc' = [pc EXCEPT ![t] = IF k = "close" THEN "close"
                               ELSE IF ConnectsFirst(k) THEN "connect"
                               ELSE "execute"]
    /\ bridge' = (bridge \/ ConnectsFirst(k))
    /\ UNCHANGED <<pool, isConnected, effects, replies>>

(* UnifiedEngine.disconnect touches a flag; it awaits nothing.              *)
Disconnect(t) ==
    /\ pc[t] = "idle" /\ calls[t] < MaxCalls
    /\ "disconnect" \in setup.kinds
    /\ calls' = [calls EXCEPT ![t] = @ + 1]
    /\ isConnected' = FALSE
    /\ UNCHANGED <<bridge, pool, effects, replies, pc, kind>>

(* The Rust connect: a new pool takes the place of the one there was.       *)
OpenPool(t) ==
    /\ pc[t] \in {"connect", "reconnect"}
    /\ pool' = "open"
    /\ stored' = IF setup.inMemory THEN {} ELSE stored
    /\ pc' = [pc EXCEPT ![t] = IF @ = "connect" THEN "connected" ELSE "retry"]
    /\ UNCHANGED <<bridge, isConnected, times, replies, kind, calls>>

(* Mutant: a reconnection that fails starts again.                          *)
TryForever(t) ==
    /\ setup.connectFaults
    /\ pc[t] \in {"connect", "reconnect"}
    /\ pc' = [pc EXCEPT ![t] = IF kind[t] = "connect" THEN "idle" ELSE "execute"]
    /\ UNCHANGED <<engine, effects, replies, kind, calls>>

(* connect() reports the failure to a caller that may not look at it, and   *)
(* a reconnection gives up.                                                 *)
CannotOpen(t) ==
    /\ setup.connectFaults
    /\ \/ /\ pc[t] = "connect"
          /\ pc' = [pc EXCEPT ![t] = IF kind[t] = "connect" THEN "idle"
                                                            ELSE "execute"]
          /\ failed' = failed
       \/ /\ pc[t] = "reconnect"
          /\ pc' = [pc EXCEPT ![t] = "idle"]
          /\ failed' = failed \cup {Sent(t)}
    /\ UNCHANGED <<engine, effects, acked, lost, kind, calls>>

(* Back in Python, connect() sets the flags (only here: not after a         *)
(* reconnection).                                                           *)
SetConnected(t) ==
    /\ pc[t] = "connected"
    /\ isConnected' = TRUE
    /\ pc' = [pc EXCEPT ![t] = IF kind[t] = "connect" THEN "idle" ELSE "execute"]
    /\ UNCHANGED <<bridge, pool, effects, replies, kind, calls>>

-----------------------------------------------------------------------------
(* The statements                                                           *)

Succeed(t) == acked' = acked \cup {Sent(t)} /\ UNCHANGED <<failed, lost>>
Fail(t)    == failed' = failed \cup {Sent(t)} /\ UNCHANGED <<acked, lost>>
LoseReply(t) ==
    /\ failed' = failed \cup {Sent(t)}
    /\ lost' = lost \cup {Sent(t)}
    /\ acked' = acked
TakeEffect(t) ==
    /\ times' = [times EXCEPT ![Sent(t)] = @ + 1]
    /\ stored' = stored \cup {Sent(t)}

(* Mutant: every error is worth another attempt.                            *)
RetryAnyError(t) ==
    \/ TakeEffect(t) /\ Succeed(t) /\ pc' = [pc EXCEPT ![t] = "idle"]
    \/ /\ \/ setup.statementFaults /\ UNCHANGED effects
          \/ setup.lostReplies /\ TakeEffect(t)
       /\ pc' = [pc EXCEPT ![t] = IF @ = "retry" THEN "idle" ELSE "reconnect"]
       /\ IF pc[t] = "retry" THEN Fail(t) ELSE UNCHANGED replies
(* Mutant: an error result nobody looks at.                                 *)
IgnoreError(t) ==
    /\ TakeEffect(t) \/ (setup.statementFaults /\ UNCHANGED effects)
    /\ Succeed(t)
    /\ pc' = [pc EXCEPT ![t] = "idle"]

(* An open pool passes the statement on, and the answer ends the call: only *)
(* an error that says 'Not connected' is tried again.                       *)
AskDatabase(t) ==
    /\ \/ TakeEffect(t) /\ Succeed(t)
       \/ setup.statementFaults /\ UNCHANGED effects /\ Fail(t)
       \/ setup.lostReplies /\ TakeEffect(t) /\ LoseReply(t)
    /\ pc' = [pc EXCEPT ![t] = "idle"]

Execute(t) ==
    /\ pc[t] \in {"execute", "retry"} /\ pool = "open"
    /\ AskDatabase(t)
    /\ UNCHANGED <<engine, kind, calls>>

(* Mutant: execute_query returns the error at once.                         *)
NeverReconnects(t) == FALSE

(* execute_query, not execute_many, connects and tries once more.           *)
Reconnects(t) == kind[t] = "query"

(* The Rust engine raises NotConnected before it sends anything.            *)
NotConnected(t) ==
    /\ pc[t] = "execute" /\ pool = "none"
    /\ IF Reconnects(t)
         THEN pc' = [pc EXCEPT ![t] = "reconnect"] /\ UNCHANGED replies
         ELSE pc' = [pc EXCEPT ![t] = "idle"] /\ Fail(t)
    /\ UNCHANGED <<engine, effects, kind, calls>>

(* A closed pool refuses every statement; it still counts as connected.     *)
PoolIsClosed(t) ==
    /\ pc[t] \in {"execute", "retry"} /\ pool = "closed"
    /\ pc' = [pc EXCEPT ![t] = "idle"]
    /\ Fail(t)
    /\ UNCHANGED <<engine, effects, kind, calls>>

(* rust_bridge close(), disconnect(): the pool is closed, not forgotten.    *)
Close(t) ==
    /\ pc[t] = "close"
    /\ pool' = IF pool = "open" THEN "closed" ELSE pool
    /\ stored' = IF setup.inMemory THEN {} ELSE stored
    /\ pc' = [pc EXCEPT ![t] = "idle"]
    /\ UNCHANGED <<bridge, isConnected, times, replies, kind, calls>>

Step(t) ==
    \/ OpenPool(t) \/ CannotOpen(t) \/ SetConnected(t)
    \/ Execute(t) \/ NotConnected(t) \/ PoolIsClosed(t) \/ Close(t)

Act(t) == (\E k \in AllKinds : Invoke(t, k)) \/ Disconnect(t) \/ Step(t)

Next == (\E t \in Tasks : Act(t)) /\ UNCHANGED setup

Spec == Init /\ [][Next]_vars

-----------------------------------------------------------------------------
(* Properties                                                               *)

(* execute_query may send its statement again after an error, yet no        *)
(* statement takes effect twice, whatever other tasks do to the pool.       *)
AtMostOnce == \A s \in Statements : times[s] <= 1

(* A result means the statement took effect, once; an error means it did    *)
(* not, unless the database's own reply was lost.                           *)
RepliesAreTrue ==
    /\ \A s \in acked : times[s] = 1
    /\ \A s \in failed \ lost : times[s] = 0

(* Nothing fails by itself, and no task closes the engine.                  *)
NothingFails ==
    /\ "close" \notin setup.kinds
    /\ ~setup.connectFaults /\ ~setup.statementFaults /\ ~setup.lostReplies

(* Then no statement fails for want of a connection: the first caller       *)
(* connects, and those that come before it is done connect too.             *)
StatementsSucceed == NothingFails => failed = {}

(* Tasks only send statements to an engine connected before they began.     *)
OnlyStatements == setup.connected /\ setup.kinds \subseteq {"query", "many"}

(* Then what was acknowledged stays, also in a database that lives only as  *)
(* long as its pool.                                                        *)
AcknowledgedStays == OnlyStatements => acked \subseteq stored
=============================================================================
