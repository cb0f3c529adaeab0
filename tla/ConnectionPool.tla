--------------------------- MODULE ConnectionPool ---------------------------
(***************************************************************************)
(* oxen/backends/base.py: asyncio tasks that share a backend and its pool  *)
(* of connections.  A task is in another step after each await; the pool's *)
(* lock is an asyncio.Lock, which serves those who wait in their order.    *)
(* The lists of connections are multisets: which one is popped is open.    *)
(***************************************************************************)
EXTENDS Integers, FiniteSets, Sequences

CONSTANTS
    Tasks,
    Conns, NoConn,   \* bound: connections that exist at one time
    PoolSize, MaxOverflow,
    Faults,       \* may the driver fail to open, commit, roll back or close?
    Cancels,      \* may a task be cancelled in the body of a transaction?
    MaxCalls      \* bound: calls of each task

PoolAssumption ==
    /\ PoolSize \in Nat \ {0} /\ MaxOverflow \in Nat     \* DatabaseConfig
    /\ {Faults, Cancels} \subseteq BOOLEAN
    /\ MaxCalls \in Nat
    /\ NoConn \notin Conns

VARIABLES
    pool, inUse,  \* _pool and _in_use: how often each connection is listed
    total,        \* _total_connections
    initialized,  \* BaseBackend._initialized
    queue,        \* who waits for the pool's lock; the first one has it
    open,         \* connections the driver has open
    dirty,        \* those in a transaction
    pc, call, conn, calls,
    made,         \* connections initialize() has still to make, per task
    late,         \* history: an initialize() found connections already open
    leaky         \* history: a close failed, or a block was left in its
                  \* transaction

lists  == <<pool, inUse, total>>
driver == <<open, dirty>>
past   == <<late, leaky>>
vars   == <<pool, inUse, total, initialized, queue, open, dirty,
            pc, call, conn, calls, made, late, leaky>>

Calls == {"initialize", "execute", "transaction", "close"}
Inside == {"acquire", "creating", "sleeping", "release", "checking",
           "initialize", "close"}

PoolTypeOK ==
    /\ pool \in [Conns -> Nat] /\ inUse \in [Conns -> Nat]
    /\ total \in Int
    /\ initialized \in BOOLEAN
    /\ queue \in Seq(Tasks)
    /\ open \subseteq Conns /\ dirty \subseteq open
    /\ pc \in [Tasks -> Inside \cup {"idle", "query", "begin", "body", "rollback"}]
    /\ call \in [Tasks -> Calls]
    /\ conn \in [Tasks -> Conns \cup {NoConn}]
    /\ calls \in [Tasks -> 0 .. MaxCalls]
    /\ made \in [Tasks -> 0 .. PoolSize]
    /\ {late, leaky} \subseteq BOOLEAN

Init ==
    /\ pool = [c \in Conns |-> 0] /\ inUse = [c \in Conns |-> 0]
    /\ total = 0
    /\ initialized = FALSE
    /\ queue = <<>>
    /\ open = {} /\ dirty = {}
    /\ pc = [t \in Tasks |-> "idle"]
    /\ call = [t \in Tasks |-> "execute"]
    /\ conn = [t \in Tasks |-> NoConn]
    /\ calls = [t \in Tasks |-> 0]
    /\ made = [t \in Tasks |-> 0]
    /\ late = FALSE /\ leaky = FALSE

-----------------------------------------------------------------------------
Listed(list) == {c \in Conns : list[c] > 0}

(* Mutant: a connection is looked at in the list, and stays in it.          *)
Keep(list, c)   == list

Add(list, c)    == [list EXCEPT ![c] = @ + 1]
Remove(list, c) == [list EXCEPT ![c] = @ - 1]

(* Mutant: the comparison is off by one.                                    *)
RoomForOneMore == Cardinality(Listed(inUse)) <= PoolSize + MaxOverflow

(* len(_in_use) < pool_size + max_overflow: no connection is listed twice.  *)
RoomForMore == Cardinality(Listed(inUse)) < PoolSize + MaxOverflow

(* A new connection is none of those that something still refers to.        *)
Unused == Conns \ (open \cup Listed(pool) \cup Listed(inUse)
                        \cup {conn[t] : t \in Tasks})
New == {CHOOSE c \in Unused : TRUE} \cap Unused   \* names do not matter

HasLock(t) == queue # <<>> /\ Head(queue) = t
GoTo(t, place) == pc' = [pc EXCEPT ![t] = place]

(* Where the block of get_connection() goes once it has its connection.     *)
Block(t) == IF call[t] = "transaction" THEN "begin" ELSE "query"

(* BaseBackend.initialize looks at its flag before it waits for the lock.   *)
Invoke(t, c) ==
    /\ pc[t] = "idle" /\ calls[t] < MaxCalls
    /\ c = "initialize" => ~initialized
    /\ calls' = [calls EXCEPT ![t] = @ + 1]
    /\ call' = [call EXCEPT ![t] = c]
    /\ GoTo(t, IF c \in {"initialize", "close"} THEN c ELSE "acquire")
    /\ queue' = Append(queue, t)
    /\ made' = [made EXCEPT ![t] = 0]
    /\ UNCHANGED <<lists, initialized, driver, conn, past>>

-----------------------------------------------------------------------------
(* initialize                                                               *)

MakeOne(t) ==
    /\ pc[t] = "initialize" /\ HasLock(t) /\ made[t] < PoolSize
    /\ \E c \in New :
          /\ pool' = Add(pool, c)
          /\ open' = open \cup {c}
    /\ total' = total + 1
    /\ made' = [made EXCEPT ![t] = @ + 1]
    /\ late' = (late \/ (made[t] = 0 /\ open # {}))
    /\ UNCHANGED <<inUse, initialized, queue, dirty, pc, call, conn, calls, leaky>>

(* What was made before the failure stays in the pool.                      *)
MakeFails(t) ==
    /\ Faults
    /\ pc[t] = "initialize" /\ HasLock(t) /\ made[t] < PoolSize
    /\ queue' = Tail(queue)
    /\ GoTo(t, "idle")
    /\ UNCHANGED <<lists, initialized, driver, call, conn, calls, made, past>>

Initialized(t) ==
    /\ pc[t] = "initialize" /\ HasLock(t) /\ made[t] = PoolSize
    /\ initialized' = TRUE
    /\ queue' = Tail(queue)
    /\ GoTo(t, "idle")
    /\ UNCHANGED <<lists, driver, call, conn, calls, made, past>>

-----------------------------------------------------------------------------
(* acquire                                                                  *)

Take(t, c) ==
    /\ pool' = Remove(pool, c)
    /\ inUse' = Add(inUse, c)
    /\ conn' = [conn EXCEPT ![t] = c]
    /\ queue' = Tail(queue)
    /\ GoTo(t, Block(t))

AcquireIdle(t) ==
    /\ pc[t] = "acquire" /\ HasLock(t)
    /\ \E c \in Listed(pool) : Take(t, c)
    /\ UNCHANGED <<total, initialized, driver, call, calls, made, past>>

AcquireNew(t) ==
    /\ pc[t] = "acquire" /\ HasLock(t) /\ Listed(pool) = {}
    /\ GoTo(t, IF RoomForMore THEN "creating" ELSE "sleeping")
    /\ UNCHANGED <<lists, initialized, queue, driver, call, conn, calls, made,
                   past>>

Created(t) ==
    /\ pc[t] = "creating"
    /\ \E c \in New :
          /\ inUse' = Add(inUse, c)
          /\ open' = open \cup {c}
          /\ conn' = [conn EXCEPT ![t] = c]
    /\ total' = total + 1
    /\ queue' = Tail(queue)
    /\ GoTo(t, Block(t))
    /\ UNCHANGED <<pool, initialized, dirty, call, calls, made, past>>

CreateFails(t) ==
    /\ Faults
    /\ pc[t] = "creating"
    /\ queue' = Tail(queue)
    /\ GoTo(t, "idle")
    /\ UNCHANGED <<lists, initialized, driver, call, conn, calls, made, past>>

(* Mutant: the wait has no end but a connection that comes back.            *)
WaitForever(t) ==
    /\ pc[t] = "sleeping"
    /\ \E c \in Listed(pool) : Take(t, c)
    /\ UNCHANGED <<total, initialized, driver, call, calls, made, past>>

(* The wait keeps the lock that release needs: only the timeout ends it.    *)
WaitOver(t) ==
    /\ pc[t] = "sleeping"
    /\ IF Listed(pool) # {}
         THEN \E c \in Listed(pool) : Take(t, c)
         ELSE /\ queue' = Tail(queue)
              /\ GoTo(t, "idle")
              /\ UNCHANGED <<pool, inUse, conn>>
    /\ UNCHANGED <<total, initialized, driver, call, calls, made, past>>

-----------------------------------------------------------------------------
(* The block                                                                *)

(* Leaving the block, by its end or by an exception: release waits for the  *)
(* lock.                                                                    *)
Leave(t) == GoTo(t, "release") /\ queue' = Append(queue, t)

Query(t) ==
    /\ pc[t] = "query"
    /\ Leave(t)
    /\ UNCHANGED <<lists, initialized, driver, call, conn, calls, made, past>>

Begin(t) ==
    /\ pc[t] = "begin"
    /\ \/ /\ conn[t] \in open
          /\ dirty' = dirty \cup {conn[t]}
          /\ GoTo(t, "body") /\ UNCHANGED queue
       \/ (Faults \/ conn[t] \notin open) /\ Leave(t) /\ UNCHANGED dirty
    /\ UNCHANGED <<lists, initialized, open, call, conn, calls, made, past>>

(* The body and commit_transaction, or an exception from either.            *)
Commit(t) ==
    /\ pc[t] = "body" /\ conn[t] \in open
    /\ dirty' = dirty \ {conn[t]}
    /\ Leave(t)
    /\ UNCHANGED <<lists, initialized, open, call, conn, calls, made, past>>

BodyFails(t) ==
    /\ pc[t] = "body"
    /\ GoTo(t, "rollback")
    /\ UNCHANGED <<lists, initialized, queue, driver, call, conn, calls, made,
                   past>>

Rollback(t) ==
    /\ pc[t] = "rollback"
    /\ \/ dirty' = dirty \ {conn[t]} /\ UNCHANGED leaky
       \/ Faults /\ dirty' = dirty /\ leaky' = TRUE
    /\ Leave(t)
    /\ UNCHANGED <<lists, initialized, open, call, conn, calls, made, late>>

(* `except Exception` does not catch CancelledError: no rollback.           *)
Cancelled(t) ==
    /\ Cancels
    /\ pc[t] = "body"
    /\ leaky' = TRUE
    /\ Leave(t)
    /\ UNCHANGED <<lists, initialized, driver, call, conn, calls, made, late>>

-----------------------------------------------------------------------------
(* release                                                                  *)

(* Mutant: a connection is taken back whether or not it is in use.          *)
KnowsEveryConnection(t) == TRUE

StillInUse(t) == inUse[conn[t]] > 0

(* After a close() the connection is in no list, and nothing is done.       *)
ReleaseUnknown(t) ==
    /\ pc[t] = "release" /\ HasLock(t) /\ ~StillInUse(t)
    /\ conn' = [conn EXCEPT ![t] = NoConn]
    /\ queue' = Tail(queue)
    /\ GoTo(t, "idle")
    /\ UNCHANGED <<lists, initialized, driver, call, calls, made, past>>

Release(t) ==
    /\ pc[t] = "release" /\ HasLock(t) /\ StillInUse(t)
    /\ inUse' = Remove(inUse, conn[t])
    /\ GoTo(t, "checking")
    /\ UNCHANGED <<pool, total, initialized, queue, driver, call, conn, calls,
                   made, past>>

GiveBack(t) ==
    /\ pc[t] = "checking"
    /\ pool' = Add(pool, conn[t])
    /\ conn' = [conn EXCEPT ![t] = NoConn]
    /\ queue' = Tail(queue)
    /\ GoTo(t, "idle")
    /\ UNCHANGED <<inUse, total, initialized, driver, call, calls, made, past>>

(* Not valid any more, or past the hour of pool_recycle; if closing raises, *)
(* the count stays as it is.                                                *)
Discard(t) ==
    /\ pc[t] = "checking"
    /\ \/ open' = open \ {conn[t]} /\ dirty' = dirty \ {conn[t]}
          /\ total' = total - 1 /\ UNCHANGED leaky
       \/ Faults /\ leaky' = TRUE /\ UNCHANGED <<driver, total>>
    /\ conn' = [conn EXCEPT ![t] = NoConn]
    /\ queue' = Tail(queue)
    /\ GoTo(t, "idle")
    /\ UNCHANGED <<pool, inUse, initialized, call, calls, made, late>>

-----------------------------------------------------------------------------
(* close                                                                    *)

EmptyList == [c \in Conns |-> 0]

(* Idle and busy connections alike are closed, one after the other.         *)
Close(t) ==
    /\ pc[t] = "close" /\ HasLock(t)
    /\ LET all == Listed(pool) \cup Listed(inUse)
       IN \/ /\ open' = open \ all /\ dirty' = dirty \ all
             /\ pool' = EmptyList /\ inUse' = EmptyList /\ total' = 0
             /\ initialized' = FALSE
             /\ late' = FALSE
             /\ UNCHANGED leaky
          \/ /\ Faults /\ all # {}
             /\ \E done \in SUBSET all : open' = open \ done
                                         /\ dirty' = dirty \ done
             /\ leaky' = TRUE
             /\ UNCHANGED <<lists, initialized, late>>
    /\ queue' = Tail(queue)
    /\ GoTo(t, "idle")
    /\ UNCHANGED <<call, conn, calls, made>>

Step(t) ==
    \/ MakeOne(t) \/ MakeFails(t) \/ Initialized(t)
    \/ AcquireIdle(t) \/ AcquireNew(t) \/ Created(t) \/ CreateFails(t)
    \/ WaitOver(t)
    \/ Query(t) \/ Begin(t) \/ Commit(t) \/ BodyFails(t) \/ Rollback(t)
    \/ Cancelled(t)
    \/ ReleaseUnknown(t) \/ Release(t) \/ GiveBack(t) \/ Discard(t)
    \/ Close(t)

Next == \E t \in Tasks : (\E c \in Calls : Invoke(t, c)) \/ Step(t)

Spec == Init /\ [][Next]_vars

-----------------------------------------------------------------------------
(* Properties                                                               *)

Held == {c \in Conns : \E t \in Tasks : conn[t] = c}

(* A connection is with one task at most, and while it is, the pool has     *)
(* nobody else to give it to: it is not listed as idle, and once at most as *)
(* busy - through releases, closes under way and new initialisations.       *)
ExclusiveUse ==
    /\ \A t, u \in Tasks : t # u /\ conn[t] # NoConn => conn[t] # conn[u]
    /\ \A c \in Conns : pool[c] + inUse[c] <= 1
    /\ Held \cap Listed(pool) = {}
    /\ Listed(inUse) \subseteq Held

(* An idle connection is open and in no transaction, and with no call under *)
(* way the pool's count is right, unless the driver failed to close or roll *)
(* back, or a block was cancelled: close() meets the releases of those who  *)
(* hold a connection.                                                       *)
IdleIsUsable ==
    ~leaky =>
        /\ Listed(pool) \subseteq open \ dirty
        /\ queue = <<>> => total = Cardinality(Listed(pool) \cup Listed(inUse))

(* Never more connections than pool_size + max_overflow, though the code    *)
(* compares that with the busy ones only - unless an initialize() found     *)
(* connections already there (its flag is read before the lock is asked     *)
(* for, a failed call leaves what it made, a statement may come before it). *)
WithinCapacity ==
    ~late /\ ~leaky => Cardinality(open) <= PoolSize + MaxOverflow
=============================================================================
