--------------------------- MODULE DatabaseManager ---------------------------
(***************************************************************************)
(* oxen/multi_database_manager.py: tasks that add databases to one manager,*)
(* connect and close them all, send them statements and switch the primary.*)
(* initialize() and close() walk the dictionary of databases, awaiting each*)
(* engine, with an asyncio.Lock held; add_database and switch_primary are  *)
(* plain calls that come between, and a dictionary that has grown ends a   *)
(* walk with an error.  Statements take no lock.                           *)
(***************************************************************************)
EXTENDS Integers, Sequences

CONSTANTS
    Names, NoName,
    Tasks,
    Refusals,     \* may an engine fail to connect?
    MaxCalls      \* bound: calls of each task

ManagerAssumption ==
    /\ NoName \notin Names
    /\ Refusals \in BOOLEAN
    /\ MaxCalls \in Nat

VARIABLES
    databases,    \* the names, in the order they were added
    flagged,      \* those whose DatabaseInfo.is_primary is set
    primary,      \* primary_database
    initialized,  \* _initialized
    queue,        \* who waits for _lock; the first one has it
    connected,    \* the engines whose is_connected is set
    pc, calls,
    at, size,     \* of a walk: whose call it awaits, the databases there were
    covered,      \* history: the databases at the last walk that ended
    refused,      \* history: the engines that failed to connect in it
    broken,       \* history: did a walk fail since?
    woken         \* history: the engines a statement connected, until close()
                  \* comes by

entries == <<databases, flagged, primary>>
past    == <<covered, refused, broken, woken>>
vars    == <<databases, flagged, primary, initialized, queue, connected,
             pc, calls, at, size, covered, refused, broken, woken>>

Members(seq) == {seq[i] : i \in 1 .. Len(seq)}

ManagerTypeOK ==
    /\ databases \in Seq(Names)
    /\ flagged \subseteq Names /\ connected \subseteq Names
    /\ covered \subseteq Names /\ refused \subseteq Names /\ woken \subseteq Names
    /\ primary \in Names \cup {NoName}
    /\ {initialized, broken} \subseteq BOOLEAN
    /\ queue \in Seq(Tasks)
    /\ pc \in [Tasks -> {"idle", "initialize", "close"}]
    /\ calls \in [Tasks -> 0 .. MaxCalls]
    /\ at \in [Tasks -> Nat] /\ size \in [Tasks -> Nat]

Init ==
    /\ databases = <<>> /\ flagged = {} /\ primary = NoName
    /\ initialized = FALSE
    /\ queue = <<>>
    /\ connected = {}
    /\ pc = [t \in Tasks |-> "idle"] /\ calls = [t \in Tasks |-> 0]
    /\ at = [t \in Tasks |-> 0] /\ size = [t \in Tasks |-> 0]
    /\ covered = {} /\ refused = {} /\ broken = FALSE /\ woken = {}

-----------------------------------------------------------------------------
(* Plain calls                                                              *)

Call(t) ==
    /\ pc[t] = "idle" /\ calls[t] < MaxCalls
    /\ calls' = [calls EXCEPT ![t] = @ + 1]

(* Mutant: only the first database becomes primary by itself.               *)
FirstOnly(n, isPrimary) == IF primary = NoName THEN n ELSE primary

PrimaryAfter(n, isPrimary) ==
    IF isPrimary \/ primary = NoName THEN n ELSE primary

(* An older primary keeps its flag, and the first database gets none.       *)
AddDatabase(t, n, isPrimary) ==
    /\ Call(t)
    /\ n \notin Members(databases)
    /\ databases' = Append(databases, n)
    /\ flagged' = IF isPrimary THEN flagged \cup {n} ELSE flagged
    /\ primary' = PrimaryAfter(n, isPrimary)
    /\ UNCHANGED <<initialized, queue, connected, pc, at, size, past>>

SwitchPrimary(t, n) ==
    /\ Call(t)
    /\ n \in Members(databases)
    /\ flagged' = {n} /\ primary' = n
    /\ UNCHANGED <<databases, initialized, queue, connected, pc, at, size, past>>

-----------------------------------------------------------------------------
(* Statements                                                               *)

(* One statement to one database: execute_on_database, each of those that   *)
(* execute_on_all_databases and execute_on_read_replicas send, or one sent  *)
(* through the engine that get_backend, connection and transaction hand out.*)
(* UnifiedEngine.connect() is called if there is no Rust engine yet, by     *)
(* execute_many also if is_connected is not set; its error is a result.     *)
Statement(t, n) ==
    /\ Call(t)
    /\ n \in Members(databases)
    /\ \/ connected' = connected \cup {n} /\ woken' = woken \cup ({n} \ connected)
       \/ UNCHANGED <<connected, woken>>
    /\ UNCHANGED <<entries, initialized, queue, pc, at, size, covered, refused, broken>>

-----------------------------------------------------------------------------
(* initialize, close                                                        *)

(* Only initialize() looks at the flag, and before it asks for the lock.    *)
Invoke(t, walk) ==
    /\ Call(t)
    /\ walk = "initialize" => ~initialized
    /\ pc' = [pc EXCEPT ![t] = walk]
    /\ queue' = Append(queue, t)
    /\ at' = [at EXCEPT ![t] = 0]
    /\ UNCHANGED <<entries, initialized, connected, size, past>>

(* Mutant: the lock is not waited for.                                      *)
NoLock(t) == TRUE

HasLock(t) == Head(queue) = t

Grown(t) == Len(databases) # size[t]

Leave(t) ==
    /\ pc' = [pc EXCEPT ![t] = "idle"]
    /\ \E i \in 1 .. Len(queue) :
          /\ queue[i] = t
          /\ queue' = SubSeq(queue, 1, i - 1) \o SubSeq(queue, i + 1, Len(queue))

(* The walk is over; between the lock and the flag nobody else runs.        *)
Finish(t) ==
    /\ initialized' = (pc[t] = "initialize")
    /\ covered' = Members(databases) /\ broken' = FALSE
    /\ Leave(t)

Begin(t) ==
    /\ pc[t] # "idle" /\ at[t] = 0 /\ HasLock(t)
    /\ IF databases = <<>>
         THEN Finish(t) /\ UNCHANGED <<at, size>>
         ELSE /\ at' = [at EXCEPT ![t] = 1]
              /\ size' = [size EXCEPT ![t] = Len(databases)]
              /\ UNCHANGED <<pc, queue, initialized, covered, broken>>
    /\ UNCHANGED <<entries, connected, calls, refused, woken>>

(* UnifiedEngine.connect() answers a failure with a result that says so,    *)
(* which the manager does not look at.                                      *)
Engine(walk, n) ==
    \/ /\ walk = "initialize"
       /\ connected' = connected \cup {n} /\ refused' = refused \ {n}
       /\ UNCHANGED woken
    \/ /\ walk = "initialize" /\ Refusals
       /\ refused' = refused \cup {n} /\ UNCHANGED <<connected, woken>>
    \/ /\ walk = "close"
       /\ connected' = connected \ {n} /\ woken' = woken \ {n}
       /\ UNCHANGED refused

(* An engine's call returns.  If databases were added meanwhile, asking for *)
(* the next one raises, and the flag stays as it was.                       *)
Visit(t) ==
    /\ pc[t] # "idle" /\ at[t] > 0
    /\ Engine(pc[t], databases[at[t]])
    /\ \/ /\ Grown(t)
          /\ broken' = TRUE /\ Leave(t)
          /\ UNCHANGED <<initialized, at, covered>>
       \/ /\ ~Grown(t) /\ at[t] = size[t]
          /\ Finish(t) /\ UNCHANGED at
       \/ /\ ~Grown(t) /\ at[t] < size[t]
          /\ at' = [at EXCEPT ![t] = @ + 1]
          /\ UNCHANGED <<initialized, queue, pc, covered, broken>>
    /\ UNCHANGED <<entries, calls, size>>

Next == \E t \in Tasks :
    \/ \E n \in Names : \/ \E p \in BOOLEAN : AddDatabase(t, n, p)
                        \/ SwitchPrimary(t, n) \/ Statement(t, n)
    \/ \E walk \in {"initialize", "close"} : Invoke(t, walk)
    \/ Begin(t) \/ Visit(t)

Spec == Init /\ [][Next]_vars

-----------------------------------------------------------------------------
(* Properties                                                               *)

(* When no walk is under way and none has failed, the flag tells the truth, *)
(* however initialize(), close() and the statements of several tasks met:   *)
(* if it is up, every database there was is connected, unless its engine    *)
(* refused; if it is down, an engine is connected only if a statement has   *)
(* connected it since close() came by, or before initialize() did.          *)
FlagIsTrue ==
    queue = <<>> /\ ~broken =>
        IF initialized THEN covered \ refused \subseteq connected
                       ELSE connected \subseteq woken

(* There is a primary as soon as there is a database, it is one of them,    *)
(* and if any database carries the flag of a primary, it does.              *)
PrimaryIsKnown ==
    /\ databases # <<>> => primary \in Members(databases)
    /\ flagged # {} => primary \in flagged

ManagerSound == FlagIsTrue /\ PrimaryIsKnown
=============================================================================
