-------------------------- MODULE BridgeTransaction --------------------------
(***************************************************************************)
(* The transactions of oxen/rust_bridge.py on a SQLite file.  BEGIN, the   *)
(* statements of the block, COMMIT and ROLLBACK are separate calls of      *)
(* execute_query; each is served by whichever connection the Rust pool has *)
(* at hand (a connection comes back to it in the background, so the next   *)
(* call may find another or open a new one), and a transaction belongs to  *)
(* the connection its BEGIN was served by.  A call holds the GIL from its  *)
(* start to its end and is one step.                                       *)
(***************************************************************************)
EXTENDS Integers

CONSTANTS
    Tasks,          \* asyncio tasks that share one engine
    Conns,          \* the connections its pool may open
    Faults,         \* may the database refuse a statement or a COMMIT?
    Reaped,         \* may the pool close a connection (idle_timeout, max_lifetime)?
    MaxCalls,       \* bound: blocks each task begins
    MaxStatements   \* bound: statements each task sends

ASSUME TransactionAssumption ==
    /\ {Faults, Reaped} \subseteq BOOLEAN
    /\ {MaxCalls, MaxStatements} \subseteq Nat

Statements == Tasks \X (1 .. MaxStatements)

VARIABLES
    txn,       \* txn[c]: is a transaction open on connection c?
    pending,   \* pending[c]: the statements of that transaction
    stored,    \* the statements whose effect is permanent
    used,      \* the connections that have served a call
    orphaned,  \* was a transaction ever left open, or lost with its connection?
    pc,        \* pc[t]: outside any block, inside one, or leaving by an exception
    body,      \* body[t]: the statements of the block that took effect
    committed, \* the statements of blocks that were left normally
    undone,    \* the statements of blocks whose ROLLBACK was answered
    begun, sent

database == <<txn, pending, stored>>
outcome  == <<committed, undone>>
vars     == <<txn, pending, stored, used, orphaned, pc, body, committed,
              undone, begun, sent>>

TypeOK ==
    /\ txn \in [Conns -> BOOLEAN]
    /\ pending \in [Conns -> SUBSET Statements]
    /\ stored \subseteq Statements
    /\ used \subseteq Conns
    /\ orphaned \in BOOLEAN
    /\ pc \in [Tasks -> {"outside", "inside", "raised"}]
    /\ body \in [Tasks -> SUBSET Statements]
    /\ committed \subseteq Statements
    /\ undone \subseteq Statements
    /\ begun \in [Tasks -> 0 .. MaxCalls]
    /\ sent \in [Tasks -> 0 .. MaxStatements]

Init ==
    /\ txn = [c \in Conns |-> FALSE]
    /\ pending = [c \in Conns |-> {}]
    /\ stored = {}
    /\ used = {}
    /\ orphaned = FALSE
    /\ pc = [t \in Tasks |-> "outside"]
    /\ body = [t \in Tasks |-> {}]
    /\ committed = {}
    /\ undone = {}
    /\ begun = [t \in Tasks |-> 0]
    /\ sent = [t \in Tasks |-> 0]

-----------------------------------------------------------------------------
(* What the pool and the database do                                        *)

(* Any connection may serve a call.                                         *)
Serves(c) == used' = used \cup {c}

(* SQLite has one writer: while another connection's transaction has        *)
(* written, a write waits for the busy timeout, with the GIL held, in vain. *)
Locked(c) == \E d \in Conns \ {c} : pending[d] # {}

OpenTransaction(c) == txn' = [txn EXCEPT ![c] = TRUE]
EndTransaction(c)  ==
    /\ txn' = [txn EXCEPT ![c] = FALSE]
    /\ pending' = [pending EXCEPT ![c] = {}]

-----------------------------------------------------------------------------
(* async with await engine.begin_transaction()                              *)

(* Mutant: the block is entered without a BEGIN.                            *)
EnterOnly(t, c) == pc' = [pc EXCEPT ![t] = "inside"] /\ UNCHANGED txn
(* Mutant: a refused BEGIN waits for its turn.                              *)
EnterLater(t, c) ==
    IF txn[c]
      THEN pc' = [pc EXCEPT ![t] = "waiting"] /\ UNCHANGED txn
      ELSE pc' = [pc EXCEPT ![t] = "inside"] /\ OpenTransaction(c)
(* Mutant: a second BEGIN joins the transaction that is open.               *)
EnterTwice(t, c) == pc' = [pc EXCEPT ![t] = "inside"] /\ OpenTransaction(c)

(* __aenter__: SQLite refuses a BEGIN within a transaction, and the error   *)
(* keeps the task out of the block.                                         *)
Enter(t, c) ==
    IF txn[c]
      THEN UNCHANGED <<txn, pc>>
      ELSE pc' = [pc EXCEPT ![t] = "inside"] /\ OpenTransaction(c)

Begin(t, c) ==
    /\ pc[t] = "outside" /\ begun[t] < MaxCalls
    /\ begun' = [begun EXCEPT ![t] = @ + 1]
    /\ Serves(c)
    /\ Enter(t, c)
    /\ body' = [body EXCEPT ![t] = {}]
    /\ UNCHANGED <<pending, stored, orphaned, outcome, sent>>

(* async with engine.transaction(): TransactionContext.__aenter__ sends its *)
(* BEGIN on the raw engine, then awaits the result, which is a dict: the    *)
(* TypeError keeps the task out, and nobody ends the transaction.           *)
BeginContext(t, c) ==
    /\ pc[t] = "outside" /\ begun[t] < MaxCalls
    /\ begun' = [begun EXCEPT ![t] = @ + 1]
    /\ Serves(c)
    /\ OpenTransaction(c)
    /\ orphaned' = (orphaned \/ ~txn[c])
    /\ UNCHANGED <<pending, stored, pc, body, outcome, sent>>

NewStatement(t) == <<t, sent[t] + 1>>   \* the next one the task sends

(* execute_query, inside a block or outside any: the statement joins the    *)
(* transaction of the connection that serves it, whoever began it.          *)
Write(t, c) ==
    /\ pc[t] # "raised" /\ sent[t] < MaxStatements /\ ~Locked(c)
    /\ sent' = [sent EXCEPT ![t] = @ + 1]
    /\ Serves(c)
    /\ IF txn[c]
         THEN /\ pending' = [pending EXCEPT ![c] = @ \cup {NewStatement(t)}]
              /\ stored' = stored
         ELSE /\ stored' = stored \cup {NewStatement(t)}
              /\ pending' = pending
    /\ body' = IF pc[t] = "inside"
                 THEN [body EXCEPT ![t] = @ \cup {NewStatement(t)}]
                 ELSE body
    /\ UNCHANGED <<txn, orphaned, pc, outcome, begun>>

(* A refused statement raises, and the exception leaves the block.          *)
Refused(t, c) ==
    /\ pc[t] # "raised" /\ sent[t] < MaxStatements
    /\ Faults \/ Locked(c)
    /\ sent' = [sent EXCEPT ![t] = @ + 1]
    /\ Serves(c)
    /\ pc' = [pc EXCEPT ![t] = IF @ = "inside" THEN "raised" ELSE "outside"]
    /\ UNCHANGED <<database, orphaned, body, outcome, begun>>

(* The program's own exception.                                             *)
Raise(t) ==
    /\ pc[t] = "inside"
    /\ pc' = [pc EXCEPT ![t] = "raised"]
    /\ UNCHANGED <<database, used, orphaned, body, outcome, begun, sent>>

(* Mutant: commit() is a pass, as UnifiedTransaction.commit is.             *)
CommitNothing(t, c) ==
    UNCHANGED <<txn, pending, stored>> /\ committed' = committed \cup body[t]

(* __aexit__ without an exception.  A COMMIT served by a connection without *)
(* a transaction is refused, and so is one the database cannot carry out;   *)
(* the error is raised and no ROLLBACK follows.                             *)
Commit(t, c) ==
    /\ txn[c]
    /\ stored' = stored \cup pending[c]
    /\ EndTransaction(c)
    /\ committed' = committed \cup body[t]

CommitRefused(t, c) == ~txn[c] \/ Faults

LeaveNormally(t, c) ==
    /\ pc[t] = "inside"
    /\ Serves(c)
    /\ pc' = [pc EXCEPT ![t] = "outside"]
    /\ \/ Commit(t, c) /\ orphaned' = orphaned
       \/ /\ CommitRefused(t, c)
          /\ orphaned' = (orphaned \/ txn[c])
          /\ UNCHANGED <<database, committed>>
    /\ UNCHANGED <<body, undone, begun, sent>>

(* Mutant: __aexit__ commits whether or not there is an exception.          *)
CommitAnyway(t, c) ==
    /\ txn[c]
    /\ stored' = stored \cup pending[c]
    /\ EndTransaction(c)
    /\ undone' = undone \cup body[t]

Rollback(t, c) ==
    /\ txn[c]
    /\ EndTransaction(c)
    /\ undone' = undone \cup body[t]
    /\ stored' = stored

(* __aexit__ with an exception.                                             *)
LeaveByException(t, c) ==
    /\ pc[t] = "raised"
    /\ Serves(c)
    /\ pc' = [pc EXCEPT ![t] = "outside"]
    /\ \/ Rollback(t, c)
       \/ ~txn[c] /\ UNCHANGED <<database, undone>>
    /\ UNCHANGED <<orphaned, body, committed, begun, sent>>

(* The pool closes a connection, and SQLite undoes what it left open.       *)
CloseConnection(c) ==
    /\ Reaped /\ txn[c]
    /\ EndTransaction(c)
    /\ orphaned' = TRUE
    /\ UNCHANGED <<stored, used, pc, body, outcome, begun, sent>>

Call(t, c) ==
    \/ Begin(t, c) \/ BeginContext(t, c) \/ Write(t, c) \/ Refused(t, c)
    \/ LeaveNormally(t, c) \/ LeaveByException(t, c)

Next ==
    \/ \E t \in Tasks : Raise(t) \/ \E c \in Conns : Call(t, c)
    \/ \E c \in Conns : CloseConnection(c)

Spec == Init /\ [][Next]_vars

-----------------------------------------------------------------------------
(* Properties                                                               *)

(* The pool has never needed a second connection, and no transaction was    *)
(* left open or lost so far.                                                *)
OneConnection == ~orphaned /\ \A c, d \in used : c = d

(* As long as one connection has served everybody, at most one task is in a *)
(* block, and a transaction is open exactly while one is: tasks exclude     *)
(* each other by the errors their BEGINs get.                               *)
OneBlock ==
    OneConnection =>
        /\ \A t, u \in Tasks : pc[t] # "outside" /\ pc[u] # "outside" => t = u
        /\ (\E c \in Conns : txn[c]) <=> (\E t \in Tasks : pc[t] # "outside")

(* ... nothing of a block is permanent before it is left,                   *)
NothingOfAnOpenBlock ==
    OneConnection =>
        \A t \in Tasks : pc[t] # "outside" => body[t] \cap stored = {}

(* ... everything of a block left normally is,                              *)
CommittedIsStored == OneConnection => committed \subseteq stored

(* ... and nothing of a block that was rolled back ever is.                 *)
RolledBackIsGone == OneConnection => undone \cap stored = {}

(* "If any operation fails, the entire transaction is rolled back"          *)
(* (docs/getting_started.rst:206), with the pool as it is.                  *)
FailedBlockLeavesNothing == undone \cap stored = {}
=============================================================================
