----------------------- MODULE BridgeTransactionProofs -----------------------
(* Theorems about BridgeTransaction, for any number of tasks, connections,   *)
(* calls and statements.                                                     *)
EXTENDS BridgeTransaction, TLAPS

(* Statements nobody has sent have left no trace.                            *)
Unsent == {s \in Statements : s[2] > sent[s[1]]}

Traced == stored \cup committed \cup undone
          \cup (UNION {pending[c] : c \in Conns})
          \cup (UNION {body[t] : t \in Tasks})

UnsentIsFresh == Unsent \cap Traced = {}

(* A statement is permanent or in the transaction of one connection.         *)
Apart ==
    \A c \in Conns :
        /\ pending[c] \cap stored = {}
        /\ pending[c] # {} => txn[c]
        /\ txn[c] => c \in used
        /\ \A d \in Conns \ {c} : pending[c] \cap pending[d] = {}

(* The one connection has the transaction of the one task in a block.        *)
Inside(t) == pc[t] # "outside"
OneAtMost == \A t, u \in Tasks : Inside(t) /\ Inside(u) => t = u
OpenHasTask == \A c \in Conns : txn[c] => \E t \in Tasks : Inside(t)
TaskHasOpen ==
    \A t \in Tasks : Inside(t) => \E c \in Conns : txn[c] /\ body[t] \subseteq pending[c]
Outcomes ==
    /\ committed \subseteq stored
    /\ undone \cap stored = {}
    /\ \A c \in Conns : undone \cap pending[c] = {}

Alone == OneAtMost /\ OpenHasTask /\ TaskHasOpen /\ Outcomes

IInv == TypeOK /\ UnsentIsFresh /\ Apart /\ (OneConnection => Alone)

-----------------------------------------------------------------------------
LEMMA InitIInv == Init => IInv
<1> SUFFICES ASSUME Init PROVE IInv OBVIOUS
<1> USE TransactionAssumption
<1>1. TypeOK
  <2>1. txn \in [Conns -> BOOLEAN] /\ orphaned \in BOOLEAN
    BY Zenon DEF Init
  <2>2. /\ pending \in [Conns -> SUBSET Statements]
        /\ body \in [Tasks -> SUBSET Statements]
        /\ pc \in [Tasks -> {"outside", "inside", "raised"}]
        /\ begun \in [Tasks -> 0 .. MaxCalls]
        /\ sent \in [Tasks -> 0 .. MaxStatements]
    BY DEF Init
  <2>3. /\ stored \subseteq Statements /\ committed \subseteq Statements
        /\ undone \subseteq Statements /\ used \subseteq Conns
    BY DEF Init
  <2> QED BY <2>1, <2>2, <2>3 DEF TypeOK
<1>2. UnsentIsFresh /\ Apart /\ Alone
  BY DEF Init, UnsentIsFresh, Traced, Apart, Alone, OneAtMost, OpenHasTask,
         TaskHasOpen, Outcomes, Inside
<1> QED BY <1>1, <1>2 DEF IInv

LEMMA NewIsUnsent ==
    ASSUME TypeOK, NEW t \in Tasks, sent[t] < MaxStatements,
           sent' = [sent EXCEPT ![t] = @ + 1]
    PROVE  /\ NewStatement(t) \in Unsent
           /\ Unsent' \subseteq Unsent \ {NewStatement(t)}
           /\ sent' \in [Tasks -> 0 .. MaxStatements]
<1> USE TransactionAssumption
<1>1. sent[t] \in Nat /\ sent[t] + 1 \in 1 .. MaxStatements
  BY DEF TypeOK
<1>2. NewStatement(t) \in Unsent
  BY <1>1 DEF NewStatement, Unsent, Statements
<1>3. sent' \in [Tasks -> 0 .. MaxStatements]
  BY <1>1 DEF TypeOK
<1>4. ASSUME NEW s \in Statements, s \in Unsent'
      PROVE  s \in Unsent /\ s # NewStatement(t)
  <2>1. s[1] \in Tasks /\ s[2] \in Nat /\ sent[s[1]] \in Nat
    BY DEF Statements, TypeOK
  <2>2. CASE s[1] = t
    BY <1>4, <2>1, <2>2 DEF Unsent, NewStatement, TypeOK
  <2>3. CASE s[1] # t
    BY <1>4, <2>1, <2>3 DEF Unsent, NewStatement, TypeOK
  <2> QED BY <2>2, <2>3
<1> QED BY <1>2, <1>3, <1>4 DEF Unsent

(* A transaction that begins on a connection that had none.                  *)
LEMMA OpenedType ==
    ASSUME TypeOK, NEW c \in Conns, OpenTransaction(c)
    PROVE  /\ txn' \in [Conns -> BOOLEAN]
           /\ txn'[c]
           /\ \A d \in Conns \ {c} : txn'[d] = txn[d]
  BY Zenon DEF TypeOK, OpenTransaction

LEMMA EndedType ==
    ASSUME TypeOK, NEW c \in Conns, EndTransaction(c)
    PROVE  /\ txn' \in [Conns -> BOOLEAN]
           /\ ~txn'[c]
           /\ \A d \in Conns \ {c} : txn'[d] = txn[d]
           /\ pending' \in [Conns -> SUBSET Statements]
           /\ pending'[c] = {}
           /\ \A d \in Conns \ {c} : pending'[d] = pending[d]
<1>1. /\ txn' \in [Conns -> BOOLEAN]
      /\ ~txn'[c]
      /\ \A d \in Conns \ {c} : txn'[d] = txn[d]
  BY Zenon DEF TypeOK, EndTransaction
<1>2. /\ pending' \in [Conns -> SUBSET Statements]
      /\ pending'[c] = {}
      /\ \A d \in Conns \ {c} : pending'[d] = pending[d]
  BY DEF TypeOK, EndTransaction
<1> QED BY <1>1, <1>2

-----------------------------------------------------------------------------
(* A call served by c while there is one connection: every transaction is    *)
(* on c.                                                                      *)
LEMMA ServedAlone ==
    ASSUME IInv, NEW c \in Conns, Serves(c), OneConnection', ~orphaned' => ~orphaned
    PROVE  /\ OneConnection /\ Alone
           /\ \A d \in Conns : txn[d] => d = c
  BY DEF IInv, Apart, OneConnection, Serves

LEMMA BeginKeeps ==
    ASSUME IInv, NEW t \in Tasks, NEW c \in Conns, Begin(t, c)
    PROVE  IInv'
<1> USE DEF IInv
<1>0. begun' \in [Tasks -> 0 .. MaxCalls]
  BY TransactionAssumption DEF Begin, TypeOK
<1>1. used' \subseteq Conns /\ body' \in [Tasks -> SUBSET Statements]
  BY DEF Begin, Serves, TypeOK
<1>2. CASE txn[c]
  <2>1. TypeOK'
    <3>1. txn' \in [Conns -> BOOLEAN] /\ pc' \in [Tasks -> {"outside", "inside", "raised"}]
      BY <1>2, Zenon DEF Begin, Enter, TypeOK
    <3> QED BY <1>0, <1>1, <3>1 DEF Begin, TypeOK, outcome
  <2>2. UnsentIsFresh'
    BY DEF Begin, UnsentIsFresh, Unsent, Traced, outcome, TypeOK
  <2>3. Apart'
    BY <1>2 DEF Begin, Enter, Apart, Serves
  <2>4. ASSUME OneConnection' PROVE Alone'
    <3>1. Alone
      BY <2>4, ServedAlone DEF Begin
    <3>2. OneAtMost' /\ OpenHasTask' /\ Outcomes'
      BY <1>2, <3>1 DEF Begin, Enter, Alone, OneAtMost, OpenHasTask, Outcomes,
                        Inside, outcome
    <3>3. TaskHasOpen'
      <4> SUFFICES ASSUME NEW u \in Tasks, Inside(u)'
                   PROVE  \E d \in Conns : txn'[d] /\ body'[u] \subseteq pending'[d]
        BY DEF TaskHasOpen
      <4>1. u # t /\ Inside(u) /\ body'[u] = body[u]
        BY <1>2 DEF Begin, Enter, Inside, TypeOK
      <4> QED BY <1>2, <3>1, <4>1 DEF Begin, Enter, Alone, TaskHasOpen
    <3> QED BY <3>2, <3>3 DEF Alone
  <2> QED BY <2>1, <2>2, <2>3, <2>4
<1>3. CASE ~txn[c]
  <2>0. OpenTransaction(c) /\ pc' = [pc EXCEPT ![t] = "inside"]
    BY <1>3 DEF Begin, Enter
  <2>1. /\ txn' \in [Conns -> BOOLEAN] /\ txn'[c]
        /\ \A d \in Conns \ {c} : txn'[d] = txn[d]
    BY <2>0, OpenedType
  <2>2. TypeOK'
    <3>1. pc' \in [Tasks -> {"outside", "inside", "raised"}]
      BY <2>0 DEF TypeOK
    <3> QED BY <1>0, <1>1, <2>1, <3>1 DEF Begin, TypeOK, outcome
  <2>3. UnsentIsFresh'
    BY DEF Begin, UnsentIsFresh, Unsent, Traced, outcome, TypeOK
  <2>4. Apart'
    BY <2>1 DEF Begin, Apart, Serves
  <2>5. ASSUME OneConnection' PROVE Alone'
    <3>1. Alone /\ \A d \in Conns : ~txn[d]
      BY <1>3, <2>5, ServedAlone DEF Begin
    <3>2. \A u \in Tasks : ~Inside(u)
      BY <3>1 DEF Alone, TaskHasOpen
    <3>3. \A u \in Tasks : Inside(u)' <=> u = t
      BY <2>0, <3>2 DEF Inside, TypeOK
    <3>4. OneAtMost' /\ OpenHasTask' /\ Outcomes'
      BY <3>1, <3>3 DEF Begin, Alone, OneAtMost, OpenHasTask, Outcomes, outcome
    <3>5. body'[t] = {}
      BY DEF Begin, TypeOK
    <3>6. TaskHasOpen'
      BY <2>1, <3>3, <3>5 DEF TaskHasOpen
    <3> QED BY <3>4, <3>6 DEF Alone
  <2> QED BY <2>2, <2>3, <2>4, <2>5
<1> QED BY <1>2, <1>3

LEMMA BeginContextKeeps ==
    ASSUME IInv, NEW t \in Tasks, NEW c \in Conns, BeginContext(t, c)
    PROVE  IInv'
<1> USE DEF IInv
<1>1. /\ txn' \in [Conns -> BOOLEAN] /\ txn'[c]
      /\ \A d \in Conns \ {c} : txn'[d] = txn[d]
  BY OpenedType DEF BeginContext
<1>2. begun' \in [Tasks -> 0 .. MaxCalls] /\ used' \subseteq Conns
  BY TransactionAssumption DEF BeginContext, Serves, TypeOK
<1>3. orphaned' \in BOOLEAN
  BY Zenon DEF BeginContext, TypeOK
<1>4. TypeOK'
  BY <1>1, <1>2, <1>3 DEF BeginContext, TypeOK, outcome
<1>5. UnsentIsFresh'
  BY DEF BeginContext, UnsentIsFresh, Unsent, Traced, outcome
<1>6. Apart'
  BY <1>1 DEF BeginContext, Apart, Serves
<1>7. ASSUME OneConnection' PROVE Alone'
  <2>1. txn[c] /\ ~orphaned
    BY <1>7 DEF BeginContext, OneConnection
  <2>2. Alone
    BY <1>7, <2>1, ServedAlone DEF BeginContext
  <2>3. \A d \in Conns : txn'[d] = txn[d]
    BY <1>1, <2>1
  <2> QED BY <2>2, <2>3 DEF BeginContext, Alone, OneAtMost, OpenHasTask,
                            TaskHasOpen, Outcomes, Inside, outcome
<1> QED BY <1>4, <1>5, <1>6, <1>7

LEMMA WriteKeeps ==
    ASSUME IInv, NEW t \in Tasks, NEW c \in Conns, Write(t, c)
    PROVE  IInv'
<1> USE DEF IInv
<1> DEFINE new == NewStatement(t)
<1>1. /\ new \in Unsent /\ Unsent' \subseteq Unsent \ {new}
      /\ sent' \in [Tasks -> 0 .. MaxStatements]
  BY NewIsUnsent DEF Write
<1>2. new \in Statements /\ new \notin Traced
  BY <1>1 DEF Unsent, UnsentIsFresh
<1>3. /\ new \notin stored /\ new \notin committed /\ new \notin undone
      /\ \A d \in Conns : new \notin pending[d]
      /\ \A u \in Tasks : new \notin body[u]
  BY <1>2 DEF Traced
<1> HIDE DEF new
<1>4. /\ body' \in [Tasks -> SUBSET Statements]
      /\ body'[t] \subseteq body[t] \cup {new}
      /\ ~Inside(t) => body' = body
      /\ \A u \in Tasks \ {t} : body'[u] = body[u]
  BY <1>2 DEF Write, TypeOK, Inside, new
<1>5. /\ pending' \in [Conns -> SUBSET Statements]
      /\ stored' \subseteq Statements
      /\ \A d \in Conns \ {c} : pending'[d] = pending[d]
      /\ \/ txn[c] /\ pending'[c] = pending[c] \cup {new} /\ stored' = stored
         \/ ~txn[c] /\ stored' = stored \cup {new} /\ pending' = pending
  BY <1>2 DEF Write, TypeOK, new
<1>6. TypeOK'
  <2>1. used' \subseteq Conns
    BY DEF Write, Serves, TypeOK
  <2> QED BY <1>1, <1>4, <1>5, <2>1 DEF Write, TypeOK, outcome
<1>7. UnsentIsFresh'
  <2>1. Traced' \subseteq Traced \cup {new}
    BY <1>4, <1>5 DEF Traced, Write, outcome
  <2> QED BY <1>1, <2>1 DEF UnsentIsFresh
<1>8. Apart'
  BY <1>3, <1>5 DEF Apart, Write, Serves
<1>9. ASSUME OneConnection' PROVE Alone'
  <2>1. Alone /\ \A d \in Conns : txn[d] => d = c
    BY <1>9, ServedAlone DEF Write
  <2>2. OneAtMost' /\ OpenHasTask'
    BY <2>1 DEF Write, Alone, OneAtMost, OpenHasTask, Inside
  <2>3. Outcomes'
    BY <1>3, <1>5, <2>1 DEF Write, Alone, Outcomes, outcome
  <2>4. TaskHasOpen'
    <3> SUFFICES ASSUME NEW u \in Tasks, Inside(u)'
                 PROVE  \E d \in Conns : txn'[d] /\ body'[u] \subseteq pending'[d]
      BY DEF TaskHasOpen
    <3>1. txn[c] /\ body[u] \subseteq pending[c] /\ txn' = txn
      BY <2>1 DEF Alone, TaskHasOpen, Write, Inside
    <3> QED BY <1>4, <1>5, <3>1
  <2> QED BY <2>2, <2>3, <2>4 DEF Alone
<1> QED BY <1>6, <1>7, <1>8, <1>9

LEMMA RefusedKeeps ==
    ASSUME IInv, NEW t \in Tasks, NEW c \in Conns, Refused(t, c)
    PROVE  IInv'
<1> USE DEF IInv
<1>1. /\ Unsent' \subseteq Unsent
      /\ sent' \in [Tasks -> 0 .. MaxStatements]
  BY NewIsUnsent DEF Refused
<1>2. /\ pc' \in [Tasks -> {"outside", "inside", "raised"}]
      /\ \A u \in Tasks : Inside(u)' <=> Inside(u)
  BY DEF Refused, TypeOK, Inside
<1>3. TypeOK'
  <2>1. used' \subseteq Conns
    BY DEF Refused, Serves, TypeOK
  <2> QED BY <1>1, <1>2, <2>1 DEF Refused, TypeOK, outcome, database
<1>4. UnsentIsFresh'
  BY <1>1 DEF Refused, UnsentIsFresh, Traced, outcome, database
<1>5. Apart'
  BY DEF Refused, Apart, Serves, database
<1>6. ASSUME OneConnection' PROVE Alone'
  <2>1. Alone
    BY <1>6, ServedAlone DEF Refused
  <2> QED BY <1>2, <2>1 DEF Refused, Alone, OneAtMost, OpenHasTask, TaskHasOpen,
                            Outcomes, outcome, database
<1> QED BY <1>3, <1>4, <1>5, <1>6

LEMMA RaiseKeeps ==
    ASSUME IInv, NEW t \in Tasks, Raise(t)
    PROVE  IInv'
<1> USE DEF IInv
<1>1. /\ pc' \in [Tasks -> {"outside", "inside", "raised"}]
      /\ \A u \in Tasks : Inside(u)' <=> Inside(u)
  BY DEF Raise, TypeOK, Inside
<1>2. TypeOK' /\ UnsentIsFresh' /\ Apart'
  BY <1>1 DEF Raise, TypeOK, UnsentIsFresh, Unsent, Traced, Apart, outcome, database
<1>3. OneConnection' => Alone'
  BY <1>1 DEF Raise, OneConnection, Alone, OneAtMost, OpenHasTask, TaskHasOpen,
              Outcomes, outcome, database
<1> QED BY <1>2, <1>3

(* A task alone in its block leaves it, and its transaction ends.            *)
LEMMA LeftAlone ==
    ASSUME IInv, Alone, NEW t \in Tasks, Inside(t), NEW c \in Conns, txn[c],
           \A d \in Conns : txn[d] => d = c,
           pc' = [pc EXCEPT ![t] = "outside"], EndTransaction(c)
    PROVE  /\ body[t] \subseteq pending[c]
           /\ OneAtMost' /\ OpenHasTask' /\ TaskHasOpen'
<1> USE DEF IInv
<1>1. body[t] \subseteq pending[c]
  BY DEF Alone, TaskHasOpen
<1>2. \A u \in Tasks : ~Inside(u)'
  BY DEF Alone, OneAtMost, Inside, TypeOK
<1>3. \A d \in Conns : ~txn'[d]
  BY EndedType
<1> QED BY <1>1, <1>2, <1>3 DEF OneAtMost, OpenHasTask, TaskHasOpen

LEMMA LeaveNormallyKeeps ==
    ASSUME IInv, NEW t \in Tasks, NEW c \in Conns, LeaveNormally(t, c)
    PROVE  IInv'
<1> USE DEF IInv
<1>1. /\ used' \subseteq Conns
      /\ pc' \in [Tasks -> {"outside", "inside", "raised"}]
  BY DEF LeaveNormally, Serves, TypeOK
<1>2. orphaned' \in BOOLEAN
  BY Zenon DEF LeaveNormally, TypeOK
<1>3. CASE Commit(t, c) /\ orphaned' = orphaned
  <2>1. /\ txn' \in [Conns -> BOOLEAN] /\ ~txn'[c]
        /\ \A d \in Conns \ {c} : txn'[d] = txn[d]
        /\ pending' \in [Conns -> SUBSET Statements] /\ pending'[c] = {}
        /\ \A d \in Conns \ {c} : pending'[d] = pending[d]
    BY <1>3, EndedType DEF Commit
  <2>2. stored' = stored \cup pending[c] /\ committed' = committed \cup body[t]
    BY <1>3 DEF Commit
  <2>3. TypeOK'
    BY <1>1, <1>2, <2>1, <2>2 DEF LeaveNormally, TypeOK
  <2>4. UnsentIsFresh'
    <3>1. Traced' \subseteq Traced
      BY <2>1, <2>2 DEF LeaveNormally, Traced
    <3> QED BY <3>1 DEF LeaveNormally, UnsentIsFresh, Unsent
  <2>5. Apart'
    BY <2>1, <2>2 DEF LeaveNormally, Apart, Serves
  <2>6. ASSUME OneConnection' PROVE Alone'
    <3>1. Alone /\ \A d \in Conns : txn[d] => d = c
      BY <1>3, <2>6, ServedAlone DEF LeaveNormally
    <3>2. body[t] \subseteq pending[c] /\ OneAtMost' /\ OpenHasTask' /\ TaskHasOpen'
      BY <1>3, <3>1, LeftAlone DEF LeaveNormally, Commit, Inside
    <3>3. Outcomes'
      BY <2>1, <2>2, <3>1, <3>2 DEF LeaveNormally, Alone, Outcomes
    <3> QED BY <3>2, <3>3 DEF Alone
  <2> QED BY <2>3, <2>4, <2>5, <2>6
<1>4. CASE /\ CommitRefused(t, c)
           /\ orphaned' = (orphaned \/ txn[c])
           /\ UNCHANGED <<database, committed>>
  <2>1. TypeOK'
    BY <1>1, <1>2, <1>4 DEF LeaveNormally, TypeOK, database
  <2>2. UnsentIsFresh' /\ Apart'
    BY <1>4 DEF LeaveNormally, UnsentIsFresh, Unsent, Traced, Apart, Serves, database
  <2>3. ~OneConnection'
    <3> SUFFICES ASSUME OneConnection' PROVE FALSE OBVIOUS
    <3>1. ~txn[c] /\ ~orphaned
      BY <1>4 DEF OneConnection
    <3>2. Alone /\ \A d \in Conns : txn[d] => d = c
      BY <3>1, ServedAlone DEF LeaveNormally
    <3> QED BY <3>1, <3>2 DEF LeaveNormally, Alone, TaskHasOpen, Inside
  <2> QED BY <2>1, <2>2, <2>3
<1> QED BY <1>3, <1>4 DEF LeaveNormally

LEMMA LeaveByExceptionKeeps ==
    ASSUME IInv, NEW t \in Tasks, NEW c \in Conns, LeaveByException(t, c)
    PROVE  IInv'
<1> USE DEF IInv
<1>1. /\ used' \subseteq Conns
      /\ pc' \in [Tasks -> {"outside", "inside", "raised"}]
  BY DEF LeaveByException, Serves, TypeOK
<1>2. CASE Rollback(t, c)
  <2>1. /\ txn' \in [Conns -> BOOLEAN] /\ ~txn'[c]
        /\ \A d \in Conns \ {c} : txn'[d] = txn[d]
        /\ pending' \in [Conns -> SUBSET Statements] /\ pending'[c] = {}
        /\ \A d \in Conns \ {c} : pending'[d] = pending[d]
    BY <1>2, EndedType DEF Rollback
  <2>2. stored' = stored /\ undone' = undone \cup body[t]
    BY <1>2 DEF Rollback
  <2>3. TypeOK'
    BY <1>1, <2>1, <2>2 DEF LeaveByException, TypeOK
  <2>4. UnsentIsFresh'
    <3>1. Traced' \subseteq Traced
      BY <2>1, <2>2 DEF LeaveByException, Traced
    <3> QED BY <3>1 DEF LeaveByException, UnsentIsFresh, Unsent
  <2>5. Apart'
    BY <2>1, <2>2 DEF LeaveByException, Apart, Serves
  <2>6. ASSUME OneConnection' PROVE Alone'
    <3>1. Alone /\ \A d \in Conns : txn[d] => d = c
      BY <2>6, ServedAlone DEF LeaveByException
    <3>2. body[t] \subseteq pending[c] /\ OneAtMost' /\ OpenHasTask' /\ TaskHasOpen'
      BY <1>2, <3>1, LeftAlone DEF LeaveByException, Rollback, Inside
    <3>3. \A d \in Conns : pending'[d] = {}
      BY <2>1, <3>1 DEF Apart
    <3>4. Outcomes'
      BY <2>2, <3>1, <3>2, <3>3 DEF LeaveByException, Alone, Outcomes, Apart
    <3> QED BY <3>2, <3>4 DEF Alone
  <2> QED BY <2>3, <2>4, <2>5, <2>6
<1>3. CASE ~txn[c] /\ UNCHANGED <<database, undone>>
  <2>1. TypeOK'
    BY <1>1, <1>3 DEF LeaveByException, TypeOK, database
  <2>2. UnsentIsFresh' /\ Apart'
    BY <1>3 DEF LeaveByException, UnsentIsFresh, Unsent, Traced, Apart, Serves, database
  <2>3. ~OneConnection'
    <3> SUFFICES ASSUME OneConnection' PROVE FALSE OBVIOUS
    <3>1. Alone /\ \A d \in Conns : txn[d] => d = c
      BY ServedAlone DEF LeaveByException
    <3> QED BY <1>3, <3>1 DEF LeaveByException, Alone, TaskHasOpen, Inside
  <2> QED BY <2>1, <2>2, <2>3
<1> QED BY <1>2, <1>3 DEF LeaveByException

LEMMA CloseConnectionKeeps ==
    ASSUME IInv, NEW c \in Conns, CloseConnection(c)
    PROVE  IInv'
<1> USE DEF IInv
<1>1. /\ txn' \in [Conns -> BOOLEAN] /\ ~txn'[c]
      /\ \A d \in Conns \ {c} : txn'[d] = txn[d]
      /\ pending' \in [Conns -> SUBSET Statements] /\ pending'[c] = {}
      /\ \A d \in Conns \ {c} : pending'[d] = pending[d]
  BY EndedType DEF CloseConnection
<1>2. TypeOK'
  <2>1. orphaned' \in BOOLEAN
    BY Zenon DEF CloseConnection
  <2> QED BY <1>1, <2>1 DEF CloseConnection, TypeOK, outcome
<1>3. UnsentIsFresh'
  <2>1. Traced' \subseteq Traced
    BY <1>1 DEF CloseConnection, Traced, outcome
  <2> QED BY <2>1 DEF CloseConnection, UnsentIsFresh, Unsent
<1>4. Apart'
  BY <1>1 DEF CloseConnection, Apart
<1>5. ~OneConnection'
  BY DEF CloseConnection, OneConnection
<1> QED BY <1>2, <1>3, <1>4, <1>5

LEMMA NextIInv == IInv /\ [Next]_vars => IInv'
<1> SUFFICES ASSUME IInv, [Next]_vars PROVE IInv' OBVIOUS
<1>1. ASSUME NEW t \in Tasks, Raise(t) PROVE IInv'
  BY <1>1, RaiseKeeps
<1>2. ASSUME NEW t \in Tasks, NEW c \in Conns, Call(t, c) PROVE IInv'
  BY <1>2, BeginKeeps, BeginContextKeeps, WriteKeeps, RefusedKeeps,
     LeaveNormallyKeeps, LeaveByExceptionKeeps DEF Call
<1>3. ASSUME NEW c \in Conns, CloseConnection(c) PROVE IInv'
  BY <1>3, CloseConnectionKeeps
<1>4. CASE UNCHANGED vars
  BY <1>4 DEF vars, IInv, TypeOK, UnsentIsFresh, Unsent, Traced, Apart, OneConnection,
              Alone, OneAtMost, OpenHasTask, TaskHasOpen, Outcomes, Inside
<1> QED BY <1>1, <1>2, <1>3, <1>4 DEF Next

LEMMA Invariant == Spec => []IInv
<1>1. Init => IInv
  BY InitIInv
<1>2. IInv /\ [Next]_vars => IInv'
  BY NextIInv
<1> QED BY <1>1, <1>2, PTL DEF Spec

-----------------------------------------------------------------------------
(* Every state of a shared engine's transactions has its types.              *)
THEOREM TypeCorrect == Spec => []TypeOK
<1>1. IInv => TypeOK
  BY DEF IInv
<1> QED BY <1>1, Invariant, PTL

(* With one connection, tasks exclude each other from their blocks, and a    *)
(* transaction is open exactly while a task is in one.                       *)
THEOREM TasksExcludeEachOther == Spec => []OneBlock
<1>1. IInv => OneBlock
  BY DEF IInv, OneBlock, Alone, OneAtMost, OpenHasTask, TaskHasOpen, Inside
<1> QED BY <1>1, Invariant, PTL

(* With one connection, an open block shows nothing of what it wrote.        *)
THEOREM OpenBlockIsHidden == Spec => []NothingOfAnOpenBlock
<1>1. IInv => NothingOfAnOpenBlock
  <2> SUFFICES ASSUME IInv, OneConnection, NEW t \in Tasks, Inside(t)
               PROVE  body[t] \cap stored = {}
    BY DEF NothingOfAnOpenBlock, Inside
  <2>1. PICK c \in Conns : body[t] \subseteq pending[c]
    BY DEF IInv, Alone, TaskHasOpen
  <2> QED BY <2>1 DEF IInv, Apart
<1> QED BY <1>1, Invariant, PTL

(* With one connection, a block that was left normally is permanent in full. *)
THEOREM CommittedBlocksAreStored == Spec => []CommittedIsStored
<1>1. IInv => CommittedIsStored
  BY DEF IInv, CommittedIsStored, Alone, Outcomes
<1> QED BY <1>1, Invariant, PTL

(* With one connection, nothing of a rolled back block is permanent.         *)
THEOREM RolledBackBlocksAreGone == Spec => []RolledBackIsGone
<1>1. IInv => RolledBackIsGone
  BY DEF IInv, RolledBackIsGone, Alone, Outcomes
<1> QED BY <1>1, Invariant, PTL
=============================================================================
