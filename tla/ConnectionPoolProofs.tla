------------------------ MODULE ConnectionPoolProofs ------------------------
(* Theorems about ConnectionPool, for every number of tasks, connections and *)
(* calls and every size of the pool.                                         *)
EXTENDS ConnectionPool, FiniteSetTheorems, TLAPS

Places == Inside \cup {"idle", "query", "begin", "body", "rollback"}
Holding == {"query", "begin", "body", "rollback", "release", "checking"}
Locked == {"creating", "sleeping", "checking"}

(* The part of the types that the lists and the tasks need.                  *)
ListsTyped ==
    /\ pool \in [Conns -> Nat] /\ inUse \in [Conns -> Nat]
    /\ queue \in Seq(Tasks)
    /\ pc \in [Tasks -> Places]
    /\ conn \in [Tasks -> Conns \cup {NoConn}]

(* A task has a connection just when it is in its block or in release.       *)
HeldInBlock == \A t \in Tasks : (pc[t] \in Holding) <=> (conn[t] # NoConn)

(* Who is past the head of acquire or release has the lock ...               *)
LockHeld == \A t \in Tasks : pc[t] \in Locked => HasLock(t)

(* ... and what is being checked is listed nowhere.                          *)
CheckedIsUnlisted == \A t \in Tasks : pc[t] = "checking" => inUse[conn[t]] = 0

Distinct == \A t, u \in Tasks : t # u /\ conn[t] # NoConn => conn[t] # conn[u]
ListedOnce == \A c \in Conns : pool[c] + inUse[c] <= 1
HeldIsNotIdle == \A t \in Tasks : conn[t] \in Conns => pool[conn[t]] = 0
BusyIsHeld == \A c \in Conns : inUse[c] > 0 => \E t \in Tasks : conn[t] = c

IInv ==
    /\ ListsTyped /\ HeldInBlock /\ LockHeld /\ CheckedIsUnlisted
    /\ Distinct /\ ListedOnce /\ HeldIsNotIdle /\ BusyIsHeld

LEMMA InitIInv == ASSUME PoolAssumption, Init PROVE IInv
<1> USE DEF Init, PoolAssumption
<1>1. ListsTyped
  BY DEF ListsTyped, Places, Inside
<1>2. HeldInBlock /\ LockHeld /\ CheckedIsUnlisted
  BY DEF HeldInBlock, LockHeld, CheckedIsUnlisted, Holding, Locked
<1>3. Distinct /\ ListedOnce /\ HeldIsNotIdle /\ BusyIsHeld
  BY DEF Distinct, ListedOnce, HeldIsNotIdle, BusyIsHeld
<1> QED BY <1>1, <1>2, <1>3 DEF IInv

-----------------------------------------------------------------------------
(* The lock                                                                  *)

(* Asking for the lock takes it from nobody.                                 *)
LEMMA AppendKeepsLock ==
    ASSUME queue \in Seq(Tasks), NEW t \in Tasks, queue' = Append(queue, t),
           NEW u \in Tasks, HasLock(u)
    PROVE  HasLock(u)'
  BY DEF HasLock

LEMMA AppendType ==
    ASSUME queue \in Seq(Tasks), NEW t \in Tasks
    PROVE  Append(queue, t) \in Seq(Tasks)
  OBVIOUS

LEMMA TailType ==
    ASSUME queue \in Seq(Tasks), NEW t \in Tasks, HasLock(t)
    PROVE  Tail(queue) \in Seq(Tasks)
  BY DEF HasLock

LEMMA OneHasLock ==
    ASSUME NEW t \in Tasks, NEW u \in Tasks, HasLock(t), HasLock(u)
    PROVE  t = u
  BY DEF HasLock

-----------------------------------------------------------------------------
(* The steps, by what they do to the lists                                   *)

(* A step of t that leaves the lists and its connection alone: it moves to   *)
(* a place of the same kind, where it needs the lock only if it has it.      *)
LEMMA MoveStep ==
    ASSUME IInv, NEW t \in Tasks, NEW p \in Places,
           pc' = [pc EXCEPT ![t] = p],
           UNCHANGED <<pool, inUse, conn>>,
           (p \in Holding) <=> (pc[t] \in Holding),
           \/ queue' = queue /\ (p \in Locked => HasLock(t)) /\ p # "checking"
           \/ queue' = Append(queue, t) /\ p \notin Locked
           \/ queue' = Tail(queue) /\ HasLock(t) /\ p \notin Locked
    PROVE  IInv'
<1> USE DEF IInv
<1>1. ListsTyped'
  BY AppendType, TailType DEF ListsTyped
<1>2. HeldInBlock'
  BY DEF HeldInBlock, ListsTyped
<1>3. LockHeld'
  <2> SUFFICES ASSUME NEW u \in Tasks, pc'[u] \in Locked PROVE HasLock(u)'
    BY DEF LockHeld
  <2>1. CASE u = t
    BY <2>1 DEF HasLock, ListsTyped, Locked
  <2>2. CASE u # t
    <3>1. HasLock(u)
      BY <2>2 DEF LockHeld, ListsTyped
    <3> QED BY <3>1, <2>2, OneHasLock, AppendKeepsLock DEF HasLock, ListsTyped
  <2> QED BY <2>1, <2>2
<1>4. CheckedIsUnlisted'
  BY DEF CheckedIsUnlisted, ListsTyped, Locked
<1>5. Distinct' /\ ListedOnce' /\ HeldIsNotIdle' /\ BusyIsHeld'
  BY DEF Distinct, ListedOnce, HeldIsNotIdle, BusyIsHeld
<1> QED BY <1>1, <1>2, <1>3, <1>4, <1>5

(* A step of t that takes c, listed as idle or new, and leaves the lock.     *)
LEMMA TakeStep ==
    ASSUME IInv, PoolAssumption, NEW t \in Tasks, NEW c \in Conns,
           pc[t] \notin Holding, HasLock(t),
           pc' = [pc EXCEPT ![t] = Block(t)],
           conn' = [conn EXCEPT ![t] = c],
           queue' = Tail(queue),
           inUse' = [inUse EXCEPT ![c] = @ + 1],
           \/ pool[c] > 0 /\ pool' = [pool EXCEPT ![c] = @ - 1]
           \/ c \in Unused /\ UNCHANGED pool
    PROVE  IInv'
<1> USE DEF IInv, PoolAssumption
<1>0. /\ inUse[c] = 0 /\ pool' \in [Conns -> Nat] /\ pool'[c] = 0
      /\ \A d \in Conns \ {c} : pool'[d] = pool[d] /\ inUse'[d] = inUse[d]
      /\ \A u \in Tasks : conn[u] # c
      /\ inUse' \in [Conns -> Nat] /\ inUse'[c] = 1
  <2>1. inUse[c] \in Nat /\ pool[c] \in Nat /\ pool[c] + inUse[c] <= 1
    BY DEF ListsTyped, ListedOnce
  <2>2. CASE pool[c] > 0 /\ pool' = [pool EXCEPT ![c] = @ - 1]
    BY <2>1, <2>2 DEF ListsTyped, HeldIsNotIdle
  <2>3. CASE c \in Unused /\ UNCHANGED pool
    BY <2>1, <2>3 DEF ListsTyped, Unused, Listed
  <2> QED BY <2>2, <2>3
<1>1. Block(t) \in {"begin", "query"}
  BY DEF Block
<1>2. ListsTyped'
  BY <1>0, <1>1, TailType DEF ListsTyped, Places
<1>3. HeldInBlock'
  BY <1>1 DEF HeldInBlock, ListsTyped, Holding
<1>4. LockHeld' /\ CheckedIsUnlisted'
  <2>1. \A u \in Tasks : pc'[u] \notin Locked
    BY <1>1, OneHasLock DEF LockHeld, ListsTyped, Locked
  <2> QED BY <2>1 DEF LockHeld, CheckedIsUnlisted, Locked
<1>5. Distinct'
  BY <1>0 DEF Distinct, ListsTyped
<1>6. ListedOnce'
  BY <1>0 DEF ListedOnce
<1>7. HeldIsNotIdle'
  BY <1>0 DEF HeldIsNotIdle, ListsTyped
<1>8. BusyIsHeld'
  <2> SUFFICES ASSUME NEW d \in Conns, inUse'[d] > 0
               PROVE  \E u \in Tasks : conn'[u] = d
    BY DEF BusyIsHeld
  <2>1. CASE d = c
    BY <2>1 DEF ListsTyped
  <2>2. CASE d # c
    <3>1. PICK u \in Tasks : conn[u] = d
      BY <1>0, <2>2 DEF BusyIsHeld
    <3>2. conn[t] = NoConn
      BY DEF HeldInBlock
    <3>3. u # t
      BY <3>1, <3>2
    <3> QED BY <3>1, <3>3 DEF ListsTyped
  <2> QED BY <2>1, <2>2
<1> QED BY <1>2, <1>3, <1>4, <1>5, <1>6, <1>7, <1>8

(* A step of t that lets its connection go, which is listed as busy nowhere: *)
(* it may be listed as idle then.                                            *)
LEMMA LetGoStep ==
    ASSUME IInv, PoolAssumption, NEW t \in Tasks,
           pc[t] \in Holding, HasLock(t), inUse[conn[t]] = 0,
           pc' = [pc EXCEPT ![t] = "idle"],
           conn' = [conn EXCEPT ![t] = NoConn],
           queue' = Tail(queue), UNCHANGED inUse,
           \/ UNCHANGED pool
           \/ pool' = [pool EXCEPT ![conn[t]] = @ + 1]
    PROVE  IInv'
<1> USE DEF IInv, PoolAssumption
<1>0. conn[t] \in Conns /\ pool[conn[t]] = 0
  BY DEF HeldInBlock, ListsTyped, HeldIsNotIdle
<1>1. /\ pool' \in [Conns -> Nat] /\ pool'[conn[t]] <= 1
      /\ \A d \in Conns \ {conn[t]} : pool'[d] = pool[d]
  BY <1>0 DEF ListsTyped
<1>2. ListsTyped'
  BY <1>1, TailType DEF ListsTyped, Places, Inside
<1>3. HeldInBlock'
  BY DEF HeldInBlock, ListsTyped, Holding
<1>4. LockHeld' /\ CheckedIsUnlisted'
  <2>1. \A u \in Tasks : pc'[u] \notin Locked
    BY OneHasLock DEF LockHeld, ListsTyped, Locked
  <2> QED BY <2>1 DEF LockHeld, CheckedIsUnlisted, Locked
<1>5. Distinct'
  BY DEF Distinct, ListsTyped
<1>6. ListedOnce'
  <2> SUFFICES ASSUME NEW d \in Conns PROVE pool'[d] + inUse[d] <= 1
    BY DEF ListedOnce
  <2>1. CASE d = conn[t]
    <3>1. pool'[d] \in Nat /\ pool'[d] <= 1 /\ inUse[d] = 0
      BY <1>0, <1>1, <2>1
    <3> QED BY <3>1
  <2>2. CASE d # conn[t]
    <3>1. pool'[d] = pool[d]
      BY <1>1, <2>2
    <3> QED BY <3>1 DEF ListedOnce
  <2> QED BY <2>1, <2>2
<1>7. HeldIsNotIdle'
  BY <1>0, <1>1 DEF HeldIsNotIdle, Distinct, ListsTyped
<1>8. BusyIsHeld'
  <2> SUFFICES ASSUME NEW d \in Conns, inUse'[d] > 0
               PROVE  \E u \in Tasks : conn'[u] = d
    BY DEF BusyIsHeld
  <2>1. PICK u \in Tasks : conn[u] = d
    BY DEF BusyIsHeld
  <2>2. u # t
    BY <2>1
  <2> QED BY <2>1, <2>2 DEF ListsTyped
<1> QED BY <1>2, <1>3, <1>4, <1>5, <1>6, <1>7, <1>8

-----------------------------------------------------------------------------
(* The steps that are of no such kind                                        *)

LEMMA MakeOneStep ==
    ASSUME IInv, PoolAssumption, NEW t \in Tasks, MakeOne(t)
    PROVE  IInv'
<1> USE DEF IInv, PoolAssumption
<1>1. PICK c \in Unused : pool' = Add(pool, c)
  BY DEF MakeOne, New
<1>2. UNCHANGED <<inUse, queue, pc, conn>>
  BY DEF MakeOne
<1>3. /\ c \in Conns /\ pool[c] = 0 /\ inUse[c] = 0 /\ \A u \in Tasks : conn[u] # c
      /\ pool' \in [Conns -> Nat] /\ pool'[c] = 1
      /\ \A d \in Conns \ {c} : pool'[d] = pool[d]
  BY <1>1 DEF Unused, Listed, ListsTyped, Add
<1>4. ListsTyped' /\ HeldInBlock' /\ LockHeld' /\ CheckedIsUnlisted'
  BY <1>2, <1>3 DEF ListsTyped, HeldInBlock, LockHeld, HasLock, CheckedIsUnlisted
<1>5. ListedOnce'
  <2> SUFFICES ASSUME NEW d \in Conns PROVE pool'[d] + inUse[d] <= 1
    BY <1>2 DEF ListedOnce
  <2>1. CASE d = c
    BY <1>3, <2>1
  <2>2. CASE d # c
    <3>1. pool'[d] = pool[d]
      BY <1>3, <2>2
    <3> QED BY <3>1 DEF ListedOnce
  <2> QED BY <2>1, <2>2
<1>6. HeldIsNotIdle'
  BY <1>2, <1>3 DEF HeldIsNotIdle
<1>7. Distinct' /\ BusyIsHeld'
  BY <1>2 DEF Distinct, BusyIsHeld
<1> QED BY <1>4, <1>5, <1>6, <1>7

LEMMA ReleaseStep ==
    ASSUME IInv, PoolAssumption, NEW t \in Tasks, Release(t)
    PROVE  IInv'
<1> USE DEF IInv, PoolAssumption
<1>1. /\ pc[t] = "release" /\ HasLock(t) /\ inUse[conn[t]] > 0
      /\ inUse' = [inUse EXCEPT ![conn[t]] = @ - 1]
      /\ pc' = [pc EXCEPT ![t] = "checking"]
      /\ UNCHANGED <<pool, queue, conn>>
  BY DEF Release, StillInUse, Remove, GoTo
<1>2. conn[t] \in Conns
  BY <1>1 DEF HeldInBlock, Holding, ListsTyped
<1>3. /\ inUse' \in [Conns -> Nat] /\ inUse'[conn[t]] = 0
      /\ \A d \in Conns \ {conn[t]} : inUse'[d] = inUse[d]
  BY <1>1, <1>2 DEF ListsTyped, ListedOnce
<1>4. ListsTyped' /\ HeldInBlock'
  BY <1>1, <1>3 DEF ListsTyped, HeldInBlock, Holding, Places, Inside
<1>5. LockHeld'
  BY <1>1 DEF LockHeld, HasLock, ListsTyped
<1>6. CheckedIsUnlisted'
  <2> SUFFICES ASSUME NEW u \in Tasks, pc'[u] = "checking"
               PROVE  inUse'[conn'[u]] = 0
    BY DEF CheckedIsUnlisted
  <2>1. HasLock(u)
    BY <1>1 DEF LockHeld, Locked, ListsTyped
  <2>2. u = t
    BY <1>1, <2>1, OneHasLock
  <2> QED BY <1>1, <1>3, <2>2
<1>7. Distinct' /\ ListedOnce' /\ HeldIsNotIdle' /\ BusyIsHeld'
  BY <1>1, <1>2, <1>3 DEF Distinct, ListedOnce, HeldIsNotIdle, BusyIsHeld, ListsTyped
<1> QED BY <1>4, <1>5, <1>6, <1>7

LEMMA CloseStep ==
    ASSUME IInv, PoolAssumption, NEW t \in Tasks, Close(t)
    PROVE  IInv'
<1> USE DEF IInv
<1>1. /\ pc[t] = "close" /\ HasLock(t) /\ queue' = Tail(queue)
      /\ pc' = [pc EXCEPT ![t] = "idle"] /\ UNCHANGED conn
      /\ \/ pool' = EmptyList /\ inUse' = EmptyList
         \/ UNCHANGED <<pool, inUse>>
  BY DEF Close, GoTo, lists
<1>2. CASE UNCHANGED <<pool, inUse>>
  <2>1. "idle" \in Places /\ "idle" \notin Holding \cup Locked /\ pc[t] \notin Holding
    BY <1>1 DEF Places, Holding, Locked
  <2> QED BY <1>1, <1>2, <2>1, MoveStep
<1>3. CASE pool' = EmptyList /\ inUse' = EmptyList
  <2>1. ListsTyped' /\ HeldInBlock'
    BY <1>1, <1>3, TailType
       DEF ListsTyped, HeldInBlock, Holding, Places, Inside, EmptyList
  <2>2. LockHeld' /\ CheckedIsUnlisted'
    <3>1. \A u \in Tasks : pc'[u] \notin Locked
      BY <1>1, OneHasLock DEF LockHeld, ListsTyped, Locked
    <3> QED BY <3>1 DEF LockHeld, CheckedIsUnlisted, Locked
  <2>3. Distinct' /\ ListedOnce' /\ HeldIsNotIdle' /\ BusyIsHeld'
    BY <1>1, <1>3 DEF Distinct, ListedOnce, HeldIsNotIdle, BusyIsHeld, EmptyList
  <2> QED BY <2>1, <2>2, <2>3
<1> QED BY <1>1, <1>2, <1>3
-----------------------------------------------------------------------------
(* Every action is a step of one of those kinds                              *)

LEMMA Movers ==
    ASSUME IInv, NEW t \in Tasks,
           \/ \E c \in Calls : Invoke(t, c)
           \/ MakeFails(t) \/ Initialized(t) \/ AcquireNew(t) \/ CreateFails(t)
           \/ Query(t) \/ Begin(t) \/ Commit(t) \/ BodyFails(t)
           \/ Rollback(t) \/ Cancelled(t)
    PROVE  IInv'
<1> USE DEF GoTo, Leave, lists, Places, Inside, Holding, Locked
<1>1. CASE \E c \in Calls : Invoke(t, c)
  <2>1. PICK p \in {"initialize", "close", "acquire"} :
           /\ pc' = [pc EXCEPT ![t] = p] /\ pc[t] = "idle"
           /\ queue' = Append(queue, t) /\ UNCHANGED <<pool, inUse, conn>>
    BY <1>1 DEF Invoke, Calls
  <2> QED BY <2>1, MoveStep
<1>2. CASE MakeFails(t) \/ Initialized(t)
  <2>1. /\ pc' = [pc EXCEPT ![t] = "idle"] /\ pc[t] = "initialize"
        /\ queue' = Tail(queue) /\ HasLock(t) /\ UNCHANGED <<pool, inUse, conn>>
    BY <1>2 DEF MakeFails, Initialized
  <2> QED BY <2>1, MoveStep
<1>3. CASE AcquireNew(t)
  <2>1. PICK p \in {"creating", "sleeping"} :
           /\ pc' = [pc EXCEPT ![t] = p] /\ pc[t] = "acquire"
           /\ queue' = queue /\ HasLock(t) /\ UNCHANGED <<pool, inUse, conn>>
    BY <1>3 DEF AcquireNew
  <2> QED BY <2>1, MoveStep
<1>4. CASE CreateFails(t)
  <2>1. /\ pc' = [pc EXCEPT ![t] = "idle"] /\ pc[t] = "creating"
        /\ queue' = Tail(queue) /\ UNCHANGED <<pool, inUse, conn>>
    BY <1>4 DEF CreateFails
  <2>2. HasLock(t)
    BY <2>1 DEF IInv, LockHeld
  <2> QED BY <2>1, <2>2, MoveStep
<1>5. CASE Query(t) \/ Commit(t) \/ Rollback(t) \/ Cancelled(t)
  <2>1. /\ pc' = [pc EXCEPT ![t] = "release"] /\ pc[t] \in Holding
        /\ queue' = Append(queue, t) /\ UNCHANGED <<pool, inUse, conn>>
    BY <1>5 DEF Query, Commit, Rollback, Cancelled
  <2> QED BY <2>1, MoveStep
<1>6. CASE Begin(t)
  <2>1. CASE pc' = [pc EXCEPT ![t] = "body"] /\ UNCHANGED queue
    BY <1>6, <2>1, MoveStep DEF Begin
  <2>2. CASE pc' = [pc EXCEPT ![t] = "release"] /\ queue' = Append(queue, t)
    BY <1>6, <2>2, MoveStep DEF Begin
  <2> QED BY <1>6, <2>1, <2>2 DEF Begin
<1>7. CASE BodyFails(t)
  BY <1>7, MoveStep DEF BodyFails
<1> QED BY <1>1, <1>2, <1>3, <1>4, <1>5, <1>6, <1>7

LEMMA Takers ==
    ASSUME IInv, PoolAssumption, NEW t \in Tasks,
           AcquireIdle(t) \/ Created(t) \/ WaitOver(t)
    PROVE  IInv'
<1> USE DEF GoTo, lists, Take, Add, Remove, Holding, Locked
<1>1. CASE AcquireIdle(t)
  <2>1. PICK c \in Listed(pool) : Take(t, c)
    BY <1>1 DEF AcquireIdle
  <2>2. c \in Conns /\ pool[c] > 0 /\ HasLock(t) /\ pc[t] \notin Holding
    BY <1>1, <2>1 DEF AcquireIdle, Listed
  <2> QED BY <2>1, <2>2, TakeStep
<1>2. CASE Created(t)
  <2>1. PICK c \in New : inUse' = Add(inUse, c) /\ conn' = [conn EXCEPT ![t] = c]
    BY <1>2 DEF Created
  <2>2. c \in Conns /\ c \in Unused
    BY <2>1 DEF New, Unused
  <2>3. /\ pc[t] = "creating" /\ pc' = [pc EXCEPT ![t] = Block(t)]
        /\ queue' = Tail(queue) /\ UNCHANGED pool
    BY <1>2 DEF Created
  <2>4. HasLock(t)
    BY <2>3 DEF IInv, LockHeld
  <2>5. pc[t] \notin Holding
    BY <2>3
  <2> QED BY <2>1, <2>2, <2>3, <2>4, <2>5, TakeStep
<1>3. CASE WaitOver(t)
  <2>1. pc[t] = "sleeping" /\ HasLock(t) /\ pc[t] \notin Holding
    BY <1>3 DEF WaitOver, IInv, LockHeld
  <2>2. CASE Listed(pool) # {}
    <3>1. PICK c \in Listed(pool) : Take(t, c)
      BY <1>3, <2>2 DEF WaitOver
    <3>2. c \in Conns /\ pool[c] > 0
      BY <3>1 DEF Listed
    <3> QED BY <2>1, <3>1, <3>2, TakeStep
  <2>3. CASE Listed(pool) = {}
    <3>1. /\ pc' = [pc EXCEPT ![t] = "idle"] /\ queue' = Tail(queue)
          /\ UNCHANGED <<pool, inUse, conn>>
      BY <1>3, <2>3 DEF WaitOver
    <3>2. "idle" \in Places
      BY DEF Places
    <3> QED BY <2>1, <3>1, <3>2, MoveStep
  <2> QED BY <2>2, <2>3
<1> QED BY <1>1, <1>2, <1>3

LEMMA ReleaseEnds ==
    ASSUME IInv, PoolAssumption, NEW t \in Tasks,
           ReleaseUnknown(t) \/ GiveBack(t) \/ Discard(t)
    PROVE  IInv'
<1> USE DEF GoTo, lists, Add, Holding, Locked
<1>1. CASE ReleaseUnknown(t)
  <2>1. pc[t] = "release" /\ HasLock(t) /\ ~(inUse[conn[t]] > 0)
    BY <1>1 DEF ReleaseUnknown, StillInUse
  <2>2. conn[t] \in Conns
    BY <2>1 DEF IInv, HeldInBlock, ListsTyped
  <2>3. inUse[conn[t]] = 0
    BY <2>1, <2>2 DEF IInv, ListsTyped
  <2> QED BY <1>1, <2>1, <2>3, LetGoStep DEF ReleaseUnknown
<1>2. CASE GiveBack(t) \/ Discard(t)
  <2>1. pc[t] = "checking"
    BY <1>2 DEF GiveBack, Discard
  <2>2. HasLock(t) /\ inUse[conn[t]] = 0
    BY <2>1 DEF IInv, LockHeld, CheckedIsUnlisted
  <2> QED BY <1>2, <2>1, <2>2, LetGoStep DEF GiveBack, Discard
<1> QED BY <1>1, <1>2

LEMMA NextIInv == ASSUME IInv, PoolAssumption, [Next]_vars PROVE IInv'
<1>1. CASE UNCHANGED vars
  BY <1>1 DEF vars, IInv, ListsTyped, HeldInBlock, LockHeld, HasLock,
              CheckedIsUnlisted, Distinct, ListedOnce, HeldIsNotIdle, BusyIsHeld
<1>2. CASE Next
  <2> PICK t \in Tasks : (\E c \in Calls : Invoke(t, c)) \/ Step(t)
    BY <1>2 DEF Next
  <2> QED
    BY Movers, Takers, ReleaseEnds, MakeOneStep, ReleaseStep, CloseStep DEF Step
<1> QED BY <1>1, <1>2

-----------------------------------------------------------------------------
LEMMA IInvExclusive == ASSUME IInv PROVE ExclusiveUse
<1>1. \A t, u \in Tasks : t # u /\ conn[t] # NoConn => conn[t] # conn[u]
  BY DEF IInv, Distinct
<1>2. \A c \in Conns : pool[c] + inUse[c] <= 1
  BY DEF IInv, ListedOnce
<1>3. Held \cap Listed(pool) = {}
  BY DEF IInv, HeldIsNotIdle, Held, Listed
<1>4. Listed(inUse) \subseteq Held
  BY DEF IInv, BusyIsHeld, Held, Listed
<1> QED BY <1>1, <1>2, <1>3, <1>4 DEF ExclusiveUse

(* A connection that acquire() handed out is with one task, listed at most   *)
(* once and never as idle, and what is listed as busy is with some task:     *)
(* through releases, closes under way, failed calls and cancellations.       *)
THEOREM ConnectionsAreExclusive ==
    ASSUME PoolAssumption
    PROVE  Spec => []ExclusiveUse
<1>1. IInv => ExclusiveUse
  BY IInvExclusive
<1>2. Init => IInv
  BY InitIInv
<1>3. IInv /\ [Next]_vars => IInv'
  BY NextIInv
<1> QED BY <1>1, <1>2, <1>3, PTL DEF Spec
-----------------------------------------------------------------------------
(* What the driver has open                                                  *)

(* Connections under examination are on no list.                             *)
Examined == {c \in Conns : \E t \in Tasks : conn[t] = c /\ pc[t] = "checking"}

DriverTyped ==
    /\ total \in Int /\ open \subseteq Conns /\ IsFiniteSet(open)
    /\ made \in [Tasks -> 0 .. PoolSize]

(* As long as no close and no rollback failed, the pool knows of every open  *)
(* connection, counts them, and only a block has one in a transaction.       *)
Accounted == open = Listed(pool) \cup Listed(inUse) \cup Examined
TotalIsOpen == total = Cardinality(open)
InTransaction(c) == \E t \in Tasks : conn[t] = c /\ pc[t] \in {"body", "rollback"}
DirtyInBlock == \A c \in dirty : InTransaction(c)

(* Who makes the pool's connections has the lock; who makes one more found   *)
(* room for it.                                                              *)
MadeUnderLock == \A t \in Tasks :
    pc[t] = "initialize" /\ made[t] > 0 => HasLock(t)
FoundRoom == \A t \in Tasks :
    pc[t] = "creating" => Listed(pool) = {} /\ RoomForMore

(* Unless an initialize() found connections there, it counts them all.       *)
MadeAll == \A t \in Tasks :
    pc[t] = "initialize" /\ made[t] > 0 => Cardinality(open) = made[t]

DInv ==
    /\ IInv /\ DriverTyped /\ MadeUnderLock /\ FoundRoom
    /\ ~leaky => Accounted /\ TotalIsOpen /\ DirtyInBlock
    /\ ~leaky /\ ~late => MadeAll /\ Cardinality(open) <= PoolSize + MaxOverflow

Tx == {"body", "rollback"}

LEMMA InitDInv == ASSUME PoolAssumption, Init PROVE DInv
<1>1. IInv
  BY InitIInv
<1>2. Cardinality({}) = 0 /\ IsFiniteSet({})
  BY FS_EmptySet
<1>3. DriverTyped /\ MadeUnderLock /\ FoundRoom
  BY <1>2 DEF Init, DriverTyped, MadeUnderLock, FoundRoom, PoolAssumption
<1>4. Accounted /\ TotalIsOpen /\ DirtyInBlock
  BY <1>2 DEF Init, Accounted, TotalIsOpen, DirtyInBlock, Listed, Examined
<1>5. MadeAll /\ Cardinality(open) <= PoolSize + MaxOverflow
  BY <1>2 DEF Init, MadeAll, PoolAssumption
<1> QED BY <1>1, <1>3, <1>4, <1>5 DEF DInv

(* Next to the task that has the lock nobody is examining a connection or    *)
(* making one.                                                               *)
LEMMA NobodyElse ==
    ASSUME DInv, NEW t \in Tasks, HasLock(t), NEW u \in Tasks \ {t}
    PROVE  pc[u] \notin Locked /\ ~(pc[u] = "initialize" /\ made[u] > 0)
  BY OneHasLock DEF DInv, IInv, LockHeld, MadeUnderLock

(* So who has the lock leaves it without anybody's count being wrong.        *)
LEMMA LockStep ==
    ASSUME DInv, NEW t \in Tasks, HasLock(t), NEW p \in Places,
           pc' = [pc EXCEPT ![t] = p], p \notin {"creating", "initialize"},
           UNCHANGED made
    PROVE  MadeUnderLock' /\ FoundRoom' /\ MadeAll'
<1>1. \A u \in Tasks : pc'[u] # "creating"
                       /\ ~(pc'[u] = "initialize" /\ made[u] > 0)
  BY NobodyElse DEF Locked, DInv, IInv, ListsTyped
<1> QED BY <1>1 DEF MadeUnderLock, FoundRoom, MadeAll

(* Transactions of other tasks stay where they are.                          *)
LEMMA DirtyStep ==
    ASSUME DInv, NEW t \in Tasks, NEW p, pc' = [pc EXCEPT ![t] = p],
           \A u \in Tasks \ {t} : conn'[u] = conn[u],
           leaky => leaky',
           ~leaky' => \A c \in dirty' :
               \/ c = conn'[t] /\ p \in Tx
               \/ c \in dirty /\ (c # conn[t] \/ pc[t] \notin Tx)
    PROVE  ~leaky' => DirtyInBlock'
<1> SUFFICES ASSUME ~leaky', NEW c \in dirty' PROVE InTransaction(c)'
  BY DEF DirtyInBlock
<1>1. CASE c = conn'[t] /\ p \in Tx
  BY <1>1 DEF InTransaction, Tx, DInv, IInv, ListsTyped
<1>2. CASE c \in dirty /\ (c # conn[t] \/ pc[t] \notin Tx)
  <2>1. PICK u \in Tasks : conn[u] = c /\ pc[u] \in Tx
    BY <1>2 DEF DInv, DirtyInBlock, InTransaction, Tx
  <2>2. u # t
    BY <1>2, <2>1
  <2> QED BY <2>1, <2>2 DEF InTransaction, Tx, DInv, IInv, ListsTyped
<1> QED BY <1>1, <1>2

-----------------------------------------------------------------------------
(* The steps, by what they do to the open connections                        *)

(* A step that leaves the lists and the driver's connections alone.          *)
LEMMA QuietStep ==
    ASSUME DInv, IInv', NEW t \in Tasks, NEW p \in Places,
           pc' = [pc EXCEPT ![t] = p], pc[t] # "checking", p # "checking",
           UNCHANGED <<pool, inUse, open, total, conn, late>>,
           \/ made' = [made EXCEPT ![t] = 0]
           \/ UNCHANGED made /\ p # "initialize",
           p = "creating" => Listed(pool) = {} /\ RoomForMore,
           \/ queue' = queue \/ queue' = Append(queue, t)
           \/ queue' = Tail(queue) /\ HasLock(t) /\ p \notin {"creating", "initialize"},
           leaky => leaky', PoolAssumption,
           ~leaky' => \A c \in dirty' :
               \/ c = conn'[t] /\ p \in Tx
               \/ c \in dirty /\ (c # conn[t] \/ pc[t] \notin Tx)
    PROVE  DInv'
<1> USE DEF DInv
<1>0. ListsTyped /\ made \in [Tasks -> 0 .. PoolSize]
  BY DEF IInv, DriverTyped
<1>1. DriverTyped'
  BY <1>0 DEF DriverTyped, PoolAssumption
<1>2. \A u \in Tasks : pc'[u] = "initialize" /\ made'[u] > 0
                          => u # t /\ pc[u] = "initialize" /\ made'[u] = made[u]
  BY <1>0 DEF ListsTyped
<1>3. MadeUnderLock'
  <2> SUFFICES ASSUME NEW u \in Tasks, pc'[u] = "initialize", made'[u] > 0
               PROVE  HasLock(u)'
    BY DEF MadeUnderLock
  <2>1. u # t /\ HasLock(u)
    BY <1>2 DEF MadeUnderLock
  <2>2. ~HasLock(t)
    BY <2>1, OneHasLock
  <2> QED BY <1>0, <2>1, <2>2, AppendKeepsLock DEF HasLock, ListsTyped
<1>4. FoundRoom'
  BY <1>0 DEF FoundRoom, ListsTyped, Listed, RoomForMore
<1>5. ~leaky' => Accounted' /\ TotalIsOpen'
  <2>1. Examined' = Examined
    BY <1>0 DEF Examined, ListsTyped
  <2> QED BY <2>1 DEF Accounted, TotalIsOpen, Listed
<1>6. ~leaky' => DirtyInBlock'
  BY DirtyStep
<1>7. ~leaky' /\ ~late' => MadeAll' /\ Cardinality(open)' <= PoolSize + MaxOverflow
  BY <1>2 DEF MadeAll
<1> QED BY <1>1, <1>3, <1>4, <1>5, <1>6, <1>7

(* Connections that change from one list to another, or to being examined.   *)
LEMMA MoveListed ==
    ASSUME DInv, IInv', NEW t \in Tasks, HasLock(t), NEW p \in Places,
           pc' = [pc EXCEPT ![t] = p], p \notin Tx \cup {"creating", "initialize"},
           pc[t] \notin Tx,
           UNCHANGED <<open, dirty, total, made, late, leaky>>,
           \A u \in Tasks \ {t} : conn'[u] = conn[u],
           ~leaky => (Listed(pool) \cup Listed(inUse) \cup Examined)'
                        = Listed(pool) \cup Listed(inUse) \cup Examined
    PROVE  DInv'
<1> USE DEF DInv
<1>1. DriverTyped'
  BY DEF DriverTyped
<1>2. MadeUnderLock' /\ FoundRoom' /\ MadeAll'
  BY LockStep
<1>3. ~leaky' => Accounted' /\ TotalIsOpen'
  BY DEF Accounted, TotalIsOpen
<1>4. ~leaky' => DirtyInBlock'
  BY DirtyStep
<1> QED BY <1>1, <1>2, <1>3, <1>4

(* Nobody but the task with the lock examines a connection.                  *)
LEMMA ExaminedAlone ==
    ASSUME DInv, NEW t \in Tasks, HasLock(t)
    PROVE  Examined = IF pc[t] = "checking" THEN {conn[t]} \cap Conns ELSE {}
  BY NobodyElse DEF Examined, Locked

LEMMA ExaminedThen ==
    ASSUME DInv, NEW t \in Tasks, HasLock(t), NEW p \in Places,
           pc' = [pc EXCEPT ![t] = p]
    PROVE  Examined' = IF p = "checking" THEN {conn'[t]} \cap Conns ELSE {}
<1>1. \A u \in Tasks : pc'[u] = "checking" <=> u = t /\ p = "checking"
  BY NobodyElse DEF Locked, DInv, IInv, ListsTyped
<1> QED BY <1>1 DEF Examined

LEMMA ListedAdd ==
    ASSUME NEW list \in [Conns -> Nat], NEW c \in Conns
    PROVE  Listed(Add(list, c)) = Listed(list) \cup {c}
  BY DEF Listed, Add

LEMMA ListedRemove ==
    ASSUME NEW list \in [Conns -> Nat], NEW c \in Conns, list[c] = 1
    PROVE  Listed(Remove(list, c)) = Listed(list) \ {c}
  BY DEF Listed, Remove

LEMMA ListedUnion ==
    ASSUME IInv, NEW c \in Conns
    PROVE  /\ pool[c] > 0 => pool[c] = 1 /\ inUse[c] = 0
           /\ inUse[c] > 0 => inUse[c] = 1 /\ pool[c] = 0
  BY DEF IInv, ListsTyped, ListedOnce

LEMMA TakeListed ==
    ASSUME DInv, IInv', NEW t \in Tasks, HasLock(t), pc[t] \in {"acquire", "sleeping"},
           NEW c \in Listed(pool), Take(t, c),
           UNCHANGED <<total, driver, made, past>>
    PROVE  DInv'
<1>1. c \in Conns /\ pool[c] = 1 /\ pool \in [Conns -> Nat] /\ inUse \in [Conns -> Nat]
  BY ListedUnion DEF Listed, DInv, IInv, ListsTyped
<1>2. Listed(pool)' = Listed(pool) \ {c} /\ Listed(inUse)' = Listed(inUse) \cup {c}
  BY <1>1, ListedAdd, ListedRemove DEF Take, Listed
<1>3. PICK p \in {"query", "begin"} : pc' = [pc EXCEPT ![t] = p]
  BY DEF Take, GoTo, Block
<1>4. Examined = {} /\ Examined' = {}
  BY <1>3, ExaminedAlone, ExaminedThen DEF Places
<1>5. \A u \in Tasks \ {t} : conn'[u] = conn[u]
  BY DEF Take, DInv, IInv, ListsTyped
<1>6. (Listed(pool) \cup Listed(inUse) \cup Examined)'
         = Listed(pool) \cup Listed(inUse) \cup Examined
  BY <1>2, <1>4, c \in Listed(pool)
<1> QED
  BY <1>3, <1>5, <1>6, MoveListed DEF Tx, Places, driver, past

LEMMA CreatedStep ==
    ASSUME DInv, IInv', PoolAssumption, NEW t \in Tasks, Created(t)
    PROVE  DInv'
<1> USE DEF DInv
<1>1. pc[t] = "creating" /\ HasLock(t)
  BY DEF Created, IInv, LockHeld, Locked
<1>2. PICK c \in New : inUse' = Add(inUse, c) /\ open' = open \cup {c}
                       /\ conn' = [conn EXCEPT ![t] = c]
  BY DEF Created
<1>3. c \in Conns \ open
  BY DEF New, Unused
<1>4. PICK p \in {"query", "begin"} : pc' = [pc EXCEPT ![t] = p]
  BY DEF Created, GoTo, Block
<1>5. UNCHANGED <<pool, dirty, made, late, leaky>> /\ total' = total + 1
  BY DEF Created, past
<1>6. Examined = {} /\ Examined' = {}
  BY <1>1, <1>4, ExaminedAlone, ExaminedThen DEF Places
<1>7. /\ Listed(inUse)' = Listed(inUse) \cup {c} /\ Listed(pool)' = Listed(pool)
      /\ Listed(pool) = {} /\ Cardinality(Listed(inUse)) < PoolSize + MaxOverflow
  BY <1>1, <1>2, <1>3, <1>5, ListedAdd
     DEF Listed, IInv, ListsTyped, FoundRoom, RoomForMore
<1>8. IsFiniteSet(open') /\ Cardinality(open') = Cardinality(open) + 1
      /\ Cardinality(open) \in Nat
  BY <1>2, <1>3, FS_AddElement, FS_CardinalityType DEF DriverTyped
<1>9. DriverTyped'
  BY <1>2, <1>3, <1>5, <1>8 DEF DriverTyped
<1>10. MadeUnderLock' /\ FoundRoom' /\ MadeAll'
  BY <1>1, <1>4, <1>5, LockStep DEF Places
<1>11. ~leaky' => Accounted' /\ TotalIsOpen'
  BY <1>2, <1>5, <1>6, <1>7, <1>8 DEF Accounted, TotalIsOpen
<1>12. ~leaky' => DirtyInBlock'
  <2>1. \A u \in Tasks \ {t} : conn'[u] = conn[u]
    BY <1>2 DEF IInv, ListsTyped
  <2> QED BY <1>1, <1>4, <1>5, <2>1, DirtyStep DEF Tx
<1>13. ~leaky' /\ ~late' => Cardinality(open') <= PoolSize + MaxOverflow
  <2> SUFFICES ASSUME ~leaky PROVE Cardinality(open) + 1 <= PoolSize + MaxOverflow
    BY <1>5, <1>8
  <2>1. open = Listed(inUse)
    BY <1>6, <1>7 DEF Accounted
  <2> QED BY <1>7, <1>8, <2>1 DEF PoolAssumption
<1> QED BY <1>9, <1>10, <1>11, <1>12, <1>13

LEMMA MakeOneMade ==
    ASSUME DInv, IInv', PoolAssumption, NEW t \in Tasks, MakeOne(t)
    PROVE  DInv'
<1> USE DEF DInv
<1>1. /\ pc[t] = "initialize" /\ HasLock(t) /\ made[t] < PoolSize
      /\ UNCHANGED <<inUse, queue, dirty, pc, conn, leaky>>
      /\ total' = total + 1 /\ made' = [made EXCEPT ![t] = @ + 1]
      /\ late' = (late \/ (made[t] = 0 /\ open # {}))
  BY DEF MakeOne
<1>2. PICK c \in New : pool' = Add(pool, c) /\ open' = open \cup {c}
  BY DEF MakeOne
<1>3. c \in Conns \ open
  BY DEF New, Unused
<1>4. IsFiniteSet(open') /\ Cardinality(open') = Cardinality(open) + 1
      /\ Cardinality(open) \in Nat
  BY <1>2, <1>3, FS_AddElement, FS_CardinalityType DEF DriverTyped
<1>5. made' \in [Tasks -> 0 .. PoolSize] /\ made'[t] = made[t] + 1
      /\ \A u \in Tasks \ {t} : made'[u] = made[u]
  BY <1>1 DEF DriverTyped, PoolAssumption
<1>6. DriverTyped'
  BY <1>1, <1>2, <1>3, <1>4, <1>5 DEF DriverTyped
<1>7. \A u \in Tasks \ {t} : pc[u] # "creating" /\ pc[u] # "checking"
                             /\ ~(pc[u] = "initialize" /\ made[u] > 0)
  BY <1>1, NobodyElse DEF Locked
<1>8. MadeUnderLock' /\ FoundRoom'
  BY <1>1, <1>5, <1>7 DEF MadeUnderLock, FoundRoom, HasLock
<1>9. ~leaky' => Accounted' /\ TotalIsOpen' /\ DirtyInBlock'
  <2>1. Listed(pool)' = Listed(pool) \cup {c} /\ Listed(inUse)' = Listed(inUse)
        /\ Examined' = Examined
    BY <1>1, <1>2, <1>3, ListedAdd DEF Listed, Examined, IInv, ListsTyped
  <2> QED BY <1>1, <1>2, <1>4, <2>1
          DEF Accounted, TotalIsOpen, DirtyInBlock, InTransaction
<1>10. ~leaky' /\ ~late' => MadeAll' /\ Cardinality(open') <= PoolSize + MaxOverflow
  <2> SUFFICES ASSUME ~leaky, ~late, made[t] = 0 => open = {}
               PROVE  MadeAll' /\ Cardinality(open') <= PoolSize + MaxOverflow
    BY <1>1
  <2>1. Cardinality(open) = made[t]
    <3>1. CASE made[t] = 0
      BY <3>1, FS_EmptySet
    <3>2. CASE made[t] # 0
      BY <1>1, <3>2 DEF MadeAll, DriverTyped
    <3> QED BY <3>1, <3>2
  <2>2. Cardinality(open') = made'[t]
    BY <1>4, <1>5, <2>1
  <2> QED BY <1>1, <1>5, <1>7, <2>2 DEF MadeAll, PoolAssumption
<1> QED BY <1>6, <1>8, <1>9, <1>10

LEMMA ReleaseMoves ==
    ASSUME DInv, IInv', NEW t \in Tasks, Release(t)
    PROVE  DInv'
<1>1. /\ pc[t] = "release" /\ HasLock(t) /\ inUse[conn[t]] > 0
      /\ inUse' = Remove(inUse, conn[t])
      /\ pc' = [pc EXCEPT ![t] = "checking"]
      /\ UNCHANGED <<pool, total, open, dirty, conn, made, late, leaky>>
  BY DEF Release, StillInUse, GoTo, driver, past
<1>2. conn[t] \in Conns
  BY <1>1 DEF DInv, IInv, HeldInBlock, Holding, ListsTyped
<1>3. Listed(pool)' = Listed(pool) /\ Listed(inUse)' = Listed(inUse) \ {conn[t]}
      /\ conn[t] \in Listed(inUse)
  <2>1. inUse[conn[t]] = 1 /\ inUse \in [Conns -> Nat]
    BY <1>1, <1>2, ListedUnion DEF DInv, IInv, ListsTyped
  <2>2. Listed(Remove(inUse, conn[t])) = Listed(inUse) \ {conn[t]}
    BY <1>2, <2>1, ListedRemove
  <2> QED BY <1>1, <1>2, <2>1, <2>2 DEF Listed
<1>4. Examined = {} /\ Examined' = {conn[t]}
  BY <1>1, <1>2, ExaminedAlone, ExaminedThen DEF Places, Inside
<1> QED BY <1>1, <1>3, <1>4, MoveListed DEF Tx, Places, Inside

LEMMA ReleaseOver ==
    ASSUME DInv, IInv', NEW t \in Tasks, ReleaseUnknown(t) \/ GiveBack(t)
    PROVE  DInv'
<1>1. /\ HasLock(t) /\ pc' = [pc EXCEPT ![t] = "idle"]
      /\ pc[t] \in {"release", "checking"}
      /\ conn' = [conn EXCEPT ![t] = NoConn]
      /\ UNCHANGED <<inUse, total, open, dirty, made, late, leaky>>
  BY DEF ReleaseUnknown, GiveBack, GoTo, lists, driver, past, DInv, IInv, LockHeld,
         Locked
<1>2. conn[t] \in Conns
  BY <1>1 DEF DInv, IInv, HeldInBlock, Holding, ListsTyped
<1>3. Examined' = {}
  <2>1. "idle" \in Places /\ "idle" # "checking"
    BY DEF Places
  <2> QED BY <1>1, <2>1, ExaminedThen
<1>4. (Listed(pool) \cup Listed(inUse) \cup Examined)'
         = Listed(pool) \cup Listed(inUse) \cup Examined
  <2>1. CASE pc[t] = "release"
    <3>1. Examined = {} /\ UNCHANGED pool
      BY <1>1, <2>1, ExaminedAlone DEF ReleaseUnknown, GiveBack, lists
    <3> QED BY <1>1, <1>3, <3>1 DEF Listed
  <2>2. CASE pc[t] = "checking"
    <3>1. Examined = {conn[t]} /\ pool' = Add(pool, conn[t])
      BY <1>1, <1>2, <2>2, ExaminedAlone DEF ReleaseUnknown, GiveBack
    <3>2. Listed(Add(pool, conn[t])) = Listed(pool) \cup {conn[t]}
      BY <1>2, ListedAdd DEF DInv, IInv, ListsTyped
    <3>3. Listed(pool)' = Listed(pool) \cup {conn[t]}
      BY <3>1, <3>2 DEF Listed
    <3> QED BY <1>1, <1>3, <3>1, <3>3 DEF Listed
  <2> QED BY <1>1, <2>1, <2>2
<1>5. \A u \in Tasks \ {t} : conn'[u] = conn[u]
  BY <1>1 DEF DInv, IInv, ListsTyped
<1>6. "idle" \in Places \ (Tx \cup {"creating", "initialize"}) /\ pc[t] \notin Tx
  BY <1>1 DEF Places, Tx
<1> QED BY <1>1, <1>4, <1>5, <1>6, MoveListed

LEMMA DiscardStep ==
    ASSUME DInv, IInv', PoolAssumption, NEW t \in Tasks, Discard(t)
    PROVE  DInv'
<1> USE DEF DInv
<1>1. /\ HasLock(t) /\ pc[t] = "checking" /\ pc' = [pc EXCEPT ![t] = "idle"]
      /\ conn' = [conn EXCEPT ![t] = NoConn] /\ UNCHANGED <<pool, inUse, made, late>>
  BY DEF Discard, GoTo, IInv, LockHeld, Locked
<1>2. \/ /\ open' = open \ {conn[t]} /\ dirty' = dirty \ {conn[t]}
         /\ total' = total - 1 /\ UNCHANGED leaky
      \/ leaky' /\ UNCHANGED <<open, dirty, total>>
  BY DEF Discard, driver
<1>3. conn[t] \in Conns /\ inUse[conn[t]] = 0 /\ pool[conn[t]] = 0
  BY <1>1 DEF IInv, HeldInBlock, Holding, ListsTyped, CheckedIsUnlisted, HeldIsNotIdle
<1>4. /\ IsFiniteSet(open') /\ Cardinality(open') <= Cardinality(open)
      /\ Cardinality(open) \in Nat
      /\ open' = open \ {conn[t]} /\ conn[t] \in open
            => Cardinality(open') = Cardinality(open) - 1
  <2>1. IsFiniteSet(open) /\ Cardinality(open) \in Nat
    BY FS_CardinalityType DEF DriverTyped
  <2>2. CASE open' = open \ {conn[t]}
    BY <2>1, <2>2, FS_RemoveElement
  <2>3. CASE open' = open
    BY <2>1, <2>3
  <2> QED BY <1>2, <2>2, <2>3
<1>5. DriverTyped'
  BY <1>1, <1>2, <1>4 DEF DriverTyped
<1>6. MadeUnderLock' /\ FoundRoom' /\ MadeAll'
  BY <1>1, LockStep DEF Places
<1>7. ~leaky' => Accounted' /\ TotalIsOpen'
  <2> SUFFICES ASSUME ~leaky' PROVE Accounted' /\ TotalIsOpen'
    OBVIOUS
  <2>0. "idle" \in Places /\ "idle" # "checking"
    BY DEF Places
  <2>1. Examined = {conn[t]} /\ Examined' = {}
    <3>1. Examined = {conn[t]} \cap Conns
      BY <1>1, ExaminedAlone
    <3>2. Examined' = {}
      BY <1>1, <2>0, ExaminedThen
    <3> QED BY <1>3, <3>1, <3>2
  <2>2. conn[t] \notin Listed(pool) \cup Listed(inUse)
    BY <1>3 DEF Listed
  <2>3. open = Listed(pool) \cup Listed(inUse) \cup {conn[t]} /\ total = Cardinality(open)
    BY <1>2, <2>1 DEF Accounted, TotalIsOpen
  <2>4. open' = open \ {conn[t]} /\ total' = total - 1
    BY <1>2
  <2>5. Listed(pool)' = Listed(pool) /\ Listed(inUse)' = Listed(inUse)
    BY <1>1 DEF Listed
  <2>6. Accounted'
    BY <2>1, <2>2, <2>3, <2>4, <2>5 DEF Accounted
  <2> QED BY <1>4, <2>3, <2>4, <2>6 DEF TotalIsOpen
<1>8. ~leaky' => DirtyInBlock'
  <2>1. \A u \in Tasks \ {t} : conn'[u] = conn[u]
    BY <1>1 DEF IInv, ListsTyped
  <2>2. \A c \in dirty' : c \in dirty
    BY <1>2
  <2>3. pc[t] \notin Tx /\ (leaky => leaky')
    BY <1>1, <1>2 DEF Tx
  <2> QED BY <1>1, <2>1, <2>2, <2>3, DirtyStep
<1>9. ~leaky' /\ ~late' => Cardinality(open') <= PoolSize + MaxOverflow
  <2> SUFFICES ASSUME ~leaky, ~late PROVE Cardinality(open') <= PoolSize + MaxOverflow
    BY <1>1, <1>2
  <2>1. Cardinality(open) <= PoolSize + MaxOverflow
    OBVIOUS
  <2>2. Cardinality(open') \in Nat
    BY <1>4, FS_CardinalityType
  <2> QED BY <1>4, <2>1, <2>2 DEF PoolAssumption
<1> QED BY <1>5, <1>6, <1>7, <1>8, <1>9

(* close() takes everything that is listed, and nothing else is open.        *)
LEMMA CloseAll ==
    ASSUME DInv, IInv', PoolAssumption, NEW t \in Tasks, Close(t)
    PROVE  DInv'
<1> USE DEF DInv
<1>1. /\ pc[t] = "close" /\ HasLock(t) /\ pc' = [pc EXCEPT ![t] = "idle"]
      /\ UNCHANGED <<conn, made>>
  BY DEF Close, GoTo
<1> DEFINE all == Listed(pool) \cup Listed(inUse)
<1>2. \/ /\ open' = open \ all /\ dirty' = dirty \ all
         /\ pool' = EmptyList /\ inUse' = EmptyList /\ total' = 0
         /\ UNCHANGED leaky
      \/ /\ leaky' /\ total' = total
         /\ \E done \in SUBSET all : open' = open \ done /\ dirty' = dirty \ done
  BY DEF Close, lists
<1>3. open' \subseteq open /\ dirty' \subseteq dirty /\ (leaky => leaky')
  BY <1>2
<1>4. IsFiniteSet(open') /\ total' \in Int
  <2>1. IsFiniteSet(open')
    BY <1>3, FS_Subset DEF DriverTyped
  <2> QED BY <1>2, <2>1 DEF DriverTyped
<1>5. DriverTyped'
  BY <1>1, <1>3, <1>4 DEF DriverTyped
<1>6. "idle" \in Places
  BY DEF Places
<1>7. MadeUnderLock' /\ FoundRoom' /\ MadeAll'
  BY <1>1, <1>6, LockStep
<1>8. ~leaky' => open' = {} /\ Accounted' /\ TotalIsOpen'
  <2> SUFFICES ASSUME ~leaky' PROVE open' = {} /\ Accounted' /\ TotalIsOpen'
    OBVIOUS
  <2>1. Examined = {} /\ Examined' = {}
    <3>1. Examined = {}
      BY <1>1, ExaminedAlone
    <3>2. Examined' = {}
      BY <1>1, <1>6, ExaminedThen
    <3> QED BY <3>1, <3>2
  <2>2. open' = {}
    BY <1>2, <2>1 DEF Accounted
  <2>3. Listed(pool)' = {} /\ Listed(inUse)' = {} /\ total' = 0
    BY <1>2 DEF Listed, EmptyList
  <2> QED BY <2>1, <2>2, <2>3, FS_EmptySet DEF Accounted, TotalIsOpen
<1>9. ~leaky' => DirtyInBlock'
  <2>1. pc[t] \notin Tx
    BY <1>1 DEF Tx
  <2> QED BY <1>1, <1>3, <2>1, DirtyStep
<1>10. ~leaky' => Cardinality(open') <= PoolSize + MaxOverflow
  BY <1>8, FS_EmptySet DEF PoolAssumption
<1> QED BY <1>5, <1>7, <1>8, <1>9, <1>10

-----------------------------------------------------------------------------
(* Every action is a step of one of those kinds                              *)

LEMMA QuietSteps ==
    ASSUME DInv, IInv', PoolAssumption, NEW t \in Tasks,
           \/ \E c \in Calls : Invoke(t, c)
           \/ MakeFails(t) \/ Initialized(t) \/ AcquireNew(t) \/ CreateFails(t)
           \/ WaitOver(t) /\ Listed(pool) = {}
    PROVE  DInv'
<1> USE DEF GoTo, lists, driver, past, Places, Inside, Tx
<1>1. CASE \E c \in Calls : Invoke(t, c)
  <2>1. PICK p \in {"initialize", "close", "acquire"} :
           pc' = [pc EXCEPT ![t] = p]
    BY <1>1 DEF Invoke, Calls
  <2>2. /\ pc[t] = "idle" /\ queue' = Append(queue, t)
        /\ made' = [made EXCEPT ![t] = 0]
        /\ UNCHANGED <<pool, inUse, open, total, conn, late, leaky, dirty>>
    BY <1>1 DEF Invoke
  <2> QED BY <2>1, <2>2, QuietStep
<1>2. CASE MakeFails(t) \/ Initialized(t)
  <2>1. /\ pc' = [pc EXCEPT ![t] = "idle"] /\ pc[t] = "initialize"
        /\ queue' = Tail(queue) /\ HasLock(t)
        /\ UNCHANGED <<pool, inUse, open, total, conn, late, leaky, dirty, made>>
    BY <1>2 DEF MakeFails, Initialized
  <2> QED BY <2>1, QuietStep
<1>3. CASE AcquireNew(t)
  <2>1. PICK p \in {"creating", "sleeping"} :
           pc' = [pc EXCEPT ![t] = p] /\ (p = "creating" => RoomForMore)
    BY <1>3 DEF AcquireNew
  <2>2. /\ pc[t] = "acquire" /\ queue' = queue /\ Listed(pool) = {}
        /\ UNCHANGED <<pool, inUse, open, total, conn, late, leaky, dirty, made>>
    BY <1>3 DEF AcquireNew
  <2> QED BY <2>1, <2>2, QuietStep
<1>4. CASE CreateFails(t) \/ (WaitOver(t) /\ Listed(pool) = {})
  <2>1. /\ pc' = [pc EXCEPT ![t] = "idle"] /\ pc[t] \in {"creating", "sleeping"}
        /\ queue' = Tail(queue)
        /\ UNCHANGED <<pool, inUse, open, total, conn, late, leaky, dirty, made>>
    BY <1>4 DEF CreateFails, WaitOver
  <2>2. HasLock(t)
    BY <2>1 DEF DInv, IInv, LockHeld, Locked
  <2> QED BY <2>1, <2>2, QuietStep
<1> QED BY <1>1, <1>2, <1>3, <1>4

LEMMA BlockSteps ==
    ASSUME DInv, IInv', PoolAssumption, NEW t \in Tasks,
           \/ Query(t) \/ Begin(t) \/ Commit(t) \/ BodyFails(t)
           \/ Rollback(t) \/ Cancelled(t)
    PROVE  DInv'
<1> USE DEF GoTo, Leave, lists, driver, past
<1>1. /\ UNCHANGED <<pool, inUse, open, total, conn, late, made>>
      /\ queue' = queue \/ queue' = Append(queue, t)
      /\ leaky => leaky'
  BY DEF Query, Begin, Commit, BodyFails, Rollback, Cancelled
<1>2. PICK p \in {"release", "body", "rollback"} :
        /\ pc' = [pc EXCEPT ![t] = p]
        /\ pc[t] # "checking"
        /\ ~leaky' => \A c \in dirty' :
               \/ c = conn[t] /\ p \in Tx
               \/ c \in dirty /\ (c # conn[t] \/ pc[t] \notin Tx)
  <2>1. CASE Query(t)
    BY <2>1 DEF Query, Tx
  <2>2. CASE Begin(t)
    BY <2>2 DEF Begin, Tx
  <2>3. CASE Commit(t)
    BY <2>3 DEF Commit, Tx
  <2>4. CASE BodyFails(t)
    BY <2>4 DEF BodyFails, Tx
  <2>5. CASE Rollback(t)
    BY <2>5 DEF Rollback, Tx
  <2>6. CASE Cancelled(t)
    BY <2>6 DEF Cancelled, Tx
  <2> QED BY <2>1, <2>2, <2>3, <2>4, <2>5, <2>6
<1>3. p \in Places /\ p \notin {"checking", "creating", "initialize"}
  BY DEF Places, Inside
<1>4. ~leaky' => \A c \in dirty' :
               \/ c = conn'[t] /\ p \in Tx
               \/ c \in dirty /\ (c # conn[t] \/ pc[t] \notin Tx)
  BY <1>1, <1>2
<1>5. \/ made' = [made EXCEPT ![t] = 0]
      \/ UNCHANGED made /\ p # "initialize"
  BY <1>1, <1>3
<1>6. UNCHANGED <<pool, inUse, open, total, conn, late>>
  BY <1>1
<1> HIDE DEF Leave, GoTo
<1> QED BY <1>1, <1>2, <1>3, <1>4, <1>5, <1>6, QuietStep

LEMMA ListSteps ==
    ASSUME DInv, IInv', NEW t \in Tasks,
           AcquireIdle(t) \/ (WaitOver(t) /\ Listed(pool) # {})
    PROVE  DInv'
<1>1. HasLock(t) /\ pc[t] \in {"acquire", "sleeping"}
  BY DEF AcquireIdle, WaitOver, DInv, IInv, LockHeld, Locked
<1>2. UNCHANGED <<total, driver, made, past>>
  BY DEF AcquireIdle, WaitOver
<1>3. PICK c \in Listed(pool) : Take(t, c)
  BY DEF AcquireIdle, WaitOver
<1> QED BY <1>1, <1>2, <1>3, TakeListed

LEMMA NextDInv == ASSUME DInv, PoolAssumption, [Next]_vars PROVE DInv'
<1>1. IInv'
  BY NextIInv DEF DInv
<1>2. CASE UNCHANGED vars
  BY <1>1, <1>2 DEF vars, DInv, DriverTyped, MadeUnderLock, HasLock, FoundRoom,
     RoomForMore, Listed, Accounted, Examined, TotalIsOpen, DirtyInBlock,
     InTransaction, MadeAll
<1>3. CASE Next
  <2> PICK t \in Tasks : (\E c \in Calls : Invoke(t, c)) \/ Step(t)
    BY <1>3 DEF Next
  <2>1. CASE (\E c \in Calls : Invoke(t, c)) \/ MakeFails(t) \/ Initialized(t)
               \/ AcquireNew(t) \/ CreateFails(t)
    BY <1>1, <2>1, QuietSteps
  <2>2. CASE WaitOver(t) \/ AcquireIdle(t)
    BY <1>1, <2>2, QuietSteps, ListSteps
  <2>3. CASE Query(t) \/ Begin(t) \/ Commit(t) \/ BodyFails(t) \/ Rollback(t)
               \/ Cancelled(t)
    BY <1>1, <2>3, BlockSteps
  <2>4. CASE MakeOne(t) \/ Created(t)
    BY <1>1, <2>4, MakeOneMade, CreatedStep
  <2>5. CASE ReleaseUnknown(t) \/ Release(t) \/ GiveBack(t) \/ Discard(t)
    BY <1>1, <2>5, ReleaseMoves, ReleaseOver, DiscardStep
  <2>6. CASE Close(t)
    BY <1>1, <2>6, CloseAll
  <2> QED BY <2>1, <2>2, <2>3, <2>4, <2>5, <2>6 DEF Step
<1> QED BY <1>2, <1>3

-----------------------------------------------------------------------------
LEMMA DInvUsable == ASSUME DInv PROVE IdleIsUsable
<1> SUFFICES ASSUME ~leaky
             PROVE  /\ Listed(pool) \subseteq open \ dirty
                    /\ queue = <<>> =>
                          total = Cardinality(Listed(pool) \cup Listed(inUse))
  BY DEF IdleIsUsable
<1>1. Accounted /\ TotalIsOpen /\ DirtyInBlock
  BY DEF DInv
<1>2. ASSUME NEW c \in Listed(pool) PROVE c \in open /\ c \notin dirty
  BY <1>1 DEF Accounted, DirtyInBlock, InTransaction, Listed, DInv, IInv, HeldIsNotIdle
<1>3. ASSUME queue = <<>> PROVE Examined = {}
  BY <1>3 DEF Examined, DInv, IInv, LockHeld, Locked, HasLock
<1> QED BY <1>1, <1>2, <1>3 DEF Accounted, TotalIsOpen

(* An idle connection is open and in no transaction, and the pool's count is *)
(* right whenever nobody has its lock, unless a close or a rollback failed   *)
(* or a block was cancelled: however releases, closes and initialisations    *)
(* of any number of tasks meet.                                              *)
THEOREM IdleConnectionsAreUsable ==
    ASSUME PoolAssumption
    PROVE  Spec => []IdleIsUsable
<1>1. Init => DInv
  BY InitDInv
<1>2. DInv /\ [Next]_vars => DInv'
  BY NextDInv
<1>3. DInv => IdleIsUsable
  BY DInvUsable
<1> QED BY <1>1, <1>2, <1>3, PTL DEF Spec

LEMMA DInvWithin == ASSUME DInv PROVE WithinCapacity
  BY DEF DInv, WithinCapacity

(* The pool never has more connections open than pool_size + max_overflow,   *)
(* though it compares that with the busy ones only, unless an initialize()   *)
(* found some already there.                                                 *)
THEOREM CapacityIsKept ==
    ASSUME PoolAssumption
    PROVE  Spec => []WithinCapacity
<1>1. Init => DInv
  BY InitDInv
<1>2. DInv /\ [Next]_vars => DInv'
  BY NextDInv
<1>3. DInv => WithinCapacity
  BY DInvWithin
<1> QED BY <1>1, <1>2, <1>3, PTL DEF Spec
====
