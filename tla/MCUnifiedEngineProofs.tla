------------------------ MODULE MCUnifiedEngineProofs ------------------------
(* Theorems about UnifiedEngine, for every number of tasks and calls and     *)
(* every way the engine is set up; and about the pool it is run with: what   *)
(* ConnectionPoolProofs proves of the pool alone holds of it there.          *)
EXTENDS MCUnifiedEngine, TLAPS

-----------------------------------------------------------------------------
(* What is answered and what took effect                                     *)

(* A task inside a call has a statement to speak of.                         *)
Counted == \A t \in Tasks : pc[t] # "idle" => Sent(t) \in Statements

(* The statements of calls to come, and of calls not answered yet.           *)
Open == {s \in Statements : \/ s[2] > calls[s[1]]
                            \/ s[2] = calls[s[1]] /\ pc[s[1]] # "idle"}

(* No statement has an effect, or an answer, before its call is answered.    *)
OpenIsFresh == \A s \in Open : times[s] = 0 /\ s \notin acked \cup failed

IInv == TypeOK /\ Counted /\ OpenIsFresh /\ AtMostOnce /\ RepliesAreTrue

LEMMA TimesType ==
    ASSUME NEW s \in Statements, times \in [Statements -> Nat]
    PROVE  /\ [times EXCEPT ![s] = @ + 1] \in [Statements -> Nat]
           /\ [times EXCEPT ![s] = @ + 1][s] = times[s] + 1
           /\ \A r \in Statements : r # s => [times EXCEPT ![s] = @ + 1][r] = times[r]
  OBVIOUS

LEMMA InitIInv == Init => IInv
<1> SUFFICES ASSUME Init PROVE IInv OBVIOUS
<1> USE EngineAssumption
<1>1. TypeOK
  <2>0. setup \in Setups /\ setup.connected \in BOOLEAN
    BY DEF Init, Setup
  <2>1. bridge \in BOOLEAN /\ isConnected \in BOOLEAN
    BY <2>0, Zenon DEF Init
  <2>2. pool \in {"none", "open", "closed"}
    BY DEF Init
  <2>3. stored \subseteq Statements /\ acked \subseteq Statements
        /\ failed \subseteq Statements /\ times \in [Statements -> Nat]
    BY DEF Init
  <2>4. calls \in [Tasks -> 0 .. MaxCalls] /\ kind \in [Tasks -> AllKinds]
    BY DEF Init, AllKinds
  <2> QED BY <2>0, <2>1, <2>2, <2>3, <2>4 DEF Init, TypeOK
<1>2. Counted /\ OpenIsFresh /\ AtMostOnce /\ RepliesAreTrue
  BY DEF Init, Counted, OpenIsFresh, Open, AtMostOnce, RepliesAreTrue
<1> QED BY <1>1, <1>2 DEF IInv

(* A step that answers nothing and leaves the effects alone, of a task that  *)
(* stays in its call.                                                        *)
LEMMA SilentStep ==
    ASSUME IInv, TypeOK', NEW t \in Tasks, UNCHANGED <<times, acked, failed, lost>>,
           \A u \in Tasks \ {t} : pc'[u] = pc[u] /\ calls'[u] = calls[u],
           \/ calls' = calls /\ (pc'[t] # "idle" => pc[t] # "idle")
           \/ calls'[t] = calls[t] + 1 /\ calls[t] < MaxCalls
    PROVE  IInv'
<1> USE EngineAssumption DEF IInv
<1>1. Counted'
  <2> SUFFICES ASSUME NEW u \in Tasks, pc'[u] # "idle" PROVE (Sent(u) \in Statements)'
    BY DEF Counted
  <2>1. CASE u # t
    BY <2>1 DEF Counted, Sent, Statements
  <2>2. CASE u = t /\ calls' = calls /\ (pc'[t] # "idle" => pc[t] # "idle")
    BY <2>2 DEF Counted, Sent, Statements
  <2>3. CASE u = t /\ calls'[t] = calls[t] + 1 /\ calls[t] < MaxCalls
    BY <2>3 DEF Sent, Statements, TypeOK
  <2> QED BY <2>1, <2>2, <2>3
<1>2. Open' \subseteq Open
  <2> SUFFICES ASSUME NEW s \in Statements, s \in Open' PROVE s \in Open
    BY DEF Open
  <2>1. s[1] \in Tasks /\ s[2] \in Nat /\ calls[s[1]] \in Nat
    BY DEF Statements, TypeOK
  <2>2. CASE s[1] # t
    BY <2>1, <2>2 DEF Open
  <2>3. CASE s[1] = t
    BY <2>1, <2>3 DEF Open
  <2> QED BY <2>2, <2>3
<1>3. OpenIsFresh' /\ AtMostOnce' /\ RepliesAreTrue'
  BY <1>2 DEF OpenIsFresh, AtMostOnce, RepliesAreTrue
<1> QED BY <1>1, <1>3

(* A task that is answered: its statement leaves Open.                       *)
LEMMA AnsweredLeavesOpen ==
    ASSUME IInv, NEW t \in Tasks, pc[t] # "idle", calls' = calls,
           pc' = [pc EXCEPT ![t] = "idle"]
    PROVE  /\ Sent(t) \in Open
           /\ Open' \subseteq Open \ {Sent(t)}
           /\ Counted'
<1> USE DEF IInv
<1>1. Sent(t) \in Statements
  BY DEF Counted
<1>2. Sent(t) \in Open
  BY <1>1 DEF Open, Sent
<1>3. Open' \subseteq Open \ {Sent(t)}
  <2> SUFFICES ASSUME NEW s \in Statements, s \in Open' PROVE s \in Open \ {Sent(t)}
    BY DEF Open
  <2>1. s[1] \in Tasks /\ s = <<s[1], s[2]>> /\ calls[s[1]] \in Nat /\ s[2] \in Nat
    BY DEF Statements, TypeOK
  <2>2. CASE s[1] # t
    BY <2>1, <2>2 DEF Open, Sent, TypeOK
  <2>3. CASE s[1] = t
    BY <2>1, <2>3 DEF Open, Sent, TypeOK
  <2> QED BY <2>2, <2>3
<1>4. Counted'
  BY DEF Counted, Sent, TypeOK, Statements
<1> QED BY <1>2, <1>3, <1>4

LEMMA Answered ==
    ASSUME IInv, NEW t \in Tasks, pc[t] # "idle", calls' = calls,
           pc' = [pc EXCEPT ![t] = "idle"],
           UNCHANGED <<setup, engine, kind>>,
           \/ TakeEffect(t) /\ Succeed(t)
           \/ UNCHANGED effects /\ Fail(t)
           \/ setup.lostReplies /\ TakeEffect(t) /\ LoseReply(t)
    PROVE  IInv'
<1> USE DEF IInv
<1>1. /\ Sent(t) \in Open /\ Open' \subseteq Open \ {Sent(t)} /\ Counted'
      /\ Sent(t) \in Statements
  BY AnsweredLeavesOpen DEF Open
<1>2. times[Sent(t)] = 0 /\ Sent(t) \notin acked \cup failed
  BY <1>1 DEF OpenIsFresh
<1>3. /\ times' \in [Statements -> Nat]
      /\ times'[Sent(t)] = 1 \/ times' = times
      /\ \A s \in Statements : s # Sent(t) => times'[s] = times[s]
  BY <1>1, <1>2, TimesType DEF TakeEffect, effects, TypeOK
<1>4. TypeOK'
  BY <1>1, <1>3 DEF TypeOK, TakeEffect, effects, Succeed, Fail, LoseReply, engine
<1>5. OpenIsFresh'
  <2> SUFFICES ASSUME NEW s \in Open' PROVE times'[s] = 0 /\ s \notin acked' \cup failed'
    BY DEF OpenIsFresh
  <2>1. s \in Open /\ s # Sent(t) /\ s \in Statements
    BY <1>1 DEF Open
  <2> QED BY <2>1, <1>3 DEF OpenIsFresh, Succeed, Fail, LoseReply
<1>6. AtMostOnce'
  BY <1>2, <1>3 DEF AtMostOnce
<1>7. RepliesAreTrue'
  <2>1. acked \subseteq Statements /\ failed \subseteq Statements
    BY DEF TypeOK
  <2>2. CASE TakeEffect(t) /\ Succeed(t)
    BY <2>1, <2>2, <1>1, <1>2, <1>3, TimesType DEF RepliesAreTrue, TakeEffect, Succeed, TypeOK
  <2>3. CASE UNCHANGED effects /\ Fail(t)
    BY <2>1, <2>3, <1>1, <1>2 DEF RepliesAreTrue, effects, Fail
  <2>4. CASE setup.lostReplies /\ TakeEffect(t) /\ LoseReply(t)
    BY <2>1, <2>4, <1>1, <1>2, <1>3 DEF RepliesAreTrue, TakeEffect, LoseReply
  <2> QED BY <2>2, <2>3, <2>4
<1> QED BY <1>1, <1>4, <1>5, <1>6, <1>7

LEMMA NextIInv == IInv /\ [Next]_vars => IInv'
<1> SUFFICES ASSUME IInv, [Next]_vars PROVE IInv' OBVIOUS
<1> USE EngineAssumption
<1>t. TypeOK BY DEF IInv
<1>1. ASSUME UNCHANGED setup, NEW t \in Tasks, NEW k \in AllKinds, Invoke(t, k) PROVE IInv'
  <2>b. bridge' \in BOOLEAN
    BY <1>1, Zenon DEF Invoke, ConnectsFirst
  <2>c. /\ pc' \in [Tasks -> {"idle", "connect", "connected", "execute",
                              "reconnect", "retry", "close"}]
        /\ kind' \in [Tasks -> AllKinds] /\ calls' \in [Tasks -> 0 .. MaxCalls]
    BY <1>1, <1>t DEF Invoke, TypeOK
  <2>1. TypeOK'
    BY <1>1, <1>t, <2>b, <2>c DEF Invoke, TypeOK, effects, replies
  <2>2. calls[t] \in Nat /\ calls'[t] = calls[t] + 1 /\ calls[t] < MaxCalls
    BY <1>1, <1>t DEF Invoke, TypeOK
  <2>3. \A u \in Tasks \ {t} : pc'[u] = pc[u] /\ calls'[u] = calls[u]
    BY <1>1, <1>t DEF Invoke, TypeOK
  <2>4. UNCHANGED <<times, acked, failed, lost>>
    BY <1>1 DEF Invoke, effects, replies
  <2> QED BY <2>1, <2>2, <2>3, <2>4, SilentStep
<1>2. ASSUME UNCHANGED setup, NEW t \in Tasks, Disconnect(t) PROVE IInv'
  <2>b. isConnected' \in BOOLEAN /\ bridge' \in BOOLEAN
    BY <1>2, <1>t, Zenon DEF Disconnect, TypeOK
  <2>c. calls' \in [Tasks -> 0 .. MaxCalls]
    BY <1>2, <1>t DEF Disconnect, TypeOK
  <2>1. TypeOK'
    BY <1>2, <1>t, <2>b, <2>c DEF Disconnect, TypeOK, effects, replies
  <2>2. calls[t] \in Nat /\ calls'[t] = calls[t] + 1 /\ calls[t] < MaxCalls
    BY <1>2, <1>t DEF Disconnect, TypeOK
  <2>3. \A u \in Tasks \ {t} : pc'[u] = pc[u] /\ calls'[u] = calls[u]
    BY <1>2, <1>t DEF Disconnect, TypeOK
  <2>4. UNCHANGED <<times, acked, failed, lost>>
    BY <1>2 DEF Disconnect, effects, replies
  <2> QED BY <2>1, <2>2, <2>3, <2>4, SilentStep
<1>3. ASSUME UNCHANGED setup, NEW t \in Tasks,
             OpenPool(t) \/ SetConnected(t) \/ Close(t)
                \/ (CannotOpen(t) /\ failed' = failed)
                \/ (NotConnected(t) /\ failed' = failed)
      PROVE IInv'
  <2>1. TypeOK'
    BY <1>3, <1>t DEF OpenPool, SetConnected, Close, CannotOpen, NotConnected,
         TypeOK, engine, effects, replies, Fail
  <2>2. /\ \A u \in Tasks \ {t} : pc'[u] = pc[u] /\ calls'[u] = calls[u]
        /\ calls' = calls /\ pc[t] # "idle"
    BY <1>3, <1>t DEF OpenPool, SetConnected, Close, CannotOpen, NotConnected, TypeOK
  <2>3. UNCHANGED <<times, acked, failed, lost>>
    BY <1>3 DEF OpenPool, SetConnected, Close, CannotOpen, NotConnected,
         engine, effects, replies, Fail
  <2> QED BY <2>1, <2>2, <2>3, SilentStep
<1>4. ASSUME UNCHANGED setup, NEW t \in Tasks,
             Execute(t) \/ PoolIsClosed(t)
                \/ (CannotOpen(t) /\ failed' # failed)
                \/ (NotConnected(t) /\ failed' # failed)
      PROVE IInv'
  <2>1. /\ pc[t] # "idle" /\ calls' = calls /\ UNCHANGED <<setup, engine, kind>>
        /\ pc' = [pc EXCEPT ![t] = "idle"]
    BY <1>4 DEF Execute, PoolIsClosed, CannotOpen, NotConnected, AskDatabase, replies
  <2>2. \/ TakeEffect(t) /\ Succeed(t)
        \/ UNCHANGED effects /\ Fail(t)
        \/ setup.lostReplies /\ TakeEffect(t) /\ LoseReply(t)
    BY <1>4 DEF Execute, PoolIsClosed, CannotOpen, NotConnected, AskDatabase,
         replies, Fail
  <2> QED BY <2>1, <2>2, Answered
<1>5. CASE UNCHANGED vars
  BY <1>5 DEF vars, IInv, TypeOK, Counted, OpenIsFresh, Open, AtMostOnce, RepliesAreTrue, Sent
<1> QED BY <1>1, <1>2, <1>3, <1>4, <1>5 DEF Next, Act, Step

(* Every state of the engine has its types.                                  *)
THEOREM TypeCorrect == Spec => []TypeOK
<1>1. IInv => TypeOK BY DEF IInv
<1> QED BY <1>1, InitIInv, NextIInv, PTL DEF Spec

(* The retry of execute_query applies no statement twice, for any number of  *)
(* tasks that connect, close and query as they like, whatever fails.         *)
THEOREM StatementsAtMostOnce == Spec => []AtMostOnce
<1>1. IInv => AtMostOnce BY DEF IInv
<1> QED BY <1>1, InitIInv, NextIInv, PTL DEF Spec

(* An answer tells the truth, unless the database's own reply was lost.      *)
THEOREM TrueReplies == Spec => []RepliesAreTrue
<1>1. IInv => RepliesAreTrue BY DEF IInv
<1> QED BY <1>1, InitIInv, NextIInv, PTL DEF Spec

-----------------------------------------------------------------------------
(* Engines that nobody closes                                                *)

(* Nobody's call fails: once there is a pool there always is one, who has    *)
(* been told of it finds it, and the only calls that come without one are    *)
(* those that reconnect.                                                     *)
NobodyFails ==
    /\ failed = {} /\ pool \in {"none", "open"}
    /\ isConnected => pool = "open"
    /\ pc \in [Tasks -> {"idle", "connect", "connected", "execute",
                         "reconnect", "retry"}]
    /\ kind \in [Tasks -> {"connect", "query", "many"}]
    /\ \A t \in Tasks :
          /\ pc[t] \in {"connected", "retry"} => pool = "open"
          /\ pc[t] = "execute" => pool = "open" \/ kind[t] = "query"

LEMMA InitNobodyFails == Init => NobodyFails
  BY DEF Init, NobodyFails

LEMMA NextNobodyFails ==
    ASSUME NothingFails, NobodyFails, [Next]_vars PROVE NobodyFails'
<1>0. UNCHANGED setup
  BY DEF Next, vars
<1> USE EngineAssumption DEF NothingFails, NobodyFails
<1>1. ASSUME NEW t \in Tasks, NEW k \in AllKinds, Invoke(t, k) PROVE NobodyFails'
  <2>1. k \in {"connect", "query", "many"}
    BY <1>1 DEF Invoke, AllKinds
  <2>2. UNCHANGED <<pool, isConnected, failed>>
    BY <1>1 DEF Invoke, replies
  <2>3. PICK p \in {"connect", "execute"} :
           pc' = [pc EXCEPT ![t] = p] /\ (p = "execute" => ~ConnectsFirst(k))
    BY <1>1, <2>1 DEF Invoke
  <2>4. p = "execute" => pool = "open" \/ k = "query"
    BY <2>1, <2>3 DEF ConnectsFirst
  <2>5. kind' = [kind EXCEPT ![t] = k]
    BY <1>1 DEF Invoke
  <2> QED BY <2>1, <2>2, <2>3, <2>4, <2>5
<1>2. ASSUME NEW t \in Tasks, Disconnect(t) PROVE NobodyFails'
  BY <1>2 DEF Disconnect, replies
<1>3. ASSUME NEW t \in Tasks, OpenPool(t) \/ SetConnected(t) PROVE NobodyFails'
  BY <1>3 DEF OpenPool, SetConnected, replies
<1>4. ASSUME NEW t \in Tasks, Execute(t) PROVE NobodyFails'
  BY <1>4 DEF Execute, AskDatabase, Succeed, engine
<1>5. ASSUME NEW t \in Tasks, NotConnected(t) PROVE NobodyFails'
  BY <1>5 DEF NotConnected, Reconnects, replies, engine
<1>6. ASSUME NEW t \in Tasks, CannotOpen(t) \/ PoolIsClosed(t) \/ Close(t)
      PROVE NobodyFails'
  BY <1>6 DEF CannotOpen, PoolIsClosed, Close
<1>7. CASE UNCHANGED vars
  BY <1>7 DEF vars
<1> QED BY <1>1, <1>2, <1>3, <1>4, <1>5, <1>6, <1>7 DEF Next, Act, Step

(* Nothing failing by itself, no statement fails for want of a connection,   *)
(* for any number of tasks that find an engine nobody has connected, or one  *)
(* whose flag another task has just put down.                                *)
THEOREM NoStatementFails == Spec => []StatementsSucceed
<1> DEFINE I == NothingFails => NobodyFails
<1>1. Init => I
  BY InitNobodyFails
<1>2. I /\ [Next]_vars => I'
  <2> SUFFICES ASSUME I, [Next]_vars, NothingFails' PROVE NobodyFails'
    OBVIOUS
  <2>1. NothingFails
    BY DEF NothingFails, Next, vars
  <2> QED BY <2>1, NextNobodyFails
<1>3. I => StatementsSucceed
  BY DEF NobodyFails, StatementsSucceed
<1> HIDE DEF I
<1> QED BY <1>1, <1>2, <1>3, PTL DEF Spec

-----------------------------------------------------------------------------
(* Tasks that only send statements                                           *)

(* They never open another pool in the place of the one there is.            *)
SamePool ==
    /\ bridge /\ isConnected /\ pool = "open" /\ acked \subseteq stored
    /\ pc \in [Tasks -> {"idle", "execute"}]

LEMMA InitSamePool == ASSUME OnlyStatements, Init PROVE SamePool
  BY DEF OnlyStatements, Init, SamePool

LEMMA NextSamePool ==
    ASSUME OnlyStatements, SamePool, [Next]_vars PROVE SamePool'
<1> USE DEF OnlyStatements, SamePool
<1>1. ASSUME NEW t \in Tasks, NEW k \in AllKinds, Invoke(t, k) PROVE SamePool'
  <2>1. k \in {"query", "many"} /\ ~ConnectsFirst(k)
    BY <1>1 DEF Invoke, ConnectsFirst
  <2>2. pc' = [pc EXCEPT ![t] = "execute"]
    BY <1>1, <2>1 DEF Invoke
  <2>3. bridge' /\ UNCHANGED <<pool, isConnected, acked, stored>>
    BY <1>1 DEF Invoke, effects, replies
  <2> QED BY <2>2, <2>3
<1>2. ASSUME NEW t \in Tasks, Disconnect(t) PROVE SamePool'
  BY <1>2 DEF Disconnect
<1>3. ASSUME NEW t \in Tasks, Execute(t) PROVE SamePool'
  <2>1. \/ acked' = acked \cup {Sent(t)} /\ stored' = stored \cup {Sent(t)}
        \/ acked' = acked /\ stored' = stored \cup {Sent(t)}
        \/ acked' = acked /\ stored' = stored
    BY <1>3 DEF Execute, AskDatabase, TakeEffect, Succeed, Fail, LoseReply, effects
  <2>2. UNCHANGED engine /\ pc' = [pc EXCEPT ![t] = "idle"]
    BY <1>3 DEF Execute, AskDatabase
  <2> QED BY <2>1, <2>2 DEF engine
<1>4. ASSUME NEW t \in Tasks,
             \/ OpenPool(t) \/ SetConnected(t) \/ CannotOpen(t)
             \/ NotConnected(t) \/ PoolIsClosed(t) \/ Close(t)
      PROVE SamePool'
  BY <1>4 DEF OpenPool, SetConnected, CannotOpen, NotConnected, PoolIsClosed, Close
<1>5. CASE UNCHANGED vars
  BY <1>5 DEF vars
<1> QED BY <1>1, <1>2, <1>3, <1>4, <1>5 DEF Next, Act, Step

(* What was acknowledged to tasks that only send statements to an engine     *)
(* connected before stays, also in a database that lives as long as its      *)
(* pool: none of them replaces the pool, whatever the database refuses.      *)
THEOREM AcknowledgedIsKept == Spec => []AcknowledgedStays
<1> DEFINE I == OnlyStatements => SamePool
<1>1. Init => I
  BY InitSamePool
<1>2. I /\ [Next]_vars => I'
  <2> SUFFICES ASSUME I, [Next]_vars, OnlyStatements' PROVE SamePool'
    OBVIOUS
  <2>1. OnlyStatements
    BY DEF OnlyStatements, Next, vars
  <2> QED BY <2>1, NextSamePool
<1>3. I => AcknowledgedStays
  BY DEF SamePool, AcknowledgedStays
<1> HIDE DEF I
<1> QED BY <1>1, <1>2, <1>3, PTL DEF Spec

-----------------------------------------------------------------------------
(* The specification that is run                                             *)

(* Whatever is run beside it, the engine is the one of UnifiedEngine.        *)
LEMMA EngineSteps == ASSUME [MCNext]_mcvars PROVE [Next]_vars
  BY DEF MCNext, mcvars

(* The tasks of the run behave as UnifiedEngine says: the theorems above     *)
(* hold of the run.                                                          *)
LEMMA RunIsOfTheEngine == MCSpec => Spec
<1>1. MCInit => Init
  BY DEF MCInit
<1> QED BY <1>1, EngineSteps, PTL DEF MCSpec, Spec

(* Every step is one of the pool, or leaves it as it is.                     *)
LEMMA PoolSteps == ASSUME [MCNext]_mcvars PROVE [Pool!Next]_Pool!vars
  BY DEF MCNext, mcvars, poolVars, Pool!vars

(* A connection of a backend's pool is with one task at most, through        *)
(* releases, closes under way and new initialisations.                       *)
THEOREM PoolIsExclusive == MCSpec => []ExclusiveUse
<1>1. MCInit => Pool!IInv
  BY PoolAssumed, Pool!InitIInv DEF MCInit
<1>2. Pool!IInv /\ [MCNext]_mcvars => Pool!IInv'
  BY PoolAssumed, PoolSteps, Pool!NextIInv
<1>3. Pool!IInv => ExclusiveUse
  BY Pool!IInvExclusive DEF ExclusiveUse
<1> QED BY <1>1, <1>2, <1>3, PTL DEF MCSpec

LEMMA PoolStarts == MCInit => Pool!DInv
  BY PoolAssumed, Pool!InitDInv DEF MCInit

LEMMA PoolGoesOn == Pool!DInv /\ [MCNext]_mcvars => Pool!DInv'
  BY PoolAssumed, PoolSteps, Pool!NextDInv

(* An idle connection is open and in no transaction, and the pool's count is *)
(* right when nobody works on it, unless closing or rolling back failed.     *)
THEOREM PoolIsUsable == MCSpec => []IdleIsUsable
<1>1. Pool!DInv => IdleIsUsable
  BY Pool!DInvUsable DEF IdleIsUsable
<1> QED BY <1>1, PoolStarts, PoolGoesOn, PTL DEF MCSpec

(* No more connections are open than the pool may have, unless initialize()  *)
(* found some already there.                                                 *)
THEOREM PoolIsWithinCapacity == MCSpec => []WithinCapacity
<1>1. Pool!DInv => WithinCapacity
  BY Pool!DInvWithin DEF WithinCapacity
<1> QED BY <1>1, PoolStarts, PoolGoesOn, PTL DEF MCSpec
=============================================================================
