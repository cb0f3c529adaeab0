-------------------------- MODULE MCComponentsProofs --------------------------
(* Theorems about the components that share no state with another, for every *)
(* value of the constants of MCComponents.                                   *)
EXTENDS MCComponents, SequenceTheorems, FiniteSetTheorems, WellFoundedInduction, TLAPS

(* A sequence without its i-th element                                       *)
Removed(s, i) == SubSeq(s, 1, i - 1) \o SubSeq(s, i + 1, Len(s))

LEMMA RemovedElement ==
    ASSUME NEW S, NEW s \in Seq(S), NEW i \in 1 .. Len(s)
    PROVE  /\ Removed(s, i) \in Seq(S)
           /\ Len(Removed(s, i)) = Len(s) - 1
           /\ \A j \in 1 .. i - 1 : Removed(s, i)[j] = s[j]
           /\ \A j \in i .. Len(s) - 1 : Removed(s, i)[j] = s[j + 1]
<1> DEFINE l == SubSeq(s, 1, i - 1)
           r == SubSeq(s, i + 1, Len(s))
<1>0. /\ Len(s) \in Nat /\ i \in Nat
      /\ \A j \in 1 .. Len(s) : s[j] \in S
  BY LenProperties, ElementOfSeq
<1>1. l \in Seq(S) /\ Len(l) = i - 1 /\ \A j \in 1 .. i - 1 : l[j] = s[j]
  <2>1. \A j \in 1 .. i - 1 : s[j] \in S
    BY <1>0
  <2> QED BY <1>0, <2>1, SubSeqProperties
<1>2. /\ r \in Seq(S) /\ Len(r) = Len(s) - i
      /\ \A j \in 1 .. Len(s) - i : r[j] = s[i + j]
  <2>1. \A j \in i + 1 .. Len(s) : s[j] \in S
    BY <1>0
  <2>2. /\ r \in Seq(S)
        /\ Len(r) = IF i + 1 <= Len(s) THEN Len(s) - (i + 1) + 1 ELSE 0
        /\ \A j \in 1 .. Len(s) - (i + 1) + 1 : r[j] = s[i + 1 + j - 1]
    <3> HIDE DEF r
    <3> QED BY <1>0, <2>1, SubSeqProperties DEF r
  <2> HIDE DEF r
  <2> QED BY <1>0, <2>2
<1> HIDE DEF l, r
<1>3. /\ l \o r \in Seq(S) /\ Len(l \o r) = Len(l) + Len(r)
      /\ \A j \in 1 .. Len(l) + Len(r) :
            (l \o r)[j] = IF j <= Len(l) THEN l[j] ELSE r[j - Len(l)]
  BY <1>1, <1>2, ConcatProperties
<1>4. \A j \in 1 .. i - 1 : (l \o r)[j] = s[j]
  BY <1>0, <1>1, <1>2, <1>3
<1>5. ASSUME NEW j \in i .. Len(s) - 1 PROVE (l \o r)[j] = s[j + 1]
  <2>1. j - Len(l) \in 1 .. Len(s) - i /\ i + (j - Len(l)) = j + 1
    BY <1>0, <1>1
  <2>2. j \in 1 .. Len(l) + Len(r) /\ ~(j <= Len(l))
    BY <1>0, <1>1, <1>2
  <2> QED BY <1>2, <1>3, <2>1, <2>2
<1>6. l \o r \in Seq(S) /\ Len(l \o r) = Len(s) - 1
  BY <1>0, <1>1, <1>2, <1>3
<1> QED BY <1>4, <1>5, <1>6 DEF Removed, l, r

LEMMA AppendedElement ==
    ASSUME NEW S, NEW s \in Seq(S), NEW e \in S
    PROVE  /\ Append(s, e) \in Seq(S) /\ Len(Append(s, e)) = Len(s) + 1
           /\ \A j \in 1 .. Len(s) : Append(s, e)[j] = s[j]
           /\ Append(s, e)[Len(s) + 1] = e
           /\ {Append(s, e)[j] : j \in 1 .. Len(Append(s, e))}
                 = {s[j] : j \in 1 .. Len(s)} \cup {e}
<1>1. Len(s) \in Nat
  BY LenProperties
<1>2. /\ Append(s, e) \in Seq(S) /\ Len(Append(s, e)) = Len(s) + 1
      /\ \A j \in 1 .. Len(s) : Append(s, e)[j] = s[j]
      /\ Append(s, e)[Len(s) + 1] = e
  BY AppendProperties
<1> DEFINE a == Append(s, e)
<1> HIDE DEF a
<1>3. {a[j] : j \in 1 .. Len(a)} = {s[j] : j \in 1 .. Len(s)} \cup {e}
  BY <1>1, <1>2 DEF a
<1> QED BY <1>2, <1>3 DEF a

-----------------------------------------------------------------------------
(* The manager of several databases                                          *)

Walking(t) == walking[t] # "idle"
Underway(t) == Walking(t) /\ visited[t] > 0
Databases == Manager!Members(databases)

WalksTyped ==
    /\ databases \in Seq(Names) /\ queue \in Seq(Tasks)
    /\ walking \in [Tasks -> {"idle", "initialize", "close"}]
    /\ visited \in [Tasks -> Nat] /\ begunWith \in [Tasks -> Nat]

(* Who waits for the lock or has it is in the queue, once.                   *)
QueuedOnce ==
    /\ \A i, j \in 1 .. Len(queue) : queue[i] = queue[j] => i = j
    /\ \A i \in 1 .. Len(queue) : Walking(queue[i])
    /\ \A t \in Tasks : Walking(t) => \E i \in 1 .. Len(queue) : queue[i] = t

(* A walk under way has the lock, and what it has passed is as it leaves it, *)
(* but for what statements connect behind close().                           *)
Passed(t) ==
    \A i \in 1 .. visited[t] - 1 :
        IF walking[t] = "initialize" THEN databases[i] \in connected \cup refused
                                     ELSE databases[i] \notin connected \ woken

WalksAlone ==
    \A t \in Tasks : Underway(t) =>
        /\ queue[1] = t
        /\ visited[t] <= begunWith[t] /\ begunWith[t] <= Len(databases)
        /\ Passed(t)

PrimaryIsOne ==
    /\ primary = NoName <=> databases = <<>>
    /\ flagged \subseteq Databases

ManagerInv ==
    /\ WalksTyped /\ QueuedOnce /\ WalksAlone
    /\ connected \subseteq Databases
    /\ Manager!FlagIsTrue
    /\ PrimaryIsOne /\ Manager!PrimaryIsKnown

LEMMA ManagerStarts == MCInit => ManagerInv
<1> SUFFICES ASSUME MCInit PROVE ManagerInv
  OBVIOUS
<1> USE DEF MCInit, Manager!Init, Manager!Members
<1>1. WalksTyped /\ PrimaryIsOne
  BY DEF WalksTyped, PrimaryIsOne, Databases
<1>2. QueuedOnce /\ WalksAlone
  BY DEF QueuedOnce, WalksAlone, Walking, Underway
<1>3. Manager!FlagIsTrue /\ Manager!PrimaryIsKnown
  BY DEF Manager!FlagIsTrue, Manager!PrimaryIsKnown
<1> QED BY <1>1, <1>2, <1>3 DEF ManagerInv

(* Only the first in the queue leaves it.                                    *)
LEMMA LeaverWasFirst ==
    ASSUME WalksTyped, QueuedOnce, NEW t \in Tasks, queue # <<>>, queue[1] = t,
           Manager!Leave(t)
    PROVE  /\ queue' \in Seq(Tasks) /\ Len(queue') = Len(queue) - 1
           /\ \A j \in 1 .. Len(queue) - 1 : queue'[j] = queue[j + 1]
           /\ walking' = [walking EXCEPT ![t] = "idle"]
<1>1. PICK i \in 1 .. Len(queue) : queue[i] = t /\ queue' = Removed(queue, i)
  BY DEF Manager!Leave, Removed
<1>2. Len(queue) \in Nat /\ Len(queue) > 0
  BY DEF WalksTyped
<1>3. i = 1
  BY <1>1, <1>2 DEF QueuedOnce
<1> QED BY <1>1, <1>2, <1>3, RemovedElement DEF Manager!Leave, WalksTyped

(* Leaving keeps the order of the others, none of which walks.               *)
LEMMA LeavingKeepsTheQueue ==
    ASSUME WalksTyped, QueuedOnce, WalksAlone, NEW t \in Tasks, queue # <<>>,
           queue[1] = t, Manager!Leave(t),
           \A u \in Tasks \ {t} : visited'[u] = visited[u]
    PROVE  QueuedOnce' /\ WalksAlone'
<1>1. /\ queue' \in Seq(Tasks) /\ Len(queue') = Len(queue) - 1
      /\ \A j \in 1 .. Len(queue) - 1 : queue'[j] = queue[j + 1]
      /\ walking' = [walking EXCEPT ![t] = "idle"]
  BY LeaverWasFirst
<1>2. Len(queue) \in Nat /\ Len(queue) > 0
  BY DEF WalksTyped
<1>3. \A u \in Tasks : ~Underway(u)'
  BY <1>1 DEF WalksTyped, WalksAlone, Walking, Underway
<1>4. \A j \in 1 .. Len(queue') : j + 1 \in 1 .. Len(queue) /\ queue'[j] = queue[j + 1]
  BY <1>1, <1>2
<1>5. \A i, j \in 1 .. Len(queue') : queue'[i] = queue'[j] => i = j
  BY <1>4, <1>2, <1>1 DEF QueuedOnce
<1>6. ASSUME NEW i \in 1 .. Len(queue') PROVE walking'[queue'[i]] # "idle"
  <2>1. i + 1 \in 1 .. Len(queue) /\ 1 \in 1 .. Len(queue) /\ i + 1 # 1
    BY <1>1, <1>2
  <2>2. queue[i + 1] # t /\ walking[queue[i + 1]] # "idle"
    BY <2>1 DEF QueuedOnce, Walking
  <2>3. queue[i + 1] \in Tasks
    BY <2>1, ElementOfSeq DEF WalksTyped
  <2> QED BY <1>1, <1>4, <2>2, <2>3 DEF WalksTyped
<1>7. ASSUME NEW u \in Tasks, Walking(u)' PROVE \E i \in 1 .. Len(queue') : queue'[i] = u
  <2>1. u # t /\ Walking(u)
    BY <1>1, <1>7 DEF Walking, WalksTyped
  <2>2. PICK i \in 1 .. Len(queue) : queue[i] = u
    BY <2>1 DEF QueuedOnce
  <2>3. i - 1 \in 1 .. Len(queue') /\ queue'[i - 1] = queue[i]
    BY <1>1, <1>2, <2>1, <2>2
  <2> QED BY <2>2, <2>3
<1> QED BY <1>1, <1>3, <1>4, <1>5, <1>6, <1>7 DEF QueuedOnce, WalksAlone, Walking

LEMMA AddDatabaseStep ==
    ASSUME ManagerInv, NEW t \in Tasks, NEW n \in Names, NEW p \in BOOLEAN,
           Manager!AddDatabase(t, n, p)
    PROVE  ManagerInv'
<1> USE DEF Manager!AddDatabase, Manager!past, ManagerInv
<1>1. /\ databases' \in Seq(Names) /\ Len(databases') = Len(databases) + 1
      /\ \A i \in 1 .. Len(databases) : databases'[i] = databases[i]
      /\ Databases' = Databases \cup {n}
  <2>1. databases \in Seq(Names) /\ databases' = Append(databases, n)
    BY DEF WalksTyped
  <2> DEFINE longer == Append(databases, n)
  <2>2. /\ longer \in Seq(Names) /\ Len(longer) = Len(databases) + 1
        /\ \A i \in 1 .. Len(databases) : longer[i] = databases[i]
        /\ {longer[i] : i \in 1 .. Len(longer)}
           = {databases[i] : i \in 1 .. Len(databases)} \cup {n}
    BY ONLY <2>1, AppendedElement, n \in Names
  <2> HIDE DEF longer
  <2>3. databases' = longer
    BY ONLY <2>1 DEF longer
  <2> QED BY ONLY <2>2, <2>3 DEF Databases, Manager!Members
<1>2. Len(databases) \in Nat
  BY DEF WalksTyped
<1> databases' # <<>>
  BY <1>1, <1>2
<1>3. WalksTyped' /\ QueuedOnce'
  BY <1>1 DEF WalksTyped, QueuedOnce, Walking
<1>4. WalksAlone'
  <2> SUFFICES ASSUME NEW u \in Tasks, Underway(u)'
               PROVE  /\ queue'[1] = u /\ visited'[u] <= begunWith'[u]
                      /\ begunWith'[u] <= Len(databases') /\ Passed(u)'
    BY DEF WalksAlone
  <2>1. /\ queue[1] = u /\ visited[u] <= begunWith[u]
        /\ begunWith[u] <= Len(databases) /\ Passed(u)
        /\ visited[u] \in Nat /\ begunWith[u] \in Nat
    BY DEF WalksAlone, Underway, Walking, WalksTyped
  <2>2. Passed(u)'
    <3>1. \A i \in 1 .. visited[u] - 1 : databases'[i] = databases[i]
      BY <1>1, <1>2, <2>1
    <3> QED BY <2>1, <3>1 DEF Passed
  <2> QED BY <1>1, <1>2, <2>1, <2>2
<1>5. connected' \subseteq Databases' /\ Manager!FlagIsTrue'
  BY <1>1 DEF Manager!FlagIsTrue
<1>6. PrimaryIsOne' /\ Manager!PrimaryIsKnown'
  <2>1. primary' = (IF p \/ primary = NoName THEN n ELSE primary)
    BY DEF Manager!PrimaryAfter
  <2>2. flagged' = (IF p THEN flagged \cup {n} ELSE flagged) /\ NoName \notin Names
    BY PartsAssumption DEF Manager!ManagerAssumption
  <2>3. databases = <<>> => Databases = {}
    BY DEF Databases, Manager!Members
  <2>4. /\ flagged # {} => primary \in flagged
        /\ databases # <<>> => primary \in Databases
        /\ primary = NoName => flagged = {}
    BY <2>3 DEF PrimaryIsOne, Manager!PrimaryIsKnown, Databases
  <2>5. primary' \in Databases' /\ primary' # NoName /\ flagged' \subseteq Databases'
    BY <1>1, <2>1, <2>2, <2>4 DEF PrimaryIsOne
  <2>6. flagged' # {} => primary' \in flagged'
    BY <2>1, <2>2, <2>4
  <2> QED BY <2>5, <2>6 DEF PrimaryIsOne, Manager!PrimaryIsKnown, Databases
<1> QED BY <1>3, <1>4, <1>5, <1>6

LEMMA SwitchPrimaryStep ==
    ASSUME ManagerInv, NEW t \in Tasks, NEW n \in Names, Manager!SwitchPrimary(t, n)
    PROVE  ManagerInv'
<1> USE DEF Manager!SwitchPrimary, Manager!past, ManagerInv
<1>1. WalksTyped' /\ QueuedOnce' /\ WalksAlone'
  BY DEF WalksTyped, QueuedOnce, WalksAlone, Walking, Underway, Passed
<1>2. connected' \subseteq Databases' /\ Manager!FlagIsTrue'
  BY DEF Manager!FlagIsTrue, Databases
<1>3. NoName \notin Names
  BY PartsAssumption DEF Manager!ManagerAssumption
<1>. databases # <<>>
  BY DEF Manager!Members
<1>4. PrimaryIsOne' /\ Manager!PrimaryIsKnown'
  BY <1>3 DEF PrimaryIsOne, Manager!PrimaryIsKnown, Databases
<1> QED BY <1>1, <1>2, <1>4

(* What a statement connects, it connects before the eyes of woken.          *)
LEMMA StatementStep ==
    ASSUME ManagerInv, NEW t \in Tasks, NEW n \in Names, Manager!Statement(t, n)
    PROVE  ManagerInv'
<1> USE DEF Manager!Statement, Manager!entries, ManagerInv
<1>1. /\ n \in Databases
      /\ \/ connected' = connected \cup {n} /\ woken' = woken \cup ({n} \ connected)
         \/ UNCHANGED <<connected, woken>>
      /\ UNCHANGED <<databases, flagged, primary, initialized, queue, walking, visited,
                     begunWith, covered, refused, broken>>
  BY DEF Databases
<1>2. /\ connected \subseteq connected' /\ connected' \subseteq Databases
      /\ connected' \ woken' \subseteq connected \ woken
  BY <1>1
<1>3. WalksTyped' /\ QueuedOnce'
  BY <1>1 DEF WalksTyped, QueuedOnce, Walking
<1>4. WalksAlone'
  <2> SUFFICES ASSUME NEW u \in Tasks, Underway(u)'
               PROVE  /\ queue'[1] = u /\ visited'[u] <= begunWith'[u]
                      /\ begunWith'[u] <= Len(databases') /\ Passed(u)'
    BY DEF WalksAlone
  <2>1. /\ queue[1] = u /\ visited[u] <= begunWith[u]
        /\ begunWith[u] <= Len(databases) /\ Passed(u)
    BY <1>1 DEF WalksAlone, Underway, Walking
  <2>2. Passed(u)'
    BY <1>1, <1>2, <2>1 DEF Passed
  <2> QED BY <1>1, <2>1, <2>2
<1>5. Manager!FlagIsTrue'
  BY <1>1, <1>2 DEF Manager!FlagIsTrue
<1>6. connected' \subseteq Databases' /\ PrimaryIsOne' /\ Manager!PrimaryIsKnown'
  BY <1>1, <1>2 DEF PrimaryIsOne, Manager!PrimaryIsKnown, Databases
<1> QED BY <1>3, <1>4, <1>5, <1>6

LEMMA InvokeStep ==
    ASSUME ManagerInv, NEW t \in Tasks, NEW walk \in {"initialize", "close"},
           Manager!Invoke(t, walk)
    PROVE  ManagerInv'
<1> USE DEF Manager!Invoke, Manager!Call, Manager!entries, Manager!past, ManagerInv
<1>1. /\ queue' \in Seq(Tasks) /\ Len(queue') = Len(queue) + 1
      /\ \A j \in 1 .. Len(queue) : queue'[j] = queue[j]
      /\ queue'[Len(queue) + 1] = t
  BY AppendedElement DEF WalksTyped
<1>2. Len(queue) \in Nat /\ \A j \in 1 .. Len(queue) : queue[j] # t
  BY DEF WalksTyped, QueuedOnce, Walking
<1>3. WalksTyped'
  BY <1>1 DEF WalksTyped
<1>4. QueuedOnce'
  <2>1. \A i, j \in 1 .. Len(queue') : queue'[i] = queue'[j] => i = j
    BY <1>1, <1>2 DEF QueuedOnce
  <2>2. ASSUME NEW i \in 1 .. Len(queue') PROVE walking'[queue'[i]] # "idle"
    <3>1. CASE i = Len(queue) + 1
      BY <1>1, <3>1 DEF WalksTyped
    <3>2. CASE i \in 1 .. Len(queue)
      <4>1. queue[i] \in Tasks /\ walking[queue[i]] # "idle" /\ queue'[i] = queue[i]
        BY <1>1, <3>2, ElementOfSeq DEF WalksTyped, QueuedOnce, Walking
      <4> QED BY <1>2, <3>2, <4>1 DEF WalksTyped
    <3> QED BY <1>1, <1>2, <3>1, <3>2
  <2>3. ASSUME NEW u \in Tasks, Walking(u)'
        PROVE  \E i \in 1 .. Len(queue') : queue'[i] = u
    <3>1. CASE u = t
      BY <1>1, <1>2, <3>1
    <3>2. CASE u # t
      <4>1. Walking(u)
        BY <2>3, <3>2 DEF Walking, WalksTyped
      <4>2. PICK i \in 1 .. Len(queue) : queue[i] = u
        BY <4>1 DEF QueuedOnce
      <4> QED BY <1>1, <1>2, <4>2
    <3> QED BY <3>1, <3>2
  <2> QED BY <2>1, <2>2, <2>3 DEF QueuedOnce, Walking
<1>5. WalksAlone'
  <2> SUFFICES ASSUME NEW u \in Tasks, Underway(u)'
               PROVE  /\ queue'[1] = u /\ visited'[u] <= begunWith'[u]
                      /\ begunWith'[u] <= Len(databases') /\ Passed(u)'
    BY DEF WalksAlone
  <2>1. u # t /\ Underway(u) /\ walking'[u] = walking[u] /\ visited'[u] = visited[u]
    BY DEF Underway, Walking, WalksTyped
  <2>2. PICK i \in 1 .. Len(queue) : queue[i] = u
    BY <2>1 DEF QueuedOnce, Underway
  <2>3. 1 \in 1 .. Len(queue)
    BY <1>2, <2>2
  <2> QED BY <1>1, <2>1, <2>3 DEF WalksAlone, Passed
<1>6. queue' # <<>>
  BY <1>1, <1>2
<1>7. connected' \subseteq Databases' /\ Manager!FlagIsTrue'
  BY <1>6 DEF Manager!FlagIsTrue, Databases
<1>8. PrimaryIsOne' /\ Manager!PrimaryIsKnown'
  BY DEF PrimaryIsOne, Manager!PrimaryIsKnown, Databases
<1> QED BY <1>3, <1>4, <1>5, <1>7, <1>8

(* Whose walk is at its end leaves with the flag telling the truth.          *)
LEMMA FinishStep ==
    ASSUME ManagerInv, NEW t \in Tasks, queue # <<>>, queue[1] = t, Manager!Finish(t),
           walking[t] = "close" => connected' \subseteq woken',
           walking[t] = "initialize" => Databases \subseteq connected' \cup refused',
           walking[t] \in {"initialize", "close"}
    PROVE  Manager!FlagIsTrue' /\ Manager!Leave(t)
  BY DEF Manager!Finish, Manager!FlagIsTrue, Databases

LEMMA EngineStep ==
    ASSUME NEW walk, NEW n \in Databases, Manager!Engine(walk, n)
    PROVE  /\ connected' \subseteq connected \cup Databases
           /\ walk = "initialize" =>
                 /\ n \in connected' \cup refused'
                 /\ connected \cup refused \subseteq connected' \cup refused'
           /\ walk = "close" =>
                 /\ n \notin connected'
                 /\ connected' \ woken' \subseteq connected \ woken
  BY DEF Manager!Engine

LEMMA BeginStep ==
    ASSUME ManagerInv, NEW t \in Tasks, Manager!Begin(t)
    PROVE  ManagerInv'
<1> USE DEF Manager!Begin, Manager!entries, ManagerInv
<1>1. queue # <<>> /\ queue[1] = t /\ Len(queue) \in Nat /\ Len(databases) \in Nat
  BY DEF WalksTyped, QueuedOnce, Walking, Manager!HasLock
<1>2. CASE databases = <<>>
  <2>1. Databases = {} /\ walking[t] \in {"initialize", "close"}
    BY <1>2 DEF Databases, Manager!Members, WalksTyped
  <2>2. Manager!Finish(t) /\ UNCHANGED <<visited, begunWith>>
    BY <1>2
  <2>3. Manager!FlagIsTrue' /\ Manager!Leave(t)
    BY <1>1, <2>1, <2>2, FinishStep
  <2>4. WalksTyped'
    BY <1>1, <2>2, <2>3, LeaverWasFirst DEF WalksTyped
  <2>5. QueuedOnce' /\ WalksAlone'
    BY <1>1, <2>2, <2>3, LeavingKeepsTheQueue
  <2> QED
    BY <2>3, <2>4, <2>5 DEF PrimaryIsOne, Manager!PrimaryIsKnown, Databases
<1>3. CASE databases # <<>>
  <2>1. /\ visited' = [visited EXCEPT ![t] = 1]
        /\ begunWith' = [begunWith EXCEPT ![t] = Len(databases)]
        /\ UNCHANGED <<walking, queue, initialized, covered, broken>>
    BY <1>3
  <2>2. Len(databases) > 0
    BY <1>1, <1>3 DEF WalksTyped
  <2>3. WalksTyped' /\ QueuedOnce'
    BY <1>1, <2>1 DEF WalksTyped, QueuedOnce, Walking
  <2>4. WalksAlone'
    BY <1>1, <2>1, <2>2 DEF WalksTyped, WalksAlone, Walking, Underway, Passed
  <2> QED
    BY <2>1, <2>3, <2>4
       DEF PrimaryIsOne, Manager!PrimaryIsKnown, Manager!FlagIsTrue, Databases
<1> QED BY <1>2, <1>3

LEMMA VisitStep ==
    ASSUME ManagerInv, NEW t \in Tasks, Manager!Visit(t)
    PROVE  ManagerInv'
<1> USE DEF Manager!Visit, Manager!entries, ManagerInv
<1> DEFINE a == visited[t]
<1>1. /\ Underway(t) /\ queue[1] = t /\ a \in Nat \ {0} /\ begunWith[t] \in Nat
      /\ a <= begunWith[t] /\ begunWith[t] <= Len(databases) /\ Passed(t)
      /\ walking[t] \in {"initialize", "close"} /\ Len(databases) \in Nat
  BY DEF WalksTyped, WalksAlone, Underway, Walking
<1>2. queue # <<>>
  BY <1>1 DEF WalksTyped, QueuedOnce, Underway
<1>3. a \in 1 .. Len(databases) /\ databases[a] \in Databases
  BY <1>1 DEF Databases, Manager!Members
<1>4. Manager!Engine(walking[t], databases[a])
  OBVIOUS
<1>5. /\ connected' \subseteq Databases
      /\ walking[t] = "initialize" =>
            \A i \in 1 .. a : databases[i] \in connected' \cup refused'
      /\ walking[t] = "close" =>
            \A i \in 1 .. a : databases[i] \notin connected' \ woken'
  BY <1>1, <1>3, <1>4, EngineStep DEF Passed
<1>6. \A u \in Tasks \ {t} : ~Underway(u)
  BY <1>1 DEF WalksAlone
<1>7. connected' \subseteq Databases' /\ PrimaryIsOne' /\ Manager!PrimaryIsKnown'
  BY <1>5 DEF PrimaryIsOne, Manager!PrimaryIsKnown, Databases
<1>8. CASE Manager!Grown(t) /\ broken' = TRUE /\ Manager!Leave(t)
           /\ UNCHANGED <<initialized, visited, covered>>
  <2>1. WalksTyped'
    BY <1>1, <1>2, <1>8, LeaverWasFirst DEF WalksTyped
  <2>2. QueuedOnce' /\ WalksAlone'
    BY <1>1, <1>2, <1>8, LeavingKeepsTheQueue
  <2> QED BY <1>7, <1>8, <2>1, <2>2 DEF Manager!FlagIsTrue
<1>9. CASE ~Manager!Grown(t) /\ a = begunWith[t] /\ Manager!Finish(t)
           /\ UNCHANGED visited
  <2>1. a = Len(databases)
    BY <1>1, <1>9 DEF Manager!Grown
  <2>2. \A n \in Databases : \E i \in 1 .. a : n = databases[i]
    BY <2>1 DEF Databases, Manager!Members
  <2>3. /\ walking[t] = "close" => connected' \subseteq woken'
        /\ walking[t] = "initialize" => Databases \subseteq connected' \cup refused'
    BY <1>5, <2>2
  <2>4. Manager!FlagIsTrue' /\ Manager!Leave(t)
    BY <1>1, <1>2, <1>9, <2>3, FinishStep
  <2>5. WalksTyped'
    BY <1>1, <1>2, <1>9, <2>4, LeaverWasFirst DEF WalksTyped
  <2>6. QueuedOnce' /\ WalksAlone'
    BY <1>1, <1>2, <1>9, <2>4, LeavingKeepsTheQueue
  <2> QED BY <1>7, <2>4, <2>5, <2>6
<1>10. CASE ~Manager!Grown(t) /\ a < begunWith[t]
            /\ visited' = [visited EXCEPT ![t] = @ + 1]
            /\ UNCHANGED <<initialized, queue, walking, covered, broken>>
  <2>1. WalksTyped' /\ QueuedOnce'
    BY <1>1, <1>10 DEF WalksTyped, QueuedOnce, Walking
  <2>2. visited'[t] = a + 1 /\ Passed(t)'
    <3>1. visited'[t] = a + 1 /\ visited'[t] - 1 = a
      BY <1>1, <1>10 DEF WalksTyped
    <3>2. CASE walking[t] = "initialize"
      BY <1>5, <1>10, <3>1, <3>2 DEF Passed
    <3>3. CASE walking[t] = "close"
      BY <1>5, <1>10, <3>1, <3>3 DEF Passed
    <3> QED BY <1>1, <3>1, <3>2, <3>3
  <2>3. \A u \in Tasks \ {t} : ~Underway(u)'
    BY <1>6, <1>10 DEF Underway, Walking, WalksTyped
  <2>4. WalksAlone'
    BY <1>1, <1>10, <2>2, <2>3 DEF WalksAlone
  <2>5. Manager!FlagIsTrue'
    BY <1>2, <1>10 DEF Manager!FlagIsTrue
  <2> QED BY <1>7, <2>1, <2>4, <2>5
<1> QED BY <1>8, <1>9, <1>10

LEMMA ManagerGoesOn == ASSUME ManagerInv, [MCNext]_mcvars PROVE ManagerInv'
<1>1. CASE UNCHANGED manager
  BY <1>1
     DEF manager, ManagerInv, WalksTyped, QueuedOnce, WalksAlone, Walking, Underway,
         Passed, PrimaryIsOne, Databases, Manager!FlagIsTrue, Manager!PrimaryIsKnown
<1>2. CASE Manager!Next
  BY <1>2, AddDatabaseStep, SwitchPrimaryStep, StatementStep, InvokeStep, BeginStep,
     VisitStep
     DEF Manager!Next
<1> QED BY <1>1, <1>2 DEF MCNext, mcvars

(* Whenever no walk is under way and none has failed, the flag of the        *)
(* manager is true: up, the databases there were at initialize() are         *)
(* connected, but for those whose engine refused; down, only those are that  *)
(* a statement has connected.  And there is a primary, one of the databases  *)
(* and a flagged one if any is: whatever tasks add, switch, connect, close   *)
(* and send, in any order.                                                   *)
THEOREM ManagerIsSound == MCSpec => []ManagerSound
<1>1. ManagerInv => ManagerSound
  BY DEF ManagerInv, ManagerSound, Manager!ManagerSound
<1>2. ManagerInv /\ [MCNext]_mcvars => ManagerInv'
  BY ManagerGoesOn
<1> QED BY <1>1, <1>2, ManagerStarts, PTL DEF MCSpec

-----------------------------------------------------------------------------
(* send() of a SignalManager                                                 *)

SendTyped ==
    /\ receivers \in Seq(Receivers) /\ walked \in Seq(Receivers)
    /\ responses \in Seq(Receivers) /\ begun \in Seq(Receivers)
    /\ turn \in Nat

Called == Signal!Members(responses)
ToBeCalled == {Signal!Walk[i] : i \in turn .. Len(Signal!Walk)}
StillConnected == Signal!Members(begun) \ gone

(* Who is still connected has been called, or the walk comes to it.          *)
NobodyIsLost ==
    ~skips => StillConnected \subseteq
                 Called \cup (IF Signal!Sending THEN ToBeCalled ELSE {})

SendInv == SendTyped /\ NobodyIsLost

LEMMA TheWalk ==
    ASSUME SendTyped
    PROVE  Signal!Walk \in Seq(Receivers) /\ Len(Signal!Walk) \in Nat
  BY LenProperties DEF SendTyped, Signal!Walk

LEMMA SendStarts == MCInit => SendInv
<1> SUFFICES ASSUME MCInit PROVE SendInv
  OBVIOUS
<1> USE DEF MCInit, Signal!Init
<1>1. SendTyped
  BY DEF SendTyped
<1>2. NobodyIsLost
  BY DEF NobodyIsLost, StillConnected, Signal!Members
<1> QED BY <1>1, <1>2 DEF SendInv

LEMMA ConnectStep ==
    ASSUME SendInv, NEW r \in Receivers, Signal!Connect(r)
    PROVE  SendInv'
<1> USE DEF Signal!Connect, SendInv
<1>1. /\ receivers' \in Seq(Receivers) /\ Len(receivers') = Len(receivers) + 1
      /\ \A i \in 1 .. Len(receivers) : receivers'[i] = receivers[i]
  BY AppendedElement DEF SendTyped
<1>2. SendTyped'
  BY <1>1 DEF SendTyped
<1>3. ASSUME Signal!Sending PROVE ToBeCalled \subseteq ToBeCalled'
  <2>1. Len(receivers) \in Nat /\ turn \in Nat /\ turn > 0 /\ turn' = turn
    BY <1>3 DEF SendTyped, Signal!Sending
  <2>2. CASE ~cleared
    <3>1. Signal!Walk = receivers /\ Signal!Walk' = receivers'
      BY <2>2 DEF Signal!Walk
    <3>2. \A i \in turn .. Len(receivers) :
             i \in turn' .. Len(receivers') /\ receivers[i] = receivers'[i]
      BY <1>1, <2>1
    <3> QED BY <3>1, <3>2 DEF ToBeCalled
  <2>3. CASE cleared
    BY <2>3 DEF ToBeCalled, Signal!Walk
  <2> QED BY <2>2, <2>3
<1> QED BY <1>2, <1>3 DEF NobodyIsLost, StillConnected, Called, Signal!Sending

LEMMA DisconnectStep ==
    ASSUME SendInv, NEW r \in Receivers, Signal!Disconnect(r)
    PROVE  SendInv'
<1> USE DEF SendInv
<1>0. /\ gone' = (IF Signal!Sending THEN gone \cup {r} ELSE gone)
      /\ UNCHANGED <<cleared, walked, turn, responses, begun>>
  BY DEF Signal!Disconnect
<1>1. PICK i \in 1 .. Len(receivers) :
         /\ receivers[i] = r
         /\ receivers' = Removed(receivers, i)
         /\ ~skips' => ~skips /\ ~(Signal!Sending /\ ~cleared /\ i < turn)
  BY DEF Removed, Signal!Disconnect
<1>2. /\ receivers' \in Seq(Receivers) /\ Len(receivers') = Len(receivers) - 1
      /\ \A j \in 1 .. i - 1 : receivers'[j] = receivers[j]
      /\ \A j \in i .. Len(receivers) - 1 : receivers'[j] = receivers[j + 1]
  BY <1>1, RemovedElement DEF SendTyped
<1>. Len(receivers) \in Nat /\ turn \in Nat
  BY DEF SendTyped
<1>3. SendTyped'
  BY <1>0, <1>1, <1>2 DEF SendTyped
<1>4. ASSUME Signal!Sending, ~skips', NEW x \in StillConnected', x \notin Called
      PROVE  x \in ToBeCalled'
  <2>1. x # r /\ x \in StillConnected /\ ~skips
    BY <1>0, <1>1, <1>4 DEF StillConnected
  <2>2. PICK j \in turn .. Len(Signal!Walk) : x = Signal!Walk[j]
    BY <1>4, <2>1 DEF NobodyIsLost, ToBeCalled
  <2>3. CASE cleared
    BY <1>0, <2>2, <2>3 DEF ToBeCalled, Signal!Walk
  <2>4. CASE ~cleared
    <3>1. Signal!Walk = receivers /\ Signal!Walk' = receivers'
      BY <1>0, <2>4 DEF Signal!Walk
    <3>2. turn <= i /\ j # i /\ j \in turn .. Len(receivers) /\ turn' = turn
      <4>1. ~(i < turn)
        BY <1>1, <1>4, <2>4
      <4> QED BY <1>0, <1>1, <2>1, <2>2, <3>1, <4>1
    <3>3. turn > 0
      BY <1>4, <1>2 DEF Signal!Sending
    <3>4. CASE j < i
      <4>1. receivers'[j] = x /\ j \in turn .. Len(receivers')
        BY <1>2, <2>2, <3>1, <3>2, <3>3, <3>4
      <4> QED BY <3>1, <3>2, <4>1 DEF ToBeCalled
    <3>5. CASE j > i
      <4>1. receivers'[j - 1] = x /\ j - 1 \in turn .. Len(receivers')
        BY <1>2, <2>2, <3>1, <3>2, <3>3, <3>5
      <4> QED BY <3>1, <3>2, <4>1 DEF ToBeCalled
    <3> QED BY <1>2, <3>2, <3>4, <3>5
  <2> QED BY <2>3, <2>4
<1>5. ASSUME ~Signal!Sending, ~skips' PROVE StillConnected' \subseteq Called
  BY <1>0, <1>1, <1>5 DEF NobodyIsLost, StillConnected
<1> QED BY <1>0, <1>3, <1>4, <1>5 DEF NobodyIsLost, Called, Signal!Sending

LEMMA ClearStep ==
    ASSUME SendInv, Signal!Clear
    PROVE  SendInv'
<1> USE DEF Signal!Clear, Signal!saves, SendInv
<1>1. SendTyped'
  BY TheWalk, EmptySeq DEF SendTyped, Signal!Sending
<1>2. Signal!Sending => Signal!Walk' = Signal!Walk
  BY DEF Signal!Walk
<1> QED BY <1>1, <1>2
        DEF NobodyIsLost, StillConnected, Called, ToBeCalled, Signal!Sending

LEMMA StartSendStep ==
    ASSUME SendInv, Signal!StartSend
    PROVE  SendInv'
<1> USE DEF Signal!StartSend, Signal!saves, SendInv
<1>1. SendTyped'
  BY DEF SendTyped
<1>2. Signal!Walk' = receivers
  BY DEF Signal!Walk
<1> QED BY <1>1, <1>2
        DEF NobodyIsLost, StillConnected, ToBeCalled, Signal!Sending, Signal!Members

LEMMA CallReceiverStep ==
    ASSUME SendInv, Signal!CallReceiver
    PROVE  SendInv'
<1> USE DEF Signal!CallReceiver, Signal!saves, SendInv
<1> DEFINE r == Signal!Walk[turn]
<1>1. Signal!Walk \in Seq(Receivers) /\ Len(Signal!Walk) \in Nat /\ turn \in Nat
  BY TheWalk DEF SendTyped
<1>2. turn \in 1 .. Len(Signal!Walk) /\ r \in Receivers
  BY <1>1, ElementOfSeq DEF Signal!Sending
<1>3. responses' \in Seq(Receivers) /\ Called' = Called \cup {r}
  BY <1>2, AppendedElement DEF SendTyped, Called, Signal!Members
<1>4. SendTyped'
  BY <1>3 DEF SendTyped
<1>5. Signal!Walk' = Signal!Walk /\ Signal!Sending'
  BY <1>1 DEF Signal!Walk, Signal!Sending
<1>6. ToBeCalled \subseteq {r} \cup ToBeCalled'
  BY <1>1, <1>5 DEF ToBeCalled
<1> QED BY <1>3, <1>4, <1>5, <1>6 DEF NobodyIsLost, StillConnected

LEMMA EndSendStep ==
    ASSUME SendInv, Signal!EndSend
    PROVE  SendInv'
<1> USE DEF Signal!EndSend, Signal!saves, SendInv
<1>1. SendTyped'
  BY EmptySeq DEF SendTyped
<1>2. ToBeCalled = {}
  BY TheWalk DEF ToBeCalled, SendTyped
<1> QED BY <1>1, <1>2
        DEF NobodyIsLost, StillConnected, Called, Signal!Sending

LEMMA SendGoesOn == ASSUME SendInv, [MCNext]_mcvars PROVE SendInv'
<1>1. CASE UNCHANGED Signal!manager
  BY <1>1
     DEF Signal!manager, SendInv, SendTyped, NobodyIsLost, StillConnected, Called,
         ToBeCalled, Signal!Sending, Signal!Walk
<1>2. CASE Signal!SendNext
  BY <1>2, ConnectStep, DisconnectStep, ClearStep, StartSendStep, CallReceiverStep,
     EndSendStep DEF Signal!SendNext
<1>3. CASE Signal!SaveNext
  BY <1>1, <1>3
     DEF Signal!SaveNext, Signal!Register, Signal!Listen, Signal!ListenerRaises,
         Signal!ListenersDone, Signal!Save, Signal!Insert
<1> QED BY <1>1, <1>2, <1>3 DEF MCNext, mcvars, signals, Signal!manager

-----------------------------------------------------------------------------
(* save() and the listeners of its model                                     *)

SavePlaces == Signal!Hooks \cup {"new", "insert", "saved", "raised"}

SaveTyped ==
    /\ listeners \in [Signal!Hooks -> Seq(Receivers)]
    /\ saving \in [Tasks -> SavePlaces]
    /\ heard \in [Tasks -> [Signal!Hooks -> Seq(Receivers)]]
    /\ known \in [Tasks -> [Signal!Hooks -> Seq(Receivers)]]

(* The lists of listeners only grow, and are called from their beginning.    *)
OnlyTheBeginning ==
    \A t \in Tasks, h \in Signal!Hooks :
        /\ Signal!IsPrefixOf(heard[t][h], listeners[h])
        /\ Signal!IsPrefixOf(known[t][h], listeners[h])

InsertedAfterPreSave ==
    \A t \in Tasks :
        /\ t \in stored => saving[t] \in {"post_save", "saved", "raised"}
        /\ saving[t] = "insert" =>
              Signal!IsPrefixOf(known[t]["pre_save"], heard[t]["pre_save"])

SaveInv ==
    /\ SaveTyped /\ OnlyTheBeginning /\ InsertedAfterPreSave
    /\ Signal!ListenersFrameTheRow

LEMMA PrefixItemwise ==
    ASSUME NEW S, NEW s \in Seq(S), NEW u \in Seq(S)
    PROVE  Signal!IsPrefixOf(s, u) <=>
              /\ Len(s) <= Len(u)
              /\ \A i \in 1 .. Len(s) : s[i] = u[i]
<1>1. Len(s) \in Nat /\ Len(u) \in Nat
  BY LenProperties
<1>2. ASSUME Len(s) <= Len(u)
      PROVE  /\ SubSeq(u, 1, Len(s)) \in Seq(S)
             /\ Len(SubSeq(u, 1, Len(s))) = Len(s)
             /\ \A i \in 1 .. Len(s) : SubSeq(u, 1, Len(s))[i] = u[i]
  <2>1. \A i \in 1 .. Len(s) : u[i] \in S
    BY <1>1, <1>2, ElementOfSeq
  <2> QED BY <1>1, <2>1, SubSeqProperties
<1>3. ASSUME Signal!IsPrefixOf(s, u)
      PROVE  Len(s) <= Len(u) /\ \A i \in 1 .. Len(s) : s[i] = u[i]
  BY <1>2, <1>3 DEF Signal!IsPrefixOf
<1>4. ASSUME Len(s) <= Len(u), \A i \in 1 .. Len(s) : s[i] = u[i]
      PROVE  Signal!IsPrefixOf(s, u)
  <2>1. s = SubSeq(u, 1, Len(s))
    BY <1>2, <1>4, SeqEqual
  <2> QED BY <1>4, <2>1 DEF Signal!IsPrefixOf
<1> QED BY <1>3, <1>4

LEMMA EmptyIsPrefix ==
    ASSUME NEW S, NEW u \in Seq(S)
    PROVE  Signal!IsPrefixOf(<<>>, u)
<1>1. Len(u) \in Nat
  BY LenProperties
<1>2. <<>> \in Seq(S) /\ Len(<<>>) <= Len(u) /\ \A i \in 1 .. Len(<<>>) : <<>>[i] = u[i]
  BY <1>1, EmptySeq
<1> QED BY <1>2, PrefixItemwise

LEMMA WholeIsPrefix ==
    ASSUME NEW S, NEW u \in Seq(S)
    PROVE  Signal!IsPrefixOf(u, u)
  BY LenProperties, PrefixItemwise

LEMMA PrefixOfLonger ==
    ASSUME NEW S, NEW s \in Seq(S), NEW u \in Seq(S), NEW e \in S,
           Signal!IsPrefixOf(s, u)
    PROVE  Signal!IsPrefixOf(s, Append(u, e))
<1>1. /\ Append(u, e) \in Seq(S) /\ Len(Append(u, e)) = Len(u) + 1
      /\ \A i \in 1 .. Len(u) : Append(u, e)[i] = u[i]
  BY AppendedElement
<1>2. Len(s) \in Nat /\ Len(u) \in Nat
  BY LenProperties
<1>3. Len(s) <= Len(u) /\ \A i \in 1 .. Len(s) : s[i] = u[i]
  BY PrefixItemwise
<1> DEFINE a == Append(u, e)
<1> HIDE DEF a
<1>4. Len(s) <= Len(a) /\ \A i \in 1 .. Len(s) : s[i] = a[i]
  BY <1>1, <1>2, <1>3 DEF a
<1> QED BY <1>1, <1>4, PrefixItemwise DEF a

LEMMA PrefixGrows ==
    ASSUME NEW S, NEW s \in Seq(S), NEW u \in Seq(S), Signal!IsPrefixOf(s, u),
           Len(s) < Len(u)
    PROVE  /\ Append(s, u[Len(s) + 1]) \in Seq(S)
           /\ Signal!IsPrefixOf(Append(s, u[Len(s) + 1]), u)
<1> DEFINE e == u[Len(s) + 1]
           a == Append(s, e)
<1>1. Len(s) \in Nat /\ Len(u) \in Nat
  BY LenProperties
<1>2. e \in S
  BY <1>1, ElementOfSeq
<1>3. /\ a \in Seq(S) /\ Len(a) = Len(s) + 1
      /\ \A i \in 1 .. Len(s) : a[i] = s[i]
      /\ a[Len(s) + 1] = e
  <2> HIDE DEF e
  <2> QED BY <1>2, AppendedElement
<1> HIDE DEF a
<1>4. Len(s) <= Len(u) /\ \A i \in 1 .. Len(s) : s[i] = u[i]
  BY PrefixItemwise
<1>5. Len(a) <= Len(u) /\ \A i \in 1 .. Len(a) : a[i] = u[i]
  BY <1>1, <1>3, <1>4
<1>6. Signal!IsPrefixOf(a, u)
  BY <1>3, <1>5, PrefixItemwise
<1> QED BY <1>3, <1>6 DEF a

LEMMA PrefixOfTheSame ==
    ASSUME NEW S, NEW s \in Seq(S), NEW v \in Seq(S), NEW u \in Seq(S),
           Signal!IsPrefixOf(s, u), Signal!IsPrefixOf(v, u), Len(u) <= Len(v)
    PROVE  Signal!IsPrefixOf(s, v)
<1>1. Len(s) \in Nat /\ Len(u) \in Nat /\ Len(v) \in Nat
  BY LenProperties
<1>2. /\ Len(s) <= Len(u) /\ \A i \in 1 .. Len(s) : s[i] = u[i]
      /\ Len(v) <= Len(u) /\ \A i \in 1 .. Len(v) : v[i] = u[i]
  BY PrefixItemwise
<1>3. Len(s) <= Len(v) /\ \A i \in 1 .. Len(s) : s[i] = v[i]
  BY <1>1, <1>2
<1> QED BY <1>3, PrefixItemwise

LEMMA SaveStarts == MCInit => SaveInv
<1> SUFFICES ASSUME MCInit PROVE SaveInv
  OBVIOUS
<1> USE DEF MCInit, Signal!Init
<1>1. SaveTyped
  BY EmptySeq DEF SaveTyped, SavePlaces
<1>2. OnlyTheBeginning
  BY EmptyIsPrefix, EmptySeq DEF OnlyTheBeginning
<1>3. InsertedAfterPreSave /\ Signal!ListenersFrameTheRow
  BY DEF InsertedAfterPreSave, Signal!ListenersFrameTheRow
<1> QED BY <1>1, <1>2, <1>3 DEF SaveInv

LEMMA RegisterStep ==
    ASSUME SaveInv, NEW h \in Signal!Hooks, NEW r \in Receivers, Signal!Register(h, r)
    PROVE  SaveInv'
<1> USE DEF SaveInv
<1>1. /\ listeners' = [listeners EXCEPT ![h] = Append(@, r)]
      /\ UNCHANGED <<saving, heard, known, stored>>
  BY DEF Signal!Register
<1>2. listeners[h] \in Seq(Receivers) /\ Append(listeners[h], r) \in Seq(Receivers)
  BY AppendProperties DEF SaveTyped
<1>3. SaveTyped'
  BY <1>1, <1>2 DEF SaveTyped
<1>4. ASSUME NEW t \in Tasks, NEW k \in Signal!Hooks
      PROVE  /\ Signal!IsPrefixOf(heard[t][k], listeners'[k])
             /\ Signal!IsPrefixOf(known[t][k], listeners'[k])
  <2>1. CASE k # h
    BY <1>1, <2>1 DEF OnlyTheBeginning, SaveTyped
  <2>2. CASE k = h
    <3>1. /\ heard[t][h] \in Seq(Receivers) /\ known[t][h] \in Seq(Receivers)
          /\ listeners'[h] = Append(listeners[h], r)
      BY <1>1 DEF SaveTyped
    <3> QED BY <1>2, <2>2, <3>1, PrefixOfLonger DEF OnlyTheBeginning
  <2> QED BY <2>1, <2>2
<1> QED BY <1>1, <1>3, <1>4
        DEF OnlyTheBeginning, InsertedAfterPreSave, Signal!ListenersFrameTheRow

LEMMA ListenStep ==
    ASSUME SaveInv, NEW t \in Tasks, NEW h \in Signal!Hooks, Signal!Listen(t, h)
    PROVE  SaveInv'
<1> USE DEF SaveInv
<1> DEFINE s == heard[t][h]
           e == listeners[h][Len(s) + 1]
<1>1. /\ saving[t] = h /\ Len(listeners[h]) - Len(s) > 0
      /\ heard' = [heard EXCEPT ![t][h] = Append(s, e)]
      /\ UNCHANGED <<listeners, saving, known, stored>>
  BY DEF Signal!Listen, Signal!Rest
<1>2. /\ s \in Seq(Receivers) /\ listeners[h] \in Seq(Receivers)
      /\ Len(s) \in Nat /\ Len(listeners[h]) \in Nat
      /\ Signal!IsPrefixOf(s, listeners[h])
  BY LenProperties DEF SaveTyped, OnlyTheBeginning
<1>3. Append(s, e) \in Seq(Receivers) /\ Signal!IsPrefixOf(Append(s, e), listeners[h])
  <2> DEFINE u == listeners[h]
  <2>0. Len(u) - Len(s) > 0
    BY <1>1
  <2> HIDE DEF s, u
  <2>1. Len(s) < Len(u) /\ s \in Seq(Receivers) /\ u \in Seq(Receivers)
        /\ Signal!IsPrefixOf(s, u)
    <3>1. /\ s \in Seq(Receivers) /\ u \in Seq(Receivers)
          /\ Len(s) \in Nat /\ Len(u) \in Nat /\ Signal!IsPrefixOf(s, u)
      BY <1>2 DEF u
    <3> QED BY <2>0, <3>1
  <2>2. /\ Append(s, u[Len(s) + 1]) \in Seq(Receivers)
        /\ Signal!IsPrefixOf(Append(s, u[Len(s) + 1]), u)
    BY <2>1, PrefixGrows
  <2> QED BY <2>2 DEF u
<1> HIDE DEF s, e
<1>4. /\ heard'[t][h] = Append(s, e)
      /\ \A k \in Signal!Hooks \ {h} : heard'[t][k] = heard[t][k]
      /\ \A u \in Tasks \ {t} : heard'[u] = heard[u]
  BY <1>1 DEF SaveTyped
<1>5. SaveTyped'
  BY <1>1, <1>3 DEF SaveTyped
<1>6. OnlyTheBeginning'
  BY <1>1, <1>3, <1>4 DEF OnlyTheBeginning
<1>7. InsertedAfterPreSave'
  BY <1>1, <1>4 DEF InsertedAfterPreSave, Signal!Hooks
<1>8. Signal!ListenersFrameTheRow'
  BY <1>1, <1>4
     DEF InsertedAfterPreSave, Signal!ListenersFrameTheRow, Signal!Hooks
<1> QED BY <1>5, <1>6, <1>7, <1>8

LEMMA ListenerRaisesStep ==
    ASSUME SaveInv, NEW t \in Tasks, NEW h \in Signal!Hooks,
           Signal!ListenerRaises(t, h)
    PROVE  SaveInv'
  BY DEF SaveInv, Signal!ListenerRaises, SaveTyped, SavePlaces, OnlyTheBeginning,
         InsertedAfterPreSave, Signal!ListenersFrameTheRow, Signal!Hooks

LEMMA ListenersDoneStep ==
    ASSUME SaveInv, NEW t \in Tasks, NEW h \in Signal!Hooks,
           Signal!ListenersDone(t, h)
    PROVE  SaveInv'
<1> USE DEF SaveInv
<1>1. /\ saving[t] = h /\ Len(listeners[h]) - Len(heard[t][h]) = 0
      /\ saving' = [saving EXCEPT ![t] = IF h = "pre_save" THEN "insert" ELSE "saved"]
      /\ UNCHANGED <<listeners, heard, known, stored>>
  BY DEF Signal!ListenersDone, Signal!Rest, Signal!After
<1>2. /\ heard[t][h] \in Seq(Receivers) /\ known[t][h] \in Seq(Receivers)
      /\ listeners[h] \in Seq(Receivers)
      /\ Len(heard[t][h]) \in Nat /\ Len(listeners[h]) \in Nat
  BY LenProperties DEF SaveTyped
<1>3. Signal!IsPrefixOf(known[t][h], heard[t][h])
  BY <1>1, <1>2, PrefixOfTheSame DEF OnlyTheBeginning
<1>4. SaveTyped' /\ OnlyTheBeginning'
  BY <1>1 DEF SaveTyped, SavePlaces, OnlyTheBeginning
<1>5. InsertedAfterPreSave' /\ Signal!ListenersFrameTheRow'
  BY <1>1, <1>3
     DEF InsertedAfterPreSave, Signal!ListenersFrameTheRow, Signal!Hooks, SaveTyped
<1> QED BY <1>4, <1>5

(* Coming to a signal's listeners                                            *)
LEMMA GoToStep ==
    ASSUME SaveInv, NEW t \in Tasks, NEW h \in Signal!Hooks, Signal!GoTo(t, h),
           UNCHANGED <<listeners, heard>>
    PROVE  /\ SaveTyped' /\ OnlyTheBeginning'
           /\ \A u \in Tasks \ {t} : known'[u] = known[u] /\ saving'[u] = saving[u]
           /\ \A k \in Signal!Hooks \ {h} : known'[t][k] = known[t][k]
           /\ saving'[t] = h
<1> USE DEF SaveInv
<1>1. /\ saving' = [saving EXCEPT ![t] = h]
      /\ known' = [known EXCEPT ![t][h] = listeners[h]]
      /\ listeners[h] \in Seq(Receivers)
  BY DEF Signal!GoTo, SaveTyped
<1>2. SaveTyped'
  BY <1>1 DEF SaveTyped, SavePlaces
<1>3. /\ \A u \in Tasks \ {t} : known'[u] = known[u] /\ saving'[u] = saving[u]
      /\ \A k \in Signal!Hooks \ {h} : known'[t][k] = known[t][k]
      /\ saving'[t] = h /\ known'[t][h] = listeners[h]
  BY <1>1 DEF SaveTyped
<1>4. OnlyTheBeginning'
  BY <1>1, <1>3, WholeIsPrefix DEF OnlyTheBeginning
<1> QED BY <1>2, <1>3, <1>4

LEMMA SaveStep ==
    ASSUME SaveInv, NEW t \in Tasks, Signal!Save(t)
    PROVE  SaveInv'
<1>1. /\ saving[t] = "new" /\ Signal!GoTo(t, "pre_save")
      /\ UNCHANGED <<listeners, heard, stored>>
  BY DEF Signal!Save
<1>2. "pre_save" \in Signal!Hooks
  BY DEF Signal!Hooks
<1> QED BY <1>1, <1>2, GoToStep
        DEF SaveInv, InsertedAfterPreSave, Signal!ListenersFrameTheRow

LEMMA InsertStep ==
    ASSUME SaveInv, NEW t \in Tasks, Signal!Insert(t)
    PROVE  SaveInv'
<1> USE DEF SaveInv
<1>1. saving[t] = "insert" /\ UNCHANGED <<listeners, heard>>
  BY DEF Signal!Insert
<1>2. CASE stored' = stored \cup {t} /\ Signal!GoTo(t, "post_save")
  <2>1. {"pre_save", "post_save"} = Signal!Hooks
    BY DEF Signal!Hooks
  <2>2. /\ SaveTyped' /\ OnlyTheBeginning'
        /\ \A u \in Tasks \ {t} : known'[u] = known[u] /\ saving'[u] = saving[u]
        /\ known'[t]["pre_save"] = known[t]["pre_save"]
        /\ saving'[t] = "post_save"
    BY <1>1, <1>2, <2>1, GoToStep
  <2> QED BY <1>1, <1>2, <2>2
          DEF InsertedAfterPreSave, Signal!ListenersFrameTheRow
<1>3. CASE saving' = [saving EXCEPT ![t] = "raised"] /\ UNCHANGED <<stored, known>>
  BY <1>1, <1>3
     DEF SaveTyped, SavePlaces, OnlyTheBeginning, InsertedAfterPreSave,
         Signal!ListenersFrameTheRow
<1> QED BY <1>2, <1>3 DEF Signal!Insert

LEMMA SaveGoesOn == ASSUME SaveInv, [MCNext]_mcvars PROVE SaveInv'
<1>1. CASE UNCHANGED Signal!saves
  BY <1>1
     DEF Signal!saves, SaveInv, SaveTyped, OnlyTheBeginning, InsertedAfterPreSave,
         Signal!ListenersFrameTheRow
<1>2. CASE Signal!SaveNext
  BY <1>2, RegisterStep, ListenStep, ListenerRaisesStep, ListenersDoneStep, SaveStep,
     InsertStep DEF Signal!SaveNext
<1>3. CASE Signal!SendNext
  BY <1>1, <1>3
     DEF Signal!SendNext, Signal!Connect, Signal!Disconnect, Signal!Clear,
         Signal!StartSend, Signal!CallReceiver, Signal!EndSend
<1> QED BY <1>1, <1>2, <1>3 DEF MCNext, mcvars, signals, Signal!saves

(* A send() reaches every receiver connected throughout, unless one was      *)
(* disconnected whose turn had been, and a row is stored between the         *)
(* listeners of pre_save and those of post_save: whatever receivers and      *)
(* other tasks connect, disconnect, clear, register and raise meanwhile.     *)
THEOREM SignalsAreSound == MCSpec => []SignalsSound
<1>1. SendInv => Signal!SendReachesAll
  BY DEF SendInv, NobodyIsLost, StillConnected, Called, Signal!SendReachesAll
<1>2. SaveInv => Signal!ListenersFrameTheRow
  BY DEF SaveInv
<1>3. SendInv /\ SaveInv => SignalsSound
  BY <1>1, <1>2 DEF SignalsSound, Signal!SignalsSound
<1>4. SendInv /\ [MCNext]_mcvars => SendInv'
  BY SendGoesOn
<1>5. SaveInv /\ [MCNext]_mcvars => SaveInv'
  BY SaveGoesOn
<1> QED BY <1>3, <1>4, <1>5, SendStarts, SaveStarts, PTL DEF MCSpec

-----------------------------------------------------------------------------
(* The cache of query results                                                *)

OnceEach(s) == \A i, j \in 1 .. Len(s) : s[i] = s[j] => i = j
InOrderOfUse(s) == \A i, j \in 1 .. Len(s) : i < j => used[s[i]] < used[s[j]]

ResultsTyped ==
    /\ order \in Seq(Keys)
    /\ uses \in Nat /\ used \in [Keys -> Nat]

(* The uses were numbered up to now, and what is held has been used.         *)
UsesCounted ==
    /\ \A k \in Keys : used[k] <= uses
    /\ \A k \in Cache!Members(order) : used[k] > 0

ResultsInv == ResultsTyped /\ UsesCounted /\ Cache!LeastRecentlyUsedGoes

LEMMA ResultsLeftAlone ==
    ASSUME ResultsInv, UNCHANGED <<order, used>>, uses' \in {uses, uses + 1}
    PROVE  ResultsInv'
<1>1. ResultsTyped'
  BY DEF ResultsInv, ResultsTyped
<1>2. UsesCounted'
  <2>1. /\ \A k \in Keys : used[k] <= uses /\ used[k] \in Nat
        /\ \A k \in Cache!Members(order) : used[k] > 0
        /\ uses \in Nat
    BY DEF ResultsInv, ResultsTyped, UsesCounted
  <2>2. \A k \in Keys : used[k] <= uses'
    BY ONLY <2>1, uses' \in {uses, uses + 1}
  <2> QED BY ONLY <2>1, <2>2, UNCHANGED <<order, used>> DEF UsesCounted, Cache!Members
<1>3. Cache!LeastRecentlyUsedGoes'
  <2>1. Cache!LeastRecentlyUsedGoes
    BY DEF ResultsInv
  <2> QED BY ONLY <2>1, UNCHANGED <<order, used>>
             DEF Cache!LeastRecentlyUsedGoes, Cache!Members
<1> QED BY <1>1, <1>2, <1>3 DEF ResultsInv

(* Without a key, a sequence keeps the others in their order.                *)
LEMMA WithoutElement ==
    ASSUME NEW S, NEW s \in Seq(S), OnceEach(s), NEW k
    PROVE  LET w == Cache!Without(s, k)
           IN  /\ w \in Seq(S) /\ OnceEach(w)
               /\ Cache!Members(w) = Cache!Members(s) \ {k}
               /\ Len(w) = IF k \in Cache!Members(s) THEN Len(s) - 1 ELSE Len(s)
               /\ \A i, j \in 1 .. Len(w) : i < j =>
                     \E a, b \in 1 .. Len(s) : a < b /\ w[i] = s[a] /\ w[j] = s[b]
<1> DEFINE w == Cache!Without(s, k)
<1>1. CASE k \notin Cache!Members(s)
  <2>1. w = s
    BY <1>1 DEF Cache!Without
  <2> QED BY <1>1, <2>1
<1>2. CASE k \in Cache!Members(s)
  <2> DEFINE n == CHOOSE i \in 1 .. Len(s) : s[i] = k
  <2>1. n \in 1 .. Len(s) /\ s[n] = k
    BY <1>2 DEF Cache!Members
  <2>2. w = Removed(s, n)
    BY <1>2 DEF Cache!Without, Removed
  <2> HIDE DEF n, w
  <2>3. /\ w \in Seq(S) /\ Len(w) = Len(s) - 1
        /\ \A j \in 1 .. n - 1 : w[j] = s[j]
        /\ \A j \in n .. Len(s) - 1 : w[j] = s[j + 1]
    BY <2>1, <2>2, RemovedElement
  <2>4. Len(s) \in Nat /\ n \in Nat
    BY <2>1, LenProperties
  <2> DEFINE pos(j) == IF j < n THEN j ELSE j + 1
  <2>5. \A j \in 1 .. Len(w) : pos(j) \in 1 .. Len(s) \ {n} /\ w[j] = s[pos(j)]
    BY <2>1, <2>3, <2>4
  <2>6. \A i, j \in 1 .. Len(w) : i < j => pos(i) < pos(j)
    BY <2>3, <2>4
  <2>7. ASSUME NEW i \in 1 .. Len(s) \ {n}
        PROVE  \E j \in 1 .. Len(w) : w[j] = s[i]
    <3>1. CASE i < n
      BY <2>1, <2>3, <2>4, <3>1
    <3>2. CASE i > n
      <4>1. i - 1 \in 1 .. Len(w) /\ w[i - 1] = s[i]
        BY <2>1, <2>3, <2>4, <3>2
      <4> QED BY <4>1
    <3> QED BY <2>4, <3>1, <3>2
  <2>8. \A i \in 1 .. Len(s) : s[i] = k => i = n
    BY <2>1 DEF OnceEach
  <2>9. Cache!Members(w) = Cache!Members(s) \ {k}
    BY <2>1, <2>5, <2>7, <2>8 DEF Cache!Members
  <2>10. OnceEach(w)
    BY <2>3, <2>4, <2>5, <2>6 DEF OnceEach
  <2>11. \A i, j \in 1 .. Len(w) : i < j =>
            \E a, b \in 1 .. Len(s) : a < b /\ w[i] = s[a] /\ w[j] = s[b]
    BY <2>5, <2>6
  <2> QED BY <1>2, <2>3, <2>9, <2>10, <2>11 DEF w
<1> QED BY <1>1, <1>2

LEMMA OrderedOnce ==
    ASSUME NEW s \in Seq(Keys), used \in [Keys -> Nat], InOrderOfUse(s)
    PROVE  OnceEach(s)
<1> SUFFICES ASSUME NEW i \in 1 .. Len(s), NEW j \in 1 .. Len(s), s[i] = s[j], i # j
             PROVE  FALSE
  BY DEF OnceEach
<1>1. used[s[i]] < used[s[j]] \/ used[s[j]] < used[s[i]]
  BY LenProperties DEF InOrderOfUse
<1>2. used[s[i]] \in Nat
  BY ElementOfSeq
<1> QED BY <1>1, <1>2

(* A key that is used goes behind those that stay, if these were used last.  *)
LEMMA UsedKeyGoesLast ==
    ASSUME ResultsInv, NEW k \in Keys, Cache!Use(k),
           NEW s \in Seq(Keys), order' = Append(s, k), Len(s) < CacheSize,
           InOrderOfUse(s), k \notin Cache!Members(s),
           Cache!Members(s) \subseteq Cache!Members(order),
           \A x \in Keys \ (Cache!Members(s) \cup {k}) :
              \A held \in Cache!Members(s) : used[x] < used[held]
    PROVE  ResultsInv'
<1>1. /\ uses' = uses + 1 /\ used'[k] = uses + 1 /\ used' \in [Keys -> Nat]
      /\ \A x \in Keys \ {k} : used'[x] = used[x]
      /\ \A x \in Keys : used[x] \in Nat /\ used[x] <= uses
      /\ uses \in Nat /\ uses' \in Nat
  BY DEF ResultsInv, ResultsTyped, UsesCounted, Cache!Use
<1>2. /\ order' \in Seq(Keys) /\ Len(order') = Len(s) + 1
      /\ \A i \in 1 .. Len(s) : order'[i] = s[i]
      /\ order'[Len(s) + 1] = k
      /\ Cache!Members(order)' = Cache!Members(s) \cup {k}
  BY AppendedElement DEF Cache!Members
<1>3. Len(s) \in Nat /\ CacheSize \in Nat
      /\ \A i \in 1 .. Len(s) : s[i] \in Keys \ {k} /\ s[i] \in Cache!Members(s)
  BY LenProperties, ElementOfSeq, PartsAssumption
     DEF Cache!CachesAssumption, Cache!Members
<1>4. Cache!Members(s) \subseteq Keys \ {k}
  BY <1>3 DEF Cache!Members
<1>5. \A x \in Keys : used'[x] <= uses'
  BY <1>1
<1>6. \A x \in Cache!Members(order)' : used'[x] > 0
  BY <1>1, <1>2, <1>4 DEF ResultsInv, UsesCounted
<1>7. ASSUME NEW i \in 1 .. Len(order'), NEW j \in 1 .. Len(order'), i < j
      PROVE  used'[order'[i]] < used'[order'[j]]
  <2>1. i \in 1 .. Len(s) /\ order'[i] = s[i] /\ s[i] \in Keys \ {k}
    BY <1>2, <1>3, <1>7
  <2>2. CASE j = Len(s) + 1
    BY <1>1, <1>2, <2>1, <2>2
  <2>3. CASE j \in 1 .. Len(s)
    BY <1>1, <1>2, <1>3, <1>7, <2>1, <2>3 DEF InOrderOfUse
  <2> QED BY <1>2, <1>3, <2>2, <2>3
<1>8. ASSUME NEW x \in Keys \ Cache!Members(order)', NEW held \in Cache!Members(order)'
      PROVE  used'[x] < used'[held]
  <2>1. x \in Keys \ (Cache!Members(s) \cup {k}) /\ used'[x] = used[x]
    BY <1>1, <1>2
  <2> QED BY <1>1, <1>2, <1>4, <2>1
<1>9. Cache!LeastRecentlyUsedGoes'
  BY <1>2, <1>3, <1>7, <1>8 DEF Cache!LeastRecentlyUsedGoes
<1> QED BY <1>1, <1>2, <1>5, <1>6, <1>9
        DEF ResultsInv, ResultsTyped, UsesCounted

LEMMA ResultsFacts ==
    ASSUME ResultsInv
    PROVE  /\ order \in Seq(Keys) /\ Len(order) \in Nat /\ CacheSize \in Nat \ {0}
           /\ InOrderOfUse(order) /\ OnceEach(order)
           /\ \A i \in 1 .. Len(order) : order[i] \in Keys
           /\ Cache!Members(order) \subseteq Keys
<1>1. order \in Seq(Keys) /\ Len(order) \in Nat /\ InOrderOfUse(order)
  BY LenProperties
     DEF ResultsInv, ResultsTyped, Cache!LeastRecentlyUsedGoes, InOrderOfUse
<1>2. OnceEach(order)
  BY <1>1, OrderedOnce DEF ResultsInv, ResultsTyped
<1>3. \A i \in 1 .. Len(order) : order[i] \in Keys
  BY <1>1, ElementOfSeq
<1> QED BY <1>1, <1>2, <1>3, PartsAssumption DEF Cache!CachesAssumption, Cache!Members

LEMMA WithoutIsOrdered ==
    ASSUME ResultsInv, NEW k
    PROVE  InOrderOfUse(Cache!Without(order, k))
<1> DEFINE w == Cache!Without(order, k)
<1>1. \A i, j \in 1 .. Len(w) : i < j =>
         \E a, b \in 1 .. Len(order) : a < b /\ w[i] = order[a] /\ w[j] = order[b]
  BY ResultsFacts, WithoutElement
<1> HIDE DEF w
<1>2. InOrderOfUse(w)
  BY <1>1, ResultsFacts DEF InOrderOfUse
<1> QED BY <1>2 DEF w

(* Moving a key behind the others, or adding one while there is room         *)
LEMMA MoveToEndStep ==
    ASSUME ResultsInv, NEW k \in Keys, Cache!Use(k),
           k \in Cache!Members(order) \/ Len(order) < CacheSize,
           order' = Append(Cache!Without(order, k), k)
    PROVE  ResultsInv'
<1> DEFINE w == Cache!Without(order, k)
<1>1. /\ w \in Seq(Keys) /\ Cache!Members(w) = Cache!Members(order) \ {k}
      /\ Len(w) = IF k \in Cache!Members(order) THEN Len(order) - 1 ELSE Len(order)
  BY ResultsFacts, WithoutElement
<1>2. InOrderOfUse(w)
  BY WithoutIsOrdered
<1>3. Len(order) <= CacheSize
      /\ \A x \in Keys \ Cache!Members(order) :
            \A held \in Cache!Members(order) : used[x] < used[held]
  BY DEF ResultsInv, Cache!LeastRecentlyUsedGoes
<1> HIDE DEF w
<1>4. order' = Append(w, k)
  BY DEF w
<1>5. Len(w) < CacheSize
  BY <1>1, <1>3, ResultsFacts
<1>6. \A x \in Keys \ (Cache!Members(w) \cup {k}) :
         \A held \in Cache!Members(w) : used[x] < used[held]
  BY <1>1, <1>3
<1>7. k \notin Cache!Members(w) /\ Cache!Members(w) \subseteq Cache!Members(order)
  BY <1>1
<1> QED BY <1>1, <1>2, <1>4, <1>5, <1>6, <1>7, UsedKeyGoesLast

(* Dropping the first key for another one                                    *)
LEMMA DropFirstStep ==
    ASSUME ResultsInv, NEW k \in Keys, Cache!Use(k), k \notin Cache!Members(order),
           Len(order) >= CacheSize, order' = Append(Tail(order), k)
    PROVE  ResultsInv'
<1> DEFINE w == Tail(order)
<1>1. /\ order \in Seq(Keys) /\ Len(order) \in Nat \ {0} /\ CacheSize \in Nat \ {0}
      /\ Len(order) <= CacheSize /\ order # <<>>
  BY ResultsFacts, EmptySeq DEF ResultsInv, Cache!LeastRecentlyUsedGoes
<1>2. /\ w \in Seq(Keys) /\ Len(w) = Len(order) - 1
      /\ \A i \in 1 .. Len(w) : w[i] = order[i + 1] /\ i + 1 \in 1 .. Len(order)
  BY <1>1, HeadTailProperties
<1>3. \A i \in 1 .. Len(order) : i = 1 \/ (i - 1 \in 1 .. Len(w) /\ w[i - 1] = order[i])
  BY <1>1, <1>2
<1> HIDE DEF w
<1>4. InOrderOfUse(w)
  BY SMTT(30), <1>1, <1>2, ResultsFacts DEF InOrderOfUse
<1>5. /\ Cache!Members(w) \subseteq Cache!Members(order)
      /\ Cache!Members(order) \subseteq Cache!Members(w) \cup {order[1]}
  <2>1. \A i \in 1 .. Len(w) : w[i] \in Cache!Members(order)
    BY <1>2 DEF Cache!Members
  <2>2. \A i \in 1 .. Len(order) : order[i] \in Cache!Members(w) \cup {order[1]}
    BY <1>3 DEF Cache!Members
  <2> QED BY <2>1, <2>2 DEF Cache!Members
<1>6. \A held \in Cache!Members(w) : used[order[1]] < used[held]
  <2>1. \A i \in 1 .. Len(w) : used[order[1]] < used[order[i + 1]]
    BY <1>1, <1>2, ResultsFacts DEF InOrderOfUse
  <2> QED BY <1>2, <2>1 DEF Cache!Members
<1>7. \A x \in Keys \ (Cache!Members(w) \cup {k}) :
         \A held \in Cache!Members(w) : used[x] < used[held]
  BY <1>5, <1>6 DEF ResultsInv, Cache!LeastRecentlyUsedGoes
<1>8. order' = Append(w, k) /\ Len(w) < CacheSize /\ k \notin Cache!Members(w)
  BY <1>1, <1>2, <1>5 DEF w
<1> QED BY <1>2, <1>4, <1>5, <1>7, <1>8, UsedKeyGoesLast

LEMMA GetStep ==
    ASSUME ResultsInv, NEW k \in Keys, Cache!Get(k)
    PROVE  ResultsInv'
<1>1. CASE /\ k \in Cache!Members(order) /\ order' = Cache!MoveToEnd(k)
           /\ Cache!Use(k)
  BY <1>1, MoveToEndStep DEF Cache!MoveToEnd
<1>2. CASE /\ k \in Cache!Members(order) /\ order' = Cache!Without(order, k)
           /\ used' = [used EXCEPT ![k] = 0] /\ UNCHANGED uses
  <2> DEFINE w == Cache!Without(order, k)
  <2>1. /\ w \in Seq(Keys) /\ Cache!Members(w) = Cache!Members(order) \ {k}
        /\ Len(w) = Len(order) - 1
    BY <1>2, ResultsFacts, WithoutElement
  <2>2. InOrderOfUse(w)
    BY WithoutIsOrdered
  <2> HIDE DEF w
  <2>3. order' = w
    BY <1>2 DEF w
  <2>4. /\ used' \in [Keys -> Nat] /\ used'[k] = 0 /\ uses' = uses /\ uses \in Nat
        /\ \A x \in Keys \ {k} : used'[x] = used[x]
    BY <1>2 DEF ResultsInv, ResultsTyped
  <2>5. \A i \in 1 .. Len(w) : w[i] \in Keys \ {k}
    <3>1. \A i \in 1 .. Len(w) : w[i] \in Cache!Members(w)
      BY DEF Cache!Members
    <3> QED BY <2>1, <3>1, ResultsFacts
  <2>6. UsesCounted'
    <3>1. Cache!Members(order)' = Cache!Members(w)
      BY <2>3 DEF Cache!Members
    <3>2. /\ \A x \in Keys : used[x] \in Nat /\ used[x] <= uses
          /\ \A x \in Cache!Members(order) : x \in Keys /\ used[x] > 0
      BY ResultsFacts DEF ResultsInv, ResultsTyped, UsesCounted
    <3> QED BY <2>1, <2>4, <3>1, <3>2 DEF UsesCounted
  <2>7. /\ Len(order) \in Nat /\ CacheSize \in Nat /\ Len(order) <= CacheSize
        /\ \A x \in Keys \ Cache!Members(order) :
              \A held \in Cache!Members(order) : used[x] < used[held]
        /\ \A held \in Cache!Members(order) : used[held] > 0
    BY ResultsFacts DEF ResultsInv, UsesCounted, Cache!LeastRecentlyUsedGoes
  <2>8. \A i, j \in 1 .. Len(w) : i < j => used'[w[i]] < used'[w[j]]
    BY <2>2, <2>4, <2>5 DEF InOrderOfUse
  <2>9. \A x \in Keys \ Cache!Members(w) :
           \A held \in Cache!Members(w) : used'[x] < used'[held]
    BY <2>1, <2>4, <2>7, ResultsFacts
  <2>10. Cache!LeastRecentlyUsedGoes'
    BY <2>1, <2>3, <2>7, <2>8, <2>9 DEF Cache!LeastRecentlyUsedGoes, Cache!Members
  <2> QED BY <2>1, <2>3, <2>4, <2>6, <2>10 DEF ResultsInv, ResultsTyped
<1>3. CASE UNCHANGED <<order, uses, used>>
  BY <1>3, ResultsLeftAlone
<1> QED BY <1>1, <1>2, <1>3 DEF Cache!Get

LEMMA SetStep ==
    ASSUME ResultsInv, NEW k \in Keys, NEW ttl \in Ttls, Cache!Set(k, ttl)
    PROVE  ResultsInv'
<1>1. CASE k \notin Cache!Members(order) /\ Len(order) >= CacheSize
  BY <1>1, DropFirstStep DEF Cache!Set
<1>2. CASE k \in Cache!Members(order) \/ ~(Len(order) >= CacheSize)
  <2>1. k \in Cache!Members(order) \/ Len(order) < CacheSize
    BY <1>2, ResultsFacts
  <2>2. order' = Append(Cache!Without(order, k), k) /\ Cache!Use(k)
    BY <1>2 DEF Cache!Set
  <2> QED BY <2>1, <2>2, MoveToEndStep
<1> QED BY <1>1, <1>2

LEMMA ClearResultsStep ==
    ASSUME ResultsInv, Cache!Clear
    PROVE  ResultsInv'
<1>1. /\ order' = <<>> /\ used' = [k \in Keys |-> 0] /\ uses' = uses
      /\ uses \in Nat /\ CacheSize \in Nat
  BY ResultsFacts DEF Cache!Clear, ResultsInv, ResultsTyped
<1>2. Cache!Members(order)' = {} /\ Len(order') = 0 /\ order' \in Seq(Keys)
  BY <1>1, EmptySeq DEF Cache!Members
<1> QED BY <1>1, <1>2
        DEF ResultsInv, ResultsTyped, UsesCounted, Cache!LeastRecentlyUsedGoes

LEMMA ResultsStart == MCInit => ResultsInv
<1> SUFFICES ASSUME MCInit PROVE ResultsInv
  OBVIOUS
<1> USE DEF MCInit, Cache!Init
<1>1. ResultsTyped /\ UsesCounted
  BY EmptySeq DEF ResultsTyped, UsesCounted, Cache!Members
<1>2. Cache!LeastRecentlyUsedGoes
  BY EmptySeq, PartsAssumption
     DEF Cache!LeastRecentlyUsedGoes, Cache!Members, Cache!CachesAssumption
<1> QED BY <1>1, <1>2 DEF ResultsInv

LEMMA ResultsGoOn == ASSUME ResultsInv, [MCNext]_mcvars PROVE ResultsInv'
<1>1. CASE UNCHANGED <<order, uses, used>>
  BY <1>1, ResultsLeftAlone
<1>2. CASE Cache!Next
  <2>1. ASSUME NEW k \in Keys, Cache!GetStatement(k) \/ Cache!SetStatement(k)
        PROVE  ResultsInv'
    <3>1. UNCHANGED <<order, used>> /\ uses' = uses + 1
      BY <2>1 DEF Cache!GetStatement, Cache!SetStatement
    <3> QED BY <3>1, ResultsLeftAlone
  <2>2. ASSUME Cache!Tick \/ Cache!ClearStatements PROVE ResultsInv'
    BY <1>1, <2>2 DEF Cache!Tick, Cache!ClearStatements
  <2> QED BY <1>2, <2>1, <2>2, GetStep, SetStep, ClearResultsStep DEF Cache!Next
<1> QED BY <1>1, <1>2 DEF MCNext, mcvars, caches

-----------------------------------------------------------------------------
(* The cache of prepared statements                                          *)

LEMMA LeastNumber ==
    ASSUME NEW T \in SUBSET Nat, T # {}
    PROVE  \E x \in T : \A y \in T : x <= y
<1> DEFINE R == OpToRel(<, Nat)
<1>1. PICK x \in T : \A y \in T : ~(<<y, x>> \in R)
  BY NatLessThanWellFounded, WFMin, Zenon
<1>2. \A y \in T : ~(y < x)
  BY <1>1 DEF OpToRel
<1> QED BY <1>2

StatementsTyped ==
    /\ statements \in Seq(Keys) /\ OnceEach(statements)
    /\ count \in [Keys -> Nat]

StatementsInv == StatementsTyped /\ Cache!StatementsAreCounted

LEMMA LeastUsedIsHeld ==
    ASSUME StatementsTyped, Len(statements) > 0
    PROVE  Cache!LeastUsed \in Cache!Members(statements)
<1> DEFINE I == 1 .. Len(statements)
           c(i) == count[statements[i]]
<1>1. Len(statements) \in Nat /\ \A i \in I : c(i) \in Nat
  BY LenProperties, ElementOfSeq DEF StatementsTyped
<1>2. PICK m \in {c(i) : i \in I} : \A n \in {c(i) : i \in I} : m <= n
  <2>1. {c(i) : i \in I} \in SUBSET Nat
    BY <1>1
  <2>2. {c(i) : i \in I} # {}
    <3>1. 1 \in I
      BY <1>1
    <3> HIDE DEF I
    <3> QED BY <3>1
  <2> QED BY <2>1, <2>2, LeastNumber
<1>3. PICK i \in {j \in I : c(j) = m} : \A j \in {j \in I : c(j) = m} : i <= j
  <2>1. {j \in I : c(j) = m} \in SUBSET Nat /\ {j \in I : c(j) = m} # {}
    BY <1>1, <1>2
  <2> QED BY <2>1, LeastNumber
<1>4. i \in I /\ \A j \in I : c(i) < c(j) \/ (c(i) = c(j) /\ i <= j)
  <2>1. i \in I /\ c(i) = m /\ \A j \in I : m <= c(j)
    BY <1>2, <1>3
  <2>2. \A j \in I : c(j) = m => i <= j
    BY <1>3
  <2> HIDE DEF c, I
  <2> QED BY <1>1, <2>1, <2>2
<1> DEFINE least == CHOOSE x \in I : \A j \in I : c(x) < c(j) \/ (c(x) = c(j) /\ x <= j)
<1>5. least \in I
  BY <1>4
<1>6. Cache!LeastUsed = statements[least]
  BY DEF Cache!LeastUsed
<1> HIDE DEF least
<1> QED BY <1>5, <1>6 DEF Cache!Members

LEMMA StatementsFacts ==
    ASSUME StatementsInv
    PROVE  /\ Len(statements) \in Nat /\ CacheSize \in Nat \ {0}
           /\ Len(statements) <= CacheSize
           /\ Cache!Members(statements) \subseteq Keys
           /\ \A k \in Keys : count[k] \in Nat
           /\ \A k \in Keys : k \in Cache!Members(statements) <=> count[k] > 0
<1>1. Len(statements) \in Nat /\ \A i \in 1 .. Len(statements) : statements[i] \in Keys
  BY LenProperties, ElementOfSeq DEF StatementsInv, StatementsTyped
<1>2. Cache!Members(statements) \subseteq Keys
  BY <1>1 DEF Cache!Members
<1> QED BY <1>1, <1>2, PartsAssumption
        DEF StatementsInv, StatementsTyped, Cache!StatementsAreCounted, Cache!Counted,
            Cache!CachesAssumption

LEMMA SetStatementStep ==
    ASSUME StatementsInv, NEW k \in Keys, Cache!SetStatement(k)
    PROVE  StatementsInv'
<1> DEFINE full == Len(statements) >= CacheSize
           rest == IF full THEN Cache!Without(statements, Cache!LeastUsed) ELSE statements
<1>1. /\ statements' = (IF k \in Cache!Members(rest) THEN rest ELSE Append(rest, k))
      /\ count' = (IF full THEN Cache!CountsAfter(k) ELSE [count EXCEPT ![k] = 1])
  BY DEF Cache!SetStatement
<1>2. full => Cache!LeastUsed \in Cache!Members(statements)
  BY StatementsFacts, LeastUsedIsHeld DEF StatementsInv
<1>3. /\ rest \in Seq(Keys) /\ OnceEach(rest) /\ Len(rest) < CacheSize
      /\ Cache!Members(rest) = Cache!Members(statements)
                                  \ (IF full THEN {Cache!LeastUsed} ELSE {})
  <2>1. CASE full
    <3> DEFINE w == Cache!Without(statements, Cache!LeastUsed)
    <3>1. /\ w \in Seq(Keys) /\ OnceEach(w)
          /\ Cache!Members(w) = Cache!Members(statements) \ {Cache!LeastUsed}
          /\ Len(w) = Len(statements) - 1
      BY <1>2, <2>1, WithoutElement DEF StatementsInv, StatementsTyped
    <3> HIDE DEF w
    <3> QED BY <2>1, <3>1, StatementsFacts DEF w
  <2>2. CASE ~full
    BY <2>2, StatementsFacts DEF StatementsInv, StatementsTyped
  <2> QED BY <2>1, <2>2
<1>4. /\ count' \in [Keys -> Nat] /\ count'[k] = 1
      /\ \A x \in Keys \ {k} :
            count'[x] = IF full /\ x = Cache!LeastUsed THEN 0 ELSE count[x]
  <2>1. CASE full
    <3>1. Cache!LeastUsed \in Keys
      BY <1>2, <2>1, StatementsFacts
    <3> QED BY <1>1, <2>1, <3>1
            DEF Cache!CountsAfter, StatementsInv, StatementsTyped
  <2>2. CASE ~full
    BY <1>1, <2>2 DEF StatementsInv, StatementsTyped
  <2> QED BY <2>1, <2>2
<1> HIDE DEF rest, full
<1>5. /\ statements' \in Seq(Keys) /\ Len(statements') <= CacheSize
      /\ OnceEach(statements')
      /\ Cache!Members(statements)' = Cache!Members(rest) \cup {k}
  <2>1. Len(rest) \in Nat /\ CacheSize \in Nat
    BY <1>3, LenProperties, StatementsFacts
  <2>2. CASE k \in Cache!Members(rest)
    BY <1>1, <1>3, <2>1, <2>2 DEF Cache!Members
  <2>3. CASE k \notin Cache!Members(rest)
    <3> DEFINE s == Append(rest, k)
    <3>1. /\ s \in Seq(Keys) /\ Len(s) = Len(rest) + 1
          /\ \A i \in 1 .. Len(rest) : s[i] = rest[i]
          /\ s[Len(rest) + 1] = k
          /\ Cache!Members(s) = Cache!Members(rest) \cup {k}
      BY <1>3, AppendedElement DEF Cache!Members
    <3>2. \A i \in 1 .. Len(rest) : rest[i] # k
      BY <2>3 DEF Cache!Members
    <3> HIDE DEF s
    <3>3. OnceEach(s)
      BY <1>3, <2>1, <3>1, <3>2 DEF OnceEach
    <3>4. statements' = s
      BY <1>1, <2>3 DEF s
    <3> QED BY <1>3, <2>1, <3>1, <3>3, <3>4 DEF Cache!Members
  <2> QED BY <2>2, <2>3
<1>6. \A x \in Keys : x \in Cache!Members(statements)' <=> count'[x] > 0
  BY <1>3, <1>4, <1>5, StatementsFacts
<1>7. Cache!Members(statements)' \subseteq Keys
  BY <1>3, <1>5, StatementsFacts
<1>8. Cache!StatementsAreCounted'
  BY <1>5, <1>6, <1>7 DEF Cache!StatementsAreCounted, Cache!Counted
<1> QED BY <1>4, <1>5, <1>8 DEF StatementsInv, StatementsTyped, OnceEach

LEMMA GetStatementStep ==
    ASSUME StatementsInv, NEW k \in Keys, Cache!GetStatement(k)
    PROVE  StatementsInv'
<1>1. /\ k \in Cache!Members(statements) /\ statements' = statements
      /\ count' = [count EXCEPT ![k] = @ + 1]
  BY DEF Cache!GetStatement
<1>2. StatementsTyped'
  BY <1>1 DEF StatementsInv, StatementsTyped, OnceEach
<1>3. \A x \in Keys : count'[x] > 0 <=> count[x] > 0
  BY <1>1, StatementsFacts DEF StatementsInv, StatementsTyped
<1>4. Cache!StatementsAreCounted'
  BY <1>1, <1>3
     DEF StatementsInv, Cache!StatementsAreCounted, Cache!Counted, Cache!Members
<1> QED BY <1>2, <1>4 DEF StatementsInv

LEMMA NoStatements ==
    /\ Cache!Members(<<>>) = {} /\ Len(<<>>) = 0 /\ CacheSize \in Nat
    /\ <<>> \in Seq(Keys) /\ OnceEach(<<>>)
<1>1. Cache!Members(<<>>) = {}
  BY DEF Cache!Members
<1> QED BY <1>1, EmptySeq, PartsAssumption DEF OnceEach, Cache!CachesAssumption

LEMMA StatementsStart == MCInit => StatementsInv
<1> SUFFICES ASSUME MCInit PROVE StatementsInv
  OBVIOUS
<1>1. statements = <<>> /\ count = [k \in Keys |-> 0]
  BY DEF MCInit, Cache!Init
<1>2. Cache!Counted = {}
  BY <1>1 DEF Cache!Counted
<1> QED BY <1>1, <1>2, NoStatements
        DEF StatementsInv, StatementsTyped, Cache!StatementsAreCounted

LEMMA ClearStatementsStep ==
    ASSUME Cache!ClearStatements
    PROVE  StatementsInv'
<1>1. statements' = <<>> /\ count' = [k \in Keys |-> 0]
  BY DEF Cache!ClearStatements
<1>2. Cache!Counted' = {} /\ Cache!Members(statements)' = {}
  BY <1>1 DEF Cache!Counted, Cache!Members
<1>3. OnceEach(statements)'
  BY <1>1, NoStatements DEF OnceEach
<1> QED BY <1>1, <1>2, <1>3, NoStatements
        DEF StatementsInv, StatementsTyped, Cache!StatementsAreCounted

LEMMA StatementsGoOn == ASSUME StatementsInv, [MCNext]_mcvars PROVE StatementsInv'
<1>1. CASE UNCHANGED <<statements, count>>
  BY <1>1 DEF StatementsInv, StatementsTyped, OnceEach, Cache!StatementsAreCounted,
              Cache!Counted, Cache!Members
<1>2. CASE Cache!Next
  <2>1. ASSUME NEW k \in Keys, Cache!Get(k) \/ \E ttl \in Ttls : Cache!Set(k, ttl)
        PROVE  StatementsInv'
    BY <1>1, <2>1 DEF Cache!Get, Cache!Set
  <2>2. ASSUME Cache!Tick \/ Cache!Clear PROVE StatementsInv'
    BY <1>1, <2>2 DEF Cache!Tick, Cache!Clear
  <2> QED BY <1>2, <2>1, <2>2, GetStatementStep, SetStatementStep,
             ClearStatementsStep DEF Cache!Next
<1> QED BY <1>1, <1>2 DEF MCNext, mcvars, caches

(* The results held are always those used last, and the counts by which an   *)
(* eviction chooses a prepared statement are those of the statements held.   *)
THEOREM CachesAreSound == MCSpec => []CachesSound
<1>1. ResultsInv /\ StatementsInv => CachesSound
  BY DEF ResultsInv, StatementsInv, CachesSound, Cache!CachesSound
<1>2. ResultsInv /\ [MCNext]_mcvars => ResultsInv'
  BY ResultsGoOn
<1>3. StatementsInv /\ [MCNext]_mcvars => StatementsInv'
  BY StatementsGoOn
<1> QED BY <1>1, <1>2, <1>3, ResultsStart, StatementsStart, PTL DEF MCSpec

-----------------------------------------------------------------------------
(* The monitor and its loops                                                 *)

Starting == {"setting", "making", "starting"}
Run == {"top", "walk", "sleep"}

LoopsTyped ==
    /\ now \in Nat /\ thread \in Nat
    /\ place \in [Callers -> Starting \cup {"idle", "joining"}]
    /\ pc \in [Monitor!Loops -> Run \cup {"none", "made", "ended"}]
    /\ at \in [Monitor!Loops -> Nat] /\ size \in [Monitor!Loops -> Nat]
    /\ until \in [Monitor!Loops -> Nat]

Quiet == \A l \in Monitor!Loops : pc[l] \in {"none", "ended"}
NobodyStarts == \A c \in Callers : place[c] \notin Starting
NobodyCalls == \A c \in Callers : place[c] = "idle"

(* The threads are made one after the other, each when the last has ended.   *)
ThreadsInTurn ==
    /\ thread \in Monitor!Loops \cup {0}
    /\ \A l \in Monitor!Loops :
          /\ l < thread => pc[l] = "ended"
          /\ l = thread => pc[l] # "none"
          /\ l > thread => pc[l] = "none"

OneStarter ==
    \A c, d \in Callers : place[c] \in Starting /\ c # d => place[d] = "idle"

(* What the place of a call says of the flag and of the thread               *)
FlagOfCall(c) ==
    /\ place[c] = "setting" => ~active /\ Quiet
    /\ place[c] = "making" => active /\ Quiet
    /\ place[c] = "starting" => active /\ thread > 0 /\ pc[thread] = "made"
    /\ place[c] = "joining" => ~active

FlagOfThread ==
    /\ NobodyStarts /\ active => thread > 0 /\ pc[thread] \in Run
    /\ NobodyStarts /\ thread > 0 => pc[thread] # "made"
    /\ NobodyCalls /\ ~active => Quiet

CallsInTurn ==
    /\ ThreadsInTurn /\ OneStarter /\ FlagOfThread
    /\ \A c \in Callers : FlagOfCall(c)

LoopsInv == LoopsTyped /\ (~overlap => CallsInTurn)

AlertsTyped ==
    /\ thresholds \in Seq(Monitor!Metrics) /\ OnceEach(thresholds)
    /\ alerts \in Seq(Monitor!Alerts)
    /\ \A i \in 1 .. Len(alerts) : alerts[i].second <= now
    /\ \A l \in Monitor!Loops : pc[l] = "walk" => at[l] >= 1 /\ size[l] <= Len(thresholds)

Past(i) == alerts[i].second + Nap <= now

(* An alert is a sleep old before its metric is looked at again.             *)
AlertsApart ==
    /\ \A l \in Monitor!Loops : pc[l] = "sleep" =>
          \A i \in 1 .. Len(alerts) : alerts[i].second + Nap <= until[l]
    /\ \A l \in Monitor!Loops : pc[l] = "walk" =>
          \A i \in 1 .. Len(alerts), n \in at[l] .. size[l] :
             alerts[i].metric = thresholds[n] => Past(i)
    /\ (\A l \in Monitor!Loops : pc[l] \notin {"walk", "sleep"}) =>
          \A i \in 1 .. Len(alerts) : Past(i)

Apart ==
    \A i, j \in 1 .. Len(alerts) :
       i < j /\ alerts[i].metric = alerts[j].metric
           => alerts[j].second >= alerts[i].second + Nap

AlertsInv ==
    /\ AlertsTyped
    /\ ~overlap /\ ~grown => AlertsApart /\ Apart

LEMMA MonitorAssumed ==
    /\ MaxLoops \in Nat /\ Nap \in Nat
    /\ Monitor!Loops = 1 .. MaxLoops
  BY PartsAssumption DEF Monitor!MonitoringAssumption, Monitor!Loops

LEMMA LoopsStart == MCInit => LoopsInv
<1> SUFFICES ASSUME MCInit PROVE LoopsInv
  OBVIOUS
<1> USE DEF MCInit, Monitor!Init
<1>1. LoopsTyped
  BY DEF LoopsTyped
<1>2. CallsInTurn
  BY MonitorAssumed
     DEF CallsInTurn, ThreadsInTurn, OneStarter, FlagOfThread, FlagOfCall, Quiet,
         NobodyStarts, NobodyCalls, Starting
<1> QED BY <1>1, <1>2 DEF LoopsInv

(* One caller's place changes, and no loop's.                                *)
LEMMA PlacesAfter ==
    ASSUME LoopsTyped, NEW c \in Callers, NEW p \in Starting \cup {"idle", "joining"},
           Monitor!Move(c, p)
    PROVE  /\ place' \in [Callers -> Starting \cup {"idle", "joining"}]
           /\ place'[c] = p /\ \A d \in Callers \ {c} : place'[d] = place[d]
  BY DEF LoopsTyped, Monitor!Move

LEMMA StartStep ==
    ASSUME LoopsInv, NEW c \in Callers, Monitor!Start(c)
    PROVE  LoopsInv'
<1>1. /\ place[c] = "idle" /\ ~active /\ Monitor!Move(c, "setting")
      /\ ~overlap' => ~overlap /\ NobodyCalls
      /\ UNCHANGED <<now, active, thread, pc, at, size, until>>
  BY DEF Monitor!Start, Monitor!loops, NobodyCalls
<1>2. /\ place' \in [Callers -> Starting \cup {"idle", "joining"}]
      /\ place'[c] = "setting" /\ \A d \in Callers \ {c} : place'[d] = place[d]
  BY <1>1, PlacesAfter DEF LoopsInv, Starting
<1>3. LoopsTyped'
  BY <1>1, <1>2 DEF LoopsInv, LoopsTyped
<1>4. ASSUME ~overlap' PROVE CallsInTurn'
  <2>1. CallsInTurn /\ NobodyCalls /\ Quiet
    BY <1>1, <1>4 DEF LoopsInv, CallsInTurn, FlagOfThread
  <2>2. ThreadsInTurn' /\ OneStarter' /\ Quiet'
    BY <1>1, <1>2, <2>1
       DEF CallsInTurn, ThreadsInTurn, OneStarter, NobodyCalls, Starting, Quiet
  <2>3. \A d \in Callers : FlagOfCall(d)'
    BY <1>1, <1>2, <2>1, <2>2 DEF FlagOfCall, NobodyCalls
  <2>4. FlagOfThread'
    BY <1>2 DEF FlagOfThread, NobodyStarts, NobodyCalls, Starting
  <2> QED BY <2>2, <2>3, <2>4 DEF CallsInTurn
<1> QED BY <1>3, <1>4 DEF LoopsInv

LEMMA SetActiveStep ==
    ASSUME LoopsInv, NEW c \in Callers, Monitor!SetActive(c)
    PROVE  LoopsInv'
<1>1. /\ place[c] = "setting" /\ active' = TRUE /\ Monitor!Move(c, "making")
      /\ UNCHANGED <<now, thread, pc, at, size, until, overlap>>
  BY DEF Monitor!SetActive, Monitor!loops, Monitor!past
<1>2. /\ place' \in [Callers -> Starting \cup {"idle", "joining"}]
      /\ place'[c] = "making" /\ \A d \in Callers \ {c} : place'[d] = place[d]
  BY <1>1, PlacesAfter DEF LoopsInv, Starting
<1>3. LoopsTyped'
  BY <1>1, <1>2 DEF LoopsInv, LoopsTyped
<1>4. ASSUME ~overlap' PROVE CallsInTurn'
  <2>1. CallsInTurn /\ Quiet /\ \A d \in Callers \ {c} : place[d] = "idle"
    BY <1>1, <1>4 DEF LoopsInv, CallsInTurn, FlagOfCall, OneStarter, Starting
  <2>2. ThreadsInTurn' /\ OneStarter' /\ Quiet'
    BY <1>1, <1>2, <2>1
       DEF CallsInTurn, ThreadsInTurn, OneStarter, Starting, Quiet
  <2>3. \A d \in Callers : FlagOfCall(d)'
    BY <1>1, <1>2, <2>1, <2>2 DEF FlagOfCall
  <2>4. FlagOfThread'
    BY <1>2 DEF FlagOfThread, NobodyStarts, NobodyCalls, Starting
  <2> QED BY <2>2, <2>3, <2>4 DEF CallsInTurn
<1> QED BY <1>3, <1>4 DEF LoopsInv

LEMMA MakeThreadStep ==
    ASSUME LoopsInv, NEW c \in Callers, Monitor!MakeThread(c)
    PROVE  LoopsInv'
<1>1. PICK l \in Monitor!Loops :
         /\ pc[l] = "none" /\ \A k \in 1 .. l - 1 : pc[k] # "none"
         /\ thread' = l /\ pc' = [pc EXCEPT ![l] = "made"]
  BY DEF Monitor!MakeThread
<1>2. /\ place[c] = "making" /\ Monitor!Move(c, "starting")
      /\ UNCHANGED <<now, active, at, size, until, overlap>>
  BY DEF Monitor!MakeThread, Monitor!past
<1>3. /\ place' \in [Callers -> Starting \cup {"idle", "joining"}]
      /\ place'[c] = "starting" /\ \A d \in Callers \ {c} : place'[d] = place[d]
  BY <1>2, PlacesAfter DEF LoopsInv, Starting
<1>4. LoopsTyped'
  BY <1>1, <1>2, <1>3, MonitorAssumed DEF LoopsInv, LoopsTyped
<1>5. ASSUME ~overlap' PROVE CallsInTurn'
  <2>1. CallsInTurn /\ Quiet /\ active /\ \A d \in Callers \ {c} : place[d] = "idle"
    BY <1>2, <1>5 DEF LoopsInv, CallsInTurn, FlagOfCall, OneStarter, Starting
  <2>2. /\ pc'[l] = "made" /\ \A k \in Monitor!Loops \ {l} : pc'[k] = pc[k]
        /\ l > 0 /\ l \in Nat
    BY <1>1, MonitorAssumed DEF LoopsInv, LoopsTyped
  <2>3. \A k \in Monitor!Loops : k < l => pc[k] = "ended"
    BY <1>1, <2>1, MonitorAssumed DEF Quiet
  <2>4. \A k \in Monitor!Loops : k > l => pc[k] = "none"
    BY <1>1, <2>1, MonitorAssumed DEF CallsInTurn, ThreadsInTurn
  <2>5. ThreadsInTurn'
    BY <1>1, <2>2, <2>3, <2>4, MonitorAssumed DEF ThreadsInTurn
  <2>6. OneStarter'
    BY <1>3, <2>1 DEF OneStarter, Starting
  <2>7. \A d \in Callers : FlagOfCall(d)'
    BY <1>1, <1>2, <1>3, <2>1, <2>2 DEF FlagOfCall
  <2>8. FlagOfThread'
    BY <1>3 DEF FlagOfThread, NobodyStarts, NobodyCalls, Starting
  <2> QED BY <2>5, <2>6, <2>7, <2>8 DEF CallsInTurn
<1> QED BY <1>4, <1>5 DEF LoopsInv

LEMMA StartThreadStep ==
    ASSUME LoopsInv, NEW c \in Callers, Monitor!StartThread(c)
    PROVE  LoopsInv'
<1>1. /\ place[c] = "starting" /\ Monitor!Move(c, "idle")
      /\ pc' = (IF pc[thread] = "made" THEN [pc EXCEPT ![thread] = "top"] ELSE pc)
      /\ UNCHANGED <<now, active, thread, at, size, until, overlap>>
  BY DEF Monitor!StartThread, Monitor!past
<1>2. /\ place' \in [Callers -> Starting \cup {"idle", "joining"}]
      /\ place'[c] = "idle" /\ \A d \in Callers \ {c} : place'[d] = place[d]
  BY <1>1, PlacesAfter DEF LoopsInv, Starting
<1>3. LoopsTyped'
  BY <1>1, <1>2 DEF LoopsInv, LoopsTyped, Run
<1>4. ASSUME ~overlap' PROVE CallsInTurn'
  <2>1. /\ CallsInTurn /\ active /\ thread > 0 /\ pc[thread] = "made"
        /\ \A d \in Callers \ {c} : place[d] = "idle"
    BY <1>1, <1>4 DEF LoopsInv, CallsInTurn, FlagOfCall, OneStarter, Starting
  <2>2. /\ thread \in Monitor!Loops /\ pc'[thread] = "top" /\ thread' = thread
        /\ \A k \in Monitor!Loops \ {thread} : pc'[k] = pc[k]
    BY <1>1, <2>1 DEF LoopsInv, LoopsTyped, CallsInTurn, ThreadsInTurn
  <2>3. ThreadsInTurn'
    BY <2>1, <2>2, MonitorAssumed DEF CallsInTurn, ThreadsInTurn
  <2>4. OneStarter' /\ \A d \in Callers : FlagOfCall(d)'
    BY <1>2, <2>1 DEF OneStarter, Starting, FlagOfCall
  <2>5. FlagOfThread'
    BY <1>1, <2>1, <2>2 DEF FlagOfThread, Run
  <2> QED BY <2>3, <2>4, <2>5 DEF CallsInTurn
<1> QED BY <1>3, <1>4 DEF LoopsInv

LEMMA StopStep ==
    ASSUME LoopsInv, NEW c \in Callers, Monitor!Stop(c)
    PROVE  LoopsInv'
<1>1. /\ place[c] = "idle" /\ active' = FALSE /\ Monitor!Move(c, "joining")
      /\ ~overlap' => ~overlap /\ \A d \in Callers : place[d] \in {"idle", "joining"}
      /\ UNCHANGED <<now, thread, pc, at, size, until>>
  BY DEF Monitor!Stop, Monitor!loops
<1>2. /\ place' \in [Callers -> Starting \cup {"idle", "joining"}]
      /\ place'[c] = "joining" /\ \A d \in Callers \ {c} : place'[d] = place[d]
  BY <1>1, PlacesAfter DEF LoopsInv, Starting
<1>3. LoopsTyped'
  BY <1>1, <1>2 DEF LoopsInv, LoopsTyped
<1>4. ASSUME ~overlap' PROVE CallsInTurn'
  <2>1. CallsInTurn /\ \A d \in Callers : place[d] \in {"idle", "joining"}
    BY <1>1, <1>4 DEF LoopsInv
  <2>2. ThreadsInTurn' /\ OneStarter' /\ \A d \in Callers : FlagOfCall(d)'
    BY <1>1, <1>2, <2>1
       DEF CallsInTurn, ThreadsInTurn, OneStarter, Starting, FlagOfCall
  <2>3. NobodyStarts
    BY <2>1 DEF NobodyStarts, Starting
  <2>4. FlagOfThread'
    BY <1>1, <1>2, <2>1, <2>3 DEF CallsInTurn, FlagOfThread, NobodyCalls
  <2> QED BY <2>2, <2>4 DEF CallsInTurn
<1> QED BY <1>3, <1>4 DEF LoopsInv

LEMMA JoinStep ==
    ASSUME LoopsInv, NEW c \in Callers, Monitor!Join(c)
    PROVE  LoopsInv'
<1>1. /\ place[c] = "joining" /\ Monitor!Move(c, "idle")
      /\ thread # 0 => pc[thread] \in {"made", "ended"}
      /\ UNCHANGED <<now, active, thread, pc, at, size, until, overlap>>
  BY DEF Monitor!Join, Monitor!loops, Monitor!past
<1>2. /\ place' \in [Callers -> Starting \cup {"idle", "joining"}]
      /\ place'[c] = "idle" /\ \A d \in Callers \ {c} : place'[d] = place[d]
  BY <1>1, PlacesAfter DEF LoopsInv, Starting
<1>3. LoopsTyped'
  BY <1>1, <1>2 DEF LoopsInv, LoopsTyped
<1>4. ASSUME ~overlap' PROVE CallsInTurn'
  <2>1. CallsInTurn /\ ~active /\ NobodyStarts
    BY <1>1, <1>4
       DEF LoopsInv, CallsInTurn, FlagOfCall, OneStarter, NobodyStarts, Starting
  <2>2. Quiet
    BY <1>1, <2>1, MonitorAssumed DEF CallsInTurn, ThreadsInTurn, FlagOfThread, Quiet
  <2>3. ThreadsInTurn' /\ OneStarter' /\ Quiet'
    BY <1>1, <1>2, <2>1, <2>2
       DEF CallsInTurn, ThreadsInTurn, OneStarter, Starting, Quiet
  <2>4. \A d \in Callers : FlagOfCall(d)'
    <3>1. \A d \in Callers : FlagOfCall(d)
      BY <2>1 DEF CallsInTurn
    <3> QED BY <1>1, <1>2, <2>3, <3>1 DEF FlagOfCall
  <2>5. FlagOfThread'
    BY <1>1, <2>1, <2>3 DEF CallsInTurn, FlagOfThread, NobodyStarts
  <2> QED BY <2>3, <2>4, <2>5 DEF CallsInTurn
<1> QED BY <1>3, <1>4 DEF LoopsInv

(* A running loop is that of the thread, and goes on or has seen the flag.   *)
LEMMA LoopGoesOn ==
    ASSUME LoopsInv, NEW l \in Monitor!Loops, pc[l] \in Run,
           NEW p \in Run \cup {"ended"}, pc' = [pc EXCEPT ![l] = p],
           p = "ended" => ~active, LoopsTyped',
           UNCHANGED <<active, thread, place, overlap>>
    PROVE  LoopsInv'
<1>1. pc'[l] = p /\ \A k \in Monitor!Loops \ {l} : pc'[k] = pc[k]
  BY DEF LoopsInv, LoopsTyped
<1>2. ASSUME ~overlap' PROVE CallsInTurn'
  <2>1. CallsInTurn /\ l = thread /\ thread > 0 /\ ~Quiet
    <3>1. CallsInTurn /\ thread \in Nat /\ l \in Nat /\ l > 0
      BY <1>2, MonitorAssumed DEF LoopsInv, LoopsTyped
    <3>2. ~(l < thread) /\ ~(l > thread)
      BY <3>1 DEF CallsInTurn, ThreadsInTurn, Run
    <3>3. ~Quiet
      BY DEF Quiet, Run
    <3> QED BY <3>1, <3>2, <3>3
  <2>2. ThreadsInTurn'
    BY <1>1, <2>1, MonitorAssumed DEF CallsInTurn, ThreadsInTurn, Run
  <2>3. OneStarter'
    BY <2>1 DEF CallsInTurn, OneStarter
  <2>4. ASSUME NEW c \in Callers PROVE FlagOfCall(c)' /\ place[c] \in {"idle", "joining"}
    <3>1. FlagOfCall(c) /\ pc[thread] # "made"
      BY <2>1 DEF CallsInTurn, Run
    <3>2. place[c] \in {"idle", "joining"}
      BY <2>1, <3>1 DEF FlagOfCall, LoopsInv, LoopsTyped, Starting
    <3> QED BY <3>1, <3>2 DEF FlagOfCall
  <2>5. FlagOfThread'
    <3>1. NobodyCalls /\ ~active => Quiet
      BY <2>1 DEF CallsInTurn, FlagOfThread
    <3> QED BY <1>1, <2>1, <3>1
            DEF FlagOfThread, NobodyStarts, NobodyCalls, Run
  <2> QED BY <2>2, <2>3, <2>4, <2>5 DEF CallsInTurn
<1> QED BY <1>2 DEF LoopsInv

LEMMA LoopSteps ==
    ASSUME LoopsInv, NEW l \in Monitor!Loops, AlertsTyped,
           \/ Monitor!LoopTest(l) \/ Monitor!WalkBreaks(l)
           \/ Monitor!Sleep(l) \/ Monitor!Wake(l)
    PROVE  LoopsInv'
<1> USE DEF Run
<1>0. Len(thresholds) \in Nat
  BY LenProperties DEF AlertsTyped
<1>1. CASE Monitor!LoopTest(l)
  <2>1. LoopsTyped'
    BY <1>0, <1>1 DEF Monitor!LoopTest, Monitor!past, LoopsInv, LoopsTyped
  <2>2. CASE active
    BY <1>1, <2>1, <2>2, LoopGoesOn DEF Monitor!LoopTest, Monitor!past
  <2>3. CASE ~active
    BY <1>1, <2>1, <2>3, LoopGoesOn DEF Monitor!LoopTest, Monitor!past
  <2> QED BY <2>2, <2>3
<1>2. CASE Monitor!WalkBreaks(l)
  <2>1. LoopsTyped'
    BY <1>2 DEF Monitor!WalkBreaks, LoopsInv, LoopsTyped
  <2> QED BY <1>2, <2>1, LoopGoesOn DEF Monitor!WalkBreaks
<1>3. CASE Monitor!Sleep(l)
  <2>1. LoopsTyped'
    BY <1>3, MonitorAssumed DEF Monitor!Sleep, LoopsInv, LoopsTyped
  <2> QED BY <1>3, <2>1, LoopGoesOn DEF Monitor!Sleep, Monitor!past
<1>4. CASE Monitor!Wake(l)
  <2>1. LoopsTyped'
    BY <1>4 DEF Monitor!Wake, LoopsInv, LoopsTyped
  <2> QED BY <1>4, <2>1, LoopGoesOn DEF Monitor!Wake, Monitor!past
<1> QED BY <1>1, <1>2, <1>3, <1>4

(* Steps that have nothing to do with calls and loops                        *)
LEMMA LoopsStay ==
    ASSUME LoopsInv, LoopsTyped', UNCHANGED <<active, thread, place, pc, overlap>>
    PROVE  LoopsInv'
  BY DEF LoopsInv, CallsInTurn, ThreadsInTurn, OneStarter, FlagOfThread, FlagOfCall,
         Quiet, NobodyStarts, NobodyCalls

(* One loop runs.                                                            *)
LEMMA OneRuns ==
    ASSUME LoopsInv, ~overlap, NEW k \in Monitor!Loops, NEW l \in Monitor!Loops,
           pc[k] \in Run, pc[l] \in Run
    PROVE  k = l
<1>1. CallsInTurn /\ thread \in Nat /\ k \in Nat /\ l \in Nat
  BY MonitorAssumed DEF LoopsInv, LoopsTyped
<1>2. ~(k < thread) /\ ~(k > thread) /\ ~(l < thread) /\ ~(l > thread)
  BY <1>1 DEF CallsInTurn, ThreadsInTurn, Run
<1> QED BY <1>1, <1>2

LEMMA AlertsStart == MCInit => AlertsInv
<1> SUFFICES ASSUME MCInit PROVE AlertsInv
  OBVIOUS
<1> USE DEF MCInit, Monitor!Init
<1>1. thresholds \in Seq(Monitor!Metrics) /\ OnceEach(thresholds)
  BY DEF OnceEach, Monitor!Metrics, Monitor!Members
<1>2. alerts \in Seq(Monitor!Alerts) /\ Len(alerts) = 0
  BY EmptySeq
<1> QED BY <1>1, <1>2
        DEF AlertsInv, AlertsTyped, AlertsApart, Apart

LEMMA AlertTyped ==
    ASSUME AlertsTyped, NEW i \in 1 .. Len(alerts)
    PROVE  alerts[i].second \in Nat /\ alerts[i].metric \in Monitor!Metrics
<1>1. alerts[i] \in Monitor!Alerts
  BY ElementOfSeq DEF AlertsTyped
<1> QED BY <1>1 DEF Monitor!Alerts

(* The alerts are as they were, or some are resolved; time may go on.        *)
LEMMA AlertsAge ==
    ASSUME AlertsTyped, now \in Nat, now' \in Nat, now <= now', alerts' \in Seq(Monitor!Alerts),
           Len(alerts') = Len(alerts),
           \A i \in 1 .. Len(alerts) : /\ alerts'[i].metric = alerts[i].metric
                                       /\ alerts'[i].second = alerts[i].second
    PROVE  /\ \A i \in 1 .. Len(alerts') : alerts'[i].second <= now'
           /\ \A i \in 1 .. Len(alerts') : Past(i) => Past(i)'
           /\ Apart => Apart'
<1>1. \A i \in 1 .. Len(alerts) : alerts[i].second \in Nat
  BY AlertTyped
<1>2. Nap \in Nat /\ \A i \in 1 .. Len(alerts) : alerts[i].second <= now
  BY MonitorAssumed DEF AlertsTyped
<1>3. \A i \in 1 .. Len(alerts') : alerts'[i].second <= now'
  BY <1>1, <1>2
<1>4. \A i \in 1 .. Len(alerts') : Past(i) => Past(i)'
  BY <1>1, <1>2 DEF Past
<1>5. ASSUME Apart PROVE Apart'
  <2> SUFFICES ASSUME NEW i \in 1 .. Len(alerts), NEW j \in 1 .. Len(alerts),
                      i < j, alerts'[i].metric = alerts'[j].metric
               PROVE  alerts'[j].second >= alerts'[i].second + Nap
    BY DEF Apart
  <2> QED BY <1>5 DEF Apart
<1> QED BY <1>1, <1>3, <1>4, <1>5

(* Steps of no loop that walks or sleeps                                     *)
LEMMA AlertsStay ==
    ASSUME AlertsInv, now \in Nat, now' \in Nat, now <= now', alerts' \in Seq(Monitor!Alerts),
           Len(alerts') = Len(alerts),
           \A i \in 1 .. Len(alerts) : /\ alerts'[i].metric = alerts[i].metric
                                       /\ alerts'[i].second = alerts[i].second,
           UNCHANGED <<thresholds, at, size, until, grown>>, ~overlap' => ~overlap,
           \A l \in Monitor!Loops : /\ pc'[l] = "walk" <=> pc[l] = "walk"
                                    /\ pc'[l] = "sleep" <=> pc[l] = "sleep"
    PROVE  AlertsInv'
<1>0. AlertsTyped
  BY DEF AlertsInv
<1>1. /\ \A i \in 1 .. Len(alerts') : alerts'[i].second <= now'
      /\ \A i \in 1 .. Len(alerts') : Past(i) => Past(i)'
      /\ Apart => Apart'
  BY <1>0, AlertsAge
<1>2. AlertsTyped'
  BY <1>0, <1>1 DEF AlertsTyped, OnceEach
<1>3. ASSUME ~overlap', ~grown' PROVE AlertsApart' /\ Apart'
  <2>1. AlertsApart /\ Apart
    BY <1>3 DEF AlertsInv
  <2>2. AlertsApart'
    BY <1>1, <2>1 DEF AlertsApart
  <2> QED BY <1>1, <2>1, <2>2
<1> QED BY <1>2, <1>3 DEF AlertsInv

LEMMA SetThresholdStep ==
    ASSUME AlertsInv, LoopsInv, NEW m \in Monitor!Metrics, Monitor!SetThreshold(m)
    PROVE  AlertsInv'
<1>1. /\ m \notin Monitor!Members(thresholds) /\ thresholds' = Append(thresholds, m)
      /\ UNCHANGED <<now, alerts, pc, at, size, until, overlap, grown>>
  BY DEF Monitor!SetThreshold, Monitor!loops, Monitor!past
<1>2. /\ thresholds' \in Seq(Monitor!Metrics) /\ Len(thresholds') = Len(thresholds) + 1
      /\ \A i \in 1 .. Len(thresholds) : thresholds'[i] = thresholds[i]
      /\ thresholds'[Len(thresholds) + 1] = m
  BY <1>1, AppendedElement DEF AlertsInv, AlertsTyped
<1>3. Len(thresholds) \in Nat /\ \A i \in 1 .. Len(thresholds) : thresholds[i] # m
  BY <1>1, LenProperties DEF AlertsInv, AlertsTyped, Monitor!Members
<1>4. OnceEach(thresholds)'
  BY <1>2, <1>3 DEF AlertsInv, AlertsTyped, OnceEach
<1>5. \A l \in Monitor!Loops : pc[l] = "walk" =>
         /\ at[l] >= 1 /\ size[l] <= Len(thresholds) /\ size[l] <= Len(thresholds')
         /\ at[l] .. size[l] \subseteq 1 .. Len(thresholds)
  BY <1>2, <1>3 DEF AlertsInv, AlertsTyped, LoopsInv, LoopsTyped
<1>6. AlertsTyped'
  BY <1>1, <1>2, <1>4, <1>5 DEF AlertsInv, AlertsTyped
<1>7. ASSUME AlertsApart PROVE AlertsApart'
  <2>1. ASSUME NEW l \in Monitor!Loops, pc[l] = "walk",
               NEW i \in 1 .. Len(alerts), NEW n \in at[l] .. size[l],
               alerts[i].metric = thresholds'[n]
        PROVE  Past(i)
    BY <1>2, <1>5, <1>7, <2>1 DEF AlertsApart
  <2> QED BY <1>1, <1>7, <2>1 DEF AlertsApart, Past
<1>8. Apart => Apart'
  BY <1>1 DEF Apart
<1> QED BY <1>1, <1>6, <1>7, <1>8 DEF AlertsInv

LEMMA CheckThresholdStep ==
    ASSUME AlertsInv, LoopsInv, NEW l \in Monitor!Loops, Monitor!CheckThreshold(l)
    PROVE  AlertsInv' /\ LoopsInv'
<1> DEFINE m == thresholds[at[l]]
           a == [metric |-> m, second |-> now, resolved |-> FALSE]
           n == Len(alerts)
<1>1. /\ pc[l] = "walk" /\ ~Monitor!Grown(l) /\ at[l] <= size[l]
      /\ alerts' = Append(alerts, a) \/ alerts' = alerts
      /\ at' = [at EXCEPT ![l] = @ + 1]
      /\ UNCHANGED <<now, thresholds, active, thread, place, pc, size, until, overlap, grown>>
  BY DEF Monitor!CheckThreshold, Monitor!past
<1>2. /\ now \in Nat /\ at[l] \in Nat /\ size[l] \in Nat /\ Nap \in Nat
      /\ Len(thresholds) \in Nat /\ size[l] = Len(thresholds) /\ at[l] >= 1
  BY <1>1, MonitorAssumed, LenProperties
     DEF LoopsInv, LoopsTyped, AlertsInv, AlertsTyped, Monitor!Grown
<1>3. LoopsTyped'
  BY <1>1 DEF LoopsInv, LoopsTyped
<1>4. LoopsInv'
  BY <1>1, <1>3, LoopsStay
<1>5. at'[l] = at[l] + 1 /\ \A k \in Monitor!Loops \ {l} : at'[k] = at[k]
  BY <1>1 DEF LoopsInv, LoopsTyped
<1>6. \A k \in Monitor!Loops : pc[k] = "walk" =>
         at'[k] >= 1 /\ size[k] <= Len(thresholds)
  BY <1>2, <1>5 DEF AlertsInv, AlertsTyped
<1>7. CASE alerts' = alerts
  <2>1. AlertsTyped'
    BY <1>1, <1>6, <1>7 DEF AlertsInv, AlertsTyped, OnceEach
  <2>2. ASSUME AlertsApart PROVE AlertsApart'
    <3>1. at'[l] .. size[l] \subseteq at[l] .. size[l]
      BY <1>2, <1>5
    <3>2. \A k \in Monitor!Loops : at'[k] .. size[k] \subseteq at[k] .. size[k]
      BY <1>5, <3>1
    <3> QED BY <1>1, <1>7, <2>2, <3>2 DEF AlertsApart, Past
  <2>3. Apart => Apart'
    BY <1>1, <1>7 DEF Apart
  <2> QED BY <1>1, <1>4, <2>1, <2>2, <2>3 DEF AlertsInv
<1>8. CASE alerts' = Append(alerts, a)
  <2>1. at[l] \in 1 .. Len(thresholds)
    BY <1>1, <1>2
  <2>2. m \in Monitor!Metrics
    BY <2>1, ElementOfSeq DEF AlertsInv, AlertsTyped
  <2>3. a \in Monitor!Alerts /\ a.metric = m /\ a.second = now
    BY <1>2, <2>2 DEF Monitor!Alerts
  <2> HIDE DEF m, a
  <2>4. /\ alerts' \in Seq(Monitor!Alerts) /\ Len(alerts') = n + 1
        /\ \A i \in 1 .. n : alerts'[i] = alerts[i]
        /\ alerts'[n + 1] = a
    BY <1>8, <2>3, AppendedElement DEF AlertsInv, AlertsTyped
  <2>5. n \in Nat /\ \A i \in 1 .. n : alerts[i].second \in Nat /\ alerts[i].second <= now
    BY LenProperties, AlertTyped DEF AlertsInv, AlertsTyped
  <2> HIDE DEF n
  <2>7. AlertsTyped'
    <3>1. \A i \in 1 .. Len(alerts') : alerts'[i].second <= now
      BY <1>2, <2>3, <2>4, <2>5
    <3> QED BY <1>1, <1>6, <2>4, <3>1 DEF AlertsInv, AlertsTyped, OnceEach
  <2>8. ASSUME ~overlap, ~grown PROVE AlertsApart' /\ Apart'
    <3>1. AlertsApart /\ Apart
      BY <2>8 DEF AlertsInv
    <3>2. \A i \in 1 .. n : alerts[i].metric = m => alerts[i].second + Nap <= now
      BY <1>1, <1>2, <3>1 DEF AlertsApart, Past, m, n
    <3>3. \A k \in Monitor!Loops : pc[k] \in Run => k = l
      BY <1>1, <2>8, OneRuns DEF Run
    <3>4. \A p \in at[l] + 1 .. size[l] : thresholds[p] # m
      BY <1>2, <2>1 DEF AlertsInv, AlertsTyped, OnceEach, m
    <3>5. ASSUME NEW i \in 1 .. Len(alerts'), NEW p \in at'[l] .. size[l],
                 alerts'[i].metric = thresholds[p]
          PROVE  alerts'[i].second + Nap <= now
      <4>1. p \in at[l] + 1 .. size[l] /\ p \in at[l] .. size[l]
        BY <1>2, <1>5
      <4>2. i # n + 1
        BY <2>3, <2>4, <3>4, <3>5, <4>1
      <4>3. i \in 1 .. n
        BY <2>4, <2>5, <4>2
      <4> QED BY <1>1, <3>1, <2>4, <3>5, <4>1, <4>3 DEF AlertsApart, Past, n
    <3>6. \A k \in Monitor!Loops : pc[k] # "sleep" /\ (pc[k] = "walk" => k = l)
      BY <1>1, <3>3 DEF Run
    <3>7. AlertsApart'
      BY <1>1, <3>5, <3>6 DEF AlertsApart, Past
    <3>8. Apart'
      <4> SUFFICES ASSUME NEW i \in 1 .. Len(alerts'), NEW j \in 1 .. Len(alerts'),
                          i < j, alerts'[i].metric = alerts'[j].metric
                   PROVE  alerts'[j].second >= alerts'[i].second + Nap
        BY DEF Apart
      <4>1. i \in 1 .. n
        BY <2>4, <2>5
      <4>2. CASE j = n + 1
        BY <1>2, <2>3, <2>4, <2>5, <3>2, <4>1, <4>2
      <4>3. CASE j \in 1 .. n
        BY <2>4, <3>1, <4>1, <4>3 DEF Apart, n
      <4> QED BY <2>4, <2>5, <4>2, <4>3
    <3> QED BY <3>7, <3>8
  <2> QED BY <1>1, <1>4, <2>7, <2>8 DEF AlertsInv
<1> QED BY <1>1, <1>7, <1>8

(* The loop that runs begins or ends a walk or a sleep.                      *)
LEMMA WalksAndSleeps ==
    ASSUME AlertsInv, LoopsInv, NEW l \in Monitor!Loops, pc[l] \in Run,
           UNCHANGED <<now, thresholds, alerts, overlap>>, ~grown' => ~grown,
           \A k \in Monitor!Loops \ {l} :
              pc'[k] = pc[k] /\ at'[k] = at[k] /\ size'[k] = size[k] /\ until'[k] = until[k],
           pc'[l] = "walk" => at'[l] = 1 /\ size'[l] = Len(thresholds),
           ~overlap /\ ~grown' =>
              \/ \A i \in 1 .. Len(alerts) : Past(i) /\ pc'[l] # "sleep"
              \/ /\ pc'[l] = "sleep"
                 /\ \A i \in 1 .. Len(alerts) : alerts[i].second + Nap <= until'[l]
    PROVE  AlertsInv'
<1>1. AlertsTyped'
  <2>1. Len(thresholds) \in Nat
    BY LenProperties DEF AlertsInv, AlertsTyped
  <2>2. \A k \in Monitor!Loops : pc'[k] = "walk" => at'[k] >= 1 /\ size'[k] <= Len(thresholds)
    BY <2>1 DEF AlertsInv, AlertsTyped
  <2> QED BY <2>2 DEF AlertsInv, AlertsTyped, OnceEach
<1>2. ASSUME ~overlap, ~grown' PROVE AlertsApart' /\ Apart'
  <2>1. AlertsApart /\ Apart
    BY <1>2 DEF AlertsInv
  <2>2. \A k \in Monitor!Loops \ {l} : pc'[k] \notin {"walk", "sleep"}
    BY <1>2, OneRuns DEF Run
  <2>3. AlertsApart'
    BY <1>2, <2>2 DEF AlertsApart, Past
  <2>4. Apart'
    BY <2>1 DEF Apart
  <2> QED BY <2>3, <2>4
<1> QED BY <1>1, <1>2 DEF AlertsInv

LEMMA LoopTestStep ==
    ASSUME AlertsInv, LoopsInv, NEW l \in Monitor!Loops, Monitor!LoopTest(l)
    PROVE  AlertsInv'
<1>1. /\ pc[l] = "top" /\ pc[l] \in Run /\ pc'[l] \in {"walk", "ended"}
      /\ pc'[l] = "walk" => at'[l] = 1 /\ size'[l] = Len(thresholds)
      /\ \A k \in Monitor!Loops \ {l} :
            pc'[k] = pc[k] /\ at'[k] = at[k] /\ size'[k] = size[k] /\ until'[k] = until[k]
      /\ UNCHANGED <<now, thresholds, alerts, overlap, grown>>
  BY DEF Monitor!LoopTest, Monitor!past, LoopsInv, LoopsTyped, Run
<1>2. ASSUME ~overlap, ~grown PROVE \A i \in 1 .. Len(alerts) : Past(i)
  <2>1. \A k \in Monitor!Loops : pc[k] \notin {"walk", "sleep"}
    BY <1>1, <1>2, OneRuns DEF Run
  <2> QED BY <1>2, <2>1 DEF AlertsInv, AlertsApart
<1> QED BY <1>1, <1>2, WalksAndSleeps

LEMMA WalkBreaksStep ==
    ASSUME AlertsInv, LoopsInv, NEW l \in Monitor!Loops, Monitor!WalkBreaks(l)
    PROVE  AlertsInv'
<1>1. /\ pc[l] \in Run /\ pc'[l] = "top" /\ grown' = TRUE
      /\ \A k \in Monitor!Loops \ {l} :
            pc'[k] = pc[k] /\ at'[k] = at[k] /\ size'[k] = size[k] /\ until'[k] = until[k]
      /\ UNCHANGED <<now, thresholds, alerts, overlap>>
  BY DEF Monitor!WalkBreaks, LoopsInv, LoopsTyped, Run
<1> QED BY <1>1, WalksAndSleeps

LEMMA SleepStep ==
    ASSUME AlertsInv, LoopsInv, NEW l \in Monitor!Loops, Monitor!Sleep(l)
    PROVE  AlertsInv'
<1>1. /\ pc[l] \in Run /\ pc'[l] = "sleep" /\ until'[l] = now + Nap
      /\ \A k \in Monitor!Loops \ {l} :
            pc'[k] = pc[k] /\ at'[k] = at[k] /\ size'[k] = size[k] /\ until'[k] = until[k]
      /\ UNCHANGED <<now, thresholds, alerts, overlap, grown>>
  BY DEF Monitor!Sleep, Monitor!past, LoopsInv, LoopsTyped, Run
<1>2. now \in Nat /\ Nap \in Nat /\ \A i \in 1 .. Len(alerts) : alerts[i].second \in Nat
  BY MonitorAssumed, AlertTyped DEF LoopsInv, LoopsTyped, AlertsInv
<1>3. \A i \in 1 .. Len(alerts) : alerts[i].second + Nap <= until'[l]
  BY <1>1, <1>2 DEF AlertsInv, AlertsTyped
<1> QED BY <1>1, <1>3, WalksAndSleeps

LEMMA WakeStep ==
    ASSUME AlertsInv, LoopsInv, NEW l \in Monitor!Loops, Monitor!Wake(l)
    PROVE  AlertsInv'
<1>1. /\ pc[l] = "sleep" /\ pc[l] \in Run /\ pc'[l] = "top" /\ now >= until[l]
      /\ \A k \in Monitor!Loops \ {l} :
            pc'[k] = pc[k] /\ at'[k] = at[k] /\ size'[k] = size[k] /\ until'[k] = until[k]
      /\ UNCHANGED <<now, thresholds, alerts, overlap, grown>>
  BY DEF Monitor!Wake, Monitor!past, LoopsInv, LoopsTyped, Run
<1>2. /\ now \in Nat /\ Nap \in Nat /\ until[l] \in Nat
      /\ \A i \in 1 .. Len(alerts) : alerts[i].second \in Nat
  BY MonitorAssumed, AlertTyped DEF LoopsInv, LoopsTyped, AlertsInv
<1>3. ASSUME ~overlap, ~grown PROVE \A i \in 1 .. Len(alerts) : Past(i)
  BY <1>1, <1>2, <1>3 DEF AlertsInv, AlertsApart, Past
<1> QED BY <1>1, <1>3, WalksAndSleeps

LEMMA CallStep ==
    ASSUME AlertsInv, LoopsInv, NEW c \in Callers,
           \/ Monitor!Start(c) \/ Monitor!SetActive(c) \/ Monitor!MakeThread(c)
           \/ Monitor!StartThread(c) \/ Monitor!Stop(c) \/ Monitor!Join(c)
    PROVE  AlertsInv' /\ LoopsInv'
<1>1. LoopsInv'
  BY StartStep, SetActiveStep, MakeThreadStep, StartThreadStep, StopStep, JoinStep
<1>2. /\ now \in Nat /\ now <= now /\ alerts \in Seq(Monitor!Alerts)
  BY DEF LoopsInv, LoopsTyped, AlertsInv, AlertsTyped
<1>3. /\ UNCHANGED <<now, thresholds, alerts, at, size, until, grown>>
      /\ ~overlap' => ~overlap
  <2>1. CASE Monitor!Start(c) \/ Monitor!Stop(c)
    BY <2>1 DEF Monitor!Start, Monitor!Stop, Monitor!loops
  <2>2. CASE Monitor!SetActive(c) \/ Monitor!Join(c)
    BY <2>2 DEF Monitor!SetActive, Monitor!Join, Monitor!loops, Monitor!past
  <2>3. CASE Monitor!MakeThread(c) \/ Monitor!StartThread(c)
    BY <2>3 DEF Monitor!MakeThread, Monitor!StartThread, Monitor!past
  <2> QED BY <2>1, <2>2, <2>3
<1>4. \A l \in Monitor!Loops : /\ pc'[l] = "walk" <=> pc[l] = "walk"
                               /\ pc'[l] = "sleep" <=> pc[l] = "sleep"
  <2>1. CASE UNCHANGED pc
    BY <2>1
  <2>2. CASE Monitor!MakeThread(c)
    <3>1. PICK k \in Monitor!Loops : pc[k] = "none" /\ pc' = [pc EXCEPT ![k] = "made"]
      BY <2>2 DEF Monitor!MakeThread
    <3> QED BY <3>1 DEF LoopsInv, LoopsTyped
  <2>3. CASE Monitor!StartThread(c)
    BY <2>3 DEF Monitor!StartThread, LoopsInv, LoopsTyped
  <2> QED BY <2>1, <2>2, <2>3
          DEF Monitor!Start, Monitor!SetActive, Monitor!Stop, Monitor!Join, Monitor!loops
<1>5. AlertsInv'
  BY <1>2, <1>3, <1>4, AlertsStay
<1> QED BY <1>1, <1>5

LEMMA ResolveAlertStep ==
    ASSUME AlertsInv, LoopsInv, NEW i \in 1 .. Len(alerts), Monitor!ResolveAlert(i)
    PROVE  AlertsInv' /\ LoopsInv'
<1>1. /\ alerts' = [alerts EXCEPT ![i].resolved = TRUE]
      /\ UNCHANGED <<now, thresholds, active, thread, place, pc, at, size, until,
                     overlap, grown>>
  BY DEF Monitor!ResolveAlert, Monitor!loops, Monitor!past
<1>2. /\ now \in Nat /\ now <= now /\ alerts \in Seq(Monitor!Alerts)
  BY DEF LoopsInv, LoopsTyped, AlertsInv, AlertsTyped
<1> DEFINE b == [alerts[i] EXCEPT !.resolved = TRUE]
<1>3. alerts[i] \in Monitor!Alerts
  BY <1>2, ElementOfSeq
<1>4. /\ b \in Monitor!Alerts /\ b.metric = alerts[i].metric
      /\ b.second = alerts[i].second
  BY <1>3 DEF Monitor!Alerts
<1>5. alerts' = [alerts EXCEPT ![i] = b]
  BY <1>1
<1> HIDE DEF b
<1>6. /\ alerts' \in Seq(Monitor!Alerts) /\ Len(alerts') = Len(alerts)
      /\ \A j \in 1 .. Len(alerts) : alerts'[j] = IF j = i THEN b ELSE alerts[j]
  BY <1>2, <1>4, <1>5, ExceptSeq
<1>7. \A j \in 1 .. Len(alerts) : /\ alerts'[j].metric = alerts[j].metric
                                  /\ alerts'[j].second = alerts[j].second
  BY <1>4, <1>6
<1>8. AlertsInv'
  BY <1>1, <1>2, <1>6, <1>7, AlertsStay
<1>9. LoopsInv'
  BY <1>1, LoopsStay DEF LoopsInv, LoopsTyped
<1> QED BY <1>8, <1>9

LEMMA OutsideStep ==
    ASSUME AlertsInv, LoopsInv,
           \/ Monitor!Tick
           \/ \E m \in Monitor!Metrics, high \in BOOLEAN : Monitor!RecordMetric(m, high)
           \/ UNCHANGED monitor
    PROVE  AlertsInv' /\ LoopsInv'
<1>1. /\ now' = now \/ now' = now + 1
      /\ UNCHANGED <<thresholds, alerts, active, thread, place, pc, at, size, until,
                     overlap, grown>>
  BY DEF Monitor!Tick, Monitor!RecordMetric, Monitor!loops, Monitor!past, monitor
<1>2. /\ now \in Nat /\ now' \in Nat /\ now <= now' /\ alerts \in Seq(Monitor!Alerts)
  BY <1>1 DEF LoopsInv, LoopsTyped, AlertsInv, AlertsTyped
<1>3. AlertsInv'
  BY <1>1, <1>2, AlertsStay
<1>4. LoopsInv'
  BY <1>1, <1>2, LoopsStay DEF LoopsInv, LoopsTyped
<1> QED BY <1>3, <1>4

LEMMA MonitorGoesOn ==
    LoopsInv /\ AlertsInv /\ [MCNext]_mcvars => LoopsInv' /\ AlertsInv'
<1> SUFFICES ASSUME LoopsInv, AlertsInv, [MCNext]_mcvars
             PROVE  LoopsInv' /\ AlertsInv'
  OBVIOUS
<1>1. CASE UNCHANGED monitor
  BY <1>1, OutsideStep
<1>2. CASE Monitor!Next
  <2>1. ASSUME NEW m \in Monitor!Metrics, Monitor!SetThreshold(m)
        PROVE  LoopsInv' /\ AlertsInv'
    <3>1. UNCHANGED <<now, active, thread, place, pc, at, size, until, overlap>>
      BY <2>1 DEF Monitor!SetThreshold, Monitor!loops, Monitor!past
    <3>2. LoopsInv'
      BY <3>1, LoopsStay DEF LoopsInv, LoopsTyped
    <3> QED BY <2>1, <3>2, SetThresholdStep
  <2>2. ASSUME NEW l \in Monitor!Loops,
               \/ Monitor!LoopTest(l) \/ Monitor!WalkBreaks(l)
               \/ Monitor!Sleep(l) \/ Monitor!Wake(l)
        PROVE  LoopsInv' /\ AlertsInv'
    <3>1. LoopsInv'
      BY <2>2, LoopSteps DEF AlertsInv
    <3>2. AlertsInv'
      BY <2>2, LoopTestStep, WalkBreaksStep, SleepStep, WakeStep
    <3> QED BY <3>1, <3>2
  <2> QED BY <1>2, <2>1, <2>2, OutsideStep, ResolveAlertStep, CallStep,
             CheckThresholdStep DEF Monitor!Next
<1> QED BY <1>1, <1>2 DEF MCNext, mcvars, monitor

(* One loop watches at a time, from a start to the stop that waits for it,   *)
(* and while no calls overlap and no threshold is added during a walk, the   *)
(* alerts of a metric are a sleep apart.                                     *)
THEOREM MonitoringIsSound == MCSpec => []MonitoringSound
<1>1. ASSUME LoopsInv PROVE Monitor!OneLoop
  <2> SUFFICES ASSUME ~overlap
               PROVE  /\ \A k, l \in Monitor!Running : k = l
                      /\ (\A c \in Callers : place[c] = "idle")
                            => (active <=> Monitor!Running # {})
    BY DEF Monitor!OneLoop
  <2>1. \A k, l \in Monitor!Running : k = l
    BY <1>1, OneRuns DEF Monitor!Running, Run
  <2>2. ASSUME \A c \in Callers : place[c] = "idle", active PROVE Monitor!Running # {}
    <3>1. NobodyStarts /\ thread \in Nat
      BY <1>1, <2>2 DEF NobodyStarts, Starting, LoopsInv, LoopsTyped
    <3>2. thread \in Monitor!Loops /\ pc[thread] \in Run
      BY <1>1, <2>2, <3>1 DEF LoopsInv, CallsInTurn, FlagOfThread, ThreadsInTurn
    <3> QED BY <3>2 DEF Monitor!Running, Run
  <2>3. ASSUME \A c \in Callers : place[c] = "idle", ~active PROVE Monitor!Running = {}
    BY <1>1, <2>3 DEF LoopsInv, CallsInTurn, FlagOfThread, NobodyCalls, Quiet,
                      Monitor!Running
  <2> QED BY <2>1, <2>2, <2>3
<1>2. AlertsInv => Monitor!AlertsCanBeResolved
  BY DEF AlertsInv, Apart, Monitor!AlertsCanBeResolved
<1>3. LoopsInv /\ AlertsInv => MonitoringSound
  BY <1>1, <1>2 DEF MonitoringSound, Monitor!MonitoringSound
<1> QED BY <1>3, LoopsStart, AlertsStart, MonitorGoesOn, PTL DEF MCSpec

-----------------------------------------------------------------------------
(* The shipped migrations                                                    *)

(* The first file of each set of tables: no two of them share a table.       *)
Firsts == {1, 5, 8, 9, 12, 15, 16, 17, 18}

(* What the files say, read off the 76 of them: a file's first table is the  *)
(* first table of one of Firsts that comes no later, and has no table that   *)
(* this one has not.                                                         *)
LEMMA FilesInOrder ==
    /\ Len(Shipped!Shipped) = 76
    /\ \A v \in 1 .. 76 :
          \/ Shipped!Shipped[v] \in {Shipped!SimpleModels, Shipped!SimpleUsers}
          \/ v >= 5 /\ Shipped!Shipped[v] = Shipped!Comprehensive
          \/ v >= 8 /\ Shipped!Shipped[v] = Shipped!Coordination
          \/ v >= 9 /\ Shipped!Shipped[v] = Shipped!FinalModels
          \/ v >= 12 /\ Shipped!Shipped[v] = Shipped!Summary
          \/ v >= 15 /\ Shipped!Shipped[v] = Shipped!QueryTest
          \/ v >= 16 /\ Shipped!Shipped[v] = Shipped!FinalTest
          \/ v >= 17 /\ Shipped!Shipped[v] = Shipped!FreshTest
          \/ v >= 18 /\ Shipped!Shipped[v] = Shipped!Relations
    /\ Shipped!Shipped[1] = Shipped!SimpleModels
    /\ Shipped!Shipped[5] = Shipped!Comprehensive
    /\ Shipped!Shipped[8] = Shipped!Coordination
    /\ Shipped!Shipped[9] = Shipped!FinalModels
    /\ Shipped!Shipped[12] = Shipped!Summary
    /\ Shipped!Shipped[15] = Shipped!QueryTest
    /\ Shipped!Shipped[16] = Shipped!FinalTest
    /\ Shipped!Shipped[17] = Shipped!FreshTest
    /\ Shipped!Shipped[18] = Shipped!Relations
  BY SMTT(60)
     DEF Shipped!Shipped,
         Shipped!M20250916142537211, Shipped!M20250916142611506,
         Shipped!M20250916142645804, Shipped!M20250916142645819,
         Shipped!M20250916142646381, Shipped!M20250916142720662,
         Shipped!M20250916142754958, Shipped!M20250916142754977,
         Shipped!M20250916142756386, Shipped!M20250916142830676,
         Shipped!M20250916142904974, Shipped!M20250916142904996,
         Shipped!M20250916142939284, Shipped!M20250916143013587,
         Shipped!M20250916144111463, Shipped!M20250916144111485,
         Shipped!M20250916144111503, Shipped!M20250916144111547,
         Shipped!M20250916144254505, Shipped!M20250916153115230,
         Shipped!M20250916153149563, Shipped!M20250916175625594,
         Shipped!M20250916175659934, Shipped!M20250917155118493,
         Shipped!M20250917155152816, Shipped!M20250917175503951,
         Shipped!M20250917175538281, Shipped!M20250917182208820,
         Shipped!M20250917182243150, Shipped!M20250917214520401,
         Shipped!M20250917222531271, Shipped!M20250918124153890,
         Shipped!M20250918124154552, Shipped!M20250918124303191,
         Shipped!M20250918142615935, Shipped!M20250918142650276,
         Shipped!M20250918145309479, Shipped!M20250918161157470,
         Shipped!M20250918164033971, Shipped!M20250918164034414,
         Shipped!M20250918164143073, Shipped!M20250918180213915,
         Shipped!M20250918180214648, Shipped!M20250918180323380,
         Shipped!M20250918184108142, Shipped!M20250919130058104,
         Shipped!M20250919143534366, Shipped!M20250919143642935,
         Shipped!M20250919143732074, Shipped!M20250919143806443,
         Shipped!M20250919160841004, Shipped!M20250919160841185,
         Shipped!M20250919160949853, Shipped!M20250919170152653,
         Shipped!M20250919170316473, Shipped!M20250919175157956,
         Shipped!M20250919175158043, Shipped!M20250919175158131,
         Shipped!M20250919180556726, Shipped!M20250919180556817,
         Shipped!M20250919180556921, Shipped!M20250919181615749,
         Shipped!M20250919181615841, Shipped!M20250919181615966,
         Shipped!M20250919182606781, Shipped!M20250919185705241,
         Shipped!M20250919185705385, Shipped!M20250919185739956,
         Shipped!M20250919190444979, Shipped!M20250919190445106,
         Shipped!M20250919190445265, Shipped!M20250919232455306,
         Shipped!M20250919232455504, Shipped!M20250919232455710,
         Shipped!M20250919232455890, Shipped!M20250919232530656

TablesIn(seq) == {seq[i] : i \in 1 .. Len(seq)}

LEMMA TablesInFiles ==
    /\ TablesIn(Shipped!SimpleModels) = {"simple_users", "simple_products"}
    /\ TablesIn(Shipped!SimpleUsers) = {"simple_users"}
    /\ TablesIn(Shipped!Comprehensive) = {"comprehensive_users", "comprehensive_products"}
    /\ TablesIn(Shipped!Coordination) = {"coordination_users"}
    /\ TablesIn(Shipped!FinalModels) = {"final_users", "final_products"}
    /\ TablesIn(Shipped!Summary) = {"summary_users"}
    /\ TablesIn(Shipped!QueryTest) = {"query_test_users"}
    /\ TablesIn(Shipped!FinalTest) = {"final_test_users"}
    /\ TablesIn(Shipped!FreshTest) = {"fresh_test_users"}
    /\ TablesIn(Shipped!Relations) =
          {"test_authors", "test_categories", "test_books", "test_book_details",
           "test_tags", "test_book_tags", "test_books_with_tags"}
  BY DEF TablesIn, Shipped!SimpleModels, Shipped!SimpleUsers, Shipped!Comprehensive,
         Shipped!Coordination, Shipped!FinalModels, Shipped!Summary, Shipped!QueryTest,
         Shipped!FinalTest, Shipped!FreshTest, Shipped!Relations

Begins(seq, t) == Len(seq) \in Nat \ {0} /\ seq[1] = t

LEMMA FilesBegin ==
    /\ Begins(Shipped!SimpleModels, "simple_users")
    /\ Begins(Shipped!SimpleUsers, "simple_users")
    /\ Begins(Shipped!Comprehensive, "comprehensive_users")
    /\ Begins(Shipped!Coordination, "coordination_users")
    /\ Begins(Shipped!FinalModels, "final_users")
    /\ Begins(Shipped!Summary, "summary_users")
    /\ Begins(Shipped!QueryTest, "query_test_users")
    /\ Begins(Shipped!FinalTest, "final_test_users")
    /\ Begins(Shipped!FreshTest, "fresh_test_users")
    /\ Begins(Shipped!Relations, "test_authors")
  BY DEF Begins, Shipped!SimpleModels, Shipped!SimpleUsers, Shipped!Comprehensive,
         Shipped!Coordination, Shipped!FinalModels, Shipped!Summary, Shipped!QueryTest,
         Shipped!FinalTest, Shipped!FreshTest, Shipped!Relations

LEMMA FirstTables ==
    \A v \in 1 .. 76 : /\ Len(Shipped!Shipped[v]) \in Nat \ {0}
                       /\ \E l \in Firsts : /\ l <= v
                                            /\ Shipped!Shipped[v][1] = Shipped!Shipped[l][1]
<1>1. \A v \in 1 .. 76 : Len(Shipped!Shipped[v]) \in Nat \ {0}
  BY FilesInOrder, FilesBegin DEF Begins
<1>2. ASSUME NEW v \in 1 .. 76
      PROVE  \E l \in Firsts : l <= v /\ Shipped!Shipped[v][1] = Shipped!Shipped[l][1]
  <2>1. /\ v >= 1 /\ 1 \in Firsts /\ 5 \in Firsts /\ 8 \in Firsts /\ 9 \in Firsts
        /\ 12 \in Firsts /\ 15 \in Firsts /\ 16 \in Firsts /\ 17 \in Firsts
        /\ 18 \in Firsts
    BY DEF Firsts
  <2>2. CASE Shipped!Shipped[v] \in {Shipped!SimpleModels, Shipped!SimpleUsers}
    <3>1. Shipped!Shipped[v][1] = Shipped!Shipped[1][1]
      BY <2>2, FilesInOrder, FilesBegin DEF Begins
    <3> QED BY <2>1, <3>1
  <2>3. CASE v >= 5 /\ Shipped!Shipped[v] = Shipped!Comprehensive
    BY <2>1, <2>3, FilesInOrder
  <2>4. CASE v >= 8 /\ Shipped!Shipped[v] = Shipped!Coordination
    BY <2>1, <2>4, FilesInOrder
  <2>5. CASE v >= 9 /\ Shipped!Shipped[v] = Shipped!FinalModels
    BY <2>1, <2>5, FilesInOrder
  <2>6. CASE v >= 12 /\ Shipped!Shipped[v] = Shipped!Summary
    BY <2>1, <2>6, FilesInOrder
  <2>7. CASE v >= 15 /\ Shipped!Shipped[v] = Shipped!QueryTest
    BY <2>1, <2>7, FilesInOrder
  <2>8. CASE v >= 16 /\ Shipped!Shipped[v] = Shipped!FinalTest
    BY <2>1, <2>8, FilesInOrder
  <2>9. CASE v >= 17 /\ Shipped!Shipped[v] = Shipped!FreshTest
    BY <2>1, <2>9, FilesInOrder
  <2>10. CASE v >= 18 /\ Shipped!Shipped[v] = Shipped!Relations
    BY <2>1, <2>10, FilesInOrder
  <2> QED BY <2>2, <2>3, <2>4, <2>5, <2>6, <2>7, <2>8, <2>9, <2>10, FilesInOrder
<1> QED BY <1>1, <1>2

LEMMA TablesOfFirsts ==
    /\ \A v \in 1 .. 76 : \E l \in Firsts : Shipped!TablesOf(v) \subseteq Shipped!TablesOf(l)
    /\ \A k, l \in Firsts : \A t \in Shipped!TablesOf(k) : t \in Shipped!TablesOf(l) => k = l
<1>1. \A v \in 1 .. 76 : Shipped!TablesOf(v) = TablesIn(Shipped!Shipped[v])
  BY DEF Shipped!TablesOf, TablesIn
<1>2. \A l \in Firsts : Shipped!TablesOf(l) = TablesIn(Shipped!Shipped[l])
  BY DEF Shipped!TablesOf, TablesIn
<1>3. \A v \in 1 .. 76 : \E l \in Firsts :
         TablesIn(Shipped!Shipped[v]) \subseteq TablesIn(Shipped!Shipped[l])
  BY FilesInOrder, TablesInFiles DEF Firsts
<1>4. \A k, l \in Firsts : \A t \in TablesIn(Shipped!Shipped[k]) :
         t \in TablesIn(Shipped!Shipped[l]) => k = l
  BY FilesInOrder, TablesInFiles DEF Firsts
<1>5. \A v \in 1 .. 76 : \E l \in Firsts : Shipped!TablesOf(v) \subseteq Shipped!TablesOf(l)
  BY <1>1, <1>2, <1>3
<1>6. \A k, l \in Firsts : \A t \in Shipped!TablesOf(k) : t \in Shipped!TablesOf(l) => k = l
  BY <1>2, <1>4
<1> QED BY <1>5, <1>6

FilesTyped ==
    /\ DOMAIN status = Shipped!Versions
    /\ owner \in [Shipped!AllTables -> Nat]
    /\ todo \subseteq Shipped!Versions
    /\ target \in Nat

(* Of the files that share tables, only the first is ever completed: it runs *)
(* before the others in every call, and they are refused for its tables.     *)
FilesInv ==
    /\ FilesTyped
    /\ Shipped!Completed \subseteq Firsts
    /\ \A l \in Firsts : \A t \in Shipped!TablesOf(l) :
          owner[t] = IF l \in Shipped!Completed THEN l ELSE 0
    /\ kind = "run" =>
          /\ \A v \in todo : v <= target /\ v \notin Shipped!Completed
          /\ \A l \in Firsts : l <= target /\ l \notin todo => l \in Shipped!Completed
    /\ kind = "rollback" => todo \subseteq Shipped!Completed

LEMMA FilesKnown ==
    /\ Shipped!Versions = 1 .. 76 /\ Shipped!All = 76
    /\ Firsts \subseteq Shipped!Versions
    /\ \A v \in Shipped!Versions : Shipped!TablesOf(v) \subseteq Shipped!AllTables
    /\ \A t \in Shipped!AllTables : \E l \in Firsts : t \in Shipped!TablesOf(l)
<1>1. Shipped!Versions = 1 .. 76 /\ Shipped!All = 76
  BY FilesInOrder DEF Shipped!Versions, Shipped!All
<1>2. Firsts \subseteq Shipped!Versions
  BY <1>1 DEF Firsts
<1>3. \A v \in Shipped!Versions : Shipped!TablesOf(v) \subseteq Shipped!AllTables
  BY DEF Shipped!AllTables
<1>4. ASSUME NEW t \in Shipped!AllTables
      PROVE  \E l \in Firsts : t \in Shipped!TablesOf(l)
  <2>1. PICK v \in Shipped!Versions : t \in Shipped!TablesOf(v)
    BY DEF Shipped!AllTables
  <2> QED BY <1>1, <2>1, TablesOfFirsts
<1> QED BY <1>1, <1>2, <1>3, <1>4

LEMMA FilesStart == MCInit => FilesInv
<1> SUFFICES ASSUME MCInit PROVE FilesInv
  OBVIOUS
<1>1. /\ status = [v \in Shipped!Versions |-> "absent"]
      /\ owner = [t \in Shipped!AllTables |-> 0]
      /\ kind = "none" /\ target = 0 /\ todo = {}
  BY DEF MCInit, Shipped!Init
<1>2. Shipped!Completed = {}
  BY <1>1 DEF Shipped!Completed
<1>3. FilesTyped
  BY <1>1 DEF FilesTyped
<1> QED BY <1>1, <1>2, <1>3, FilesKnown DEF FilesInv

LEMMA BeginCallStep ==
    ASSUME FilesInv, NEW n \in Nat, Shipped!Run(n) \/ Shipped!Rollback(n)
    PROVE  FilesInv'
<1>1. UNCHANGED <<status, owner>> /\ target' = n
  BY DEF Shipped!Run, Shipped!Rollback, Shipped!Begin
<1>2. Shipped!Completed' = Shipped!Completed
  BY <1>1 DEF Shipped!Completed
<1>3. CASE Shipped!Run(n)
  <2>1. /\ kind' = "run"
        /\ todo' = {v \in Shipped!Versions \ Shipped!Completed : v <= n}
    BY <1>3 DEF Shipped!Run, Shipped!Begin
  <2>2. FilesTyped'
    BY <1>1, <2>1 DEF FilesInv, FilesTyped
  <2> QED BY <1>1, <1>2, <2>1, <2>2, FilesKnown DEF FilesInv
<1>4. CASE Shipped!Rollback(n)
  <2>1. kind' = "rollback" /\ todo' = {v \in Shipped!Completed : v > n}
    BY <1>4 DEF Shipped!Rollback, Shipped!Begin
  <2>2. FilesTyped'
    BY <1>1, <2>1, FilesKnown DEF FilesInv, FilesTyped
  <2> QED BY <1>1, <1>2, <2>1, <2>2 DEF FilesInv
<1> QED BY <1>3, <1>4

LEMMA RunNextStep == FilesInv /\ Shipped!RunNext => FilesInv'
<1> SUFFICES ASSUME FilesInv, Shipped!RunNext PROVE FilesInv'
  OBVIOUS
<1> DEFINE Made(v) == {Shipped!Shipped[v][i] :
                          i \in {i \in 1 .. Len(Shipped!Shipped[v]) :
                                   \A j \in Shipped!Refused(v) : i < j}}
<1>1. PICK v \in todo :
         /\ \A w \in todo : v <= w
         /\ owner' = [t \in Shipped!AllTables |-> IF t \in Made(v) THEN v ELSE owner[t]]
         /\ status' = [status EXCEPT ![v] = IF Shipped!AllAccepted(v) THEN "completed"
                                                                      ELSE "failed"]
         /\ todo' = todo \ {v}
  BY DEF Shipped!RunNext
<1>2. kind = "run" /\ UNCHANGED <<kind, target>>
  BY DEF Shipped!RunNext
<1>3. /\ v \in Shipped!Versions /\ v \in 1 .. 76 /\ v <= target /\ v \notin Shipped!Completed
      /\ DOMAIN status = Shipped!Versions /\ owner \in [Shipped!AllTables -> Nat]
  BY <1>1, <1>2, FilesKnown DEF FilesInv, FilesTyped
<1>4. FilesTyped'
  BY <1>1, <1>2, <1>3 DEF FilesInv, FilesTyped
<1>5. Shipped!Completed' = IF Shipped!AllAccepted(v) THEN Shipped!Completed \cup {v}
                                                     ELSE Shipped!Completed
  BY <1>1, <1>3 DEF Shipped!Completed
<1>6. CASE v \in Firsts
  <2>1. \A i \in 1 .. Len(Shipped!Shipped[v]) : owner[Shipped!Shipped[v][i]] = 0
    BY <1>3, <1>6 DEF FilesInv, Shipped!TablesOf
  <2>2. Shipped!Refused(v) = {}
    BY <2>1 DEF Shipped!Refused
  <2>3. Made(v) = Shipped!TablesOf(v) /\ Shipped!AllAccepted(v)
    BY <2>2 DEF Shipped!TablesOf, Shipped!AllAccepted
  <2> HIDE DEF Made
  <2>4. \A l \in Firsts : \A t \in Shipped!TablesOf(l) :
           owner'[t] = IF l = v THEN v ELSE owner[t]
    <3>1. \A l \in Firsts : \A t \in Shipped!TablesOf(l) : t \in Shipped!AllTables
      BY FilesKnown
    <3>2. \A l \in Firsts : \A t \in Shipped!TablesOf(l) : t \in Made(v) <=> l = v
      BY <1>6, <2>3, TablesOfFirsts
    <3> QED BY <1>1, <3>1, <3>2
  <2>5. Shipped!Completed' = Shipped!Completed \cup {v}
    BY <1>5, <2>3
  <2>6. \A l \in Firsts : \A t \in Shipped!TablesOf(l) :
           owner'[t] = IF l \in Shipped!Completed' THEN l ELSE 0
    BY <2>4, <2>5 DEF FilesInv
  <2>7. /\ \A w \in todo' : w <= target /\ w \notin Shipped!Completed'
        /\ \A l \in Firsts : l <= target /\ l \notin todo' => l \in Shipped!Completed'
    BY <1>1, <1>2, <2>5 DEF FilesInv
  <2> QED BY <1>2, <1>4, <1>6, <2>5, <2>6, <2>7 DEF FilesInv
<1>7. CASE v \notin Firsts
  <2>1. PICK l \in Firsts : l <= v /\ Shipped!Shipped[v][1] = Shipped!Shipped[l][1]
    BY <1>3, FirstTables
  <2>2. l \in 1 .. 76 /\ l < v
    BY <1>3, <1>7, <2>1, FilesKnown
  <2>3. l \notin todo /\ l <= target
    BY <1>1, <1>3, <2>2 DEF FilesInv, FilesTyped
  <2>4. l \in Shipped!Completed
    BY <1>2, <2>3 DEF FilesInv
  <2>5. Len(Shipped!Shipped[l]) \in Nat \ {0} /\ Len(Shipped!Shipped[v]) \in Nat \ {0}
    BY <1>3, <2>2, FirstTables
  <2>6. Shipped!Shipped[l][1] \in Shipped!TablesOf(l)
    BY <2>5 DEF Shipped!TablesOf
  <2>7. owner[Shipped!Shipped[v][1]] # 0
    BY <2>1, <2>2, <2>4, <2>6 DEF FilesInv
  <2>8. 1 \in Shipped!Refused(v)
    BY <2>5, <2>7 DEF Shipped!Refused
  <2>9. Made(v) = {} /\ ~Shipped!AllAccepted(v)
    BY <2>5, <2>8 DEF Shipped!AllAccepted
  <2> HIDE DEF Made
  <2>10. owner' = owner /\ Shipped!Completed' = Shipped!Completed
    BY <1>1, <1>3, <1>5, <2>9
  <2> QED BY <1>1, <1>2, <1>4, <1>7, <2>10 DEF FilesInv
<1> QED BY <1>6, <1>7

LEMMA RollbackNextStep == FilesInv /\ Shipped!RollbackNext => FilesInv'
<1> SUFFICES ASSUME FilesInv, Shipped!RollbackNext PROVE FilesInv'
  OBVIOUS
<1>1. PICK v \in todo :
         /\ owner' = [t \in Shipped!AllTables |->
                        IF t \in Shipped!TablesOf(v) THEN 0 ELSE owner[t]]
         /\ status' = [status EXCEPT ![v] = "rolled_back"]
         /\ todo' = todo \ {v}
  BY DEF Shipped!RollbackNext, Shipped!Dropped
<1>2. kind = "rollback" /\ UNCHANGED <<kind, target>>
  BY DEF Shipped!RollbackNext
<1>3. v \in Shipped!Completed /\ v \in Firsts /\ v \in Shipped!Versions
  BY <1>1, <1>2 DEF FilesInv, FilesTyped
<1>4. FilesTyped'
  BY <1>1, <1>2 DEF FilesInv, FilesTyped
<1>5. Shipped!Completed' = Shipped!Completed \ {v}
  BY <1>1, <1>3 DEF Shipped!Completed, FilesInv, FilesTyped
<1>6. \A l \in Firsts : \A t \in Shipped!TablesOf(l) :
         owner'[t] = IF l = v THEN 0 ELSE owner[t]
  BY <1>1, <1>3, FilesKnown, TablesOfFirsts
<1>7. \A l \in Firsts : \A t \in Shipped!TablesOf(l) :
         owner'[t] = IF l \in Shipped!Completed' THEN l ELSE 0
  BY <1>5, <1>6 DEF FilesInv
<1>8. todo' \subseteq Shipped!Completed'
  BY <1>1, <1>2, <1>5 DEF FilesInv
<1> QED BY <1>2, <1>4, <1>5, <1>7, <1>8 DEF FilesInv

LEMMA FilesGoOn == FilesInv /\ [MCNext]_mcvars => FilesInv'
<1> SUFFICES ASSUME FilesInv, [MCNext]_mcvars PROVE FilesInv'
  OBVIOUS
<1>1. CASE UNCHANGED shipped
  <2>1. Shipped!Completed' = Shipped!Completed
    BY <1>1 DEF shipped, Shipped!Completed
  <2> QED BY <1>1, <2>1 DEF shipped, FilesInv, FilesTyped
<1>2. CASE Shipped!Next
  <2>1. \A n \in Targets \cup {Shipped!All} : n \in Nat
    BY PartsAssumption, FilesKnown DEF Shipped!ShippedAssumption
  <2> QED BY <1>2, <2>1, BeginCallStep, RunNextStep, RollbackNextStep DEF Shipped!Next
<1> QED BY <1>1, <1>2 DEF MCNext, mcvars, shipped

(* Most of the shipped files fail, and yet the tables are at any time those  *)
(* of the completed ones; a run without a target makes all of them.          *)
THEOREM ShippedIsSound == MCSpec => []ShippedSound
<1>1. ASSUME FilesInv PROVE Shipped!SchemaIsTheLedger
  <2> SUFFICES ASSUME NEW t \in Shipped!AllTables
               PROVE  {v \in Shipped!Completed : t \in Shipped!TablesOf(v)} = {owner[t]} \ {0}
    BY DEF Shipped!SchemaIsTheLedger
  <2>1. PICK l \in Firsts : t \in Shipped!TablesOf(l)
    BY FilesKnown
  <2>2. l # 0 /\ owner[t] = IF l \in Shipped!Completed THEN l ELSE 0
    BY <1>1, <2>1, FilesKnown DEF FilesInv
  <2>3. \A v \in Shipped!Completed : t \in Shipped!TablesOf(v) => v = l
    BY <1>1, <2>1, TablesOfFirsts DEF FilesInv
  <2> QED BY <2>1, <2>2, <2>3
<1>2. ASSUME FilesInv PROVE Shipped!RunMakesAllTables
  <2> SUFFICES ASSUME kind = "run", target = Shipped!All, todo = {},
                      NEW t \in Shipped!AllTables
               PROVE  owner[t] # 0
    BY DEF Shipped!RunMakesAllTables
  <2>1. PICK l \in Firsts : t \in Shipped!TablesOf(l)
    BY FilesKnown
  <2>2. l \in 1 .. 76 /\ l <= target
    BY FilesKnown
  <2> QED BY <1>2, <2>1, <2>2 DEF FilesInv
<1>3. FilesInv => ShippedSound
  BY <1>1, <1>2 DEF ShippedSound, Shipped!ShippedSound
<1> QED BY <1>3, FilesStart, FilesGoOn, PTL DEF MCSpec

-----------------------------------------------------------------------------
(* Bulk inserts                                                              *)

InOneTransaction == dialect = "postgres"

(* The records that the executed statements have sent                        *)
Sent ==
    IF path = "many" THEN done
    ELSE IF done * ChunkSize < Len(records) THEN done * ChunkSize ELSE Len(records)

(* The rows of the call that are stored, or in its open transaction          *)
Uncommitted == InOneTransaction /\ outcome = "running"
RowsSoFar == IF Uncommitted THEN Len(open) ELSE Len(table) - kept
RowOf(i) == IF Uncommitted THEN open[i] ELSE table[kept + i]

(* A record with the first one's fields has its values in its own columns.   *)
Alike(i) == path = "ir" \/ Bulk!Given(records[i]) = Bulk!Given(records[1])
InPlace(row, r) == \A c \in Bulk!Columns : row[c] = r[c] \/ row[c] = Null

BulkTyped ==
    /\ records \in Seq(Bulk!Records) /\ Len(records) \in Nat
    /\ table \in Seq(Bulk!Records) /\ Len(table) \in Nat
    /\ open \in Seq(Bulk!Records) /\ Len(open) \in Nat
    /\ done \in Nat /\ affected \in Nat /\ kept \in Nat /\ kept <= Len(table)
    /\ path \in {"many", "ir"}
    /\ outcome \in {"none", "running", "inserted", "raised"}

BulkInv ==
    /\ BulkTyped
    /\ Uncommitted => Len(table) = kept
    /\ ~Uncommitted => Len(open) = 0
    /\ Sent <= Len(records)
    /\ outcome = "none" => RowsSoFar = 0
    /\ outcome = "running" => RowsSoFar = Sent /\ affected = Sent
    /\ outcome = "inserted" => RowsSoFar = Len(records) /\ affected = Len(records)
    /\ outcome = "raised" => RowsSoFar = IF InOneTransaction THEN 0 ELSE Sent
    /\ \A i \in 1 .. RowsSoFar : Alike(i) => InPlace(RowOf(i), records[i])

LEMMA BulkAssumed ==
    /\ Width \in Nat /\ ChunkSize \in Nat /\ ChunkSize > 0 /\ MaxRows \in Nat
  BY PartsAssumption DEF Bulk!BulkAssumption

LEMMA SameCardinality == ASSUME NEW S PROVE Bulk!Cardinality(S) = Cardinality(S)
  BY DEF Bulk!Cardinality, Cardinality

(* No two values given have the same rank.                                   *)
LEMMA RanksDiffer ==
    ASSUME NEW r, NEW c \in Bulk!Given(r), NEW d \in Bulk!Given(r),
           Bulk!Rank(r, c) = Bulk!Rank(r, d)
    PROVE  c = d
<1> DEFINE To(e) == {x \in Bulk!Given(r) : x <= e}
<1>1. Bulk!Given(r) \subseteq 1 .. Width
  BY DEF Bulk!Given, Bulk!Columns
<1>2. IsFiniteSet(1 .. Width)
  BY BulkAssumed, FS_Interval
<1>3. IsFiniteSet(To(c)) /\ IsFiniteSet(To(d))
  BY <1>1, <1>2, FS_Subset
<1>4. Cardinality(To(c)) = Cardinality(To(d))
  BY SameCardinality DEF Bulk!Rank
<1>5. c \in To(c) /\ d \in To(d) /\ c \in Nat /\ d \in Nat
  BY <1>1, BulkAssumed
<1>6. CASE c <= d
  <2>1. To(c) \subseteq To(d)
    BY <1>1, <1>5, <1>6, BulkAssumed
  <2> HIDE DEF To
  <2>2. To(d) = To(c)
    BY <1>3, <1>4, <2>1, FS_Subset
  <2>3. d \in To(c)
    BY <1>5, <2>2
  <2> QED BY <1>5, <1>6, <2>3 DEF To
<1>7. CASE d <= c
  <2>1. To(d) \subseteq To(c)
    BY <1>1, <1>5, <1>7, BulkAssumed
  <2> HIDE DEF To
  <2>2. To(c) = To(d)
    BY <1>3, <1>4, <2>1, FS_Subset
  <2>3. c \in To(d)
    BY <1>5, <2>2
  <2> QED BY <1>5, <1>7, <2>3 DEF To
<1> QED BY <1>5, <1>6, <1>7

LEMMA RowByName ==
    ASSUME NEW first, NEW r \in Bulk!Records
    PROVE  /\ Bulk!ByName(first, r) \in Bulk!Records
           /\ InPlace(Bulk!ByName(first, r), r)
  BY DEF Bulk!ByName, Bulk!Records, InPlace

LEMMA RowByPosition ==
    ASSUME NEW first, NEW r \in Bulk!Records
    PROVE  /\ Bulk!ByPosition(first, r) \in Bulk!Records
           /\ Bulk!Given(r) = Bulk!Given(first) => InPlace(Bulk!ByPosition(first, r), r)
<1> DEFINE Ones(c) == {d \in Bulk!Given(r) : Bulk!Rank(r, d) = Bulk!Rank(first, c)}
           One(c) == CHOOSE d \in Ones(c) : TRUE
<1>1. Bulk!ByPosition(first, r) =
         [c \in Bulk!Columns |-> IF c \in Bulk!Given(first) /\ Ones(c) # {}
                                   THEN r[One(c)] ELSE Null]
  BY DEF Bulk!ByPosition
<1>2. \A c : Ones(c) # {} => One(c) \in Ones(c)
  OBVIOUS
<1>3. \A c : Ones(c) \subseteq Bulk!Columns
  BY DEF Bulk!Given
<1>4. \A c : Ones(c) # {} => r[One(c)] \in Values \cup {Null}
  BY <1>2, <1>3 DEF Bulk!Records
<1>5. Bulk!ByPosition(first, r) \in Bulk!Records
  <2> HIDE DEF Ones, One
  <2> QED BY <1>1, <1>4 DEF Bulk!Records
<1>6. ASSUME Bulk!Given(r) = Bulk!Given(first), NEW c \in Bulk!Given(first), Ones(c) # {}
      PROVE  One(c) = c
  <2>1. \A d : Bulk!Rank(first, d) = Bulk!Rank(r, d)
    BY <1>6 DEF Bulk!Rank
  <2>2. One(c) \in Bulk!Given(r) /\ Bulk!Rank(r, One(c)) = Bulk!Rank(r, c)
    BY <1>2, <1>6, <2>1
  <2> HIDE DEF One
  <2> QED BY <1>6, <2>2, RanksDiffer
<1>7. ASSUME Bulk!Given(r) = Bulk!Given(first)
      PROVE  InPlace(Bulk!ByPosition(first, r), r)
  <2> HIDE DEF Ones, One
  <2> QED BY <1>1, <1>6, <1>7 DEF InPlace
<1> QED BY <1>5, <1>7

LEMMA BulkStart == MCInit => BulkInv
<1> SUFFICES ASSUME MCInit PROVE BulkInv
  OBVIOUS
<1>1. /\ path \in {"many", "ir"} /\ done = 0 /\ affected = 0 /\ kept = 0
      /\ table = <<>> /\ open = <<>> /\ outcome = "none"
  BY DEF MCInit, BulkOff, Bulk!Init
<1>2. records \in Seq(Bulk!Records)
  <2>1. CASE records = <<>>
    BY <2>1
  <2>2. CASE Bulk!Init
    <3>1. PICK n \in 1 .. MaxRows : records \in [1 .. n -> Bulk!Records]
      BY <2>2 DEF Bulk!Init
    <3> QED BY <3>1, BulkAssumed, SeqDef
  <2> QED BY <2>1, <2>2 DEF MCInit, BulkOff
<1>3. Len(records) \in Nat
  BY <1>2, LenProperties
<1>4. BulkTyped
  BY <1>1, <1>2, <1>3 DEF BulkTyped
<1>5. RowsSoFar = 0 /\ Sent = 0
  BY <1>1, <1>3, BulkAssumed DEF RowsSoFar, Uncommitted, Sent
<1> QED BY <1>1, <1>3, <1>4, <1>5 DEF BulkInv, Uncommitted

(* What the next statement sends comes next among the records.               *)
LEMMA BatchComesNext ==
    ASSUME BulkTyped, Bulk!Unsent, Sent <= Len(records)
    PROVE  /\ Sent \in Nat
           /\ Bulk!Batch \in Seq(Bulk!Records) /\ Len(Bulk!Batch) \in Nat
           /\ Len(Bulk!Batch) >= 1 /\ Sent + Len(Bulk!Batch) <= Len(records)
           /\ \A j \in 1 .. Len(Bulk!Batch) : Bulk!Batch[j] = records[Sent + j]
           /\ done' = done + 1 /\ path' = path /\ records' = records
                 => Sent' = Sent + Len(Bulk!Batch)
<1>1. /\ done \in Nat /\ Len(records) \in Nat
      /\ \A i \in 1 .. Len(records) : records[i] \in Bulk!Records
  BY ElementOfSeq DEF BulkTyped
<1>2. CASE path = "many"
  <2>1. Bulk!Batch = <<records[done + 1]>> /\ Sent = done /\ done < Len(records)
    BY <1>2 DEF Bulk!Batch, Bulk!Unsent, Sent
  <2>2. records[done + 1] \in Bulk!Records
    BY <1>1, <2>1
  <2> QED BY <1>1, <1>2, <2>1, <2>2 DEF Sent
<1>3. CASE path = "ir"
  <2> DEFINE b == done * ChunkSize
             e == IF b + ChunkSize < Len(records) THEN b + ChunkSize ELSE Len(records)
  <2>1. /\ ChunkSize \in Nat /\ ChunkSize > 0 /\ b \in Nat
        /\ (done + 1) * ChunkSize = b + ChunkSize
    BY <1>1, BulkAssumed
  <2>2. b < Len(records) /\ Sent = b
    BY <1>3 DEF Bulk!Unsent, Sent
  <2>3. Bulk!Batch = SubSeq(records, b + 1, e)
    BY <1>3, <2>1 DEF Bulk!Batch, Bulk!Least
  <2>4. done' = done + 1 /\ path' = path /\ records' = records => Sent' = e
    BY <1>3, <2>1 DEF Sent
  <2> HIDE DEF b
  <2>5. e \in Nat /\ b + 1 <= e /\ e <= Len(records)
    BY <1>1, <2>1, <2>2
  <2> HIDE DEF e
  <2>6. \A i \in b + 1 .. e : records[i] \in Bulk!Records
    BY <1>1, <2>1, <2>5
  <2>7. /\ Bulk!Batch \in Seq(Bulk!Records)
        /\ Len(Bulk!Batch) = IF b + 1 <= e THEN e - (b + 1) + 1 ELSE 0
        /\ \A i \in 1 .. e - (b + 1) + 1 : Bulk!Batch[i] = records[(b + 1) + i - 1]
    BY <2>1, <2>3, <2>5, <2>6, SubSeqProperties
  <2>8. Len(Bulk!Batch) = e - b
    BY <2>1, <2>5, <2>7
  <2>9. \A j \in 1 .. Len(Bulk!Batch) : Bulk!Batch[j] = records[b + j]
    BY <2>1, <2>5, <2>7, <2>8
  <2> QED BY <1>1, <2>1, <2>2, <2>4, <2>5, <2>7, <2>8, <2>9
<1> QED BY <1>2, <1>3 DEF BulkTyped

LEMMA RowsStored ==
    ASSUME BulkTyped, Bulk!Unsent, Sent <= Len(records)
    PROVE  /\ Bulk!Stored(Bulk!Batch) \in Seq(Bulk!Records)
           /\ Len(Bulk!Stored(Bulk!Batch)) = Len(Bulk!Batch)
           /\ \A j \in 1 .. Len(Bulk!Batch) : Alike(Sent + j) =>
                 InPlace(Bulk!Stored(Bulk!Batch)[j], records[Sent + j])
<1> DEFINE batch == Bulk!Batch
           first == Bulk!Leader(batch)
           row(j) == IF path = "many" THEN Bulk!ByPosition(first, batch[j])
                                      ELSE Bulk!ByName(first, batch[j])
<1>1. /\ batch \in Seq(Bulk!Records) /\ Len(batch) \in Nat
      /\ \A j \in 1 .. Len(batch) : batch[j] = records[Sent + j]
  BY BatchComesNext
<1>2. \A j \in 1 .. Len(batch) : batch[j] \in Bulk!Records
  BY <1>1, ElementOfSeq
<1>3. path = "many" => first = records[1]
  BY DEF Bulk!Leader
<1>4. Bulk!Stored(batch) = [j \in 1 .. Len(batch) |-> row(j)]
  BY DEF Bulk!Stored
<1> HIDE DEF batch, first
<1>5. \A j \in 1 .. Len(batch) : row(j) \in Bulk!Records
  BY <1>2, RowByName, RowByPosition
<1>6. \A j \in 1 .. Len(batch) : Alike(Sent + j) => InPlace(row(j), batch[j])
  <2> SUFFICES ASSUME NEW j \in 1 .. Len(batch), Alike(Sent + j)
               PROVE  InPlace(row(j), batch[j])
    OBVIOUS
  <2>1. CASE path = "many"
    <3>1. Bulk!Given(batch[j]) = Bulk!Given(first)
      BY <1>1, <1>3, <2>1 DEF Alike
    <3> QED BY <1>2, <2>1, <3>1, RowByPosition
  <2>2. CASE path # "many"
    BY <1>2, <2>2, RowByName
  <2> QED BY <2>1, <2>2
<1> HIDE DEF row
<1>7. /\ Bulk!Stored(batch) \in Seq(Bulk!Records)
      /\ Len(Bulk!Stored(batch)) = Len(batch)
      /\ \A j \in 1 .. Len(batch) : Bulk!Stored(batch)[j] = row(j)
  BY <1>1, <1>4, <1>5, SeqDef
<1>8. \A j \in 1 .. Len(batch) : Alike(Sent + j) =>
         InPlace(Bulk!Stored(batch)[j], records[Sent + j])
  BY <1>1, <1>6, <1>7
<1> QED BY <1>7, <1>8 DEF batch

LEMMA ExecuteStep == BulkInv /\ Bulk!Execute => BulkInv'
<1> SUFFICES ASSUME BulkInv, Bulk!Execute PROVE BulkInv'
  OBVIOUS
<1> DEFINE rows == Bulk!Stored(Bulk!Batch)
           n == Len(Bulk!Batch)
<1>1. /\ outcome = "running" /\ Bulk!Unsent
      /\ IF dialect = "postgres"
           THEN open' = open \o rows /\ UNCHANGED table
           ELSE table' = table \o rows /\ UNCHANGED open
      /\ affected' = affected + n /\ done' = done + 1
      /\ UNCHANGED <<dialect, path, records, outcome, calls, kept>>
  BY DEF Bulk!Execute, Bulk!InTransaction
<1>2. BulkTyped /\ Sent <= Len(records)
  BY DEF BulkInv
<1>3. /\ Sent \in Nat /\ n \in Nat /\ Sent + n <= Len(records) /\ Sent' = Sent + n
      /\ rows \in Seq(Bulk!Records) /\ Len(rows) = n
      /\ \A j \in 1 .. n : Alike(Sent + j) => InPlace(rows[j], records[Sent + j])
  BY <1>1, <1>2, BatchComesNext, RowsStored
<1> HIDE DEF rows, n
<1>4. RowsSoFar = Sent /\ affected = Sent
  BY <1>1 DEF BulkInv
<1>5. /\ \A i : Alike(i)' <=> Alike(i)
      /\ \A row, r : InPlace(row, r)' <=> InPlace(row, r)
  BY <1>1 DEF Alike, InPlace
<1>6. /\ BulkTyped' /\ RowsSoFar' = Sent + n
      /\ \A i \in 1 .. Sent : RowOf(i)' = RowOf(i)
      /\ \A i \in Sent + 1 .. Sent + n : RowOf(i)' = rows[i - Sent]
      /\ Uncommitted' => Len(table') = kept'
      /\ ~Uncommitted' => Len(open') = 0
  <2>1. CASE dialect = "postgres"
    <3>0. open' = open \o rows /\ open \in Seq(Bulk!Records)
      BY <1>1, <1>2, <2>1 DEF BulkTyped
    <3>1. /\ open' \in Seq(Bulk!Records) /\ Len(open') = Len(open) + Len(rows)
          /\ \A i \in 1 .. Len(open) + Len(rows) :
                open'[i] = IF i <= Len(open) THEN open[i] ELSE rows[i - Len(open)]
      BY <1>3, <3>0, ConcatProperties
    <3>2. Len(open) = Sent /\ Uncommitted /\ Uncommitted' /\ table' = table
      BY <1>1, <1>4, <2>1 DEF RowsSoFar, Uncommitted, InOneTransaction
    <3>3. BulkTyped'
      BY <1>1, <1>2, <1>3, <1>4, <3>1, <3>2 DEF BulkTyped
    <3>4. \A i \in 1 .. Sent : open'[i] = open[i]
      BY <1>3, <3>1, <3>2
    <3>5. \A i \in Sent + 1 .. Sent + n : open'[i] = rows[i - Sent]
      BY <1>3, <3>1, <3>2
    <3>6. \A i : RowOf(i)' = open'[i] /\ RowOf(i) = open[i]
      BY <3>2 DEF RowOf
    <3>7. RowsSoFar' = Len(open') /\ Len(open') = Sent + n
      BY <1>3, <3>1, <3>2 DEF RowsSoFar
    <3>8. Len(table') = kept'
      BY <1>1, <3>2 DEF BulkInv
    <3> QED BY <3>2, <3>3, <3>4, <3>5, <3>6, <3>7, <3>8
  <2>2. CASE dialect # "postgres"
    <3>0. table' = table \o rows /\ table \in Seq(Bulk!Records)
      BY <1>1, <1>2, <2>2 DEF BulkTyped
    <3>1. /\ table' \in Seq(Bulk!Records) /\ Len(table') = Len(table) + Len(rows)
          /\ \A i \in 1 .. Len(table) + Len(rows) :
                table'[i] = IF i <= Len(table) THEN table[i] ELSE rows[i - Len(table)]
      BY <1>3, <3>0, ConcatProperties
    <3>2. Len(table) - kept = Sent /\ ~Uncommitted /\ ~Uncommitted' /\ open' = open
      BY <1>1, <1>4, <2>2 DEF RowsSoFar, Uncommitted, InOneTransaction
    <3>3. Len(table) \in Nat /\ kept \in Nat /\ kept' = kept
      BY <1>1, <1>2 DEF BulkTyped
    <3>4. BulkTyped'
      BY <1>1, <1>2, <1>3, <1>4, <3>1, <3>2 DEF BulkTyped
    <3>5. \A i \in 1 .. Sent : table'[kept + i] = table[kept + i]
      BY <1>3, <3>1, <3>2, <3>3
    <3>6. \A i \in Sent + 1 .. Sent + n : table'[kept + i] = rows[i - Sent]
      <4> SUFFICES ASSUME NEW i \in Sent + 1 .. Sent + n
                   PROVE  table'[kept + i] = rows[i - Sent]
        OBVIOUS
      <4>1. /\ kept + i \in 1 .. Len(table) + Len(rows) /\ ~(kept + i <= Len(table))
            /\ (kept + i) - Len(table) = i - Sent
        BY SMTT(30), <1>3, <3>2, <3>3
      <4> QED BY <3>1, <4>1
    <3>7. Len(table') - kept' = Sent + n
      <4>1. Len(table') = Len(table) + n
        BY <1>3, <3>1
      <4> QED BY <1>3, <3>2, <3>3, <4>1
    <3>8. \A i : RowOf(i)' = table'[kept + i] /\ RowOf(i) = table[kept + i]
      BY <3>2, <3>3 DEF RowOf
    <3>9. RowsSoFar' = Sent + n
      BY <3>2, <3>7 DEF RowsSoFar
    <3>10. Len(open') = 0
      BY <3>2 DEF BulkInv
    <3> QED BY <3>2, <3>4, <3>5, <3>6, <3>8, <3>9, <3>10
  <2> QED BY <2>1, <2>2
<1>7. \A i \in 1 .. Sent + n : Alike(i) => InPlace(RowOf(i)', records[i])
  <2> SUFFICES ASSUME NEW i \in 1 .. Sent + n, Alike(i) PROVE InPlace(RowOf(i)', records[i])
    OBVIOUS
  <2>1. CASE i \in 1 .. Sent
    BY <1>4, <1>6, <2>1 DEF BulkInv
  <2>2. CASE i \notin 1 .. Sent
    <3>1. i \in Sent + 1 .. Sent + n /\ i - Sent \in 1 .. n /\ Sent + (i - Sent) = i
      BY <1>3, <2>2
    <3>2. InPlace(rows[i - Sent], records[i])
      BY <1>3, <3>1
    <3> QED BY <1>6, <3>1, <3>2
  <2> QED BY <2>1, <2>2
<1>8. \A i \in 1 .. RowsSoFar' : Alike(i)' => InPlace(RowOf(i), records[i])'
  BY <1>1, <1>5, <1>6, <1>7 DEF InPlace
<1>9. affected' = Sent' /\ RowsSoFar' = Sent' /\ Sent' <= Len(records')
  BY <1>1, <1>3, <1>4, <1>6
<1> QED BY <1>1, <1>6, <1>8, <1>9 DEF BulkInv

LEMMA CallRowsStep == BulkInv /\ Bulk!Call => BulkInv'
<1> SUFFICES ASSUME BulkInv, Bulk!Call PROVE BulkInv'
  OBVIOUS
<1>1. /\ outcome \in {"none", "raised"} /\ outcome' = "running"
      /\ done' = 0 /\ affected' = 0 /\ kept' = Len(table)
      /\ UNCHANGED <<dialect, path, records, table, open>>
  BY DEF Bulk!Call
<1>2. BulkTyped /\ BulkTyped'
  BY <1>1 DEF BulkInv, BulkTyped
<1>3. Len(open) = 0 /\ Len(records) \in Nat /\ Len(table) \in Nat
  BY <1>1, <1>2 DEF BulkInv, BulkTyped, Uncommitted
<1>4. RowsSoFar' = 0
  BY <1>1, <1>3 DEF RowsSoFar
<1>5. Sent' = 0
  BY <1>1, <1>3, BulkAssumed DEF Sent
<1>6. (Uncommitted => Len(table) = kept)' /\ (~Uncommitted => Len(open) = 0)'
  BY <1>1, <1>3
<1> QED BY <1>1, <1>2, <1>3, <1>4, <1>5, <1>6 DEF BulkInv

LEMMA FailStep == BulkInv /\ Bulk!Fail => BulkInv'
<1> SUFFICES ASSUME BulkInv, Bulk!Fail PROVE BulkInv'
  OBVIOUS
<1>1. /\ outcome = "running" /\ outcome' = "raised" /\ open' = <<>>
      /\ UNCHANGED <<dialect, path, records, done, table, affected, kept>>
  BY DEF Bulk!Fail
<1>2. BulkTyped /\ Len(table) \in Nat /\ kept \in Nat
  BY DEF BulkInv, BulkTyped
<1>3. open' \in Seq(Bulk!Records) /\ Len(open') = 0
  BY <1>1, EmptySeq
<1>4. BulkTyped'
  BY <1>1, <1>2, <1>3 DEF BulkTyped
<1>5. Sent' = Sent /\ ~Uncommitted'
  BY <1>1 DEF Sent, Uncommitted
<1>6. CASE dialect = "postgres"
  <2>1. Len(table) = kept
    BY <1>1, <1>6 DEF BulkInv, Uncommitted, InOneTransaction
  <2>2. RowsSoFar' = 0 /\ InOneTransaction'
    BY <1>1, <1>2, <1>5, <1>6, <2>1 DEF RowsSoFar, InOneTransaction
  <2>3. Sent' <= Len(records')
    BY <1>1, <1>5 DEF BulkInv
  <2> QED BY <1>1, <1>3, <1>4, <1>5, <2>2, <2>3 DEF BulkInv
<1>7. CASE dialect # "postgres"
  <2>1. ~Uncommitted /\ ~InOneTransaction /\ ~InOneTransaction'
    BY <1>1, <1>7 DEF Uncommitted, InOneTransaction
  <2>2. RowsSoFar' = RowsSoFar /\ \A i : RowOf(i)' = RowOf(i)
    BY <1>1, <1>5, <2>1 DEF RowsSoFar, RowOf
  <2>3. \A i \in 1 .. RowsSoFar' : Alike(i)' => InPlace(RowOf(i), records[i])'
    BY <1>1, <2>2 DEF BulkInv, Alike, InPlace
  <2>4. RowsSoFar' = Sent' /\ Sent' <= Len(records')
    BY <1>1, <1>5, <2>2 DEF BulkInv
  <2> QED BY <1>1, <1>3, <1>4, <1>5, <2>1, <2>3, <2>4 DEF BulkInv
<1> QED BY <1>6, <1>7

LEMMA CommitStep == BulkInv /\ Bulk!Commit => BulkInv'
<1> SUFFICES ASSUME BulkInv, Bulk!Commit PROVE BulkInv'
  OBVIOUS
<1>1. /\ outcome = "running" /\ ~Bulk!Unsent /\ open' = <<>>
      /\ \/ table' = table \o open /\ outcome' = "inserted"
         \/ dialect = "postgres" /\ outcome' = "raised" /\ table' = table
      /\ UNCHANGED <<dialect, path, records, done, affected, kept>>
  BY DEF Bulk!Commit, Bulk!InTransaction
<1>2. /\ BulkTyped /\ Len(table) \in Nat /\ kept \in Nat /\ Len(open) \in Nat
      /\ Len(records) \in Nat /\ done \in Nat /\ path \in {"many", "ir"}
      /\ table \in Seq(Bulk!Records) /\ open \in Seq(Bulk!Records) /\ kept <= Len(table)
  BY DEF BulkInv, BulkTyped
<1>3. open' \in Seq(Bulk!Records) /\ Len(open') = 0
  BY <1>1, EmptySeq
<1>4. Sent' = Sent /\ ~Uncommitted'
  BY <1>1 DEF Sent, Uncommitted
<1>5. Sent = Len(records)
  BY <1>1, <1>2 DEF Sent, Bulk!Unsent, BulkInv
<1>6. RowsSoFar = Len(records) /\ affected = Len(records)
  BY <1>1, <1>5 DEF BulkInv
<1>7. CASE dialect = "postgres" /\ outcome' = "raised" /\ table' = table
  <2>1. Len(table) = kept
    BY <1>1, <1>7 DEF BulkInv, Uncommitted, InOneTransaction
  <2>2. RowsSoFar' = 0 /\ InOneTransaction'
    BY <1>1, <1>2, <1>4, <1>7, <2>1 DEF RowsSoFar, InOneTransaction
  <2>3. BulkTyped'
    BY <1>1, <1>2, <1>3, <1>7 DEF BulkTyped
  <2>4. Sent' <= Len(records')
    BY <1>1, <1>2, <1>4, <1>5
  <2> QED BY <1>1, <1>3, <1>4, <1>7, <2>2, <2>3, <2>4 DEF BulkInv
<1>8. CASE table' = table \o open /\ outcome' = "inserted"
  <2>1. /\ table' \in Seq(Bulk!Records) /\ Len(table') = Len(table) + Len(open)
        /\ \A i \in 1 .. Len(table) + Len(open) :
              table'[i] = IF i <= Len(table) THEN table[i] ELSE open[i - Len(table)]
    BY <1>2, <1>8, ConcatProperties
  <2>2. BulkTyped'
    <3>1. kept' <= Len(table') /\ Len(table') \in Nat
      BY <1>1, <1>2, <2>1
    <3> QED BY <1>1, <1>2, <1>3, <1>8, <2>1, <3>1 DEF BulkTyped
  <2>3. RowsSoFar' = Len(table') - kept /\ \A i : RowOf(i)' = table'[kept + i]
    BY <1>1, <1>4 DEF RowsSoFar, RowOf
  <2>4. RowsSoFar' = Len(records) /\ \A i \in 1 .. Len(records) : RowOf(i)' = RowOf(i)
    <3>1. CASE Uncommitted
      <4>1. Len(table) = kept /\ Len(open) = Len(records) /\ \A i : RowOf(i) = open[i]
        BY <1>6, <3>1 DEF BulkInv, RowsSoFar, RowOf
      <4>2. \A i \in 1 .. Len(records) : table'[kept + i] = open[i]
        BY <1>2, <2>1, <4>1
      <4>3. Len(table') - kept = Len(records)
        BY <1>2, <2>1, <4>1
      <4>4. \A i \in 1 .. Len(records) : RowOf(i)' = RowOf(i)
        BY <2>3, <4>1, <4>2
      <4> QED BY <2>3, <4>3, <4>4
    <3>2. CASE ~Uncommitted
      <4>1. /\ Len(open) = 0 /\ Len(table) - kept = Len(records)
            /\ \A i : RowOf(i) = table[kept + i]
        BY <1>6, <3>2 DEF BulkInv, RowsSoFar, RowOf
      <4>2. \A i \in 1 .. Len(records) : table'[kept + i] = table[kept + i]
        BY <1>2, <2>1, <4>1
      <4>3. Len(table') - kept = Len(records)
        BY <1>2, <2>1, <4>1
      <4>4. \A i \in 1 .. Len(records) : RowOf(i)' = RowOf(i)
        BY <2>3, <4>1, <4>2
      <4> QED BY <2>3, <4>3, <4>4
    <3> QED BY <3>1, <3>2
  <2>5. \A i \in 1 .. RowsSoFar' : Alike(i)' => InPlace(RowOf(i), records[i])'
    BY <1>1, <1>6, <2>4 DEF BulkInv, Alike, InPlace
  <2>6. Sent' <= Len(records') /\ affected' = Len(records') /\ RowsSoFar' = Len(records')
    BY <1>1, <1>2, <1>4, <1>5, <1>6, <2>4
  <2> QED BY <1>1, <1>3, <1>4, <1>8, <2>2, <2>5, <2>6 DEF BulkInv
<1> QED BY <1>1, <1>7, <1>8

LEMMA BulkGoesOn == BulkInv /\ [MCNext]_mcvars => BulkInv'
<1> SUFFICES ASSUME BulkInv, [MCNext]_mcvars PROVE BulkInv'
  OBVIOUS
<1>1. CASE UNCHANGED bulk
  <2>1. /\ UNCHANGED <<dialect, path, records, done, table, open, affected, outcome, kept>>
    BY <1>1 DEF bulk
  <2>2. BulkTyped'
    BY <2>1 DEF BulkInv, BulkTyped
  <2>3. /\ Uncommitted' <=> Uncommitted
        /\ InOneTransaction' <=> InOneTransaction
        /\ Sent' = Sent /\ RowsSoFar' = RowsSoFar
        /\ \A i : RowOf(i)' = RowOf(i) /\ (Alike(i)' <=> Alike(i))
    BY <2>1 DEF Uncommitted, InOneTransaction, Sent, RowsSoFar, RowOf, Alike
  <2>4. \A i \in 1 .. RowsSoFar' : Alike(i)' => InPlace(RowOf(i), records[i])'
    BY <2>1, <2>3 DEF BulkInv, InPlace
  <2> QED BY <2>1, <2>2, <2>3, <2>4 DEF BulkInv
<1>2. CASE Bulk!Next
  BY <1>2, CallRowsStep, ExecuteStep, FailStep, CommitStep DEF Bulk!Next
<1> QED BY <1>1, <1>2 DEF MCNext, mcvars, bulk

(* A bulk insert stores what it counts, or the statements before its error,  *)
(* or nothing in a transaction (execute_insert_rows_chunked and the three    *)
(* execute_*_many_typed).  A row looked up by name has no value in a column  *)
(* that is not its own, nor has a row of bulk_create, which goes by          *)
(* position, if it leaves the same fields None as the first one; of the      *)
(* others nothing is said: the run bulk_create_columns shows one go wrong.   *)
THEOREM BulkIsSound == MCSpec => []BulkSound
<1>1. ASSUME BulkInv PROVE Bulk!WholeStatements
  <2> USE DEF Bulk!New
  <2>1. outcome = "inserted" => Bulk!New = Len(records) /\ affected = Bulk!New
    BY <1>1 DEF BulkInv, RowsSoFar, Uncommitted
  <2>2. outcome = "raised" =>
          Bulk!New = IF dialect = "postgres" THEN 0 ELSE Sent
    BY <1>1 DEF BulkInv, RowsSoFar, Uncommitted, InOneTransaction
  <2> QED BY <2>1, <2>2 DEF Bulk!WholeStatements, Sent, Bulk!Least
<1>2. ASSUME BulkInv PROVE Bulk!NothingElsewhere
  <2> SUFFICES ASSUME outcome # "running", NEW i \in 1 .. Bulk!New,
                      path = "ir" \/ Bulk!Given(records[i]) = Bulk!Given(records[1]),
                      NEW c \in Bulk!Columns
               PROVE  table[kept + i][c] \in {records[i][c], Null}
    BY DEF Bulk!NothingElsewhere
  <2>1. i \in 1 .. RowsSoFar /\ RowOf(i) = table[kept + i] /\ Alike(i)
    BY DEF RowsSoFar, RowOf, Uncommitted, Alike, Bulk!New
  <2> QED BY <1>2, <2>1 DEF BulkInv, InPlace
<1>3. BulkInv => BulkSound
  BY <1>1, <1>2 DEF BulkSound, Bulk!BulkSound
<1> QED BY <1>3, BulkStart, BulkGoesOn, PTL DEF MCSpec

-----------------------------------------------------------------------------
(* Generated migrations                                                      *)

(* The old schema with some of the tables and columns that a diff adds       *)
TableWith(t, added) ==
    [there  |-> old[t].there,
     column |-> [c \in Schema!AllColumns |-> IF <<t, c>> \in added THEN Varchar
                                                                   ELSE old[t].column[c]],
     extras |-> old[t].extras]
Built(made, added) ==
    [t \in Tables |-> IF t \in made THEN Schema!EmptyTable ELSE TableWith(t, added)]

NoExtras == Schema!ExtrasAdded = {}

Create(t) == Schema!Statement(1, "create", t, "")
AddColumn(p) == Schema!Statement(2, "addColumn", p[1], p[2])
AddExtra(p) == Schema!Statement(3, "addExtra", p[1], p[2])
DropColumn(p) == Schema!Statement(2, "dropColumn", p[1], p[2])
DropTable(t) == Schema!Statement(3, "drop", t, "")

(* How far a diff's statements are                                           *)
DiffAt(made, added) ==
    /\ db = Built(made, added)
    /\ phase = "none" => made = {} /\ added = {}
    /\ phase = "up" =>
          /\ left \subseteq Schema!UpFromDiff
          /\ \A t \in Schema!TablesAdded : t \in made \/ Create(t) \in left
          /\ \A p \in Schema!ColumnsAdded : p \in added \/ AddColumn(p) \in left
          /\ \A p \in Schema!ExtrasAdded : AddExtra(p) \in left
    /\ phase = "completed" => made = Schema!TablesAdded /\ added = Schema!ColumnsAdded
    /\ phase = "down" =>
          /\ left \subseteq Schema!DownFromDiff
          /\ \A t \in made : DropTable(t) \in left
          /\ \A p \in added : DropColumn(p) \in left
    /\ phase \in {"completed", "down"} => NoExtras
    /\ phase = "rolled_back" => made = {} /\ added = {}

DiffInv ==
    \E made \in SUBSET Schema!TablesAdded, added \in SUBSET Schema!ColumnsAdded : DiffAt(made, added)

CreateAs(i) == Schema!Statement(i, "createAs", models[i].table, i)
DropIfExists(i) == Schema!Statement(-i, "dropIfExists", models[i].table, "")

TableOf(model) ==
    [there  |-> TRUE,
     column |-> [c \in Schema!AllColumns |-> IF c \in Schema!Created(model) THEN Varchar
                                                                            ELSE Absent],
     extras |-> {}]

(* The database's tables are those of the models whose statement is executed *)
ModelsInv ==
    /\ db \in [Tables -> {Schema!NoTable} \cup {TableOf(models[i]) : i \in DOMAIN models}]
    /\ \A i \in DOMAIN models : models[i].table \in Tables
    /\ \A i \in DOMAIN models : \A j \in DOMAIN models[i].fields :
          j \in Int /\ models[i].fields[j] \in ModelFields
    /\ phase = "none" => \A t \in Tables : db[t] = Schema!NoTable
    /\ phase = "up" =>
          /\ left \subseteq Schema!UpFromModels
          /\ \A i \in DOMAIN models :
                CreateAs(i) \in left \/ db[models[i].table] = TableOf(models[i])
    /\ phase = "completed" =>
          \A i \in DOMAIN models : db[models[i].table] = TableOf(models[i])
    /\ phase \in {"up", "completed"} =>
          \A t \in Tables : db[t] = Schema!NoTable
                            \/ \E i \in DOMAIN models : models[i].table = t
    /\ phase = "down" =>
          /\ left \subseteq Schema!DownFromModels
          /\ \A t \in Tables : db[t] = Schema!NoTable
                \/ \E i \in DOMAIN models : models[i].table = t /\ DropIfExists(i) \in left
    /\ phase = "rolled_back" => \A t \in Tables : db[t] = Schema!NoTable

SchemaInv ==
    /\ old \in Schema!Schemas
    /\ phase \in {"none", "up", "completed", "failed", "down", "rolled_back"}
    /\ models = <<>> => DiffInv
    /\ models # <<>> => ModelsInv /\ \A t \in Tables : old[t] = Schema!NoTable

LEMMA SchemaAssumed ==
    /\ Varchar # Absent
    /\ \A f \in ModelFields : f.name \in Schema!AllColumns
    /\ "id" \in Schema!AllColumns
  BY PartsAssumption DEF Schema!SchemaAssumption, Schema!AllColumns, Schema!Reserved

LEMMA OldTables ==
    ASSUME old \in Schema!Schemas, NEW t \in Tables
    PROVE  /\ old[t] = TableWith(t, {})
           /\ DOMAIN old[t].column = Schema!AllColumns
           /\ old[t].there \in BOOLEAN
           /\ ~old[t].there => old[t] = Schema!NoTable
<1>1. ASSUME NEW b, NEW f, NEW e, f = [c \in Schema!AllColumns |-> f[c]],
             old[t] = [there |-> b, column |-> f, extras |-> e]
      PROVE  old[t] = TableWith(t, {}) /\ DOMAIN old[t].column = Schema!AllColumns
  <2>1. /\ old[t].there = b /\ old[t].column = f /\ old[t].extras = e
        /\ DOMAIN f = Schema!AllColumns
    BY <1>1
  <2>2. [c \in Schema!AllColumns |-> IF <<t, c>> \in {} THEN Varchar ELSE old[t].column[c]] = f
    BY <1>1, <2>1
  <2> QED BY <1>1, <2>1, <2>2 DEF TableWith
<1>2. CASE old[t] = Schema!NoTable
  <2> DEFINE f == [c \in Schema!AllColumns |-> Absent]
  <2>1. f = [c \in Schema!AllColumns |-> f[c]]
    OBVIOUS
  <2>2. old[t] = [there |-> FALSE, column |-> f, extras |-> {}]
    BY <1>2 DEF Schema!NoTable
  <2>3. old[t].there \in BOOLEAN
    BY <2>2
  <2> HIDE DEF f
  <2> QED BY <1>1, <1>2, <2>1, <2>2, <2>3
<1>3. CASE old[t] # Schema!NoTable
  <2>1. PICK types, e : old[t] = Schema!Inspected(types, e)
    BY <1>3 DEF Schema!Schemas
  <2> DEFINE f == [c \in Schema!AllColumns |-> IF c \in {"name"} THEN types[c] ELSE Absent]
  <2>2. f = [c \in Schema!AllColumns |-> f[c]]
    OBVIOUS
  <2>3. old[t] = [there |-> TRUE, column |-> f, extras |-> e]
    BY <2>1 DEF Schema!Inspected
  <2> HIDE DEF f
  <2>4. old[t].there = TRUE
    BY <2>3
  <2> QED BY <1>1, <2>2, <2>3, <2>4
<1> QED BY <1>2, <1>3

LEMMA AddedTables ==
    ASSUME old \in Schema!Schemas
    PROVE  /\ \A t \in Schema!TablesAdded : /\ t \in Tables /\ t \notin Schema!TablesKept
                                            /\ old[t] = Schema!NoTable
           /\ \A t \in Schema!TablesKept : t \in Tables /\ old[t].there
           /\ \A p \in Schema!ColumnsAdded : /\ p[1] \in Schema!TablesKept /\ p[1] \in Tables
                                      /\ p[2] \in Schema!AllColumns /\ p = <<p[1], p[2]>>
                                      /\ old[p[1]].column[p[2]] = Absent
<1>1. \A t \in Schema!TablesAdded : /\ t \in Tables /\ t \notin Schema!TablesKept
                                    /\ old[t] = Schema!NoTable
  BY OldTables DEF Schema!TablesAdded, Schema!TablesKept
<1>2. \A t \in Schema!TablesKept : t \in Tables /\ old[t].there
  BY DEF Schema!TablesKept
<1>3. \A p \in Schema!ColumnsAdded : /\ p[1] \in Schema!TablesKept /\ p[1] \in Tables
                              /\ p[2] \in Schema!AllColumns /\ p = <<p[1], p[2]>>
                              /\ old[p[1]].column[p[2]] = Absent
  BY DEF Schema!ColumnsAdded, Schema!TablesKept
<1> QED BY <1>1, <1>2, <1>3

Retyped(record, c, v) == [record EXCEPT !.column[c] = v]

LEMMA Accepting ==
    ASSUME NEW s
    PROVE  /\ s.op \in {"create", "createAs"} /\ Schema!Accepted(s) => ~db[s.table].there
           /\ s.op \in {"addExtra", "dropExtra"} => ~Schema!Accepted(s)
           /\ s.op = "dropColumn" /\ db[s.table].there /\ db[s.table].column[s.name] # Absent
                 => Schema!Accepted(s)
           /\ s.op = "drop" /\ db[s.table].there => Schema!Accepted(s)
           /\ s.op = "dropIfExists" => Schema!Accepted(s)
           /\ s.op = "create" => Schema!After(s) = Schema!EmptyTable
           /\ s.op = "createAs" => Schema!After(s) =
                 [Schema!EmptyTable EXCEPT !.column =
                    [c \in Schema!AllColumns |-> IF c \in Schema!Created(models[s.name])
                                                   THEN Varchar ELSE Absent]]
           /\ s.op = "addColumn" => Schema!After(s) = Retyped(db[s.table], s.name, Varchar)
           /\ s.op = "dropColumn" => Schema!After(s) = Retyped(db[s.table], s.name, Absent)
           /\ s.op \in {"drop", "dropIfExists"} => Schema!After(s) = Schema!NoTable
  BY DEF Schema!Accepted, Schema!After, Retyped

(* The statements of a diff are told apart by what they do.                  *)
LEMMA StatementsDiffer ==
    /\ \A t, u : Create(t) = Create(u) => t = u
    /\ \A t, u : DropTable(t) = DropTable(u) => t = u
    /\ \A p, q \in Schema!ColumnsAdded : AddColumn(p) = AddColumn(q) => p = q
    /\ \A p, q \in Schema!ColumnsAdded : DropColumn(p) = DropColumn(q) => p = q
    /\ \A t, p, q : /\ Create(t) # AddColumn(p) /\ Create(t) # AddExtra(q)
                    /\ AddColumn(p) # AddExtra(q) /\ DropTable(t) # DropColumn(p)
<1> USE DEF Schema!Statement, Create, AddColumn, AddExtra, DropColumn, DropTable
<1>1. \A p, q \in Schema!ColumnsAdded : p[1] = q[1] /\ p[2] = q[2] => p = q
  BY DEF Schema!ColumnsAdded
<1> QED BY <1>1

(* What the statements of a diff make of the schema                          *)
LEMMA BuiltTables ==
    ASSUME old \in Schema!Schemas, NEW made, NEW added
    PROVE  /\ DOMAIN Built(made, added) = Tables
           /\ \A t \in Tables : Built(made, added)[t] =
                 IF t \in made THEN Schema!EmptyTable ELSE TableWith(t, added)
  BY DEF Built

WithTable(made, added, t, record) == [Built(made, added) EXCEPT ![t] = record]

LEMMA CreateTable ==
    ASSUME old \in Schema!Schemas, NEW made, NEW added, NEW t \in Tables
    PROVE  WithTable(made, added, t, Schema!EmptyTable) = Built(made \cup {t}, added)
  BY DEF Built, WithTable

LEMMA DropCreated ==
    ASSUME old \in Schema!Schemas, NEW made, NEW added \in SUBSET Schema!ColumnsAdded,
           NEW t \in Schema!TablesAdded
    PROVE  WithTable(made, added, t, Schema!NoTable) = Built(made \ {t}, added)
<1>1. TableWith(t, added) = Schema!NoTable
  <2>1. \A c : <<t, c>> \notin added
    BY AddedTables
  <2>2. TableWith(t, added) = TableWith(t, {})
    BY <2>1 DEF TableWith
  <2> QED BY <2>2, OldTables, AddedTables
<1>2. t \in Tables
  BY AddedTables
<1> QED BY <1>1, <1>2 DEF Built, WithTable

(* Two sets of columns that are the same but for one, which has the type v   *)
(* in the second                                                             *)
OnlyDiffers(t, c, v, added, after) ==
    /\ v = IF <<t, c>> \in after THEN Varchar ELSE old[t].column[c]
    /\ \A p : p # <<t, c>> => (p \in after <=> p \in added)

WithRetyped(made, added, t, c, v) ==
    [Built(made, added) EXCEPT ![t] = Retyped(Built(made, added)[t], c, v)]

LEMMA SetColumn ==
    ASSUME old \in Schema!Schemas, NEW t \in Schema!TablesKept, NEW c \in Schema!AllColumns,
           NEW made, t \notin made, NEW added, NEW v, NEW after,
           OnlyDiffers(t, c, v, added, after)
    PROVE  WithRetyped(made, added, t, c, v) = Built(made, after)
<1> USE DEF OnlyDiffers
<1>1. t \in Tables /\ t \notin made
  BY AddedTables
<1>2. Built(made, added)[t] = TableWith(t, added)
  BY <1>1 DEF Built
<1>3. Retyped(TableWith(t, added), c, v) = TableWith(t, after)
  <2> DEFINE f == [d \in Schema!AllColumns |-> IF <<t, d>> \in added THEN Varchar
                                                                    ELSE old[t].column[d]]
             g == [d \in Schema!AllColumns |-> IF <<t, d>> \in after THEN Varchar
                                                                    ELSE old[t].column[d]]
  <2>1. [f EXCEPT ![c] = v] = g
    <3>1. \A d \in Schema!AllColumns : [f EXCEPT ![c] = v][d] = g[d]
      <4> SUFFICES ASSUME NEW d \in Schema!AllColumns PROVE [f EXCEPT ![c] = v][d] = g[d]
        OBVIOUS
      <4>1. d # c => <<t, d>> # <<t, c>>
        OBVIOUS
      <4> QED BY <4>1
    <3> QED BY <3>1
  <2>2. TableWith(t, added) = [there |-> old[t].there, column |-> f, extras |-> old[t].extras]
    BY DEF TableWith
  <2>3. TableWith(t, after) = [there |-> old[t].there, column |-> g, extras |-> old[t].extras]
    BY DEF TableWith
  <2> HIDE DEF f, g
  <2> QED BY <2>1, <2>2, <2>3 DEF Retyped
<1>4. \A u \in Tables \ {t} : TableWith(u, added) = TableWith(u, after)
  <2> SUFFICES ASSUME NEW u \in Tables \ {t} PROVE TableWith(u, added) = TableWith(u, after)
    OBVIOUS
  <2>1. \A d : <<u, d>> \in after <=> <<u, d>> \in added
    BY Zenon
  <2> QED BY <2>1 DEF TableWith
<1>5. \A u \in Tables : [Built(made, added) EXCEPT ![t] = TableWith(t, after)][u]
                           = Built(made, after)[u]
  BY <1>1, <1>4 DEF Built
<1> QED BY <1>1, <1>2, <1>3, <1>5 DEF Built, WithRetyped

LEMMA StatementParts ==
    /\ \A t : Create(t).op = "create" /\ Create(t).table = t
    /\ \A t : DropTable(t).op = "drop" /\ DropTable(t).table = t
    /\ \A p : AddColumn(p).op = "addColumn" /\ AddColumn(p).table = p[1]
              /\ AddColumn(p).name = p[2]
    /\ \A p : DropColumn(p).op = "dropColumn" /\ DropColumn(p).table = p[1]
              /\ DropColumn(p).name = p[2]
    /\ \A p : AddExtra(p).op = "addExtra"
  BY DEF Schema!Statement, Create, AddColumn, AddExtra, DropColumn, DropTable

(* Which statements a diff has                                               *)
LEMMA DiffStatements ==
    /\ Schema!UpFromDiff = {Create(t) : t \in Schema!TablesAdded}
          \cup {AddColumn(p) : p \in Schema!ColumnsAdded}
          \cup {AddExtra(p) : p \in Schema!ExtrasAdded}
    /\ NoExtras => Schema!DownFromDiff = {DropTable(t) : t \in Schema!TablesAdded}
                      \cup {DropColumn(p) : p \in Schema!ColumnsAdded}
  BY DEF Schema!UpFromDiff, Schema!DownFromDiff, Create, AddColumn, AddExtra, DropTable,
         DropColumn, NoExtras

(* A step of the migration leaves the schemas compared as they are, and with *)
(* them all that is made of them.                                            *)
LEMMA SameDiff ==
    ASSUME UNCHANGED <<models, old, new>>
    PROVE  /\ Schema!ColumnsAdded' = Schema!ColumnsAdded /\ Schema!TablesAdded' = Schema!TablesAdded
           /\ Schema!TablesKept' = Schema!TablesKept
           /\ Schema!ExtrasAdded' = Schema!ExtrasAdded
           /\ Schema!UpFromDiff' = Schema!UpFromDiff
           /\ Schema!DownFromDiff' = Schema!DownFromDiff
           /\ \A made, added : Built(made, added)' = Built(made, added)
           /\ NoExtras' <=> NoExtras
<1>1. /\ Schema!TablesAdded' = Schema!TablesAdded /\ Schema!TablesKept' = Schema!TablesKept
      /\ Schema!ExtrasAdded' = Schema!ExtrasAdded /\ Schema!ColumnsAdded' = Schema!ColumnsAdded
  BY DEF Schema!TablesAdded, Schema!TablesKept, Schema!ExtrasAdded, Schema!ColumnsAdded
<1>3. Schema!UpFromDiff' = Schema!UpFromDiff /\ Schema!DownFromDiff' = Schema!DownFromDiff
  BY <1>1 DEF Schema!UpFromDiff, Schema!DownFromDiff
<1>4. \A made, added : Built(made, added)' = Built(made, added)
  BY DEF Built, TableWith
<1>5. NoExtras' <=> NoExtras
  BY <1>1 DEF NoExtras
<1> QED BY <1>1, <1>3, <1>4, <1>5

LEMMA GenerateDiffStep ==
    ASSUME old \in Schema!Schemas, models = <<>>, DiffInv, Schema!Generate
    PROVE  DiffInv'
<1>1. PICK made \in SUBSET Schema!TablesAdded, added \in SUBSET Schema!ColumnsAdded :
         DiffAt(made, added)
  BY DEF DiffInv
<1>2. /\ phase = "none" /\ phase' = "up" /\ left' = Schema!UpFromDiff
      /\ UNCHANGED <<models, old, new, db>>
  BY DEF Schema!Generate
<1>3. db = Built(made, added)
  BY <1>1 DEF DiffAt
<1>4. DiffAt(made, added)'
  BY <1>2, <1>3, SameDiff, DiffStatements DEF DiffAt
<1> QED BY <1>1, <1>2, <1>4, SameDiff DEF DiffInv

LEMMA RollbackDiffStep ==
    ASSUME old \in Schema!Schemas, models = <<>>, DiffInv, Schema!Rollback
    PROVE  DiffInv'
<1>1. PICK made \in SUBSET Schema!TablesAdded, added \in SUBSET Schema!ColumnsAdded :
         DiffAt(made, added)
  BY DEF DiffInv
<1>2. /\ phase = "completed" /\ phase' = "down" /\ left' = Schema!DownFromDiff
      /\ UNCHANGED <<models, old, new, db>>
  BY DEF Schema!Rollback
<1>3. db = Built(made, added) /\ NoExtras
  BY <1>1, <1>2 DEF DiffAt
<1>4. DiffAt(made, added)'
  BY <1>2, <1>3, SameDiff, DiffStatements DEF DiffAt
<1> QED BY <1>1, <1>2, <1>4, SameDiff DEF DiffInv

(* Without statements left, all the tables and columns are there, or none.   *)
LEMMA EndDiffStep ==
    ASSUME old \in Schema!Schemas, models = <<>>, DiffInv,
           Schema!Complete \/ Schema!Reverted
    PROVE  DiffInv'
<1>1. PICK made \in SUBSET Schema!TablesAdded, added \in SUBSET Schema!ColumnsAdded :
         DiffAt(made, added)
  BY DEF DiffInv
<1>2. left = {} /\ UNCHANGED <<models, old, new, db, left>>
  BY DEF Schema!Complete, Schema!Reverted
<1>3. db = Built(made, added)
  BY <1>1 DEF DiffAt
<1>4. CASE Schema!Complete
  <2>1. phase = "up" /\ phase' = "completed"
    BY <1>4 DEF Schema!Complete
  <2>2. made = Schema!TablesAdded /\ added = Schema!ColumnsAdded /\ NoExtras
    BY <1>1, <1>2, <2>1 DEF DiffAt, NoExtras
  <2>3. DiffAt(made, added)'
    BY <1>2, <1>3, <2>1, <2>2, SameDiff DEF DiffAt
  <2> QED BY <1>1, <1>2, <2>3, SameDiff DEF DiffInv
<1>5. CASE Schema!Reverted
  <2>1. phase = "down" /\ phase' = "rolled_back"
    BY <1>5 DEF Schema!Reverted
  <2>2. made = {} /\ added = {}
    BY <1>1, <1>2, <2>1 DEF DiffAt
  <2>3. DiffAt(made, added)'
    BY <1>2, <1>3, <2>1, <2>2, SameDiff DEF DiffAt
  <2> QED BY <1>1, <1>2, <2>3, SameDiff DEF DiffInv
<1> QED BY <1>4, <1>5

LEMMA ExecuteDiffStep ==
    ASSUME old \in Schema!Schemas, models = <<>>, DiffInv, Schema!Execute
    PROVE  DiffInv'
<1>1. PICK made \in SUBSET Schema!TablesAdded, added \in SUBSET Schema!ColumnsAdded :
         DiffAt(made, added)
  BY DEF DiffInv
<1>2. PICK s \in left :
         \/ /\ Schema!Accepted(s)
            /\ db' = [db EXCEPT ![s.table] = Schema!After(s)]
            /\ left' = left \ {s} /\ UNCHANGED phase
         \/ phase' = "failed" /\ UNCHANGED db
  BY DEF Schema!Execute, Schema!NextOnes
<1>3. phase = "up" /\ UNCHANGED <<models, old, new>>
  BY DEF Schema!Execute
<1>4. /\ db = Built(made, added)
      /\ left \subseteq Schema!UpFromDiff
      /\ \A t \in Schema!TablesAdded : t \in made \/ Create(t) \in left
      /\ \A p \in Schema!ColumnsAdded : p \in added \/ AddColumn(p) \in left
      /\ \A p \in Schema!ExtrasAdded : AddExtra(p) \in left
  BY <1>1, <1>3 DEF DiffAt
<1>5. CASE phase' = "failed" /\ UNCHANGED db
  <2>1. DiffAt(made, added)'
    BY <1>3, <1>4, <1>5, SameDiff DEF DiffAt
  <2> QED BY <1>1, <1>3, <2>1, SameDiff DEF DiffInv
<1>6. CASE /\ Schema!Accepted(s)
           /\ db' = [db EXCEPT ![s.table] = Schema!After(s)]
           /\ left' = left \ {s} /\ UNCHANGED phase
  <2>1. ASSUME NEW t \in Schema!TablesAdded, s = Create(t) PROVE DiffInv'
    <3>1. t \in Tables /\ s.table = t /\ Schema!After(s) = Schema!EmptyTable
      BY <2>1, AddedTables, Accepting, StatementParts
    <3>2. db' = Built(made \cup {t}, added)
      <4>1. db' = [Built(made, added) EXCEPT ![t] = Schema!EmptyTable]
        BY <1>4, <1>6, <3>1
      <4>2. WithTable(made, added, t, Schema!EmptyTable) = Built(made \cup {t}, added)
        BY <3>1, CreateTable
      <4> QED BY <4>1, <4>2 DEF WithTable
    <3>3. /\ \A u \in Schema!TablesAdded : u \in made \cup {t} \/ Create(u) \in left'
          /\ \A p \in Schema!ColumnsAdded : p \in added \/ AddColumn(p) \in left'
          /\ \A p \in Schema!ExtrasAdded : AddExtra(p) \in left'
      BY <1>4, <1>6, <2>1, StatementsDiffer
    <3>4. DiffAt(made \cup {t}, added)'
      BY <1>3, <1>4, <1>6, <3>2, <3>3, SameDiff DEF DiffAt
    <3>5. made \cup {t} \in SUBSET Schema!TablesAdded
      BY <1>1
    <3> QED BY <1>1, <1>3, <3>4, <3>5, SameDiff DEF DiffInv
  <2>2. ASSUME NEW p \in Schema!ColumnsAdded, s = AddColumn(p) PROVE DiffInv'
    <3>1. PICK t \in Schema!TablesKept, c \in Schema!AllColumns : p = <<t, c>>
      BY AddedTables
    <3>2. s.op = "addColumn" /\ s.table = t /\ s.name = c
      BY <2>2, <3>1, StatementParts
    <3>3. Schema!After(s) = Retyped(db[t], c, Varchar)
      <4>1. Schema!After(s) = Retyped(db[s.table], s.name, Varchar)
        BY <3>2, Accepting
      <4> QED BY <3>2, <4>1
    <3>4. db' = Built(made, added \cup {p})
      <4>1. db' = [Built(made, added) EXCEPT ![t] = Retyped(Built(made, added)[t], c, Varchar)]
        BY <1>4, <1>6, <3>2, <3>3
      <4>2. OnlyDiffers(t, c, Varchar, added, added \cup {p})
        BY <3>1 DEF OnlyDiffers
      <4>3. t \notin made
        BY AddedTables
      <4>4. WithRetyped(made, added, t, c, Varchar) = Built(made, added \cup {p})
        BY <4>2, <4>3, SetColumn
      <4> QED BY <4>1, <4>4 DEF WithRetyped
    <3>5. /\ \A u \in Schema!TablesAdded : u \in made \/ Create(u) \in left'
          /\ \A q \in Schema!ColumnsAdded : q \in added \cup {p} \/ AddColumn(q) \in left'
          /\ \A q \in Schema!ExtrasAdded : AddExtra(q) \in left'
      BY <1>4, <1>6, <2>2, StatementsDiffer
    <3>6. DiffAt(made, added \cup {p})'
      BY <1>3, <1>4, <1>6, <3>4, <3>5, SameDiff DEF DiffAt
    <3>7. added \cup {p} \in SUBSET Schema!ColumnsAdded
      BY <1>1
    <3> QED BY <1>1, <1>3, <3>6, <3>7, SameDiff DEF DiffInv
  <2>3. ASSUME NEW p \in Schema!ExtrasAdded, s = AddExtra(p) PROVE FALSE
    BY <1>6, <2>3, Accepting, StatementParts
  <2> QED BY <1>4, <2>1, <2>2, <2>3, DiffStatements
<1> QED BY <1>2, <1>5, <1>6

LEMMA RevertDiffStep ==
    ASSUME old \in Schema!Schemas, models = <<>>, DiffInv, Schema!Revert
    PROVE  DiffInv'
<1>1. PICK made \in SUBSET Schema!TablesAdded, added \in SUBSET Schema!ColumnsAdded :
         DiffAt(made, added)
  BY DEF DiffInv
<1>2. PICK s \in left :
         /\ db' = IF Schema!Accepted(s) THEN [db EXCEPT ![s.table] = Schema!After(s)] ELSE db
         /\ left' = left \ {s}
  BY DEF Schema!Revert, Schema!NextOnes
<1>3. phase = "down" /\ UNCHANGED <<models, old, new, phase>>
  BY DEF Schema!Revert
<1>4. /\ db = Built(made, added) /\ NoExtras
      /\ left \subseteq Schema!DownFromDiff
      /\ \A t \in made : DropTable(t) \in left
      /\ \A p \in added : DropColumn(p) \in left
  BY <1>1, <1>3 DEF DiffAt
<1>5. ASSUME NEW t \in Schema!TablesAdded, s = DropTable(t) PROVE DiffInv'
  <2>0. t \in Tables /\ s.table = t /\ s.op = "drop"
    BY <1>5, AddedTables, StatementParts
  <2>1. Schema!After(s) = Schema!NoTable /\ (db[t].there => Schema!Accepted(s))
    BY <2>0, Accepting
  <2>2. db' = Built(made \ {t}, added)
    <3>1. CASE Schema!Accepted(s)
      <4>1. db' = [Built(made, added) EXCEPT ![t] = Schema!NoTable]
        BY <1>2, <1>4, <2>0, <2>1, <3>1
      <4>2. WithTable(made, added, t, Schema!NoTable) = Built(made \ {t}, added)
        BY DropCreated
      <4> QED BY <4>1, <4>2 DEF WithTable
    <3>2. CASE ~Schema!Accepted(s)
      <4>1. t \notin made
        BY <1>4, <2>0, <2>1, <3>2, BuiltTables DEF Schema!EmptyTable, Schema!NoTable
      <4>2. made \ {t} = made
        BY <4>1
      <4> QED BY <1>2, <1>4, <3>2, <4>2
    <3> QED BY <3>1, <3>2
  <2>3. /\ \A u \in made \ {t} : DropTable(u) \in left'
        /\ \A p \in added : DropColumn(p) \in left'
    BY <1>2, <1>4, <1>5, StatementsDiffer
  <2>4. DiffAt(made \ {t}, added)'
    BY <1>2, <1>3, <1>4, <2>2, <2>3, SameDiff DEF DiffAt
  <2>5. made \ {t} \in SUBSET Schema!TablesAdded
    BY <1>1
  <2> QED BY <1>1, <1>3, <2>4, <2>5, SameDiff DEF DiffInv
<1>6. ASSUME NEW p \in Schema!ColumnsAdded, s = DropColumn(p) PROVE DiffInv'
  <2>1. PICK t \in Schema!TablesKept, c \in Schema!AllColumns : p = <<t, c>>
    BY AddedTables
  <2>2. /\ s.op = "dropColumn" /\ s.table = t /\ s.name = c
        /\ t \in Tables /\ old[t].there /\ old[t].column[c] = Absent /\ t \notin made
    BY <1>1, <1>6, <2>1, AddedTables, StatementParts
  <2>3. db[t] = TableWith(t, added)
    BY <1>4, <2>2, BuiltTables
  <2>4. db' = Built(made, added \ {p})
    <3>1. CASE Schema!Accepted(s)
      <4>1. Schema!After(s) = Retyped(db[s.table], s.name, Absent)
        BY <2>2, Accepting
      <4>2. db' = [Built(made, added) EXCEPT ![t] = Retyped(Built(made, added)[t], c, Absent)]
        BY <1>2, <1>4, <2>2, <3>1, <4>1
      <4>3. OnlyDiffers(t, c, Absent, added, added \ {p})
        BY <2>1, <2>2 DEF OnlyDiffers
      <4>4. WithRetyped(made, added, t, c, Absent) = Built(made, added \ {p})
        BY <2>2, <4>3, SetColumn
      <4> QED BY <4>2, <4>4 DEF WithRetyped
    <3>2. CASE ~Schema!Accepted(s)
      <4>1. db[t].there /\ db[t].column[c] = IF p \in added THEN Varchar ELSE Absent
        BY <2>1, <2>2, <2>3 DEF TableWith
      <4>2. p \notin added
        BY <2>2, <3>2, <4>1, Accepting, SchemaAssumed
      <4>3. added \ {p} = added
        BY <4>2
      <4> QED BY <1>2, <1>4, <3>2, <4>3
    <3> QED BY <3>1, <3>2
  <2>5. /\ \A u \in made : DropTable(u) \in left'
        /\ \A q \in added \ {p} : DropColumn(q) \in left'
    BY <1>1, <1>2, <1>4, <1>6, StatementsDiffer
  <2>6. DiffAt(made, added \ {p})'
    BY <1>2, <1>3, <1>4, <2>4, <2>5, SameDiff DEF DiffAt
  <2>7. added \ {p} \in SUBSET Schema!ColumnsAdded
    BY <1>1
  <2> QED BY <1>1, <1>3, <2>6, <2>7, SameDiff DEF DiffInv
<1> QED BY <1>2, <1>4, <1>5, <1>6, DiffStatements

(* The statements made from model classes                                    *)
LEMMA ModelStatements ==
    /\ Schema!UpFromModels = {CreateAs(i) : i \in DOMAIN models}
    /\ Schema!DownFromModels = {DropIfExists(i) : i \in DOMAIN models}
    /\ \A i : /\ CreateAs(i).op = "createAs" /\ CreateAs(i).table = models[i].table
              /\ CreateAs(i).name = i
    /\ \A i : /\ DropIfExists(i).op = "dropIfExists"
              /\ DropIfExists(i).table = models[i].table
  BY DEF Schema!UpFromModels, Schema!DownFromModels, Schema!Statement, CreateAs, DropIfExists

LEMMA SameModels ==
    ASSUME UNCHANGED models
    PROVE  /\ \A i : CreateAs(i)' = CreateAs(i) /\ DropIfExists(i)' = DropIfExists(i)
           /\ Schema!UpFromModels' = Schema!UpFromModels
           /\ Schema!DownFromModels' = Schema!DownFromModels
<1>1. \A i : CreateAs(i)' = CreateAs(i) /\ DropIfExists(i)' = DropIfExists(i)
  BY DEF CreateAs, DropIfExists, Schema!Statement
<1>2. /\ Schema!UpFromModels' = Schema!UpFromModels
      /\ Schema!DownFromModels' = Schema!DownFromModels
  BY DEF Schema!UpFromModels, Schema!DownFromModels, Schema!Statement
<1> QED BY <1>1, <1>2

LEMMA ModelTables ==
    /\ \A model : TableOf(model).there = TRUE /\ Schema!NoTable.there = FALSE
    /\ \A i : Schema!Accepted(CreateAs(i)) => ~db[models[i].table].there
    /\ \A i : Schema!After(CreateAs(i)) = TableOf(models[i])
    /\ \A i : Schema!After(DropIfExists(i)) = Schema!NoTable
    /\ \A i : Schema!Accepted(DropIfExists(i))
<1>1. ASSUME NEW i PROVE Schema!After(CreateAs(i)) = TableOf(models[i])
  <2>1. Schema!After(CreateAs(i)) =
          [Schema!EmptyTable EXCEPT !.column =
             [c \in Schema!AllColumns |-> IF c \in Schema!Created(models[CreateAs(i).name])
                                            THEN Varchar ELSE Absent]]
    BY ModelStatements, Accepting
  <2>2. CreateAs(i).name = i
    BY ModelStatements
  <2> DEFINE f == [c \in Schema!AllColumns |-> IF c \in Schema!Created(models[i])
                                                 THEN Varchar ELSE Absent]
  <2>3. Schema!After(CreateAs(i)) = [Schema!EmptyTable EXCEPT !.column = f]
    BY <2>1, <2>2
  <2>4. TableOf(models[i]) = [there |-> TRUE, column |-> f, extras |-> {}]
    BY DEF TableOf
  <2> HIDE DEF f
  <2> QED BY <2>3, <2>4 DEF Schema!EmptyTable, Schema!NoTable
<1>2. \A model : TableOf(model).there = TRUE /\ Schema!NoTable.there = FALSE
  BY DEF TableOf, Schema!NoTable
<1>3. ASSUME NEW i, Schema!Accepted(CreateAs(i)) PROVE ~db[models[i].table].there
  BY <1>3, ModelStatements, Accepting
<1>4. ASSUME NEW i
      PROVE  /\ Schema!After(DropIfExists(i)) = Schema!NoTable
             /\ Schema!Accepted(DropIfExists(i))
  BY ModelStatements, Accepting
<1> QED BY <1>1, <1>2, <1>3, <1>4

LEMMA ExecuteModelsStep ==
    ASSUME ModelsInv, models # <<>>, Schema!Execute
    PROVE  ModelsInv'
<1>1. PICK s \in left :
         \/ /\ Schema!Accepted(s)
            /\ db' = [db EXCEPT ![s.table] = Schema!After(s)]
            /\ left' = left \ {s} /\ UNCHANGED phase
         \/ phase' = "failed" /\ UNCHANGED db
  BY DEF Schema!Execute, Schema!NextOnes
<1>2. phase = "up" /\ UNCHANGED <<models, old, new>>
  BY DEF Schema!Execute
<1>3. CASE phase' = "failed" /\ UNCHANGED db
  BY <1>2, <1>3, SameModels DEF ModelsInv
<1>4. CASE /\ Schema!Accepted(s)
           /\ db' = [db EXCEPT ![s.table] = Schema!After(s)]
           /\ left' = left \ {s} /\ UNCHANGED phase
  <2>1. PICK i \in DOMAIN models : s = CreateAs(i)
    BY <1>2, ModelStatements DEF ModelsInv
  <2>2. /\ db' = [db EXCEPT ![models[i].table] = TableOf(models[i])]
        /\ ~db[models[i].table].there
        /\ models[i].table \in Tables
    BY <1>4, <2>1, ModelStatements, ModelTables DEF ModelsInv
  <2>3. db' \in [Tables -> {Schema!NoTable} \cup {TableOf(models[j]) : j \in DOMAIN models}]
    BY <2>2 DEF ModelsInv
  <2>4. ASSUME NEW j \in DOMAIN models
        PROVE  CreateAs(j) \in left' \/ db'[models[j].table] = TableOf(models[j])
    <3>1. models[j].table \in Tables
      BY DEF ModelsInv
    <3>2. CASE j = i
      BY <2>2, <3>2 DEF ModelsInv
    <3>3. CASE j # i /\ CreateAs(j) \in left
      <4>1. CreateAs(j) # CreateAs(i)
        BY <3>3, ModelStatements
      <4> QED BY <1>4, <2>1, <3>3, <4>1
    <3>4. CASE db[models[j].table] = TableOf(models[j])
      <4>1. models[j].table # models[i].table
        BY <2>2, <3>4, ModelTables
      <4> QED BY <2>2, <3>1, <3>4, <4>1 DEF ModelsInv
    <3> QED BY <1>2, <3>2, <3>3, <3>4 DEF ModelsInv
  <2>5. \A t \in Tables : db'[t] = Schema!NoTable
                          \/ \E j \in DOMAIN models : models[j].table = t
    BY <1>2, <2>2 DEF ModelsInv
  <2>6. left' \subseteq Schema!UpFromModels
    BY <1>2, <1>4 DEF ModelsInv
  <2>7. phase' = "up"
    BY <1>2, <1>4
  <2> QED BY <1>2, <2>3, <2>4, <2>5, <2>6, <2>7, SameModels DEF ModelsInv
<1> QED BY <1>1, <1>3, <1>4

LEMMA RevertModelsStep ==
    ASSUME ModelsInv, models # <<>>, Schema!Revert
    PROVE  ModelsInv'
<1>1. PICK s \in left :
         /\ db' = IF Schema!Accepted(s) THEN [db EXCEPT ![s.table] = Schema!After(s)] ELSE db
         /\ left' = left \ {s}
  BY DEF Schema!Revert, Schema!NextOnes
<1>2. phase = "down" /\ UNCHANGED <<models, old, new, phase>>
  BY DEF Schema!Revert
<1>3. PICK i \in DOMAIN models : s = DropIfExists(i)
  BY <1>2, ModelStatements DEF ModelsInv
<1>4. /\ db' = [db EXCEPT ![models[i].table] = Schema!NoTable]
      /\ models[i].table \in Tables
  BY <1>1, <1>3, ModelStatements, ModelTables DEF ModelsInv
<1>5. db' \in [Tables -> {Schema!NoTable} \cup {TableOf(models[j]) : j \in DOMAIN models}]
  BY <1>4 DEF ModelsInv
<1>6. ASSUME NEW t \in Tables
      PROVE  db'[t] = Schema!NoTable
             \/ \E j \in DOMAIN models : models[j].table = t /\ DropIfExists(j) \in left'
  <2>1. CASE t = models[i].table
    BY <1>4, <2>1 DEF ModelsInv
  <2>2. ASSUME t # models[i].table, NEW j \in DOMAIN models, models[j].table = t,
               DropIfExists(j) \in left
        PROVE  DropIfExists(j) \in left'
    <3>1. DropIfExists(j) # DropIfExists(i)
      BY <2>2, ModelStatements
    <3> QED BY <1>1, <1>3, <2>2, <3>1
  <2>3. CASE t # models[i].table /\ db[t] = Schema!NoTable
    BY <1>4, <2>3 DEF ModelsInv
  <2> QED BY <1>2, <2>1, <2>2, <2>3 DEF ModelsInv
<1>7. left' \subseteq Schema!DownFromModels
  BY <1>1, <1>2 DEF ModelsInv
<1>8. phase' = "down"
  BY <1>2
<1> QED BY <1>2, <1>5, <1>6, <1>7, <1>8, SameModels DEF ModelsInv

LEMMA TurnModelsStep ==
    ASSUME ModelsInv, models # <<>>,
           Schema!Generate \/ Schema!Complete \/ Schema!Rollback \/ Schema!Reverted
    PROVE  ModelsInv'
<1>1. UNCHANGED <<models, old, new, db>>
  BY DEF Schema!Generate, Schema!Complete, Schema!Rollback, Schema!Reverted
<1>2. CASE Schema!Generate
  <2>1. phase = "none" /\ phase' = "up" /\ left' = Schema!UpFromModels
    BY <1>2 DEF Schema!Generate
  <2> QED BY <1>1, <2>1, ModelStatements, SameModels DEF ModelsInv
<1>3. CASE Schema!Complete
  <2>1. phase = "up" /\ phase' = "completed" /\ left = {}
    BY <1>3 DEF Schema!Complete
  <2> QED BY <1>1, <2>1, SameModels DEF ModelsInv
<1>4. CASE Schema!Rollback
  <2>1. phase = "completed" /\ phase' = "down" /\ left' = Schema!DownFromModels
    BY <1>4 DEF Schema!Rollback
  <2> QED BY <1>1, <2>1, ModelStatements, SameModels DEF ModelsInv
<1>5. CASE Schema!Reverted
  <2>1. phase = "down" /\ phase' = "rolled_back" /\ left = {}
    BY <1>5 DEF Schema!Reverted
  <2> QED BY <1>1, <2>1, SameModels DEF ModelsInv
<1> QED BY <1>2, <1>3, <1>4, <1>5

LEMMA InUnion == ASSUME NEW S, NEW x \in UNION S PROVE \E y \in S : x \in y
  OBVIOUS

LEMMA FieldLists ==
    ASSUME NEW fields \in Schema!FieldLists, NEW j \in DOMAIN fields
    PROVE  j \in Int /\ fields[j] \in ModelFields
<1> DEFINE lists == {[1 .. n -> ModelFields] : n \in 0 .. 2}
<1>1. fields \in UNION lists
  BY DEF Schema!FieldLists
<1>2. PICK n \in 0 .. 2 : fields \in [1 .. n -> ModelFields]
  <2>1. \E y \in lists : fields \in y
    <3> HIDE DEF lists
    <3> QED BY <1>1, InUnion
  <2> QED BY <2>1
<1> QED BY <1>2

LEMMA SchemaStart == MCInit => SchemaInv
<1> SUFFICES ASSUME MCInit PROVE SchemaInv
  OBVIOUS
<1>1. phase = "none" /\ left = {} /\ db = old
  BY DEF MCInit, SchemaOff, Schema!Init
<1>2. ASSUME old \in Schema!Schemas PROVE DiffInv
  <2>1. old = Built({}, {})
    BY <1>2, OldTables DEF Built, Schema!Schemas
  <2>2. DiffAt({}, {})
    BY <1>1, <2>1 DEF DiffAt
  <2> QED BY <2>2 DEF DiffInv
<1>3. CASE SchemaOff
  <2>1. old \in Schema!Schemas
    BY <1>3 DEF SchemaOff, Schema!Schemas
  <2>2. models = <<>>
    BY <1>3 DEF SchemaOff
  <2> QED BY <1>1, <1>2, <2>1, <2>2 DEF SchemaInv
<1>4. CASE Schema!Init /\ models = <<>> /\ old \in Schema!Schemas
  BY <1>1, <1>2, <1>4 DEF SchemaInv
<1>5. CASE /\ \E seq \in [1 .. 1 -> Tables] \cup [1 .. 2 -> Tables] :
                 models \in Schema!ModelsOf(seq)
           /\ old = [t \in Tables |-> Schema!NoTable]
  <2>1. PICK seq \in [1 .. 1 -> Tables] \cup [1 .. 2 -> Tables] : models \in Schema!ModelsOf(seq)
    BY <1>5
  <2>2. PICK fs \in [DOMAIN seq -> Schema!FieldLists] :
          models = [i \in DOMAIN seq |-> [table |-> seq[i], fields |-> fs[i]]]
    BY <2>1 DEF Schema!ModelsOf
  <2>3. 1 \in DOMAIN seq /\ \A i \in DOMAIN seq : seq[i] \in Tables
    BY <2>1
  <2>4. 1 \in DOMAIN models
    BY <2>2, <2>3
  <2>5. models # <<>>
    BY <2>4
  <2>6. \A i \in DOMAIN models : models[i].table \in Tables /\ models[i].fields \in Schema!FieldLists
    BY <2>2, <2>3
  <2>7. ModelsInv
    BY <1>1, <1>5, <2>6, FieldLists DEF ModelsInv
  <2>8. old \in Schema!Schemas
    BY <1>5 DEF Schema!Schemas
  <2> QED BY <1>1, <1>5, <2>5, <2>7, <2>8 DEF SchemaInv
<1> QED BY <1>3, <1>4, <1>5 DEF MCInit, Schema!Init

LEMMA SchemaGoesOn == SchemaInv /\ [MCNext]_mcvars => SchemaInv'
<1> SUFFICES ASSUME SchemaInv, [MCNext]_mcvars PROVE SchemaInv'
  OBVIOUS
<1>1. CASE UNCHANGED schema
  <2>1. UNCHANGED <<models, old, new, db, left, phase>>
    BY <1>1 DEF schema
  <2>2. ASSUME DiffInv PROVE DiffInv'
    <3>1. PICK made \in SUBSET Schema!TablesAdded, added \in SUBSET Schema!ColumnsAdded :
             DiffAt(made, added)
      BY <2>2 DEF DiffInv
    <3>2. DiffAt(made, added)'
      BY <2>1, <3>1, SameDiff DEF DiffAt
    <3> QED BY <2>1, <3>1, <3>2, SameDiff DEF DiffInv
  <2>3. ModelsInv => ModelsInv'
    BY <2>1, SameModels DEF ModelsInv
  <2> QED BY <2>1, <2>2, <2>3 DEF SchemaInv
<1>2. CASE Schema!Next
  <2>1. UNCHANGED <<models, old, new>>
    BY <1>2 DEF Schema!Next, Schema!Generate, Schema!Execute, Schema!Complete, Schema!Rollback,
                Schema!Revert, Schema!Reverted
  <2>2. phase' \in {"none", "up", "completed", "failed", "down", "rolled_back"}
    <3>1. CASE Schema!Execute
      BY <3>1 DEF Schema!Execute
    <3>2. CASE ~Schema!Execute
      BY <1>2, <3>2 DEF Schema!Next, Schema!Generate, Schema!Complete, Schema!Rollback,
                        Schema!Revert, Schema!Reverted
    <3> QED BY <3>1, <3>2
  <2>3. CASE models = <<>>
    <3>1. old \in Schema!Schemas /\ DiffInv
      BY <2>3 DEF SchemaInv
    <3>2. DiffInv'
      BY <1>2, <2>3, <3>1, GenerateDiffStep, ExecuteDiffStep, EndDiffStep, RollbackDiffStep,
         RevertDiffStep DEF Schema!Next
    <3> QED BY <2>1, <2>2, <2>3, <3>1, <3>2 DEF SchemaInv
  <2>4. CASE models # <<>>
    <3>1. ModelsInv'
      BY <1>2, <2>4, TurnModelsStep, ExecuteModelsStep, RevertModelsStep
      DEF SchemaInv, Schema!Next
    <3> QED BY <2>1, <2>2, <2>4, <3>1 DEF SchemaInv
  <2> QED BY <2>3, <2>4
<1> QED BY <1>1, <1>2 DEF MCNext, mcvars

LEMMA SchemaCardinality == ASSUME NEW S PROVE Schema!Cardinality(S) = Cardinality(S)
  BY DEF Schema!Cardinality, Cardinality

LEMMA FewAreOne ==
    ASSUME NEW S, \A x, y \in S : x = y
    PROVE  Schema!Cardinality(S) <= 1
<1>1. CASE S = {}
  BY <1>1, FS_EmptySet, SchemaCardinality
<1>2. ASSUME NEW x \in S PROVE Schema!Cardinality(S) <= 1
  <2>1. S = {x}
    BY <1>2
  <2>2. Cardinality({x}) = 1
    BY FS_Singleton
  <2> QED BY <2>1, <2>2, SchemaCardinality
<1> QED BY <1>1, <1>2

(* A model's table lacks the column of one field at most.                    *)
LEMMA ModelColumns ==
    ASSUME NEW m, \A j \in DOMAIN m.fields : j \in Int /\ m.fields[j] \in ModelFields,
           db[m.table] = TableOf(m)
    PROVE  /\ Schema!Has(db, m.table, "id")
           /\ \A j \in DOMAIN m.fields :
                 m.fields[j].column /\ ~Schema!Has(db, m.table, m.fields[j].name)
                    => j \in Schema!Replaced(m.fields)
<1>1. \A c \in Schema!AllColumns : c \in Schema!Created(m) => Schema!Has(db, m.table, c)
  BY SchemaAssumed DEF TableOf, Schema!Has
<1>2. "id" \in Schema!Created(m)
  BY DEF Schema!Created
<1>3. ASSUME NEW j \in Schema!WithColumn(m.fields), j \notin Schema!Replaced(m.fields)
      PROVE  m.fields[j].name \in Schema!Created(m)
  BY <1>3 DEF Schema!Created
<1>4. ASSUME NEW j \in DOMAIN m.fields, m.fields[j].column,
             ~Schema!Has(db, m.table, m.fields[j].name)
      PROVE  j \in Schema!Replaced(m.fields)
  <2>1. m.fields[j].name \in Schema!AllColumns
    BY SchemaAssumed
  <2>2. m.fields[j].name # "id"
    BY <1>1, <1>2, <1>4, <2>1
  <2>3. j \in Schema!WithColumn(m.fields)
    BY <1>4, <2>2 DEF Schema!WithColumn
  <2> QED BY <1>1, <1>3, <1>4, <2>1, <2>3
<1> QED BY <1>1, <1>2, <1>4, SchemaAssumed

LEMMA OneReplaced ==
    ASSUME NEW fields, \A j \in DOMAIN fields : j \in Int,
           NEW j \in Schema!Replaced(fields), NEW k \in Schema!Replaced(fields)
    PROVE  j = k /\ "id" \in fields[j].mentions
  BY DEF Schema!Replaced, Schema!WithColumn

(* A generated migration, wherever it fails, leaves all that the old schema  *)
(* had, and rolled back it is the old schema.  Completed, a diff has added   *)
(* the columns asked for to the tables that were there (a new table gets no  *)
(* column of them), and the table of a model has an id and its fields but    *)
(* for one at most, whose text has an "id" in it (compare_schemas,           *)
(* generate_migration_sql, _generate_create_tables_sql).                     *)
THEOREM SchemaIsSound == MCSpec => []SchemaSound
<1>1. ASSUME SchemaInv PROVE Schema!OldSchemaSurvives
  <2>1. CASE models = <<>>
    <3>1. PICK made \in SUBSET Schema!TablesAdded, added \in SUBSET Schema!ColumnsAdded :
             DiffAt(made, added)
      BY <1>1, <2>1 DEF SchemaInv, DiffInv
    <3>2. db = Built(made, added) /\ old \in Schema!Schemas
      BY <1>1, <3>1 DEF DiffAt, SchemaInv
    <3>3. ASSUME NEW t \in Tables, old[t].there
          PROVE  /\ db[t].there /\ old[t].extras \subseteq db[t].extras
                 /\ \A c \in Schema!AllColumns :
                       Schema!Has(old, t, c) => db[t].column[c] = old[t].column[c]
      <4>1. t \notin made
        BY <3>3 DEF Schema!TablesAdded
      <4>2. db[t] = TableWith(t, added)
        BY <3>2, <4>1, BuiltTables
      <4>3. \A c \in Schema!AllColumns : <<t, c>> \in added => old[t].column[c] = Absent
        BY <3>2, AddedTables
      <4> QED BY <3>3, <4>2, <4>3 DEF TableWith, Schema!Has
    <3>4. phase = "rolled_back" => db = old
      <4>1. old = Built({}, {})
        BY <3>2, OldTables DEF Built, Schema!Schemas
      <4> QED BY <3>1, <3>2, <4>1 DEF DiffAt
    <3> QED BY <3>3, <3>4 DEF Schema!OldSchemaSurvives
  <2>2. CASE models # <<>>
    <3>1. ModelsInv /\ old \in [Tables -> {Schema!NoTable}]
      BY <1>1, <2>2 DEF SchemaInv, Schema!Schemas
    <3>2. \A t \in Tables : ~old[t].there
      BY <3>1, ModelTables
    <3>3. phase = "rolled_back" => db = old
      BY <3>1 DEF ModelsInv
    <3> QED BY <3>2, <3>3 DEF Schema!OldSchemaSurvives
  <2> QED BY <2>1, <2>2
<1>2. ASSUME SchemaInv, phase = "completed" PROVE Schema!NewSchemaIsThere
  <2>1. ASSUME NEW i \in DOMAIN models
        PROVE  LET m    == models[i]
                   lost == {f \in {m.fields[j] : j \in DOMAIN m.fields} :
                              f.column /\ ~Schema!Has(db, m.table, f.name)}
               IN  /\ Schema!Has(db, m.table, "id")
                   /\ Schema!Cardinality(lost) <= 1 /\ \A f \in lost : "id" \in f.mentions
    <3> DEFINE m    == models[i]
               lost == {f \in {m.fields[j] : j \in DOMAIN m.fields} :
                          f.column /\ ~Schema!Has(db, m.table, f.name)}
    <3>1. ModelsInv
      BY <1>2, <2>1 DEF SchemaInv
    <3>2. /\ \A j \in DOMAIN m.fields : j \in Int /\ m.fields[j] \in ModelFields
          /\ db[m.table] = TableOf(m)
      BY <1>2, <3>1 DEF ModelsInv
    <3> HIDE DEF m
    <3>3. /\ Schema!Has(db, m.table, "id")
          /\ \A j \in DOMAIN m.fields :
                m.fields[j].column /\ ~Schema!Has(db, m.table, m.fields[j].name)
                   => j \in Schema!Replaced(m.fields)
      BY <3>2, ModelColumns
    <3>4. \A f \in lost : \E j \in Schema!Replaced(m.fields) : f = m.fields[j]
      BY <3>3
    <3>5. \A f, g \in lost : f = g /\ "id" \in f.mentions
      BY <3>2, <3>4, OneReplaced
    <3>6. Schema!Cardinality(lost) <= 1
      <4> HIDE DEF lost
      <4> QED BY <3>5, FewAreOne
    <3> QED BY <3>3, <3>5, <3>6 DEF m
  <2>2. ASSUME models = <<>>, NEW t \in Schema!TablesKept, NEW c \in Schema!AllColumns,
               Schema!Has(new, t, c)
        PROVE  Schema!Has(db, t, c)
    <3>1. PICK made \in SUBSET Schema!TablesAdded, added \in SUBSET Schema!ColumnsAdded :
             DiffAt(made, added)
      BY <1>2, <2>2 DEF SchemaInv, DiffInv
    <3>2. /\ db = Built(made, added) /\ added = Schema!ColumnsAdded
          /\ old \in Schema!Schemas /\ t \in Tables /\ t \notin made
      BY <1>2, <3>1, AddedTables DEF DiffAt, SchemaInv
    <3>3. db[t] = TableWith(t, added)
      BY <3>2, BuiltTables
    <3>4. old[t].column[c] = Absent => <<t, c>> \in added
      BY <2>2, <3>2 DEF Schema!ColumnsAdded, Schema!Has
    <3> QED BY <3>3, <3>4, <3>2, AddedTables, SchemaAssumed DEF TableWith, Schema!Has
  <2> QED BY <2>1, <2>2 DEF Schema!NewSchemaIsThere
<1>3. SchemaInv => SchemaSound
  BY <1>1, <1>2 DEF SchemaSound, Schema!SchemaSound, Schema!NewSchemaIsThere
<1> QED BY <1>3, SchemaStart, SchemaGoesOn, PTL DEF MCSpec
=============================================================================
