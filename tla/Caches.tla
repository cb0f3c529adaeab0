------------------------------- MODULE Caches -------------------------------
(***************************************************************************)
(* oxen/engine.py: QueryCache, results with an expiry, dropped in the order*)
(* of their last use, and PreparedStatementCache, statements dropped by    *)
(* their count of uses.  Both are plain objects: a call is one step.       *)
(***************************************************************************)
EXTENDS Integers, Sequences, FiniteSets

CONSTANTS
    Keys,         \* SQL texts, or the digests of SQL and parameters
    MaxSize,      \* max_size of the caches
    Ttls,         \* times to live asked for, in ticks
    MaxUses,      \* bound: calls that use a key
    MaxTime       \* bound: ticks of the clock

CachesAssumption ==
    /\ MaxSize \in Nat \ {0}
    /\ Ttls \subseteq Nat \ {0}
    /\ {MaxUses, MaxTime} \subseteq Nat

VARIABLES
    order,        \* QueryCache.cache, an OrderedDict: its keys in their order
    entry,        \* and its entries: when each was set, and its ttl
    now,
    statements,   \* PreparedStatementCache.statements: its keys, oldest first
    count,        \* access_count, a defaultdict: 0 for a key it has not
    uses,         \* history: calls that used a key
    used          \* history: which of them used the key last

vars == <<order, entry, now, statements, count, uses, used>>

CachesTypeOK ==
    /\ order \in Seq(Keys) /\ statements \in Seq(Keys)
    /\ entry \in [Keys -> [since : Nat, ttl : Ttls \cup {0}]]
    /\ now \in Nat
    /\ count \in [Keys -> Nat] /\ used \in [Keys -> Nat]
    /\ uses \in Nat

Init ==
    /\ order = <<>> /\ statements = <<>>
    /\ entry = [k \in Keys |-> [since |-> 0, ttl |-> 0]]
    /\ now = 1
    /\ count = [k \in Keys |-> 0]
    /\ uses = 0 /\ used = [k \in Keys |-> 0]

Members(seq) == {seq[i] : i \in 1 .. Len(seq)}

Without(seq, k) ==
    IF k \notin Members(seq) THEN seq
    ELSE LET i == CHOOSE i \in 1 .. Len(seq) : seq[i] = k
         IN  SubSeq(seq, 1, i - 1) \o SubSeq(seq, i + 1, Len(seq))

-----------------------------------------------------------------------------
(* QueryCache                                                               *)

Expired(k) == now > entry[k].since + entry[k].ttl

(* Mutant: an entry that answers keeps its place.                           *)
Stay(k) == order

MoveToEnd(k) == Append(Without(order, k), k)

Use(k) == uses' = uses + 1 /\ used' = [used EXCEPT ![k] = uses + 1]

Get(k) ==
    /\ uses < MaxUses
    /\ \/ /\ k \in Members(order) /\ ~Expired(k)
          /\ order' = MoveToEnd(k)
          /\ Use(k)
       \/ /\ k \in Members(order) /\ Expired(k)
          /\ order' = Without(order, k)
          /\ used' = [used EXCEPT ![k] = 0] /\ UNCHANGED uses
       \/ /\ k \notin Members(order)
          /\ UNCHANGED <<order, uses, used>>
    /\ UNCHANGED <<entry, now, statements, count>>

(* A full cache drops its first entry, but only for a key it does not hold. *)
Set(k, ttl) ==
    /\ uses < MaxUses
    /\ entry' = [entry EXCEPT ![k] = [since |-> now, ttl |-> ttl]]
    /\ order' = IF k \notin Members(order) /\ Len(order) >= MaxSize
                  THEN Append(Tail(order), k)
                  ELSE Append(Without(order, k), k)
    /\ Use(k)
    /\ UNCHANGED <<now, statements, count>>

Tick ==
    /\ now < MaxTime
    /\ now' = now + 1
    /\ UNCHANGED <<order, entry, statements, count, uses, used>>

Clear ==
    /\ order' = <<>>
    /\ used' = [k \in Keys |-> 0]
    /\ UNCHANGED <<entry, now, statements, count, uses>>

-----------------------------------------------------------------------------
(* PreparedStatementCache                                                   *)

Counted == {k \in Keys : count[k] > 0}

GetStatement(k) ==
    /\ uses < MaxUses
    /\ k \in Members(statements)
    /\ count' = [count EXCEPT ![k] = @ + 1]
    /\ uses' = uses + 1
    /\ UNCHANGED <<order, entry, now, statements, used>>

(* Python's min() takes the first of equal counts, in the order in which    *)
(* the keys came.                                                           *)
LeastUsed ==
    LET i == CHOOSE i \in 1 .. Len(statements) :
               \A j \in 1 .. Len(statements) :
                  \/ count[statements[i]] < count[statements[j]]
                  \/ count[statements[i]] = count[statements[j]] /\ i <= j
    IN  statements[i]

(* The counts once the statements given are gone and k has been set.        *)
CountsAfter(k) ==
    [count EXCEPT ![k] = 1,
                  ![LeastUsed] = IF k = LeastUsed THEN 1 ELSE 0]

(* At the limit the least used goes even when the key set is held already:  *)
(* another statement, or its own old one.                                   *)
SetStatement(k) ==
    /\ uses < MaxUses
    /\ LET full == Len(statements) >= MaxSize
           left == IF full THEN Without(statements, LeastUsed) ELSE statements
       IN /\ statements' = IF k \in Members(left) THEN left ELSE Append(left, k)
          /\ count' = IF full THEN CountsAfter(k) ELSE [count EXCEPT ![k] = 1]
    /\ uses' = uses + 1
    /\ UNCHANGED <<order, entry, now, used>>

ClearStatements ==
    /\ statements' = <<>>
    /\ count' = [k \in Keys |-> 0]
    /\ UNCHANGED <<order, entry, now, uses, used>>

Next ==
    \/ \E k \in Keys :
          \/ Get(k) \/ GetStatement(k) \/ SetStatement(k)
          \/ \E ttl \in Ttls : Set(k, ttl)
    \/ Tick \/ Clear \/ ClearStatements

Spec == Init /\ [][Next]_vars

-----------------------------------------------------------------------------
(* Properties                                                               *)

(* The results held are those used last, in the order of their last use,    *)
(* and never more than max_size: no result is dropped for another while one *)
(* used earlier stays, whatever gets, sets and expiries came between.       *)
LeastRecentlyUsedGoes ==
    /\ Len(order) <= MaxSize
    /\ \A i, j \in 1 .. Len(order) : i < j => used[order[i]] < used[order[j]]
    /\ \A k \in Keys \ Members(order) :
          \A held \in Members(order) : used[k] < used[held]

(* The statements and their counts have the same keys, max_size at most: an *)
(* eviction, which goes by the counts, always finds its statement.          *)
StatementsAreCounted ==
    /\ Len(statements) <= MaxSize
    /\ Members(statements) = Counted

CachesSound == LeastRecentlyUsedGoes /\ StatementsAreCounted
=============================================================================
