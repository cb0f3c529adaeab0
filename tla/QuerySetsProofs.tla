--------------------------- MODULE QuerySetsProofs ---------------------------
(* Theorems about QuerySets, for every table, every set of conditions and    *)
(* expressions, and any number of query sets.                                *)
EXTENDS QuerySets, FiniteSetTheorems, SequenceTheorems, TLAPS

-----------------------------------------------------------------------------
(* Sequences and numbers                                                     *)

LEMMA LargestNumber ==
    ASSUME NEW n \in Nat, NEW T \in SUBSET (1 .. n), T # {}
    PROVE  /\ Max(T) \in T
           /\ \A y \in T : y <= Max(T)
<1> DEFINE U == {n - x : x \in T}
           R == OpToRel(<, Nat)
<1>1. U \in SUBSET Nat /\ U # {}
  <2>1. \A x \in T : n - x \in Nat
    OBVIOUS
  <2>2. PICK x \in T : TRUE
    OBVIOUS
  <2>3. n - x \in U
    OBVIOUS
  <2> QED BY <2>1, <2>3
<1>2. PICK u \in U : \A y \in U : ~(<<y, u>> \in R)
  BY <1>1, NatLessThanWellFounded, WFMin, Zenon
<1>3. PICK x \in T : u = n - x
  OBVIOUS
<1>4. \A y \in T : x >= y
  <2> SUFFICES ASSUME NEW y \in T, ~(x >= y) PROVE FALSE
    OBVIOUS
  <2>1. n - y \in U /\ n - y \in Nat /\ u \in Nat /\ n - y < u
    BY <1>3
  <2> QED BY <1>2, <2>1 DEF OpToRel
<1>5. Max(T) \in T /\ \A y \in T : Max(T) >= y
  BY <1>4 DEF Max
<1> QED BY <1>5

(* A sequence of all members of a finite set, each of them once              *)
LEMMA Listing ==
    ASSUME NEW S, IsFiniteSet(S), NEW r \in SetToSeqs(S)
    PROVE  r \in Seq(S) /\ Len(r) = Cardinality(S) /\ ToSet(r) = S
<1> DEFINE D == 1 .. Cardinality(S)
<1>1. Cardinality(S) \in Nat
  BY FS_CardinalityType
<1>2. r \in [D -> S] /\ \A i, j \in D : i # j => r[i] # r[j]
  BY DEF SetToSeqs
<1>3. r \in Injection(D, S)
  BY <1>2 DEF Injection, IsInjective
<1>4. Cardinality(D) = Cardinality(S)
  BY <1>1, FS_Interval
<1>5. r \in Surjection(D, S)
  BY <1>3, <1>4, FS_Injection
<1>6. r \in Seq(S) /\ Len(r) = Cardinality(S)
  BY <1>1, <1>2
<1>7. ToSet(r) = S
  BY <1>2, <1>5 DEF ToSet, Surjection
<1> QED BY <1>6, <1>7

LEMMA HeadIsIn ==
    ASSUME NEW S, NEW w \in Seq(S)
    PROVE  ToSet(HeadOf(w)) \subseteq ToSet(w)
<1>1. CASE w = <<>>
  BY <1>1 DEF HeadOf
<1>2. CASE w # <<>>
  <2>1. 1 \in DOMAIN w /\ HeadOf(w) = <<w[1]>>
    BY <1>2, EmptySeq, LenProperties DEF HeadOf
  <2>2. ToSet(HeadOf(w)) = {w[1]}
    BY <2>1 DEF ToSet
  <2> QED BY <2>1, <2>2 DEF ToSet
<1> QED BY <1>1, <1>2

(* The first row from the offset on, if there is one                         *)
FirstOf(r, offset) ==
    LET from == Skipped(offset)
    IN IF from < Len(r) THEN <<r[from + 1]>> ELSE <<>>

(* A page of it                                                              *)
LEMMA Pages ==
    ASSUME NEW S, NEW r \in Seq(S),
           NEW limit \in Int \cup {None}, NEW offset \in Int \cup {None}
    PROVE  /\ Window(r, limit, offset) \in Seq(S)
           /\ ToSet(Window(r, limit, offset)) \subseteq ToSet(r)
           /\ limit # 0 => HeadOf(Window(r, limit, offset)) = FirstOf(r, offset)
<1> DEFINE from == Skipped(offset)
           to   == IF limit = None \/ limit < 0 THEN Len(r) ELSE from + limit
           end  == IF to < Len(r) THEN to ELSE Len(r)
           w    == Window(r, limit, offset)
<1>0. None \notin Int
  BY QuerySetAssumption
<1>1. from \in Nat /\ to \in Nat /\ end \in Nat /\ end <= Len(r) /\ Len(r) \in Nat
  BY <1>0, LenProperties DEF Skipped
<1>2. w = SubSeq(r, from + 1, end)
  BY DEF Window
<1>3. \A i \in (from + 1) .. end : r[i] \in S /\ i \in DOMAIN r
  BY <1>1, ElementOfSeq, LenProperties
<1>4. /\ w \in Seq(S)
      /\ Len(w) = IF from < end THEN end - from ELSE 0
      /\ \A i \in 1 .. end - from : w[i] = r[from + i]
  <2> HIDE DEF from, end
  <2>1. from + 1 \in Int /\ end \in Int
    BY <1>1
  <2>2. /\ SubSeq(r, from + 1, end) \in Seq(S)
        /\ Len(SubSeq(r, from + 1, end)) =
             IF from + 1 <= end THEN end - (from + 1) + 1 ELSE 0
        /\ \A i \in 1 .. end - (from + 1) + 1 :
             SubSeq(r, from + 1, end)[i] = r[(from + 1) + i - 1]
    BY <1>3, <2>1, SubSeqProperties
  <2> HIDE DEF w
  <2>3. end - (from + 1) + 1 = end - from /\ (from + 1 <= end <=> from < end)
    BY <1>1
  <2>4. w \in Seq(S) /\ Len(w) = IF from < end THEN end - from ELSE 0
    BY <1>2, <2>2, <2>3
  <2>5. ASSUME NEW i \in 1 .. end - from PROVE w[i] = r[from + i]
    <3>1. (from + 1) + i - 1 = from + i
      BY <1>1, <2>5
    <3> QED BY <1>2, <2>2, <2>3, <3>1
  <2> QED BY <2>4, <2>5
<1>5. ToSet(w) \subseteq ToSet(r)
  <2> SUFFICES ASSUME NEW i \in DOMAIN w PROVE w[i] \in ToSet(r)
    BY DEF ToSet
  <2>1. i \in 1 .. end - from /\ from + i \in (from + 1) .. end
    <3> HIDE DEF w, from, end
    <3>1. i \in 1 .. Len(w)
      BY <1>4, LenProperties
    <3> QED BY <1>1, <1>4, <3>1
  <2> QED BY <1>3, <1>4, <2>1 DEF ToSet
<1>6. limit # 0 => HeadOf(w) = IF from < Len(r) THEN <<r[from + 1]>> ELSE <<>>
  <2> SUFFICES ASSUME limit # 0
               PROVE  HeadOf(w) = IF from < Len(r) THEN <<r[from + 1]>> ELSE <<>>
    OBVIOUS
  <2>1. from < end <=> from < Len(r)
    BY <1>0, <1>1
  <2>2. CASE from < Len(r)
    <3>1. w # <<>> /\ w[1] = r[from + 1]
      BY <1>1, <1>4, <2>1, <2>2, EmptySeq
    <3> QED BY <2>2, <3>1 DEF HeadOf
  <2>3. CASE ~(from < Len(r))
    BY <1>4, <2>1, <2>3, EmptySeq DEF HeadOf
  <2> QED BY <2>2, <2>3
<1> QED BY <1>4, <1>5, <1>6 DEF FirstOf
LEMMA OnePage ==
    ASSUME NEW S, NEW r \in Seq(S), NEW offset \in Int \cup {None}
    PROVE  /\ Window(r, 1, offset) \in Seq(S)
           /\ HeadOf(Window(r, 1, offset)) = FirstOf(r, offset)
<1>1. 1 \in Int \cup {None} /\ 1 # 0
  OBVIOUS
<1> QED BY <1>1, Pages

-----------------------------------------------------------------------------
(* What a statement returns                                                  *)

Limits    == Int \cup {None}
Orderings == Seq([field : {"pk", "a"}, desc : BOOLEAN])
QuerySet  == [list : Nat, limit : Limits, offset : Limits, orderings : Orderings]

LEMMA RowsAreFinite ==
    /\ Rows \subseteq Ids /\ IsFiniteSet(Rows)
    /\ \A cond : Matching(cond) \subseteq Rows /\ IsFiniteSet(Matching(cond))
    /\ \A qs : /\ Counted(qs) \subseteq Rows /\ IsFiniteSet(Counted(qs))
              /\ Cardinality(Counted(qs)) \in 0 .. Cardinality(Ids)
<1>1. Rows \subseteq Ids /\ \A cond : Matching(cond) \subseteq Rows
  BY DEF Rows, Matching
<1>2. IsFiniteSet(Ids)
  BY QuerySetAssumption
<1>3. \A S \in SUBSET Ids : IsFiniteSet(S) /\ Cardinality(S) \in 0 .. Cardinality(Ids)
  <2> SUFFICES ASSUME NEW S \in SUBSET Ids
               PROVE  IsFiniteSet(S) /\ Cardinality(S) \in 0 .. Cardinality(Ids)
    OBVIOUS
  <2>1. IsFiniteSet(S) /\ Cardinality(S) <= Cardinality(Ids)
    BY <1>2, FS_Subset
  <2>2. Cardinality(S) \in Nat /\ Cardinality(Ids) \in Nat
    BY <1>2, <2>1, FS_CardinalityType
  <2> QED BY <2>1, <2>2
<1>4. \A qs : Counted(qs) \subseteq Rows
  BY <1>1 DEF Counted
<1> QED BY <1>1, <1>3, <1>4

(* When SQLite refuses the statement                                         *)
Refused(set, qs) ==
    Serialisable(Gathered(qs)) /\ set.offset # None /\ set.limit = None

(* The rows it has in some order, and the page of them that is returned      *)
PageOf(set, qs, r) ==
    IF Serialisable(Gathered(qs)) THEN Window(r, set.limit, set.offset) ELSE r

LEMMA Results ==
    ASSUME NEW op, NEW s, NEW set \in QuerySet, NEW qs, NEW a \in Execute(op, s, set, qs)
    PROVE  \/ Refused(set, qs) /\ a = Raises(op, s)
           \/ /\ ~Refused(set, qs)
              /\ \E r \in SetToSeqs(Counted(qs)) :
                    /\ a = Returns(op, s, PageOf(set, qs, r))
                    /\ Serialisable(Gathered(qs)) =>
                           r \in Sorted(Matching(Gathered(qs)), set.orderings)
<1> USE DEF Refused, PageOf
<1>1. CASE ~Serialisable(Gathered(qs))
  BY <1>1 DEF Execute, Counted
<1>2. CASE Serialisable(Gathered(qs)) /\ set.offset # None /\ set.limit = None
  BY <1>2 DEF Execute
<1>3. CASE Serialisable(Gathered(qs)) /\ ~(set.offset # None /\ set.limit = None)
  BY <1>3 DEF Execute, Counted, Sorted
<1> QED BY <1>1, <1>2, <1>3

(* What a query set shows without its limits: the rows that count() counts.  *)
LEMMA ShownWith ==
    ASSUME NEW s, sets[s] \in QuerySet, NEW qs, NEW shown \in Showing(s, qs)
    PROVE  shown = Counted(qs)
<1> DEFINE set == [sets[s] EXCEPT !.limit = None, !.offset = None]
<1>1. PICK a \in Execute("select", s, set, qs) : shown = ToSet(a.rows)
  BY DEF Showing
<1>2. set \in QuerySet /\ set.limit = None /\ set.offset = None
  BY DEF QuerySet, Limits
<1>3. PICK r \in SetToSeqs(Counted(qs)) : a = Returns("select", s, PageOf(set, qs, r))
  <2>1. ~Refused(set, qs)
    BY <1>2 DEF Refused
  <2> HIDE DEF set
  <2>2. set \in QuerySet /\ a \in Execute("select", s, set, qs)
    BY <1>1, <1>2
  <2>3. \/ Refused(set, qs) /\ a = Raises("select", s)
        \/ /\ ~Refused(set, qs)
           /\ \E r \in SetToSeqs(Counted(qs)) :
                 /\ a = Returns("select", s, PageOf(set, qs, r))
                 /\ Serialisable(Gathered(qs)) =>
                        r \in Sorted(Matching(Gathered(qs)), set.orderings)
    BY ONLY <2>2, Results
  <2> QED BY <2>1, <2>3
<1>4. a.rows = PageOf(set, qs, r)
  BY <1>3 DEF Returns, NoAnswer
<1>5. r \in Seq(Counted(qs)) /\ ToSet(r) = Counted(qs)
  BY RowsAreFinite, Listing
<1>6. Window(r, None, None) = r
  BY <1>5, SubSeqFull, LenProperties DEF Window, Skipped
<1> QED BY <1>1, <1>2, <1>4, <1>5, <1>6 DEF PageOf

LEMMA Shown ==
    ASSUME NEW s, sets[s] \in QuerySet, NEW shown \in Unlimited(s)
    PROVE  shown = Counted(List(s))
  BY ShownWith DEF Unlimited

-----------------------------------------------------------------------------
(* The lists of query sets                                                   *)

Arguments == {Q(c) : c \in Conditions} \cup Expressions
Asking    == [q : Arguments, negate : BOOLEAN]
Cells     == {{}} \cup {One(v) : v \in Values \cup {None}}

(* Every query set has a list of its own, with the arguments it got.         *)
OwnLists ==
    \A s \in 1 .. Len(sets) :
        /\ sets[s].list = s
        /\ Len(lists[s]) = Len(asked[s])
        /\ \A n \in 1 .. Len(asked[s]) : lists[s][n] = asked[s][n].q

Typed ==
    /\ sets \in Seq(QuerySet) /\ sets # <<>>
    /\ asked \in Seq(Seq(Asking)) /\ Len(asked) = Len(sets)
    /\ lists \in Seq(Seq(Arguments)) /\ Len(lists) = Len(sets)

AnswerTyped ==
    /\ answer.of \in 1 .. Len(sets) /\ answer.n \in 0 .. Cardinality(Ids)
    /\ ToSet(answer.rows) \subseteq Ids

Inv == table \in [Ids -> Cells] /\ Typed /\ OwnLists /\ AnswerTyped

LEMMA SetsAre ==
    ASSUME Typed
    PROVE  /\ DOMAIN sets = 1 .. Len(sets) /\ Len(sets) \in Nat \ {0}
           /\ \A s \in DOMAIN sets : /\ sets[s] \in QuerySet
                                    /\ asked[s] \in Seq(Asking)
                                    /\ lists[s] \in Seq(Arguments)
<1>1. DOMAIN sets = 1 .. Len(sets) /\ Len(sets) \in Nat \ {0}
  BY LenProperties, EmptySeq DEF Typed
<1>2. \A s \in 1 .. Len(sets) : /\ sets[s] \in QuerySet
                                 /\ asked[s] \in Seq(Asking)
                                 /\ lists[s] \in Seq(Arguments)
  BY ElementOfSeq DEF Typed
<1> QED BY <1>1, <1>2

LEMMA InitInv == Init => Inv
<1> SUFFICES ASSUME Init PROVE Inv
  OBVIOUS
<1>1. table \in [Ids -> Cells]
  BY DEF Init, Cells
<1>2. sets = <<[list |-> 1, limit |-> None, offset |-> None, orderings |-> <<>>]>>
      /\ lists = <<<<>>>> /\ asked = <<<<>>>>
  BY DEF Init
<1>3. Typed
  BY <1>2 DEF Typed, QuerySet, Limits, Orderings
<1>4. OwnLists
  BY <1>2 DEF OwnLists
<1>5. AnswerTyped
  <2>1. IsFiniteSet(Ids) /\ Cardinality(Ids) \in Nat
    BY QuerySetAssumption, FS_CardinalityType
  <2>2. answer.of = 1 /\ answer.n = 0 /\ answer.rows = <<>>
    BY DEF Init, NoAnswer
  <2>3. ToSet(answer.rows) = {}
    BY <2>2 DEF ToSet
  <2> QED BY <1>2, <2>1, <2>2, <2>3 DEF AnswerTyped
<1> QED BY <1>1, <1>3, <1>4, <1>5 DEF Inv

(* A derived query set gets a list of its own, and no other one changes.     *)
LEMMA DeriveStep ==
    ASSUME Inv, NEW s \in DOMAIN sets, NEW clone \in QuerySet, clone.list = Len(lists) + 1,
           NEW args \in Seq(Asking), Derive(s, clone, args)
    PROVE  Inv' /\ \A t \in DOMAIN sets : List(t)' = List(t)
<1> DEFINE N   == Len(sets)
           qs  == [n \in DOMAIN args |-> args[n].q]
           all == lists[s] \o qs
<1> USE DEF Inv
<1>1. /\ N \in Nat \ {0} /\ DOMAIN sets = 1 .. N /\ s \in 1 .. N
      /\ sets[s] \in QuerySet /\ asked[s] \in Seq(Asking) /\ lists[s] \in Seq(Arguments)
      /\ Len(lists) = N /\ Len(asked) = N /\ sets[s].list = s
  BY SetsAre DEF Typed, OwnLists
<1>2. qs \in Seq(Arguments) /\ Len(qs) = Len(args) /\ Len(args) \in Nat
      /\ \A n \in 1 .. Len(args) : qs[n] = args[n].q
  <2>1. Len(args) \in Nat /\ DOMAIN args = 1 .. Len(args)
    BY LenProperties
  <2>2. \A n \in 1 .. Len(args) : args[n] \in Asking
    BY ElementOfSeq
  <2>3. \A n \in 1 .. Len(args) : args[n].q \in Arguments
    BY <2>2 DEF Asking
  <2> QED BY <2>1, <2>3
<1>3. /\ all \in Seq(Arguments) /\ Len(all) = Len(asked[s]) + Len(args)
      /\ \A n \in 1 .. Len(all) : all[n] = IF n <= Len(asked[s]) THEN lists[s][n]
                                                         ELSE qs[n - Len(asked[s])]
  <2>1. Len(lists[s]) = Len(asked[s])
    BY <1>1 DEF OwnLists
  <2> HIDE DEF qs
  <2>0. lists[s] \in Seq(Arguments) /\ qs \in Seq(Arguments)
    BY <1>1, <1>2
  <2>2. /\ lists[s] \o qs \in Seq(Arguments)
        /\ Len(lists[s] \o qs) = Len(lists[s]) + Len(qs)
        /\ \A n \in 1 .. Len(lists[s]) + Len(qs) : (lists[s] \o qs)[n] =
               IF n <= Len(lists[s]) THEN lists[s][n] ELSE qs[n - Len(lists[s])]
    BY ONLY <2>0, ConcatProperties
  <2> QED BY <1>2, <2>1, <2>2
<1>4. /\ sets' \in Seq(QuerySet) /\ Len(sets') = N + 1 /\ sets'[N + 1] = clone
      /\ \A t \in 1 .. N : sets'[t] = sets[t]
  BY <1>1, AppendProperties DEF Derive, Typed
<1>5. /\ asked' \in Seq(Seq(Asking)) /\ Len(asked') = N + 1
      /\ asked'[N + 1] = asked[s] \o args
      /\ \A t \in 1 .. N : asked'[t] = asked[t]
  <2>1. asked[s] \o args \in Seq(Asking) /\ asked' = Append(asked, asked[s] \o args)
    BY <1>1, ConcatProperties DEF Derive
  <2> DEFINE got == asked[s] \o args
  <2> HIDE DEF got
  <2>2. asked \in Seq(Seq(Asking)) /\ got \in Seq(Asking)
    BY <2>1 DEF Typed, got
  <2>3. /\ Append(asked, got) \in Seq(Seq(Asking))
        /\ Len(Append(asked, got)) = Len(asked) + 1
        /\ \A t \in 1 .. Len(asked) : Append(asked, got)[t] = asked[t]
        /\ Append(asked, got)[Len(asked) + 1] = got
    BY ONLY <2>2, AppendProperties
  <2> QED BY <1>1, <2>1, <2>3 DEF got
<1>6. /\ lists' \in Seq(Seq(Arguments)) /\ Len(lists') = N + 1 /\ lists'[N + 1] = all
      /\ \A t \in 1 .. N : lists'[t] = lists[t]
  <2> DEFINE longer == Append(lists, lists[s])
  <2>1. /\ longer \in Seq(Seq(Arguments)) /\ Len(longer) = N + 1 /\ longer[N + 1] = lists[s]
        /\ \A t \in 1 .. N : longer[t] = lists[t]
    BY <1>1, AppendProperties DEF Typed
  <2>2. lists' = [longer EXCEPT ![N + 1] = longer[N + 1] \o qs]
    BY <1>1 DEF Derive
  <2> HIDE DEF longer, qs
  <2>3. lists' = [longer EXCEPT ![N + 1] = all]
    BY <2>1, <2>2
  <2> HIDE DEF all
  <2>4. N + 1 \in 1 .. Len(longer)
    BY <1>1, <2>1
  <2>5. longer \in Seq(Seq(Arguments)) /\ N + 1 \in 1 .. Len(longer) /\ all \in Seq(Arguments)
    BY ONLY <1>3, <2>1, <2>4
  <2> DEFINE kept == [longer EXCEPT ![N + 1] = all]
  <2>6. /\ kept \in Seq(Seq(Arguments)) /\ Len(kept) = Len(longer)
        /\ kept[N + 1] = all /\ \A t \in 1 .. Len(longer) : t # N + 1 => kept[t] = longer[t]
    BY ONLY <2>5, ExceptSeq
  <2> HIDE DEF kept
  <2> QED BY <1>1, <2>1, <2>3, <2>6 DEF kept
<1>7. Typed'
  BY <1>1, <1>4, <1>5, <1>6, EmptySeq DEF Typed
<1>8. OwnLists'
  <2> SUFFICES ASSUME NEW t \in 1 .. (N + 1)
               PROVE  /\ sets'[t].list = t
                      /\ Len(lists'[t]) = Len(asked'[t])
                      /\ \A n \in 1 .. Len(asked'[t]) : lists'[t][n] = asked'[t][n].q
    BY <1>4 DEF OwnLists
  <2>1. CASE t \in 1 .. N
    <3>1. sets'[t] = sets[t] /\ lists'[t] = lists[t] /\ asked'[t] = asked[t]
      BY <1>4, <1>5, <1>6, <2>1
    <3> QED BY <2>1, <3>1 DEF OwnLists
  <2>2. CASE t = N + 1
    <3>1. /\ Len(asked[s] \o args) = Len(asked[s]) + Len(args)
          /\ \A n \in 1 .. Len(asked[s]) + Len(args) :
                (asked[s] \o args)[n] = IF n <= Len(asked[s]) THEN asked[s][n]
                                                    ELSE args[n - Len(asked[s])]
      BY <1>1, ConcatProperties
    <3>2. \A n \in 1 .. Len(asked[s]) + Len(args) : all[n] = (asked[s] \o args)[n].q
      <4> SUFFICES ASSUME NEW n \in 1 .. Len(asked[s]) + Len(args)
                   PROVE  all[n] = (asked[s] \o args)[n].q
        OBVIOUS
      <4>1. Len(asked[s]) \in Nat
        BY <1>1, LenProperties
      <4> HIDE DEF all, qs
      <4>2. CASE n <= Len(asked[s])
        <5>1. n \in 1 .. Len(asked[s])
          BY <4>1, <4>2
        <5>2. lists[s][n] = asked[s][n].q
          BY <1>1, <5>1 DEF OwnLists
        <5>3. n \in 1 .. Len(all)
          BY <1>3
        <5> QED BY <1>3, <3>1, <4>2, <5>2, <5>3
      <4>3. CASE ~(n <= Len(asked[s]))
        <5>1. n - Len(asked[s]) \in 1 .. Len(args)
          BY <1>2, <4>1, <4>3
        <5> QED BY <1>2, <1>3, <3>1, <4>3, <5>1
      <4> QED BY <4>2, <4>3
    <3> HIDE DEF all
    <3> QED BY <1>1, <1>3, <1>4, <1>5, <1>6, <2>2, <3>1, <3>2
  <2>3. t \in 1 .. N \/ t = N + 1
    <3>1. N \in Nat
      BY <1>1
    <3> HIDE DEF N
    <3> QED BY ONLY <3>1, t \in 1 .. N + 1
  <2> QED BY ONLY <2>1, <2>2, <2>3
<1>9. table' \in [Ids -> Cells] /\ AnswerTyped'
  BY <1>1, <1>4 DEF Derive, AnswerTyped
<1>10. \A t \in DOMAIN sets : List(t)' = List(t)
  <2> SUFFICES ASSUME NEW t \in 1 .. N PROVE lists'[sets'[t].list] = lists[sets[t].list]
    BY <1>1 DEF List
  <2>1. sets[t].list = t
    BY DEF OwnLists
  <2> QED BY <1>4, <1>6, <2>1
<1> QED BY <1>7, <1>8, <1>9, <1>10

(* Every step of building is such a one.                                     *)
LEMMA BuildStep ==
    ASSUME Inv, NEW s \in DOMAIN sets, Build(s)
    PROVE  Inv' /\ \A t \in DOMAIN sets : List(t)' = List(t)
<1>1. sets[s] \in QuerySet /\ Len(lists) + 1 \in Nat
  BY SetsAre, LenProperties DEF Inv, Typed
<1>2. Clone(s) = [sets[s] EXCEPT !.list = Len(lists) + 1]
  BY DEF Clone
<1>3. Clone(s) \in QuerySet /\ Clone(s).list = Len(lists) + 1
  BY <1>1, <1>2 DEF QuerySet
<1>4. <<>> \in Seq(Asking)
  OBVIOUS
<1>5. Windows \subseteq Int
  BY QuerySetAssumption
<1>6. ASSUME NEW q \in Arguments, NEW negate \in BOOLEAN, FilterOrExclude(s, q, negate)
      PROVE  Inv' /\ \A t \in DOMAIN sets : List(t)' = List(t)
  <2>1. <<[q |-> q, negate |-> negate]>> \in Seq(Asking)
    BY DEF Asking
  <2>2. Derive(s, Clone(s), <<[q |-> q, negate |-> negate]>>)
    BY <1>6 DEF FilterOrExclude
  <2> QED BY <1>3, <2>1, <2>2, DeriveStep
<1>7. ASSUME NEW clone, clone \in QuerySet, clone.list = Len(lists) + 1,
             Derive(s, clone, <<>>)
      PROVE  Inv' /\ \A t \in DOMAIN sets : List(t)' = List(t)
  BY <1>4, <1>7, DeriveStep
<1>8. ASSUME NEW field \in {"pk", "a"}, NEW desc \in BOOLEAN, OrderBy(s, field, desc)
      PROVE  Inv' /\ \A t \in DOMAIN sets : List(t)' = List(t)
  <2> DEFINE more  == Append(Clone(s).orderings, [field |-> field, desc |-> desc])
             clone == [Clone(s) EXCEPT !.orderings = more]
  <2>1. more \in Orderings
    BY <1>3, AppendProperties DEF QuerySet, Orderings
  <2> HIDE DEF more
  <2>2. clone \in QuerySet /\ clone.list = Len(lists) + 1
    BY <1>3, <2>1 DEF QuerySet
  <2>3. Derive(s, clone, <<>>)
    BY <1>8 DEF OrderBy, more
  <2> QED BY <1>7, <2>2, <2>3
<1>9. ASSUME NEW n \in Windows, Limit(s, n) \/ Offset(s, n)
      PROVE  Inv' /\ \A t \in DOMAIN sets : List(t)' = List(t)
  <2>1. n \in Limits
    BY <1>5 DEF Limits
  <2>2. /\ [Clone(s) EXCEPT !.limit = n] \in QuerySet
        /\ [Clone(s) EXCEPT !.limit = n].list = Len(lists) + 1
        /\ [Clone(s) EXCEPT !.offset = n] \in QuerySet
        /\ [Clone(s) EXCEPT !.offset = n].list = Len(lists) + 1
    BY <1>3, <2>1 DEF QuerySet
  <2> QED BY <1>7, <1>9, <2>2 DEF Limit, Offset
<1>10. ASSUME NEW start \in Windows \cup {None}, NEW stop \in Windows \cup {None},
              Slice(s, start, stop)
       PROVE  Inv' /\ \A t \in DOMAIN sets : List(t)' = List(t)
  <2> DEFINE limit  == IF stop = None THEN sets[s].limit
                       ELSE IF start = None THEN stop ELSE stop - start
             offset == IF start = None THEN Clone(s).offset ELSE start
             clone  == [Clone(s) EXCEPT !.limit = limit, !.offset = offset]
  <2>0. /\ sets[s].limit \in Limits /\ Clone(s).offset \in Limits
        /\ start # None => start \in Int /\ start \in Limits
        /\ stop # None => stop \in Int /\ stop \in Limits
    BY <1>1, <1>3, <1>5 DEF QuerySet, Limits
  <2>a. start # None /\ stop # None => stop - start \in Limits
    BY <2>0 DEF Limits
  <2>1. limit \in Limits /\ offset \in Limits
    BY <2>0, <2>a, Zenon
  <2>2. clone = [Clone(s) EXCEPT !.limit = limit,
                   !.offset = IF start = None THEN @ ELSE start]
    OBVIOUS
  <2>3. Derive(s, clone, <<>>)
    BY <1>10, <2>2 DEF Slice
  <2> HIDE DEF limit, offset
  <2>4. clone \in QuerySet /\ clone.list = Len(lists) + 1
    BY <1>3, <2>1 DEF QuerySet
  <2> QED BY <1>7, <2>3, <2>4
<1>11. ASSUME Copy(s) PROVE Inv' /\ \A t \in DOMAIN sets : List(t)' = List(t)
  BY <1>3, <1>7, <1>11 DEF Copy
<1> QED BY <1>6, <1>8, <1>9, <1>10, <1>11 DEF Build, Arguments

-----------------------------------------------------------------------------
(* The answers                                                               *)

(* What the answers rest on does not change while they are given.            *)
LEMMA SameResults ==
    ASSUME UNCHANGED <<table, lists, sets>>
    PROVE  /\ \A s : Selected(s)' = Selected(s) /\ List(s)' = List(s)
           /\ \A s, qs : Showing(s, qs)' = Showing(s, qs)
  BY DEF Selected, Showing, Execute, List, Rows, Column, Matching, Sorted, Before, Key

(* An answer that agreed before such a step agrees after it.                 *)
LEMMA SameAgreement ==
    ASSUME UNCHANGED <<table, lists, sets>>, \A s \in DOMAIN sets : answer'.of = s => Agrees(answer', s)
    PROVE  AnswersAgree'
<1>1. /\ \A s : Selected(s)' = Selected(s) /\ List(s)' = List(s)
      /\ \A s, qs : Showing(s, qs)' = Showing(s, qs)
  BY SameResults
<1>2. \A s : Unlimited(s)' = Unlimited(s)
  BY <1>1 DEF Unlimited
<1>3. ASSUME NEW s \in DOMAIN sets, answer'.of = s PROVE Agrees(answer, s)'
  <2>1. Agrees(answer', s)
    BY <1>3
  <2>2. FindsOne(answer', s, List(s) \o answer'.args) =>
            FindsOne(answer, s, List(s) \o answer.args)'
    BY <1>1 DEF FindsOne
  <2> QED BY <1>1, <1>2, <2>1, <2>2 DEF Agrees
<1> QED BY <1>3 DEF AnswersAgree

AnswerOf(a, s) ==
    /\ a.of = s /\ a.n \in 0 .. Cardinality(Ids) /\ ToSet(a.rows) \subseteq Ids

LEMMA AskStep ==
    ASSUME Inv, NEW s \in DOMAIN sets, NEW results, Ask(results),
           \A a \in results : AnswerOf(a, s) /\ Agrees(a, s)
    PROVE  Inv' /\ AnswersAgree'
<1>1. answer' \in results /\ UNCHANGED <<table, lists, sets, asked>>
  BY DEF Ask
<1>2. AnswerOf(answer', s) /\ Agrees(answer', s)
  BY <1>1
<1>3. Inv'
  BY <1>1, <1>2, SetsAre DEF Inv, Typed, OwnLists, AnswerTyped, AnswerOf
<1>4. AnswersAgree'
  BY <1>1, <1>2, SameAgreement DEF AnswerOf
<1> QED BY <1>3, <1>4

(* An answer about neither counts nor single rows agrees with anything.      *)
LEMMA OtherAnswers ==
    ASSUME NEW a, NEW s, a.op \notin {"count", "exists"} \cup OneRowCalls
    PROVE  Agrees(a, s)
  BY DEF Agrees, OneRowCalls

LEMMA ResultIsAnswer ==
    ASSUME NEW op, NEW s, NEW set \in QuerySet, NEW qs, NEW a \in Execute(op, s, set, qs)
    PROVE  a.op = op /\ AnswerOf(a, s) /\ a.rows \in Seq(Rows)
<1>0. 0 \in 0 .. Cardinality(Ids)
  BY QuerySetAssumption, FS_CardinalityType
<1>1. CASE a = Raises(op, s)
  <2>1. a.op = op /\ a.of = s /\ a.n = 0 /\ a.rows = <<>>
    BY <1>1 DEF Raises, NoAnswer
  <2>2. ToSet(a.rows) = {} /\ a.rows \in Seq(Rows)
    BY <2>1 DEF ToSet
  <2> QED BY <1>0, <2>1, <2>2 DEF AnswerOf
<1>2. ASSUME NEW r \in SetToSeqs(Counted(qs)), a = Returns(op, s, PageOf(set, qs, r))
      PROVE  a.op = op /\ AnswerOf(a, s) /\ a.rows \in Seq(Rows)
  <2>1. a.op = op /\ a.of = s /\ a.n = 0 /\ a.rows = PageOf(set, qs, r)
    BY <1>2 DEF Returns, NoAnswer
  <2>2. Counted(qs) \subseteq Rows /\ IsFiniteSet(Counted(qs)) /\ Rows \subseteq Ids
    BY RowsAreFinite
  <2>3. r \in Seq(Counted(qs)) /\ ToSet(r) = Counted(qs)
    BY <2>2, Listing
  <2>4. set.limit \in Int \cup {None} /\ set.offset \in Int \cup {None}
    BY DEF QuerySet, Limits
  <2>5. a.rows \in Seq(Counted(qs)) /\ ToSet(a.rows) \subseteq ToSet(r)
    <3>1. /\ Window(r, set.limit, set.offset) \in Seq(Counted(qs))
          /\ ToSet(Window(r, set.limit, set.offset)) \subseteq ToSet(r)
      BY ONLY <2>3, <2>4, QuerySetAssumption, Pages
    <3> QED BY <2>1, <2>3, <3>1 DEF PageOf
  <2>6. a.rows \in Seq(Rows)
    BY <2>2, <2>5, SeqMonotonic
  <2> QED BY <1>0, <2>1, <2>2, <2>3, <2>5, <2>6 DEF AnswerOf
<1>3. \/ Refused(set, qs) /\ a = Raises(op, s)
      \/ /\ ~Refused(set, qs)
         /\ \E r \in SetToSeqs(Counted(qs)) :
               /\ a = Returns(op, s, PageOf(set, qs, r))
               /\ Serialisable(Gathered(qs)) =>
                      r \in Sorted(Matching(Gathered(qs)), set.orderings)
  BY Results
<1> QED BY <1>1, <1>2, <1>3

Answer(op, s) == [op : {op}, of : {s}, args : {<<>>}, raised : BOOLEAN,
                  rows : Seq(Rows), n : {0}]

LEMMA SingleIsAnswer ==
    ASSUME NEW op, NEW s, NEW set \in QuerySet, NEW qs, NEW required \in BOOLEAN,
           NEW b \in Single(Execute(op, s, set, qs), required)
    PROVE  /\ b \in Answer(op, s) /\ AnswerOf(b, s)
           /\ \E a \in Execute(op, s, set, qs) :
                 /\ b.rows = HeadOf(a.rows)
                 /\ b.raised <=> a.raised \/ (required /\ a.rows = <<>>)
<1>1. PICK a \in Execute(op, s, set, qs) :
         b = IF a.rows = <<>> /\ required THEN [a EXCEPT !.raised = TRUE]
             ELSE [a EXCEPT !.rows = HeadOf(@)]
  BY DEF Single
<1>2. a.op = op /\ AnswerOf(a, s) /\ a.rows \in Seq(Rows)
  BY ResultIsAnswer
<1>3. a \in Answer(op, s)
  <2>1. a = Raises(op, s) \/ \E rows : a = Returns(op, s, rows)
    BY Results
  <2> QED BY <1>2, <2>1 DEF Raises, Returns, NoAnswer, Answer
<1>4. ToSet(HeadOf(a.rows)) \subseteq ToSet(a.rows)
  BY <1>2, HeadIsIn
<1>5. HeadOf(a.rows) \in Seq(Rows)
  <2> DEFINE rows == a.rows
  <2> HIDE DEF rows
  <2>1. rows \in Seq(Rows)
    BY <1>2 DEF rows
  <2>2. rows # <<>> => rows[1] \in Rows
    BY <2>1, EmptySeq, ElementOfSeq
  <2>3. HeadOf(rows) \in Seq(Rows)
    BY <2>1, <2>2 DEF HeadOf
  <2> QED BY <2>3 DEF rows
<1>6. CASE a.rows = <<>> /\ required
  <2>1. b \in Answer(op, s) /\ b.rows = a.rows /\ b.raised = TRUE /\ b.of = a.of /\ b.n = a.n
    BY <1>1, <1>3, <1>6 DEF Answer
  <2> QED BY <1>2, <1>6, <2>1 DEF AnswerOf, HeadOf
<1>7. CASE ~(a.rows = <<>> /\ required)
  <2>1. b \in Answer(op, s) /\ b.rows = HeadOf(a.rows) /\ b.raised = a.raised
        /\ b.of = a.of /\ b.n = a.n
    BY <1>1, <1>3, <1>5, <1>7 DEF Answer
  <2>2. a.raised \in BOOLEAN
    BY <1>3 DEF Answer
  <2> QED BY <1>2, <1>4, <1>7, <2>1, <2>2 DEF AnswerOf
<1> QED BY <1>6, <1>7

(* The query set that first, last, latest, earliest and get ask for one row  *)
LEMMA OneRow ==
    ASSUME NEW set \in QuerySet, NEW orderings \in Orderings
    PROVE  /\ [set EXCEPT !.limit = 1] \in QuerySet
           /\ [set EXCEPT !.limit = 1, !.orderings = orderings] \in QuerySet
           /\ [set EXCEPT !.limit = 1, !.orderings = orderings].limit # None
           /\ [set EXCEPT !.limit = 1].limit # None
<1>1. 1 # None
  BY QuerySetAssumption
<1>2. [set EXCEPT !.limit = 1] \in QuerySet /\ [set EXCEPT !.limit = 1].limit = 1
  BY DEF QuerySet, Limits
<1>3. /\ [set EXCEPT !.limit = 1, !.orderings = orderings] \in QuerySet
      /\ [set EXCEPT !.limit = 1, !.orderings = orderings].limit = 1
  <2> DEFINE one == [set EXCEPT !.limit = 1]
  <2>1. [set EXCEPT !.limit = 1, !.orderings = orderings] = [one EXCEPT !.orderings = orderings]
    BY DEF QuerySet
  <2> HIDE DEF one
  <2>2. [one EXCEPT !.orderings = orderings] \in QuerySet
        /\ [one EXCEPT !.orderings = orderings].limit = one.limit
    BY <1>2 DEF QuerySet, one
  <2> QED BY <1>2, <2>1, <2>2 DEF one
<1> QED BY <1>1, <1>2, <1>3

(* Every order of the rows that the orderings allow may be returned.         *)
LEMMA MayReturn ==
    ASSUME NEW op, NEW s, NEW set \in QuerySet, NEW qs, NEW r \in SetToSeqs(Counted(qs)),
           Serialisable(Gathered(qs)) => r \in Sorted(Matching(Gathered(qs)), set.orderings)
    PROVE  IF Refused(set, qs) THEN Raises(op, s) \in Execute(op, s, set, qs)
           ELSE Returns(op, s, PageOf(set, qs, r)) \in Execute(op, s, set, qs)
<1>1. CASE ~Serialisable(Gathered(qs))
  BY <1>1 DEF Execute, Counted, Refused, PageOf
<1>2. CASE Refused(set, qs)
  BY <1>2 DEF Execute, Refused
<1>3. CASE Serialisable(Gathered(qs)) /\ ~Refused(set, qs)
  BY <1>3 DEF Execute, Refused, PageOf
<1> QED BY <1>1, <1>2, <1>3

LEMMA HeadIsEmpty ==
    ASSUME NEW S, NEW w \in Seq(S)
    PROVE  /\ HeadOf(w) = <<>> <=> w = <<>>
           /\ ToSet(w) = {} <=> w = <<>>
<1>1. Len(w) \in Nat /\ DOMAIN w = 1 .. Len(w) /\ (w # <<>> => Len(w) # 0)
  BY LenProperties, EmptySeq
<1>2. w # <<>> => HeadOf(w) # <<>>
  BY DEF HeadOf
<1>3. w # <<>> => 1 \in DOMAIN w
  BY <1>1
<1>4. w = <<>> => HeadOf(w) = <<>> /\ ToSet(w) = {}
  BY DEF HeadOf, ToSet
<1> QED BY <1>2, <1>3, <1>4 DEF ToSet

(* A call for one row returns one of those shown, if the offset leaves one.  *)
LEMMA OneIsFound ==
    ASSUME NEW op, NEW s, sets[s] \in QuerySet,
           NEW set \in QuerySet, set.limit = 1, set.offset = sets[s].offset, NEW qs,
           NEW required \in BOOLEAN, required <=> op \in Required,
           NEW b \in Single(Execute(op, s, set, qs), required)
    PROVE  FindsOne(b, s, qs)
<1> DEFINE from == IF Serialisable(Gathered(qs)) THEN Skipped(set.offset) ELSE 0
<1>1. b \in Answer(op, s)
      /\ \E a \in Execute(op, s, set, qs) :
            /\ b.rows = HeadOf(a.rows)
            /\ b.raised <=> a.raised \/ (required /\ a.rows = <<>>)
  BY SingleIsAnswer
<1>2. PICK a \in Execute(op, s, set, qs) :
         b.rows = HeadOf(a.rows) /\ (b.raised <=> a.raised \/ (required /\ a.rows = <<>>))
  BY <1>1
<1>3. \/ Refused(set, qs) /\ a = Raises(op, s)
      \/ /\ ~Refused(set, qs)
         /\ \E r \in SetToSeqs(Counted(qs)) :
               /\ a = Returns(op, s, PageOf(set, qs, r))
               /\ Serialisable(Gathered(qs)) =>
                      r \in Sorted(Matching(Gathered(qs)), set.orderings)
  BY Results
<1>4. PICK r \in SetToSeqs(Counted(qs)) : a = Returns(op, s, PageOf(set, qs, r))
  BY <1>3, QuerySetAssumption DEF Refused
<1>5. ~a.raised /\ a.rows = PageOf(set, qs, r)
  BY <1>4 DEF Returns, NoAnswer
<1>6. r \in Seq(Counted(qs)) /\ Len(r) = Cardinality(Counted(qs))
  BY RowsAreFinite, Listing
<1>7. Len(r) \in Nat /\ (r = <<>> <=> Len(r) = 0)
  BY <1>6, LenProperties, EmptySeq
<1>8. from \in Nat
  BY DEF QuerySet, Limits, Skipped
<1>9. /\ a.rows \in Seq(Counted(qs))
      /\ HeadOf(a.rows) = IF from < Len(r) THEN <<r[from + 1]>> ELSE <<>>
  <2>1. CASE Serialisable(Gathered(qs))
    <3>1. set.offset \in Int \cup {None}
      BY DEF QuerySet, Limits
    <3>2. /\ Window(r, 1, set.offset) \in Seq(Counted(qs))
          /\ HeadOf(Window(r, 1, set.offset)) = FirstOf(r, set.offset)
      BY <1>6, <3>1, OnePage
    <3> QED BY <1>5, <2>1, <3>2 DEF PageOf, FirstOf
  <2>2. CASE ~Serialisable(Gathered(qs))
    BY <1>5, <1>6, <1>7, <2>2 DEF PageOf, HeadOf
  <2> QED BY <2>1, <2>2
<1>10. HeadOf(a.rows) = <<>> <=> a.rows = <<>>
  BY <1>9, HeadIsEmpty
<1> HIDE DEF from
<1>11. from < Len(r) => r[from + 1] \in Counted(qs)
  BY <1>6, <1>7, <1>8, ElementOfSeq
<1>12. IF from < Len(r) THEN b.rows = <<r[from + 1]>> /\ ~b.raised
                       ELSE b.rows = <<>> /\ (b.raised <=> required)
  BY <1>2, <1>5, <1>9, <1>10
<1>13. b.op = op
  BY <1>1 DEF Answer
<1>14. Len(r) <= from <=> ~(from < Len(r))
  BY <1>7, <1>8
<1>15. ASSUME NEW shown \in Showing(s, qs)
       PROVE  /\ IF Cardinality(shown) <= from THEN b.rows = <<>>
                                               ELSE \E i \in shown : b.rows = <<i>>
              /\ b.raised <=> (Cardinality(shown) <= from /\ b.op \in Required)
  <2>1. shown = Counted(qs)
    BY <1>15, ShownWith
  <2>2. Cardinality(shown) <= from <=> ~(from < Len(r))
    BY <1>6, <1>14, <2>1
  <2> QED BY <1>11, <1>12, <1>13, <2>1, <2>2
<1> QED BY <1>15 DEF FindsOne, from

(* first() gives the row that may come first in the query set's own page.    *)
LEMMA FirstAgrees ==
    ASSUME NEW s, sets[s] \in QuerySet,
           List(s) \o <<>> = List(s),
           NEW b \in Single(Execute("first", s, [sets[s] EXCEPT !.limit = 1], List(s)), FALSE)
    PROVE  AnswerOf(b, s) /\ Agrees(b, s)
<1> DEFINE set == sets[s]
           one == [set EXCEPT !.limit = 1]
           qs  == List(s)
<1>0. /\ set \in QuerySet /\ one \in QuerySet /\ one.limit = 1 /\ one.limit # None
      /\ one.offset = set.offset /\ one.orderings = set.orderings
  BY OneRow DEF QuerySet
<1> HIDE DEF set, one, qs
<1>1. b \in Single(Execute("first", s, one, qs), FALSE)
  BY DEF set, one, qs
<1> DEFINE required == FALSE
<1>a. required \in BOOLEAN /\ b \in Single(Execute("first", s, one, qs), required)
      /\ (required <=> "first" \in Required)
  BY <1>1 DEF Required
<1> HIDE DEF required
<1>2. b \in Answer("first", s) /\ AnswerOf(b, s)
      /\ \E a \in Execute("first", s, one, qs) :
            /\ b.rows = HeadOf(a.rows)
            /\ b.raised <=> a.raised \/ (required /\ a.rows = <<>>)
  BY <1>0, <1>a, SingleIsAnswer
<1>b. FindsOne(b, s, qs)
  BY <1>0, <1>a, OneIsFound DEF set
<1>3. PICK a \in Execute("first", s, one, qs) : b.rows = HeadOf(a.rows)
  BY <1>2
<1>4. \/ Refused(one, qs) /\ a = Raises("first", s)
      \/ /\ ~Refused(one, qs)
         /\ \E r \in SetToSeqs(Counted(qs)) :
               /\ a = Returns("first", s, PageOf(one, qs, r))
               /\ Serialisable(Gathered(qs)) =>
                      r \in Sorted(Matching(Gathered(qs)), one.orderings)
  BY <1>0, Results
<1>5. PICK r \in SetToSeqs(Counted(qs)) :
         /\ a = Returns("first", s, PageOf(one, qs, r))
         /\ Serialisable(Gathered(qs)) =>
                r \in Sorted(Matching(Gathered(qs)), one.orderings)
  BY <1>0, <1>4 DEF Refused
<1>6. b.rows = HeadOf(PageOf(one, qs, r))
  BY <1>3, <1>5 DEF Returns, NoAnswer
<1>7. IF Refused(set, qs) THEN Raises("select", s) \in Execute("select", s, set, qs)
      ELSE Returns("select", s, PageOf(set, qs, r)) \in Execute("select", s, set, qs)
  BY <1>0, <1>5, MayReturn
<1>8. ASSUME set.limit # 0 PROVE HeadOf(PageOf(one, qs, r)) = HeadOf(PageOf(set, qs, r))
  <2>1. r \in Seq(Counted(qs))
    BY RowsAreFinite, Listing
  <2>2. set.limit \in Int \cup {None} /\ set.offset \in Int \cup {None}
    BY <1>0 DEF QuerySet, Limits
  <2>3. HeadOf(Window(r, set.limit, set.offset)) = FirstOf(r, set.offset)
    BY <1>8, <2>1, <2>2, Pages
  <2>4. HeadOf(Window(r, 1, set.offset)) = FirstOf(r, set.offset)
    BY <2>1, <2>2, OnePage
  <2> QED BY <1>0, <2>3, <2>4 DEF PageOf
<1>9. ASSUME set.limit # 0
      PROVE  \E x \in Selected(s) : x.raised \/ b.rows = HeadOf(x.rows)
  <2>1. Selected(s) = Execute("select", s, set, qs)
    BY DEF Selected, set, qs
  <2>2. Raises("select", s).raised /\ Returns("select", s, PageOf(set, qs, r)).rows
                                        = PageOf(set, qs, r)
    BY DEF Raises, Returns, NoAnswer
  <2> QED BY <1>6, <1>7, <1>8, <1>9, <2>1, <2>2
<1>10. b.op = "first" /\ b.args = <<>>
  BY <1>2 DEF Answer
<1> QED BY <1>2, <1>9, <1>10, <1>b DEF Agrees, set, qs

(* So do last(), latest() and earliest(),                                    *)
LEMMA OneAgrees ==
    ASSUME NEW op \in {"last", "latest", "earliest"}, NEW s, sets[s] \in QuerySet,
           List(s) \o <<>> = List(s),
           NEW set \in QuerySet, set.limit = 1, set.offset = sets[s].offset,
           NEW required \in BOOLEAN, required <=> op \in Required,
           NEW b \in Single(Execute(op, s, set, List(s)), required)
    PROVE  AnswerOf(b, s) /\ Agrees(b, s)
<1> DEFINE qs == List(s)
<1> HIDE DEF qs
<1>1. b \in Single(Execute(op, s, set, qs), required)
  BY DEF qs
<1>2. b \in Answer(op, s) /\ AnswerOf(b, s)
  BY <1>1, SingleIsAnswer
<1>3. FindsOne(b, s, qs)
  BY <1>1, OneIsFound
<1>4. b.op = op /\ b.args = <<>>
  BY <1>2 DEF Answer
<1>5. FindsOne(b, s, List(s) \o b.args)
  BY <1>3, <1>4 DEF qs
<1> QED BY <1>2, <1>4, <1>5 DEF Agrees

(* and get() and get_or_none(), whose argument is one of the conditions.     *)
LEMMA GetAgrees ==
    ASSUME NEW op \in {"get", "get_or_none"}, NEW s, sets[s] \in QuerySet, NEW q,
           NEW set \in QuerySet, set.limit = 1, set.offset = sets[s].offset,
           NEW required \in BOOLEAN, required <=> op \in Required,
           NEW b \in Single(Execute(op, s, set, List(s) \o <<q>>), required)
    PROVE  AnswerOf([b EXCEPT !.args = <<q>>], s) /\ Agrees([b EXCEPT !.args = <<q>>], s)
<1> DEFINE qs == List(s) \o <<q>>
           a  == [b EXCEPT !.args = <<q>>]
<1> HIDE DEF qs
<1>1. b \in Single(Execute(op, s, set, qs), required)
  BY DEF qs
<1>2. b \in Answer(op, s) /\ AnswerOf(b, s)
  BY <1>1, SingleIsAnswer
<1>3. FindsOne(b, s, qs)
  BY <1>1, OneIsFound
<1>4. /\ a.op = op /\ a.args = <<q>> /\ a.rows = b.rows /\ a.raised = b.raised
      /\ a.of = b.of /\ a.n = b.n /\ b.op = op
  BY <1>2 DEF Answer
<1> HIDE DEF a
<1>5. FindsOne(a, s, List(s) \o a.args)
  <2>1. FindsOne(a, s, qs)
    BY <1>3, <1>4 DEF FindsOne
  <2> QED BY <1>4, <2>1 DEF qs
<1>6. AnswerOf(a, s) /\ Agrees(a, s)
  BY <1>2, <1>4, <1>5 DEF Agrees, AnswerOf
<1> QED BY <1>6 DEF a

LEMMA CountAgrees ==
    ASSUME NEW s, sets[s] \in QuerySet, NEW a,
           \/ a = Counts("count", s, Cardinality(Counted(List(s))))
           \/ a = Counts("exists", s, IF Counted(List(s)) = {} THEN 0 ELSE 1)
    PROVE  AnswerOf(a, s) /\ Agrees(a, s)
<1> DEFINE all == Counted(List(s))
<1>1. IsFiniteSet(all) /\ Cardinality(all) \in 0 .. Cardinality(Ids)
      /\ IsFiniteSet(Ids) /\ Cardinality(Ids) \in Nat
  BY RowsAreFinite, QuerySetAssumption, FS_CardinalityType
<1>2. all # {} => 1 <= Cardinality(Ids)
  BY <1>1, FS_EmptySet
<1>3. \A shown \in Unlimited(s) : shown = all
  BY Shown
<1> HIDE DEF all
<1>4. a.of = s /\ a.rows = <<>>
      /\ \/ a.op = "count" /\ a.n = Cardinality(all)
         \/ a.op = "exists" /\ a.n = IF all = {} THEN 0 ELSE 1
  BY DEF Counts, NoAnswer, all
<1>5. AnswerOf(a, s)
  <2>1. ToSet(a.rows) = {}
    BY <1>4 DEF ToSet
  <2> QED BY <1>1, <1>2, <1>4, <2>1 DEF AnswerOf
<1>6. Agrees(a, s)
  BY <1>3, <1>4 DEF Agrees, OneRowCalls
<1> QED BY <1>5, <1>6

(* Every statement that reads                                                *)
LEMMA ReadStep ==
    ASSUME Inv, NEW s \in DOMAIN sets,
           \/ Await(s) \/ FirstRow(s) \/ LastRow(s) \/ Count(s) \/ Exists(s)
           \/ \E field \in {"pk", "a"} :
                 Extreme(s, "latest", field) \/ Extreme(s, "earliest", field)
           \/ \E q \in Expressions, required \in BOOLEAN : Get(s, q, required)
    PROVE  Inv' /\ AnswersAgree'
<1>1. sets[s] \in QuerySet
  BY SetsAre DEF Inv
<1>a. List(s) \o <<>> = List(s)
  <2>1. sets[s].list = s /\ lists[s] \in Seq(Arguments)
    BY SetsAre DEF Inv, OwnLists
  <2> QED BY <2>1, ConcatEmptySeq DEF List
<1>2. ASSUME NEW field \in {"pk", "a"}, NEW desc \in BOOLEAN
      PROVE  /\ <<[field |-> field, desc |-> desc]>> \in Orderings
             /\ Append(sets[s].orderings, [field |-> field, desc |-> desc]) \in Orderings
  <2>1. sets[s].orderings \in Orderings
    BY <1>1 DEF QuerySet
  <2> QED BY <2>1, AppendProperties DEF Orderings
<1>3. CASE Await(s)
  <2>1. ASSUME NEW a \in Selected(s) PROVE AnswerOf(a, s) /\ Agrees(a, s)
    <3>1. a.op = "select" /\ AnswerOf(a, s)
      BY <1>1, <2>1, ResultIsAnswer DEF Selected
    <3> QED BY <3>1, OtherAnswers DEF OneRowCalls
  <2> QED BY <1>3, <2>1, AskStep DEF Await
<1>4. CASE FirstRow(s)
  BY <1>1, <1>4, <1>a, FirstAgrees, AskStep DEF FirstRow
<1>5. CASE LastRow(s)
  <2> DEFINE o   == IF sets[s].orderings = <<>> THEN <<[field |-> "pk", desc |-> TRUE]>>
                                                ELSE sets[s].orderings
             set == [sets[s] EXCEPT !.limit = 1, !.orderings = o]
             required == FALSE
             R   == Single(Execute("last", s, set, List(s)), required)
  <2>1. o \in Orderings
    BY <1>1, <1>2 DEF QuerySet
  <2>2. Ask(R)
    BY <1>5 DEF LastRow
  <2> HIDE DEF o
  <2>3. set \in QuerySet /\ set.limit = 1 /\ set.offset = sets[s].offset
    BY <1>1, <2>1, OneRow DEF QuerySet
  <2>4. required \in BOOLEAN /\ (required <=> "last" \in Required)
    BY DEF Required
  <2> HIDE DEF set, required
  <2>5. \A b \in R : AnswerOf(b, s) /\ Agrees(b, s)
    BY <1>1, <1>a, <2>3, <2>4, OneAgrees
  <2> QED BY <2>2, <2>5, AskStep
<1>6. CASE Count(s)
  BY <1>1, <1>6, CountAgrees, AskStep DEF Count
<1>7. CASE Exists(s)
  BY <1>1, <1>7, CountAgrees, AskStep DEF Exists
<1>8. ASSUME NEW op \in {"latest", "earliest"}, NEW field \in {"pk", "a"},
             Extreme(s, op, field)
      PROVE  Inv' /\ AnswersAgree'
  <2> DEFINE o   == Append(sets[s].orderings, [field |-> field, desc |-> FALSE])
             set == [sets[s] EXCEPT !.limit = 1, !.orderings = o]
             required == TRUE
             R   == Single(Execute(op, s, set, List(s)), required)
  <2>1. o \in Orderings
    BY <1>2
  <2>2. Ask(R)
    BY <1>8 DEF Extreme
  <2> HIDE DEF o
  <2>3. set \in QuerySet /\ set.limit = 1 /\ set.offset = sets[s].offset
    BY <1>1, <2>1, OneRow DEF QuerySet
  <2>4. required \in BOOLEAN /\ (required <=> op \in Required)
    BY DEF Required
  <2> HIDE DEF set, required
  <2>5. \A b \in R : AnswerOf(b, s) /\ Agrees(b, s)
    BY <1>1, <1>a, <2>3, <2>4, OneAgrees
  <2> QED BY <2>2, <2>5, AskStep
<1>9. ASSUME NEW q \in Expressions, NEW required \in BOOLEAN, Get(s, q, required)
      PROVE  Inv' /\ AnswersAgree'
  <2> DEFINE op  == IF required THEN "get" ELSE "get_or_none"
             set == [sets[s] EXCEPT !.limit = 1]
             R   == Single(Execute(op, s, set, List(s) \o <<q>>), required)
             A   == {[b EXCEPT !.args = <<q>>] : b \in R}
  <2>1. Ask(A)
    BY <1>9 DEF Get
  <2>2. op \in {"get", "get_or_none"} /\ (required <=> op \in Required)
    BY DEF Required
  <2>3. set \in QuerySet /\ set.limit = 1 /\ set.offset = sets[s].offset
    BY <1>1 DEF QuerySet, Limits
  <2> HIDE DEF op, set
  <2>4. \A b \in R : AnswerOf([b EXCEPT !.args = <<q>>], s)
                     /\ Agrees([b EXCEPT !.args = <<q>>], s)
    BY <1>1, <2>2, <2>3, GetAgrees
  <2> HIDE DEF R
  <2>5. \A a \in A : AnswerOf(a, s) /\ Agrees(a, s)
    BY <2>4
  <2> QED BY <2>1, <2>5, AskStep
<1> QED BY <1>3, <1>4, <1>5, <1>6, <1>7, <1>8, <1>9

LEMMA OtherAnswered ==
    ASSUME answer'.op \notin {"count", "exists"} \cup OneRowCalls
    PROVE  AnswersAgree'
  BY DEF AnswersAgree, Agrees, OneRowCalls

-----------------------------------------------------------------------------
(* Writing                                                                   *)

(* What is written to which rows; the query sets stay as they are.           *)
LEMMA WriteStep ==
    ASSUME Inv, NEW s \in DOMAIN sets, NEW op \in {"update", "delete"}, NEW data \in Cells,
           LET cond == Gathered(List(s))
           IN /\ table' = [i \in Ids |-> IF i \in Target(cond) THEN data ELSE table[i]]
              /\ answer' = Counts(op, s, Cardinality(Target(cond)))
              /\ UNCHANGED <<lists, sets, asked>>
    PROVE  Inv' /\ AnswersAgree'
<1> DEFINE T == Target(Gathered(List(s)))
<1>1. T = Counted(List(s))
  BY DEF Target, Counted
<1>2. Cardinality(T) \in 0 .. Cardinality(Ids)
  BY <1>1, RowsAreFinite
<1> HIDE DEF T
<1>3. /\ table' = [i \in Ids |-> IF i \in T THEN data ELSE table[i]]
      /\ answer' = Counts(op, s, Cardinality(T)) /\ UNCHANGED <<lists, sets, asked>>
  BY DEF T
<1>4. table' \in [Ids -> Cells]
  BY <1>3 DEF Inv
<1>5. answer'.op = op /\ answer'.of = s /\ answer'.n = Cardinality(T) /\ answer'.rows = <<>>
  BY <1>3 DEF Counts, NoAnswer
<1>6. AnswerTyped'
  <2>1. ToSet(answer'.rows) = {} /\ s \in 1 .. Len(sets)
    BY <1>5, SetsAre DEF ToSet, Inv
  <2> QED BY <1>2, <1>3, <1>5, <2>1 DEF AnswerTyped
<1>7. Typed' /\ OwnLists'
  BY <1>3 DEF Inv, Typed, OwnLists
<1> QED BY <1>4, <1>5, <1>6, <1>7, OtherAnswered DEF Inv, OneRowCalls

LEMMA RefusedStep ==
    ASSUME Inv, NEW s \in DOMAIN sets, NEW op \in {"update", "delete"},
           Ask({Raises(op, s)})
    PROVE  Inv' /\ AnswersAgree'
<1>1. 0 \in 0 .. Cardinality(Ids)
  BY QuerySetAssumption, FS_CardinalityType
<1>2. Raises(op, s).op = op /\ Raises(op, s).of = s /\ Raises(op, s).n = 0
      /\ Raises(op, s).rows = <<>>
  BY DEF Raises, NoAnswer
<1>3. ToSet(Raises(op, s).rows) = {}
  BY <1>2 DEF ToSet
<1>4. AnswerOf(Raises(op, s), s) /\ Agrees(Raises(op, s), s)
  BY <1>1, <1>2, <1>3, OtherAnswers DEF AnswerOf, OneRowCalls
<1> QED BY <1>4, AskStep

LEMMA UpdateStep ==
    ASSUME Inv, NEW s \in DOMAIN sets, NEW v \in Values \cup {None, Opaque},
           Update(s, {}) \/ Update(s, One(v))
    PROVE  Inv' /\ AnswersAgree'
<1>1. PICK data \in {{}, One(v)} : Update(s, data)
  OBVIOUS
<1>2. CASE Writes(Gathered(List(s))) /\ data \notin {{}, One(Opaque)}
  <2>1. data \in Cells
    BY <1>2 DEF Cells
  <2>2. LET cond == Gathered(List(s))
        IN /\ table' = [i \in Ids |-> IF i \in Target(cond) THEN data ELSE table[i]]
           /\ answer' = Counts("update", s, Cardinality(Target(cond)))
           /\ UNCHANGED <<lists, sets, asked>>
    BY <1>1, <1>2 DEF Update
  <2> QED BY <2>1, <2>2, WriteStep
<1>3. CASE ~(Writes(Gathered(List(s))) /\ data \notin {{}, One(Opaque)})
  <2>1. Ask({Raises("update", s)})
    BY <1>1, <1>3 DEF Update
  <2> QED BY <2>1, RefusedStep
<1> QED BY <1>2, <1>3

LEMMA DeleteStep ==
    ASSUME Inv, NEW s \in DOMAIN sets, Delete(s)
    PROVE  Inv' /\ AnswersAgree'
<1>1. CASE Writes(Gathered(List(s)))
  <2>1. {} \in Cells
    BY DEF Cells
  <2>2. LET cond == Gathered(List(s))
        IN /\ table' = [i \in Ids |-> IF i \in Target(cond) THEN {} ELSE table[i]]
           /\ answer' = Counts("delete", s, Cardinality(Target(cond)))
           /\ UNCHANGED <<lists, sets, asked>>
    BY <1>1 DEF Delete
  <2> QED BY <2>1, <2>2, WriteStep
<1>2. CASE ~Writes(Gathered(List(s)))
  <2>1. Ask({Raises("delete", s)})
    BY <1>2 DEF Delete
  <2> QED BY <2>1, RefusedStep
<1> QED BY <1>1, <1>2

-----------------------------------------------------------------------------
(* Every step                                                                *)

LEMMA Statements ==
    ASSUME Inv, NEW s \in DOMAIN sets, Evaluate(s)
    PROVE  Inv' /\ AnswersAgree' /\ UNCHANGED <<lists, sets, asked>>
<1>1. ASSUME NEW data \in {{}} \cup {One(v) : v \in Values \cup {None, Opaque}},
             Update(s, data)
      PROVE  Inv' /\ AnswersAgree'
  <2>1. None \in Values \cup {None, Opaque}
    OBVIOUS
  <2> QED BY <1>1, <2>1, UpdateStep
<1>2. ASSUME Delete(s) PROVE Inv' /\ AnswersAgree'
  BY <1>2, DeleteStep
<1>3. ASSUME \/ Await(s) \/ FirstRow(s) \/ LastRow(s) \/ Count(s) \/ Exists(s)
             \/ \E field \in {"pk", "a"} :
                   Extreme(s, "latest", field) \/ Extreme(s, "earliest", field)
             \/ \E q \in Expressions, required \in BOOLEAN : Get(s, q, required)
      PROVE  Inv' /\ AnswersAgree'
  BY <1>3, ReadStep
<1>4. Inv' /\ AnswersAgree'
  BY <1>1, <1>2, <1>3 DEF Evaluate
<1>5. UNCHANGED <<lists, sets, asked>>
  BY DEF Evaluate, Await, FirstRow, LastRow, Count, Exists, Extreme, Get, Update, Delete, Ask
<1> QED BY <1>4, <1>5

LEMMA TakeStep ==
    ASSUME Inv, Take PROVE Inv' /\ AnswersAgree' /\ UNCHANGED <<lists, sets, asked>>
<1>1. /\ answer' = NoAnswer /\ UNCHANGED <<table, lists, sets, asked>>
  BY DEF Take, Ask
<1>2. answer'.op = "none" /\ answer'.of = 1 /\ answer'.n = 0 /\ answer'.rows = <<>>
  BY <1>1 DEF NoAnswer
<1>3. AnswerTyped'
  <2>1. ToSet(answer'.rows) = {} /\ 1 \in 1 .. Len(sets) /\ 0 \in 0 .. Cardinality(Ids)
    BY <1>2, SetsAre, QuerySetAssumption, FS_CardinalityType DEF ToSet, Inv
  <2> QED BY <1>1, <1>2, <2>1 DEF AnswerTyped
<1>4. Typed'
  BY <1>1 DEF Inv, Typed
<1>5. OwnLists'
  BY <1>1 DEF Inv, OwnLists
<1>6. table' \in [Ids -> Cells]
  BY <1>1 DEF Inv
<1> QED BY <1>1, <1>2, <1>3, <1>4, <1>5, <1>6, OtherAnswered DEF Inv, OneRowCalls

LEMMA BuildAgrees ==
    ASSUME answer = NoAnswer, NEW s \in DOMAIN sets, Build(s) PROVE AnswersAgree'
<1>1. answer' = answer
  BY DEF Build, FilterOrExclude, OrderBy, Limit, Offset, Slice, Copy, Derive
<1>2. answer'.op = "none"
  BY <1>1 DEF NoAnswer
<1> QED BY <1>2, OtherAnswered DEF OneRowCalls

LEMMA NextInv ==
    ASSUME Inv, AnswersAgree, [Next]_vars
    PROVE  /\ Inv' /\ AnswersAgree'
           /\ \A t \in DOMAIN sets : List(t)' = List(t)
<1>1. ASSUME answer = NoAnswer, NEW s \in DOMAIN sets, Build(s)
      PROVE  Inv' /\ AnswersAgree' /\ \A t \in DOMAIN sets : List(t)' = List(t)
  BY <1>1, BuildStep, BuildAgrees
<1>2. ASSUME NEW s \in DOMAIN sets, Evaluate(s)
      PROVE  Inv' /\ AnswersAgree' /\ \A t \in DOMAIN sets : List(t)' = List(t)
  BY <1>2, Statements DEF List
<1>3. CASE Take
  BY <1>3, TakeStep DEF List
<1>4. CASE UNCHANGED vars
  <2>1. UNCHANGED <<table, lists, sets, asked, answer>>
    BY <1>4 DEF vars
  <2>2. Inv'
    BY <2>1 DEF Inv, Typed, OwnLists, AnswerTyped
  <2>3. AnswersAgree'
    <3>1. \A s \in DOMAIN sets : answer'.of = s => Agrees(answer', s)
      BY <2>1 DEF AnswersAgree
    <3> QED BY <2>1, <3>1, SameAgreement
  <2> QED BY <2>1, <2>2, <2>3 DEF List
<1> QED BY <1>1, <1>2, <1>3, <1>4 DEF Next

LEMMA InitAgrees == Init => AnswersAgree
<1> SUFFICES ASSUME Init PROVE AnswersAgree
  OBVIOUS
<1>1. answer.op = "none"
  BY DEF Init, NoAnswer
<1> QED BY <1>1 DEF AnswersAgree, Agrees, OneRowCalls

LEMMA InvTyped == Inv => TypeOK
<1> SUFFICES ASSUME Inv PROVE TypeOK
  OBVIOUS
<1>1. DOMAIN sets = 1 .. Len(sets) /\ DOMAIN asked = 1 .. Len(asked)
      /\ DOMAIN lists = 1 .. Len(lists) /\ Len(asked) = Len(sets) /\ Len(lists) = Len(sets)
  BY LenProperties DEF Inv, Typed
<1>2. ASSUME NEW s \in DOMAIN sets
      PROVE  /\ sets[s].list \in DOMAIN lists
             /\ {sets[s].limit, sets[s].offset} \subseteq Int \cup {None}
             /\ ToSet(sets[s].orderings) \subseteq [field : {"pk", "a"}, desc : BOOLEAN]
  <2>1. sets[s].list = s
    BY <1>1 DEF Inv, OwnLists
  <2>2. sets[s] \in QuerySet
    BY SetsAre DEF Inv
  <2>3. sets[s].orderings \in Seq([field : {"pk", "a"}, desc : BOOLEAN])
    BY <2>2 DEF QuerySet, Orderings
  <2>4. ToSet(sets[s].orderings) \subseteq [field : {"pk", "a"}, desc : BOOLEAN]
    <3> DEFINE F == [field : {"pk", "a"}, desc : BOOLEAN]
    <3> HIDE DEF F
    <3>1. sets[s].orderings \in Seq(F)
      BY <2>3 DEF F
    <3>2. ToSet(sets[s].orderings) \subseteq F
      BY <3>1, ElementOfSeq, LenProperties DEF ToSet
    <3> QED BY <3>2 DEF F
  <2> QED BY <1>1, <2>1, <2>2, <2>4 DEF QuerySet, Limits
<1>3. table \in [Ids -> {{}} \cup {One(v) : v \in Values \cup {None}}]
  BY DEF Inv, Cells
<1> QED BY <1>1, <1>2, <1>3 DEF Inv, AnswerTyped, TypeOK

(* Query sets refer to lists there are; answers are about query sets and     *)
(* rows there are or were; for any number of query sets and rows.            *)
THEOREM TypeCorrect == Spec => []TypeOK
<1>1. Init => Inv /\ AnswersAgree
  BY InitInv, InitAgrees
<1>2. Inv /\ AnswersAgree /\ [Next]_vars => Inv' /\ AnswersAgree'
  BY NextInv
<1> QED BY <1>1, <1>2, InvTyped, PTL DEF Spec

(* Building a query set, and awaiting one, leaves alone what every other     *)
(* query set selects, however they are derived from one another: each has a  *)
(* list of its own.                                                          *)
THEOREM OthersAreUnchanged == Spec => OthersUnchanged
<1>1. Init => Inv /\ AnswersAgree
  BY InitInv, InitAgrees
<1>2. Inv /\ AnswersAgree /\ [Next]_vars => Inv' /\ AnswersAgree'
  BY NextInv
<1>3. Inv /\ AnswersAgree /\ [Next]_vars =>
          [\A s \in DOMAIN sets : List(s)' = List(s)]_vars
  BY NextInv
<1> QED BY <1>1, <1>2, <1>3, PTL DEF Spec, OthersUnchanged

(* For every table and all conditions, orderings, limits and offsets:        *)
(* count() and exists() agree with the rows shown without limit and offset,  *)
(* and each call for one row returns one of these, or none if the offset     *)
(* passes over them all, when get, latest and earliest raise and no other    *)
(* does; first() returns a row that may be shown first, unless the limit is  *)
(* 0 or SQLite refuses to show the rows.                                     *)
THEOREM AnswersAgreeWithRows == Spec => []AnswersAgree
<1>1. Init => Inv /\ AnswersAgree
  BY InitInv, InitAgrees
<1>2. Inv /\ AnswersAgree /\ [Next]_vars => Inv' /\ AnswersAgree'
  BY NextInv
<1> QED BY <1>1, <1>2, PTL DEF Spec

-----------------------------------------------------------------------------
(* What is asked and what is shown                                           *)

(* The list of a query set holds what it was asked, argument by argument.    *)
LEMMA ListIs ==
    ASSUME Inv, NEW s \in DOMAIN sets
    PROVE  /\ DOMAIN List(s) = DOMAIN asked[s]
           /\ \A n \in DOMAIN asked[s] : /\ n \in Nat
                                         /\ List(s)[n] = asked[s][n].q
                                         /\ asked[s][n].q \in Arguments
<1>1. sets[s].list = s /\ Len(lists[s]) = Len(asked[s])
      /\ \A n \in 1 .. Len(asked[s]) : lists[s][n] = asked[s][n].q
  BY SetsAre DEF Inv, OwnLists
<1>2. lists[s] \in Seq(Arguments) /\ asked[s] \in Seq(Asking)
  BY SetsAre DEF Inv
<1>3. DOMAIN lists[s] = 1 .. Len(lists[s]) /\ DOMAIN asked[s] = 1 .. Len(asked[s])
  BY <1>2, LenProperties
<1>4. \A n \in 1 .. Len(asked[s]) : asked[s][n] \in Asking
  BY <1>2, ElementOfSeq
<1> QED BY <1>1, <1>3, <1>4 DEF List, Asking

(* The conditions sent: of each key those of the last argument that has it.  *)
LEMMA LastOne ==
    ASSUME NEW qs, NEW k \in Nat, DOMAIN qs = 1 .. k, NEW l \in DOMAIN Gathered(qs)
    PROVE  \E n \in DOMAIN qs : /\ l \in DOMAIN qs[n].filters
                                /\ Gathered(qs)[l] = qs[n].filters[l]
<1> DEFINE T  == {i \in DOMAIN qs : l \in DOMAIN qs[i].filters}
           n  == Max(T)
           at(m) == Max({i \in DOMAIN qs : m \in DOMAIN qs[i].filters})
           D  == UNION {DOMAIN qs[i].filters : i \in DOMAIN qs}
<1>1. Gathered(qs) = [m \in D |-> qs[at(m)].filters[m]]
  BY DEF Gathered
<1>2. l \in D
  BY <1>1
<1>3. T # {} /\ T \in SUBSET (1 .. k)
  BY <1>2
<1>4. n \in T
  <2> HIDE DEF T
  <2> QED BY <1>3, LargestNumber
<1>5. Gathered(qs)[l] = qs[n].filters[l]
  <2> HIDE DEF D
  <2> QED BY <1>1, <1>2
<1> QED BY <1>4, <1>5

LEMMA EveryKey ==
    ASSUME NEW qs, NEW n \in DOMAIN qs, NEW l \in DOMAIN qs[n].filters
    PROVE  l \in DOMAIN Gathered(qs)
  BY DEF Gathered

(* No row that is asked for is lost.                                         *)
LEMMA WantedIsShown ==
    ASSUME Inv, NEW s \in DOMAIN sets, Positively(s)
    PROVE  Wanted(s) \subseteq Counted(List(s))
<1> SUFFICES ASSUME NEW i \in Wanted(s), Serialisable(Gathered(List(s))),
                    NEW l \in DOMAIN Gathered(List(s))
             PROVE  Holds(l, Gathered(List(s))[l], Column(i))
  BY DEF Counted, Matching, Wanted
<1> DEFINE qs == List(s)
<1>1. PICK k \in Nat : DOMAIN qs = 1 .. k
  <2>1. asked[s] \in Seq(Asking)
    BY SetsAre DEF Inv
  <2>2. Len(asked[s]) \in Nat /\ DOMAIN asked[s] = 1 .. Len(asked[s])
    BY <2>1, LenProperties
  <2> QED BY <2>2, ListIs
<1>2. PICK n \in DOMAIN qs : /\ l \in DOMAIN qs[n].filters
                             /\ Gathered(qs)[l] = qs[n].filters[l]
  <2> HIDE DEF qs
  <2>1. l \in DOMAIN Gathered(qs)
    BY DEF qs
  <2> QED BY <1>1, <2>1, LastOne
<1>3. n \in DOMAIN asked[s] /\ qs[n] = asked[s][n].q /\ qs[n] \in Arguments
  BY <1>2, ListIs
<1>4. qs[n].join = "AND"
  <2>1. DOMAIN qs[n].filters # {}
    BY <1>2
  <2> HIDE DEF qs
  <2> QED BY <1>3, <2>1 DEF Positively
<1>5. Asks(qs[n], Column(i))
  BY <1>3 DEF Wanted, AskedOf
<1> HIDE DEF qs
<1>6. Holds(l, qs[n].filters[l], Column(i))
  BY <1>2, <1>4, <1>5 DEF Asks, Says
<1> QED BY <1>2, <1>6 DEF qs

(* Keyword arguments that repeat no key are all sent, as they are.           *)
LEMMA PlainlyShown ==
    ASSUME Inv, NEW s \in DOMAIN sets, Plainly(s), Serialisable(Gathered(List(s)))
    PROVE  Counted(List(s)) \subseteq Wanted(s)
<1> DEFINE qs == List(s)
<1> SUFFICES ASSUME NEW i \in Matching(Gathered(qs)), NEW n \in DOMAIN asked[s]
             PROVE  Asks(asked[s][n].q, Column(i))
  BY RowsAreFinite DEF Counted, Wanted, AskedOf
<1> DEFINE q == asked[s][n].q
<1>1. /\ DOMAIN qs = DOMAIN asked[s] /\ q \in Arguments
      /\ \A m \in DOMAIN asked[s] : qs[m] = asked[s][m].q
  BY ListIs
<1>2. q.children = <<>>
  BY DEF Plainly
<1>3. q.join = "AND"
  BY DEF Plainly
<1>4. PICK k \in Nat : DOMAIN qs = 1 .. k
  <2>1. asked[s] \in Seq(Asking)
    BY SetsAre DEF Inv
  <2>2. Len(asked[s]) \in Nat /\ DOMAIN asked[s] = 1 .. Len(asked[s])
    BY <2>1, LenProperties
  <2> QED BY <1>1, <2>2
<1>5. ASSUME NEW l \in DOMAIN q.filters PROVE Holds(l, q.filters[l], Column(i))
  <2>1. n \in DOMAIN qs /\ qs[n] = q
    BY <1>1
  <2>2. l \in DOMAIN Gathered(qs)
    <3> HIDE DEF qs, q
    <3> QED BY <1>5, <2>1, EveryKey
  <2>3. PICK m \in DOMAIN qs : /\ l \in DOMAIN qs[m].filters
                               /\ Gathered(qs)[l] = qs[m].filters[l]
    <3> HIDE DEF qs
    <3> QED BY <1>4, <2>2, LastOne
  <2>4. m = n
    <3>1. m \in DOMAIN asked[s] /\ qs[m] = asked[s][m].q
      BY <1>1, <2>3
    <3>2. l \in DOMAIN asked[s][m].q.filters \cap DOMAIN asked[s][n].q.filters
      BY <1>5, <2>3, <3>1
    <3> QED BY <3>1, <3>2 DEF Plainly
  <2>5. Holds(l, Gathered(qs)[l], Column(i))
    BY <2>2 DEF Matching
  <2> QED BY <2>1, <2>3, <2>4, <2>5
<1> HIDE DEF q
<1>6. DOMAIN q.children = {}
  BY <1>2
<1>7. Asks(q, Column(i))
  BY <1>3, <1>5, <1>6 DEF Asks, Says
<1> QED BY <1>7 DEF q

LEMMA InvShows == Inv => ShowsWhatIsAsked
<1> SUFFICES ASSUME Inv, NEW s \in DOMAIN sets, Positively(s), NEW shown \in Unlimited(s)
             PROVE  /\ Wanted(s) \subseteq shown
                    /\ Plainly(s) /\ Serialisable(Gathered(List(s))) => shown = Wanted(s)
  BY DEF ShowsWhatIsAsked
<1>1. shown = Counted(List(s))
  BY Shown, SetsAre DEF Inv
<1> QED BY <1>1, WantedIsShown, PlainlyShown

(* Conditions may be lost, but none is made up: a query set shows every row  *)
(* that its arguments ask for, Q expressions of any shape included, and from *)
(* keyword arguments that repeat no key exactly those rows; for every table, *)
(* every set of conditions and expressions, and any number of query sets.    *)
THEOREM NoRowIsLost == Spec => []ShowsWhatIsAsked
<1>1. Init => Inv /\ AnswersAgree
  BY InitInv, InitAgrees
<1>2. Inv /\ AnswersAgree /\ [Next]_vars => Inv' /\ AnswersAgree'
  BY NextInv
<1> QED BY <1>1, <1>2, InvShows, PTL DEF Spec

-----------------------------------------------------------------------------
(* What is written                                                           *)

LEMMA OpOfResult ==
    ASSUME NEW op, NEW s, NEW set, NEW qs, NEW a \in Execute(op, s, set, qs)
    PROVE  a.op = op /\ \E raised, rows :
              a = [op |-> op, of |-> s, args |-> <<>>, raised |-> raised,
                   rows |-> rows, n |-> 0]
<1>1. a = Raises(op, s) \/ \E rows : a = Returns(op, s, rows)
  BY DEF Execute
<1> QED BY <1>1 DEF Raises, Returns, NoAnswer

LEMMA OpOfSingle ==
    ASSUME NEW op, NEW s, NEW set, NEW qs, NEW required,
           NEW b \in Single(Execute(op, s, set, qs), required)
    PROVE  b.op = op
<1>1. PICK a \in Execute(op, s, set, qs) :
         b = IF a.rows = <<>> /\ required THEN [a EXCEPT !.raised = TRUE]
             ELSE [a EXCEPT !.rows = HeadOf(@)]
  BY DEF Single
<1>2. PICK raised, rows :
         a = [op |-> op, of |-> s, args |-> <<>>, raised |-> raised, rows |-> rows, n |-> 0]
  BY OpOfResult
<1> QED BY <1>1, <1>2

LEMMA OpOfGet ==
    ASSUME NEW op, NEW s, NEW set, NEW qs, NEW required, NEW args,
           NEW b \in Single(Execute(op, s, set, qs), required)
    PROVE  [b EXCEPT !.args = args].op = op
<1>1. PICK a \in Execute(op, s, set, qs) :
         b = IF a.rows = <<>> /\ required THEN [a EXCEPT !.raised = TRUE]
             ELSE [a EXCEPT !.rows = HeadOf(@)]
  BY DEF Single
<1>2. PICK raised, rows :
         a = [op |-> op, of |-> s, args |-> <<>>, raised |-> raised, rows |-> rows, n |-> 0]
  BY OpOfResult
<1> QED BY <1>1, <1>2

(* Only update and delete answer as such.                                    *)
LEMMA WhoWrites ==
    ASSUME Next, answer'.op \in {"update", "delete"}
    PROVE  \E s \in DOMAIN sets :
              \/ Delete(s)
              \/ \E data : Update(s, data)
<1>1. ~Take
  BY DEF Take, Ask, NoAnswer
<1>2. ASSUME answer = NoAnswer, NEW s \in DOMAIN sets, Build(s) PROVE FALSE
  <2>1. answer' = answer
    BY <1>2 DEF Build, FilterOrExclude, OrderBy, Limit, Offset, Slice, Copy, Derive
  <2> QED BY <1>2, <2>1 DEF NoAnswer
<1>3. ASSUME NEW s,
             \/ Await(s) \/ FirstRow(s) \/ LastRow(s) \/ Count(s) \/ Exists(s)
             \/ \E field : Extreme(s, "latest", field) \/ Extreme(s, "earliest", field)
             \/ \E q, required : Get(s, q, required)
      PROVE  FALSE
  <2>1. CASE Await(s)
    BY <2>1, OpOfResult DEF Await, Ask, Selected
  <2>2. CASE FirstRow(s)
    BY <2>2, OpOfSingle DEF FirstRow, Ask
  <2>3. CASE LastRow(s)
    BY <2>3, OpOfSingle DEF LastRow, Ask
  <2>4. CASE Count(s) \/ Exists(s)
    BY <2>4 DEF Count, Exists, Ask, Counts, NoAnswer
  <2>5. ASSUME NEW field, Extreme(s, "latest", field) \/ Extreme(s, "earliest", field)
        PROVE  FALSE
    BY <2>5, OpOfSingle DEF Extreme, Ask
  <2>6. ASSUME NEW q, NEW required, Get(s, q, required) PROVE FALSE
    <3> DEFINE op == IF required THEN "get" ELSE "get_or_none"
    <3>1. PICK b \in Single(Execute(op, s, [sets[s] EXCEPT !.limit = 1],
                                    List(s) \o <<q>>), required) :
             answer' = [b EXCEPT !.args = <<q>>]
      BY <2>6 DEF Get, Ask
    <3>2. answer'.op = op
      BY <3>1, OpOfGet
    <3> QED BY <3>2
  <2> QED BY <1>3, <2>1, <2>2, <2>3, <2>4, <2>5, <2>6
<1> QED BY <1>1, <1>2, <1>3 DEF Next, Evaluate

(* The rows touched by a write to the rows T                                 *)
LEMMA Touched ==
    ASSUME Inv, NEW T, NEW data,
           table' = [i \in Ids |-> IF i \in T THEN data ELSE table[i]]
    PROVE  /\ {i \in Ids : table'[i] # table[i]} \subseteq T
           /\ T \subseteq Rows /\ data = {} => {i \in Ids : table'[i] # table[i]} = T
  BY DEF Rows

LEMMA WriteTouches ==
    ASSUME Inv, NEW s \in DOMAIN sets, (\E data : Update(s, data)) \/ Delete(s)
    PROVE  /\ answer'.of = s
           /\ LET touched == {i \in Ids : table'[i] # table[i]}
              IN IF answer'.raised THEN touched = {}
                 ELSE \A shown \in Unlimited(s) :
                         /\ touched \subseteq shown
                         /\ answer'.n = Cardinality(shown)
                         /\ answer'.op = "delete" => touched = shown
                         /\ Plainly(s) => touched \subseteq Wanted(s)
<1> DEFINE touched == {i \in Ids : table'[i] # table[i]}
           cond    == Gathered(List(s))
           T       == Target(cond)
<1>1. ASSUME NEW op, Ask({Raises(op, s)})
      PROVE  answer'.of = s /\ answer'.raised /\ touched = {}
  BY <1>1 DEF Ask, Raises, NoAnswer
<1>2. ASSUME NEW op, NEW data, op = "delete" => data = {}, Writes(cond),
             table' = [i \in Ids |-> IF i \in T THEN data ELSE table[i]],
             answer' = Counts(op, s, Cardinality(T))
      PROVE  /\ answer'.of = s /\ ~answer'.raised
             /\ \A shown \in Unlimited(s) :
                   /\ touched \subseteq shown
                   /\ answer'.n = Cardinality(shown)
                   /\ answer'.op = "delete" => touched = shown
                   /\ Plainly(s) => touched \subseteq Wanted(s)
  <2>1. answer'.op = op /\ answer'.of = s /\ ~answer'.raised /\ answer'.n = Cardinality(T)
    BY <1>2 DEF Counts, NoAnswer
  <2>2. T = Counted(List(s)) /\ T \subseteq Rows
    BY RowsAreFinite DEF Target, Counted
  <2>3. \A shown \in Unlimited(s) : shown = T
    BY <2>2, Shown, SetsAre DEF Inv
  <2>4. touched \subseteq T /\ (op = "delete" => touched = T)
    <3> HIDE DEF T
    <3>1. /\ {i \in Ids : table'[i] # table[i]} \subseteq T
          /\ T \subseteq Rows /\ data = {} => {i \in Ids : table'[i] # table[i]} = T
      BY <1>2, Touched
    <3> QED BY <1>2, <2>2, <3>1
  <2>5. Plainly(s) => T \subseteq Wanted(s)
    BY <1>2, <2>2, PlainlyShown DEF Writes
  <2> HIDE DEF touched, T
  <2> QED BY <2>1, <2>3, <2>4, <2>5
<1>3. ASSUME NEW data, Update(s, data)
      PROVE  \/ Ask({Raises("update", s)})
             \/ /\ Writes(cond) /\ answer' = Counts("update", s, Cardinality(T))
                /\ table' = [i \in Ids |-> IF i \in T THEN data ELSE table[i]]
  BY <1>3 DEF Update
<1>4. ASSUME Delete(s)
      PROVE  \/ Ask({Raises("delete", s)})
             \/ /\ Writes(cond) /\ answer' = Counts("delete", s, Cardinality(T))
                /\ table' = [i \in Ids |-> IF i \in T THEN {} ELSE table[i]]
  BY <1>4 DEF Delete
<1>5. "update" # "delete"
  OBVIOUS
<1> HIDE DEF touched, cond, T
<1>6. \/ answer'.of = s /\ answer'.raised /\ touched = {}
      \/ /\ answer'.of = s /\ ~answer'.raised
         /\ \A shown \in Unlimited(s) :
               /\ touched \subseteq shown
               /\ answer'.n = Cardinality(shown)
               /\ answer'.op = "delete" => touched = shown
               /\ Plainly(s) => touched \subseteq Wanted(s)
  <2>1. CASE Delete(s)
    BY <1>1, <1>2, <1>4, <2>1
  <2>2. ASSUME NEW data, Update(s, data)
        PROVE  \/ answer'.of = s /\ answer'.raised /\ touched = {}
               \/ /\ answer'.of = s /\ ~answer'.raised
                  /\ \A shown \in Unlimited(s) :
                        /\ touched \subseteq shown
                        /\ answer'.n = Cardinality(shown)
                        /\ answer'.op = "delete" => touched = shown
                        /\ Plainly(s) => touched \subseteq Wanted(s)
    BY <1>1, <1>2, <1>3, <1>5, <2>2
  <2> QED BY <2>1, <2>2
<1> QED BY <1>6 DEF touched

(* update() and delete() change the rows the same query set shows without    *)
(* its limits, count them, and never one that plain keyword arguments did    *)
(* not ask for, or they raise and change none; for every table and every     *)
(* query set.                                                                *)
THEOREM WritesAreShown == Spec => WritesWhatItShows
<1>1. Init => Inv /\ AnswersAgree
  BY InitInv, InitAgrees
<1>2. Inv /\ AnswersAgree /\ [Next]_vars => Inv' /\ AnswersAgree'
  BY NextInv
<1>3. Inv /\ AnswersAgree /\ [Next]_vars =>
        [answer'.op \in {"update", "delete"} =>
           LET touched == {i \in Ids : table'[i] # table[i]}
           IN IF answer'.raised THEN touched = {}
              ELSE \A shown \in Unlimited(answer'.of) :
                      /\ touched \subseteq shown
                      /\ answer'.n = Cardinality(shown)
                      /\ answer'.op = "delete" => touched = shown
                      /\ Plainly(answer'.of) => touched \subseteq Wanted(answer'.of)]_vars
  <2> SUFFICES ASSUME Inv, Next, answer'.op \in {"update", "delete"}
      PROVE  LET touched == {i \in Ids : table'[i] # table[i]}
             IN IF answer'.raised THEN touched = {}
                ELSE \A shown \in Unlimited(answer'.of) :
                        /\ touched \subseteq shown
                        /\ answer'.n = Cardinality(shown)
                        /\ answer'.op = "delete" => touched = shown
                        /\ Plainly(answer'.of) => touched \subseteq Wanted(answer'.of)
    OBVIOUS
  <2>1. PICK s \in DOMAIN sets : Delete(s) \/ \E data : Update(s, data)
    BY WhoWrites
  <2> QED BY <2>1, WriteTouches
<1> QED BY <1>1, <1>2, <1>3, PTL DEF Spec, WritesWhatItShows
=============================================================================
