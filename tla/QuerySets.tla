------------------------------ MODULE QuerySets ------------------------------
(***************************************************************************)
(* oxen/queryset.py over build_sql_from_ir of src/lib.rs, on SQLite: query *)
(* sets derived from one another, and the statements they send when they   *)
(* are awaited.  A query set keeps its conditions in a Python list, so the *)
(* lists are a heap: `list` of a query set names one of `lists`.  The      *)
(* table has a key and one column; a statement is one step.                *)
(***************************************************************************)
EXTENDS Integers, SequencesExt, FiniteSetsExt

CONSTANTS
    Ids,         \* the primary keys
    Values,      \* what the column may hold, besides NULL
    None,        \* None in Python, NULL in the table
    Opaque,      \* a value json.dumps refuses: a datetime, a Decimal, a UUID
    Like,        \* for startswith, endswith, contains: the pairs
                 \* <<value, text>> of which the pattern of text matches value
    Conditions,  \* the keyword arguments tried, each a function on lookups
    Expressions, \* the Q expressions tried, and those they are made of
    Windows,     \* the limits, offsets and slice ends tried
    Excluding,   \* is exclude() used?
    MaxSets      \* bound: query sets

LikeLookups == {"startswith", "endswith", "contains"}
Lookups == {"exact", "ne", "lt", "lte", "gt", "gte", "in"} \cup LikeLookups

ASSUME QuerySetAssumption ==
    /\ Ids \subseteq Int /\ Values \subseteq Int /\ Windows \subseteq Int
    /\ IsFiniteSet(Ids)
    /\ {None, Opaque} \cap Int = {}
    /\ Like \in [LikeLookups -> SUBSET (Values \X Values)]
    /\ \A q \in Expressions : ToSet(q.children) \subseteq Expressions
    /\ Excluding \in BOOLEAN
    /\ MaxSets \in Nat

VARIABLES
    table,   \* the column of each row, {} where there is no row
    lists,   \* the lists of Q objects
    sets,    \* the query sets, in the order they were made
    asked,   \* for each, the arguments of filter, exclude and get, in order
    answer   \* what the last awaited statement returned

vars == <<table, lists, sets, asked, answer>>

(* The argument of a lookup: a value, or for `in` the values of a list.     *)
One(v) == {v}

-----------------------------------------------------------------------------
(* Q expressions                                                            *)

Q(filters) == [children |-> <<>>, filters |-> filters, join |-> "AND",
               negated |-> FALSE]

(* & and | keep the filters of the left side if it has the same join type   *)
(* and put the right side below it; its negation is forgotten.              *)
Combined(q, p, join) ==
    IF q.join = join
      THEN [q EXCEPT !.children = Append(@, p), !.negated = FALSE]
      ELSE [children |-> <<q, p>>, filters |-> <<>>, join |-> join,
            negated |-> FALSE]
And(q, p) == Combined(q, p, "AND")
Or(q, p)  == Combined(q, p, "OR")

(* ~q is negated, whether or not q was.                                     *)
Invert(q) == [q EXCEPT !.negated = TRUE]

-----------------------------------------------------------------------------
(* What is sent                                                             *)

(* Mutant: the filters of the children are gathered too.                    *)
GatheredBelow(qs) ==
    LET all == qs \o FlattenSeq([i \in DOMAIN qs |-> qs[i].children])
        at(l) == Max({i \in DOMAIN all : l \in DOMAIN all[i].filters})
    IN [l \in UNION {DOMAIN all[i].filters : i \in DOMAIN all} |->
            all[at(l)].filters[l]]

(* Every Q object has `filters`, so its children, join type and negation    *)
(* are not looked at; a key that comes again replaces the one before.       *)
Gathered(qs) ==
    LET at(l) == Max({i \in DOMAIN qs : l \in DOMAIN qs[i].filters})
    IN [l \in UNION {DOMAIN qs[i].filters : i \in DOMAIN qs} |->
            qs[at(l)].filters[l]]

(* A pattern is made of the value's text; any other value must be JSON.     *)
Serialisable(cond) ==
    \A l \in DOMAIN cond \ LikeLookups : Opaque \notin cond[l]

(* One condition, as SQL decides it; a lookup the code does not know is an  *)
(* equality, and so is `in` with one value.                                 *)
Compare(lookup, v, w) ==
    CASE lookup = "ne"  -> v # w
      [] lookup = "lt"  -> v < w
      [] lookup = "lte" -> v <= w
      [] lookup = "gt"  -> v > w
      [] lookup = "gte" -> v >= w
      [] lookup \in LikeLookups -> <<v, w>> \in Like[lookup]
      [] OTHER -> v = w
Holds(lookup, arg, v) ==
    v # None /\ \E w \in arg \cap Values : Compare(lookup, v, w)

Rows == {i \in Ids : table[i] # {}}
Column(i) == CHOOSE v \in table[i] : TRUE

Matching(cond) ==
    {i \in Rows : \A l \in DOMAIN cond : Holds(l, cond[l], Column(i))}

(* ORDER BY: NULL comes first, and rows that no key tells apart come in any *)
(* order.                                                                   *)
Key(field, i) == IF field = "pk" THEN i
                 ELSE IF Column(i) = None THEN Min(Values) - 1 ELSE Column(i)
Before(orderings, i, j) ==
    \E n \in DOMAIN orderings :
        /\ \A m \in 1 .. (n - 1) :
              Key(orderings[m].field, i) = Key(orderings[m].field, j)
        /\ LET a == Key(orderings[n].field, i)
               b == Key(orderings[n].field, j)
           IN IF orderings[n].desc THEN a > b ELSE a < b
Sorted(S, orderings) ==
    {s \in SetToSeqs(S) : \A m, n \in DOMAIN s :
                              m < n => ~Before(orderings, s[n], s[m])}

(* A negative LIMIT is none, a negative OFFSET is 0.                        *)
Skipped(offset) == IF offset = None \/ offset < 0 THEN 0 ELSE offset
Window(s, limit, offset) ==
    LET from == Skipped(offset)
        to   == IF limit = None \/ limit < 0 THEN Len(s) ELSE from + limit
    IN SubSeq(s, from + 1, IF to < Len(s) THEN to ELSE Len(s))

(* Mutant: CountsOneMore, the count of one row too many.                    *)
NoAnswer == [op |-> "none", of |-> 1, args |-> <<>>, raised |-> FALSE,
             rows |-> <<>>, n |-> 0]
Raises(op, s)        == [NoAnswer EXCEPT !.op = op, !.of = s, !.raised = TRUE]
CountsOneMore(op, s, n) == [NoAnswer EXCEPT !.op = op, !.of = s, !.n = n + 1]
Counts(op, s, n)     == [NoAnswer EXCEPT !.op = op, !.of = s, !.n = n]
Returns(op, s, rows) == [NoAnswer EXCEPT !.op = op, !.of = s, !.rows = rows]

(* The results a SELECT may give.  When the IR cannot be built, the whole   *)
(* table is selected; OFFSET without LIMIT is an error of SQLite.           *)
Execute(op, s, set, qs) ==
    LET cond == Gathered(qs)
    IN IF ~Serialisable(cond)
         THEN {Returns(op, s, r) : r \in SetToSeqs(Rows)}
       ELSE IF set.offset # None /\ set.limit = None
         THEN {Raises(op, s)}
       ELSE {Returns(op, s, Window(r, set.limit, set.offset)) :
                r \in Sorted(Matching(cond), set.orderings)}

-----------------------------------------------------------------------------
(* Building                                                                 *)

(* Mutant: the clone has the same list of Q objects.                        *)
CloneSharing(s) == sets[s]

(* _clone: a query set with a list of its own.                              *)
Clone(s) == [sets[s] EXCEPT !.list = Len(lists) + 1]

(* Add the clone, with its attributes changed, and the arguments it got.    *)
Derive(s, clone, args) ==
    /\ Len(sets) < MaxSets
    /\ sets' = Append(sets, clone)
    /\ lists' = [Append(lists, lists[sets[s].list]) EXCEPT
                    ![clone.list] = @ \o [n \in DOMAIN args |-> args[n].q]]
    /\ asked' = Append(asked, asked[s] \o args)
    /\ UNCHANGED <<table, answer>>

(* filter and exclude make the same query set: `negate` is not used.        *)
FilterOrExclude(s, q, negate) ==
    /\ negate => Excluding
    /\ Derive(s, Clone(s), <<[q |-> q, negate |-> negate]>>)

OrderBy(s, field, desc) ==
    Derive(s, [Clone(s) EXCEPT
                 !.orderings = Append(@, [field |-> field, desc |-> desc])], <<>>)

Limit(s, n)  == Derive(s, [Clone(s) EXCEPT !.limit = n], <<>>)
Offset(s, n) == Derive(s, [Clone(s) EXCEPT !.offset = n], <<>>)

(* [start:stop], either of which may be left out; a slice of a slice counts *)
(* from the start of the table.                                             *)
Slice(s, start, stop) ==
    LET limit == IF stop = None THEN sets[s].limit
                 ELSE IF start = None THEN stop ELSE stop - start
    IN Derive(s, [Clone(s) EXCEPT !.limit = limit,
                    !.offset = IF start = None THEN @ ELSE start], <<>>)

(* all, distinct, only, annotate, using_db, ...: attributes that the        *)
(* statement does not depend on (every row has its key: none is a double).  *)
Copy(s) == Derive(s, Clone(s), <<>>)

Build(s) ==
    \/ \E q \in {Q(c) : c \in Conditions} \cup Expressions, negate \in BOOLEAN :
          FilterOrExclude(s, q, negate)
    \/ \E field \in {"pk", "a"}, desc \in BOOLEAN : OrderBy(s, field, desc)
    \/ \E n \in Windows : Limit(s, n) \/ Offset(s, n)
    \/ \E start, stop \in Windows \cup {None} : Slice(s, start, stop)
    \/ Copy(s)

-----------------------------------------------------------------------------
(* Awaiting                                                                 *)

List(s) == lists[sets[s].list]

Ask(results) == answer' \in results /\ UNCHANGED <<table, lists, sets, asked>>

Selected(s) == Execute("select", s, sets[s], List(s))

Await(s) == Ask(Selected(s))

HeadOf(rows) == IF rows = <<>> THEN rows ELSE <<rows[1]>>

(* QuerySetSingle: the first result, or None, or DoesNotExist.              *)
Single(results, required) ==
    {IF r.rows = <<>> /\ required THEN [r EXCEPT !.raised = TRUE]
     ELSE [r EXCEPT !.rows = HeadOf(@)] : r \in results}

FirstRow(s) ==
    Ask(Single(Execute("first", s, [sets[s] EXCEPT !.limit = 1], List(s)), FALSE))

LastRow(s) ==
    Ask(Single(Execute("last", s,
        [sets[s] EXCEPT !.limit = 1,
           !.orderings = IF @ = <<>> THEN <<[field |-> "pk", desc |-> TRUE]>>
                                     ELSE @], List(s)), FALSE))

(* latest and earliest: the direction is not turned around for latest.      *)
Extreme(s, op, field) ==
    Ask(Single(Execute(op, s,
        [sets[s] EXCEPT !.limit = 1,
           !.orderings = Append(@, [field |-> field, desc |-> FALSE])],
        List(s)), TRUE))

(* get and get_or_none add their arguments and ask for one row, so that     *)
(* MultipleObjectsReturned is never raised.                                 *)
Get(s, q, required) ==
    Ask({[a EXCEPT !.args = <<q>>] : a \in
        Single(Execute(IF required THEN "get" ELSE "get_or_none", s,
            [sets[s] EXCEPT !.limit = 1], List(s) \o <<q>>), required)})

(* Mutant: an IR that cannot be built counts nothing.                       *)
CountedOrNothing(qs) ==
    IF Serialisable(Gathered(qs)) THEN Matching(Gathered(qs)) ELSE {}

(* count and exists look at the conditions alone; in the fallback they look *)
(* at the whole table, as select does.                                      *)
Counted(qs) ==
    IF Serialisable(Gathered(qs)) THEN Matching(Gathered(qs)) ELSE Rows
Count(s)  == Ask({Counts("count", s, Cardinality(Counted(List(s))))})
Exists(s) == Ask({Counts("exists", s, IF Counted(List(s)) = {} THEN 0 ELSE 1)})

(* Mutant: an IR that cannot be built is not looked at.                     *)
WritesRegardless(cond) == TRUE

(* update and delete raise when their IR cannot be built.                   *)
Writes(cond) == Serialisable(cond)

Target(cond) == IF Serialisable(cond) THEN Matching(cond) ELSE Rows

Update(s, data) ==
    LET cond == Gathered(List(s))
    IN IF Writes(cond) /\ data \notin {{}, One(Opaque)}
         THEN /\ table' = [i \in Ids |-> IF i \in Target(cond) THEN data
                                                             ELSE table[i]]
              /\ answer' = Counts("update", s, Cardinality(Target(cond)))
              /\ UNCHANGED <<lists, sets, asked>>
         ELSE Ask({Raises("update", s)})

Delete(s) ==
    LET cond == Gathered(List(s))
    IN IF Writes(cond)
         THEN /\ table' = [i \in Ids |-> IF i \in Target(cond) THEN {}
                                                             ELSE table[i]]
              /\ answer' = Counts("delete", s, Cardinality(Target(cond)))
              /\ UNCHANGED <<lists, sets, asked>>
         ELSE Ask({Raises("delete", s)})

Evaluate(s) ==
    \/ Await(s) \/ FirstRow(s) \/ LastRow(s) \/ Count(s) \/ Exists(s)
    \/ \E field \in {"pk", "a"} :
          Extreme(s, "latest", field) \/ Extreme(s, "earliest", field)
    \/ \E q \in Expressions, required \in BOOLEAN : Get(s, q, required)
    \/ \E data \in {{}} \cup {One(v) : v \in Values \cup {None, Opaque}} :
          Update(s, data)
    \/ Delete(s)

(* Model.filter() and the others begin with a new query set.                *)
Init ==
    /\ table \in [Ids -> {{}} \cup {One(v) : v \in Values \cup {None}}]
    /\ lists = <<<<>>>>
    /\ sets = <<[list |-> 1, limit |-> None, offset |-> None, orderings |-> <<>>]>>
    /\ asked = <<<<>>>>
    /\ answer = NoAnswer

(* The program has its answer and goes on.                                  *)
Take == answer # NoAnswer /\ Ask({NoAnswer})

Next ==
    \/ answer = NoAnswer /\ \E s \in DOMAIN sets : Build(s) \/ Evaluate(s)
    \/ Take

Spec == Init /\ [][Next]_vars

-----------------------------------------------------------------------------
(* Properties                                                               *)

(* Query sets refer to lists there are; answers are about query sets and    *)
(* rows there are or were.                                                  *)
TypeOK ==
    /\ table \in [Ids -> {{}} \cup {One(v) : v \in Values \cup {None}}]
    /\ DOMAIN asked = DOMAIN sets
    /\ \A s \in DOMAIN sets :
          /\ sets[s].list \in DOMAIN lists
          /\ {sets[s].limit, sets[s].offset} \subseteq Int \cup {None}
          /\ ToSet(sets[s].orderings) \subseteq
                [field : {"pk", "a"}, desc : BOOLEAN]
    /\ answer.of \in DOMAIN sets /\ answer.n \in 0 .. Cardinality(Ids)
    /\ ToSet(answer.rows) \subseteq Ids

(* Building one query set never changes what another one selects, however   *)
(* the two are derived from each other (_clone copies the list).            *)
OthersUnchanged ==
    [][\A s \in DOMAIN sets : List(s)' = List(s)]_vars

(* What a Q object says of v, when of those below it T are true of v.       *)
Says(q, v, T) ==
    LET filter(l) == Holds(l, q.filters[l], v)
        child(n)  == q.children[n] \in T
    IN IF q.join = "AND"
         THEN (\A l \in DOMAIN q.filters : filter(l))
              /\ \A n \in DOMAIN q.children : child(n)
         ELSE (\E l \in DOMAIN q.filters : filter(l))
              \/ \E n \in DOMAIN q.children : child(n)

(* The values an expression is true of.                                     *)
TrueOf[q \in Expressions] ==
    {v \in Values \cup {None} :
        Says(q, v, {p \in ToSet(q.children) : v \in TrueOf[p]})}

(* What a filter's argument asks of a row.                                  *)
Asks(q, v) == Says(q, v, {p \in ToSet(q.children) : v \in TrueOf[p]})

(* No negation, here or below, and no lookup the code does not know.        *)
PositiveOver(q, T) ==
    /\ ~q.negated
    /\ DOMAIN q.filters \subseteq Lookups
    /\ ToSet(q.children) \subseteq T
IsPositive[q \in Expressions] ==
    PositiveOver(q, {p \in ToSet(q.children) : IsPositive[p]})
Positive(q) == PositiveOver(q, {p \in ToSet(q.children) : IsPositive[p]})

AskedOf(s, i) == \A n \in DOMAIN asked[s] : Asks(asked[s][n].q, Column(i))

(* An OR with filters of its own, Q(join_type="OR", a=1, b=2), is sent as   *)
(* an AND; | makes none.                                                    *)
Positively(s) ==
    \A n \in DOMAIN asked[s] :
        LET q == asked[s][n].q
        IN /\ ~asked[s][n].negate /\ Positive(q)
           /\ q.join = "AND" \/ DOMAIN q.filters = {}

(* Keyword arguments alone, and no key twice.                               *)
Plainly(s) ==
    /\ Positively(s)
    /\ \A n \in DOMAIN asked[s] :
          asked[s][n].q.join = "AND" /\ asked[s][n].q.children = <<>>
    /\ \A m, n \in DOMAIN asked[s] : m # n =>
          DOMAIN asked[s][m].q.filters \cap DOMAIN asked[s][n].q.filters = {}

Wanted(s) == {i \in Rows : AskedOf(s, i)}

(* What a query set with the conditions qs shows without limit and offset.  *)
Showing(s, qs) == {ToSet(r.rows) : r \in
    Execute("select", s, [sets[s] EXCEPT !.limit = None, !.offset = None], qs)}
Unlimited(s) == Showing(s, List(s))

(* A query set built without negations and without an unknown lookup shows  *)
(* every row its arguments ask for, Q expressions of any shape included:    *)
(* conditions are lost, none is made up.  Built from keyword arguments that *)
(* do not repeat a key and are all JSON, it shows those rows and no others. *)
ShowsWhatIsAsked ==
    \A s \in DOMAIN sets : Positively(s) =>
        \A shown \in Unlimited(s) :
            /\ Wanted(s) \subseteq shown
            /\ Plainly(s) /\ Serialisable(Gathered(List(s))) => shown = Wanted(s)

(* update() and delete() change the rows the same query set shows without   *)
(* its limits, whatever its arguments mean, or they raise and change none.  *)
(* With plain keyword arguments they touch no row that was not asked for,   *)
(* where select falls back to the whole table too.                          *)
WritesWhatItShows ==
    [][answer'.op \in {"update", "delete"} =>
         LET touched == {i \in Ids : table'[i] # table[i]}
         IN IF answer'.raised THEN touched = {}
            ELSE \A shown \in Unlimited(answer'.of) :
                    /\ touched \subseteq shown
                    /\ answer'.n = Cardinality(shown)
                    /\ answer'.op = "delete" => touched = shown
                    /\ Plainly(answer'.of) => touched \subseteq Wanted(answer'.of)]_vars

OneRowCalls == {"first", "last", "latest", "earliest", "get", "get_or_none"}
Required    == {"latest", "earliest", "get"}

(* One of the rows qs shows, or if the offset passes over them all none.    *)
FindsOne(a, s, qs) ==
    LET passed == IF Serialisable(Gathered(qs)) THEN Skipped(sets[s].offset) ELSE 0
    IN \A shown \in Showing(s, qs) :
          LET missed == Cardinality(shown) <= passed
          IN /\ IF missed THEN a.rows = <<>> ELSE \E i \in shown : a.rows = <<i>>
             /\ a.raised <=> (missed /\ a.op \in Required)

(* count() and exists() tell of the rows shown without limit and offset, in *)
(* the fallback too: limit(1).count() may be 2.  The calls for one row, get *)
(* and get_or_none with their argument among the conditions, return one of  *)
(* those rows exactly when there are more than the offset passes over (the  *)
(* fallback heeds none), whatever the limit; otherwise get, latest and      *)
(* earliest raise, and they alone.  The row first() returns is one the      *)
(* query set may show first, if its limit is not 0 and awaiting it does not *)
(* raise.                                                                   *)
Agrees(a, s) ==
    /\ a.op = "count" =>
          \A shown \in Unlimited(s) : a.n = Cardinality(shown)
    /\ a.op = "exists" =>
          \A shown \in Unlimited(s) : (a.n = 1) <=> (shown # {})
    /\ a.op = "first" /\ sets[s].limit # 0 =>
          \E r \in Selected(s) : r.raised \/ a.rows = HeadOf(r.rows)
    /\ a.op \in OneRowCalls => FindsOne(a, s, List(s) \o a.args)
AnswersAgree == \A s \in DOMAIN sets : answer.of = s => Agrees(answer, s)

(* exclude: "create QuerySet with given excluding filters"                  *)
(* (docs/query.rst:20): no row it names is shown.                           *)
ExcludedStaysOut ==
    \A s \in DOMAIN sets : \A n \in DOMAIN asked[s] :
        asked[s][n].negate /\ Positive(asked[s][n].q) =>
            \A shown \in Unlimited(s), i \in Rows :
                Asks(asked[s][n].q, Column(i)) => i \notin shown
=============================================================================
