-------------------------- MODULE ShippedMigrations --------------------------
(***************************************************************************)
(* The 76 files of the repository's migrations directory, and what calls   *)
(* of run_migrations and rollback_migrations make of them on a database    *)
(* that refuses nothing but a table that exists: a file is the sequence of *)
(* the tables its up_sql creates, one statement each; its down_sql drops   *)
(* them in reverse order, IF EXISTS.  The calls themselves, with faults    *)
(* and several callers, are in MigrationRunner.                            *)
(***************************************************************************)
EXTENDS Integers, Sequences

CONSTANTS
    Targets,      \* target versions asked for: positions in Shipped, 0 is
                  \* one below them all
    MaxCalls      \* bound: calls

SimpleModels == <<"simple_users", "simple_products">>
SimpleUsers == <<"simple_users">>
Comprehensive == <<"comprehensive_users", "comprehensive_products">>
Coordination == <<"coordination_users">>
FinalModels == <<"final_users", "final_products">>
Summary == <<"summary_users">>
QueryTest == <<"query_test_users">>
FinalTest == <<"final_test_users">>
FreshTest == <<"fresh_test_users">>
Relations ==
    <<"test_authors", "test_categories", "test_books", "test_book_details",
      "test_tags", "test_book_tags", "test_books_with_tags">>

M20250916142537211 == SimpleModels
M20250916142611506 == SimpleModels
M20250916142645804 == SimpleModels
M20250916142645819 == SimpleUsers
M20250916142646381 == Comprehensive
M20250916142720662 == Comprehensive
M20250916142754958 == Comprehensive
M20250916142754977 == Coordination
M20250916142756386 == FinalModels
M20250916142830676 == FinalModels
M20250916142904974 == FinalModels
M20250916142904996 == Summary
M20250916142939284 == Summary
M20250916143013587 == Summary
M20250916144111463 == QueryTest
M20250916144111485 == FinalTest
M20250916144111503 == FreshTest
M20250916144111547 == Relations
M20250916144254505 == SimpleUsers
M20250916153115230 == SimpleModels
M20250916153149563 == SimpleModels
M20250916175625594 == SimpleModels
M20250916175659934 == SimpleModels
M20250917155118493 == SimpleModels
M20250917155152816 == SimpleModels
M20250917175503951 == SimpleModels
M20250917175538281 == SimpleModels
M20250917182208820 == SimpleModels
M20250917182243150 == SimpleModels
M20250917214520401 == SimpleModels
M20250917222531271 == SimpleModels
M20250918124153890 == SimpleUsers
M20250918124154552 == Comprehensive
M20250918124303191 == Comprehensive
M20250918142615935 == SimpleModels
M20250918142650276 == SimpleModels
M20250918145309479 == Comprehensive
M20250918161157470 == SimpleModels
M20250918164033971 == Coordination
M20250918164034414 == FinalModels
M20250918164143073 == FinalModels
M20250918180213915 == SimpleUsers
M20250918180214648 == Comprehensive
M20250918180323380 == Comprehensive
M20250918184108142 == FinalModels
M20250919130058104 == Comprehensive
M20250919143534366 == Summary
M20250919143642935 == Summary
M20250919143732074 == SimpleModels
M20250919143806443 == SimpleModels
M20250919160841004 == Coordination
M20250919160841185 == FinalModels
M20250919160949853 == FinalModels
M20250919170152653 == Summary
M20250919170316473 == SimpleModels
M20250919175157956 == QueryTest
M20250919175158043 == FinalTest
M20250919175158131 == FreshTest
M20250919180556726 == QueryTest
M20250919180556817 == FinalTest
M20250919180556921 == FreshTest
M20250919181615749 == QueryTest
M20250919181615841 == FinalTest
M20250919181615966 == FreshTest
M20250919182606781 == FinalModels
M20250919185705241 == SimpleModels
M20250919185705385 == SimpleModels
M20250919185739956 == SimpleModels
M20250919190444979 == QueryTest
M20250919190445106 == FinalTest
M20250919190445265 == FreshTest
M20250919232455306 == QueryTest
M20250919232455504 == FinalTest
M20250919232455710 == FreshTest
M20250919232455890 == Relations
M20250919232530656 == SimpleUsers

(* All of them, as the runner sorts them.                                   *)
Shipped == <<
    M20250916142537211, M20250916142611506, M20250916142645804, M20250916142645819,
    M20250916142646381, M20250916142720662, M20250916142754958, M20250916142754977,
    M20250916142756386, M20250916142830676, M20250916142904974, M20250916142904996,
    M20250916142939284, M20250916143013587, M20250916144111463, M20250916144111485,
    M20250916144111503, M20250916144111547, M20250916144254505, M20250916153115230,
    M20250916153149563, M20250916175625594, M20250916175659934, M20250917155118493,
    M20250917155152816, M20250917175503951, M20250917175538281, M20250917182208820,
    M20250917182243150, M20250917214520401, M20250917222531271, M20250918124153890,
    M20250918124154552, M20250918124303191, M20250918142615935, M20250918142650276,
    M20250918145309479, M20250918161157470, M20250918164033971, M20250918164034414,
    M20250918164143073, M20250918180213915, M20250918180214648, M20250918180323380,
    M20250918184108142, M20250919130058104, M20250919143534366, M20250919143642935,
    M20250919143732074, M20250919143806443, M20250919160841004, M20250919160841185,
    M20250919160949853, M20250919170152653, M20250919170316473, M20250919175157956,
    M20250919175158043, M20250919175158131, M20250919180556726, M20250919180556817,
    M20250919180556921, M20250919181615749, M20250919181615841, M20250919181615966,
    M20250919182606781, M20250919185705241, M20250919185705385, M20250919185739956,
    M20250919190444979, M20250919190445106, M20250919190445265, M20250919232455306,
    M20250919232455504, M20250919232455710, M20250919232455890, M20250919232530656>>

Versions == 1 .. Len(Shipped)
TablesOf(v) == {Shipped[v][i] : i \in 1 .. Len(Shipped[v])}
AllTables == UNION {TablesOf(v) : v \in Versions}

ShippedAssumption ==
    /\ Targets \subseteq Versions \cup {0}
    /\ MaxCalls \in Nat

VARIABLES
    status,       \* of each row of oxen_migrations
    owner,        \* of each table: the migration that created it, 0 without
    kind, target, \* of the call
    todo,         \* the part of its plan it has not come to
    calls

vars == <<status, owner, kind, target, todo, calls>>

All == Len(Shipped)      \* target_version=None

ShippedTypeOK ==
    /\ status \in [Versions -> {"absent", "completed", "failed", "rolled_back"}]
    /\ owner \in [AllTables -> Versions \cup {0}]
    /\ kind \in {"none", "run", "rollback"}
    /\ target \in 0 .. All
    /\ todo \subseteq Versions
    /\ calls \in 0 .. MaxCalls

Init ==
    /\ status = [v \in Versions |-> "absent"]
    /\ owner = [t \in AllTables |-> 0]
    /\ kind = "none" /\ target = 0 /\ todo = {}
    /\ calls = 0

-----------------------------------------------------------------------------
Completed == {v \in Versions : status[v] = "completed"}

Begin(k, n, plan) ==
    /\ todo = {} /\ calls < MaxCalls
    /\ kind' = k /\ target' = n
    /\ todo' = plan
    /\ calls' = calls + 1
    /\ UNCHANGED <<status, owner>>

(* Everything pending, or up to a target that is pending itself.            *)
Run(n) ==
    /\ n = All \/ n \in Versions \ Completed
    /\ Begin("run", n, {v \in Versions \ Completed : v <= n})

Rollback(n) ==
    /\ n \notin Versions \ Completed
    /\ Begin("rollback", n, {v \in Completed : v > n})

(* The place of the first CREATE TABLE that is refused.                     *)
Refused(v) == {i \in 1 .. Len(Shipped[v]) : owner[Shipped[v][i]] # 0}

(* Mutant: the statements' results are not looked at.                       *)
ErrorsIgnored(v) == TRUE

AllAccepted(v) == Refused(v) = {}

(* A migration runs to its first refused statement, and the call goes on.   *)
RunNext ==
    /\ kind = "run"
    /\ \E v \in todo :
          /\ \A w \in todo : v <= w
          /\ LET made == {Shipped[v][i] : i \in {i \in 1 .. Len(Shipped[v]) :
                                                   \A j \in Refused(v) : i < j}}
             IN owner' = [t \in AllTables |-> IF t \in made THEN v ELSE owner[t]]
          /\ status' = [status EXCEPT ![v] = IF AllAccepted(v) THEN "completed"
                                                               ELSE "failed"]
          /\ todo' = todo \ {v}
    /\ UNCHANGED <<kind, target, calls>>

(* The down statements drop a table whoever made it.                        *)
Dropped(v) == TablesOf(v)

RollbackNext ==
    /\ kind = "rollback"
    /\ \E v \in todo :
          /\ \A w \in todo : v >= w
          /\ owner' = [t \in AllTables |-> IF t \in Dropped(v) THEN 0 ELSE owner[t]]
          /\ status' = [status EXCEPT ![v] = "rolled_back"]
          /\ todo' = todo \ {v}
    /\ UNCHANGED <<kind, target, calls>>

Next ==
    \/ \E n \in Targets \cup {All} : Run(n)
    \/ \E n \in Targets : Rollback(n)
    \/ RunNext \/ RollbackNext

Spec == Init /\ [][Next]_vars

-----------------------------------------------------------------------------
(* Properties                                                               *)

(* Most of these files fail, for they create tables that earlier ones have  *)
(* created.  Still the schema is at any time made of the completed ones:    *)
(* each of its tables was created by one of them, every completed one has   *)
(* all its own, and so a rollback drops no table of another and no failure  *)
(* leaves a part behind.                                                    *)
SchemaIsTheLedger ==
    \A t \in AllTables :
        {v \in Completed : t \in TablesOf(v)} = {owner[t]} \ {0}

(* After a run without a target the schema has every table.                 *)
RunMakesAllTables ==
    kind = "run" /\ target = All /\ todo = {} => \A t \in AllTables : owner[t] # 0

ShippedSound == SchemaIsTheLedger /\ RunMakesAllTables
=============================================================================
