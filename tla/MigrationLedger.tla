--------------------------- MODULE MigrationLedger ---------------------------
(***************************************************************************)
(* What oxen/migrations promises to its callers: the migrations are a      *)
(* stack.  A run pushes the lowest version that is not completed once all  *)
(* its statements are in the schema; a rollback pops the highest one that  *)
(* is completed and clears its statements before it pops another.          *)
(***************************************************************************)
EXTENDS Integers

CONSTANT NumVersions

VARIABLES
    version,   \* versions 1 .. version are completed, the others are not
    schema     \* how much of each version is in the database's schema

LedgerTypeOK ==
    /\ version \in 0 .. NumVersions
    /\ schema \in [1 .. NumVersions -> {"none", "some", "all"}]

LedgerInit ==
    /\ version = 0
    /\ schema = [v \in 1 .. NumVersions |-> "none"]

(* Only the version on top of the stack is being worked on.                 *)
Work ==
    /\ version < NumVersions
    /\ \E s \in {"none", "some", "all"} :
          schema' = [schema EXCEPT ![version + 1] = s]
    /\ version' = version

Push ==
    /\ version < NumVersions
    /\ schema[version + 1] = "all"
    /\ version' = version + 1
    /\ schema' = schema

Pop ==
    /\ version > 0
    /\ version < NumVersions => schema[version + 1] = "none"
    /\ version' = version - 1
    /\ schema' = schema

LedgerNext == Work \/ Push \/ Pop

LedgerSpec == LedgerInit /\ [][LedgerNext]_<<version, schema>>
=============================================================================
