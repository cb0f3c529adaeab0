----------------------------- MODULE MCQuerySets -----------------------------
(* Query sets over a table of two rows, for TLC.                            *)
EXTENDS QuerySets, TLC

MCIds == {1, 2}
\* 12 is there for the patterns: it begins with 1.
MCValues == {1, 12}
MCLike == [l \in LikeLookups |-> {<<1, 1>>, <<12, 12>>} \cup
                                 (IF l = "endswith" THEN {} ELSE {<<12, 1>>})]

MCConditions ==
    {"exact" :> One(1), "exact" :> One(Opaque), "contains" :> One(Opaque),
     "ne" :> One(1), "lt" :> One(12) @@ "in" :> {1, 12}, "in" :> {},
     "isnull" :> One(1), "startswith" :> One(1) @@ "ne" :> One(None)}

MCExpressions ==
    LET p == Q("exact" :> One(12))
        q == Q("endswith" :> One(1))
    IN {p, q, Invert(p), And(p, q), Or(p, q), Invert(Or(p, q)),
        And(Invert(Or(p, q)), q),
        [Q("exact" :> One(1) @@ "gt" :> One(1)) EXCEPT !.join = "OR"]}

\* With 1 for both ends of a slice the limit is 0.
MCWindows == {1}
=============================================================================
