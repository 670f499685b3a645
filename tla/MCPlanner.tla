----------------------------- MODULE MCPlanner -----------------------------
(***************************************************************************)
(* Every call of planOperations with three operations drawn from the       *)
(* shapes the emitters produce for one table "t", its domain "d", an       *)
(* index "i" and a UNIQUE "u" promoted from it, in every grouping into     *)
(* changes and steps that two changes of up to two steps allow.            *)
(***************************************************************************)
EXTENDS Planner

Shape(type, kind, name, refs) ==
  [type |-> type, kind |-> kind, name |-> name, refs |-> refs]

Shapes ==
  {Shape(type, "TABLE", "t", refs) :
     type \in {"CREATE", "ALTER", "DROP"}, refs \in {<<>>, <<"d">>}}
  \cup {Shape("CREATE", "INDEX", "i", <<"t">>),
        Shape("DROP", "INDEX", "i", <<>>),
        Shape("CREATE", "UNIQUE_CONSTRAINT", "u", <<"t", "i">>)}
  \cup {Shape(type, "DOMAIN", "d", <<>>) : type \in {"CREATE", "DROP"}}

Places == {<<"c1", 1>>, <<"c1", 2>>, <<"c2", 1>>}

Operation(i, shape, place) ==
  [id |-> i, type |-> shape.type, kind |-> shape.kind, name |-> shape.name,
   refs |-> shape.refs, change |-> place[1], step |-> place[2]]

ThreeOperations ==
  {{Operation(i, s[i], p[i]) : i \in 1..3} :
     s \in [1..3 -> Shapes], p \in [1..3 -> Places]}
=============================================================================
