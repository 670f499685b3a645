------------------------- MODULE MCMigrationIndexes -------------------------
(***************************************************************************)
(* Histories of releases that change one index and one constraint at a     *)
(* time: an index "i" over a or a, b and a UNIQUE or CHECK over c, in every order.  *)
(***************************************************************************)
EXTENDS Migration

Column(name) ==
  [name |-> name, renamedFrom |-> << >>, type |-> "text", default |-> "none",
   notNull |-> FALSE, deprecated |-> FALSE, generated |-> FALSE,
   unique |-> FALSE, check |-> << >>]

Table(indexes, constraints) ==
  [exists      |-> TRUE,
   columns     |-> <<[Column("id") EXCEPT !.notNull = TRUE],
                     Column("a"), Column("b"), Column("c")>>,
   indexes     |-> indexes,
   constraints |-> constraints,
   key         |-> {"id"}]

IndexChoices ==
  {<< >>} \cup {<<[name |-> <<"i">>, on |-> on, unique |-> unique]>> :
                  on \in {{"a"}, {"a", "b"}}, unique \in BOOLEAN}

ConstraintChoices ==
  {<< >>,
   <<[name |-> <<"u">>, kind |-> "UNIQUE", on |-> {"c"}]>>,
   <<[name |-> <<"k">>, kind |-> "CHECK", on |-> {"c"}]>>}

Release(d) == [def |-> d, allow |-> {"lossy"}]

(* Any three releases, the first with the index alone.                     *)
ThreeReleases ==
  {<<Release(Table(i, << >>)), Release(Table(j, c)), Release(Table(k, d))>> :
     i \in IndexChoices, j \in IndexChoices, k \in IndexChoices,
     c \in ConstraintChoices, d \in ConstraintChoices}
=============================================================================
