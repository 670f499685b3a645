------------------------ MODULE MCMigrationFindings ------------------------
(***************************************************************************)
(* Short histories on which the code does not do what its comments and     *)
(* documents say. Each has a cfg of its own, with the one property it      *)
(* breaks; README.md tells the stories.                                    *)
(***************************************************************************)
EXTENDS Migration

Column(name) ==
  [name |-> name, renamedFrom |-> << >>, type |-> "text", default |-> "none",
   notNull |-> FALSE, deprecated |-> FALSE, generated |-> FALSE,
   unique |-> FALSE, check |-> << >>]

A == Column("a")
B == Column("b")

Table(columns) ==
  [exists      |-> TRUE,
   columns     |-> <<[Column("id") EXCEPT !.notNull = TRUE]>> \o columns,
   indexes     |-> << >>,
   constraints |-> << >>,
   key         |-> {"id"}]

Indexed(on, alsoOn) ==
  [Table(<<A, B>>) EXCEPT
     !.indexes = <<[name |-> <<"i">>, on |-> on, unique |-> FALSE],
                   [name |-> <<"j">>, on |-> alsoOn, unique |-> FALSE]>>]

Constrained(kind, on) ==
  [Table(<<A, B>>) EXCEPT
     !.constraints = <<[name |-> <<"k">>, kind |-> kind, on |-> on]>>]

Releases(defs) ==
  [k \in DOMAIN defs |-> [def |-> defs[k], allow |-> {"lossy", "destructive"}]]

(* Two indexes of one table changed in one release.                        *)
TwoIndexesChanged ==
  {Releases(<<Indexed({"a"}, {"b"}), Indexed({"a", "b"}, {"a", "b"})>>)}

(* A UNIQUE over a, relaxed to a and b, by a run that is stopped.          *)
UniqueRelaxed ==
  {Releases(<<Constrained("UNIQUE", {"a"}), Constrained("UNIQUE", {"a", "b"})>>)}

(* A column made NOT NULL by a run that is stopped, and taken back.        *)
NotNullTakenBack ==
  {Releases(<<Table(<<A>>),
              Table(<<[A EXCEPT !.notNull = TRUE, !.default = "value"]>>),
              Table(<<A>>)>>)}

(* A UNIQUE replaced with a CHECK of the same name.                        *)
KindChanged ==
  {Releases(<<Constrained("UNIQUE", {"a"}), Constrained("CHECK", {"a"})>>)}

(* A column added to a table, deprecated from the start.                   *)
DeprecatedAdded ==
  {Releases(<<Table(<< >>), Table(<<[A EXCEPT !.deprecated = TRUE]>>)>>)}

(* A column retyped and given a CHECK.                                     *)
RetypedWithCheck ==
  {Releases(<<Table(<<A>>),
              Table(<<[A EXCEPT !.type = "int", !.check = <<<<"a", "check">>>>]>>)>>)}
=============================================================================
