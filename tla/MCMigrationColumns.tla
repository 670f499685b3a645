------------------------- MODULE MCMigrationColumns -------------------------
(***************************************************************************)
(* Histories of three releases that change the column "a": added, dropped, *)
(* retyped, deprecated, generated or not, given a default, made NOT NULL,  *)
(* or renamed to "d" with its index, its UNIQUE and its CHECK; and the     *)
(* whole table dropped and created again. A release may or may not allow   *)
(* destructive steps.                                                      *)
(***************************************************************************)
EXTENDS Migration

Column(name) ==
  [name |-> name, renamedFrom |-> << >>, type |-> "text", default |-> "none",
   notNull |-> FALSE, deprecated |-> FALSE, generated |-> FALSE,
   unique |-> FALSE, check |-> << >>]

A == Column("a")
D == [A EXCEPT !.name = "d", !.renamedFrom = <<"a">>]

Table(columns) ==
  [exists      |-> TRUE,
   columns     |-> <<[Column("id") EXCEPT !.notNull = TRUE]>> \o columns,
   indexes     |-> << >>,
   constraints |-> << >>,
   key         |-> {"id"}]

Tables(columns) == {Table(<<c>>) : c \in columns}

Texts      == Tables({[A EXCEPT !.default = d] : d \in {"none", "null", "value"}})
Deprecated == Table(<<[A EXCEPT !.deprecated = TRUE]>>)
Generated  == Table(<<[A EXCEPT !.generated = TRUE]>>)
Empty      == Table(<< >>)
Plain      == Texts \cup {Deprecated, Empty}
              \cup Tables({[A EXCEPT !.type = "int"], D})
NotNull(c) == [c EXCEPT !.notNull = TRUE, !.default = "value"]
NotNulls   == Tables({NotNull(A), [A EXCEPT !.notNull = TRUE], NotNull(D),
                      [NotNull(A) EXCEPT !.default = "void"]})

(* A column is deprecated in the database it is in: a column added to a    *)
(* table already deprecated is the subject of a run of its own.            *)
DeprecatesWhatIsThere(defs) ==
  \A j, k \in 1..3 :
    j < k /\ defs[k] = Deprecated => defs[j] \in Texts \cup {Deprecated}

(* A column with a UNIQUE and a CHECK of its own, and one with an index too.*)
Keyed(column) ==
  Table(<<[column EXCEPT !.unique = TRUE,
                         !.check = <<<<column.name, "check">>>>]>>)

Indexed(column) ==
  [Keyed(column) EXCEPT
     !.indexes = <<[name |-> <<"t", column.name, "idx">>,
                    on |-> {column.name}, unique |-> FALSE]>>]

RenamedBack == [A EXCEPT !.renamedFrom = <<"d">>]
Retyped     == [A EXCEPT !.type = "int"]

(* Keyed columns are renamed and renamed back, or retyped once: a release  *)
(* that retypes a column whose CHECK the database does not have is the     *)
(* subject of a run of its own.                                            *)
ThreeDefinitions ==
  {defs \in (Plain \cup {Generated}) \X (Plain \cup {Generated})
            \X (Plain \cup NotNulls) : DeprecatesWhatIsThere(defs)}
  \cup {<<Indexed(x), Indexed(D), z>> :
          x \in {A, D}, z \in {Indexed(D), Indexed(RenamedBack), Empty}}
  \cup {<<Keyed(A), Keyed(Retyped), z>> : z \in {Keyed(Retyped), Empty}}
  \cup {<<Table(<<NotNull(A)>>), Table(<<NotNull(D)>>), Table(<<NotNull(D)>>)>>,
        <<Indexed(A), NoTable, Table(<<A>>)>>}

ColumnHistories ==
  {[k \in 1..3 |-> [def |-> defs[k], allow |-> risks]] :
     defs \in ThreeDefinitions,
     risks \in {{"lossy"}, {"lossy", "destructive"}}}
=============================================================================
