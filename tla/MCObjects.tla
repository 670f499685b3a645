----------------------------- MODULE MCObjects -----------------------------
(***************************************************************************)
(* Histories of two releases. In Tied the objects need each other: a       *)
(* schema "app", domains in and outside it, tables with columns of those   *)
(* domains, one of them renamed; every complete definition is followed by  *)
(* every other, declared in dependency order or the other way round. In    *)
(* Alone one domain or one sequence goes from each of its forms to each    *)
(* other, with each set of allowed risks. In Strict a column is added to a *)
(* table or moves between plain types and two domains, which are NOT NULL, *)
(* have defaults, and change with it. Odd are the definitions that are     *)
(* refused or not valid.                                                   *)
(***************************************************************************)
EXTENDS Deployments

LeastBigint == -10

Schema(name) == [kind |-> "SCHEMA", name |-> name]

Domain(ns, name) ==
  [kind |-> "DOMAIN", ns |-> ns, name |-> name, type |-> "text",
   notNull |-> FALSE, default |-> Unset, check |-> Unset]

Table(ns, name, columns) ==
  [kind |-> "TABLE", ns |-> ns, name |-> name, renamedFrom |-> Unset,
   columns |-> columns, unfilled |-> {}]

Sequence(options) ==
  [kind |-> "SEQUENCE", ns |-> "public", name |-> "counter", options |-> options]

Users(domain) == Table("public", "users", [email |-> domain])
People(domain) ==
  [Table("public", "people", [email |-> domain]) EXCEPT !.renamedFrom = "users"]
Orders(domain) ==
  Table("app", "orders", [code |-> domain, note |-> << >>])

Plain == << >>
Mail  == <<"mail">>
Code  == <<"app", "code">>

-----------------------------------------------------------------------------
Complete(set) ==
  LET declared == {QualifiedName(o) : o \in set}
  IN  \A o \in set :
        /\ o.kind # "SCHEMA" /\ o.ns # "public" => <<o.ns>> \in declared
        /\ o.kind = "TABLE" =>
             \A c \in DOMAIN o.columns : o.columns[c] \in declared \cup {Plain}

(* At most one of each line.                                               *)
Kinds ==
  <<{Schema("app")},
    {Domain("app", "code")},
    {Domain("public", "mail")},
    {Orders(Plain), Orders(Code)},
    {Users(Plain), Users(Mail), Users(Code), People(Plain), People(Code)}>>

OneOf(k) == {{}} \cup {{o} : o \in Kinds[k]}

Sets ==
  {set \in {a \cup b \cup c \cup d \cup e :
              a \in OneOf(1), b \in OneOf(2), c \in OneOf(3), d \in OneOf(4),
              e \in OneOf(5)} : Complete(set)}

Position(o) == CHOOSE k \in DOMAIN Kinds : o \in Kinds[k]

InOrder(set) == SetToSortSeq(set, LAMBDA o, p : Position(o) < Position(p))

Releases(first, second, risks) ==
  <<[def |-> first, allow |-> {"lossy", "destructive"}],
    [def |-> second, allow |-> risks]>>

(* The schema of the tables and what is in it come and go in half of them; *)
(* a history starts with the tables there.                                 *)
Tied ==
  {Releases(InOrder(a), InOrder(b), {"lossy", "destructive"}) :
     a \in {s \in Sets : \E o \in s : o.kind = "TABLE"}, b \in Sets}
  \cup {Releases(Reverse(InOrder(a)), Reverse(InOrder(b)), {"lossy"}) :
          a, b \in {s \in Sets : \E o \in s : o.kind = "TABLE"}}
  \cup {Releases(Reverse(InOrder(a)), Reverse(InOrder(b)), {"lossy", "destructive"}) :
          a, b \in {s \in Sets : Cardinality(s) > 3}}

-----------------------------------------------------------------------------
Default == [increment |-> Unset, min |-> Unset, max |-> Unset, start |-> Unset,
            cache |-> Unset, cycle |-> Unset]

Sequences ==
  {Sequence(o) : o \in
     {Default,
      [Default EXCEPT !.increment = 1, !.min = 1, !.cycle = FALSE],
      [Default EXCEPT !.increment = 2],
      [Default EXCEPT !.increment = -1],
      [Default EXCEPT !.max = 2],
      [Default EXCEPT !.min = 0, !.cycle = TRUE],
      [Default EXCEPT !.min = 2, !.start = 3, !.cache = 3]}}

Domains ==
  {[Domain("public", "mail") EXCEPT !.type = t, !.notNull = n, !.default = d, !.check = c] :
     t \in {"text"}, n \in BOOLEAN, d \in {Unset, "x", "y"}, c \in {Unset, "k"}}
  \cup {[Domain("public", "mail") EXCEPT !.type = "int"],
        [Domain("public", "mail") EXCEPT !.check = "l"]}

Risks == {{}, {"lossy"}, {"lossy", "destructive"}}

Alone ==
  {Releases(<<a>>, <<b>>, risks) : a, b \in Sequences, risks \in Risks}
  \cup {Releases(<<a>>, <<b>>, risks) : a, b \in Domains, risks \in Risks}
  \cup {Releases(<<a>>, << >>, risks) : a \in Sequences \cup Domains, risks \in Risks}

-----------------------------------------------------------------------------
StrictDomains(name) ==
  {[Domain("public", name) EXCEPT !.notNull = TRUE, !.default = d] : d \in {Unset, "x"}}

(* Domain.column: a column takes the NOT NULL and the default of its       *)
(* domain.                                                                 *)
Unfilled(set, columns) ==
  {c \in DOMAIN columns :
     \E o \in set : /\ QualifiedName(o) = columns[c]
                    /\ o.notNull /\ o.default = Unset}

OfDomains(domains, columns) ==
  <<[Table("public", "users", columns) EXCEPT !.unfilled = Unfilled(domains, columns)]>>

Required == [Users(Plain) EXCEPT !.unfilled = {"email"}]

(* The domains, in either order with the table.                            *)
Mails == {{}, {Domain("public", "mail")}} \cup {{o} : o \in StrictDomains("mail")}
Keys  == {{}} \cup {{o} : o \in StrictDomains("key")}

StrictDefinitions ==
  {SetToSeq(a \cup b) \o t : a \in Mails, b \in Keys,
     t \in {<<Required>>, OfDomains({}, << >>), OfDomains({}, [email |-> Plain])}}
  \cup {SetToSeq(a \cup b) \o OfDomains(a, [email |-> Mail]) : a \in Mails \ {{}}, b \in Keys}
  \cup {OfDomains(b, [email |-> <<"key">>]) \o SetToSeq(a \cup b) : a \in Mails, b \in Keys \ {{}}}

Strict ==
  {Releases(a, b, {"lossy", "destructive"}) : a, b \in StrictDefinitions}

Odd ==
  {Releases(<<a>>, <<b>>, {"lossy", "destructive"}) :
     a, b \in {Schema("mail"), Domain("public", "mail"), Table("public", "mail", << >>),
               [Sequence(Default) EXCEPT !.name = "mail"]}}
  \cup {Releases(<<Users(Plain), Table("public", "people", << >>)>>,
                 <<People(Plain)>>, {"lossy", "destructive"}),
        Releases(<<Users(Plain)>>, <<Users(Plain), Users(Plain)>>, {"lossy"}),
        Releases(<<Sequence(Default)>>,
                 <<Sequence([Default EXCEPT !.cache = 2])>>, {"lossy"}),
        Releases(<<Schema("app")>>, <<Schema("app"), Schema("sys")>>, {"lossy"}),
        Releases(<<Schema("app")>>, <<Schema("app"), Schema("pg_app")>>, {"lossy"})}

ObjectHistories == Tied \cup Alone \cup Strict \cup Odd

(* A column moved to a new domain that is NOT NULL, with a default of its  *)
(* own where the domain has none.                                          *)
Moved ==
  {Releases(<<Domain("public", "mail"), Users(Mail)>>,
            <<[Domain("public", "key") EXCEPT !.notNull = TRUE], Users(<<"key">>)>>,
            {"lossy", "destructive"})}

(* Every history but the next keeps its names apart.                       *)
ASSUME NamesKept == \A h \in ObjectHistories : NamesApart(World(h))

(* A table outside its namesake "app", the namespace of its domain.        *)
Namesake ==
  {<<[def |-> <<Schema("app"), Domain("app", "code"),
                Table("public", "app", [code |-> Code])>>, allow |-> {}]>>}
=============================================================================
