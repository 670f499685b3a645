--------------------------- MODULE SchemaObjects ---------------------------
(***************************************************************************)
(* The root-level objects of a schema, as the migration package compares   *)
(* them: the serialized definition, a sequence in declaration order, and   *)
(* what introspection reads back, in the same shapes (base.ts).            *)
(*                                                                         *)
(*   SCHEMA    [kind, name]                                                *)
(*   DOMAIN    [kind, ns, name, type, notNull, default, check]             *)
(*   SEQUENCE  [kind, ns, name, options]                                   *)
(*   TABLE     [kind, ns, name, renamedFrom, columns, unfilled]            *)
(*                                                                         *)
(* check is the name of the domain's CHECK. options has the fields of      *)
(* COMPARED_SEQUENCE_OPTIONS that can differ (every sequence is a bigint). *)
(* columns maps a name to the qualified name of its domain, << >> for a    *)
(* column of a plain type. unfilled are the columns that are NOT NULL and  *)
(* have no default that fills rows: one of a domain gets both from it      *)
(* (Domain.column), or a default of its own. What else a table has is      *)
(* TableOperations' subject, and its key is left out. Unset is what a      *)
(* definition leaves out.                                                  *)
(***************************************************************************)
EXTENDS Integers, FiniteSets, Sequences, SequencesExt

CONSTANTS
  Unset,
  BigintMax, BigintMin   \* the bounds of a bigint, small here

ASSUME UnsetAssumption == Unset \notin Int \cup BOOLEAN

ASSUME BoundsAssumption ==
  /\ BigintMax \in Nat \ {0}
  /\ BigintMin \in Int /\ BigintMin < 0

(* What a definition declares: an object of one of the four shapes.        *)
OrUnset(S) == {Unset} \cup S

Declarable ==
  [increment : OrUnset(Int), min : OrUnset(Int), max : OrUnset(Int),
   start : OrUnset(Int), cache : OrUnset(Int), cycle : OrUnset(BOOLEAN)]

IsObject(o) ==
  \/ o \in [kind : {"SCHEMA"}, name : STRING]
  \/ o \in [kind : {"DOMAIN"}, ns : STRING, name : STRING, type : STRING,
            notNull : BOOLEAN, default : OrUnset(STRING), check : OrUnset(STRING)]
  \/ o \in [kind : {"SEQUENCE"}, ns : STRING, name : STRING, options : Declarable]
  \/ /\ o \in [kind : {"TABLE"}, ns : STRING, name : STRING,
               renamedFrom : OrUnset(STRING), columns : {o.columns},
               unfilled : SUBSET DOMAIN o.columns]
     /\ IsFiniteSet(DOMAIN o.columns)
     /\ \A c \in DOMAIN o.columns : c \in STRING /\ o.columns[c] \in Seq(STRING)

NoObject == [kind |-> "NONE"]

HasCustomNamespace(o) == o.kind # "SCHEMA" /\ o.ns # "public"

(* The key of an object: its namespace and name outside "public". A        *)
(* namespace has none.                                                     *)
QualifiedName(o) ==
  IF HasCustomNamespace(o) THEN <<o.ns, o.name>> ELSE <<o.name>>

NamespaceReference(o) ==
  IF HasCustomNamespace(o) THEN <<<<o.ns>>>> ELSE << >>

-----------------------------------------------------------------------------
(* A Map from qualified names to objects: a sequence of objects, no two of *)
(* one name, in the order the names were first set.                        *)

KeysOf(map) == {QualifiedName(o) : o \in ToSet(map)}

Delete(map, key) ==
  FlattenSeq([k \in DOMAIN map |->
    IF QualifiedName(map[k]) = key THEN << >> ELSE <<map[k]>>])

Get(map, key) ==
  IF key \in KeysOf(map)
    THEN CHOOSE o \in ToSet(map) : QualifiedName(o) = key
    ELSE NoObject

(* A name set again keeps its place.                                       *)
SetIn(map, o) ==
  IF QualifiedName(o) \in KeysOf(map)
    THEN [k \in DOMAIN map |->
            IF QualifiedName(map[k]) = QualifiedName(o) THEN o ELSE map[k]]
    ELSE Append(map, o)

MapOf(objects) == FoldLeft(SetIn, << >>, objects)

-----------------------------------------------------------------------------
(* Sequences compare by what the database makes of them: a bound that is   *)
(* not set is the default of a bigint sequence of that direction.          *)
Or(value, default) == IF value = Unset THEN default ELSE value

EffectiveSequenceOptions(options) ==
  LET increment == Or(options.increment, 1)
      ascending == increment > 0
      min == Or(options.min, IF ascending THEN 1 ELSE BigintMin)
      max == Or(options.max, IF ascending THEN BigintMax ELSE -1)
  IN  [increment |-> increment,
       min       |-> min,
       max       |-> max,
       start     |-> Or(options.start, IF ascending THEN min ELSE max),
       cache     |-> Or(options.cache, 1),
       cycle     |-> Or(options.cycle, FALSE)]

(* Mutant: options compare as they are written.                            *)
ChangedRawOptions(local, remote) ==
  {key \in DOMAIN local : local[key] # remote[key]}

ChangedSequenceOptions(local, remote) ==
  LET a == EffectiveSequenceOptions(local)
      b == EffectiveSequenceOptions(remote)
  IN  {key \in DOMAIN a : a[key] # b[key]}

(* The attributes a domain differs in; a CHECK compares by its name.       *)
DiffDomain(local, remote) ==
  {key \in {"default", "type", "notNull", "check"} : local[key] # remote[key]}

-----------------------------------------------------------------------------
(* What a definition is refused for before anything is planned.            *)
ReservedNamespaces == {"pg_catalog", "pg_toast", "information_schema", "sys"}

DuplicateObjectName(def) ==
  \E j, k \in DOMAIN def :
    /\ j < k
    /\ "SCHEMA" \notin {def[j].kind, def[k].kind}
    /\ def[j].ns = def[k].ns /\ def[j].name = def[k].name

ReservedNamespace(o) ==
  /\ o.kind = "SCHEMA"
  /\ o.name \in ReservedNamespaces \/ IsPrefix("pg_", o.name)

(* MinCache is the least cache beside 1 that DSQL takes, 65536.            *)
MinCache == 3

InvalidSequenceCache(o) ==
  o.kind = "SEQUENCE" /\ o.options.cache \notin {Unset, 1} /\ o.options.cache < MinCache

IsValid(def) ==
  /\ ~ DuplicateObjectName(def)
  /\ \A o \in ToSet(def) : ~ ReservedNamespace(o) /\ ~ InvalidSequenceCache(o)
=============================================================================
