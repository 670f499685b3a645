---------------------------- MODULE ClientSchema ----------------------------
(***************************************************************************)
(* The schema the client's models run over, as createClient builds it: a   *)
(* union "posts" of member tables, and a table "entries" whose postId      *)
(* points at a member. entries.post belongs to the union, by the member    *)
(* that its discriminator `kind` names; every member has many entries, a   *)
(* relation declared on the union, correlated on the id alone.             *)
(*                                                                         *)
(* A row has every column, Null where its table lacks it. ids are guid()   *)
(* columns: a value a caller passes is <<key, id>>, a global id for node   *)
(* `key`, or <<"", id>>, a bare one.                                       *)
(***************************************************************************)
EXTENDS SqlLogic, FiniteSetsExt, Functions, TLC

CONSTANTS Members,  \* the union's members, in declaration order
          Scopes    \* table -> the claims that scope it; a table without any is global

Aliases == Range(Members)
Tables == Aliases \cup {"entries"}
Claims == UNION Range(Scopes)

ASSUME SchemaAssumption ==
    /\ Members \in Seq(STRING) /\ IsInjective(Members) /\ {"", "entries", "posts", Null} \cap Aliases = {}
    /\ Scopes \in [Tables -> SUBSET {"org", "team"}]

\* The columns a table declares, and those a union's members all declare.
Columns(table) ==
    {"id"} \cup Scopes[table] \cup IF table = "entries" THEN {"kind", "postId"} ELSE {"name"}
Shared == {field \in UNION {Columns(m) : m \in Aliases} : \A m \in Aliases : field \in Columns(m)}
Relations(table) == IF table = "entries" THEN {"post"} ELSE {"entries"}

\* Claim columns are filled from the identity and written by no caller.
ReadOnly(table) == Scopes[table]

\* What a guid column's ids name: its own table's rows, or a member's, row by row.
IsGuid(field) == field \in {"id", "postId"}
Dynamic(field) == field = "postId"
Discriminator == "kind"
NodesOf(table, field) == IF Dynamic(field) THEN Aliases ELSE {table}

Raw(v) == v[2]
IsGlobalId(v) == v[1] # ""
KeyOf(v) == v[1]

\* decodeMemberId and unwrap throw on an id for another node.
DecodeThrows(table, field, v) == IsGuid(field) /\ IsGlobalId(v) /\ KeyOf(v) \notin NodesOf(table, field)

Ref(r) == <<r.table, r.id>>
=============================================================================
