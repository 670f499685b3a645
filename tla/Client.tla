------------------------------- MODULE Client -------------------------------
(***************************************************************************)
(* A client that reads and writes a database others write too: operations  *)
(* of its models and unions, one statement each, the identity it may       *)
(* derive once, and $listByGlobalId, whose statements run at once, one per *)
(* node.                                                                   *)
(***************************************************************************)
EXTENDS Operations

CONSTANTS Requests,     \* what callers ask for
          Lists,        \* the sequences of global ids asked for together
          Given,        \* the claims an identity may be derived from, some of them Null
          InitialDbs,   \* what the tables may hold at first
          Orgs, Teams, Names,
          MaxRequests, MaxWrites   \* bounds: requests of the client, writes of others

OptionalIn(S) == S \cup {Null}

\* What a caller writes: ids as global or bare ones, a discriminator that names a member or nothing.
DataOK(data) ==
    /\ "id" \in DOMAIN data => data.id # Null /\ data.id \in STRING \X Ids
    /\ "postId" \in DOMAIN data => data.postId = Null \/ data.postId \in STRING \X Ids
    /\ Discriminator \in DOMAIN data => data.kind \in OptionalIn(Aliases)

ASSUME RequestsAssumption ==
    \A req \in Requests :
        /\ req.op \in {"findOne", "findMany", "count", "create", "update", "delete", "findById", "raw"}
        /\ req.op \in {"findOne", "findMany", "count"} => req.on \in Tables \cup {"posts"}
        /\ req.on = "posts" => req.op \in {"findOne", "findMany", "count"}
        /\ req.op = "count" => req.args = [(IF req.on = "posts" THEN WholeUnion ELSE Whole)
                                               EXCEPT !.where = req.args.where]
        /\ req.op \in {"create", "update", "delete"} => req.on \in Tables
        /\ IF req.op \in {"create", "update"} THEN DataOK(req.data) ELSE req.data = Null

ASSUME GivenAssumption == \A claims \in Given : claims \subseteq STRING \X OptionalIn(Orgs \cup Teams)

\* The rows are finitely many; each is of a table, has its columns and no other's, and is alone
\* under its key.
RowOK(r) ==
    /\ DOMAIN r = AllColumns \cup {"table"}
    /\ r.table \in Tables /\ r.id \in Ids
    /\ \A f \in AllColumns : f \notin Columns(r.table) => r[f] = Null
    /\ \A claim \in Scopes[r.table] : r[claim] \in Orgs \cup Teams
    /\ r.kind \in OptionalIn(Aliases) /\ r.postId \in OptionalIn(Ids)
RowsOK(rows) ==
    /\ IsFiniteSet(rows) /\ \A r \in rows : RowOK(r)
    /\ \A r, q \in rows : Ref(q) = Ref(r) => q = r

ASSUME InitialDbsAssumption == \A rows \in InitialDbs : RowsOK(rows)

ASSUME BoundsAssumption == MaxRequests \in Nat /\ MaxWrites \in Nat

VARIABLES db,        \* the rows of every table
          client,    \* [identity, enforce]
          last,      \* the last request and what came of it, or Null
          listing,   \* $listByGlobalId under way, or Null
          requests, writes

vars == <<db, client, last, listing, requests, writes>>

ListIdle == listing = Null

Init ==
    /\ db \in InitialDbs
    /\ client \in [identity : {Null}, enforce : BOOLEAN]
    /\ last = Null /\ listing = Null
    /\ requests = 0 /\ writes = 0

Asked == requests < MaxRequests /\ requests' = requests + 1 /\ UNCHANGED writes

\* One operation: its statement is built, runs, and is resolved.
Ask(req) ==
    /\ Asked /\ ListIdle
    /\ \E outcome \in Outcomes(client, db, req) :
          /\ db' = outcome.db
          /\ last' = [request |-> req, outcome |-> outcome]
    /\ UNCHANGED <<client, listing>>

(***************************************************************************)
(* $identityClaims: refused on a client that has an identity, and for a    *)
(* claim given as nothing; claims no table is scoped by are dropped.       *)
(***************************************************************************)
\* Mutant: a claim may be given as nothing.
DeriveRefusedTwice(claims) == client.identity # Null

DeriveRefused(claims) ==
    client.identity # Null \/ \E pair \in claims : pair[1] \in Claims /\ pair[2] = Null
Derive(claims) ==
    /\ ListIdle
    /\ client' = IF DeriveRefused(claims) THEN client
                 ELSE [client EXCEPT !.identity = {pair \in claims : pair[1] \in Claims}]
    /\ UNCHANGED <<db, last, listing, requests, writes>>

----------------------------------------------------------------------------
(* $listByGlobalId. `rows` is what the groups have read: the record of each *)
(* node and key.                                                            *)

Groups(gids) == {KeyOf(gid) : gid \in Range(gids)}
GroupOf(gids, node) == {gid \in Range(gids) : KeyOf(gid) = node}

\* A group's statement is built as the groups start: any refusal is the whole call's.
ListRefused(gids) ==
    \E gid \in Range(gids) :
        GlobalIdInvalid(gid) \/ LevelRefused(client, KeyOf(gid), ByKeys({gid}))

StartList(gids) ==
    /\ Asked /\ ListIdle
    /\ listing' = IF ListRefused(gids) THEN Null
                  ELSE [gids |-> gids, pending |-> Groups(gids), rows |-> {}, stayed |-> db]
    /\ last' = Null
    /\ UNCHANGED <<db, client>>

\* Mutant: a record is known by its key alone.
MatchKeyAlone(gid) == Raw(gid)
\* What a record is matched to an id by: its node and its key.
MatchKey(gid) == gid

RunGroup(node) ==
    /\ ~ListIdle /\ node \in listing.pending
    /\ LET found == TableRecords(client, db, node, ByKeys(GroupOf(listing.gids, node)))
           tagged == {[record EXCEPT !.key = node] : record \in found}
       IN listing' = [listing EXCEPT !.pending = @ \ {node},
                                     !.rows = @ \cup {<<MatchKey(r.fields.id), r>> : r \in tagged}]
    /\ UNCHANGED <<db, client, last, requests, writes>>

\* One answer per id asked for, in the order asked: the record matched to it, if any.
FinishList ==
    /\ ~ListIdle /\ listing.pending = {}
    /\ LET matched(gid) == {pair[2] : pair \in {p \in listing.rows : p[1] = MatchKey(gid)}}
           answer(gid) == IF matched(gid) = {} THEN {} ELSE {CHOOSE record \in matched(gid) : TRUE}
       IN last' = [list |-> [i \in DOMAIN listing.gids |-> answer(listing.gids[i])],
                   gids |-> listing.gids, stayed |-> listing.stayed]
    /\ listing' = Null
    /\ UNCHANGED <<db, client, requests, writes>>

----------------------------------------------------------------------------
(* Others write meanwhile.                                                  *)

Write(new) ==
    /\ ~ListIdle /\ writes < MaxWrites /\ writes' = writes + 1
    /\ db' = new
    /\ listing' = [listing EXCEPT !.stayed = @ \cap new]
    /\ UNCHANGED <<client, last, requests>>
OtherDelete(r) == Write(db \ {r})
OtherRename(r, name) ==
    r.table # "entries" /\ r.name # name /\ Write((db \ {r}) \cup {[r EXCEPT !.name = name]})

Next ==
    \/ \E req \in Requests : Ask(req)
    \/ \E claims \in Given : Derive(claims)
    \/ \E gids \in Lists : StartList(gids)
    \/ \E node \in Tables : RunGroup(node)
    \/ FinishList
    \/ \E r \in db : OtherDelete(r)
    \/ \E r \in db, name \in Names : OtherRename(r, name)

Spec == Init /\ [][Next]_vars

----------------------------------------------------------------------------
(* The rows are the schema's, a client carries claims of the schema, none of *)
(* them Null, and what stayed while a list runs is still there.             *)
TypeOK ==
    /\ RowsOK(db)
    /\ client.identity # Null => client.identity \subseteq Claims \X (Orgs \cup Teams)
    /\ ListIdle \/ listing.stayed \subseteq db
    /\ requests \in 0 .. MaxRequests /\ writes \in 0 .. MaxWrites

Unscoped == [identity |-> Null, enforce |-> FALSE]
Answered(l) == l # Null /\ "outcome" \in DOMAIN l /\ l.outcome.refused = "no"

\* The rows a client's claims reach: every row of a global table, those of its tenant.
Reach(ctx, r) ==
    \/ Scopes[r.table] = {}
    \/ IF ctx.identity = Null THEN ~ctx.enforce
       ELSE \A claim \in Scopes[r.table] : <<claim, r[claim]>> \in ctx.identity

(***************************************************************************)
(* A client sees and changes its own rows only, however an operation       *)
(* reaches the others: whatever comes of a read, an update or a delete     *)
(* would come of it on a database that has no other rows, and the rows out *)
(* of reach stay as they are. An insert writes a row within reach, and raw *)
(* SQL is for a client without an identity.                                *)
(***************************************************************************)
StaysPrivate ==
    [][last' # last /\ Answered(last') =>
        LET own == {r \in db : Reach(client, r)}
            others == db \ own
            outcome == last'.outcome
        IN /\ \/ [outcome EXCEPT !.db = @ \ others] \in Outcomes(Unscoped, own, last'.request)
              \/ last'.request.op = "create"
              \/ last'.request.op = "raw" /\ client.identity = Null
           /\ others \subseteq outcome.db
           /\ client.identity # Null => \A r \in outcome.db \ db : Reach(client, r)]_vars

(***************************************************************************)
(* A shared where means across a union what it means on each member: what  *)
(* a read or a count of the union answers is the rows it is true of, the   *)
(* member and every global id in it taken as values.                       *)
(***************************************************************************)
Meant(args) ==
    {r \in db : /\ r.table \in Aliases /\ OwnArgs(args, r.table) # Null
                /\ Reach(client, r)
                /\ Meaning(args.where, r) \in {None, "true"}
                /\ Selects(OwnArgs(args, r.table).where, r)}
MeansWhere ==
    [][last' # last /\ Answered(last') /\ last'.request.on = "posts" =>
        LET meant == Meant(last'.request.args)
            read == {record.row : record \in last'.outcome.records}
        IN CASE last'.request.op = "count" -> last'.outcome.count = Cardinality(meant)
             [] last'.request.op = "findMany" -> read = {Ref(r) : r \in meant}
             [] last'.request.op = "findOne" ->
                    read \subseteq {Ref(r) : r \in meant} /\ (read = {} <=> meant = {})]_vars

\* The records of a record and of its joins, at any depth the requests reach.
JoinedRecords(record) ==
    UNION {record.fields[f] : f \in DOMAIN record.fields \cap {"post", "entries"}}
Records(record) == Within(record, JoinedRecords)

(***************************************************************************)
(* What an entry's postId names and what its post joins agree: the joined  *)
(* post is the row the id names, there is one whenever that row is within  *)
(* reach, and an id that names no member joins nothing. A global id that   *)
(* is written is the one that is read back.                                *)
(***************************************************************************)
NamesItsPost ==
    Answered(last) =>
        /\ \A record \in last.outcome.records :
             LET data == last.request.data IN
             data # Null /\ NamesMember(data) => record.fields.postId = data.postId
        /\ \A record \in UNION {Records(record) : record \in last.outcome.records} :
             {"post", "postId"} \subseteq DOMAIN record.fields =>
                LET posts == record.fields.post
                    id == record.fields.postId
                IN /\ \A post \in posts : id = post.row /\ KeyOf(id) = post.key
                   /\ id # Null /\ (\E r \in last.outcome.db : Ref(r) = id /\ Reach(client, r))
                      => posts # {}

(***************************************************************************)
(* $listByGlobalId answers each id with the row it names and in its place: *)
(* with a row whenever one within reach stayed there while it ran.         *)
(***************************************************************************)
ListsIds ==
    last # Null /\ "list" \in DOMAIN last =>
        \A i \in DOMAIN last.gids :
            LET answer == last.list[i] IN
            /\ \A record \in answer : record.row = last.gids[i] /\ record.key = KeyOf(last.gids[i])
            /\ (\E r \in last.stayed : Ref(r) = last.gids[i] /\ Reach(client, r)) => answer # {}
=============================================================================
