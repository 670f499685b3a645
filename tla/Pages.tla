------------------------------- MODULE Pages -------------------------------
(***************************************************************************)
(* Keyset pages: `paginate` on a table or on a union of tables, read one   *)
(* page after the other, in either direction, while rows are written.      *)
(*                                                                         *)
(* One reader asks for a page, its statements run, and the answer carries  *)
(* the cursors it may continue from. A counted page is two statements that *)
(* run at once; in a transaction both read one snapshot.                   *)
(*                                                                         *)
(* A row is [member, id, name]: the table it is in, its primary key, and a *)
(* nullable column. Table m is source m; the union of all is source Union. *)
(* Members are numbered in the order of their aliases' text, so $$key      *)
(* compares as the alias does. The members' keys line up (one tiebreaker). *)
(***************************************************************************)
EXTENDS Integers, FiniteSets, SequencesExt, Keyset

CONSTANTS Members,      \* the tables, numbered
          Ids, Names,   \* primary keys, and values of the other column
          Requests,     \* what readers ask for: [source, orderBy, limit, count, tx, join],
                        \* orderBy a sequence of [field, dir], limit NoLimit if none is named
          DefaultLimit, MaxLimit,   \* pagination options of the client
          MaxPages, MaxWrites,      \* bounds: pages read, rows written
          InitialRows   \* what the tables may hold at first

ASSUME SizesAssumption ==
    /\ DefaultLimit \in Nat \ {0} /\ MaxLimit \in Nat /\ DefaultLimit <= MaxLimit
    /\ MaxPages \in Nat /\ MaxWrites \in Nat
ASSUME DataAssumption ==
    /\ Members \subseteq Nat \ {0} /\ Ids \subseteq Nat /\ Names \subseteq Nat

Union == 0
Source == Members \cup {Union}
NoLimit == -1

Rows == [member : Members, id : Ids, name : Names \cup {Null}]

\* What the tables may hold: finitely many rows, one for a primary key.
IsData(db) ==
    /\ db \subseteq Rows /\ IsFiniteSet(db)
    /\ \A r, q \in db : r.member = q.member /\ r.id = q.id => r = q
ASSUME RowsAssumption == \A db \in InitialRows : IsData(db)

\* What a caller may ask for; orderBy is an object, which names a field once.
OrderFields == {"name", "id", "$$key"}
OrderDirs == {"asc", "desc"}
OrderBy == [field : OrderFields, dir : OrderDirs]
ASSUME RequestsAssumption ==
    \A r \in Requests :
        /\ r \in [source : Source, orderBy : Seq(OrderBy), limit : Int,
                  count : BOOLEAN, tx : BOOLEAN, join : BOOLEAN]
        /\ \A i, j \in DOMAIN r.orderBy : r.orderBy[i].field = r.orderBy[j].field => i = j

RowsOf(source, db) == {r \in db : source \in {Union, r.member}}

VARIABLES rows,     \* what the tables hold
          request,  \* the page being read, or Null
          snapshot, \* what its transaction sees, or Null outside one
          found,    \* the page its select has read, or Null
          counted,  \* what its count has read, or Null
          answer,   \* the last page returned, or Null
          refused,  \* why the last request was refused, or "no"
          walk,     \* history: what was read since the reader last turned, or Null
          pages, writes

reading == <<request, snapshot, found, counted, answer, refused, pages>>
vars == <<rows, reading, walk, writes>>

----------------------------------------------------------------------------
(* The request: RequestNormalizer.                                          *)

\* What a key reads in a row; a union's $$key is the member.
FieldOf(field, r) == CASE field = "name" -> r.name
                       [] field = "id" -> r.id
                       [] field = "$$key" -> r.member

Key(field, dir) == [field |-> field, dir |-> dir, nullable |-> field = "name"]
Named(orderBy, field) == \E i \in DOMAIN orderBy : orderBy[i].field = field

\* The caller's keys, and the direction the appended ones follow.
OrderKeys(orderBy) == [i \in DOMAIN orderBy |-> Key(orderBy[i].field, orderBy[i].dir)]
LastDir(orderBy) == IF orderBy = <<>> THEN "asc" ELSE Last(orderBy).dir

(***************************************************************************)
(* The total order a page is read under. A table's ends on the primary key *)
(* unless the caller named it; a union's on $$key unless named, and then   *)
(* always on the primary key, which is a key of its own there ($$pk0).     *)
(***************************************************************************)
TableOrder(orderBy) ==
    OrderKeys(orderBy)
    \o (IF Named(orderBy, "id") THEN <<>> ELSE <<Key("id", LastDir(orderBy))>>)
UnionOrder(orderBy) ==
    OrderKeys(orderBy)
    \o (IF Named(orderBy, "$$key") THEN <<>> ELSE <<Key("$$key", LastDir(orderBy))>>)
    \o <<Key("id", LastDir(orderBy))>>
KeysetOrder(source, orderBy) ==
    IF source = Union THEN UnionOrder(orderBy) ELSE TableOrder(orderBy)

ValuesOf(keys, r) == [i \in DOMAIN keys |-> FieldOf(keys[i].field, r)]

PageSize(limit) == IF limit = NoLimit THEN DefaultLimit ELSE limit
PageSizeRefused(limit) == PageSize(limit) <= 0 \/ PageSize(limit) > MaxLimit

\* A cursor: the format it is written in, the order it was taken under, the row's values.
Signature(source, keys) == <<source, [i \in DOMAIN keys |-> <<keys[i].field, keys[i].dir>>]>>
Cursors ==
    [format : {"c1", "c2", "junk"}, signature : Source \X Seq(OrderFields \X OrderDirs),
     values : Seq(Value)]
Cursor(source, keys, r) ==
    [format |-> "c1", signature |-> Signature(source, keys), values |-> ValuesOf(keys, r)]

\* decodeCursor, and the check that only a nullable key carries a null.
CursorError(cursor, source, keys) ==
    CASE cursor.format = "junk" -> "format"
      [] cursor.format = "c2" -> "version"
      [] cursor.format = "c1" /\ cursor.signature # Signature(source, keys) -> "mismatch"
      [] cursor.format = "c1" /\ Len(cursor.values) # Len(keys) -> "mismatch"
      [] OTHER -> IF KeysetThrows(keys, cursor.values) THEN "format" ELSE "no"

\* What refuses a request before any SQL is built, in the order the code looks.
Refusal(req) ==
    LET keys == KeysetOrder(req.source, req.orderBy) IN
    CASE PageSizeRefused(req.limit) -> "size"
      [] ~PageSizeRefused(req.limit) /\ req.source # Union /\ Named(req.orderBy, "$$key") -> "field"
      [] OTHER -> IF req.cursor = Null THEN "no" ELSE CursorError(req.cursor, req.source, keys)

\* Requests with the cursor and the way they are read. Null is none of them, nor a
\* cursor, nor the rows of the tables.
Reads ==
    [source : Source, orderBy : Seq(OrderBy), limit : Int, count : BOOLEAN, tx : BOOLEAN,
     join : BOOLEAN, cursor : Cursors \cup {Null}, bound : {"after", "before"}]
ASSUME NothingAssumption ==
    Null \notin Cursors /\ Null \notin Reads /\ \A db \in SUBSET Rows : db # Null

----------------------------------------------------------------------------
(* The statements: OperationsFactory and QueryBuilder.                      *)

\* An order term; a nullable key states where its nulls sort, PostgreSQL's own default.
Render(key) == [dir |-> key.dir, nulls |-> IF key.dir = "asc" THEN "last" ELSE "first"]
Travel(keys, bound) ==
    IF bound = "before" THEN [i \in DOMAIN keys |-> [keys[i] EXCEPT !.dir = Flip(@)]] ELSE keys

Sorted(S, keys) ==
    LET terms == [i \in DOMAIN keys |-> Render(keys[i])] IN
    CHOOSE s \in SetToSeqs(S) :
        \A i, j \in DOMAIN s :
            i < j => ~OrderedBefore(terms, ValuesOf(keys, s[j]), ValuesOf(keys, s[i]))
FirstOf(n, s) == SubSeq(s, 1, IF Len(s) < n THEN Len(s) ELSE n)

\* The rows one level reads: filtered by the keyset, ordered, limited.
Level(S, keys, req, n) ==
    LET past == IF req.cursor = Null THEN S
                ELSE {r \in S : Holds(KeysetCondition(keys, req.bound, req.cursor.values,
                                                      ValuesOf(keys, r)))}
    IN FirstOf(n, Sorted(past, Travel(keys, req.bound)))

\* A branch orders by every key but $$key, which is constant in it.
BranchOrder(keys) ==
    FlattenSeq([i \in DOMAIN keys |-> IF keys[i].field = "$$key" THEN <<>> ELSE <<keys[i]>>])
\* Mutant: the branches read the page, without the row that tells whether more follow.
BranchLimitShort(n) == n - 1
BranchLimit(n) == n

\* The branch's keyset is written over every key, its order over those that vary.
Branch(m, db, keys, req, n) ==
    LET mine == RowsOf(m, db)
        past == IF req.cursor = Null THEN mine
                ELSE {r \in mine : Holds(KeysetCondition(keys, req.bound, req.cursor.values,
                                                         ValuesOf(keys, r)))}
    IN ToSet(FirstOf(BranchLimit(n), Sorted(past, Travel(BranchOrder(keys), req.bound))))

UnionLevel(db, keys, req, n) ==
    FirstOf(n, Sorted(UNION {Branch(m, db, keys, req, n) : m \in Members},
                      Travel(keys, req.bound)))

\* The select reads one row more than the page holds.
Select(req, db) ==
    LET keys == KeysetOrder(req.source, req.orderBy)
        n == PageSize(req.limit) + 1
    IN IF req.source = Union THEN UnionLevel(db, keys, req, n)
       ELSE Level(RowsOf(req.source, db), keys, req, n)

\* Over the caller's filter alone, without the keyset.
Count(req, db) == Cardinality(RowsOf(req.source, db))

\* shapePage. The joins of a union's request are left out of what it reads.
ShapePage(req, read) ==
    LET keys == KeysetOrder(req.source, req.orderBy)
        take == PageSize(req.limit)
        more == Len(read) > take
        kept == FirstOf(take, read)
        backward == req.bound = "before"
        items == IF backward THEN Reverse(kept) ELSE kept
        hasCursor == req.cursor # Null
    IN [request |-> req, items |-> items, total |-> Null,
        joined |-> req.join /\ req.source # Union,
        hasNextPage |-> IF backward THEN hasCursor ELSE more,
        hasPreviousPage |-> IF backward THEN more ELSE hasCursor,
        startCursor |-> IF items = <<>> THEN Null ELSE Cursor(req.source, keys, items[1]),
        endCursor |-> IF items = <<>> THEN Null ELSE Cursor(req.source, keys, Last(items))]

----------------------------------------------------------------------------
(* What a page is read for: the history of a reader that goes on from where *)
(* it is. `edge` is the cursor it would go on from.                         *)

Edge(page) == IF page.request.bound = "before" THEN page.startCursor ELSE page.endCursor
More(page) == IF page.request.bound = "before" THEN page.hasPreviousPage ELSE page.hasNextPage

Follows(page) ==
    LET req == page.request IN
    /\ walk # Null /\ req.cursor # Null
    /\ walk.edge = req.cursor /\ walk.bound = req.bound
    /\ walk.source = req.source /\ walk.orderBy = req.orderBy

Walk(page, db) ==
    LET req == page.request IN
    IF Follows(page)
    THEN [walk EXCEPT !.edge = Edge(page), !.more = More(page),
                      !.seen = IF req.bound = "before" THEN page.items \o @ ELSE @ \o page.items]
    ELSE [source |-> req.source, orderBy |-> req.orderBy, bound |-> req.bound,
          anchor |-> req.cursor, edge |-> Edge(page), more |-> More(page), seen |-> page.items,
          stayed |-> RowsOf(req.source, db) \cap rows]

----------------------------------------------------------------------------
Init ==
    /\ rows \in InitialRows
    /\ request = Null /\ snapshot = Null /\ found = Null /\ counted = Null
    /\ answer = Null /\ refused = "no" /\ walk = Null
    /\ pages = 0 /\ writes = 0

Ask(req) ==
    /\ request = Null /\ pages < MaxPages
    /\ pages' = pages + 1
    /\ refused' = Refusal(req)
    /\ IF refused' = "no"
       THEN request' = req /\ snapshot' = IF req.tx THEN rows ELSE Null
       ELSE UNCHANGED <<request, snapshot>>
    /\ UNCHANGED <<rows, found, counted, answer, walk, writes>>

\* The request with the cursor its page is read from, and the way it is read.
From(r, cursor, bound) ==
    [source |-> r.source, orderBy |-> r.orderBy, limit |-> r.limit, count |-> r.count,
     tx |-> r.tx, join |-> r.join, cursor |-> cursor, bound |-> bound]

\* A first page, without a cursor.
First(r) == Ask(From(r, Null, "after"))

\* On from the last page, or back from it.
Following ==
    /\ answer # Null /\ answer.endCursor # Null
    /\ Ask(From(answer.request, answer.endCursor, "after"))
Previous ==
    /\ answer # Null /\ answer.startCursor # Null
    /\ Ask(From(answer.request, answer.startCursor, "before"))

\* A cursor passed under another source or order, and a cursor edited by hand.
Reuse(r) ==
    /\ answer # Null /\ answer.endCursor # Null
    /\ <<r.source, r.orderBy>> # <<answer.request.source, answer.request.orderBy>>
    /\ Ask(From(r, answer.endCursor, "after"))
Edited(cursor) ==
    {[cursor EXCEPT !.format = "junk"], [cursor EXCEPT !.format = "c2"],
     [cursor EXCEPT !.values = Front(@)], [cursor EXCEPT !.values[Len(cursor.values)] = Null]}
Edit ==
    /\ answer # Null /\ answer.endCursor # Null
    /\ \E cursor \in Edited(answer.endCursor) :
           Ask(From(answer.request, cursor, "after"))

\* Mutant: the parts of a counted page stay bound to the pool.
ViewUnbound == rows

\* What the statements of the request see: one snapshot in a transaction, else the rows.
View == IF snapshot = Null THEN rows ELSE snapshot

RunSelect ==
    /\ request # Null /\ found = Null
    /\ found' = ShapePage(request, Select(request, View))
    /\ walk' = Walk(found', View)
    /\ UNCHANGED <<rows, request, snapshot, counted, answer, refused, pages, writes>>

RunCount ==
    /\ request # Null /\ request.count /\ counted = Null
    /\ counted' = Count(request, View)
    /\ UNCHANGED <<rows, request, snapshot, found, answer, refused, walk, pages, writes>>

\* Mutant: the snapshot outlives its transaction.
DoneKeepsSnapshot(page, why) ==
    /\ answer' = page /\ refused' = why
    /\ request' = Null /\ found' = Null /\ counted' = Null
    /\ UNCHANGED <<rows, snapshot, walk, pages, writes>>

Done(page, why) ==
    /\ answer' = page /\ refused' = why
    /\ request' = Null /\ snapshot' = Null /\ found' = Null /\ counted' = Null
    /\ UNCHANGED <<rows, walk, pages, writes>>

\* All statements have answered.
Answer ==
    /\ request # Null /\ found # Null /\ (request.count => counted # Null)
    /\ Done([found EXCEPT !.total = counted], "no")

\* One statement fails: the request does, whatever the other one read.
Fails ==
    /\ request # Null /\ (found = Null \/ (request.count /\ counted = Null))
    /\ Done(answer, "failed")

Read == Following \/ Previous \/ Edit \/ RunSelect \/ RunCount \/ Answer \/ Fails

\* A row written meanwhile is no longer one that stayed.
Write(new) ==
    /\ writes < MaxWrites /\ writes' = writes + 1
    /\ rows' = new
    /\ walk' = IF walk = Null THEN Null ELSE [walk EXCEPT !.stayed = @ \cap new]
    /\ UNCHANGED reading

Insert(r) == (\A q \in rows : <<q.member, q.id>> # <<r.member, r.id>>) /\ Write(rows \cup {r})
Delete(r) == Write(rows \ {r})
Rename(r, name) == name # r.name /\ Write((rows \ {r}) \cup {[r EXCEPT !.name = name]})

Next ==
    \/ \E r \in Requests : First(r) \/ Reuse(r)
    \/ Read
    \/ \E r \in Rows : Insert(r)
    \/ \E r \in rows : Delete(r)
    \/ \E r \in rows, name \in Names \cup {Null} : Rename(r, name)

Spec == Init /\ [][Next]_vars
----------------------------------------------------------------------------
(* What pages promise. The order is the documented one, written apart from  *)
(* the code's: the orderBy, then the member, then the primary key.          *)

DocumentedKeys(orderBy) ==
    LET last == LastDir(orderBy)
    IN orderBy \o <<[field |-> "$$key", dir |-> last], [field |-> "id", dir |-> last]>>

\* Nulls sort last ascending and first descending: above every value.
Lower(x, y) == x # Null /\ (y = Null \/ x < y)
Precedes(orderBy, a, b) ==
    LET keys == DocumentedKeys(orderBy)
        before(i) == LET x == FieldOf(keys[i].field, a)
                         y == FieldOf(keys[i].field, b)
                     IN IF keys[i].dir = "asc" THEN Lower(x, y) ELSE Lower(y, x)
        same(i) == FieldOf(keys[i].field, a) = FieldOf(keys[i].field, b)
    IN \E i \in DOMAIN keys : before(i) /\ \A j \in 1 .. (i - 1) : same(j)

\* a comes nearer than b for a reader going that way.
Nearer(orderBy, bound, a, b) ==
    IF bound = "after" THEN Precedes(orderBy, a, b) ELSE Precedes(orderBy, b, a)

\* The row a cursor was taken on, as far as its keys say.
RowAt(source, orderBy, cursor) ==
    LET keys == KeysetOrder(source, orderBy)
        value(field, other) ==
            IF \E i \in DOMAIN keys : keys[i].field = field
            THEN cursor.values[CHOOSE i \in DOMAIN keys : keys[i].field = field] ELSE other
    IN [member |-> value("$$key", source), id |-> value("id", Null), name |-> value("name", Null)]

Beyond(source, orderBy, bound, cursor, r) ==
    cursor = Null \/ Nearer(orderBy, bound, RowAt(source, orderBy, cursor), r)

TypeOK ==
    /\ IsData(rows)
    /\ request = Null => snapshot = Null /\ found = Null /\ counted = Null
    /\ snapshot # Null => snapshot \subseteq Rows
    /\ refused \in {"no", "size", "field", "format", "version", "mismatch", "failed"}
    /\ walk # Null => walk.stayed \subseteq rows /\ ToSet(walk.seen) \subseteq Rows
    /\ pages \in 0 .. MaxPages /\ writes \in 0 .. MaxWrites

(***************************************************************************)
(* "Rows inserted or deleted elsewhere in the list do not disturb the      *)
(* pages around them": of a reader that goes on in one direction, each row *)
(* that stayed where it was is seen exactly once if the reader has passed  *)
(* it and not at all otherwise, and those seen are in order.               *)
(***************************************************************************)
SeenOnce ==
    walk # Null =>
        LET times(r) == Cardinality({i \in DOMAIN walk.seen : walk.seen[i] = r})
            passed(r) == /\ Beyond(walk.source, walk.orderBy, walk.bound, walk.anchor, r)
                         /\ walk.more => ~Beyond(walk.source, walk.orderBy, walk.bound, walk.edge, r)
        IN /\ \A r \in walk.stayed : times(r) = IF passed(r) THEN 1 ELSE 0
           /\ \A i, j \in DOMAIN walk.seen :
                i < j /\ {walk.seen[i], walk.seen[j]} \subseteq walk.stayed
                => Precedes(walk.orderBy, walk.seen[i], walk.seen[j])

(***************************************************************************)
(* A page holds the `take` rows nearest to the cursor of those past it, in *)
(* order whichever way it was read, and its flag in the direction of       *)
(* travel says whether there are more. So for every cursor the caller may  *)
(* pass, of a row that is gone included.                                   *)
(***************************************************************************)
IsSlice(page, db) ==
    LET req == page.request
        past == {r \in RowsOf(req.source, db) :
                    Beyond(req.source, req.orderBy, req.bound, req.cursor, r)}
        take == PageSize(req.limit)
    IN /\ IsInjective(page.items)
       /\ ToSet(page.items) =
             {r \in past : Cardinality({q \in past : Nearer(req.orderBy, req.bound, q, r)}) < take}
       /\ \A i, j \in DOMAIN page.items : i < j => Precedes(req.orderBy, page.items[i], page.items[j])
       /\ More(page) <=> Cardinality(past) > take
PageIsSlice == [][found' # found /\ found' # Null => IsSlice(found', View)]_vars

(***************************************************************************)
(* The total of a page counted in a transaction is of the snapshot the     *)
(* page was read from: it is what pages one after the other would add to.  *)
(***************************************************************************)
TotalAgrees ==
    answer # Null /\ answer.request.count /\ answer.request.tx =>
        LET read == Len(answer.items) + IF More(answer) THEN 1 ELSE 0 IN
        /\ read <= answer.total
        /\ answer.request.cursor = Null /\ ~More(answer) => answer.total = read

\* What the guide says of a page: its rows are shaped by `join`.
JoinIsRead == answer # Null => answer.joined = answer.request.join
=============================================================================
