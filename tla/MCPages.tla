------------------------------- MODULE MCPages -------------------------------
(* Pages over two tables of two keys each and their union.                    *)
EXTENDS Pages

Asc(field) == [field |-> field, dir |-> "asc"]
Desc(field) == [field |-> field, dir |-> "desc"]
Request(source, orderBy, limit, count, tx) ==
    [source |-> source, orderBy |-> orderBy, limit |-> limit,
     count |-> count, tx |-> tx, join |-> FALSE]

\* Ascending and descending over nulls, tiebreakers implied and named; pages of one row and
\* of two; counted ones in a transaction and outside; requests that are refused.
MCRequests ==
    {Request(Union, <<Asc("name")>>, 1, FALSE, FALSE),
     Request(Union, <<Desc("name")>>, 2, TRUE, TRUE),
     Request(Union, <<Desc("$$key"), Asc("name")>>, 1, FALSE, FALSE),
     Request(1, <<Asc("name")>>, NoLimit, TRUE, FALSE),
     Request(1, <<Desc("name"), Asc("id")>>, 1, TRUE, TRUE),
     Request(1, <<Asc("$$key")>>, 1, FALSE, FALSE),
     Request(2, <<>>, 3, FALSE, FALSE)}

\* A page of a table and one of the union, both with a relation joined.
JoiningRequests ==
    {[Request(source, <<Asc("name")>>, 2, FALSE, FALSE) EXCEPT !.join = TRUE] : source \in {1, Union}}

MCInitialRows == {db \in SUBSET Rows :
    /\ Cardinality(db) = 3
    /\ \A r, q \in db : r.member = q.member /\ r.id = q.id => r = q}
=============================================================================
