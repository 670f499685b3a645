------------------------------ MODULE MCClient ------------------------------
(* Two members, one scoped by an organisation and one global; entries scoped by an           *)
(* organisation and a team; two of each, rows of both and ids the members share.             *)
EXTENDS Client

MCMembers == <<"photos", "videos">>
MCScopes == [table \in Tables |-> CASE table = "photos" -> {"org"}
                                    [] table = "videos" -> {}
                                    [] table = "entries" -> {"org", "team"}]

Photo(id, org, name) == [table |-> "photos", id |-> id, org |-> org, team |-> Null,
                         name |-> name, kind |-> Null, postId |-> Null]
Video(id, name) == [table |-> "videos", id |-> id, org |-> Null, team |-> Null,
                    name |-> name, kind |-> Null, postId |-> Null]
Entry(id, org, team, kind, postId) ==
    [table |-> "entries", id |-> id, org |-> org, team |-> team,
     name |-> Null, kind |-> kind, postId |-> postId]

\* An entry of the first tenant under every discriminator, one of another organisation or team.
MCInitialDbs ==
    {{Photo(1, 1, name), Photo(2, 2, 1), Video(1, 1), Entry(1, 1, 1, kind, 1),
      Entry(2, other[1], other[2], "photos", 1)} :
        name \in {Null, 2}, kind \in {"photos", "videos", Null},
        other \in {<<1, 2>>, <<2, 1>>}}

Everyone == {}
Name(test) == Field("name", test)
Id(test) == Field("id", test)
Of(table, id) == <<table, id>>
Bare(id) == <<"", id>>

Request(op, on, args, data, id) == [op |-> op, on |-> on, args |-> args, data |-> data, id |-> id]
Read(op, on, args) == Request(op, on, args, Null, Null)
With(args, where) == [args EXCEPT !.where = where]

\* Shared wheres: $$key alone and inside groups, ids of both members and bare ones, values
\* that rows lack; and two that are refused.
SharedWheres ==
    {{Key({<<"eq", "photos">>})},
     {Key({<<"neq", "photos">>}), Name({<<"exists", TRUE>>})},
     {Eq("id", Of("photos", 1))},
     {Id({<<"neq", Of("photos", 1)>>})},
     {Id({<<"in", {Of("photos", 1), Of("videos", 1)}>>})},
     {Id({<<"in", {Of("photos", 2), Bare(1)}>>, <<"neq", Of("videos", 1)>>})},
     {Not({Eq("id", Of("photos", 1))})},
     {Not({Key({<<"in", {"videos"}>>}), Name({<<"eq", Bare(1)>>})})},
     {Or({{Key({<<"eq", "videos">>})}, {Name({<<"gt", Bare(1)>>})}})},
     {Or({{Key({<<"eq", "videos">>}), Eq("id", Of("photos", 1))}, {Eq("id", Of("photos", 2))}})},
     {And({{Key({<<"eq", "photos">>})}, {Not({Name({<<"eq", Bare(1)>>})})}})},
     {Not({Or({{Key({<<"eq", "photos">>})}, {Name({<<"between", <<Bare(1), Bare(2)>>>>})}})})},
     {Not({And({{Key({<<"eq", "photos">>})}, {Eq("id", Of("photos", 1))}})}), Or({})},
     {Key({<<"eq", "entries">>})},
     {Eq("org", Bare(1))}}

PostIsWhole == {<<"post", WholeUnion>>}
EntriesWithPost == [Whole EXCEPT !.join = PostIsWhole]
PostsWithEntries == [WholeUnion EXCEPT !.join = {<<"entries", EntriesWithPost>>}]

MCRequests ==
    {Read(op, "posts", With(WholeUnion, where)) : op \in {"findMany", "count"}, where \in SharedWheres}
    \cup {Read("findOne", "posts", With(WholeUnion, {Eq("id", Bare(1))})),
          Read("findOne", "posts", WholeUnion),
          Read("findMany", "posts", PostsWithEntries),
          Read("findMany", "posts", [WholeUnion EXCEPT !.select = {"id", "entries"},
                                        !.on = [alias \in {"photos"} |-> Null]]),
          Read("findMany", "posts", [PostsWithEntries EXCEPT
                                        !.on = [alias \in {"videos"} |-> [Whole EXCEPT
                                            !.select = {"name"}, !.where = {Name({<<"lte", Bare(1)>>})}]]]),
          Read("findMany", "posts", [PostsWithEntries EXCEPT
                                        !.on = [alias \in {"videos"} |-> [Whole EXCEPT
                                            !.join = {<<"entries", Whole>>}]]]),
          Read("findMany", "entries", EntriesWithPost),
          Read("findMany", "entries", [EntriesWithPost EXCEPT !.select = {"postId"}]),
          Read("findMany", "entries", [Whole EXCEPT !.select = {"post"}]),
          Read("findMany", "entries", [EntriesWithPost EXCEPT !.select = {"post"}]),
          Read("findMany", "entries", With(EntriesWithPost, {Eq("postId", Of("photos", 1))})),
          Read("findMany", "entries", With(EntriesWithPost,
                   {Field("postId", {<<"in", {Of("videos", 1), Bare(2)}>>})})),
          Read("findMany", "entries", With(EntriesWithPost,
                   {Field("postId", {<<"neq", Of("photos", 1)>>})})),
          Read("count", "entries", With(Whole, {Field("postId", {<<"gte", Of("videos", 1)>>})})),
          Read("findMany", "photos", [Whole EXCEPT !.join = {<<"entries", EntriesWithPost>>}]),
          Read("findMany", "photos", With(Whole, {Eq("id", Of("videos", 1))})),
          Read("findMany", "photos", With(Whole, {Name({<<"lt", Bare(2)>>})})),
          Read("findOne", "photos", With(Whole, {And({}), Not({})})),
          Read("findOne", "photos", With(Whole, {Eq("id", Bare(2))})),
          Read("count", "photos", Whole),
          Read("raw", "all", Whole),
          Request("findById", "node", Whole, Null, Of("entries", 1)),
          Request("findById", "node", Whole, Null, Of("photos", 2)),
          Request("findById", "node", Whole, Null, Of("posts", 1)),
          Request("create", "entries", Whole, [postId |-> Of("videos", 1)], Null),
          Request("create", "entries", Whole,
                  [id |-> Bare(3), org |-> 2, postId |-> Of("photos", 1), kind |-> "photos"], Null),
          Request("create", "entries", Whole, [postId |-> Of("photos", 1), kind |-> "videos"], Null),
          Request("create", "photos", Whole, [id |-> Bare(2), name |-> 1], Null),
          Request("update", "entries", With(Whole, {Field("kind", {<<"exists", TRUE>>})}),
                  [postId |-> Of("videos", 1), team |-> 2], Null),
          Request("update", "entries", With(Whole, {Eq("id", Of("entries", 1))}), [postId |-> Bare(2)], Null),
          Request("update", "entries", With(Whole, {Eq("id", Bare(1))}), [org |-> 2], Null),
          Request("update", "photos", Whole, [name |-> 1], Null),
          Request("update", "photos", With(Whole, {Eq("id", Bare(1))}), [id |-> Bare(2)], Null),
          Request("delete", "entries", With(Whole, {Field("postId", {<<"eq", Of("photos", 1)>>})}), Null, Null),
          Request("delete", "photos", With(Whole, {Or({{Eq("id", Bare(1))}, {Eq("id", Bare(2))}})}), Null, Null),
          Request("delete", "photos", With(Whole, {Or({{Eq("id", Bare(1))}, {}})}), Null, Null)}

\* An empty group under `not`, asked of one table and of the union.
EmptyNot == {Not({Or({})})}
EmptyNotRequests ==
    {Read("count", "videos", With(Whole, EmptyNot)), Read("count", "posts", With(WholeUnion, EmptyNot)),
     Read("findMany", "posts", With(WholeUnion, EmptyNot))}

MCLists == {<<Of("photos", 1), Of("videos", 1), Of("photos", 2), Of("photos", 1)>>,
            <<Of("entries", 2), Of("entries", 1)>>,
            <<Of("videos", 2)>>, <<Of("videos", 1), Of("posts", 1)>>}

\* Of one tenant, of another, with a claim missing, given as nothing, and of no table's.
MCGiven == {{<<"org", 1>>, <<"team", 1>>}, {<<"org", 2>>, <<"team", 1>>}, {<<"org", 1>>},
            {<<"org", Null>>}, {<<"role", 1>>}}
=============================================================================
