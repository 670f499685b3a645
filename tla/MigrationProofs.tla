-------------------------- MODULE MigrationProofs --------------------------
(***************************************************************************)
(* Proofs about Migration, the runs on one table, for every history of     *)
(* releases and any bounds on faults and writes: types, and that a column's*)
(* data goes only under a rating the release allows. The argument goes     *)
(* through the diff: each draft it emits is sound, which every later       *)
(* statement of the plan keeps true.                                       *)
(***************************************************************************)
EXTENDS Migration, ListProofs

-----------------------------------------------------------------------------
(* What the plans of one table are made of. The statements that neither    *)
(* drop data nor decide which column may be dropped without asking.        *)
Harmless ==
  {"DROP CONSTRAINT", "SET DEFAULT", "DROP DEFAULT", "DROP NOT NULL",
   "DROP EXPRESSION", "BACKFILL", "CREATE INDEX", "DROP INDEX",
   "RENAME INDEX", "RENAME CONSTRAINT", "ADD CHECK", "VALIDATE", "ADD UNIQUE"}

(* The columns a definition names.                                         *)
Names(definition) == NamesOf(definition.columns)

(* A column the definition has not, and whose marker the database has.     *)
Marked(c, definition, table) ==
  /\ c \notin Names(definition)
  /\ c \in DOMAIN table.columns => table.columns[c].deprecated

(* A draft that drops no data without its rating saying so.                *)
Sound(draft, definition, table) ==
  \/ draft.stmt.do \in Harmless
  \/ draft.stmt.do \in {"ADD COLUMN", "COMMENT"} /\ draft.stmt.name \in Names(definition)
  \/ draft.stmt.do = "RENAME COLUMN" /\ draft.stmt.with \in Names(definition)
  \/ draft.stmt.do = "CREATE TABLE" /\ draft.stmt.with = definition
  \/ draft.stmt.do = "DROP TABLE" /\ draft.risk = "destructive"
  \/ /\ draft.stmt.do = "DROP COLUMN"
     /\ \/ draft.risk = "destructive"
        \/ draft.risk = "lossy" /\ Marked(draft.stmt.name, definition, table)

(* Sound drafts,                                                           *)
SoundDrafts(drafts, definition, table) ==
  List(drafts) /\ \A d \in ToSet(drafts) : Sound(d, definition, table)

(* and changes made of them.                                               *)
SoundChanges(changes, definition, table) ==
  /\ List(changes)
  /\ \A c \in ToSet(changes) : SoundDrafts(c.drafts, definition, table)

(* No draft is sound.                                                      *)
LEMMA NoDraft ==
  ASSUME NEW definition, NEW table
  PROVE  SoundDrafts(<< >>, definition, table)
BY EmptyList DEF SoundDrafts

(* A list of one sound draft is sound.                                     *)
LEMMA OneDraft ==
  ASSUME NEW definition, NEW table, NEW draft, Sound(draft, definition, table)
  PROVE  SoundDrafts(<<draft>>, definition, table)
BY SingleList DEF SoundDrafts

(* Sound drafts after sound drafts are sound.                              *)
LEMMA MoreDrafts ==
  ASSUME NEW definition, NEW table, NEW a, NEW b,
         SoundDrafts(a, definition, table), SoundDrafts(b, definition, table)
  PROVE  SoundDrafts(a \o b, definition, table)
BY ConcatList DEF SoundDrafts

(* A pair of sound drafts is sound.                                        *)
LEMMA TwoDrafts ==
  ASSUME NEW definition, NEW table, NEW a, NEW b,
         Sound(a, definition, table), Sound(b, definition, table)
  PROVE  SoundDrafts(<<a, b>>, definition, table)
BY DEF SoundDrafts, List, ToSet

(* So are sound drafts under a condition,                                  *)
LEMMA WhenDrafts ==
  ASSUME NEW definition, NEW table, NEW condition \in BOOLEAN, NEW a,
         condition => SoundDrafts(a, definition, table)
  PROVE  SoundDrafts(When(condition, a), definition, table)
BY NoDraft DEF When

(* a list of lists of them, flattened,                                     *)
LEMMA FlatDrafts ==
  ASSUME NEW definition, NEW table, NEW parts, List(parts),
         \A k \in DOMAIN parts : SoundDrafts(parts[k], definition, table)
  PROVE  SoundDrafts(FlattenSeq(parts), definition, table)
<1>1. /\ List(FlattenSeq(parts))
      /\ ToSet(FlattenSeq(parts)) = UNION {ToSet(parts[k]) : k \in DOMAIN parts}
  BY FlattenList DEF SoundDrafts
<1> QED BY <1>1 DEF SoundDrafts

(* and a list taken apart at its end.                                      *)
LEMMA FrontAndLast ==
  ASSUME NEW definition, NEW table, NEW s, SoundDrafts(s, definition, table), Len(s) > 0
  PROVE  SoundDrafts(Front(s), definition, table) /\ Sound(Last(s), definition, table)
<1>1. Len(s) \in Nat /\ DOMAIN s = 1..Len(s) /\ s \in Seq(ToSet(s))
  BY ListProperties DEF SoundDrafts, List
<1>2. Front(s) \in Seq(ToSet(s))
  BY <1>1 DEF Front
<1>3. List(Front(s)) /\ ToSet(Front(s)) \subseteq ToSet(s)
  BY <1>2, SeqIsList
<1>4. Last(s) \in ToSet(s)
  BY <1>1 DEF Last, ToSet
<1> QED BY <1>3, <1>4 DEF SoundDrafts

(* No change is sound.                                                     *)
LEMMA NoChange ==
  ASSUME NEW definition, NEW table
  PROVE  SoundChanges(<< >>, definition, table)
BY EmptyList DEF SoundChanges

(* A change of sound drafts is sound.                                      *)
LEMMA OneChange ==
  ASSUME NEW definition, NEW table, NEW change, SoundDrafts(change.drafts, definition, table)
  PROVE  SoundChanges(<<change>>, definition, table)
BY SingleList DEF SoundChanges

(* Sound changes after sound changes are sound.                            *)
LEMMA MoreChanges ==
  ASSUME NEW definition, NEW table, NEW a, NEW b,
         SoundChanges(a, definition, table), SoundChanges(b, definition, table)
  PROVE  SoundChanges(a \o b, definition, table)
BY ConcatList DEF SoundChanges

(* One change for each entry of a sequence.                                *)
LEMMA ChangePerEntry ==
  ASSUME NEW definition, NEW table, NEW n \in Nat, NEW changes,
         changes = [k \in 1..n |-> changes[k]],
         \A k \in 1..n : SoundDrafts(changes[k].drafts, definition, table)
  PROVE  SoundChanges(changes, definition, table)
<1>1. List(changes)
  BY FunctionIsList
<1>2. \A c \in ToSet(changes) : \E k \in 1..n : c = changes[k]
  BY DEF ToSet
<1> QED BY <1>1, <1>2 DEF SoundChanges

(* So is a list of lists of them, flattened.                               *)
LEMMA FlatChanges ==
  ASSUME NEW definition, NEW table, NEW parts, List(parts),
         \A k \in DOMAIN parts : SoundChanges(parts[k], definition, table)
  PROVE  SoundChanges(FlattenSeq(parts), definition, table)
<1>1. /\ List(FlattenSeq(parts))
      /\ ToSet(FlattenSeq(parts)) = UNION {ToSet(parts[k]) : k \in DOMAIN parts}
  BY FlattenList DEF SoundChanges
<1> QED BY <1>1 DEF SoundChanges

-----------------------------------------------------------------------------
(* The drafts of columns, indexes and constraints, one operator after the  *)
(* other.                                                                  *)

(* An ALTER that is harmless is sound however it is rated.                 *)
LEMMA AlterSound ==
  ASSUME NEW definition, NEW table, NEW do \in Harmless, NEW name, NEW with, NEW risk
  PROVE  Sound(AlterDraft(do, name, with, risk), definition, table)
BY Zenon DEF Sound, AlterDraft, Draft, Stmt

(* The drafts on indexes drop no data,                                     *)
LEMMA IndexDraftsSound ==
  ASSUME NEW definition, NEW table
  PROVE  /\ \A index : Sound(CreateIndexDraft(index), definition, table)
         /\ \A name : Sound(DropIndexDraft(name), definition, table)
         /\ \A from, to : Sound(RenameIndexDraft(from, to), definition, table)
<1>1. ASSUME NEW index PROVE Sound(CreateIndexDraft(index), definition, table)
  BY Zenon DEF Sound, CreateIndexDraft, Draft, Stmt, Harmless
<1>2. ASSUME NEW name PROVE Sound(DropIndexDraft(name), definition, table)
  BY Zenon DEF Sound, DropIndexDraft, Draft, Stmt, Harmless
<1>3. ASSUME NEW from, NEW to PROVE Sound(RenameIndexDraft(from, to), definition, table)
  BY Zenon, AlterSound DEF RenameIndexDraft, Harmless
<1> QED BY <1>1, <1>2, <1>3, Zenon

(* nor do those on constraints,                                            *)
LEMMA ConstraintDraftsSound ==
  ASSUME NEW definition, NEW table
  PROVE  /\ \A name : Sound(DropConstraintDraft(name), definition, table)
         /\ \A name : Sound(ValidateDraft(name), definition, table)
         /\ \A name, on : SoundDrafts(AddCheckDrafts(name, on), definition, table)
         /\ \A u : SoundDrafts(UniquePromotionDrafts(u), definition, table)
<1>1. ASSUME NEW name PROVE Sound(DropConstraintDraft(name), definition, table)
  BY Zenon, AlterSound DEF DropConstraintDraft, Harmless
<1>2. ASSUME NEW name PROVE Sound(ValidateDraft(name), definition, table)
  BY Zenon, AlterSound DEF ValidateDraft, Harmless
<1>3. ASSUME NEW name, NEW on PROVE SoundDrafts(AddCheckDrafts(name, on), definition, table)
  <2>1. Sound(AlterDraft("ADD CHECK", name, on, "safe"), definition, table)
    BY Zenon, AlterSound DEF Harmless
  <2> QED BY <1>2, <2>1, TwoDrafts, Zenon DEF AddCheckDrafts
<1>4. ASSUME NEW u PROVE SoundDrafts(UniquePromotionDrafts(u), definition, table)
  <2> DEFINE build == CreateIndexDraft([name   |-> UniqueIndexName(u.name),
                                        on     |-> u.on,
                                        unique |-> TRUE])
             add == Draft("CREATE", "UNIQUE_CONSTRAINT", u.name, <<T, UniqueIndexName(u.name)>>,
                          "safe", Stmt("ADD UNIQUE", u.name, UniqueIndexName(u.name)))
  <2>1. Sound(build, definition, table)
    BY IndexDraftsSound, Zenon
  <2>2. Sound(add, definition, table)
    BY Zenon DEF Sound, Draft, Stmt, Harmless
  <2>3. UniquePromotionDrafts(u) = <<build, add>>
    BY Zenon DEF UniquePromotionDrafts
  <2> HIDE DEF build, add
  <2> QED BY <2>1, <2>2, <2>3, TwoDrafts
<1> QED BY <1>1, <1>2, <1>3, <1>4, Zenon

(* nor those that make a column NOT NULL.                                  *)
LEMMA NotNullDraftsSound ==
  ASSUME NEW definition, NEW table, NEW c, NEW hasDefault \in BOOLEAN
  PROVE  SoundDrafts(NotNullDrafts(c, hasDefault), definition, table)
<1> DEFINE fill == AlterDraft("BACKFILL", c, << >>, "safe")
<1>1. Sound(fill, definition, table)
  BY Zenon, AlterSound DEF Harmless
<1>2. NotNullDrafts(c, hasDefault)
        = When(hasDefault, <<fill>>) \o AddCheckDrafts(NotNullCheckName(c), {c})
  BY Zenon DEF NotNullDrafts
<1> HIDE DEF fill
<1>3. SoundDrafts(When(hasDefault, <<fill>>), definition, table)
  BY <1>1, OneDraft, WhenDrafts
<1> QED BY <1>2, <1>3, ConstraintDraftsSound, MoreDrafts

(* The columns of the definition. An ADD names a column of the definition. *)
LEMMA ColumnAddSound ==
  ASSUME NEW definition, NEW table, NEW local, local.name \in Names(definition)
  PROVE  SoundDrafts(ColumnAdd(local).drafts, definition, table)
<1> DEFINE add == AlterDraft("ADD COLUMN", local.name, local.type, "safe")
           set == AlterDraft("SET DEFAULT", local.name, local.default, "safe")
           hasDefault == local.default # "none"
           drafts == <<add>> \o When(hasDefault, <<set>>)
                     \o When(local.notNull, NotNullDrafts(local.name, TRUE))
<1>1. Sound(add, definition, table)
  BY Zenon DEF Sound, AlterDraft, Draft, Stmt
<1>2. Sound(set, definition, table)
  BY Zenon, AlterSound DEF Harmless
<1>3. \/ ColumnAdd(local).drafts = << >>
      \/ ColumnAdd(local).drafts = drafts
  BY Zenon DEF ColumnAdd, Refuse, Drafts
<1>4. SoundDrafts(drafts, definition, table)
  <2> HIDE DEF add, set, hasDefault
  <2>1. SoundDrafts(When(hasDefault, <<set>>), definition, table)
    BY <1>2, OneDraft, NoDraft DEF When
  <2>2. SoundDrafts(When(local.notNull, NotNullDrafts(local.name, TRUE)), definition, table)
    BY NotNullDraftsSound, NoDraft DEF When
  <2> QED BY <1>1, <2>1, <2>2, OneDraft, MoreDrafts
<1> HIDE DEF drafts
<1> QED BY <1>3, <1>4, NoDraft

(* The lists of a definition.                                              *)
LEMMA NamedConstraintsList ==
  ASSUME NEW definition, IsDefinition(definition)
  PROVE  List(NamedConstraintsOf(definition))
<1> DEFINE columns == definition.columns
           checks(k) == [i \in DOMAIN columns[k].check |->
                           [name |-> columns[k].check[i], kind |-> "CHECK",
                            on |-> {columns[k].name}]]
           uniques(k) == IF columns[k].unique
                           THEN <<[name |-> ColumnUniqueName(columns[k].name),
                                   kind |-> "UNIQUE", on |-> {columns[k].name}]>>
                           ELSE << >>
           f == [k \in DOMAIN columns |-> checks(k)]
           g == [k \in DOMAIN columns |-> uniques(k)]
<1>1. /\ List(definition.constraints)
      /\ List(columns)
      /\ \A k \in DOMAIN columns : List(columns[k].check)
  <2>1. List(definition.constraints) /\ List(columns)
    BY DEF IsDefinition, List
  <2>2. \A k \in DOMAIN columns : columns[k] \in ToSet(columns)
    BY <2>1, ListProperties
  <2> QED BY <2>1, <2>2 DEF IsDefinition, List
<1>2. Len(columns) \in Nat /\ DOMAIN columns = 1..Len(columns)
  BY <1>1, ListProperties
<1>3. ASSUME NEW k \in DOMAIN columns PROVE List(checks(k)) /\ List(uniques(k))
  <2>1. List(uniques(k))
    BY EmptyList, SingleList
  <2> DEFINE n == Len(columns[k].check)
  <2>2. n \in Nat /\ DOMAIN columns[k].check = 1..n
    BY <1>1, ListProperties
  <2>3. checks(k) = [i \in 1..n |-> checks(k)[i]]
    BY <2>2
  <2> HIDE DEF checks
  <2>4. List(checks(k))
    BY <2>2, <2>3, FunctionIsList
  <2> QED BY <2>1, <2>4
<1>4. NamedConstraintsOf(definition)
        = definition.constraints \o FlattenSeq(f) \o FlattenSeq(g)
  BY DEF NamedConstraintsOf
<1>5. /\ DOMAIN f = DOMAIN columns /\ DOMAIN g = DOMAIN columns
      /\ \A k \in DOMAIN columns : f[k] = checks(k) /\ g[k] = uniques(k)
      /\ f = [k \in 1..Len(columns) |-> f[k]]
      /\ g = [k \in 1..Len(columns) |-> g[k]]
  BY <1>2
<1> HIDE DEF f, g, checks, uniques
<1>6. List(f) /\ List(g)
  BY <1>2, <1>5, FunctionIsList
<1>7. List(FlattenSeq(f)) /\ List(FlattenSeq(g))
  BY <1>3, <1>5, <1>6, FlattenList
<1> QED BY <1>1, <1>4, <1>7, ConcatList

(* Recreating a column drops it under a destructive rating and adds it     *)
(* under its declared name.                                                *)
LEMMA RecreateSound ==
  ASSUME NEW definition, IsDefinition(definition), NEW table, NEW c
  PROVE  SoundDrafts(RecreateDrafts(definition, c), definition, table)
<1> DEFINE indexes == definition.indexes
           named == NamedConstraintsOf(definition)
           index(k) == When(c \in indexes[k].on, <<CreateIndexDraft(indexes[k])>>)
           constraint(k) ==
             When(c \in named[k].on,
                  IF named[k].kind = "UNIQUE"
                    THEN UniquePromotionDrafts(named[k])
                    ELSE AddCheckDrafts(named[k].name, named[k].on))
           f == [k \in DOMAIN indexes |-> index(k)]
           g == [k \in DOMAIN named |-> constraint(k)]
<1>1. List(indexes)
  BY DEF IsDefinition, List
<1>2. List(named)
  BY NamedConstraintsList
<1>3. ASSUME NEW k PROVE SoundDrafts(index(k), definition, table)
  BY IndexDraftsSound, OneDraft, NoDraft DEF When
<1>4. ASSUME NEW k PROVE SoundDrafts(constraint(k), definition, table)
  BY ConstraintDraftsSound, NoDraft, Zenon DEF When
<1>5. RecreateDrafts(definition, c) = FlattenSeq(f) \o FlattenSeq(g)
  BY DEF RecreateDrafts
<1> HIDE DEF indexes, named
<1>6. /\ Len(indexes) \in Nat /\ DOMAIN indexes = 1..Len(indexes)
      /\ Len(named) \in Nat /\ DOMAIN named = 1..Len(named)
  BY <1>1, <1>2, ListProperties
<1>7. /\ \A k \in DOMAIN f : f[k] = index(k)
      /\ \A k \in DOMAIN g : g[k] = constraint(k)
      /\ f = [k \in 1..Len(indexes) |-> f[k]]
      /\ g = [k \in 1..Len(named) |-> g[k]]
  BY <1>6
<1> HIDE DEF f, g, index, constraint
<1>8. SoundDrafts(FlattenSeq(f), definition, table)
  <2>1. List(f)
    BY <1>6, <1>7, FunctionIsList
  <2> QED BY <1>3, <1>7, <2>1, FlatDrafts
<1>9. SoundDrafts(FlattenSeq(g), definition, table)
  <2>1. List(g)
    BY <1>6, <1>7, FunctionIsList
  <2> QED BY <1>4, <1>7, <2>1, FlatDrafts
<1> QED BY <1>5, <1>8, <1>9, MoreDrafts

(* A column of another type is dropped, rated destructive, and added.      *)
LEMMA TypeChangeSound ==
  ASSUME NEW definition, IsDefinition(definition), NEW table, NEW seen,
         NEW local, local.name \in Names(definition)
  PROVE  SoundDrafts(TypeChange(definition, seen, local).drafts, definition, table)
<1> DEFINE drop == AlterDraft("DROP COLUMN", local.name, << >>, "destructive")
           add == ColumnAdd(local)
           drafts == <<drop>> \o add.drafts \o RecreateDrafts(definition, local.name)
<1>1. Sound(drop, definition, table)
  BY Zenon DEF Sound, AlterDraft, Draft, Stmt
<1>2. \/ TypeChange(definition, seen, local).drafts = << >>
      \/ TypeChange(definition, seen, local).drafts = add.drafts
      \/ TypeChange(definition, seen, local).drafts = drafts
  BY Zenon DEF TypeChange, Refuse, Drafts
<1>3. SoundDrafts(add.drafts, definition, table)
  BY ColumnAddSound
<1> HIDE DEF drop, add
<1>4. SoundDrafts(drafts, definition, table)
  BY <1>1, <1>3, OneDraft, MoreDrafts, RecreateSound
<1> QED BY <1>2, <1>3, <1>4, NoDraft

(* The drafts of a column both sides have are sound,                       *)
LEMMA ColumnModifySound ==
  ASSUME NEW definition, IsDefinition(definition), NEW table, NEW seen,
         NEW local, local.name \in Names(definition)
  PROVE  SoundDrafts(ColumnModify(definition, seen, local).drafts, definition, table)
<1> DEFINE c == local.name
           differs == DiffColumn(local, seen)
           stored == <<AlterDraft("DROP EXPRESSION", c, << >>, "destructive")>>
           unset == <<AlterDraft("DROP DEFAULT", c, << >>, "lossy")>>
           set == <<AlterDraft("SET DEFAULT", c, local.default, "safe")>>
           nulls == <<AlterDraft("DROP NOT NULL", c, << >>, "lossy")>>
           unchecked == <<DropConstraintDraft(NotNullCheckName(c))>>
           comment == <<AlterDraft("COMMENT", c, local.deprecated, "safe")>>
           generated == When("generated" \in differs, stored)
           default == When("default" \in differs,
                           IF local.default = "none" THEN unset ELSE set)
           filled == NotNullDrafts(c, FillsNulls(local.default))
           notNull == When("notNull" \in differs,
                           IF local.notNull THEN filled
                           ELSE IF c \in NotNullChecksOf(seen) THEN unchecked
                           ELSE nulls)
           deprecated == When("deprecated" \in differs, comment)
<1>1. /\ SoundDrafts(stored, definition, table)
      /\ SoundDrafts(unset, definition, table)
      /\ SoundDrafts(set, definition, table)
      /\ SoundDrafts(nulls, definition, table)
  <2>1. Sound(AlterDraft("DROP EXPRESSION", c, << >>, "destructive"), definition, table)
    BY Zenon, AlterSound DEF Harmless
  <2>2. Sound(AlterDraft("DROP DEFAULT", c, << >>, "lossy"), definition, table)
    BY Zenon, AlterSound DEF Harmless
  <2>3. Sound(AlterDraft("SET DEFAULT", c, local.default, "safe"), definition, table)
    BY Zenon, AlterSound DEF Harmless
  <2>4. Sound(AlterDraft("DROP NOT NULL", c, << >>, "lossy"), definition, table)
    BY Zenon, AlterSound DEF Harmless
  <2> QED BY <2>1, <2>2, <2>3, <2>4, OneDraft, Zenon
<1>2. SoundDrafts(unchecked, definition, table)
  BY ConstraintDraftsSound, OneDraft, Zenon
<1>3. SoundDrafts(comment, definition, table)
  <2>1. Sound(AlterDraft("COMMENT", c, local.deprecated, "safe"), definition, table)
    BY Zenon DEF Sound, AlterDraft, Draft, Stmt
  <2> QED BY <2>1, OneDraft, Zenon
<1>4. SoundDrafts(filled, definition, table)
  BY NotNullDraftsSound DEF FillsNulls
<1>5. \/ ColumnModify(definition, seen, local).drafts
           = TypeChange(definition, seen, local).drafts
      \/ ColumnModify(definition, seen, local).drafts = << >>
      \/ ColumnModify(definition, seen, local).drafts
           = generated \o default \o notNull \o deprecated
  BY Zenon DEF ColumnModify, Refuse, Drafts
<1> HIDE DEF stored, unset, set, nulls, unchecked, comment, filled, c, differs
<1>6. /\ SoundDrafts(generated, definition, table)
      /\ SoundDrafts(default, definition, table)
      /\ SoundDrafts(notNull, definition, table)
      /\ SoundDrafts(deprecated, definition, table)
  BY <1>1, <1>2, <1>3, <1>4, NoDraft DEF When
<1> HIDE DEF generated, default, notNull, deprecated
<1>7. SoundDrafts(generated \o default \o notNull \o deprecated, definition, table)
  BY <1>6, MoreDrafts
<1> QED BY <1>5, <1>7, NoDraft, TypeChangeSound, Zenon

(* and those of a column of the definition.                                *)
LEMMA LocalColumnSound ==
  ASSUME NEW definition, IsDefinition(definition), NEW table, NEW seen,
         NEW local, local.name \in Names(definition)
  PROVE  SoundDrafts(LocalColumn(definition, seen, local).drafts, definition, table)
BY ColumnAddSound, ColumnModifySound, Zenon DEF LocalColumn

-----------------------------------------------------------------------------
(* What is compared: the table of the database after the renames. What the *)
(* definition does not name is as the database has it.                     *)
FiniteMap(f) == IsFiniteSet(DOMAIN f) /\ f = [m \in DOMAIN f |-> f[m]]

(* A table with all its parts, each over finitely many names.              *)
TableShape(table) ==
  /\ table = [exists |-> table.exists, columns |-> table.columns,
              indexes |-> table.indexes, constraints |-> table.constraints,
              key |-> table.key]
  /\ FiniteMap(table.columns)
  /\ FiniteMap(table.indexes)
  /\ FiniteMap(table.constraints)

(* The table as the diff sees it while it takes in the renames.            *)
Seen(seen, definition, table) ==
  /\ TableShape(seen)
  /\ \A c \in DOMAIN seen.columns \ Names(definition) :
       c \in DOMAIN table.columns /\ seen.columns[c] = table.columns[c]

(* A column that goes is rated lossy when the database has it marked.      *)
LEMMA ColumnDropSound ==
  ASSUME NEW definition, NEW table, NEW seen, Seen(seen, definition, table),
         NEW c \in DOMAIN seen.columns \ Names(definition)
  PROVE  SoundDrafts(ColumnDrop(seen, c).drafts, definition, table)
<1> DEFINE lossy == AlterDraft("DROP COLUMN", c, << >>, "lossy")
           destructive == AlterDraft("DROP COLUMN", c, << >>, "destructive")
<1>1. Sound(destructive, definition, table)
  BY Zenon DEF Sound, AlterDraft, Draft, Stmt
<1>2. seen.columns[c].deprecated => Marked(c, definition, table)
  BY Zenon DEF Seen, Marked
<1>3. Marked(c, definition, table) => Sound(lossy, definition, table)
  BY Zenon DEF Sound, AlterDraft, Draft, Stmt
<1>4. \/ ColumnDrop(seen, c).drafts = << >>
      \/ ~ seen.columns[c].deprecated /\ ColumnDrop(seen, c).drafts = <<destructive>>
      \/ seen.columns[c].deprecated /\ ColumnDrop(seen, c).drafts = <<lossy>>
  BY Zenon DEF ColumnDrop, Refuse, Drafts
<1> HIDE DEF lossy, destructive
<1> QED BY <1>1, <1>2, <1>3, <1>4, NoDraft, OneDraft, Zenon

-----------------------------------------------------------------------------
(* Indexes and constraints.                                                *)

(* Taking up an index that was left behind is sound,                       *)
LEMMA TakeLeftoverSound ==
  ASSUME NEW definition, NEW table, NEW seen, NEW name
  PROVE  SoundDrafts(TakeLeftover(definition, seen, name), definition, table)
BY IndexDraftsSound, OneDraft, NoDraft, Zenon DEF TakeLeftover, When

(* as is the comparison of an index,                                       *)
LEMMA LocalIndexSound ==
  ASSUME NEW definition, NEW table, NEW seen, NEW local
  PROVE  SoundDrafts(LocalIndex(definition, seen, local), definition, table)
<1> DEFINE temporary == RebuildIndexName(local.name)
           leftover == TakeLeftover(definition, seen, temporary)
           create == CreateIndexDraft(local)
           build == CreateIndexDraft([local EXCEPT !.name = temporary])
           drop == DropIndexDraft(local.name)
           rename == RenameIndexDraft(temporary, local.name)
           rebuilt == leftover \o <<build, drop, rename>>
<1>1. /\ SoundDrafts(leftover, definition, table)
      /\ Sound(create, definition, table)
      /\ Sound(build, definition, table)
      /\ Sound(drop, definition, table)
      /\ Sound(rename, definition, table)
  BY TakeLeftoverSound, IndexDraftsSound, Zenon
<1>2. \/ LocalIndex(definition, seen, local) = <<create>> \o leftover
      \/ LocalIndex(definition, seen, local) = rebuilt
      \/ LocalIndex(definition, seen, local) = << >>
  BY Zenon DEF LocalIndex, When
<1> HIDE DEF leftover, create, build, drop, rename
<1>3. SoundDrafts(<<create>> \o leftover, definition, table)
  BY <1>1, OneDraft, MoreDrafts
<1>4. SoundDrafts(<<build, drop, rename>>, definition, table)
  BY <1>1 DEF SoundDrafts, List, ToSet
<1>5. SoundDrafts(rebuilt, definition, table)
  BY <1>1, <1>4, MoreDrafts
<1> QED BY <1>2, <1>3, <1>5, NoDraft

(* the promotion of an index to a constraint,                              *)
LEMMA PromotionSound ==
  ASSUME NEW definition, NEW table, NEW seen, NEW u
  PROVE  /\ SoundDrafts(Promotion(definition, seen, u), definition, table)
         /\ Len(Promotion(definition, seen, u)) > 0
<1> DEFINE leftover == TakeLeftover(definition, seen, UniqueIndexName(u.name))
           promoted == UniquePromotionDrafts(u)
<1>1. SoundDrafts(leftover, definition, table) /\ SoundDrafts(promoted, definition, table)
  BY TakeLeftoverSound, ConstraintDraftsSound, Zenon
<1>2. \E a, b : promoted = <<a, b>>
  BY Zenon DEF UniquePromotionDrafts
<1>3. Promotion(definition, seen, u) = leftover \o promoted
  BY DEF Promotion
<1> HIDE DEF leftover, promoted
<1>4. Len(promoted) = 2
  BY <1>2
<1>5. /\ List(leftover) /\ List(promoted) /\ Len(leftover) \in Nat
      /\ Len(leftover \o promoted) = Len(leftover) + Len(promoted)
  BY <1>1, ConcatList, ListProperties DEF SoundDrafts
<1>6. Len(leftover \o promoted) > 0
  BY <1>4, <1>5
<1> QED BY <1>1, <1>3, <1>6, MoreDrafts

(* and the comparison of a constraint.                                     *)
LEMMA LocalConstraintSound ==
  ASSUME NEW definition, NEW table, NEW seen, NEW local
  PROVE  SoundDrafts(LocalConstraint(definition, seen, local), definition, table)
<1> DEFINE steps == Promotion(definition, seen, local)
           checks == AddCheckDrafts(local.name, local.on)
           drop == DropConstraintDraft(local.name)
           validate == ValidateDraft(local.name)
           replaced == Front(steps) \o <<drop, Last(steps)>>
<1>1. SoundDrafts(steps, definition, table) /\ Len(steps) > 0
  BY PromotionSound
<1>2. /\ SoundDrafts(checks, definition, table)
      /\ Sound(drop, definition, table)
      /\ Sound(validate, definition, table)
  BY ConstraintDraftsSound, Zenon
<1>3. \/ LocalConstraint(definition, seen, local) = steps
      \/ LocalConstraint(definition, seen, local) = checks
      \/ LocalConstraint(definition, seen, local) = <<drop>>
      \/ LocalConstraint(definition, seen, local) = <<validate>>
      \/ LocalConstraint(definition, seen, local) = << >>
      \/ LocalConstraint(definition, seen, local) = replaced
  BY Zenon DEF LocalConstraint, When
<1> HIDE DEF steps, checks, drop, validate
<1>4. SoundDrafts(Front(steps), definition, table) /\ Sound(Last(steps), definition, table)
  BY <1>1, FrontAndLast
<1>5. SoundDrafts(replaced, definition, table)
  BY <1>2, <1>4, TwoDrafts, MoreDrafts
<1> QED BY <1>1, <1>2, <1>3, <1>5, NoDraft, OneDraft

(* The names of a set, in some order, are those of a finite set.           *)
LEMMA ChangeEachSound ==
  ASSUME NEW definition, NEW table, NEW S, IsFiniteSet(S)
  PROVE  LET names == SetToSeq(S)
         IN  /\ \A n \in DOMAIN names : names[n] \in S
             /\ SoundChanges([k \in DOMAIN names |->
                  Change(names[k], <<DropIndexDraft(names[k])>>)], definition, table)
             /\ SoundChanges([k \in DOMAIN names |->
                  Change(names[k], <<ValidateDraft(names[k])>>)], definition, table)
             /\ SoundChanges([k \in DOMAIN names |->
                  Change(names[k], <<DropConstraintDraft(names[k])>>)], definition, table)
<1> DEFINE names == SetToSeq(S)
           f == [k \in DOMAIN names |-> Change(names[k], <<DropIndexDraft(names[k])>>)]
           g == [k \in DOMAIN names |-> Change(names[k], <<ValidateDraft(names[k])>>)]
           h == [k \in DOMAIN names |-> Change(names[k], <<DropConstraintDraft(names[k])>>)]
<1>1. List(names) /\ ToSet(names) = S
  BY SetToSeqList
<1> HIDE DEF names
<1>2. /\ Len(names) \in Nat /\ DOMAIN names = 1..Len(names)
      /\ \A k \in DOMAIN names : names[k] \in S
  BY <1>1, ListProperties
<1>3. /\ f = [k \in 1..Len(names) |-> f[k]]
      /\ \A k \in 1..Len(names) : f[k].drafts = <<DropIndexDraft(names[k])>>
  BY <1>2 DEF Change
<1>4. /\ g = [k \in 1..Len(names) |-> g[k]]
      /\ \A k \in 1..Len(names) : g[k].drafts = <<ValidateDraft(names[k])>>
  BY <1>2 DEF Change
<1>5. /\ h = [k \in 1..Len(names) |-> h[k]]
      /\ \A k \in 1..Len(names) : h[k].drafts = <<DropConstraintDraft(names[k])>>
  BY <1>2 DEF Change
<1> HIDE DEF f, g, h
<1>6. \A name : /\ SoundDrafts(<<DropIndexDraft(name)>>, definition, table)
                /\ SoundDrafts(<<ValidateDraft(name)>>, definition, table)
                /\ SoundDrafts(<<DropConstraintDraft(name)>>, definition, table)
  BY IndexDraftsSound, ConstraintDraftsSound, OneDraft
<1>7. SoundChanges(f, definition, table)
  BY <1>2, <1>3, <1>6, ChangePerEntry
<1>8. SoundChanges(g, definition, table)
  BY <1>2, <1>4, <1>6, ChangePerEntry
<1>9. SoundChanges(h, definition, table)
  BY <1>2, <1>5, <1>6, ChangePerEntry
<1> QED BY <1>2, <1>7, <1>8, <1>9 DEF f, g, h, names

(* A table has finitely many indexes left behind.                          *)
LEMMA LeftoversFinite ==
  ASSUME NEW definition, NEW seen, TableShape(seen)
  PROVE  \A taken : IsFiniteSet(LeftoverIndexes(definition, seen) \ taken)
<1> SUFFICES ASSUME NEW taken
             PROVE  IsFiniteSet(LeftoverIndexes(definition, seen) \ taken)
  OBVIOUS
<1>1. LeftoverIndexes(definition, seen) \ taken \subseteq DOMAIN seen.indexes
  BY DEF LeftoverIndexes
<1>2. IsFiniteSet(DOMAIN seen.indexes)
  BY DEF TableShape, FiniteMap
<1> QED BY <1>1, <1>2, FS_Subset

(* What the passes over the indexes emit is sound.                         *)
LEMMA IndexChangesSound ==
  ASSUME NEW definition, IsDefinition(definition), NEW table, NEW seen, TableShape(seen)
  PROVE  SoundChanges(IndexChanges(definition, seen), definition, table)
<1> DEFINE indexes == definition.indexes
           f == [k \in DOMAIN indexes |->
                   Change(indexes[k].name, LocalIndex(definition, seen, indexes[k]))]
           gone == DOMAIN seen.indexes
                   \ (NamesOf(definition.indexes) \cup LeftoverIndexes(definition, seen))
           names == SetToSeq(gone)
           g == [k \in DOMAIN names |-> Change(names[k], <<DropIndexDraft(names[k])>>)]
<1>1. List(indexes)
  BY DEF IsDefinition, List
<1>2. IndexChanges(definition, seen) = f \o g
  BY DEF IndexChanges, DropIndexes, ChangeEach, RemovedIndexes
<1>3. SoundChanges(g, definition, table)
  <2>1. IsFiniteSet(gone)
    BY FS_Difference DEF TableShape, FiniteMap
  <2> HIDE DEF gone
  <2> QED BY <2>1, ChangeEachSound
<1> HIDE DEF indexes
<1>4. Len(indexes) \in Nat /\ DOMAIN indexes = 1..Len(indexes)
  BY <1>1, ListProperties
<1>5. /\ f = [k \in 1..Len(indexes) |-> f[k]]
      /\ \A k \in 1..Len(indexes) :
           f[k].drafts = LocalIndex(definition, seen, indexes[k])
  BY <1>4 DEF Change
<1> HIDE DEF f, g
<1>6. SoundChanges(f, definition, table)
  <2>1. \A k \in 1..Len(indexes) : SoundDrafts(f[k].drafts, definition, table)
    BY <1>5, LocalIndexSound
  <2> QED BY <1>4, <1>5, <2>1, ChangePerEntry
<1> QED BY <1>2, <1>3, <1>6, MoreChanges

(* The constraints compared are a list.                                    *)
LEMMA ComparedList ==
  ASSUME NEW definition, IsDefinition(definition), NEW columns
  PROVE  List(ComparedConstraints(definition, columns))
<1> DEFINE named == NamedConstraintsOf(definition)
           refused == {k \in DOMAIN columns : columns[k].refusal # "none"}
           owned(k, c) ==
             \/ Contains(definition.columns[k].check, c.name)
             \/ /\ definition.columns[k].unique
                /\ c.name = ColumnUniqueName(definition.columns[k].name)
           part(n) == When(~ \E k \in refused : owned(k, named[n]), <<named[n]>>)
           f == [n \in DOMAIN named |-> part(n)]
<1>1. List(named)
  BY NamedConstraintsList
<1>2. ComparedConstraints(definition, columns) = FlattenSeq(f)
  BY DEF ComparedConstraints
<1> HIDE DEF named, refused, owned
<1>3. \A n : List(part(n))
  BY EmptyList, SingleList DEF When
<1>4. Len(named) \in Nat /\ DOMAIN named = 1..Len(named)
  BY <1>1, ListProperties
<1>5. f = [n \in 1..Len(named) |-> f[n]] /\ \A n \in DOMAIN f : f[n] = part(n)
  BY <1>4
<1> HIDE DEF f, part
<1>6. List(f)
  BY <1>4, <1>5, FunctionIsList
<1> QED BY <1>2, <1>3, <1>5, <1>6, FlattenList

(* What the passes over the constraints emit is sound.                     *)
LEMMA ConstraintChangesSound ==
  ASSUME NEW definition, NEW table, NEW seen, TableShape(seen), NEW named, List(named)
  PROVE  SoundChanges(ConstraintChanges(definition, seen, named), definition, table)
<1> DEFINE unvalidated == {NotNullCheckName(c) : c \in
                             {d \in NotNullChecksOf(seen) :
                                ~ seen.constraints[NotNullCheckName(d)].valid}}
           gone == DOMAIN seen.constraints
                   \ ({NotNullCheckName(c) : c \in NotNullChecksOf(seen)}
                      \cup NamesOf(NamedConstraintsOf(definition)))
           first == SetToSeq(unvalidated)
           last == SetToSeq(gone)
           f == [k \in DOMAIN first |-> Change(first[k], <<ValidateDraft(first[k])>>)]
           g == [k \in DOMAIN named |->
                   Change(named[k].name, LocalConstraint(definition, seen, named[k]))]
           h == [k \in DOMAIN last |-> Change(last[k], <<DropConstraintDraft(last[k])>>)]
<1>1. ConstraintChanges(definition, seen, named) = f \o g \o h
  BY DEF ConstraintChanges, ChangeEach, UnvalidatedNotNulls, RemovedConstraints
<1>2. SoundChanges(f, definition, table)
  <2>1. unvalidated \subseteq DOMAIN seen.constraints
    BY DEF NotNullChecksOf
  <2>2. IsFiniteSet(unvalidated)
    BY <2>1, FS_Subset DEF TableShape, FiniteMap
  <2> HIDE DEF unvalidated
  <2> QED BY <2>2, ChangeEachSound
<1>3. SoundChanges(h, definition, table)
  <2>1. IsFiniteSet(gone)
    BY FS_Difference DEF TableShape, FiniteMap
  <2> HIDE DEF gone
  <2> QED BY <2>1, ChangeEachSound
<1>4. Len(named) \in Nat /\ DOMAIN named = 1..Len(named)
  BY ListProperties
<1>5. /\ g = [k \in 1..Len(named) |-> g[k]]
      /\ \A k \in 1..Len(named) : g[k].drafts = LocalConstraint(definition, seen, named[k])
  BY <1>4 DEF Change
<1> HIDE DEF f, g, h
<1>6. SoundChanges(g, definition, table)
  <2>1. \A k \in 1..Len(named) : SoundDrafts(g[k].drafts, definition, table)
    BY <1>5, LocalConstraintSound
  <2> QED BY <1>4, <1>5, <2>1, ChangePerEntry
<1> QED BY <1>1, <1>2, <1>3, <1>6, MoreChanges

(* What the sweep of leftovers emits is sound.                             *)
LEMMA SweepSound ==
  ASSUME NEW definition, NEW table, NEW seen, TableShape(seen), NEW changes
  PROVE  SoundChanges(Sweep(definition, seen, changes), definition, table)
<1> DEFINE taken == {d.stmt.name : d \in UNION {ToSet(c.drafts) : c \in ToSet(changes)}}
           left == LeftoverIndexes(definition, seen) \ taken
           names == SetToSeq(left)
<1>1. Sweep(definition, seen, changes)
        = [k \in DOMAIN names |-> Change(names[k], <<DropIndexDraft(names[k])>>)]
  BY DEF Sweep, DropIndexes, ChangeEach
<1>2. IsFiniteSet(left)
  <2> HIDE DEF taken
  <2> QED BY LeftoversFinite
<1> HIDE DEF left
<1> QED BY <1>1, <1>2, ChangeEachSound

(* The changes of columns are made of the drafts of each.                  *)
LEMMA ColumnChangesSound ==
  ASSUME NEW definition, NEW table, NEW names, List(names), NEW outcomes,
         \A k \in DOMAIN names : SoundDrafts(outcomes[k].drafts, definition, table)
  PROVE  SoundChanges(ColumnChanges(names, outcomes), definition, table)
<1> DEFINE f == [k \in DOMAIN names |-> Change(<<names[k]>>, outcomes[k].drafts)]
<1>1. Len(names) \in Nat /\ DOMAIN names = 1..Len(names)
  BY ListProperties
<1>2. /\ f = [k \in 1..Len(names) |-> f[k]]
      /\ \A k \in 1..Len(names) : f[k].drafts = outcomes[k].drafts
  BY <1>1 DEF Change
<1>3. ColumnChanges(names, outcomes) = f
  BY DEF ColumnChanges
<1> HIDE DEF f
<1>4. \A k \in 1..Len(names) : SoundDrafts(f[k].drafts, definition, table)
  BY <1>1, <1>2
<1> QED BY <1>1, <1>2, <1>3, <1>4, ChangePerEntry

(* Leaving out the changes without drafts changes nothing.                 *)
LEMMA EmittedSound ==
  ASSUME NEW definition, NEW table, NEW changes, SoundChanges(changes, definition, table)
  PROVE  SoundChanges(Emitted(changes), definition, table)
<1> DEFINE part(k) == When(changes[k].drafts # << >>, <<changes[k]>>)
           f == [k \in DOMAIN changes |-> part(k)]
<1>1. /\ Len(changes) \in Nat /\ DOMAIN changes = 1..Len(changes)
      /\ \A k \in DOMAIN changes : SoundDrafts(changes[k].drafts, definition, table)
  BY ListProperties DEF SoundChanges
<1>2. \A k \in DOMAIN changes : SoundChanges(part(k), definition, table)
  BY <1>1, OneChange, NoChange DEF When
<1>3. f = [k \in 1..Len(changes) |-> f[k]] /\ \A k \in DOMAIN f : f[k] = part(k)
  BY <1>1
<1>4. Emitted(changes) = FlattenSeq(f) /\ DOMAIN f = DOMAIN changes
  BY DEF Emitted
<1> HIDE DEF f, part
<1>5. List(f)
  BY <1>1, <1>3, FunctionIsList
<1> QED BY <1>2, <1>3, <1>4, <1>5, FlatChanges

(* Everything that is compared with the table after the renames.           *)
LEMMA AfterRenamesSound ==
  ASSUME NEW definition, IsDefinition(definition), NEW table,
         NEW seen, Seen(seen, definition, table),
         NEW renamed, SoundChanges(renamed.changes, definition, table)
  PROVE  SoundChanges(AfterRenames(definition, seen, renamed).changes, definition, table)
<1> DEFINE names == [k \in DOMAIN definition.columns |-> definition.columns[k].name]
           columns == [k \in DOMAIN definition.columns |->
                         LocalColumn(definition, seen, definition.columns[k])]
           gone == DOMAIN seen.columns \ NamesOf(definition.columns)
           removed == SetToSeq(gone)
           drops == [k \in DOMAIN removed |-> ColumnDrop(seen, removed[k])]
           compared == ComparedConstraints(definition, columns)
           others == IndexChanges(definition, seen)
                     \o ConstraintChanges(definition, seen, compared)
           all == renamed.changes \o ColumnChanges(names, columns) \o others
                  \o ColumnChanges(removed, drops) \o Sweep(definition, seen, others)
<1>1. AfterRenames(definition, seen, renamed).changes = Emitted(all)
  BY DEF AfterRenames, CompareOthers, TableChanges, RemovedColumns
<1>2. TableShape(seen)
  BY DEF Seen
<1>3. SoundChanges(ColumnChanges(names, columns), definition, table)
  <2>1. List(definition.columns)
    BY DEF IsDefinition, List
  <2>2. Len(definition.columns) \in Nat /\ DOMAIN definition.columns = 1..Len(definition.columns)
    BY <2>1, ListProperties
  <2>3. names = [k \in 1..Len(definition.columns) |-> names[k]]
    BY <2>2
  <2>4. \A k \in DOMAIN definition.columns : definition.columns[k].name \in Names(definition)
    BY DEF Names, NamesOf
  <2>5. \A k \in DOMAIN names : SoundDrafts(columns[k].drafts, definition, table)
    BY <2>4, LocalColumnSound
  <2> HIDE DEF names, columns
  <2>6. List(names)
    BY <2>2, <2>3, FunctionIsList
  <2> QED BY <2>5, <2>6, ColumnChangesSound
<1>4. SoundChanges(ColumnChanges(removed, drops), definition, table)
  <2>1. IsFiniteSet(gone)
    BY <1>2, FS_Difference DEF TableShape, FiniteMap
  <2>2. gone = DOMAIN seen.columns \ Names(definition)
    BY DEF Names
  <2> HIDE DEF gone
  <2>3. List(removed) /\ \A k \in DOMAIN removed : removed[k] \in gone
    BY <2>1, SetToSeqList, ListProperties
  <2>4. \A k \in DOMAIN removed : SoundDrafts(drops[k].drafts, definition, table)
    BY <2>2, <2>3, ColumnDropSound
  <2> HIDE DEF drops, removed
  <2> QED BY <2>3, <2>4, ColumnChangesSound
<1>5. SoundChanges(others, definition, table)
  <2> HIDE DEF columns
  <2> QED BY <1>2, ComparedList, IndexChangesSound, ConstraintChangesSound, MoreChanges
<1> HIDE DEF names, columns, removed, drops, others
<1>6. SoundChanges(all, definition, table)
  BY <1>2, <1>3, <1>4, <1>5, SweepSound, MoreChanges
<1> HIDE DEF all
<1> QED BY <1>1, <1>6, EmittedSound

-----------------------------------------------------------------------------
(* The renames, one column of the definition after the other.              *)

(* A record of five fields with one of them replaced, written out,         *)
LEMMA FieldReplaced ==
  ASSUME NEW e, NEW p, NEW q, NEW r, NEW k, NEW x, NEW table,
         table = [exists |-> e, columns |-> p, indexes |-> q, constraints |-> r, key |-> k]
  PROVE  /\ [table EXCEPT !.columns = x]
              = [exists |-> e, columns |-> x, indexes |-> q, constraints |-> r, key |-> k]
         /\ [table EXCEPT !.indexes = x]
              = [exists |-> e, columns |-> p, indexes |-> x, constraints |-> r, key |-> k]
         /\ [table EXCEPT !.constraints = x]
              = [exists |-> e, columns |-> p, indexes |-> q, constraints |-> x, key |-> k]
OBVIOUS

(* the same of a table,                                                    *)
LEMMA PartReplaced ==
  ASSUME NEW table, TableShape(table), NEW x
  PROVE  /\ [table EXCEPT !.columns = x]
              = [exists |-> table.exists, columns |-> x, indexes |-> table.indexes,
                 constraints |-> table.constraints, key |-> table.key]
         /\ [table EXCEPT !.indexes = x]
              = [exists |-> table.exists, columns |-> table.columns, indexes |-> x,
                 constraints |-> table.constraints, key |-> table.key]
         /\ [table EXCEPT !.constraints = x]
              = [exists |-> table.exists, columns |-> table.columns,
                 indexes |-> table.indexes, constraints |-> x, key |-> table.key]
BY FieldReplaced DEF TableShape

(* a table with its indexes and constraints replaced,                      *)
LEMMA TwoReplaced ==
  ASSUME NEW table, TableShape(table), NEW b, NEW c
  PROVE  [table EXCEPT !.indexes = b, !.constraints = c]
           = [exists |-> table.exists, columns |-> table.columns, indexes |-> b,
              constraints |-> c, key |-> table.key]
<1> DEFINE one == [table EXCEPT !.indexes = b]
           two == [one EXCEPT !.constraints = c]
<1>1. [table EXCEPT !.indexes = b, !.constraints = c] = two
  OBVIOUS
<1>2. one = [exists |-> table.exists, columns |-> table.columns, indexes |-> b,
             constraints |-> table.constraints, key |-> table.key]
  BY FieldReplaced DEF TableShape
<1> HIDE DEF one
<1>3. two = [exists |-> table.exists, columns |-> table.columns, indexes |-> b,
             constraints |-> c, key |-> table.key]
  BY <1>2, FieldReplaced
<1> QED BY <1>1, <1>3

(* and one with its columns replaced as well.                              *)
LEMMA TableReplaced ==
  ASSUME NEW table, TableShape(table), NEW a, NEW b, NEW c
  PROVE  [table EXCEPT !.columns = a, !.indexes = b, !.constraints = c]
           = [exists |-> table.exists, columns |-> a, indexes |-> b,
              constraints |-> c, key |-> table.key]
<1> DEFINE one == [table EXCEPT !.columns = a]
           two == [one EXCEPT !.indexes = b]
           three == [two EXCEPT !.constraints = c]
<1>1. [table EXCEPT !.columns = a, !.indexes = b, !.constraints = c] = three
  OBVIOUS
<1>2. one = [exists |-> table.exists, columns |-> a, indexes |-> table.indexes,
             constraints |-> table.constraints, key |-> table.key]
  BY FieldReplaced DEF TableShape
<1> HIDE DEF one
<1>3. two = [exists |-> table.exists, columns |-> a, indexes |-> b,
             constraints |-> table.constraints, key |-> table.key]
  BY <1>2, FieldReplaced
<1> HIDE DEF two
<1>4. three = [exists |-> table.exists, columns |-> a, indexes |-> b,
               constraints |-> c, key |-> table.key]
  BY <1>3, FieldReplaced
<1> QED BY <1>1, <1>4

(* Renaming an entry of a map leaves every other entry as it was.          *)
LEMMA RenamedMap ==
  ASSUME NEW f, FiniteMap(f), NEW from, NEW to
  PROVE  /\ FiniteMap(Renamed(f, from, to))
         /\ \A c \in DOMAIN Renamed(f, from, to) :
              c # to => c \in DOMAIN f /\ Renamed(f, from, to)[c] = f[c]
<1> DEFINE rest == Without(f, {from})
           moved == With(rest, to, f[from])
<1>1. DOMAIN rest = DOMAIN f \ {from} /\ \A c \in DOMAIN rest : rest[c] = f[c]
  BY DEF Without
<1>2. IsFiniteSet(DOMAIN rest)
  BY <1>1, FS_Difference DEF FiniteMap
<1> HIDE DEF rest
<1>3. /\ DOMAIN moved = DOMAIN rest \cup {to}
      /\ \A c \in DOMAIN moved : c # to => moved[c] = rest[c]
      /\ moved = [m \in DOMAIN moved |-> moved[m]]
  BY DEF With
<1>4. IsFiniteSet(DOMAIN moved)
  BY <1>2, <1>3, FS_AddElement
<1>5. Renamed(f, from, to) = IF from \in DOMAIN f THEN moved ELSE f
  BY DEF Renamed, rest
<1> HIDE DEF moved
<1>6. FiniteMap(moved)
  BY <1>3, <1>4 DEF FiniteMap
<1>7. \A c \in DOMAIN moved : c # to => c \in DOMAIN f /\ moved[c] = f[c]
  BY <1>1, <1>3
<1> QED BY <1>5, <1>6, <1>7

(* Renaming the derived names leaves a map,                                *)
LEMMA RenamedNames ==
  ASSUME NEW f, FiniteMap(f), NEW derived, NEW from, NEW to
  PROVE  FiniteMap(RenameNames(f, derived, from, to))
<1> DEFINE name(m) == RenameTo(m, derived, from, to)
           image == {name(m) : m \in DOMAIN f}
           g == [m \in DOMAIN f |-> name(m)]
           h == RenameNames(f, derived, from, to)
<1>1. g \in Surjection(DOMAIN f, image)
  BY DEF Surjection
<1>2. IsFiniteSet(DOMAIN f)
  BY DEF FiniteMap
<1>3. DOMAIN h = image /\ h = [n \in DOMAIN h |-> h[n]]
  BY DEF RenameNames
<1> HIDE DEF g, image, h
<1>4. IsFiniteSet(image)
  BY <1>1, <1>2, FS_Surjection
<1> QED BY <1>3, <1>4 DEF FiniteMap, h

(* and moving what indexes cover from a column to another does too.        *)
LEMMA MovedMap ==
  ASSUME NEW f, FiniteMap(f), NEW from, NEW to
  PROVE  FiniteMap(Moved(f, from, to)) /\ DOMAIN Moved(f, from, to) = DOMAIN f
<1> DEFINE value(n) == [f[n] EXCEPT !.on = {IF c = from THEN to ELSE c : c \in f[n].on}]
           g == [n \in DOMAIN f |-> value(n)]
<1>1. Moved(f, from, to) = g
  BY DEF Moved
<1> HIDE DEF value
<1>2. DOMAIN g = DOMAIN f /\ g = [n \in DOMAIN g |-> g[n]]
  OBVIOUS
<1> HIDE DEF g
<1> QED BY <1>1, <1>2 DEF FiniteMap

(* The table as the diff sees it after a rename still has, of the columns  *)
(* the definition does not name, only ones of the database, as they are    *)
(* there.                                                                  *)
LEMMA RenameColumnInSeen ==
  ASSUME NEW definition, NEW table, NEW seen, Seen(seen, definition, table),
         NEW from, NEW to \in Names(definition)
  PROVE  Seen(RenameColumnIn(seen, from, to), definition, table)
<1> DEFINE p == Renamed(seen.columns, from, to)
           q == Moved(seen.indexes, from, to)
           r == Moved(seen.constraints, from, to)
           new == [exists |-> seen.exists, columns |-> p, indexes |-> q,
                   constraints |-> r, key |-> seen.key]
<1>1. TableShape(seen)
  BY DEF Seen
<1>2. RenameColumnIn(seen, from, to)
        = [seen EXCEPT !.columns = p, !.indexes = q, !.constraints = r]
  BY DEF RenameColumnIn
<1>3. FiniteMap(q) /\ FiniteMap(r)
  BY <1>1, MovedMap DEF TableShape
<1>4. /\ FiniteMap(p)
      /\ \A c \in DOMAIN p : c # to => c \in DOMAIN seen.columns /\ p[c] = seen.columns[c]
  BY <1>1, RenamedMap DEF TableShape
<1> HIDE DEF p, q, r
<1>5. RenameColumnIn(seen, from, to) = new
  BY <1>1, <1>2, TableReplaced
<1>6. /\ new.columns = p /\ new.indexes = q /\ new.constraints = r
      /\ new.exists = seen.exists /\ new.key = seen.key
  OBVIOUS
<1>7. TableShape(new)
  BY <1>3, <1>4 DEF TableShape
<1>8. \A c \in DOMAIN new.columns \ Names(definition) :
        c \in DOMAIN table.columns /\ new.columns[c] = table.columns[c]
  BY <1>4, <1>6 DEF Seen
<1> HIDE DEF new
<1> QED BY <1>5, <1>7, <1>8 DEF Seen

(* The step of a rename is on the way, and so is the table after it.       *)
OnTheWay(acc, definition, table) ==
  /\ acc = [changes |-> acc.changes, errors |-> acc.errors, remote |-> acc.remote]
  /\ SoundChanges(acc.changes, definition, table)
  /\ Seen(acc.remote, definition, table)

(* The drafts of a rename are sound.                                       *)
LEMMA RenameDraftsSound ==
  ASSUME NEW definition, NEW table, NEW from, NEW to \in Names(definition),
         NEW constraints, List(constraints), NEW indexes, List(indexes)
  PROVE  SoundDrafts(RenameDrafts(from, to, constraints, indexes), definition, table)
<1> DEFINE column == AlterDraft("RENAME COLUMN", from, to, "safe")
           constraint(n) == AlterDraft("RENAME CONSTRAINT", n, RenamePart(n, from, to), "safe")
           index(n) == RenameIndexDraft(n, RenamePart(n, from, to))
           f == [k \in DOMAIN constraints |-> constraint(constraints[k])]
           g == [k \in DOMAIN indexes |-> index(indexes[k])]
<1>1. Sound(column, definition, table)
  BY Zenon DEF Sound, AlterDraft, Draft, Stmt
<1>2. \A n : Sound(constraint(n), definition, table)
  BY Zenon, AlterSound DEF Harmless
<1>3. \A n : Sound(index(n), definition, table)
  BY Zenon, IndexDraftsSound
<1>4. RenameDrafts(from, to, constraints, indexes) = <<column>> \o f \o g
  BY Zenon DEF RenameDrafts
<1> HIDE DEF column, constraint, index
<1>5. /\ Len(constraints) \in Nat /\ DOMAIN constraints = 1..Len(constraints)
      /\ Len(indexes) \in Nat /\ DOMAIN indexes = 1..Len(indexes)
  BY ListProperties
<1>6. /\ f = [k \in 1..Len(constraints) |-> f[k]]
      /\ g = [k \in 1..Len(indexes) |-> g[k]]
      /\ \A k \in DOMAIN f : f[k] = constraint(constraints[k])
      /\ \A k \in DOMAIN g : g[k] = index(indexes[k])
  BY <1>5
<1> HIDE DEF f, g
<1>7. List(f) /\ List(g)
  BY <1>5, <1>6, FunctionIsList
<1>8. SoundDrafts(f, definition, table)
  BY <1>2, <1>6, <1>7 DEF SoundDrafts, ToSet
<1>9. SoundDrafts(g, definition, table)
  BY <1>3, <1>6, <1>7 DEF SoundDrafts, ToSet
<1> QED BY <1>1, <1>4, <1>8, <1>9, OneDraft, MoreDrafts

(* A rename keeps the accumulator on the way,                              *)
LEMMA RenameKeeps ==
  ASSUME NEW definition, NEW table, NEW acc, OnTheWay(acc, definition, table),
         NEW seen, Seen(seen, definition, table),
         NEW derived, NEW from, NEW to \in Names(definition)
  PROVE  OnTheWay(Rename(acc, seen, derived, from, to), definition, table)
<1> DEFINE constraints == SetToSeq(derived \cap DOMAIN seen.constraints)
           indexes == SetToSeq(derived \cap DOMAIN seen.indexes)
           change == Change(<<to, "(rename)">>, RenameDrafts(from, to, constraints, indexes))
           b == RenameNames(seen.indexes, derived, from, to)
           c == RenameNames(seen.constraints, derived, from, to)
           remote == [exists |-> seen.exists, columns |-> seen.columns, indexes |-> b,
                      constraints |-> c, key |-> seen.key]
           changes == acc.changes
           errors == acc.errors
           new == [changes |-> Append(changes, change), errors |-> errors, remote |-> remote]
<1>1. /\ TableShape(seen)
      /\ IsFiniteSet(DOMAIN seen.indexes) /\ IsFiniteSet(DOMAIN seen.constraints)
  BY DEF Seen, TableShape, FiniteMap
<1>2. List(constraints) /\ List(indexes)
  <2>1. IsFiniteSet(derived \cap DOMAIN seen.constraints)
    BY <1>1, FS_Subset
  <2>2. IsFiniteSet(derived \cap DOMAIN seen.indexes)
    BY <1>1, FS_Subset
  <2> QED BY <2>1, <2>2, SetToSeqList
<1>3. SoundDrafts(change.drafts, definition, table)
  <2> HIDE DEF constraints, indexes
  <2> QED BY <1>2, RenameDraftsSound DEF Change
<1>4. [seen EXCEPT !.indexes = b, !.constraints = c] = remote
  BY <1>1, TwoReplaced
<1>5. FiniteMap(b) /\ FiniteMap(c)
  BY <1>1, RenamedNames DEF TableShape
<1>6. Rename(acc, seen, derived, from, to)
        = [acc EXCEPT !.changes = Append(@, change),
                      !.remote = [seen EXCEPT !.indexes = b, !.constraints = c]]
  BY Zenon DEF Rename
<1> HIDE DEF change, b, c
<1>7. Seen(remote, definition, table)
  <2>1. /\ remote.columns = seen.columns /\ remote.indexes = b
        /\ remote.constraints = c /\ remote.exists = seen.exists /\ remote.key = seen.key
    OBVIOUS
  <2>2. TableShape(remote)
    BY <1>1, <1>5 DEF TableShape
  <2> HIDE DEF remote
  <2> QED BY <2>1, <2>2 DEF Seen
<1>8. Rename(acc, seen, derived, from, to) = new
  <2> DEFINE r == acc.remote
  <2>1. acc = [changes |-> changes, errors |-> errors, remote |-> r]
    BY DEF OnTheWay
  <2> HIDE DEF changes, errors, r, remote
  <2> QED BY <1>4, <1>6, <2>1
<1>9. SoundChanges(Append(changes, change), definition, table)
  <2>1. SoundChanges(changes, definition, table)
    BY DEF OnTheWay
  <2>2. SoundChanges(changes \o <<change>>, definition, table)
    BY <1>3, <2>1, OneChange, MoreChanges
  <2>3. Append(changes, change) = changes \o <<change>>
    BY <2>1 DEF SoundChanges, List
  <2> QED BY <2>2, <2>3
<1> HIDE DEF remote, changes, errors
<1> QED BY <1>7, <1>8, <1>9 DEF OnTheWay

(* and so does a round of the loop over the columns.                       *)
LEMMA RenameColumnKeeps ==
  ASSUME NEW definition, NEW table, NEW acc, OnTheWay(acc, definition, table),
         NEW names, NEW column, column.name \in Names(definition)
  PROVE  OnTheWay(RenameColumn(definition, names, acc, column), definition, table)
<1> DEFINE refused == [acc EXCEPT !.errors = @ \cup {"RENAME_CONFLICT"}]
           from == column.renamedFrom[1]
           to == column.name
           seen == RenameColumnIn(acc.remote, from, to)
           renamed == Rename(acc, seen, DerivedRenames(definition, seen, from, to), from, to)
<1>1. OnTheWay(refused, definition, table)
  <2> DEFINE changes == acc.changes
             errors == acc.errors
             remote == acc.remote
             more == errors \cup {"RENAME_CONFLICT"}
  <2>1. acc = [changes |-> changes, errors |-> errors, remote |-> remote]
    BY DEF OnTheWay
  <2>2. refused = [acc EXCEPT !.errors = more]
    OBVIOUS
  <2> HIDE DEF changes, errors, remote, more, refused
  <2>3. refused = [changes |-> changes, errors |-> more, remote |-> remote]
    BY <2>1, <2>2
  <2>4. /\ refused.changes = changes /\ refused.errors = more
        /\ refused.remote = remote
    BY <2>3
  <2> QED BY <2>3, <2>4 DEF OnTheWay, changes, remote
<1>2. OnTheWay(renamed, definition, table)
  <2>1. Seen(seen, definition, table)
    BY RenameColumnInSeen DEF OnTheWay
  <2> HIDE DEF seen
  <2> QED BY <2>1, RenameKeeps
<1>3. RenameColumn(definition, names, acc, column) \in {acc, refused, renamed}
  BY Zenon DEF RenameColumn, RenameIn
<1> HIDE DEF refused, renamed
<1> QED BY <1>1, <1>2, <1>3

(* The fold over the columns, unfolded.                                    *)
IteratedTo(definition, names, base, seq, m, f) ==
  f = [s \in SUBSET (1..m) |->
         IF s = {} THEN base
         ELSE RenameColumn(definition, names, f[s \ {Max(s)}], seq[Max(s)])]

(* The loop goes one column further.                                       *)
LEMMA IteratedFurther ==
  ASSUME NEW definition, NEW names, NEW base, NEW seq, NEW m \in Nat, NEW g,
         IteratedTo(definition, names, base, seq, m, g)
  PROVE  \E h : IteratedTo(definition, names, base, seq, m + 1, h)
<1> DEFINE next(acc, k) == RenameColumn(definition, names, acc, seq[k])
           h == [s \in SUBSET (1..(m + 1)) |->
                   IF m + 1 \in s THEN next(g[s \ {m + 1}], m + 1) ELSE g[s]]
<1>1. ASSUME NEW s \in SUBSET (1..(m + 1))
      PROVE  h[s] = IF s = {} THEN base ELSE next(h[s \ {Max(s)}], Max(s))
  <2>1. CASE m + 1 \in s
    <3>1. Max(s) = m + 1
      <4>1. m + 1 \in Nat
        OBVIOUS
      <4> QED BY <2>1, <4>1, MaxIsLast
    <3>2. s \ {m + 1} \in SUBSET (1..m) /\ m + 1 \notin s \ {m + 1}
      <4> HIDE DEF h
      <4> QED OBVIOUS
    <3>3. h[s \ {m + 1}] = g[s \ {m + 1}]
      BY <3>2
    <3> QED BY <2>1, <3>1, <3>3
  <2>2. CASE m + 1 \notin s
    <3>1. s \in SUBSET (1..m) /\ h[s] = g[s]
      BY <2>2
    <3>2. h[s \ {Max(s)}] = g[s \ {Max(s)}]
      BY <2>2
    <3>3. g[s] = IF s = {} THEN base ELSE next(g[s \ {Max(s)}], Max(s))
      BY <3>1 DEF IteratedTo
    <3> QED BY <3>1, <3>2, <3>3
  <2> QED BY <2>1, <2>2
<1>2. h = [s \in SUBSET (1..(m + 1)) |-> h[s]]
  OBVIOUS
<1> HIDE DEF h
<1>3. IteratedTo(definition, names, base, seq, m + 1, h)
  BY <1>1, <1>2 DEF IteratedTo
<1> QED BY <1>3

(* The loop goes over any number of columns.                               *)
LEMMA IterationExists ==
  ASSUME NEW definition, NEW names, NEW base, NEW seq, NEW n \in Nat
  PROVE  \E f : IteratedTo(definition, names, base, seq, n, f)
<1> DEFINE S == {m \in Nat : \E f : IteratedTo(definition, names, base, seq, m, f)}
<1>1. 0 \in S
  <2>1. IteratedTo(definition, names, base, seq, 0, [s \in SUBSET (1..0) |-> base])
    BY DEF IteratedTo
  <2> QED BY <2>1
<1>2. \A m \in Nat : m \in S => m + 1 \in S
  BY IteratedFurther
<1>3. Nat \subseteq S
  <2> HIDE DEF S
  <2> QED BY <1>1, <1>2, NatSetInduction
<1> QED BY <1>3

(* Whatever the columns are, the table after their renames is on the way.  *)
LEMMA IterationOnTheWay ==
  ASSUME NEW definition, NEW table, NEW names,
         NEW base, OnTheWay(base, definition, table),
         NEW seq, List(seq), \A c \in ToSet(seq) : c.name \in Names(definition),
         NEW f, IteratedTo(definition, names, base, seq, Len(seq), f)
  PROVE  OnTheWay(f[1..Len(seq)], definition, table)
<1> DEFINE n == Len(seq)
           S == {k \in Nat : k <= n => OnTheWay(f[1..k], definition, table)}
<1>1. n \in Nat /\ \A k \in 1..n : seq[k] \in ToSet(seq)
  BY ListProperties
<1>2. 0 \in S
  <2>1. 1..0 = {} /\ 1..0 \in SUBSET (1..n)
    OBVIOUS
  <2>2. f[1..0] = base
    BY <2>1 DEF IteratedTo
  <2> QED BY <2>2
<1>3. ASSUME NEW k \in Nat, k \in S PROVE k + 1 \in S
  <2> SUFFICES ASSUME k + 1 <= n PROVE OnTheWay(f[1..(k + 1)], definition, table)
    OBVIOUS
  <2>1. OnTheWay(f[1..k], definition, table)
    BY <1>1, <1>3
  <2>2. 1..(k + 1) \in SUBSET (1..n) /\ 1..(k + 1) # {}
    <3>1. k + 1 \in 1..(k + 1)
      OBVIOUS
    <3>2. ASSUME NEW j \in 1..(k + 1) PROVE j \in 1..n
      BY <1>1
    <3> QED BY <3>1, <3>2
  <2>3. Max(1..(k + 1)) = k + 1
    <3>1. k + 1 \in Nat /\ 1..(k + 1) \in SUBSET (1..(k + 1)) /\ k + 1 \in 1..(k + 1)
      OBVIOUS
    <3> QED BY <3>1, MaxIsLast
  <2>4. (1..(k + 1)) \ {k + 1} = 1..k
    OBVIOUS
  <2>5. f[1..(k + 1)] = RenameColumn(definition, names, f[1..k], seq[k + 1])
    BY <2>2, <2>3, <2>4 DEF IteratedTo
  <2>6. seq[k + 1].name \in Names(definition)
    BY <1>1
  <2> QED BY <2>1, <2>5, <2>6, RenameColumnKeeps
<1>4. Nat \subseteq S
  <2> HIDE DEF S
  <2> QED BY <1>2, <1>3, NatSetInduction
<1> QED BY <1>1, <1>4

(* So the whole loop does, by induction over the columns.                  *)
LEMMA RenameColumnsOnTheWay ==
  ASSUME NEW definition, IsDefinition(definition), NEW table, TableShape(table)
  PROVE  OnTheWay(RenameColumns(definition, table), definition, table)
<1> DEFINE names == DOMAIN table.columns
           seq == definition.columns
           base == [changes |-> << >>, errors |-> {}, remote |-> table]
           n == Len(seq)
           f == CHOOSE g : IteratedTo(definition, names, base, seq, n, g)
<1>1. List(seq)
  BY DEF IsDefinition, List
<1>2. n \in Nat /\ DOMAIN seq = 1..n
  BY <1>1, ListProperties
<1>3. IteratedTo(definition, names, base, seq, n, f)
  <2> HIDE DEF base
  <2> QED BY <1>2, IterationExists
<1>4. RenameColumns(definition, table) = f[1..n]
  BY <1>2 DEF RenameColumns, FoldLeft, MapThenFoldSet, IteratedTo
<1>5. OnTheWay(base, definition, table)
  BY NoChange DEF OnTheWay, Seen
<1>6. \A c \in ToSet(seq) : c.name \in Names(definition)
  BY <1>1, ListProperties DEF Names, NamesOf
<1> HIDE DEF base, f
<1>7. OnTheWay(f[1..n], definition, table)
  BY <1>1, <1>3, <1>5, <1>6, IterationOnTheWay
<1> QED BY <1>4, <1>7

-----------------------------------------------------------------------------
(* The whole diff, and the plan made of it.                                *)

(* The changes that create the table are sound,                            *)
LEMMA CreateTableSound ==
  ASSUME NEW definition, IsDefinition(definition), NEW table
  PROVE  SoundChanges(CreateTableChanges(definition), definition, table)
<1> DEFINE create == Draft("CREATE", "TABLE", T, << >>, "safe", Stmt("CREATE TABLE", T, definition))
           columns == definition.columns
           indexes == definition.indexes
           comment(k) == [AlterDraft("COMMENT", columns[k].name, TRUE, "safe") EXCEPT !.refs = <<T>>]
           change(k) == Change(<<columns[k].name>>, <<comment(k)>>)
           part(k) == When(columns[k].deprecated, <<change(k)>>)
           f == [k \in DOMAIN columns |-> part(k)]
           g == [k \in DOMAIN indexes |->
                   Change(indexes[k].name, <<CreateIndexDraft(indexes[k])>>)]
<1>1. Sound(create, definition, table)
  BY Zenon DEF Sound, Draft, Stmt
<1>2. List(columns) /\ List(indexes)
  BY DEF IsDefinition, List
<1>3. /\ Len(columns) \in Nat /\ DOMAIN columns = 1..Len(columns)
      /\ Len(indexes) \in Nat /\ DOMAIN indexes = 1..Len(indexes)
      /\ \A k \in DOMAIN columns : columns[k].name \in Names(definition)
  BY <1>2, ListProperties DEF Names, NamesOf
<1>4. ASSUME NEW k \in DOMAIN columns PROVE Sound(comment(k), definition, table)
  <2> DEFINE plain == AlterDraft("COMMENT", columns[k].name, TRUE, "safe")
  <2>1. plain.stmt.do = "COMMENT" /\ plain.stmt.name = columns[k].name
    BY Zenon DEF AlterDraft, Draft, Stmt
  <2>2. "stmt" \in DOMAIN plain
    BY DEF AlterDraft, Draft
  <2> HIDE DEF plain
  <2>3. [plain EXCEPT !.refs = <<T>>].stmt = plain.stmt
    BY <2>2
  <2> QED BY <1>3, <2>1, <2>3, Zenon DEF Sound, plain
<1>5. CreateTableChanges(definition) = <<Change(T, <<create>>)>> \o FlattenSeq(f) \o g
  BY Zenon DEF CreateTableChanges
<1> HIDE DEF create, comment, columns, indexes
<1>6. \A k \in DOMAIN columns : SoundChanges(part(k), definition, table)
  BY <1>4, OneDraft, OneChange, NoChange DEF When, Change
<1>7. /\ f = [k \in 1..Len(columns) |-> f[k]] /\ DOMAIN f = DOMAIN columns
      /\ \A k \in DOMAIN f : f[k] = part(k)
  BY <1>3
<1>8. /\ g = [k \in 1..Len(indexes) |-> g[k]]
      /\ \A k \in 1..Len(indexes) : g[k].drafts = <<CreateIndexDraft(indexes[k])>>
  BY <1>3 DEF Change
<1> HIDE DEF f, g, part
<1>9. SoundChanges(FlattenSeq(f), definition, table)
  <2>1. List(f)
    BY <1>3, <1>7, FunctionIsList
  <2> QED BY <1>6, <1>7, <2>1, FlatChanges
<1>10. SoundChanges(g, definition, table)
  <2>1. \A k \in 1..Len(indexes) : SoundDrafts(g[k].drafts, definition, table)
    BY <1>8, IndexDraftsSound, OneDraft
  <2> QED BY <1>3, <1>8, <2>1, ChangePerEntry
<1>11. SoundChanges(<<Change(T, <<create>>)>>, definition, table)
  BY <1>1, OneDraft, OneChange DEF Change
<1> QED BY <1>5, <1>9, <1>10, <1>11, MoreChanges

(* and so is the one that drops it.                                        *)
LEMMA DropTableSound ==
  ASSUME NEW definition, NEW table
  PROVE  SoundChanges(DropTableChanges, definition, table)
<1> DEFINE drop == Draft("DROP", "TABLE", T, << >>, "destructive", Stmt("DROP TABLE", T, << >>))
<1>1. Sound(drop, definition, table)
  BY Zenon DEF Sound, Draft, Stmt
<1>2. DropTableChanges = <<Change(T, <<drop>>)>>
  BY Zenon DEF DropTableChanges
<1> HIDE DEF drop
<1> QED BY <1>1, <1>2, OneDraft, OneChange DEF Change

(* Every change the diff of a table emits is sound, for any definition and *)
(* any table: a column's data is dropped only under a destructive rating,  *)
(* or a lossy one when the database has the column marked and the          *)
(* definition has it no more.                                              *)
THEOREM DiffSound ==
  ASSUME NEW definition, IsDefinition(definition), NEW table, TableShape(table)
  PROVE  SoundChanges(DiffTableOperations(definition, table).changes, definition, table)
<1> DEFINE renamed == RenameColumns(definition, table)
<1>1. OnTheWay(renamed, definition, table)
  BY RenameColumnsOnTheWay
<1>2. ModifyTable(definition, table) = AfterRenames(definition, renamed.remote, renamed)
  BY DEF ModifyTable
<1> HIDE DEF renamed
<1>3. SoundChanges(ModifyTable(definition, table).changes, definition, table)
  BY <1>1, <1>2, AfterRenamesSound DEF OnTheWay
<1>4. \/ DiffTableOperations(definition, table).changes = << >>
      \/ DiffTableOperations(definition, table).changes = DropTableChanges
      \/ DiffTableOperations(definition, table).changes = CreateTableChanges(definition)
      \/ DiffTableOperations(definition, table).changes = ModifyTable(definition, table).changes
  BY DEF DiffTableOperations, When
<1> QED BY <1>3, <1>4, NoChange, DropTableSound, CreateTableSound


(* Giving operations their identifiers changes no draft.                   *)
LEMMA StepsSound ==
  ASSUME NEW definition, NEW table, NEW changes, SoundChanges(changes, definition, table)
  PROVE  /\ List(Steps(changes))
         /\ \A x \in ToSet(Steps(changes)) : Sound(x.draft, definition, table)
<1> DEFINE steps(k) == [s \in DOMAIN changes[k].drafts |->
             [change |-> changes[k].key, step |-> s, draft |-> changes[k].drafts[s]]]
           parts == [k \in DOMAIN changes |-> steps(k)]
<1>1. /\ Len(changes) \in Nat /\ DOMAIN changes = 1..Len(changes)
      /\ \A k \in DOMAIN changes : changes[k] \in ToSet(changes)
  BY ListProperties DEF SoundChanges
<1>2. ASSUME NEW k \in DOMAIN changes
      PROVE  List(steps(k)) /\ \A x \in ToSet(steps(k)) : Sound(x.draft, definition, table)
  <2> DEFINE drafts == changes[k].drafts
             step(s) == [change |-> changes[k].key, step |-> s, draft |-> drafts[s]]
  <2>1. List(drafts) /\ \A d \in ToSet(drafts) : Sound(d, definition, table)
    BY <1>1 DEF SoundChanges, SoundDrafts
  <2> HIDE DEF drafts
  <2>2. /\ Len(drafts) \in Nat /\ DOMAIN drafts = 1..Len(drafts)
        /\ \A s \in DOMAIN drafts : drafts[s] \in ToSet(drafts)
    BY <2>1, ListProperties
  <2> DEFINE f == [s \in DOMAIN drafts |-> step(s)]
  <2>3. f = [s \in 1..Len(drafts) |-> f[s]]
    BY <2>2
  <2>4. \A s \in DOMAIN drafts : f[s].draft = drafts[s]
    OBVIOUS
  <2>5. DOMAIN f = DOMAIN drafts
    OBVIOUS
  <2>6. steps(k) = f
    BY DEF drafts
  <2> HIDE DEF f
  <2>7. List(f) /\ \A x \in ToSet(f) : \E s \in DOMAIN drafts : x = f[s]
    BY <2>2, <2>3, <2>5, FunctionIsList DEF ToSet
  <2>8. \A x \in ToSet(f) : Sound(x.draft, definition, table)
    BY <2>1, <2>2, <2>4, <2>7
  <2> QED BY <2>6, <2>7, <2>8
<1>3. /\ DOMAIN parts = DOMAIN changes
      /\ \A k \in DOMAIN changes : parts[k] = steps(k)
      /\ parts = [k \in 1..Len(changes) |-> parts[k]]
  BY <1>1
<1>4. Steps(changes) = FlattenSeq(parts)
  BY DEF Steps
<1> HIDE DEF parts, steps
<1>5. List(parts)
  BY <1>1, <1>3, FunctionIsList
<1>6. /\ List(FlattenSeq(parts))
      /\ ToSet(FlattenSeq(parts)) = UNION {ToSet(parts[k]) : k \in DOMAIN parts}
  <2>1. \A k \in DOMAIN parts : List(parts[k])
    BY <1>2, <1>3
  <2> QED BY <1>5, <2>1, FlattenList
<1> QED BY <1>2, <1>3, <1>4, <1>6

(* The sorted plan is made of sound drafts.                                *)
LEMMA PlannedSound ==
  ASSUME NEW definition, NEW table, NEW changes, SoundChanges(changes, definition, table)
  PROVE  /\ List(PlannedDrafts(changes))
         /\ \A d \in ToSet(PlannedDrafts(changes)) : Sound(d, definition, table)
<1> DEFINE steps == Steps(changes)
           operation(k) ==
             [id |-> k, change |-> steps[k].change, step |-> steps[k].step,
              type |-> steps[k].draft.type, kind |-> steps[k].draft.kind,
              name |-> steps[k].draft.name, refs |-> steps[k].draft.refs]
           operations == {operation(k) : k \in DOMAIN steps}
           order == PlanOrder(operations)
           drafts == [k \in DOMAIN order |-> steps[order[k]].draft]
<1>1. /\ List(steps) /\ \A x \in ToSet(steps) : Sound(x.draft, definition, table)
  BY StepsSound
<1> HIDE DEF steps
<1>2. /\ Len(steps) \in Nat /\ DOMAIN steps = 1..Len(steps)
      /\ \A k \in DOMAIN steps : steps[k] \in ToSet(steps)
  BY <1>1, ListProperties
<1>3. IsFiniteSet(operations)
  <2> DEFINE f == [k \in DOMAIN steps |-> operation(k)]
  <2>1. f \in Surjection(DOMAIN steps, operations)
    BY DEF Surjection
  <2>2. IsFiniteSet(DOMAIN steps)
    BY <1>2, FS_Interval
  <2> HIDE DEF f, operations
  <2> QED BY <2>1, <2>2, FS_Surjection
<1>4. /\ \A o \in operations : o.id \in Nat
      /\ IdsOf(operations) \subseteq DOMAIN steps
  BY <1>2 DEF IdsOf
<1> HIDE DEF operations
<1>5. order \in Seq(DOMAIN steps)
  BY <1>3, <1>4, PlanOrderTyped
<1> HIDE DEF order
<1>6. /\ Len(order) \in Nat /\ DOMAIN order = 1..Len(order)
      /\ \A k \in DOMAIN order : order[k] \in DOMAIN steps
  BY <1>5
<1>7. /\ drafts = [k \in 1..Len(order) |-> drafts[k]] /\ DOMAIN drafts = DOMAIN order
      /\ \A k \in DOMAIN order : drafts[k] = steps[order[k]].draft
  BY <1>6
<1>8. PlannedDrafts(changes) = drafts
  BY DEF PlannedDrafts, Operations, drafts, order, operations, steps
<1> HIDE DEF drafts
<1>9. List(drafts)
  BY <1>6, <1>7, FunctionIsList
<1>10. \A d \in ToSet(drafts) : \E k \in DOMAIN order : d = steps[order[k]].draft
  BY <1>7 DEF ToSet
<1>11. \A d \in ToSet(drafts) : Sound(d, definition, table)
  BY <1>1, <1>2, <1>6, <1>10
<1> QED BY <1>8, <1>9, <1>11
-----------------------------------------------------------------------------
(* What a statement does to the table of the database.                     *)

(* A column of the database,                                               *)
ColumnRecord(r) ==
  r = [type |-> r.type, default |-> r.default, notNull |-> r.notNull,
       generated |-> r.generated, deprecated |-> r.deprecated, origin |-> r.origin]

(* and a table with such columns; without a table there are none.          *)
TableOK(table) ==
  /\ TableShape(table)
  /\ table.exists \in BOOLEAN
  /\ ~ table.exists => DOMAIN table.columns = {}
  /\ \A c \in DOMAIN table.columns : ColumnRecord(table.columns[c])

(* The data of a column is somewhere after a statement, or its draft said  *)
(* that it would not be.                                                   *)
Keeps(d, e, risk) ==
  \A c \in DOMAIN d.columns :
    \/ d.columns[c].origin \in Origins(e)
    \/ risk = "destructive"
    \/ d.columns[c].deprecated /\ risk = "lossy"

(* A column that is marked, and not in the definition, still is.           *)
StillMarked(d, e, definition) ==
  \A c : Marked(c, definition, d) => Marked(c, definition, e)

(* What a statement does when its draft is rated as the risk.              *)
Follows(d, e, risk, definition) ==
  TableOK(e) /\ Keeps(d, e, risk) /\ StillMarked(d, e, definition)

(* A statement that leaves the columns alone loses nothing.                *)
LEMMA SameColumnsFollow ==
  ASSUME NEW d, TableOK(d), NEW e, TableShape(e), e.exists = d.exists,
         e.columns = d.columns, NEW risk, NEW definition
  PROVE  Follows(d, e, risk, definition)
BY DEF Follows, TableOK, Keeps, StillMarked, Marked, Origins

(* Neither does one that does nothing.                                     *)
LEMMA NothingDone ==
  ASSUME NEW d, TableOK(d), NEW risk, NEW definition
  PROVE  Follows(d, d, risk, definition)
BY SameColumnsFollow DEF TableOK

(* Other columns, in the same table.                                       *)
LEMMA ColumnsFollow ==
  ASSUME NEW d, TableOK(d), NEW e, TableShape(e), e.exists = d.exists,
         ~ d.exists => DOMAIN e.columns = {},
         \A c \in DOMAIN e.columns : ColumnRecord(e.columns[c]),
         NEW risk, Keeps(d, e, risk),
         NEW definition,
         \A c \in DOMAIN e.columns \ Names(definition) :
           c \in DOMAIN d.columns /\ e.columns[c].deprecated = d.columns[c].deprecated
  PROVE  Follows(d, e, risk, definition)
<1>1. TableOK(e)
  BY DEF TableOK
<1>2. StillMarked(d, e, definition)
  BY Zenon DEF StillMarked, Marked
<1> QED BY <1>1, <1>2 DEF Follows

(* Where a map with one entry set is defined,                              *)
LEMMA WithMap ==
  ASSUME NEW f, FiniteMap(f), NEW key, NEW value
  PROVE  /\ FiniteMap(With(f, key, value))
         /\ DOMAIN With(f, key, value) = DOMAIN f \cup {key}
<1>1. DOMAIN With(f, key, value) = DOMAIN f \cup {key}
  BY DEF With
<1>2. IsFiniteSet(DOMAIN f \cup {key})
  BY FS_AddElement DEF FiniteMap
<1> QED BY <1>1, <1>2 DEF FiniteMap, With

(* and what it holds.                                                      *)
LEMMA WithValues ==
  ASSUME NEW f, NEW key, NEW value
  PROVE  /\ With(f, key, value)[key] = value
         /\ \A q \in DOMAIN f : q # key => With(f, key, value)[q] = f[q]
BY DEF With

(* Where a map without some entries is defined,                            *)
LEMMA WithoutMap ==
  ASSUME NEW f, FiniteMap(f), NEW gone
  PROVE  /\ FiniteMap(Without(f, gone))
         /\ DOMAIN Without(f, gone) = DOMAIN f \ gone
<1>1. DOMAIN Without(f, gone) = DOMAIN f \ gone
  BY DEF Without
<1>2. IsFiniteSet(DOMAIN f \ gone)
  BY FS_Difference DEF FiniteMap
<1> QED BY <1>1, <1>2 DEF FiniteMap, Without

(* and what it holds.                                                      *)
LEMMA WithoutValues ==
  ASSUME NEW f, NEW gone
  PROVE  \A q \in DOMAIN f \ gone : Without(f, gone)[q] = f[q]
BY DEF Without

(* An EXCEPT on a map that has the key is setting its entry.               *)
LEMMA ExceptIsWith ==
  ASSUME NEW f, FiniteMap(f), NEW key \in DOMAIN f, NEW value
  PROVE  [f EXCEPT ![key] = value] = With(f, key, value)
<1>1. f = [q \in DOMAIN f |-> f[q]] /\ DOMAIN f \cup {key} = DOMAIN f
  BY DEF FiniteMap
<1>2. [f EXCEPT ![key] = value] = [q \in DOMAIN f |-> IF q = key THEN value ELSE f[q]]
  BY <1>1
<1> QED BY <1>1, <1>2 DEF With

(* One column set, that was not there or holds the same data.              *)
LEMMA ColumnSet ==
  ASSUME NEW d, TableOK(d), d.exists, NEW name, NEW r, ColumnRecord(r),
         NEW risk, NEW definition,
         name \in DOMAIN d.columns =>
           /\ r.origin = d.columns[name].origin
           /\ name \in Names(definition) \/ r.deprecated = d.columns[name].deprecated,
         name \notin DOMAIN d.columns => name \in Names(definition)
  PROVE  Follows(d, [d EXCEPT !.columns = With(d.columns, name, r)], risk, definition)
<1> DEFINE p == With(d.columns, name, r)
           e == [exists |-> d.exists, columns |-> p, indexes |-> d.indexes,
                 constraints |-> d.constraints, key |-> d.key]
<1>1. TableShape(d)
  BY DEF TableOK
<1>2. [d EXCEPT !.columns = p] = e
  BY <1>1, PartReplaced
<1>3. FiniteMap(p) /\ DOMAIN p = DOMAIN d.columns \cup {name}
  BY <1>1, WithMap DEF TableShape
<1>4. p[name] = r /\ \A c \in DOMAIN d.columns : c # name => p[c] = d.columns[c]
  BY WithValues
<1> HIDE DEF p
<1>5. /\ e.exists = d.exists /\ e.columns = p /\ e.indexes = d.indexes
      /\ e.constraints = d.constraints /\ e.key = d.key
  OBVIOUS
<1>6. TableShape(e)
  BY <1>1, <1>3 DEF TableShape
<1> HIDE DEF e
<1>7. \A c \in DOMAIN e.columns : ColumnRecord(e.columns[c])
  <2> SUFFICES ASSUME NEW c \in DOMAIN p PROVE ColumnRecord(p[c])
    BY <1>5
  <2>1. CASE c = name
    BY <1>4, <2>1
  <2>2. CASE c # name
    BY <1>3, <1>4, <2>2 DEF TableOK
  <2> QED BY <2>1, <2>2
<1>8. Keeps(d, e, risk)
  <2> SUFFICES ASSUME NEW c \in DOMAIN d.columns PROVE d.columns[c].origin \in Origins(e)
    BY Zenon DEF Keeps
  <2>1. c \in DOMAIN p /\ p[c].origin = d.columns[c].origin
    BY <1>3, <1>4
  <2> QED BY <1>5, <2>1 DEF Origins
<1>9. \A c \in DOMAIN e.columns \ Names(definition) :
        c \in DOMAIN d.columns /\ e.columns[c].deprecated = d.columns[c].deprecated
  BY <1>3, <1>4, <1>5
<1>10. Follows(d, e, risk, definition)
  BY <1>5, <1>6, <1>7, <1>8, <1>9, ColumnsFollow
<1> QED BY <1>2, <1>10 DEF p

(* One attribute of a column, its marker only if the definition has it.    *)
LEMMA AttributeSet ==
  ASSUME NEW d, TableOK(d), NEW name \in DOMAIN d.columns, NEW x, NEW risk, NEW definition
  PROVE  /\ Follows(d, [d EXCEPT !.columns[name].default = x], risk, definition)
         /\ Follows(d, [d EXCEPT !.columns[name].notNull = x], risk, definition)
         /\ Follows(d, [d EXCEPT !.columns[name].generated = x], risk, definition)
         /\ name \in Names(definition) =>
              Follows(d, [d EXCEPT !.columns[name].deprecated = x], risk, definition)
<1> DEFINE m == d.columns
           r == m[name]
           a1 == r.type
           a2 == r.default
           a3 == r.notNull
           a4 == r.generated
           a5 == r.deprecated
           a6 == r.origin
           r1 == [r EXCEPT !.default = x]
           r2 == [r EXCEPT !.notNull = x]
           r3 == [r EXCEPT !.generated = x]
           r4 == [r EXCEPT !.deprecated = x]
<1>1. /\ FiniteMap(m) /\ name \in DOMAIN m /\ d.exists
      /\ r = [type |-> a1, default |-> a2, notNull |-> a3, generated |-> a4,
              deprecated |-> a5, origin |-> a6]
  BY DEF TableOK, TableShape, ColumnRecord
<1>2. /\ [d EXCEPT !.columns[name].default = x] = [d EXCEPT !.columns = [m EXCEPT ![name] = r1]]
      /\ [d EXCEPT !.columns[name].notNull = x] = [d EXCEPT !.columns = [m EXCEPT ![name] = r2]]
      /\ [d EXCEPT !.columns[name].generated = x] = [d EXCEPT !.columns = [m EXCEPT ![name] = r3]]
      /\ [d EXCEPT !.columns[name].deprecated = x] = [d EXCEPT !.columns = [m EXCEPT ![name] = r4]]
  OBVIOUS
<1>3. /\ ColumnRecord(r1) /\ r1.origin = a6 /\ r1.deprecated = a5
      /\ ColumnRecord(r2) /\ r2.origin = a6 /\ r2.deprecated = a5
      /\ ColumnRecord(r3) /\ r3.origin = a6 /\ r3.deprecated = a5
      /\ ColumnRecord(r4) /\ r4.origin = a6
  <2> HIDE DEF r, a1, a2, a3, a4, a5, a6
  <2>1. /\ r1 = [type |-> a1, default |-> x, notNull |-> a3, generated |-> a4,
                 deprecated |-> a5, origin |-> a6]
        /\ r2 = [type |-> a1, default |-> a2, notNull |-> x, generated |-> a4,
                 deprecated |-> a5, origin |-> a6]
        /\ r3 = [type |-> a1, default |-> a2, notNull |-> a3, generated |-> x,
                 deprecated |-> a5, origin |-> a6]
        /\ r4 = [type |-> a1, default |-> a2, notNull |-> a3, generated |-> a4,
                 deprecated |-> x, origin |-> a6]
    BY <1>1
  <2> QED BY <2>1 DEF ColumnRecord
<1> HIDE DEF r1, r2, r3, r4
<1>4. /\ [m EXCEPT ![name] = r1] = With(m, name, r1)
      /\ [m EXCEPT ![name] = r2] = With(m, name, r2)
      /\ [m EXCEPT ![name] = r3] = With(m, name, r3)
      /\ [m EXCEPT ![name] = r4] = With(m, name, r4)
  <2> HIDE DEF m
  <2> QED BY <1>1, ExceptIsWith
<1>5. /\ Follows(d, [d EXCEPT !.columns = With(m, name, r1)], risk, definition)
      /\ Follows(d, [d EXCEPT !.columns = With(m, name, r2)], risk, definition)
      /\ Follows(d, [d EXCEPT !.columns = With(m, name, r3)], risk, definition)
  BY <1>1, <1>3, ColumnSet
<1>6. name \in Names(definition) =>
        Follows(d, [d EXCEPT !.columns = With(m, name, r4)], risk, definition)
  BY <1>1, <1>3, ColumnSet
<1> QED BY <1>2, <1>4, <1>5, <1>6

(* Other indexes or constraints, over the same columns.                    *)
LEMMA PartsFollow ==
  ASSUME NEW d, TableOK(d), NEW x, FiniteMap(x), NEW risk, NEW definition
  PROVE  /\ Follows(d, [d EXCEPT !.indexes = x], risk, definition)
         /\ Follows(d, [d EXCEPT !.constraints = x], risk, definition)
<1> DEFINE e == [exists |-> d.exists, columns |-> d.columns, indexes |-> x,
                 constraints |-> d.constraints, key |-> d.key]
           f == [exists |-> d.exists, columns |-> d.columns, indexes |-> d.indexes,
                 constraints |-> x, key |-> d.key]
<1>1. TableShape(d)
  BY DEF TableOK
<1>2. [d EXCEPT !.indexes = x] = e /\ [d EXCEPT !.constraints = x] = f
  BY <1>1, PartReplaced
<1>3. /\ e.exists = d.exists /\ e.columns = d.columns /\ e.indexes = x
      /\ e.constraints = d.constraints /\ e.key = d.key
      /\ f.exists = d.exists /\ f.columns = d.columns /\ f.indexes = d.indexes
      /\ f.constraints = x /\ f.key = d.key
  OBVIOUS
<1>4. TableShape(e) /\ TableShape(f)
  BY <1>1 DEF TableShape
<1> HIDE DEF e, f
<1>5. Follows(d, e, risk, definition) /\ Follows(d, f, risk, definition)
  BY <1>3, <1>4, SameColumnsFollow
<1> QED BY <1>2, <1>5

(* A renamed map is one.                                                   *)
LEMMA RenamedFinite ==
  ASSUME NEW f, FiniteMap(f), NEW from, NEW to
  PROVE  FiniteMap(Renamed(f, from, to))
BY RenamedMap

(* Promoting an index leaves the columns alone.                            *)
LEMMA AddUniqueFollows ==
  ASSUME NEW d, TableOK(d), NEW with, NEW name, NEW value, NEW risk, NEW definition
  PROVE  Follows(d, [d EXCEPT !.indexes = Without(@, {with}),
                              !.constraints = With(@, name, value)], risk, definition)
<1> DEFINE q == Without(d.indexes, {with})
           r == With(d.constraints, name, value)
           e == [exists |-> d.exists, columns |-> d.columns, indexes |-> q,
                 constraints |-> r, key |-> d.key]
<1>1. TableShape(d)
  BY DEF TableOK
<1>2. FiniteMap(q) /\ FiniteMap(r)
  BY <1>1, WithMap, WithoutMap DEF TableShape
<1>3. [d EXCEPT !.indexes = q, !.constraints = r] = e
  BY <1>1, TwoReplaced
<1> HIDE DEF q, r
<1>4. /\ e.exists = d.exists /\ e.columns = d.columns /\ e.indexes = q
      /\ e.constraints = r /\ e.key = d.key
  OBVIOUS
<1>5. TableShape(e)
  BY <1>1, <1>2, <1>4 DEF TableShape
<1> HIDE DEF e
<1>6. Follows(d, e, risk, definition)
  BY <1>1, <1>4, <1>5, SameColumnsFollow
<1> QED BY <1>3, <1>6 DEF q, r

(* A column that is added has a name of the definition, so that no draft   *)
(* rated lossy drops it.                                                   *)
LEMMA AddColumnFollows ==
  ASSUME NEW d, TableOK(d), d.exists, NEW definition, NEW name \in Names(definition),
         name \notin DOMAIN d.columns, NEW type, NEW risk
  PROVE  Follows(d, [d EXCEPT !.columns = With(@, name,
            [type |-> type, default |-> "none", notNull |-> FALSE,
             generated |-> FALSE, deprecated |-> FALSE, origin |-> name])],
            risk, definition)
<1> DEFINE r == [type |-> type, default |-> "none", notNull |-> FALSE,
                 generated |-> FALSE, deprecated |-> FALSE, origin |-> name]
<1>1. ColumnRecord(r)
  BY DEF ColumnRecord
<1> HIDE DEF r
<1>2. Follows(d, [d EXCEPT !.columns = With(d.columns, name, r)], risk, definition)
  BY <1>1, ColumnSet
<1> QED BY <1>2 DEF r

(* A column is dropped as its draft is rated.                              *)
LEMMA DropColumnFollows ==
  ASSUME NEW d, TableOK(d), NEW definition, NEW name, NEW risk,
         \/ risk = "destructive"
         \/ risk = "lossy" /\ Marked(name, definition, d)
  PROVE  Follows(d, [d EXCEPT !.columns = Without(@, {name}),
                              !.indexes = Without(@, Involving(@, name)),
                              !.constraints = Without(@, Involving(@, name))],
                 risk, definition)
<1> DEFINE p == Without(d.columns, {name})
           q == Without(d.indexes, Involving(d.indexes, name))
           r == Without(d.constraints, Involving(d.constraints, name))
           e == [exists |-> d.exists, columns |-> p, indexes |-> q,
                 constraints |-> r, key |-> d.key]
<1>1. TableShape(d)
  BY DEF TableOK
<1>2. /\ FiniteMap(p) /\ FiniteMap(q) /\ FiniteMap(r)
      /\ DOMAIN p = DOMAIN d.columns \ {name}
  BY <1>1, WithoutMap DEF TableShape
<1>3. \A c \in DOMAIN p : p[c] = d.columns[c]
  BY <1>2, WithoutValues
<1>4. [d EXCEPT !.columns = p, !.indexes = q, !.constraints = r] = e
  <2> HIDE DEF p, q, r
  <2> DEFINE x == [d EXCEPT !.columns = p, !.indexes = q, !.constraints = r]
  <2>1. x = [d EXCEPT !.columns = p, !.indexes = q, !.constraints = r]
    OBVIOUS
  <2> HIDE DEF x
  <2>2. x = e
    BY <1>1, <2>1, TableReplaced
  <2> QED BY <2>2 DEF x
<1> HIDE DEF p, q, r
<1>5. /\ e.exists = d.exists /\ e.columns = p /\ e.indexes = q
      /\ e.constraints = r /\ e.key = d.key
  OBVIOUS
<1>6. TableShape(e)
  BY <1>2, <1>5 DEF TableShape
<1> HIDE DEF e
<1>7. Keeps(d, e, risk)
  <2> SUFFICES ASSUME NEW c \in DOMAIN d.columns
               PROVE  \/ d.columns[c].origin \in Origins(e)
                      \/ risk = "destructive"
                      \/ d.columns[c].deprecated /\ risk = "lossy"
    BY Zenon DEF Keeps
  <2>1. CASE c = name
    BY <2>1, Zenon DEF Marked
  <2>2. CASE c # name
    BY <1>2, <1>3, <1>5, <2>2 DEF Origins
  <2> QED BY <2>1, <2>2
<1>8. \A c \in DOMAIN e.columns : /\ c \in DOMAIN d.columns
                                  /\ e.columns[c] = d.columns[c]
                                  /\ ColumnRecord(e.columns[c])
  BY <1>2, <1>3, <1>5 DEF TableOK
<1>9. ~ d.exists => DOMAIN e.columns = {}
  BY <1>2, <1>5 DEF TableOK
<1>10. Follows(d, e, risk, definition)
  BY <1>5, <1>6, <1>7, <1>8, <1>9, ColumnsFollow
<1> QED BY <1>4, <1>10 DEF p, q, r

(* A renamed column keeps its data, under a name of the definition.        *)
LEMMA RenameColumnFollows ==
  ASSUME NEW d, TableOK(d), NEW definition, NEW from \in DOMAIN d.columns,
         NEW to \in Names(definition), to \notin DOMAIN d.columns, NEW risk
  PROVE  Follows(d, [d EXCEPT !.columns = Renamed(@, from, to),
                              !.indexes = Moved(@, from, to),
                              !.constraints = Moved(@, from, to)], risk, definition)
<1> DEFINE p == Renamed(d.columns, from, to)
           q == Moved(d.indexes, from, to)
           r == Moved(d.constraints, from, to)
           e == [exists |-> d.exists, columns |-> p, indexes |-> q,
                 constraints |-> r, key |-> d.key]
<1>1. TableShape(d) /\ d.exists
  BY DEF TableOK
<1>2. /\ FiniteMap(p) /\ FiniteMap(q) /\ FiniteMap(r)
  BY <1>1, RenamedFinite, MovedMap DEF TableShape
<1>3. /\ DOMAIN p = (DOMAIN d.columns \ {from}) \cup {to}
      /\ p[to] = d.columns[from]
      /\ \A c \in DOMAIN d.columns : c # from => p[c] = d.columns[c]
  BY DEF Renamed, With, Without
<1>4. [d EXCEPT !.columns = p, !.indexes = q, !.constraints = r] = e
  <2> HIDE DEF p, q, r
  <2> DEFINE x == [d EXCEPT !.columns = p, !.indexes = q, !.constraints = r]
  <2>1. x = [d EXCEPT !.columns = p, !.indexes = q, !.constraints = r]
    OBVIOUS
  <2> HIDE DEF x
  <2>2. x = e
    BY <1>1, <2>1, TableReplaced
  <2> QED BY <2>2 DEF x
<1> HIDE DEF p, q, r
<1>5. /\ e.exists = d.exists /\ e.columns = p /\ e.indexes = q
      /\ e.constraints = r /\ e.key = d.key
  OBVIOUS
<1>6. TableShape(e)
  BY <1>2, <1>5 DEF TableShape
<1> HIDE DEF e
<1>7. Keeps(d, e, risk)
  <2> SUFFICES ASSUME NEW c \in DOMAIN d.columns PROVE d.columns[c].origin \in Origins(e)
    BY Zenon DEF Keeps
  <2>1. \E b \in DOMAIN p : p[b] = d.columns[c]
    BY <1>3
  <2> QED BY <1>5, <2>1 DEF Origins
<1>8. \A c \in DOMAIN e.columns : ColumnRecord(e.columns[c])
  <2> SUFFICES ASSUME NEW c \in DOMAIN p PROVE ColumnRecord(p[c])
    BY <1>5
  <2>1. \E b \in DOMAIN d.columns : p[c] = d.columns[b]
    BY <1>3
  <2> QED BY <2>1 DEF TableOK
<1>9. \A c \in DOMAIN e.columns \ Names(definition) :
        c \in DOMAIN d.columns /\ e.columns[c].deprecated = d.columns[c].deprecated
  BY <1>3, <1>5
<1>10. Follows(d, e, risk, definition)
  BY <1>1, <1>5, <1>6, <1>7, <1>8, <1>9, ColumnsFollow
<1> QED BY <1>4, <1>10 DEF p, q, r

(* A table is created where none was.                                      *)
LEMMA CreatedFollows ==
  ASSUME NEW d, TableOK(d), ~ d.exists, NEW definition, IsDefinition(definition), NEW risk
  PROVE  Follows(d, Created(definition), risk, definition)
<1> DEFINE named == NamedConstraintsOf(definition)
           column(c) == Find(definition.columns, c)
           p == [c \in NamesOf(definition.columns) |->
                   [type |-> column(c).type, default |-> column(c).default,
                    notNull |-> column(c).notNull, generated |-> column(c).generated,
                    deprecated |-> FALSE, origin |-> c]]
           r == [n \in NamesOf(named) |->
                   [kind |-> Find(named, n).kind, on |-> Find(named, n).on, valid |-> TRUE]]
           e == [exists |-> TRUE, columns |-> p, indexes |-> << >>,
                 constraints |-> r, key |-> definition.key]
<1>1. Created(definition) = e
  BY DEF Created
<1>2. DOMAIN p = Names(definition) /\ p = [c \in DOMAIN p |-> p[c]]
  BY DEF Names
<1>3. \A c \in DOMAIN p : ColumnRecord(p[c])
  BY DEF ColumnRecord
<1>4. DOMAIN r = NamesOf(named) /\ r = [n \in DOMAIN r |-> r[n]]
  OBVIOUS
<1> HIDE DEF p, r
<1>5. ASSUME NEW s, List(s) PROVE IsFiniteSet(NamesOf(s))
  <2> DEFINE f == [k \in DOMAIN s |-> s[k].name]
  <2>1. f \in Surjection(DOMAIN s, NamesOf(s))
    BY DEF Surjection, NamesOf
  <2>2. IsFiniteSet(DOMAIN s)
    BY <1>5, ListProperties, FS_Interval
  <2> HIDE DEF f
  <2> QED BY <2>1, <2>2, FS_Surjection
<1>6. IsFiniteSet(Names(definition)) /\ IsFiniteSet(NamesOf(named))
  BY <1>5, NamedConstraintsList DEF IsDefinition, List, Names
<1>7. FiniteMap(p) /\ FiniteMap(r)
  BY <1>2, <1>4, <1>6 DEF FiniteMap
<1>8. FiniteMap(<< >>)
  BY FS_EmptySet DEF FiniteMap
<1>9. /\ e.exists = TRUE /\ e.columns = p /\ e.indexes = << >>
      /\ e.constraints = r /\ e.key = definition.key
  OBVIOUS
<1>10. TableShape(e)
  BY <1>7, <1>8, <1>9 DEF TableShape
<1> HIDE DEF e
<1>11. TableOK(e)
  BY <1>3, <1>9, <1>10 DEF TableOK
<1>12. Keeps(d, e, risk)
  BY Zenon DEF Keeps, TableOK
<1>13. StillMarked(d, e, definition)
  BY <1>2, <1>9, Zenon DEF StillMarked, Marked
<1> QED BY <1>1, <1>11, <1>12, <1>13 DEF Follows

(* The absent table is a table state.                                      *)
LEMMA NoTableOK == TableOK(NoTable)
<1>1. FiniteMap(<< >>) /\ DOMAIN << >> = {}
  BY FS_EmptySet DEF FiniteMap
<1> QED BY <1>1 DEF TableOK, TableShape, NoTable

(* A statement the catalog accepts, of a draft that is sound.              *)
LEMMA AfterFollows ==
  ASSUME NEW d, TableOK(d), NEW definition, IsDefinition(definition),
         NEW draft, Sound(draft, definition, d), Accepts(d, draft.stmt)
  PROVE  Follows(d, After(d, draft.stmt), draft.risk, definition)
<1> DEFINE s == draft.stmt
           name == s.name
           with == s.with
           risk == draft.risk
<1>0. /\ TableShape(d) /\ FiniteMap(d.indexes) /\ FiniteMap(d.constraints)
      /\ Follows(d, d, risk, definition)
  BY NothingDone DEF TableOK, TableShape
<1>1. CASE s.do = "CREATE TABLE"
  <2>1. After(d, s) = IF d.exists THEN d ELSE Created(with)
    BY <1>1, Zenon DEF After
  <2>2. with = definition
    BY <1>1, Zenon DEF Sound, Harmless
  <2> QED BY <1>0, <2>1, <2>2, CreatedFollows
<1>2. CASE s.do = "DROP TABLE"
  <2>1. After(d, s) = NoTable
    BY <1>2, Zenon DEF After
  <2>2. risk = "destructive"
    BY <1>2, Zenon DEF Sound, Harmless
  <2>3. StillMarked(d, NoTable, definition)
    BY DEF StillMarked, Marked, NoTable
  <2> QED BY <2>1, <2>2, <2>3, NoTableOK DEF Follows, Keeps
<1>3. CASE s.do = "ADD COLUMN"
  <2>1. /\ d.exists
        /\ After(d, s) = IF name \in DOMAIN d.columns THEN d
                         ELSE [d EXCEPT !.columns = With(@, name,
                                [type |-> with, default |-> "none", notNull |-> FALSE,
                                 generated |-> FALSE, deprecated |-> FALSE, origin |-> name])]
    BY <1>3, Zenon DEF After, Accepts
  <2>2. name \in Names(definition)
    BY <1>3, Zenon DEF Sound, Harmless
  <2> HIDE DEF s, name, with, risk
  <2>3. CASE name \in DOMAIN d.columns
    <3>1. After(d, s) = d
      BY <2>1, <2>3, Zenon
    <3> QED BY <1>0, <3>1, Zenon DEF s, risk
  <2>4. CASE name \notin DOMAIN d.columns
    <3>1. Follows(d, [d EXCEPT !.columns = With(@, name,
                       [type |-> with, default |-> "none", notNull |-> FALSE,
                        generated |-> FALSE, deprecated |-> FALSE, origin |-> name])],
                  risk, definition)
      BY <2>1, <2>2, <2>4, AddColumnFollows
    <3> QED BY <2>1, <2>4, <3>1, Zenon DEF s, risk
  <2> QED BY <2>3, <2>4
<1>4. CASE s.do = "DROP COLUMN"
  <2>1. After(d, s) = [d EXCEPT !.columns = Without(@, {name}),
                                !.indexes = Without(@, Involving(@, name)),
                                !.constraints = Without(@, Involving(@, name))]
    BY <1>4, Zenon DEF After
  <2>2. risk = "destructive" \/ (risk = "lossy" /\ Marked(name, definition, d))
    BY <1>4, Zenon DEF Sound, Harmless
  <2> HIDE DEF s, name, risk
  <2>3. Follows(d, [d EXCEPT !.columns = Without(@, {name}),
                             !.indexes = Without(@, Involving(@, name)),
                             !.constraints = Without(@, Involving(@, name))],
                risk, definition)
    BY <2>2, DropColumnFollows
  <2> QED BY <2>1, <2>3, Zenon DEF s, risk
<1>5. CASE s.do = "RENAME COLUMN"
  <2>1. /\ After(d, s) = [d EXCEPT !.columns = Renamed(@, name, with),
                                   !.indexes = Moved(@, name, with),
                                   !.constraints = Moved(@, name, with)]
        /\ name \in DOMAIN d.columns /\ with \notin DOMAIN d.columns
    BY <1>5, Zenon DEF After, Accepts
  <2>2. with \in Names(definition)
    BY <1>5, Zenon DEF Sound, Harmless
  <2> HIDE DEF s, name, with, risk
  <2>3. Follows(d, [d EXCEPT !.columns = Renamed(@, name, with),
                             !.indexes = Moved(@, name, with),
                             !.constraints = Moved(@, name, with)], risk, definition)
    BY <2>1, <2>2, RenameColumnFollows
  <2> QED BY <2>1, <2>3, Zenon DEF s, risk
<1>6. CASE s.do = "SET DEFAULT"
  <2>1. name \in DOMAIN d.columns /\ After(d, s) = [d EXCEPT !.columns[name].default = with]
    BY <1>6, Zenon DEF After, Accepts
  <2> HIDE DEF s, name, with, risk
  <2>2. Follows(d, [d EXCEPT !.columns[name].default = with], risk, definition)
    BY <2>1, AttributeSet
  <2> QED BY <2>1, <2>2, Zenon DEF s, risk
<1>7. CASE s.do = "DROP DEFAULT"
  <2> DEFINE x == "none"
  <2>1. name \in DOMAIN d.columns /\ After(d, s) = [d EXCEPT !.columns[name].default = x]
    BY <1>7, Zenon DEF After, Accepts
  <2> HIDE DEF s, name, risk, x
  <2>2. Follows(d, [d EXCEPT !.columns[name].default = x], risk, definition)
    BY <2>1, AttributeSet
  <2> QED BY <2>1, <2>2, Zenon DEF s, risk
<1>8. CASE s.do = "DROP NOT NULL"
  <2> DEFINE x == FALSE
  <2>1. name \in DOMAIN d.columns /\ After(d, s) = [d EXCEPT !.columns[name].notNull = x]
    BY <1>8, Zenon DEF After, Accepts
  <2> HIDE DEF s, name, risk, x
  <2>2. Follows(d, [d EXCEPT !.columns[name].notNull = x], risk, definition)
    BY <2>1, AttributeSet
  <2> QED BY <2>1, <2>2, Zenon DEF s, risk
<1>9. CASE s.do = "DROP EXPRESSION"
  <2> DEFINE x == FALSE
  <2>1. name \in DOMAIN d.columns /\ After(d, s) = [d EXCEPT !.columns[name].generated = x]
    BY <1>9, Zenon DEF After, Accepts
  <2> HIDE DEF s, name, risk, x
  <2>2. Follows(d, [d EXCEPT !.columns[name].generated = x], risk, definition)
    BY <2>1, AttributeSet
  <2> QED BY <2>1, <2>2, Zenon DEF s, risk
<1>10. CASE s.do = "COMMENT"
  <2>1. name \in DOMAIN d.columns /\ After(d, s) = [d EXCEPT !.columns[name].deprecated = with]
    BY <1>10, Zenon DEF After, Accepts
  <2>2. name \in Names(definition)
    BY <1>10, Zenon DEF Sound, Harmless
  <2> HIDE DEF s, name, with, risk
  <2>3. Follows(d, [d EXCEPT !.columns[name].deprecated = with], risk, definition)
    BY <2>1, <2>2, AttributeSet
  <2> QED BY <2>1, <2>3, Zenon DEF s, risk
<1>11. CASE s.do = "CREATE INDEX"
  <2> DEFINE x == With(d.indexes, name,
                    [on |-> with.on, unique |-> with.unique, valid |-> FALSE])
  <2>1. After(d, s) = d \/ After(d, s) = [d EXCEPT !.indexes = x]
    BY <1>11, Zenon DEF After
  <2>2. FiniteMap(x)
    BY <1>0, WithMap
  <2> HIDE DEF x, s, risk
  <2>3. Follows(d, [d EXCEPT !.indexes = x], risk, definition)
    BY <2>2, PartsFollow
  <2> QED BY <1>0, <2>1, <2>3, Zenon DEF s, risk
<1>12. CASE s.do = "DROP INDEX"
  <2> DEFINE x == Without(d.indexes, {name})
  <2>1. After(d, s) = [d EXCEPT !.indexes = x]
    BY <1>12, Zenon DEF After
  <2>2. FiniteMap(x)
    BY <1>0, WithoutMap
  <2> HIDE DEF x, s, risk
  <2>3. Follows(d, [d EXCEPT !.indexes = x], risk, definition)
    BY <2>2, PartsFollow
  <2> QED BY <1>0, <2>1, <2>3, Zenon DEF s, risk
<1>13. CASE s.do = "RENAME INDEX"
  <2> DEFINE x == Renamed(d.indexes, name, with)
  <2>1. After(d, s) = [d EXCEPT !.indexes = x]
    BY <1>13, Zenon DEF After
  <2>2. FiniteMap(x)
    BY <1>0, RenamedFinite
  <2> HIDE DEF x, s, risk
  <2>3. Follows(d, [d EXCEPT !.indexes = x], risk, definition)
    BY <2>2, PartsFollow
  <2> QED BY <1>0, <2>1, <2>3, Zenon DEF s, risk
<1>14. CASE s.do = "ADD CHECK"
  <2> DEFINE x == With(d.constraints, name, [kind |-> "CHECK", on |-> with, valid |-> FALSE])
  <2>1. After(d, s) = [d EXCEPT !.constraints = x]
    BY <1>14, Zenon DEF After
  <2>2. FiniteMap(x)
    BY <1>0, WithMap
  <2> HIDE DEF x, s, risk
  <2>3. Follows(d, [d EXCEPT !.constraints = x], risk, definition)
    BY <2>2, PartsFollow
  <2> QED BY <1>0, <2>1, <2>3, Zenon DEF s, risk
<1>15. CASE s.do = "DROP CONSTRAINT"
  <2> DEFINE x == Without(d.constraints, {name})
  <2>1. After(d, s) = [d EXCEPT !.constraints = x]
    BY <1>15, Zenon DEF After
  <2>2. FiniteMap(x)
    BY <1>0, WithoutMap
  <2> HIDE DEF x, s, risk
  <2>3. Follows(d, [d EXCEPT !.constraints = x], risk, definition)
    BY <2>2, PartsFollow
  <2> QED BY <1>0, <2>1, <2>3, Zenon DEF s, risk
<1>16. CASE s.do = "RENAME CONSTRAINT"
  <2> DEFINE x == Renamed(d.constraints, name, with)
  <2>1. After(d, s) = [d EXCEPT !.constraints = x]
    BY <1>16, Zenon DEF After
  <2>2. FiniteMap(x)
    BY <1>0, RenamedFinite
  <2> HIDE DEF x, s, risk
  <2>3. Follows(d, [d EXCEPT !.constraints = x], risk, definition)
    BY <2>2, PartsFollow
  <2> QED BY <1>0, <2>1, <2>3, Zenon DEF s, risk
<1>17. CASE s.do = "ADD UNIQUE"
  <2> DEFINE value == [kind |-> "UNIQUE", on |-> d.indexes[with].on, valid |-> TRUE]
  <2>1. After(d, s) = [d EXCEPT !.indexes = Without(@, {with}),
                                !.constraints = With(@, name, value)]
    BY <1>17, Zenon DEF After
  <2> HIDE DEF s, name, with, risk, value
  <2>2. Follows(d, [d EXCEPT !.indexes = Without(@, {with}),
                             !.constraints = With(@, name, value)], risk, definition)
    BY AddUniqueFollows
  <2> QED BY <2>1, <2>2, Zenon DEF s, risk
<1>18. CASE s.do \in {"BACKFILL", "VALIDATE"}
  <2>1. After(d, s) = d
    BY <1>18, Zenon DEF After
  <2> QED BY <1>0, <2>1
<1>19. s.do \in Harmless \cup {"ADD COLUMN", "COMMENT", "RENAME COLUMN", "CREATE TABLE",
                               "DROP TABLE", "DROP COLUMN"}
  BY Zenon DEF Sound
<1> HIDE DEF s
<1> QED
  BY <1>1, <1>2, <1>3, <1>4, <1>5, <1>6, <1>7, <1>8, <1>9, <1>10, <1>11, <1>12, <1>13, <1>14,
     <1>15, <1>16, <1>17, <1>18, <1>19, Zenon DEF Harmless, s

(* What is built or validated is there.                                    *)
JobsOK(table, running) ==
  running \subseteq DOMAIN table.indexes \cup DOMAIN table.constraints

(* Asynchronous jobs are on indexes and constraints the table has.         *)
LEMMA JobsFollow ==
  ASSUME NEW d, TableOK(d), NEW s, Accepts(d, s), NEW running
  PROVE  JobsOK(After(d, s), JobsAfter(d, running, s))
<1>1. ASSUME Submits(d, s)
      PROVE  s.name \in DOMAIN After(d, s).indexes \cup DOMAIN After(d, s).constraints
  <2>1. CASE s.do = "VALIDATE"
    <3>1. After(d, s) = d /\ s.name \in DOMAIN d.constraints
      BY <2>1, Zenon DEF After, Accepts
    <3> QED BY <3>1, Zenon
  <2>2. CASE s.do = "CREATE INDEX" /\ s.name \notin TakenNames(d)
    <3> DEFINE x == With(d.indexes, s.name,
                      [on |-> s.with.on, unique |-> s.with.unique, valid |-> FALSE])
    <3>1. After(d, s) = [d EXCEPT !.indexes = x]
      BY <2>2, Zenon DEF After
    <3>2. s.name \in DOMAIN x
      BY Zenon DEF With
    <3> HIDE DEF x
    <3>3. [d EXCEPT !.indexes = x].indexes = x
      BY DEF TableOK, TableShape
    <3> QED BY <3>1, <3>2, <3>3, Zenon
  <2> QED BY <1>1, <2>1, <2>2, Zenon DEF Submits
<1>2. ASSUME NEW n \in JobsAfter(d, running, s)
      PROVE  n \in DOMAIN After(d, s).indexes \cup DOMAIN After(d, s).constraints
  BY <1>1, <1>2, Zenon DEF JobsAfter
<1> QED BY <1>2, Zenon DEF JobsOK

(* A job that ends changes no column, and neither does what it takes with  *)
(* it.                                                                     *)
LEMMA EndedFollows ==
  ASSUME NEW d, TableOK(d), NEW broken, NEW n \in DOMAIN d.indexes \cup DOMAIN d.constraints
  PROVE  /\ TableOK(Ended(d, broken, n))
         /\ \A risk, definition : Follows(d, Ended(d, broken, n), risk, definition)
         /\ \A running : JobsOK(d, running) => JobsOK(Ended(d, broken, n), running)
<1> DEFINE v == ~ (d.indexes[n].unique /\ Violated(broken, Rule("UNIQUE", d.indexes[n].on)))
           w == d.constraints[n].valid
                \/ ~ Violated(broken, ConstraintRule(n, d.constraints[n]))
           x == [d.indexes EXCEPT ![n].valid = v]
           y == [d.constraints EXCEPT ![n].valid = w]
           e == IF n \in DOMAIN d.indexes THEN [d EXCEPT !.indexes = x]
                                          ELSE [d EXCEPT !.constraints = y]
<1>1. Ended(d, broken, n) = e
  BY DEF Ended
<1>2. /\ DOMAIN x = DOMAIN d.indexes /\ FiniteMap(x)
      /\ DOMAIN y = DOMAIN d.constraints /\ FiniteMap(y)
  <2> HIDE DEF v, w
  <2> QED BY DEF TableOK, TableShape, FiniteMap
<1> HIDE DEF x, y
<1>3. \A risk, definition : Follows(d, e, risk, definition)
  BY <1>2, PartsFollow
<1>4. /\ [d EXCEPT !.indexes = x].indexes = x
      /\ [d EXCEPT !.indexes = x].constraints = d.constraints
      /\ [d EXCEPT !.constraints = y].indexes = d.indexes
      /\ [d EXCEPT !.constraints = y].constraints = y
  BY DEF TableOK, TableShape
<1>5. DOMAIN e.indexes = DOMAIN d.indexes /\ DOMAIN e.constraints = DOMAIN d.constraints
  BY <1>2, <1>4
<1> HIDE DEF e
<1> QED BY <1>1, <1>3, <1>5 DEF JobsOK, Follows

-----------------------------------------------------------------------------
(* The inductive invariant of the runs on one table.                       *)

(* The releases there may be.                                              *)
Deployable == UNION {ToSet(h) : h \in Histories}

(* What is left of the plan is rated for what it does to the table as it   *)
(* is now, and the release allows those ratings.                           *)
Planned ==
  \A d \in ToSet(plan) : d.risk \in allow \cup {"safe"} /\ Sound(d, def, db)

(* The rest of the variables.                                              *)
Scalars ==
  /\ pc \in Stopped \cup {"start", "run", "wait"}
  /\ why \in {"none", "fault", "data", "catalog"}
  /\ faults \in 0..MaxFaults /\ writes \in 0..MaxWrites

(* The inductive invariant: the table, its jobs and the plan fit together. *)
Inv ==
  /\ TableOK(db) /\ JobsOK(db, jobs)
  /\ releases \in Seq(Deployable) /\ IsDefinition(def)
  /\ List(plan) /\ at \in 1..(Len(plan) + 1)
  /\ pc \in {"run", "wait"} => Planned
  /\ pc = "wait" => at <= Len(plan)
  /\ Scalars

(* A release's definition is one.                                          *)
LEMMA DeployableIsDefinition ==
  ASSUME NEW r \in Deployable
  PROVE  IsDefinition(r.def)
<1>1. PICK h \in Histories : \E k \in DOMAIN h : r = h[k]
  BY DEF Deployable, ToSet
<1> QED BY <1>1, HistoriesAssumption

(* The invariant holds at first.                                           *)
LEMMA InitInv == Init => Inv
<1> SUFFICES ASSUME Init PROVE Inv
  OBVIOUS
<1>1. TableOK(db) /\ JobsOK(db, jobs)
  BY NoTableOK DEF Init, JobsOK
<1>2. releases \in Seq(Deployable)
  <2>1. releases \in Histories
    BY DEF Init
  <2>2. List(releases)
    BY <2>1, HistoriesAssumption, SeqIsList
  <2>3. ToSet(releases) \subseteq Deployable
    BY <2>1 DEF Deployable
  <2> QED BY <2>2, <2>3, ListInSeq
<1>3. IsDefinition(def)
  <2>1. << >> \in Seq(ToSet(<< >>)) /\ ToSet(<< >>) = {}
    BY EmptyList DEF List
  <2>2. /\ def.exists = FALSE /\ def.columns = << >> /\ def.indexes = << >>
        /\ def.constraints = << >>
    BY DEF Init, NoTable
  <2> QED BY <2>1, <2>2 DEF IsDefinition
<1>4. List(plan) /\ at \in 1..(Len(plan) + 1)
  BY EmptyList DEF Init
<1>5. Scalars
  BY BudgetsAssumption DEF Init, Scalars, Stopped
<1> QED BY <1>1, <1>2, <1>3, <1>4, <1>5 DEF Init, Inv

(* What DataKept says of one step.                                         *)
LosesNothing ==
  \A c \in DOMAIN db.columns :
    db.columns[c].origin \in Origins(db')
    \/ "destructive" \in allow
    \/ (db.columns[c].deprecated /\ "lossy" \in allow)

(* A step that leaves the table alone loses nothing.                       *)
LEMMA SameTable ==
  ASSUME Inv, db' = db
  PROVE  LosesNothing
BY DEF LosesNothing, Origins

(* Planning: the drafts are sound, and the gate has let their risks pass.  *)
LEMMA PlanInv ==
  ASSUME Inv, Plan
  PROVE  Inv'
<1> DEFINE result == DiffTableOperations(def, db)
           drafts == PlannedDrafts(result.changes)
<1>1. /\ pc' = Gate(result, drafts) /\ plan' = IF pc' = "run" THEN drafts ELSE << >>
      /\ at' = 1 /\ db' = db /\ jobs' = jobs /\ def' = def /\ allow' = allow
      /\ releases' = releases /\ why' = why /\ faults' = faults /\ writes' = writes
  BY DEF Plan, PlanWith, envVars
<1>2. SoundChanges(result.changes, def, db)
  BY DiffSound DEF Inv, TableOK
<1> HIDE DEF result
<1>3. List(drafts) /\ \A d \in ToSet(drafts) : Sound(d, def, db)
  BY <1>2, PlannedSound
<1>4. pc' = "run" => \A k \in DOMAIN drafts : drafts[k].risk \in allow \cup {"safe"}
  BY <1>1 DEF Gate
<1> HIDE DEF drafts
<1>5. pc' = "run" => \A d \in ToSet(drafts) : d.risk \in allow \cup {"safe"}
  BY <1>3, <1>4, ListProperties
<1>6. pc' \in {"thrown", "refused", "blocked", "run"}
  BY <1>1 DEF Gate
<1>7. List(plan') /\ Len(plan') \in Nat
  BY <1>1, <1>3, EmptyList, ListProperties
<1>8. (pc \in {"run", "wait"} => Planned)'
  BY <1>1, <1>3, <1>5, <1>6 DEF Planned
<1>9. Scalars'
  BY <1>1, <1>6 DEF Inv, Scalars, Stopped
<1> QED BY <1>1, <1>6, <1>7, <1>8, <1>9 DEF Inv

(* Carrying out the statement the run is at.                               *)
LEMMA CurrentFollows ==
  ASSUME Inv, pc = "run", at <= Len(plan), Accepted
  PROVE  /\ plan[at].risk \in allow \cup {"safe"}
         /\ Follows(db, After(db, Current), plan[at].risk, def)
         /\ JobsOK(After(db, Current), JobsAfter(db, jobs, Current))
<1>1. plan[at] \in ToSet(plan)
  BY ListProperties DEF Inv
<1>2. plan[at].risk \in allow \cup {"safe"} /\ Sound(plan[at], def, db)
  BY <1>1 DEF Inv, Planned
<1>3. Accepts(db, plan[at].stmt)
  BY DEF Accepted, Current
<1>4. Follows(db, After(db, Current), plan[at].risk, def)
  BY <1>2, <1>3, AfterFollows DEF Inv, Current
<1>5. JobsOK(After(db, Current), JobsAfter(db, jobs, Current))
  BY <1>3, JobsFollow DEF Inv, Current
<1> QED BY <1>2, <1>4, <1>5

(* The statement a run is at loses nothing that the release does not       *)
(* allow.                                                                  *)
LEMMA ApplyKeeps ==
  ASSUME Inv, pc = "run", at <= Len(plan), Accepted, Apply, def' = def, allow' = allow
  PROVE  /\ TableOK(db)' /\ JobsOK(db, jobs)' /\ LosesNothing
         /\ plan' = plan => Planned'
<1>1. db' = After(db, Current) /\ jobs' = JobsAfter(db, jobs, Current)
  BY DEF Apply
<1>2. /\ plan[at].risk \in allow \cup {"safe"}
      /\ Follows(db, db', plan[at].risk, def)
      /\ JobsOK(db', jobs')
  BY <1>1, CurrentFollows
<1>3. LosesNothing
  BY <1>2 DEF LosesNothing, Follows, Keeps
<1>4. \A d : Sound(d, def, db) => Sound(d, def, db')
  BY <1>2, Zenon DEF Follows, StillMarked, Sound
<1>5. plan' = plan => Planned'
  BY <1>4 DEF Inv, Planned
<1> QED BY <1>2, <1>3, <1>5 DEF Follows

(* Nothing else touches the columns.                                       *)
LEMMA StepInv ==
  ASSUME Inv, [Next]_vars
  PROVE  Inv' /\ LosesNothing
<1>0. /\ Len(plan) \in Nat /\ at \in 1..(Len(plan) + 1)
      /\ List(<< >>) /\ Len(<< >>) = 0
  BY EmptyList, ListProperties DEF Inv
<1>1. CASE Deploy
  <2>1. releases' \in Seq(Deployable) /\ Head(releases) \in Deployable
    BY <1>1 DEF Deploy, Inv
  <2>2. IsDefinition(def)'
    BY <1>1, <2>1, DeployableIsDefinition DEF Deploy
  <2>3. /\ db' = db /\ jobs' = jobs /\ plan' = plan /\ at' = at /\ pc' = "start"
        /\ why' = "none" /\ faults' = faults /\ writes' = writes
    BY <1>1 DEF Deploy
  <2>4. Scalars'
    BY <2>3 DEF Inv, Scalars
  <2> QED BY <2>1, <2>2, <2>3, <2>4, SameTable DEF Inv
<1>2. CASE Retry
  <2>1. /\ db' = db /\ jobs' = jobs /\ plan' = plan /\ at' = at /\ pc' = "start"
        /\ why' = "none" /\ faults' = faults /\ writes' = writes
        /\ def' = def /\ releases' = releases
    BY <1>2 DEF Retry, envVars
  <2>2. Scalars'
    BY <2>1 DEF Inv, Scalars
  <2> QED BY <2>1, <2>2, SameTable DEF Inv
<1>3. CASE Plan
  <2>1. db' = db
    BY <1>3 DEF Plan
  <2> QED BY <1>3, <2>1, PlanInv, SameTable
<1>4. CASE Execute
  <2>1. /\ pc = "run" /\ at <= Len(plan) /\ Accepted /\ Apply
        /\ (pc' = "wait" /\ at' = at) \/ (pc' = "run" /\ at' = at + 1)
        /\ def' = def /\ allow' = allow /\ plan' = plan /\ why' = why
        /\ releases' = releases /\ faults' = faults /\ writes' = writes
    BY <1>4 DEF Execute, envVars
  <2>2. TableOK(db)' /\ JobsOK(db, jobs)' /\ LosesNothing /\ Planned'
    BY <2>1, ApplyKeeps
  <2>3. Scalars'
    BY <2>1 DEF Inv, Scalars
  <2> QED BY <1>0, <2>1, <2>2, <2>3 DEF Inv
<1>5. CASE ExecuteFails
  <2>1. /\ db' = db /\ jobs' = jobs /\ pc' = "failed" /\ why' \in {"data", "catalog"}
        /\ plan' = << >> /\ at' = 1 /\ def' = def
        /\ releases' = releases /\ faults' = faults /\ writes' = writes
    BY <1>5 DEF ExecuteFails, Fail, envVars
  <2>2. Scalars'
    BY <2>1 DEF Inv, Scalars, Stopped
  <2> QED BY <1>0, <2>1, <2>2, SameTable DEF Inv
<1>6. CASE AwaitJob
  <2>1. /\ pc = "wait" /\ db' = db /\ jobs' = jobs /\ def' = def
        /\ releases' = releases /\ faults' = faults /\ writes' = writes
        /\ \/ pc' = "run" /\ at' = at + 1 /\ allow' = allow /\ plan' = plan /\ why' = why
           \/ pc' = "failed" /\ why' = "data" /\ plan' = << >> /\ at' = 1
    BY <1>6 DEF AwaitJob, Fail, envVars
  <2>2. Scalars'
    BY <2>1 DEF Inv, Scalars, Stopped
  <2>3. (pc \in {"run", "wait"} => Planned)'
    BY <2>1 DEF Inv, Planned
  <2> QED BY <1>0, <2>1, <2>2, <2>3, SameTable DEF Inv
<1>7. CASE Finish
  <2>1. /\ db' = db /\ jobs' = jobs /\ pc' = "done" /\ plan' = << >> /\ at' = 1
        /\ def' = def /\ why' = why
        /\ releases' = releases /\ faults' = faults /\ writes' = writes
    BY <1>7 DEF Finish, envVars
  <2>2. Scalars'
    BY <2>1 DEF Inv, Scalars, Stopped
  <2> QED BY <1>0, <2>1, <2>2, SameTable DEF Inv
<1>8. CASE ExecuteLost
  <2>1. /\ pc = "run" /\ at <= Len(plan) /\ Accepted
        /\ Apply \/ (db' = db /\ jobs' = jobs)
        /\ faults < MaxFaults /\ faults' = faults + 1
        /\ pc' = "failed" /\ why' = "fault" /\ plan' = << >> /\ at' = 1
        /\ def' = def /\ allow' = allow /\ releases' = releases /\ writes' = writes
    BY <1>8 DEF ExecuteLost, Fail
  <2>2. TableOK(db)' /\ JobsOK(db, jobs)' /\ LosesNothing
    BY <2>1, ApplyKeeps, SameTable DEF Inv
  <2>3. Scalars'
    BY <2>1, BudgetsAssumption DEF Inv, Scalars, Stopped
  <2> QED BY <1>0, <2>1, <2>2, <2>3 DEF Inv
<1>9. CASE AwaitLost
  <2>1. /\ db' = db /\ jobs' = jobs
        /\ faults < MaxFaults /\ faults' = faults + 1
        /\ pc' = "failed" /\ why' = "fault" /\ plan' = << >> /\ at' = 1
        /\ def' = def /\ releases' = releases /\ writes' = writes
    BY <1>9 DEF AwaitLost, Fail
  <2>2. Scalars'
    BY <2>1, BudgetsAssumption DEF Inv, Scalars, Stopped
  <2> QED BY <1>0, <2>1, <2>2, SameTable DEF Inv
<1>10. CASE EndJob
  <2>1. PICK n \in jobs : db' = Ended(db, bad, n) /\ jobs' = jobs \ {n}
    BY <1>10 DEF EndJob
  <2>2. /\ def' = def /\ allow' = allow /\ pc' = pc /\ plan' = plan /\ at' = at /\ why' = why
        /\ releases' = releases /\ faults' = faults /\ writes' = writes
    BY <1>10 DEF EndJob, runVars, envVars
  <2>3. n \in DOMAIN db.indexes \cup DOMAIN db.constraints
    BY DEF Inv, JobsOK
  <2>4. /\ TableOK(db)' /\ JobsOK(db', jobs)
        /\ \A risk : Follows(db, db', risk, def)
    BY <2>1, <2>3, EndedFollows DEF Inv
  <2>5. JobsOK(db, jobs)'
    BY <2>1, <2>4 DEF JobsOK
  <2>6. LosesNothing
    <3>1. Keeps(db, db', "safe")
      BY <2>4 DEF Follows
    <3> QED BY <3>1 DEF Keeps, LosesNothing
  <2>7. \A d : Sound(d, def, db) => Sound(d, def, db')
    BY <2>4, Zenon DEF Follows, StillMarked, Sound
  <2>8. (pc \in {"run", "wait"} => Planned)'
    BY <2>2, <2>7 DEF Inv, Planned
  <2>9. Scalars'
    BY <2>2 DEF Inv, Scalars
  <2> QED BY <2>2, <2>4, <2>5, <2>6, <2>8, <2>9 DEF Inv
<1>11. CASE Write
  <2>1. /\ db' = db /\ jobs' = jobs /\ def' = def /\ allow' = allow /\ pc' = pc
        /\ plan' = plan /\ at' = at /\ why' = why /\ releases' = releases
        /\ faults' = faults /\ writes < MaxWrites /\ writes' = writes + 1
    BY <1>11 DEF Write, runVars
  <2>2. Scalars'
    BY <2>1, BudgetsAssumption DEF Inv, Scalars
  <2>3. (pc \in {"run", "wait"} => Planned)'
    BY <2>1 DEF Inv, Planned
  <2> QED BY <2>1, <2>2, <2>3, SameTable DEF Inv
<1>12. CASE FixRows \/ UNCHANGED vars
  <2>1. /\ db' = db /\ jobs' = jobs /\ def' = def /\ allow' = allow /\ pc' = pc
        /\ plan' = plan /\ at' = at /\ why' = why /\ releases' = releases
        /\ faults' = faults /\ writes' = writes
    BY <1>12 DEF FixRows, vars, runVars, envVars
  <2>2. Scalars'
    BY <2>1 DEF Inv, Scalars
  <2>3. (pc \in {"run", "wait"} => Planned)'
    BY <2>1 DEF Inv, Planned
  <2> QED BY <2>1, <2>2, <2>3, SameTable DEF Inv
<1> QED BY <1>1, <1>2, <1>3, <1>4, <1>5, <1>6, <1>7, <1>8, <1>9, <1>10, <1>11, <1>12
        DEF Next, Run

(* Type correctness of the migration runs on one table, from the inductive *)
(* invariant: the table and its jobs keep their shape through every        *)
(* statement, fault and end of a job.                                      *)
THEOREM RunsAreTyped == Spec => []TypeOK
<1>1. Inv => TypeOK
  BY DEF Inv, TypeOK, TableOK, JobsOK, Scalars
<1>2. Inv /\ [Next]_vars => Inv'
  BY StepInv
<1> QED BY <1>1, <1>2, InitInv, PTL DEF Spec

(* The data of a column goes only when the release allows destructive      *)
(* steps, or lossy ones and the database has the column marked as          *)
(* deprecated: through the diff, the gate, the sort, the executor's faults *)
(* and the asynchronous jobs, for every history of releases.               *)
THEOREM DataIsKept == Spec => DataKept
<1>1. Init => Inv
  BY InitInv
<1>2. Inv /\ [Next]_vars => Inv'
  BY StepInv
<1>3. Inv /\ [Next]_vars => [LosesNothing]_vars
  BY StepInv
<1> QED
  BY <1>1, <1>2, <1>3, PTL DEF Spec, DataKept, LosesNothing

=============================================================================
