------------------------- MODULE DeploymentsProofs -------------------------
(***************************************************************************)
(* Proofs about Deployments for every history of releases, any bounds of a *)
(* bigint and any number of faults and uses: reconciliation emits only     *)
(* operations whose ratings say what they do to the database, the gate lets*)
(* only allowed ratings pass, and so nothing is lost by a step unless the  *)
(* release allows it. The options of sequences, as CREATE SEQUENCE and     *)
(* ALTER SEQUENCE leave them, compare as their declaration. And what the   *)
(* objects of a plan ask of each other has an order, so planning never     *)
(* throws, for definitions that keep the names of namespaces and of types  *)
(* apart from other names.                                                 *)
(***************************************************************************)
EXTENDS Deployments, ListProofs

(* Options as introspection reads them back.                               *)
Readable ==
  [increment : Int, min : Int, max : Int, start : Int, cache : Int, cycle : BOOLEAN]

-----------------------------------------------------------------------------
(* The bounds of a bigint are integers.                                    *)
LEMMA SmallConstants == BigintMin \in Int /\ BigintMax \in Int
BY BoundsAssumption

(* The options that apply are all there.                                   *)
LEMMA EffectiveReadable ==
  ASSUME NEW options \in Declarable
  PROVE  EffectiveSequenceOptions(options) \in Readable
<1> DEFINE ascending == Or(options.increment, 1) > 0
           min == Or(options.min, IF ascending THEN 1 ELSE BigintMin)
           max == Or(options.max, IF ascending THEN BigintMax ELSE -1)
<1>1. Or(options.increment, 1) \in Int /\ Or(options.cache, 1) \in Int
  BY DEF Declarable, OrUnset, Or
<1>2. min \in Int /\ max \in Int
  BY SmallConstants DEF Declarable, OrUnset, Or
<1>3. Or(options.start, IF ascending THEN min ELSE max) \in Int
  BY <1>2 DEF Declarable, OrUnset, Or
<1>4. Or(options.cycle, FALSE) \in BOOLEAN
  BY Zenon DEF Declarable, OrUnset, Or
<1> QED
  BY <1>1, <1>2, <1>3, <1>4 DEF EffectiveSequenceOptions, Readable

(* What is read back applies as it is.                                     *)
LEMMA ReadableIsEffective ==
  ASSUME NEW options \in Readable
  PROVE  EffectiveSequenceOptions(options) = options
BY UnsetAssumption DEF Readable, EffectiveSequenceOptions, Or

(* The database fills in what effectiveSequenceOptions fills in.           *)
LEMMA CreatedIsEffective ==
  ASSUME NEW options \in Declarable
  PROVE  SequenceCreated(options) = EffectiveSequenceOptions(options)
<1> DEFINE created == SequenceCreated(options)
           up == options.increment = Unset \/ options.increment > 0
           fields == {"increment", "min", "max", "start", "cache", "cycle"}
<1>1. DOMAIN options = fields
  BY DEF Declarable
<1>2. up <=> Or(options.increment, 1) > 0
  BY DEF Or
<1>3. /\ created.increment = Or(options.increment, 1)
      /\ created.cache = Or(options.cache, 1)
      /\ created.cycle = Or(options.cycle, FALSE)
  BY <1>1 DEF SequenceCreated, Or
<1>4. /\ created.min = Or(options.min, IF up THEN 1 ELSE BigintMin)
      /\ created.max = Or(options.max, IF up THEN BigintMax ELSE -1)
  BY <1>1 DEF SequenceCreated, Or
<1>5. created.start = Or(options.start, IF up THEN created.min ELSE created.max)
  BY <1>1 DEF SequenceCreated, Or
<1>6. created = [increment |-> created.increment, min |-> created.min,
                 max |-> created.max, start |-> created.start,
                 cache |-> created.cache, cycle |-> created.cycle]
  <2>1. created = [f \in fields |-> created[f]]
    BY <1>1 DEF SequenceCreated
  <2> HIDE DEF created
  <2> QED
    BY <2>1
<1> QED
  BY <1>2, <1>3, <1>4, <1>5, <1>6 DEF EffectiveSequenceOptions

(* A sequence created from a declaration needs no ALTER afterwards         *)
(* (diffs/sequence.ts: "without it, every unset bound re-plans as a        *)
(* change").                                                               *)
THEOREM CreatedIsDeclared ==
  ASSUME NEW options \in Declarable
  PROVE  ChangedSequenceOptions(options, SequenceCreated(options)) = {}
BY CreatedIsEffective, EffectiveReadable, ReadableIsEffective DEF ChangedSequenceOptions

(* The one ALTER SEQUENCE of a plan, with the options that changed at the  *)
(* values they come to, brings any sequence to its declaration.            *)
THEOREM AlteredIsDeclared ==
  ASSUME NEW options \in Declarable, NEW remote \in Readable
  PROVE  LET changed == ChangedSequenceOptions(options, remote)
             given == [key \in changed |-> EffectiveSequenceOptions(options)[key]]
         IN  ChangedSequenceOptions(options, SequenceAltered(remote, given)) = {}
<1> DEFINE effective == EffectiveSequenceOptions(options)
           given == [key \in ChangedSequenceOptions(options, remote) |-> effective[key]]
<1>1. effective \in Readable
  BY EffectiveReadable
<1>2. EffectiveSequenceOptions(remote) = remote
  BY ReadableIsEffective
<1>3. SequenceAltered(remote, given) = effective
  BY <1>1, <1>2 DEF SequenceAltered, ChangedSequenceOptions, Readable
<1> QED
  BY <1>1, <1>3, ReadableIsEffective DEF ChangedSequenceOptions

-----------------------------------------------------------------------------
(* The passes of the reconciler, which are folds over lists of objects: one*)
(* object at a time, by induction on how many it has passed.               *)
Step(pass, acc, o) ==
  CASE pass = "map"    -> SetIn(acc, o)
    [] pass = "rename" -> RenameOne(acc, o)
    [] pass = "diff"   -> DiffOne(acc, o)
    [] pass = "drop"   -> DropOne(acc, o)

(* A pass over the first m objects.                                        *)
IteratedTo(pass, base, seq, m, f) ==
  f = [s \in SUBSET (1..m) |->
         IF s = {} THEN base ELSE Step(pass, f[s \ {Max(s)}], seq[Max(s)])]

(* A pass over the objects goes one object further.                        *)
LEMMA IteratedFurther ==
  ASSUME NEW pass, NEW base, NEW seq, NEW m \in Nat, NEW g, IteratedTo(pass, base, seq, m, g)
  PROVE  \E h : IteratedTo(pass, base, seq, m + 1, h)
<1> DEFINE h == [s \in SUBSET (1..(m + 1)) |->
                   IF m + 1 \in s THEN Step(pass, g[s \ {m + 1}], seq[m + 1]) ELSE g[s]]
<1>1. ASSUME NEW s \in SUBSET (1..(m + 1))
      PROVE  h[s] = IF s = {} THEN base ELSE Step(pass, h[s \ {Max(s)}], seq[Max(s)])
  <2>1. CASE m + 1 \in s
    <3>1. Max(s) = m + 1
      <4>1. m + 1 \in Nat
        OBVIOUS
      <4> QED BY <2>1, <4>1, MaxIsLast
    <3>2. s \ {m + 1} \in SUBSET (1..m) /\ m + 1 \notin s \ {m + 1}
      <4> HIDE DEF h
      <4> QED OBVIOUS
    <3>3. h[s \ {m + 1}] = g[s \ {m + 1}]
      BY <3>2
    <3> QED BY <2>1, <3>1, <3>3
  <2>2. CASE m + 1 \notin s
    <3>1. s \in SUBSET (1..m) /\ h[s] = g[s]
      BY <2>2
    <3>2. h[s \ {Max(s)}] = g[s \ {Max(s)}]
      BY <2>2
    <3>3. g[s] = IF s = {} THEN base ELSE Step(pass, g[s \ {Max(s)}], seq[Max(s)])
      BY <3>1 DEF IteratedTo
    <3> QED BY <3>1, <3>2, <3>3
  <2> QED BY <2>1, <2>2
<1>2. h = [s \in SUBSET (1..(m + 1)) |-> h[s]]
  OBVIOUS
<1> HIDE DEF h
<1>3. IteratedTo(pass, base, seq, m + 1, h)
  BY <1>1, <1>2 DEF IteratedTo
<1> QED BY <1>3

(* The accumulators of a fold, one for each element it has passed.         *)
Accumulates(pass, base, seq, acc) ==
  /\ acc[0] = base
  /\ \A k \in 1..Len(seq) : acc[k] = Step(pass, acc[k - 1], seq[k])

(* A pass goes over any number of objects.                                 *)
LEMMA IterationExists ==
  ASSUME NEW pass, NEW base, NEW seq, NEW n \in Nat
  PROVE  \E f : IteratedTo(pass, base, seq, n, f)
<1> DEFINE S == {m \in Nat : \E f : IteratedTo(pass, base, seq, m, f)}
<1>1. 0 \in S
  <2>1. IteratedTo(pass, base, seq, 0, [s \in SUBSET (1..0) |-> base])
    BY DEF IteratedTo
  <2> QED BY <2>1
<1>2. \A m \in Nat : m \in S => m + 1 \in S
  BY IteratedFurther
<1>3. Nat \subseteq S
  <2> HIDE DEF S
  <2> QED BY <1>1, <1>2, NatSetInduction
<1> QED BY <1>3

(* The states of a pass are those of an accumulator that takes one object  *)
(* at a time.                                                              *)
LEMMA IterationAccumulates ==
  ASSUME NEW pass, NEW base, NEW seq, List(seq), NEW f, IteratedTo(pass, base, seq, Len(seq), f)
  PROVE  Accumulates(pass, base, seq, [k \in 0..Len(seq) |-> f[1..k]])
<1>1. Len(seq) \in Nat
  BY ListProperties
<1>2. f[1..0] = base
  <2>1. 1..0 = {} /\ 1..0 \in SUBSET (1..Len(seq))
    OBVIOUS
  <2> QED BY <2>1 DEF IteratedTo
<1>3. ASSUME NEW k \in 1..Len(seq) PROVE f[1..k] = Step(pass, f[1..(k - 1)], seq[k])
  <2>1. 1..k \in SUBSET (1..Len(seq)) /\ 1..k # {}
    BY <1>1
  <2>2. Max(1..k) = k
    <3>1. k \in Nat /\ 1..k \in SUBSET (1..k) /\ k \in 1..k
      BY <1>1
    <3> QED BY <3>1, MaxIsLast
  <2>3. (1..k) \ {k} = 1..(k - 1)
    BY <1>1
  <2> QED BY <2>1, <2>2, <2>3 DEF IteratedTo
<1> QED BY <1>1, <1>2, <1>3 DEF Accumulates

(* MapOf is such a pass: new Map over the objects, one set at a time.      *)
LEMMA SetsAccumulate ==
  ASSUME NEW base, NEW seq, List(seq)
  PROVE  \E acc : Accumulates("map", base, seq, acc) /\ FoldLeft(SetIn, base, seq) = acc[Len(seq)]
<1> DEFINE n == Len(seq)
           f == CHOOSE g : IteratedTo("map", base, seq, n, g)
<1>1. n \in Nat /\ DOMAIN seq = 1..n
  BY ListProperties
<1>2. IteratedTo("map", base, seq, n, f)
  BY <1>1, IterationExists
<1>3. FoldLeft(SetIn, base, seq) = f[1..n]
  BY <1>1 DEF FoldLeft, MapThenFoldSet, IteratedTo, Step
<1>4. Accumulates("map", base, seq, [k \in 0..n |-> f[1..k]])
  BY <1>2, IterationAccumulates
<1> QED BY <1>1, <1>3, <1>4

(* So is the loop that renames,                                            *)
LEMMA RenamesAccumulate ==
  ASSUME NEW base, NEW seq, List(seq)
  PROVE  \E acc : Accumulates("rename", base, seq, acc) /\ FoldLeft(RenameOne, base, seq) = acc[Len(seq)]
<1> DEFINE n == Len(seq)
           f == CHOOSE g : IteratedTo("rename", base, seq, n, g)
<1>1. n \in Nat /\ DOMAIN seq = 1..n
  BY ListProperties
<1>2. IteratedTo("rename", base, seq, n, f)
  BY <1>1, IterationExists
<1>3. FoldLeft(RenameOne, base, seq) = f[1..n]
  BY <1>1 DEF FoldLeft, MapThenFoldSet, IteratedTo, Step
<1>4. Accumulates("rename", base, seq, [k \in 0..n |-> f[1..k]])
  BY <1>2, IterationAccumulates
<1> QED BY <1>1, <1>3, <1>4

(* the loop that compares,                                                 *)
LEMMA DiffsAccumulate ==
  ASSUME NEW base, NEW seq, List(seq)
  PROVE  \E acc : Accumulates("diff", base, seq, acc) /\ FoldLeft(DiffOne, base, seq) = acc[Len(seq)]
<1> DEFINE n == Len(seq)
           f == CHOOSE g : IteratedTo("diff", base, seq, n, g)
<1>1. n \in Nat /\ DOMAIN seq = 1..n
  BY ListProperties
<1>2. IteratedTo("diff", base, seq, n, f)
  BY <1>1, IterationExists
<1>3. FoldLeft(DiffOne, base, seq) = f[1..n]
  BY <1>1 DEF FoldLeft, MapThenFoldSet, IteratedTo, Step
<1>4. Accumulates("diff", base, seq, [k \in 0..n |-> f[1..k]])
  BY <1>2, IterationAccumulates
<1> QED BY <1>1, <1>3, <1>4

(* and the loop that drops.                                                *)
LEMMA DropsAccumulate ==
  ASSUME NEW base, NEW seq, List(seq)
  PROVE  \E acc : Accumulates("drop", base, seq, acc) /\ FoldLeft(DropOne, base, seq) = acc[Len(seq)]
<1> DEFINE n == Len(seq)
           f == CHOOSE g : IteratedTo("drop", base, seq, n, g)
<1>1. n \in Nat /\ DOMAIN seq = 1..n
  BY ListProperties
<1>2. IteratedTo("drop", base, seq, n, f)
  BY <1>1, IterationExists
<1>3. FoldLeft(DropOne, base, seq) = f[1..n]
  BY <1>1 DEF FoldLeft, MapThenFoldSet, IteratedTo, Step
<1>4. Accumulates("drop", base, seq, [k \in 0..n |-> f[1..k]])
  BY <1>2, IterationAccumulates
<1> QED BY <1>1, <1>3, <1>4

-----------------------------------------------------------------------------
(* The maps of a reconciliation, and what one pass makes of them.          *)

(* No two objects share a qualified name.                                  *)
NamedApart(objects) ==
  \A o, p \in objects : QualifiedName(o) = QualifiedName(p) => o = p

(* Map.set adds at most its object, and keeps names apart: it replaces the *)
(* entry of the same qualified name.                                       *)
LEMMA SetInKeeps ==
  ASSUME NEW map, List(map), NEW o
  PROVE  /\ List(SetIn(map, o))
         /\ ToSet(SetIn(map, o)) \subseteq ToSet(map) \cup {o}
         /\ NamedApart(ToSet(map)) => NamedApart(ToSet(SetIn(map, o)))
<1>0. /\ Len(map) \in Nat /\ DOMAIN map = 1..Len(map)
      /\ \A x : x \in ToSet(map) <=> \E k \in 1..Len(map) : x = map[k]
  BY ListProperties
<1>1. CASE QualifiedName(o) \in KeysOf(map)
  <2> DEFINE new == [k \in DOMAIN map |->
                      IF QualifiedName(map[k]) = QualifiedName(o) THEN o ELSE map[k]]
  <2>1. SetIn(map, o) = new
    BY <1>1 DEF SetIn
  <2>2. new = [k \in 1..Len(map) |-> new[k]]
    BY <1>0
  <2>3. \A k \in 1..Len(map) :
          \/ new[k] = o
          \/ new[k] \in ToSet(map) /\ QualifiedName(new[k]) # QualifiedName(o)
    BY <1>0
  <2> HIDE DEF new
  <2>4. List(new) /\ Len(new) = Len(map)
    BY <1>0, <2>2, FunctionIsList
  <2>5. \A x \in ToSet(new) :
          \/ x = o
          \/ x \in ToSet(map) /\ QualifiedName(x) # QualifiedName(o)
    BY <2>3, <2>4, ListProperties
  <2>6. NamedApart(ToSet(map)) => NamedApart(ToSet(new))
    BY <2>5, Zenon DEF NamedApart
  <2> QED BY <2>1, <2>4, <2>5, <2>6
<1>2. CASE QualifiedName(o) \notin KeysOf(map)
  <2>1. SetIn(map, o) = map \o <<o>>
    <3>1. map \in Seq(ToSet(map) \cup {o})
      BY ListInSeq
    <3> QED BY <1>2, <3>1 DEF SetIn
  <2>2. List(map \o <<o>>) /\ ToSet(map \o <<o>>) = ToSet(map) \cup {o}
    BY ConcatList, SingleList
  <2>3. \A x \in ToSet(map) : QualifiedName(x) # QualifiedName(o)
    BY <1>2 DEF KeysOf
  <2>4. NamedApart(ToSet(map)) => NamedApart(ToSet(map) \cup {o})
    BY <2>3, Zenon DEF NamedApart
  <2> QED BY <2>1, <2>2, <2>4
<1> QED BY <1>1, <1>2

(* Map.delete adds nothing.                                                *)
LEMMA DeleteKeeps ==
  ASSUME NEW map, List(map), NEW key
  PROVE  List(Delete(map, key)) /\ ToSet(Delete(map, key)) \subseteq ToSet(map)
<1> DEFINE parts == [k \in DOMAIN map |->
                       IF QualifiedName(map[k]) = key THEN << >> ELSE <<map[k]>>]
<1>0. Len(map) \in Nat /\ DOMAIN map = 1..Len(map)
  BY ListProperties
<1>1. parts = [k \in 1..Len(map) |-> parts[k]]
  BY <1>0
<1>2. \A k \in DOMAIN parts :
        List(parts[k]) /\ ToSet(parts[k]) \subseteq ToSet(map)
  BY EmptyList, SingleList DEF ToSet
<1>3. Delete(map, key) = FlattenSeq(parts)
  BY DEF Delete
<1> HIDE DEF parts
<1>4. List(parts)
  BY <1>0, <1>1, FunctionIsList
<1> QED BY <1>2, <1>3, <1>4, FlattenList

(* A Map of objects holds some of them, one for each qualified name.       *)
LEMMA MapOfObjects ==
  ASSUME NEW objects, List(objects)
  PROVE  /\ List(MapOf(objects))
         /\ ToSet(MapOf(objects)) \subseteq ToSet(objects)
         /\ NamedApart(ToSet(MapOf(objects)))
<1> DEFINE n == Len(objects)
<1>1. PICK acc : /\ Accumulates("map", << >>, objects, acc)
                 /\ FoldLeft(SetIn, << >>, objects) = acc[n]
  BY SetsAccumulate
<1> DEFINE Good(m) == /\ List(m) /\ ToSet(m) \subseteq ToSet(objects)
                      /\ NamedApart(ToSet(m))
           S == {k \in Nat : k <= n => Good(acc[k])}
<1>2. n \in Nat /\ \A k \in 1..n : objects[k] \in ToSet(objects)
  BY ListProperties
<1>3. 0 \in S
  BY <1>1, EmptyList DEF Accumulates, NamedApart
<1>4. ASSUME NEW k \in Nat, k \in S PROVE k + 1 \in S
  <2> SUFFICES ASSUME k + 1 <= n PROVE Good(acc[k + 1])
    OBVIOUS
  <2>1. k + 1 \in 1..n /\ (k + 1) - 1 = k /\ k <= n
    BY <1>2
  <2>2. acc[k + 1] = SetIn(acc[k], objects[k + 1])
    BY <1>1, <2>1 DEF Accumulates, Step
  <2>3. Good(acc[k])
    BY <1>4, <2>1
  <2> QED BY <1>2, <2>1, <2>2, <2>3, SetInKeeps
<1>5. Nat \subseteq S
  <2> HIDE DEF S
  <2> QED BY <1>3, <1>4, NatSetInduction
<1>6. Good(acc[n])
  BY <1>2, <1>5
<1> QED BY <1>1, <1>6 DEF MapOf

(* Map.get finds the object of that name, or nothing.                      *)
LEMMA GetThere ==
  ASSUME NEW map, NEW key
  PROVE  \/ Get(map, key) = NoObject
         \/ Get(map, key) \in ToSet(map) /\ QualifiedName(Get(map, key)) = key
BY DEF Get, KeysOf

-----------------------------------------------------------------------------
(* What the plans of the reconciler are made of.                           *)

(* The statements that take something away,                                *)
Destroys ==
  {"DROP TABLE", "DROP COLUMN", "DROP SEQUENCE", "DROP DOMAIN",
   "DOMAIN DROP NOT NULL", "DOMAIN DROP CHECK"}

(* and all that a plan has.                                                *)
Statements ==
  Destroys \cup
  {"CREATE SCHEMA", "CREATE DOMAIN", "CREATE SEQUENCE", "CREATE TABLE",
   "ADD COLUMN", "RENAME TABLE", "DOMAIN DEFAULT", "ALTER SEQUENCE", "DROP SCHEMA"}

(* The values of an ALTER SEQUENCE are those the declaration comes to.     *)
Alters(s, o) ==
  /\ o.kind = "SEQUENCE" /\ QualifiedName(o) = s.on
  /\ DOMAIN s.with \subseteq DOMAIN EffectiveSequenceOptions(o.options)
  /\ s.with = [key \in DOMAIN s.with |-> EffectiveSequenceOptions(o.options)[key]]

(* Bounds that are given leave the values at least the room they have.     *)
Wider(given, options) ==
  /\ "min" \in DOMAIN given => given.min <= options.min
  /\ "max" \in DOMAIN given => given.max >= options.max

(* A draft on the way from database to the objects local.                  *)
Sound(draft, local, database) ==
  /\ draft.stmt.do \in Statements
  /\ draft.stmt.do \in Destroys => draft.risk = "destructive"
  /\ draft.stmt.do = "CREATE TABLE" => IsFiniteSet(DOMAIN draft.stmt.with)
  /\ draft.stmt.do = "CREATE SEQUENCE" =>
       \E o \in local : /\ o.kind = "SEQUENCE" /\ QualifiedName(o) = draft.stmt.on
                        /\ draft.stmt.with = o.options
  /\ draft.stmt.do = "ALTER SEQUENCE" =>
       /\ \E o \in local : Alters(draft.stmt, o)
       /\ draft.risk # "lossy" /\ draft.stmt.on \in DOMAIN database.sequences =>
            Wider(draft.stmt.with, database.sequences[draft.stmt.on].options)

(* Changes made of sound drafts.                                           *)
SoundChanges(changes, local, database) ==
  /\ List(changes)
  /\ \A x \in ToSet(changes) :
       List(x.drafts) /\ \A d \in ToSet(x.drafts) : Sound(d, local, database)

(* No change is a sound one.                                               *)
LEMMA NoChange ==
  ASSUME NEW local, NEW database
  PROVE  SoundChanges(<< >>, local, database)
BY EmptyList DEF SoundChanges

(* A change of one sound draft is sound.                                   *)
LEMMA OneChange ==
  ASSUME NEW local, NEW database, NEW key, NEW draft, Sound(draft, local, database)
  PROVE  SoundChanges(<<Change(key, <<draft>>)>>, local, database)
<1>1. Change(key, <<draft>>).drafts = <<draft>>
  BY DEF Change
<1> QED BY <1>1, SingleList DEF SoundChanges

(* Sound changes after sound changes are sound.                            *)
LEMMA MoreChanges ==
  ASSUME NEW local, NEW database, NEW a, NEW b,
         SoundChanges(a, local, database), SoundChanges(b, local, database)
  PROVE  SoundChanges(a \o b, local, database)
BY ConcatList DEF SoundChanges

(* The drafts that are sound whatever they are about.                      *)
Plainly(risk, do) ==
  \/ do \in {"CREATE SCHEMA", "CREATE DOMAIN", "ADD COLUMN", "RENAME TABLE",
             "DOMAIN DEFAULT", "DROP SCHEMA"}
  \/ do \in Destroys /\ risk = "destructive"

(* A draft that does not touch a sequence, and drops nothing unless it is  *)
(* rated destructive, is sound.                                            *)
LEMMA PlainDraft ==
  ASSUME NEW local, NEW database, NEW type, NEW o, NEW refs, NEW risk, NEW do, NEW with,
         Plainly(risk, do)
  PROVE  Sound(ObjectDraft(type, o, refs, risk, do, with), local, database)
BY DEF ObjectDraft, Draft, Sound, Statements, Destroys, Plainly

(* So is a change made of such a draft.                                    *)
LEMMA PlainStep ==
  ASSUME NEW local, NEW database, NEW type, NEW o, NEW refs, NEW risk, NEW do, NEW with,
         Plainly(risk, do)
  PROVE  SoundChanges(OneStep(type, o, refs, risk, do, with), local, database)
BY PlainDraft, OneChange DEF OneStep

(* What is left of the database: the sequences are as they are there.      *)
Read(o, database) ==
  /\ o.kind \in {"SCHEMA", "DOMAIN", "SEQUENCE", "TABLE"}
  /\ o.kind = "SEQUENCE" =>
       /\ QualifiedName(o) \in DOMAIN database.sequences
       /\ o.options = database.sequences[QualifiedName(o)].options
       /\ o.options \in Readable
  /\ o.kind = "TABLE" =>
       /\ o = [kind |-> "TABLE", ns |-> o.ns, name |-> o.name,
               renamedFrom |-> o.renamedFrom, columns |-> o.columns,
               unfilled |-> o.unfilled]
       /\ IsFiniteSet(DOMAIN o.columns)

(* The changes of a domain are sound: those that loosen are rated          *)
(* destructive.                                                            *)
LEMMA DomainChangesSound ==
  ASSUME NEW local, NEW database, NEW o, NEW differs
  PROVE  SoundChanges(AlterDomainChanges(o, differs), local, database)
<1> DEFINE default == When("default" \in differs,
             IF o.default = Unset
               THEN AlterDomain(o, "default", "lossy", "DOMAIN DEFAULT", Unset)
               ELSE AlterDomain(o, "default", "safe", "DOMAIN DEFAULT", o.default))
           notNull == When("notNull" \in differs /\ ~ o.notNull,
             AlterDomain(o, "notNull", "destructive", "DOMAIN DROP NOT NULL", << >>))
           check == When("check" \in differs /\ o.check = Unset,
             AlterDomain(o, "check", "destructive", "DOMAIN DROP CHECK", << >>))
<1>0. ASSUME NEW key, NEW risk, NEW do, NEW with, Plainly(risk, do)
      PROVE  SoundChanges(AlterDomain(o, key, risk, do, with), local, database)
  BY <1>0, PlainDraft, OneChange DEF AlterDomain
<1>1. SoundChanges(default, local, database)
  BY <1>0, NoChange DEF When, Plainly
<1>2. SoundChanges(notNull, local, database)
  BY <1>0, NoChange DEF When, Plainly, Destroys
<1>3. SoundChanges(check, local, database)
  BY <1>0, NoChange DEF When, Plainly, Destroys
<1>4. AlterDomainChanges(o, differs) = default \o notNull \o check
  BY DEF AlterDomainChanges
<1> HIDE DEF default, notNull, check
<1>5. SoundChanges(default \o notNull, local, database)
  BY <1>1, <1>2, MoreChanges
<1> QED BY <1>3, <1>4, <1>5, MoreChanges

(* The changes of a sequence state what the definition declares, and are   *)
(* safe only when they leave the values room.                              *)
LEMMA SequenceChangesSound ==
  ASSUME NEW local, NEW database, NEW o \in local, o.kind = "SEQUENCE",
         o.options \in Declarable, NEW remote,
         remote.kind = "SEQUENCE", Read(remote, database),
         QualifiedName(remote) = QualifiedName(o)
  PROVE  LET changed == ChangedSequenceOptions(o.options, remote.options)
         IN  SoundChanges(AlterSequence(o, EffectiveSequenceOptions(o.options),
                            EffectiveSequenceOptions(remote.options), changed),
                          local, database)
<1> DEFINE changed == ChangedSequenceOptions(o.options, remote.options)
           effective == EffectiveSequenceOptions(o.options)
           previous == EffectiveSequenceOptions(remote.options)
           narrower == effective.max < previous.max \/ effective.min > previous.min
           given == [key \in changed |-> effective[key]]
           draft == ObjectDraft("ALTER", o, << >>,
                      IF narrower THEN "lossy" ELSE "safe", "ALTER SEQUENCE", given)
<1>1. /\ effective \in Readable
      /\ previous = database.sequences[QualifiedName(o)].options
      /\ previous \in Readable
  BY EffectiveReadable, ReadableIsEffective DEF Read
<1>2. changed \subseteq DOMAIN effective
  BY DEF ChangedSequenceOptions
<1>3. ~ narrower => Wider(given, previous)
  <2>1. /\ effective.max \in Int /\ previous.max \in Int
        /\ effective.min \in Int /\ previous.min \in Int
    BY <1>1 DEF Readable
  <2>2. /\ "min" \in changed => given.min = effective.min
        /\ "max" \in changed => given.max = effective.max
        /\ DOMAIN given = changed
    OBVIOUS
  <2> HIDE DEF given, changed, effective, previous
  <2> QED BY <2>1, <2>2 DEF Wider
<1>4. /\ draft.stmt.do = "ALTER SEQUENCE" /\ draft.stmt.on = QualifiedName(o)
      /\ draft.stmt.with = given /\ draft.risk = IF narrower THEN "lossy" ELSE "safe"
  BY DEF ObjectDraft, Draft
<1>5. Alters(draft.stmt, o)
  <2>1. given = [key \in DOMAIN given |-> effective[key]] /\ DOMAIN given = changed
    OBVIOUS
  <2> HIDE DEF draft, given, changed
  <2> QED BY <1>2, <1>4, <2>1 DEF Alters
<1> HIDE DEF draft, given, narrower, effective, previous, changed
<1>6. Sound(draft, local, database)
  BY <1>1, <1>3, <1>4, <1>5 DEF Sound, Statements, Destroys
<1>7. SoundChanges(<<Change(QualifiedName(o), <<draft>>)>>, local, database)
  BY <1>6, OneChange
<1> QED
  BY <1>7 DEF AlterSequence, OneStep, draft, given, narrower, effective, previous, changed

(* The drafts of one column of a table are sound.                          *)
LEMMA ColumnDraftsSound ==
  ASSUME NEW local, NEW database, NEW o, NEW remote, NEW c
  PROVE  /\ List(ColumnDrafts(o, remote, c))
         /\ \A d \in ToSet(ColumnDrafts(o, remote, c)) : Sound(d, local, database)
<1> DEFINE add == AddColumnDraft(o, c)
           drop == DropColumnDraft(o, c)
<1>1. Sound(add, local, database) /\ Sound(drop, local, database)
  BY PlainDraft DEF AddColumnDraft, DropColumnDraft, Plainly, Destroys
<1>2. ColumnDrafts(o, remote, c) \in {<< >>, <<add>>, <<drop>>, <<drop, add>>}
  BY DEF ColumnDrafts
<1> HIDE DEF add, drop
<1>3. List(<<drop, add>>) /\ ToSet(<<drop, add>>) = {drop, add}
  BY DEF List, ToSet
<1> QED BY <1>1, <1>2, <1>3, EmptyList, SingleList

(* So are those of a table both sides have,                                *)
LEMMA TableChangesSound ==
  ASSUME NEW local, NEW database, NEW o, NEW remote,
         IsFiniteSet(DOMAIN o.columns), IsFiniteSet(DOMAIN remote.columns)
  PROVE  SoundChanges(ModifyTable(o, remote), local, database)
<1> DEFINE columns == SetToSeq(DOMAIN o.columns)
                      \o SetToSeq(DOMAIN remote.columns \ DOMAIN o.columns)
           part(k) == LET drafts == ColumnDrafts(o, remote, columns[k])
                      IN  When(drafts # << >>,
                            <<Change(Append(QualifiedName(o), columns[k]), drafts)>>)
           parts == [k \in DOMAIN columns |-> part(k)]
<1>1. List(columns)
  <2>1. IsFiniteSet(DOMAIN remote.columns \ DOMAIN o.columns)
    BY FS_Difference
  <2> QED BY <2>1, SetToSeqList, ConcatList
<1>2. ASSUME NEW k \in DOMAIN columns
      PROVE  SoundChanges(part(k), local, database)
  <2> DEFINE drafts == ColumnDrafts(o, remote, columns[k])
             key == Append(QualifiedName(o), columns[k])
  <2>1. Change(key, drafts).drafts = drafts
    BY DEF Change
  <2>2. SoundChanges(<<Change(key, drafts)>>, local, database)
    BY <2>1, ColumnDraftsSound, SingleList DEF SoundChanges
  <2> QED BY <2>2, NoChange DEF When
<1>3. List(parts) /\ DOMAIN parts = DOMAIN columns
  <2>1. Len(columns) \in Nat /\ DOMAIN columns = 1..Len(columns)
    BY <1>1, ListProperties
  <2>2. parts = [k \in 1..Len(columns) |-> parts[k]] /\ DOMAIN parts = DOMAIN columns
    BY <2>1
  <2> HIDE DEF parts, columns
  <2> QED BY <2>1, <2>2, FunctionIsList
<1>4. ModifyTable(o, remote) = FlattenSeq(parts)
  BY DEF ModifyTable
<1>5. \A k \in DOMAIN parts : SoundChanges(parts[k], local, database)
  BY <1>2, <1>3
<1> HIDE DEF parts
<1>6. /\ List(FlattenSeq(parts))
      /\ ToSet(FlattenSeq(parts)) = UNION {ToSet(parts[k]) : k \in DOMAIN parts}
  BY <1>3, <1>5, FlattenList DEF SoundChanges
<1> QED BY <1>4, <1>5, <1>6 DEF SoundChanges

(* of a sequence that is created,                                          *)
LEMMA CreateSequenceSound ==
  ASSUME NEW local, NEW database, NEW o \in local, o.kind = "SEQUENCE"
  PROVE  SoundChanges(OneStep("CREATE", o, << >>, "safe", "CREATE SEQUENCE", o.options),
                      local, database)
<1> DEFINE draft == ObjectDraft("CREATE", o, << >>, "safe", "CREATE SEQUENCE", o.options)
<1>1. Sound(draft, local, database)
  BY DEF ObjectDraft, Draft, Sound, Statements, Destroys
<1> HIDE DEF draft
<1>2. SoundChanges(<<Change(QualifiedName(o), <<draft>>)>>, local, database)
  BY <1>1, OneChange
<1> QED BY <1>2 DEF OneStep, draft

(* and of a table that is created.                                         *)
LEMMA CreateTableSound ==
  ASSUME NEW local, NEW database, NEW o, IsFiniteSet(DOMAIN o.columns)
  PROVE  SoundChanges(CreateTable(o), local, database)
<1> DEFINE draft == ObjectDraft("CREATE", o, DomainsOf(o), "safe", "CREATE TABLE", o.columns)
<1>1. Sound(draft, local, database)
  BY DEF ObjectDraft, Draft, Sound, Statements, Destroys
<1> HIDE DEF draft
<1>2. SoundChanges(<<Change(QualifiedName(o), <<draft>>)>>, local, database)
  BY <1>1, OneChange
<1> QED BY <1>2 DEF CreateTable, OneStep, draft

(* What comparing one definition with its object emits is sound:           *)
(* diffObjectOperations.                                                   *)
LEMMA DiffSound ==
  ASSUME NEW local, NEW database, NEW o \in local, IsObject(o), NEW remote,
         remote = NoObject \/ (Read(remote, database) /\ QualifiedName(remote) = QualifiedName(o))
  PROVE  SoundChanges(DiffObjectOperations(o, remote).changes, local, database)
<1>1. SoundChanges(KindMismatch.changes, local, database)
  BY NoChange DEF KindMismatch, Result
<1>2. CASE o.kind = "SCHEMA"
  BY <1>1, <1>2, PlainStep, NoChange
     DEF DiffObjectOperations, DiffSchemaOperations, Result, Plainly
<1>3. CASE o.kind = "DOMAIN"
  BY <1>1, <1>3, PlainStep, DomainChangesSound, NoChange
     DEF DiffObjectOperations, DiffDomainOperations, Result, Plainly
<1>4. CASE o.kind = "TABLE"
  <2>1. IsFiniteSet(DOMAIN o.columns)
    BY <1>4 DEF IsObject
  <2>2. remote.kind = "TABLE" => IsFiniteSet(DOMAIN remote.columns)
    BY DEF Read, NoObject
  <2> QED
    BY <1>1, <1>4, <2>1, <2>2, CreateTableSound, TableChangesSound
       DEF DiffObjectOperations, DiffTableOperations, Result
<1>5. CASE o.kind = "SEQUENCE"
  <2>1. o.options \in Declarable
    BY <1>5 DEF IsObject
  <2>2. CASE remote.kind = "SEQUENCE"
    <3> DEFINE changed == ChangedSequenceOptions(o.options, remote.options)
               alter == AlterSequence(o, EffectiveSequenceOptions(o.options),
                          EffectiveSequenceOptions(remote.options), changed)
    <3>1. SoundChanges(alter, local, database)
      BY <1>5, <2>1, <2>2, SequenceChangesSound DEF NoObject
    <3>2. DiffObjectOperations(o, remote).changes = When(changed # {}, alter)
      BY <1>5, <2>2 DEF DiffObjectOperations, DiffSequenceOperations, Result
    <3> QED BY <3>1, <3>2, NoChange DEF When
  <2>3. CASE remote.kind # "SEQUENCE"
    BY <1>1, <1>5, <2>3, CreateSequenceSound
       DEF DiffObjectOperations, DiffSequenceOperations, Result
  <2> QED BY <2>2, <2>3
<1> QED BY <1>2, <1>3, <1>4, <1>5 DEF IsObject

(* What dropping one object emits is rated destructive:                    *)
(* dropObjectOperations.                                                   *)
LEMMA DropSound ==
  ASSUME NEW local, NEW database, NEW remote, Read(remote, database)
  PROVE  SoundChanges(DropObjectOperations(remote), local, database)
BY PlainStep DEF DropObjectOperations, DropTable, Read, Plainly, Destroys

-----------------------------------------------------------------------------
(* The passes of the reconciler.                                           *)

(* What holds of the accumulator between two objects.                      *)
OnTheWay(acc, local, database) ==
  /\ acc = [changes |-> acc.changes, errors |-> acc.errors, remote |-> acc.remote]
  /\ SoundChanges(acc.changes, local, database)
  /\ List(acc.remote) /\ \A o \in ToSet(acc.remote) : Read(o, database)

(* Adding the changes of one object keeps the accumulator on the way.      *)
LEMMA EmitKeeps ==
  ASSUME NEW local, NEW database, NEW acc, OnTheWay(acc, local, database),
         NEW result, SoundChanges(result.changes, local, database)
  PROVE  OnTheWay(Emit(acc, result), local, database)
<1> DEFINE new == [changes |-> acc.changes \o result.changes,
                   errors |-> acc.errors \cup result.errors, remote |-> acc.remote]
<1>1. Emit(acc, result) = new
  <2> DEFINE c == acc.changes
             e == acc.errors
             r == acc.remote
  <2>1. acc = [changes |-> c, errors |-> e, remote |-> r]
    BY DEF OnTheWay
  <2>2. Emit(acc, result)
          = [acc EXCEPT !.changes = c \o result.changes, !.errors = e \cup result.errors]
    BY DEF Emit
  <2> HIDE DEF c, e, r
  <2>3. Emit(acc, result) = [changes |-> c \o result.changes,
                             errors |-> e \cup result.errors, remote |-> r]
    BY <2>1, <2>2
  <2> QED BY <2>3 DEF c, e, r
<1>2. SoundChanges(new.changes, local, database)
  BY MoreChanges DEF OnTheWay
<1> QED BY <1>1, <1>2 DEF OnTheWay

(* Taking objects out of the remote Map does too.                          *)
LEMMA RestKeeps ==
  ASSUME NEW local, NEW database, NEW acc, OnTheWay(acc, local, database),
         NEW rest, List(rest), \A o \in ToSet(rest) : Read(o, database)
  PROVE  OnTheWay([acc EXCEPT !.remote = rest], local, database)
<1>1. [acc EXCEPT !.remote = rest]
        = [changes |-> acc.changes, errors |-> acc.errors, remote |-> rest]
  BY DEF OnTheWay
<1> QED BY <1>1 DEF OnTheWay

(* A round of the loop that renames keeps the accumulator on the way,      *)
LEMMA RenameOneKeeps ==
  ASSUME NEW local, NEW database, NEW acc, OnTheWay(acc, local, database), NEW o
  PROVE  OnTheWay(RenameOne(acc, o), local, database)
<1> DEFINE remote == Get(acc.remote, PreviousName(o))
           moved == [remote EXCEPT !.name = o.name]
           rest == SetIn(Delete(acc.remote, PreviousName(o)), moved)
           refused == Emit(acc, Result(<< >>, {"RENAME_CONFLICT"}))
           renamed == Emit(acc, Result(RenameTable(o), {}))
<1>1. OnTheWay(refused, local, database)
  BY NoChange, EmitKeeps DEF Result
<1>2. OnTheWay(renamed, local, database)
  <2>1. SoundChanges(RenameTable(o), local, database)
    BY PlainDraft, OneChange DEF RenameTable, Plainly
  <2> QED BY <2>1, EmitKeeps DEF Result
<1>3. ASSUME remote.kind = "TABLE"
      PROVE  OnTheWay([renamed EXCEPT !.remote = rest], local, database)
  <2>1. Read(remote, database)
    BY <1>3, GetThere DEF OnTheWay, NoObject
  <2>2. moved = [kind |-> "TABLE", ns |-> remote.ns, name |-> o.name,
                 renamedFrom |-> remote.renamedFrom, columns |-> remote.columns,
                 unfilled |-> remote.unfilled]
    BY <1>3, <2>1 DEF Read
  <2>3. Read(moved, database)
    BY <1>3, <2>1, <2>2 DEF Read
  <2> HIDE DEF moved, remote
  <2>4. /\ List(Delete(acc.remote, PreviousName(o)))
        /\ ToSet(Delete(acc.remote, PreviousName(o))) \subseteq ToSet(acc.remote)
    BY DeleteKeeps DEF OnTheWay
  <2>5. List(rest) /\ ToSet(rest) \subseteq ToSet(acc.remote) \cup {moved}
    BY <2>4, SetInKeeps
  <2> HIDE DEF rest, renamed
  <2> QED BY <1>2, <2>3, <2>5, RestKeeps DEF OnTheWay
<1>4. RenameOne(acc, o) =
        IF o.kind # "TABLE" \/ o.renamedFrom = Unset \/ remote.kind # "TABLE" THEN acc
        ELSE IF QualifiedName(o) \in KeysOf(acc.remote) THEN refused
        ELSE [renamed EXCEPT !.remote = rest]
  <2>1. renamed.remote = acc.remote
    BY DEF Emit, OnTheWay
  <2>2. [renamed EXCEPT !.remote = SetIn(Delete(@, PreviousName(o)), moved)]
          = [renamed EXCEPT !.remote = rest]
    <3> HIDE DEF moved, renamed
    <3> QED BY <2>1
  <2> HIDE DEF rest
  <2> QED BY <2>2, Zenon DEF RenameOne
<1> HIDE DEF refused, renamed, rest, remote
<1> QED BY <1>1, <1>3, <1>4

(* a round of the loop that compares does,                                 *)
LEMMA DiffOneKeeps ==
  ASSUME NEW local, NEW database, NEW acc, OnTheWay(acc, local, database),
         NEW o \in local, IsObject(o)
  PROVE  OnTheWay(DiffOne(acc, o), local, database)
<1> DEFINE key == QualifiedName(o)
           result == DiffObjectOperations(o, Get(acc.remote, key))
           emitted == Emit(acc, result)
<1>1. SoundChanges(result.changes, local, database)
  <2> DEFINE remote == Get(acc.remote, key)
  <2>1. remote = NoObject \/ (Read(remote, database) /\ QualifiedName(remote) = key)
    BY GetThere DEF OnTheWay
  <2> HIDE DEF remote
  <2>2. SoundChanges(DiffObjectOperations(o, remote).changes, local, database)
    BY <2>1, DiffSound
  <2> QED BY <2>2 DEF remote
<1>2. OnTheWay(emitted, local, database) /\ emitted.remote = acc.remote
  <2> HIDE DEF result
  <2>1. emitted.remote = acc.remote
    BY DEF Emit, OnTheWay
  <2> QED BY <1>1, <2>1, EmitKeeps
<1>3. /\ List(Delete(acc.remote, key))
      /\ ToSet(Delete(acc.remote, key)) \subseteq ToSet(acc.remote)
  BY DeleteKeeps DEF OnTheWay
<1>4. DiffOne(acc, o) = [emitted EXCEPT !.remote = Delete(acc.remote, key)]
  BY <1>2 DEF DiffOne
<1> HIDE DEF emitted, key
<1> QED BY <1>2, <1>3, <1>4, RestKeeps DEF OnTheWay

(* and so does a round of the loop that drops.                             *)
LEMMA DropOneKeeps ==
  ASSUME NEW local, NEW database, NEW acc, OnTheWay(acc, local, database),
         NEW o, Read(o, database)
  PROVE  OnTheWay(DropOne(acc, o), local, database)
BY DropSound, EmitKeeps DEF DropOne, Result

(* A whole pass therefore does, by induction over the objects.             *)
LEMMA PassKeeps ==
  ASSUME NEW local, NEW database, NEW base, OnTheWay(base, local, database),
         NEW pass \in {"rename", "diff", "drop"}, NEW seq, List(seq),
         \A o \in ToSet(seq) : /\ pass = "diff" => o \in local /\ IsObject(o)
                               /\ pass = "drop" => Read(o, database),
         NEW acc, Accumulates(pass, base, seq, acc)
  PROVE  OnTheWay(acc[Len(seq)], local, database)
<1> DEFINE n == Len(seq)
           S == {k \in Nat : k <= n => OnTheWay(acc[k], local, database)}
<1>1. n \in Nat /\ \A k \in 1..n : seq[k] \in ToSet(seq)
  BY ListProperties
<1>2. 0 \in S
  BY DEF Accumulates
<1>3. ASSUME NEW k \in Nat, k \in S PROVE k + 1 \in S
  <2> SUFFICES ASSUME k + 1 <= n PROVE OnTheWay(acc[k + 1], local, database)
    OBVIOUS
  <2>1. k + 1 \in 1..n /\ (k + 1) - 1 = k /\ k <= n
    BY <1>1
  <2>2. acc[k + 1] = Step(pass, acc[k], seq[k + 1]) /\ seq[k + 1] \in ToSet(seq)
    BY <1>1, <2>1 DEF Accumulates
  <2>3. OnTheWay(acc[k], local, database)
    BY <1>3, <2>1
  <2> QED
    BY <2>2, <2>3, RenameOneKeeps, DiffOneKeeps, DropOneKeeps DEF Step
<1>4. Nat \subseteq S
  <2> HIDE DEF S
  <2> QED BY <1>2, <1>3, NatSetInduction
<1> QED BY <1>1, <1>4

(* What reconciliation takes on trust of a definition.                     *)
Plannable(definition) ==
  List(definition) /\ \A o \in ToSet(definition) : IsObject(o)

(* Every change that reconciliation emits is sound, for any definition and *)
(* any database: reconcile, diffObjectOperations and dropObjectOperations  *)
(* together.                                                               *)
THEOREM ReconcileSound ==
  ASSUME NEW database, NEW definition, Plannable(definition),
         NEW introspected, List(introspected),
         \A o \in ToSet(introspected) : Read(o, database)
  PROVE  SoundChanges(Reconcile(definition, introspected).changes,
                      ToSet(MapOf(definition)), database)
<1> DEFINE map == MapOf(definition)
           local == ToSet(map)
           start == [changes |-> << >>, errors |-> {}, remote |-> MapOf(introspected)]
           renamed == FoldLeft(RenameOne, start, map)
           diffed == FoldLeft(DiffOne, renamed, map)
           all == FoldLeft(DropOne, diffed, diffed.remote)
<1>1. List(map) /\ local \subseteq ToSet(definition)
  BY MapOfObjects DEF Plannable
<1>2. OnTheWay(start, local, database)
  BY MapOfObjects, NoChange DEF OnTheWay
<1> HIDE DEF start, map
<1>3. OnTheWay(renamed, local, database)
  <2>1. PICK acc : Accumulates("rename", start, map, acc) /\ renamed = acc[Len(map)]
    BY <1>1, RenamesAccumulate
  <2> HIDE DEF renamed
  <2> QED BY <1>1, <1>2, <2>1, PassKeeps
<1> HIDE DEF renamed
<1>4. OnTheWay(diffed, local, database)
  <2>1. PICK acc : Accumulates("diff", renamed, map, acc) /\ diffed = acc[Len(map)]
    BY <1>1, DiffsAccumulate
  <2> HIDE DEF diffed
  <2> QED BY <1>1, <1>3, <2>1, PassKeeps DEF Plannable
<1> HIDE DEF diffed
<1>5. OnTheWay(all, local, database)
  <2>1. List(diffed.remote) /\ \A o \in ToSet(diffed.remote) : Read(o, database)
    BY <1>4 DEF OnTheWay
  <2>2. PICK acc : /\ Accumulates("drop", diffed, diffed.remote, acc)
                   /\ all = acc[Len(diffed.remote)]
    BY <2>1, DropsAccumulate
  <2> HIDE DEF all
  <2> QED BY <1>4, <2>1, <2>2, PassKeeps
<1>6. Reconcile(definition, introspected).changes = all.changes
  BY DEF Reconcile, Result, all, diffed, renamed, start, map
<1> HIDE DEF all
<1> QED BY <1>5, <1>6 DEF OnTheWay, map

-----------------------------------------------------------------------------
(* The drafts of a plan.                                                   *)

(* The steps of a plan come from the drafts of its changes.                *)
LEMMA StepsOfChanges ==
  ASSUME NEW changes, List(changes), \A x \in ToSet(changes) : List(x.drafts)
  PROVE  /\ List(Steps(changes))
         /\ \A y \in ToSet(Steps(changes)) :
              y.step \in Nat /\ \E x \in ToSet(changes) :
                                  y.change = x.key /\ y.draft \in ToSet(x.drafts)
<1> DEFINE steps(k) == [s \in DOMAIN changes[k].drafts |->
             [change |-> changes[k].key, step |-> s, draft |-> changes[k].drafts[s]]]
           parts == [k \in DOMAIN changes |-> steps(k)]
           From(y, x) == y.change = x.key /\ y.draft \in ToSet(x.drafts)
<1>1. /\ Len(changes) \in Nat /\ DOMAIN changes = 1..Len(changes)
      /\ \A k \in DOMAIN changes : changes[k] \in ToSet(changes)
  BY ListProperties
<1>2. ASSUME NEW k \in DOMAIN changes
      PROVE  List(steps(k)) /\ \A y \in ToSet(steps(k)) : y.step \in Nat /\ From(y, changes[k])
  <2> DEFINE drafts == changes[k].drafts
             step(s) == [change |-> changes[k].key, step |-> s, draft |-> drafts[s]]
  <2>1. List(drafts)
    BY <1>1
  <2>0. ToSet(changes[k].drafts) = ToSet(drafts)
    OBVIOUS
  <2> HIDE DEF drafts
  <2>2. /\ Len(drafts) \in Nat /\ DOMAIN drafts = 1..Len(drafts)
        /\ \A s \in DOMAIN drafts : drafts[s] \in ToSet(drafts)
    BY <2>1, ListProperties
  <2> DEFINE f == [s \in DOMAIN drafts |-> step(s)]
  <2>3. f = [s \in 1..Len(drafts) |-> f[s]]
    BY <2>2
  <2>4. \A s \in DOMAIN drafts : f[s].draft = drafts[s] /\ f[s].step = s /\ f[s].change = changes[k].key
    OBVIOUS
  <2>5. DOMAIN f = DOMAIN drafts
    OBVIOUS
  <2>6. steps(k) = f
    BY DEF drafts
  <2> HIDE DEF f
  <2>7. List(f) /\ \A x \in ToSet(f) : \E s \in DOMAIN drafts : x = f[s]
    BY <2>2, <2>3, <2>5, FunctionIsList DEF ToSet
  <2>8. \A y \in ToSet(f) : y.step \in Nat /\ From(y, changes[k])
    BY <2>0, <2>2, <2>4, <2>7
  <2> QED BY <2>6, <2>7, <2>8
<1>3. /\ DOMAIN parts = DOMAIN changes
      /\ \A k \in DOMAIN changes : parts[k] = steps(k)
      /\ parts = [k \in 1..Len(changes) |-> parts[k]]
  BY <1>1
<1>4. Steps(changes) = FlattenSeq(parts)
  BY DEF Steps
<1> HIDE DEF parts, steps, From
<1>5. List(parts)
  BY <1>1, <1>3, FunctionIsList
<1>6. /\ List(FlattenSeq(parts))
      /\ ToSet(FlattenSeq(parts)) = UNION {ToSet(parts[k]) : k \in DOMAIN parts}
  <2>1. \A k \in DOMAIN parts : List(parts[k])
    BY <1>2, <1>3
  <2> QED BY <1>5, <2>1, FlattenList
<1>7. ASSUME NEW y \in ToSet(Steps(changes))
      PROVE  y.step \in Nat /\ \E x \in ToSet(changes) : From(y, x)
  <2>1. PICK k \in DOMAIN parts : y \in ToSet(parts[k])
    BY <1>4, <1>6
  <2> QED BY <1>1, <1>2, <1>3, <2>1
<1> QED BY <1>4, <1>6, <1>7 DEF From

(* The operations of a plan are numbered in the order of its steps.        *)
LEMMA OperationsNumbered ==
  ASSUME NEW changes, List(Steps(changes))
  PROVE  LET steps == Steps(changes)
             ops == Operations(changes)
         IN  /\ IsFiniteSet(ops) /\ Cardinality(ops) = Len(steps)
             /\ \A o \in ops : o.id \in Nat
             /\ \A o, p \in ops : o.id = p.id => o = p
             /\ IdsOf(ops) = 1..Len(steps)
             /\ \A o \in ops :
                  /\ o.change = steps[o.id].change /\ o.step = steps[o.id].step
                  /\ o.type = steps[o.id].draft.type /\ o.kind = steps[o.id].draft.kind
                  /\ o.name = steps[o.id].draft.name /\ o.refs = steps[o.id].draft.refs
<1> DEFINE steps == Steps(changes)
           n == Len(steps)
           operation(k) ==
             [id |-> k, change |-> steps[k].change, step |-> steps[k].step,
              type |-> steps[k].draft.type, kind |-> steps[k].draft.kind,
              name |-> steps[k].draft.name, refs |-> steps[k].draft.refs]
           ops == {operation(k) : k \in DOMAIN steps}
<1>1. n \in Nat /\ DOMAIN steps = 1..n
  BY ListProperties
<1>2. Operations(changes) = ops
  BY DEF Operations
<1> HIDE DEF steps
<1>3. IdsOf(ops) = 1..n
  <2>1. \A k \in 1..n : operation(k) \in ops /\ operation(k).id = k
    BY <1>1
  <2>2. \A o \in ops : o.id \in 1..n
    BY <1>1
  <2> HIDE DEF ops, operation
  <2> QED BY <2>1, <2>2 DEF IdsOf
<1>4. /\ \A o \in ops : o.id \in 1..n /\ o = operation(o.id)
      /\ \A o, p \in ops : o.id = p.id => o = p
  BY <1>1
<1>5. IsFiniteSet(ops)
  <2> DEFINE f == [k \in DOMAIN steps |-> operation(k)]
  <2>1. f \in Surjection(DOMAIN steps, ops)
    BY DEF Surjection
  <2>2. IsFiniteSet(DOMAIN steps)
    BY <1>1, FS_Interval
  <2> HIDE DEF f, ops
  <2> QED BY <2>1, <2>2, FS_Surjection
<1>6. \A o \in ops :
        /\ o.change = steps[o.id].change /\ o.step = steps[o.id].step
        /\ o.type = steps[o.id].draft.type /\ o.kind = steps[o.id].draft.kind
        /\ o.name = steps[o.id].draft.name /\ o.refs = steps[o.id].draft.refs
  OBVIOUS
<1> HIDE DEF ops
<1>7. Cardinality(ops) = n
  <2>1. Cardinality(IdsOf(ops)) = Cardinality(ops)
    BY <1>4, <1>5, IdsAreCounted
  <2>2. Cardinality(1..n) = n
    <3> HIDE DEF n, operation
    <3> QED BY <1>1, FS_Interval
  <2> QED BY <1>3, <2>1, <2>2
<1>8. \A o \in ops : o.id \in Nat
  BY <1>1, <1>4
<1> QED BY <1>2, <1>3, <1>4, <1>5, <1>6, <1>7, <1>8 DEF steps, n

(* The sorted plan is a list of drafts of its steps.                       *)
LEMMA PlannedOfSteps ==
  ASSUME NEW changes, List(Steps(changes))
  PROVE  /\ List(PlannedDrafts(changes))
         /\ Len(PlannedDrafts(changes)) = Len(PlanOrder(Operations(changes)))
         /\ \A d \in ToSet(PlannedDrafts(changes)) : \E x \in ToSet(Steps(changes)) : d = x.draft
<1> DEFINE steps == Steps(changes)
           order == PlanOrder(Operations(changes))
           drafts == [k \in DOMAIN order |-> steps[order[k]].draft]
<1>1. /\ Len(steps) \in Nat /\ DOMAIN steps = 1..Len(steps)
      /\ \A k \in DOMAIN steps : steps[k] \in ToSet(steps)
  BY ListProperties
<1>2. order \in Seq(DOMAIN steps)
  <2>1. /\ IsFiniteSet(Operations(changes)) /\ \A o \in Operations(changes) : o.id \in Nat
        /\ IdsOf(Operations(changes)) = 1..Len(steps)
    BY OperationsNumbered
  <2>2. order \in Seq(IdsOf(Operations(changes)))
    BY <2>1, PlanOrderTyped
  <2> QED BY <1>1, <2>1, <2>2
<1>3. PlannedDrafts(changes) = drafts
  BY DEF PlannedDrafts
<1> HIDE DEF steps, order
<1>4. /\ Len(order) \in Nat /\ DOMAIN order = 1..Len(order)
      /\ \A k \in DOMAIN order : order[k] \in DOMAIN steps
  BY <1>2
<1>5. /\ drafts = [k \in 1..Len(order) |-> drafts[k]] /\ DOMAIN drafts = DOMAIN order
      /\ \A k \in DOMAIN order : drafts[k] = steps[order[k]].draft
  BY <1>4
<1> HIDE DEF drafts
<1>6. List(drafts) /\ Len(drafts) = Len(order)
  BY <1>4, <1>5, FunctionIsList
<1>7. \A d \in ToSet(drafts) : \E k \in DOMAIN order : d = steps[order[k]].draft
  BY <1>5 DEF ToSet
<1>8. \A d \in ToSet(drafts) : \E x \in ToSet(steps) : d = x.draft
  BY <1>1, <1>4, <1>7
<1> QED BY <1>3, <1>6, <1>8 DEF steps, order

(* Sound changes make a plan of sound drafts.                              *)
LEMMA PlannedSound ==
  ASSUME NEW local, NEW database, NEW changes, SoundChanges(changes, local, database)
  PROVE  /\ List(Steps(changes)) /\ List(PlannedDrafts(changes))
         /\ \A d \in ToSet(PlannedDrafts(changes)) : Sound(d, local, database)
<1>1. /\ List(changes) /\ \A x \in ToSet(changes) : List(x.drafts)
      /\ \A x \in ToSet(changes) : \A d \in ToSet(x.drafts) : Sound(d, local, database)
  BY DEF SoundChanges
<1>2. /\ List(Steps(changes))
      /\ \A y \in ToSet(Steps(changes)) : \E x \in ToSet(changes) : y.draft \in ToSet(x.drafts)
  BY <1>1, StepsOfChanges
<1>3. /\ List(PlannedDrafts(changes))
      /\ \A d \in ToSet(PlannedDrafts(changes)) : \E y \in ToSet(Steps(changes)) : d = y.draft
  BY <1>2, PlannedOfSteps
<1> QED BY <1>1, <1>2, <1>3

-----------------------------------------------------------------------------
(* The database: four finite maps, and what introspection makes of them.   *)

(* A function over finitely many names.                                    *)
FiniteMap(f) == IsFiniteSet(DOMAIN f) /\ f = [q \in DOMAIN f |-> f[q]]

(* A qualified name, of a namespace and a name in it.                      *)
Name(q) ==
  /\ List(q) /\ Len(q) \in {1, 2}
  /\ Len(q) = 2 => q[1] # "public"

(* A domain of the database,                                               *)
DomainRecord(r) ==
  r = [type |-> r.type, notNull |-> r.notNull, default |-> r.default, check |-> r.check]

(* a sequence,                                                             *)
SequenceRecord(r) ==
  r = [options |-> r.options, last |-> r.last] /\ r.options \in Readable

(* a table,                                                                *)
TableRecord(r) ==
  /\ r = [columns |-> r.columns]
  /\ FiniteMap(r.columns)

(* and a database, with what its parts are made of.                        *)
DatabaseOK(d) ==
  /\ d = [schemas |-> d.schemas, domains |-> d.domains,
          sequences |-> d.sequences, tables |-> d.tables]
  /\ IsFiniteSet(d.schemas)
  /\ FiniteMap(d.domains) /\ \A q \in DOMAIN d.domains : DomainRecord(d.domains[q])
  /\ FiniteMap(d.sequences)
  /\ \A q \in DOMAIN d.sequences : Name(q) /\ SequenceRecord(d.sequences[q])
  /\ FiniteMap(d.tables) /\ \A q \in DOMAIN d.tables : TableRecord(d.tables[q])

(* A name of the catalog is the qualified name of the object read from it. *)
LEMMA ReadIsQualified ==
  ASSUME NEW q, Name(q), NEW o, o.name = NameOf(q),
         IF o.kind = "SCHEMA" THEN Len(q) = 1 ELSE o.ns = NamespaceOf(q)
  PROVE  QualifiedName(o) = q
<1>1. ASSUME NEW name, q = <<name>> PROVE QualifiedName(o) = q
  <2>1. Len(q) = 1 /\ NamespaceOf(q) = "public" /\ NameOf(q) = name
    BY <1>1 DEF NamespaceOf, NameOf
  <2> QED BY <1>1, <2>1 DEF QualifiedName, HasCustomNamespace
<1>2. ASSUME NEW ns, NEW name, q = <<ns, name>>, ns # "public"
      PROVE  QualifiedName(o) = q
  <2>1. Len(q) = 2 /\ q[1] = ns /\ q[2] = name
    BY <1>2
  <2>2. NamespaceOf(q) = ns /\ NameOf(q) = name
    BY <2>1 DEF NamespaceOf, NameOf
  <2> QED BY <1>2, <2>1, <2>2 DEF QualifiedName, HasCustomNamespace
<1>3. Len(q) = 1 => q = <<q[1]>>
  BY DEF Name, List
<1>4. Len(q) = 2 => q = <<q[1], q[2]>> /\ q[1] # "public"
  BY DEF Name, List
<1> QED BY <1>1, <1>2, <1>3, <1>4 DEF Name

(* The qualified name of a declared sequence is a name in the database.    *)
LEMMA QualifiedIsName ==
  ASSUME NEW o, o.kind = "SEQUENCE"
  PROVE  Name(QualifiedName(o))
<1>1. CASE HasCustomNamespace(o)
  <2>1. QualifiedName(o) = <<o.ns, o.name>> /\ o.ns # "public"
    BY <1>1 DEF QualifiedName, HasCustomNamespace
  <2>2. List(<<o.ns, o.name>>) /\ Len(<<o.ns, o.name>>) = 2 /\ <<o.ns, o.name>>[1] = o.ns
    BY DEF List, ToSet
  <2> QED BY <2>1, <2>2 DEF Name
<1>2. CASE ~ HasCustomNamespace(o)
  <2>1. QualifiedName(o) = <<o.name>>
    BY <1>2 DEF QualifiedName
  <2> QED BY <2>1, SingleList DEF Name
<1> QED BY <1>1, <1>2

(* Introspection reads objects of the database, with the options they have *)
(* there.                                                                  *)
LEMMA IntrospectRead ==
  ASSUME NEW database, DatabaseOK(database)
  PROVE  /\ List(Introspect(database))
         /\ \A o \in ToSet(Introspect(database)) : Read(o, database)
         /\ ToSet(Introspect(database))
              = SchemaDefs(database) \cup DomainDefs(database)
                \cup TableDefs(database) \cup SequenceDefs(database)
<1> DEFINE schema(q) == [kind |-> "SCHEMA", name |-> NameOf(q)]
           domain(q) == [kind |-> "DOMAIN", ns |-> NamespaceOf(q), name |-> NameOf(q),
             type |-> database.domains[q].type, notNull |-> database.domains[q].notNull,
             default |-> database.domains[q].default, check |-> database.domains[q].check]
           table(q) == [kind |-> "TABLE", ns |-> NamespaceOf(q), name |-> NameOf(q),
             renamedFrom |-> Unset, columns |-> ColumnDefs(database.tables[q].columns),
             unfilled |-> {}]
           sequence(q) == [kind |-> "SEQUENCE", ns |-> NamespaceOf(q), name |-> NameOf(q),
             options |-> database.sequences[q].options]
<1>1. /\ SchemaDefs(database) = {schema(q) : q \in database.schemas}
      /\ DomainDefs(database) = {domain(q) : q \in DOMAIN database.domains}
      /\ TableDefs(database) = {table(q) : q \in DOMAIN database.tables}
      /\ SequenceDefs(database) = {sequence(q) : q \in DOMAIN database.sequences}
  BY DEF SchemaDefs, DomainDefs, TableDefs, SequenceDefs
<1>2. \A q \in database.schemas : Read(schema(q), database)
  BY DEF Read
<1>3. \A q \in DOMAIN database.domains : Read(domain(q), database)
  BY DEF Read
<1>4. ASSUME NEW q \in DOMAIN database.tables PROVE Read(table(q), database)
  <2>1. DOMAIN ColumnDefs(database.tables[q].columns)
          = DOMAIN database.tables[q].columns
    BY DEF ColumnDefs
  <2>2. IsFiniteSet(DOMAIN ColumnDefs(database.tables[q].columns))
    BY <2>1 DEF DatabaseOK, TableRecord, FiniteMap
  <2> QED BY <2>2 DEF Read
<1>5. ASSUME NEW q \in DOMAIN database.sequences PROVE Read(sequence(q), database)
  <2>1. QualifiedName(sequence(q)) = q
    <3>1. Name(q)
      BY DEF DatabaseOK
    <3>2. /\ sequence(q).name = NameOf(q)
          /\ sequence(q).kind # "SCHEMA" /\ sequence(q).ns = NamespaceOf(q)
      OBVIOUS
    <3> HIDE DEF sequence
    <3> QED BY <3>1, <3>2, ReadIsQualified
  <2>2. database.sequences[q].options \in Readable
    BY DEF DatabaseOK, SequenceRecord
  <2>3. sequence(q).kind = "SEQUENCE" /\ sequence(q).options = database.sequences[q].options
    OBVIOUS
  <2> HIDE DEF sequence
  <2> QED BY <2>1, <2>2, <2>3 DEF Read
<1>6. /\ IsFiniteSet(database.schemas) /\ IsFiniteSet(DOMAIN database.domains)
      /\ IsFiniteSet(DOMAIN database.tables) /\ IsFiniteSet(DOMAIN database.sequences)
  BY DEF DatabaseOK, FiniteMap
<1> HIDE DEF schema, domain, table, sequence
<1>7. IsFiniteSet(SchemaDefs(database))
  <2> DEFINE f == [q \in database.schemas |-> schema(q)]
  <2>1. f \in Surjection(database.schemas, SchemaDefs(database))
    BY <1>1 DEF Surjection
  <2> QED BY <1>6, <2>1, FS_Surjection
<1>8. IsFiniteSet(DomainDefs(database))
  <2> DEFINE f == [q \in DOMAIN database.domains |-> domain(q)]
  <2>1. f \in Surjection(DOMAIN database.domains, DomainDefs(database))
    BY <1>1 DEF Surjection
  <2> QED BY <1>6, <2>1, FS_Surjection
<1>9. IsFiniteSet(TableDefs(database))
  <2> DEFINE f == [q \in DOMAIN database.tables |-> table(q)]
  <2>1. f \in Surjection(DOMAIN database.tables, TableDefs(database))
    BY <1>1 DEF Surjection
  <2> QED BY <1>6, <2>1, FS_Surjection
<1>10. IsFiniteSet(SequenceDefs(database))
  <2> DEFINE f == [q \in DOMAIN database.sequences |-> sequence(q)]
  <2>1. f \in Surjection(DOMAIN database.sequences, SequenceDefs(database))
    BY <1>1 DEF Surjection
  <2> QED BY <1>6, <2>1, FS_Surjection
<1> DEFINE a == SetToSeq(SchemaDefs(database))
           b == SetToSeq(DomainDefs(database))
           c == SetToSeq(TableDefs(database))
           d == SetToSeq(SequenceDefs(database))
<1>11. /\ List(a) /\ ToSet(a) = SchemaDefs(database)
       /\ List(b) /\ ToSet(b) = DomainDefs(database)
       /\ List(c) /\ ToSet(c) = TableDefs(database)
       /\ List(d) /\ ToSet(d) = SequenceDefs(database)
  BY <1>7, <1>8, <1>9, <1>10, SetToSeqList
<1>12. Introspect(database) = ((a \o b) \o c) \o d
  BY DEF Introspect
<1> HIDE DEF a, b, c, d
<1>13. List(a \o b) /\ ToSet(a \o b) = SchemaDefs(database) \cup DomainDefs(database)
  BY <1>11, ConcatList
<1>14. /\ List((a \o b) \o c)
       /\ ToSet((a \o b) \o c) = ToSet(a \o b) \cup TableDefs(database)
  BY <1>11, <1>13, ConcatList
<1>15. /\ List(((a \o b) \o c) \o d)
       /\ ToSet(((a \o b) \o c) \o d) = ToSet((a \o b) \o c) \cup SequenceDefs(database)
  BY <1>11, <1>14, ConcatList
<1> QED BY <1>1, <1>2, <1>3, <1>4, <1>5, <1>12, <1>13, <1>14, <1>15

-----------------------------------------------------------------------------
(* What a statement does to the four maps.                                 *)

(* Where a map with one entry set is defined,                              *)
LEMMA WithDomain ==
  ASSUME NEW f, FiniteMap(f), NEW key, NEW value
  PROVE  /\ FiniteMap(With(f, key, value))
         /\ DOMAIN With(f, key, value) = DOMAIN f \cup {key}
<1>1. DOMAIN With(f, key, value) = DOMAIN f \cup {key}
  BY DEF With
<1>2. IsFiniteSet(DOMAIN f \cup {key})
  BY FS_AddElement DEF FiniteMap
<1> QED BY <1>1, <1>2 DEF FiniteMap, With

(* and what it holds.                                                      *)
LEMMA WithValues ==
  ASSUME NEW f, NEW key, NEW value
  PROVE  /\ With(f, key, value)[key] = value
         /\ \A q \in DOMAIN f : q # key => With(f, key, value)[q] = f[q]
BY DEF With

(* Where a map without one entry is defined,                               *)
LEMMA WithoutDomain ==
  ASSUME NEW f, FiniteMap(f), NEW key
  PROVE  /\ FiniteMap(Without(f, key))
         /\ DOMAIN Without(f, key) = DOMAIN f \ {key}
<1>1. DOMAIN Without(f, key) = DOMAIN f \ {key}
  BY DEF Without
<1>2. IsFiniteSet(DOMAIN f \ {key})
  BY FS_Difference DEF FiniteMap
<1> QED BY <1>1, <1>2 DEF FiniteMap, Without

(* and what it holds.                                                      *)
LEMMA WithoutValues ==
  ASSUME NEW f, NEW key
  PROVE  \A q \in DOMAIN f : q # key => Without(f, key)[q] = f[q]
BY DEF Without

(* A database with one of its parts replaced, written out.                 *)
LEMMA Replaced ==
  ASSUME NEW d, DatabaseOK(d), NEW x
  PROVE  /\ [d EXCEPT !.schemas = x]
              = [schemas |-> x, domains |-> d.domains,
                 sequences |-> d.sequences, tables |-> d.tables]
         /\ [d EXCEPT !.domains = x]
              = [schemas |-> d.schemas, domains |-> x,
                 sequences |-> d.sequences, tables |-> d.tables]
         /\ [d EXCEPT !.sequences = x]
              = [schemas |-> d.schemas, domains |-> d.domains,
                 sequences |-> x, tables |-> d.tables]
         /\ [d EXCEPT !.tables = x]
              = [schemas |-> d.schemas, domains |-> d.domains,
                 sequences |-> d.sequences, tables |-> x]
<1> DEFINE a == d.schemas
           b == d.domains
           c == d.sequences
           e == d.tables
<1>1. d = [schemas |-> a, domains |-> b, sequences |-> c, tables |-> e]
  BY DEF DatabaseOK
<1> HIDE DEF a, b, c, e
<1>2. /\ [d EXCEPT !.schemas = x]
           = [schemas |-> x, domains |-> b, sequences |-> c, tables |-> e]
      /\ [d EXCEPT !.domains = x]
           = [schemas |-> a, domains |-> x, sequences |-> c, tables |-> e]
      /\ [d EXCEPT !.sequences = x]
           = [schemas |-> a, domains |-> b, sequences |-> x, tables |-> e]
      /\ [d EXCEPT !.tables = x]
           = [schemas |-> a, domains |-> b, sequences |-> c, tables |-> x]
  BY <1>1
<1> QED BY <1>2 DEF a, b, c, e

(* Such a database is one when the part is of the right kind.              *)
LEMMA ReplacedOK ==
  ASSUME NEW d, DatabaseOK(d)
  PROVE  /\ \A x : IsFiniteSet(x) => DatabaseOK([d EXCEPT !.schemas = x])
         /\ \A x : FiniteMap(x) /\ (\A q \in DOMAIN x : DomainRecord(x[q]))
                     => DatabaseOK([d EXCEPT !.domains = x])
         /\ \A x : FiniteMap(x) /\ (\A q \in DOMAIN x : Name(q) /\ SequenceRecord(x[q]))
                     => DatabaseOK([d EXCEPT !.sequences = x])
         /\ \A x : FiniteMap(x) /\ (\A q \in DOMAIN x : TableRecord(x[q]))
                     => DatabaseOK([d EXCEPT !.tables = x])
BY Replaced DEF DatabaseOK

(* A draft that alters a sequence.                                         *)
AltersSequence(draft) == draft.stmt.do = "ALTER SEQUENCE"

(* What NothingLost asks of a step from d to e.                            *)
Keeps(d, e) ==
  /\ Origins(d) \subseteq Origins(e)
  /\ DOMAIN d.sequences \subseteq DOMAIN e.sequences
  /\ \A q \in DOMAIN d.domains :
       /\ q \in DOMAIN e.domains
       /\ Guards(d.domains[q]) \subseteq Guards(e.domains[q])

(* No sequence that is still there has less room than before.              *)
LeavesRoom(d, e) ==
  \A q \in DOMAIN d.sequences \cap DOMAIN e.sequences :
    /\ e.sequences[q].options.min <= d.sequences[q].options.min
    /\ e.sequences[q].options.max >= d.sequences[q].options.max

(* No ALTER SEQUENCE that is rated safe has become a narrowing one.        *)
StillSound(d, e, local) ==
  \A draft : Sound(draft, local, d) => Sound(draft, local, e)

(* A step that leaves the options of the sequences alone leaves their      *)
(* values the room they had.                                               *)
LEMMA SameRoom ==
  ASSUME NEW d, DatabaseOK(d), NEW e, NEW local,
         \A q \in DOMAIN e.sequences :
           q \in DOMAIN d.sequences /\ e.sequences[q].options = d.sequences[q].options
  PROVE  LeavesRoom(d, e) /\ StillSound(d, e, local)
<1>1. LeavesRoom(d, e)
  <2> SUFFICES ASSUME NEW q \in DOMAIN d.sequences \cap DOMAIN e.sequences
               PROVE  /\ e.sequences[q].options.min <= d.sequences[q].options.min
                      /\ e.sequences[q].options.max >= d.sequences[q].options.max
    BY DEF LeavesRoom
  <2>1. d.sequences[q].options \in Readable
    BY DEF DatabaseOK, SequenceRecord
  <2> QED BY <2>1 DEF Readable
<1>2. StillSound(d, e, local)
  BY DEF StillSound, Sound
<1> QED BY <1>1, <1>2

(* A step that leaves the domains alone keeps their guards.                *)
LEMMA SameDomainsKept ==
  ASSUME NEW d, NEW e, e.domains = d.domains
  PROVE  \A q \in DOMAIN d.domains :
           q \in DOMAIN e.domains /\ Guards(d.domains[q]) \subseteq Guards(e.domains[q])
OBVIOUS

(* The data of the columns is kept when every column is found again.       *)
LEMMA OriginsOfMore ==
  ASSUME NEW d, NEW e,
         \A t \in DOMAIN d.tables : \A c \in DOMAIN d.tables[t].columns :
           \E u \in DOMAIN e.tables : \E b \in DOMAIN e.tables[u].columns :
             e.tables[u].columns[b].origin = d.tables[t].columns[c].origin
  PROVE  Origins(d) \subseteq Origins(e)
<1> SUFFICES ASSUME NEW x \in Origins(d) PROVE x \in Origins(e)
  OBVIOUS
<1>1. PICK t \in DOMAIN d.tables : \E c \in DOMAIN d.tables[t].columns :
             x = d.tables[t].columns[c].origin
  BY DEF Origins
<1>2. PICK u \in DOMAIN e.tables : \E b \in DOMAIN e.tables[u].columns :
             e.tables[u].columns[b].origin = x
  BY <1>1
<1> QED BY <1>2 DEF Origins

(* A sequence set to what is declared, or left as it was, leaves the rest  *)
(* of the plan sound.                                                      *)
LEMMA SetSequenceStillSound ==
  ASSUME NEW d, DatabaseOK(d), NEW e, NEW local, NamedApart(local),
         NEW o \in local, IsObject(o), o.kind = "SEQUENCE",
         NEW sequence, sequence.options \in Readable,
         e.sequences = With(d.sequences, QualifiedName(o), sequence),
         \A key \in {"min", "max"} :
           \/ sequence.options[key] = EffectiveSequenceOptions(o.options)[key]
           \/ /\ QualifiedName(o) \in DOMAIN d.sequences
              /\ sequence.options[key] = d.sequences[QualifiedName(o)].options[key]
  PROVE  StillSound(d, e, local)
<1> DEFINE on == QualifiedName(o)
           effective == EffectiveSequenceOptions(o.options)
<1>1. /\ DOMAIN e.sequences = DOMAIN d.sequences \cup {on}
      /\ e.sequences[on] = sequence
      /\ \A q \in DOMAIN d.sequences : q # on => e.sequences[q] = d.sequences[q]
  <2>1. FiniteMap(d.sequences)
    BY DEF DatabaseOK
  <2> DEFINE x == With(d.sequences, on, sequence)
  <2>2. DOMAIN x = DOMAIN d.sequences \cup {on}
    BY <2>1, WithDomain
  <2>3. x[on] = sequence /\ \A q \in DOMAIN d.sequences : q # on => x[q] = d.sequences[q]
    BY WithValues
  <2>4. e.sequences = x
    OBVIOUS
  <2> HIDE DEF x
  <2> QED BY <2>2, <2>3, <2>4
<1>2. effective \in Readable
  BY EffectiveReadable DEF IsObject
<1>3. SUFFICES ASSUME NEW draft, Sound(draft, local, d), AltersSequence(draft),
                      draft.risk # "lossy", draft.stmt.on = on
               PROVE  Wider(draft.stmt.with, sequence.options)
  BY <1>1, Zenon DEF StillSound, Sound, AltersSequence
<1>4. Alters(draft.stmt, o)
  <2>1. PICK p \in local : Alters(draft.stmt, p)
    BY <1>3 DEF Sound, AltersSequence
  <2>2. QualifiedName(p) = QualifiedName(o)
    BY <1>3, <2>1 DEF Alters
  <2> QED BY <2>1, <2>2 DEF NamedApart
<1> DEFINE given == draft.stmt.with
<1>5. \A key \in DOMAIN given : given[key] = effective[key]
  BY <1>4 DEF Alters
<1>6. on \in DOMAIN d.sequences => Wider(given, d.sequences[on].options)
  BY <1>3 DEF Sound, AltersSequence
<1>7. /\ effective.min \in Int /\ effective.max \in Int
      /\ "min" \in DOMAIN given => given.min = effective.min
      /\ "max" \in DOMAIN given => given.max = effective.max
  BY <1>2, <1>5 DEF Readable
<1> HIDE DEF effective, given, on
<1>8. "min" \in DOMAIN given => given.min <= sequence.options.min
  BY <1>6, <1>7 DEF Wider, effective, on
<1>9. "max" \in DOMAIN given => given.max >= sequence.options.max
  BY <1>6, <1>7 DEF Wider, effective, on
<1> QED BY <1>8, <1>9 DEF Wider, given

(* What a statement that is accepted makes of the database.                *)
Follows(d, e, draft, local) ==
  /\ DatabaseOK(e)
  /\ draft.risk # "destructive" => Keeps(d, e)
  /\ draft.risk # "lossy" => LeavesRoom(d, e)
  /\ StillSound(d, e, local)

(* Doing nothing follows.                                                  *)
LEMMA NothingDone ==
  ASSUME NEW d, DatabaseOK(d), NEW draft, NEW local
  PROVE  Follows(d, d, draft, local)
<1>1. LeavesRoom(d, d) /\ StillSound(d, d, local)
  BY SameRoom
<1> QED BY <1>1 DEF Follows, Keeps

(* A statement on schemas loses nothing.                                   *)
LEMMA SchemasReplaced ==
  ASSUME NEW d, DatabaseOK(d), NEW draft, NEW local, NEW x, IsFiniteSet(x)
  PROVE  Follows(d, [d EXCEPT !.schemas = x], draft, local)
<1> DEFINE e == [d EXCEPT !.schemas = x]
<1>1. DatabaseOK(e)
  BY ReplacedOK
<1>2. e.domains = d.domains /\ e.sequences = d.sequences /\ e.tables = d.tables
  BY Replaced
<1> HIDE DEF e
<1>3. LeavesRoom(d, e) /\ StillSound(d, e, local)
  BY <1>2, SameRoom
<1>4. Keeps(d, e)
  BY <1>2 DEF Keeps, Origins
<1>5. Follows(d, e, draft, local)
  BY <1>1, <1>3, <1>4 DEF Follows
<1> QED BY <1>5 DEF e

(* One on domains loses no guard unless it is rated destructive.           *)
LEMMA DomainsReplaced ==
  ASSUME NEW d, DatabaseOK(d), NEW draft, NEW local, NEW x, FiniteMap(x),
         \A q \in DOMAIN x : DomainRecord(x[q]),
         draft.risk # "destructive" =>
           \A q \in DOMAIN d.domains :
             q \in DOMAIN x /\ Guards(d.domains[q]) \subseteq Guards(x[q])
  PROVE  Follows(d, [d EXCEPT !.domains = x], draft, local)
<1> DEFINE e == [d EXCEPT !.domains = x]
<1>1. DatabaseOK(e)
  BY ReplacedOK
<1>2. e.domains = x /\ e.sequences = d.sequences /\ e.tables = d.tables
  BY Replaced
<1> HIDE DEF e
<1>3. LeavesRoom(d, e) /\ StillSound(d, e, local)
  BY <1>2, SameRoom
<1>4. draft.risk # "destructive" => Keeps(d, e)
  BY <1>2 DEF Keeps, Origins
<1>5. Follows(d, e, draft, local)
  BY <1>1, <1>3, <1>4 DEF Follows
<1> QED BY <1>5 DEF e

(* One on tables loses no column unless it is rated destructive.           *)
LEMMA TablesReplaced ==
  ASSUME NEW d, DatabaseOK(d), NEW draft, NEW local, NEW x, FiniteMap(x),
         \A t \in DOMAIN x : TableRecord(x[t]),
         draft.risk # "destructive" =>
           \A t \in DOMAIN d.tables : \A c \in DOMAIN d.tables[t].columns :
             \E u \in DOMAIN x : \E b \in DOMAIN x[u].columns :
               x[u].columns[b].origin = d.tables[t].columns[c].origin
  PROVE  Follows(d, [d EXCEPT !.tables = x], draft, local)
<1> DEFINE e == [d EXCEPT !.tables = x]
<1>1. DatabaseOK(e)
  BY ReplacedOK
<1>2. e.domains = d.domains /\ e.sequences = d.sequences /\ e.tables = x
  BY Replaced
<1> HIDE DEF e
<1>3. LeavesRoom(d, e) /\ StillSound(d, e, local)
  BY <1>2, SameRoom
<1>4. draft.risk # "destructive" => Keeps(d, e)
  <2>1. draft.risk # "destructive" => Origins(d) \subseteq Origins(e)
    BY <1>2, OriginsOfMore
  <2> QED BY <1>2, <2>1 DEF Keeps
<1>5. Follows(d, e, draft, local)
  BY <1>1, <1>3, <1>4 DEF Follows
<1> QED BY <1>5 DEF e

(* A table added, or one in place of what held the same columns.           *)
LEMMA TableSet ==
  ASSUME NEW d, DatabaseOK(d), NEW draft, NEW local, NEW name, NEW columns,
         FiniteMap(columns),
         (draft.risk # "destructive" /\ name \in DOMAIN d.tables) =>
           \A c \in DOMAIN d.tables[name].columns :
             c \in DOMAIN columns /\ columns[c] = d.tables[name].columns[c]
  PROVE  Follows(d, [d EXCEPT !.tables = With(d.tables, name, [columns |-> columns])],
                 draft, local)
<1> DEFINE x == With(d.tables, name, [columns |-> columns])
<1>1. /\ FiniteMap(x) /\ DOMAIN x = DOMAIN d.tables \cup {name}
      /\ x[name] = [columns |-> columns]
      /\ \A t \in DOMAIN d.tables : t # name => x[t] = d.tables[t]
  <2>1. FiniteMap(d.tables)
    BY DEF DatabaseOK
  <2>2. FiniteMap(x) /\ DOMAIN x = DOMAIN d.tables \cup {name}
    BY <2>1, WithDomain
  <2>3. /\ x[name] = [columns |-> columns]
        /\ \A t \in DOMAIN d.tables : t # name => x[t] = d.tables[t]
    BY WithValues
  <2> QED BY <2>2, <2>3
<1> HIDE DEF x
<1>2. \A t \in DOMAIN x : TableRecord(x[t])
  BY <1>1 DEF DatabaseOK, TableRecord
<1>3. ASSUME draft.risk # "destructive", NEW t \in DOMAIN d.tables,
             NEW c \in DOMAIN d.tables[t].columns
      PROVE  /\ t \in DOMAIN x /\ c \in DOMAIN x[t].columns
             /\ x[t].columns[c].origin = d.tables[t].columns[c].origin
  BY <1>1, <1>3
<1>4. Follows(d, [d EXCEPT !.tables = x], draft, local)
  BY <1>1, <1>2, <1>3, TablesReplaced
<1> QED BY <1>4 DEF x

(* CREATE SEQUENCE loses nothing,                                          *)
LEMMA CreateSequenceFollows ==
  ASSUME NEW d, DatabaseOK(d), NEW local, NamedApart(local),
         NEW o \in local, IsObject(o), o.kind = "SEQUENCE",
         QualifiedName(o) \notin DOMAIN d.sequences, NEW draft
  PROVE  Follows(d,
           [d EXCEPT !.sequences = With(d.sequences, QualifiedName(o),
              [options |-> SequenceCreated(o.options), last |-> Unset])], draft, local)
<1> DEFINE on == QualifiedName(o)
           sequence == [options |-> SequenceCreated(o.options), last |-> Unset]
           x == With(d.sequences, on, sequence)
           e == [d EXCEPT !.sequences = x]
<1>1. /\ sequence.options = EffectiveSequenceOptions(o.options)
      /\ sequence.options \in Readable
      /\ SequenceRecord(sequence)
  <2>1. o.options \in Declarable
    BY DEF IsObject
  <2> QED BY <2>1, CreatedIsEffective, EffectiveReadable DEF SequenceRecord
<1> HIDE DEF sequence
<1>2. /\ FiniteMap(x) /\ DOMAIN x = DOMAIN d.sequences \cup {on}
      /\ x[on] = sequence
      /\ \A q \in DOMAIN d.sequences : q # on => x[q] = d.sequences[q]
  <2>1. FiniteMap(d.sequences)
    BY DEF DatabaseOK
  <2>2. FiniteMap(x) /\ DOMAIN x = DOMAIN d.sequences \cup {on}
    BY <2>1, WithDomain
  <2>3. /\ x[on] = sequence
        /\ \A q \in DOMAIN d.sequences : q # on => x[q] = d.sequences[q]
    BY WithValues
  <2> QED BY <2>2, <2>3
<1>3. Name(on)
  BY QualifiedIsName
<1>4. e.sequences = x /\ e.domains = d.domains /\ e.tables = d.tables
  BY Replaced
<1> HIDE DEF x, e
<1>5. DatabaseOK(e)
  <2>1. \A q \in DOMAIN x : Name(q) /\ SequenceRecord(x[q])
    BY <1>1, <1>2, <1>3 DEF DatabaseOK
  <2> QED BY <1>2, <2>1, ReplacedOK DEF e
<1>6. StillSound(d, e, local)
  BY <1>1, <1>4, SetSequenceStillSound DEF x
<1>7. LeavesRoom(d, e)
  <2> SUFFICES ASSUME NEW q \in DOMAIN d.sequences
               PROVE  /\ e.sequences[q].options.min <= d.sequences[q].options.min
                      /\ e.sequences[q].options.max >= d.sequences[q].options.max
    BY DEF LeavesRoom
  <2>1. e.sequences[q] = d.sequences[q] /\ d.sequences[q].options \in Readable
    BY <1>2, <1>4 DEF DatabaseOK, SequenceRecord
  <2> QED BY <2>1 DEF Readable
<1>8. Keeps(d, e)
  BY <1>2, <1>4 DEF Keeps, Origins
<1>9. Follows(d, e, draft, local)
  BY <1>5, <1>6, <1>7, <1>8 DEF Follows
<1> QED BY <1>9 DEF e, x, sequence

(* and neither does a safe ALTER SEQUENCE.                                 *)
LEMMA AlterSequenceFollows ==
  ASSUME NEW d, DatabaseOK(d), NEW local, NamedApart(local),
         NEW draft, Sound(draft, local, d), AltersSequence(draft),
         NEW o \in local, IsObject(o), Alters(draft.stmt, o),
         draft.stmt.on \in DOMAIN d.sequences
  PROVE  Follows(d,
           [d EXCEPT !.sequences[draft.stmt.on].options = SequenceAltered(@, draft.stmt.with)],
           draft, local)
<1> DEFINE on == QualifiedName(o)
           given == draft.stmt.with
           old == d.sequences[on].options
           effective == EffectiveSequenceOptions(o.options)
           options == SequenceAltered(old, given)
           sequence == [options |-> options, last |-> d.sequences[on].last]
           x == With(d.sequences, on, sequence)
           e == [d EXCEPT !.sequences = x]
<1>0. /\ draft.stmt.on = on /\ o.kind = "SEQUENCE"
      /\ d.sequences[on] = [options |-> old, last |-> d.sequences[on].last]
      /\ old \in Readable /\ FiniteMap(d.sequences) /\ Name(on)
  BY DEF Alters, DatabaseOK, SequenceRecord
<1>1. effective \in Readable
  BY <1>0, EffectiveReadable DEF IsObject
<1>2. /\ DOMAIN given \subseteq DOMAIN effective
      /\ \A key \in DOMAIN given : given[key] = effective[key]
  BY DEF Alters
<1>3. /\ \A key \in DOMAIN old : options[key] \in {old[key], effective[key]}
      /\ \A key \in DOMAIN old :
           options[key] = IF key \in DOMAIN given THEN given[key] ELSE old[key]
      /\ options \in Readable
  <2> HIDE DEF given, old, effective
  <2>1. DOMAIN old = {"increment", "min", "max", "start", "cache", "cycle"}
    BY <1>0 DEF Readable
  <2>2. \A key \in DOMAIN old : options[key] \in {old[key], effective[key]}
    BY <1>2 DEF SequenceAltered
  <2>3. options = [increment |-> options.increment, min |-> options.min,
                   max |-> options.max, start |-> options.start,
                   cache |-> options.cache, cycle |-> options.cycle]
    <3>1. options = [key \in DOMAIN old |-> options[key]]
      BY DEF SequenceAltered
    <3> HIDE DEF options
    <3> QED BY <2>1, <3>1
  <2>4. /\ options.increment \in Int /\ options.min \in Int /\ options.max \in Int
        /\ options.start \in Int /\ options.cache \in Int /\ options.cycle \in BOOLEAN
    <3> HIDE DEF options
    <3> QED BY <1>0, <1>1, <2>1, <2>2 DEF Readable
  <2>5. options \in Readable
    <3> HIDE DEF options
    <3> QED BY <2>3, <2>4 DEF Readable
  <2> QED BY <2>2, <2>5 DEF SequenceAltered
<1> HIDE DEF options
<1>4. sequence.options = options /\ SequenceRecord(sequence)
  BY <1>3 DEF SequenceRecord
<1>5. [d EXCEPT !.sequences[draft.stmt.on].options = SequenceAltered(@, draft.stmt.with)] = e
  <2> DEFINE m == d.sequences
             y == [m EXCEPT ![on].options = SequenceAltered(@, given)]
  <2>1. [d EXCEPT !.sequences[draft.stmt.on].options = SequenceAltered(@, draft.stmt.with)]
          = [d EXCEPT !.sequences = y]
    BY <1>0
  <2>2. y = x
    <3>1. /\ on \in DOMAIN m /\ m = [q \in DOMAIN m |-> m[q]]
          /\ m[on] = [options |-> old, last |-> m[on].last]
      BY <1>0 DEF FiniteMap
    <3> DEFINE last == m[on].last
    <3>2. [m[on] EXCEPT !.options = options] = [options |-> options, last |-> last]
      <4> DEFINE r == m[on]
                 v == old
      <4>1. r = [options |-> v, last |-> last]
        BY <3>1
      <4> HIDE DEF last, r, v
      <4>2. [r EXCEPT !.options = options] = [options |-> options, last |-> last]
        BY <4>1
      <4> QED BY <4>2 DEF r
    <3>3. y = [m EXCEPT ![on] = [m[on] EXCEPT !.options = options]]
      BY DEF options
    <3>4. y = [m EXCEPT ![on] = sequence]
      BY <3>2, <3>3
    <3> HIDE DEF m, sequence, y
    <3>5. DOMAIN m \cup {on} = DOMAIN m
      BY <3>1
    <3>6. [m EXCEPT ![on] = sequence] = [q \in DOMAIN m |-> IF q = on THEN sequence ELSE m[q]]
      BY <3>1
    <3>7. With(m, on, sequence) = [q \in DOMAIN m |-> IF q = on THEN sequence ELSE m[q]]
      BY <3>5 DEF With
    <3> QED BY <3>4, <3>6, <3>7 DEF m
  <2> QED BY <2>1, <2>2
<1> HIDE DEF sequence
<1>6. /\ FiniteMap(x) /\ DOMAIN x = DOMAIN d.sequences \cup {on}
      /\ x[on] = sequence
      /\ \A q \in DOMAIN d.sequences : q # on => x[q] = d.sequences[q]
  <2>1. FiniteMap(d.sequences)
    BY <1>0
  <2>2. FiniteMap(x) /\ DOMAIN x = DOMAIN d.sequences \cup {on}
    BY <2>1, WithDomain
  <2>3. /\ x[on] = sequence
        /\ \A q \in DOMAIN d.sequences : q # on => x[q] = d.sequences[q]
    BY WithValues
  <2> QED BY <2>2, <2>3
<1>7. e.sequences = x /\ e.domains = d.domains /\ e.tables = d.tables
  BY Replaced
<1> HIDE DEF x, e
<1>8. DatabaseOK(e)
  <2>1. \A q \in DOMAIN x : Name(q) /\ SequenceRecord(x[q])
    BY <1>0, <1>4, <1>6 DEF DatabaseOK
  <2> QED BY <1>6, <2>1, ReplacedOK DEF e
<1>9. StillSound(d, e, local)
  <2>1. \A key \in {"min", "max"} :
           \/ sequence.options[key] = EffectiveSequenceOptions(o.options)[key]
           \/ /\ QualifiedName(o) \in DOMAIN d.sequences
              /\ sequence.options[key] = d.sequences[QualifiedName(o)].options[key]
    BY <1>0, <1>3, <1>4 DEF Readable
  <2> QED BY <1>0, <1>3, <1>4, <1>7, <2>1, SetSequenceStillSound DEF x
<1>10. draft.risk # "lossy" => LeavesRoom(d, e)
  <2> SUFFICES ASSUME draft.risk # "lossy", NEW q \in DOMAIN d.sequences
               PROVE  /\ e.sequences[q].options.min <= d.sequences[q].options.min
                      /\ e.sequences[q].options.max >= d.sequences[q].options.max
    BY DEF LeavesRoom
  <2>1. CASE q # on
    <3> DEFINE p == d.sequences[q].options
    <3>1. e.sequences[q].options = p /\ p \in Readable
      BY <1>6, <1>7, <2>1 DEF DatabaseOK, SequenceRecord
    <3> HIDE DEF p
    <3>2. p.min \in Int /\ p.max \in Int
      BY <3>1 DEF Readable
    <3>3. p.min <= p.min /\ p.max >= p.max
      BY <3>2
    <3> QED BY <3>1, <3>3 DEF p
  <2>2. CASE q = on
    <3>1. Wider(given, old)
      BY <1>0 DEF Sound, AltersSequence
    <3>2. e.sequences[q].options = options /\ d.sequences[q].options = old
      BY <1>4, <1>6, <1>7, <2>2
    <3>3. /\ "min" \in DOMAIN old /\ "max" \in DOMAIN old
          /\ old.min \in Int /\ old.max \in Int
      BY <1>0 DEF Readable
    <3>4. /\ options.min = IF "min" \in DOMAIN given THEN given.min ELSE old.min
          /\ options.max = IF "max" \in DOMAIN given THEN given.max ELSE old.max
      BY <1>3, <3>3
    <3> HIDE DEF old, given
    <3>5. options.min <= old.min /\ options.max >= old.max
      BY <3>1, <3>3, <3>4 DEF Wider
    <3> QED BY <3>2, <3>5
  <2> QED BY <2>1, <2>2
<1>11. Keeps(d, e)
  <2>1. Origins(e) = Origins(d)
    BY <1>7 DEF Origins
  <2>2. DOMAIN d.sequences \subseteq DOMAIN e.sequences
    BY <1>6, <1>7
  <2> QED BY <1>7, <2>1, <2>2 DEF Keeps
<1>12. Follows(d, e, draft, local)
  BY <1>8, <1>9, <1>10, <1>11 DEF Follows
<1> QED BY <1>5, <1>12

(* An EXCEPT on a map that has the key is setting its entry.               *)
LEMMA ExceptIsWith ==
  ASSUME NEW f, FiniteMap(f), NEW key \in DOMAIN f, NEW value
  PROVE  [f EXCEPT ![key] = value] = With(f, key, value)
<1>1. f = [q \in DOMAIN f |-> f[q]] /\ DOMAIN f \cup {key} = DOMAIN f
  BY DEF FiniteMap
<1>2. [f EXCEPT ![key] = value] = [q \in DOMAIN f |-> IF q = key THEN value ELSE f[q]]
  BY <1>1
<1> QED BY <1>1, <1>2 DEF With

(* A domain added, or changed.                                             *)
LEMMA DomainSet ==
  ASSUME NEW d, DatabaseOK(d), NEW draft, NEW local, NEW name, NEW r, DomainRecord(r),
         (draft.risk # "destructive" /\ name \in DOMAIN d.domains) =>
           Guards(d.domains[name]) \subseteq Guards(r)
  PROVE  Follows(d, [d EXCEPT !.domains = With(d.domains, name, r)], draft, local)
<1> DEFINE x == With(d.domains, name, r)
<1>1. FiniteMap(x) /\ DOMAIN x = DOMAIN d.domains \cup {name}
  <2>1. FiniteMap(d.domains)
    BY DEF DatabaseOK
  <2> QED BY <2>1, WithDomain
<1>2. x[name] = r /\ \A q \in DOMAIN d.domains : q # name => x[q] = d.domains[q]
  BY WithValues
<1> HIDE DEF x
<1>3. \A q \in DOMAIN x : DomainRecord(x[q])
  BY <1>1, <1>2 DEF DatabaseOK
<1>4. draft.risk # "destructive" =>
        \A q \in DOMAIN d.domains :
          q \in DOMAIN x /\ Guards(d.domains[q]) \subseteq Guards(x[q])
  BY <1>1, <1>2
<1>5. Follows(d, [d EXCEPT !.domains = x], draft, local)
  BY <1>1, <1>3, <1>4, DomainsReplaced
<1> QED BY <1>5 DEF x

(* CREATE DOMAIN loses nothing,                                            *)
LEMMA CreateDomainFollows ==
  ASSUME NEW d, DatabaseOK(d), NEW draft, NEW local, NEW name, NEW with,
         name \notin DOMAIN d.domains
  PROVE  Follows(d, [d EXCEPT !.domains = With(@, name,
            [type |-> with.type, notNull |-> with.notNull,
             default |-> with.default, check |-> with.check])], draft, local)
<1> DEFINE r == [type |-> with.type, notNull |-> with.notNull,
                 default |-> with.default, check |-> with.check]
<1>1. DomainRecord(r)
  BY DEF DomainRecord
<1> HIDE DEF r
<1>2. Follows(d, [d EXCEPT !.domains = With(d.domains, name, r)], draft, local)
  BY <1>1, DomainSet
<1> QED BY <1>2 DEF r

(* ALTER DOMAIN nothing that its rating does not say,                      *)
LEMMA AlterDomainFollows ==
  ASSUME NEW d, DatabaseOK(d), NEW draft, NEW local, NEW name \in DOMAIN d.domains, NEW x
  PROVE  /\ Follows(d, [d EXCEPT !.domains[name].default = x], draft, local)
         /\ draft.risk = "destructive" =>
              /\ Follows(d, [d EXCEPT !.domains[name].notNull = x], draft, local)
              /\ Follows(d, [d EXCEPT !.domains[name].check = x], draft, local)
<1> DEFINE m == d.domains
           r == m[name]
           a == r.type
           b == r.notNull
           c == r.default
           e == r.check
           r1 == [type |-> a, notNull |-> b, default |-> x, check |-> e]
           r2 == [type |-> a, notNull |-> x, default |-> c, check |-> e]
           r3 == [type |-> a, notNull |-> b, default |-> c, check |-> x]
<1>1. FiniteMap(m) /\ name \in DOMAIN m /\ r = [type |-> a, notNull |-> b, default |-> c, check |-> e]
  BY DEF DatabaseOK, DomainRecord
<1>2. /\ [r EXCEPT !.default = x] = r1
      /\ [r EXCEPT !.notNull = x] = r2
      /\ [r EXCEPT !.check = x] = r3
  <2> HIDE DEF r, a, b, c, e
  <2> QED BY <1>1
<1>3. /\ [d EXCEPT !.domains[name].default = x]
           = [d EXCEPT !.domains = [m EXCEPT ![name] = [r EXCEPT !.default = x]]]
      /\ [d EXCEPT !.domains[name].notNull = x]
           = [d EXCEPT !.domains = [m EXCEPT ![name] = [r EXCEPT !.notNull = x]]]
      /\ [d EXCEPT !.domains[name].check = x]
           = [d EXCEPT !.domains = [m EXCEPT ![name] = [r EXCEPT !.check = x]]]
  OBVIOUS
<1> HIDE DEF r1, r2, r3
<1>4. /\ [m EXCEPT ![name] = r1] = With(m, name, r1)
      /\ [m EXCEPT ![name] = r2] = With(m, name, r2)
      /\ [m EXCEPT ![name] = r3] = With(m, name, r3)
  <2> HIDE DEF m
  <2> QED BY <1>1, ExceptIsWith
<1>5. /\ [d EXCEPT !.domains[name].default = x] = [d EXCEPT !.domains = With(m, name, r1)]
      /\ [d EXCEPT !.domains[name].notNull = x] = [d EXCEPT !.domains = With(m, name, r2)]
      /\ [d EXCEPT !.domains[name].check = x] = [d EXCEPT !.domains = With(m, name, r3)]
  BY <1>2, <1>3, <1>4
<1>6. DomainRecord(r1) /\ DomainRecord(r2) /\ DomainRecord(r3) /\ Guards(r) = Guards(r1)
  BY DEF DomainRecord, Guards, r1, r2, r3
<1>7. Follows(d, [d EXCEPT !.domains = With(m, name, r1)], draft, local)
  BY <1>6, DomainSet
<1>8. draft.risk = "destructive" =>
        /\ Follows(d, [d EXCEPT !.domains = With(m, name, r2)], draft, local)
        /\ Follows(d, [d EXCEPT !.domains = With(m, name, r3)], draft, local)
  BY <1>6, DomainSet
<1> QED BY <1>5, <1>7, <1>8

(* DROP DOMAIN is rated destructive,                                       *)
LEMMA DropDomainFollows ==
  ASSUME NEW d, DatabaseOK(d), NEW draft, draft.risk = "destructive", NEW local, NEW name
  PROVE  Follows(d, [d EXCEPT !.domains = Without(@, name)], draft, local)
<1> DEFINE x == Without(d.domains, name)
<1>1. FiniteMap(x) /\ DOMAIN x = DOMAIN d.domains \ {name}
  <2>1. FiniteMap(d.domains)
    BY DEF DatabaseOK
  <2> QED BY <2>1, WithoutDomain
<1>2. \A q \in DOMAIN d.domains : q # name => x[q] = d.domains[q]
  BY WithoutValues
<1> HIDE DEF x
<1>3. \A q \in DOMAIN x : DomainRecord(x[q])
  BY <1>1, <1>2 DEF DatabaseOK
<1>4. Follows(d, [d EXCEPT !.domains = x], draft, local)
  BY <1>1, <1>3, DomainsReplaced
<1> QED BY <1>4 DEF x

(* and so is DROP SEQUENCE.                                                *)
LEMMA DropSequenceFollows ==
  ASSUME NEW d, DatabaseOK(d), NEW draft, draft.risk = "destructive", NEW local, NEW name
  PROVE  Follows(d, [d EXCEPT !.sequences = Without(@, name)], draft, local)
<1> DEFINE x == Without(d.sequences, name)
           e == [d EXCEPT !.sequences = x]
<1>1. FiniteMap(x) /\ DOMAIN x = DOMAIN d.sequences \ {name}
  <2>1. FiniteMap(d.sequences)
    BY DEF DatabaseOK
  <2> QED BY <2>1, WithoutDomain
<1>2. \A q \in DOMAIN d.sequences : q # name => x[q] = d.sequences[q]
  BY WithoutValues
<1>3. e.sequences = x
  BY Replaced
<1> HIDE DEF x
<1>4. \A q \in DOMAIN x : Name(q) /\ SequenceRecord(x[q])
  BY <1>1, <1>2 DEF DatabaseOK
<1>5. DatabaseOK(e)
  BY <1>1, <1>4, ReplacedOK
<1> HIDE DEF e
<1>6. LeavesRoom(d, e) /\ StillSound(d, e, local)
  BY <1>1, <1>2, <1>3, SameRoom
<1>7. Follows(d, e, draft, local)
  BY <1>5, <1>6 DEF Follows
<1> QED BY <1>7 DEF e, x

(* CREATE TABLE loses nothing,                                             *)
LEMMA CreateTableFollows ==
  ASSUME NEW d, DatabaseOK(d), NEW draft, NEW local, NEW name, name \notin DOMAIN d.tables,
         NEW with, IsFiniteSet(DOMAIN with)
  PROVE  Follows(d, [d EXCEPT !.tables = With(@, name, TableCreated(name, with))],
                 draft, local)
<1> DEFINE columns == [c \in DOMAIN with |-> [domain |-> with[c], origin |-> Append(name, c)]]
<1>1. FiniteMap(columns)
  <2>1. DOMAIN columns = DOMAIN with /\ columns = [c \in DOMAIN columns |-> columns[c]]
    OBVIOUS
  <2> HIDE DEF columns
  <2> QED BY <2>1 DEF FiniteMap
<1>2. TableCreated(name, with) = [columns |-> columns]
  BY DEF TableCreated
<1> HIDE DEF columns
<1>3. Follows(d, [d EXCEPT !.tables = With(d.tables, name, [columns |-> columns])],
              draft, local)
  BY <1>1, TableSet
<1> QED BY <1>2, <1>3

(* ALTER TABLE nothing that its rating does not say,                       *)
LEMMA AlterTableFollows ==
  ASSUME NEW d, DatabaseOK(d), NEW draft, NEW local, NEW name \in DOMAIN d.tables
  PROVE  /\ \A c, v : c \notin DOMAIN d.tables[name].columns =>
              Follows(d, [d EXCEPT !.tables[name].columns = With(@, c, v)], draft, local)
         /\ draft.risk = "destructive" => \A c :
              Follows(d, [d EXCEPT !.tables[name].columns = Without(@, c)], draft, local)
<1> DEFINE m == d.tables
           old == m[name].columns
<1>1. FiniteMap(m) /\ name \in DOMAIN m /\ m[name] = [columns |-> old] /\ FiniteMap(old)
  BY DEF DatabaseOK, TableRecord
<1>2. ASSUME NEW columns
      PROVE  [d EXCEPT !.tables[name].columns = columns]
               = [d EXCEPT !.tables = With(m, name, [columns |-> columns])]
  <2> DEFINE r == m[name]
             t == [columns |-> columns]
  <2>1. [d EXCEPT !.tables[name].columns = columns]
          = [d EXCEPT !.tables = [m EXCEPT ![name] = [r EXCEPT !.columns = columns]]]
    OBVIOUS
  <2>2. [r EXCEPT !.columns = columns] = t
    <3>1. r = [columns |-> old]
      BY <1>1
    <3> HIDE DEF old, r
    <3> QED BY <3>1
  <2> HIDE DEF t
  <2>3. [m EXCEPT ![name] = t] = With(m, name, t)
    <3> HIDE DEF m
    <3> QED BY <1>1, ExceptIsWith
  <2>4. [d EXCEPT !.tables[name].columns = columns] = [d EXCEPT !.tables = With(m, name, t)]
    BY <2>1, <2>2, <2>3
  <2> QED BY <2>4 DEF t
<1>3. ASSUME NEW c, NEW v, c \notin DOMAIN old
      PROVE  Follows(d, [d EXCEPT !.tables[name].columns = With(@, c, v)], draft, local)
  <2> DEFINE columns == With(old, c, v)
  <2>1. FiniteMap(columns) /\ DOMAIN columns = DOMAIN old \cup {c}
    BY <1>1, WithDomain
  <2>2. \A b \in DOMAIN old : b # c => columns[b] = old[b]
    BY WithValues
  <2> HIDE DEF columns
  <2>3. \A b \in DOMAIN old : b \in DOMAIN columns /\ columns[b] = old[b]
    BY <1>3, <2>1, <2>2
  <2>4. Follows(d, [d EXCEPT !.tables = With(m, name, [columns |-> columns])], draft, local)
    BY <2>1, <2>3, TableSet
  <2>5. Follows(d, [d EXCEPT !.tables[name].columns = columns], draft, local)
    BY <1>2, <2>4
  <2> QED BY <2>5 DEF columns
<1>4. ASSUME draft.risk = "destructive", NEW c
      PROVE  Follows(d, [d EXCEPT !.tables[name].columns = Without(@, c)], draft, local)
  <2> DEFINE columns == Without(old, c)
  <2>1. FiniteMap(columns)
    BY <1>1, WithoutDomain
  <2> HIDE DEF columns
  <2>2. Follows(d, [d EXCEPT !.tables = With(m, name, [columns |-> columns])], draft, local)
    BY <1>4, <2>1, TableSet
  <2>3. Follows(d, [d EXCEPT !.tables[name].columns = columns], draft, local)
    BY <1>2, <2>2
  <2> QED BY <2>3 DEF columns
<1> QED BY <1>3, <1>4

(* DROP TABLE is rated destructive,                                        *)
LEMMA DropTableFollows ==
  ASSUME NEW d, DatabaseOK(d), NEW draft, draft.risk = "destructive", NEW local, NEW name
  PROVE  Follows(d, [d EXCEPT !.tables = Without(@, name)], draft, local)
<1> DEFINE x == Without(d.tables, name)
<1>1. FiniteMap(x) /\ DOMAIN x = DOMAIN d.tables \ {name}
  <2>1. FiniteMap(d.tables)
    BY DEF DatabaseOK
  <2> QED BY <2>1, WithoutDomain
<1>2. \A t \in DOMAIN d.tables : t # name => x[t] = d.tables[t]
  BY WithoutValues
<1> HIDE DEF x
<1>3. \A t \in DOMAIN x : TableRecord(x[t])
  BY <1>1, <1>2 DEF DatabaseOK
<1>4. Follows(d, [d EXCEPT !.tables = x], draft, local)
  BY <1>1, <1>3, TablesReplaced
<1> QED BY <1>4 DEF x

(* and renaming a table keeps its columns.                                 *)
LEMMA RenameTableFollows ==
  ASSUME NEW d, DatabaseOK(d), NEW draft, NEW local, NEW old \in DOMAIN d.tables,
         NEW new, new \notin DOMAIN d.tables
  PROVE  Follows(d, [d EXCEPT !.tables = With(Without(@, old), new, @[old])], draft, local)
<1> DEFINE m == d.tables
           rest == Without(m, old)
           x == With(rest, new, m[old])
<1>1. FiniteMap(m)
  BY DEF DatabaseOK
<1>2. FiniteMap(rest) /\ DOMAIN rest = DOMAIN m \ {old}
  BY <1>1, WithoutDomain
<1>3. \A t \in DOMAIN m : t # old => rest[t] = m[t]
  BY WithoutValues
<1> HIDE DEF rest
<1>4. FiniteMap(x) /\ DOMAIN x = DOMAIN rest \cup {new}
  BY <1>2, WithDomain
<1>5. x[new] = m[old] /\ \A t \in DOMAIN rest : t # new => x[t] = rest[t]
  BY WithValues
<1> HIDE DEF x
<1>6. \A t \in DOMAIN x : TableRecord(x[t])
  <2>1. \A t \in DOMAIN m : TableRecord(m[t])
    BY DEF DatabaseOK
  <2> QED BY <1>2, <1>3, <1>4, <1>5, <2>1
<1>7. ASSUME NEW t \in DOMAIN m, NEW c \in DOMAIN m[t].columns
      PROVE  \E u \in DOMAIN x : \E b \in DOMAIN x[u].columns :
               x[u].columns[b].origin = m[t].columns[c].origin
  <2>1. CASE t = old
    <3>1. new \in DOMAIN x /\ x[new] = m[t]
      BY <1>4, <1>5, <2>1
    <3> QED BY <3>1
  <2>2. CASE t # old
    <3>1. t \in DOMAIN x /\ x[t] = m[t]
      BY <1>2, <1>3, <1>4, <1>5, <2>2
    <3> QED BY <3>1
  <2> QED BY <2>1, <2>2
<1>8. Follows(d, [d EXCEPT !.tables = x], draft, local)
  BY <1>4, <1>6, <1>7, TablesReplaced
<1> QED BY <1>8 DEF x, rest, m

(* A statement of a sound draft that the database accepts does what the    *)
(* rating of its draft says, and leaves the rest of the plan sound.        *)
LEMMA AfterFollows ==
  ASSUME NEW d, DatabaseOK(d), NEW local, NamedApart(local), \A o \in local : IsObject(o),
         NEW draft, Sound(draft, local, d), Accepts(d, draft.stmt)
  PROVE  Follows(d, After(d, draft.stmt), draft, local)
<1> DEFINE s == draft.stmt
<1>0. s.do \in Statements /\ (s.do \in Destroys => draft.risk = "destructive")
  BY Zenon DEF Sound
<1>1. CASE s.do = "CREATE SCHEMA"
  <2>1. After(d, s) = [d EXCEPT !.schemas = @ \cup {s.on}]
    BY <1>1, Zenon DEF After
  <2>2. IsFiniteSet(d.schemas \cup {s.on})
    BY FS_AddElement DEF DatabaseOK
  <2> QED BY <2>1, <2>2, SchemasReplaced
<1>2. CASE s.do = "DROP SCHEMA"
  <2>1. After(d, s) = [d EXCEPT !.schemas = @ \ {s.on}]
    BY <1>2, Zenon DEF After
  <2>2. IsFiniteSet(d.schemas \ {s.on})
    BY FS_Difference DEF DatabaseOK
  <2> QED BY <2>1, <2>2, SchemasReplaced
<1>3. CASE s.do = "CREATE DOMAIN"
  <2>1. /\ After(d, s) = [d EXCEPT !.domains = With(@, s.on,
             [type |-> s.with.type, notNull |-> s.with.notNull,
              default |-> s.with.default, check |-> s.with.check])]
        /\ s.on \notin DOMAIN d.domains
    BY <1>3, Zenon DEF After, Accepts
  <2> QED BY <2>1, CreateDomainFollows
<1>4. CASE s.do = "DOMAIN DEFAULT"
  <2>1. /\ After(d, s) = [d EXCEPT !.domains[s.on].default = s.with]
        /\ s.on \in DOMAIN d.domains
    BY <1>4, Zenon DEF After, Accepts
  <2> DEFINE on == s.on
             v == s.with
  <2> HIDE DEF on, v
  <2>2. Follows(d, [d EXCEPT !.domains[on].default = v], draft, local)
    BY <2>1, AlterDomainFollows DEF on
  <2> QED BY <2>1, <2>2 DEF on, v
<1>5. CASE s.do = "DOMAIN DROP NOT NULL"
  <2>1. /\ After(d, s) = [d EXCEPT !.domains[s.on].notNull = FALSE]
        /\ s.on \in DOMAIN d.domains
        /\ draft.risk = "destructive"
    BY <1>0, <1>5, Zenon DEF After, Accepts, Destroys
  <2> DEFINE on == s.on
             v == FALSE
  <2> HIDE DEF on, v
  <2>2. Follows(d, [d EXCEPT !.domains[on].notNull = v], draft, local)
    BY <2>1, AlterDomainFollows DEF on
  <2> QED BY <2>1, <2>2 DEF on, v
<1>6. CASE s.do = "DOMAIN DROP CHECK"
  <2>1. /\ After(d, s) = [d EXCEPT !.domains[s.on].check = Unset]
        /\ s.on \in DOMAIN d.domains
        /\ draft.risk = "destructive"
    BY <1>0, <1>6, Zenon DEF After, Accepts, Destroys
  <2> DEFINE on == s.on
             v == Unset
  <2> HIDE DEF on, v
  <2>2. Follows(d, [d EXCEPT !.domains[on].check = v], draft, local)
    BY <2>1, AlterDomainFollows DEF on
  <2> QED BY <2>1, <2>2 DEF on, v
<1>7. CASE s.do = "DROP DOMAIN"
  <2>1. /\ After(d, s) = [d EXCEPT !.domains = Without(@, s.on)]
        /\ draft.risk = "destructive"
    BY <1>0, <1>7, Zenon DEF After, Destroys
  <2> QED BY <2>1, DropDomainFollows
<1>8. CASE s.do = "CREATE SEQUENCE"
  <2>1. PICK o \in local : /\ o.kind = "SEQUENCE" /\ QualifiedName(o) = s.on
                           /\ s.with = o.options
    BY <1>8, Zenon DEF Sound
  <2>2. /\ s.on \in Relations(d) => After(d, s) = d
        /\ s.on \notin Relations(d) =>
             After(d, s) = [d EXCEPT !.sequences = With(@, s.on,
               [options |-> SequenceCreated(s.with), last |-> Unset])]
    BY <1>8, Zenon DEF After
  <2>3. CASE s.on \in Relations(d)
    BY <2>2, <2>3, NothingDone
  <2>4. CASE s.on \notin Relations(d)
    <3>1. QualifiedName(o) \notin DOMAIN d.sequences
      BY <2>1, <2>4 DEF Relations
    <3>2. After(d, s) = [d EXCEPT !.sequences = With(@, QualifiedName(o),
               [options |-> SequenceCreated(o.options), last |-> Unset])]
      BY <2>1, <2>2, <2>4, Zenon
    <3> QED BY <2>1, <3>1, <3>2, CreateSequenceFollows
  <2> QED BY <2>3, <2>4
<1>9. CASE s.do = "ALTER SEQUENCE"
  <2>1. PICK o \in local : Alters(s, o)
    BY <1>9, Zenon DEF Sound
  <2>2. /\ After(d, s) = [d EXCEPT !.sequences[s.on].options = SequenceAltered(@, s.with)]
        /\ s.on \in DOMAIN d.sequences
        /\ AltersSequence(draft)
    BY <1>9, Zenon DEF After, Accepts, AltersSequence
  <2> QED BY <2>1, <2>2, AlterSequenceFollows
<1>10. CASE s.do = "DROP SEQUENCE"
  <2>1. /\ After(d, s) = [d EXCEPT !.sequences = Without(@, s.on)]
        /\ draft.risk = "destructive"
    BY <1>0, <1>10, Zenon DEF After, Destroys
  <2> QED BY <2>1, DropSequenceFollows
<1>11. CASE s.do = "CREATE TABLE"
  <2>1. /\ s.on \in Relations(d) => After(d, s) = d
        /\ s.on \notin Relations(d) =>
             After(d, s) = [d EXCEPT !.tables = With(@, s.on, TableCreated(s.on, s.with))]
        /\ IsFiniteSet(DOMAIN s.with)
    BY <1>11, Zenon DEF After, Sound
  <2>2. CASE s.on \in Relations(d)
    BY <2>1, <2>2, NothingDone
  <2>3. CASE s.on \notin Relations(d)
    <3>1. s.on \notin DOMAIN d.tables
      BY <2>3 DEF Relations
    <3> QED BY <2>1, <2>3, <3>1, CreateTableFollows
  <2> QED BY <2>2, <2>3
<1>12. CASE s.do = "ADD COLUMN"
  <2> DEFINE v == [domain |-> s.with.domain, origin |-> Append(s.on, s.with.name)]
  <2>1. /\ s.with.name \in DOMAIN d.tables[s.on].columns => After(d, s) = d
        /\ s.with.name \notin DOMAIN d.tables[s.on].columns =>
             After(d, s) = [d EXCEPT !.tables[s.on].columns = With(@, s.with.name, v)]
        /\ s.on \in DOMAIN d.tables
    BY <1>12, Zenon DEF After, Accepts
  <2> HIDE DEF v
  <2>2. CASE s.with.name \in DOMAIN d.tables[s.on].columns
    BY <2>1, <2>2, NothingDone
  <2>3. CASE s.with.name \notin DOMAIN d.tables[s.on].columns
    <3> DEFINE on == s.on
               c == s.with.name
    <3> HIDE DEF on, c
    <3>1. on \in DOMAIN d.tables /\ c \notin DOMAIN d.tables[on].columns
      BY <2>1, <2>3 DEF on, c
    <3>2. Follows(d, [d EXCEPT !.tables[on].columns = With(@, c, v)], draft, local)
      BY <3>1, AlterTableFollows
    <3> QED BY <2>1, <2>3, <3>2 DEF on, c
  <2> QED BY <2>2, <2>3
<1>13. CASE s.do = "DROP COLUMN"
  <2>1. /\ After(d, s) = [d EXCEPT !.tables[s.on].columns = Without(@, s.with.name)]
        /\ s.on \in DOMAIN d.tables
        /\ draft.risk = "destructive"
    BY <1>0, <1>13, Zenon DEF After, Accepts, Destroys
  <2> DEFINE on == s.on
             c == s.with.name
  <2> HIDE DEF on, c
  <2>2. Follows(d, [d EXCEPT !.tables[on].columns = Without(@, c)], draft, local)
    BY <2>1, AlterTableFollows DEF on
  <2> QED BY <2>1, <2>2 DEF on, c
<1>14. CASE s.do = "RENAME TABLE"
  <2>1. /\ After(d, s) = [d EXCEPT !.tables = With(Without(@, s.with), s.on, @[s.with])]
        /\ s.with \in DOMAIN d.tables /\ s.on \notin Qualified(d)
    BY <1>14, Zenon DEF After, Accepts
  <2>2. s.on \notin DOMAIN d.tables
    BY <2>1, Zenon DEF Qualified, Relations
  <2> QED BY <2>1, <2>2, RenameTableFollows
<1>15. CASE s.do = "DROP TABLE"
  <2>1. /\ After(d, s) = [d EXCEPT !.tables = Without(@, s.on)]
        /\ draft.risk = "destructive"
    BY <1>0, <1>15, Zenon DEF After, Destroys
  <2> QED BY <2>1, DropTableFollows
<1>16. \/ s.do = "CREATE SCHEMA" \/ s.do = "DROP SCHEMA" \/ s.do = "CREATE DOMAIN"
       \/ s.do = "DOMAIN DEFAULT" \/ s.do = "DOMAIN DROP NOT NULL"
       \/ s.do = "DOMAIN DROP CHECK" \/ s.do = "DROP DOMAIN" \/ s.do = "CREATE SEQUENCE"
       \/ s.do = "ALTER SEQUENCE" \/ s.do = "DROP SEQUENCE" \/ s.do = "CREATE TABLE"
       \/ s.do = "ADD COLUMN" \/ s.do = "DROP COLUMN" \/ s.do = "RENAME TABLE"
       \/ s.do = "DROP TABLE"
  BY <1>0, Zenon DEF Statements, Destroys
<1> QED
  BY <1>1, <1>2, <1>3, <1>4, <1>5, <1>6, <1>7, <1>8, <1>9, <1>10, <1>11, <1>12, <1>13,
     <1>14, <1>15, <1>16

-----------------------------------------------------------------------------
(* The inductive invariant of a deployment.                                *)

(* The releases there may be.                                              *)
Deployable == UNION {ToSet(h) : h \in Histories}

(* Every statement of the plan is allowed by its rating, and the rating    *)
(* still says what it would do.                                            *)
Planned ==
  /\ List(plan) /\ at \in Nat \ {0}
  /\ \A d \in ToSet(plan) : /\ d.risk \in allow \cup {"safe"}
                            /\ Sound(d, ToSet(MapOf(def)), db)

(* The database is one, and what is left of a plan is Planned.             *)
Inv ==
  /\ DatabaseOK(db)
  /\ releases \in Seq(Deployable)
  /\ Plannable(def)
  /\ pc = "run" => Planned

(* A release declares what reconciliation can plan for.                    *)
LEMMA DeployableIsPlannable ==
  ASSUME NEW r \in Deployable
  PROVE  Plannable(r.def)
<1>1. PICK h \in Histories : \E k \in DOMAIN h : r = h[k]
  BY DEF Deployable, ToSet
<1>2. r.def \in Seq(ToSet(r.def)) /\ \A o \in ToSet(r.def) : IsObject(o)
  BY <1>1, HistoriesAssumption
<1> QED BY <1>1, <1>2 DEF Plannable, List

(* The invariant holds at first.                                           *)
LEMMA InitInv == Init => Inv
<1> SUFFICES ASSUME Init PROVE Inv
  OBVIOUS
<1>1. DatabaseOK(db)
  <2>1. FiniteMap(<< >>) /\ DOMAIN << >> = {}
    BY FS_EmptySet DEF FiniteMap
  <2>2. /\ db = EmptyDatabase /\ db.schemas = {} /\ db.domains = << >>
        /\ db.sequences = << >> /\ db.tables = << >>
    BY DEF Init, EmptyDatabase
  <2> QED BY <2>1, <2>2, FS_EmptySet DEF DatabaseOK, EmptyDatabase
<1>2. releases \in Seq(Deployable)
  <2>1. releases \in Histories
    BY DEF Init
  <2>2. List(releases)
    BY <2>1, HistoriesAssumption, SeqIsList
  <2>3. ToSet(releases) \subseteq Deployable
    BY <2>1 DEF Deployable
  <2> QED BY <2>2, <2>3, ListInSeq
<1>3. Plannable(def)
  BY EmptyList DEF Init, Plannable
<1> QED BY <1>1, <1>2, <1>3 DEF Init, Inv

(* Planning keeps it: reconciliation emits sound drafts, and the gate has  *)
(* let their ratings pass.                                                 *)
LEMMA PlanInv ==
  ASSUME Inv, Plan
  PROVE  Inv'
<1> DEFINE result == Reconcile(def, Introspect(db))
           drafts == PlannedDrafts(result.changes)
<1>1. /\ pc' = Gate(result, drafts) /\ plan' = IF pc' = "run" THEN drafts ELSE << >>
      /\ at' = 1 /\ db' = db /\ def' = def /\ allow' = allow /\ releases' = releases
  BY DEF Plan, PlanWith
<1>2. SoundChanges(result.changes, ToSet(MapOf(def)), db)
  BY IntrospectRead, ReconcileSound DEF Inv
<1> HIDE DEF result
<1>3. List(drafts) /\ \A d \in ToSet(drafts) : Sound(d, ToSet(MapOf(def)), db)
  BY <1>2, PlannedSound
<1> HIDE DEF drafts
<1>4. ASSUME Gate(result, drafts) = "run"
      PROVE  \A d \in ToSet(drafts) : d.risk \in allow \cup {"safe"}
  <2>1. \A k \in DOMAIN drafts : drafts[k].risk \in allow \cup {"safe"}
    BY <1>4 DEF Gate
  <2> QED BY <2>1 DEF ToSet
<1>5. pc' = "run" => Planned'
  BY <1>1, <1>3, <1>4 DEF Planned
<1> QED BY <1>1, <1>5 DEF Inv

(* The statement a run is at does what its rating says.                    *)
LEMMA CurrentSound ==
  ASSUME Inv, pc = "run", at <= Len(plan), Accepts(db, Current)
  PROVE  /\ plan[at].risk \in allow \cup {"safe"}
         /\ Follows(db, After(db, Current), plan[at], ToSet(MapOf(def)))
<1>1. plan[at] \in ToSet(plan)
  <2>1. List(plan) /\ at \in Nat \ {0}
    BY DEF Inv, Planned
  <2>2. at \in 1..Len(plan)
    BY <2>1, ListProperties
  <2> QED BY <2>1, <2>2, ListProperties
<1>2. plan[at].risk \in allow \cup {"safe"} /\ Sound(plan[at], ToSet(MapOf(def)), db)
  BY <1>1 DEF Inv, Planned
<1>3. NamedApart(ToSet(MapOf(def))) /\ \A o \in ToSet(MapOf(def)) : IsObject(o)
  BY MapOfObjects DEF Inv, Plannable
<1> QED BY <1>2, <1>3, AfterFollows DEF Inv, Current

(* The application's use of a sequence keeps all of it.                    *)
LEMMA UseKeeps ==
  ASSUME NEW d, DatabaseOK(d), NEW q \in DOMAIN d.sequences, NEW x, NEW local
  PROVE  LET e == [d EXCEPT !.sequences[q].last = x]
         IN  DatabaseOK(e) /\ Keeps(d, e) /\ LeavesRoom(d, e) /\ StillSound(d, e, local)
<1> DEFINE m == d.sequences
           options == m[q].options
           r == [options |-> options, last |-> x]
           f == With(m, q, r)
           e == [d EXCEPT !.sequences = f]
<1>1. FiniteMap(m) /\ q \in DOMAIN m /\ m[q] = [options |-> options, last |-> m[q].last]
  BY DEF DatabaseOK, SequenceRecord
<1>2. [d EXCEPT !.sequences[q].last = x] = e
  <2> DEFINE s == m[q]
             last == s.last
  <2>1. [d EXCEPT !.sequences[q].last = x]
          = [d EXCEPT !.sequences = [m EXCEPT ![q] = [s EXCEPT !.last = x]]]
    OBVIOUS
  <2>2. [s EXCEPT !.last = x] = r
    <3>1. s = [options |-> options, last |-> last]
      BY <1>1
    <3> HIDE DEF options, last, s
    <3> QED BY <3>1
  <2> HIDE DEF r
  <2>3. [m EXCEPT ![q] = r] = f
    <3> HIDE DEF m
    <3> QED BY <1>1, ExceptIsWith
  <2> QED BY <2>1, <2>2, <2>3
<1>3. SequenceRecord(r) /\ r.options = options
  BY DEF SequenceRecord, DatabaseOK
<1> HIDE DEF r
<1>4. FiniteMap(f) /\ DOMAIN f = DOMAIN m
  <2>1. FiniteMap(f) /\ DOMAIN f = DOMAIN m \cup {q}
    BY <1>1, WithDomain
  <2> QED BY <2>1
<1>5. f[q] = r /\ \A p \in DOMAIN m : p # q => f[p] = m[p]
  BY WithValues
<1>6. e.sequences = f /\ e.domains = d.domains /\ e.tables = d.tables
  BY Replaced
<1> HIDE DEF f
<1>7. \A p \in DOMAIN f : /\ Name(p) /\ SequenceRecord(f[p])
                          /\ f[p].options = m[p].options
  BY <1>3, <1>4, <1>5 DEF DatabaseOK
<1>8. DatabaseOK(e)
  BY <1>4, <1>7, ReplacedOK
<1> HIDE DEF e
<1>9. LeavesRoom(d, e) /\ StillSound(d, e, local)
  BY <1>4, <1>6, <1>7, SameRoom
<1>10. Keeps(d, e)
  <2>1. Origins(e) = Origins(d)
    BY <1>6 DEF Origins
  <2> QED BY <1>4, <1>6, <2>1 DEF Keeps
<1>11. DatabaseOK(e) /\ Keeps(d, e) /\ LeavesRoom(d, e) /\ StillSound(d, e, local)
  BY <1>8, <1>9, <1>10
<1> QED BY <1>2, <1>11

(* What NothingLost says of one step.                                      *)
LosesNothing ==
  /\ "destructive" \in allow \/ Keeps(db, db')
  /\ "lossy" \in allow \/ LeavesRoom(db, db')

(* A step that leaves the database alone loses nothing.                    *)
LEMMA SameDatabase ==
  ASSUME Inv, db' = db
  PROVE  LosesNothing /\ DatabaseOK(db)'
<1>1. DatabaseOK(db) /\ LeavesRoom(db, db)
  BY SameRoom DEF Inv
<1>2. Keeps(db, db)
  BY DEF Keeps
<1> QED BY <1>1, <1>2 DEF LosesNothing

(* A step that carries out the statement loses nothing either.             *)
LEMMA ChangedDatabase ==
  ASSUME Inv, pc = "run", at <= Len(plan), Accepted, db' = After(db, Current)
  PROVE  /\ LosesNothing /\ DatabaseOK(db)'
         /\ StillSound(db, db', ToSet(MapOf(def)))
<1>1. /\ plan[at].risk \in allow \cup {"safe"}
      /\ Follows(db, db', plan[at], ToSet(MapOf(def)))
  BY CurrentSound DEF Accepted
<1> QED BY <1>1 DEF Follows, LosesNothing

(* Every step keeps the invariant and loses nothing.                       *)
LEMMA StepInv ==
  ASSUME Inv, [Next]_vars
  PROVE  Inv' /\ [LosesNothing]_vars
<1>1. CASE UNCHANGED vars
  BY <1>1 DEF vars, runVars, Inv, Planned
<1>2. CASE Deploy
  <2>1. /\ db' = db /\ pc' = "start" /\ releases # << >>
        /\ def' = Head(releases).def /\ releases' = Tail(releases)
    BY <1>2 DEF Deploy
  <2>2. Head(releases) \in Deployable /\ Tail(releases) \in Seq(Deployable)
    BY <2>1 DEF Inv
  <2>3. Plannable(def')
    BY <2>1, <2>2, DeployableIsPlannable
  <2> QED BY <2>1, <2>2, <2>3, SameDatabase DEF Inv, Plannable
<1>3. CASE Retry
  BY <1>3, SameDatabase DEF Retry, Inv, Plannable
<1>4. CASE Plan
  <2>1. db' = db
    BY <1>4 DEF Plan
  <2> QED BY <1>4, <2>1, PlanInv, SameDatabase
<1>5. CASE Execute
  <2>1. /\ pc = "run" /\ pc' = "run" /\ at <= Len(plan) /\ Accepted /\ db' = After(db, Current)
        /\ at' = at + 1 /\ def' = def /\ plan' = plan /\ allow' = allow
        /\ releases' = releases
    BY <1>5 DEF Execute
  <2>2. /\ LosesNothing /\ DatabaseOK(db)'
        /\ StillSound(db, db', ToSet(MapOf(def)))
    BY <2>1, ChangedDatabase
  <2>3. Planned'
    <3>1. /\ List(plan) /\ at \in Nat \ {0}
          /\ \A d \in ToSet(plan) : /\ d.risk \in allow \cup {"safe"}
                                    /\ Sound(d, ToSet(MapOf(def)), db)
      BY <2>1 DEF Inv, Planned
    <3>2. \A d \in ToSet(plan) : Sound(d, ToSet(MapOf(def)), db')
      BY <2>2, <3>1 DEF StillSound
    <3>3. at' \in Nat \ {0}
      BY <2>1, <3>1
    <3> QED BY <2>1, <3>1, <3>2, <3>3 DEF Planned
  <2> QED BY <2>1, <2>2, <2>3 DEF Inv, Plannable
<1>6. CASE ExecuteFails
  <2>1. /\ db' = db /\ pc' = "failed" /\ def' = def /\ releases' = releases
    BY <1>6 DEF ExecuteFails, Fail
  <2> QED BY <2>1, SameDatabase DEF Inv, Plannable
<1>7. CASE ExecuteLost
  <2>1. /\ pc = "run" /\ at <= Len(plan) /\ Accepted /\ db' \in {db, After(db, Current)}
        /\ pc' = "failed" /\ def' = def /\ releases' = releases
    BY <1>7 DEF ExecuteLost, Fail
  <2>2. LosesNothing /\ DatabaseOK(db)'
    BY <2>1, SameDatabase, ChangedDatabase
  <2> QED BY <2>1, <2>2 DEF Inv, Plannable
<1>8. CASE Finish
  <2>1. /\ db' = db /\ pc' = "done" /\ def' = def /\ releases' = releases
    BY <1>8 DEF Finish
  <2> QED BY <2>1, SameDatabase DEF Inv, Plannable
<1>9. CASE Use
  <2>1. PICK q \in DOMAIN db.sequences :
               db' = [db EXCEPT !.sequences[q].last = NextValue(db.sequences[q])]
    BY <1>9 DEF Use
  <2>2. /\ DatabaseOK(db') /\ Keeps(db, db') /\ LeavesRoom(db, db')
        /\ StillSound(db, db', ToSet(MapOf(def)))
    BY <2>1, UseKeeps DEF Inv
  <2>3. UNCHANGED <<def, allow, pc, plan, at, releases>>
    BY <1>9 DEF Use, runVars
  <2>4. Planned => Planned'
    BY <2>2, <2>3 DEF Planned, StillSound
  <2> QED BY <2>2, <2>3, <2>4 DEF Inv, Plannable, LosesNothing
<1> QED
  BY <1>1, <1>2, <1>3, <1>4, <1>5, <1>6, <1>7, <1>8, <1>9 DEF Next, Run

(* No column's data, no guard of a domain and no room of a sequence goes   *)
(* in a step of a run unless the release allowed a rating that says so:    *)
(* through planning, execution, faults and the application's own use of    *)
(* the sequences, for every history of releases. The validateRisk gate of  *)
(* the runner, the ratings of the operations and the order of execution    *)
(* together promise it.                                                    *)
THEOREM NothingIsLost == Spec => NothingLost
<1>1. Init => Inv
  BY InitInv
<1>2. Inv /\ [Next]_vars => Inv'
  BY StepInv
<1>3. Inv /\ [Next]_vars => [LosesNothing]_vars
  BY StepInv
<1> QED
  BY <1>1, <1>2, <1>3, PTL DEF Spec, NothingLost, LosesNothing, Keeps, LeavesRoom

-----------------------------------------------------------------------------
(* Names kept apart, and the order they give.                              *)

(* A name an object of this kind may have: one in use as a namespace is    *)
(* only a namespace's, one in use as a type only a domain's.               *)
NameFits(kind, q, world) ==
  /\ Name(q)
  /\ Len(q) = 2 => <<q[1]>> \in Spaces(world)
  /\ q \in Spaces(world) => kind = "SCHEMA"
  /\ q \in Types(world) => kind = "DOMAIN"
  /\ kind = "SCHEMA" => Len(q) = 1

(* The type of a column: a plain one, or one in use.                       *)
TypeFits(t, world) == t = << >> \/ t \in Types(world)

(* An object of such a name, with columns of such types.                   *)
Fits(o, world) ==
  /\ o.kind \in {"SCHEMA", "DOMAIN", "SEQUENCE", "TABLE"}
  /\ NameFits(o.kind, QualifiedName(o), world)
  /\ o.kind = "TABLE" =>
       /\ o = [kind |-> "TABLE", ns |-> o.ns, name |-> o.name,
               renamedFrom |-> o.renamedFrom, columns |-> o.columns,
               unfilled |-> o.unfilled]
       /\ IsFiniteSet(DOMAIN o.columns)
       /\ \A c \in DOMAIN o.columns : TypeFits(o.columns[c], world)

(* A qualified name is the name, or a namespace and the name.              *)
LEMMA QualifiedParts ==
  ASSUME NEW o
  PROVE  /\ Name(QualifiedName(o))
         /\ ~ HasCustomNamespace(o) =>
              QualifiedName(o) = <<o.name>> /\ Len(QualifiedName(o)) = 1
         /\ HasCustomNamespace(o) =>
              /\ QualifiedName(o) = <<o.ns, o.name>> /\ Len(QualifiedName(o)) = 2
              /\ o.ns # "public" /\ o.kind # "SCHEMA"
<1>1. CASE HasCustomNamespace(o)
  <2>1. QualifiedName(o) = <<o.ns, o.name>> /\ o.ns # "public" /\ o.kind # "SCHEMA"
    BY <1>1 DEF QualifiedName, HasCustomNamespace
  <2>2. List(<<o.ns, o.name>>) /\ Len(<<o.ns, o.name>>) = 2 /\ <<o.ns, o.name>>[1] = o.ns
    BY DEF List, ToSet
  <2> QED BY <1>1, <2>1, <2>2 DEF Name
<1>2. CASE ~ HasCustomNamespace(o)
  <2>1. QualifiedName(o) = <<o.name>>
    BY <1>2 DEF QualifiedName
  <2>2. List(<<o.name>>) /\ Len(<<o.name>>) = 1
    BY SingleList
  <2> QED BY <1>2, <2>1, <2>2 DEF Name
<1> QED BY <1>1, <1>2

(* What a world declares fits in it.                                       *)
LEMMA DeclaredFits ==
  ASSUME NEW world, NamesApart(world), NEW o \in world, IsObject(o)
  PROVE  Fits(o, world)
<1> DEFINE q == QualifiedName(o)
<1>1. o.kind \in {"SCHEMA", "DOMAIN", "SEQUENCE", "TABLE"}
  BY DEF IsObject
<1>2. NameFits(o.kind, q, world)
  <2>1. q \in Spaces(world) => o.kind = "SCHEMA"
    BY DEF NamesApart
  <2>2. q \in Types(world) => o.kind = "DOMAIN"
    BY DEF NamesApart
  <2>3. Len(q) = 2 => HasCustomNamespace(o) /\ q[1] = o.ns
    BY QualifiedParts
  <2>4. Len(q) = 2 => <<q[1]>> \in Spaces(world)
    BY <2>3 DEF Spaces
  <2>5. o.kind = "SCHEMA" => Len(q) = 1
    BY QualifiedParts
  <2> HIDE DEF q
  <2> QED BY <2>1, <2>2, <2>4, <2>5, QualifiedParts DEF NameFits, q
<1>3. CASE o.kind = "TABLE"
  <2>1. /\ o = [kind |-> "TABLE", ns |-> o.ns, name |-> o.name,
                renamedFrom |-> o.renamedFrom, columns |-> o.columns,
                unfilled |-> o.unfilled]
        /\ IsFiniteSet(DOMAIN o.columns)
    BY <1>3 DEF IsObject
  <2>2. ASSUME NEW c \in DOMAIN o.columns PROVE TypeFits(o.columns[c], world)
    <3> DEFINE columns(t) == {t.columns[d] : d \in DOMAIN t.columns}
    <3>1. columns(o) \in {columns(t) : t \in {t \in world : t.kind = "TABLE"}}
      BY <1>3
    <3>2. o.columns[c] \in columns(o)
      OBVIOUS
    <3> HIDE DEF columns
    <3>3. o.columns[c] \in UNION {columns(t) : t \in {t \in world : t.kind = "TABLE"}}
      BY <3>1, <3>2
    <3> QED BY <3>3 DEF TypeFits, Types, columns
  <2> QED BY <1>1, <1>2, <2>1, <2>2 DEF Fits
<1> QED BY <1>1, <1>2, <1>3 DEF Fits

(* The keys of the changes of an object.                                   *)
KeyOf(key, o) ==
  \/ key = QualifiedName(o)
  \/ o.kind # "SCHEMA" /\ \E y : key = Append(QualifiedName(o), y)

(* Among objects of distinct names a key is one object's: a key of two     *)
(* parts is of an object in a namespace, or else of a step of an object    *)
(* that has not the name of a namespace.                                   *)
LEMMA KeyTellsObject ==
  ASSUME NEW world, NEW o, NEW p, Fits(o, world), Fits(p, world),
         QualifiedName(o) = QualifiedName(p) => o = p,
         NEW key, KeyOf(key, o), KeyOf(key, p)
  PROVE  o = p
<1>0. ASSUME NEW a, NEW b, NEW y, Fits(a, world), Fits(b, world), a.kind # "SCHEMA",
             QualifiedName(b) = Append(QualifiedName(a), y)
      PROVE  FALSE
  <2> DEFINE q == QualifiedName(a)
             r == QualifiedName(b)
  <2>1. /\ List(q) /\ Len(q) \in {1, 2} /\ List(r) /\ Len(r) \in {1, 2}
        /\ Len(r) = 2 => <<r[1]>> \in Spaces(world)
        /\ q \notin Spaces(world)
    BY <1>0 DEF Fits, NameFits, Name
  <2>2. r = Append(q, y)
    BY <1>0
  <2> HIDE DEF q, r
  <2>3. q \in Seq(ToSet(q) \cup {y})
    BY <2>1, ListInSeq
  <2>4. Len(r) = Len(q) + 1 /\ r[1] = q[1] /\ (Len(q) = 1 => q = <<q[1]>>)
    BY <2>1, <2>2, <2>3
  <2> QED BY <2>1, <2>4
<1>1. ASSUME NEW y, NEW z, Append(QualifiedName(o), y) = Append(QualifiedName(p), z)
      PROVE  QualifiedName(o) = QualifiedName(p)
  <2> DEFINE q == QualifiedName(o)
             r == QualifiedName(p)
             S == ToSet(q) \cup ToSet(r) \cup {y, z}
  <2>1. List(q) /\ List(r) /\ Append(q, y) = Append(r, z)
    BY <1>1, QualifiedParts DEF Name
  <2> HIDE DEF q, r
  <2>2. q \in Seq(S) /\ r \in Seq(S) /\ y \in S /\ z \in S
    BY <2>1, ListInSeq
  <2> HIDE DEF S
  <2>3. Front(Append(q, y)) = q /\ Front(Append(r, z)) = r
    BY <2>2 DEF Front
  <2> QED BY <2>1, <2>3 DEF q, r
<1> QED BY <1>0, <1>1 DEF KeyOf

(* A statement brings only names and types that fit.                       *)
Adds(s, world) ==
  /\ s.do = "CREATE SCHEMA" => NameFits("SCHEMA", s.on, world)
  /\ s.do = "CREATE DOMAIN" => NameFits("DOMAIN", s.on, world)
  /\ s.do = "CREATE SEQUENCE" => NameFits("SEQUENCE", s.on, world)
  /\ s.do \in {"CREATE TABLE", "RENAME TABLE"} => NameFits("TABLE", s.on, world)
  /\ s.do = "CREATE TABLE" => \A c \in DOMAIN s.with : TypeFits(s.with[c], world)
  /\ s.do = "ADD COLUMN" => TypeFits(s.with.domain, world)

(* What a draft on an object may refer to: its namespace, and for a table  *)
(* the types of its columns.                                               *)
RefFits(o, r, world) ==
  \/ o.kind # "SCHEMA" /\ r \in Spaces(world)
  \/ o.kind = "TABLE" /\ r \in Types(world)

(* A draft on an object, of one of these types,                            *)
DraftOf(d, o, types, world) ==
  /\ d.type \in types /\ d.kind = o.kind /\ d.name = QualifiedName(o)
  /\ \A k \in DOMAIN d.refs : RefFits(o, d.refs[k], world)
  /\ Adds(d.stmt, world)

(* a change of it,                                                         *)
ChangeOf(x, o, types, world) ==
  /\ KeyOf(x.key, o)
  /\ List(x.drafts) /\ \A d \in ToSet(x.drafts) : DraftOf(d, o, types, world)

Keeping  == {"CREATE", "ALTER"}
Dropping == {"DROP"}

(* and the changes of a plan, those that drop an object and the others.    *)
ChangesOf(changes, kept, dropped, world) ==
  /\ List(changes)
  /\ \A x \in ToSet(changes) :
       \/ \E o \in kept : ChangeOf(x, o, Keeping, world)
       \/ \E o \in dropped : ChangeOf(x, o, Dropping, world)

(* No change,                                                              *)
LEMMA NoChangeOf ==
  ASSUME NEW kept, NEW dropped, NEW world
  PROVE  ChangesOf(<< >>, kept, dropped, world)
BY EmptyList DEF ChangesOf

(* a change more,                                                          *)
LEMMA OneChangeOf ==
  ASSUME NEW kept, NEW dropped, NEW world, NEW x,
         \/ \E o \in kept : ChangeOf(x, o, Keeping, world)
         \/ \E o \in dropped : ChangeOf(x, o, Dropping, world)
  PROVE  ChangesOf(<<x>>, kept, dropped, world)
BY SingleList DEF ChangesOf

(* and the changes of one object after another.                            *)
LEMMA MoreChangesOf ==
  ASSUME NEW kept, NEW dropped, NEW world, NEW a, NEW b,
         ChangesOf(a, kept, dropped, world), ChangesOf(b, kept, dropped, world)
  PROVE  ChangesOf(a \o b, kept, dropped, world)
BY ConcatList DEF ChangesOf

(* The draft of a statement refers to the namespace of its object and to   *)
(* the types it says.                                                      *)
LEMMA DraftOfObject ==
  ASSUME NEW world, NEW o, Fits(o, world), NEW types, NEW type \in types,
         NEW refs, List(refs), \A r \in ToSet(refs) : o.kind = "TABLE" /\ r \in Types(world),
         NEW risk, NEW do, NEW with,
         Adds([do |-> do, on |-> QualifiedName(o), with |-> with], world)
  PROVE  DraftOf(ObjectDraft(type, o, refs, risk, do, with), o, types, world)
<1> DEFINE all == NamespaceReference(o) \o refs
           d == ObjectDraft(type, o, refs, risk, do, with)
<1>1. /\ List(NamespaceReference(o))
      /\ \A r \in ToSet(NamespaceReference(o)) : RefFits(o, r, world)
  <2>1. CASE HasCustomNamespace(o)
    <3> DEFINE space == <<o.ns>>
    <3>1. space \in Spaces(world) /\ o.kind # "SCHEMA"
      <4>1. QualifiedName(o) = <<o.ns, o.name>> /\ Len(QualifiedName(o)) = 2
        BY <2>1, QualifiedParts
      <4>2. QualifiedName(o)[1] = o.ns
        BY <4>1
      <4> QED BY <2>1, <4>1, <4>2, QualifiedParts DEF Fits, NameFits
    <3>2. NamespaceReference(o) = <<space>>
      BY <2>1 DEF NamespaceReference
    <3> HIDE DEF space
    <3> QED BY <3>1, <3>2, SingleList DEF RefFits
  <2>2. CASE ~ HasCustomNamespace(o)
    BY <2>2, EmptyList DEF NamespaceReference
  <2> QED BY <2>1, <2>2
<1>2. List(all) /\ \A r \in ToSet(all) : RefFits(o, r, world)
  <2>1. \A r \in ToSet(refs) : RefFits(o, r, world)
    BY DEF RefFits
  <2> QED BY <1>1, <2>1, ConcatList
<1>3. \A k \in DOMAIN all : RefFits(o, all[k], world)
  BY <1>2 DEF ToSet
<1>4. /\ d.type = type /\ d.kind = o.kind /\ d.name = QualifiedName(o) /\ d.refs = all
      /\ d.stmt = [do |-> do, on |-> QualifiedName(o), with |-> with]
  BY DEF ObjectDraft, Draft
<1> HIDE DEF d, all
<1>5. DraftOf(d, o, types, world)
  BY <1>3, <1>4 DEF DraftOf
<1> QED BY <1>5 DEF d

(* A change of one statement.                                              *)
LEMMA SingleChangeOf ==
  ASSUME NEW world, NEW o, NEW types, NEW key, KeyOf(key, o),
         NEW d, DraftOf(d, o, types, world)
  PROVE  ChangeOf(Change(key, <<d>>), o, types, world)
<1>1. Change(key, <<d>>).drafts = <<d>> /\ Change(key, <<d>>).key = key
  BY DEF Change
<1> QED BY <1>1, SingleList DEF ChangeOf

(* An operation that is one statement on a fitting object.                 *)
LEMMA OneStepOf ==
  ASSUME NEW world, NEW kept, NEW dropped, NEW o, Fits(o, world), NEW type,
         \/ o \in kept /\ type \in Keeping
         \/ o \in dropped /\ type \in Dropping,
         NEW refs, List(refs), \A r \in ToSet(refs) : o.kind = "TABLE" /\ r \in Types(world),
         NEW risk, NEW do, NEW with,
         Adds([do |-> do, on |-> QualifiedName(o), with |-> with], world)
  PROVE  ChangesOf(OneStep(type, o, refs, risk, do, with), kept, dropped, world)
<1> DEFINE d == ObjectDraft(type, o, refs, risk, do, with)
           x == Change(QualifiedName(o), <<d>>)
<1>1. KeyOf(QualifiedName(o), o)
  BY DEF KeyOf
<1>2. ASSUME NEW types, type \in types PROVE ChangeOf(x, o, types, world)
  <2>1. DraftOf(d, o, types, world)
    BY <1>2, DraftOfObject
  <2> HIDE DEF d
  <2> QED BY <1>1, <2>1, SingleChangeOf
<1>3. OneStep(type, o, refs, risk, do, with) = <<x>>
  BY DEF OneStep
<1> HIDE DEF x
<1> QED BY <1>2, <1>3, OneChangeOf

(* A statement that brings neither a name nor a type.                      *)
Brings == {"CREATE SCHEMA", "CREATE DOMAIN", "CREATE SEQUENCE", "CREATE TABLE",
           "RENAME TABLE", "ADD COLUMN"}

LEMMA BringsNothing ==
  ASSUME NEW do, do \notin Brings, NEW on, NEW with, NEW world
  PROVE  Adds([do |-> do, on |-> on, with |-> with], world)
BY DEF Adds, Brings

(* The types the columns of a table use, as references.                    *)
LEMMA DomainsFit ==
  ASSUME NEW world, NEW o, Fits(o, world), o.kind = "TABLE"
  PROVE  List(DomainsOf(o)) /\ \A r \in ToSet(DomainsOf(o)) : r \in Types(world)
<1> DEFINE used == {o.columns[c] : c \in DOMAIN o.columns}
           S == used \ {<< >>}
<1>1. IsFiniteSet(used)
  <2> DEFINE f == [c \in DOMAIN o.columns |-> o.columns[c]]
  <2>1. f \in Surjection(DOMAIN o.columns, used)
    BY DEF Surjection
  <2>2. IsFiniteSet(DOMAIN o.columns)
    BY DEF Fits
  <2> HIDE DEF f, used
  <2> QED BY <2>1, <2>2, FS_Surjection
<1>2. IsFiniteSet(S)
  <2> HIDE DEF used
  <2> QED BY <1>1, FS_Difference
<1>3. S \subseteq Types(world)
  BY DEF Fits, TypeFits
<1>4. DomainsOf(o) = SetToSeq(S)
  BY DEF DomainsOf
<1> HIDE DEF S
<1> QED BY <1>2, <1>3, <1>4, SetToSeqList

(* Altering a domain.                                                      *)
LEMMA DomainChangesOf ==
  ASSUME NEW world, NEW kept, NEW dropped, NEW o \in kept, Fits(o, world),
         o.kind = "DOMAIN", NEW differs
  PROVE  ChangesOf(AlterDomainChanges(o, differs), kept, dropped, world)
<1> DEFINE default == When("default" \in differs,
             IF o.default = Unset
               THEN AlterDomain(o, "default", "lossy", "DOMAIN DEFAULT", Unset)
               ELSE AlterDomain(o, "default", "safe", "DOMAIN DEFAULT", o.default))
           notNull == When("notNull" \in differs /\ ~ o.notNull,
             AlterDomain(o, "notNull", "destructive", "DOMAIN DROP NOT NULL", << >>))
           check == When("check" \in differs /\ o.check = Unset,
             AlterDomain(o, "check", "destructive", "DOMAIN DROP CHECK", << >>))
<1>0. ASSUME NEW key, NEW risk, NEW do, NEW with, do \notin Brings
      PROVE  ChangesOf(AlterDomain(o, key, risk, do, with), kept, dropped, world)
  <2> DEFINE d == ObjectDraft("ALTER", o, << >>, risk, do, with)
             k == Append(QualifiedName(o), key)
  <2>1. DraftOf(d, o, Keeping, world)
    BY <1>0, BringsNothing, DraftOfObject, EmptyList DEF Keeping
  <2>2. KeyOf(k, o)
    BY DEF KeyOf
  <2> HIDE DEF d, k
  <2>3. ChangeOf(Change(k, <<d>>), o, Keeping, world)
    BY <2>1, <2>2, SingleChangeOf
  <2>4. AlterDomain(o, key, risk, do, with) = <<Change(k, <<d>>)>>
    BY DEF AlterDomain, d, k
  <2> QED BY <2>3, <2>4, OneChangeOf
<1>1. ChangesOf(default, kept, dropped, world)
  BY <1>0, NoChangeOf DEF When, Brings
<1>2. ChangesOf(notNull, kept, dropped, world)
  BY <1>0, NoChangeOf DEF When, Brings
<1>3. ChangesOf(check, kept, dropped, world)
  BY <1>0, NoChangeOf DEF When, Brings
<1>4. AlterDomainChanges(o, differs) = default \o notNull \o check
  BY DEF AlterDomainChanges
<1> HIDE DEF default, notNull, check
<1>5. ChangesOf(default \o notNull, kept, dropped, world)
  BY <1>1, <1>2, MoreChangesOf
<1> QED BY <1>3, <1>4, <1>5, MoreChangesOf

(* The drafts of one column: only adding it refers to its type.            *)
LEMMA ColumnDraftsOf ==
  ASSUME NEW world, NEW o, Fits(o, world), o.kind = "TABLE", NEW remote,
         NEW c \in DOMAIN o.columns \cup DOMAIN remote.columns
  PROVE  /\ List(ColumnDrafts(o, remote, c))
         /\ \A d \in ToSet(ColumnDrafts(o, remote, c)) : DraftOf(d, o, Keeping, world)
<1> DEFINE add == AddColumnDraft(o, c)
           drop == DropColumnDraft(o, c)
<1>1. DraftOf(drop, o, Keeping, world)
  <2>1. Adds([do |-> "DROP COLUMN", on |-> QualifiedName(o), with |-> [name |-> c]], world)
    BY BringsNothing DEF Brings
  <2> QED BY <2>1, DraftOfObject, EmptyList DEF DropColumnDraft, Keeping
<1>2. ASSUME c \in DOMAIN o.columns PROVE DraftOf(add, o, Keeping, world)
  <2> DEFINE type == o.columns[c]
             refs == When(type # << >>, <<type>>)
             with == [name |-> c, domain |-> type]
  <2>1. TypeFits(type, world)
    BY <1>2 DEF Fits
  <2>2. with.domain = type /\ add = ObjectDraft("ALTER", o, refs, "safe", "ADD COLUMN", with)
    BY DEF AddColumnDraft
  <2> HIDE DEF type, with, add
  <2>3. List(refs) /\ \A r \in ToSet(refs) : r \in Types(world)
    BY <2>1, EmptyList, SingleList DEF When, TypeFits
  <2>4. Adds([do |-> "ADD COLUMN", on |-> QualifiedName(o), with |-> with], world)
    BY <2>1, <2>2 DEF Adds
  <2> HIDE DEF refs
  <2> QED BY <2>2, <2>3, <2>4, DraftOfObject DEF Keeping
<1>3. /\ ColumnDrafts(o, remote, c) \in {<< >>, <<add>>, <<drop>>, <<drop, add>>}
      /\ c \notin DOMAIN o.columns => ColumnDrafts(o, remote, c) = <<drop>>
  BY DEF ColumnDrafts
<1> HIDE DEF add, drop
<1>4. List(<<drop, add>>) /\ ToSet(<<drop, add>>) = {drop, add}
  BY DEF List, ToSet
<1> QED BY <1>1, <1>2, <1>3, <1>4, EmptyList, SingleList

(* Altering a table, column by column.                                     *)
LEMMA TableChangesOf ==
  ASSUME NEW world, NEW kept, NEW dropped, NEW o \in kept, Fits(o, world),
         o.kind = "TABLE", NEW remote, IsFiniteSet(DOMAIN remote.columns)
  PROVE  ChangesOf(ModifyTable(o, remote), kept, dropped, world)
<1> DEFINE columns == SetToSeq(DOMAIN o.columns)
                      \o SetToSeq(DOMAIN remote.columns \ DOMAIN o.columns)
           part(k) == LET drafts == ColumnDrafts(o, remote, columns[k])
                      IN  When(drafts # << >>,
                            <<Change(Append(QualifiedName(o), columns[k]), drafts)>>)
           parts == [k \in DOMAIN columns |-> part(k)]
<1>1. /\ List(columns)
      /\ \A k \in DOMAIN columns : columns[k] \in DOMAIN o.columns \cup DOMAIN remote.columns
  <2>1. IsFiniteSet(DOMAIN remote.columns \ DOMAIN o.columns) /\ IsFiniteSet(DOMAIN o.columns)
    BY FS_Difference DEF Fits
  <2>2. /\ List(columns)
        /\ ToSet(columns) \subseteq DOMAIN o.columns \cup DOMAIN remote.columns
    BY <2>1, SetToSeqList, ConcatList
  <2> HIDE DEF columns
  <2> QED BY <2>2 DEF ToSet
<1>2. ASSUME NEW k \in DOMAIN columns
      PROVE  ChangesOf(part(k), kept, dropped, world)
  <2> DEFINE c == columns[k]
             drafts == ColumnDrafts(o, remote, c)
             key == Append(QualifiedName(o), c)
  <2>1. Change(key, drafts).drafts = drafts /\ Change(key, drafts).key = key
    BY DEF Change
  <2>2. KeyOf(key, o)
    BY DEF KeyOf
  <2>3. List(drafts) /\ \A d \in ToSet(drafts) : DraftOf(d, o, Keeping, world)
    BY <1>1, ColumnDraftsOf
  <2>4. part(k) = When(drafts # << >>, <<Change(key, drafts)>>)
    OBVIOUS
  <2> HIDE DEF drafts, key, part
  <2>5. ChangeOf(Change(key, drafts), o, Keeping, world)
    BY <2>1, <2>2, <2>3 DEF ChangeOf
  <2> QED BY <2>4, <2>5, NoChangeOf, OneChangeOf DEF When
<1>3. List(parts) /\ DOMAIN parts = DOMAIN columns
  <2>1. Len(columns) \in Nat /\ DOMAIN columns = 1..Len(columns)
    BY <1>1, ListProperties
  <2>2. parts = [k \in 1..Len(columns) |-> parts[k]] /\ DOMAIN parts = DOMAIN columns
    BY <2>1
  <2> HIDE DEF parts, columns
  <2> QED BY <2>1, <2>2, FunctionIsList
<1>4. ModifyTable(o, remote) = FlattenSeq(parts)
  BY DEF ModifyTable
<1>5. \A k \in DOMAIN parts : ChangesOf(parts[k], kept, dropped, world)
  BY <1>2, <1>3
<1> HIDE DEF parts
<1>6. /\ List(FlattenSeq(parts))
      /\ ToSet(FlattenSeq(parts)) = UNION {ToSet(parts[k]) : k \in DOMAIN parts}
  BY <1>3, <1>5, FlattenList DEF ChangesOf
<1> QED BY <1>4, <1>5, <1>6 DEF ChangesOf

(* What comparing one definition with its object emits are changes of that *)
(* definition.                                                             *)
LEMMA DiffOf ==
  ASSUME NEW world, NEW kept, NEW dropped, NEW o \in kept, Fits(o, world),
         NEW remote, remote = NoObject \/ Fits(remote, world)
  PROVE  ChangesOf(DiffObjectOperations(o, remote).changes, kept, dropped, world)
<1> DEFINE q == QualifiedName(o)
<1>0. /\ NameFits(o.kind, q, world)
      /\ \A with : ~ (o.kind = "SCHEMA" /\ ~ Adds([do |-> "CREATE SCHEMA", on |-> q, with |-> with], world))
      /\ \A with : ~ (o.kind = "DOMAIN" /\ ~ Adds([do |-> "CREATE DOMAIN", on |-> q, with |-> with], world))
      /\ \A with : ~ (o.kind = "SEQUENCE" /\ ~ Adds([do |-> "CREATE SEQUENCE", on |-> q, with |-> with], world))
      /\ o.kind = "TABLE" => Adds([do |-> "CREATE TABLE", on |-> q, with |-> o.columns], world)
  BY DEF Fits, Adds
<1>1. ChangesOf(KindMismatch.changes, kept, dropped, world)
  BY NoChangeOf DEF KindMismatch, Result
<1>2. CASE o.kind = "SCHEMA"
  BY <1>0, <1>1, <1>2, OneStepOf, NoChangeOf, EmptyList
     DEF DiffObjectOperations, DiffSchemaOperations, Result, Keeping
<1>3. CASE o.kind = "DOMAIN"
  BY <1>0, <1>1, <1>3, OneStepOf, DomainChangesOf, NoChangeOf, EmptyList
     DEF DiffObjectOperations, DiffDomainOperations, Result, Keeping
<1>4. CASE o.kind = "TABLE"
  <2>1. ChangesOf(CreateTable(o), kept, dropped, world)
    BY <1>0, <1>4, OneStepOf, DomainsFit DEF CreateTable, Keeping
  <2>2. remote.kind = "TABLE" => ChangesOf(ModifyTable(o, remote), kept, dropped, world)
    BY <1>4, TableChangesOf DEF Fits, NoObject
  <2> QED
    BY <1>1, <1>4, <2>1, <2>2 DEF DiffObjectOperations, DiffTableOperations, Result
<1>5. CASE o.kind = "SEQUENCE"
  <2>1. ASSUME NEW risk, NEW with
        PROVE  ChangesOf(OneStep("ALTER", o, << >>, risk, "ALTER SEQUENCE", with),
                         kept, dropped, world)
    BY BringsNothing, OneStepOf, EmptyList DEF Keeping, Brings
  <2>2. ChangesOf(OneStep("CREATE", o, << >>, "safe", "CREATE SEQUENCE", o.options),
                  kept, dropped, world)
    BY <1>0, <1>5, OneStepOf, EmptyList DEF Keeping
  <2> QED
    BY <1>1, <1>5, <2>1, <2>2, NoChangeOf
       DEF DiffObjectOperations, DiffSequenceOperations, AlterSequence, Result, When
<1> QED BY <1>2, <1>3, <1>4, <1>5 DEF Fits

(* Renaming a table is a change of its definition,                         *)
LEMMA RenameOf ==
  ASSUME NEW world, NEW kept, NEW dropped, NEW o \in kept, Fits(o, world), o.kind = "TABLE"
  PROVE  ChangesOf(RenameTable(o), kept, dropped, world)
<1> DEFINE key == Append(QualifiedName(o), "(rename)")
           d == ObjectDraft("ALTER", o, << >>, "safe", "RENAME TABLE", PreviousName(o))
<1>1. Adds([do |-> "RENAME TABLE", on |-> QualifiedName(o), with |-> PreviousName(o)], world)
  BY DEF Fits, Adds
<1>2. DraftOf(d, o, Keeping, world)
  BY <1>1, DraftOfObject, EmptyList DEF Keeping
<1>3. KeyOf(key, o)
  BY DEF KeyOf
<1>4. RenameTable(o) = <<Change(key, <<d>>)>>
  BY DEF RenameTable
<1> HIDE DEF key, d
<1> QED BY <1>2, <1>3, <1>4, SingleChangeOf, OneChangeOf

(* and dropping what is left one of its object.                            *)
LEMMA DropOf ==
  ASSUME NEW world, NEW kept, NEW dropped, NEW o \in dropped, Fits(o, world)
  PROVE  ChangesOf(DropObjectOperations(o), kept, dropped, world)
<1>1. ASSUME NEW do, do \notin Brings, NEW refs, List(refs),
             \A r \in ToSet(refs) : o.kind = "TABLE" /\ r \in Types(world)
      PROVE  ChangesOf(OneStep("DROP", o, refs, "destructive", do, << >>),
                       kept, dropped, world)
  BY <1>1, BringsNothing, OneStepOf DEF Dropping
<1>2. CASE o.kind = "TABLE"
  BY <1>1, <1>2, DomainsFit DEF DropObjectOperations, DropTable, Brings
<1>3. CASE o.kind \in {"SCHEMA", "DOMAIN", "SEQUENCE"}
  BY <1>1, <1>3, EmptyList DEF DropObjectOperations, Brings
<1> QED BY <1>2, <1>3 DEF Fits

(* Map.delete leaves nothing of that name.                                 *)
LEMMA DeleteRemoves ==
  ASSUME NEW map, List(map), NEW key
  PROVE  \A o \in ToSet(Delete(map, key)) : QualifiedName(o) # key
<1> DEFINE parts == [k \in DOMAIN map |->
                       IF QualifiedName(map[k]) = key THEN << >> ELSE <<map[k]>>]
<1>0. Len(map) \in Nat /\ DOMAIN map = 1..Len(map)
  BY ListProperties
<1>1. parts = [k \in 1..Len(map) |-> parts[k]] /\ DOMAIN parts = DOMAIN map
  BY <1>0
<1>2. ASSUME NEW k \in DOMAIN map
      PROVE  List(parts[k]) /\ \A o \in ToSet(parts[k]) : QualifiedName(o) # key
  <2>1. CASE QualifiedName(map[k]) = key
    BY <2>1, EmptyList
  <2>2. CASE QualifiedName(map[k]) # key
    <3>1. parts[k] = <<map[k]>>
      BY <2>2
    <3> HIDE DEF parts
    <3> QED BY <2>2, <3>1, SingleList
  <2> QED BY <2>1, <2>2
<1>3. Delete(map, key) = FlattenSeq(parts)
  BY DEF Delete
<1> HIDE DEF parts
<1>4. List(parts)
  BY <1>0, <1>1, FunctionIsList
<1>5. ToSet(FlattenSeq(parts)) = UNION {ToSet(parts[k]) : k \in DOMAIN parts}
  BY <1>1, <1>2, <1>4, FlattenList
<1>6. ASSUME NEW o \in ToSet(Delete(map, key)) PROVE QualifiedName(o) # key
  <2>1. PICK k \in DOMAIN parts : o \in ToSet(parts[k])
    BY <1>3, <1>5, <1>6
  <2> QED BY <1>1, <1>2, <2>1
<1> QED BY <1>6

(* What holds of the accumulator between two objects: its changes are of   *)
(* declared objects and of dropped ones, what is left of the database fits *)
(* and has each name once.                                                 *)
Placed(acc, kept, dropped, world) ==
  /\ acc = [changes |-> acc.changes, errors |-> acc.errors, remote |-> acc.remote]
  /\ ChangesOf(acc.changes, kept, dropped, world)
  /\ List(acc.remote) /\ NamedApart(ToSet(acc.remote))
  /\ \A o \in ToSet(acc.remote) : Fits(o, world)

(* Emitting changes of objects keeps it,                                   *)
LEMMA EmitPlaced ==
  ASSUME NEW world, NEW kept, NEW dropped, NEW acc, Placed(acc, kept, dropped, world),
         NEW result, ChangesOf(result.changes, kept, dropped, world)
  PROVE  Placed(Emit(acc, result), kept, dropped, world) /\ Emit(acc, result).remote = acc.remote
<1> DEFINE c == acc.changes
           e == acc.errors
           r == acc.remote
           new == [changes |-> c \o result.changes,
                   errors |-> e \cup result.errors, remote |-> r]
<1>1. acc = [changes |-> c, errors |-> e, remote |-> r]
  BY DEF Placed
<1>2. Emit(acc, result)
        = [acc EXCEPT !.changes = c \o result.changes, !.errors = e \cup result.errors]
  BY DEF Emit
<1>3. ChangesOf(c \o result.changes, kept, dropped, world)
  BY MoreChangesOf DEF Placed
<1> HIDE DEF c, e, r
<1>4. Emit(acc, result) = new
  BY <1>1, <1>2
<1>5. new.changes = c \o result.changes /\ new.errors = e \cup result.errors /\ new.remote = r
  OBVIOUS
<1> HIDE DEF new
<1>6. Placed(new, kept, dropped, world)
  <2>1. new = [changes |-> new.changes, errors |-> new.errors, remote |-> new.remote]
    BY <1>5 DEF new
  <2> QED BY <1>3, <1>5, <2>1 DEF Placed, r
<1> QED BY <1>4, <1>5, <1>6 DEF r

(* and so does leaving other fitting objects of the database.              *)
LEMMA RestPlaced ==
  ASSUME NEW world, NEW kept, NEW dropped, NEW acc, Placed(acc, kept, dropped, world),
         NEW rest, List(rest), NamedApart(ToSet(rest)), \A o \in ToSet(rest) : Fits(o, world)
  PROVE  Placed([acc EXCEPT !.remote = rest], kept, dropped, world)
<1>1. [acc EXCEPT !.remote = rest]
        = [changes |-> acc.changes, errors |-> acc.errors, remote |-> rest]
  BY DEF Placed
<1> QED BY <1>1 DEF Placed

(* A table that is moved has the name of its definition.                   *)
LEMMA MovedFits ==
  ASSUME NEW world, NEW o, Fits(o, world), o.kind = "TABLE",
         NEW remote, Fits(remote, world), remote.kind = "TABLE",
         QualifiedName(remote) = PreviousName(o)
  PROVE  LET moved == [remote EXCEPT !.name = o.name]
         IN  QualifiedName(moved) = QualifiedName(o) /\ Fits(moved, world)
<1> DEFINE moved == [remote EXCEPT !.name = o.name]
           previous == [o EXCEPT !.name = o.renamedFrom]
<1>1. moved = [kind |-> "TABLE", ns |-> remote.ns, name |-> o.name,
               renamedFrom |-> remote.renamedFrom, columns |-> remote.columns,
               unfilled |-> remote.unfilled]
  BY DEF Fits
<1>2. previous = [kind |-> "TABLE", ns |-> o.ns, name |-> o.renamedFrom,
                  renamedFrom |-> o.renamedFrom, columns |-> o.columns,
                  unfilled |-> o.unfilled]
  BY DEF Fits
<1>3. QualifiedName(remote) = QualifiedName(previous)
  BY DEF PreviousName
<1>4. /\ moved.kind = "TABLE" /\ moved.ns = remote.ns /\ moved.name = o.name
      /\ moved.renamedFrom = remote.renamedFrom /\ moved.columns = remote.columns
      /\ previous.kind = "TABLE" /\ previous.ns = o.ns
  BY <1>1, <1>2
<1> HIDE DEF moved, previous
<1>5. remote.ns = o.ns
  <2>1. CASE HasCustomNamespace(remote)
    <3>1. QualifiedName(remote) = <<remote.ns, remote.name>> /\ Len(QualifiedName(remote)) = 2
      BY <2>1, QualifiedParts
    <3>2. HasCustomNamespace(previous)
      <4>1. Len(QualifiedName(previous)) = 2
        BY <1>3, <3>1
      <4>2. ~ HasCustomNamespace(previous) => Len(QualifiedName(previous)) = 1
        BY QualifiedParts
      <4> QED BY <4>1, <4>2
    <3>3. QualifiedName(previous) = <<previous.ns, previous.name>>
      BY <3>2, QualifiedParts
    <3>4. <<remote.ns, remote.name>> = <<previous.ns, previous.name>>
      BY <1>3, <3>1, <3>3
    <3> QED BY <1>4, <3>4
  <2>2. CASE ~ HasCustomNamespace(remote)
    <3>1. Len(QualifiedName(remote)) = 1
      BY <2>2, QualifiedParts
    <3>2. ~ HasCustomNamespace(previous)
      BY <1>3, <3>1, QualifiedParts
    <3> QED BY <1>4, <2>2, <3>2 DEF HasCustomNamespace
  <2> QED BY <2>1, <2>2
<1>6. QualifiedName(moved) = QualifiedName(o)
  BY <1>4, <1>5 DEF QualifiedName, HasCustomNamespace
<1>7. Fits(moved, world)
  BY <1>1, <1>4, <1>6 DEF Fits
<1> QED BY <1>6, <1>7 DEF moved

(* A round of the loop that renames.                                       *)
LEMMA RenameOnePlaced ==
  ASSUME NEW world, NEW kept, NEW dropped, NEW acc, Placed(acc, kept, dropped, world),
         NEW o \in kept, Fits(o, world)
  PROVE  Placed(RenameOne(acc, o), kept, dropped, world)
<1> DEFINE remote == Get(acc.remote, PreviousName(o))
           moved == [remote EXCEPT !.name = o.name]
           rest == SetIn(Delete(acc.remote, PreviousName(o)), moved)
           refused == Emit(acc, Result(<< >>, {"RENAME_CONFLICT"}))
           renamed == Emit(acc, Result(RenameTable(o), {}))
<1>1. Placed(refused, kept, dropped, world)
  BY NoChangeOf, EmitPlaced DEF Result
<1>2. o.kind = "TABLE" => Placed(renamed, kept, dropped, world) /\ renamed.remote = acc.remote
  BY RenameOf, EmitPlaced DEF Result
<1>3. ASSUME o.kind = "TABLE", remote.kind = "TABLE"
      PROVE  Placed([renamed EXCEPT !.remote = rest], kept, dropped, world)
  <2>1. Fits(remote, world) /\ QualifiedName(remote) = PreviousName(o)
    BY <1>3, GetThere DEF Placed, NoObject
  <2> HIDE DEF remote, renamed
  <2>2. Fits(moved, world)
    BY <1>3, <2>1, MovedFits
  <2> HIDE DEF moved
  <2>3. /\ List(Delete(acc.remote, PreviousName(o)))
        /\ ToSet(Delete(acc.remote, PreviousName(o))) \subseteq ToSet(acc.remote)
    BY DeleteKeeps DEF Placed
  <2>4. NamedApart(ToSet(Delete(acc.remote, PreviousName(o))))
    BY <2>3 DEF Placed, NamedApart
  <2>5. List(rest) /\ ToSet(rest) \subseteq ToSet(acc.remote) \cup {moved} /\ NamedApart(ToSet(rest))
    BY <2>3, <2>4, SetInKeeps
  <2> HIDE DEF rest
  <2>6. \A x \in ToSet(rest) : Fits(x, world)
    BY <2>2, <2>5 DEF Placed
  <2> QED BY <1>2, <1>3, <2>5, <2>6, RestPlaced
<1>4. RenameOne(acc, o) =
        IF o.kind # "TABLE" \/ o.renamedFrom = Unset \/ remote.kind # "TABLE" THEN acc
        ELSE IF QualifiedName(o) \in KeysOf(acc.remote) THEN refused
        ELSE [renamed EXCEPT !.remote = rest]
  <2>0. o.kind = "TABLE" => renamed.remote = acc.remote
    BY <1>2
  <2>1. o.kind = "TABLE" =>
          [renamed EXCEPT !.remote = SetIn(Delete(@, PreviousName(o)), moved)]
            = [renamed EXCEPT !.remote = rest]
    <3> HIDE DEF moved, renamed
    <3> QED BY <2>0
  <2> HIDE DEF rest
  <2> QED BY <2>1, Zenon DEF RenameOne
<1> HIDE DEF refused, renamed, rest, remote
<1> QED BY <1>1, <1>3, <1>4

(* A round of the loop that compares, which leaves nothing of its name.    *)
LEMMA DiffOnePlaced ==
  ASSUME NEW world, NEW kept, NEW dropped, NEW acc, Placed(acc, kept, dropped, world),
         NEW o \in kept, Fits(o, world)
  PROVE  /\ Placed(DiffOne(acc, o), kept, dropped, world)
         /\ ToSet(DiffOne(acc, o).remote) \subseteq ToSet(acc.remote)
         /\ \A x \in ToSet(DiffOne(acc, o).remote) : QualifiedName(x) # QualifiedName(o)
<1> DEFINE key == QualifiedName(o)
           remote == Get(acc.remote, key)
           result == DiffObjectOperations(o, remote)
           emitted == Emit(acc, result)
           rest == Delete(acc.remote, key)
<1>1. remote = NoObject \/ Fits(remote, world)
  BY GetThere DEF Placed
<1> HIDE DEF remote
<1>2. Placed(emitted, kept, dropped, world) /\ emitted.remote = acc.remote
  <2>1. ChangesOf(result.changes, kept, dropped, world)
    BY <1>1, DiffOf
  <2> HIDE DEF result
  <2> QED BY <2>1, EmitPlaced
<1>3. DiffOne(acc, o) = [emitted EXCEPT !.remote = rest]
  <2> HIDE DEF emitted
  <2>1. DiffOne(acc, o) = [emitted EXCEPT !.remote = Delete(@, key)]
    BY DEF DiffOne, emitted, remote
  <2> QED BY <1>2, <2>1
<1>4. List(rest) /\ ToSet(rest) \subseteq ToSet(acc.remote) /\ \A x \in ToSet(rest) : QualifiedName(x) # key
  BY DeleteKeeps, DeleteRemoves DEF Placed
<1> HIDE DEF emitted, rest
<1>5. NamedApart(ToSet(rest)) /\ \A x \in ToSet(rest) : Fits(x, world)
  BY <1>4 DEF Placed, NamedApart
<1>6. Placed([emitted EXCEPT !.remote = rest], kept, dropped, world)
  BY <1>2, <1>4, <1>5, RestPlaced
<1>7. [emitted EXCEPT !.remote = rest].remote = rest
  BY <1>2 DEF Placed
<1> QED BY <1>3, <1>4, <1>6, <1>7

(* A round of the loop that drops.                                         *)
LEMMA DropOnePlaced ==
  ASSUME NEW world, NEW kept, NEW dropped, NEW acc, Placed(acc, kept, dropped, world),
         NEW o \in dropped, Fits(o, world)
  PROVE  Placed(DropOne(acc, o), kept, dropped, world)
BY DropOf, EmitPlaced DEF DropOne, Result

(* A whole pass, by induction over the objects; after the one that compares*)
(* nothing of a declared name is left.                                     *)
LEMMA PassPlaced ==
  ASSUME NEW world, NEW kept, NEW dropped, NEW base, Placed(base, kept, dropped, world),
         NEW pass \in {"rename", "diff", "drop"}, NEW seq, List(seq),
         \A o \in ToSet(seq) : /\ Fits(o, world)
                               /\ pass \in {"rename", "diff"} => o \in kept
                               /\ pass = "drop" => o \in dropped,
         NEW acc, Accumulates(pass, base, seq, acc)
  PROVE  /\ Placed(acc[Len(seq)], kept, dropped, world)
         /\ pass = "diff" =>
              \A x \in ToSet(acc[Len(seq)].remote) :
                \A o \in ToSet(seq) : QualifiedName(x) # QualifiedName(o)
<1> DEFINE n == Len(seq)
           Good(k) == /\ Placed(acc[k], kept, dropped, world)
                      /\ pass = "diff" =>
                           \A x \in ToSet(acc[k].remote) :
                             \A j \in 1..k : QualifiedName(x) # QualifiedName(seq[j])
           S == {k \in Nat : k <= n => Good(k)}
<1>1. /\ n \in Nat /\ \A k \in 1..n : seq[k] \in ToSet(seq)
      /\ \A o \in ToSet(seq) : \E j \in 1..n : o = seq[j]
  BY ListProperties
<1>2. 0 \in S
  BY DEF Accumulates
<1>3. ASSUME NEW k \in Nat, k \in S PROVE k + 1 \in S
  <2> SUFFICES ASSUME k + 1 <= n PROVE Good(k + 1)
    OBVIOUS
  <2>1. k + 1 \in 1..n /\ (k + 1) - 1 = k /\ k <= n /\ 1..(k + 1) = (1..k) \cup {k + 1}
    BY <1>1
  <2>2. acc[k + 1] = Step(pass, acc[k], seq[k + 1]) /\ seq[k + 1] \in ToSet(seq)
    BY <1>1, <2>1 DEF Accumulates
  <2>3. Good(k)
    BY <1>3, <2>1
  <2>4. CASE pass = "rename"
    BY <2>2, <2>3, <2>4, RenameOnePlaced DEF Step
  <2>5. CASE pass = "diff"
    <3>1. acc[k + 1] = DiffOne(acc[k], seq[k + 1])
      BY <2>2, <2>5 DEF Step
    <3>2. /\ Placed(acc[k + 1], kept, dropped, world)
          /\ ToSet(acc[k + 1].remote) \subseteq ToSet(acc[k].remote)
          /\ \A x \in ToSet(acc[k + 1].remote) : QualifiedName(x) # QualifiedName(seq[k + 1])
      BY <2>2, <2>3, <2>5, <3>1, DiffOnePlaced
    <3> QED BY <2>1, <2>3, <3>2
  <2>6. CASE pass = "drop"
    BY <2>2, <2>3, <2>6, DropOnePlaced DEF Step
  <2> QED BY <2>4, <2>5, <2>6
<1>4. Nat \subseteq S
  <2> HIDE DEF S
  <2> QED BY <1>2, <1>3, NatSetInduction
<1>5. Good(n)
  BY <1>1, <1>4
<1> QED BY <1>1, <1>5

(* Reconciliation emits changes of the objects that are declared and of    *)
(* those it drops, no two of one name.                                     *)
LEMMA ReconcilePlaced ==
  ASSUME NEW world, NEW definition, Plannable(definition),
         \A o \in ToSet(definition) : Fits(o, world),
         NEW introspected, List(introspected),
         \A o \in ToSet(introspected) : Fits(o, world)
  PROVE  \E kept, dropped :
           /\ ChangesOf(Reconcile(definition, introspected).changes, kept, dropped, world)
           /\ \A o \in kept \cup dropped : Fits(o, world)
           /\ NamedApart(kept \cup dropped)
           /\ kept \cap dropped = {}
<1> DEFINE map == MapOf(definition)
           kept == ToSet(map)
           start == [changes |-> << >>, errors |-> {}, remote |-> MapOf(introspected)]
           renamed == FoldLeft(RenameOne, start, map)
           diffed == FoldLeft(DiffOne, renamed, map)
           dropped == ToSet(diffed.remote)
           all == FoldLeft(DropOne, diffed, diffed.remote)
<1>1. List(map) /\ kept \subseteq ToSet(definition) /\ NamedApart(kept)
  BY MapOfObjects DEF Plannable
<1>2. ASSUME NEW gone PROVE Placed(start, kept, gone, world)
  BY MapOfObjects, NoChangeOf DEF Placed
<1> HIDE DEF start, map
<1>3. ASSUME NEW gone PROVE Placed(renamed, kept, gone, world)
  <2>1. PICK acc : Accumulates("rename", start, map, acc) /\ renamed = acc[Len(map)]
    BY <1>1, RenamesAccumulate
  <2> HIDE DEF renamed
  <2> QED BY <1>1, <1>2, <2>1, PassPlaced
<1> HIDE DEF renamed
<1>4. ASSUME NEW gone
      PROVE  /\ Placed(diffed, kept, gone, world)
             /\ \A x \in ToSet(diffed.remote) : \A o \in ToSet(map) : QualifiedName(x) # QualifiedName(o)
  <2>1. PICK acc : Accumulates("diff", renamed, map, acc) /\ diffed = acc[Len(map)]
    BY <1>1, DiffsAccumulate
  <2> HIDE DEF diffed
  <2> QED BY <1>1, <1>3, <2>1, PassPlaced
<1> HIDE DEF diffed
<1>5. Placed(all, kept, dropped, world)
  <2>1. List(diffed.remote) /\ \A o \in ToSet(diffed.remote) : Fits(o, world)
    BY <1>4 DEF Placed
  <2>2. PICK acc : /\ Accumulates("drop", diffed, diffed.remote, acc)
                   /\ all = acc[Len(diffed.remote)]
    BY <2>1, DropsAccumulate
  <2> HIDE DEF all
  <2> QED BY <1>4, <2>1, <2>2, PassPlaced
<1>6. Reconcile(definition, introspected).changes = all.changes
  BY DEF Reconcile, Result, all, diffed, renamed, start, map
<1> HIDE DEF all
<1>7. NamedApart(dropped) /\ \A o \in dropped : Fits(o, world)
  BY <1>4 DEF Placed
<1>8. \A x \in dropped : \A o \in kept : QualifiedName(x) # QualifiedName(o)
  BY <1>4
<1> HIDE DEF dropped, kept
<1>9. NamedApart(kept \cup dropped) /\ kept \cap dropped = {}
  BY <1>1, <1>7, <1>8 DEF NamedApart
<1>10. ChangesOf(Reconcile(definition, introspected).changes, kept, dropped, world)
  BY <1>5, <1>6 DEF Placed
<1>11. \A o \in kept \cup dropped : Fits(o, world)
  BY <1>1, <1>7
<1> QED BY <1>9, <1>10, <1>11

-----------------------------------------------------------------------------
(* A finite set of steps has a first one: of the lowest rank, among those  *)
(* of the lowest position, among those of the lowest identifier.           *)
LEMMA FirstOfSteps ==
  ASSUME NEW S, S \subseteq Nat, S # {}, NEW f \in [S -> Nat], NEW g \in [S -> Nat]
  PROVE  \E i \in S : \A j \in S :
           \/ f[i] < f[j]
           \/ f[i] = f[j] /\ g[i] < g[j]
           \/ f[i] = f[j] /\ g[i] = g[j] /\ i <= j
<1> DEFINE F == {f[i] : i \in S}
<1>1. PICK a \in F : \A b \in F : a <= b
  <2>1. F \subseteq Nat /\ F # {}
    OBVIOUS
  <2> HIDE DEF F
  <2> QED BY <2>1, NatSetMinimum
<1> DEFINE T == {i \in S : f[i] = a}
           G == {g[i] : i \in T}
<1>2. PICK c \in G : \A b \in G : c <= b
  <2>1. G \subseteq Nat /\ G # {}
    BY <1>1
  <2> HIDE DEF G
  <2> QED BY <2>1, NatSetMinimum
<1> DEFINE U == {i \in T : g[i] = c}
<1>3. PICK i \in U : \A j \in U : i <= j
  <2>1. U \subseteq Nat /\ U # {}
    BY <1>2
  <2> HIDE DEF U
  <2> QED BY <2>1, NatSetMinimum
<1>4. i \in S /\ f[i] = a /\ g[i] = c
  BY <1>3
<1>5. ASSUME NEW j \in S
      PROVE  \/ f[i] < f[j]
             \/ f[i] = f[j] /\ g[i] < g[j]
             \/ f[i] = f[j] /\ g[i] = g[j] /\ i <= j
  <2>1. a <= f[j] /\ a \in Nat /\ f[j] \in Nat
    BY <1>1
  <2>2. CASE f[j] # a
    BY <1>4, <2>1, <2>2
  <2>3. CASE f[j] = a
    <3>1. c <= g[j] /\ c \in Nat /\ g[j] \in Nat
      BY <1>2, <2>3
    <3>2. CASE g[j] # c
      BY <1>4, <2>3, <3>1, <3>2
    <3>3. CASE g[j] = c
      <4>1. i <= j
        BY <1>3, <2>3, <3>3
      <4> QED BY <1>4, <2>3, <3>3, <4>1
    <3> QED BY <3>2, <3>3
  <2> QED BY <2>2, <2>3
<1> QED BY <1>4, <1>5

(* The places of a plan, which every dependency goes up: what drops a table*)
(* or a sequence, a domain, then namespaces, then what creates or alters a *)
(* domain, a table or a sequence.                                          *)
Place(d) ==
  IF d.kind = "SCHEMA" THEN 2
  ELSE IF d.type = "DROP" THEN IF d.kind = "DOMAIN" THEN 1 ELSE 0
  ELSE IF d.kind = "DOMAIN" THEN 3 ELSE 4

(* A draft on one of the objects of a plan.                                *)
DraftOn(d, o, kept, dropped, world) ==
  \/ o \in kept /\ DraftOf(d, o, Keeping, world)
  \/ o \in dropped /\ DraftOf(d, o, Dropping, world)

(* The objects of a plan, each of a name of its own.                       *)
Objects(kept, dropped, world) ==
  /\ \A o \in kept \cup dropped : Fits(o, world)
  /\ NamedApart(kept \cup dropped)
  /\ kept \cap dropped = {}

(* Drafts on one object have one place.                                    *)
LEMMA SamePlace ==
  ASSUME NEW world, NEW kept, NEW dropped, Objects(kept, dropped, world),
         NEW o, NEW d, DraftOn(d, o, kept, dropped, world),
         NEW e, DraftOn(e, o, kept, dropped, world)
  PROVE  Place(d) = Place(e)
<1>1. (d.type = "DROP" <=> o \in dropped) /\ (e.type = "DROP" <=> o \in dropped)
  BY DEF DraftOn, Objects, DraftOf, Keeping, Dropping
<1>2. d.kind = o.kind /\ e.kind = o.kind
  BY DEF DraftOn, DraftOf
<1> QED BY <1>1, <1>2, Zenon DEF Place

(* A draft that drops precedes what it refers to, any other follows it.    *)
LEMMA ReferencePlace ==
  ASSUME NEW world, NEW kept, NEW dropped, Objects(kept, dropped, world),
         NEW o, NEW d, DraftOn(d, o, kept, dropped, world),
         NEW p, NEW e, DraftOn(e, p, kept, dropped, world),
         NEW k \in DOMAIN d.refs, d.refs[k] = e.name
  PROVE  IF d.type = "DROP" THEN Place(d) < Place(e) ELSE Place(e) < Place(d)
<1>1. /\ d.kind = o.kind /\ e.kind = p.kind /\ e.name = QualifiedName(p)
      /\ RefFits(o, QualifiedName(p), world)
  BY DEF DraftOn, DraftOf
<1>2. /\ o.kind \in {"SCHEMA", "DOMAIN", "SEQUENCE", "TABLE"}
      /\ QualifiedName(p) \in Spaces(world) => p.kind = "SCHEMA"
      /\ QualifiedName(p) \in Types(world) => p.kind = "DOMAIN"
  BY DEF DraftOn, Objects, Fits, NameFits
<1>3. \/ o.kind # "SCHEMA" /\ p.kind = "SCHEMA"
      \/ o.kind = "TABLE" /\ p.kind = "DOMAIN"
  BY <1>1, <1>2 DEF RefFits
<1> QED BY <1>1, <1>3 DEF Place

(* The steps of a plan: each is on an object, of whose changes it has the  *)
(* key.                                                                    *)
StepsOf(steps, kept, dropped, world) ==
  /\ List(steps)
  /\ \A y \in ToSet(steps) :
       y.step \in Nat /\ \E o : KeyOf(y.change, o) /\ DraftOn(y.draft, o, kept, dropped, world)

(* The steps of the changes of a plan are.                                 *)
LEMMA StepsAreOf ==
  ASSUME NEW world, NEW kept, NEW dropped, NEW changes,
         ChangesOf(changes, kept, dropped, world)
  PROVE  StepsOf(Steps(changes), kept, dropped, world)
<1>1. List(changes) /\ \A x \in ToSet(changes) : List(x.drafts)
  BY DEF ChangesOf, ChangeOf
<1>2. ASSUME NEW y \in ToSet(Steps(changes))
      PROVE  y.step \in Nat /\ \E o : KeyOf(y.change, o) /\ DraftOn(y.draft, o, kept, dropped, world)
  <2>1. PICK x \in ToSet(changes) : y.change = x.key /\ y.draft \in ToSet(x.drafts)
    BY <1>1, StepsOfChanges
  <2>2. y.step \in Nat
    BY <1>1, StepsOfChanges
  <2>3. CASE \E o \in kept : ChangeOf(x, o, Keeping, world)
    BY <2>1, <2>2, <2>3 DEF ChangeOf, DraftOn
  <2>4. CASE \E o \in dropped : ChangeOf(x, o, Dropping, world)
    BY <2>1, <2>2, <2>4 DEF ChangeOf, DraftOn
  <2> QED BY <2>3, <2>4 DEF ChangesOf
<1> QED BY <1>1, <1>2, StepsOfChanges DEF StepsOf

(* The dependencies of a plan go up: to a higher place, or in one change to*)
(* a later step.                                                           *)
LEMMA EdgesGoUp ==
  ASSUME NEW world, NEW kept, NEW dropped, Objects(kept, dropped, world),
         NEW changes, StepsOf(Steps(changes), kept, dropped, world),
         NEW e \in DependencyGraph(Operations(changes))
  PROVE  LET a == Steps(changes)[e[1]]
             b == Steps(changes)[e[2]]
         IN  \/ Place(a.draft) < Place(b.draft)
             \/ /\ Place(a.draft) = Place(b.draft)
                /\ a.step < b.step \/ (a.step = b.step /\ e[1] < e[2])
<1> DEFINE steps == Steps(changes)
           ops == Operations(changes)
<1>1. /\ IdsOf(ops) = 1..Len(steps)
      /\ \A o \in ops :
           /\ o.change = steps[o.id].change /\ o.step = steps[o.id].step
           /\ o.type = steps[o.id].draft.type /\ o.kind = steps[o.id].draft.kind
           /\ o.name = steps[o.id].draft.name /\ o.refs = steps[o.id].draft.refs
  BY OperationsNumbered DEF StepsOf
<1>2. \A o \in ops : steps[o.id] \in ToSet(steps)
  <2>1. \A o \in ops : o.id \in 1..Len(steps)
    BY <1>1 DEF IdsOf
  <2>2. \A k \in 1..Len(steps) : steps[k] \in ToSet(steps)
    BY ListProperties DEF StepsOf
  <2> QED BY <2>1, <2>2
<1> HIDE DEF steps, ops
<1>3. \A y \in ToSet(steps) :
        y.step \in Nat /\ \E o : KeyOf(y.change, o) /\ DraftOn(y.draft, o, kept, dropped, world)
  BY DEF StepsOf, steps
<1>4. CASE e \in StepEdges(ops)
  <2>1. PICK o \in ops, p \in ops : e = <<o.id, p.id>> /\ StepBefore(o, p)
    BY <1>4 DEF StepEdges
  <2> DEFINE a == steps[o.id]
             b == steps[p.id]
  <2>2. /\ a.change = b.change
        /\ a.step < b.step \/ (a.step = b.step /\ o.id < p.id)
    BY <1>1, <2>1 DEF StepBefore
  <2>3. /\ a \in ToSet(steps) /\ b \in ToSet(steps)
        /\ e[1] = o.id /\ e[2] = p.id
    BY <1>2, <2>1
  <2> HIDE DEF a, b
  <2>4. PICK x : KeyOf(a.change, x) /\ DraftOn(a.draft, x, kept, dropped, world)
    BY <1>3, <2>3
  <2>5. PICK y : KeyOf(b.change, y) /\ DraftOn(b.draft, y, kept, dropped, world)
    BY <1>3, <2>3
  <2>6. x = y
    <3>1. x \in kept \cup dropped /\ y \in kept \cup dropped
      BY <2>4, <2>5 DEF DraftOn
    <3>2. Fits(x, world) /\ Fits(y, world) /\ (QualifiedName(x) = QualifiedName(y) => x = y)
      BY <3>1 DEF Objects, NamedApart
    <3>3. KeyOf(a.change, x) /\ KeyOf(a.change, y)
      BY <2>2, <2>4, <2>5
    <3> QED BY <3>2, <3>3, KeyTellsObject
  <2>7. Place(a.draft) = Place(b.draft)
    BY <2>4, <2>5, <2>6, SamePlace
  <2> QED BY <2>2, <2>3, <2>7 DEF a, b, steps
<1>5. CASE e \in RefEdges(ops)
  <2>1. PICK o \in ops, p \in ops :
               /\ e = <<o.id, p.id>>
               /\ \/ o.type = "DROP" /\ Touches(o, p)
                  \/ p.type # "DROP" /\ Touches(p, o)
    BY <1>5 DEF RefEdges
  <2> DEFINE a == steps[o.id]
             b == steps[p.id]
  <2>2. /\ a \in ToSet(steps) /\ b \in ToSet(steps)
        /\ e[1] = o.id /\ e[2] = p.id
        /\ o.type = a.draft.type /\ o.name = a.draft.name /\ o.refs = a.draft.refs
        /\ p.type = b.draft.type /\ p.name = b.draft.name /\ p.refs = b.draft.refs
        /\ o.kind = a.draft.kind /\ p.kind = b.draft.kind
    BY <1>1, <1>2, <2>1
  <2> HIDE DEF a, b
  <2>4. PICK x : DraftOn(a.draft, x, kept, dropped, world)
    BY <1>3, <2>2
  <2>5. PICK y : DraftOn(b.draft, y, kept, dropped, world)
    BY <1>3, <2>2
  <2>6. SubjectOf(o) = <<o.name>> /\ SubjectOf(p) = <<p.name>>
    <3>1. x \in kept \cup dropped /\ y \in kept \cup dropped
      BY <2>4, <2>5 DEF DraftOn
    <3>2. o.kind = x.kind /\ p.kind = y.kind
      BY <2>2, <2>4, <2>5 DEF DraftOn, DraftOf
    <3>3. /\ x.kind \in {"SCHEMA", "DOMAIN", "SEQUENCE", "TABLE"}
          /\ y.kind \in {"SCHEMA", "DOMAIN", "SEQUENCE", "TABLE"}
      BY <3>1 DEF Objects, Fits
    <3> QED BY <3>2, <3>3 DEF SubjectOf, ConstraintKinds
  <2>7. CASE o.type = "DROP" /\ Touches(o, p)
    <3>1. PICK k \in DOMAIN o.refs : <<o.refs[k]>> = <<p.name>>
      BY <2>6, <2>7 DEF Touches, RefsOf
    <3>2. k \in DOMAIN a.draft.refs /\ a.draft.refs[k] = b.draft.name /\ a.draft.type = "DROP"
      BY <2>2, <2>7, <3>1
    <3>3. Place(a.draft) < Place(b.draft)
      BY <2>4, <2>5, <3>2, ReferencePlace
    <3> QED BY <2>2, <3>3 DEF a, b, steps
  <2>8. CASE p.type # "DROP" /\ Touches(p, o)
    <3>1. PICK k \in DOMAIN p.refs : <<p.refs[k]>> = <<o.name>>
      BY <2>6, <2>8 DEF Touches, RefsOf
    <3>2. k \in DOMAIN b.draft.refs /\ b.draft.refs[k] = a.draft.name /\ b.draft.type # "DROP"
      BY <2>2, <2>8, <3>1
    <3>3. Place(a.draft) < Place(b.draft)
      BY <2>4, <2>5, <3>2, ReferencePlace
    <3> QED BY <2>2, <3>3 DEF a, b, steps
  <2> QED BY <2>1, <2>7, <2>8
<1> QED BY <1>4, <1>5 DEF DependencyGraph, ops

(* So there is no cycle.                                                   *)
LEMMA OperationsGrounded ==
  ASSUME NEW world, NEW kept, NEW dropped, Objects(kept, dropped, world),
         NEW changes, StepsOf(Steps(changes), kept, dropped, world)
  PROVE  Grounded(Operations(changes))
<1> DEFINE steps == Steps(changes)
           ops == Operations(changes)
<1>1. /\ IdsOf(ops) = 1..Len(steps) /\ Len(steps) \in Nat
      /\ \A k \in 1..Len(steps) : steps[k] \in ToSet(steps)
  BY OperationsNumbered, ListProperties DEF StepsOf
<1>2. SUFFICES ASSUME NEW S \in SUBSET IdsOf(ops), S # {}
               PROVE  \E i \in S : \A e \in DependencyGraph(ops) : e[2] = i => e[1] \notin S
  BY DEF Grounded
<1> DEFINE f == [k \in S |-> Place(steps[k].draft)]
           g == [k \in S |-> steps[k].step]
<1>3. f \in [S -> Nat] /\ g \in [S -> Nat] /\ S \subseteq Nat
  <2>1. \A k \in S : steps[k].step \in Nat
    BY <1>1 DEF StepsOf
  <2>2. \A k \in S : Place(steps[k].draft) \in Nat
    BY DEF Place
  <2> HIDE DEF steps
  <2> QED BY <1>1, <2>1, <2>2
<1>4. PICK i \in S : \A j \in S :
        \/ f[i] < f[j]
        \/ f[i] = f[j] /\ g[i] < g[j]
        \/ f[i] = f[j] /\ g[i] = g[j] /\ i <= j
  <2> HIDE DEF f, g
  <2> QED BY <1>2, <1>3, FirstOfSteps
<1>5. ASSUME NEW e \in DependencyGraph(ops), e[2] = i, e[1] \in S PROVE FALSE
  <2> DEFINE j == e[1]
  <2>1. \/ Place(steps[j].draft) < Place(steps[i].draft)
        \/ /\ Place(steps[j].draft) = Place(steps[i].draft)
           /\ steps[j].step < steps[i].step \/ (steps[j].step = steps[i].step /\ j < i)
    BY <1>5, EdgesGoUp
  <2>2. f[j] < f[i] \/ (f[j] = f[i] /\ (g[j] < g[i] \/ (g[j] = g[i] /\ j < i)))
    BY <1>5, <2>1
  <2>3. f[i] \in Nat /\ f[j] \in Nat /\ g[i] \in Nat /\ g[j] \in Nat /\ i \in Nat /\ j \in Nat
    BY <1>3, <1>5
  <2>4. \/ f[i] < f[j]
        \/ f[i] = f[j] /\ g[i] < g[j]
        \/ f[i] = f[j] /\ g[i] = g[j] /\ i <= j
    BY <1>4, <1>5
  <2> HIDE DEF f, g, j
  <2> QED BY <2>2, <2>3, <2>4
<1> QED BY <1>5

(* The plan of such changes has all their steps: planOperations does not   *)
(* throw.                                                                  *)
LEMMA PlannedWhole ==
  ASSUME NEW world, NEW kept, NEW dropped, Objects(kept, dropped, world),
         NEW changes, ChangesOf(changes, kept, dropped, world)
  PROVE  /\ Len(PlannedDrafts(changes)) = Len(Steps(changes))
         /\ \A d \in ToSet(PlannedDrafts(changes)) : Adds(d.stmt, world)
<1>1. StepsOf(Steps(changes), kept, dropped, world) /\ List(Steps(changes))
  BY StepsAreOf DEF StepsOf
<1>2. Grounded(Operations(changes))
  BY <1>1, OperationsGrounded
<1>3. /\ IsFiniteSet(Operations(changes))
      /\ Cardinality(Operations(changes)) = Len(Steps(changes))
      /\ \A o \in Operations(changes) : o.id \in Nat
      /\ \A o, p \in Operations(changes) : o.id = p.id => o = p
  BY <1>1, OperationsNumbered
<1>4. Len(PlanOrder(Operations(changes))) = Len(Steps(changes))
  BY <1>2, <1>3, PlanOrderWhole
<1>5. \A y \in ToSet(Steps(changes)) : Adds(y.draft.stmt, world)
  BY <1>1 DEF StepsOf, DraftOn, DraftOf
<1> QED BY <1>1, <1>4, <1>5, PlannedOfSteps

-----------------------------------------------------------------------------
(* A database of names and types that fit.                                 *)
DatabaseFits(d, world) ==
  /\ \A q \in d.schemas : NameFits("SCHEMA", q, world)
  /\ \A q \in DOMAIN d.domains : NameFits("DOMAIN", q, world)
  /\ \A q \in DOMAIN d.sequences : NameFits("SEQUENCE", q, world)
  /\ \A q \in DOMAIN d.tables :
       /\ NameFits("TABLE", q, world)
       /\ \A c \in DOMAIN d.tables[q].columns : TypeFits(d.tables[q].columns[c].domain, world)

(* What is read back from it fits.                                         *)
LEMMA IntrospectFits ==
  ASSUME NEW world, NEW database, DatabaseOK(database), DatabaseFits(database, world),
         NEW o \in SchemaDefs(database) \cup DomainDefs(database)
                   \cup TableDefs(database) \cup SequenceDefs(database)
  PROVE  Fits(o, world)
<1>0. ASSUME NEW kind \in {"SCHEMA", "DOMAIN", "SEQUENCE", "TABLE"}, NEW q,
             NameFits(kind, q, world), o.kind = kind, o.name = NameOf(q),
             kind # "SCHEMA" => o.ns = NamespaceOf(q)
      PROVE  NameFits(o.kind, QualifiedName(o), world)
  <2>1. Name(q) /\ (kind = "SCHEMA" => Len(q) = 1)
    BY <1>0 DEF NameFits
  <2>2. QualifiedName(o) = q
    BY <1>0, <2>1, ReadIsQualified
  <2> QED BY <1>0, <2>2
<1>1. CASE o \in SchemaDefs(database)
  <2>1. PICK q \in database.schemas : o = [kind |-> "SCHEMA", name |-> NameOf(q)]
    BY <1>1 DEF SchemaDefs
  <2>2. o.kind = "SCHEMA" /\ o.name = NameOf(q) /\ NameFits("SCHEMA", q, world)
    BY <2>1 DEF DatabaseFits
  <2> QED BY <1>0, <2>2 DEF Fits
<1>2. CASE o \in DomainDefs(database)
  <2>1. PICK q \in DOMAIN database.domains :
          o = [kind |-> "DOMAIN", ns |-> NamespaceOf(q), name |-> NameOf(q),
               type |-> database.domains[q].type, notNull |-> database.domains[q].notNull,
               default |-> database.domains[q].default, check |-> database.domains[q].check]
    BY <1>2 DEF DomainDefs
  <2>2. /\ o.kind = "DOMAIN" /\ o.name = NameOf(q) /\ o.ns = NamespaceOf(q)
        /\ NameFits("DOMAIN", q, world)
    BY <2>1 DEF DatabaseFits
  <2> QED BY <1>0, <2>2 DEF Fits
<1>3. CASE o \in SequenceDefs(database)
  <2>1. PICK q \in DOMAIN database.sequences :
          o = [kind |-> "SEQUENCE", ns |-> NamespaceOf(q), name |-> NameOf(q),
               options |-> database.sequences[q].options]
    BY <1>3 DEF SequenceDefs
  <2>2. /\ o.kind = "SEQUENCE" /\ o.name = NameOf(q) /\ o.ns = NamespaceOf(q)
        /\ NameFits("SEQUENCE", q, world)
    BY <2>1 DEF DatabaseFits
  <2> QED BY <1>0, <2>2 DEF Fits
<1>4. CASE o \in TableDefs(database)
  <2>1. PICK q \in DOMAIN database.tables :
          o = [kind |-> "TABLE", ns |-> NamespaceOf(q), name |-> NameOf(q),
               renamedFrom |-> Unset, columns |-> ColumnDefs(database.tables[q].columns),
               unfilled |-> {}]
    BY <1>4 DEF TableDefs
  <2> DEFINE columns == database.tables[q].columns
  <2>2. /\ o.kind = "TABLE" /\ o.name = NameOf(q) /\ o.ns = NamespaceOf(q)
        /\ o.renamedFrom = Unset /\ o.columns = ColumnDefs(columns)
        /\ NameFits("TABLE", q, world) /\ IsFiniteSet(DOMAIN columns)
        /\ \A c \in DOMAIN columns : TypeFits(columns[c].domain, world)
    BY <2>1 DEF DatabaseFits, DatabaseOK, TableRecord, FiniteMap
  <2>3. o = [kind |-> "TABLE", ns |-> o.ns, name |-> o.name,
             renamedFrom |-> o.renamedFrom, columns |-> o.columns,
             unfilled |-> o.unfilled]
    BY <2>1
  <2> HIDE DEF columns
  <2>4. /\ DOMAIN o.columns = DOMAIN columns
        /\ \A c \in DOMAIN columns : o.columns[c] = columns[c].domain
    BY <2>2 DEF ColumnDefs
  <2>5. NameFits(o.kind, QualifiedName(o), world)
    BY <1>0, <2>2
  <2> QED BY <2>2, <2>3, <2>4, <2>5 DEF Fits
<1> QED BY <1>1, <1>2, <1>3, <1>4

(* It still is with one of its parts replaced by one that fits.            *)
LEMMA ReplacedFits ==
  ASSUME NEW world, NEW d, DatabaseOK(d), DatabaseFits(d, world)
  PROVE  /\ \A x : (\A q \in x : NameFits("SCHEMA", q, world))
                     => DatabaseFits([d EXCEPT !.schemas = x], world)
         /\ \A x : (\A q \in DOMAIN x : NameFits("DOMAIN", q, world))
                     => DatabaseFits([d EXCEPT !.domains = x], world)
         /\ \A x : (\A q \in DOMAIN x : NameFits("SEQUENCE", q, world))
                     => DatabaseFits([d EXCEPT !.sequences = x], world)
         /\ \A x : (\A q \in DOMAIN x :
                      /\ NameFits("TABLE", q, world)
                      /\ \A c \in DOMAIN x[q].columns : TypeFits(x[q].columns[c].domain, world))
                     => DatabaseFits([d EXCEPT !.tables = x], world)
BY Replaced DEF DatabaseFits

(* The columns of one table replaced by others that fit.                   *)
LEMMA ColumnsFit ==
  ASSUME NEW world, NEW d, DatabaseOK(d), DatabaseFits(d, world), NEW t \in DOMAIN d.tables,
         NEW columns, \A c \in DOMAIN columns : TypeFits(columns[c].domain, world)
  PROVE  DatabaseFits([d EXCEPT !.tables[t].columns = columns], world)
<1> DEFINE m == d.tables
           r == [m[t] EXCEPT !.columns = columns]
           x == [m EXCEPT ![t] = r]
<1>1. [d EXCEPT !.tables[t].columns = columns] = [d EXCEPT !.tables = x]
  OBVIOUS
<1>2. r.columns = columns
  BY DEF DatabaseOK, TableRecord
<1> HIDE DEF r
<1>3. DOMAIN x = DOMAIN m /\ x[t] = r /\ \A q \in DOMAIN m : q # t => x[q] = m[q]
  OBVIOUS
<1> HIDE DEF x
<1>4. ASSUME NEW q \in DOMAIN x
      PROVE  /\ NameFits("TABLE", q, world)
             /\ \A c \in DOMAIN x[q].columns : TypeFits(x[q].columns[c].domain, world)
  <2>1. CASE q = t
    BY <1>2, <1>3, <2>1 DEF DatabaseFits
  <2>2. CASE q # t
    BY <1>3, <2>2 DEF DatabaseFits
  <2> QED BY <2>1, <2>2
<1> QED BY <1>1, <1>4, ReplacedFits

(* A table set to one that fits.                                           *)
LEMMA TableFits ==
  ASSUME NEW world, NEW m, NEW name, NEW r,
         \A q \in DOMAIN m : /\ NameFits("TABLE", q, world)
                             /\ \A c \in DOMAIN m[q].columns :
                                  TypeFits(m[q].columns[c].domain, world),
         NameFits("TABLE", name, world),
         \A c \in DOMAIN r.columns : TypeFits(r.columns[c].domain, world),
         NEW q \in DOMAIN With(m, name, r)
  PROVE  /\ NameFits("TABLE", q, world)
         /\ \A c \in DOMAIN With(m, name, r)[q].columns :
              TypeFits(With(m, name, r)[q].columns[c].domain, world)
<1> DEFINE x == With(m, name, r)
<1>1. q \in DOMAIN m \cup {name}
  BY DEF With
<1>2. x[name] = r /\ \A p \in DOMAIN m : p # name => x[p] = m[p]
  BY WithValues
<1> HIDE DEF x
<1>3. CASE q = name
  <2>1. \A c \in DOMAIN x[q].columns : TypeFits(x[q].columns[c].domain, world)
    BY <1>2, <1>3
  <2> QED BY <1>3, <2>1 DEF x
<1>4. CASE q # name
  <2>1. x[q] = m[q] /\ q \in DOMAIN m
    BY <1>1, <1>2, <1>4
  <2>2. \A c \in DOMAIN x[q].columns : TypeFits(x[q].columns[c].domain, world)
    BY <2>1
  <2> QED BY <2>1, <2>2 DEF x
<1> QED BY <1>3, <1>4

(* A table without one entry.                                              *)
LEMMA TablesLeftFit ==
  ASSUME NEW world, NEW d, DatabaseFits(d, world), NEW name, NEW q \in DOMAIN Without(d.tables, name)
  PROVE  /\ NameFits("TABLE", q, world)
         /\ \A c \in DOMAIN Without(d.tables, name)[q].columns :
              TypeFits(Without(d.tables, name)[q].columns[c].domain, world)
<1>1. q \in DOMAIN d.tables /\ Without(d.tables, name)[q] = d.tables[q]
  BY DEF Without
<1> QED BY <1>1 DEF DatabaseFits

(* A statement that adds only what fits leaves a database that fits.       *)
LEMMA AfterFits ==
  ASSUME NEW world, NEW d, DatabaseOK(d), DatabaseFits(d, world),
         NEW s, s.do \in Statements, Accepts(d, s), Adds(s, world)
  PROVE  DatabaseFits(After(d, s), world)
<1>1. CASE s.do = "CREATE SCHEMA"
  <2>1. After(d, s) = [d EXCEPT !.schemas = d.schemas \cup {s.on}]
    BY <1>1, Zenon DEF After
  <2>2. NameFits("SCHEMA", s.on, world)
    BY <1>1, Zenon DEF Adds
  <2>3. \A q \in d.schemas \cup {s.on} : NameFits("SCHEMA", q, world)
    BY <2>2 DEF DatabaseFits
  <2> QED BY <2>1, <2>3, ReplacedFits
<1>2. CASE s.do = "DROP SCHEMA"
  <2> DEFINE x == d.schemas \ {s.on}
  <2>1. After(d, s) = [d EXCEPT !.schemas = x]
    BY <1>2, Zenon DEF After
  <2>2. \A q \in x : NameFits("SCHEMA", q, world)
    BY DEF DatabaseFits
  <2> HIDE DEF x
  <2> QED BY <2>1, <2>2, ReplacedFits
<1>3. CASE s.do = "CREATE DOMAIN"
  <2> DEFINE r == [type |-> s.with.type, notNull |-> s.with.notNull,
                   default |-> s.with.default, check |-> s.with.check]
  <2>1. After(d, s) = [d EXCEPT !.domains = With(d.domains, s.on, r)]
    BY <1>3, Zenon DEF After
  <2>2. NameFits("DOMAIN", s.on, world)
    BY <1>3, Zenon DEF Adds
  <2> HIDE DEF r
  <2>3. \A q \in DOMAIN With(d.domains, s.on, r) : NameFits("DOMAIN", q, world)
    BY <2>2 DEF DatabaseFits, With
  <2> QED BY <2>1, <2>3, ReplacedFits
<1>4. CASE s.do \in {"DOMAIN DEFAULT", "DOMAIN DROP NOT NULL", "DOMAIN DROP CHECK"}
  <2> DEFINE on == s.on
             r == d.domains[on]
             x1 == [d.domains EXCEPT ![on] = [r EXCEPT !.default = s.with]]
             x2 == [d.domains EXCEPT ![on] = [r EXCEPT !.notNull = FALSE]]
             x3 == [d.domains EXCEPT ![on] = [r EXCEPT !.check = Unset]]
  <2>1. \/ After(d, s) = [d EXCEPT !.domains[s.on].default = s.with]
        \/ After(d, s) = [d EXCEPT !.domains[s.on].notNull = FALSE]
        \/ After(d, s) = [d EXCEPT !.domains[s.on].check = Unset]
    <3>1. s.do = "DOMAIN DEFAULT" =>
            After(d, s) = [d EXCEPT !.domains[s.on].default = s.with]
      BY Zenon DEF After
    <3>2. s.do = "DOMAIN DROP NOT NULL" =>
            After(d, s) = [d EXCEPT !.domains[s.on].notNull = FALSE]
      BY Zenon DEF After
    <3>3. s.do = "DOMAIN DROP CHECK" =>
            After(d, s) = [d EXCEPT !.domains[s.on].check = Unset]
      BY Zenon DEF After
    <3> QED BY <1>4, <3>1, <3>2, <3>3
  <2>2. \/ After(d, s) = [d EXCEPT !.domains = x1]
        \/ After(d, s) = [d EXCEPT !.domains = x2]
        \/ After(d, s) = [d EXCEPT !.domains = x3]
    BY <2>1
  <2>3. DOMAIN x1 = DOMAIN d.domains /\ DOMAIN x2 = DOMAIN d.domains
        /\ DOMAIN x3 = DOMAIN d.domains
    OBVIOUS
  <2> HIDE DEF x1, x2, x3
  <2>4. \A q \in DOMAIN d.domains : NameFits("DOMAIN", q, world)
    BY DEF DatabaseFits
  <2> QED BY <2>2, <2>3, <2>4, ReplacedFits
<1>5. CASE s.do = "DROP DOMAIN"
  <2>1. After(d, s) = [d EXCEPT !.domains = Without(d.domains, s.on)]
    BY <1>5, Zenon DEF After
  <2>2. \A q \in DOMAIN Without(d.domains, s.on) : NameFits("DOMAIN", q, world)
    BY DEF DatabaseFits, Without
  <2> QED BY <2>1, <2>2, ReplacedFits
<1>6. CASE s.do = "CREATE SEQUENCE"
  <2> DEFINE r == [options |-> SequenceCreated(s.with), last |-> Unset]
  <2>1. \/ After(d, s) = d
        \/ After(d, s) = [d EXCEPT !.sequences = With(d.sequences, s.on, r)]
    BY <1>6, Zenon DEF After
  <2>2. NameFits("SEQUENCE", s.on, world)
    BY <1>6, Zenon DEF Adds
  <2> HIDE DEF r
  <2>3. \A q \in DOMAIN With(d.sequences, s.on, r) : NameFits("SEQUENCE", q, world)
    BY <2>2 DEF DatabaseFits, With
  <2> QED BY <2>1, <2>3, ReplacedFits
<1>7. CASE s.do = "ALTER SEQUENCE"
  <2> DEFINE on == s.on
             r == d.sequences[on]
             x == [d.sequences EXCEPT ![on] = [r EXCEPT !.options = SequenceAltered(@, s.with)]]
  <2>1. After(d, s) = [d EXCEPT !.sequences[s.on].options = SequenceAltered(@, s.with)]
    BY <1>7, Zenon DEF After
  <2>2. After(d, s) = [d EXCEPT !.sequences = x]
    BY <2>1
  <2>3. DOMAIN x = DOMAIN d.sequences
    OBVIOUS
  <2> HIDE DEF x
  <2>4. \A q \in DOMAIN d.sequences : NameFits("SEQUENCE", q, world)
    BY DEF DatabaseFits
  <2> QED BY <2>2, <2>3, <2>4, ReplacedFits
<1>8. CASE s.do = "DROP SEQUENCE"
  <2>1. After(d, s) = [d EXCEPT !.sequences = Without(d.sequences, s.on)]
    BY <1>8, Zenon DEF After
  <2>2. \A q \in DOMAIN Without(d.sequences, s.on) : NameFits("SEQUENCE", q, world)
    BY DEF DatabaseFits, Without
  <2> QED BY <2>1, <2>2, ReplacedFits
<1>9. CASE s.do = "CREATE TABLE"
  <2> DEFINE r == TableCreated(s.on, s.with)
  <2>1. \/ After(d, s) = d
        \/ After(d, s) = [d EXCEPT !.tables = With(d.tables, s.on, r)]
    BY <1>9, Zenon DEF After
  <2>2. NameFits("TABLE", s.on, world) /\ \A c \in DOMAIN s.with : TypeFits(s.with[c], world)
    BY <1>9, Zenon DEF Adds
  <2>3. \A c \in DOMAIN r.columns : TypeFits(r.columns[c].domain, world)
    BY <2>2 DEF TableCreated
  <2> HIDE DEF r
  <2>4. ASSUME NEW q \in DOMAIN With(d.tables, s.on, r)
        PROVE  /\ NameFits("TABLE", q, world)
               /\ \A c \in DOMAIN With(d.tables, s.on, r)[q].columns :
                    TypeFits(With(d.tables, s.on, r)[q].columns[c].domain, world)
    BY <2>2, <2>3, TableFits DEF DatabaseFits
  <2> QED BY <2>1, <2>4, ReplacedFits
<1>10. CASE s.do = "ADD COLUMN"
  <2> DEFINE on == s.on
             c == s.with.name
             v == [domain |-> s.with.domain, origin |-> Append(s.on, s.with.name)]
             old == d.tables[on].columns
  <2>1. /\ \/ After(d, s) = d
           \/ After(d, s) = [d EXCEPT !.tables[on].columns = With(d.tables[on].columns, c, v)]
        /\ on \in DOMAIN d.tables
    BY <1>10, Zenon DEF After, Accepts
  <2>2. TypeFits(v.domain, world)
    BY <1>10 DEF Adds
  <2> HIDE DEF c, v
  <2>3. \A b \in DOMAIN With(old, c, v) : TypeFits(With(old, c, v)[b].domain, world)
    <3>1. \A b \in DOMAIN old : TypeFits(old[b].domain, world)
      BY <2>1 DEF DatabaseFits
    <3> HIDE DEF old
    <3> QED BY <2>2, <3>1 DEF With
  <2>4. DatabaseFits([d EXCEPT !.tables[on].columns = With(d.tables[on].columns, c, v)], world)
    BY <2>1, <2>3, ColumnsFit
  <2> QED BY <2>1, <2>4
<1>11. CASE s.do = "DROP COLUMN"
  <2> DEFINE on == s.on
             c == s.with.name
             old == d.tables[on].columns
  <2>1. /\ After(d, s) = [d EXCEPT !.tables[on].columns = Without(d.tables[on].columns, c)]
        /\ on \in DOMAIN d.tables
    BY <1>11, Zenon DEF After, Accepts
  <2> HIDE DEF on, c
  <2>2. \A b \in DOMAIN Without(old, c) : TypeFits(Without(old, c)[b].domain, world)
    BY <2>1 DEF DatabaseFits, Without
  <2>3. DatabaseFits([d EXCEPT !.tables[on].columns = Without(d.tables[on].columns, c)], world)
    BY <2>1, <2>2, ColumnsFit
  <2> QED BY <2>1, <2>3
<1>12. CASE s.do = "RENAME TABLE"
  <2> DEFINE m == Without(d.tables, s.with)
             r == d.tables[s.with]
  <2>1. /\ After(d, s) = [d EXCEPT !.tables = With(m, s.on, r)]
        /\ s.with \in DOMAIN d.tables
    BY <1>12, Zenon DEF After, Accepts
  <2>2. NameFits("TABLE", s.on, world)
    BY <1>12, Zenon DEF Adds
  <2>3. \A c \in DOMAIN r.columns : TypeFits(r.columns[c].domain, world)
    BY <2>1 DEF DatabaseFits
  <2>4. \A q \in DOMAIN m : /\ NameFits("TABLE", q, world)
                            /\ \A c \in DOMAIN m[q].columns :
                                 TypeFits(m[q].columns[c].domain, world)
    BY TablesLeftFit
  <2> HIDE DEF m, r
  <2>5. ASSUME NEW q \in DOMAIN With(m, s.on, r)
        PROVE  /\ NameFits("TABLE", q, world)
               /\ \A c \in DOMAIN With(m, s.on, r)[q].columns :
                    TypeFits(With(m, s.on, r)[q].columns[c].domain, world)
    BY <2>2, <2>3, <2>4, TableFits
  <2> QED BY <2>1, <2>5, ReplacedFits
<1>13. CASE s.do = "DROP TABLE"
  <2>1. After(d, s) = [d EXCEPT !.tables = Without(d.tables, s.on)]
    BY <1>13, Zenon DEF After
  <2>2. \A q \in DOMAIN Without(d.tables, s.on) :
          /\ NameFits("TABLE", q, world)
          /\ \A c \in DOMAIN Without(d.tables, s.on)[q].columns :
               TypeFits(Without(d.tables, s.on)[q].columns[c].domain, world)
    BY TablesLeftFit
  <2> QED BY <2>1, <2>2, ReplacedFits
<1> QED
  BY <1>1, <1>2, <1>3, <1>4, <1>5, <1>6, <1>7, <1>8, <1>9, <1>10, <1>11, <1>12, <1>13
  DEF Statements, Destroys

-----------------------------------------------------------------------------
(* All that is there, declared or planned is of the history.               *)
OfHistory(h) ==
  /\ releases \in Seq(ToSet(h))
  /\ ToSet(def) \subseteq World(h)
  /\ DatabaseFits(db, World(h))
  /\ pc = "run" => \A d \in ToSet(plan) : Adds(d.stmt, World(h))

NeverInv ==
  /\ Inv
  /\ pc # "thrown"
  /\ \E h \in Histories : OfHistory(h)

(* What a history declares fits in its world when it keeps names apart.    *)
LEMMA WorldFits ==
  ASSUME NEW h \in Histories, NamesApart(World(h)), NEW o \in World(h)
  PROVE  Fits(o, World(h))
<1>1. PICK k \in DOMAIN h : o \in ToSet(h[k].def)
  BY DEF World, ToSet
<1>2. IsObject(o)
  BY <1>1, HistoriesAssumption
<1> QED BY <1>2, DeclaredFits

(* At first there is nothing.                                              *)
LEMMA InitNever == Init => NeverInv
<1> SUFFICES ASSUME Init PROVE NeverInv
  OBVIOUS
<1>1. releases \in Histories /\ def = << >> /\ pc = "idle" /\ db = EmptyDatabase
  BY DEF Init
<1>2. releases \in Seq(ToSet(releases))
  BY <1>1, HistoriesAssumption, SeqIsList, ListInSeq
<1>3. ToSet(def) \subseteq World(releases)
  BY <1>1, EmptyList
<1>4. DatabaseFits(db, World(releases))
  BY <1>1 DEF DatabaseFits, EmptyDatabase
<1> QED BY <1>1, <1>2, <1>3, <1>4, InitInv DEF NeverInv, OfHistory

(* A plan of a history has all its steps, and they fit.                    *)
LEMMA PlanNever ==
  ASSUME Inv, Plan, NEW h \in Histories, OfHistory(h), NamesApart(World(h))
  PROVE  pc' # "thrown" /\ OfHistory(h)'
<1> DEFINE result == Reconcile(def, Introspect(db))
           drafts == PlannedDrafts(result.changes)
<1>1. /\ pc' = Gate(result, drafts) /\ plan' = IF pc' = "run" THEN drafts ELSE << >>
      /\ db' = db /\ def' = def /\ releases' = releases
  BY DEF Plan, PlanWith
<1>2. \A o \in ToSet(def) : Fits(o, World(h))
  BY WorldFits DEF OfHistory
<1>3. \A o \in ToSet(Introspect(db)) : Fits(o, World(h))
  BY IntrospectRead, IntrospectFits DEF Inv, OfHistory
<1>4. PICK kept, dropped :
        /\ ChangesOf(result.changes, kept, dropped, World(h))
        /\ Objects(kept, dropped, World(h))
  BY <1>2, <1>3, IntrospectRead, ReconcilePlaced DEF Inv, Objects
<1>5. /\ Len(drafts) = Len(Steps(result.changes))
      /\ \A d \in ToSet(drafts) : Adds(d.stmt, World(h))
  BY <1>4, PlannedWhole
<1>6. List(drafts) /\ List(Steps(result.changes))
  BY IntrospectRead, ReconcileSound, PlannedSound DEF Inv
<1> HIDE DEF drafts, result
<1>7. ~ (Len(drafts) < Len(Steps(result.changes)))
  BY <1>5, <1>6, ListProperties
<1>8. Gate(result, drafts) # "thrown"
  BY <1>7 DEF Gate
<1> QED BY <1>1, <1>5, <1>8 DEF OfHistory

(* So does whatever statement is carried out.                              *)
LEMMA ChangedFits ==
  ASSUME Inv, NEW h, OfHistory(h), pc = "run", at <= Len(plan), Accepts(db, Current)
  PROVE  DatabaseFits(After(db, Current), World(h))
<1>1. plan[at] \in ToSet(plan)
  <2>1. List(plan) /\ at \in Nat \ {0}
    BY DEF Inv, Planned
  <2>2. at \in 1..Len(plan)
    BY <2>1, ListProperties
  <2> QED BY <2>1, <2>2, ListProperties
<1>2. Current.do \in Statements /\ Adds(Current, World(h))
  BY <1>1, Zenon DEF Inv, Planned, Sound, OfHistory, Current
<1> QED BY <1>2, AfterFits DEF Inv, OfHistory

(* Every step keeps the invariant.                                         *)
LEMMA StepNever ==
  ASSUME \A h \in Histories : NamesApart(World(h)), NeverInv, [Next]_vars
  PROVE  NeverInv'
<1>1. Inv' /\ Inv
  BY StepInv DEF NeverInv
<1>2. PICK h \in Histories : OfHistory(h)
  BY DEF NeverInv
<1>3. SUFFICES pc' # "thrown" /\ OfHistory(h)'
  BY <1>1, <1>2 DEF NeverInv
<1>4. /\ pc # "thrown" /\ releases \in Seq(ToSet(h)) /\ ToSet(def) \subseteq World(h)
      /\ DatabaseFits(db, World(h))
      /\ pc = "run" => \A d \in ToSet(plan) : Adds(d.stmt, World(h))
  BY <1>2 DEF OfHistory, NeverInv
<1>5. CASE UNCHANGED vars
  BY <1>4, <1>5 DEF vars, runVars, OfHistory
<1>6. CASE Deploy
  <2>1. /\ db' = db /\ pc' = "start" /\ releases # << >>
        /\ def' = Head(releases).def /\ releases' = Tail(releases)
    BY <1>6 DEF Deploy
  <2>2. Head(releases) \in ToSet(h) /\ Tail(releases) \in Seq(ToSet(h))
    BY <1>4, <2>1
  <2>3. ToSet(def') \subseteq World(h)
    BY <2>1, <2>2 DEF World
  <2> QED BY <1>4, <2>1, <2>2, <2>3 DEF OfHistory
<1>7. CASE Retry
  BY <1>4, <1>7 DEF Retry, OfHistory
<1>8. CASE Plan
  BY <1>1, <1>2, <1>8, PlanNever
<1>9. CASE Execute
  <2>1. /\ pc = "run" /\ pc' = "run" /\ at <= Len(plan) /\ Accepts(db, Current)
        /\ db' = After(db, Current)
        /\ def' = def /\ plan' = plan /\ releases' = releases
    BY <1>9 DEF Execute, Accepted
  <2> QED BY <1>1, <1>2, <1>4, <2>1, ChangedFits DEF OfHistory
<1>10. CASE ExecuteFails
  <2>1. db' = db /\ pc' = "failed" /\ def' = def /\ releases' = releases
    BY <1>10 DEF ExecuteFails, Fail
  <2> QED BY <1>4, <2>1 DEF OfHistory
<1>11. CASE ExecuteLost
  <2>1. /\ pc = "run" /\ at <= Len(plan) /\ Accepts(db, Current)
        /\ db' \in {db, After(db, Current)}
        /\ pc' = "failed" /\ def' = def /\ releases' = releases
    BY <1>11 DEF ExecuteLost, Fail, Accepted
  <2> QED BY <1>1, <1>2, <1>4, <2>1, ChangedFits DEF OfHistory
<1>12. CASE Finish
  <2>1. db' = db /\ pc' = "done" /\ def' = def /\ releases' = releases
    BY <1>12 DEF Finish
  <2> QED BY <1>4, <2>1 DEF OfHistory
<1>13. CASE Use
  <2>1. PICK q \in DOMAIN db.sequences :
          db' = [db EXCEPT !.sequences[q].last = NextValue(db.sequences[q])]
    BY <1>13 DEF Use
  <2>2. UNCHANGED <<def, pc, plan, releases>>
    BY <1>13 DEF Use, runVars
  <2> DEFINE r == db.sequences[q]
             x == [db.sequences EXCEPT ![q] = [r EXCEPT !.last = NextValue(r)]]
  <2>3. db' = [db EXCEPT !.sequences = x] /\ DOMAIN x = DOMAIN db.sequences
    BY <2>1
  <2> HIDE DEF x
  <2>4. \A p \in DOMAIN x : NameFits("SEQUENCE", p, World(h))
    BY <1>4, <2>3 DEF DatabaseFits
  <2>5. DatabaseFits(db', World(h))
    BY <1>1, <1>4, <2>3, <2>4, ReplacedFits DEF Inv
  <2> QED BY <1>4, <2>2, <2>5 DEF OfHistory
<1> QED
  BY <1>5, <1>6, <1>7, <1>8, <1>9, <1>10, <1>11, <1>12, <1>13 DEF Next, Run

(* planOperations never throws, whatever the database was left as and      *)
(* whatever the releases before it, if the definitions keep their names    *)
(* apart: the steps of a plan go up the places, so no set of them waits    *)
(* for itself.                                                             *)
THEOREM PlansNeverCycle ==
  ASSUME \A h \in Histories : NamesApart(World(h))
  PROVE  Spec => []NeverThrows
<1>1. Init => NeverInv
  BY InitNever
<1>2. NeverInv /\ [Next]_vars => NeverInv'
  BY StepNever
<1>3. NeverInv => NeverThrows
  BY DEF NeverInv, NeverThrows
<1> QED
  BY <1>1, <1>2, <1>3, PTL DEF Spec
=============================================================================
