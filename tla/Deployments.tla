---------------------------- MODULE Deployments ----------------------------
(***************************************************************************)
(* The life of a whole schema under MigrationRunner.run: releases of       *)
(* several objects deployed one after the other, each validated, planned   *)
(* by SchemaReconciler and carried out statement by statement, with calls  *)
(* that are lost and runs that are called again. Migration has the same    *)
(* runner over one table in depth (columns, indexes, constraints, jobs);   *)
(* here no statement submits a job, and the objects depend on each other.  *)
(***************************************************************************)
EXTENDS ObjectOperations, ObjectCatalog

CONSTANTS
  Histories,    \* the sequences of [def, allow] releases deployed
  MaxFaults,    \* how many calls are lost in one history
  MaxUses       \* how many values the application takes from a sequence

ASSUME HistoriesAssumption ==
  \A h \in Histories :
    /\ h \in Seq([def : {h[k].def : k \in DOMAIN h},
                 allow : SUBSET {"lossy", "destructive"}])
    /\ \A k \in DOMAIN h :
         /\ h[k].def \in Seq(ToSet(h[k].def))
         /\ \A o \in ToSet(h[k].def) : IsObject(o)

ASSUME BudgetsAssumption == MaxFaults \in Nat /\ MaxUses \in Nat

VARIABLES
  db,         \* the objects as the catalog has them
  releases,   \* the releases still to come
  def,        \* the definition deployed last
  allow,      \* the risks its run may carry out beside "safe"
  pc,         \* where its run is
  plan,       \* the drafts the run carries out, in order
  at,         \* the one it is at
  why,        \* why the last run that failed did: "fault", "data", "catalog"
  faults,     \* calls lost so far
  uses        \* values taken so far

runVars == <<def, allow, pc, plan, at, why>>
vars    == <<db, runVars, releases, faults, uses>>

Stopped == {"idle", "done", "failed", "invalid", "refused", "blocked", "thrown"}

Init ==
  /\ db = EmptyDatabase
  /\ releases \in Histories
  /\ def = << >> /\ allow = {} /\ pc = "idle"
  /\ plan = << >> /\ at = 1 /\ why = "none"
  /\ faults = 0 /\ uses = 0

(* A release is deployed: its host calls run.                              *)
Deploy ==
  /\ pc \in Stopped
  /\ releases # << >>
  /\ def' = Head(releases).def
  /\ allow' = Head(releases).allow
  /\ releases' = Tail(releases)
  /\ pc' = "start"
  /\ why' = "none"
  /\ UNCHANGED <<db, plan, at, faults, uses>>

(* run is called again after a failed step.                                *)
Retry ==
  /\ pc = "failed"
  /\ pc' = "start"
  /\ why' = "none"
  /\ UNCHANGED <<db, def, allow, plan, at, releases, faults, uses>>

(* What stops a run before its first statement: a definition that is not   *)
(* valid, a cycle, a refusal, a step whose risk is not allowed.            *)
Gate(result, drafts) ==
  CASE ~ IsValid(def) -> "invalid"
    [] OTHER ->
       IF Len(drafts) < Len(Steps(result.changes)) THEN "thrown"
       ELSE IF result.errors # {} THEN "refused"
       ELSE IF \E k \in DOMAIN drafts : drafts[k].risk \notin allow \cup {"safe"}
         THEN "blocked"
       ELSE "run"

PlanWith(result, drafts) ==
  /\ pc' = Gate(result, drafts)
  /\ plan' = IF pc' = "run" THEN drafts ELSE << >>

Plan ==
  /\ pc = "start"
  /\ LET result == Reconcile(def, Introspect(db))
     IN  PlanWith(result, PlannedDrafts(result.changes))
  /\ at' = 1
  /\ UNCHANGED <<db, def, allow, why, releases, faults, uses>>

-----------------------------------------------------------------------------
Current == plan[at].stmt

Accepted == Accepts(db, Current) /\ ~ Fails(db, Current)

Fail(reason) ==
  /\ pc' = "failed"
  /\ why' = reason
  /\ plan' = << >>
  /\ at' = 1
  /\ UNCHANGED <<def, allow, releases, uses>>

Execute ==
  /\ pc = "run" /\ at <= Len(plan)
  /\ Accepted
  /\ db' = After(db, Current)
  /\ at' = at + 1
  /\ UNCHANGED <<def, allow, pc, plan, why, releases, faults, uses>>

ExecuteFails ==
  /\ pc = "run" /\ at <= Len(plan)
  /\ ~ Accepted
  /\ Fail(IF Accepts(db, Current) THEN "data" ELSE "catalog")
  /\ UNCHANGED <<db, faults>>

(* The call is lost, or the host dies, before or after the change is made. *)
ExecuteLost ==
  /\ pc = "run" /\ at <= Len(plan)
  /\ faults < MaxFaults
  /\ faults' = faults + 1
  /\ Accepted
  /\ db' \in {db, After(db, Current)}
  /\ Fail("fault")

Finish ==
  /\ pc = "run" /\ at > Len(plan)
  /\ pc' = "done"
  /\ plan' = << >> /\ at' = 1
  /\ UNCHANGED <<db, def, allow, why, releases, faults, uses>>

(* The application takes the next value of a sequence.                     *)
Use ==
  /\ uses < MaxUses
  /\ \E q \in DOMAIN db.sequences :
       /\ CanAdvance(db.sequences[q])
       /\ db' = [db EXCEPT !.sequences[q].last = NextValue(db.sequences[q])]
  /\ uses' = uses + 1
  /\ UNCHANGED <<runVars, releases, faults>>

Run == Plan \/ Execute \/ ExecuteFails \/ Finish

Next == Deploy \/ Retry \/ Run \/ ExecuteLost \/ Use

Spec == Init /\ [][Next]_vars

(* A run that was called proceeds, and one that failed is called again.    *)
(* WF_vars(Run), its ENABLED spelled out to spare TLC planning once more.  *)
FairSpec ==
  /\ Spec
  /\ []<>(pc \notin {"start", "run"}) \/ []<><<Run>>_vars
  /\ WF_vars(Retry)

-----------------------------------------------------------------------------
(* A run that ends well leaves the objects of the definition and no other, *)
(* each as it is declared, an unset option at what the database makes of   *)
(* it; and planning again plans nothing.                                   *)
Declared(kind) == {o \in ToSet(def) : o.kind = kind}

Holds ==
  /\ db.schemas = {QualifiedName(o) : o \in Declared("SCHEMA")}
  /\ DOMAIN db.domains = {QualifiedName(o) : o \in Declared("DOMAIN")}
  /\ DOMAIN db.sequences = {QualifiedName(o) : o \in Declared("SEQUENCE")}
  /\ DOMAIN db.tables = {QualifiedName(o) : o \in Declared("TABLE")}
  /\ \A o \in Declared("DOMAIN") :
       LET domain == db.domains[QualifiedName(o)]
       IN  \A key \in DOMAIN domain : domain[key] = o[key]
  /\ \A o \in Declared("SEQUENCE") :
       db.sequences[QualifiedName(o)].options = SequenceCreated(o.options)
  /\ \A o \in Declared("TABLE") :
       LET columns == db.tables[QualifiedName(o)].columns
       IN  /\ DOMAIN columns = DOMAIN o.columns
           /\ \A c \in DOMAIN columns : columns[c].domain = o.columns[c]

Deployed ==
  [][pc = "run" /\ pc' = "done" =>
       Holds /\ Reconcile(def, Introspect(db)) = Result(<< >>, {})]_vars

(* No step is refused by the catalog for what another object needs, has or *)
(* still uses, whatever the order of the definition ("ordering comes from  *)
(* references, not from kind").                                            *)
PlansRun == why # "catalog"

(* planOperations never throws: what the objects of a plan ask of each     *)
(* other, created, altered and dropped together, has an order. A namespace *)
(* shares its key in the plan with an object of its name in "public": the  *)
(* two are not told apart (MCFindingNamesake.cfg).                         *)
NeverThrows == pc # "thrown"

(* The objects a history declares, in any of its releases.                 *)
World(h) == UNION {ToSet(r.def) : r \in ToSet(h)}

(* The names the objects of a world use as namespaces,                     *)
Spaces(world) == {<<o.ns>> : o \in {o \in world : HasCustomNamespace(o)}}

(* and those the columns of its tables use as types.                       *)
Types(world) ==
  (UNION {{o.columns[c] : c \in DOMAIN o.columns} :
            o \in {o \in world : o.kind = "TABLE"}}) \ {<< >>}

(* The objects of a world keep its names apart: whatever has the name of a *)
(* namespace in use is that namespace, and whatever has the name of a type *)
(* in use is a domain.                                                     *)
NamesApart(world) ==
  \A o \in world :
    /\ QualifiedName(o) \in Spaces(world) => o.kind = "SCHEMA"
    /\ QualifiedName(o) \in Types(world) => o.kind = "DOMAIN"

Origins(database) ==
  UNION {{database.tables[t].columns[c].origin :
            c \in DOMAIN database.tables[t].columns} : t \in DOMAIN database.tables}

Guards(domain) ==
  {k \in {"notNull"} : domain.notNull} \cup {k \in {"check"} : domain.check # Unset}

(* What cannot be had again goes only when the release allows destructive  *)
(* steps: the data of a column, through renames of its table, a sequence,  *)
(* a NOT NULL or CHECK of a domain; and a sequence is left less room only  *)
(* when it allows lossy ones.                                              *)
NothingLost ==
  [][/\ \/ "destructive" \in allow
        \/ /\ Origins(db) \subseteq Origins(db')
           /\ DOMAIN db.sequences \subseteq DOMAIN db'.sequences
           /\ \A q \in DOMAIN db.domains :
                /\ q \in DOMAIN db'.domains
                /\ Guards(db.domains[q]) \subseteq Guards(db'.domains[q])
     /\ \/ "lossy" \in allow
        \/ \A q \in DOMAIN db.sequences \cap DOMAIN db'.sequences :
             /\ db'.sequences[q].options.min <= db.sequences[q].options.min
             /\ db'.sequences[q].options.max >= db.sequences[q].options.max]_vars

(* A column that is planned to be added can be, for the rows there are:    *)
(* what they lack is refused before the run (NOT_NULL_NEEDS_DEFAULT), by   *)
(* the definition; the database goes by the domain as it is when the step  *)
(* runs, which the same plan or one that was stopped may have altered. A   *)
(* type change stopped here would have dropped the column for good.        *)
AddsFitRows ==
  [][pc = "run" /\ pc' = "failed" /\ why' = "data" => Current.do # "ADD COLUMN"]_vars

(* A run stopped anywhere by a lost call is followed by one that ends well *)
(* or meets a sequence already past its new bounds: what was done of it    *)
(* never makes the rest refused, blocked or impossible.                    *)
Resumes ==
  pc = "failed" /\ why = "fault" /\ releases = << >> ~> pc = "done" \/ why = "data"
=============================================================================
