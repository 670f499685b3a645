----------------------------- MODULE Migration -----------------------------
(***************************************************************************)
(* The life of one table under MigrationRunner.run                         *)
(* (packages/migration/src/runner.ts, executor.ts): releases are deployed  *)
(* one after the other; a run introspects, plans, passes its gates and     *)
(* carries the plan out one statement at a time, waiting for each job. It  *)
(* stops at the first failed step, and a re-run plans from the database as *)
(* it then is. Meanwhile jobs end, the application writes, and any call    *)
(* may be lost, answered too late, or never made because the host died.    *)
(***************************************************************************)
EXTENDS TableOperations, Catalog

CONSTANTS
  Histories,    \* the sequences of [def, allow] releases deployed
  MaxFaults,    \* how many calls are lost in one history
  MaxWrites     \* how many times the application breaks a rule

ASSUME HistoriesAssumption ==
  \A h \in Histories :
    /\ h \in Seq([def : {h[k].def : k \in DOMAIN h},
                 allow : SUBSET {"lossy", "destructive"}])
    /\ \A k \in DOMAIN h : IsDefinition(h[k].def)

ASSUME BudgetsAssumption == MaxFaults \in Nat /\ MaxWrites \in Nat

VARIABLES
  db,         \* the table as the catalog has it
  bad,        \* the rules its rows break
  jobs,       \* the names of what is being built or validated
  releases,   \* the releases still to come
  def,        \* the definition deployed last
  allow,      \* the risks its run may carry out beside "safe"
  pc,         \* where its run is
  plan,       \* the drafts the run carries out, in order
  at,         \* the one it is at
  why,        \* why the last run that failed did: "fault", "data", "catalog"
  promised,   \* the rules both this definition and those it replaces ask for
  faults,     \* calls lost so far
  writes      \* rules broken so far

runVars  == <<def, allow, pc, plan, at, why>>
envVars  == <<releases, promised, faults, writes>>
vars     == <<db, bad, jobs, runVars, envVars>>

Stopped == {"idle", "done", "failed", "refused", "blocked", "thrown"}

Init ==
  /\ db = NoTable /\ bad = {} /\ jobs = {}
  /\ releases \in Histories
  /\ def = NoTable /\ allow = {} /\ pc = "idle"
  /\ plan = << >> /\ at = 1 /\ why = "none"
  /\ promised = {} /\ faults = 0 /\ writes = 0

-----------------------------------------------------------------------------
(* A release is deployed: its host calls run.                              *)
Deploy ==
  /\ pc \in Stopped
  /\ releases # << >>
  /\ def' = Head(releases).def
  /\ allow' = Head(releases).allow
  /\ releases' = Tail(releases)
  /\ pc' = "start"
  /\ why' = "none"
  /\ promised' =
       {rule \in RulesOf(def') :
          \E old \in (IF pc = "done" THEN RulesOf(def) ELSE promised) :
            Entails(old, rule)}
  /\ UNCHANGED <<db, bad, jobs, plan, at, faults, writes>>

(* run is called again after a failed step.                                *)
Retry ==
  /\ pc = "failed"
  /\ pc' = "start"
  /\ why' = "none"
  /\ UNCHANGED <<db, bad, jobs, def, allow, plan, at, envVars>>

(* The gates: reconcile throws for a cycle; a refusal, and a step whose    *)
(* risk is not allowed, stop the run before its first statement.           *)
Gate(result, drafts) ==
  CASE Len(drafts) < Len(Steps(result.changes)) -> "thrown"
    [] OTHER ->
       IF result.errors # {} THEN "refused"
       ELSE IF \E k \in DOMAIN drafts :
                 drafts[k].risk \notin allow \cup {"safe"}
         THEN "blocked"
       ELSE "run"

PlanWith(result, drafts) ==
  /\ pc' = Gate(result, drafts)
  /\ plan' = IF pc' = "run" THEN drafts ELSE << >>

(* plan: the definition is compared with the database, and ordered.        *)
Plan ==
  /\ pc = "start"
  /\ LET result == DiffTableOperations(def, db)
     IN  PlanWith(result, PlannedDrafts(result.changes))
  /\ at' = 1
  /\ UNCHANGED <<db, bad, jobs, def, allow, why, envVars>>

-----------------------------------------------------------------------------
Current == plan[at].stmt

(* Mutant: the next run goes on from the step that failed.                 *)
FailKeepsStep(reason) ==
  /\ pc' = "failed"
  /\ why' = reason
  /\ plan' = << >>
  /\ UNCHANGED <<def, allow, at>>

(* A step failed: those after it are skipped and run throws.               *)
Fail(reason) ==
  /\ pc' = "failed"
  /\ why' = reason
  /\ plan' = << >>
  /\ at' = 1
  /\ UNCHANGED <<def, allow>>

Apply ==
  /\ db' = After(db, Current)
  /\ bad' = RowsAfter(db, bad, Current)
  /\ jobs' = JobsAfter(db, jobs, Current)

Accepted == Accepts(db, Current) /\ ~ Fails(db, bad, Current)

(* execute: the statement runs; a job it submitted is waited for next.     *)
Execute ==
  /\ pc = "run" /\ at <= Len(plan)
  /\ Accepted
  /\ Apply
  /\ IF Submits(db, Current) THEN pc' = "wait" /\ at' = at
                             ELSE pc' = "run" /\ at' = at + 1
  /\ UNCHANGED <<def, allow, plan, why, envVars>>

(* The database refuses it.                                                *)
ExecuteFails ==
  /\ pc = "run" /\ at <= Len(plan)
  /\ ~ Accepted
  /\ Fail(IF Accepts(db, Current) THEN "data" ELSE "catalog")
  /\ UNCHANGED <<db, bad, jobs, envVars>>

(* The call is lost, or the host dies, before or after the database made   *)
(* the change: the run knows of neither.                                   *)
ExecuteLost ==
  /\ pc = "run" /\ at <= Len(plan)
  /\ faults < MaxFaults
  /\ faults' = faults + 1
  /\ Accepted
  /\ Apply \/ UNCHANGED <<db, bad, jobs>>
  /\ Fail("fault")
  /\ UNCHANGED <<releases, promised, writes>>

(* waitAsyncJob: the awaited job has ended.                                *)
AwaitJob ==
  /\ pc = "wait"
  /\ Current.name \notin jobs
  /\ IF Succeeded(db, Current.name)
       THEN pc' = "run" /\ at' = at + 1 /\ UNCHANGED <<def, allow, plan, why>>
       ELSE Fail("data")
  /\ UNCHANGED <<db, bad, jobs, envVars>>

(* The wait is cut off; the job goes on.                                   *)
AwaitLost ==
  /\ pc = "wait"
  /\ faults < MaxFaults
  /\ faults' = faults + 1
  /\ Fail("fault")
  /\ UNCHANGED <<db, bad, jobs, releases, promised, writes>>

(* Every step completed: run returns.                                      *)
Finish ==
  /\ pc = "run" /\ at > Len(plan)
  /\ pc' = "done"
  /\ plan' = << >> /\ at' = 1
  /\ UNCHANGED <<db, bad, jobs, def, allow, why, envVars>>

-----------------------------------------------------------------------------
EndJob ==
  \E n \in jobs :
    /\ db' = Ended(db, bad, n)
    /\ jobs' = jobs \ {n}
    /\ UNCHANGED <<bad, runVars, envVars>>

(* The application writes rows that break a rule the definition has, if    *)
(* nothing in the catalog keeps it from it.                                *)
Write ==
  /\ writes < MaxWrites
  /\ db.exists
  /\ \E rule \in RulesOf(def) \ bad :
       /\ rule.on \subseteq DOMAIN db.columns
       /\ ~ IsEnforced(db, jobs, rule)
       /\ bad' = bad \cup {rule}
  /\ writes' = writes + 1
  /\ UNCHANGED <<db, jobs, runVars, releases, promised, faults>>

(* "Fix the data and run again."                                           *)
FixRows ==
  /\ pc = "failed" /\ why = "data"
  /\ bad # {}
  /\ bad' = {}
  /\ UNCHANGED <<db, jobs, runVars, envVars>>

Run == Plan \/ Execute \/ ExecuteFails \/ AwaitJob \/ Finish

Next ==
  \/ Deploy \/ Retry \/ Run \/ ExecuteLost \/ AwaitLost
  \/ EndJob \/ Write \/ FixRows

Spec == Init /\ [][Next]_vars

(* When a step of the run is enabled: ENABLED <<Run>>_vars, spelled out to  *)
(* spare TLC planning once more in every state.                            *)
RunReady ==
  \/ pc \in {"start", "run"}
  \/ pc = "wait" /\ Current.name \notin jobs

(* A run that was called proceeds, jobs end, and whoever deploys fixes the *)
(* rows a step failed on and runs again. Nothing is assumed of releases,   *)
(* writes or faults.                                                       *)
FairSpec ==
  /\ Spec
  /\ []<>(~ RunReady) \/ []<><<Run>>_vars
  /\ WF_vars(EndJob)
  /\ WF_vars(Retry)
  /\ SF_vars(FixRows)

-----------------------------------------------------------------------------
TypeOK ==
  /\ db.exists \in BOOLEAN
  /\ jobs \subseteq DOMAIN db.indexes \cup DOMAIN db.constraints
  /\ pc \in Stopped \cup {"start", "run", "wait"}
  /\ at \in 1..(Len(plan) + 1)
  /\ why \in {"none", "fault", "data", "catalog"}
  /\ faults \in 0..MaxFaults /\ writes \in 0..MaxWrites

(* A run that ends well leaves the database holding what the definition    *)
(* declares, however many runs, lost calls and half-built objects it took  *)
(* ("a re-run plans from the database as it now is, so it resumes where    *)
(* this one stopped").                                                     *)
ReachesDefinition == pc = "done" => Matches(def, db)

(* And nothing is left to do when it returns: planning again plans nothing.*)
NothingLeft ==
  [][pc = "run" /\ pc' = "done" =>
       DiffTableOperations(def, db) = [changes |-> << >>, errors |-> {}]]_vars

(* No step fails on what an earlier step of its plan, an earlier run or a  *)
(* job did to the catalog: only lost calls and the rows stop a run.        *)
PlansRun == why # "catalog"

(* planOperations never throws: the emission keeps its graph acyclic.      *)
NeverThrows == pc # "thrown"

(* A rule that a definition shares with the one it replaces is enforced    *)
(* all the way ("a changed index is rebuilt without a gap").               *)
NoGap == \A rule \in promised : IsEnforced(db, jobs, rule)

Origins(table) == {table.columns[c].origin : c \in DOMAIN table.columns}

(* A column's data goes only when the release allows destructive steps, or *)
(* the column was marked deprecated by an earlier one.                     *)
DataKept ==
  [][\A c \in DOMAIN db.columns :
       db.columns[c].origin \in Origins(db')
       \/ "destructive" \in allow
       \/ (db.columns[c].deprecated /\ "lossy" \in allow)]_vars

(* Once the last release is deployed, a failed run is followed by one that *)
(* reaches the definition: it never ends refused, blocked or thrown, and   *)
(* never fails for ever. Nor does a run throw, whatever came before: there *)
(* would be none after it.                                                 *)
Converges == pc \in {"failed", "thrown"} /\ releases = << >> ~> pc = "done"
=============================================================================
