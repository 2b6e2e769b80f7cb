---------------------------- MODULE PipelineProofs ----------------------------
(* The pipeline keeps its promises for any artifacts, callers and runs, and   *)
(* so do the model registry beside it and the stock recommendations, for any  *)
(* payload and any damage to its dossier.                                     *)
EXTENDS ModelGovernance, StockRecommendations, SumTheorems, TLAPS

\* Every recorded row still names what it named.
RowsResolve ==
    \A r \in Runs : \A i \in DOMAIN stages[r] :
        Resolves(r, stages[r][i].stage, stages[r][i].id)

\* An evaluation that is on its way to the ledger is reproducible already.
Evaluated(e) ==
    /\ Assembles(e.run, e.authority)
    /\ Assembled(e.run, e.authority, e.kernel, e.adapter) = e

TasksOK == \A w \in Workers : task[w].op = "decided" => Evaluated(task[w].evaluation)

Inv ==
    /\ PipelineTypeOK
    /\ LoadsAlways
    /\ RowsResolve
    /\ TasksOK
    /\ IntentIsAuthorized
    /\ Reproducible
    /\ Parity

USE DEF INVESTMENT_POLICY, ACCOUNT_TRUTH, TIME_TRUTH, DATA_TRUTH, FINANCIAL_CALCULATION,
        TARGET_PORTFOLIO, RISK_CONTROL, ORDER

-------------------------------------------------------------------------------
(* What a step leaves of an evaluation.                                       *)

\* The tables only grow.
Grows ==
    /\ intents \subseteq intents'
    /\ \A r \in Runs :
          /\ Len(stages'[r]) >= Len(stages[r])
          /\ \A i \in 1..Len(stages[r]) : stages'[r][i] = stages[r][i]

\* A row that resolves keeps resolving while the tables grow (_resolve_hash).
LEMMA ResolvesStable ==
    ASSUME NEW r, NEW s, NEW id, intents \subseteq intents', Resolves(r, s, id)
    PROVE  Resolves(r, s, id)'
<1>1. ASSUME s = 8, \E i \in intents : i.id = id /\ i.run = r
      PROVE  \E i \in intents' : i.id = id /\ i.run = r
  BY <1>1
<1>2. QED BY <1>1 DEF Resolves, ApprovesIn, TargetIsOf

\* What the stages assemble to does not change while the tables grow and stay
\* readable (assemble_canonical_decision_request).
LEMMA EvaluatedStable ==
    ASSUME PipelineTypeOK, PipelineTypeOK', Grows, LoadsAlways',
           NEW e \in Evaluation, Evaluated(e)
    PROVE  Evaluated(e)'
<1> DEFINE r == e.run
<1>1. r \in Runs BY DEF Evaluation
<1>2. stages[r] \in Seq(Evidence) /\ stages'[r] \in Seq(Evidence)
  BY <1>1 DEF PipelineTypeOK
<1>3. Len(stages[r]) >= 7 BY DEF Evaluated, Assembles, PreExecution
<1>4. \A s \in 1..7 : stages'[r][s] = stages[r][s]
  BY <1>1, <1>2, <1>3 DEF Grows
<1>5. Len(stages'[r]) >= 7 BY <1>1, <1>2, <1>3 DEF Grows
<1>6. \A s \in 1..7 : Named(r, s)' = Named(r, s) BY <1>4 DEF Named
<1>7. PreExecution(r)'
  <2>1. Readable(r)' BY <1>1 DEF LoadsAlways
  <2>2. ASSUME NEW s \in 1..7 PROVE Resolves(r, s, Named(r, s))'
    <3>1. Resolves(r, s, Named(r, s)) BY DEF Evaluated, Assembles, PreExecution
    <3>2. PICK id : id = Named(r, s) OBVIOUS
    <3>3. Resolves(r, s, id)' BY <3>1, <3>2, ResolvesStable DEF Grows
    <3>4. Named(r, s)' = id BY <3>2, <1>6
    <3>5. QED BY <3>3, <3>4, Zenon DEF Resolves
  <2>3. QED BY <1>5, <2>1, <2>2 DEF PreExecution
<1>8. OneLineage(r)'
  BY <1>6 DEF Evaluated, Assembles, OneLineage, TargetIsOf
<1>9. QED
  BY <1>6, <1>7, <1>8 DEF Evaluated, Assembles, Assembled, PricingAgrees

-------------------------------------------------------------------------------
(* One lemma per action that changes a table.                                 *)

\* What the pieces of the invariant need when the tables grow and neither a
\* task, an intent nor an evaluation is new.
LEMMA Carried ==
    ASSUME Inv, PipelineTypeOK', Grows, LoadsAlways'
    PROVE  /\ \A w \in Workers :
                 task'[w] = task[w] => (task[w].op = "decided" =>
                                            Evaluated(task[w].evaluation)')
           /\ \A e \in ledger : Evaluated(e)'
           /\ \A i \in intents : \A s \in 1..7 :
                 s \in DOMAIN stages'[i.run] /\ stages'[i.run][s].stage = s
<1>1. ASSUME NEW w \in Workers, task'[w] = task[w], task[w].op = "decided"
      PROVE  Evaluated(task[w].evaluation)'
  <2>1. task[w].evaluation \in Evaluation BY <1>1 DEF Inv, PipelineTypeOK, Task, Idle
  <2>2. Evaluated(task[w].evaluation) BY <1>1 DEF Inv, TasksOK
  <2>3. PICK e \in Evaluation : e = task[w].evaluation BY <2>1
  <2>4. Evaluated(e) BY <2>2, <2>3
  <2>5. Evaluated(e)' BY <2>4, EvaluatedStable DEF Inv
  <2>6. e = task'[w].evaluation BY <1>1, <2>3
  <2>7. QED BY <2>5, <2>6, Zenon DEF Evaluated
<1>2. ASSUME NEW e \in ledger PROVE Evaluated(e)'
  <2>1. e \in Evaluation BY DEF Inv, PipelineTypeOK
  <2>2. Evaluated(e) BY DEF Inv, Reproducible, Evaluated
  <2>3. QED BY <2>1, <2>2, EvaluatedStable DEF Inv
<1>3. ASSUME NEW i \in intents, NEW s \in 1..7
      PROVE  s \in DOMAIN stages'[i.run] /\ stages'[i.run][s].stage = s
  <2>1. i.run \in Runs BY DEF Inv, PipelineTypeOK, Intent
  <2>2. stages[i.run] \in Seq(Evidence) /\ stages'[i.run] \in Seq(Evidence)
    BY <2>1 DEF Inv, PipelineTypeOK
  <2>3. s \in DOMAIN stages[i.run] /\ stages[i.run][s].stage = s
    BY DEF Inv, IntentIsAuthorized
  <2>4. QED BY <2>1, <2>2, <2>3 DEF Grows
<1>4. QED BY <1>1, <1>2, <1>3

\* A step that leaves the stages alone and drops no intent.
LEMMA RowsKept ==
    ASSUME Inv, UNCHANGED stages, intents \subseteq intents'
    PROVE  LoadsAlways' /\ RowsResolve' /\ Grows
<1>1. LoadsAlways' BY DEF Inv, LoadsAlways, Readable
<1>2. Grows BY DEF Inv, PipelineTypeOK, Grows
<1>3. RowsResolve'
  <2>1. ASSUME NEW r \in Runs, NEW i \in DOMAIN stages[r]
        PROVE  Resolves(r, stages[r][i].stage, stages[r][i].id)'
    <3>1. Resolves(r, stages[r][i].stage, stages[r][i].id) BY DEF Inv, RowsResolve
    <3>2. PICK s, id : s = stages[r][i].stage /\ id = stages[r][i].id OBVIOUS
    <3>3. Resolves(r, s, id)' BY <3>1, <3>2, ResolvesStable
    <3>4. s = stages'[r][i].stage /\ id = stages'[r][i].id BY <3>2
    <3>5. QED BY <3>3, <3>4, Zenon DEF Resolves
  <2>2. QED BY <2>1 DEF RowsResolve
<1>4. QED BY <1>1, <1>2, <1>3

\* A step that leaves the intents alone as well.
LEMMA TablesKept ==
    ASSUME Inv, PipelineTypeOK', UNCHANGED <<stages, intents>>
    PROVE  LoadsAlways' /\ RowsResolve' /\ IntentIsAuthorized' /\ Grows
<1>1. IntentIsAuthorized' BY DEF Inv, IntentIsAuthorized
<1>2. QED BY <1>1, RowsKept

\* CreateRun: the tables of evidence are left alone.
LEMMA CreateRunStep ==
    ASSUME Inv, NEW r \in Runs, CreateRun(r)
    PROVE  Inv'
<1>1. PipelineTypeOK' BY DEF Inv, PipelineTypeOK, CreateRun
<1>2. UNCHANGED <<stages, intents, task, ledger>> BY DEF CreateRun
<1>3. LoadsAlways' /\ RowsResolve' /\ IntentIsAuthorized' /\ Grows
  BY <1>1, <1>2, TablesKept
<1>4. TasksOK' BY <1>1, <1>2, <1>3, Carried DEF TasksOK
<1>5. Reproducible' BY <1>1, <1>2, <1>3, Carried DEF Reproducible, Evaluated
<1>6. Parity' BY <1>2 DEF Inv, Parity
<1>7. QED BY <1>1, <1>3, <1>4, <1>5, <1>6 DEF Inv

\* Record: the row a caller is about to insert is well formed.
LEMMA RecordStep ==
    ASSUME Inv, NEW w \in Workers, NEW r \in Runs, NEW s \in StageOrder,
           NEW id \in Artifacts, Record(w, r, s, id)
    PROVE  Inv'
<1>1. PipelineTypeOK'
  <2>1. [op |-> "record", run |-> r, row |-> [stage |-> s, id |-> id]] \in Task
    BY DEF Task, Evidence
  <2>2. task' \in [Workers -> Task] BY <2>1 DEF Inv, PipelineTypeOK, Record
  <2>3. QED BY <2>2 DEF Inv, PipelineTypeOK, Record
<1>2. UNCHANGED <<stages, intents, ledger>> BY DEF Record
<1>3. LoadsAlways' /\ RowsResolve' /\ IntentIsAuthorized' /\ Grows
  BY <1>1, <1>2, TablesKept
<1>4. TasksOK'
  <2>1. \A v \in Workers : v # w => task'[v] = task[v]
    BY DEF Record, Inv, PipelineTypeOK
  <2>2. task'[w].op # "decided" BY DEF Record, Inv, PipelineTypeOK
  <2>3. QED BY <1>1, <1>3, <2>1, <2>2, Carried DEF TasksOK
<1>5. Reproducible' BY <1>1, <1>2, <1>3, Carried DEF Reproducible, Evaluated
<1>6. Parity' BY <1>2 DEF Inv, Parity
<1>7. QED BY <1>1, <1>3, <1>4, <1>5, <1>6 DEF Inv

\* InsertEvidence: a row that is stored continues the order, whatever was
\* stored since it was prepared, and names an artifact of its run.
LEMMA InsertEvidenceStep ==
    ASSUME Inv, NEW w \in Workers, InsertEvidence(w)
    PROVE  Inv'
<1>0. PICK r \in Runs, row \in Evidence : r = task[w].run /\ row = task[w].row
  BY DEF Inv, PipelineTypeOK, Task, Idle, InsertEvidence
<1>1. r \in Runs /\ row \in Evidence OBVIOUS
<1>2. stages[r] \in Seq(Evidence) BY <1>1 DEF Inv, PipelineTypeOK
<1>3. UNCHANGED <<now, created, intents, ledger>> BY DEF InsertEvidence
<1>4. \A v \in Workers : v # w => task'[v] = task[v]
  BY DEF InsertEvidence, Inv, PipelineTypeOK
<1>5. task'[w].op # "decided" BY DEF InsertEvidence, Inv, PipelineTypeOK, Idle
<1>6. task' \in [Workers -> Task]
  BY DEF InsertEvidence, Inv, PipelineTypeOK, Task
<1>7. CASE UNCHANGED stages
  <2>1. PipelineTypeOK' BY <1>3, <1>6, <1>7 DEF Inv, PipelineTypeOK
  <2>2. LoadsAlways' /\ RowsResolve' /\ IntentIsAuthorized' /\ Grows
    BY <1>3, <1>7, <2>1, TablesKept
  <2>3. TasksOK' BY <1>4, <1>5, <2>1, <2>2, Carried DEF TasksOK
  <2>4. Reproducible' BY <1>3, <2>1, <2>2, Carried DEF Reproducible, Evaluated
  <2>5. Parity' BY <1>3 DEF Inv, Parity
  <2>6. QED BY <2>1, <2>2, <2>3, <2>4, <2>5 DEF Inv
<1>8. CASE /\ Contiguous(r, row.stage) /\ Resolves(r, row.stage, row.id)
           /\ stages' = [stages EXCEPT ![r] = Append(stages[r], row)]
  <2>1. stages'[r] = Append(stages[r], row) /\ \A q \in Runs : q # r => stages'[q] = stages[q]
    BY <1>1, <1>8 DEF Inv, PipelineTypeOK
  <2>2. PipelineTypeOK'
    <3>1. Append(stages[r], row) \in Seq(Evidence) BY <1>1, <1>2
    <3>2. stages' \in [Runs -> Seq(Evidence)] BY <1>8, <3>1 DEF Inv, PipelineTypeOK
    <3>3. QED BY <1>3, <1>6, <3>2 DEF Inv, PipelineTypeOK
  <2>3. /\ Len(stages'[r]) = Len(stages[r]) + 1
        /\ \A i \in 1..Len(stages[r]) : stages'[r][i] = stages[r][i]
        /\ stages'[r][Len(stages[r]) + 1] = row
        /\ DOMAIN stages'[r] = 1..(Len(stages[r]) + 1)
    BY <1>1, <1>2, <2>1
  <2>4. Grows
    <3>1. ASSUME NEW q \in Runs
          PROVE  /\ Len(stages'[q]) >= Len(stages[q])
                 /\ \A i \in 1..Len(stages[q]) : stages'[q][i] = stages[q][i]
      <4>1. stages[q] \in Seq(Evidence) BY DEF Inv, PipelineTypeOK
      <4>2. CASE q = r BY <1>2, <2>3, <4>2
      <4>3. CASE q # r BY <2>1, <4>1, <4>3
      <4>4. QED BY <4>2, <4>3
    <3>2. QED BY <1>3, <3>1 DEF Grows
  <2>5. LoadsAlways'
    <3>1. row.stage = Len(stages[r]) + 1 BY <1>1, <1>2, <1>8 DEF Contiguous, Evidence, StageOrder
    <3>2. \A i \in DOMAIN stages[r] : stages[r][i].stage = i BY <1>1 DEF Inv, LoadsAlways, Readable
    <3>3. Readable(r)' BY <1>2, <2>3, <3>1, <3>2 DEF Readable
    <3>4. \A q \in Runs : q # r => Readable(q)' BY <2>1 DEF Inv, LoadsAlways, Readable
    <3>5. QED BY <3>3, <3>4 DEF LoadsAlways
  <2>6. RowsResolve'
    <3>1. SUFFICES ASSUME NEW q \in Runs, NEW i \in DOMAIN stages'[q]
                   PROVE  Resolves(q, stages[q][i].stage, stages[q][i].id)'
      BY DEF RowsResolve
    <3>2. PICK s, id : s = stages'[q][i].stage /\ id = stages'[q][i].id OBVIOUS
    <3>3. Resolves(q, s, id)
      <4>1. CASE q = r /\ i = Len(stages[r]) + 1 BY <1>8, <2>3, <3>2, <4>1
      <4>2. CASE q = r /\ i # Len(stages[r]) + 1
        <5>1. i \in DOMAIN stages[r] /\ stages'[r][i] = stages[r][i]
          BY <1>2, <2>3, <3>1, <4>2
        <5>2. QED BY <1>1, <3>2, <4>2, <5>1 DEF Inv, RowsResolve
      <4>3. CASE q # r BY <2>1, <3>1, <3>2, <4>3 DEF Inv, RowsResolve
      <4>4. QED BY <4>1, <4>2, <4>3
    <3>4. Resolves(q, s, id)' BY <1>3, <3>3, ResolvesStable
    <3>5. QED BY <3>2, <3>4, Zenon DEF Resolves
  <2>7. IntentIsAuthorized'
    BY <1>3, <2>2, <2>4, <2>5, Carried DEF IntentIsAuthorized, Inv
  <2>8. TasksOK' BY <1>4, <1>5, <2>2, <2>4, <2>5, Carried DEF TasksOK
  <2>9. Reproducible' BY <1>3, <2>2, <2>4, <2>5, Carried DEF Reproducible, Evaluated
  <2>10. Parity' BY <1>3 DEF Inv, Parity
  <2>11. QED BY <2>2, <2>5, <2>6, <2>7, <2>8, <2>9, <2>10 DEF Inv
<1>9. QED
  <2>1. stages' = [stages EXCEPT ![r] =
                     IF Contiguous(r, row.stage) /\ Resolves(r, row.stage, row.id)
                     THEN Append(stages[r], row) ELSE stages[r]]
    BY <1>0 DEF InsertEvidence
  <2>2. CASE ~(Contiguous(r, row.stage) /\ Resolves(r, row.stage, row.id))
    <3>1. stages' = [stages EXCEPT ![r] = stages[r]] BY <2>1, <2>2
    <3>2. stages' = stages BY <1>1, <3>1 DEF Inv, PipelineTypeOK
    <3>3. QED BY <1>7, <3>2
  <2>3. QED BY <1>8, <2>1, <2>2

\* InsertIntent: the guard found the decision in stage 7, so the six stages
\* before it are there and the decision let a target of this run through.
LEMMA InsertIntentStep ==
    ASSUME Inv, NEW i \in IntentIds, NEW r \in Runs, NEW d \in Decisions,
           InsertIntent(i, r, d)
    PROVE  Inv'
<1> DEFINE new == [id |-> i, run |-> r, decision |-> d]
<1>1. UNCHANGED <<now, created, stages, task, ledger>> /\ intents' = intents \cup {new}
  BY DEF InsertIntent
<1>2. PipelineTypeOK' BY <1>1 DEF Inv, PipelineTypeOK, Intent
<1>3. LoadsAlways' /\ RowsResolve' /\ Grows BY <1>1, RowsKept
<1>4. IntentIsAuthorized'
  <2>1. PICK n \in DOMAIN stages[r] : stages[r][n] = [stage |-> 7, id |-> d]
    BY DEF InsertIntent, RiskControlled
  <2>2. stages[r] \in Seq(Evidence) BY DEF Inv, PipelineTypeOK
  <2>3. \A k \in DOMAIN stages[r] : stages[r][k].stage = k BY DEF Inv, LoadsAlways, Readable
  <2>4. n = 7 BY <2>1, <2>3
  <2>5. \A s \in 1..7 : s \in DOMAIN stages[r] /\ stages[r][s].stage = s
    BY <2>1, <2>2, <2>3, <2>4
  <2>6. Resolves(r, 7, d)
    <3>1. Resolves(r, stages[r][n].stage, stages[r][n].id) BY DEF Inv, RowsResolve
    <3>2. stages[r][n].stage = 7 /\ stages[r][n].id = d BY <2>1
    <3>3. QED BY <3>1, <3>2
  <2>7. ApprovesIn(r, d) BY <2>6 DEF Resolves
  <2>8. DecisionAction[d] # "BLOCK" BY <2>7 DEF ApprovesIn, Approving
  <2>9. QED BY <1>1, <2>5, <2>7, <2>8 DEF Inv, IntentIsAuthorized, ApprovesIn, TargetIsOf
<1>5. TasksOK' BY <1>1, <1>2, <1>3, Carried DEF TasksOK
<1>6. Reproducible' BY <1>1, <1>2, <1>3, Carried DEF Reproducible, Evaluated
<1>7. Parity' BY <1>1 DEF Inv, Parity
<1>8. QED BY <1>2, <1>3, <1>4, <1>5, <1>6, <1>7 DEF Inv

\* Decide: what the kernel returns can be assembled again.
LEMMA DecideStep ==
    ASSUME Inv, NEW w \in Workers, NEW r \in Runs, NEW a \in Authorities,
           NEW k \in Kernels, NEW d \in Adapters, Decide(w, r, a, k, d)
    PROVE  Inv'
<1>1. PICK e : e = Assembled(r, a, k, d) OBVIOUS
<1>2. e \in Evaluation
  <2>1. /\ Resolves(r, 5, Named(r, 5)) /\ Resolves(r, 6, Named(r, 6))
        /\ Resolves(r, 7, Named(r, 7))
    BY DEF Decide, Assembles, PreExecution
  <2>2. /\ Named(r, 5) \in Expectations /\ Named(r, 6) \in Targets
        /\ Named(r, 7) \in Decisions
    BY <2>1 DEF Resolves
  <2>3. QED BY <1>1, <2>2 DEF Assembled, Evaluation
<1>3. /\ UNCHANGED <<now, created, stages, intents, ledger>>
      /\ task' = [task EXCEPT ![w] = [op |-> "decided", evaluation |-> e]]
  BY <1>1 DEF Decide
<1>4. /\ \A v \in Workers : v # w => task'[v] = task[v]
      /\ task'[w] = [op |-> "decided", evaluation |-> e]
  BY <1>3 DEF Inv, PipelineTypeOK
<1>5. PipelineTypeOK'
  <2>1. [op |-> "decided", evaluation |-> e] \in Task BY <1>2 DEF Task
  <2>2. task' \in [Workers -> Task] BY <1>3, <2>1 DEF Inv, PipelineTypeOK
  <2>3. QED BY <1>3, <2>2 DEF Inv, PipelineTypeOK
<1>6. LoadsAlways' /\ RowsResolve' /\ IntentIsAuthorized' /\ Grows
  BY <1>3, <1>5, TablesKept
<1>7. Evaluated(e)'
  <2>1. e.run = r /\ e.authority = a /\ e.kernel = k /\ e.adapter = d
    BY <1>1 DEF Assembled
  <2>2. Evaluated(e) BY <1>1, <2>1 DEF Evaluated, Decide
  <2>3. QED BY <1>2, <1>5, <1>6, <2>2, EvaluatedStable DEF Inv
<1>8. TasksOK'
  <2>1. e = task'[w].evaluation BY <1>4
  <2>2. Evaluated(task[w].evaluation)' BY <1>7, <2>1, Zenon DEF Evaluated
  <2>3. QED BY <1>4, <1>5, <1>6, <2>2, Carried DEF TasksOK
<1>9. Reproducible' BY <1>3, <1>5, <1>6, Carried DEF Reproducible, Evaluated
<1>10. Parity' BY <1>3 DEF Inv, Parity
<1>11. QED BY <1>5, <1>6, <1>8, <1>9, <1>10 DEF Inv

\* RecordEvaluation: the ledger takes only what agrees with all it holds.
LEMMA RecordEvaluationStep ==
    ASSUME Inv, NEW w \in Workers, RecordEvaluation(w)
    PROVE  Inv'
<1>1. PICK e \in Evaluation : e = task[w].evaluation /\ Evaluated(e)
  <2>1. task[w].evaluation \in Evaluation
    BY DEF Inv, PipelineTypeOK, Task, Idle, RecordEvaluation
  <2>2. Evaluated(task[w].evaluation) BY DEF Inv, TasksOK, RecordEvaluation
  <2>3. QED BY <2>1, <2>2
<1>2. UNCHANGED <<now, created, stages, intents>> BY DEF RecordEvaluation
<1>3. ledger' = IF Agrees(e) THEN ledger \cup {e} ELSE ledger
  BY <1>1 DEF RecordEvaluation
<1>4. /\ \A v \in Workers : v # w => task'[v] = task[v]
      /\ task'[w].op # "decided"
      /\ task' \in [Workers -> Task]
  BY DEF RecordEvaluation, Inv, PipelineTypeOK, Task, Idle
<1>5. PipelineTypeOK' BY <1>2, <1>3, <1>4 DEF Inv, PipelineTypeOK
<1>6. LoadsAlways' /\ RowsResolve' /\ IntentIsAuthorized' /\ Grows
  BY <1>2, <1>5, TablesKept
<1>7. TasksOK' BY <1>4, <1>5, <1>6, Carried DEF TasksOK
<1>8. Reproducible'
  <2>1. Evaluated(e)' BY <1>1, <1>5, <1>6, EvaluatedStable DEF Inv
  <2>2. \A f \in ledger' : Evaluated(f)' BY <1>3, <1>5, <1>6, <2>1, Carried
  <2>3. QED BY <2>2 DEF Reproducible, Evaluated
<1>9. Parity'
  <2>1. CASE ~Agrees(e) BY <1>3, <2>1 DEF Inv, Parity
  <2>2. CASE Agrees(e)
    <3>1. ledger' = ledger \cup {e} BY <1>3, <2>2
    <3>2. \A f \in ledger : SameInput(e, f) => Semantic(f) = Semantic(e)
      BY <2>2 DEF Agrees
    <3>3. \A f \in ledger : SameInput(f, e) => Semantic(f) = Semantic(e)
      BY <3>2 DEF SameInput
    <3>4. \A f, g \in ledger : SameInput(f, g) => Semantic(f) = Semantic(g)
      BY DEF Inv, Parity
    <3>5. QED BY <3>1, <3>2, <3>3, <3>4 DEF Parity
  <2>3. QED BY <2>1, <2>2
<1>10. QED BY <1>5, <1>6, <1>7, <1>8, <1>9 DEF Inv

-------------------------------------------------------------------------------
(* The theorems.                                                              *)

LEMMA InvInitially == ASSUME PipelineInit PROVE Inv
<1>1. PipelineTypeOK
  BY ClockAssumption DEF PipelineTypeOK, PipelineInit, Time, NotCreated, Task
<1>2. TasksOK BY DEF TasksOK, PipelineInit, Idle
<1>3. QED
  BY <1>1, <1>2 DEF Inv, PipelineInit, LoadsAlways, Readable, RowsResolve,
     IntentIsAuthorized, Reproducible, Parity

\* The pipeline does not look at the clock.
LEMMA ClockLeavesPipeline ==
    ASSUME Inv, now' \in Time, UNCHANGED pipelineVars
    PROVE  Inv'
<1>1. UNCHANGED <<created, stages, intents, task, ledger>> BY DEF pipelineVars
<1>2. PipelineTypeOK' BY <1>1 DEF Inv, PipelineTypeOK
<1>3. LoadsAlways' /\ RowsResolve' /\ IntentIsAuthorized' /\ Grows
  BY <1>1, <1>2, TablesKept
<1>4. TasksOK' BY <1>1, <1>2, <1>3, Carried DEF TasksOK
<1>5. Reproducible' BY <1>1, <1>2, <1>3, Carried DEF Reproducible, Evaluated
<1>6. Parity' BY <1>1 DEF Inv, Parity
<1> QED
  BY <1>2, <1>3, <1>4, <1>5, <1>6 DEF Inv

LEMMA InvPreserved == Inv /\ [PipelineNext]_<<now, pipelineVars>> => Inv'
<1> SUFFICES ASSUME Inv, [PipelineNext]_<<now, pipelineVars>> PROVE Inv' OBVIOUS
<1>1. CASE UNCHANGED <<now, pipelineVars>>
  BY <1>1, ClockLeavesPipeline DEF Inv, PipelineTypeOK
<1>2. CASE PipelineNext
  BY <1>2, CreateRunStep, RecordStep, InsertEvidenceStep, InsertIntentStep, DecideStep,
     RecordEvaluationStep DEF PipelineNext
<1>3. QED BY <1>1, <1>2

\* The invariant holds throughout, for every set of artifacts and callers.
THEOREM InvariantTheorem == PipelineSpec => []Inv
<1>1. PipelineInit => Inv BY InvInitially
<1>2. QED BY <1>1, InvPreserved, PTL DEF PipelineSpec

\* The tables, the ledger and the calls in flight are well typed.
THEOREM TypeCorrect == PipelineSpec => []PipelineTypeOK
<1>1. Inv => PipelineTypeOK BY DEF Inv
<1>2. QED BY <1>1, InvariantTheorem, PTL

\* load never raises, however many callers record at once.
THEOREM LoadTheorem == PipelineSpec => []LoadsAlways
<1>1. Inv => LoadsAlways BY DEF Inv
<1>2. QED BY <1>1, InvariantTheorem, PTL

\* No order intent without the seven stages of its own run and a decision that
\* let a target of that run through.
THEOREM IntentTheorem == PipelineSpec => []IntentIsAuthorized
<1>1. Inv => IntentIsAuthorized BY DEF Inv
<1>2. QED BY <1>1, InvariantTheorem, PTL

\* Every evaluation in the ledger can be made again from the stored stages.
THEOREM ReproducibleTheorem == PipelineSpec => []Reproducible
<1>1. Inv => Reproducible BY DEF Inv
<1>2. QED BY <1>1, InvariantTheorem, PTL

\* Every evaluation speaks of one lineage.
THEOREM LineageTheorem == PipelineSpec => []EvaluationIsOneLineage
<1>1. Reproducible => EvaluationIsOneLineage
  BY DEF Reproducible, EvaluationIsOneLineage, Assembles, Assembled, OneLineage, TargetIsOf
<1>2. QED BY <1>1, ReproducibleTheorem, PTL

\* Two runtimes never hold different decisions for one input.
THEOREM ParityTheorem == PipelineSpec => []Parity
<1>1. Inv => Parity BY DEF Inv
<1>2. QED BY <1>1, InvariantTheorem, PTL

-------------------------------------------------------------------------------
(* The registry.                                                              *)

\* The last position of a set of positions.
LEMMA LastPosition ==
    ASSUME NEW n \in Nat, NEW S, S \subseteq 1..n, S # {}
    PROVE  Last(S) \in S /\ \A j \in S : j <= Last(S)
<1> DEFINE T == {n - i : i \in S}
<1>1. T \subseteq Nat /\ T # {}
  <2>1. \A i \in S : n - i \in Nat
    OBVIOUS
  <2> QED
    BY <2>1, Zenon
<1> HIDE DEF T
<1>2. PICK t \in T : \A u \in T : t <= u
  BY <1>1, SmallestNumber
<1>3. PICK i \in S : t = n - i
  BY <1>2 DEF T
<1>4. ASSUME NEW j \in S PROVE j <= i
  <2>1. n - j \in T
    BY DEF T
  <2>2. n - i <= n - j
    BY <1>2, <1>3, <2>1
  <2> QED
    BY <2>2
<1> QED
  BY <1>3, <1>4 DEF Last

LEMMA RegistryRows ==
    ASSUME NEW reg \in Registry
    PROVE  /\ reg.transitions \in Seq(Transition)
           /\ Len(reg.transitions) \in Nat
           /\ DOMAIN reg.transitions = 1..Len(reg.transitions)
           /\ \A i \in DOMAIN reg.transitions : reg.transitions[i] \in Transition
           /\ \A i \in DOMAIN reg.transitions : reg.transitions[i].at \in Time
<1>1. reg.transitions \in Seq(Transition)
  BY DEF Registry
<1>2. \A t \in Transition : t.at \in Time
  BY DEF Transition
<1> QED
  BY <1>1, <1>2

LEMMA StatusType ==
    ASSUME NEW reg \in Registry, NEW S, S \subseteq DOMAIN reg.transitions
    PROVE  StatusAfter(reg, S) \in ModelStatus
<1>1. CASE S = {}
  BY <1>1 DEF StatusAfter, ModelStatus
<1>2. CASE S # {}
  <2>1. Last(S) \in DOMAIN reg.transitions
    BY <1>2, RegistryRows, LastPosition
  <2>2. reg.transitions[Last(S)] \in Transition
    BY <2>1, RegistryRows
  <2> QED
    BY <1>2, <2>2 DEF StatusAfter, Transition
<1> QED
  BY <1>1, <1>2

\* status_at can read a registry whose transitions are chained at any instant.
LEMMA ChainedIsReadable ==
    ASSUME NEW reg \in Registry, Chained(reg), NEW m, NEW at \in Nat
    PROVE  Consistent(reg, m, at)
<1> DEFINE S == EffectiveAt(reg, m, at)
<1> SUFFICES ASSUME NEW i \in S
             PROVE  reg.transitions[i].from = StatusAfter(reg, {j \in S : j < i})
  BY DEF Consistent
<1>1. i \in DOMAIN reg.transitions /\ reg.transitions[i].model = m /\ reg.transitions[i].at <= at
  BY DEF EffectiveAt
<1> DEFINE earlier == {j \in TransitionsOf(reg, m) : j < i}
<1>2. /\ reg.transitions[i].from = StatusAfter(reg, earlier)
      /\ \A j \in earlier : reg.transitions[j].at <= reg.transitions[i].at
  BY <1>1 DEF Chained
<1>3. \A j \in DOMAIN reg.transitions : reg.transitions[j].at \in Nat
  BY RegistryRows, ClockAssumption DEF Time
<1>4. \A j \in earlier : reg.transitions[j].at <= at
  BY <1>1, <1>2, <1>3 DEF TransitionsOf
<1>5. {j \in S : j < i} = earlier
  BY <1>4 DEF EffectiveAt, TransitionsOf
<1> QED
  BY <1>2, <1>5

LEMMA SameChain ==
    ASSUME NEW reg, NEW new, new.transitions = reg.transitions, Chained(reg)
    PROVE  Chained(new)
<1>1. /\ \A m : TransitionsOf(new, m) = TransitionsOf(reg, m)
      /\ \A S : StatusAfter(new, S) = StatusAfter(reg, S)
  BY DEF TransitionsOf, StatusAfter
<1> QED
  BY <1>1 DEF Chained

\* A transition that starts where its model is and is not effective before the
\* others of the model keeps the registry chained (ModelRegistry.transition).
LEMMA ChainGrows ==
    ASSUME NEW reg \in Registry, Chained(reg), NEW t \in Transition, t.ids # {},
           t.from = CurrentStatus(reg, t.model), InOrder(reg, t.model, t.at),
           NEW new \in Registry, new.transitions = Append(reg.transitions, t)
    PROVE  Chained(new)
<1> DEFINE n == Len(reg.transitions)
<1>1. /\ reg.transitions \in Seq(Transition) /\ n \in Nat
      /\ DOMAIN reg.transitions = 1..n
      /\ DOMAIN new.transitions = 1..(n + 1)
      /\ new.transitions[n + 1] = t
      /\ \A i \in 1..n : new.transitions[i] = reg.transitions[i]
  BY RegistryRows
<1> HIDE DEF n
<1>2. ASSUME NEW S, S \subseteq 1..n PROVE StatusAfter(new, S) = StatusAfter(reg, S)
  <2>1. CASE S = {}
    BY <2>1 DEF StatusAfter
  <2>2. CASE S # {}
    <3>1. Last(S) \in 1..n
      BY <1>1, <1>2, <2>2, LastPosition
    <3> QED
      BY <1>1, <2>2, <3>1 DEF StatusAfter
  <2> QED
    BY <2>1, <2>2
<1>3. ASSUME NEW m, NEW i \in 1..(n + 1)
      PROVE  {j \in TransitionsOf(new, m) : j < i} = {j \in TransitionsOf(reg, m) : j < i}
  BY <1>1 DEF TransitionsOf
<1>4. \A m : TransitionsOf(reg, m) \subseteq 1..n
  BY <1>1 DEF TransitionsOf
<1> SUFFICES ASSUME NEW i \in 1..(n + 1)
             PROVE  LET u == new.transitions[i]
                        earlier == {j \in TransitionsOf(new, u.model) : j < i}
                    IN  /\ u.ids # {}
                        /\ u.from = StatusAfter(new, earlier)
                        /\ \A j \in earlier : new.transitions[j].at <= u.at
  BY <1>1 DEF Chained
<1> DEFINE u == new.transitions[i]
           earlier == {j \in TransitionsOf(new, u.model) : j < i}
<1>5. earlier = {j \in TransitionsOf(reg, u.model) : j < i} /\ earlier \subseteq 1..n
  <2> HIDE DEF u
  <2> QED
    BY <1>3, <1>4
<1>6. StatusAfter(new, earlier) = StatusAfter(reg, earlier)
  BY <1>2, <1>5
<1> DEFINE Fits == /\ u.ids # {}
                   /\ u.from = StatusAfter(new, earlier)
                   /\ \A j \in earlier : new.transitions[j].at <= u.at
<1>7. ASSUME i \in 1..n PROVE Fits
  <2>1. u = reg.transitions[i] /\ i \in DOMAIN reg.transitions
    BY <1>1, <1>7
  <2>2. /\ u.ids # {}
        /\ u.from = StatusAfter(reg, earlier)
        /\ \A j \in earlier : reg.transitions[j].at <= u.at
    BY <1>5, <2>1 DEF Chained
  <2> HIDE DEF u, earlier
  <2>3. \A j \in earlier : new.transitions[j].at <= u.at
    BY <1>1, <1>5, <2>2
  <2> QED
    BY <1>6, <2>2, <2>3
<1>8. ASSUME i = n + 1 PROVE Fits
  <2>1. u = t /\ earlier = TransitionsOf(reg, t.model)
    BY <1>1, <1>4, <1>5, <1>8
  <2>2. \A j \in earlier : reg.transitions[j].at <= u.at
    BY <2>1 DEF InOrder
  <2>3. u.from = StatusAfter(reg, earlier)
    BY <2>1 DEF CurrentStatus
  <2> HIDE DEF earlier
  <2>4. \A j \in earlier : new.transitions[j].at <= u.at
    BY <1>1, <1>5, <2>2
  <2> QED
    BY <1>6, <2>1, <2>3, <2>4
<1> HIDE DEF u, earlier
<1>9. i \in 1..n \/ i = n + 1
  BY <1>1
<1>10. Fits
  BY <1>7, <1>8, <1>9
<1> QED
  BY <1>10 DEF u, earlier

-------------------------------------------------------------------------------
(* What the evidence repository keeps true.  V stands for the reviews, C for  *)
(* the creation instants, before or after a step.                             *)

\* A snapshot, published or about to be, holds a registry that can be read and
\* whose every transition cites reviews on file at its instant.
SnapshotSound(V, s) ==
    /\ Chained(s.registry)
    /\ \A i \in DOMAIN s.registry.transitions : \A id \in s.registry.transitions[i].ids :
          \E v \in V : v.id = id /\ Backs(v, s.registry.transitions[i], s.at)

\* A selection, made or about to be, is of such a snapshot and point in time.
SelectionSound(V, C, r, selection) ==
    /\ C[r] # NotCreated
    /\ Cutoff[r] <= AsOf[r]
    /\ selection.snapshot.at <= Cutoff[r]
    /\ C[r] <= selection.at /\ selection.at <= AsOf[r]
    /\ SnapshotSound(V, selection.snapshot)

AuthorizedAt(token, at) ==
    Authorizes(token.selection.snapshot.registry, token.model, token.scope, at)

SnapshotsSound(V, X) == \A s \in X : SnapshotSound(V, s)
JobsSound(V, C, J) ==
    \A b \in Publishers \cup Binders :
        /\ J[b].op = "publish" => SnapshotSound(V, J[b].snapshot)
        /\ J[b].op = "bind" => SelectionSound(V, C, J[b].run, J[b].selection)
SelectedSound(V, C, X) ==
    \A r \in Runs : X[r] # NotBound => SelectionSound(V, C, r, X[r])
TokensSound(X, T) ==
    \A t \in T : /\ X[t.run] = t.selection /\ t.at = Cutoff[t.run]
                 /\ AuthorizedAt(t, t.at)
CalculationsSound(T, K) ==
    \A c \in K : /\ c.token \in T
                 /\ AuthorizedAt(c.token, c.produced) /\ AuthorizedAt(c.token, c.bound)

RegistryTypes ==
    /\ registry \in Registry
    /\ reviews \subseteq Review
    /\ snapshots \subseteq Snapshot
    /\ selected \in [Runs -> Selection \cup {NotBound}]
    /\ tokens \subseteq Token
    /\ calculations \subseteq Calculation
    /\ job \in [Publishers \cup Binders -> Job]

RegistryInv ==
    /\ RegistryTypes
    /\ Chained(registry)
    /\ SnapshotsSound(reviews, snapshots)
    /\ JobsSound(reviews, created, job)
    /\ SelectedSound(reviews, created, selected)
    /\ TokensSound(selected, tokens)
    /\ CalculationsSound(tokens, calculations)

GovernanceInv == Inv /\ RegistryInv

\* Reviews are only added and a run is created once, so that what was sound
\* stays sound (the append-only triggers of migration 10).
LEMMA EvidenceKept ==
    ASSUME NEW V, NEW W, V \subseteq W, NEW C, NEW D,
           \A r \in Runs : C[r] # NotCreated => D[r] = C[r]
    PROVE  /\ \A s : SnapshotSound(V, s) => SnapshotSound(W, s)
           /\ \A r \in Runs : \A x : SelectionSound(V, C, r, x) => SelectionSound(W, D, r, x)
<1>1. ASSUME NEW s, SnapshotSound(V, s) PROVE SnapshotSound(W, s)
  <2>1. ASSUME NEW i \in DOMAIN s.registry.transitions, NEW id \in s.registry.transitions[i].ids
        PROVE  \E v \in W : v.id = id /\ Backs(v, s.registry.transitions[i], s.at)
    <3>1. PICK v \in V : v.id = id /\ Backs(v, s.registry.transitions[i], s.at)
      BY <1>1 DEF SnapshotSound
    <3> QED
      BY <3>1
  <2> QED
    BY <1>1, <2>1 DEF SnapshotSound
<1>2. ASSUME NEW r \in Runs, NEW x, SelectionSound(V, C, r, x) PROVE SelectionSound(W, D, r, x)
  BY <1>1, <1>2 DEF SelectionSound
<1> QED
  BY <1>1, <1>2

LEMMA JobCases ==
    ASSUME NEW j \in Job
    PROVE  /\ j = Idle \/ j.op = "publish" \/ j.op = "bind"
           /\ Idle.op # "publish" /\ Idle.op # "bind"
           /\ j.op = "publish" => j.snapshot \in Snapshot
           /\ j.op = "bind" => j.run \in Runs /\ j.selection \in Selection
BY DEF Job, Idle

LEMMA NotASelection == NotBound \notin Selection
BY DEF NotBound, Selection

LEMMA SoundKept ==
    ASSUME RegistryInv, reviews \subseteq reviews',
           \A r \in Runs : created[r] # NotCreated => created'[r] = created[r]
    PROVE  /\ SnapshotsSound(reviews', snapshots)
           /\ JobsSound(reviews', created', job)
           /\ SelectedSound(reviews', created', selected)
<1>1. /\ \A s : SnapshotSound(reviews, s) => SnapshotSound(reviews', s)
      /\ \A r \in Runs : \A x : SelectionSound(reviews, created, r, x)
            => SelectionSound(reviews', created', r, x)
  BY EvidenceKept
<1>2. SnapshotsSound(reviews', snapshots)
  BY <1>1 DEF RegistryInv, SnapshotsSound
<1>3. JobsSound(reviews', created', job)
  <2>1. \A b \in Publishers \cup Binders : job[b].op = "bind" => job[b].run \in Runs
    <3>1. \A b \in Publishers \cup Binders : job[b] \in Job
      BY DEF RegistryInv, RegistryTypes
    <3> QED
      BY <3>1, JobCases
  <2> QED
    BY <1>1, <2>1 DEF RegistryInv, JobsSound
<1>4. SelectedSound(reviews', created', selected)
  BY <1>1 DEF RegistryInv, SelectedSound
<1> QED
  BY <1>2, <1>3, <1>4

\* What the clock and the pipeline do leaves the evidence sound.
LEMMA ElsewhereStep ==
    ASSUME RegistryInv, UNCHANGED governanceVars,
           \A r \in Runs : created[r] # NotCreated => created'[r] = created[r]
    PROVE  RegistryInv'
<1>1. /\ registry' = registry /\ reviews' = reviews /\ snapshots' = snapshots
      /\ selected' = selected /\ tokens' = tokens /\ calculations' = calculations /\ job' = job
  BY DEF governanceVars
<1>2. /\ SnapshotsSound(reviews', snapshots)
      /\ JobsSound(reviews', created', job)
      /\ SelectedSound(reviews', created', selected)
  BY <1>1, SoundKept
<1>3. RegistryTypes'
  BY <1>1 DEF RegistryInv, RegistryTypes
<1> QED
  BY <1>1, <1>2, <1>3 DEF RegistryInv

LEMMA OwnersStep == ASSUME Inv, RegistryInv, OwnerStep PROVE RegistryInv'
<1>t. RegistryTypes /\ now \in Time
  BY DEF RegistryInv, Inv, PipelineTypeOK
<1>1. PICK m \in Models :
         \/ Register(m)
         \/ \E to \in ModelStatus, at \in Time, ids \in SUBSET EvidenceIds :
               TransitionModel(m, to, at, ids)
         \/ \E id \in EvidenceIds, from, to \in ModelStatus : RecordReview(id, m, from, to)
  BY DEF OwnerStep
<1> DEFINE Rest == /\ created' = created
                   /\ snapshots' = snapshots /\ selected' = selected /\ tokens' = tokens
                   /\ calculations' = calculations /\ job' = job
<1>2. ASSUME Rest, registry' \in Registry, Chained(registry'),
             reviews \subseteq reviews', reviews' \subseteq Review
      PROVE  RegistryInv'
  <2>1. /\ SnapshotsSound(reviews', snapshots)
        /\ JobsSound(reviews', created', job)
        /\ SelectedSound(reviews', created', selected)
    BY <1>2, SoundKept
  <2>2. RegistryTypes'
    BY <1>2, <1>t DEF RegistryTypes
  <2> QED
    BY <1>2, <2>1, <2>2 DEF RegistryInv
<1>3. CASE Register(m)
  <2>1. /\ Rest /\ reviews' = reviews
        /\ registry' = [registry EXCEPT !.models = @ \cup {m}]
    BY <1>3 DEF Register, pipelineVars
  <2>2. registry' \in Registry /\ registry'.transitions = registry.transitions
    BY <1>t, <2>1 DEF RegistryTypes, Registry
  <2>3. Chained(registry')
    BY <2>2, SameChain DEF RegistryInv
  <2> QED
    BY <1>2, <1>t, <2>1, <2>2, <2>3 DEF RegistryTypes
<1>4. ASSUME NEW to \in ModelStatus, NEW at \in Time, NEW ids \in SUBSET EvidenceIds,
             TransitionModel(m, to, at, ids)
      PROVE  RegistryInv'
  <2> DEFINE t == [model |-> m, from |-> CurrentStatus(registry, m), to |-> to, at |-> at,
                   ids |-> ids]
  <2>1. /\ Rest /\ reviews' = reviews /\ ids # {}
        /\ MayTransition(registry, m, to, at)
        /\ registry' = [registry EXCEPT !.transitions = Append(@, t)]
    BY <1>4 DEF TransitionModel, pipelineVars
  <2>2. t \in Transition
    <3>1. CurrentStatus(registry, m) \in ModelStatus
      BY <1>t, StatusType DEF CurrentStatus, TransitionsOf, RegistryTypes
    <3> QED
      BY <3>1 DEF Transition
  <2>3. /\ t.ids # {} /\ t.from = CurrentStatus(registry, t.model)
        /\ InOrder(registry, t.model, t.at)
    BY <2>1 DEF MayTransition
  <2> HIDE DEF t
  <2>4. registry' \in Registry /\ registry'.transitions = Append(registry.transitions, t)
    <3>1. registry \in Registry
      BY <1>t DEF RegistryTypes
    <3>2. registry \in [models : SUBSET Models, transitions : Seq(Transition)]
      BY <3>1 DEF Registry
    <3> DEFINE rows == Append(registry.transitions, t)
    <3>3. rows \in Seq(Transition)
      BY <2>2, <3>2
    <3>4. registry' = [registry EXCEPT !.transitions = rows]
      BY <2>1, <3>2
    <3> HIDE DEF rows
    <3>5. registry' \in [models : SUBSET Models, transitions : Seq(Transition)]
          /\ registry'.transitions = rows
      BY <3>2, <3>3, <3>4
    <3> QED
      BY <3>5 DEF Registry, rows
  <2>5. Chained(registry')
    <3>1. registry \in Registry /\ Chained(registry)
      BY <1>t DEF RegistryInv, RegistryTypes
    <3> QED
      BY <2>2, <2>3, <2>4, <3>1, ChainGrows
  <2> QED
    BY <1>2, <1>t, <2>1, <2>4, <2>5 DEF RegistryTypes
<1>5. ASSUME NEW id \in EvidenceIds, NEW from \in ModelStatus, NEW to \in ModelStatus,
             RecordReview(id, m, from, to)
      PROVE  RegistryInv'
  <2>1. /\ Rest /\ registry' = registry
        /\ reviews' = reviews \cup
              {[id |-> id, model |-> m, from |-> from, to |-> to, at |-> now]}
    BY <1>5 DEF RecordReview, pipelineVars
  <2>2. reviews' \subseteq Review
    BY <1>t, <2>1 DEF RegistryTypes, Review
  <2> QED
    BY <1>2, <1>t, <2>1, <2>2 DEF RegistryInv, RegistryTypes
<1> QED
  BY <1>1, <1>3, <1>4, <1>5

LEMMA BindersStep == ASSUME Inv, RegistryInv, BinderStep PROVE RegistryInv'
<1>t. /\ RegistryTypes /\ now \in Time
      /\ \A b \in Publishers \cup Binders : job[b] \in Job
  BY DEF RegistryInv, Inv, PipelineTypeOK, RegistryTypes
<1>i. Idle \in Job /\ Idle.op # "publish" /\ Idle.op # "bind"
  BY DEF Job, Idle
<1> DEFINE Rest == /\ created' = created /\ registry' = registry /\ reviews' = reviews
                   /\ tokens' = tokens /\ calculations' = calculations
\* One job changes: what it becomes is sound, and so are the tables.
<1>0. ASSUME NEW b \in Publishers \cup Binders, NEW j \in Job, Rest,
             job' = [job EXCEPT ![b] = j],
             j.op = "publish" => SnapshotSound(reviews, j.snapshot),
             j.op = "bind" => SelectionSound(reviews, created, j.run, j.selection),
             snapshots' \subseteq Snapshot, SnapshotsSound(reviews, snapshots'),
             selected' \in [Runs -> Selection \cup {NotBound}],
             SelectedSound(reviews, created, selected'), TokensSound(selected', tokens)
      PROVE  RegistryInv'
  <2>1. job' \in [Publishers \cup Binders -> Job]
    BY <1>0, <1>t DEF RegistryTypes
  <2>2. RegistryTypes'
    BY <1>0, <1>t, <2>1 DEF RegistryTypes
  <2>3. JobsSound(reviews, created, job')
    <3> SUFFICES ASSUME NEW a \in Publishers \cup Binders
                 PROVE  /\ job'[a].op = "publish" => SnapshotSound(reviews, job'[a].snapshot)
                        /\ job'[a].op = "bind"
                             => SelectionSound(reviews, created, job'[a].run, job'[a].selection)
      BY DEF JobsSound
    <3>1. job'[a] = IF a = b THEN j ELSE job[a]
      BY <1>0, <1>t DEF RegistryTypes
    <3>2. /\ job[a].op = "publish" => SnapshotSound(reviews, job[a].snapshot)
          /\ job[a].op = "bind"
               => SelectionSound(reviews, created, job[a].run, job[a].selection)
      BY DEF RegistryInv, JobsSound
    <3> QED
      BY <1>0, <3>1, <3>2
  <2> QED
    BY <1>0, <2>2, <2>3 DEF RegistryInv
<1>s. /\ snapshots \subseteq Snapshot /\ SnapshotsSound(reviews, snapshots)
      /\ selected \in [Runs -> Selection \cup {NotBound}]
      /\ SelectedSound(reviews, created, selected) /\ TokensSound(selected, tokens)
  BY <1>t DEF RegistryInv, RegistryTypes
<1>1. ASSUME NEW b \in Publishers, Publish(b) PROVE RegistryInv'
  <2> DEFINE s == [registry |-> registry, at |-> now]
             j == [op |-> "publish", snapshot |-> s]
  <2>1. /\ Rest /\ snapshots' = snapshots /\ selected' = selected
        /\ job' = [job EXCEPT ![b] = j] /\ Reviewed(registry, now)
    BY <1>1 DEF Publish, pipelineVars
  <2>2. s \in Snapshot
    BY <1>t DEF Snapshot, RegistryTypes
  <2>3. SnapshotSound(reviews, s)
    BY <2>1 DEF SnapshotSound, Reviewed, RegistryInv
  <2>4. j \in Job /\ j.op = "publish" /\ j.snapshot = s
    BY <2>2 DEF Job
  <2> HIDE DEF s, j
  <2> QED
    BY <1>0, <1>s, <2>1, <2>3, <2>4
<1>2. ASSUME NEW b \in Publishers, InsertSnapshot(b) PROVE RegistryInv'
  <2>1. /\ Rest /\ selected' = selected /\ job' = [job EXCEPT ![b] = Idle]
        /\ job[b].op = "publish"
        /\ snapshots' = snapshots \/ snapshots' = snapshots \cup {job[b].snapshot}
    BY <1>2 DEF InsertSnapshot, pipelineVars
  <2>2. job[b].snapshot \in Snapshot /\ SnapshotSound(reviews, job[b].snapshot)
    BY <1>t, <2>1, JobCases DEF RegistryInv, JobsSound
  <2>3. snapshots' \subseteq Snapshot /\ SnapshotsSound(reviews, snapshots')
    BY <1>s, <2>1, <2>2 DEF SnapshotsSound
  <2> QED
    BY <1>0, <1>i, <1>s, <2>1, <2>3
<1>3. ASSUME NEW b \in Binders, NEW r \in Runs, NEW s \in snapshots, Bind(b, r, s)
      PROVE  RegistryInv'
  <2> DEFINE x == [snapshot |-> s, at |-> now]
             j == [op |-> "bind", run |-> r, selection |-> x]
  <2>1. /\ Rest /\ snapshots' = snapshots /\ selected' = selected
        /\ job' = [job EXCEPT ![b] = j]
        /\ created[r] # NotCreated /\ PointInTime(r, x)
    BY <1>3 DEF Bind, pipelineVars
  <2>2. x \in Selection /\ x.snapshot = s
    BY <1>s, <1>t DEF Selection
  <2>3. SelectionSound(reviews, created, r, x)
    <3>1. SnapshotSound(reviews, s)
      BY <1>s DEF SnapshotsSound
    <3> HIDE DEF x
    <3> QED
      BY <2>1, <2>2, <3>1 DEF SelectionSound, PointInTime
  <2>4. j \in Job /\ j.op = "bind" /\ j.run = r /\ j.selection = x
    BY <2>2 DEF Job
  <2> HIDE DEF x, j
  <2> QED
    BY <1>0, <1>s, <2>1, <2>3, <2>4
<1>4. ASSUME NEW b \in Binders, InsertSelection(b) PROVE RegistryInv'
  <2> DEFINE r == job[b].run
             x == job[b].selection
  <2>1. /\ Rest /\ snapshots' = snapshots /\ job' = [job EXCEPT ![b] = Idle]
        /\ job[b].op = "bind"
        /\ selected' = [selected EXCEPT ![r] = KeepFirst(selected[r], x)]
    BY <1>4 DEF InsertSelection, pipelineVars
  <2>2. r \in Runs /\ x \in Selection /\ SelectionSound(reviews, created, r, x)
    BY <1>t, <2>1, JobCases DEF RegistryInv, JobsSound
  <2> HIDE DEF r, x
  <2>3. /\ \A p \in Runs : p # r => selected'[p] = selected[p]
        /\ selected'[r] = IF selected[r] = NotBound THEN x ELSE selected[r]
        /\ selected' \in [Runs -> Selection \cup {NotBound}]
    BY <1>s, <2>1, <2>2 DEF KeepFirst
  <2>4. SelectedSound(reviews, created, selected')
    BY <1>s, <2>2, <2>3 DEF SelectedSound
  <2>5. TokensSound(selected', tokens)
    <3>1. \A t \in tokens : t.run \in Runs /\ t.selection # NotBound
      <4>1. \A t \in tokens : t.run \in Runs /\ t.selection \in Selection
        BY <1>t DEF RegistryTypes, Token
      <4> QED
        BY <4>1, NotASelection
    <3>2. \A t \in tokens : selected'[t.run] = selected[t.run]
      BY <1>s, <2>3, <3>1 DEF TokensSound
    <3> QED
      BY <1>s, <3>2 DEF TokensSound
  <2> QED
    BY <1>0, <1>i, <1>s, <2>1, <2>3, <2>4, <2>5
<1>5. ASSUME NEW b \in Publishers \cup Binders, Die(b) PROVE RegistryInv'
  <2>1. /\ Rest /\ snapshots' = snapshots /\ selected' = selected
        /\ job' = [job EXCEPT ![b] = Idle]
    BY <1>5 DEF Die, pipelineVars
  <2> QED
    BY <1>0, <1>i, <1>s, <2>1
<1> QED
  BY <1>1, <1>2, <1>3, <1>4, <1>5 DEF BinderStep

LEMMA CalculationsStep == ASSUME Inv, RegistryInv, CalculationStep PROVE RegistryInv'
<1>t. RegistryTypes
  BY DEF RegistryInv
<1> DEFINE Rest == /\ created' = created /\ registry' = registry /\ reviews' = reviews
                   /\ snapshots' = snapshots /\ selected' = selected /\ job' = job
<1>0. ASSUME Rest, tokens' \subseteq Token, calculations' \subseteq Calculation,
             TokensSound(selected, tokens'), CalculationsSound(tokens', calculations')
      PROVE  RegistryInv'
  <2>1. RegistryTypes'
    BY <1>0, <1>t DEF RegistryTypes
  <2> QED
    BY <1>0, <2>1 DEF RegistryInv
<1>1. ASSUME NEW r \in Runs, NEW m \in Models, NEW scope \in Scopes, Authorize(r, m, scope)
      PROVE  RegistryInv'
  <2> DEFINE t == [run |-> r, selection |-> selected[r], model |-> m, scope |-> scope,
                   at |-> Cutoff[r]]
  <2>1. /\ Rest /\ calculations' = calculations /\ tokens' = tokens \cup {t}
        /\ selected[r] # NotBound
        /\ Authorizes(selected[r].snapshot.registry, m, scope, Cutoff[r])
    BY <1>1 DEF Authorize, pipelineVars
  <2>2. t \in Token
    <3>1. selected[r] \in Selection /\ Cutoff[r] \in Nat
      BY <1>t, <2>1, RowAssumption DEF RegistryTypes
    <3> QED
      BY <3>1 DEF Token
  <2>3. selected[t.run] = t.selection /\ t.at = Cutoff[t.run] /\ AuthorizedAt(t, t.at)
    BY <2>1 DEF AuthorizedAt
  <2> HIDE DEF t
  <2>4. tokens' \subseteq Token /\ TokensSound(selected, tokens')
    BY <1>t, <2>1, <2>2, <2>3 DEF RegistryTypes, RegistryInv, TokensSound
  <2>5. calculations' \subseteq Calculation /\ CalculationsSound(tokens', calculations')
    BY <1>t, <2>1 DEF RegistryTypes, RegistryInv, CalculationsSound
  <2> QED
    BY <1>0, <2>1, <2>4, <2>5
<1>2. ASSUME NEW t \in tokens, NEW produced \in Time, NEW bound \in Time,
             BindCalculation(t, produced, bound)
      PROVE  RegistryInv'
  <2> DEFINE c == [token |-> t, produced |-> produced, bound |-> bound]
  <2>1. /\ Rest /\ tokens' = tokens /\ calculations' = calculations \cup {c}
        /\ AuthorizedAt(t, produced) /\ AuthorizedAt(t, bound)
    BY <1>2 DEF BindCalculation, Required, AuthorizedAt, pipelineVars
  <2>2. c \in Calculation
    BY <1>t DEF Calculation, RegistryTypes
  <2>3. c.token = t /\ c.produced = produced /\ c.bound = bound
    OBVIOUS
  <2> HIDE DEF c
  <2>4. tokens' \subseteq Token /\ TokensSound(selected, tokens')
    BY <1>t, <2>1 DEF RegistryTypes, RegistryInv
  <2>5. calculations' \subseteq Calculation /\ CalculationsSound(tokens', calculations')
    BY <1>t, <2>1, <2>2, <2>3 DEF RegistryTypes, RegistryInv, CalculationsSound
  <2> QED
    BY <1>0, <2>1, <2>4, <2>5
<1> QED
  BY <1>1, <1>2 DEF CalculationStep

LEMMA RegistryInitially == ASSUME GovernanceInit PROVE RegistryInv
<1>1. /\ registry = Past.registry /\ reviews = Past.reviews /\ snapshots = {} /\ tokens = {}
      /\ calculations = {} /\ selected = [r \in Runs |-> NotBound]
      /\ job = [b \in Publishers \cup Binders |-> Idle]
  BY DEF GovernanceInit
<1>2. Idle \in Job /\ Idle.op # "publish" /\ Idle.op # "bind"
  BY DEF Job, Idle
<1>3. RegistryTypes
  BY <1>1, <1>2, GovernanceAssumption DEF RegistryTypes
<1>4. Chained(registry)
  BY <1>1, PastAssumption
<1>5. JobsSound(reviews, created, job) /\ SelectedSound(reviews, created, selected)
  BY <1>1, <1>2 DEF JobsSound, SelectedSound
<1>6. /\ SnapshotsSound(reviews, snapshots) /\ TokensSound(selected, tokens)
      /\ CalculationsSound(tokens, calculations)
  BY <1>1 DEF SnapshotsSound, TokensSound, CalculationsSound
<1> QED
  BY <1>3, <1>4, <1>5, <1>6 DEF RegistryInv

governedVars == <<now, pipelineVars, governanceVars>>

LEMMA GovernanceStep == ASSUME GovernanceInv, [GovernanceNext]_governedVars PROVE GovernanceInv'
<1>i. Inv /\ RegistryInv /\ PipelineTypeOK
  BY DEF GovernanceInv, Inv
<1>1. CASE UNCHANGED governedVars
  <2>1. now' = now /\ UNCHANGED pipelineVars /\ UNCHANGED governanceVars /\ created' = created
    BY <1>1 DEF governedVars, pipelineVars
  <2>2. Inv'
    BY <1>i, <2>1, ClockLeavesPipeline DEF PipelineTypeOK
  <2> QED
    BY <1>i, <2>1, <2>2, ElsewhereStep DEF GovernanceInv
<1>2. CASE Tick
  <2>1. now' \in Time /\ UNCHANGED pipelineVars /\ UNCHANGED governanceVars /\ created' = created
    BY <1>2, <1>i, ClockAssumption DEF Tick, PipelineTypeOK, Time, pipelineVars
  <2>2. Inv'
    BY <1>i, <2>1, ClockLeavesPipeline
  <2> QED
    BY <1>i, <2>1, <2>2, ElsewhereStep DEF GovernanceInv
<1>3. CASE OwnerStep \/ BinderStep \/ CalculationStep
  <2>1. now' = now /\ UNCHANGED pipelineVars
    <3>1. CASE OwnerStep
      BY <3>1 DEF OwnerStep, Register, TransitionModel, RecordReview
    <3>2. CASE BinderStep
      BY <3>2 DEF BinderStep, Publish, InsertSnapshot, Bind, InsertSelection, Die
    <3>3. CASE CalculationStep
      BY <3>3 DEF CalculationStep, Authorize, BindCalculation
    <3> QED
      BY <1>3, <3>1, <3>2, <3>3
  <2>2. Inv'
    BY <1>i, <2>1, ClockLeavesPipeline DEF PipelineTypeOK
  <2>3. RegistryInv'
    BY <1>3, <1>i, OwnersStep, BindersStep, CalculationsStep
  <2> QED
    BY <2>2, <2>3 DEF GovernanceInv
<1>4. CASE PipelineNext /\ UNCHANGED governanceVars
  <2>1. Inv'
    BY <1>4, <1>i, InvPreserved
  <2>2. \A r \in Runs : created[r] # NotCreated => created'[r] = created[r]
    <3>1. ASSUME NEW p \in Runs, CreateRun(p)
          PROVE  \A r \in Runs : created[r] # NotCreated => created'[r] = created[r]
      BY <1>i, <3>1 DEF CreateRun, PipelineTypeOK
    <3>2. CASE created' = created
      BY <3>2
    <3> QED
      BY <1>4, <3>1, <3>2
         DEF PipelineNext, Record, InsertEvidence, Decide, RecordEvaluation, InsertIntent
  <2> QED
    BY <1>4, <1>i, <2>1, <2>2, ElsewhereStep DEF GovernanceInv
<1> QED
  BY <1>1, <1>2, <1>3, <1>4 DEF GovernanceNext

\* For any registry that its own operations made, any owners, publishers,
\* binders and calculations, and the pipeline beside them.
THEOREM GovernanceInvariant == GovernanceSpec => []GovernanceInv
<1>1. GovernanceInit => GovernanceInv
  <2>1. GovernanceInit => Inv
    BY InvInitially DEF GovernanceInit
  <2> QED
    BY <2>1, RegistryInitially DEF GovernanceInv
<1>2. GovernanceInv /\ [GovernanceNext]_governedVars => GovernanceInv'
  BY GovernanceStep
<1> QED
  BY <1>1, <1>2, PTL DEF GovernanceSpec, governedVars

\* The tables of the governed runtime are well typed.
THEOREM GovernanceTypeCorrect == GovernanceSpec => []GovernanceTypeOK
<1>1. GovernanceInv => GovernanceTypeOK
  BY DEF GovernanceInv, Inv, RegistryInv, RegistryTypes, GovernanceTypeOK
<1> QED
  BY <1>1, GovernanceInvariant, PTL

\* status_at can read every published registry at every instant.
THEOREM PublishedHistoryReplays == GovernanceSpec => []HistoryIsReplayable
<1>1. ASSUME GovernanceInv PROVE HistoryIsReplayable
  <2> SUFFICES ASSUME NEW s \in snapshots, NEW m \in s.registry.models, NEW at \in Time
               PROVE  Consistent(s.registry, m, at)
    BY DEF HistoryIsReplayable
  <2>1. s.registry \in Registry
    BY <1>1 DEF GovernanceInv, RegistryInv, RegistryTypes, Snapshot
  <2>2. Chained(s.registry)
    BY <1>1 DEF GovernanceInv, RegistryInv, SnapshotsSound, SnapshotSound
  <2>3. at \in Nat
    BY ClockAssumption DEF Time
  <2> QED
    BY <2>1, <2>2, <2>3, ChainedIsReadable
<1> QED
  BY <1>1, GovernanceInvariant, PTL

\* A token is accepted, at the instant it was issued for, as long as the
\* database lives: require_authorization never turns it away.
THEOREM TokensAreKept == GovernanceSpec => []TokensStayValid
<1>1. ASSUME GovernanceInv PROVE TokensStayValid
  <2> SUFFICES ASSUME NEW t \in tokens PROVE Required(t, t.at)
    BY DEF TokensStayValid
  <2>1. t.run \in Runs /\ t.selection \in Selection
    BY <1>1 DEF GovernanceInv, RegistryInv, RegistryTypes, Token
  <2>2. t.selection # NotBound
    BY <2>1, NotASelection
  <2>3. selected[t.run] = t.selection /\ t.at = Cutoff[t.run] /\ AuthorizedAt(t, t.at)
    BY <1>1 DEF GovernanceInv, RegistryInv, TokensSound
  <2>4. SelectionSound(reviews, created, t.run, t.selection)
    BY <1>1, <2>1, <2>2, <2>3 DEF GovernanceInv, RegistryInv, SelectedSound
  <2>5. PointInTime(t.run, t.selection)
    BY <2>4 DEF SelectionSound, PointInTime
  <2>6. Cutoff[t.run] <= t.at /\ t.at <= AsOf[t.run] /\ t.at <= t.at
    <3>1. Cutoff[t.run] \in Nat /\ Cutoff[t.run] <= AsOf[t.run]
      BY <2>1, <2>4, RowAssumption DEF SelectionSound
    <3> QED
      BY <2>3, <3>1
  <2> QED
    BY <2>3, <2>5, <2>6 DEF Required, AuthorizedAt
<1> QED
  BY <1>1, GovernanceInvariant, PTL

\* Every calculation rests on a model that was active when it was produced and
\* bound, by changes reviewed before they took effect and on file at the
\* cutoff of its run.
THEOREM CalculationsAreWarranted == GovernanceSpec => []CalculationsWarranted
<1>1. ASSUME GovernanceInv PROVE CalculationsWarranted
  <2>1. ASSUME NEW c \in calculations
        PROVE  /\ c.token \in tokens /\ c.token \in Token
               /\ c.produced \in Time /\ c.bound \in Time
               /\ AuthorizedAt(c.token, c.produced) /\ AuthorizedAt(c.token, c.bound)
               /\ SelectionSound(reviews, created, c.token.run, c.token.selection)
               /\ c.token.selection \in Selection /\ c.token.run \in Runs
    <3>1. c \in Calculation
      BY <1>1 DEF GovernanceInv, RegistryInv, RegistryTypes
    <3>2. /\ c.token \in tokens /\ c.token \in Token
          /\ c.produced \in Time /\ c.bound \in Time
          /\ AuthorizedAt(c.token, c.produced) /\ AuthorizedAt(c.token, c.bound)
      BY <1>1, <3>1 DEF GovernanceInv, RegistryInv, CalculationsSound, Calculation
    <3>3. c.token.run \in Runs /\ c.token.selection \in Selection
      BY <3>2 DEF Token
    <3>4. c.token.selection # NotBound
      BY <3>3, NotASelection
    <3>5. selected[c.token.run] = c.token.selection
      BY <1>1, <3>2 DEF GovernanceInv, RegistryInv, TokensSound
    <3>6. SelectionSound(reviews, created, c.token.run, c.token.selection)
      BY <1>1, <3>3, <3>4, <3>5 DEF GovernanceInv, RegistryInv, SelectedSound
    <3> QED
      BY <3>2, <3>3, <3>6
  \* Each change of the model of a calculation was reviewed in time.
  <2>2. ASSUME NEW c \in calculations,
               NEW i \in EffectiveAt(c.token.selection.snapshot.registry, c.token.model, c.bound)
        PROVE  \E v \in reviews :
                  LET t == c.token.selection.snapshot.registry.transitions[i]
                  IN  /\ v.id \in t.ids /\ v.model = c.token.model
                      /\ v.from = t.from /\ v.to = t.to
                      /\ v.at <= t.at /\ v.at <= Cutoff[c.token.run]
    <3> DEFINE s == c.token.selection.snapshot
               t == s.registry.transitions[i]
    <3>1. SelectionSound(reviews, created, c.token.run, c.token.selection)
      BY <2>1
    <3>2. /\ SnapshotSound(reviews, s) /\ s.at <= Cutoff[c.token.run]
      BY <3>1 DEF SelectionSound
    <3>3. i \in DOMAIN s.registry.transitions /\ t.model = c.token.model
      BY DEF EffectiveAt
    <3>4. t.ids # {}
      BY <3>2, <3>3 DEF SnapshotSound, Chained
    <3>5. PICK id \in t.ids : TRUE
      BY <3>4
    <3>6. PICK v \in reviews : v.id = id /\ Backs(v, t, s.at)
      BY <3>2, <3>3, <3>5 DEF SnapshotSound
    <3>7. v.at \in Nat /\ s.at \in Nat /\ Cutoff[c.token.run] \in Nat
      <4>1. v \in Review /\ s \in Snapshot /\ c.token.run \in Runs
        BY <1>1, <2>1 DEF GovernanceInv, RegistryInv, RegistryTypes, Selection
      <4>2. v.at \in Time /\ s.at \in Time
        BY <4>1 DEF Review, Snapshot
      <4> QED
        BY <4>1, <4>2, RowAssumption, ClockAssumption DEF Time
    <3>8. /\ v.model = t.model /\ v.from = t.from /\ v.to = t.to
          /\ v.at <= t.at /\ v.at <= s.at
      BY <3>6 DEF Backs
    <3> HIDE DEF s, t
    <3>9. v.at <= Cutoff[c.token.run]
      BY <3>2, <3>7, <3>8
    <3> QED
      BY <3>3, <3>5, <3>6, <3>8, <3>9 DEF s, t
  <2>3. ReviewedBeforeUse /\ NoLookAhead
    BY <2>2 DEF ReviewedBeforeUse, NoLookAhead
  <2>4. ASSUME NEW c \in calculations, NEW at \in {c.produced, c.bound}
        PROVE  LET reg == c.token.selection.snapshot.registry
                   last == {i \in EffectiveAt(reg, c.token.model, at) :
                               \A j \in EffectiveAt(reg, c.token.model, at) : j <= i}
               IN  /\ \E i \in last : reg.transitions[i].to = "ACTIVE"
                   /\ at <= ReviewBy[c.token.model]
    <3> DEFINE reg == c.token.selection.snapshot.registry
               S == EffectiveAt(reg, c.token.model, at)
    <3>1. /\ StatusAt(reg, c.token.model, at) = "ACTIVE"
          /\ at <= ReviewBy[c.token.model]
      BY <2>1, <2>4 DEF AuthorizedAt, Authorizes
    <3>2. reg \in Registry
      BY <2>1 DEF Selection, Snapshot
    <3>3. S # {} /\ reg.transitions[Last(S)].to = "ACTIVE"
      BY <3>1 DEF StatusAt, StatusAfter
    <3>4. S \subseteq 1..Len(reg.transitions) /\ Len(reg.transitions) \in Nat
      BY <3>2, RegistryRows DEF EffectiveAt
    <3> HIDE DEF S, reg
    <3>5. Last(S) \in S /\ \A j \in S : j <= Last(S)
      BY <3>3, <3>4, LastPosition
    <3>6. /\ \E i \in {k \in S : \A j \in S : j <= k} : reg.transitions[i].to = "ACTIVE"
          /\ at <= ReviewBy[c.token.model]
      BY <3>1, <3>3, <3>5
    <3> QED
      BY <3>6 DEF S, reg
  <2>5. CalculationsActive
    BY <2>4 DEF CalculationsActive
  <2> QED
    BY <2>3, <2>5 DEF CalculationsWarranted
<1> QED
  BY <1>1, GovernanceInvariant, PTL
-----------------------------------------------------------------------------
(* The recommendations rest on dossiers that were frozen as they are.       *)

Payloads == {Payload(d.symbol, day, d.changes) : d \in Drafts, day \in FirstDay .. LastDay}

\* A body damage cannot hide in: the fields a forger would touch exist.
Shaped(b) ==
    /\ {"earnings", "asOf"} \subseteq DOMAIN b
    /\ "scenarios" \in DOMAIN b.earnings
    /\ "base" \in DOMAIN b.earnings.scenarios
    /\ {"input", "results"} \subseteq DOMAIN b.earnings.scenarios.base
    /\ "net" \in DOMAIN b.earnings.scenarios.base.results
    /\ b.asOf \in Int

NetOf(s) == Calculated(s.input, s.input.drivers).net

\* The digest is that of a dossier some payload was built into, or the stored
\* result contradicts its inputs.
Frozen(x) == x \in Payloads /\ BuildOk(x)
Honest(dossier) ==
    LET base == dossier.body.earnings.scenarios.base
    IN  /\ NetOf(base) # 0
        /\ base.results.net = 0 \/ \E x : Frozen(x) /\ dossier.digest = Body(x)

FileOk(f) ==
    f.schema = "current" =>
        /\ DOMAIN f = {"name", "schema", "symbol", "dossier"}
        /\ DOMAIN f.dossier = {"body", "digest"}
        /\ f.name \in Int
        /\ Shaped(f.dossier.body)
        /\ Honest(f.dossier)

FilesInv ==
    /\ today \in FirstDay .. LastDay
    /\ draft \subseteq Drafts
    /\ \A f \in files : FileOk(f)
    /\ \A f, g \in files : (f.schema = "current" /\ g.schema = "current" /\ f.name = g.name) => f = g

\* Dates and prices of a payload are numbers.
LEMMA Figures ==
    ASSUME NEW x \in Payloads
    PROVE  /\ x.asOf \in Int /\ x.price \in Int
           /\ IsFiniteSet(x.supply.entities)
           /\ \A c \in x.chains : c.house.value \in Int /\ c.implied.value \in Int
           /\ \A n \in ScenarioNames : x.cases[n].price \in Int /\ x.cases[n].probability \in Int
<1>1. PICK d \in Drafts, day \in FirstDay .. LastDay : x = Payload(d.symbol, day, d.changes)
  BY DEF Payloads
<1> QED
  BY <1>1, FiguresAssumption

LEMMA DraftedIsPayload ==
    ASSUME FilesInv
    PROVE  Drafted \subseteq Payloads
BY DEF FilesInv, Drafted, Payloads

\* What the builder freezes is honest: the base case earns something.
LEMMA BuiltIsHonest ==
    ASSUME NEW x, Frozen(x)
    PROVE  Shaped(Build(x).body) /\ Honest(Build(x)) /\ DOMAIN Build(x) = {"body", "digest"}
<1> DEFINE b == Body(x)
           s == x.earnings.scenarios.base
<1>1. Build(x).body = b /\ Build(x).digest = b /\ DOMAIN Build(x) = {"body", "digest"}
  BY DEF Build, Sealed
<1>2. /\ b.earnings = BuiltEarnings(x.earnings) /\ b.asOf = x.asOf
      /\ {"earnings", "asOf"} \subseteq DOMAIN b
  BY DEF Body
<1>3. "base" \in ScenarioNames
  BY DEF ScenarioNames
<1>4. /\ BuiltEarnings(x.earnings).scenarios.base = BuiltScenario(s)
      /\ "base" \in DOMAIN BuiltEarnings(x.earnings).scenarios
      /\ "scenarios" \in DOMAIN BuiltEarnings(x.earnings)
  BY <1>3 DEF BuiltEarnings
<1>5. /\ BuiltScenario(s).input = s /\ BuiltScenario(s).results = Calculated(s, s.drivers)
      /\ {"input", "results"} \subseteq DOMAIN BuiltScenario(s)
  BY DEF BuiltScenario
<1>6. "net" \in DOMAIN Calculated(s, s.drivers)
  BY DEF Calculated
<1>7. Calculated(s, s.drivers).net > 0
  <2>1. ScenariosOk(x.earnings, x.sources)
    BY DEF Frozen, BuildOk, SectionsOk
  <2> QED
    BY <2>1, <1>3 DEF ScenariosOk
<1>8. x.asOf \in Int
  BY Figures DEF Frozen
<1> HIDE DEF b, s
<1>9. Calculated(s, s.drivers).net # 0
  BY <1>7
<1>10. Shaped(Build(x).body)
  BY <1>1, <1>2, <1>4, <1>5, <1>6, <1>8 DEF Shaped
<1>11. NetOf(Build(x).body.earnings.scenarios.base) # 0
  BY <1>1, <1>2, <1>4, <1>5, <1>9 DEF NetOf
<1>12. Build(x).digest = Body(x)
  BY <1>1 DEF b
<1> QED
  BY <1>1, <1>10, <1>11, <1>12 DEF Honest

\* An edit that leaves the hash alone leaves the financial model alone too.
LEMMA UnsealedKeeps ==
    ASSUME NEW b, Shaped(b), NEW c \in Unsealed(b)
    PROVE  Shaped(c) /\ c.earnings = b.earnings
<1>1. c.earnings = b.earnings /\ c.asOf = b.asOf /\ {"earnings", "asOf"} \subseteq DOMAIN c
  BY DEF Unsealed, Shaped
<1> QED
  BY <1>1 DEF Shaped

\* An edit with a new hash makes the model contradict itself.
LEMMA ResealedContradicts ==
    ASSUME NEW b, Shaped(b), NEW c \in Resealed(b)
    PROVE  /\ Shaped(c)
           /\ c.earnings.scenarios.base.input = b.earnings.scenarios.base.input
           /\ c.earnings.scenarios.base.results.net = 0
<1> DEFINE base == b.earnings.scenarios.base
           broken == [base EXCEPT !.results = [base.results EXCEPT !.net = 0]]
           scenarios == [b.earnings.scenarios EXCEPT !.base = broken]
           earnings == [b.earnings EXCEPT !.scenarios = scenarios]
<1>1. c = [b EXCEPT !.earnings = earnings]
  BY Zenon DEF Resealed
<1>2. /\ broken.input = base.input /\ broken.results.net = 0
      /\ {"input", "results"} \subseteq DOMAIN broken /\ "net" \in DOMAIN broken.results
  BY DEF Shaped
<1> HIDE DEF broken
<1>3. scenarios.base = broken /\ "base" \in DOMAIN scenarios
  BY DEF Shaped
<1> HIDE DEF scenarios
<1>4. earnings.scenarios = scenarios /\ "scenarios" \in DOMAIN earnings
  BY DEF Shaped
<1> HIDE DEF earnings
<1>5. c.earnings = earnings /\ c.asOf = b.asOf /\ {"earnings", "asOf"} \subseteq DOMAIN c
  BY <1>1 DEF Shaped
<1>6. b.asOf \in Int
  BY DEF Shaped
<1>7. Shaped(c)
  BY <1>2, <1>3, <1>4, <1>5, <1>6 DEF Shaped
<1> QED
  BY <1>2, <1>3, <1>4, <1>5, <1>7

LEMMA DamageKeepsFiles ==
    ASSUME FilesInv, NEW f \in files, Damage(f)
    PROVE  FilesInv'
<1>1. f.schema = "current" /\ FileOk(f)
  BY DEF Damage, FilesInv
<1>2. /\ DOMAIN f = {"name", "schema", "symbol", "dossier"}
      /\ DOMAIN f.dossier = {"body", "digest"} /\ f.name \in Int
      /\ Shaped(f.dossier.body) /\ Honest(f.dossier)
  BY <1>1 DEF FileOk
<1>3. PICK dossier \in {[f.dossier EXCEPT !.body = b] : b \in Unsealed(f.dossier.body)}
                         \cup {Sealed(b) : b \in Resealed(f.dossier.body)} :
          files' = (files \ {f}) \cup {[f EXCEPT !.dossier = dossier]}
  BY DEF Damage
<1>4. DOMAIN dossier = {"body", "digest"} /\ Shaped(dossier.body) /\ Honest(dossier)
  <2>1. ASSUME NEW c \in Unsealed(f.dossier.body), dossier = [f.dossier EXCEPT !.body = c]
        PROVE  DOMAIN dossier = {"body", "digest"} /\ Shaped(dossier.body) /\ Honest(dossier)
    <3>1. Shaped(c) /\ c.earnings = f.dossier.body.earnings
      BY <1>2, UnsealedKeeps
    <3>2. DOMAIN dossier = {"body", "digest"} /\ dossier.body = c /\ dossier.digest = f.dossier.digest
      BY <1>2, <2>1
    <3> QED
      BY <1>2, <3>1, <3>2 DEF Honest
  <2>2. ASSUME NEW c \in Resealed(f.dossier.body), dossier = Sealed(c)
        PROVE  DOMAIN dossier = {"body", "digest"} /\ Shaped(dossier.body) /\ Honest(dossier)
    <3>1. /\ Shaped(c)
          /\ c.earnings.scenarios.base.input = f.dossier.body.earnings.scenarios.base.input
          /\ c.earnings.scenarios.base.results.net = 0
      BY <1>2, ResealedContradicts
    <3>2. DOMAIN dossier = {"body", "digest"} /\ dossier.body = c
      BY <2>2 DEF Sealed
    <3>3. NetOf(c.earnings.scenarios.base) # 0
      BY <1>2, <3>1 DEF Honest, NetOf
    <3> QED
      BY <3>1, <3>2, <3>3 DEF Honest
  <2> QED
    BY <1>3, <2>1, <2>2
<1> DEFINE g == [f EXCEPT !.dossier = dossier]
<1>5. DOMAIN g = DOMAIN f /\ g.dossier = dossier /\ g.name = f.name /\ g.schema = f.schema
  BY <1>2
<1> HIDE DEF g
<1>6. files' = (files \ {f}) \cup {g}
  BY <1>3 DEF g
<1>7. FileOk(g)
  BY <1>2, <1>4, <1>5 DEF FileOk
<1>8. \A h \in files' : FileOk(h)
  BY <1>6, <1>7 DEF FilesInv
<1>9. \A h, k \in files' : (h.schema = "current" /\ k.schema = "current" /\ h.name = k.name) => h = k
  BY <1>1, <1>5, <1>6 DEF FilesInv
<1>10. today' = today /\ draft' = draft
  BY DEF Damage
<1>11. \A h : FileOk(h)' <=> FileOk(h)
  OBVIOUS
<1> QED
  BY <1>8, <1>9, <1>10, <1>11 DEF FilesInv

LEMMA FreezeKeepsFiles ==
    ASSUME FilesInv, NEW name \in Names, Freeze(name)
    PROVE  FilesInv'
<1>1. PICK x \in Drafted : BuildOk(x)
                /\ files' = files \cup {[name |-> name, schema |-> "current", symbol |-> x.symbol,
                                         dossier |-> Build(x)]}
  BY DEF Freeze
<1> DEFINE g == [name |-> name, schema |-> "current", symbol |-> x.symbol, dossier |-> Build(x)]
<1>2. /\ DOMAIN g = {"name", "schema", "symbol", "dossier"} /\ g.dossier = Build(x)
      /\ g.name = name /\ g.schema = "current"
  OBVIOUS
<1>3. files' = files \cup {g}
  BY <1>1
<1> HIDE DEF g
<1>4. Frozen(x)
  BY <1>1, DraftedIsPayload DEF Frozen
<1>5. FileOk(g)
  BY <1>2, <1>4, BuiltIsHonest, SettingAssumption DEF FileOk
<1>6. \A f \in files : f.name # name
  BY DEF Freeze
<1>7. \A h \in files' : FileOk(h)
  BY <1>3, <1>5 DEF FilesInv
<1>8. \A h, k \in files' : (h.schema = "current" /\ k.schema = "current" /\ h.name = k.name) => h = k
  BY <1>2, <1>3, <1>6 DEF FilesInv
<1>9. today' = today /\ draft' = {}
  BY DEF Freeze
<1> QED
  BY <1>7, <1>8, <1>9 DEF FilesInv

LEMMA FilesStart == Init => FilesInv
BY SettingAssumption DEF Init, FilesInv, FileOk

LEMMA FilesNext == FilesInv /\ [Next]_vars => FilesInv'
<1> SUFFICES ASSUME FilesInv, [Next]_vars PROVE FilesInv'
  OBVIOUS
<1>1. CASE NewDay
  BY <1>1, SettingAssumption DEF NewDay, FilesInv
<1>2. ASSUME NEW d \in Drafts, Write(d) PROVE FilesInv'
  BY <1>2 DEF Write, FilesInv
<1>3. CASE Discard
  BY <1>3 DEF Discard, FilesInv
<1>4. ASSUME NEW name \in Names, Freeze(name) PROVE FilesInv'
  BY <1>4, FreezeKeepsFiles
<1>5. ASSUME NEW f \in files, Damage(f) PROVE FilesInv'
  BY <1>5, DamageKeepsFiles
<1>6. ASSUME NEW m \in Markets, Recommend(m) PROVE FilesInv'
  BY <1>6 DEF Recommend, FilesInv
<1>7. CASE UNCHANGED vars
  BY <1>7 DEF vars, FilesInv
<1> QED
  BY <1>1, <1>2, <1>3, <1>4, <1>5, <1>6, <1>7 DEF Next

\* A dossier the validator accepts is as it was frozen.
LEMMA ValidIsFrozen ==
    ASSUME NEW f, FileOk(f), f.schema = "current", NEW day, NEW age, Valid(f.dossier, day, age)
    PROVE  \E x : Frozen(x) /\ f.dossier.body = Body(x)
<1> DEFINE base == f.dossier.body.earnings.scenarios.base
<1>1. Honest(f.dossier)
  BY DEF FileOk
<1>2. f.dossier.digest = f.dossier.body /\ EarningsReconcile(f.dossier.body.earnings)
  BY DEF Valid
<1>3. ScenarioReconciles(base)
  BY <1>2 DEF EarningsReconcile, ScenarioNames
<1>4. base.results.net = NetOf(base)
  BY <1>3 DEF ScenarioReconciles, NetOf
<1> QED
  BY <1>1, <1>2, <1>4 DEF Honest

\* What is bought is the latest of its symbol, says buy, and is as it was frozen.
LEMMA BoughtIs ==
    ASSUME FilesInv, NEW screened, NEW day, DossiersRead(day), NEW d \in Buys(screened, day)
    PROVE  \E f \in Fresh(day), x \in Payloads :
              /\ d = f.dossier /\ f \in Chosen(d.body.symbol, day)
              /\ Frozen(x) /\ x.recommendation = "buy" /\ d.body = Body(x)
              /\ d.body.asOf <= day /\ day - d.body.asOf <= Policy.dossierAge
<1>1. PICK r \in screened : \E f \in Chosen(r.symbol, day) :
          FocusState(r.symbol, day) = "buy_dossier_passed" /\ d = f.dossier
  <2> DEFINE names == {s \in screened : FocusState(s.symbol, day) = "buy_dossier_passed"}
             bought == UNION {Chosen(r.symbol, day) : r \in names}
  <2>1. d \in {f.dossier : f \in bought}
    BY DEF Buys
  <2>2. PICK f \in bought : d = f.dossier
    BY <2>1
  <2>3. PICK r \in names : f \in Chosen(r.symbol, day)
    BY <2>2
  <2> QED
    BY <2>2, <2>3
<1>2. PICK f \in Chosen(r.symbol, day) :
          FocusState(r.symbol, day) = "buy_dossier_passed" /\ d = f.dossier
  BY <1>1
<1>3. /\ f \in Fresh(day) /\ f.dossier.body.symbol = r.symbol
      /\ \A g \in Fresh(day) : g.dossier.body.symbol = r.symbol =>
           \/ g.dossier.body.asOf < f.dossier.body.asOf
           \/ g.dossier.body.asOf = f.dossier.body.asOf /\ f.name <= g.name
  BY DEF Chosen
<1>4. \A g \in Fresh(day) : g \in files /\ g.schema = "current" /\ FileOk(g)
                            /\ Valid(g.dossier, day, Policy.dossierAge)
  BY DEF Fresh, DossiersRead, FilesInv
<1>5. \A g \in Fresh(day) : g.name \in Int /\ g.dossier.body.asOf \in Int
  BY <1>4 DEF FileOk, Shaped
<1>6. \A g \in Chosen(r.symbol, day) : g = f
  <2> SUFFICES ASSUME NEW g \in Chosen(r.symbol, day) PROVE g = f
    OBVIOUS
  <2>1. /\ g \in Fresh(day) /\ g.dossier.body.symbol = r.symbol
        /\ \/ f.dossier.body.asOf < g.dossier.body.asOf
           \/ f.dossier.body.asOf = g.dossier.body.asOf /\ g.name <= f.name
    BY <1>3 DEF Chosen
  <2>2. /\ g.name \in Int /\ g.dossier.body.asOf \in Int /\ f.name \in Int
        /\ f.dossier.body.asOf \in Int
    BY <1>3, <1>5, <2>1
  <2>3. g.name = f.name
    BY <1>3, <2>1, <2>2
  <2> QED
    BY <1>3, <1>4, <2>1, <2>3 DEF FilesInv
<1>7. PICK x \in Payloads : Frozen(x) /\ f.dossier.body = Body(x)
  BY <1>3, <1>4, ValidIsFrozen DEF Frozen
<1>8. (CHOOSE g \in Chosen(r.symbol, day) : TRUE) = f
  BY <1>2, <1>6
<1>9. x.recommendation = f.dossier.body.recommendation
  BY <1>7 DEF Body
<1>10. x.recommendation \in {"buy", "watch", "avoid", "no_view"}
  BY <1>7 DEF Frozen, BuildOk, HeadingOk
<1>11. f.dossier.body.recommendation = "buy"
  BY <1>2, <1>8, <1>9, <1>10 DEF FocusState
<1>12. f.dossier.body.asOf <= day /\ day - f.dossier.body.asOf <= Policy.dossierAge
  BY <1>3, <1>4 DEF Valid
<1> QED
  BY <1>2, <1>3, <1>7, <1>9, <1>11, <1>12

\* The largest of finitely many numbers is one of them.
LEMMA Greatest ==
    ASSUME NEW S, IsFiniteSet(S), S # {}, NEW R, \A x \in S : <<x, x>> \in R,
           \A x, y \in S : <<x, y>> \in R \/ <<y, x>> \in R,
           \A x, y, z \in S : <<x, y>> \in R /\ <<y, z>> \in R => <<x, z>> \in R
    PROVE  \E m \in S : \A k \in S : <<k, m>> \in R
<1> DEFINE Has(T) == \E m \in T : \A k \in T : <<k, m>> \in R
           F == {T \in SUBSET S : T # {} /\ ~Has(T)}
<1> SUFFICES ASSUME F # {} PROVE FALSE
  OBVIOUS
<1>1. F \subseteq SUBSET S
  OBVIOUS
<1>2. PICK u \in F : \A v \in F : v \subseteq u => v = u
  <2> HIDE DEF F
  <2> QED
    BY <1>1, SmallestSet
<1>3. u \subseteq S /\ u # {} /\ ~Has(u)
  OBVIOUS
<1>4. PICK e \in u : TRUE
  BY <1>3
<1>5. u \ {e} = {} \/ Has(u \ {e})
  <2>1. u \ {e} \in SUBSET S /\ u \ {e} \subseteq u /\ u \ {e} # u
    BY <1>3, <1>4
  <2>2. u \ {e} \notin F
    BY <1>2, <2>1
  <2> HIDE DEF Has
  <2> QED
    BY <2>1, <2>2
<1>6. CASE u \ {e} = {}
  <2>1. \A k \in u : k = e
    BY <1>6
  <2> QED
    BY <1>3, <1>4, <2>1
<1>7. ASSUME NEW m \in u \ {e}, \A k \in u \ {e} : <<k, m>> \in R
      PROVE  FALSE
  <2>1. CASE <<e, m>> \in R
    BY <1>3, <1>7, <2>1
  <2>2. CASE <<m, e>> \in R
    <3>1. \A k \in u : <<k, e>> \in R
      BY <1>3, <1>4, <1>7, <2>2
    <3> QED
      BY <1>3, <1>4, <3>1
  <2> QED
    BY <1>3, <1>4, <1>7, <2>1, <2>2
<1> QED
  BY <1>5, <1>6, <1>7

LEMMA MaxIsOne ==
    ASSUME NEW S, IsFiniteSet(S), S # {}, S \subseteq Int
    PROVE  Max(S) \in S
<1> DEFINE R == {p \in S \X S : p[1] <= p[2]}
<1>1. /\ \A x \in S : <<x, x>> \in R
      /\ \A x, y \in S : <<x, y>> \in R \/ <<y, x>> \in R
      /\ \A x, y, z \in S : <<x, y>> \in R /\ <<y, z>> \in R => <<x, z>> \in R
  OBVIOUS
<1>2. \E m \in S : \A k \in S : <<k, m>> \in R
  <2> HIDE DEF R
  <2> QED
    BY <1>1, Greatest
<1>3. PICK m \in S : \A k \in S : k <= m
  <2>1. PICK m \in S : \A k \in S : <<k, m>> \in R
    BY <1>2
  <2> QED
    BY <2>1
<1>4. \A k \in S : m >= k
  BY <1>3
<1> QED
  BY <1>4 DEF Max

LEMMA DayIsNumber ==
    ASSUME FilesInv, NEW m \in Markets
    PROVE  Max({r.last : r \in Collected(m)}) \in Int
<1> DEFINE day(r) == today - 1 - r.late
           S == {day(r) : r \in m}
<1>1. m # {} /\ IsFiniteSet(m) /\ (\A r \in m : r.late \in Int) /\ today \in Int
  BY SettingAssumption DEF FilesInv
<1>2. {r.last : r \in Collected(m)} = S
  <2>1. ASSUME NEW r \in Collected(m) PROVE r.last \in S
    BY DEF Collected
  <2>2. ASSUME NEW r \in m PROVE \E c \in Collected(m) : c.last = day(r)
    <3> DEFINE c == [symbol |-> r.symbol, days |-> r.days, last |-> day(r), price |-> r.price,
                     volume |-> r.volume, year |-> r.year, half |-> r.half, calm |-> r.calm,
                     trend |-> r.trend]
    <3>1. c \in Collected(m)
      BY DEF Collected
    <3>2. c.last = day(r)
      OBVIOUS
    <3> QED
      BY <3>1, <3>2
  <2> QED
    BY <2>1, <2>2
<1>3. S # {} /\ S \subseteq Int
  BY <1>1
<1>4. IsFiniteSet(S)
  <2> DEFINE f == [r \in m |-> day(r)]
  <2>1. f \in Surjection(m, S)
    BY DEF Surjection
  <2> HIDE DEF f, S
  <2> QED
    BY <1>1, <2>1, FS_Surjection
<1> HIDE DEF S
<1> QED
  BY <1>2, <1>3, <1>4, MaxIsOne

\* No later verdict on the symbol was in time for the run.
THEOREM LatestVerdictIsTaken == Spec => LatestVerdictWins
<1>1. FilesInv /\ [Next]_vars =>
        [\A d \in latest'.buys : latest' # latest =>
            ~\E f \in files : /\ f.schema = "current" /\ f.dossier.body.symbol = d.body.symbol
                              /\ f.dossier.body.asOf > d.body.asOf]_vars
  <2> SUFFICES ASSUME FilesInv, [Next]_vars, NEW d \in latest'.buys, latest' # latest,
                      NEW g \in files, g.schema = "current", g.dossier.body.symbol = d.body.symbol,
                      g.dossier.body.asOf > d.body.asOf
               PROVE  FALSE
    OBVIOUS
  <2>1. PICK m \in Markets : Recommend(m)
    BY DEF Next, vars, NewDay, Write, Discard, Freeze, Damage
  <2> DEFINE day == Max({r.last : r \in Collected(m)})
             screened == Selected(Universe(Collected(m), day))
  <2>2. DossiersRead(day) /\ d \in Buys(screened, day)
    BY <2>1 DEF Recommend
  <2>3. day \in Int
    BY DayIsNumber
  <2> HIDE DEF day, screened
  <2>4. PICK f \in Fresh(day), x \in Payloads :
              /\ d = f.dossier /\ f \in Chosen(d.body.symbol, day)
              /\ Frozen(x) /\ x.recommendation = "buy" /\ d.body = Body(x)
              /\ d.body.asOf <= day /\ day - d.body.asOf <= Policy.dossierAge
    BY <2>2, BoughtIs
  <2>5. g.dossier.body.asOf \in Int /\ d.body.asOf \in Int /\ Policy.dossierAge \in Int
    BY <2>4, PolicyAssumption DEF FilesInv, FileOk, Shaped, Fresh, PolicyLoads
  <2>6. g \in Fresh(day)
    BY <2>3, <2>4, <2>5 DEF Fresh, Stale
  <2>7. \/ g.dossier.body.asOf < f.dossier.body.asOf
        \/ g.dossier.body.asOf = f.dossier.body.asOf
    BY <2>4, <2>6 DEF Chosen
  <2> QED
    BY <2>4, <2>5, <2>7
<1> QED
  BY <1>1, FilesStart, FilesNext, PTL DEF Spec, LatestVerdictWins

-----------------------------------------------------------------------------
(* What a frozen buy says of the world.                                     *)

LEMMA WeightedType ==
    ASSUME NEW x \in Payloads
    PROVE  Weighted(x.cases) \in Int
<1> DEFINE f == [n \in ScenarioNames |-> x.cases[n].probability * x.cases[n].price]
<1>1. \A n \in ScenarioNames : x.cases[n].price \in Int /\ x.cases[n].probability \in Int
  BY Figures
<1>2. \A n \in ScenarioNames : x.cases[n].probability * x.cases[n].price \in Int
  BY <1>1
<1>3. IsFiniteSet(ScenarioNames)
  <2>1. IsFiniteSet({"bear"}) /\ IsFiniteSet({"bear"} \cup {"base"})
    BY FS_Singleton, FS_AddElement
  <2>2. IsFiniteSet(({"bear"} \cup {"base"}) \cup {"bull"})
    BY <2>1, FS_AddElement
  <2>3. ScenarioNames = ({"bear"} \cup {"base"}) \cup {"bull"}
    BY DEF ScenarioNames
  <2> QED
    BY <2>2, <2>3
<1>4. DOMAIN f = ScenarioNames /\ \A n \in ScenarioNames : f[n] \in Int
  BY <1>2
<1>5. Weighted(x.cases) = SumFunctionOnSet(f, ScenarioNames)
  BY DEF Weighted, SumFunction
<1> HIDE DEF f
<1> QED
  BY <1>3, <1>4, <1>5, SumType

LEMMA BuyIsWorthIt ==
    ASSUME NEW x \in Payloads, BuyGates(x)
    PROVE  /\ Weighted(x.cases) > 100 * x.price
           /\ \E k \in x.chains : IF k.favorable = "higher" THEN k.house.value > k.implied.value
                                  ELSE k.house.value < k.implied.value
           /\ 10 * (x.cases.base.price - x.price)
                >= Policy.rewardToRisk * (x.price - x.cases.bear.price)
<1>1. Weighted(x.cases) > 100 * x.price
  <2>1. Weighted(x.cases) \in Int /\ x.price \in Int
    BY WeightedType, Figures
  <2>2. Weighted(x.cases) - 100 * x.price > 0
    BY DEF BuyGates, WeightedReturn
  <2> QED
    BY <2>1, <2>2
<1>2. PICK k \in x.chains : Variant(k) = "bullish"
  BY DEF BuyGates
<1>3. k.house.value \in Int /\ k.implied.value \in Int
  BY Figures
<1>4. IF k.favorable = "higher" THEN k.house.value > k.implied.value
      ELSE k.house.value < k.implied.value
  BY <1>2, <1>3 DEF Variant
<1>5. 10 * (x.cases.base.price - x.price)
        >= Policy.rewardToRisk * (x.price - x.cases.bear.price)
  BY DEF BuyGates, RewardSuffices
<1> QED
  BY <1>1, <1>4, <1>5

\* The companies behind the supporting signals are external ones, and each is counted
\* under the organization it belongs to.
LEMMA ConfirmedByCompanies ==
    ASSUME NEW c, IsFiniteSet(c.entities), NEW symbol, NEW sources, NEW p,
           EntitiesOk(c, symbol, sources, p), SignalsOk(c, sources, p), Confirmation(c, p).confirmed
    PROVE  Cardinality({e.org : e \in {f \in External(c) : \E g \in c.signals :
                          g.entity = f.id /\ g.subject = c.expected}}) >= p.supporting
<1> DEFINE supporting == {g.entity : g \in {h \in ExternalSignals(c) :
                                              Classification(c, h) = "supporting"}}
           companies == {f \in External(c) : \E g \in c.signals :
                           g.entity = f.id /\ g.subject = c.expected}
<1>1. Cardinality({Entity(c, id).org : id \in supporting}) >= p.supporting
  BY DEF Confirmation
<1>2. \A e, f \in c.entities : e.id = f.id => e = f
  BY DEF EntitiesOk, Unique
<1>3. \A e \in c.entities : Entity(c, e.id) = e
  BY <1>2 DEF Entity
<1>4. /\ Subject(c) \in c.entities /\ Subject(c).role = "subject_company"
      /\ \A e \in c.entities : e.role = "subject_company" => e = Subject(c)
  <2> DEFINE S == {e \in c.entities : e.role = "subject_company"}
  <2>1. Cardinality(S) = 1
    BY DEF EntitiesOk
  <2>2. PICK e : S = {e}
    <3>1. IsFiniteSet(S)
      BY FS_Subset
    <3> HIDE DEF S
    <3> QED
      BY <2>1, <3>1, FS_Singleton
  <2>3. e \in c.entities /\ e.role = "subject_company"
    BY <2>2
  <2> QED
    BY <2>2, <2>3 DEF Subject
<1>5. \A g : Classification(c, g) = "supporting" <=> g.subject = c.expected
  BY DEF Classification
<1>6. \A g \in c.signals : \E e \in c.entities : e.id = g.entity
  BY DEF SignalsOk, SignalOk
<1>7. ASSUME NEW id \in supporting
      PROVE  Entity(c, id) \in companies /\ Entity(c, id).id = id
  <2>1. PICK g \in ExternalSignals(c) : g.entity = id /\ Classification(c, g) = "supporting"
    OBVIOUS
  <2>2. g \in c.signals /\ id # Subject(c).id /\ g.subject = c.expected
    BY <2>1, <1>5 DEF ExternalSignals
  <2>3. PICK e \in c.entities : e.id = id
    BY <1>6, <2>1, <2>2
  <2>4. Entity(c, id) = e
    BY <1>3, <2>3
  <2>5. e \in External(c)
    BY <1>4, <2>2, <2>3 DEF External
  <2> QED
    BY <2>1, <2>2, <2>3, <2>4, <2>5
<1>8. ASSUME NEW e \in companies
      PROVE  e.id \in supporting /\ Entity(c, e.id) = e
  <2>1. e \in c.entities /\ e.role # "subject_company"
    BY DEF External
  <2>2. PICK g \in c.signals : g.entity = e.id /\ g.subject = c.expected
    OBVIOUS
  <2>3. e.id # Subject(c).id
    BY <1>2, <1>4, <2>1
  <2>4. g \in ExternalSignals(c)
    BY <2>2, <2>3 DEF ExternalSignals
  <2>5. Classification(c, g) = "supporting"
    BY <1>5, <2>2
  <2> QED
    BY <1>3, <2>1, <2>2, <2>4, <2>5
<1> HIDE DEF supporting, companies
<1>9. {Entity(c, id).org : id \in supporting} = {e.org : e \in companies}
  BY <1>7, <1>8
<1> QED
  BY <1>1, <1>9 DEF companies

\* A frozen buy is supported by what it says.
LEMMA FrozenBuyIsSupported ==
    ASSUME NEW x \in Payloads, Frozen(x), x.recommendation = "buy"
    PROVE  /\ BuyGates(x)
           /\ Cardinality({e.org : e \in {f \in External(x.supply) : \E g \in x.supply.signals :
                             g.entity = f.id /\ g.subject = x.supply.expected}})
                >= Policy.supporting
<1>1. BuyGates(x)
  BY DEF Frozen, BuildOk
<1>2. SupplyOk(x.supply, x.symbol, x.sources, Policy)
  BY DEF Frozen, BuildOk, SectionsOk
<1>3. /\ EntitiesOk(x.supply, x.symbol, x.sources, Policy)
      /\ SignalsOk(x.supply, x.sources, Policy)
  BY <1>2 DEF SupplyOk
<1>4. Confirmation(x.supply, Policy).confirmed
  BY <1>1 DEF BuyGates
<1>5. IsFiniteSet(x.supply.entities)
  BY Figures
<1> QED
  BY <1>1, <1>3, <1>4, <1>5, ConfirmedByCompanies

\* What a recommendation says of one dossier, as of the day of the run.
Supported(b, day) ==
    LET cases == b.valuation.cases  c == b.supply.input
    IN  /\ Weighted(cases) > 100 * b.price
        /\ \E k \in b.chains : IF k.favorable = "higher" THEN k.house.value > k.implied.value
                               ELSE k.house.value < k.implied.value
        /\ 10 * (cases.base.price - b.price)
             >= Policy.rewardToRisk * (b.price - cases.bear.price)
        /\ Cardinality({e.org : e \in {f \in External(c) : \E g \in c.signals :
                          g.entity = f.id /\ g.subject = c.expected}}) >= Policy.supporting
        /\ day - b.asOf \in 0 .. Policy.dossierAge

LEMMA SupportedMeans == BuyIsSupported <=> \A d \in latest.buys : Supported(d.body, latest.asOf)
BY DEF BuyIsSupported, Supported

LEMMA BodyIsSupported ==
    ASSUME NEW x \in Payloads, Frozen(x), x.recommendation = "buy",
           NEW day \in Int, x.asOf <= day, day - x.asOf <= Policy.dossierAge
    PROVE  Supported(Body(x), day)
<1> DEFINE b == Body(x)
<1>1. /\ b.valuation = BuiltValuation(x.cases, x.price) /\ b.supply = BuiltSupply(x.supply, Policy)
      /\ b.price = x.price /\ b.chains = x.chains /\ b.asOf = x.asOf
  BY DEF Body
<1>2. b.valuation.cases = x.cases /\ b.supply.input = x.supply
  BY <1>1 DEF BuiltValuation, BuiltSupply
<1> HIDE DEF b
<1>3. /\ BuyGates(x)
      /\ Cardinality({e.org : e \in {f \in External(x.supply) : \E g \in x.supply.signals :
                        g.entity = f.id /\ g.subject = x.supply.expected}}) >= Policy.supporting
  BY FrozenBuyIsSupported
<1>4. day - x.asOf \in 0 .. Policy.dossierAge
  <2>1. x.asOf \in Int /\ Policy.dossierAge \in Int
    BY Figures, PolicyAssumption DEF PolicyLoads
  <2> QED
    BY <2>1
<1>5. Supported(b, day)
  BY <1>1, <1>2, <1>3, <1>4, BuyIsWorthIt DEF Supported
<1> QED
  BY <1>5 DEF b

\* What is recommended is supported by what its dossier says of the world, for every
\* policy the code loads, every payload, and whatever damage the files take: a buy comes
\* from a file that is as it was frozen (generate_stock_recommendations).
THEOREM BuysAreSupported == Spec => []BuyIsSupported
<1>1. Init => BuyIsSupported
  BY DEF Init, None, BuyIsSupported
<1>2. FilesInv /\ BuyIsSupported /\ [Next]_vars => BuyIsSupported'
  <2> SUFFICES ASSUME FilesInv, BuyIsSupported, [Next]_vars PROVE BuyIsSupported'
    OBVIOUS
  <2>1. CASE latest' = latest
    BY <2>1 DEF BuyIsSupported
  <2>2. ASSUME latest' # latest PROVE BuyIsSupported'
    <3>1. PICK m \in Markets : Recommend(m)
      BY <2>2 DEF Next, vars, NewDay, Write, Discard, Freeze, Damage
    <3> DEFINE day == Max({r.last : r \in Collected(m)})
               screened == Selected(Universe(Collected(m), day))
    <3>2. DossiersRead(day) /\ latest'.buys = Buys(screened, day) /\ latest'.asOf = day
      BY <2>2, <3>1 DEF Recommend
    <3>3. day \in Int
      BY DayIsNumber
    <3> HIDE DEF day, screened
    <3>4. ASSUME NEW d \in latest'.buys PROVE Supported(d.body, day)
      <4>1. PICK f \in Fresh(day), x \in Payloads :
                  /\ d = f.dossier /\ f \in Chosen(d.body.symbol, day)
                  /\ Frozen(x) /\ x.recommendation = "buy" /\ d.body = Body(x)
                  /\ d.body.asOf <= day /\ day - d.body.asOf <= Policy.dossierAge
        BY <3>2, BoughtIs
      <4>2. Body(x).asOf = x.asOf
        BY DEF Body
      <4> QED
        BY <3>3, <4>1, <4>2, BodyIsSupported
    <3>5. \A d \in latest'.buys : Supported(d.body, latest'.asOf)
      BY <3>2, <3>4
    <3> QED
      BY <3>5 DEF BuyIsSupported, Supported
  <2> QED
    BY <2>1, <2>2
<1> QED
  BY <1>1, <1>2, FilesStart, FilesNext, PTL DEF Spec

-----------------------------------------------------------------------------
(* An honest dossier passes.                                                *)

\* Two policies that agree on what the validator has written into its code.
Same(p, q) ==
    /\ p.metrics = q.metrics /\ p.eventMetrics = q.eventMetrics
    /\ p.windowMin = q.windowMin /\ p.windowMax = q.windowMax
    /\ p.materialRevision = q.materialRevision /\ p.materialMove = q.materialMove
    /\ p.external = q.external /\ p.roles = q.roles /\ p.supporting = q.supporting
    /\ p.counter = q.counter /\ p.relationships = q.relationships
    /\ p.topics = q.topics /\ p.questions = q.questions /\ p.commitments = q.commitments
    /\ p.quarters = q.quarters /\ p.bias = q.bias
    /\ p.holders = q.holders /\ p.beneficial = q.beneficial /\ p.form4 = q.form4
    /\ p.etfs = q.etfs /\ p.term = q.term /\ p.ivHistory = q.ivHistory
    /\ p.realized = q.realized /\ p.openInterest = q.openInterest /\ p.crush = q.crush

\* The policy that is shipped agrees with the validator's (config/focused_research_policy.json).
PolicyIsShipped == \A field \in DOMAIN Standard : Policy[field] = Standard[field]

LEMMA ShippedIsSame ==
    ASSUME PolicyIsShipped
    PROVE  Same(Policy, Standard)
<1>1. {"metrics", "eventMetrics", "windowMin", "windowMax", "materialRevision", "materialMove",
       "external", "roles", "supporting", "counter", "relationships", "topics", "questions",
       "commitments", "quarters", "bias", "holders", "beneficial", "form4", "etfs", "term",
       "ivHistory", "realized", "openInterest", "crush"} \subseteq DOMAIN Standard
  BY DEF Standard
<1> QED
  BY <1>1 DEF PolicyIsShipped, Same

LEMMA SameSupply ==
    ASSUME NEW p, NEW q, Same(p, q), NEW c, NEW symbol, NEW sources
    PROVE  /\ SupplyOk(c, symbol, sources, p) => SupplyOk(c, symbol, sources, q)
           /\ BuiltSupply(c, p) = BuiltSupply(c, q)
<1>1. EntitiesOk(c, symbol, sources, p) => EntitiesOk(c, symbol, sources, q)
  BY DEF Same, EntitiesOk
<1>2. RelationshipsOk(c, sources, p) => RelationshipsOk(c, sources, q)
  BY DEF Same, RelationshipsOk
<1>3. SignalsOk(c, sources, p) => SignalsOk(c, sources, q)
  BY DEF Same, SignalsOk
<1>4. Confirmation(c, p) = Confirmation(c, q)
  BY DEF Same, Confirmation
<1> QED
  BY <1>1, <1>2, <1>3, <1>4 DEF SupplyOk, BuiltSupply

LEMMA SameRevision ==
    ASSUME NEW p, NEW q, Same(p, q), NEW v, NEW asOf, NEW price, NEW sources
    PROVE  /\ RevisionOk(v, asOf, price, sources, p) => RevisionOk(v, asOf, price, sources, q)
           /\ BuiltRevision(v, p) = BuiltRevision(v, q)
<1>1. MetricsOk(v, asOf, sources, p) => MetricsOk(v, asOf, sources, q)
  BY DEF Same, MetricsOk
<1>2. EventMetricsOk(v, asOf, sources, p) => EventMetricsOk(v, asOf, sources, q)
  BY DEF Same, EventMetricsOk
<1>3. EstimateDirection(v, p) = EstimateDirection(v, q)
  BY DEF Same, EstimateDirection
<1>4. PriceDirection(v, p) = PriceDirection(v, q)
  BY DEF Same, PriceDirection
<1>5. Divergence(v, p) = Divergence(v, q)
  BY <1>3, <1>4 DEF Divergence
<1> QED
  BY <1>1, <1>2, <1>5 DEF RevisionOk, BuiltRevision

LEMMA SameCall ==
    ASSUME NEW p, NEW q, Same(p, q), NEW d, NEW org, NEW sources
    PROVE  /\ CallDiffOk(d, org, sources, p) => CallDiffOk(d, org, sources, q)
           /\ BuiltCall(d, p) = BuiltCall(d, q)
<1>1. \A call : CallOk(call, org, sources, p) => CallOk(call, org, sources, q)
  BY DEF Same, CallOk
<1>2. CallsOk(d, org, sources, p) => CallsOk(d, org, sources, q)
  BY <1>1 DEF CallsOk
<1>3. HistoryOk(d, org, sources, p) => HistoryOk(d, org, sources, q)
  BY DEF Same, HistoryOk
<1>4. CommitmentsOk(d, org, sources, p) => CommitmentsOk(d, org, sources, q)
  BY DEF Same, CommitmentsOk
<1>5. Bias(d, p) = Bias(d, q)
  BY DEF Same, Bias
<1> QED
  BY <1>2, <1>3, <1>4, <1>5 DEF CallDiffOk, BuiltCall

LEMMA SamePositioning ==
    ASSUME NEW p, NEW q, Same(p, q), NEW a, NEW asOf, NEW price, NEW sources
    PROVE  PositioningOk(a, asOf, price, sources, p) => PositioningOk(a, asOf, price, sources, q)
<1>1. HoldersOk(a.ownership, asOf, sources, p) => HoldersOk(a.ownership, asOf, sources, q)
  BY DEF Same, HoldersOk
<1>2. BeneficialOk(a.ownership, asOf, sources, p) => BeneficialOk(a.ownership, asOf, sources, q)
  BY DEF Same, BeneficialOk
<1>3. TransactionsOk(a.ownership, asOf, sources, p)
        => TransactionsOk(a.ownership, asOf, sources, q)
  BY DEF Same, TransactionsOk
<1>4. FundsOk(a.ownership, asOf, sources, p) => FundsOk(a.ownership, asOf, sources, q)
  BY DEF Same, FundsOk
<1>5. OptionsOk(a.options, asOf, price, sources, p) => OptionsOk(a.options, asOf, price, sources, q)
  BY DEF Same, OptionsOk
<1>6. OpenInterestOk(a.options, asOf, p) => OpenInterestOk(a.options, asOf, q)
  BY DEF Same, OpenInterestOk
<1>7. EventsOk(a.options, asOf, sources, p) => EventsOk(a.options, asOf, sources, q)
  BY DEF Same, EventsOk
<1> QED
  BY <1>1, <1>2, <1>3, <1>4, <1>5, <1>6, <1>7 DEF PositioningOk

\* A section with members is not empty.
LEMMA SomeMember ==
    ASSUME NEW S, NEW n \in Nat, n >= 1, Cardinality(S) \in n .. 20
    PROVE  S # {}
BY FS_EmptySet

\* Of a scenario the builder accepts, the validator derives what is stored.
LEMMA ScenarioPasses ==
    ASSUME NEW x \in Payloads, Frozen(x), NEW n \in ScenarioNames
    PROVE  /\ ScenarioReconciles(BuiltScenario(x.earnings.scenarios[n]))
           /\ EconomicsReconcile(BuiltScenario(x.earnings.scenarios[n]))
<1> DEFINE s == x.earnings.scenarios[n]
           t == BuiltScenario(s)
<1>1. /\ t.input = s /\ t.revenues = [d \in s.drivers |-> Revenue(d)]
      /\ t.results = Calculated(s, s.drivers) /\ t.economics = Economics(Calculated(s, s.drivers))
      /\ t.ending = CalculatedEnding(s)
  BY DEF BuiltScenario
<1>2. DriversOk(s, x.sources) /\ CapitalOk(s)
  BY DEF Frozen, BuildOk, SectionsOk, ScenariosOk
<1>3. s.drivers # {} /\ Unique(s.drivers)
  <2>1. Policy.drivers \in Nat /\ Policy.drivers >= 1
    BY PolicyAssumption DEF PolicyLoads
  <2>2. Cardinality(s.drivers) \in Policy.drivers .. 20 /\ Unique(s.drivers)
    BY <1>2 DEF DriversOk
  <2> HIDE DEF s
  <2> QED
    BY <2>1, <2>2, SomeMember
<1>4. /\ s.prior.capital \in Int /\ s.maintenance \in Int /\ s.growth \in Int /\ s.da \in Int
      /\ s.nwc \in Int /\ s.acquired \in Int /\ s.otherCapital \in Int
  <2>1. PICK d \in Drafts, day \in FirstDay .. LastDay : x = Payload(d.symbol, day, d.changes)
    BY DEF Payloads
  <2> QED
    BY <2>1, FiguresAssumption
<1>5. CalculatedEnding(s) = RecomputedEnding(s)
  BY <1>4 DEF CalculatedEnding, RecomputedEnding
<1>6. s.ending = CalculatedEnding(s)
  BY <1>2 DEF CapitalOk
<1> HIDE DEF s, t
<1>7. ScenarioReconciles(t)
  BY <1>1, <1>3 DEF ScenarioReconciles
<1>8. EconomicsReconcile(t)
  BY <1>1, <1>5, <1>6 DEF EconomicsReconcile
<1> QED
  BY <1>7, <1>8 DEF s, t

LEMMA EarningsPass ==
    ASSUME NEW x \in Payloads, Frozen(x)
    PROVE  EarningsReconcile(BuiltEarnings(x.earnings))
<1> DEFINE e == BuiltEarnings(x.earnings)
           built(n) == BuiltScenario(x.earnings.scenarios[n])
<1>1. /\ DOMAIN e.scenarios = ScenarioNames
      /\ \A n \in ScenarioNames : e.scenarios[n] = built(n)
      /\ e.sensitivities = {BuiltSensitivity(x.earnings, c) : c \in x.earnings.sensitivities}
  BY DEF BuiltEarnings
<1>2. \A n \in ScenarioNames : ScenarioReconciles(built(n)) /\ EconomicsReconcile(built(n))
  BY ScenarioPasses
<1>3. \A n \in ScenarioNames : built(n).input = x.earnings.scenarios[n]
  BY DEF BuiltScenario
<1>4. /\ ScenariosOk(x.earnings, x.sources) /\ SensitivitiesOk(x.earnings, x.sources)
  BY DEF Frozen, BuildOk, SectionsOk
<1>5. \A m, n \in ScenarioNames :
        {d.id : d \in x.earnings.scenarios[m].drivers} = {d.id : d \in x.earnings.scenarios[n].drivers}
  BY <1>4 DEF ScenariosOk
<1>6. x.earnings.sensitivities # {}
  <2>1. Policy.sensitivities \in Nat /\ Policy.sensitivities >= 1
    BY PolicyAssumption DEF PolicyLoads
  <2>2. Cardinality(x.earnings.sensitivities) \in Policy.sensitivities .. 20
    BY <1>4 DEF SensitivitiesOk
  <2> QED
    BY <2>1, <2>2, SomeMember
<1>7. "base" \in ScenarioNames
  BY DEF ScenarioNames
<1>8. \A k \in x.earnings.sensitivities :
        SensitivityReconciles(BuiltSensitivity(x.earnings, k), built("base"))
  <2> SUFFICES ASSUME NEW k \in x.earnings.sensitivities
               PROVE  SensitivityReconciles(BuiltSensitivity(x.earnings, k), built("base"))
    OBVIOUS
  <2> DEFINE base == x.earnings.scenarios.base
             c == BuiltSensitivity(x.earnings, k)
  <2>1. /\ c.shocks = k.shocks /\ c.base = Calculated(base, base.drivers)
        /\ c.shocked = Calculated(base, Shocked(base.drivers, k.shocks))
    BY DEF BuiltSensitivity
  <2>2. built("base").input = base /\ built("base").results = Calculated(base, base.drivers)
    BY DEF BuiltScenario
  <2>3. DOMAIN k.shocks # {} /\ DOMAIN k.shocks \subseteq {d.id : d \in base.drivers}
    BY <1>4 DEF SensitivitiesOk
  <2> HIDE DEF c, base, built
  <2>4. SensitivityReconciles(c, built("base"))
    BY <2>1, <2>2, <2>3 DEF SensitivityReconciles
  <2> QED
    BY <2>4 DEF c
<1> HIDE DEF e, built
<1>9. \A n \in ScenarioNames : ScenarioReconciles(e.scenarios[n]) /\ EconomicsReconcile(e.scenarios[n])
  BY <1>1, <1>2
<1>10. \A m, n \in ScenarioNames : {d.id : d \in e.scenarios[m].input.drivers}
                                     = {d.id : d \in e.scenarios[n].input.drivers}
  <2>1. \A n \in ScenarioNames : e.scenarios[n].input.drivers = x.earnings.scenarios[n].drivers
    BY <1>1, <1>3
  <2> QED
    BY <1>5, <2>1
<1>11. e.scenarios.base = built("base")
  BY <1>1, <1>7
<1>12. e.sensitivities # {} /\ \A c \in e.sensitivities : SensitivityReconciles(c, e.scenarios.base)
  BY <1>1, <1>6, <1>8, <1>11
<1>13. EarningsReconcile(e)
  BY <1>1, <1>9, <1>10, <1>12 DEF EarningsReconcile
<1> QED
  BY <1>13 DEF e

\* Two lists of the rows that agree on the ties give the same concentrations.
LEMMA SameConcentrations ==
    ASSUME NEW rows, NEW listed,
           \A r, s \in rows : Tied(r, s) => (<<r, s>> \in listed <=> Earlier(r, s))
    PROVE  TopConcentrations(rows, listed) = TopConcentrations(rows, AsStored(rows))
<1>1. \A r, s \in rows : <<r, s>> \in AsStored(rows) <=> Earlier(r, s)
  BY DEF AsStored
<1>2. \A r, s \in rows : Ahead(r, s, listed) <=> Ahead(r, s, AsStored(rows))
  BY <1>1 DEF Ahead
<1>3. \A x \in rows :
        {y \in rows : Ahead(y, x, listed)} = {y \in rows : Ahead(y, x, AsStored(rows))}
  BY <1>2
<1>4. {x \in rows : Cardinality({y \in rows : Ahead(y, x, listed)}) < 10}
        = {x \in rows : Cardinality({y \in rows : Ahead(y, x, AsStored(rows))}) < 10}
  BY <1>3
<1> QED
  BY <1>2, <1>4 DEF TopConcentrations

\* Whatever the builder freezes of a payload that lists a tied call first the
\* validator accepts on its day.
LEMMA BuiltPasses ==
    ASSUME PolicyIsShipped, NEW x \in Payloads, BuildOk(x), TiesAsStored(x)
    PROVE  Valid(Build(x), x.asOf, 0)
<1> DEFINE b == Body(x)
<1>1. Build(x).body = b /\ Build(x).digest = b
  BY DEF Build, Sealed
<1>2. Same(Policy, Standard)
  BY ShippedIsSame
<1>3. /\ b.asOf = x.asOf /\ b.price = x.price /\ b.sources = x.sources /\ b.symbol = x.symbol
      /\ b.earnings = BuiltEarnings(x.earnings) /\ b.revision = BuiltRevision(x.revision, Policy)
      /\ b.quality = BuiltQuality(x.quality) /\ b.supply = BuiltSupply(x.supply, Policy)
      /\ b.call = BuiltCall(x.call, Policy) /\ b.positioning = BuiltPositioning(x.positioning, x.listed)
  BY DEF Body
<1>4. SectionsOk(x)
  BY DEF BuildOk
<1> HIDE DEF b
<1>5. EarningsReconcile(b.earnings)
  BY <1>3, EarningsPass DEF Frozen
<1>6. RevisionRebuilt(b)
  <2>1. b.revision.input = x.revision
    BY <1>3 DEF BuiltRevision
  <2>2. RevisionOk(x.revision, x.asOf, x.price, x.sources, Standard)
    BY <1>2, <1>4, SameRevision DEF SectionsOk
  <2>3. BuiltRevision(x.revision, Policy) = BuiltRevision(x.revision, Standard)
    BY <1>2, SameRevision
  <2> QED
    BY <1>3, <2>1, <2>2, <2>3 DEF RevisionRebuilt
<1>7. QualityRebuilt(b)
  <2>1. b.quality.input = x.quality
    BY <1>3 DEF BuiltQuality
  <2> QED
    BY <1>3, <1>4, <2>1 DEF QualityRebuilt, SectionsOk
<1>8. b.supply.input = x.supply
  BY <1>3 DEF BuiltSupply
<1>9. SupplyRebuilt(b)
  <2>1. SupplyOk(x.supply, x.symbol, x.sources, Standard)
    BY <1>2, <1>4, SameSupply DEF SectionsOk
  <2>2. BuiltSupply(x.supply, Policy) = BuiltSupply(x.supply, Standard)
    BY <1>2, SameSupply
  <2> QED
    BY <1>3, <1>8, <2>1, <2>2 DEF SupplyRebuilt
<1>10. CallRebuilt(b)
  <2>1. b.call.input = x.call
    BY <1>3 DEF BuiltCall
  <2>2. CallDiffOk(x.call, Subject(x.supply).org, x.sources, Standard)
    BY <1>2, <1>4, SameCall DEF SectionsOk
  <2>3. BuiltCall(x.call, Policy) = BuiltCall(x.call, Standard)
    BY <1>2, SameCall
  <2> QED
    BY <1>3, <1>8, <2>1, <2>2, <2>3 DEF CallRebuilt
<1>11. PositioningRebuilt(b)
  <2>1. b.positioning.input = x.positioning
    BY <1>3 DEF BuiltPositioning
  <2>2. PositioningOk(x.positioning, x.asOf, x.price, x.sources, Standard)
    BY <1>2, <1>4, SamePositioning DEF SectionsOk
  <2> DEFINE rows == x.positioning.options.openInterest
  <2>3. TopConcentrations(rows, x.listed) = TopConcentrations(rows, AsStored(rows))
    BY SameConcentrations DEF TiesAsStored
  <2>4. BuiltOptions(x.positioning.options, x.listed)
          = BuiltOptions(x.positioning.options, AsStored(rows))
    BY <2>3 DEF BuiltOptions
  <2>5. b.positioning = BuiltPositioning(x.positioning, AsStored(rows))
    BY <1>3, <2>4 DEF BuiltPositioning
  <2> QED
    BY <1>3, <2>1, <2>2, <2>5 DEF PositioningRebuilt
<1>12. b.asOf <= x.asOf /\ x.asOf - b.asOf <= 0
  BY <1>3, Figures
<1> QED
  BY <1>1, <1>5, <1>6, <1>7, <1>9, <1>10, <1>11, <1>12 DEF Valid

\* Numbers only: the operating terms of the bridge are the growth of the core result.
LEMMA OperatingBridge ==
    ASSUME NEW i \in Int, NEW j \in Int, NEW r \in Int, NEW s \in Int, NEW t \in Int, NEW u \in Int
    PROVE  (j - i) * (4 - t) + (s - r) * (4 - t) + (j + s) * (t - u)
             = (j + s) * (4 - u) - (i + r) * (4 - t)
OBVIOUS

\* Numbers only: what the growth of the result and of the shares contribute adds up.
LEMMA ShareBridge ==
    ASSUME NEW m \in Int, NEW n \in Int, NEW p \in Int, NEW c \in Int, NEW w \in Int, NEW k \in Int
    PROVE  (n - m) * c * w + k + ((n * (p - c) * w) - k) = (n * p - m * c) * w
<1>1. (n - m) * c * w = n * c * w - m * c * w
  OBVIOUS
<1>2. n * (p - c) * w = n * p * w - n * c * w
  OBVIOUS
<1>3. (n * p - m * c) * w = n * p * w - m * c * w
  OBVIOUS
<1>4. n * c * w \in Int /\ m * c * w \in Int /\ n * p * w \in Int
  OBVIOUS
<1> HIDE <1>1
<1> QED
  BY <1>1, <1>2, <1>3, <1>4

LEMMA AfterTaxType ==
    ASSUME NEW q, IsFiniteSet(q.adjustments),
           \A a \in q.adjustments : a.prior.net \in Int /\ a.current.net \in Int
    PROVE  AfterTax(q, "prior") \in Int /\ AfterTax(q, "current") \in Int
<1>1. ASSUME NEW period, \A a \in q.adjustments : a[period].net \in Int
      PROVE  AfterTax(q, period) \in Int
  <2> DEFINE f == [a \in q.adjustments |-> a[period].net]
  <2>1. DOMAIN f = q.adjustments /\ \A a \in q.adjustments : f[a] \in Int
    BY <1>1
  <2>2. AfterTax(q, period) = SumFunctionOnSet(f, q.adjustments)
    BY DEF AfterTax, SumFunction
  <2> HIDE DEF f
  <2> QED
    BY <2>1, <2>2, SumType
<1> QED
  BY <1>1

\* The drivers of the growth of earnings add up to it, whatever the figures.
LEMMA AttributionHolds ==
    ASSUME NEW q, IsFiniteSet(q.adjustments),
           \A a \in q.adjustments : a.prior.net \in Int /\ a.current.net \in Int,
           \A b \in {q.prior, q.current} :
              {b.tax, b.income, b.recurring, b.shares, b.buyback} \subseteq Int,
           Reconciles(q, "prior"), Reconciles(q, "current")
    PROVE  Attributed(q) = EpsGrowth(q)
<1> DEFINE p == q.prior
           c == q.current
           before == CoreNet(p)
           after == CoreNet(c)
           x == AfterTax(q, "prior")
           y == AfterTax(q, "current")
           w == SharesWithoutBuyback(c)
<1>1. /\ p.tax \in Int /\ p.income \in Int /\ p.recurring \in Int /\ p.shares \in Int
      /\ c.tax \in Int /\ c.income \in Int /\ c.recurring \in Int /\ c.shares \in Int
      /\ c.buyback \in Int
  OBVIOUS
<1>2. x \in Int /\ y \in Int
  BY AfterTaxType
<1>3. p.gaapNet = before + x * 4 /\ c.gaapNet = after + y * 4
  BY DEF Reconciles, Pct
<1>4. before = (p.income + p.recurring) * (4 - p.tax) /\ after = (c.income + c.recurring) * (4 - c.tax)
  BY DEF CoreNet, CorePretax, Pct
<1>5. before \in Int /\ after \in Int /\ w \in Int
  BY <1>1, <1>4 DEF SharesWithoutBuyback
<1>6. OperatingTerms(p, c) = after - before
  <2>1. OperatingTerms(p, c)
          = (c.income - p.income) * (4 - p.tax) + (c.recurring - p.recurring) * (4 - p.tax)
            + (c.income + c.recurring) * (p.tax - c.tax)
    BY DEF OperatingTerms, CorePretax, Pct
  <2> HIDE DEF p, c, before, after
  <2> QED
    BY <1>1, <1>4, <2>1, OperatingBridge
<1>7. AdjustmentTerms(q) = (y - x) * 4
  BY DEF AdjustmentTerms, Pct
<1> DEFINE k == BuybackTerm(p, c)
<1>8. /\ Attributed(q) = (OperatingTerms(p, c) + AdjustmentTerms(q)) * c.shares * w
                           + k + (ShareTerm(p, c) - k)
      /\ EpsGrowth(q) = (c.gaapNet * p.shares - p.gaapNet * c.shares) * w
      /\ ShareTerm(p, c) = c.gaapNet * (p.shares - c.shares) * w
      /\ k = c.gaapNet * p.shares * c.buyback
  BY DEF Attributed, EpsGrowth, ShareTerm, BuybackTerm
<1> HIDE DEF p, c, before, after, x, y, w, k
<1>9. OperatingTerms(p, c) + AdjustmentTerms(q) = c.gaapNet - p.gaapNet
  BY <1>2, <1>3, <1>5, <1>6, <1>7
<1>10. c.gaapNet \in Int /\ p.gaapNet \in Int
  BY <1>2, <1>3, <1>5
<1>11. k \in Int
  BY <1>1, <1>8, <1>10
<1>12. (c.gaapNet - p.gaapNet) * c.shares * w + k + ((c.gaapNet * (p.shares - c.shares) * w) - k)
         = (c.gaapNet * p.shares - p.gaapNet * c.shares) * w
  BY <1>1, <1>5, <1>10, <1>11, ShareBridge
<1> QED
  BY <1>8, <1>9, <1>12

LEMMA DraftsPass ==
    ASSUME PolicyIsShipped, FilesInv
    PROVE  HonestDossierPasses
<1>1. ReconciledIsAttributed
  <2> SUFFICES ASSUME NEW x \in Drafted, Reconciles(x.quality, "prior"),
                      Reconciles(x.quality, "current")
               PROVE  AttributionOk(x.quality)
    BY DEF ReconciledIsAttributed
  <2>1. x \in Payloads
    BY DraftedIsPayload
  <2>2. PICK d \in Drafts, day \in FirstDay .. LastDay : x = Payload(d.symbol, day, d.changes)
    BY <2>1 DEF Payloads
  <2>3. /\ IsFiniteSet(x.quality.adjustments)
        /\ \A a \in x.quality.adjustments : a.prior.net \in Int /\ a.current.net \in Int
        /\ \A b \in {x.quality.prior, x.quality.current} :
             {b.tax, b.income, b.recurring, b.shares, b.buyback} \subseteq Int
    BY <2>2, FiguresAssumption
  <2>4. Attributed(x.quality) = EpsGrowth(x.quality)
    BY <2>3, AttributionHolds
  <2> QED
    BY <2>4 DEF AttributionOk
<1>2. BuiltIsAccepted
  BY DraftedIsPayload, BuiltPasses DEF BuiltIsAccepted
<1> QED
  BY <1>1, <1>2 DEF HonestDossierPasses

\* Under the policy the code ships, an honest dossier is refused for nothing but the
\* order of a tied call and put: whatever else the builder accepts the validator
\* accepts, section by section and in whatever order the payload lists its entries,
\* and the drivers of the growth of earnings always add up, for every payload (build
\* and validate_focused_research_dossier, _earnings_quality).
THEOREM HonestDossiersPass ==
    ASSUME PolicyIsShipped
    PROVE  Spec => []HonestDossierPasses
<1>1. FilesInv => HonestDossierPasses
  BY DraftsPass
<1> QED
  BY <1>1, FilesStart, FilesNext, PTL DEF Spec
===============================================================================
