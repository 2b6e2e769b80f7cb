------------------------------- MODULE Pipeline -------------------------------
(* The stage evidence of a runtime run (orchestration/pipelines.py and the    *)
(* triggers of migration 10), the order intents it admits, and the decision   *)
(* that the kernel assembles from it (orchestration/decision_kernel.py).      *)
(*                                                                            *)
(* The artifacts a stage may name are rows that other parts of the system     *)
(* append; they never change (migrations 3, 14 and 15), so they are constants *)
(* and an identifier stands for its content hash.  The chain feature, state,  *)
(* pricing of an expectation is reduced to what every join asks of it: the    *)
(* run at its end and the pricing authority its payload names.                *)
EXTENDS Integers, Sequences

CONSTANTS
    Runs, AsOf, Cutoff,              \* am_runtime_run: as_of, information_cutoff
    Policies, PolicyFrom, PolicyTo,  \* investment policies and their window
    Snapshots, SnapshotRun, SnapshotRaw,         \* account snapshots, raw lineage
    Manifests, ManifestRun,                      \* dataset manifests
    Expectations, ExpectationRun,                \* expectation runs
    ExpectationAuthority, ExpectationPriced,     \* what its pricing payload says
    RiskModels, RiskModelRun,
    Targets, TargetExpectation, TargetRiskModel,
    Decisions, DecisionTarget, DecisionAction,
    Authorities, Applicable,         \* PricingApplicabilityEvidence
    IntentIds,
    Kernels, Adapters, RuntimeOf,    \* kernel versions, adapter descriptors
    Workers,                         \* callers of the repository
    MaxTime                          \* bound of the clock

INVESTMENT_POLICY == 1
ACCOUNT_TRUTH == 2
TIME_TRUTH == 3
DATA_TRUTH == 4
FINANCIAL_CALCULATION == 5
TARGET_PORTFOLIO == 6
RISK_CONTROL == 7
ORDER == 8
StageOrder == 1..8

Time == 0..MaxTime
NotCreated == -1
Approving == {"ALLOW", "REDUCE"}

ASSUME ClockAssumption == MaxTime \in Nat
ASSUME RowAssumption ==
    /\ AsOf \in [Runs -> Nat] /\ Cutoff \in [Runs -> Nat]
    /\ PolicyFrom \in [Policies -> Nat] /\ PolicyTo \in [Policies -> Nat]
    /\ SnapshotRun \in [Snapshots -> Runs] /\ SnapshotRaw \in [Snapshots -> BOOLEAN]
    /\ ManifestRun \in [Manifests -> Runs]
    /\ ExpectationRun \in [Expectations -> Runs]
    /\ ExpectationAuthority \in [Expectations -> Authorities]
    /\ ExpectationPriced \in [Expectations -> BOOLEAN]
    /\ RiskModelRun \in [RiskModels -> Runs]
    /\ TargetExpectation \in [Targets -> Expectations]
    /\ TargetRiskModel \in [Targets -> RiskModels]
    /\ DecisionTarget \in [Decisions -> Targets]
    /\ DecisionAction \in [Decisions -> Approving \cup {"BLOCK"}]
    /\ Applicable \in [Authorities -> BOOLEAN]

VARIABLES
    now,        \* the clock
    created,    \* created_at of each run, NotCreated before its row exists
    stages,     \* am_pipeline_stage_evidence: the rows of each run
    intents,    \* am_order_intent
    task,       \* what each worker is in the middle of
    ledger      \* DecisionParityLedger._evaluations

pipelineVars == <<created, stages, intents, task, ledger>>

Artifacts == Policies \cup Snapshots \cup Runs \cup Manifests \cup Expectations
             \cup Targets \cup Decisions \cup IntentIds
Evidence == [stage : StageOrder, id : Artifacts]
Intent == [id : IntentIds, run : Runs, decision : Decisions]
Evaluation == [run : Runs, authority : Authorities, kernel : Kernels,
               adapter : Adapters, expectation : Expectations,
               target : Targets, decision : Decisions]
Idle == [op |-> "idle"]
Task == {Idle} \cup [op : {"record"}, run : Runs, row : Evidence]
               \cup [op : {"decided"}, evaluation : Evaluation]

PipelineInit ==
    /\ now = 0
    /\ created = [r \in Runs |-> NotCreated]
    /\ stages = [r \in Runs |-> <<>>]
    /\ intents = {}
    /\ task = [w \in Workers |-> Idle]
    /\ ledger = {}

-------------------------------------------------------------------------------
(* Which artifact a stage may name: the joins of _resolve_hash.               *)

TargetIsOf(r, t) ==
    /\ ExpectationRun[TargetExpectation[t]] = r
    /\ RiskModelRun[TargetRiskModel[t]] = r

\* A bug: the decision of another run is accepted.
ApprovesInAnyRun(r, d) == DecisionAction[d] \in Approving

ApprovesIn(r, d) ==
    /\ DecisionAction[d] \in Approving
    /\ TargetIsOf(r, DecisionTarget[d])

Resolves(r, s, id) ==
    \/ /\ s = INVESTMENT_POLICY /\ id \in Policies
       /\ PolicyFrom[id] <= AsOf[r] /\ AsOf[r] < PolicyTo[id]
    \/ /\ s = ACCOUNT_TRUTH /\ id \in Snapshots
       /\ SnapshotRun[id] = r /\ SnapshotRaw[id]
    \/ s = TIME_TRUTH /\ id = r
    \/ s = DATA_TRUTH /\ id \in Manifests /\ ManifestRun[id] = r
    \/ s = FINANCIAL_CALCULATION /\ id \in Expectations /\ ExpectationRun[id] = r
    \/ s = TARGET_PORTFOLIO /\ id \in Targets /\ TargetIsOf(r, id)
    \/ s = RISK_CONTROL /\ id \in Decisions /\ ApprovesIn(r, id)
    \/ s = ORDER /\ \E i \in intents : i.id = id /\ i.run = r

\* load raises on rows that are not in the fixed order.
Readable(r) == \A i \in DOMAIN stages[r] : stages[r][i].stage = i

\* am_pipeline_stage_order_guard and the primary key.
Contiguous(r, s) == Len(stages[r]) = s - 1

\* record: load and resolve, outside any transaction.
Record(w, r, s, id) ==
    /\ task[w] = Idle
    /\ created[r] # NotCreated
    /\ Readable(r)
    /\ s = Len(stages[r]) + 1
    /\ Resolves(r, s, id)
    /\ task' = [task EXCEPT ![w] =
                  [op |-> "record", run |-> r, row |-> [stage |-> s, id |-> id]]]
    /\ UNCHANGED <<now, created, stages, intents, ledger>>

\* record: the insert, under the triggers; a refusal raises.
InsertEvidence(w) ==
    /\ task[w].op = "record"
    /\ LET r == task[w].run
           row == task[w].row
       IN  stages' = [stages EXCEPT ![r] =
                        IF Contiguous(r, row.stage) /\ Resolves(r, row.stage, row.id)
                        THEN Append(stages[r], row) ELSE stages[r]]
    /\ task' = [task EXCEPT ![w] = Idle]
    /\ UNCHANGED <<now, created, intents, ledger>>

\* am_order_intent_pipeline_guard
RiskControlled(r, d) ==
    \E i \in DOMAIN stages[r] : stages[r][i] = [stage |-> RISK_CONTROL, id |-> d]

\* An intent is inserted in one statement, under the guard.
InsertIntent(i, r, d) ==
    /\ \A x \in intents : x.id # i
    /\ RiskControlled(r, d)
    /\ intents' = intents \cup {[id |-> i, run |-> r, decision |-> d]}
    /\ UNCHANGED <<now, created, stages, task, ledger>>

-------------------------------------------------------------------------------
(* The kernel.                                                                *)

Named(r, s) == stages[r][s].id

\* _required_pre_execution_evidence: every stage through RISK_CONTROL, each
\* resolved again.
PreExecution(r) ==
    /\ Readable(r)
    /\ Len(stages[r]) >= RISK_CONTROL
    /\ \A s \in 1..RISK_CONTROL : Resolves(r, s, Named(r, s))

\* A bug: the join does not tie the decision to the recorded target.
AnyLineage(r) == TargetIsOf(r, Named(r, TARGET_PORTFOLIO))

\* _decision_artifact_row: one row joins the three artifacts the stages name.
OneLineage(r) ==
    LET x == Named(r, FINANCIAL_CALCULATION)
        t == Named(r, TARGET_PORTFOLIO)
        d == Named(r, RISK_CONTROL)
    IN  /\ DecisionTarget[d] = t
        /\ TargetExpectation[t] = x
        /\ TargetIsOf(r, t)

\* The pricing payload names the authority it was given, agrees with it, and
\* an authorized target needs pricing.
PricingAgrees(x, a) ==
    /\ ExpectationAuthority[x] = a
    /\ ExpectationPriced[x]
    /\ ExpectationPriced[x] = Applicable[a]

\* assemble_canonical_decision_request succeeds, FrozenDecisionInput included.
Assembles(r, a) ==
    /\ PreExecution(r)
    /\ OneLineage(r)
    /\ Cutoff[r] <= AsOf[r]
    /\ PricingAgrees(Named(r, FINANCIAL_CALCULATION), a)

Assembled(r, a, k, d) ==
    [run |-> r, authority |-> a, kernel |-> k, adapter |-> d,
     expectation |-> Named(r, FINANCIAL_CALCULATION),
     target |-> Named(r, TARGET_PORTFOLIO),
     decision |-> Named(r, RISK_CONTROL)]

\* DecisionRuntimeAdapter.decide.  It only reads, and every row it reads is
\* fixed once it is there, so its statements are one step.
Decide(w, r, a, k, d) ==
    /\ task[w] = Idle
    /\ Assembles(r, a)
    /\ task' = [task EXCEPT ![w] =
                  [op |-> "decided", evaluation |-> Assembled(r, a, k, d)]]
    /\ UNCHANGED <<now, created, stages, intents, ledger>>

SameInput(e, f) == e.run = f.run /\ e.authority = f.authority
Semantic(e) == <<e.kernel, e.run, e.authority, e.expectation, e.target, e.decision>>

\* DecisionParityLedger.record accepts the evaluation.
Agrees(e) ==
    \A f \in ledger : SameInput(e, f) =>
        /\ Semantic(f) = Semantic(e)
        /\ RuntimeOf[f.adapter] = RuntimeOf[e.adapter] => f = e

RecordEvaluation(w) ==
    /\ task[w].op = "decided"
    /\ LET e == task[w].evaluation
       IN  ledger' = IF Agrees(e) THEN ledger \cup {e} ELSE ledger
    /\ task' = [task EXCEPT ![w] = Idle]
    /\ UNCHANGED <<now, created, stages, intents>>

\* The row of a run is inserted by its caller, with the two instants it chose.
CreateRun(r) ==
    /\ created[r] = NotCreated
    /\ created' = [created EXCEPT ![r] = now]
    /\ UNCHANGED <<now, stages, intents, task, ledger>>

PipelineNext ==
    \/ \E r \in Runs : CreateRun(r)
    \/ \E w \in Workers :
          \/ \E r \in Runs, s \in StageOrder, id \in Artifacts : Record(w, r, s, id)
          \/ InsertEvidence(w)
          \/ \E r \in Runs, a \in Authorities, k \in Kernels, d \in Adapters :
                Decide(w, r, a, k, d)
          \/ RecordEvaluation(w)
    \/ \E i \in IntentIds, r \in Runs, d \in Decisions : InsertIntent(i, r, d)

PipelineSpec ==
    PipelineInit /\ [][PipelineNext]_<<now, pipelineVars>>

-------------------------------------------------------------------------------
(* What the stage evidence is for.                                            *)

PipelineTypeOK ==
    /\ now \in Time
    /\ created \in [Runs -> Time \cup {NotCreated}]
    /\ stages \in [Runs -> Seq(Evidence)]
    /\ intents \subseteq Intent
    /\ task \in [Workers -> Task]
    /\ ledger \subseteq Evaluation

\* However many callers record at once, the rows of a run can always be loaded:
\* they are a prefix of the fixed order, without a gap, a repetition or a swap
\* (PipelineEvidenceRepository.load never raises).
LoadsAlways == \A r \in Runs : Readable(r)

\* An order intent is in the table only when every stage through RISK_CONTROL
\* of its own run is recorded, and the decision it names let a target of that
\* same run through (am_order_intent_pipeline_guard).
IntentIsAuthorized ==
    \A i \in intents :
        LET t == DecisionTarget[i.decision]
        IN  /\ \A s \in 1..RISK_CONTROL :
                   s \in DOMAIN stages[i.run] /\ stages[i.run][s].stage = s
            /\ DecisionAction[i.decision] # "BLOCK"
            /\ ExpectationRun[TargetExpectation[t]] = i.run
            /\ RiskModelRun[TargetRiskModel[t]] = i.run

\* Whatever mixture of artifacts the stages of a run were given, an evaluation
\* speaks of one lineage: its decision is about its target, its target was
\* computed from its expectation, and all of it belongs to its run.
EvaluationIsOneLineage ==
    \A e \in ledger :
        /\ DecisionTarget[e.decision] = e.target
        /\ TargetExpectation[e.target] = e.expectation
        /\ ExpectationRun[e.expectation] = e.run
        /\ RiskModelRun[TargetRiskModel[e.target]] = e.run

\* What was evaluated can be evaluated again: the stages still assemble, under
\* the same authority, to the evaluation the ledger holds, whatever was
\* recorded since.
Reproducible ==
    \A e \in ledger :
        /\ Assembles(e.run, e.authority)
        /\ Assembled(e.run, e.authority, e.kernel, e.adapter) = e

\* Two runtimes that evaluated the same frozen input came to the same decision
\* with the same kernel (require_parity cannot meet two hashes).
Parity ==
    \A e, f \in ledger : SameInput(e, f) => Semantic(e) = Semantic(f)
===============================================================================
