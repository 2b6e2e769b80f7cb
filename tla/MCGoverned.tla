------------------------------ MODULE MCGoverned ------------------------------
(* Three scenarios of the governed runtime in one instance.  Stages: two runs *)
(* as of 0.  The first has two expectations and three targets, one of which   *)
(* mixes in the risk model of the second run; decisions that allow, block or  *)
(* belong to the other run.  Models: a run with its cutoff at 1 and its as-of *)
(* instant at 2, a model that was validated, approved and activated at 0,     *)
(* with the review of a degradation on file, and a model that is not          *)
(* registered yet.  Dossiers: the payload of MCRecommendations, and the       *)
(* recommendations that are made of it.                                       *)
EXTENDS ModelGovernance, MCRecommendations, TLC

CONSTANTS r0, r1, r2, p1, s1, s2, d1, x1, x2, x3, v1, v2, t1, t2, t3, t4,
          ok1, ok2, block1, ok3, ok4, a1, i1, i2, live, paper, m1, m2, e0

MCPolicyFrom == p1 :> 0
MCPolicyTo == p1 :> 1
MCAsOf == r0 :> 2 @@ r1 :> 0 @@ r2 :> 0
MCCutoff == r0 :> 1 @@ r1 :> 0 @@ r2 :> 0
MCSnapshotRun == s1 :> r1 @@ s2 :> r1
MCSnapshotRaw == s1 :> TRUE @@ s2 :> FALSE
MCManifestRun == d1 :> r1
MCExpectationRun == x1 :> r1 @@ x2 :> r1 @@ x3 :> r2
MCExpectationAuthority == x1 :> a1 @@ x2 :> a1 @@ x3 :> a1
MCExpectationPriced == x1 :> TRUE @@ x2 :> FALSE @@ x3 :> TRUE
MCRiskModelRun == v1 :> r1 @@ v2 :> r2
MCTargetExpectation == t1 :> x1 @@ t2 :> x2 @@ t3 :> x3 @@ t4 :> x1
MCTargetRiskModel == t1 :> v1 @@ t2 :> v1 @@ t3 :> v2 @@ t4 :> v2
MCDecisionTarget == ok1 :> t1 @@ ok2 :> t2 @@ block1 :> t1 @@ ok3 :> t3 @@ ok4 :> t4
MCDecisionAction == ok1 :> "ALLOW" @@ ok2 :> "REDUCE" @@ block1 :> "BLOCK"
                    @@ ok3 :> "ALLOW" @@ ok4 :> "ALLOW"
MCApplicable == a1 :> TRUE
MCRuntimeOf == live :> "LIVE" @@ paper :> "PAPER"

MCApprovedScope == m1 :> {"EXPECTED_RETURN"} @@ m2 :> {"EXPECTED_RETURN"}
MCValidFrom == m1 :> 0 @@ m2 :> 0
MCReviewBy == m1 :> 2 @@ m2 :> 2
Early(from, to) == [model |-> m1, from |-> from, to |-> to, at |-> 0, ids |-> {e0}]
Filed(from, to) == [id |-> e0, model |-> m1, from |-> from, to |-> to, at |-> 0]
MCPast ==
    [registry |-> [models |-> {m1},
                   transitions |-> <<Early("DEVELOPMENT", "VALIDATED"),
                                     Early("VALIDATED", "APPROVED"),
                                     Early("APPROVED", "ACTIVE")>>],
     reviews |-> {Filed("DEVELOPMENT", "VALIDATED"), Filed("VALIDATED", "APPROVED"),
                  Filed("APPROVED", "ACTIVE"), Filed("ACTIVE", "DEGRADED")}]
MCMoves == {<<m1, "ACTIVE", "DEGRADED">>, <<m1, "DEGRADED", "ACTIVE">>}

VARIABLE part

MCInit == part \in {"stages", "models", "dossiers"} /\ GovernanceInit /\ Init
MCNext ==
    \/ /\ part = "stages" /\ PipelineNext
       /\ UNCHANGED <<part, governanceVars, vars>>
    \/ /\ part = "models" /\ CreateRun(r0)
       /\ UNCHANGED <<part, governanceVars, vars>>
    \/ part = "models" /\ Tick /\ UNCHANGED <<part, vars>>
    \/ part = "models" /\ OwnerStep /\ UNCHANGED <<part, vars>>
    \/ part = "models" /\ BinderStep /\ UNCHANGED <<part, vars>>
    \/ part = "models" /\ CalculationStep /\ UNCHANGED <<part, vars>>
    \/ part = "dossiers" /\ Next /\ UNCHANGED <<part, now, pipelineVars, governanceVars>>
MCSpec == MCInit /\ [][MCNext]_<<part, now, pipelineVars, governanceVars, vars>>

Scenario == /\ part = "stages" => created[r0] = NotCreated
            /\ part = "dossiers" => DossierScenario
===============================================================================
