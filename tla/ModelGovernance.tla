--------------------------- MODULE ModelGovernance ---------------------------
(* The model registry and its life cycle (governance/model_registry.py), the  *)
(* persisted review evidence, snapshots and runtime selection                 *)
(* (governance/runtime_registry_evidence.py), and the calculations bound to   *)
(* an authorization (calculations/model_binding.py).                          *)
(*                                                                            *)
(* A tick of the clock is a day, so an instant and its date are the same.     *)
(* A review by another owner than the model's matches no transition and is    *)
(* left out.  A registry stands for its hash.                                 *)
EXTENDS Pipeline, FiniteSets

CONSTANTS
    Models, Scopes, ApprovedScope, ValidFrom, ReviewBy,  \* ModelDefinition
    EvidenceIds,
    Past,           \* the registry when the run of the model begins
    Moves,          \* the life cycle changes the owners ask for
    Publishers, Binders,  \* processes that publish, and that select for a run
    MaxReviews, MaxEdits, MaxSnapshots, MaxCalculations

ModelStatus == {"DEVELOPMENT", "VALIDATED", "APPROVED", "ACTIVE", "DEGRADED",
                "SUSPENDED", "RETIRED"}

\* _TRANSITIONS
Follows ==
    [DEVELOPMENT |-> {"VALIDATED", "RETIRED"},
     VALIDATED   |-> {"APPROVED", "DEVELOPMENT", "RETIRED"},
     APPROVED    |-> {"ACTIVE", "SUSPENDED", "RETIRED"},
     ACTIVE      |-> {"DEGRADED", "SUSPENDED", "RETIRED"},
     DEGRADED    |-> {"ACTIVE", "SUSPENDED", "RETIRED"},
     SUSPENDED   |-> {"VALIDATED", "RETIRED"},
     RETIRED     |-> {}]

Transition == [model : Models, from : ModelStatus, to : ModelStatus,
               at : Time, ids : SUBSET EvidenceIds]
Registry == [models : SUBSET Models, transitions : Seq(Transition)]
Review == [id : EvidenceIds, model : Models, from : ModelStatus,
           to : ModelStatus, at : Time]
Snapshot == [registry : Registry, at : Time]
Selection == [snapshot : Snapshot, at : Time]
Token == [run : Runs, selection : Selection, model : Models, scope : Scopes,
          at : Nat]
Calculation == [token : Token, produced : Time, bound : Time]
NotBound == [op |-> "not bound"]
Job == {Idle} \cup [op : {"publish"}, snapshot : Snapshot]
              \cup [op : {"bind"}, run : Runs, selection : Selection]

ASSUME GovernanceAssumption ==
    /\ ApprovedScope \in [Models -> SUBSET Scopes]
    /\ ValidFrom \in [Models -> Nat] /\ ReviewBy \in [Models -> Nat]
    /\ Moves \subseteq Models \X ModelStatus \X ModelStatus
    /\ Past.registry \in Registry /\ Past.reviews \subseteq Review

VARIABLES
    registry,      \* the ModelRegistry object the owners edit
    reviews,       \* am_model_governance_review_evidence
    snapshots,     \* am_model_registry_snapshot
    selected,      \* am_runtime_model_registry
    tokens,        \* RuntimeModelAuthorization objects that were handed out
    calculations,  \* ModelCalculationBinding objects
    job            \* what each binder is in the middle of

governanceVars == <<registry, reviews, snapshots, selected, tokens,
                    calculations, job>>

-------------------------------------------------------------------------------
(* The registry object.                                                       *)

Last(S) == CHOOSE i \in S : \A j \in S : j <= i

\* The transitions of m that are effective at an instant, as positions.
EffectiveAt(reg, m, at) ==
    {i \in DOMAIN reg.transitions :
        reg.transitions[i].model = m /\ reg.transitions[i].at <= at}

\* The status after the transitions at the positions S, in order.
StatusAfter(reg, S) ==
    IF S = {} THEN "DEVELOPMENT" ELSE reg.transitions[Last(S)].to

\* status_at raises unless every effective transition starts where the one
\* before it ended.
Consistent(reg, m, at) ==
    LET S == EffectiveAt(reg, m, at)
    IN  \A i \in S : reg.transitions[i].from = StatusAfter(reg, {j \in S : j < i})

StatusAt(reg, m, at) == StatusAfter(reg, EffectiveAt(reg, m, at))

TransitionsOf(reg, m) ==
    {i \in DOMAIN reg.transitions : reg.transitions[i].model = m}

\* The status field of the definition.
CurrentStatus(reg, m) == StatusAfter(reg, TransitionsOf(reg, m))

\* ModelRegistry.authorize
Authorizes(reg, m, scope, at) ==
    /\ m \in reg.models
    /\ Consistent(reg, m, at)
    /\ StatusAt(reg, m, at) = "ACTIVE"
    /\ scope \in ApprovedScope[m]
    /\ ValidFrom[m] <= at /\ at <= ReviewBy[m]

\* A bug: a transition may be effective before the one it follows.
InOrderAlways(reg, m, at) == TRUE

InOrder(reg, m, at) ==
    \A i \in TransitionsOf(reg, m) : reg.transitions[i].at <= at

\* How a registry that was made by its operations looks: each transition cites
\* evidence, starts where the model was and is not effective before the ones
\* that precede it.
Chained(reg) ==
    \A i \in DOMAIN reg.transitions :
        LET t == reg.transitions[i]
            earlier == {j \in TransitionsOf(reg, t.model) : j < i}
        IN  /\ t.ids # {}
            /\ t.from = StatusAfter(reg, earlier)
            /\ \A j \in earlier : reg.transitions[j].at <= t.at

ASSUME PastAssumption == Chained(Past.registry)

MayTransition(reg, m, to, at) ==
    /\ m \in reg.models
    /\ to \in Follows[CurrentStatus(reg, m)]
    /\ to \notin {"DEVELOPMENT", "RETIRED"} => at >= ValidFrom[m]
    /\ InOrder(reg, m, at)

Register(m) ==
    /\ m \notin registry.models
    /\ registry' = [registry EXCEPT !.models = @ \cup {m}]
    /\ UNCHANGED <<reviews, snapshots, selected, tokens, calculations, job>>
    /\ UNCHANGED <<now, pipelineVars>>

TransitionModel(m, to, at, ids) ==
    /\ MayTransition(registry, m, to, at)
    /\ ids # {}
    /\ registry' = [registry EXCEPT !.transitions =
          Append(@, [model |-> m, from |-> CurrentStatus(registry, m),
                     to |-> to, at |-> at, ids |-> ids])]
    /\ UNCHANGED <<reviews, snapshots, selected, tokens, calculations, job>>
    /\ UNCHANGED <<now, pipelineVars>>

-------------------------------------------------------------------------------
(* The evidence repository.                                                   *)

\* record_review_evidence: the repository's clock dates the review.
RecordReview(id, m, from, to) ==
    LET review == [id |-> id, model |-> m, from |-> from, to |-> to, at |-> now]
    IN  /\ review \notin reviews
        /\ reviews' = reviews \cup {review}
        /\ UNCHANGED <<registry, snapshots, selected, tokens, calculations, job>>
        /\ UNCHANGED <<now, pipelineVars>>

Backs(v, t, at) ==
    /\ v.model = t.model /\ v.from = t.from /\ v.to = t.to
    /\ v.at <= t.at /\ v.at <= at

\* _reviews_for_registry: every transition cites only recorded reviews.
Reviewed(reg, at) ==
    \A i \in DOMAIN reg.transitions : \A id \in reg.transitions[i].ids :
        \E v \in reviews : v.id = id /\ Backs(v, reg.transitions[i], at)

\* publish_snapshot: the instant, the payload and the reviews are read ...
Publish(b) ==
    /\ job[b] = Idle
    /\ \A s \in snapshots : s.registry # registry
    /\ Reviewed(registry, now)
    /\ job' = [job EXCEPT ![b] =
                 [op |-> "publish", snapshot |-> [registry |-> registry, at |-> now]]]
    /\ UNCHANGED <<registry, reviews, snapshots, selected, tokens, calculations>>
    /\ UNCHANGED <<now, pipelineVars>>

\* ... and the row is inserted, unless its primary key is there by now.
InsertSnapshot(b) ==
    /\ job[b].op = "publish"
    /\ LET s == job[b].snapshot
       IN  snapshots' = IF \E x \in snapshots : x.registry = s.registry
                        THEN snapshots ELSE snapshots \cup {s}
    /\ job' = [job EXCEPT ![b] = Idle]
    /\ UNCHANGED <<registry, reviews, selected, tokens, calculations>>
    /\ UNCHANGED <<now, pipelineVars>>

\* A bug: the snapshot may be as new as the run.
PointInTimeAsOf(r, selection) ==
    /\ Cutoff[r] <= AsOf[r]
    /\ selection.snapshot.at <= AsOf[r]
    /\ created[r] <= selection.at /\ selection.at <= AsOf[r]

\* Both bind_runtime_run and _selected ask this of the four instants.
PointInTime(r, selection) ==
    /\ Cutoff[r] <= AsOf[r]
    /\ selection.snapshot.at <= Cutoff[r]
    /\ created[r] <= selection.at /\ selection.at <= AsOf[r]

\* bind_runtime_run: the rows are read and checked ...
Bind(b, r, s) ==
    LET selection == [snapshot |-> s, at |-> now]
    IN  /\ job[b] = Idle
        /\ created[r] # NotCreated
        /\ PointInTime(r, selection)
        /\ stages[r] = <<>>
        /\ selected[r] = NotBound
        /\ job' = [job EXCEPT ![b] =
                     [op |-> "bind", run |-> r, selection |-> selection]]
        /\ UNCHANGED <<registry, reviews, snapshots, selected, tokens, calculations>>
        /\ UNCHANGED <<now, pipelineVars>>

\* A bug: the last selection wins.
KeepNew(old, new) == new

\* The primary key of am_runtime_model_registry.
KeepFirst(old, new) == IF old = NotBound THEN new ELSE old

\* ... and the selection is inserted.
InsertSelection(b) ==
    /\ job[b].op = "bind"
    /\ selected' = [selected EXCEPT ![job[b].run] =
                      KeepFirst(selected[job[b].run], job[b].selection)]
    /\ job' = [job EXCEPT ![b] = Idle]
    /\ UNCHANGED <<registry, reviews, snapshots, tokens, calculations>>
    /\ UNCHANGED <<now, pipelineVars>>

\* The process dies before its insert.
Die(b) ==
    /\ job[b] # Idle
    /\ job' = [job EXCEPT ![b] = Idle]
    /\ UNCHANGED <<registry, reviews, snapshots, selected, tokens, calculations>>
    /\ UNCHANGED <<now, pipelineVars>>

\* authorize: through the selection of the run, at its information cutoff.
Authorize(r, m, scope) ==
    /\ selected[r] # NotBound
    /\ PointInTime(r, selected[r])
    /\ Authorizes(selected[r].snapshot.registry, m, scope, Cutoff[r])
    /\ tokens' = tokens \cup {[run |-> r, selection |-> selected[r],
                               model |-> m, scope |-> scope, at |-> Cutoff[r]]}
    /\ UNCHANGED <<registry, reviews, snapshots, selected, calculations, job>>
    /\ UNCHANGED <<now, pipelineVars>>

\* require_authorization
Required(token, at) ==
    /\ selected[token.run] = token.selection
    /\ PointInTime(token.run, token.selection)
    /\ Cutoff[token.run] <= at /\ at <= AsOf[token.run]
    /\ token.at <= at
    /\ Authorizes(token.selection.snapshot.registry, token.model, token.scope, at)

\* bind_authorized_model_calculation: both instants are the caller's.
BindCalculation(token, produced, bound) ==
    /\ produced <= bound
    /\ Required(token, bound)
    /\ Required(token, produced)
    /\ calculations' = calculations \cup
          {[token |-> token, produced |-> produced, bound |-> bound]}
    /\ UNCHANGED <<registry, reviews, snapshots, selected, tokens, job>>
    /\ UNCHANGED <<now, pipelineVars>>

-------------------------------------------------------------------------------
GovernanceInit ==
    /\ PipelineInit
    /\ registry = Past.registry
    /\ reviews = Past.reviews
    /\ snapshots = {}
    /\ selected = [r \in Runs |-> NotBound]
    /\ tokens = {}
    /\ calculations = {}
    /\ job = [b \in Publishers \cup Binders |-> Idle]

Tick ==
    /\ now < MaxTime
    /\ now' = now + 1
    /\ UNCHANGED <<pipelineVars, governanceVars>>

\* The owners edit the registry and file their reviews.
Edits == Cardinality(registry.models) + Len(registry.transitions)
OwnerStep ==
    \E m \in Models :
        \/ Edits < MaxEdits /\ Register(m)
        \/ \E to \in ModelStatus, at \in Time, ids \in SUBSET EvidenceIds :
              /\ Edits < MaxEdits
              /\ <<m, CurrentStatus(registry, m), to>> \in Moves
              /\ TransitionModel(m, to, at, ids)
        \/ \E id \in EvidenceIds, from, to \in ModelStatus :
              /\ <<m, from, to>> \in Moves
              /\ Cardinality(reviews) < MaxReviews
              /\ RecordReview(id, m, from, to)

BinderStep ==
    \/ \E b \in Publishers :
          \/ Cardinality(snapshots) < MaxSnapshots /\ Publish(b)
          \/ InsertSnapshot(b)
    \/ \E b \in Binders :
          \/ \E r \in Runs, s \in snapshots : Bind(b, r, s)
          \/ InsertSelection(b)
    \/ \E b \in Publishers \cup Binders : Die(b)

\* A calculation asks for its token and is bound to it.
CalculationStep ==
    \/ \E r \in Runs, m \in Models, scope \in Scopes : Authorize(r, m, scope)
    \/ \E token \in tokens, produced, bound \in Time :
          /\ Cardinality(calculations) < MaxCalculations
          /\ BindCalculation(token, produced, bound)

GovernanceNext ==
    \/ Tick
    \/ OwnerStep
    \/ BinderStep
    \/ CalculationStep
    \/ PipelineNext /\ UNCHANGED governanceVars

GovernanceSpec ==
    GovernanceInit /\ [][GovernanceNext]_<<now, pipelineVars, governanceVars>>

-------------------------------------------------------------------------------
(* What the registry is for.                                                  *)

GovernanceTypeOK ==
    /\ PipelineTypeOK
    /\ registry \in Registry
    /\ reviews \subseteq Review
    /\ snapshots \subseteq Snapshot
    /\ selected \in [Runs -> Selection \cup {NotBound}]
    /\ tokens \subseteq Token
    /\ calculations \subseteq Calculation
    /\ job \in [Publishers \cup Binders -> Job]

\* The history of every published registry can be read at every instant, past
\* or future: status_at never finds a transition that starts where the model
\* was not.
HistoryIsReplayable ==
    \A s \in snapshots : \A m \in s.registry.models, at \in Time :
        Consistent(s.registry, m, at)

\* Every life cycle change that made a calculation's model what it was when the
\* result was bound had been reviewed before the change took effect.
ReviewedBeforeUse ==
    \A c \in calculations :
        LET reg == c.token.selection.snapshot.registry
        IN  \A i \in EffectiveAt(reg, c.token.model, c.bound) :
                \E v \in reviews :
                    /\ v.id \in reg.transitions[i].ids
                    /\ v.model = c.token.model
                    /\ v.from = reg.transitions[i].from
                    /\ v.to = reg.transitions[i].to
                    /\ v.at <= reg.transitions[i].at

\* Nothing a calculation relies on became known after the information cutoff of
\* its run: each change of its model up to the bound instant has a review that
\* was on file at the cutoff, however late the run was bound and used.
NoLookAhead ==
    \A c \in calculations :
        LET reg == c.token.selection.snapshot.registry
        IN  \A i \in EffectiveAt(reg, c.token.model, c.bound) :
                \E v \in reviews :
                    /\ v.id \in reg.transitions[i].ids
                    /\ v.model = c.token.model
                    /\ v.from = reg.transitions[i].from
                    /\ v.to = reg.transitions[i].to
                    /\ v.at <= Cutoff[c.token.run]

\* A calculation whose model was degraded or suspended between the cutoff and
\* the instant it was produced or bound is not bound
\* (bind_authorized_model_calculation asks twice).
CalculationsActive ==
    \A c \in calculations : \A at \in {c.produced, c.bound} :
        LET reg == c.token.selection.snapshot.registry
            last == {i \in EffectiveAt(reg, c.token.model, at) :
                        \A j \in EffectiveAt(reg, c.token.model, at) : j <= i}
        IN  /\ \E i \in last : reg.transitions[i].to = "ACTIVE"
            /\ at <= ReviewBy[c.token.model]

\* What a calculation may rest on: a model that was active when the result was
\* produced and bound, by changes that were reviewed before they took effect
\* and on file at the cutoff, whatever is edited, filed, published or bound
\* around it.
CalculationsWarranted == ReviewedBeforeUse /\ NoLookAhead /\ CalculationsActive

\* A token, once handed out, is accepted at the instant it was issued for ever
\* after: no later selection, publication or stage takes it away.
TokensStayValid == \A token \in tokens : Required(token, token.at)
==============================================================================
