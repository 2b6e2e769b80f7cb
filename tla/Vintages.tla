------------------------------ MODULE Vintages ------------------------------
(* Point-in-time observations: the append-only table with its triggers      *)
(* (data/repositories.py, schemas/migrations/0008), the raw responses its   *)
(* rows may rest on (data/raw_store.py) and the queries constrained by a    *)
(* cutoff (data/asof_query.py).                                             *)
(*                                                                          *)
(* One entity and field.  Instants are ticks of clock; an observation is    *)
(* ingested when it is appended, so its ingested_at is the clock.  id       *)
(* orders observations as their uuids do: not by time.                      *)
EXTENDS Integers, FiniteSets, FiniteSetsExt

CONSTANTS Periods,       \* reference periods, integers in the order of their text
          Ids,           \* observation ids
          Sources,       \* dataset manifests an observation may rest on
          RawIds,        \* ids of raw responses
          MaxClock

ASSUME VintageAssumption == Periods \subseteq Int /\ Ids \subseteq Nat /\ MaxClock \in Nat

VARIABLES observations,  \* the rows of am_temporal_observation
          raws,          \* am_raw_api_response: id -> received_at
          clock

vtvars == <<observations, raws, clock>>

None == -1

(* What TemporalObservation.__post_init__ demands.                          *)
LowerBounds(o) == {o.source, o.received, o.ingested} \cup ({o.released, o.revised} \ {None})

ObservationOk(o) ==
    /\ o.received >= o.source /\ o.ingested >= o.received
    /\ \A t \in LowerBounds(o) : o.available >= t
    /\ (o.supersedes = None) <=> (o.revised = None)

(* observation_hash: everything but the id.                                 *)
ContentHash(o) == <<o.period, o.value, o.event, o.source, o.received, o.available, o.ingested,
                    o.released, o.revised, o.supersedes, o.rests>>

(* The references and triggers of the table.                                *)
InitialVintageGuard(o) ==
    o.supersedes = None => \A p \in observations : p.period # o.period

(* A bug: an observation may be superseded twice.                           *)
RevisionGuardBranching(o) ==
    o.supersedes # None =>
        \E p \in observations : /\ p.id = o.supersedes /\ p.period = o.period
                                /\ p.available < o.available /\ p.available < o.revised

RevisionGuard(o) ==
    o.supersedes # None =>
        /\ \E p \in observations : /\ p.id = o.supersedes /\ p.period = o.period
                                   /\ p.available < o.available /\ p.available < o.revised
        /\ \A q \in observations : q.supersedes # o.supersedes

RestsOnStored(o) == o.rests \in Sources \/ o.rests \in DOMAIN raws

(* SQLiteTemporalObservationStore.append.  An id that is there already is   *)
(* accepted when the content is the same and refused otherwise.             *)
AppendObservation(o) ==
    /\ ObservationOk(o)
    /\ \A p \in observations : p.id # o.id /\ ContentHash(p) # ContentHash(o)
    /\ RestsOnStored(o) /\ InitialVintageGuard(o) /\ RevisionGuard(o)
    /\ observations' = observations \cup {o}
    /\ UNCHANGED <<raws, clock>>

(* SQLiteRawResponseStore.append: received no earlier than requested.       *)
AppendRaw(id, requested) ==
    /\ id \notin DOMAIN raws /\ requested <= clock
    /\ raws' = [i \in DOMAIN raws \cup {id} |->
                   IF i = id THEN clock ELSE raws[i]]
    /\ UNCHANGED <<observations, clock>>

Tick == clock < MaxClock /\ clock' = clock + 1 /\ UNCHANGED <<observations, raws>>

-----------------------------------------------------------------------------
(* Queries at a cutoff; {} is a query that fails.                           *)

Known(cutoff, rests) ==
    {o \in observations : o.available <= cutoff /\ (rests = None \/ o.rests = rests)}

(* The first row of a set in the order of a strict comparison.              *)
FirstOf(rows, before(_, _)) == {o \in rows : \A p \in rows \ {o} : before(o, p)}

Later(o, p) ==
    \/ o.available > p.available
    \/ o.available = p.available /\ o.event > p.event
    \/ o.available = p.available /\ o.event = p.event /\ o.period > p.period
    \/ o.available = p.available /\ o.event = p.event /\ o.period = p.period /\ o.id > p.id

GetLatest(cutoff, rests) ==
    LET rows == Known(cutoff, rests)
        first == FirstOf(rows, Later)
        second == FirstOf(rows \ first, Later)
        ambiguous == \E o \in first, p \in second :
                        /\ <<o.available, o.event, o.period>> = <<p.available, p.event, p.period>>
                        /\ ContentHash(o) # ContentHash(p)
    IN  IF ambiguous THEN {} ELSE first

LaterVintage(o, p) ==
    o.available > p.available \/ (o.available = p.available /\ o.id > p.id)
OfPeriod(rows, period) == {o \in rows : o.period = period}

(* series: the latest vintage of every period, or a conflict.               *)
Series(cutoff, rests) ==
    LET rows == Known(cutoff, rests)
        latest == UNION {FirstOf(OfPeriod(rows, q), LaterVintage) : q \in Periods}
        conflict == \E o \in latest : \E p \in OfPeriod(rows, o.period) :
                       p.available = o.available /\ ContentHash(p) # ContentHash(o)
    IN  IF conflict THEN {} ELSE latest

GetVintage(period, cutoff) ==
    LET rows == OfPeriod(Known(cutoff, None), period)
        first == FirstOf(rows, LaterVintage)
        second == FirstOf(rows \ first, LaterVintage)
    IN  IF \E o \in first, p \in second : o.available = p.available THEN {} ELSE first

History(period, cutoff) == OfPeriod(Known(cutoff, None), period)

-----------------------------------------------------------------------------
(* An observation that is appended now, of a response that was received at  *)
(* the beginning, and revised, if it is, just now.                          *)
Inputs ==
    [id : Ids, period : Periods, value : {1}, event : {0}, source : {0},
     received : {0}, available : 0 .. MaxClock, ingested : {clock},
     released : {None}, revised : {None, clock},
     supersedes : {None} \cup {o.id : o \in observations}, rests : Sources \cup DOMAIN raws]

VTInit == observations = {} /\ raws = <<>> /\ clock = 0
VTNext ==
    \/ \E o \in Inputs : AppendObservation(o)
    \/ \E id \in RawIds, requested \in 0 .. clock : AppendRaw(id, requested)
    \/ Tick

VTSpec == VTInit /\ [][VTNext]_vtvars

-----------------------------------------------------------------------------
(* Properties.                                                              *)

Cutoffs == 0 .. MaxClock
Filters == {None} \cup Sources

(* The triggers keep the vintages of a period in one chain, so that no      *)
(* query ever meets two latest ones: each answers whenever something was    *)
(* known, the queries agree on the vintage of a period, and the latest      *)
(* observation is one of the series (asof_query.py:90-102, 131-141, 170).   *)
NeverAmbiguous ==
    \A c \in Cutoffs :
        /\ \A f \in Filters :
              /\ Known(c, f) # {} => Series(c, f) # {} /\ GetLatest(c, f) # {}
              /\ GetLatest(c, f) \subseteq Series(c, f)
        /\ \A q \in Periods :
              /\ History(q, c) # {} => GetVintage(q, c) # {}
              /\ GetVintage(q, c) = OfPeriod(Series(c, None), q)

(* A question about the past has one answer, and always the same: no query   *)
(* is ambiguous, and once the clock is past a cutoff no append alters what a *)
(* query at that cutoff answers, because nothing is available before it is   *)
(* ingested (repositories.py:86-94).                                         *)
OneLastingAnswer ==
    [][/\ NeverAmbiguous'
       /\ \A c \in 0 .. clock - 1 : \A f \in Filters :
             /\ Series(c, f)' = Series(c, f)
             /\ GetLatest(c, f)' = GetLatest(c, f)]_vtvars
=============================================================================
