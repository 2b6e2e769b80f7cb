-------------------------------- MODULE DataLake ------------------------------
(***************************************************************************)
(* The data lake of one research run (toss_trading/research/data_lake.py)  *)
(* with the ingests that fill it (providers.py) and the checks a run has   *)
(* to pass before it is verified (automation.py, research_validate_bars).  *)
(* Files are content addressed and written by rename; an ingest may die    *)
(* between any two files and be repeated in the same lake.                 *)
(*                                                                         *)
(* Data.  A response page is its set of dates; the value of a bar is left  *)
(* out, since a bar is named by its source, adjustment, date and the raw   *)
(* manifest it came from.  A path is the content it is the digest of.      *)
(***************************************************************************)
EXTENDS Integers, Sequences, FiniteSets, SequencesExt, FiniteSetsExt

CONSTANTS Bundles,      \* collected responses: [source, adjustments, pages,
                        \* refetched: whether every ingest fetches it again]
          YearLength,   \* dates per year
          MaxFetches    \* bound: how often a response is fetched

ASSUME LakeAssumption ==
    /\ YearLength \in Nat \ {0} /\ MaxFetches \in Nat \ {0}
    /\ \A b \in Bundles :
          /\ b.pages \in Seq(SUBSET Nat) /\ b.pages # <<>>
          /\ \A k \in DOMAIN b.pages : IsFiniteSet(b.pages[k])
          /\ b.adjustments # {} /\ IsFiniteSet(b.adjustments)

VARIABLES
    objects,    \* files under bronze/ and silver/
    manifests,  \* files under catalog/manifests/
    fetches,    \* bundle -> times its response was fetched into this lake
    ingesting,  \* the bundle being ingested, one at a time
    written,    \* how many of its files are written: an object, its manifest, ...
    ingested    \* bundles whose last ingest ran to its end
lakevars == <<objects, manifests, fetches, ingesting, written, ingested>>

-----------------------------------------------------------------------------
(* store_raw: the object of a page, then its manifest.  The identity of    *)
(* the manifest has the time the page became available, that of the fetch. *)
RawObject(b, k) == [layer |-> "bronze", source |-> b.source, body |-> b.pages[k]]
RawManifest(b, k, fetch) ==
    [layer |-> "bronze", object |-> RawObject(b, k),
     request |-> <<b.adjustments, k>>, available |-> fetch, parents |-> {}]

(* A bar per date and adjustment; when pages overlap the later one wins    *)
(* (rows_by_key of ingest_toss_candle_bundle).                             *)
BundleDates(b) == UNION Range(b.pages)
Bar(b, fetch, a, d) ==
    [adjustment |-> a, date |-> d,
     raw |-> RawManifest(b, Max({k \in DOMAIN b.pages : d \in b.pages[k]}), fetch)]
Bars(b, fetch) == {Bar(b, fetch, a, d) : a \in b.adjustments, d \in BundleDates(b)}

(* validate_market_bars: one bar per key.                                  *)
ValidBars(rows) ==
    rows # {} /\ \A r, s \in rows : (r.adjustment = s.adjustment /\ r.date = s.date) => r = s

(* write_market_bars: one Parquet part per source, adjustment and year,    *)
(* named by the digest of its rows, with the raw manifests as parents.     *)
Part(b, fetch, a, year) ==
    [layer |-> "silver", source |-> b.source,
     rows |-> {r \in Bars(b, fetch) : r.adjustment = a /\ r.date \div YearLength = year}]
Years(b) == {d \div YearLength : d \in BundleDates(b)}
BarParts(b, fetch) == {Part(b, fetch, a, year) : a \in b.adjustments, year \in Years(b)}
PartManifest(p) ==
    [layer |-> "silver", object |-> p, request |-> <<>>, available |-> 0,
     parents |-> {r.raw : r \in p.rows}]

(* The parts in one order: that of their groups in the code, which nothing *)
(* below depends on.                                                       *)
PartOrder(b, fetch) ==
    CHOOSE s \in Bijection(1 .. Cardinality(BarParts(b, fetch)), BarParts(b, fetch)) : TRUE

(* ingest_toss_candle_bundle, ingest_tiingo_eod_response: the manifests of *)
(* the raw pages, then those of the parts, in the order they are written.  *)
Manifests(b, fetch) ==
    [k \in DOMAIN b.pages |-> RawManifest(b, k, fetch)]
    \o [k \in DOMAIN PartOrder(b, fetch) |-> PartManifest(PartOrder(b, fetch)[k])]

-----------------------------------------------------------------------------
LakeInit ==
    /\ objects = {} /\ manifests = {}
    /\ fetches = [b \in Bundles |-> 0]
    /\ ingesting = {} /\ written = 0
    /\ ingested = {}

(* collect_toss_candle_bundle keeps the response in a file, so that its    *)
(* ingest is repeated from the same bytes; the Tiingo response is fetched  *)
(* again by every ingest.                                                  *)
BeginIngest(b) ==
    /\ ingesting = {}
    /\ b.refetched => fetches[b] < MaxFetches
    /\ fetches' = [fetches EXCEPT ![b] = IF b.refetched \/ @ = 0 THEN @ + 1 ELSE @]
    /\ ValidBars(Bars(b, fetches'[b]))
    /\ ingesting' = {b} /\ written' = 0
    /\ ingested' = ingested \ {b}
    /\ UNCHANGED <<objects, manifests>>

(* A bug: an existing part is taken to have its manifest.                  *)
WriteSkipExisting ==
    \E b \in ingesting :
        LET all == Manifests(b, fetches[b])
            m == all[written \div 2 + 1]
            skip == m.layer = "silver" /\ m.object \in objects
        IN  /\ written < 2 * Len(all)
            /\ \/ /\ written % 2 = 0
                  /\ objects' = objects \cup {m.object}
                  /\ written' = IF skip THEN written + 2 ELSE written + 1
                  /\ UNCHANGED manifests
               \/ /\ written % 2 = 1
                  /\ manifests' = manifests \cup {m}
                  /\ written' = written + 1
                  /\ UNCHANGED objects
            /\ UNCHANGED <<fetches, ingesting, ingested>>

(* _atomic_write, _write_manifest: a file appears whole, the object before *)
(* the manifest that names it; one that is there under the same content    *)
(* address is left alone.                                                  *)
Write ==
    \E b \in ingesting :
        LET all == Manifests(b, fetches[b])
            m == all[written \div 2 + 1]
        IN  /\ written < 2 * Len(all)
            /\ \/ written % 2 = 0 /\ objects' = objects \cup {m.object} /\ UNCHANGED manifests
               \/ written % 2 = 1 /\ manifests' = manifests \cup {m} /\ UNCHANGED objects
            /\ written' = written + 1
            /\ UNCHANGED <<fetches, ingesting, ingested>>

EndIngest ==
    \E b \in ingesting :
        /\ written = 2 * Len(Manifests(b, fetches[b]))
        /\ ingested' = ingested \cup {b}
        /\ ingesting' = {} /\ written' = 0
        /\ UNCHANGED <<objects, manifests, fetches>>

IngestDies ==
    /\ ingesting # {}
    /\ ingesting' = {} /\ written' = 0
    /\ UNCHANGED <<objects, manifests, fetches, ingested>>

LakeNext == (\E b \in Bundles : BeginIngest(b)) \/ Write \/ EndIngest \/ IngestDies

LakeSpec == LakeInit /\ [][LakeNext]_lakevars

-----------------------------------------------------------------------------
(* Verification                                                            *)

StoredParts == {o \in objects : o.layer = "silver"}
AllRows == UNION {{[source |-> p.source, adjustment |-> r.adjustment, date |-> r.date] :
                      r \in p.rows} : p \in StoredParts}

(* _verified_manifests: every manifest names a stored file and known       *)
(* parents, and the Parquet files are exactly those with a manifest.       *)
VerifiedManifests ==
    /\ \A m \in manifests : m.object \in objects /\ m.parents \subseteq manifests
    /\ \A m \in manifests : m.layer = "silver" => m.parents # {}
    /\ StoredParts = {m.object : m \in {n \in manifests : n.layer = "silver"}}
    /\ StoredParts # {}

(* validate_parquet: no bar twice over all parts of a source.              *)
NoDuplicateBars ==
    \A p, q \in StoredParts : p # q /\ p.source = q.source =>
        \A r \in p.rows, s \in q.rows : r.adjustment = s.adjustment => r.date # s.date

DatesOf(source, adjustment) ==
    {x.date : x \in {y \in AllRows : y.source = source /\ y.adjustment = adjustment}}

(* The adjusted bars of a source cover the dates of its raw ones.          *)
AdjustedCoverage ==
    \A x \in AllRows : x.adjustment # "raw" =>
        DatesOf(x.source, "raw") = DatesOf(x.source, x.adjustment)

(* Two sources are compared on the dates that both have.                   *)
CrossProviderOverlap ==
    DatesOf("toss", "raw") \cap DatesOf("tiingo", "raw") # {}

ValidateParquet == NoDuplicateBars /\ AdjustedCoverage /\ CrossProviderOverlap

-----------------------------------------------------------------------------
(* Properties                                                              *)

(* The catalogue never names what the lake does not hold, at whatever file *)
(* an ingest died: a manifest is readable, and so are its parents.         *)
LineageClosed ==
    \A m \in manifests : m.object \in objects /\ \A p \in m.parents : p \in manifests

(* The responses themselves agree: no two bring the same bars, every       *)
(* adjusted series has a raw one over the same dates, and the two sources  *)
(* have a date in common.                                                  *)
ResponsesAgree ==
    /\ \A b, c \in Bundles :
          b # c /\ b.source = c.source => b.adjustments \cap c.adjustments = {}
    /\ \A b \in Bundles : \E c \in Bundles :
          c.source = b.source /\ "raw" \in c.adjustments /\ BundleDates(c) = BundleDates(b)
    /\ \E b, c \in Bundles :
          /\ b.source = "toss" /\ c.source = "tiingo"
          /\ "raw" \in b.adjustments \cap c.adjustments
          /\ BundleDates(b) \cap BundleDates(c) # {}

(* An ingest that died can be repeated: once every bundle has been         *)
(* ingested to its end from one response, and the responses agree, the     *)
(* lake passes verification, whatever earlier attempts left behind.        *)
RepetitionHeals ==
    (ResponsesAgree /\ ingested = Bundles /\ \A b \in Bundles : fetches[b] = 1) =>
        VerifiedManifests /\ ValidateParquet

(* A crash anywhere in an ingest neither breaks the catalogue nor stands   *)
(* in the way of the repetition.                                           *)
CrashIsHarmless == LineageClosed /\ RepetitionHeals
=============================================================================
