---------------------------- MODULE DatasetStore ----------------------------
(* The content-addressed dataset store (data/immutable.py), the provider    *)
(* boundary that fills it, the collection plan and the price context of     *)
(* data/phase9.py, the ALFRED ingestion and the receipt audit.              *)
(*                                                                          *)
(* A hash is its preimage: a manifest is named by its own fields, a blob by *)
(* its body, and a file whose bytes no longer hash to its name is in bad.   *)
(* A body is a sequence of records.  Wording, redaction and the encodings   *)
(* are left out; a batch states in identity whether its credentials are     *)
(* classified, its request names a method and path and its revision is one. *)
EXTENDS Phase9

CONSTANTS Offers,      \* dataset -> the batches a provider may answer with
          Pages,       \* the ALFRED batches
          Captures,    \* the receipts of captured ALFRED responses
          Mapping,     \* provider entity -> canonical entity
          Exchange,    \* instrument -> its exchange
          Contracts,   \* the combined contracts a price context may be given
          MaxStarts,   \* how often the plan and the ALFRED ingestion are started
          MaxFaults    \* how many crashes and damaged files a behaviour has

(* What a response has: integer times, one of the two licences that         *)
(* validate_license_tag admits, rows or one page of days.                   *)
Licences == {"permitted", "forbidden"}
TimesTyped(x) == {x.received, x.provider} \subseteq Int /\ x.license \in Licences
PageTyped(page) ==
    \A o \in Rows(page.observations) : \A v \in o.columns : v.from \in Nat /\ v.to \in Nat
BatchTyped(b) ==
    /\ TimesTyped(b) /\ b.available \in Int /\ b.captured = {}
    /\ IF b.dataset = "series-observation-revisions" THEN PageTyped(b.body[1])
       ELSE \A r \in Rows(b.body) : "available" \in DOMAIN r /\ r.available \in Int

ASSUME DatasetAssumption ==
    /\ DOMAIN Offers = Rows(COLLECTION_ORDER)
    /\ \A b \in Pages \cup UNION {Offers[d] : d \in DOMAIN Offers} : BatchTyped(b)
    /\ \A c \in Captures : TimesTyped(c) /\ PageTyped(c.page)
    /\ \A c \in Contracts : c.license \in Licences

VARIABLES disk,        \* the files: blob[layer], manifest, request, capture
          bad,         \* the ones of them whose bytes were damaged
          job,         \* worker -> what it is publishing
          plan,        \* the position in COLLECTION_ORDER, 0 between runs
          health,      \* the source-health entries
          starts, faults

dsvars == <<disk, bad, job, plan, health, starts, faults>>

Layers == {"bronze", "silver", "gold"}
Level == [bronze |-> 0, silver |-> 1, gold |-> 2]
Workers == {"collector", "assembler"}
Idle == [stage |-> "idle"]

-----------------------------------------------------------------------------
(* Reading.                                                                 *)

Intact(kind, x) == x \in disk[kind] \ bad[kind]
BlobIntact(m) == m.body \in disk.blob[m.layer] \ bad.blob[m.layer]

(* read_manifest: the metadata, independently of blobs and parents.         *)
ManifestOk(m) ==
    /\ Intact("manifest", m)
    /\ m.quality = "VALID" \/ m.layer = "bronze"
    /\ m.available >= m.retrieved /\ m.provider <= m.retrieved
    /\ (m.layer = "bronze") <=> (m.parents = {})

(* What read demands of a dataset and a direct parent.                      *)
EdgeOk(p, m) ==
    /\ Level[p.layer] < Level[m.layer]
    /\ p.available <= m.available
    /\ m.layer # "gold" => p.source = m.source /\ p.license = m.license
    /\ ~(m.license = "permitted" /\ p.license = "forbidden")

(* _validate_query_echo: the response repeats the ranges of the request.    *)
QueryEchoOk(c) == /\ c.page.from <= c.page.to /\ c.page.offset >= 0
                  /\ c.asked = [from |-> c.page.from, to |-> c.page.to]

(* _read_capture: the receipt of a captured response.                       *)
CaptureOk(c) ==
    /\ Intact("capture", c)
    /\ c.status = 200 /\ c.provider <= c.received
    /\ QueryEchoOk(c)

RowOf(m) == m.body[1]
IsCaptured(m) == m.dataset = "series-observation-revisions" /\ m.captured # {}

(* validate_captured_alfred_lineage: the dataset still follows from the     *)
(* receipt it was made of.                                                  *)
CapturedLineageOk(m) ==
    \A c \in m.captured :
        /\ CaptureOk(c)
        /\ Intact("request", m.request)
        /\ m.retrieved = c.received /\ m.available = c.received /\ m.provider = c.provider
        /\ m.layer = "bronze" => RowOf(m) = c.page
        /\ m.layer = "silver" => /\ CapturedOk(c.page)
                                 /\ RowOf(m).rows = NormalizeVintages(c.page)

(* One level of ImmutableDatasetStore.read.                                 *)
Verified(m) ==
    /\ ManifestOk(m) /\ BlobIntact(m)
    /\ \A p \in m.parents : EdgeOk(p, m)
    /\ Len(m.body) = m.count
    /\ IsCaptured(m) => CapturedLineageOk(m)

(* Parents are of a lower layer, so two steps reach every ancestor.         *)
Ancestors(m) == m.parents \cup UNION {p.parents : p \in m.parents}
Lineage(m) == {m} \cup Ancestors(m)

Readable(m) == \A a \in Lineage(m) : Verified(a)

-----------------------------------------------------------------------------
(* Writing: the checks of write, then the blob, then the manifest.          *)

ContractOk(m, mixed) ==
    \/ \A p \in m.parents : p.source = m.source /\ p.license = m.license
    \/ /\ m.layer = "gold" /\ mixed
       /\ m.license = "permitted" => \A p \in m.parents : p.license # "forbidden"

Writable(m, mixed, allowEmpty) ==
    /\ m.layer # "bronze" => m.quality = "VALID"
    /\ m.available >= m.retrieved /\ m.provider <= m.retrieved
    /\ (m.layer = "bronze") <=> (m.parents = {})
    /\ \A p \in m.parents : /\ Readable(p)
                            /\ Level[p.layer] < Level[m.layer]
                            /\ p.available <= m.available
    /\ ContractOk(m, mixed)
    /\ m.layer # "bronze" => allowEmpty \/ m.body # <<>>

(* The order in which write publishes its two files.                        *)
PublishOrder == <<"blob", "manifest">>

(* _publish: a link that never replaces a file; a file that is there        *)
(* already must hold the same bytes.                                        *)
CanPublish(kind, m) ==
    IF kind = "blob" THEN m.body \notin bad.blob[m.layer] ELSE m \notin bad.manifest
Published(kind, m) ==
    IF kind = "blob" THEN [disk EXCEPT !.blob[m.layer] = @ \cup {m.body}]
    ELSE [disk EXCEPT !.manifest = @ \cup {m}]

(* A job that is to write m: the next file is the first of PublishOrder.    *)
Drafting(batch, m, bronze) ==
    [stage |-> "publish", next |-> 1, batch |-> batch, draft |-> m, bronze |-> bronze]
Reporting(batch, bronze, silver) ==
    [stage |-> "report", batch |-> batch, bronze |-> bronze, silver |-> silver]

(* One file of a dataset reaches the disk, or the write fails.              *)
Publish(w) ==
    /\ job[w].stage = "publish"
    /\ LET j == job[w]
           kind == PublishOrder[j.next]
       IN  IF ~CanPublish(kind, j.draft)
           THEN /\ job' = [job EXCEPT ![w] = IF w = "collector"
                                             THEN Reporting(j.batch, j.bronze, {}) ELSE Idle]
                /\ UNCHANGED disk
           ELSE /\ disk' = Published(kind, j.draft)
                /\ job' = [job EXCEPT ![w] =
                      IF j.next = 1 THEN [j EXCEPT !.next = 2]
                      ELSE IF j.draft.layer = "gold" THEN Idle
                      ELSE IF j.draft.layer = "silver" THEN Reporting(j.batch, j.bronze, {j.draft})
                      ELSE [stage |-> "normalize", batch |-> j.batch, bronze |-> {j.draft}]]
    /\ UNCHANGED <<bad, plan, health, starts, faults>>

-----------------------------------------------------------------------------
(* The provider boundary: ProviderDatasetAdapter.ingest.                    *)

Request(b) == [source |-> b.source, dataset |-> b.dataset, query |-> b.query]

Bronze(b) ==
    [layer |-> "bronze", source |-> b.source, dataset |-> b.dataset, retrieved |-> b.received,
     available |-> b.available, provider |-> b.provider, body |-> b.body,
     count |-> Len(b.body), license |-> b.license, revision |-> b.revision, parents |-> {},
     quality |-> "RAW", request |-> Request(b), captured |-> b.captured]

IsAlfred(b) == b.dataset = "series-observation-revisions"

(* The normalizer of the batch accepts the response.                        *)
Accepts(b) ==
    IF ~IsAlfred(b) THEN Collected(b, b.body)
    ELSE IF b.captured # {} THEN CapturedOk(b.body[1]) ELSE PageOk(b.body[1])

(* A row's provider entity is known and its canonical name is added.        *)
WithCanonical(r) == [f \in DOMAIN r \cup {"canonical"} |->
                       IF f = "canonical" THEN Mapping[r.entity] ELSE r[f]]
Mapped(rows) == [i \in 1 .. Len(rows) |-> WithCanonical(rows[i])]
SilverBody(b) ==
    IF IsAlfred(b) THEN <<[rows |-> NormalizeVintages(b.body[1])]>> ELSE Mapped(b.body)
EntitiesKnown(b) ==
    IsAlfred(b) \/ \A r \in Rows(b.body) : r.entity \in DOMAIN Mapping
NonEmpty(b) ==
    IF IsAlfred(b) THEN NormalizeVintages(b.body[1]) # {}
    ELSE b.body # <<>> \/ AllowVerifiedEmpty(b.dataset)

Silver(b, bronze) ==
    [Bronze(b) EXCEPT !.layer = "silver", !.body = SilverBody(b), !.count = Len(SilverBody(b)),
                      !.quality = "VALID", !.parents = {bronze}]

(* ProviderBatch, _require_dataset and daily_prices: what raises before     *)
(* anything is stored.  daily_prices asks this of the whole mapping of its  *)
(* call; Mapping serves every dataset, so the batch's entities are asked.   *)
BatchOk(b) == b.provider <= b.received /\ b.available >= b.received
Admissible(b, dataset) ==
    /\ BatchOk(b) /\ b.dataset = dataset
    /\ dataset = "daily-prices" =>
          \A r \in Rows(b.body) : r.entity \in DOMAIN Mapping => r.entity \in INITIAL_DAILY_ETFS

(* The adapter is called with a batch; one whose identity is not valid is   *)
(* reported and stores nothing.                                             *)
Started(b) == IF b.identity THEN [stage |-> "request", batch |-> b]
              ELSE Reporting(b, {}, {})

(* CollectionPlan.run is started, and each of its stages in turn.           *)
StartPlan ==
    /\ job["collector"] = Idle /\ plan = 0 /\ starts < MaxStarts
    /\ plan' = 1 /\ starts' = starts + 1
    /\ UNCHANGED <<disk, bad, job, health, faults>>

CollectStage(b) ==
    /\ job["collector"] = Idle /\ plan > 0
    /\ b \in Offers[COLLECTION_ORDER[plan]]
    /\ IF Admissible(b, COLLECTION_ORDER[plan])
       THEN job' = [job EXCEPT !["collector"] = Started(b)] /\ UNCHANGED plan
       ELSE plan' = 0 /\ UNCHANGED job
    /\ UNCHANGED <<disk, bad, health, starts, faults>>

Ingest(b) ==
    /\ job["collector"] = Idle /\ plan = 0 /\ starts < MaxStarts
    /\ job' = [job EXCEPT !["collector"] = Started(b)]
    /\ starts' = starts + 1
    /\ UNCHANGED <<disk, bad, plan, health, faults>>

IngestAlfred(b) == BatchOk(b) /\ Ingest(b)

(* ingest_captured_alfred_response takes the times of the receipt.          *)
CapturedBatch(c) ==
    [dataset |-> "series-observation-revisions", source |-> c.source, query |-> c.query,
     received |-> c.received, available |-> c.received, provider |-> c.provider,
     body |-> <<c.page>>, license |-> c.license, revision |-> c.revision, captured |-> {c},
     identity |-> TRUE, status |-> 200]
IngestCaptured(c) == CaptureOk(c) /\ Ingest(CapturedBatch(c))

(* The request receipt is catalogued, then the raw response is written.     *)
CatalogRequest ==
    /\ job["collector"].stage = "request"
    /\ LET b == job["collector"].batch
       IN  IF Request(b) \in bad.request \/ ~Writable(Bronze(b), FALSE, TRUE)
           THEN /\ job' = [job EXCEPT !["collector"] = Reporting(b, {}, {})]
                /\ UNCHANGED disk
           ELSE /\ disk' = [disk EXCEPT !.request = @ \cup {Request(b)}]
                /\ job' = [job EXCEPT !["collector"] = Drafting(b, Bronze(b), {})]
    /\ UNCHANGED <<bad, plan, health, starts, faults>>

(* The stored raw response is read back, checked and normalized.            *)
NormalizeRaw ==
    /\ job["collector"].stage = "normalize"
    /\ LET j == job["collector"]
           b == j.batch
           raw == CHOOSE m \in j.bronze : TRUE
       IN  job' = [job EXCEPT !["collector"] =
              IF /\ b.status \in 200 .. 299 /\ Readable(raw)
                 /\ Accepts(b) /\ EntitiesKnown(b) /\ NonEmpty(b)
                 /\ Writable(Silver(b, raw), FALSE, AllowVerifiedEmpty(b.dataset))
              THEN Drafting(b, Silver(b, raw), j.bronze)
              ELSE Reporting(b, j.bronze, {})]
    /\ UNCHANGED <<disk, bad, plan, health, starts, faults>>

(* The source health is catalogued whatever happened; a stage that is not   *)
(* READY ends the plan.                                                     *)
ReportHealth ==
    /\ job["collector"].stage = "report"
    /\ LET j == job["collector"]
           ready == j.silver # {}
       IN  /\ health' = health \cup {[source |-> j.batch.source, dataset |-> j.batch.dataset,
                                      retrieved |-> j.batch.received, ready |-> ready,
                                      bronze |-> j.bronze, silver |-> j.silver]}
           /\ plan' = IF plan = 0 \/ ~ready \/ plan = Len(COLLECTION_ORDER) THEN 0 ELSE plan + 1
    /\ job' = [job EXCEPT !["collector"] = Idle]
    /\ UNCHANGED <<disk, bad, starts, faults>>

-----------------------------------------------------------------------------
(* attach_price_context.                                                    *)

OpenSessions(s) == {<<r.canonical, r.day>> : r \in {x \in Rows(s.body) : x.isOpen}}
ContextOk(p, s, a) ==
    /\ \A m \in {p, s, a} : Readable(m) /\ m.layer = "silver" /\ m.quality = "VALID"
    /\ \A r \in Rows(p.body) : /\ r.canonical \in DOMAIN Exchange
                               /\ <<Exchange[r.canonical], r.day>> \in OpenSessions(s)
    /\ \A r \in Rows(a.body) : r.canonical \in DOMAIN Exchange

Mixed(p, s, a) == \/ Cardinality({m.source : m \in {p, s, a}}) # 1
                  \/ Cardinality({m.license : m \in {p, s, a}}) # 1

Gold(p, s, a, contract) ==
    [layer |-> "gold", source |-> contract.source, dataset |-> "daily-prices-with-context",
     retrieved |-> Max({m.retrieved : m \in {p, s, a}}),
     available |-> Max({m.available : m \in {p, s, a}}),
     provider |-> Max({m.provider : m \in {p, s, a}}),
     body |-> <<[prices |-> p, sessions |-> s, actions |-> a]>>, count |-> 1,
     license |-> contract.license, revision |-> p.revision, parents |-> {p, s, a},
     quality |-> "VALID", captured |-> {},
     request |-> [source |-> contract.source, dataset |-> "daily-prices-with-context",
                  query |-> "parents"]]

OwnContract(p) == [source |-> p.source, license |-> p.license]

(* given holds the combined contract of the call, if it has one.            *)
AttachPriceContext(p, s, a, given) ==
    /\ job["assembler"] = Idle
    /\ ContextOk(p, s, a)
    /\ Mixed(p, s, a) => given # {}
    /\ \E contract \in (IF given = {} THEN {OwnContract(p)} ELSE given) :
          /\ Writable(Gold(p, s, a, contract), Mixed(p, s, a), FALSE)
          /\ job' = [job EXCEPT !["assembler"] = Drafting(p, Gold(p, s, a, contract), {})]
    /\ UNCHANGED <<disk, bad, plan, health, starts, faults>>

Of(dataset) == {m \in disk.manifest : m.layer = "silver" /\ m.dataset = dataset}
Attach ==
    \E p \in Of("daily-prices"), s \in Of("sessions"), a \in Of("actions") :
        \E given \in {{}} \cup {{c} : c \in Contracts} : AttachPriceContext(p, s, a, given)

-----------------------------------------------------------------------------
(* Faults: a worker stops between two files, or the bytes of a file change. *)

Crash(w) ==
    /\ job[w] # Idle /\ faults < MaxFaults
    /\ job' = [job EXCEPT ![w] = Idle]
    /\ plan' = IF w = "collector" THEN 0 ELSE plan
    /\ faults' = faults + 1
    /\ UNCHANGED <<disk, bad, health, starts>>

DamageFile ==
    \/ \E kind \in {"manifest", "request", "capture"} : \E x \in disk[kind] \ bad[kind] :
          bad' = [bad EXCEPT ![kind] = @ \cup {x}]
    \/ \E layer \in Layers : \E body \in disk.blob[layer] \ bad.blob[layer] :
          bad' = [bad EXCEPT !.blob[layer] = @ \cup {body}]
Damage ==
    /\ faults < MaxFaults /\ \A w \in Workers : job[w] = Idle
    /\ DamageFile
    /\ faults' = faults + 1
    /\ UNCHANGED <<disk, job, plan, health, starts>>

NoFiles == [blob |-> [l \in Layers |-> {}], manifest |-> {}, request |-> {}, capture |-> {}]

DSInit ==
    /\ disk = [NoFiles EXCEPT !.capture = Captures]
    /\ bad = NoFiles
    /\ job = [w \in Workers |-> Idle]
    /\ plan = 0 /\ health = {} /\ starts = 0 /\ faults = 0

DSNext ==
    \/ StartPlan \/ CatalogRequest \/ NormalizeRaw \/ ReportHealth \/ Attach \/ Damage
    \/ \E b \in UNION {Offers[d] : d \in DOMAIN Offers} : CollectStage(b)
    \/ \E b \in Pages : IngestAlfred(b)
    \/ \E c \in Captures : IngestCaptured(c)
    \/ \E w \in Workers : Publish(w) \/ Crash(w)

DSSpec == DSInit /\ [][DSNext]_dsvars

-----------------------------------------------------------------------------
(* Queries.                                                                 *)

(* LatestSuccessfulDataset.get: every manifest of the catalogue is read, so *)
(* one that is not readable fails the query; {} is a query that fails.      *)
Latest(source, dataset, cutoff) ==
    LET known == {m \in disk.manifest : /\ m.source = source /\ m.dataset = dataset
                                        /\ m.layer = "silver" /\ m.quality = "VALID"
                                        /\ m.available <= cutoff}
        last == {m \in known : \A n \in known : n.available <= m.available}
    IN  IF (\A m \in disk.manifest : Readable(m)) /\ Cardinality(last) = 1 THEN last ELSE {}

(* read_vintage_rows: the rows a consumer gets for a vintage day, replayed  *)
(* against the raw page; {} when it refuses.                                *)
RawPage(m) == RowOf(CHOOSE p \in m.parents : TRUE)
ReadVintageRows(m, cutoff, day) ==
    IF /\ Readable(m) /\ m.layer = "silver" /\ m.quality = "VALID" /\ m.available <= cutoff
       /\ Cardinality(m.parents) = 1 /\ \A p \in m.parents : p.request = m.request
       /\ Intact("request", m.request)
       /\ RowOf(m).rows = NormalizeVintages(RawPage(m))
       /\ day \in RawPage(m).from .. RawPage(m).to /\ day < m.retrieved
    THEN RowOf(m).rows ELSE {}

(* audit_receipts: the manifests that fail by themselves.                   *)
ReceiptOk(m) == /\ Intact("request", m.request)
                /\ m.request.source = m.source /\ m.request.dataset = m.dataset
Invalid == {m \in disk.manifest : ~Readable(m) \/ (m.layer = "bronze" /\ ~ReceiptOk(m))}
Affected(blocked) == {m \in disk.manifest : ManifestOk(m) /\ m.parents \cap blocked # {}}

(* A bug: only the children of an invalid manifest are blocked.             *)
BlockedChildren == Invalid \cup Affected(Invalid)

(* The loop of audit_receipts reaches its fixed point after two rounds.     *)
Blocked == LET one == Invalid \cup Affected(Invalid) IN one \cup Affected(one)

-----------------------------------------------------------------------------
(* Properties.                                                              *)

(* No look-ahead through the lineage: what a readable dataset is made of,   *)
(* its ancestors and the rows of the normalized ones, was available no      *)
(* later than the dataset itself claims, and neither was anything in the    *)
(* latest prices at a cutoff (write, read and collect each check one step;  *)
(* immutable.py:224-229, phase9.py:392-396).                                *)
NothingFromTheFuture ==
    /\ \A m \in disk.manifest : Readable(m) =>
          \A a \in Lineage(m) :
            /\ a.available <= m.available
            /\ a.layer = "silver" =>
                  \A r \in Rows(a.body) : "available" \in DOMAIN r => r.available <= m.available
    /\ \A h \in health : \A m \in Latest(h.source, "daily-prices", h.retrieved) :
          m.available <= h.retrieved /\ \A r \in Rows(m.body) : r.available <= h.retrieved

(* A licence is never weakened along the way: no dataset that may be        *)
(* redistributed is made, over any number of steps, of one that may not     *)
(* (immutable.py:230-240).                                                  *)
LicenceIsKept ==
    \A m \in disk.manifest : m.license = "permitted" =>
        \A a \in Ancestors(m) : a.license = "permitted"

(* What a dataset claims of itself, its availability and its licence, holds *)
(* for everything it is made of.                                            *)
ClaimsHoldForLineage == NothingFromTheFuture /\ LicenceIsKept

(* "Unreferenced blobs after a crash are safe": wherever a writer stops, a  *)
(* manifest that is in the catalogue can be read, unless a file of its      *)
(* lineage was damaged (immutable.py:3-4, 239-256).                         *)
Touched(m) == \/ m \in bad.manifest \/ m.body \in bad.blob[m.layer]
              \/ m.request \in bad.request \/ m.captured \cap bad.capture # {}
PublishedIsWhole ==
    \A m \in disk.manifest : Readable(m) \/ \E a \in Lineage(m) : Touched(a)

(* The audit misses nothing: a manifest it does not block can be read and   *)
(* every raw response behind it still has the receipt of its request        *)
(* (receipt_audit.py:66-76).                                                *)
AuditFindsAll ==
    \A m \in disk.manifest \ Blocked :
        /\ Readable(m)
        /\ \A a \in Lineage(m) : a.layer = "bronze" => ReceiptOk(a)

(* A dataset that cannot be read, or whose origin can no longer be shown,   *)
(* was damaged from outside and is found by the audit.                      *)
DamageIsFound == PublishedIsWhole /\ AuditFindsAll

(* One value at a time: of the vintages a consumer is given for a day no    *)
(* two of a period are in force on that day, and no stored dataset is       *)
(* refused as not following from its raw page while its files are intact    *)
(* (alfred.py:66-68, 160-170).                                              *)
OneValueInForce ==
    \A m \in Of("series-observation-revisions") : \A day \in 0 .. m.retrieved :
        LET rows == ReadVintageRows(m, m.available, day)
        IN  /\ \A v, w \in {x \in rows : x.from <= day /\ day <= x.to} :
                  v.period = w.period => v = w
            /\ (\A a \in Lineage(m) : ~Touched(a)) =>
                  (rows = {} <=> (day \notin RawPage(m).from .. RawPage(m).to \/ day = m.retrieved))

=============================================================================
