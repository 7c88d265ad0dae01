------------------------------ MODULE Ingestion ------------------------------
(***************************************************************************)
(* The catalogue importer: tiles of a region are fetched from OSM and from *)
(* Google (overpass.processor, google.processor), what they return lands   *)
(* as raw places, a sweep waits for its tiles, and a drain promotes raw    *)
(* places to facilities (promotion.service), merging the sources of one    *)
(* lot; a daily refresh re-reads the Google facilities.                    *)
(*                                                                         *)
(* Each BullMQ queue has one worker of concurrency 1, so two fetches of a  *)
(* source never overlap; the sweep's drain and the promote queue's drain   *)
(* are on two queues and do.  Coordinates are on a small integer grid.     *)
(***************************************************************************)
EXTENDS Naturals, SequencesExt

CONSTANTS
    Region,         \* boxes a sweep or an ingest request may name
    TileDegrees,    \* edge of an OSM tile
    GoogleDegrees,  \* edge of a Google tile
    MaxDepth,       \* GOOGLE_MAX_SUBDIVIDE_DEPTH
    MaxResults,     \* GOOGLE_MAX_RESULTS
    OsmPlace, GooglePlace,
    At,             \* where a place is: [lat, lng], the corner of its cell
    LotOf,          \* the lot a place stands for: near and alike places share it
    OwnedLot,       \* lots with a facility of a real operator (source null)
    OsmTags,        \* tags an OSM element may carry
    Listing,        \* names a Google place may be listed under
    BatchSize,      \* PROMOTE_BATCH_SIZE
    Attempts,       \* attempts of a fetch job
    MaxEvent,       \* bound: requests, changes of the world, failed calls, crashes
    None

Place == OsmPlace \cup GooglePlace

ASSUME PlacesAssumption ==
    /\ OsmPlace \cap GooglePlace = {}
    /\ None \notin Place
    /\ OwnedLot \subseteq {LotOf[p] : p \in Place}
ASSUME FinitePlacesAssumption == IsFiniteSet(Place)
ASSUME GridAssumption ==
    /\ \A b \in Region : b.south \in Nat /\ b.west \in Nat /\ b.north \in Nat /\ b.east \in Nat
    /\ \A p \in Place : At[p].lat \in Nat /\ At[p].lng \in Nat
ASSUME BoundsAssumption ==
    /\ MaxDepth \in Nat /\ BatchSize \in Nat \ {0} /\ Attempts \in Nat \ {0}
    /\ MaxResults \in Nat \ {0} /\ MaxEvent \in Nat
    /\ TileDegrees \in Nat \ {0} /\ GoogleDegrees \in Nat \ {0}

VARIABLES
    tile,      \* status of each IngestTile row, None while there is no row
    queue,     \* tiles with a fetch job waiting, per source, in order
    job,       \* the job a tile has: its depth, its tries and how far it is
    world,     \* what each source says of a place now
    raw,       \* the RawPlace row of a place
    fac,       \* the Facility created from a place
    archived,  \* those of them whose lifecycle status is not ACTIVE
    sweep,     \* the job of the sweep queue
    drain,     \* the two drains: of the sweep and of the promote queue
    refresh,   \* the facility a refresh holds while it asks Google
    raced,     \* history: lots written from a reading already overtaken
    doubled,   \* history: lots with a facility created where an archived one was found
    inherited, \* history: facilities Google was asked about before the classification only
    events     \* how many of these there were

ingestionVars == <<tile, queue, job, world, raw, fac, archived, sweep, drain, refresh, raced,
                   doubled, inherited, events>>
pipeline == <<tile, queue, job>>
catalogue == <<fac, archived, raced, doubled, inherited>>

-----------------------------------------------------------------------------
\* Tiles.

Least(a, b) == IF a <= b THEN a ELSE b
Ceiling(a, b) == (a + b - 1) \div b
Steps(length, degrees) == IF length <= degrees THEN 1 ELSE Ceiling(length, degrees)

SplitBoundingBox(b, degrees) ==
    {[south |-> b.south + r * degrees,
      north |-> Least(b.south + (r + 1) * degrees, b.north),
      west |-> b.west + c * degrees,
      east |-> Least(b.west + (c + 1) * degrees, b.east)] :
        r \in 0 .. Steps(b.north - b.south, degrees) - 1,
        c \in 0 .. Steps(b.east - b.west, degrees) - 1}

Quadrants(b) ==
    LET lat == (b.south + b.north) \div 2
        lng == (b.west + b.east) \div 2
        Box(s, w, n, e) == [south |-> s, west |-> w, north |-> n, east |-> e]
    IN  {Box(b.south, b.west, lat, lng), Box(b.south, lng, lat, b.east),
         Box(lat, b.west, b.north, lng), Box(lat, lng, b.north, b.east)}

Overlaps(b, r) ==
    /\ b.south < r.north /\ b.north > r.south
    /\ b.west < r.east /\ b.east > r.west

OsmTiles(r) == {[source |-> "OSM", box |-> b] : b \in SplitBoundingBox(r, TileDegrees)}
GoogleTiles(r) ==
    {[source |-> "GOOGLE", box |-> b] :
        b \in SplitBoundingBox(r, Least(TileDegrees, GoogleDegrees))}
Subtiles(t) == {[source |-> "GOOGLE", box |-> b] : b \in Quadrants(t.box)}

\* The tiles k subdivisions below a region's own.
GoogleTree[k \in 0 .. MaxDepth] ==
    IF k = 0
    THEN UNION {GoogleTiles(r) : r \in Region}
    ELSE UNION {Subtiles(t) : t \in GoogleTree[k - 1]}
Tile ==
    (UNION {OsmTiles(r) : r \in Region}) \cup (UNION {GoogleTree[k] : k \in 0 .. MaxDepth})

\* A place lies in a tile when the whole cell it is the corner of does.
Holds(b, p) ==
    /\ b.south <= At[p].lat /\ At[p].lat < b.north
    /\ b.west <= At[p].lng /\ At[p].lng < b.east
Within(t) == {p \in IF t.source = "OSM" THEN OsmPlace ELSE GooglePlace : Holds(t.box, p)}

-----------------------------------------------------------------------------
\* What the two sources say, in the shape promotion consumes.

ClassifyOsm(tags) ==
    IF tags.access \in {"private", "customers", "permit"} THEN "RESTRICTED"
    ELSE IF tags.fee = "yes" THEN "BUSINESS"
    ELSE IF tags.fee \in {"no", "free"} \/ tags.parking \in {"street_side", "lane"}
         THEN "FREE_PUBLIC"
    ELSE IF tags.parking \in {"underground", "multi-storey", "garage"} THEN "BUSINESS"
    ELSE "UNKNOWN"

NormalizeOsm(tags) == [kind |-> ClassifyOsm(tags), name |-> "Parking"]
NormalizeGoogle(listing) == [kind |-> "BUSINESS", name |-> listing.name]
Normalize(p, content) ==
    IF p \in GooglePlace THEN NormalizeGoogle(content) ELSE NormalizeOsm(content)

\* ingestFacilitySchema: a name of at least one character.
Accepted(canonical) == canonical.name # ""

Content(p) == IF p \in GooglePlace THEN Listing ELSE OsmTags
RawPlace == [content : UNION {Content(p) : p \in Place},
             status : {"PENDING", "PROCESSED", "DUPLICATE", "REJECTED"}]
Facility == [google : GooglePlace \cup {None}, display : Place,
             kind : {"UNKNOWN", "RESTRICTED", "BUSINESS", "FREE_PUBLIC"}, synced : BOOLEAN]
TileStatus == {"PENDING", "FETCHING", "FETCHED", "FAILED"}
ASSUME NoneAssumption == None \notin Facility \cup RawPlace \cup TileStatus

NoJob == [st |-> "none", depth |-> 0, tries |-> 0, found |-> {}, left |-> {}]
NoSweep == [st |-> "idle", regions |-> {}, todo |-> {}, late |-> FALSE]
NoDrain == [st |-> "off", rows |-> {}, at |-> None]
Drainer == {"sweep", "promote"}

\* Rows imported before the classification existed are of unknown kind, whatever their
\* tags say, and so are those Google was asked about by then, long ago.
Unclassified(p, g) ==
    [google |-> g, display |-> IF g = None THEN p ELSE g, kind |-> "UNKNOWN", synced |-> FALSE]
Importable(p) ==
    {None} \cup {Unclassified(p, g) :
                  g \in IF p \in GooglePlace THEN {p}
                        ELSE {None} \cup {q \in GooglePlace : LotOf[q] = LotOf[p]}}
Imported(old) ==
    /\ \A p \in Place : old[p] \in Importable(p) /\ (LotOf[p] \in OwnedLot => old[p] = None)
    /\ \A p, q \in Place : old[p] # None /\ old[q] # None /\ LotOf[p] = LotOf[q] => p = q
Origin(old, p) == \E f \in Place : old[f] # None /\ p \in {f, old[f].google}

IngestionInit ==
    /\ tile = [t \in Tile |-> None]
    /\ queue = [src \in {"OSM", "GOOGLE"} |-> <<>>]
    /\ job = [t \in Tile |-> NoJob]
    /\ world \in {w \in [Place -> UNION {Content(p) : p \in Place}] :
                    \A p \in Place : w[p] \in Content(p)}
    /\ fac \in {old \in [Place -> UNION {Importable(p) : p \in Place}] : Imported(old)}
    /\ raw = [p \in Place |->
                IF Origin(fac, p) THEN [content |-> world[p], status |-> "PROCESSED"] ELSE None]
    /\ archived = {}
    /\ sweep = NoSweep
    /\ drain = [d \in Drainer |-> NoDrain]
    /\ refresh = None
    /\ raced = {}
    /\ doubled = {}
    /\ inherited = {f \in Place : fac[f] # None /\ fac[f].google # None}
    /\ events = 0

Event == events < MaxEvent /\ events' = events + 1

-----------------------------------------------------------------------------
\* Enqueueing: the row is upserted PENDING, then the job is added under an id of
\* its own, which is refused while a job of that id is still in the queue.

Enqueued(ts) == [t \in Tile |-> IF t \in ts THEN "PENDING" ELSE tile[t]]
Fresh(ts) == {t \in ts : job[t].st = "none"}
Added(q, ts) == q \o SetToSeq(Fresh(ts))

EnqueueTile(t) ==
    /\ tile' = Enqueued({t})
    /\ queue' = [queue EXCEPT ![t.source] = Added(@, {t})]
    /\ job' = [u \in Tile |-> IF u \in Fresh({t}) THEN [NoJob EXCEPT !.st = "wait"] ELSE job[u]]

\* POST osm/region and google/region, the box of one tile at a time.
IngestRegion ==
    /\ Event
    /\ \E r \in Region : \E t \in OsmTiles(r) \cup GoogleTiles(r) : EnqueueTile(t)
    /\ UNCHANGED <<world, raw, catalogue, sweep, drain, refresh>>

-----------------------------------------------------------------------------
\* The fetch workers.

Busy(source) == \E t \in Tile : t.source = source /\ job[t].st \in {"run", "done"}

Takes(t) ==
    /\ queue[t.source] # <<>> /\ Head(queue[t.source]) = t /\ ~Busy(t.source)
    /\ queue' = [queue EXCEPT ![t.source] = Tail(@)]
    /\ tile' = [tile EXCEPT ![t] = "FETCHING"]

\* Overpass answers with every element of the box.
OverpassFetch(t) ==
    /\ t.source = "OSM" /\ Takes(t)
    /\ job' = [job EXCEPT ![t].st = "run", ![t].found = Within(t)]
    /\ UNCHANGED <<world, raw, catalogue, sweep, drain, refresh, events>>

\* Google answers with at most MaxResults of them, which ones is its choice.
Answers(t) ==
    IF Cardinality(Within(t)) <= MaxResults
    THEN {Within(t)}
    ELSE {s \in SUBSET Within(t) : Cardinality(s) = MaxResults}

\* The cap hit may have cut the answer: a tile above the depth floor is split.
Splits(t, found) ==
    IF Cardinality(found) >= MaxResults /\ job[t].depth < MaxDepth THEN Subtiles(t) ELSE {}

GoogleFetch(t) ==
    /\ t.source = "GOOGLE" /\ Takes(t)
    /\ \E found \in Answers(t) :
        job' = [job EXCEPT ![t].st = "run", ![t].found = found, ![t].left = Splits(t, found)]
    /\ UNCHANGED <<world, raw, catalogue, sweep, drain, refresh, events>>

\* An unchanged payload is skipped, a new or changed one waits for promotion.
Landed(p) ==
    IF raw[p] # None /\ raw[p].content = world[p]
    THEN raw
    ELSE [raw EXCEPT ![p] = [content |-> world[p], status |-> "PENDING"]]

StoreElement(t) ==
    /\ t.source = "OSM" /\ job[t].st = "run"
    /\ \E p \in job[t].found :
        /\ raw' = Landed(p)
        /\ job' = [job EXCEPT ![t].found = @ \ {p}]
    /\ UNCHANGED <<tile, queue, world, catalogue, sweep, drain, refresh, events>>

StorePlace(t) ==
    /\ t.source = "GOOGLE" /\ job[t].st = "run"
    /\ \E p \in job[t].found :
        /\ raw' = Landed(p)
        /\ job' = [job EXCEPT ![t].found = @ \ {p}]
    /\ UNCHANGED <<tile, queue, world, catalogue, sweep, drain, refresh, events>>

\* The quadrants of a split tile are enqueued, one level deeper.
Deeper(t, ts) ==
    [u \in Tile |-> IF u \in Fresh(ts)
                    THEN [NoJob EXCEPT !.st = "wait", !.depth = job[t].depth + 1]
                    ELSE job[u]]

EnqueueGoogleSubtiles(t) ==
    /\ job[t].st = "run" /\ job[t].found = {} /\ job[t].left # {}
    /\ tile' = Enqueued(job[t].left)
    /\ queue' = [queue EXCEPT !["GOOGLE"] = Added(@, job[t].left)]
    /\ job' = [Deeper(t, job[t].left) EXCEPT ![t].left = {}]
    /\ UNCHANGED <<world, raw, catalogue, sweep, drain, refresh, events>>

\* Only with its subtiles enqueued is the tile marked.  The job keeps its id in
\* the queue until the worker has reported it done.
\* Mutant of MayFinish: the tile is marked before its subtiles are enqueued.
MayFinishUnsplit(t) == job[t].st = "run" /\ job[t].found = {}
MayFinish(t) == job[t].st = "run" /\ job[t].found = {} /\ job[t].left = {}
Fetched(t) ==
    /\ MayFinish(t)
    /\ tile' = [tile EXCEPT ![t] = "FETCHED"]
    /\ job' = [job EXCEPT ![t].st = "done"]
    /\ UNCHANGED <<queue, world, raw, catalogue, sweep, drain, refresh, events>>

Acknowledge(t) ==
    /\ job[t].st = "done"
    /\ job' = [job EXCEPT ![t] = NoJob]
    /\ UNCHANGED <<tile, queue, world, raw, catalogue, sweep, drain, refresh, events>>

\* A call fails: the tile is FAILED, and tried again while attempts are left.
FetchFails(t) ==
    /\ job[t].st = "run"
    /\ Event
    /\ tile' = [tile EXCEPT ![t] = "FAILED"]
    /\ LET again == job[t].tries + 1 < Attempts
           retried == [job[t] EXCEPT !.st = "wait", !.tries = job[t].tries + 1,
                                     !.found = {}, !.left = {}]
       IN  /\ job' = [job EXCEPT ![t] = IF again THEN retried ELSE NoJob]
           /\ queue' = IF again THEN [queue EXCEPT ![t.source] = Append(@, t)] ELSE queue
    /\ UNCHANGED <<world, raw, catalogue, sweep, drain, refresh>>

Worker(t) ==
    \/ OverpassFetch(t)
    \/ GoogleFetch(t)
    \/ StoreElement(t)
    \/ StorePlace(t)
    \/ EnqueueGoogleSubtiles(t)
    \/ Fetched(t)
    \/ Acknowledge(t)

-----------------------------------------------------------------------------
\* The sweep.

EnqueueSweep ==
    /\ sweep.st = "idle"
    /\ Event
    /\ \E rs \in (SUBSET Region) \ {{}} :
        sweep' = [NoSweep EXCEPT !.st = "enqueue", !.regions = rs,
                                 !.todo = UNION {OsmTiles(r) \cup GoogleTiles(r) : r \in rs}]
    /\ UNCHANGED <<pipeline, world, raw, catalogue, drain, refresh>>

SweepEnqueues ==
    /\ sweep.st = "enqueue"
    /\ \E t \in sweep.todo :
        /\ t.source = "OSM" \/ \A u \in sweep.todo : u.source = "GOOGLE"
        /\ EnqueueTile(t)
        /\ sweep' = [sweep EXCEPT !.todo = @ \ {t},
                                  !.st = IF sweep.todo = {t} THEN "wait" ELSE @]
    /\ UNCHANGED <<world, raw, catalogue, drain, refresh, events>>

\* The row is upserted and the queue refuses the job: the sweep, tried once, is gone.
SweepFails ==
    /\ sweep.st = "enqueue"
    /\ Event
    /\ \E t \in sweep.todo : tile' = Enqueued({t})
    /\ sweep' = NoSweep
    /\ UNCHANGED <<queue, job, world, raw, catalogue, drain, refresh>>

Awaited == {"PENDING", "FETCHING"}
Waiting ==
    {t \in Tile : tile[t] \in Awaited /\ \E r \in sweep.regions : Overlaps(t.box, r)}

\* Every tile of the regions is terminal, or the wait has reached its ceiling.
\* Mutant of MayGiveUp: the wait has no ceiling.
WaitsForEver == FALSE
MayGiveUp == sweep.st = "wait"
SweepDrains(late) ==
    /\ sweep.st = "wait"
    /\ IF late THEN MayGiveUp ELSE Waiting = {}
    /\ sweep' = [sweep EXCEPT !.st = "drain", !.late = late]
    /\ drain' = [drain EXCEPT !["sweep"].st = "read"]
    /\ UNCHANGED <<pipeline, world, raw, catalogue, refresh, events>>

-----------------------------------------------------------------------------
\* Promotion.

EnqueuePromotion ==
    /\ drain["promote"].st = "off"
    /\ Event
    /\ drain' = [drain EXCEPT !["promote"].st = "read"]
    /\ UNCHANGED <<pipeline, world, raw, catalogue, sweep, refresh>>

PendingPlaces == {p \in Place : raw[p] # None /\ raw[p].status = "PENDING"}
Batches ==
    {s \in SUBSET PendingPlaces :
        Cardinality(s) = Least(BatchSize, Cardinality(PendingPlaces))}

\* One round of drainPending: a batch of pending rows, as they read now, or the end.
DrainPending(d) ==
    /\ drain[d].st = "read"
    /\ IF PendingPlaces = {}
       THEN /\ drain' = [drain EXCEPT ![d] = NoDrain]
            /\ sweep' = IF d = "sweep" THEN NoSweep ELSE sweep
       ELSE /\ \E s \in Batches :
                drain' = [drain EXCEPT ![d].st = "rows",
                            ![d].rows = {[place |-> p, content |-> raw[p].content] : p \in s}]
            /\ UNCHANGED sweep
    /\ UNCHANGED <<pipeline, world, raw, catalogue, refresh, events>>

FacilitiesOf(lot) == {f \in Place : fac[f] # None /\ LotOf[f] = lot}

\* Its own prior promotion: the facility that carries the place's id, if it is ACTIVE.
FindSelf(p) ==
    IF p \in GooglePlace
    THEN {f \in Place \ archived : fac[f] # None /\ fac[f].google = p}
    ELSE {f \in {p} \ archived : fac[f] # None}

\* A near, similarly named facility that is not the row's own, ACTIVE or not: raw SQL.
\* Mutant of FindDuplicate: only facilities of the row's own source are looked at.
FindDuplicateOfSource(p) ==
    {f \in FacilitiesOf(LotOf[p]) \ {p} : f \in GooglePlace <=> p \in GooglePlace}
FindDuplicate(p) == FacilitiesOf(LotOf[p]) \ {p}

\* The duplicate is read again, ACTIVE only: an archived one leaves the row to be created.
Land(p, f) ==
    IF f \in archived THEN [how |-> "create", target |-> p] ELSE [how |-> "merge", target |-> f]

\* Where the row should land: itself, another source's facility, an operator's, or anew.
Resolutions(p) ==
    IF FindSelf(p) # {}
    THEN {[how |-> "merge", target |-> f] : f \in FindSelf(p)}
    ELSE IF FindDuplicate(p) = {} /\ LotOf[p] \notin OwnedLot
    THEN {[how |-> "create", target |-> p]}
    ELSE {Land(p, f) : f \in FindDuplicate(p)}
            \cup {[how |-> "duplicate", target |-> p] : l \in {LotOf[p]} \cap OwnedLot}

\* The rows left of the batch, or the next round.
Rest(d, rows) ==
    [drain EXCEPT ![d] = [st |-> IF rows = {} THEN "read" ELSE "rows", rows |-> rows, at |-> None]]

Marked(p, status) == [raw EXCEPT ![p].status = status]

\* promoteRow up to its writes: an unusable row is rejected, another is resolved.
PromoteRow(d) ==
    /\ drain[d].st = "rows"
    /\ \E row \in drain[d].rows :
        LET p == row.place
            rest == drain[d].rows \ {row}
        IN  IF ~Accepted(Normalize(p, row.content))
            THEN raw' = Marked(p, "REJECTED") /\ drain' = Rest(d, rest)
            ELSE /\ \E to \in Resolutions(p) :
                     drain' = [drain EXCEPT ![d] =
                        [st |-> "write", rows |-> rest,
                         at |-> [row |-> row, to |-> to, seen |-> fac[to.target],
                                 known |-> FacilitiesOf(LotOf[p]),
                                 hidden |-> FacilitiesOf(LotOf[p]) \cap archived]]]
                 /\ UNCHANGED raw
    /\ UNCHANGED <<pipeline, world, catalogue, sweep, refresh, events>>

\* The lot is no longer as the row was resolved against.
Overtaken(at) ==
    FacilitiesOf(LotOf[at.row.place]) # at.known \/ fac[at.to.target] # at.seen
Races(at) == IF Overtaken(at) THEN raced \cup {LotOf[at.to.target]} ELSE raced
Doubles(at) == IF at.to.how = "create" /\ at.hidden # {} THEN doubled \cup {LotOf[at.to.target]}
               ELSE doubled
Heals(at) == IF at.row.place \in GooglePlace THEN inherited \ {at.to.target} ELSE inherited

CreateFacility(p, canonical) ==
    [google |-> IF p \in GooglePlace THEN p ELSE None, display |-> p,
     kind |-> canonical.kind, synced |-> p \in GooglePlace]

\* Google wins the display fields and the kind; OSM writes them only where the
\* facility, as it was read, has no Google id.
\* Mutant of OsmMayDisplay: an import of OSM's own is always its to write.
OsmMayDisplayOwn(at) == at.to.target \in OsmPlace
OsmMayDisplay(at) == at.seen.google = None
MergeFacility(now, at, canonical) ==
    IF at.row.place \in GooglePlace
    THEN [google |-> at.row.place, display |-> at.row.place, kind |-> "BUSINESS", synced |-> TRUE]
    ELSE [now EXCEPT
            !.display = IF OsmMayDisplay(at) THEN at.row.place ELSE @,
            !.kind = IF OsmMayDisplay(at) /\ at.seen.kind = "UNKNOWN"
                        /\ canonical.kind # "UNKNOWN"
                     THEN canonical.kind ELSE @]

Writes(at) ==
    LET p == at.row.place
        f == at.to.target
        canonical == Normalize(p, at.row.content)
    IN  IF at.to.how = "create"
        THEN [fac EXCEPT ![f] = CreateFacility(p, canonical)]
        ELSE [fac EXCEPT ![f] = MergeFacility(@, at, canonical)]

\* (source, sourceRef) and googlePlaceId are unique, and only an ACTIVE row is updated.
Refused(at) ==
    LET p == at.row.place
        f == at.to.target
    IN  \/ at.to.how = "create" /\ fac[f] # None
        \/ at.to.how = "merge" /\ f \in archived
        \/ /\ at.to.how # "duplicate" /\ p \in GooglePlace
           /\ \E g \in Place \ {f} : fac[g] # None /\ fac[g].google = p

\* Whatever throws, a refusal included, rejects the row.
WriteRow(d) ==
    /\ drain[d].st = "write"
    /\ LET at == drain[d].at
           p == at.row.place
       IN  \/ /\ at.to.how = "duplicate"
              /\ raw' = Marked(p, "DUPLICATE")
              /\ UNCHANGED catalogue
           \/ /\ at.to.how # "duplicate" /\ ~Refused(at)
              /\ fac' = Writes(at)
              /\ raced' = Races(at) /\ doubled' = Doubles(at) /\ inherited' = Heals(at)
              /\ UNCHANGED archived
              /\ raw' = Marked(p, "PROCESSED")
           \/ /\ Refused(at)
              /\ raw' = Marked(p, "REJECTED")
              /\ UNCHANGED catalogue
    /\ drain' = Rest(d, drain[d].rows)
    /\ UNCHANGED <<pipeline, world, sweep, refresh, events>>

PromotionFails(d) ==
    /\ drain[d].st = "write"
    /\ Event
    /\ raw' = Marked(drain[d].at.row.place, "REJECTED")
    /\ drain' = Rest(d, drain[d].rows)
    /\ UNCHANGED <<pipeline, world, catalogue, sweep, refresh>>

\* reclassifyUnknown, on the promote queue: the unknown facilities of OSM are read, those
\* with a Google id too, then each takes the kind its raw tags have by now.  The update of
\* one archived since throws, and the job, tried once, is gone.
UnknownOsm == {f \in OsmPlace \ archived : fac[f] # None /\ fac[f].kind = "UNKNOWN"}
Reclassifying(fs) ==
    [drain EXCEPT !["promote"] = [NoDrain EXCEPT !.st = IF fs = {} THEN "off" ELSE "kinds", !.rows = fs]]

EnqueueReclassify ==
    /\ drain["promote"].st = "off"
    /\ Event
    /\ drain' = Reclassifying(UnknownOsm)
    /\ UNCHANGED <<pipeline, world, raw, catalogue, sweep, refresh>>

Reclassify ==
    /\ drain["promote"].st = "kinds"
    /\ \E f \in drain["promote"].rows :
        LET kind == ClassifyOsm(raw[f].content)
            fails == kind # "UNKNOWN" /\ f \in archived
        IN  /\ drain' = Reclassifying(IF fails THEN {} ELSE drain["promote"].rows \ {f})
            /\ IF kind = "UNKNOWN" \/ fails
               THEN UNCHANGED catalogue
               ELSE /\ fac' = [fac EXCEPT ![f].kind = kind]
                    /\ raced' = IF fac[f].kind = "UNKNOWN" THEN raced ELSE raced \cup {LotOf[f]}
                    /\ UNCHANGED <<archived, doubled, inherited>>
    /\ UNCHANGED <<pipeline, world, raw, sweep, refresh, events>>

Promotion(d) == DrainPending(d) \/ PromoteRow(d) \/ WriteRow(d)

-----------------------------------------------------------------------------
\* The daily refresh of Google facilities.

Stale == {f \in Place \ archived : fac[f] # None /\ fac[f].google # None /\ ~fac[f].synced}

RefreshReads ==
    /\ refresh = None
    /\ \E f \in Stale : refresh' = [facility |-> f, google |-> fac[f].google]
    /\ UNCHANGED <<pipeline, world, raw, catalogue, sweep, drain, events>>

\* The place is gone from Google: only the stamp moves.
RefreshFindsNothing ==
    /\ refresh # None /\ refresh.facility \notin archived
    /\ fac' = [fac EXCEPT ![refresh.facility].synced = TRUE]
    /\ refresh' = None
    /\ UNCHANGED <<pipeline, world, raw, archived, raced, doubled, inherited, sweep, drain, events>>

RefreshOne ==
    /\ refresh # None /\ refresh.facility \notin archived
    /\ fac' = [fac EXCEPT ![refresh.facility].display = refresh.google,
                          ![refresh.facility].kind = "BUSINESS",
                          ![refresh.facility].synced = TRUE]
    /\ raced' = IF fac[refresh.facility].google = refresh.google THEN raced
                ELSE raced \cup {LotOf[refresh.facility]}
    /\ inherited' = inherited \ {refresh.facility}
    /\ refresh' = None
    /\ UNCHANGED <<pipeline, world, raw, archived, doubled, sweep, drain, events>>

\* Archived since it was read: the update throws, and the run ends.
RefreshFails ==
    /\ refresh # None /\ refresh.facility \in archived
    /\ refresh' = None
    /\ UNCHANGED <<pipeline, world, raw, catalogue, sweep, drain, events>>

-----------------------------------------------------------------------------
\* The world.

Changes ==
    /\ Event
    /\ \E p \in Place : \E c \in Content(p) \ {world[p]} : world' = [world EXCEPT ![p] = c]
    /\ UNCHANGED <<pipeline, raw, catalogue, sweep, drain, refresh>>

Ages ==
    /\ Event
    /\ \E f \in Place : fac[f] # None /\ fac[f].synced
                        /\ fac' = [fac EXCEPT ![f].synced = FALSE]
    /\ UNCHANGED <<pipeline, world, raw, archived, raced, doubled, inherited, sweep, drain, refresh>>

\* An administrator archives an imported facility, and may restore it (Lifecycle).
Archive(f) ==
    /\ Event
    /\ fac[f] # None /\ f \notin archived
    /\ archived' = archived \cup {f}
    /\ UNCHANGED <<pipeline, world, raw, fac, raced, doubled, inherited, sweep, drain, refresh>>
Restore(f) ==
    /\ Event
    /\ f \in archived
    /\ archived' = archived \ {f}
    /\ UNCHANGED <<pipeline, world, raw, fac, raced, doubled, inherited, sweep, drain, refresh>>

\* The process dies: the queues hand its stalled jobs out again from their start.
Crash ==
    /\ Event
    /\ job' = [t \in Tile |->
                IF job[t].st \in {"run", "done"}
                THEN [job[t] EXCEPT !.st = "wait", !.found = {}, !.left = {}] ELSE job[t]]
    /\ queue' = [src \in DOMAIN queue |->
                    SetToSeq({t \in Tile : t.source = src /\ job[t].st \in {"run", "done"}}) \o queue[src]]
    /\ sweep' = IF sweep.st = "idle" THEN NoSweep
                ELSE [sweep EXCEPT !.st = "enqueue", !.late = FALSE,
                        !.todo = UNION {OsmTiles(r) \cup GoogleTiles(r) : r \in sweep.regions}]
    /\ drain' = [d \in Drainer |->
                    IF d = "promote" /\ drain[d].st # "off"
                    THEN [NoDrain EXCEPT !.st = "read"] ELSE NoDrain]
    /\ refresh' = None
    /\ UNCHANGED <<tile, world, raw, catalogue>>

-----------------------------------------------------------------------------
SweepStep ==
    \/ SweepEnqueues
    \/ \E late \in BOOLEAN : SweepDrains(late)
    \/ Promotion("sweep")

IngestionNext ==
    \/ IngestRegion
    \/ \E t \in Tile : Worker(t) \/ FetchFails(t)
    \/ EnqueueSweep
    \/ SweepStep
    \/ SweepFails
    \/ EnqueuePromotion
    \/ Promotion("promote")
    \/ \E d \in Drainer : PromotionFails(d)
    \/ EnqueueReclassify
    \/ Reclassify
    \/ RefreshReads
    \/ RefreshFindsNothing
    \/ RefreshOne
    \/ RefreshFails
    \/ Changes
    \/ Ages
    \/ \E f \in Place : Archive(f) \/ Restore(f)
    \/ Crash

\* The workers take up the jobs their queues hold, and the sweep's clock runs.
IngestionSpec ==
    /\ IngestionInit /\ [][IngestionNext]_ingestionVars
    /\ WF_ingestionVars(SweepStep)
    /\ WF_ingestionVars(\E t \in Tile : Worker(t))

-----------------------------------------------------------------------------
IngestionTypeOK ==
    /\ queue \in [{"OSM", "GOOGLE"} -> Seq(Tile)]
    /\ tile \in [Tile -> TileStatus \cup {None}]
    /\ \A t \in Tile : job[t].st \in {"none", "wait", "run", "done"}
    /\ \A p \in Place : raw[p] = None \/ raw[p] \in RawPlace
    /\ fac \in [Place -> Facility \cup {None}]
    /\ archived \subseteq {f \in Place : fac[f] # None}
    /\ sweep.st \in {"idle", "enqueue", "wait", "drain"}
    /\ (sweep.st = "drain") <=> (drain["sweep"].st # "off")

\* A tile at the depth floor, which is not split any further, has more over it than
\* Google shows.
Crowded(p) ==
    \E t \in GoogleTree[MaxDepth] :
        p \in Within(t) /\ Cardinality(Within(t)) > MaxResults

\* A sweep that ends its wait before the ceiling promotes a whole region: every place of it
\* has landed, in whichever subtile it was found (sweep.processor.ts 61-64: the barrier "has
\* to track tiles that did not exist at enqueue time").  Set apart are a place over which a
\* fetch has failed, and one in a tile at the depth floor that has more than Google shows.
WholeRegionLanded ==
    [][sweep.st = "wait" /\ sweep'.st = "drain" /\ ~sweep'.late
        => \A p \in Place :
            (\E r \in sweep.regions : Holds(r, p))
            => \/ raw[p] # None
               \/ Crowded(p)
               \/ \E t \in Tile : p \in Within(t) /\ tile[t] = "FAILED"]_ingestionVars

\* Whatever order the sources arrive in, a facility that carries a Google id shows Google's
\* fields and is a business.  A lot is set apart when a writer's reading of it was overtaken
\* (mergeFacility, reclassifyUnknown and refreshOne read first and write later); and the kind
\* of a facility synced with Google before the classification existed, until Google is asked
\* again: it is of unknown kind, and reclassifyUnknown, which does not look for a Google id,
\* may give it OSM's.
GoogleWins ==
    \A f \in Place :
        fac[f] # None /\ fac[f].google # None /\ LotOf[f] \notin raced
        => fac[f].display = fac[f].google /\ (fac[f].kind = "BUSINESS" \/ f \in inherited)

\* One lot is one facility, archived or not: no second import of it, and none beside an
\* operator's own; unless two drains created it at once, or the duplicate that was found
\* was archived, which the second read does not return.
OneFacilityPerLot ==
    \A lot \in {LotOf[p] : p \in Place} \ (raced \cup doubled) :
        \A f, g \in FacilitiesOf(lot) : f = g /\ lot \notin OwnedLot

\* What lifecycle.extension.ts:96-97 says of the imports: an archived facility is matched
\* too, and no second one is created for its lot, unless two drains did so at once.  The
\* code breaks it: the second read does not return what was matched.
ArchivedNotDoubled ==
    \A lot \in {LotOf[p] : p \in Place} \ raced :
        \A f, g \in FacilitiesOf(lot) : f = g

\* A sweep ends, whatever became of its tiles: a row left PENDING without a job
\* holds it to the ceiling and no longer (sweep.processor.ts 75-81).
SweepEnds == (sweep.st # "idle") ~> (sweep.st = "idle")
=============================================================================
