---------------------------- MODULE Fabrication ----------------------------
(***************************************************************************)
(* The fabrication pipeline: the page handlers enqueue jobs (package       *)
(* http), the job queue goqite delivers them at least once, the workers of *)
(* the runner execute them (package jobs) and the tables keep what they    *)
(* fabricate (package sqlite).                                             *)
(*                                                                         *)
(* A fan-out job (generate-results, generate-ads) enqueues one item job    *)
(* (generate-result, generate-ad) for each missing position; an item job   *)
(* asks the language model for one row; a site job (generate-website,      *)
(* generate-ad-website) asks it for the document behind one row.           *)
(*                                                                         *)
(* Every call of a handler that another process could observe is a step of *)
(* its own. Every failure (a database, queue or model error, a failed      *)
(* acknowledgement, a timeout that passes while the handler still runs, a  *)
(* crash) takes one unit of the budget MaxFaults.                          *)
(***************************************************************************)
EXTENDS SearchModel, FiniteSets

CONSTANTS
    Visitors,       \* page requests in progress at the same time
    Workers,        \* slots of the runner (its Limit)
    MaxReceive,     \* deliveries of one message before goqite gives it up
    MaxVisits,      \* bound: page requests of a behaviour
    MaxFaults       \* bound: failures of a behaviour

ASSUME BoundsAssumption == /\ MaxReceive \in Nat
                           /\ MaxVisits \in Nat
                           /\ MaxFaults \in Nat

VARIABLES
    queries,        \* texts with a row in the table queries
    rows,           \* cell -> row of results or ads, or None
    sites,          \* cell -> row of websites or ad_websites, or None
    queue,          \* the messages in the table goqite
    nextId,         \* the id of the next message
    visitor,        \* visitor -> the job its handler is about to enqueue, or None
    worker,         \* worker -> the state of the handler it runs
    fannedOut,      \* history: <<kind, query>> of the acknowledged fan-out jobs
    visits,         \* page requests so far
    faults          \* failures so far

store == <<queries, rows, sites>>
vars == <<queries, rows, sites, queue, nextId, visitor, worker, fannedOut, visits, faults>>

-----------------------------------------------------------------------------
(* Jobs and messages *)

Stages == {"fan-out", "item", "site"}

Priority(stage) == CASE stage = "fan-out" -> 2
                     [] stage = "item"    -> 1
                     [] stage = "site"    -> 0

\* The payload of a fan-out job holds no position; 0 stands for it.
Jobs == [stage : Stages, kind : Kinds, query : Queries, position : Nat]

Job(stage, kind, query, position) ==
    [stage |-> stage, kind |-> kind, query |-> query, position |-> position]

CellOf(job) == <<job.kind, job.query, job.position>>

\* A received message is hidden until its timeout.
Messages == [id : Nat, job : Jobs, received : Nat, state : {"visible", "hidden"}]

Message(id, job, received, state) ==
    [id |-> id, job |-> job, received |-> received, state |-> state]

Phases == {"idle", "start", "fanOut", "llm", "insert", "done"}

\* A running handler: where it is, the id and the payload of its message, the
\* positions a fan-out still has to enqueue, the row a site job read, and the
\* answer of the language model.
Handler(at, id, job, todo, input, output) ==
    [at |-> at, id |-> id, job |-> job, todo |-> todo, input |-> input, output |-> output]

Idle == Handler("idle", 0, None, {}, None, None)

TypeOK ==
    /\ queries \subseteq Queries
    /\ rows \in [Cells -> Fabrics \cup {None}]
    /\ sites \in [Cells -> Websites \cup {None}]
    /\ queue \subseteq Messages
    /\ nextId \in Nat
    /\ visitor \in [Visitors -> Jobs \cup {None}]
    /\ worker \in [Workers -> [at : Phases, id : Nat, job : Jobs \cup {None},
                               todo : SUBSET Nat,
                               input : Fabrics \cup {None},
                               output : Fabrics \cup {None}]]
    /\ fannedOut \subseteq Kinds \X Queries
    /\ visits \in 0 .. MaxVisits
    /\ faults \in 0 .. MaxFaults

Init ==
    /\ queries = {}
    /\ rows = [c \in Cells |-> None]
    /\ sites = [c \in Cells |-> None]
    /\ queue = {}
    /\ nextId = 0
    /\ visitor = [v \in Visitors |-> None]
    /\ worker = [w \in Workers |-> Idle]
    /\ fannedOut = {}
    /\ visits = 0
    /\ faults = 0

Fault == /\ faults < MaxFaults
         /\ faults' = faults + 1

-----------------------------------------------------------------------------
(* The tables *)

Filled(kind, query) == {p \in Positions(kind) : rows[<<kind, query, p>>] # None}

\* Variant: the row is updated on conflict.
InsertRowLastWins(c, row) == rows' = [rows EXCEPT ![c] = row]

\* insert into results / ads ... on conflict (query_id, position) do nothing
InsertRow(c, row) ==
    rows' = IF rows[c] = None THEN [rows EXCEPT ![c] = row] ELSE rows

\* Variant: the website is updated on conflict.
InsertSiteLastWins(c, site) == sites' = [sites EXCEPT ![c] = site]

\* insert into websites / ad_websites ... on conflict do nothing
InsertSite(c, site) ==
    sites' = IF sites[c] = None THEN [sites EXCEPT ![c] = site] ELSE sites

-----------------------------------------------------------------------------
(* The queue *)

Create(job) ==
    /\ queue' = queue \cup {Message(nextId, job, 0, "visible")}
    /\ nextId' = nextId + 1

Receivable == {m \in queue : m.state = "visible" /\ m.received < MaxReceive}

Held(m) == \E w \in Workers : worker[w].at # "idle" /\ worker[w].id = m.id

-----------------------------------------------------------------------------
(* The page handlers, up to the jobs they enqueue. An error of an enqueue  *)
(* is logged and swallowed: the handler goes on.                           *)

EnqueueOrSwallow(job) == \/ Create(job) /\ UNCHANGED faults
                         \/ Fault /\ UNCHANGED <<queue, nextId>>

Visit(v) == /\ visitor[v] = None
            /\ visits < MaxVisits
            /\ visits' = visits + 1

Search(v, q) ==
    /\ Visit(v)
    /\ queries' = queries \cup {q}
    /\ visitor' = [visitor EXCEPT ![v] = Job("fan-out", "result", q, 0)]
    /\ UNCHANGED <<rows, sites, queue, nextId, worker, fannedOut, faults>>

EnqueueGenerateResults(v) ==
    /\ visitor[v] # None
    /\ visitor[v].stage = "fan-out" /\ visitor[v].kind = "result"
    /\ EnqueueOrSwallow(visitor[v])
    /\ visitor' = [visitor EXCEPT ![v] = Job("fan-out", "ad", visitor[v].query, 0)]
    /\ UNCHANGED <<store, worker, fannedOut, visits>>

EnqueueLast(v, stage, kind) ==
    /\ visitor[v] # None
    /\ visitor[v].stage = stage /\ visitor[v].kind = kind
    /\ EnqueueOrSwallow(visitor[v])
    /\ visitor' = [visitor EXCEPT ![v] = None]
    /\ UNCHANGED <<store, worker, fannedOut, visits>>

EnqueueGenerateAds(v) == EnqueueLast(v, "fan-out", "ad")

\* Variant: the row is not looked up first.
OpenSiteUnseen(v, c) ==
    /\ Visit(v)
    /\ sites[c] = None
    /\ visitor' = [visitor EXCEPT ![v] = Job("site", c[1], c[2], c[3])]
    /\ UNCHANGED <<store, queue, nextId, worker, fannedOut, faults>>

\* The row is there and its website is not: the handler will enqueue the job.
OpenSite(v, c) ==
    /\ Visit(v)
    /\ rows[c] # None
    /\ sites[c] = None
    /\ visitor' = [visitor EXCEPT ![v] = Job("site", c[1], c[2], c[3])]
    /\ UNCHANGED <<store, queue, nextId, worker, fannedOut, faults>>

HandleSite(v, c) == c[1] = "result" /\ OpenSite(v, c)

HandleAd(v, c) == c[1] = "ad" /\ OpenSite(v, c)

EnqueueGenerateWebsite(v) == EnqueueLast(v, "site", "result")

EnqueueGenerateAdWebsite(v) == EnqueueLast(v, "site", "ad")

-----------------------------------------------------------------------------
(* The runner *)

\* A visible message of the highest priority; which of those created in the
\* same millisecond comes first is open.
Receive(w) ==
    /\ worker[w].at = "idle"
    /\ \E m \in Receivable :
          /\ \A n \in Receivable : Priority(n.job.stage) <= Priority(m.job.stage)
          /\ queue' = (queue \ {m}) \cup {Message(m.id, m.job, m.received + 1, "hidden")}
          /\ worker' = [worker EXCEPT ![w] = Handler("start", m.id, m.job, {}, None, None)]
    /\ UNCHANGED <<store, nextId, visitor, fannedOut, visits, faults>>

Running(w, at, stage, kind) ==
    /\ worker[w].at = at
    /\ worker[w].job.stage = stage
    /\ worker[w].job.kind = kind

Continue(w, at, todo, input, output) ==
    /\ worker' = [worker EXCEPT ![w] =
          Handler(at, worker[w].id, worker[w].job, todo, input, output)]
    /\ UNCHANGED <<queries, visitor, fannedOut, visits, faults>>

\* Variants: the filled positions are ignored; the positions of the results are
\* read for the ads.
ReadPositionsOf(w, kind, todo) ==
    /\ Running(w, "start", "fan-out", kind)
    /\ Continue(w, "fanOut", todo, None, None)
    /\ UNCHANGED <<rows, sites, queue, nextId>>

ReadPositionsAll(w, kind) == ReadPositionsOf(w, kind, Positions(kind))

ReadPositionsOfResults(w, kind) ==
    ReadPositionsOf(w, kind, Positions(kind) \ Filled("result", worker[w].job.query))

\* Fan-out, first half: the query and the positions filled by now are read.
ReadPositions(w, kind) ==
    /\ Running(w, "start", "fan-out", kind)
    /\ worker[w].job.query \in queries
    /\ Continue(w, "fanOut", Positions(kind) \ Filled(kind, worker[w].job.query), None, None)
    /\ UNCHANGED <<rows, sites, queue, nextId>>

\* Fan-out, second half: one job after the other, in the order of positions.
CreateItem(w, kind) ==
    /\ Running(w, "fanOut", "fan-out", kind)
    /\ \E p \in worker[w].todo :
          /\ \A o \in worker[w].todo : p <= o
          /\ Create(Job("item", kind, worker[w].job.query, p))
          /\ Continue(w, "fanOut", worker[w].todo \ {p}, None, None)
    /\ UNCHANGED <<rows, sites>>

GenerateResults(w) == ReadPositions(w, "result") \/ CreateItem(w, "result")

GenerateAds(w) == ReadPositions(w, "ad") \/ CreateItem(w, "ad")

\* The answer of the language model arrives.
Fabricate(w, f) ==
    /\ Continue(w, "insert", {}, worker[w].input, f)
    /\ UNCHANGED <<rows, sites, queue, nextId>>

\* Variant: an error of the language model is logged and swallowed.
FabricateItemOrGiveUp(w, kind, f) ==
    /\ Running(w, "start", "item", kind)
    /\ \/ Fabricate(w, f)
       \/ Continue(w, "done", {}, None, None) /\ UNCHANGED <<rows, sites, queue, nextId>>

FabricateItem(w, kind, f) ==
    /\ Running(w, "start", "item", kind)
    /\ worker[w].job.query \in queries
    /\ Fabricate(w, f)

\* Variant: "insert or replace", whose deletion cascades to the website.
InsertItemReplacing(w, kind) ==
    /\ Running(w, "insert", "item", kind)
    /\ rows' = [rows EXCEPT ![CellOf(worker[w].job)] = worker[w].output]
    /\ sites' = [sites EXCEPT ![CellOf(worker[w].job)] = None]
    /\ Continue(w, "done", {}, None, None)
    /\ UNCHANGED <<queue, nextId>>

InsertItem(w, kind) ==
    /\ Running(w, "insert", "item", kind)
    /\ InsertRow(CellOf(worker[w].job), worker[w].output)
    /\ Continue(w, "done", {}, None, None)
    /\ UNCHANGED <<sites, queue, nextId>>

GenerateResult(w) == \/ \E f \in Fabrics : FabricateItem(w, "result", f)
                     \/ InsertItem(w, "result")

GenerateAd(w) == \/ \E f \in Fabrics : FabricateItem(w, "ad", f)
                 \/ InsertItem(w, "ad")

\* Variant: the row is not kept over the call.
ReadRowForgetting(w, kind) ==
    /\ Running(w, "start", "site", kind)
    /\ Continue(w, "llm", {}, None, None)
    /\ UNCHANGED <<rows, sites, queue, nextId>>

\* The row is read before the call of the language model and used after it.
ReadRow(w, kind) ==
    /\ Running(w, "start", "site", kind)
    /\ rows[CellOf(worker[w].job)] # None
    /\ worker[w].job.query \in queries
    /\ Continue(w, "llm", {}, rows[CellOf(worker[w].job)], None)
    /\ UNCHANGED <<rows, sites, queue, nextId>>

\* Variant: an error of the language model is logged and swallowed.
FabricateSiteOrGiveUp(w, kind, f) ==
    /\ Running(w, "llm", "site", kind)
    /\ \/ Fabricate(w, f)
       \/ Continue(w, "done", {}, None, None) /\ UNCHANGED <<rows, sites, queue, nextId>>

FabricateSite(w, kind, f) == Running(w, "llm", "site", kind) /\ Fabricate(w, f)

InsertWebsiteOf(w, kind) ==
    /\ Running(w, "insert", "site", kind)
    /\ InsertSite(CellOf(worker[w].job),
                  [of |-> worker[w].input, html |-> worker[w].output])
    /\ Continue(w, "done", {}, None, None)
    /\ UNCHANGED <<rows, queue, nextId>>

GenerateWebsite(w) == \/ ReadRow(w, "result")
                      \/ \E f \in Fabrics : FabricateSite(w, "result", f)
                      \/ InsertWebsiteOf(w, "result")

GenerateAdWebsite(w) == \/ ReadRow(w, "ad")
                        \/ \E f \in Fabrics : FabricateSite(w, "ad", f)
                        \/ InsertWebsiteOf(w, "ad")

\* Variant: an error of an enqueue ends the fan-out as if it were complete.
ReturnedEarly(w) == worker[w].at \in {"done", "fanOut"}

\* The handler returns nil.
Returned(w) == \/ worker[w].at = "done"
               \/ worker[w].at = "fanOut" /\ worker[w].todo = {}

\* The runner deletes the message, whoever else received it meanwhile.
Acknowledge(w) ==
    /\ Returned(w)
    /\ queue' = {m \in queue : m.id # worker[w].id}
    /\ worker' = [worker EXCEPT ![w] = Idle]
    /\ fannedOut' = IF worker[w].job.stage = "fan-out"
                    THEN fannedOut \cup {<<worker[w].job.kind, worker[w].job.query>>}
                    ELSE fannedOut
    /\ UNCHANGED <<store, nextId, visitor, visits, faults>>

\* The handler returns an error, or the deletion fails: the message stays and
\* comes back after its timeout.
Abandon(w) ==
    /\ worker[w].at # "idle"
    /\ Fault
    /\ worker' = [worker EXCEPT ![w] = Idle]
    /\ UNCHANGED <<store, queue, nextId, visitor, fannedOut, visits>>

\* The timeout of a delivery passes. The runner extends it while the handler
\* runs; that it passes all the same (a failed or late extension) is a fault.
Timeout(m) ==
    /\ m.state = "hidden"
    /\ queue' = (queue \ {m}) \cup {Message(m.id, m.job, m.received, "visible")}
    /\ IF Held(m) THEN Fault ELSE UNCHANGED faults
    /\ UNCHANGED <<store, nextId, visitor, worker, fannedOut, visits>>

\* The process stops and starts again: the tables survive, handlers do not.
Crash ==
    /\ Fault
    /\ visitor' = [v \in Visitors |-> None]
    /\ worker' = [w \in Workers |-> Idle]
    /\ UNCHANGED <<store, queue, nextId, fannedOut, visits>>

-----------------------------------------------------------------------------
VisitorStep(v) == \/ EnqueueGenerateResults(v)
                  \/ EnqueueGenerateAds(v)
                  \/ EnqueueGenerateWebsite(v)
                  \/ EnqueueGenerateAdWebsite(v)

WorkerStep(w) == \/ Receive(w)
                 \/ GenerateResults(w)
                 \/ GenerateResult(w)
                 \/ GenerateWebsite(w)
                 \/ GenerateAds(w)
                 \/ GenerateAd(w)
                 \/ GenerateAdWebsite(w)
                 \/ Acknowledge(w)

Next == \/ \E v \in Visitors :
              \/ \E q \in Queries : Search(v, q)
              \/ \E c \in Cells : HandleSite(v, c) \/ HandleAd(v, c)
              \/ VisitorStep(v)
        \/ \E w \in Workers : WorkerStep(w) \/ Abandon(w)
        \/ \E m \in queue : Timeout(m)
        \/ Crash

Spec == Init /\ [][Next]_vars

(* The goroutines of the process are scheduled (handlers finish, the runner *)
(* keeps receiving) and time passes. No visitor has to come, and nothing    *)
(* has to fail.                                                             *)
Fairness ==
    /\ \A v \in Visitors : WF_vars(VisitorStep(v))
    /\ \A w \in Workers : WF_vars(WorkerStep(w))
    /\ WF_vars(\E m \in queue : ~Held(m) /\ Timeout(m))

FairSpec == Spec /\ Fairness

-----------------------------------------------------------------------------
(* Properties *)

\* First write wins: a row, once stored, never changes and never disappears,
\* and neither does a website (InsertResult, InsertAd, InsertWebsite and
\* InsertAdWebsite), however many jobs for it run concurrently or again.
FirstWriteWins ==
    [][\A c \in Cells : /\ rows[c] # None => rows'[c] = rows[c]
                        /\ sites[c] # None => sites'[c] = sites[c]]_vars

\* The website behind a link was fabricated from the row the link shows
\* (GenerateWebsite and GenerateAdWebsite read the row minutes before they
\* insert, other jobs insert meanwhile).
SitesMatchRows ==
    \A c \in Cells : sites[c] # None => sites[c].of = rows[c]

Covered(kind, query, p) ==
    \/ rows[<<kind, query, p>>] # None
    \/ \E m \in queue : m.job = Job("item", kind, query, p)

\* Once a fan-out job is acknowledged no position of its query is forgotten:
\* each has its row, or a message that stands for it (which goqite may have
\* given up: see Fabricated for what makes up for that), even if the fan-out
\* ran several times, stopped midway or read positions that were filled later.
NoPositionForgotten ==
    \A kind \in Kinds, query \in Queries :
        <<kind, query>> \in fannedOut =>
            \A p \in Positions(kind) : Covered(kind, query, p)

Grounded(job) ==
    /\ job.query \in queries
    /\ job.stage # "fan-out" => CellOf(job) \in Cells
    /\ job.stage = "site" => rows[CellOf(job)] # None

\* Every job, queued or running, refers to a stored query, a position the
\* table accepts and, for a website, a stored row: no handler can meet
\* ErrorQueryNotFound, ErrorResultNotFound or a failing foreign key or check.
GroundedJobs ==
    /\ \A m \in queue : Grounded(m.job)
    /\ \A w \in Workers : worker[w].at # "idle" => Grounded(worker[w].job)

AllFilled(kind, query) == Filled(kind, query) = Positions(kind)

Settled(kind, query) ==
    /\ AllFilled(kind, query)
    /\ \A m \in queue : ~(m.job.stage = "item" /\ m.job.kind = kind /\ m.job.query = query)
    /\ \A w \in Workers : worker[w].at = "fanOut" =>
          ~(/\ worker[w].job.kind = kind
            /\ worker[w].job.query = query
            /\ worker[w].todo # {})

\* "Cheap and idempotent: safe to re-enqueue on every page load": once all
\* positions of a query are filled and its item jobs are gone, no page load,
\* retry or redelivery ever makes the language model work for them again.
SettledStaysSettled ==
    [][\A kind \in Kinds, query \in Queries :
          Settled(kind, query) => Settled(kind, query)']_vars

\* The pipeline implements the catalogue its readers rely on.
Promise == INSTANCE Catalogue
ImplementsCatalogue == Promise!CatalogueSpec

\* A fan-out job not delivered yet, when fewer failures are left than
\* deliveries.
FreshFanOut(kind, query) ==
    \E m \in queue : /\ m.job = Job("fan-out", kind, query, 0)
                     /\ m.received = 0
                     /\ MaxFaults - faults < MaxReceive

\* A page load fills the page in the end: after its fan-out job is enqueued
\* every position gets its row, provided no message can use up all its
\* deliveries from here on; earlier jobs may well have been given up.
Fabricated ==
    \A kind \in Kinds, query \in Queries :
        FreshFanOut(kind, query) ~> AllFilled(kind, query)

\* A website job not delivered yet, when fewer failures are left than deliveries.
FreshSiteJob(c) ==
    \E m \in queue : /\ m.job.stage = "site" /\ CellOf(m.job) = c
                     /\ m.received = 0
                     /\ MaxFaults - faults < MaxReceive

\* Website jobs have the lowest priority, behind the fan-outs and items of every
\* page load, and all compete for the same slots; once the page loads cease (as
\* they do at MaxVisits) a website asked for is written all the same.
SitesFabricated == \A c \in Cells : FreshSiteJob(c) ~> sites[c] # None
-----------------------------------------------------------------------------
(* The inductive invariant behind the safety properties *)

\* A worker knows its message by the id alone; the queue never gives an id a
\* second meaning.
IdsMeanJobs ==
    /\ \A m \in queue : m.id < nextId
    /\ \A m, n \in queue : m.id = n.id => m.job = n.job
    /\ \A w \in Workers : worker[w].at # "idle" => worker[w].id < nextId
    /\ \A w \in Workers : \A m \in queue :
          worker[w].at # "idle" /\ m.id = worker[w].id => m.job = worker[w].job

\* What a handler has in its hands in each phase.
PhasesFit ==
    \A w \in Workers :
        /\ worker[w].at # "idle" => worker[w].job \in Jobs
        /\ worker[w].at = "fanOut" => /\ worker[w].job.stage = "fan-out"
                                      /\ worker[w].todo \subseteq Positions(worker[w].job.kind)
        /\ worker[w].at = "llm" => worker[w].job.stage = "site" /\ worker[w].input \in Fabrics
        /\ worker[w].at = "insert" => worker[w].output \in Fabrics
        /\ worker[w].at = "insert" /\ worker[w].job.stage = "site" => worker[w].input \in Fabrics
        /\ worker[w].at = "done" => worker[w].job.stage # "fan-out"

VisitorsGrounded == \A v \in Visitors : visitor[v] # None => Grounded(visitor[v])

\* The foreign key of results and ads.
RowsGrounded == \A c \in Cells : rows[c] # None => c[2] \in queries

\* A running fan-out has dealt with every position it will not come to.
FanOutCovers ==
    \A w \in Workers : worker[w].at = "fanOut" =>
        \A p \in Positions(worker[w].job.kind) \ worker[w].todo :
            Covered(worker[w].job.kind, worker[w].job.query, p)

DoneIsStored ==
    \A w \in Workers : worker[w].at = "done" /\ worker[w].job.stage = "item"
                           => rows[CellOf(worker[w].job)] # None

\* The row a site job read before it asked the language model is the row
\* stored now.
SnapshotsCurrent ==
    \A w \in Workers : worker[w].at \in {"llm", "insert"} /\ worker[w].job.stage = "site"
                           => worker[w].input = rows[CellOf(worker[w].job)]

IInv == /\ IdsMeanJobs
        /\ PhasesFit
        /\ GroundedJobs
        /\ RowsGrounded
        /\ VisitorsGrounded
        /\ FanOutCovers
        /\ DoneIsStored
        /\ SnapshotsCurrent
        /\ NoPositionForgotten
        /\ SitesMatchRows
=============================================================================
