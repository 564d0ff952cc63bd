# hallucinationsearch, formally

TLA+ models of the search engine that makes everything up: a visitor searches, jobs ask a
language model for each of ten results and three ads, the results page fills up while the
visitor watches, and the page behind each card is fabricated when somebody opens it.
The modules are translated from the Go code; `PROJECT.json` maps every definition to its
lines.

## The system

| component | state it keeps | operations | works with |
|---|---|---|---|
| `jobs` | none of its own between messages; a running handler holds what it has read | `GenerateResults`, `GenerateAds` (fan-out), `GenerateResult`, `GenerateAd` (one row), `GenerateWebsite`, `GenerateAdWebsite` (one document) | reads and writes `sqlite`, enqueues on the queue, calls `llm` |
| `sqlite` | tables `queries`, `results`, `ads`, `websites`, `ad_websites` | upsert, inserts `on conflict do nothing`, lookups by id, text and query | used by `jobs` and `http` |
| queue and runner (goqite, glue; external) | table `goqite`: body, priority, times received, timeout | create, receive, extend, delete; eight slots | calls `jobs` |
| `http`: search page | none | upsert the query, enqueue two fan-outs, render what is stored | queue, `sqlite`, `html` |
| `http`: event stream | per stream: the positions already sent | poll the two tables, patch signals, end when complete or after a minute | `sqlite`, the script (Datastar) of the page in the browser |
| `http`: site and ad page | none | look up row and website, enqueue, poll for two minutes | queue, `sqlite`; browsers keep answers for a day |
| `http`: images | none | path to prompt, look up, generate, store, serve | `llm`; browsers keep answers for a year |
| `llm`: image store | files on disk | `Get`, `Put` (temporary file and rename) | used by images |
| `llm`: client | none | one call per row, document or image; put the answer together, decode or refuse it | used by `jobs` and images |
| `model`: query text | none | `NormalizeQuery` | `http` |
| `html`: results page | none | a card twice over: markup and initial signals | `http` |
| `cmd/app`, `service` | none | one process: server, runner, database, queue | all |

Nothing is coordinated in memory. The parts meet in the tables, the queue and the file
system, and correctness rests on three idioms: *first write wins* (unique keys with
`on conflict do nothing`), *at-least-once jobs that look before they work*, and *write
beside, then rename*. The hard behaviour follows from that:

* a fan-out that stops midway is delivered again; a message whose timeout passes is run by
  two workers; a crash between an insert and the acknowledgement runs the model again;
* a message that fails as often as goqite delivers it is silently given up;
* handlers use what they read minutes earlier (positions, rows) while others write;
* pages, streams and polls read while the pipeline writes, and give up after a deadline
  that may pass between two of their own steps;
* connections break, and the script of the page opens streams anew;
* files are written by several requests and by a process that may stop;
* the same text is converted in several places (the raw query by the page and the stream,
  the slug by `http` and `html`, a card by the server and the script) and must come out
  the same.

What makes each component correct:

* **jobs, queue, sqlite**: no position of a query is forgotten once its fan-out is
  acknowledged; rows and websites never change; a website belongs to the row its card
  shows; every job refers to things that exist; a filled query causes no more work; a page
  load fills its page in the end; an id leads to one row for good.
* **event stream**: a card shows a stored row, never changes or vanishes; what is marked as
  sent is on the page; the stream ends by itself only on a complete page; what is stored
  appears.
* **site page**: all visitors of a link see the same document; 500 only for a failed
  lookup, never for a poll that ends;
  every request is answered; who waits is served by whosever job.
* **the whole**: what a card shows is what is behind its link, across crashes; the website
  that a visitor waits for is made.
* **images**: only whole images are served or stored; nothing is left on disk without a
  cause; a stored image stays; every request is answered.
* **texts**: queries of equal words meet; a link leads back to its row; a prompt has one
  file; an answer becomes a card with all its texts or none.

## The modules

| module | what it is |
|---|---|
| `SearchModel` | queries, positions, cells (the unique keys of rows), websites; the constants and their assumptions |
| `Catalogue` | the abstract specification: each cell is filled once, then its website once, from that row |
| `Tables` | the statements and lookups of package `sqlite` with random ids and foreign keys; implements `Catalogue` |
| `Fabrication` | the pipeline: page handlers up to their enqueues, queue, runner, six job handlers; implements `Catalogue` |
| `EventStream` | results pages and `/events` streams over a catalogue that fills |
| `SitePage` | `/site/{slug}` and `/ad/{slug}` over a catalogue whose websites are filled by jobs |
| `SearchEngine` | the three together, over one set of tables and one queue: a page is loaded, its stream runs, a card is opened and waited for, while jobs run, fail and are delivered again and the process restarts |
| `ImageCache` | `/image/*` and the image store, with disk failures and crashes |
| `QueryText` | `NormalizeQuery`, `strings.TrimSpace`, `ToLower` on sequences of characters |
| `Links` | `titleToSlug`, `siteSlug` (in `http` and its copy in `html`), `extractResultID`, `extractAdID` |
| `ImagePrompt` | `imagePathToPrompt` with the decoding that precedes it |
| `Answers` | what package `llm` makes of an answer that arrives in parts: collecting, `stripHTMLFences`, decoding, checks |
| `Cards` | the cards of the results page: markup, initial signals, patches |
| `Texts` | the five pure modules on every short input, with the properties they must have |
| `FabricationProofs`, `StreamProofs`, `SiteProofs`, `TablesProofs`, `ImageProofs`, `EngineProofs`, `TextProofs` | the theorems |
| `InductionLemmas` | induction over numbers and recursive functions, as `TextProofs` needs it |
| `MCFabrication`, `MCEventStream`, `MCSitePage`, `MCImageCache`, `MCSearchEngine`, `MCTables`, `MCTexts` | instances and symmetry sets for TLC |

Refinements tie the modules together:

    Tables ──implements──▶ Catalogue ◀──implements── Fabrication
                               ▲                          ▲
                  extend: EventStream, SitePage           │ extends
                               ▲                          │
                               └──implements── SearchEngine

How the models correspond to the code:

* A **cell** `<<kind, query, position>>` stands for the id of a row. `Tables` keeps the ids
  and shows that the two name the same row: rows are never deleted, and the keys and
  references of the migrations hold. Everywhere else the cell is used. The content of a
  row is one model value of `Fabrics`; two values are two answers of the model.
* A **job** is `[stage, kind, query, position]`. The pairs `GenerateResults`/`GenerateAds`,
  and so on, are the same code with other tables, and share an action with a `kind`. A
  website job holds the id of its row, hence the row's cell.
* A **worker** is one slot of the runner. A handler is cut at each call that others can
  observe: a fan-out reads once and enqueues one item per step; an item job asks the model,
  then inserts; a site job reads the row, asks, inserts. The queries a handler reads are
  never changed, so `GetQuery` and the call of the model are one step. `Acknowledge` is the
  runner's deletion, by id, whoever else has received the message meanwhile. A handler
  that returns an error, at whatever step, is `Abandon`: no handler undoes anything.
* A **page request** in `Fabrication` is what it writes: the upsert (`Search`) and then one
  enqueue per step. In `SearchEngine` the same visitor reads the rows next, as a page of
  `EventStream`; `searched` is the query between the two. A request for a website is a
  visitor of `Fabrication` while it enqueues its job.
* `fannedOut` in `Fabrication`, `failed` in `SitePage` and `litter` in `ImageCache` are
  history: no guard reads them.
* `EventStream` has one step for each read of a table, one for the write of a patch and one
  for each turn of `select`. `PushFails` is any error inside a push. `ConnectionLost` is the
  broken connection and the hidden tab alike; the vendored script
  (`public/scripts/datastar.js`) then opens a stream whose handler has nothing marked as
  sent (`Reconnect`), not after a stream that ended by itself. `Leave` also covers a reload.
* `SitePage` keeps the context of the poll (`expired`) apart from the place of the handler,
  so that it can end between the tick and the lookup, and lets the ticker win against the
  deadline as `select` may. A visitor may also leave before the poll (`Leave`): the first
  two lookups then fail with the context of the request and the answer is a 500 nobody
  reads (`LookInVain`), while the enqueue fails and is logged and the poll ends at once with
  a 502. A website job there is a member of the set `jobs`; in
  `SearchEngine` that set is computed from the queue and the workers (`SiteJobs`).
* `ImageCache`: `tmp` is the file under the request's own random name, partial until its
  writing is complete. Failing directories, writes, renames and removals and crashes each
  take one unit of `MaxTrouble`. The crash is that of the process: what was written is
  there afterwards.
* **Texts** are sequences of characters in `QueryText`, `Links` and `ImagePrompt`, because
  the properties are about cuts, spaces, dashes and escapes; the cuts are constants
  (`SlugBytes`, `IdDigits`, `PathBytes`). A slug is ASCII by the time it is cut; the
  characters of a path are taken to be one byte each.
  An answer in `Answers` is a sequence of kinds of parts (fence, JSON object, document,
  prose, thought, error), not of characters. A loop over a text (`for _, r := range q`) is a
  recursive function that has at `n` what is written after `n` characters (`Collapsing`,
  `Squeezing`, `Writing`); its body is an operator of its own (`PutCharacter`, `PutOrMark`,
  `PutText`).

## The runs

| run | properties | shows |
|---|---|---|
| `FabricationRetries` | `IInv`, `NoPositionForgotten`, `SettledStaysSettled`, `Fabricated` | two positions, two workers, a failure: retries and double delivery forget nothing and redo nothing, and the second delivery makes up for the failure |
| `FabricationWebsites` | `TypeOK`, `SitesMatchRows`, `GroundedJobs`, `FirstWriteWins`, `ImplementsCatalogue` | racing jobs with different answers for a row and its website |
| `FabricationReloads` | `Fabricated`, `SitesFabricated` | results and ads with a single delivery: a failure loses a message for good; the next page load makes up for it |
| `EventStream` | `TypeOK`, `CardsAreRows`, `MarkedIsShown`, `CompleteMeansComplete`, `CardsStay`, `FilledCardsAppear` | a page while three cells fill, with streams that break and open again |
| `SitePage` | `TypeOK`, `BrowsersAgree`, `NoMisleading500`, `Answered`, `WaitersServed` | two requests, racing jobs, deadlines, visitors who leave, database errors: everybody gets an answer, and waiting is worth it |
| `ImageCache` | `TypeOK`, `OnlyWholeImages`, `NoLitterWithoutCause`, `StoredImageStays`, `Answered` | two requests for one image, two failures or crashes; temporary files of a crash block nobody |
| `SearchEngine` | `CardsKeepTheirWord`, `PartsAsSpecified`, `WebsiteArrives` | the parts over the real queue behave as they do alone, and the website behind a card is made, from the row on the card |
| `Tables` | `SchemaHolds`, `AnswersStay`, `TablesImplementCatalogue` | two texts, three positions, two ids in each table, reused across tables |
| `Texts` | `QueriesMeet`, `LinksLeadBack`, `PromptsMeet`, `CardsAgree` | every query, title, path and answer up to the bounds |
| `ImageCachePNG` | `AlwaysServedAsPNG` (violated) | a JPEG is served as a JPEG |
| `ImagePathTwice` | `PathsDecodedOnce` (violated) | the path `%25` is decoded twice |
| `AnswerFences` | `FencesRemoved` (violated) | an opening fence without its end stays in the document |

**Bounds.** Two workers are enough for every race of a message with itself, and two
requests for every race of a website or a file, because all writes are idempotent per cell:
a third actor repeats the second. Two positions distinguish "done with some" from "done
with all"; one result and one ad keep the kinds apart. `MaxReceive = 2` with a failure
reaches the second delivery, `MaxReceive = 1` a message that is given up; goqite's own
limit is a constant, and the theorems hold for all its values. Pages share nothing but the
catalogue, which is free to fill in any order, so that one page of `EventStream` meets
everything; `SearchEngine` has one page, one request and one worker with two deliveries, a
failure or crash and two page loads, because liveness over the whole rules out symmetry and
the theorems cover the rest. `MaxVisits` and `MaxFaults` are guards of `Visit` and `Fault`,
`MaxTrouble` of `Trouble`; `VisitsLeft` in `SearchEngine` keeps a visit for each request
that may need one, so that no request is stuck by the bound. `Texts` has titles longer than
`SlugBytes = 3` and paths longer than `PathBytes = 4`, so that every cut happens, inside a
word and next to a dash, and answers of four parts: a fence, its tag, a document and the
end. The letters include each kind of character the code tells apart. Deadlock is not
checked: with no visitors and an empty queue all these systems rest, tables with no unused
id are full, and inputs stop growing.

**Fairness.** `Fabrication` assumes weak fairness for each page handler, each worker and the
timeout of messages nobody holds: goroutines are scheduled, time passes, the runner keeps
polling. It never assumes that a visitor comes, that a failure happens, or that the model
gives a particular answer. That the model answers, errors or times out eventually is its
own 60 second or 3 minute budget; an error is a fault, and faults are bounded, which is the
real assumption of `Fabricated` and `WebsiteArrives`: fewer failures are left than the fresh
message has deliveries. `EventStream` assumes only that a running handler goes on;
`SitePage` in addition that the two minutes pass; neither assumes that the database works,
that a job is done, that a tick wins over a deadline or that a visitor leaves. `SearchEngine` has the fairness of
its parts without the deadline: there a request must be served, not given up. `WF` of the
whole handler, not of each of its alternatives, leaves the choice of `select` open.

## What is proved

The theorems hold for every number of queries, positions, workers, visitors, pages,
requests, deliveries, page loads, ids and failures, and those about texts for inputs of
every length over every set of letters, with every place to cut. They rest on the
assumptions in the modules alone: the numbers are naturals, `None` is no cell, row or
document (`NoneAssumption`, `NoRowAssumption`, `ContentsAssumption`), the visitors of
`SearchEngine` are its pages and its requests (`EngineAssumption`), `Refused`, which stands
for the `false` of `imagePathToPrompt`, is no text (`RefusedAssumption`), and a decoded
object has the fields of the Go struct, empty ones where JSON has none
(`AnswersAssumption`). What texts are made of is as in the model: two kinds of white
space, five letters with an upper case, three hexadecimal digits behind a percent sign; any
other letter is one that the conversions leave alone.

| module | theorem | says |
|---|---|---|
| `FabricationProofs` | `TypeCorrect` | `Spec => []TypeOK` |
| | `InvariantHolds` | `Spec => []IInv` |
| | `NothingForgotten` | `Spec => []NoPositionForgotten` |
| | `JobsAreGrounded` | `Spec => []GroundedJobs` |
| | `SitesFromTheirRows` | `Spec => []SitesMatchRows` |
| | `WrittenOnce` | `Spec => FirstWriteWins` |
| | `SettlesForGood` | `Spec => SettledStaysSettled` |
| | `Implementation` | `Spec => ImplementsCatalogue` |
| `StreamProofs` | `TypeCorrect` | `Spec => []TypeOK` |
| | `CardsShowRows` | `Spec => []CardsAreRows` |
| | `MarkedCardsShown` | `Spec => []MarkedIsShown` |
| | `NothingMissing` | `Spec => []CompleteMeansComplete` |
| | `CardsKeep` | `Spec => CardsStay` |
| `SiteProofs` | `TypeCorrect` | `Spec => []TypeOK` |
| | `BrowsersKeepAgreeing` | `Spec => []BrowsersAgree` |
| | `ErrorsAreErrors` | `Spec => []NoMisleading500` |
| `ImageProofs` | `TypeCorrect` | `Spec => []TypeOK` |
| | `ImagesAreWhole` | `Spec => []OnlyWholeImages` |
| | `LitterHasCause` | `Spec => []NoLitterWithoutCause` |
| | `StoredForGood` | `Spec => StoredImageStays` |
| `TablesProofs` | `SchemaAlwaysHolds` | `TablesSpec => []SchemaHolds` |
| | `AnswersKeep` | `TablesSpec => AnswersStay` |
| | `TablesRefine` | `TablesSpec => TablesImplementCatalogue` |
| `EngineProofs` | `PartsFit` | `EngineSpec => PartsAsSpecified` |
| | `CardsKeepWord` | `EngineSpec => []CardsKeepTheirWord` |
| | `EngineImplements` | `EngineSpec => ImplementsCatalogue` |
| | `EngineForgetsNothing` | `EngineSpec => [](NoPositionForgotten /\ GroundedJobs)` |
| | `EngineSettles` | `EngineSpec => SettledStaysSettled` |
| | `PagesAreComplete` | `EngineSpec => [](Page!MarkedIsShown /\ Page!CompleteMeansComplete)` |
| | `EngineCardsStay` | `EngineSpec => Page!CardsStay` |
| | `RequestsAreHonest` | `EngineSpec => [](Site!BrowsersAgree /\ Site!NoMisleading500)` |
| `TextProofs` | `QueriesAlwaysMeet` | `TextsSpec => []QueriesMeet` |
| | `LinksAlwaysLeadBack` | `TextsSpec => []LinksLeadBack` |
| | `PromptsAlwaysMeet` | `TextsSpec => []PromptsMeet` |
| | `CardsAlwaysAgree` | `TextsSpec => []CardsAgree` |
| | `DecodedOnceUnlessEscapedTwice` | `TextsSpec => [](PlainlyEscaped => PathsDecodedOnce)` |

**The pipeline.** None of its safety properties is inductive. `IInv` adds why they hold:

* a worker knows its message only by id, so ids must keep their meaning (`IdsMeanJobs`):
  otherwise an acknowledgement could delete the message of another job;
* a running fan-out has covered every position it will not come to (`FanOutCovers`), by a
  row or by a message, so that its acknowledgement forgets nothing; a finished item job has
  its row (`DoneIsStored`), so that deleting its message, and every duplicate of it,
  uncovers nothing;
* a site job holds the row that is still stored (`SnapshotsCurrent`), because rows are
  written once;
* jobs in the hands of page handlers refer to existing things as well
  (`VisitorsGrounded`), rows have their query (`RowsGrounded`), and each phase of a handler
  has the data it needs (`PhasesFit`).

`NextCases` splits a step into its actions. A few lemmas say what a step can do to each part
of the state (`StoreStep`, `QueueStep`, `MessagesStay`, `HandlersStep`), and each conjunct
of `IInv` is preserved by an argument over those rather than over all actions.
`CoveredStays` is the heart: a covered position loses its message only when a worker
acknowledges an item job for it, and then its row is stored. `Invariance` combines the
conjuncts. `FabricationRetries` checks `IInv` itself.

**The page and its stream.** `StreamInv`: what a handler has read is stored, however long
ago (`ReadsAreRows`), because rows are written once; nothing is on a page before it is
rendered and nothing is marked before a stream's first push (`PagesStartEmpty`,
`StreamsStartUnmarked`); what is marked but not shown is in the patch about to be written
(`MarkedIsWritten`); a complete stream has marked every cell (`CompleteMeansMarked`).

**Requests.** `SiteInv`: a handler past the lookup of its row knows its link
(`LinksKnown`); browsers agree because the website they were served is stored and is
written once; a 500 needs a lookup that failed in the database, or before the poll without its visitor,
because an expired context is told apart in the poll.

**Images.** `ImageInv` says of each place in the handler what its temporary file, its
answer and the store may be (`HandlerKnows`): a file is whole before it is renamed. A
request that has not missed yet cannot replace a stored image, which is why it stays.

**Tables.** `SchemaHolds` is inductive. It makes `TheRow`, the `CHOOSE` behind every lookup,
unambiguous: there is one row at a cell (`OneRow`). Each statement then fills one cell of
the catalogue (`InsertItemFills`, `InsertSiteFills`) or none (`UpsertStutters`).

**The whole.** `EngineInv` is the pipeline's invariant and what requests know of their
links. A step of the engine is one of the pipeline or a failure elsewhere (`PipelineMoves`).
What a page sees of it is a step of its own or a row that appears (`PageStep`, by
`CatalogueStep` of `FabricationProofs`); what a request sees is a step of its own, a website
written under a job, or a job that goes (`SiteStep`): a running handler or a message stands
for a website job, so a message that times out or is received again adds none. Hence
`PartsFit`: what `EventStream` and `SitePage` assume of the pipeline is true of it, and
whatever is proved of them holds of the engine. `CardsKeepWord` uses that: `CardsShowRows`
is cited for the pages of the engine (`EngineCardsAreRows`), and with `SitesMatchRows` and
the rows and websites that never go (`EngineKeepsStore`) the card, the website and the
browsers agree. The other theorems of the engine carry over in the same way: those of the
pipeline because a step of the engine is one of its own or changes nothing it looks at
(`PipelineMoves`), those of `StreamProofs` and `SiteProofs` by instantiating these modules
with the engine's pages, requests and `SiteJobs`. An instance brings its own copy of the
module it is about, with its assumptions; `SamePages` and `SameSites` show that the copies
agree, `PageAssumptions` and `SiteAssumptions` that the assumptions hold.

**Texts.** The inputs of `Texts` grow symbol by symbol, and `InputFits` is all that is
invariant about them; the rest is what the conversions do to a sequence, by induction over
its length. The library's induction theorems speak of an operator, which the provers cannot
instantiate. `InductionLemmas` derives from well-foundedness of `<` the same principle for
a *set*: what holds at 0 and at each successor holds on all of `0 .. n`. From it follow that
a recursive function over `0 .. n` exists and satisfies its equation (`LoopExists`, and
`BackwardExists` for one that looks ahead), and that a bounded set has a largest and a
smallest member. `TextProofs` then says of each loop what one turn keeps and concludes what
the whole loop does (`Fine` is the set of the `n` at which the claim is true):

* queries: collapsing leaves no two spaces side by side and none in front, cutting the end
  leaves none there (`SettledIsPlain`); on text that is plain already each step does nothing
  (`PlainSettles`), hence the idempotence that the page and the stream rely on; a wider
  spacing collapses to the same prefix at each character (`RespacedIs`); the letters of a
  text are those of what is cut out of it and of what it collapses to;
* links: a squeezed title has no two dashes side by side (`SqueezeIs`), so that a cut after
  any byte and a trim leave dashes inside only (`TitleToSlugIs`), and the dash before the id
  is alone; the id is found because it is the end of the link and of fixed length
  (`FindIdIs`), under its letter only;
* prompts: decoding never makes a text longer (`DecodedFits`) and leaves a text without
  percent signs alone (`NothingToDecode`), so that a prompt, and its kebab case, fits in a
  path again and leads back to itself (`PromptIsMet`). `DecodedOnceUnlessEscapedTwice`
  gives the extent of the second decoding below: it is harmless unless a percent sign is
  left after the first;
* answers: trimming and removing a fence leave parts of what was there
  (`StripFencesType`), so that an accepted answer is the trimmed fields of one object
  (`AcceptedIs`), all of them texts; then both renderings of its card agree (`CardsOf`).

**Only model-checked**: liveness (`Fabricated`, `SitesFabricated`, `FilledCardsAppear`,
`Answered`, `WaitersServed`, `WebsiteArrives`), which is out of the proof system's reach, as
is fairness.

## Disagreements between comment and code

* `llm.Client.Image` says its bytes are always served as `image/png` (`llm/llm.go:312`);
  `handleImage` serves JPEG and WebP under their own types, which its own comment explains
  (`http/image.go:116`). The code is right, the comment is old. `ImageCachePNG` shows it.
* `handleImage` says that the path is URL-decoded (`http/image.go:39`), and it is, twice:
  `r.URL.Path` is decoded already when `imagePathToPrompt` decodes it. A prompt with a
  percent sign is refused or becomes another prompt. `ImagePathTwice` shows the shortest.
* `stripHTMLFences` says that it removes a leading or trailing fence if present
  (`llm/llm.go:352`); its expression asks for both. A document that opens with a fence and is
  cut before the closing one keeps it, passes the check for a doctype and is stored.
  `AnswerFences` shows it.

## Not modelled

* `llm/constraints.go` and the wording of prompts: random choices that keep no state; any
  answer is possible in the models.
* The rest of package `html` (common parts, home and error pages), routes, headers beyond the
  type and caching of images, the content security policy: markup and wiring without state.
* Configuration and errors at start-up (`cmd/app`), tracing and logging.
* Inside goqite, the order of messages within a priority and the delay of polling: any
  order is possible in the models. Inside the vendored script, everything but its opening,
  breaking off and reopening of a stream.
* Durations. Time is an order of events: that a request's patience outlasts the jobs before
  its own, over eight slots, is visible in the code and not in a property. `WebsiteArrives`
  says that the job is done in the end. Nor can starvation be expressed: a run has finitely
  many visits, so that no stream of searches goes on for ever before the website jobs.
* A document that is cut off behind its doctype: the code accepts it, nothing in the
  repository says otherwise, and no property is about it. A page whose two enqueues failed
  is likewise promised nothing until it is loaded again.
* The agreement of the constants 10 and 3 across `jobs`, `http`, `html` and the migrations:
  the models have one constant for each.

## Plan

All components with state of their own are modelled, and every safety and action property
that a run checks is proved. What could come next: several workers and both kinds of
cards in one run of `SearchEngine`, at the price of its liveness property or of a longer
run; durations, as counters of ticks, for the patience of requests; and the retries of
goqite's own transactions, should its source be brought in.
