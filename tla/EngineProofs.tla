---------------------------- MODULE EngineProofs ----------------------------
(***************************************************************************)
(* Proofs about the whole engine, for every number of pages, requests,     *)
(* workers, queries and failures: over the real pipeline the pages and the *)
(* requests behave as EventStream and SitePage say, so that what is proved *)
(* of each of them alone holds of the whole.                               *)
(***************************************************************************)
EXTENDS SearchEngine, FabricationProofs

\* What a request knows of its link.
LinkKnown(r) == request[r] # "idle" => link[r] \in Cells

EngineTypes == /\ searched \in [Pages -> Queries \cup {None}]
               /\ request \in [Requests -> Site!Places]
               /\ link \in [Requests -> Cells \cup {None}]
               /\ \A r \in Requests : LinkKnown(r)

EngineInv == TypeOK /\ IInv /\ EngineTypes

-----------------------------------------------------------------------------
(* Steps *)

\* The three modules mean the same cells.
LEMMA SameCells ==
    /\ Page!Cells = Cells
    /\ Site!Cells = Cells
    /\ Promise!Cells = Cells
    /\ \A c \in Cells : c[1] \in Kinds
  BY DEF Page!Cells, Site!Cells, Promise!Cells, Cells, Page!Positions, Site!Positions,
         Promise!Positions, Positions, Page!PerQuery, Site!PerQuery, Promise!PerQuery,
         PerQuery, Kinds

\* A step of a page, of a request, of the pipeline or of the process.
LEMMA EngineCases ==
    ASSUME [EngineNext]_engineVars
    PROVE  \/ \E p \in Pages :
                 \/ \E q \in Queries : SearchPage(p, q)
                 \/ EnqueueFanOut(p) \/ ReadPage(p) \/ PageHandler(p) \/ Browse(p)
                 \/ PageTrouble(p)
           \/ \E r \in Requests :
                 \/ \E c \in Cells : OpenCard(r, c)
                 \/ MissSite(r) \/ HitSite(r) \/ EnqueueSite(r) \/ RequestProceeds(r)
                 \/ Await(r) \/ RequestTrouble(r)
           \/ \E w \in Workers : Run(w)
           \/ Redeliver
           \/ Restart
           \/ UNCHANGED engineVars
  BY DEF EngineNext, RequestHandler

\* What the pipeline sees of a step that is not its own: a failure at most.
FailsAtMost ==
    /\ UNCHANGED <<store, queue, nextId, visitor, worker, fannedOut, visits>>
    /\ faults' \in 0 .. MaxFaults

\* A step of the engine is one of the pipeline, or a failure elsewhere.
LEMMA PipelineMoves ==
    ASSUME EngineInv, [EngineNext]_engineVars
    PROVE  [Next]_vars \/ FailsAtMost
  <1> USE EngineAssumption DEF EngineInv
  <1>1. ASSUME NEW p \in Pages, NEW q \in Queries, SearchPage(p, q)
        PROVE  Next
    BY <1>1 DEF SearchPage, Next
  <1>2. ASSUME NEW p \in Pages, EnqueueFanOut(p)
        PROVE  Next
    BY <1>2 DEF EnqueueFanOut, Next, VisitorStep
  <1>3. ASSUME NEW r \in Requests, MissSite(r)
        PROVE  Next
    <2>1. link[r] \in Cells /\ link[r][1] \in Kinds /\ OpenSite(r, link[r])
      BY <1>3, SameCells DEF MissSite, EngineTypes, LinkKnown
    <2>2. HandleSite(r, link[r]) \/ HandleAd(r, link[r])
      BY <2>1 DEF HandleSite, HandleAd, Kinds
    <2> QED
      BY <2>1, <2>2 DEF Next
  <1>4. ASSUME NEW r \in Requests, EnqueueSite(r)
        PROVE  Next
    <2>1. link[r][1] \in Kinds /\ EnqueueLast(r, "site", link[r][1])
      BY <1>4, SameCells DEF EnqueueSite, EngineTypes, LinkKnown
    <2>2. EnqueueGenerateWebsite(r) \/ EnqueueGenerateAdWebsite(r)
      BY <2>1 DEF EnqueueGenerateWebsite, EnqueueGenerateAdWebsite, Kinds
    <2> QED
      BY <2>2 DEF Next, VisitorStep
  <1>5. ASSUME NEW w \in Workers, Run(w)
        PROVE  Next
    BY <1>5 DEF Run, Next
  <1>6. CASE Redeliver
    BY <1>6 DEF Redeliver, Next
  <1>7. CASE Restart
    BY <1>7 DEF Restart, Next
  <1>8. ASSUME Fault
        PROVE  faults' \in 0 .. MaxFaults
    BY <1>8, BoundsAssumption DEF Fault, TypeOK
  <1>9. ASSUME NEW p \in Pages, PageTrouble(p)
        PROVE  FailsAtMost
    BY <1>8, <1>9 DEF PageTrouble, FailsAtMost
  <1>10. ASSUME NEW r \in Requests, RequestTrouble(r)
         PROVE  FailsAtMost
    BY <1>8, <1>10 DEF RequestTrouble, FailsAtMost
  <1>11. ASSUME NEW p \in Pages, ReadPage(p) \/ PageHandler(p) \/ Browse(p)
         PROVE  UNCHANGED vars
    BY <1>11 DEF ReadPage, PageHandler, Browse
  <1>12. ASSUME NEW r \in Requests,
                \/ \E c \in Cells : OpenCard(r, c)
                \/ HitSite(r) \/ RequestProceeds(r) \/ Await(r)
         PROVE  UNCHANGED vars
    BY <1>12 DEF OpenCard, HitSite, RequestProceeds, Await
  <1>13. CASE UNCHANGED engineVars
    BY <1>13 DEF engineVars
  <1> QED
    BY <1>1, <1>2, <1>3, <1>4, <1>5, <1>6, <1>7, <1>9, <1>10, <1>11, <1>12, <1>13,
       EngineCases

\* The pipeline's own invariant does not mind failures elsewhere.
LEMMA PipelineInvStep ==
    ASSUME EngineInv, [EngineNext]_engineVars
    PROVE  TypeOK' /\ IInv'
  <1>1. CASE [Next]_vars
    BY <1>1, InvStep DEF EngineInv
  <1>2. CASE FailsAtMost
    <2>1. TypeOK'
      BY <1>2 DEF FailsAtMost, store, EngineInv, TypeOK
    <2>2. IInv'
      BY <1>2
      DEF FailsAtMost, store, EngineInv, IInv, IdsMeanJobs, PhasesFit, GroundedJobs, Grounded,
          RowsGrounded, VisitorsGrounded, FanOutCovers, Covered, DoneIsStored,
          SnapshotsCurrent, NoPositionForgotten, SitesMatchRows
    <2> QED
      BY <2>1, <2>2
  <1> QED
    BY <1>1, <1>2, PipelineMoves

-----------------------------------------------------------------------------
(* What requests and pages know *)

\* A request gets a link when it arrives and keeps it until it is answered.
LEMMA RequestTypes ==
    ASSUME EngineInv, [EngineNext]_engineVars
    PROVE  EngineTypes'
  <1> USE DEF EngineInv, EngineTypes, LinkKnown, Site!GoTo, Site!Places, Site!Statuses,
              requestState, pageState
  <1>1. ASSUME NEW p \in Pages, NEW q \in Queries, SearchPage(p, q)
        PROVE  EngineTypes'
    BY <1>1 DEF SearchPage
  <1>2. ASSUME NEW p \in Pages, EnqueueFanOut(p) \/ PageHandler(p) \/ Browse(p)
        PROVE  EngineTypes'
    BY <1>2 DEF EnqueueFanOut, PageHandler, Browse
  <1>3. ASSUME NEW p \in Pages, ReadPage(p) \/ PageTrouble(p)
        PROVE  EngineTypes'
    BY <1>3 DEF ReadPage, PageTrouble, LoadFails
  <1>4. ASSUME NEW r \in Requests, NEW c \in Cells, OpenCard(r, c)
        PROVE  EngineTypes'
    BY <1>4 DEF OpenCard, Site!Arrive
  <1>5. ASSUME NEW r \in Requests, MissSite(r) \/ HitSite(r)
        PROVE  EngineTypes'
    BY <1>5 DEF MissSite, HitSite, Site!FindSite, Site!Serve
  <1>6. ASSUME NEW r \in Requests, EnqueueSite(r)
        PROVE  EngineTypes'
    BY <1>6 DEF EnqueueSite, Site!Enqueue
  <1>7. ASSUME NEW r \in Requests, RequestProceeds(r)
        PROVE  EngineTypes'
    <2>1. Site!Lookup(r) \in {"found", "context", "not found"}
      BY DEF Site!Lookup
    <2>2. /\ UNCHANGED <<searched, link>>
          /\ request[r] # "idle"
          /\ \E place \in Site!Places \ {"idle"} : request' = [request EXCEPT ![r] = place]
      BY <1>7, <2>1
      DEF RequestProceeds, Site!FindRow, Site!LookInVain, Site!GiveUp, Site!Tick, Site!Poll,
          Site!Serve
    <2> QED
      BY <2>2
  <1>8. ASSUME NEW r \in Requests, Await(r) \/ RequestTrouble(r)
        PROVE  EngineTypes'
    BY <1>8 DEF Await, RequestTrouble, Site!Leave, Site!Expire, Site!Finish,
                Site!DatabaseFails
  <1>9. ASSUME NEW w \in Workers, Run(w)
        PROVE  EngineTypes'
    BY <1>9 DEF Run
  <1>10. CASE Redeliver \/ UNCHANGED engineVars
    BY <1>10 DEF Redeliver, engineVars
  <1>11. CASE Restart
    BY <1>11 DEF Restart, Site!Crash
  <1> QED
    BY <1>1, <1>2, <1>3, <1>4, <1>5, <1>6, <1>7, <1>8, <1>9, <1>10, <1>11, EngineCases

LEMMA EngineInvariance == EngineSpec => []EngineInv
<1>1. EngineInit => EngineInv
  BY InvInit DEF EngineInit, EngineInv, EngineTypes, LinkKnown, Site!Init, Site!Places
<1>2. EngineInv /\ [EngineNext]_engineVars => EngineInv'
  BY PipelineInvStep, RequestTypes DEF EngineInv
<1> QED
  BY <1>1, <1>2, PTL DEF EngineSpec

-----------------------------------------------------------------------------
(* Jobs *)

\* The jobs of the queue and of the workers.
Present == {m.job : m \in queue}
              \cup {worker[w].job : w \in {u \in Workers : worker[u].at # "idle"}}

OnlyJobsPresent == Present \subseteq Jobs

LEMMA PresentType == EngineInv => OnlyJobsPresent
  BY DEF OnlyJobsPresent, EngineInv, TypeOK, Messages, IInv, PhasesFit, Present

LEMMA PresentTypeNext == EngineInv' => OnlyJobsPresent'
  BY PresentType, PTL

\* A job of the pipeline goes on under its name, or is gone for good, with
\* nothing written.
LEMMA RunnerKeepsJobs ==
    ASSUME EngineInv, NEW w \in Workers, WorkerStep(w) \/ Abandon(w)
    PROVE  \/ Present' = Present
           \/ \E job \in Jobs : job.stage # "site" /\ Present' = Present \cup {job}
           \/ \E job \in Present : Present' = Present \ {job} /\ UNCHANGED <<rows, sites>>
  <1> USE DEF EngineInv
  <1>1. CASE Receive(w)
    <2>1. PICK m \in queue :
             /\ queue' = (queue \ {m}) \cup {Message(m.id, m.job, m.received + 1, "hidden")}
             /\ worker' = [worker EXCEPT ![w] = Handler("start", m.id, m.job, {}, None, None)]
      BY <1>1 DEF Receive, Receivable
    <2>2. worker[w].at = "idle"
      BY <1>1 DEF Receive
    <2> DEFINE new == Message(m.id, m.job, m.received + 1, "hidden")
    <2>3. /\ \A n \in queue' : \E k \in queue : k.job = n.job
          /\ \A k \in queue : \E n \in queue' : n.job = k.job
      <3>1. new.job = m.job
        BY DEF Message
      <3> HIDE DEF new
      <3>2. queue' = (queue \ {m}) \cup {new}
        BY <2>1 DEF new
      <3> QED
        BY <3>1, <3>2
    <2>4. worker'[w].at # "idle" /\ worker'[w].job = m.job
      BY <2>1 DEF Handler, TypeOK
    <2>5. \A u \in Workers : u # w => worker'[u] = worker[u]
      BY <2>1 DEF TypeOK
    <2>6. \A job : job \in Present' <=> job \in Present
      BY <2>1, <2>2, <2>3, <2>4, <2>5 DEF Present
    <2> QED
      BY <2>6
  <1>2. ASSUME queue' = queue,
               \E at, todo, input, output :
                  at # "idle" /\ Continue(w, at, todo, input, output),
               worker[w].at # "idle"
        PROVE  Present' = Present
    <2>1. worker'[w].at # "idle" /\ worker'[w].job = worker[w].job
      BY <1>2 DEF Continue, Handler, TypeOK
    <2>2. \A u \in Workers : u # w => worker'[u] = worker[u]
      BY <1>2 DEF Continue, TypeOK
    <2> QED
      BY <1>2, <2>1, <2>2 DEF Present
  <1>3. ASSUME NEW kind \in Kinds,
               \/ ReadPositions(w, kind) \/ InsertItem(w, kind)
               \/ ReadRow(w, kind) \/ InsertWebsiteOf(w, kind)
               \/ \E f \in Fabrics : FabricateItem(w, kind, f) \/ FabricateSite(w, kind, f)
        PROVE  Present' = Present
    <2>1. queue' = queue /\ worker[w].at # "idle"
      BY <1>3
      DEF ReadPositions, FabricateItem, InsertItem, ReadRow, FabricateSite, InsertWebsiteOf,
          Fabricate, Running
    <2>2. \E at, todo, input, output : at # "idle" /\ Continue(w, at, todo, input, output)
      BY <1>3
      DEF ReadPositions, FabricateItem, InsertItem, ReadRow, FabricateSite, InsertWebsiteOf,
          Fabricate
    <2> QED
      BY <1>2, <2>1, <2>2
  <1>4. ASSUME NEW kind \in Kinds, CreateItem(w, kind)
        PROVE  \E job \in Jobs : job.stage # "site" /\ Present' = Present \cup {job}
    <2>1. PICK p \in worker[w].todo :
             /\ Create(Job("item", kind, worker[w].job.query, p))
             /\ Continue(w, "fanOut", worker[w].todo \ {p}, None, None)
      BY <1>4 DEF CreateItem
    <2>2. worker[w].at # "idle" /\ worker[w].job \in Jobs /\ p \in Nat
      BY <1>4, <2>1 DEF CreateItem, Running, IInv, PhasesFit, TypeOK
    <2> DEFINE job == Job("item", kind, worker[w].job.query, p)
    <2>3. job \in Jobs /\ job.stage = "item"
      BY <2>2 DEF Job, Jobs, Stages
    <2> HIDE DEF job
    <2> DEFINE new == Message(nextId, job, 0, "visible")
    <2>4. new.job = job
      BY DEF Message
    <2> HIDE DEF new
    <2>5. queue' = queue \cup {new}
      BY <2>1 DEF Create, new, job
    <2>6. worker'[w].at # "idle" /\ worker'[w].job = worker[w].job
      BY <2>1 DEF Continue, Handler, TypeOK
    <2>7. \A u \in Workers : u # w => worker'[u] = worker[u]
      BY <2>1 DEF Continue, TypeOK
    <2>8. \A j : j \in Present' <=> j \in Present \/ j = job
      BY <2>2, <2>4, <2>5, <2>6, <2>7 DEF Present
    <2>9. Present' = Present \cup {job}
      BY <2>8
    <2> QED
      BY <2>3, <2>9
  <1>5. CASE Acknowledge(w) \/ Abandon(w)
    <2> DEFINE job == worker[w].job
    <2>1. worker[w].at # "idle" /\ job \in Present
      BY <1>5 DEF Acknowledge, Returned, Abandon, Present
    <2>2. worker' = [worker EXCEPT ![w] = Idle] /\ UNCHANGED <<rows, sites>>
      BY <1>5 DEF Acknowledge, Abandon, store
    <2>3. /\ queue' \subseteq queue
          /\ \A m \in queue : m.job # job => m \in queue'
      BY <1>5, <2>1 DEF Acknowledge, Abandon, IInv, IdsMeanJobs
    <2>4. worker'[w].at = "idle" /\ \A u \in Workers : u # w => worker'[u] = worker[u]
      BY <2>2 DEF Idle, Handler, TypeOK
    <2>5. Present' \subseteq Present /\ Present \ {job} \subseteq Present'
      BY <2>3, <2>4 DEF Present
    <2>6. Present' = Present \/ Present' = Present \ {job}
      BY <2>5
    <2> QED
      BY <2>1, <2>2, <2>6
  <1>6. \/ Receive(w) \/ Acknowledge(w) \/ Abandon(w)
        \/ \E kind \in Kinds :
              \/ ReadPositions(w, kind) \/ CreateItem(w, kind) \/ InsertItem(w, kind)
              \/ ReadRow(w, kind) \/ InsertWebsiteOf(w, kind)
              \/ \E f \in Fabrics : FabricateItem(w, kind, f) \/ FabricateSite(w, kind, f)
    BY DEF WorkerStep, GenerateResults, GenerateAds, GenerateResult, GenerateAd,
           GenerateWebsite, GenerateAdWebsite, Kinds
  <1> QED
    BY <1>1, <1>3, <1>4, <1>5, <1>6

\* Two website jobs of one cell are the same job.
LEMMA SiteJobOfCell ==
    ASSUME NEW j \in Jobs, NEW k \in Jobs, j.stage = "site", k.stage = "site",
           CellOf(j) = CellOf(k)
    PROVE  j = k
  BY DEF Jobs, CellOf

\* What becomes of the website jobs follows from what becomes of the jobs.
LEMMA SiteJobsFollow ==
    ASSUME EngineInv, Present' \subseteq Jobs,
           \/ Present' = Present
           \/ \E job \in Jobs : job.stage # "site" /\ Present' = Present \cup {job}
           \/ \E job \in Present : Present' = Present \ {job} /\ UNCHANGED <<rows, sites>>
    PROVE  \/ SiteJobs' = SiteJobs
           \/ \E c \in SiteJobs : SiteJobs' = SiteJobs \ {c} /\ UNCHANGED <<rows, sites>>
  <1>1. /\ SiteJobs = {CellOf(j) : j \in {k \in Present : k.stage = "site"}}
        /\ SiteJobs' = {CellOf(j) : j \in {k \in Present' : k.stage = "site"}}
    BY DEF SiteJobs, Present
  <1>2. CASE Present' = Present
    BY <1>1, <1>2
  <1>3. ASSUME NEW job \in Jobs, job.stage # "site", Present' = Present \cup {job}
        PROVE  SiteJobs' = SiteJobs
    <2>1. {k \in Present' : k.stage = "site"} = {k \in Present : k.stage = "site"}
      BY <1>3
    <2> QED
      BY <1>1, <2>1
  <1>4. ASSUME NEW job \in Present, Present' = Present \ {job}, job.stage # "site"
        PROVE  SiteJobs' = SiteJobs
    <2>1. {k \in Present' : k.stage = "site"} = {k \in Present : k.stage = "site"}
      BY <1>4
    <2> QED
      BY <1>1, <2>1
  <1>5. ASSUME NEW job \in Present, Present' = Present \ {job}, job.stage = "site"
        PROVE  CellOf(job) \in SiteJobs /\ SiteJobs' = SiteJobs \ {CellOf(job)}
    <2>1. CellOf(job) \in SiteJobs
      BY <1>1, <1>5
    <2>2. ASSUME NEW c
          PROVE  c \in SiteJobs' <=> c \in SiteJobs /\ c # CellOf(job)
      BY <1>1, <1>5, PresentType, SiteJobOfCell DEF OnlyJobsPresent
    <2> QED
      BY <2>1, <2>2
  <1> QED
    BY <1>2, <1>3, <1>4, <1>5

\* A page that enqueues its fan-outs adds no website job, a redelivery none at all.
LEMMA OthersKeepJobs ==
    ASSUME EngineInv, (\E p \in Pages : EnqueueFanOut(p)) \/ Redeliver
    PROVE  /\ UNCHANGED <<rows, sites>>
           /\ \/ Present' = Present
              \/ \E job \in Jobs : job.stage # "site" /\ Present' = Present \cup {job}
  <1> USE DEF EngineInv
  <1>1. ASSUME NEW p \in Pages, EnqueueFanOut(p)
        PROVE  /\ UNCHANGED <<rows, sites>>
               /\ \/ Present' = Present
                  \/ \E job \in Jobs : job.stage # "site" /\ Present' = Present \cup {job}
    <2> DEFINE job == visitor[p]
    <2>1. /\ job # None /\ job.stage = "fan-out"
          /\ EnqueueOrSwallow(job)
          /\ UNCHANGED <<rows, sites, worker>>
      BY <1>1 DEF EnqueueFanOut, EnqueueGenerateResults, EnqueueGenerateAds, EnqueueLast, store
    <2>2. job \in Jobs
      BY <2>1, EngineAssumption DEF TypeOK
    <2>3. CASE queue' = queue
      BY <2>1, <2>3 DEF Present
    <2>4. CASE Create(job)
      <3> DEFINE new == Message(nextId, job, 0, "visible")
      <3>1. new.job = job
        BY DEF Message
      <3> HIDE DEF new
      <3>2. queue' = queue \cup {new}
        BY <2>4 DEF Create, new
      <3>3. \A j : j \in Present' <=> j \in Present \/ j = job
        BY <2>1, <3>1, <3>2 DEF Present
      <3>4. Present' = Present \cup {job}
        BY <3>3
      <3> QED
        BY <2>1, <2>2, <3>4
    <2> QED
      BY <2>1, <2>3, <2>4 DEF EnqueueOrSwallow
  <1>2. CASE Redeliver
    <2>1. PICK m \in queue : Timeout(m)
      BY <1>2 DEF Redeliver
    <2> DEFINE new == Message(m.id, m.job, m.received, "visible")
    <2>2. new.job = m.job
      BY DEF Message
    <2> HIDE DEF new
    <2>3. queue' = (queue \ {m}) \cup {new} /\ UNCHANGED <<rows, sites, worker>>
      BY <2>1 DEF Timeout, new, store
    <2>4. \A j : j \in Present' <=> j \in Present
      BY <2>2, <2>3 DEF Present
    <2> QED
      BY <2>3, <2>4
  <1> QED
    BY <1>1, <1>2

-----------------------------------------------------------------------------
(* The parts *)

\* A step of the pipeline is one of SitePage's, or hidden from it.
LEMMA RunIsPipeline ==
    ASSUME EngineInv, EngineInv', NEW w \in Workers, Run(w)
    PROVE  Site!Pipeline \/ UNCHANGED Site!vars
  <1> USE SameCells DEF EngineInv
  <1>1. UNCHANGED <<request, link, expired, failed, browser>>
    BY DEF Run, requestState
  <1>2. WorkerStep(w) \/ Abandon(w)
    BY DEF Run
  <1>3. [Next]_vars
    BY <1>2 DEF Next
  <1>4. \/ SiteJobs' = SiteJobs
        \/ \E c \in SiteJobs : SiteJobs' = SiteJobs \ {c} /\ UNCHANGED <<rows, sites>>
    <2>1. Present' \subseteq Jobs
      BY PresentTypeNext DEF OnlyJobsPresent
    <2> QED
      BY <1>2, <2>1, RunnerKeepsJobs, SiteJobsFollow
  <1>5. CASE \E c \in SiteJobs : SiteJobs' = SiteJobs \ {c} /\ UNCHANGED <<rows, sites>>
    BY <1>1, <1>5 DEF Site!Pipeline, Site!DropJob, Site!catalogueVars
  <1>6. ASSUME NEW kind \in Kinds, InsertItem(w, kind), SiteJobs' = SiteJobs
        PROVE  Site!Pipeline \/ UNCHANGED Site!vars
    <2> DEFINE c == CellOf(worker[w].job)
    <2>1. c \in Cells /\ worker[w].output \in Fabrics
      BY <1>6 DEF InsertItem, Running, IInv, GroundedJobs, Grounded, PhasesFit
    <2>2. CASE rows[c] = None
      <3>1. Site!FillRow(c, worker[w].output)
        BY <1>6, <2>2 DEF InsertItem, InsertRow, Site!FillRow
      <3> QED
        BY <1>1, <1>6, <2>1, <3>1 DEF Site!Pipeline, Site!Fill, Site!requestVars
    <2>3. CASE rows[c] # None
      BY <1>1, <1>6, <2>3 DEF InsertItem, InsertRow, Site!vars
    <2> QED
      BY <2>2, <2>3
  <1>7. ASSUME NEW kind \in Kinds, InsertWebsiteOf(w, kind), SiteJobs' = SiteJobs
        PROVE  Site!Pipeline \/ UNCHANGED Site!vars
    <2> DEFINE c == CellOf(worker[w].job)
    <2>1. /\ c \in Cells
          /\ worker[w].output \in Fabrics
          /\ rows[c] # None
          /\ worker[w].input = rows[c]
      BY <1>7 DEF InsertWebsiteOf, Running, IInv, GroundedJobs, Grounded, PhasesFit,
         SnapshotsCurrent
    <2>2. c \in SiteJobs
      BY <1>7 DEF InsertWebsiteOf, Running, SiteJobs
    <2>3. CASE sites[c] = None
      <3>1. Site!FillSite(c, worker[w].output)
        BY <1>7, <2>1, <2>3 DEF InsertWebsiteOf, InsertSite, Site!FillSite
      <3> QED
        BY <1>1, <1>7, <2>1, <2>2, <3>1 DEF Site!Pipeline, Site!Fill, Site!requestVars
    <2>4. CASE sites[c] # None
      BY <1>1, <1>7, <2>4 DEF InsertWebsiteOf, InsertSite, Site!vars
    <2> QED
      BY <2>3, <2>4
  <1>8. CASE UNCHANGED <<rows, sites>> /\ SiteJobs' = SiteJobs
    BY <1>1, <1>8 DEF Site!vars
  <1>9. \/ \E kind \in Kinds : InsertItem(w, kind) \/ InsertWebsiteOf(w, kind)
        \/ UNCHANGED <<rows, sites>>
    BY <1>2
    DEF WorkerStep, GenerateResults, GenerateAds, GenerateResult, GenerateAd,
        GenerateWebsite, GenerateAdWebsite, Kinds, Receive, ReadPositions, CreateItem,
        FabricateItem, ReadRow, FabricateSite, Fabricate, Acknowledge, Abandon, store
  <1> QED
    BY <1>4, <1>5, <1>6, <1>7, <1>8, <1>9

LEMMA StaysIsNoNews == UNCHANGED <<queue, worker>> => SiteJobs' = SiteJobs
  BY DEF SiteJobs

\* What the requests see is a step of theirs, of the pipeline, or nothing.
LEMMA SiteStep ==
    ASSUME EngineInv, EngineInv', [EngineNext]_engineVars
    PROVE  [Site!Next]_Site!vars
  <1> USE SameCells DEF Site!vars
  <1>1. ASSUME NEW w \in Workers, Run(w)
        PROVE  Site!Next \/ UNCHANGED Site!vars
    BY <1>1, RunIsPipeline DEF Site!Next
  <1>2. ASSUME (\E p \in Pages : EnqueueFanOut(p)) \/ Redeliver
        PROVE  Site!Next \/ UNCHANGED Site!vars
    <2>1. /\ UNCHANGED <<rows, sites>>
          /\ \/ Present' = Present
             \/ \E job \in Jobs : job.stage # "site" /\ Present' = Present \cup {job}
      BY <1>2, OthersKeepJobs
    <2>2. Present' \subseteq Jobs
      BY PresentTypeNext DEF OnlyJobsPresent
    <2>3. \/ SiteJobs' = SiteJobs
          \/ \E c \in SiteJobs : SiteJobs' = SiteJobs \ {c} /\ UNCHANGED <<rows, sites>>
      BY <2>1, <2>2, SiteJobsFollow
    <2>4. UNCHANGED <<request, link, expired, failed, browser>>
      BY <1>2 DEF EnqueueFanOut, Redeliver, requestState
    <2> QED
      BY <2>1, <2>3, <2>4 DEF Site!Next, Site!Pipeline, Site!DropJob, Site!catalogueVars
  <1>3. ASSUME NEW p \in Pages,
               \/ \E q \in Queries : SearchPage(p, q)
               \/ ReadPage(p) \/ PageHandler(p) \/ Browse(p) \/ PageTrouble(p)
        PROVE  UNCHANGED Site!vars
    BY <1>3, StaysIsNoNews
    DEF SearchPage, Search, ReadPage, PageHandler, Browse, PageTrouble, vars, store,
        requestState
  <1>4. ASSUME NEW r \in Requests, NEW c \in Cells, OpenCard(r, c)
        PROVE  Site!Next
    BY <1>4 DEF OpenCard, Site!Next
  <1>5. ASSUME NEW r \in Requests,
               MissSite(r) \/ HitSite(r) \/ EnqueueSite(r) \/ RequestProceeds(r)
        PROVE  Site!Next
    <2>1. Site!Steps(r)
      BY <1>5 DEF MissSite, HitSite, EnqueueSite, RequestProceeds, Site!Steps
    <2>2. request[r] # "idle"
      BY <2>1
      DEF Site!Steps, Site!FindRow, Site!FindSite, Site!LookInVain, Site!Enqueue,
          Site!GiveUp, Site!Tick, Site!Poll
    <2>3. link[r][1] \in Kinds
      BY <2>2 DEF EngineInv, EngineTypes, LinkKnown
    <2> QED
      BY <2>1, <2>3 DEF Kinds, Site!For, Site!HandleSite, Site!HandleAd, Site!Next
  <1>6. ASSUME NEW r \in Requests, Await(r) \/ RequestTrouble(r)
        PROVE  Site!Next
    BY <1>6 DEF Await, RequestTrouble, Site!Next
  <1>7. CASE Restart
    BY <1>7 DEF Restart, Site!Next
  <1>8. CASE UNCHANGED engineVars
    BY <1>8, StaysIsNoNews DEF engineVars, vars, requestState
  <1> QED
    BY <1>1, <1>2, <1>3, <1>4, <1>5, <1>6, <1>7, <1>8, EngineCases

\* What the pages see is a step of theirs, of the catalogue, or nothing.
LEMMA PageStep ==
    ASSUME EngineInv, [EngineNext]_engineVars
    PROVE  [Page!Next]_Page!vars
  <1> USE SameCells DEF Page!vars
  <1>1. ASSUME UNCHANGED <<page, query, card, read, sent>>
        PROVE  Page!Next \/ UNCHANGED Page!vars
    <2>1. CASE UNCHANGED <<rows, sites>>
      BY <1>1, <2>1
    <2>2. CASE [Next]_vars
      <3>1. Promise!CatalogueNext \/ UNCHANGED <<rows, sites>>
        BY <2>2, CatalogueStep DEF EngineInv, Promise!catalogueVars
      <3>2. CASE Promise!CatalogueNext
        <4>1. Page!CatalogueNext
          BY <3>2
          DEF Promise!CatalogueNext, Page!CatalogueNext, Promise!FillRow, Page!FillRow,
              Promise!FillSite, Page!FillSite
        <4> QED
          BY <1>1, <4>1 DEF Page!Next, Page!Pipeline, Page!pageVars
      <3> QED
        BY <2>1, <3>1, <3>2
    <2> QED
      BY <2>1, <2>2, PipelineMoves DEF FailsAtMost, store
  <1>2. ASSUME NEW p \in Pages, ReadPage(p)
        PROVE  Page!Next
    BY <1>2 DEF ReadPage, EngineInv, EngineTypes, Page!Next
  <1>3. ASSUME NEW p \in Pages, PageHandler(p) \/ Browse(p)
        PROVE  Page!Next
    BY <1>3 DEF PageHandler, Browse, Page!Next
  <1>4. ASSUME NEW p \in Pages, PageTrouble(p)
        PROVE  Page!Next \/ UNCHANGED Page!vars
    BY <1>1, <1>4 DEF PageTrouble, LoadFails, Page!Next
  <1>5. CASE Restart
    BY <1>5 DEF Restart, Page!Next
  <1>6. CASE \/ \E p \in Pages : EnqueueFanOut(p) \/ \E q \in Queries : SearchPage(p, q)
             \/ \E r \in Requests :
                   \/ \E c \in Cells : OpenCard(r, c)
                   \/ MissSite(r) \/ HitSite(r) \/ EnqueueSite(r) \/ RequestProceeds(r)
                   \/ Await(r) \/ RequestTrouble(r)
             \/ \E w \in Workers : Run(w)
             \/ Redeliver
             \/ UNCHANGED engineVars
    <2>1. UNCHANGED <<page, query, card, read, sent>>
      BY <1>6
      DEF EnqueueFanOut, SearchPage, OpenCard, MissSite, HitSite, EnqueueSite,
          RequestProceeds, Await, RequestTrouble, Run, Redeliver, engineVars, pageState
    <2> QED
      BY <1>1, <2>1
  <1> QED
    BY <1>2, <1>3, <1>4, <1>5, <1>6, EngineCases

\* Over the real pipeline the results pages are those over a catalogue that
\* fills, and requests those over jobs that come and go: what EventStream and
\* SitePage assume of the pipeline is true of it.
THEOREM PartsFit == EngineSpec => PartsAsSpecified
<1>1. EngineInit => Page!Init /\ Site!Init
  BY DEF EngineInit
<1>2. EngineInv /\ [EngineNext]_engineVars => [Page!Next]_Page!vars
  BY PageStep
<1>3. EngineInv /\ EngineInv' /\ [EngineNext]_engineVars => [Site!Next]_Site!vars
  BY SiteStep
<1> QED
  BY <1>1, <1>2, <1>3, EngineInvariance, PTL
  DEF EngineSpec, PartsAsSpecified, Page!Spec, Site!Spec

-----------------------------------------------------------------------------
(* Cards *)

PageShown == INSTANCE StreamProofs WITH Visitors <- Pages, at <- page

\* A proof module brings its own copy of the module it is about; the copies
\* agree, definition by definition.
LEMMA SamePageCells ==
    /\ PageShown!Cells = Page!Cells
    /\ PageShown!Skeletons = Page!Skeletons
    /\ \A q \in Queries : PageShown!CellsOf(q) = Page!CellsOf(q)
<1>1. PageShown!Cells = Page!Cells
  BY DEF PageShown!Cells, Page!Cells, PageShown!Positions, Page!Positions,
         PageShown!PerQuery, Page!PerQuery
<1>2. PageShown!Skeletons = Page!Skeletons
  BY <1>1 DEF PageShown!Skeletons, Page!Skeletons
<1>3. \A q \in Queries : PageShown!CellsOf(q) = Page!CellsOf(q)
  BY <1>1 DEF PageShown!CellsOf, Page!CellsOf
<1> QED
  BY <1>1, <1>2, <1>3

\* What StreamProofs proves rests on the assumptions of its own copy.
LEMMA PageCards == PageShown!Spec => []PageShown!CardsAreRows
<1>1. PageShown!Websites = Websites
  BY DEF PageShown!Websites, Websites
<1>2. PageShown!Cells = Cells
  BY SamePageCells, SameCells
<1> QED
  BY <1>1, <1>2, PositionsAssumption, NoneAssumption, PageShown!CardsShowRows

LEMMA SamePageInit == Page!Init => PageShown!Init
  BY SamePageCells
  DEF Page!Init, PageShown!Init, Page!CatalogueInit, PageShown!CatalogueInit

LEMMA SamePageSteps ==
    ASSUME NEW p \in Pages
    PROVE  /\ \A q \in Queries : PageShown!LoadResults(p, q) <=> Page!LoadResults(p, q)
           /\ PageShown!LoadAds(p) <=> Page!LoadAds(p)
           /\ PageShown!OpenEvents(p) <=> Page!OpenEvents(p)
           /\ PageShown!PushResults(p) <=> Page!PushResults(p)
           /\ PageShown!PushAds(p) <=> Page!PushAds(p)
           /\ PageShown!WriteSignalsPatch(p) <=> Page!WriteSignalsPatch(p)
           /\ PageShown!Tick(p) <=> Page!Tick(p)
           /\ PageShown!PushFails(p) <=> Page!PushFails(p)
           /\ PageShown!Deadline(p) <=> Page!Deadline(p)
           /\ PageShown!ConnectionLost(p) <=> Page!ConnectionLost(p)
           /\ PageShown!Reconnect(p) <=> Page!Reconnect(p)
           /\ PageShown!Leave(p) <=> Page!Leave(p)
  <1> USE SamePageCells DEF Page!GoTo, PageShown!GoTo, Page!catalogueVars, PageShown!catalogueVars
  <1>1. \A q \in Queries : PageShown!GetResults(q) = Page!GetResults(q)
    BY DEF Page!GetResults, PageShown!GetResults
  <1>2. PageShown!GetResults(query[p]) = Page!GetResults(query[p])
    BY DEF Page!GetResults, PageShown!GetResults
  <1>3. \A s : PageShown!WithAds(s, query[p]) = Page!WithAds(s, query[p])
    BY DEF Page!WithAds, PageShown!WithAds
  <1>4. \A s : PageShown!Fresh(p, s) = Page!Fresh(p, s)
    BY DEF Page!Fresh, PageShown!Fresh
  <1>5. PageShown!Patch(p) = Page!Patch(p)
    BY DEF Page!Patch, PageShown!Patch
  <1>6. PageShown!Done(p) <=> Page!Done(p)
    BY DEF Page!Done, PageShown!Done, Page!CellsOf, PageShown!CellsOf
  <1>7. \A q \in Queries : PageShown!LoadResults(p, q) <=> Page!LoadResults(p, q)
    BY <1>1 DEF Page!LoadResults, PageShown!LoadResults
  <1>8. PageShown!PushResults(p) <=> Page!PushResults(p)
    BY <1>2 DEF Page!PushResults, PageShown!PushResults
  <1>9. PageShown!LoadAds(p) <=> Page!LoadAds(p)
    BY <1>3 DEF Page!LoadAds, PageShown!LoadAds
  <1>10. PageShown!PushAds(p) <=> Page!PushAds(p)
    BY <1>3, <1>4 DEF Page!PushAds, PageShown!PushAds
  <1>11. PageShown!WriteSignalsPatch(p) <=> Page!WriteSignalsPatch(p)
    BY <1>5, <1>6 DEF Page!WriteSignalsPatch, PageShown!WriteSignalsPatch
  <1>12. /\ PageShown!OpenEvents(p) <=> Page!OpenEvents(p)
         /\ PageShown!Tick(p) <=> Page!Tick(p)
         /\ PageShown!PushFails(p) <=> Page!PushFails(p)
         /\ PageShown!Deadline(p) <=> Page!Deadline(p)
         /\ PageShown!ConnectionLost(p) <=> Page!ConnectionLost(p)
         /\ PageShown!Reconnect(p) <=> Page!Reconnect(p)
         /\ PageShown!Leave(p) <=> Page!Leave(p)
    BY DEF Page!OpenEvents, PageShown!OpenEvents, Page!Tick, PageShown!Tick,
           Page!PushFails, PageShown!PushFails, Page!Deadline, PageShown!Deadline,
           Page!ConnectionLost, PageShown!ConnectionLost, Page!Reconnect,
           PageShown!Reconnect, Page!Leave, PageShown!Leave, Page!Polling,
           PageShown!Polling
  <1> QED
    BY <1>7, <1>8, <1>9, <1>10, <1>11, <1>12

LEMMA SamePages == Page!Spec => PageShown!Spec
<1>1. ASSUME Page!Next
      PROVE  PageShown!Next
  <2>1. CASE Page!Pipeline
    BY <2>1, SamePageCells
    DEF PageShown!Next, Page!Pipeline, PageShown!Pipeline, Page!CatalogueNext,
        PageShown!CatalogueNext, Page!FillRow, PageShown!FillRow, Page!FillSite,
        PageShown!FillSite, Page!pageVars, PageShown!pageVars
  <2>2. CASE Page!Crash
    BY <2>2, SamePageCells
    DEF PageShown!Next, Page!Crash, PageShown!Crash, Page!Polling, PageShown!Polling,
        Page!catalogueVars, PageShown!catalogueVars
  <2>3. ASSUME NEW p \in Pages,
               \/ \E q \in Queries : Page!LoadResults(p, q)
               \/ Page!LoadAds(p) \/ Page!OpenEvents(p) \/ Page!HandlerStep(p)
               \/ Page!PushFails(p) \/ Page!Deadline(p) \/ Page!ConnectionLost(p)
               \/ Page!Reconnect(p) \/ Page!Leave(p)
        PROVE  PageShown!Next
    BY <2>3, SamePageSteps DEF Page!HandlerStep, PageShown!HandlerStep, PageShown!Next
  <2> QED
    BY <1>1, <2>1, <2>2, <2>3 DEF Page!Next
<1>2. [Page!Next]_Page!vars => [PageShown!Next]_PageShown!vars
  BY <1>1 DEF Page!vars, PageShown!vars
<1> QED
  BY <1>2, SamePageInit, PTL DEF Page!Spec, PageShown!Spec

\* A request looks for a row that is there, and browsers keep what is stored.
RequestsGrounded ==
    /\ \A r \in Requests : /\ request[r] # "404"
                           /\ request[r] # "idle" => rows[link[r]] # None
    /\ \A b \in browser : b[1] \in Cells /\ sites[b[1]] # None /\ sites[b[1]].html = b[2]

\* Nobody takes a row or a website back.
LEMMA EngineKeepsStore ==
    ASSUME EngineInv, [EngineNext]_engineVars
    PROVE  \A c \in Cells : /\ rows[c] # None => rows'[c] = rows[c]
                            /\ sites[c] # None => sites'[c] = sites[c]
  BY PipelineMoves, StoreStep DEF EngineInv, FailsAtMost, store

LEMMA RequestsStayGrounded ==
    ASSUME EngineInv, EngineInv', Page!CardsAreRows, RequestsGrounded, [EngineNext]_engineVars
    PROVE  RequestsGrounded'
  <1> USE EngineKeepsStore, SameCells
      DEF EngineInv, EngineTypes, LinkKnown, RequestsGrounded, requestState
  <1>1. CASE UNCHANGED requestState
    BY <1>1
  <1>2. ASSUME NEW r \in Requests, NEW c \in Cells, OpenCard(r, c)
        PROVE  RequestsGrounded'
    <2>1. rows[c] # None
      BY <1>2 DEF OpenCard, Cards, Page!CardsAreRows
    <2> QED
      BY <1>2, <2>1 DEF OpenCard, Site!Arrive, Site!GoTo
  <1>3. ASSUME NEW r \in Requests, MissSite(r) \/ HitSite(r)
        PROVE  RequestsGrounded'
    BY <1>3 DEF MissSite, HitSite, Site!FindSite, Site!Serve, Site!GoTo
  <1>4. ASSUME NEW r \in Requests, EnqueueSite(r)
        PROVE  RequestsGrounded'
    BY <1>4 DEF EnqueueSite, Site!Enqueue, Site!GoTo
  <1>5. ASSUME NEW r \in Requests, RequestProceeds(r)
        PROVE  RequestsGrounded'
    <2>1. CASE Site!FindRow(r)
      BY <1>5, <2>1, NoneAssumption DEF RequestProceeds, Site!FindRow, Site!GoTo
    <2>2. CASE Site!LookInVain(r) \/ Site!GiveUp(r) \/ Site!Tick(r)
      BY <1>5, <2>2
      DEF RequestProceeds, Site!LookInVain, Site!GiveUp, Site!Tick, Site!GoTo
    <2>3. CASE Site!Poll(r)
      <3>1. /\ Site!Lookup(r) \in {"found", "context", "not found"}
            /\ Site!Lookup(r) = "found" => sites[link[r]] # None
        BY DEF Site!Lookup
      <3>2. /\ link' = link
            /\ \E place \in {"200", "502", "poll"} : request' = [request EXCEPT ![r] = place]
            /\ \/ browser' = browser
               \/ /\ sites[link[r]] # None
                  /\ browser' = browser \cup {<<link[r], sites[link[r]].html>>}
        BY <2>3, <3>1 DEF Site!Poll, Site!Serve, Site!GoTo
      <3>3. request[r] # "idle"
        BY <2>3 DEF Site!Poll
      <3> QED
        BY <3>2, <3>3
    <2> QED
      BY <1>5, <2>1, <2>2, <2>3 DEF RequestProceeds
  <1>6. ASSUME NEW r \in Requests, Await(r) \/ RequestTrouble(r)
        PROVE  RequestsGrounded'
    BY <1>6 DEF Await, RequestTrouble, Site!Leave, Site!Expire, Site!Finish,
                Site!DatabaseFails, Site!GoTo
  <1>7. CASE Restart
    BY <1>7 DEF Restart, Site!Crash
  <1>8. CASE \/ \E p \in Pages :
                   \/ \E q \in Queries : SearchPage(p, q)
                   \/ EnqueueFanOut(p) \/ ReadPage(p) \/ PageHandler(p) \/ Browse(p)
                   \/ PageTrouble(p)
             \/ \E w \in Workers : Run(w)
             \/ Redeliver
             \/ UNCHANGED engineVars
    <2>1. UNCHANGED requestState
      BY <1>8
      DEF SearchPage, EnqueueFanOut, ReadPage, PageHandler, Browse, PageTrouble, Run,
          Redeliver, engineVars
    <2> QED
      BY <1>1, <2>1
  <1> QED
    BY <1>2, <1>3, <1>4, <1>5, <1>6, <1>7, <1>8, EngineCases

\* The cards of a page show stored rows, as EventStream proves of them.
LEMMA EngineCardsAreRows == EngineSpec => []Page!CardsAreRows
<1>1. PageShown!CardsAreRows => Page!CardsAreRows
  BY SamePageCells DEF PageShown!CardsAreRows, Page!CardsAreRows
<1> QED
  BY <1>1, PageCards, PartsFit, SamePages, PTL DEF PartsAsSpecified

\* A link taken from a card never leads to a 404, and what is behind it, also
\* in a browser that kept it, was made from the row that the card shows
\* (resultCard, handleSite, writeSiteHTML).
THEOREM CardsKeepWord == EngineSpec => []CardsKeepTheirWord
<1>1. EngineInit => RequestsGrounded
  BY DEF EngineInit, Site!Init, RequestsGrounded
<1>2. EngineInv /\ EngineInv' /\ Page!CardsAreRows /\ RequestsGrounded
         /\ [EngineNext]_engineVars => RequestsGrounded'
  BY RequestsStayGrounded
<1>3. EngineInv /\ Page!CardsAreRows /\ RequestsGrounded => CardsKeepTheirWord
  BY SameCells
  DEF EngineInv, IInv, SitesMatchRows, RequestsGrounded, CardsKeepTheirWord, Cards,
      Page!CardsAreRows
<1> QED
  BY <1>1, <1>2, <1>3, EngineInvariance, EngineCardsAreRows, PTL DEF EngineSpec

-----------------------------------------------------------------------------
(* What the parts promise, the whole keeps                                 *)

\* However pages and requests interleave with jobs, the tables fill as the
\* catalogue says: each row once, then its website once, from that row
\* (InsertResult, InsertAd, InsertWebsite, InsertAdWebsite).
THEOREM EngineImplements == EngineSpec => ImplementsCatalogue
<1>1. EngineInit => Promise!CatalogueInit
  <2>1. Init => Promise!CatalogueInit
    BY SameCells DEF Init, Promise!CatalogueInit
  <2> QED
    BY <2>1 DEF EngineInit
<1>2. EngineInv /\ [EngineNext]_engineVars
        => [Promise!CatalogueNext]_Promise!catalogueVars
  <2> SUFFICES ASSUME EngineInv, [EngineNext]_engineVars
               PROVE  [Promise!CatalogueNext]_Promise!catalogueVars
    OBVIOUS
  <2>1. CASE [Next]_vars
    BY <2>1, CatalogueStep DEF EngineInv
  <2>2. CASE FailsAtMost
    BY <2>2 DEF FailsAtMost, store, Promise!catalogueVars
  <2> QED
    BY <2>1, <2>2, PipelineMoves
<1> QED
  BY <1>1, <1>2, EngineInvariance, PTL
  DEF EngineSpec, ImplementsCatalogue, Promise!CatalogueSpec

\* In the whole engine too, an acknowledged fan-out leaves no position behind and
\* no job refers to what is not there (GenerateResults, GenerateAds), whatever
\* pages, streams and requests do meanwhile.
THEOREM EngineForgetsNothing == EngineSpec => [](NoPositionForgotten /\ GroundedJobs)
<1>1. EngineInv => NoPositionForgotten /\ GroundedJobs
  BY DEF EngineInv, IInv
<1> QED
  BY <1>1, EngineInvariance, PTL

\* And a filled query costs no further call of the language model for its cards.
THEOREM EngineSettles == EngineSpec => SettledStaysSettled
<1>1. EngineInv /\ [EngineNext]_engineVars => [KeepsSettled]_vars
  <2> SUFFICES ASSUME EngineInv, [EngineNext]_engineVars,
                      NEW kind \in Kinds, NEW q \in Queries, Settled(kind, q)
               PROVE  Settled(kind, q)'
    BY DEF KeepsSettled
  <2>1. CASE [Next]_vars
    BY <2>1, SettledStep DEF EngineInv
  <2>2. CASE FailsAtMost
    BY <2>2 DEF FailsAtMost, store, Settled, AllFilled, Filled
  <2> QED
    BY <2>1, <2>2, PipelineMoves
<1> QED
  BY <1>1, EngineInvariance, KeptSettled, PTL DEF EngineSpec

\* The assumptions of StreamProofs' copy.
LEMMA PageAssumptions ==
    /\ PageShown!PositionsAssumption
    /\ PageShown!NoneAssumption
<1>1. PageShown!Websites = Websites
  BY DEF PageShown!Websites, Websites
<1>2. PageShown!Cells = Cells
  BY SamePageCells, SameCells
<1> QED
  BY <1>1, <1>2, PositionsAssumption, NoneAssumption
  DEF PageShown!PositionsAssumption, PageShown!NoneAssumption

\* A stream over the real jobs has shown what it marked as sent, and one that
\* ends by itself leaves no card empty (handleEvents, writeSignalsPatch).
THEOREM PagesAreComplete == EngineSpec => [](Page!MarkedIsShown /\ Page!CompleteMeansComplete)
<1>1. PageShown!MarkedIsShown => Page!MarkedIsShown
  BY DEF PageShown!MarkedIsShown, Page!MarkedIsShown
<1>2. PageShown!CompleteMeansComplete => Page!CompleteMeansComplete
  BY SamePageCells
  DEF PageShown!CompleteMeansComplete, Page!CompleteMeansComplete, PageShown!CellsOf,
      Page!CellsOf
<1>3. PageShown!Spec => []PageShown!MarkedIsShown /\ []PageShown!CompleteMeansComplete
  BY PageAssumptions, PageShown!MarkedCardsShown, PageShown!NothingMissing
<1> QED
  BY <1>1, <1>2, <1>3, PartsFit, SamePages, PTL DEF PartsAsSpecified

\* A card, once filled, stays as it is while its page is open, whatever jobs are
\* delivered again (InsertResult, InsertAd, writeSignalsPatch).
THEOREM EngineCardsStay == EngineSpec => Page!CardsStay
<1>1. [PageShown!KeepsCards]_PageShown!vars => [Page!KeepsCards]_Page!vars
  BY SamePageCells DEF PageShown!KeepsCards, Page!KeepsCards, PageShown!vars, Page!vars
<1>2. PageShown!Spec => PageShown!CardsStay
  BY PageAssumptions, PageShown!CardsKeep
<1> QED
  BY <1>1, <1>2, PartsFit, SamePages, PTL
  DEF PartsAsSpecified, PageShown!CardsStay, Page!CardsStay

-----------------------------------------------------------------------------
(* Requests                                                                *)

SiteShown == INSTANCE SiteProofs WITH at <- request, jobs <- SiteJobs

\* The copies agree, as those of the page do.
LEMMA SameSiteCells ==
    /\ SiteShown!Cells = Site!Cells
    /\ SiteShown!Cells = Cells
    /\ SiteShown!Websites = Websites
<1>1. SiteShown!Cells = Site!Cells
  BY DEF SiteShown!Cells, Site!Cells, SiteShown!Positions, Site!Positions,
         SiteShown!PerQuery, Site!PerQuery
<1>2. SiteShown!Websites = Websites
  BY DEF SiteShown!Websites, Websites
<1> QED
  BY <1>1, <1>2, SameCells

LEMMA SiteAssumptions ==
    /\ SiteShown!PositionsAssumption
    /\ SiteShown!NoneAssumption
  BY SameSiteCells, PositionsAssumption, NoneAssumption
  DEF SiteShown!PositionsAssumption, SiteShown!NoneAssumption

LEMMA SameSiteSteps ==
    ASSUME NEW r \in Requests
    PROVE  /\ \A c : SiteShown!Arrive(r, c) <=> Site!Arrive(r, c)
           /\ SiteShown!HandleSite(r) <=> Site!HandleSite(r)
           /\ SiteShown!HandleAd(r) <=> Site!HandleAd(r)
           /\ SiteShown!Leave(r) <=> Site!Leave(r)
           /\ SiteShown!Expire(r) <=> Site!Expire(r)
           /\ SiteShown!DatabaseFails(r) <=> Site!DatabaseFails(r)
           /\ SiteShown!Finish(r) <=> Site!Finish(r)
  <1> USE DEF Site!GoTo, SiteShown!GoTo, Site!catalogueVars, SiteShown!catalogueVars
  <1>1. SiteShown!Serve(r) <=> Site!Serve(r)
    BY DEF SiteShown!Serve, Site!Serve
  <1>2. SiteShown!FindSite(r) <=> Site!FindSite(r)
    BY <1>1 DEF SiteShown!FindSite, Site!FindSite
  <1>3. SiteShown!Poll(r) <=> Site!Poll(r)
    <2>1. SiteShown!Lookup(r) = Site!Lookup(r)
      BY DEF SiteShown!Lookup, Site!Lookup
    <2>2. Site!Lookup(r) \in {"found", "context", "not found"}
      BY DEF Site!Lookup
    <2>3. CASE Site!Lookup(r) = "found"
      BY <1>1, <2>1, <2>3 DEF SiteShown!Poll, Site!Poll
    <2>4. CASE Site!Lookup(r) = "context"
      BY <2>1, <2>4 DEF SiteShown!Poll, Site!Poll
    <2>5. CASE Site!Lookup(r) = "not found"
      BY <2>1, <2>5 DEF SiteShown!Poll, Site!Poll
    <2> QED
      BY <2>2, <2>3, <2>4, <2>5
  <1>4. /\ SiteShown!FindRow(r) <=> Site!FindRow(r)
        /\ SiteShown!Enqueue(r) <=> Site!Enqueue(r)
        /\ SiteShown!GiveUp(r) <=> Site!GiveUp(r)
        /\ SiteShown!Tick(r) <=> Site!Tick(r)
        /\ SiteShown!LookInVain(r) <=> Site!LookInVain(r)
    BY DEF SiteShown!FindRow, Site!FindRow, SiteShown!LookInVain, Site!LookInVain,
           SiteShown!Enqueue, Site!Enqueue,
           SiteShown!GiveUp, Site!GiveUp, SiteShown!Tick, Site!Tick
  <1>5. SiteShown!Steps(r) <=> Site!Steps(r)
    BY <1>2, <1>3, <1>4 DEF SiteShown!Steps, Site!Steps
  <1>6. SiteShown!HandleSite(r) <=> Site!HandleSite(r)
    BY <1>5 DEF SiteShown!HandleSite, Site!HandleSite, SiteShown!For, Site!For
  <1>7. SiteShown!HandleAd(r) <=> Site!HandleAd(r)
    BY <1>5 DEF SiteShown!HandleAd, Site!HandleAd, SiteShown!For, Site!For
  <1>8. /\ \A c : SiteShown!Arrive(r, c) <=> Site!Arrive(r, c)
        /\ SiteShown!Leave(r) <=> Site!Leave(r)
        /\ SiteShown!Expire(r) <=> Site!Expire(r)
        /\ SiteShown!DatabaseFails(r) <=> Site!DatabaseFails(r)
        /\ SiteShown!Finish(r) <=> Site!Finish(r)
    BY DEF SiteShown!Arrive, Site!Arrive, SiteShown!Leave, Site!Leave,
           SiteShown!Expire, Site!Expire,
           SiteShown!DatabaseFails, Site!DatabaseFails, SiteShown!Finish, Site!Finish,
           SiteShown!Statuses, Site!Statuses
  <1> QED
    BY <1>6, <1>7, <1>8

LEMMA SameSites == Site!Spec => SiteShown!Spec
<1>1. Site!Init => SiteShown!Init
  BY SameSiteCells DEF Site!Init, SiteShown!Init, Site!CatalogueInit, SiteShown!CatalogueInit
<1>2. ASSUME Site!Next
      PROVE  SiteShown!Next
  <2>1. CASE Site!Fill
    <3>1. SiteShown!Fill
      BY <2>1, SameSiteCells
      DEF Site!Fill, SiteShown!Fill, Site!FillRow, SiteShown!FillRow, Site!FillSite,
          SiteShown!FillSite, Site!requestVars, SiteShown!requestVars
    <3> QED
      BY <3>1 DEF SiteShown!Next, SiteShown!Pipeline
  <2>2. CASE Site!DropJob
    BY <2>2
    DEF SiteShown!Next, SiteShown!Pipeline, Site!DropJob, SiteShown!DropJob,
        Site!catalogueVars, SiteShown!catalogueVars
  <2>3. CASE Site!Crash
    BY <2>3
    DEF SiteShown!Next, Site!Crash, SiteShown!Crash, Site!Statuses, SiteShown!Statuses,
        Site!catalogueVars, SiteShown!catalogueVars
  <2>4. ASSUME NEW r \in Requests,
               \/ \E c \in Site!Cells \cup {None} : Site!Arrive(r, c)
               \/ Site!HandleSite(r) \/ Site!HandleAd(r)
               \/ Site!Leave(r) \/ Site!Expire(r) \/ Site!DatabaseFails(r) \/ Site!Finish(r)
        PROVE  SiteShown!Next
    BY <2>4, SameSiteSteps, SameSiteCells DEF SiteShown!Next
  <2> QED
    BY <1>2, <2>1, <2>2, <2>3, <2>4 DEF Site!Next, Site!Pipeline
<1>3. [Site!Next]_Site!vars => [SiteShown!Next]_SiteShown!vars
  BY <1>2 DEF Site!vars, SiteShown!vars
<1> QED
  BY <1>1, <1>3, PTL DEF Site!Spec, SiteShown!Spec

\* Over the real queue, whatever a browser keeps for a link is what every later
\* visitor of it is served, and a request is answered 500 only if a lookup
\* failed, never because its poll ended (handleSite, handleAd, writeSiteHTML).
THEOREM RequestsAreHonest == EngineSpec => [](Site!BrowsersAgree /\ Site!NoMisleading500)
<1>1. /\ SiteShown!BrowsersAgree => Site!BrowsersAgree
      /\ SiteShown!NoMisleading500 => Site!NoMisleading500
  BY DEF SiteShown!BrowsersAgree, Site!BrowsersAgree, SiteShown!NoMisleading500,
         Site!NoMisleading500
<1>2. SiteShown!Spec => []SiteShown!BrowsersAgree /\ []SiteShown!NoMisleading500
  BY SiteAssumptions, SiteShown!BrowsersKeepAgreeing, SiteShown!ErrorsAreErrors
<1> QED
  BY <1>1, <1>2, PartsFit, SameSites, PTL DEF PartsAsSpecified
=============================================================================
