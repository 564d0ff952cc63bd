------------------------- MODULE FabricationProofs -------------------------
(***************************************************************************)
(* Proofs about the fabrication pipeline, for every number of queries,     *)
(* positions, visitors, workers, deliveries, page requests and failures.   *)
(***************************************************************************)
EXTENDS Fabrication, TLAPS

-----------------------------------------------------------------------------
(* The operators of the data *)

LEMMA CellsType ==
    ASSUME NEW c \in Cells
    PROVE  /\ c = <<c[1], c[2], c[3]>>
           /\ c[1] \in Kinds
           /\ c[2] \in Queries
           /\ c[3] \in Nat
           /\ c[3] \in Positions(c[1])
  BY PositionsAssumption DEF Cells, Kinds, Positions, PerQuery

\* Each position of a query names a cell.
LEMMA CellsHold ==
    ASSUME NEW kind \in Kinds, NEW query \in Queries, NEW p \in Positions(kind)
    PROVE  <<kind, query, p>> \in Cells
  BY DEF Cells, Kinds

\* Positions are numbers, so a payload can hold them.
LEMMA PositionsType ==
    ASSUME NEW kind \in Kinds
    PROVE  Positions(kind) \subseteq Nat
  BY PositionsAssumption DEF Kinds, Positions, PerQuery

\* What Job builds is a payload, and it names the cell it was built for.
LEMMA JobType ==
    ASSUME NEW stage \in Stages, NEW kind \in Kinds, NEW query \in Queries, NEW p \in Nat
    PROVE  /\ Job(stage, kind, query, p) \in Jobs
           /\ Job(stage, kind, query, p).stage = stage
           /\ CellOf(Job(stage, kind, query, p)) = <<kind, query, p>>
  BY DEF Job, Jobs, CellOf

-----------------------------------------------------------------------------
(* Type correctness *)

LEMMA TypeInit == Init => TypeOK
  BY BoundsAssumption, NoneAssumption DEF Init, TypeOK, Idle, Handler, Phases

(* The message a step creates is a message. *)
LEMMA CreateType ==
    ASSUME TypeOK, NEW job \in Jobs, Create(job)
    PROVE  queue' \subseteq Messages /\ nextId' \in Nat
  BY DEF TypeOK, Create, Messages, Message

\* An enqueue that fails leaves the queue as it is.
LEMMA EnqueueType ==
    ASSUME TypeOK, NEW job \in Jobs, EnqueueOrSwallow(job)
    PROVE  queue' \subseteq Messages /\ nextId' \in Nat /\ faults' \in 0 .. MaxFaults
  BY CreateType, BoundsAssumption DEF TypeOK, EnqueueOrSwallow, Fault

\* Every step is a step of one of these actions.
LEMMA NextCases ==
    ASSUME [Next]_vars
    PROVE  \/ \E v \in Visitors, q \in Queries : Search(v, q)
           \/ \E v \in Visitors : EnqueueGenerateResults(v)
           \/ \E v \in Visitors, stage \in {"fan-out", "site"}, kind \in Kinds :
                 EnqueueLast(v, stage, kind)
           \/ \E v \in Visitors, c \in Cells : OpenSite(v, c)
           \/ \E w \in Workers : Receive(w)
           \/ \E w \in Workers, kind \in Kinds : ReadPositions(w, kind)
           \/ \E w \in Workers, kind \in Kinds : CreateItem(w, kind)
           \/ \E w \in Workers, kind \in Kinds, f \in Fabrics : FabricateItem(w, kind, f)
           \/ \E w \in Workers, kind \in Kinds : InsertItem(w, kind)
           \/ \E w \in Workers, kind \in Kinds : ReadRow(w, kind)
           \/ \E w \in Workers, kind \in Kinds, f \in Fabrics : FabricateSite(w, kind, f)
           \/ \E w \in Workers, kind \in Kinds : InsertWebsiteOf(w, kind)
           \/ \E w \in Workers : Acknowledge(w)
           \/ \E w \in Workers : Abandon(w)
           \/ \E m \in queue : Timeout(m)
           \/ Crash
           \/ UNCHANGED vars
  BY DEF Next, VisitorStep, WorkerStep, EnqueueGenerateAds, EnqueueGenerateWebsite,
     EnqueueGenerateAdWebsite, HandleSite, HandleAd, GenerateResults, GenerateAds,
     GenerateResult, GenerateAd, GenerateWebsite, GenerateAdWebsite, Kinds, Stages

\* Each of the seventeen kinds of steps keeps the types; the inductive invariant
\* tells what a handler has in its hands when it inserts.
LEMMA TypeStep == TypeOK /\ IInv /\ [Next]_vars => TypeOK'
<1> SUFFICES ASSUME TypeOK, IInv, [Next]_vars
             PROVE  TypeOK'
  OBVIOUS
<1> USE BoundsAssumption DEF store, IInv
<1>1. ASSUME NEW v \in Visitors, NEW q \in Queries, Search(v, q)
      PROVE  TypeOK'
  <2>1. Job("fan-out", "result", q, 0) \in Jobs
    BY JobType DEF Stages, Kinds
  <2> QED
    BY <1>1, <2>1 DEF Search, Visit, TypeOK
<1>2. ASSUME NEW v \in Visitors, EnqueueGenerateResults(v)
      PROVE  TypeOK'
  <2>1. visitor[v] \in Jobs
    BY <1>2 DEF TypeOK, EnqueueGenerateResults
  <2>2. Job("fan-out", "ad", visitor[v].query, 0) \in Jobs
    BY <2>1, JobType DEF Stages, Kinds, Jobs
  <2>3. queue' \subseteq Messages /\ nextId' \in Nat /\ faults' \in 0 .. MaxFaults
    BY <1>2, <2>1, EnqueueType DEF EnqueueGenerateResults
  <2> QED
    BY <1>2, <2>2, <2>3 DEF EnqueueGenerateResults, TypeOK
<1>3. ASSUME NEW v \in Visitors, NEW stage, NEW kind, EnqueueLast(v, stage, kind)
      PROVE  TypeOK'
  <2>1. visitor[v] \in Jobs
    BY <1>3 DEF TypeOK, EnqueueLast
  <2>2. queue' \subseteq Messages /\ nextId' \in Nat /\ faults' \in 0 .. MaxFaults
    BY <1>3, <2>1, EnqueueType DEF EnqueueLast
  <2> QED
    BY <1>3, <2>2 DEF EnqueueLast, TypeOK
<1>4. ASSUME NEW v \in Visitors, NEW c \in Cells, OpenSite(v, c)
      PROVE  TypeOK'
  <2>1. Job("site", c[1], c[2], c[3]) \in Jobs
    BY CellsType, JobType DEF Stages
  <2> QED
    BY <1>4, <2>1 DEF OpenSite, Visit, TypeOK
<1>5. ASSUME NEW w \in Workers, Receive(w)
      PROVE  TypeOK'
  <2>1. PICK m \in queue :
          /\ queue' = (queue \ {m}) \cup {Message(m.id, m.job, m.received + 1, "hidden")}
          /\ worker' = [worker EXCEPT ![w] = Handler("start", m.id, m.job, {}, None, None)]
    BY <1>5 DEF Receive, Receivable
  <2>2. m \in Messages
    BY DEF TypeOK
  <2>3. Message(m.id, m.job, m.received + 1, "hidden") \in Messages
    BY <2>2 DEF Messages, Message
  <2> QED
    BY <1>5, <2>1, <2>2, <2>3 DEF Receive, TypeOK, Handler, Phases, Messages
<1>6. ASSUME NEW w \in Workers, NEW kind \in Kinds, ReadPositions(w, kind)
      PROVE  TypeOK'
  BY <1>6, PositionsType DEF ReadPositions, Continue, Handler, TypeOK, Phases
<1>7. ASSUME NEW w \in Workers, NEW kind \in Kinds, CreateItem(w, kind)
      PROVE  TypeOK'
  <2>1. PICK p \in worker[w].todo :
          /\ Create(Job("item", kind, worker[w].job.query, p))
          /\ Continue(w, "fanOut", worker[w].todo \ {p}, None, None)
    BY <1>7 DEF CreateItem
  <2>2. worker[w].job \in Jobs
    BY <1>7 DEF PhasesFit, CreateItem, Running
  <2>3. Job("item", kind, worker[w].job.query, p) \in Jobs
    BY <2>2, JobType DEF Stages, Jobs, TypeOK
  <2> QED
    BY <1>7, <2>1, <2>3, CreateType DEF CreateItem, Continue, Handler, TypeOK, Phases
<1>8. ASSUME NEW w \in Workers, NEW kind \in Kinds, NEW f \in Fabrics, FabricateItem(w, kind, f)
      PROVE  TypeOK'
  BY <1>8 DEF FabricateItem, Fabricate, Continue, Handler, TypeOK, Phases
<1>9. ASSUME NEW w \in Workers, NEW kind \in Kinds, InsertItem(w, kind)
      PROVE  TypeOK'
  <2>1. worker[w].output \in Fabrics
    BY <1>9 DEF InsertItem, Running, PhasesFit
  <2> QED
    BY <1>9, <2>1 DEF InsertItem, InsertRow, Continue, Handler, TypeOK, Phases
<1>10. ASSUME NEW w \in Workers, NEW kind \in Kinds, ReadRow(w, kind)
       PROVE  TypeOK'
  <2>1. rows[CellOf(worker[w].job)] \in Fabrics
    BY <1>10 DEF ReadRow, Running, GroundedJobs, Grounded, TypeOK
  <2> QED
    BY <1>10, <2>1 DEF ReadRow, Continue, Handler, TypeOK, Phases
<1>11. ASSUME NEW w \in Workers, NEW kind \in Kinds, NEW f \in Fabrics, FabricateSite(w, kind, f)
       PROVE  TypeOK'
  BY <1>11 DEF FabricateSite, Fabricate, Continue, Handler, TypeOK, Phases
<1>12. ASSUME NEW w \in Workers, NEW kind \in Kinds, InsertWebsiteOf(w, kind)
       PROVE  TypeOK'
  <2>1. worker[w].input \in Fabrics /\ worker[w].output \in Fabrics
    BY <1>12 DEF InsertWebsiteOf, Running, PhasesFit
  <2>2. [of |-> worker[w].input, html |-> worker[w].output] \in Websites
    BY <2>1 DEF Websites
  <2> QED
    BY <1>12, <2>2 DEF InsertWebsiteOf, InsertSite, Continue, Handler, TypeOK, Phases
<1>13. ASSUME NEW w \in Workers, Acknowledge(w)
       PROVE  TypeOK'
  BY <1>13 DEF Acknowledge, Returned, PhasesFit, TypeOK, Idle, Handler, Phases, Jobs
<1>14. ASSUME NEW w \in Workers, Abandon(w)
       PROVE  TypeOK'
  BY <1>14 DEF Abandon, Fault, TypeOK, Idle, Handler, Phases
<1>15. ASSUME NEW m \in queue, Timeout(m)
       PROVE  TypeOK'
  <2>1. m \in Messages /\ Message(m.id, m.job, m.received, "visible") \in Messages
    BY DEF TypeOK, Messages, Message
  <2>2. faults' \in 0 .. MaxFaults
    BY <1>15 DEF Timeout, Fault, TypeOK
  <2> QED
    BY <1>15, <2>1, <2>2 DEF Timeout, TypeOK
<1>16. CASE Crash
  BY <1>16 DEF Crash, Fault, TypeOK, Idle, Handler, Phases
<1>17. CASE UNCHANGED vars
  BY <1>17 DEF vars, TypeOK
<1> QED
  BY <1>1, <1>2, <1>3, <1>4, <1>5, <1>6, <1>7, <1>8, <1>9, <1>10, <1>11,
     <1>12, <1>13, <1>14, <1>15, <1>16, <1>17, NextCases

-----------------------------------------------------------------------------
(* What a step does to the tables, the queue and the handlers *)

\* No step takes a row, a website or a query away, and none replaces one.
LEMMA StoreStep ==
    ASSUME TypeOK, IInv, [Next]_vars
    PROVE  /\ queries \subseteq queries'
           /\ \A c \in Cells : rows[c] # None => rows'[c] = rows[c]
           /\ \A c \in Cells : sites[c] # None => sites'[c] = sites[c]
<1> USE DEF store
<1>1. CASE \E w \in Workers, kind \in Kinds : InsertItem(w, kind)
  BY <1>1 DEF InsertItem, InsertRow, Continue, TypeOK
<1>2. CASE \E w \in Workers, kind \in Kinds : InsertWebsiteOf(w, kind)
  BY <1>2 DEF InsertWebsiteOf, InsertSite, Continue, TypeOK
<1>3. CASE queries \subseteq queries' /\ UNCHANGED <<rows, sites>>
  BY <1>3
<1> QED
  BY <1>1, <1>2, <1>3, NextCases
  DEF Search, EnqueueGenerateResults, EnqueueLast, OpenSite, Receive, ReadPositions,
      CreateItem, FabricateItem, ReadRow, FabricateSite, Fabricate, Continue, Acknowledge,
      Abandon, Timeout, Crash, vars

\* A step creates one message, for a job that makes sense, or none; the
\* messages it keeps mean what they meant.
LEMMA QueueStep ==
    ASSUME TypeOK, IInv, [Next]_vars
    PROVE  \/ \E job \in Jobs : Grounded(job) /\ Create(job)
           \/ /\ nextId' = nextId
              /\ \A n \in queue' : \E m \in queue : m.id = n.id /\ m.job = n.job
<1> USE DEF IInv, store
<1>1. CASE \E v \in Visitors : EnqueueGenerateResults(v)
  BY <1>1 DEF EnqueueGenerateResults, EnqueueOrSwallow, VisitorsGrounded, TypeOK
<1>2. CASE \E v \in Visitors, stage \in {"fan-out", "site"}, kind \in Kinds :
                 EnqueueLast(v, stage, kind)
  BY <1>2 DEF EnqueueLast, EnqueueOrSwallow, VisitorsGrounded, TypeOK
<1>3. ASSUME NEW w \in Workers, NEW kind \in Kinds, CreateItem(w, kind)
      PROVE  \E job \in Jobs : Grounded(job) /\ Create(job)
  <2>1. PICK p \in worker[w].todo : Create(Job("item", kind, worker[w].job.query, p))
    BY <1>3 DEF CreateItem
  <2>2. worker[w].job \in Jobs /\ p \in Positions(kind)
    BY <1>3 DEF PhasesFit, CreateItem, Running
  <2>3. Job("item", kind, worker[w].job.query, p) \in Jobs
    BY <2>2, JobType, PositionsType DEF Stages, Jobs
  <2>4. worker[w].job.query \in queries
    BY <1>3 DEF CreateItem, Running, GroundedJobs, Grounded
  <2>5. Grounded(Job("item", kind, worker[w].job.query, p))
    BY <2>2, <2>4, CellsHold DEF Grounded, Job, CellOf, Jobs
  <2> QED
    BY <2>1, <2>3, <2>5
<1>4. CASE \E w \in Workers : Receive(w)
  BY <1>4 DEF Receive, Receivable, Message
<1>5. CASE \E m \in queue : Timeout(m)
  BY <1>5 DEF Timeout, Message
<1>6. CASE queue' \subseteq queue /\ nextId' = nextId
  BY <1>6
<1> QED
  BY <1>1, <1>2, <1>3, <1>4, <1>5, <1>6, NextCases
  DEF Search, OpenSite, ReadPositions, FabricateItem, InsertItem, ReadRow, FabricateSite,
      InsertWebsiteOf, Fabricate, Continue, Acknowledge, Abandon, Crash, vars

\* Only an acknowledgement takes a message away.
LEMMA MessagesStay ==
    ASSUME TypeOK, IInv, [Next]_vars
    PROVE  \/ \A m \in queue : \E n \in queue' : n.job = m.job
           \/ \E w \in Workers : Acknowledge(w)
<1> USE DEF store
<1>1. ASSUME NEW m \in queue, NEW received, NEW state,
             queue' = (queue \ {m}) \cup {Message(m.id, m.job, received, state)}
      PROVE  \A o \in queue : \E n \in queue' : n.job = o.job
  <2> SUFFICES ASSUME NEW o \in queue
               PROVE  \E n \in queue' : n.job = o.job
    OBVIOUS
  <2>1. CASE o = m
    <3>1. Message(m.id, m.job, received, state).job = o.job
      BY <2>1 DEF Message
    <3> QED
      BY <1>1, <3>1
  <2>2. CASE o # m
    BY <1>1, <2>2
  <2> QED
    BY <2>1, <2>2
<1>2. CASE (\E w \in Workers : Receive(w)) \/ (\E m \in queue : Timeout(m))
  BY <1>1, <1>2 DEF Receive, Receivable, Timeout
<1>3. CASE queue \subseteq queue'
  BY <1>3
<1> QED
  BY <1>2, <1>3, NextCases
  DEF Search, EnqueueGenerateResults, EnqueueLast, EnqueueOrSwallow, Create, OpenSite,
      ReadPositions, CreateItem, FabricateItem, InsertItem, ReadRow, FabricateSite,
      InsertWebsiteOf, Fabricate, Continue, Abandon, Crash, vars

\* What can happen to one handler in a step.
LEMMA HandlerCases ==
    ASSUME TypeOK, [Next]_vars, NEW x \in Workers
    PROVE  \/ worker'[x] = worker[x]
           \/ worker'[x] = Idle
           \/ \E m \in queue : worker'[x] = Handler("start", m.id, m.job, {}, None, None)
           \/ \E kind \in Kinds : ReadPositions(x, kind)
           \/ \E kind \in Kinds : CreateItem(x, kind)
           \/ \E kind \in Kinds, f \in Fabrics : FabricateItem(x, kind, f)
           \/ \E kind \in Kinds : InsertItem(x, kind)
           \/ \E kind \in Kinds : ReadRow(x, kind)
           \/ \E kind \in Kinds, f \in Fabrics : FabricateSite(x, kind, f)
           \/ \E kind \in Kinds : InsertWebsiteOf(x, kind)
<1> USE DEF TypeOK
<1>1. CASE \E w \in Workers : Receive(w)
  BY <1>1 DEF Receive, Receivable
<1>2. CASE \E w \in Workers : Acknowledge(w) \/ Abandon(w)
  BY <1>2 DEF Acknowledge, Abandon
<1>3. ASSUME NEW w \in Workers, w # x,
             NEW at, NEW todo, NEW input, NEW output, Continue(w, at, todo, input, output)
      PROVE  worker'[x] = worker[x]
  BY <1>3 DEF Continue
<1>4. ASSUME NEW w \in Workers, NEW kind \in Kinds,
             \/ ReadPositions(w, kind)
             \/ CreateItem(w, kind)
             \/ \E f \in Fabrics : FabricateItem(w, kind, f)
             \/ InsertItem(w, kind)
             \/ ReadRow(w, kind)
             \/ \E f \in Fabrics : FabricateSite(w, kind, f)
             \/ InsertWebsiteOf(w, kind)
      PROVE  w = x \/ worker'[x] = worker[x]
  BY <1>3, <1>4 DEF ReadPositions, CreateItem, FabricateItem, InsertItem, ReadRow,
     FabricateSite, InsertWebsiteOf, Fabricate
<1>5. CASE UNCHANGED worker
  BY <1>5
<1>6. CASE Crash
  BY <1>6 DEF Crash
<1> QED
  BY <1>1, <1>2, <1>4, <1>5, <1>6, NextCases
  DEF Search, EnqueueGenerateResults, EnqueueLast, OpenSite, Timeout, vars

\* A handler after a step: stopped, still on its message, or starting one.
LEMMA HandlersStep ==
    ASSUME TypeOK, IInv, [Next]_vars, NEW x \in Workers
    PROVE  \/ worker'[x] = Idle
           \/ worker'[x] = worker[x]
           \/ /\ worker[x].at # "idle"
              /\ worker'[x].id = worker[x].id
              /\ worker'[x].job = worker[x].job
           \/ \E m \in queue : worker'[x] = Handler("start", m.id, m.job, {}, None, None)
<1> USE DEF TypeOK
<1>1. ASSUME NEW at, NEW todo, NEW input, NEW output, Continue(x, at, todo, input, output)
      PROVE  worker'[x].id = worker[x].id /\ worker'[x].job = worker[x].job
  BY <1>1 DEF Continue, Handler
<1>2. CASE \E kind \in Kinds : ReadPositions(x, kind) \/ ReadRow(x, kind)
  BY <1>1, <1>2 DEF ReadPositions, ReadRow, Running
<1>3. CASE \E kind \in Kinds : CreateItem(x, kind)
  BY <1>1, <1>3 DEF CreateItem, Running
<1>4. CASE \E kind \in Kinds, f \in Fabrics : FabricateItem(x, kind, f) \/ FabricateSite(x, kind, f)
  BY <1>1, <1>4 DEF FabricateItem, FabricateSite, Fabricate, Running
<1>5. CASE \E kind \in Kinds : InsertItem(x, kind) \/ InsertWebsiteOf(x, kind)
  BY <1>1, <1>5 DEF InsertItem, InsertWebsiteOf, Running
<1> QED
  BY <1>2, <1>3, <1>4, <1>5, HandlerCases

\* The phase each case leads to.
LEMMA HandlerPhases ==
    ASSUME TypeOK, [Next]_vars, NEW x \in Workers
    PROVE  \/ worker'[x] = worker[x]
           \/ worker'[x].at \in {"idle", "start"}
           \/ /\ worker'[x].at = "fanOut"
              /\ \E kind \in Kinds : ReadPositions(x, kind) \/ CreateItem(x, kind)
           \/ /\ worker'[x].at = "llm"
              /\ \E kind \in Kinds : ReadRow(x, kind)
           \/ /\ worker'[x].at = "insert"
              /\ \E kind \in Kinds, f \in Fabrics :
                    FabricateItem(x, kind, f) \/ FabricateSite(x, kind, f)
           \/ /\ worker'[x].at = "done"
              /\ \E kind \in Kinds : InsertItem(x, kind) \/ InsertWebsiteOf(x, kind)
<1> USE DEF TypeOK
<1>1. ASSUME NEW at, NEW todo, NEW input, NEW output, Continue(x, at, todo, input, output)
      PROVE  worker'[x].at = at
  BY <1>1 DEF Continue, Handler
<1>2. ASSUME NEW kind \in Kinds, ReadPositions(x, kind) \/ CreateItem(x, kind)
      PROVE  worker'[x].at = "fanOut"
  BY <1>1, <1>2 DEF ReadPositions, CreateItem
<1>3. ASSUME NEW kind \in Kinds, ReadRow(x, kind)
      PROVE  worker'[x].at = "llm"
  BY <1>1, <1>3 DEF ReadRow
<1>4. ASSUME NEW kind \in Kinds, NEW f \in Fabrics,
             FabricateItem(x, kind, f) \/ FabricateSite(x, kind, f)
      PROVE  worker'[x].at = "insert"
  BY <1>1, <1>4 DEF FabricateItem, FabricateSite, Fabricate
<1>5. ASSUME NEW kind \in Kinds, InsertItem(x, kind) \/ InsertWebsiteOf(x, kind)
      PROVE  worker'[x].at = "done"
  BY <1>1, <1>5 DEF InsertItem, InsertWebsiteOf
<1>6. CASE worker'[x] = Idle
  BY <1>6 DEF Idle, Handler
<1>7. CASE \E m \in queue : worker'[x] = Handler("start", m.id, m.job, {}, None, None)
  BY <1>7 DEF Handler
<1> QED
  BY <1>2, <1>3, <1>4, <1>5, <1>6, <1>7, HandlerCases

-----------------------------------------------------------------------------
(* The parts of the inductive invariant *)

LEMMA IdsStep == TypeOK /\ IInv /\ [Next]_vars => IdsMeanJobs'
<1> SUFFICES ASSUME TypeOK, IInv, [Next]_vars
             PROVE  IdsMeanJobs'
  OBVIOUS
<1> USE DEF IInv
<1>1. /\ nextId' \in Nat
      /\ nextId <= nextId'
      /\ \A n \in queue' : \/ n.id = nextId /\ n.id < nextId'
                           \/ \E m \in queue : m.id = n.id /\ m.job = n.job
      /\ \A m, n \in queue' : m.id = nextId /\ n.id = nextId => m.job = n.job
  BY QueueStep DEF TypeOK, Create, Message, IdsMeanJobs, Messages
<1>2. \A m \in queue' : m.id < nextId'
  BY <1>1 DEF IdsMeanJobs, TypeOK, Messages
<1>3. \A m, n \in queue' : m.id = n.id => m.job = n.job
  BY <1>1 DEF IdsMeanJobs, TypeOK, Messages
<1>4. ASSUME NEW w \in Workers, worker'[w].at # "idle"
      PROVE  /\ worker'[w].id < nextId'
             /\ worker'[w].id < nextId
             /\ \A m \in queue : m.id = worker'[w].id => m.job = worker'[w].job
  <2>1. CASE worker'[w] = worker[w]
    BY <1>1, <1>4, <2>1 DEF IdsMeanJobs, TypeOK
  <2>2. CASE /\ worker[w].at # "idle"
             /\ worker'[w].id = worker[w].id
             /\ worker'[w].job = worker[w].job
    BY <1>1, <2>2 DEF IdsMeanJobs, TypeOK
  <2>3. CASE \E m \in queue : worker'[w] = Handler("start", m.id, m.job, {}, None, None)
    BY <1>1, <2>3 DEF IdsMeanJobs, TypeOK, Handler, Messages
  <2>4. worker'[w] # Idle
    BY <1>4 DEF Idle, Handler
  <2> QED
    BY <2>1, <2>2, <2>3, <2>4, HandlersStep
<1>5. ASSUME NEW w \in Workers, worker'[w].at # "idle",
             NEW m \in queue', m.id = worker'[w].id
      PROVE  m.job = worker'[w].job
  BY <1>1, <1>4, <1>5 DEF TypeOK
<1> QED
  BY <1>2, <1>3, <1>4, <1>5 DEF IdsMeanJobs

\* Grounded in the state after the step.
GroundedAfter(job) ==
    /\ job.query \in queries'
    /\ job.stage # "fan-out" => CellOf(job) \in Cells
    /\ job.stage = "site" => rows'[CellOf(job)] # None

\* What a job refers to stays.
LEMMA GroundedStays ==
    ASSUME TypeOK, IInv, [Next]_vars
    PROVE  \A job \in Jobs : Grounded(job) => GroundedAfter(job)
<1> SUFFICES ASSUME NEW job \in Jobs, Grounded(job)
             PROVE  GroundedAfter(job)
  OBVIOUS
<1>1. job.stage = "site" => CellOf(job) \in Cells /\ rows[CellOf(job)] # None
  BY DEF Grounded
<1> QED
  BY <1>1, StoreStep DEF Grounded, GroundedAfter

\* A new message is for a grounded job, and a worker starts with the job of a
\* message.
LEMMA GroundedStep == TypeOK /\ IInv /\ [Next]_vars => GroundedJobs'
<1> SUFFICES ASSUME TypeOK, IInv, [Next]_vars
             PROVE  GroundedJobs'
  OBVIOUS
<1> USE DEF IInv
<1>1. \A m \in queue : GroundedAfter(m.job)
  BY GroundedStays DEF GroundedJobs, TypeOK, Messages
<1>2. ASSUME NEW n \in queue'
      PROVE  GroundedAfter(n.job)
  <2>1. CASE \E m \in queue : m.id = n.id /\ m.job = n.job
    BY <1>1, <2>1
  <2>2. ASSUME NEW job \in Jobs, Grounded(job), Create(job)
        PROVE  GroundedAfter(n.job)
    BY <1>1, <2>2, GroundedStays DEF Create, Message
  <2> QED
    BY <2>1, <2>2, QueueStep
<1>3. ASSUME NEW w \in Workers, worker'[w].at # "idle"
      PROVE  GroundedAfter(worker'[w].job)
  <2>1. worker[w].at # "idle" => GroundedAfter(worker[w].job)
    BY GroundedStays DEF GroundedJobs, PhasesFit
  <2>2. CASE worker'[w] = worker[w]
    BY <1>3, <2>1, <2>2
  <2>3. CASE \E m \in queue : worker'[w] = Handler("start", m.id, m.job, {}, None, None)
    BY <1>1, <2>3 DEF Handler
  <2>4. worker'[w] # Idle
    BY <1>3 DEF Idle, Handler
  <2> QED
    BY <2>1, <2>2, <2>3, <2>4, HandlersStep
<1> QED
  BY <1>2, <1>3 DEF GroundedJobs, Grounded, GroundedAfter

\* A page handler looks up the query or the row before it enqueues a job for it.
LEMMA VisitorsStep == TypeOK /\ IInv /\ [Next]_vars => VisitorsGrounded'
<1> SUFFICES ASSUME TypeOK, IInv, [Next]_vars, NEW x \in Visitors, visitor'[x] # None
             PROVE  GroundedAfter(visitor'[x])
  BY DEF VisitorsGrounded, Grounded, GroundedAfter
<1> USE DEF store, TypeOK
<1>1. visitor[x] # None => GroundedAfter(visitor[x])
  BY GroundedStays DEF IInv, VisitorsGrounded
<1>2. CASE visitor'[x] = visitor[x]
  BY <1>1, <1>2
<1>3. ASSUME NEW v \in Visitors, NEW q \in Queries, Search(v, q)
      PROVE  GroundedAfter(visitor'[x])
  <2>1. CASE x = v
    BY <1>3, <2>1 DEF Search, Job, GroundedAfter
  <2> QED
    BY <1>2, <1>3, <2>1 DEF Search
<1>4. ASSUME NEW v \in Visitors, EnqueueGenerateResults(v)
      PROVE  GroundedAfter(visitor'[x])
  <2>1. CASE x = v
    BY <1>1, <1>4, <2>1 DEF EnqueueGenerateResults, Job, GroundedAfter
  <2> QED
    BY <1>2, <1>4, <2>1 DEF EnqueueGenerateResults
<1>5. ASSUME NEW v \in Visitors, NEW c \in Cells, OpenSite(v, c)
      PROVE  GroundedAfter(visitor'[x])
  <2> DEFINE job == Job("site", c[1], c[2], c[3])
  <2>1. CellOf(job) = c
    BY CellsType DEF CellOf, Job
  <2>2. CASE x = v
    BY <1>5, <2>1, <2>2 DEF OpenSite, Job, GroundedAfter, IInv, RowsGrounded
  <2> QED
    BY <1>2, <1>5, <2>2 DEF OpenSite
<1>6. CASE \E v \in Visitors, stage \in {"fan-out", "site"}, kind \in Kinds :
                 EnqueueLast(v, stage, kind)
  BY <1>2, <1>6 DEF EnqueueLast
<1> QED
  BY <1>2, <1>3, <1>4, <1>5, <1>6, NextCases
  DEF Receive, ReadPositions, CreateItem, FabricateItem, InsertItem, ReadRow, FabricateSite,
      InsertWebsiteOf, Fabricate, Continue, Acknowledge, Abandon, Timeout, Crash, vars

\* A row is inserted by an item job, whose query is stored.
LEMMA RowsStep == TypeOK /\ IInv /\ [Next]_vars => RowsGrounded'
<1> SUFFICES ASSUME TypeOK, IInv, [Next]_vars, NEW c \in Cells, rows'[c] # None
             PROVE  c[2] \in queries'
  BY DEF RowsGrounded
<1>1. CASE rows'[c] = rows[c]
  BY <1>1, StoreStep DEF IInv, RowsGrounded
<1>2. ASSUME NEW w \in Workers, NEW kind \in Kinds, InsertItem(w, kind)
      PROVE  c[2] \in queries'
  <2>1. rows'[c] = rows[c] \/ c = CellOf(worker[w].job)
    BY <1>2 DEF InsertItem, InsertRow, TypeOK
  <2>2. CellOf(worker[w].job)[2] \in queries
    BY <1>2 DEF InsertItem, Running, IInv, GroundedJobs, Grounded, CellOf
  <2> QED
    BY <1>1, <2>1, <2>2, StoreStep
<1> QED
  BY <1>1, <1>2, NextCases
  DEF Search, EnqueueGenerateResults, EnqueueLast, OpenSite, Receive, ReadPositions,
      CreateItem, FabricateItem, ReadRow, FabricateSite, InsertWebsiteOf, Fabricate,
      Continue, Acknowledge, Abandon, Timeout, Crash, vars, store

\* A handler keeps what it needs from phase to phase.
LEMMA PhasesStep == TypeOK /\ IInv /\ [Next]_vars => PhasesFit'
<1> DEFINE Fits(h) ==
        /\ h.at # "idle" => h.job \in Jobs
        /\ h.at = "fanOut" => /\ h.job.stage = "fan-out"
                              /\ h.todo \subseteq Positions(h.job.kind)
        /\ h.at = "llm" => h.job.stage = "site" /\ h.input \in Fabrics
        /\ h.at = "insert" => h.output \in Fabrics
        /\ h.at = "insert" /\ h.job.stage = "site" => h.input \in Fabrics
        /\ h.at = "done" => h.job.stage # "fan-out"
<1> SUFFICES ASSUME TypeOK, IInv, [Next]_vars, NEW x \in Workers
             PROVE  Fits(worker'[x])
  BY DEF PhasesFit
<1> USE DEF store, TypeOK
<1>1. Fits(worker[x])
  BY DEF IInv, PhasesFit
<1>2. CASE worker'[x] = worker[x]
  BY <1>1, <1>2
<1>3. CASE worker'[x] = Idle
  BY <1>3 DEF Idle, Handler
<1>4. CASE \E m \in queue : worker'[x] = Handler("start", m.id, m.job, {}, None, None)
  BY <1>4 DEF Handler, Messages
<1>5. CASE \E kind \in Kinds : ReadPositions(x, kind)
  BY <1>1, <1>5 DEF ReadPositions, Running, Continue, Handler
<1>6. CASE \E kind \in Kinds : CreateItem(x, kind)
  BY <1>1, <1>6 DEF CreateItem, Running, Continue, Handler
<1>7. CASE \E kind \in Kinds, f \in Fabrics : FabricateItem(x, kind, f)
  BY <1>1, <1>7 DEF FabricateItem, Fabricate, Running, Continue, Handler
<1>8. CASE \E kind \in Kinds : InsertItem(x, kind)
  BY <1>1, <1>8 DEF InsertItem, Running, Continue, Handler
<1>9. ASSUME NEW kind \in Kinds, ReadRow(x, kind)
      PROVE  Fits(worker'[x])
  <2>1. rows[CellOf(worker[x].job)] \in Fabrics
    BY <1>9 DEF ReadRow, Running, IInv, GroundedJobs, Grounded
  <2> QED
    BY <1>1, <1>9, <2>1 DEF ReadRow, Running, Continue, Handler
<1>10. CASE \E kind \in Kinds, f \in Fabrics : FabricateSite(x, kind, f)
  BY <1>1, <1>10 DEF FabricateSite, Fabricate, Running, Continue, Handler
<1>11. CASE \E kind \in Kinds : InsertWebsiteOf(x, kind)
  BY <1>1, <1>11 DEF InsertWebsiteOf, Running, Continue, Handler
<1> QED
  BY <1>2, <1>3, <1>4, <1>5, <1>6, <1>7, <1>8, <1>9, <1>10, <1>11, HandlerCases

\* Covered in the state after the step.
CoveredAfter(kind, query, p) ==
    \/ rows'[<<kind, query, p>>] # None
    \/ \E m \in queue' : m.job = Job("item", kind, query, p)

\* A message for a position goes away only when its row is there.
LEMMA CoveredStays ==
    ASSUME TypeOK, IInv, [Next]_vars,
           NEW kind \in Kinds, NEW query \in Queries, NEW p \in Positions(kind),
           Covered(kind, query, p)
    PROVE  CoveredAfter(kind, query, p)
<1> DEFINE job == Job("item", kind, query, p)
<1>1. <<kind, query, p>> \in Cells
  BY CellsHold
<1>2. job.stage = "item" /\ CellOf(job) = <<kind, query, p>>
  BY DEF Job, CellOf
<1>3. CASE rows[<<kind, query, p>>] # None
  BY <1>1, <1>3, StoreStep DEF CoveredAfter
<1>4. ASSUME NEW m \in queue, m.job = job, \A o \in queue : \E n \in queue' : n.job = o.job
      PROVE  CoveredAfter(kind, query, p)
  BY <1>4 DEF CoveredAfter
<1>5. ASSUME NEW m \in queue, m.job = job, NEW w \in Workers, Acknowledge(w)
      PROVE  CoveredAfter(kind, query, p)
  <2>1. CASE m.id # worker[w].id
    <3>1. m \in queue'
      BY <1>5, <2>1 DEF Acknowledge
    <3> QED
      BY <1>5, <3>1 DEF CoveredAfter
  <2>2. CASE m.id = worker[w].id
    <3>1. worker[w].job = job
      BY <1>5, <2>2 DEF Acknowledge, Returned, IInv, IdsMeanJobs
    <3>2. worker[w].at = "done"
      BY <1>2, <1>5, <3>1 DEF Acknowledge, Returned, IInv, PhasesFit
    <3>3. rows[<<kind, query, p>>] # None
      BY <1>2, <3>1, <3>2 DEF IInv, DoneIsStored
    <3> QED
      BY <1>3, <3>3
  <2> QED
    BY <2>1, <2>2
<1> QED
  BY <1>3, <1>4, <1>5, MessagesStay DEF Covered

\* A fan-out starts with the positions that have no row and drops one from its
\* list only with a message for it.
LEMMA FanOutStep == TypeOK /\ IInv /\ [Next]_vars => FanOutCovers'
<1> SUFFICES ASSUME TypeOK, IInv, [Next]_vars,
                    NEW x \in Workers, worker'[x].at = "fanOut",
                    NEW p \in Positions(worker'[x].job.kind) \ worker'[x].todo
             PROVE  CoveredAfter(worker'[x].job.kind, worker'[x].job.query, p)
  BY DEF FanOutCovers, Covered, CoveredAfter
<1> USE DEF TypeOK
<1>1. worker[x].at # "idle" => worker[x].job \in Jobs
  BY DEF IInv, PhasesFit
<1>2. ASSUME worker[x].at = "fanOut", p \notin worker[x].todo, worker'[x].job = worker[x].job
      PROVE  CoveredAfter(worker'[x].job.kind, worker'[x].job.query, p)
  <2>1. Covered(worker[x].job.kind, worker[x].job.query, p)
    BY <1>2 DEF IInv, FanOutCovers
  <2> QED
    BY <1>1, <1>2, <2>1, CoveredStays DEF Jobs
<1>3. CASE worker'[x] = worker[x]
  BY <1>2, <1>3
<1>4. ASSUME NEW kind \in Kinds, ReadPositions(x, kind)
      PROVE  CoveredAfter(worker'[x].job.kind, worker'[x].job.query, p)
  <2>1. /\ worker'[x].job = worker[x].job
        /\ worker[x].job.kind = kind
        /\ p \in Filled(kind, worker[x].job.query)
    BY <1>4 DEF ReadPositions, Running, Continue, Handler
  <2> QED
    BY <1>4, <2>1 DEF ReadPositions, Filled, CoveredAfter
<1>5. ASSUME NEW kind \in Kinds, CreateItem(x, kind)
      PROVE  CoveredAfter(worker'[x].job.kind, worker'[x].job.query, p)
  <2>1. PICK o \in worker[x].todo :
          /\ Create(Job("item", kind, worker[x].job.query, o))
          /\ Continue(x, "fanOut", worker[x].todo \ {o}, None, None)
    BY <1>5 DEF CreateItem
  <2>2. /\ worker'[x].job = worker[x].job
        /\ worker[x].job.kind = kind
        /\ worker[x].at = "fanOut"
        /\ worker'[x].todo = worker[x].todo \ {o}
    BY <1>5, <2>1 DEF CreateItem, Running, Continue, Handler
  <2>3. CASE p = o
    <3>1. \E m \in queue' : m.job = Job("item", kind, worker[x].job.query, p)
      <4> DEFINE new == Message(nextId, Job("item", kind, worker[x].job.query, o), 0, "visible")
      <4>1. new \in queue'
        BY <2>1 DEF Create
      <4>2. new.job = Job("item", kind, worker[x].job.query, o)
        BY DEF Message
      <4> HIDE DEF new
      <4> QED
        BY <2>3, <4>1, <4>2
    <3> QED
      BY <2>2, <3>1 DEF CoveredAfter
  <2>4. CASE p # o
    BY <1>2, <2>2, <2>4
  <2> QED
    BY <2>3, <2>4
<1>6. \/ worker'[x] = worker[x]
      \/ \E kind \in Kinds : ReadPositions(x, kind)
      \/ \E kind \in Kinds : CreateItem(x, kind)
  BY HandlerPhases
<1> QED
  BY <1>3, <1>4, <1>5, <1>6

\* An item job is done when its row is stored, whoever stored it.
LEMMA DoneStep == TypeOK /\ IInv /\ [Next]_vars => DoneIsStored'
<1> SUFFICES ASSUME TypeOK, IInv, [Next]_vars, NEW x \in Workers,
                    worker'[x].at = "done", worker'[x].job.stage = "item"
             PROVE  rows'[CellOf(worker'[x].job)] # None
  BY DEF DoneIsStored
<1> USE DEF TypeOK
<1>1. worker[x].at # "idle" /\ worker[x].job.stage = "item" => CellOf(worker[x].job) \in Cells
  BY DEF IInv, GroundedJobs, Grounded
<1>2. CASE worker'[x] = worker[x]
  BY <1>1, <1>2, StoreStep DEF IInv, DoneIsStored
<1>3. ASSUME NEW kind \in Kinds, InsertItem(x, kind)
      PROVE  rows'[CellOf(worker'[x].job)] # None
  <2>1. worker'[x].job = worker[x].job
    BY <1>3 DEF InsertItem, Continue, Handler
  <2>2. worker[x].output # None
    BY <1>3, NoneAssumption DEF InsertItem, Running, IInv, PhasesFit
  <2> QED
    BY <1>1, <1>3, <2>1, <2>2 DEF InsertItem, InsertRow, Running
<1>4. CASE \E kind \in Kinds : InsertWebsiteOf(x, kind)
  BY <1>4 DEF InsertWebsiteOf, Running, Continue, Handler
<1>5. \/ worker'[x] = worker[x]
      \/ \E kind \in Kinds : InsertItem(x, kind)
      \/ \E kind \in Kinds : InsertWebsiteOf(x, kind)
  BY HandlerPhases
<1> QED
  BY <1>2, <1>3, <1>4, <1>5

\* The row a site job read stays the row that is stored.
LEMMA SnapshotsStep == TypeOK /\ IInv /\ [Next]_vars => SnapshotsCurrent'
<1> SUFFICES ASSUME TypeOK, IInv, [Next]_vars, NEW x \in Workers,
                    worker'[x].at \in {"llm", "insert"}, worker'[x].job.stage = "site"
             PROVE  worker'[x].input = rows'[CellOf(worker'[x].job)]
  BY DEF SnapshotsCurrent
<1> USE DEF TypeOK
<1>1. worker[x].at # "idle" /\ worker[x].job.stage = "site" =>
         /\ CellOf(worker[x].job) \in Cells
         /\ rows[CellOf(worker[x].job)] # None
         /\ rows'[CellOf(worker[x].job)] = rows[CellOf(worker[x].job)]
  BY StoreStep DEF IInv, GroundedJobs, Grounded
<1>2. CASE worker'[x] = worker[x]
  BY <1>1, <1>2 DEF IInv, SnapshotsCurrent
<1>3. CASE \E kind \in Kinds : ReadRow(x, kind)
  BY <1>1, <1>3 DEF ReadRow, Running, Continue, Handler
<1>4. CASE \E kind \in Kinds, f \in Fabrics : FabricateSite(x, kind, f)
  BY <1>1, <1>4 DEF FabricateSite, Fabricate, Running, Continue, Handler, IInv, SnapshotsCurrent
<1>5. CASE \E kind \in Kinds, f \in Fabrics : FabricateItem(x, kind, f)
  BY <1>5 DEF FabricateItem, Fabricate, Running, Continue, Handler
<1>6. \/ worker'[x] = worker[x]
      \/ \E kind \in Kinds : ReadRow(x, kind)
      \/ \E kind \in Kinds, f \in Fabrics : FabricateSite(x, kind, f)
      \/ \E kind \in Kinds, f \in Fabrics : FabricateItem(x, kind, f)
  BY HandlerPhases
<1> QED
  BY <1>2, <1>3, <1>4, <1>5, <1>6

\* A fan-out is acknowledged when it has covered every position, and covered
\* positions stay covered.
LEMMA ForgottenStep == TypeOK /\ IInv /\ [Next]_vars => NoPositionForgotten'
<1> SUFFICES ASSUME TypeOK, IInv, [Next]_vars,
                    NEW kind \in Kinds, NEW query \in Queries, <<kind, query>> \in fannedOut',
                    NEW p \in Positions(kind)
             PROVE  CoveredAfter(kind, query, p)
  BY DEF NoPositionForgotten, Covered, CoveredAfter
<1>1. CASE <<kind, query>> \in fannedOut
  BY <1>1, CoveredStays DEF IInv, NoPositionForgotten
<1>2. ASSUME NEW w \in Workers, Acknowledge(w), <<kind, query>> \notin fannedOut
      PROVE  CoveredAfter(kind, query, p)
  <2>1. /\ worker[w].job.stage = "fan-out"
        /\ worker[w].job.kind = kind
        /\ worker[w].job.query = query
    BY <1>2 DEF Acknowledge
  <2>2. worker[w].at = "fanOut" /\ worker[w].todo = {}
    BY <1>2, <2>1 DEF Acknowledge, Returned, IInv, PhasesFit
  <2>3. Covered(kind, query, p)
    BY <2>1, <2>2 DEF IInv, FanOutCovers
  <2> QED
    BY <2>3, CoveredStays
<1>3. CASE UNCHANGED fannedOut
  BY <1>1, <1>3
<1> QED
  BY <1>1, <1>2, <1>3, NextCases
  DEF Search, EnqueueGenerateResults, EnqueueLast, OpenSite, Receive, ReadPositions,
      CreateItem, FabricateItem, InsertItem, ReadRow, FabricateSite, InsertWebsiteOf,
      Fabricate, Continue, Abandon, Timeout, Crash, vars

\* A website is inserted with the row its job read, which is the one stored.
LEMMA SitesStep == TypeOK /\ IInv /\ [Next]_vars => SitesMatchRows'
<1> SUFFICES ASSUME TypeOK, IInv, [Next]_vars, NEW c \in Cells, sites'[c] # None
             PROVE  sites'[c].of = rows'[c]
  BY DEF SitesMatchRows
<1>1. CASE sites[c] # None
  <2>1. sites[c].of = rows[c] /\ rows[c] \in Fabrics
    BY <1>1 DEF IInv, SitesMatchRows, TypeOK, Websites
  <2> QED
    BY <1>1, <2>1, StoreStep, NoneAssumption
<1>2. ASSUME NEW w \in Workers, NEW kind \in Kinds, InsertWebsiteOf(w, kind), sites[c] = None
      PROVE  sites'[c].of = rows'[c]
  <2>1. /\ c = CellOf(worker[w].job)
        /\ sites'[c] = [of |-> worker[w].input, html |-> worker[w].output]
    BY <1>2 DEF InsertWebsiteOf, InsertSite, TypeOK
  <2>2. worker[w].input = rows[c]
    BY <1>2, <2>1 DEF InsertWebsiteOf, Running, IInv, SnapshotsCurrent
  <2> QED
    BY <1>2, <2>1, <2>2 DEF InsertWebsiteOf
<1>3. CASE UNCHANGED sites
  BY <1>1, <1>3
<1> QED
  BY <1>1, <1>2, <1>3, NextCases
  DEF Search, EnqueueGenerateResults, EnqueueLast, OpenSite, Receive, ReadPositions,
      CreateItem, FabricateItem, InsertItem, ReadRow, FabricateSite, Fabricate, Continue,
      Acknowledge, Abandon, Timeout, Crash, vars, store

-----------------------------------------------------------------------------
(* The theorems *)

LEMMA InvInit == Init => TypeOK /\ IInv
  BY TypeInit
  DEF Init, Idle, Handler, IInv, IdsMeanJobs, PhasesFit, GroundedJobs, RowsGrounded,
      VisitorsGrounded, FanOutCovers, DoneIsStored, SnapshotsCurrent, NoPositionForgotten,
      SitesMatchRows

LEMMA InvStep == TypeOK /\ IInv /\ [Next]_vars => TypeOK' /\ IInv'
  BY TypeStep, IdsStep, PhasesStep, GroundedStep, RowsStep, VisitorsStep, FanOutStep,
     DoneStep, SnapshotsStep, ForgottenStep, SitesStep DEF IInv

LEMMA Invariance == Spec => [](TypeOK /\ IInv)
  BY InvInit, InvStep, PTL DEF Spec

\* The variables keep their types.
THEOREM TypeCorrect == Spec => []TypeOK
  BY Invariance, PTL

\* The invariant behind all the others: ids of messages keep their meaning, fan-outs
\* cover every position, and what handlers hold is stored (goqite's Receive and
\* Delete, GenerateResults, GenerateResult, GenerateWebsite and their twins for ads).
THEOREM InvariantHolds == Spec => []IInv
  BY Invariance, PTL

\* An acknowledged fan-out job of package jobs leaves no position behind: each
\* has its row or a message that will not go away before the row is there.
THEOREM NothingForgotten == Spec => []NoPositionForgotten
<1>1. TypeOK /\ IInv => NoPositionForgotten
  BY DEF IInv
<1> QED
  BY <1>1, Invariance, PTL

\* No job, queued or running, refers to a query, a position or a row that the
\* tables do not hold.
THEOREM JobsAreGrounded == Spec => []GroundedJobs
<1>1. TypeOK /\ IInv => GroundedJobs
  BY DEF IInv
<1> QED
  BY <1>1, Invariance, PTL

\* A stored website was fabricated from the row stored for its link.
THEOREM SitesFromTheirRows == Spec => []SitesMatchRows
<1>1. TypeOK /\ IInv => SitesMatchRows
  BY DEF IInv
<1> QED
  BY <1>1, Invariance, PTL

\* Rows and websites are written once, whatever is delivered twice.
THEOREM WrittenOnce == Spec => FirstWriteWins
<1>1. TypeOK /\ IInv /\ [Next]_vars
        => [\A c \in Cells : /\ rows[c] # None => rows'[c] = rows[c]
                             /\ sites[c] # None => sites'[c] = sites[c]]_vars
  BY StoreStep
<1> QED
  BY <1>1, Invariance, PTL DEF Spec, FirstWriteWins

\* Only a fan-out that still has a position to enqueue creates item jobs.
LEMMA ItemsStep ==
    ASSUME TypeOK, IInv, [Next]_vars, NEW n \in queue', n.job.stage = "item"
    PROVE  \/ \E m \in queue : m.job = n.job
           \/ \E w \in Workers : /\ worker[w].at = "fanOut"
                                 /\ worker[w].todo # {}
                                 /\ worker[w].job.kind = n.job.kind
                                 /\ worker[w].job.query = n.job.query
<1> USE DEF store
<1>1. CASE \E v \in Visitors : EnqueueGenerateResults(v)
  BY <1>1 DEF EnqueueGenerateResults, EnqueueOrSwallow, Create, Message
<1>2. CASE \E v \in Visitors, stage \in {"fan-out", "site"}, kind \in Kinds :
              EnqueueLast(v, stage, kind)
  BY <1>2 DEF EnqueueLast, EnqueueOrSwallow, Create, Message
<1>3. ASSUME NEW w \in Workers, NEW kind \in Kinds, CreateItem(w, kind)
      PROVE  \/ n \in queue
             \/ /\ worker[w].at = "fanOut"
                /\ worker[w].todo # {}
                /\ worker[w].job.kind = n.job.kind
                /\ worker[w].job.query = n.job.query
  BY <1>3 DEF CreateItem, Running, Create, Message, Job
<1>4. CASE \E m \in queue : m.job = n.job
  BY <1>4
<1>5. CASE (\E w \in Workers : Receive(w)) \/ (\E m \in queue : Timeout(m))
  BY <1>4, <1>5 DEF Receive, Receivable, Timeout, Message
<1>6. CASE queue' \subseteq queue
  BY <1>4, <1>6
<1> QED
  BY <1>1, <1>2, <1>3, <1>4, <1>5, <1>6, NextCases
  DEF Search, OpenSite, ReadPositions, FabricateItem, InsertItem, ReadRow, FabricateSite,
      InsertWebsiteOf, Fabricate, Continue, Acknowledge, Abandon, Crash, vars

\* Once a query is settled, no step brings item jobs back.
LEMMA SettledStep ==
    ASSUME TypeOK, IInv, [Next]_vars,
           NEW kind \in Kinds, NEW query \in Queries, Settled(kind, query)
    PROVE  Settled(kind, query)'
<1>1. \A p \in Positions(kind) : rows[<<kind, query, p>>] # None /\ rows'[<<kind, query, p>>] # None
  BY StoreStep, CellsHold DEF Settled, AllFilled, Filled
<1>2. AllFilled(kind, query)'
  BY <1>1 DEF AllFilled, Filled
<1>3. \A n \in queue' : ~(n.job.stage = "item" /\ n.job.kind = kind /\ n.job.query = query)
  BY ItemsStep DEF Settled
<1>4. ASSUME NEW x \in Workers, worker'[x].at = "fanOut",
             worker'[x].job.kind = kind, worker'[x].job.query = query
      PROVE  worker'[x].todo = {}
  <2>1. CASE worker'[x] = worker[x]
    BY <1>4, <2>1 DEF Settled
  <2>2. ASSUME NEW k \in Kinds, ReadPositions(x, k)
        PROVE  worker'[x].todo = {}
    <3>1. /\ worker'[x].todo = Positions(k) \ Filled(k, worker[x].job.query)
          /\ worker'[x].job = worker[x].job
          /\ worker[x].job.kind = k
      BY <2>2 DEF ReadPositions, Running, Continue, Handler, TypeOK
    <3> QED
      BY <1>1, <1>4, <3>1 DEF Filled
  <2>3. ASSUME NEW k \in Kinds, CreateItem(x, k)
        PROVE  FALSE
    <3>1. worker'[x].job = worker[x].job
      BY <2>3 DEF CreateItem, Continue, Handler, TypeOK
    <3> QED
      BY <1>4, <2>3, <3>1 DEF CreateItem, Running, Settled
  <2> QED
    BY <1>4, <2>1, <2>2, <2>3, HandlerPhases
<1> QED
  BY <1>2, <1>3, <1>4 DEF Settled

KeepsSettled ==
    \A kind \in Kinds, query \in Queries : Settled(kind, query) => Settled(kind, query)'

LEMMA KeptSettled == [][KeepsSettled]_vars => SettledStaysSettled
  BY PTL DEF KeepsSettled, SettledStaysSettled

\* A filled query costs no further call of the language model for its cards,
\* however often its page is loaded or its fan-out delivered.
THEOREM SettlesForGood == Spec => SettledStaysSettled
<1>1. TypeOK /\ IInv /\ [Next]_vars => [KeepsSettled]_vars
  BY SettledStep DEF KeepsSettled
<1> QED
  BY <1>1, Invariance, KeptSettled, PTL DEF Spec

\* A step fills one row, or one website from its row, or nothing that is read.
LEMMA CatalogueStep ==
    TypeOK /\ IInv /\ [Next]_vars => [Promise!CatalogueNext]_Promise!catalogueVars
<1> Promise!Cells = Cells
  BY DEF Promise!Cells, Cells, Promise!Positions, Positions, Promise!PerQuery, PerQuery
<1> SUFFICES ASSUME TypeOK, IInv, [Next]_vars
             PROVE  Promise!CatalogueNext \/ UNCHANGED <<rows, sites>>
  BY DEF Promise!catalogueVars
<1>1. ASSUME NEW w \in Workers, NEW kind \in Kinds, InsertItem(w, kind)
      PROVE  Promise!CatalogueNext \/ UNCHANGED <<rows, sites>>
  <2> DEFINE c == CellOf(worker[w].job)
  <2>1. c \in Cells /\ worker[w].output \in Fabrics
    BY <1>1 DEF InsertItem, Running, IInv, GroundedJobs, Grounded, PhasesFit
  <2>2. CASE rows[c] = None
    <3>1. Promise!FillRow(c, worker[w].output)
      BY <1>1, <2>2 DEF InsertItem, InsertRow, Promise!FillRow
    <3> QED
      BY <2>1, <3>1 DEF Promise!CatalogueNext
  <2>3. CASE rows[c] # None
    BY <1>1, <2>3 DEF InsertItem, InsertRow
  <2> QED
    BY <2>2, <2>3
<1>2. ASSUME NEW w \in Workers, NEW kind \in Kinds, InsertWebsiteOf(w, kind)
      PROVE  Promise!CatalogueNext \/ UNCHANGED <<rows, sites>>
  <2> DEFINE c == CellOf(worker[w].job)
  <2>1. /\ c \in Cells
        /\ worker[w].output \in Fabrics
        /\ rows[c] # None
        /\ worker[w].input = rows[c]
    BY <1>2 DEF InsertWebsiteOf, Running, IInv, GroundedJobs, Grounded, PhasesFit,
       SnapshotsCurrent
  <2>2. CASE sites[c] = None
    <3>1. Promise!FillSite(c, worker[w].output)
      BY <1>2, <2>1, <2>2 DEF InsertWebsiteOf, InsertSite, Promise!FillSite
    <3> QED
      BY <2>1, <3>1 DEF Promise!CatalogueNext
  <2>3. CASE sites[c] # None
    BY <1>2, <2>3 DEF InsertWebsiteOf, InsertSite
  <2> QED
    BY <2>2, <2>3
<1> QED
  BY <1>1, <1>2, NextCases
  DEF Search, EnqueueGenerateResults, EnqueueLast, OpenSite, Receive, ReadPositions,
      CreateItem, FabricateItem, ReadRow, FabricateSite, Fabricate, Continue,
      Acknowledge, Abandon, Timeout, Crash, vars, store

\* The jobs, the queue and the tables together implement the catalogue.
THEOREM Implementation == Spec => ImplementsCatalogue
<1> Promise!Cells = Cells
  BY DEF Promise!Cells, Cells, Promise!Positions, Positions, Promise!PerQuery, PerQuery
<1>1. Init => Promise!CatalogueInit
  BY DEF Init, Promise!CatalogueInit
<1> QED
  BY <1>1, CatalogueStep, Invariance, PTL DEF Spec, ImplementsCatalogue, Promise!CatalogueSpec
=============================================================================
