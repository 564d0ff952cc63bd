---------------------------- MODULE SearchEngine ----------------------------
(***************************************************************************)
(* The whole engine: results pages with their streams (EventStream) and    *)
(* requests for websites and landing pages (SitePage), both over the real  *)
(* pipeline (Fabrication) instead of a catalogue that fills by itself. The *)
(* parts share the tables and the queue and nothing else.                  *)
(*                                                                         *)
(* A results page is rendered by the handler that upserts the query and    *)
(* enqueues the two fan-outs: its visitor is one of Fabrication until the  *)
(* jobs are enqueued and one of EventStream from there on. A request that  *)
(* misses its website is one of Fabrication while it enqueues the job.     *)
(* Requests come from the cards of the pages. A crash strikes all parts at *)
(* once: only the tables, the queue and the browsers survive it.           *)
(***************************************************************************)
EXTENDS Fabrication

CONSTANTS
    Pages,          \* results pages open at the same time
    Requests        \* requests for websites in progress at the same time

ASSUME EngineAssumption == /\ Visitors = Pages \cup Requests
                           /\ Pages \cap Requests = {}

VARIABLES
    searched,       \* page -> the query its handler has upserted, until it reads the rows
    page, query, card, read, sent,              \* EventStream, at is page
    request, link, expired, failed, browser     \* SitePage, at is request

pageState == <<searched, page, query, card, read, sent>>
requestState == <<request, link, expired, failed, browser>>
engineVars == <<vars, pageState, requestState>>

\* The cells whose website has a job: a message, or a handler that runs.
SiteJobs ==
    {CellOf(m.job) : m \in {n \in queue : n.job.stage = "site"}}
        \cup {CellOf(worker[w].job) :
                 w \in {u \in Workers : worker[u].at # "idle" /\ worker[u].job.stage = "site"}}

Page == INSTANCE EventStream WITH Visitors <- Pages, at <- page

Site == INSTANCE SitePage WITH at <- request, jobs <- SiteJobs

EngineInit ==
    /\ Init
    /\ Page!Init
    /\ Site!Init
    /\ searched = [p \in Pages |-> None]

-----------------------------------------------------------------------------
(* Results pages *)

\* Requests that may yet turn out to need a job. The bound on visits is kept
\* for them, so that none of them is stuck later.
Looking == {r \in Requests : request[r] \in {"row", "site"} /\ sites[link[r]] = None}

VisitsLeft == visits + Cardinality(Looking) < MaxVisits

SearchPage(p, q) ==
    /\ page[p] = "away"
    /\ searched[p] = None
    /\ VisitsLeft
    /\ Search(p, q)
    /\ searched' = [searched EXCEPT ![p] = q]
    /\ UNCHANGED <<page, query, card, read, sent, requestState>>

EnqueueFanOut(p) ==
    /\ EnqueueGenerateResults(p) \/ EnqueueGenerateAds(p)
    /\ UNCHANGED <<pageState, requestState>>

\* The rows are read once both jobs are enqueued, or their errors swallowed.
ReadPage(p) ==
    /\ visitor[p] = None
    /\ searched[p] # None
    /\ Page!LoadResults(p, searched[p])
    /\ searched' = [searched EXCEPT ![p] = None]
    /\ UNCHANGED <<vars, requestState>>

PageHandler(p) ==
    /\ Page!LoadAds(p) \/ Page!HandlerStep(p)
    /\ UNCHANGED <<vars, searched, requestState>>

Browse(p) ==
    /\ Page!OpenEvents(p) \/ Page!Reconnect(p) \/ Page!Deadline(p) \/ Page!Leave(p)
    /\ UNCHANGED <<vars, searched, requestState>>

\* The rows cannot be read: an error page instead of the results.
LoadFails(p) ==
    /\ visitor[p] = None
    /\ searched[p] # None
    /\ searched' = [searched EXCEPT ![p] = None]
    /\ UNCHANGED <<page, query, card, read, sent>>

PageTrouble(p) ==
    /\ \/ (Page!PushFails(p) \/ Page!ConnectionLost(p)) /\ UNCHANGED searched
       \/ LoadFails(p)
    /\ Fault
    /\ UNCHANGED <<store, queue, nextId, visitor, worker, fannedOut, visits, requestState>>

-----------------------------------------------------------------------------
(* Requests for websites and landing pages *)

Cards == {c \in Cells : \E p \in Pages : card[p][c] # None}

OpenCard(r, c) ==
    /\ c \in Cards
    /\ sites[c] # None \/ VisitsLeft
    /\ UNCHANGED <<vars, pageState>>
    /\ Site!Arrive(r, c)

\* The website is missing: the handler will enqueue a job for it.
MissSite(r) ==
    /\ request[r] = "site"
    /\ OpenSite(r, link[r])
    /\ UNCHANGED pageState
    /\ Site!FindSite(r)

HitSite(r) ==
    /\ request[r] = "site" /\ sites[link[r]] # None
    /\ UNCHANGED <<vars, pageState>>
    /\ Site!FindSite(r)

EnqueueSite(r) ==
    /\ request[r] = "enqueue"
    /\ EnqueueLast(r, "site", link[r][1])
    /\ UNCHANGED pageState
    /\ Site!Enqueue(r)

RequestProceeds(r) ==
    /\ UNCHANGED <<vars, pageState>>
    /\ \/ Site!FindRow(r) \/ Site!LookInVain(r)
       \/ Site!GiveUp(r) \/ Site!Tick(r) \/ Site!Poll(r)

RequestHandler(r) == MissSite(r) \/ HitSite(r) \/ EnqueueSite(r) \/ RequestProceeds(r)

Await(r) ==
    /\ UNCHANGED <<vars, pageState>>
    /\ Site!Leave(r) \/ Site!Expire(r) \/ Site!Finish(r)

RequestTrouble(r) ==
    /\ Fault
    /\ UNCHANGED <<store, queue, nextId, visitor, worker, fannedOut, visits, pageState>>
    /\ Site!DatabaseFails(r)

-----------------------------------------------------------------------------
(* The runner, and the process *)

Run(w) == (WorkerStep(w) \/ Abandon(w)) /\ UNCHANGED <<pageState, requestState>>

Redeliver == (\E m \in queue : Timeout(m)) /\ UNCHANGED <<pageState, requestState>>

Restart ==
    /\ Crash
    /\ Page!Crash
    /\ Site!Crash
    /\ searched' = [p \in Pages |-> None]

EngineNext ==
    \/ \E p \in Pages :
          \/ \E q \in Queries : SearchPage(p, q)
          \/ EnqueueFanOut(p)
          \/ ReadPage(p)
          \/ PageHandler(p)
          \/ Browse(p)
          \/ PageTrouble(p)
    \/ \E r \in Requests :
          \/ \E c \in Cells : OpenCard(r, c)
          \/ RequestHandler(r)
          \/ Await(r)
          \/ RequestTrouble(r)
    \/ \E w \in Workers : Run(w)
    \/ Redeliver
    \/ Restart

EngineSpec == EngineInit /\ [][EngineNext]_engineVars

(* The fairness of the parts, except that the deadlines need not pass: a    *)
(* request that is answered only because it gives up is no success here.    *)
EngineFairness ==
    /\ \A p \in Pages : /\ WF_engineVars(EnqueueFanOut(p))
                         /\ WF_engineVars(ReadPage(p))
                         /\ WF_engineVars(PageHandler(p))
    /\ \A r \in Requests : WF_engineVars(RequestHandler(r))
    /\ \A w \in Workers :
          WF_engineVars(WorkerStep(w) /\ UNCHANGED <<pageState, requestState>>)
    /\ WF_engineVars(/\ \E m \in queue : ~Held(m) /\ Timeout(m)
                     /\ UNCHANGED <<pageState, requestState>>)

EngineFairSpec == EngineSpec /\ EngineFairness

-----------------------------------------------------------------------------
(* Properties *)

\* What EventStream and SitePage assume of the pipeline is what the pipeline
\* does: over the real jobs, with their retries and crashes, results pages are
\* those over a catalogue, and a website is written only while a job for it is
\* queued or running.
PartsAsSpecified == Page!Spec /\ Site!Spec

\* What a card shows is what is behind it: a link taken from a card never
\* leads to a 404, and the document behind it, now or in a browser that kept
\* it, was fabricated from the very row the card shows, on whichever page,
\* loaded before or after a crash.
CardsKeepTheirWord ==
    /\ \A r \in Requests : request[r] # "404"
    /\ \A p \in Pages, c \in Cards :
          card[p][c] # None /\ sites[c] # None => sites[c].of = card[p][c]
    /\ \A b \in browser : sites[b[1]] # None /\ sites[b[1]].html = b[2]

\* A request that waits gets its website in the end if its patience lasts: its
\* job, of the lowest priority, is done once the fan-outs and items before it
\* are, although it may fail, be delivered again or lose its process.
WebsiteArrives ==
    \A r \in Requests :
        request[r] = "poll" /\ FreshSiteJob(link[r])
            ~> request[r] \in {"200", "reset"} \/ r \in expired \/ r \in failed
=============================================================================
