------------------------------ MODULE SitePage ------------------------------
(***************************************************************************)
(* The pages behind the cards: handleSite serves the website of a result,  *)
(* handleAd that of an ad. A website that is stored is served at once; if  *)
(* it is not, the handler enqueues a job and polls the table every half    *)
(* second, for two minutes at most. Browsers keep what they were served    *)
(* for a day. Several visitors may wait for the same website, each with a  *)
(* job of its own.                                                         *)
(*                                                                         *)
(* Every call of the database or the queue is a step of its own. The       *)
(* pipeline is a catalogue whose websites are filled while a job for them  *)
(* is there; a job may be given up, and the process may crash.             *)
(***************************************************************************)
EXTENDS Catalogue

CONSTANT Requests           \* requests in progress at the same time

VARIABLES
    at,         \* request -> where its handler is, or the status it answered
    link,       \* request -> the cell its link names; None: a malformed slug
    expired,    \* requests whose context is over: the deadline, or the visitor left
    failed,     \* requests whose handler met a failed lookup
    jobs,       \* cells with a website job, in the queue or running
    browser     \* <<cell, html>>: what browsers were served and may keep

requestVars == <<at, link, expired, failed, jobs, browser>>
vars == <<rows, sites, at, link, expired, failed, jobs, browser>>

\* "reset": the connection breaks before there is an answer.
Statuses == {"200", "404", "500", "502", "reset"}

Places == {"idle", "row", "site", "enqueue", "poll", "tick"} \cup Statuses

TypeOK ==
    /\ rows \in [Cells -> Fabrics \cup {None}]
    /\ sites \in [Cells -> Websites \cup {None}]
    /\ at \in [Requests -> Places]
    /\ link \in [Requests -> Cells \cup {None}]
    /\ expired \subseteq Requests
    /\ failed \subseteq Requests
    /\ jobs \subseteq Cells
    /\ browser \subseteq Cells \X Fabrics

Init ==
    /\ CatalogueInit
    /\ at = [r \in Requests |-> "idle"]
    /\ link = [r \in Requests |-> None]
    /\ expired = {}
    /\ failed = {}
    /\ jobs = {}
    /\ browser = {}

GoTo(r, place) == at' = [at EXCEPT ![r] = place]

Serve(r) ==
    /\ GoTo(r, "200")
    /\ browser' = browser \cup {<<link[r], sites[link[r]].html>>}

-----------------------------------------------------------------------------
(* A request for /site/{slug} or /ad/{slug}. The slug ends in the id of a  *)
(* row, if it is well-formed; the row need not exist.                      *)

Arrive(r, c) ==
    /\ at[r] = "idle"
    /\ link' = [link EXCEPT ![r] = c]
    /\ GoTo(r, "row")
    /\ UNCHANGED <<catalogueVars, expired, failed, jobs, browser>>

\* The slug and the row: GetResult, GetAd.
FindRow(r) ==
    /\ at[r] = "row"
    /\ r \notin expired
    /\ GoTo(r, IF link[r] = None \/ rows[link[r]] = None THEN "404" ELSE "site")
    /\ UNCHANGED <<catalogueVars, link, expired, failed, jobs, browser>>

\* First look at the website: GetWebsite, GetAdWebsite.
FindSite(r) ==
    /\ at[r] = "site"
    /\ r \notin expired
    /\ IF sites[link[r]] # None
       THEN Serve(r)
       ELSE GoTo(r, "enqueue") /\ UNCHANGED browser
    /\ UNCHANGED <<catalogueVars, link, expired, failed, jobs>>

\* Both look under the context of the request: once its visitor has left, they
\* fail, and nobody reads the answer.
LookInVain(r) ==
    /\ at[r] \in {"row", "site"}
    /\ r \in expired
    /\ failed' = failed \cup {r}
    /\ GoTo(r, "500")
    /\ UNCHANGED <<catalogueVars, link, expired, jobs, browser>>

\* Variants: the job names the next position; a request whose enqueue fails
\* is not worth polling for.
EnqueueNext(r) ==
    /\ at[r] = "enqueue"
    /\ jobs' \in {jobs, jobs \cup {[link[r] EXCEPT ![3] = @ + 1]}}
    /\ GoTo(r, "poll")
    /\ UNCHANGED <<catalogueVars, link, expired, failed, browser>>

EnqueueOrRefuse(r) ==
    /\ at[r] = "enqueue"
    /\ \/ jobs' = jobs \cup {link[r]} /\ GoTo(r, "poll")
       \/ jobs' = jobs /\ GoTo(r, "502")
    /\ UNCHANGED <<catalogueVars, link, expired, failed, browser>>

\* An error of the enqueue, in the queue or because the visitor leaves, is
\* logged; the handler polls all the same.
Enqueue(r) ==
    /\ at[r] = "enqueue"
    /\ jobs' \in {jobs, jobs \cup {link[r]}}
    /\ GoTo(r, "poll")
    /\ UNCHANGED <<catalogueVars, link, expired, failed, browser>>

\* The visitor leaves before the two lookups are done; that changes nothing for a
\* malformed slug. One who leaves during the enqueue has a poll that expires at
\* once.
Leave(r) ==
    /\ at[r] \in {"row", "site"}
    /\ link[r] # None
    /\ r \notin expired
    /\ expired' = expired \cup {r}
    /\ UNCHANGED <<catalogueVars, at, link, failed, jobs, browser>>

\* The two minutes of the poll are over, or its visitor leaves.
Expire(r) ==
    /\ at[r] \in {"poll", "tick"}
    /\ r \notin expired
    /\ expired' = expired \cup {r}
    /\ UNCHANGED <<catalogueVars, at, link, failed, jobs, browser>>

\* select: the end of the context, or the ticker; the ticker may win even if
\* both are ready.
GiveUp(r) ==
    /\ at[r] = "poll"
    /\ r \in expired
    /\ GoTo(r, "502")
    /\ UNCHANGED <<catalogueVars, link, expired, failed, jobs, browser>>

Tick(r) ==
    /\ at[r] = "poll"
    /\ GoTo(r, "tick")
    /\ UNCHANGED <<catalogueVars, link, expired, failed, jobs, browser>>

\* Variant: the lookup runs without the poll context.
LookupPatiently(r) == IF sites[link[r]] # None THEN "found" ELSE "not found"

\* The lookup under the poll context: an expired context is an error of its
\* own, whatever the table holds.
Lookup(r) == CASE r \in expired              -> "context"
               [] r \notin expired /\ sites[link[r]] # None -> "found"
               [] OTHER                      -> "not found"

\* Variant: every error but "not found" is an internal error.
PollBluntly(r) ==
    /\ at[r] = "tick"
    /\ CASE Lookup(r) = "found"     -> Serve(r)
         [] Lookup(r) = "context"   -> GoTo(r, "500") /\ UNCHANGED browser
         [] Lookup(r) = "not found" -> GoTo(r, "poll") /\ UNCHANGED browser
    /\ UNCHANGED <<catalogueVars, link, expired, failed, jobs>>

Poll(r) ==
    /\ at[r] = "tick"
    /\ CASE Lookup(r) = "found"     -> Serve(r)
         [] Lookup(r) = "context"   -> GoTo(r, "502") /\ UNCHANGED browser
         [] Lookup(r) = "not found" -> GoTo(r, "poll") /\ UNCHANGED browser
    /\ UNCHANGED <<catalogueVars, link, expired, failed, jobs>>

\* Any lookup may fail in the database.
DatabaseFails(r) ==
    /\ \/ at[r] = "row" /\ link[r] # None
       \/ at[r] = "site"
       \/ at[r] = "tick" /\ r \notin expired
    /\ failed' = failed \cup {r}
    /\ GoTo(r, "500")
    /\ UNCHANGED <<catalogueVars, link, expired, jobs, browser>>

\* The answer is out; the visitor may come again.
Finish(r) ==
    /\ at[r] \in Statuses
    /\ GoTo(r, "idle")
    /\ link' = [link EXCEPT ![r] = None]
    /\ expired' = expired \ {r}
    /\ failed' = failed \ {r}
    /\ UNCHANGED <<catalogueVars, jobs, browser>>

\* The process stops and starts again: requests in progress get no answer, and
\* a running job whose message is gone already is gone as well.
Crash ==
    /\ at' = [r \in Requests |-> IF at[r] \in Statuses \cup {"idle"} THEN at[r] ELSE "reset"]
    /\ jobs' \in SUBSET jobs
    /\ UNCHANGED <<catalogueVars, link, expired, failed, browser>>

-----------------------------------------------------------------------------
Steps(r) ==
    \/ FindRow(r) \/ FindSite(r) \/ LookInVain(r)
    \/ Enqueue(r) \/ GiveUp(r) \/ Tick(r) \/ Poll(r)

For(r, kind) == link[r] # None => link[r][1] = kind

HandleSite(r) == For(r, "result") /\ Steps(r)

HandleAd(r) == For(r, "ad") /\ Steps(r)

\* The pipeline: rows appear at any time, websites while there is a job. A job
\* may run again after its website is there; that changes nothing.
Fill ==
    /\ \E c \in Cells, f \in Fabrics : FillRow(c, f) \/ (c \in jobs /\ FillSite(c, f))
    /\ UNCHANGED requestVars

\* A job is acknowledged, or given up with its website missing.
DropJob ==
    /\ \E c \in jobs : jobs' = jobs \ {c}
    /\ UNCHANGED <<catalogueVars, at, link, expired, failed, browser>>

Pipeline == Fill \/ DropJob

Next == \/ Pipeline
        \/ \E r \in Requests :
              \/ \E c \in Cells \cup {None} : Arrive(r, c)
              \/ HandleSite(r)
              \/ HandleAd(r)
              \/ Leave(r)
              \/ Expire(r)
              \/ DatabaseFails(r)
              \/ Finish(r)
        \/ Crash

Spec == Init /\ [][Next]_vars

\* Handlers run and the two minutes pass. No database has to work, no job has
\* to be done and no visitor has to leave.
FairSpec ==
    /\ Spec
    /\ \A r \in Requests : /\ WF_vars(HandleSite(r))
                           /\ WF_vars(HandleAd(r))
                           /\ WF_vars(Expire(r))

-----------------------------------------------------------------------------
(* Properties *)

\* Whatever a browser was ever served for a link and keeps for a day is what
\* every later visitor of the link is served, however many jobs for the same
\* website ran at the same time (writeSiteHTML, InsertWebsite).
BrowsersAgree ==
    \A b \in browser : sites[b[1]] # None /\ sites[b[1]].html = b[2]

\* "so the client gets a 502 rather than a misleading 500": a request is
\* answered 500 only if a lookup failed for another reason than the end of the
\* poll, be it in the database or, before the poll, with the context of a
\* visitor who had left. A poll that merely ends is answered 502.
NoMisleading500 ==
    \A r \in Requests : at[r] = "500" => r \in failed

\* Every request is answered, even if its job was never enqueued, was given up
\* or never writes its website, unless the process stops meanwhile.
Answered == \A r \in Requests : at[r] # "idle" ~> at[r] \in Statuses

\* A visitor who waits gets the website once it is stored, by whosever job,
\* unless the two minutes end first, the database fails or the process stops.
WaitersServed ==
    \A r \in Requests :
        at[r] \in {"enqueue", "poll", "tick"} /\ sites[link[r]] # None
            ~> at[r] \in {"200", "reset"} \/ r \in expired \/ r \in failed
=============================================================================
