----------------------------- MODULE SiteProofs -----------------------------
(***************************************************************************)
(* Proofs about the pages behind the cards, for every number of queries,   *)
(* positions, documents and requests.                                      *)
(***************************************************************************)
EXTENDS SitePage, TLAPS

\* A handler that got past its first lookup knows the row of its link.
LinksKnown ==
    \A r \in Requests : at[r] \in {"site", "enqueue", "poll", "tick"} => link[r] \in Cells

SiteInv == /\ LinksKnown
           /\ BrowsersAgree
           /\ NoMisleading500

-----------------------------------------------------------------------------
(* Type correctness *)

LEMMA TypeInit == Init => TypeOK
  BY DEF Init, TypeOK, CatalogueInit, Places

\* A step of the pipeline keeps the types of the tables, and the websites.
LEMMA FillType ==
    ASSUME TypeOK, Fill
    PROVE  /\ rows' \in [Cells -> Fabrics \cup {None}]
           /\ sites' \in [Cells -> Websites \cup {None}]
           /\ \A c \in Cells : sites[c] # None => sites'[c] = sites[c]
  <1>1. ASSUME NEW c \in Cells, NEW f \in Fabrics, FillRow(c, f)
        PROVE  rows' \in [Cells -> Fabrics \cup {None}] /\ UNCHANGED sites
    BY <1>1 DEF TypeOK, FillRow
  <1>2. ASSUME NEW c \in Cells, NEW f \in Fabrics, FillSite(c, f)
        PROVE  /\ UNCHANGED rows
               /\ sites' \in [Cells -> Websites \cup {None}]
               /\ \A d \in Cells : sites[d] # None => sites'[d] = sites[d]
    <2>1. [of |-> rows[c], html |-> f] \in Websites
      BY <1>2 DEF TypeOK, FillSite, Websites
    <2> QED
      BY <1>2, <2>1 DEF TypeOK, FillSite
  <1> QED
    BY <1>1, <1>2 DEF Fill, TypeOK

\* What is served is the document stored behind the link.
LEMMA ServeType ==
    ASSUME TypeOK, NEW r \in Requests, link[r] \in Cells, sites[link[r]] # None, Serve(r)
    PROVE  /\ browser' \subseteq Cells \X Fabrics
           /\ at' = [at EXCEPT ![r] = "200"]
           /\ browser' = browser \cup {<<link[r], sites[link[r]].html>>}
  <1>1. sites[link[r]] \in Websites
    BY DEF TypeOK
  <1> QED
    BY <1>1 DEF TypeOK, Serve, GoTo, Websites

\* Every step is one of these.
LEMMA NextCases ==
    ASSUME [Next]_vars
    PROVE  \/ Fill \/ DropJob \/ Crash \/ UNCHANGED vars
           \/ \E r \in Requests :
                 \/ \E c \in Cells \cup {None} : Arrive(r, c)
                 \/ FindRow(r) \/ FindSite(r) \/ LookInVain(r)
                 \/ Enqueue(r) \/ GiveUp(r) \/ Tick(r) \/ Poll(r)
                 \/ Leave(r) \/ Expire(r) \/ DatabaseFails(r) \/ Finish(r)
  BY DEF Next, Pipeline, HandleSite, HandleAd, Steps

\* A first look or a poll serves the document, or goes on without one.
LEMMA LookCases ==
    ASSUME TypeOK, LinksKnown, NEW r \in Requests, FindSite(r) \/ Poll(r)
    PROVE  /\ UNCHANGED <<rows, sites, link, expired, failed, jobs>>
           /\ link[r] \in Cells
           /\ at[r] \in {"site", "tick"}
           /\ \/ sites[link[r]] # None /\ Serve(r)
              \/ /\ UNCHANGED browser
                 /\ \E place \in {"enqueue", "poll", "502"} : at' = [at EXCEPT ![r] = place]
  <1>1. CASE FindSite(r)
    BY <1>1 DEF FindSite, GoTo, LinksKnown, catalogueVars
  <1>2. CASE Poll(r)
    <2>1. Lookup(r) \in {"found", "context", "not found"}
      BY DEF Lookup
    <2>2. Lookup(r) = "found" => sites[link[r]] # None
      BY DEF Lookup
    <2> QED
      BY <1>2, <2>1, <2>2 DEF Poll, GoTo, LinksKnown, catalogueVars
  <1> QED
    BY <1>1, <1>2

LEMMA TypeStep == TypeOK /\ LinksKnown /\ [Next]_vars => TypeOK'
  <1> SUFFICES ASSUME TypeOK, LinksKnown, [Next]_vars
               PROVE  TypeOK'
    OBVIOUS
  <1> USE DEF TypeOK, Places, Statuses, GoTo, catalogueVars
  <1>1. CASE Fill
    BY <1>1, FillType DEF Fill, requestVars
  <1>2. CASE DropJob \/ Crash \/ UNCHANGED vars
    BY <1>2 DEF DropJob, Crash, vars
  <1>3. ASSUME NEW r \in Requests, NEW c \in Cells \cup {None}, Arrive(r, c)
        PROVE  TypeOK'
    BY <1>3 DEF Arrive
  <1>4. ASSUME NEW r \in Requests, FindSite(r) \/ Poll(r)
        PROVE  TypeOK'
    BY <1>4, LookCases, ServeType
  <1>5. ASSUME NEW r \in Requests,
               FindRow(r) \/ GiveUp(r) \/ Tick(r) \/ Leave(r) \/ Expire(r)
        PROVE  TypeOK'
    BY <1>5 DEF FindRow, GiveUp, Tick, Leave, Expire
  <1>6. ASSUME NEW r \in Requests, Enqueue(r)
        PROVE  TypeOK'
    BY <1>6 DEF Enqueue, LinksKnown
  <1>7. ASSUME NEW r \in Requests, LookInVain(r) \/ DatabaseFails(r) \/ Finish(r)
        PROVE  TypeOK'
    BY <1>7 DEF LookInVain, DatabaseFails, Finish
  <1> QED
    BY <1>1, <1>2, <1>3, <1>4, <1>5, <1>6, <1>7, NextCases

-----------------------------------------------------------------------------
(* Invariance *)

LEMMA SiteInit == Init => SiteInv
  BY DEF Init, SiteInv, LinksKnown, BrowsersAgree, NoMisleading500

LEMMA LinksStep == TypeOK /\ LinksKnown /\ [Next]_vars => LinksKnown'
  <1> SUFFICES ASSUME TypeOK, LinksKnown, [Next]_vars
               PROVE  LinksKnown'
    OBVIOUS
  <1> USE DEF TypeOK, LinksKnown, GoTo
  <1>1. CASE Fill \/ DropJob \/ Crash \/ UNCHANGED vars
    BY <1>1 DEF Fill, DropJob, Crash, requestVars, vars, Statuses
  <1>2. ASSUME NEW r \in Requests, NEW c \in Cells \cup {None}, Arrive(r, c)
        PROVE  LinksKnown'
    BY <1>2 DEF Arrive
  <1>3. ASSUME NEW r \in Requests, FindSite(r) \/ Poll(r)
        PROVE  LinksKnown'
    BY <1>3, LookCases, ServeType
  <1>4. ASSUME NEW r \in Requests, FindRow(r) \/ Enqueue(r) \/ Tick(r)
        PROVE  LinksKnown'
    BY <1>4 DEF FindRow, Enqueue, Tick
  <1>5. ASSUME NEW r \in Requests,
               \/ LookInVain(r) \/ GiveUp(r)
               \/ Leave(r) \/ Expire(r) \/ DatabaseFails(r) \/ Finish(r)
        PROVE  LinksKnown'
    BY <1>5 DEF LookInVain, GiveUp, Leave, Expire, DatabaseFails, Finish
  <1> QED
    BY <1>1, <1>2, <1>3, <1>4, <1>5, NextCases

LEMMA BrowsersStep == TypeOK /\ SiteInv /\ [Next]_vars => BrowsersAgree'
  <1> SUFFICES ASSUME TypeOK, SiteInv, [Next]_vars
               PROVE  BrowsersAgree'
    OBVIOUS
  <1> USE DEF SiteInv, BrowsersAgree
  <1>1. CASE Fill
    <2>1. ASSUME NEW b \in browser
          PROVE  b[1] \in Cells
      BY DEF TypeOK
    <2> QED
      BY <1>1, <2>1, FillType DEF Fill, requestVars
  <1>2. CASE DropJob \/ Crash \/ UNCHANGED vars
    BY <1>2 DEF DropJob, Crash, vars, catalogueVars
  <1>3. ASSUME NEW r \in Requests, FindSite(r) \/ Poll(r)
        PROVE  BrowsersAgree'
    BY <1>3, LookCases, ServeType
  <1>4. ASSUME NEW r \in Requests,
               \/ \E c \in Cells \cup {None} : Arrive(r, c)
               \/ FindRow(r) \/ LookInVain(r) \/ Enqueue(r) \/ GiveUp(r) \/ Tick(r)
               \/ Leave(r) \/ Expire(r) \/ DatabaseFails(r) \/ Finish(r)
        PROVE  BrowsersAgree'
    BY <1>4 DEF Arrive, FindRow, LookInVain, Enqueue, GiveUp, Tick, Leave, Expire,
                DatabaseFails, Finish, catalogueVars
  <1> QED
    BY <1>1, <1>2, <1>3, <1>4, NextCases

LEMMA ErrorsStep == TypeOK /\ SiteInv /\ [Next]_vars => NoMisleading500'
  <1> SUFFICES ASSUME TypeOK, SiteInv, [Next]_vars
               PROVE  NoMisleading500'
    OBVIOUS
  <1> USE DEF TypeOK, SiteInv, NoMisleading500, GoTo
  <1>1. CASE Fill \/ DropJob \/ Crash \/ UNCHANGED vars
    BY <1>1 DEF Fill, DropJob, Crash, requestVars, vars
  <1>2. ASSUME NEW r \in Requests, FindSite(r) \/ Poll(r)
        PROVE  NoMisleading500'
    BY <1>2, LookCases, ServeType
  <1>3. ASSUME NEW r \in Requests,
               \/ \E c \in Cells \cup {None} : Arrive(r, c)
               \/ FindRow(r) \/ Enqueue(r) \/ GiveUp(r) \/ Tick(r)
               \/ Leave(r) \/ Expire(r)
        PROVE  NoMisleading500'
    BY <1>3 DEF Arrive, FindRow, Enqueue, GiveUp, Tick, Leave, Expire
  <1>4. ASSUME NEW r \in Requests, LookInVain(r) \/ DatabaseFails(r) \/ Finish(r)
        PROVE  NoMisleading500'
    BY <1>4 DEF LookInVain, DatabaseFails, Finish
  <1> QED
    BY <1>1, <1>2, <1>3, <1>4, NextCases

LEMMA Invariance == Spec => [](TypeOK /\ SiteInv)
<1>1. TypeOK /\ SiteInv /\ [Next]_vars => TypeOK' /\ SiteInv'
  BY TypeStep, LinksStep, BrowsersStep, ErrorsStep DEF SiteInv
<1> QED
  BY <1>1, TypeInit, SiteInit, PTL DEF Spec

-----------------------------------------------------------------------------
(* What follows *)

\* The variables of handleSite and handleAd keep their types.
THEOREM TypeCorrect == Spec => []TypeOK
  BY Invariance, PTL

\* What browsers keep for a day is what every later visitor is served, however
\* many jobs wrote, or tried to write, the same website (writeSiteHTML).
THEOREM BrowsersKeepAgreeing == Spec => []BrowsersAgree
<1>1. TypeOK /\ SiteInv => BrowsersAgree
  BY DEF SiteInv
<1> QED
  BY <1>1, Invariance, PTL

\* An expired poll is answered 502, never 500, wherever in the poll it expires.
THEOREM ErrorsAreErrors == Spec => []NoMisleading500
<1>1. TypeOK /\ SiteInv => NoMisleading500
  BY DEF SiteInv
<1> QED
  BY <1>1, Invariance, PTL
=============================================================================
