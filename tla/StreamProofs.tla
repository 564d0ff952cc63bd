---------------------------- MODULE StreamProofs ----------------------------
(***************************************************************************)
(* Proofs about the results page and its stream, for every number of       *)
(* queries, positions, rows and open pages.                                *)
(***************************************************************************)
EXTENDS EventStream, TLAPS

-----------------------------------------------------------------------------
(* The inductive invariant *)

\* What a handler has read is stored, however long ago it read it.
ReadsAreRows ==
    \A v \in Visitors, c \in Cells : read[v][c] # None => read[v][c] = rows[c]

\* Nothing is on a page before it is rendered.
PagesStartEmpty ==
    \A v \in Visitors : at[v] \in {"away", "loadAds"} => card[v] = Skeletons

\* Nothing is marked before the first push of a stream.
StreamsStartUnmarked ==
    \A v \in Visitors : at[v] \in {"away", "loadAds", "page", "retry"} => sent[v] = {}

\* What is marked but not on the page yet is in the patch about to be written.
MarkedIsWritten ==
    \A v \in Visitors : at[v] = "write" =>
        \A c \in sent[v] : card[v][c] # None \/ read[v][c] # None

\* The handler compares what it marked with all there is.
CompleteMeansMarked ==
    \A v \in Visitors : at[v] = "complete" => CellsOf(query[v]) \subseteq sent[v]

StreamInv == /\ CardsAreRows
             /\ ReadsAreRows
             /\ PagesStartEmpty
             /\ StreamsStartUnmarked
             /\ MarkedIsWritten
             /\ MarkedIsShown
             /\ CompleteMeansMarked

-----------------------------------------------------------------------------
(* Type correctness *)

LEMMA TypeInit == Init => TypeOK
  BY DEF Init, TypeOK, CatalogueInit, Places, Polling, Skeletons

\* What the handlers read has the type of what is stored.
LEMMA SnapshotType ==
    ASSUME TypeOK, NEW v \in Visitors, NEW q
    PROVE  /\ Skeletons \in [Cells -> Fabrics \cup {None}]
           /\ GetResults(q) \in [Cells -> Fabrics \cup {None}]
           /\ WithAds(read[v], q) \in [Cells -> Fabrics \cup {None}]
           /\ Patch(v) \in [Cells -> Fabrics \cup {None}]
  BY DEF TypeOK, Skeletons, GetResults, WithAds, Patch

\* Only cells are marked as sent.
LEMMA FreshType ==
    ASSUME NEW v \in Visitors, NEW snapshot
    PROVE  Fresh(v, snapshot) \subseteq Cells
  BY DEF Fresh

\* A step of the pipeline keeps the types of the tables, and what is stored.
LEMMA CatalogueStep ==
    ASSUME TypeOK, CatalogueNext
    PROVE  /\ rows' \in [Cells -> Fabrics \cup {None}]
           /\ sites' \in [Cells -> Websites \cup {None}]
           /\ \A c \in Cells : rows[c] # None => rows'[c] = rows[c]
  <1>1. ASSUME NEW c \in Cells, NEW f \in Fabrics, FillRow(c, f)
        PROVE  /\ rows' \in [Cells -> Fabrics \cup {None}]
               /\ sites' \in [Cells -> Websites \cup {None}]
               /\ \A d \in Cells : rows[d] # None => rows'[d] = rows[d]
    BY <1>1 DEF TypeOK, FillRow
  <1>2. ASSUME NEW c \in Cells, NEW f \in Fabrics, FillSite(c, f)
        PROVE  /\ rows' \in [Cells -> Fabrics \cup {None}]
               /\ sites' \in [Cells -> Websites \cup {None}]
               /\ \A d \in Cells : rows[d] # None => rows'[d] = rows[d]
    <2>1. [of |-> rows[c], html |-> f] \in Websites
      BY <1>2 DEF TypeOK, FillSite, Websites
    <2> QED
      BY <1>2, <2>1 DEF TypeOK, FillSite
  <1> QED
    BY <1>1, <1>2 DEF CatalogueNext


LEMMA TypeStep == TypeOK /\ [Next]_vars => TypeOK'
  <1> SUFFICES ASSUME TypeOK, [Next]_vars
               PROVE  TypeOK'
    OBVIOUS
  <1>1. CASE Pipeline
    BY <1>1, CatalogueStep DEF TypeOK, Pipeline, pageVars
  <1>2. CASE Crash
    BY <1>2, SnapshotType DEF TypeOK, Crash, Polling, Places, catalogueVars
  <1>3. ASSUME NEW v \in Visitors, NEW q \in Queries, LoadResults(v, q)
        PROVE  TypeOK'
    BY <1>3, SnapshotType DEF TypeOK, LoadResults, GoTo, Places, Polling, catalogueVars
  <1>4. ASSUME NEW v \in Visitors, LoadAds(v)
        PROVE  TypeOK'
    BY <1>4, SnapshotType DEF TypeOK, LoadAds, GoTo, Places, Polling, catalogueVars
  <1>5. ASSUME NEW v \in Visitors, PushResults(v)
        PROVE  TypeOK'
    BY <1>5, SnapshotType DEF TypeOK, PushResults, GoTo, Places, Polling, catalogueVars
  <1>6. ASSUME NEW v \in Visitors, PushAds(v)
        PROVE  TypeOK'
    BY <1>6, SnapshotType, FreshType
    DEF TypeOK, PushAds, GoTo, Places, Polling, catalogueVars
  <1>7. ASSUME NEW v \in Visitors, WriteSignalsPatch(v)
        PROVE  TypeOK'
    BY <1>7, SnapshotType DEF TypeOK, WriteSignalsPatch, GoTo, Places, Polling, catalogueVars
  <1>8. ASSUME NEW v \in Visitors,
               OpenEvents(v) \/ Tick(v) \/ PushFails(v) \/ Deadline(v) \/ Reconnect(v)
        PROVE  TypeOK'
    BY <1>8 DEF TypeOK, OpenEvents, Tick, PushFails, Deadline, Reconnect, GoTo, Places,
                Polling, catalogueVars
  <1>9. ASSUME NEW v \in Visitors, ConnectionLost(v)
        PROVE  TypeOK'
    BY <1>9, SnapshotType DEF TypeOK, ConnectionLost, GoTo, Places, Polling, catalogueVars
  <1>10. ASSUME NEW v \in Visitors, Leave(v)
         PROVE  TypeOK'
    BY <1>10, SnapshotType DEF TypeOK, Leave, GoTo, Places, Polling, catalogueVars
  <1>11. CASE UNCHANGED vars
    BY <1>11 DEF TypeOK, vars
  <1> QED
    BY <1>1, <1>2, <1>3, <1>4, <1>5, <1>6, <1>7, <1>8, <1>9, <1>10, <1>11 DEF Next, HandlerStep

\* The variables of the page and its stream keep their types (handleEvents,
\* ResultsPage).
THEOREM TypeCorrect == Spec => []TypeOK
  BY TypeInit, TypeStep, PTL DEF Spec

-----------------------------------------------------------------------------
(* Invariance *)

LEMMA StreamInit == Init => StreamInv
  BY DEF Init, CatalogueInit, StreamInv, CardsAreRows, ReadsAreRows, PagesStartEmpty,
         StreamsStartUnmarked, MarkedIsWritten, MarkedIsShown, CompleteMeansMarked, Skeletons

\* What a snapshot holds is stored at the moment it is taken.
LEMMA SnapshotRows ==
    ASSUME TypeOK, ReadsAreRows, NEW v \in Visitors, NEW q, NEW c \in Cells
    PROVE  /\ Skeletons[c] = None
           /\ GetResults(q)[c] # None => GetResults(q)[c] = rows[c]
           /\ WithAds(read[v], q)[c] # None => WithAds(read[v], q)[c] = rows[c]
  BY DEF ReadsAreRows, Skeletons, GetResults, WithAds

\* What a patch makes of a card.
LEMMA PatchShows ==
    ASSUME TypeOK, CardsAreRows, ReadsAreRows, NEW v \in Visitors, NEW c \in Cells
    PROVE  /\ Patch(v)[c] # None => Patch(v)[c] = rows[c]
           /\ card[v][c] # None => Patch(v)[c] = card[v][c]
           /\ c \in sent[v] /\ read[v][c] # None => Patch(v)[c] # None
  BY DEF CardsAreRows, ReadsAreRows, Patch

LEMMA InvStep == TypeOK /\ StreamInv /\ [Next]_vars => StreamInv'
  <1> SUFFICES ASSUME TypeOK, StreamInv, [Next]_vars
               PROVE  StreamInv'
    OBVIOUS
  <1> USE DEF StreamInv
  <1>1. CASE Pipeline
    <2>1. /\ UNCHANGED <<at, query, card, read, sent>>
          /\ \A c \in Cells : rows[c] # None => rows'[c] = rows[c]
      BY <1>1, CatalogueStep DEF Pipeline, pageVars
    <2>2. CardsAreRows'
      BY <2>1 DEF CardsAreRows
    <2>3. ReadsAreRows'
      BY <2>1 DEF ReadsAreRows
    <2> QED
      BY <2>1, <2>2, <2>3 DEF PagesStartEmpty, StreamsStartUnmarked, MarkedIsWritten,
         MarkedIsShown, CompleteMeansMarked
  <1>2. CASE Crash
    <2> DEFINE lost   == {v \in Visitors : at[v] \in Polling}
               failed == {v \in Visitors : at[v] = "loadAds"}
    <2>1. ASSUME NEW v \in Visitors
          PROVE  /\ card'[v] = card[v]
                 /\ v \in lost => at'[v] = "retry" /\ sent'[v] = {} /\ read'[v] = Skeletons
                 /\ v \in failed => at'[v] = "away" /\ sent'[v] = sent[v] /\ read'[v] = Skeletons
                 /\ v \notin lost \cup failed =>
                       /\ at'[v] = at[v] /\ sent'[v] = sent[v]
                       /\ read'[v] = read[v] /\ query'[v] = query[v]
      BY <1>2 DEF Crash, Polling
    <2>2. rows' = rows /\ card' = card
      BY <1>2 DEF Crash, catalogueVars
    <2>3. CardsAreRows'
      BY <2>2 DEF CardsAreRows
    <2>4. ReadsAreRows'
      BY <2>1, <2>2 DEF ReadsAreRows, Skeletons
    <2>5. PagesStartEmpty'
      BY <2>1 DEF PagesStartEmpty, Polling
    <2>6. StreamsStartUnmarked'
      BY <2>1 DEF StreamsStartUnmarked, Polling
    <2>7. MarkedIsWritten' /\ MarkedIsShown' /\ CompleteMeansMarked'
      BY <2>1 DEF MarkedIsWritten, MarkedIsShown, CompleteMeansMarked, CellsOf, Polling
    <2> QED
      BY <2>3, <2>4, <2>5, <2>6, <2>7
  <1>3. ASSUME NEW v \in Visitors, NEW q \in Queries, LoadResults(v, q)
        PROVE  StreamInv'
    <2>1. ReadsAreRows'
      BY <1>3, SnapshotRows DEF LoadResults, ReadsAreRows, TypeOK, catalogueVars
    <2> QED
      BY <1>3, <2>1
      DEF LoadResults, GoTo, TypeOK, catalogueVars, CardsAreRows, PagesStartEmpty,
          StreamsStartUnmarked, MarkedIsWritten, MarkedIsShown, CompleteMeansMarked, CellsOf
  <1>4. ASSUME NEW v \in Visitors, LoadAds(v)
        PROVE  StreamInv'
    <2>1. CardsAreRows'
      BY <1>4, SnapshotRows DEF LoadAds, CardsAreRows, TypeOK, catalogueVars
    <2>2. ReadsAreRows'
      BY <1>4, SnapshotRows DEF LoadAds, ReadsAreRows, TypeOK, catalogueVars
    <2> QED
      BY <1>4, <2>1, <2>2
      DEF LoadAds, GoTo, TypeOK, catalogueVars, PagesStartEmpty,
          StreamsStartUnmarked, MarkedIsWritten, MarkedIsShown, CompleteMeansMarked
  <1>5. ASSUME NEW v \in Visitors, PushResults(v)
        PROVE  StreamInv'
    <2>1. ReadsAreRows'
      BY <1>5, SnapshotRows DEF PushResults, ReadsAreRows, TypeOK, catalogueVars
    <2> QED
      BY <1>5, <2>1
      DEF PushResults, GoTo, TypeOK, catalogueVars, CardsAreRows, PagesStartEmpty,
          StreamsStartUnmarked, MarkedIsWritten, MarkedIsShown, CompleteMeansMarked
  <1>6. ASSUME NEW v \in Visitors, PushAds(v)
        PROVE  StreamInv'
    <2> DEFINE snapshot == WithAds(read[v], query[v])
    <2>1. /\ at[v] = "pushAds"
          /\ UNCHANGED <<rows, query, card>>
          /\ read' = [read EXCEPT ![v] = snapshot]
          /\ sent' = [sent EXCEPT ![v] = sent[v] \cup Fresh(v, snapshot)]
          /\ at' = [at EXCEPT ![v] = IF Fresh(v, snapshot) = {} THEN "open" ELSE "write"]
      BY <1>6 DEF PushAds, GoTo, catalogueVars
    <2>2. ReadsAreRows'
      BY <2>1, SnapshotRows DEF ReadsAreRows, TypeOK
    <2>3. \A c \in Fresh(v, snapshot) : snapshot[c] # None
      BY DEF Fresh
    <2>4. \A c \in sent[v] : card[v][c] # None
      BY <2>1 DEF MarkedIsShown
    <2>5. MarkedIsWritten'
      BY <2>1, <2>3, <2>4 DEF MarkedIsWritten, TypeOK
    <2>6. MarkedIsShown'
      BY <2>1, <2>4 DEF MarkedIsShown, TypeOK
    <2> QED
      BY <2>1, <2>2, <2>5, <2>6
      DEF TypeOK, CardsAreRows, PagesStartEmpty, StreamsStartUnmarked, CompleteMeansMarked
  <1>7. ASSUME NEW v \in Visitors, WriteSignalsPatch(v)
        PROVE  StreamInv'
    <2>1. /\ at[v] = "write"
          /\ UNCHANGED <<rows, query, read, sent>>
          /\ card' = [card EXCEPT ![v] = Patch(v)]
          /\ at' = [at EXCEPT ![v] = IF Done(v) THEN "complete" ELSE "open"]
      BY <1>7 DEF WriteSignalsPatch, GoTo, catalogueVars
    <2>2. CardsAreRows'
      BY <2>1, PatchShows DEF CardsAreRows, TypeOK
    <2>3. \A c \in sent[v] : Patch(v)[c] # None
      BY <2>1, PatchShows DEF MarkedIsWritten, TypeOK
    <2>4. MarkedIsShown'
      BY <2>1, <2>3 DEF MarkedIsShown, TypeOK
    <2>5. CompleteMeansMarked'
      BY <2>1 DEF CompleteMeansMarked, Done, CellsOf, TypeOK
    <2> QED
      BY <2>1, <2>2, <2>4, <2>5
      DEF TypeOK, ReadsAreRows, PagesStartEmpty, StreamsStartUnmarked, MarkedIsWritten
  <1>8. ASSUME NEW v \in Visitors,
               OpenEvents(v) \/ Tick(v) \/ PushFails(v) \/ Deadline(v) \/ Reconnect(v)
        PROVE  StreamInv'
    <2>1. UNCHANGED <<rows, query, card, read, sent>>
      BY <1>8 DEF OpenEvents, Tick, PushFails, Deadline, Reconnect, catalogueVars
    <2>2. CASE at[v] \in {"page", "retry", "open"} /\ at' = [at EXCEPT ![v] = "push"]
      BY <2>1, <2>2
      DEF TypeOK, CardsAreRows, ReadsAreRows, PagesStartEmpty, StreamsStartUnmarked,
          MarkedIsWritten, MarkedIsShown, CompleteMeansMarked, CellsOf
    <2>3. CASE at' = [at EXCEPT ![v] = "closed"]
      BY <2>1, <2>3
      DEF TypeOK, CardsAreRows, ReadsAreRows, PagesStartEmpty, StreamsStartUnmarked,
          MarkedIsWritten, MarkedIsShown, CompleteMeansMarked, CellsOf
    <2> QED
      BY <1>8, <2>2, <2>3 DEF OpenEvents, Tick, PushFails, Deadline, Reconnect, GoTo
  <1>9. ASSUME NEW v \in Visitors, ConnectionLost(v)
        PROVE  StreamInv'
    <2>1. ReadsAreRows'
      BY <1>9, SnapshotRows DEF ConnectionLost, ReadsAreRows, TypeOK, catalogueVars
    <2> QED
      BY <1>9, <2>1
      DEF ConnectionLost, GoTo, TypeOK, catalogueVars, CardsAreRows, PagesStartEmpty,
          StreamsStartUnmarked, MarkedIsWritten, MarkedIsShown, CompleteMeansMarked
  <1>10. ASSUME NEW v \in Visitors, Leave(v)
         PROVE  StreamInv'
    <2>1. CardsAreRows' /\ ReadsAreRows'
      BY <1>10, SnapshotRows DEF Leave, CardsAreRows, ReadsAreRows, TypeOK, catalogueVars
    <2> QED
      BY <1>10, <2>1
      DEF Leave, GoTo, TypeOK, catalogueVars, PagesStartEmpty, StreamsStartUnmarked,
          MarkedIsWritten, MarkedIsShown, CompleteMeansMarked, CellsOf
  <1>11. CASE UNCHANGED vars
    BY <1>11
    DEF vars, CardsAreRows, ReadsAreRows, PagesStartEmpty, StreamsStartUnmarked,
        MarkedIsWritten, MarkedIsShown, CompleteMeansMarked, CellsOf
  <1> QED
    BY <1>1, <1>2, <1>3, <1>4, <1>5, <1>6, <1>7, <1>8, <1>9, <1>10, <1>11
    DEF Next, HandlerStep

LEMMA Invariance == Spec => [](TypeOK /\ StreamInv)
  BY TypeInit, TypeStep, StreamInit, InvStep, PTL DEF Spec

-----------------------------------------------------------------------------
(* What follows *)

\* A card never shows anything but a stored row, whatever its handler read when
\* (pushState, ResultsPage).
THEOREM CardsShowRows == Spec => []CardsAreRows
<1>1. TypeOK /\ StreamInv => CardsAreRows
  BY DEF StreamInv
<1> QED
  BY <1>1, Invariance, PTL

\* A stream that goes on has shown all it marked as sent (writeSignalsPatch),
\* however often connections break and new streams begin.
THEOREM MarkedCardsShown == Spec => []MarkedIsShown
<1>1. TypeOK /\ StreamInv => MarkedIsShown
  BY DEF StreamInv
<1> QED
  BY <1>1, Invariance, PTL

\* A stream that ends by itself (done) leaves no card empty.
THEOREM NothingMissing == Spec => []CompleteMeansComplete
<1>1. TypeOK /\ StreamInv => CompleteMeansComplete
  BY DEF StreamInv, CompleteMeansComplete, CompleteMeansMarked, MarkedIsShown
<1> QED
  BY <1>1, Invariance, PTL

\* A card that is filled stays as it is while its page is open.
THEOREM CardsKeep == Spec => CardsStay
<1>1. TypeOK /\ StreamInv /\ [Next]_vars => [KeepsCards]_vars
  <2> SUFFICES ASSUME TypeOK, StreamInv, [Next]_vars,
                      NEW v \in Visitors, NEW c \in Cells,
                      card[v][c] # None, at'[v] # "away"
               PROVE  card'[v][c] = card[v][c]
    BY DEF KeepsCards, vars
  <2> USE DEF StreamInv
  <2>1. ASSUME NEW u \in Visitors, LoadAds(u)
        PROVE  card'[v][c] = card[v][c]
    BY <2>1 DEF LoadAds, TypeOK, PagesStartEmpty, Skeletons
  <2>2. ASSUME NEW u \in Visitors, WriteSignalsPatch(u)
        PROVE  card'[v][c] = card[v][c]
    BY <2>2, PatchShows DEF WriteSignalsPatch, TypeOK
  <2>3. ASSUME NEW u \in Visitors, Leave(u)
        PROVE  card'[v][c] = card[v][c]
    BY <2>3 DEF Leave, GoTo, TypeOK
  <2>4. CASE Pipeline \/ Crash \/ UNCHANGED vars
    BY <2>4 DEF Pipeline, pageVars, Crash, vars
  <2>5. ASSUME NEW u \in Visitors,
               \/ \E q \in Queries : LoadResults(u, q)
               \/ OpenEvents(u) \/ PushResults(u) \/ PushAds(u) \/ Tick(u)
               \/ PushFails(u) \/ Deadline(u) \/ ConnectionLost(u) \/ Reconnect(u)
        PROVE  card' = card
    BY <2>5 DEF LoadResults, OpenEvents, PushResults, PushAds, Tick, PushFails, Deadline,
                ConnectionLost, Reconnect
  <2> QED
    BY <2>1, <2>2, <2>3, <2>4, <2>5 DEF Next, HandlerStep
<1> QED
  BY <1>1, Invariance, PTL DEF Spec, CardsStay
=============================================================================
