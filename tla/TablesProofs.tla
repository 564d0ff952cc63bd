---------------------------- MODULE TablesProofs ----------------------------
(***************************************************************************)
(* Proofs about the tables, for every number of ids, queries, positions    *)
(* and documents.                                                          *)
(***************************************************************************)
EXTENDS Tables, TLAPS

-----------------------------------------------------------------------------
(* Lookups *)

\* Where there is a row, a lookup returns one.
LEMMA TheRowIn ==
    ASSUME NEW S, S # {}
    PROVE  TheRow(S) \in S
  BY DEF TheRow

\* A lookup returns the one row there is.
LEMMA TheRowIs ==
    ASSUME NEW S, NEW row \in S, \A other \in S : other = row
    PROVE  TheRow(S) = row
  BY TheRowIn

\* A lookup by id answers "not found" exactly where no row has the id.
LEMMA ByIdFinds ==
    ASSUME NEW table, None \notin table, NEW id
    PROVE  /\ ById(table, id) = None <=> \A row \in table : row.id # id
           /\ ById(table, id) # None => ById(table, id) \in table /\ ById(table, id).id = id
  <1> DEFINE found == {row \in table : row.id = id}
  <1>1. CASE found = {}
    BY <1>1 DEF ById, TheRow
  <1>2. CASE found # {}
    <2>1. TheRow(found) \in found
      BY <1>2, TheRowIn
    <2> QED
      BY <1>2, <2>1 DEF ById
  <1> QED
    BY <1>1, <1>2

\* The tables hold rows.
LEMMA NoneIsNoRow ==
    ASSUME TablesTypeOK
    PROVE  /\ None \notin queryTable
           /\ \A kind \in Kinds : None \notin itemTable[kind] /\ None \notin siteTable[kind]
  BY NoRowAssumption DEF TablesTypeOK

-----------------------------------------------------------------------------
(* What the statements do *)

LEMMA UpsertQueryDoes ==
    ASSUME TablesTypeOK, NEW text \in Queries, UpsertQuery(text)
    PROVE  /\ \A q \in queryTable : q.text # text
           /\ \E id \in Ids : /\ \A q \in queryTable : q.id # id
                              /\ queryTable' = queryTable \cup {[id |-> id, text |-> text]}
           /\ UNCHANGED <<itemTable, siteTable>>
  <1> DEFINE found == {q \in queryTable : q.text = text}
  <1>1. found = {}
    <2> SUFFICES ASSUME found # {}
                 PROVE  FALSE
      OBVIOUS
    <2>1. TheRow(found) \in queryTable
      BY TheRowIn
    <2> QED
      BY <2>1, NoneIsNoRow DEF UpsertQuery, GetQueryByText
  <1> QED
    BY <1>1 DEF UpsertQuery, Unused

\* The new row of an insert into results or ads, and what it meets.
LEMMA InsertItemDoes ==
    ASSUME TablesTypeOK, NEW kind \in Kinds, NEW query_id \in Ids,
           NEW p \in Positions(kind), NEW content \in Fabrics,
           InsertItem(kind, query_id, p, content)
    PROVE  /\ \E q \in queryTable : q.id = query_id
           /\ \A i \in itemTable[kind] : ~(i.query_id = query_id /\ i.position = p)
           /\ \E id \in Ids :
                 /\ \A i \in itemTable[kind] : i.id # id
                 /\ itemTable' = [itemTable EXCEPT ![kind] =
                                     itemTable[kind] \cup {Item(id, query_id, p, content)}]
           /\ UNCHANGED <<queryTable, siteTable>>
  <1>1. \E q \in queryTable : q.id = query_id
    BY ByIdFinds, NoneIsNoRow DEF InsertItem, GetQuery
  <1>2. \A i \in itemTable[kind] : ~(i.query_id = query_id /\ i.position = p)
    BY DEF InsertItem, PositionsOf, ItemsOf
  <1> QED
    BY <1>1, <1>2 DEF InsertItem, Unused

\* Row i of results or ads is given a document.
SiteAdded(kind, id, html, i) ==
    /\ i.id = id
    /\ [of |-> i.content, html |-> html] \in Websites
    /\ siteTable' = [siteTable EXCEPT ![kind] =
          siteTable[kind] \cup {[id |-> id, html |-> [of |-> i.content, html |-> html]]}]

\* The new row of an insert into websites or ad_websites, and its parent.
LEMMA InsertSiteDoes ==
    ASSUME TablesTypeOK, NEW kind \in Kinds, NEW id \in Ids, NEW html \in Fabrics,
           InsertSite(kind, id, html)
    PROVE  /\ \A s \in siteTable[kind] : s.id # id
           /\ \E i \in itemTable[kind] : SiteAdded(kind, id, html, i)
           /\ UNCHANGED <<queryTable, itemTable>>
  <1> DEFINE i == ById(itemTable[kind], id)
  <1>1. i \in itemTable[kind] /\ i.id = id
    BY ByIdFinds, NoneIsNoRow DEF InsertSite
  <1>2. i \in ItemRows(kind)
    BY <1>1 DEF TablesTypeOK
  <1>3. [of |-> i.content, html |-> html] \in Websites
    BY <1>2 DEF ItemRows, Websites
  <1>4. \A s \in siteTable[kind] : s.id # id
    BY ByIdFinds, NoneIsNoRow DEF InsertSite
  <1>5. SiteAdded(kind, id, html, i)
    BY <1>1, <1>3 DEF InsertSite, SiteAdded
  <1> QED
    BY <1>1, <1>4, <1>5 DEF InsertSite

\* Every step is one of these statements, or none.
LEMMA NextCases ==
    ASSUME [TablesNext]_tables
    PROVE  \/ \E text \in Queries : UpsertQuery(text)
           \/ \E kind \in Kinds, query_id \in Ids, content \in Fabrics :
                 \E p \in Positions(kind) : InsertItem(kind, query_id, p, content)
           \/ \E kind \in Kinds, id \in Ids, html \in Fabrics : InsertSite(kind, id, html)
           \/ UNCHANGED tables
  BY DEF TablesNext, InsertResult, InsertAd, InsertWebsite, InsertAdWebsite, Kinds

-----------------------------------------------------------------------------
(* The schema *)

LEMMA SchemaInit == TablesInit => SchemaHolds
  BY DEF TablesInit, SchemaHolds, TablesTypeOK, QueriesUnique, ItemsUnique, ItemsHaveQueries,
         SitesUnique, SitesHaveItems

LEMMA SchemaStep == SchemaHolds /\ [TablesNext]_tables => SchemaHolds'
  <1> SUFFICES ASSUME SchemaHolds, [TablesNext]_tables
               PROVE  SchemaHolds'
    OBVIOUS
  <1> USE DEF SchemaHolds
  <1>1. ASSUME NEW text \in Queries, UpsertQuery(text)
        PROVE  SchemaHolds'
    <2>1. PICK id \in Ids : /\ \A q \in queryTable : q.id # id
                            /\ queryTable' = queryTable \cup {[id |-> id, text |-> text]}
      BY <1>1, UpsertQueryDoes
    <2>2. UNCHANGED <<itemTable, siteTable>> /\ \A q \in queryTable : q.text # text
      BY <1>1, UpsertQueryDoes
    <2>3. TablesTypeOK'
      BY <2>1, <2>2 DEF TablesTypeOK, QueryRows
    <2>4. QueriesUnique'
      BY <2>1, <2>2 DEF QueriesUnique
    <2>5. ItemsHaveQueries'
      BY <2>1, <2>2 DEF ItemsHaveQueries
    <2> QED
      BY <2>2, <2>3, <2>4, <2>5 DEF ItemsUnique, SitesUnique, SitesHaveItems
  <1>2. ASSUME NEW kind \in Kinds, NEW query_id \in Ids, NEW content \in Fabrics,
               NEW p \in Positions(kind), InsertItem(kind, query_id, p, content)
        PROVE  SchemaHolds'
    <2>1. PICK id \in Ids :
             /\ \A i \in itemTable[kind] : i.id # id
             /\ itemTable' = [itemTable EXCEPT ![kind] =
                                 itemTable[kind] \cup {Item(id, query_id, p, content)}]
      BY <1>2, InsertItemDoes
    <2>2. /\ UNCHANGED <<queryTable, siteTable>>
          /\ \E q \in queryTable : q.id = query_id
          /\ \A i \in itemTable[kind] : ~(i.query_id = query_id /\ i.position = p)
      BY <1>2, InsertItemDoes
    <2> DEFINE new == Item(id, query_id, p, content)
    <2>3. /\ new \in ItemRows(kind)
          /\ new.id = id /\ new.query_id = query_id /\ new.position = p
      BY DEF Item, ItemRows
    <2> HIDE DEF new
    <2>4. /\ itemTable'[kind] = itemTable[kind] \cup {new}
          /\ \A other \in Kinds \ {kind} : itemTable'[other] = itemTable[other]
          /\ itemTable' = [k \in Kinds |-> itemTable'[k]]
      BY <2>1 DEF TablesTypeOK, new
    <2>5. TablesTypeOK'
      BY <2>2, <2>3, <2>4 DEF TablesTypeOK
    <2>6. ItemsUnique'
      BY <2>1, <2>2, <2>3, <2>4 DEF ItemsUnique
    <2>7. ItemsHaveQueries'
      BY <2>2, <2>3, <2>4 DEF ItemsHaveQueries
    <2>8. SitesHaveItems'
      BY <2>2, <2>4 DEF SitesHaveItems
    <2> QED
      BY <2>2, <2>5, <2>6, <2>7, <2>8 DEF QueriesUnique, SitesUnique
  <1>3. ASSUME NEW kind \in Kinds, NEW id \in Ids, NEW html \in Fabrics,
               InsertSite(kind, id, html)
        PROVE  SchemaHolds'
    <2>1. PICK i \in itemTable[kind] : SiteAdded(kind, id, html, i)
      BY <1>3, InsertSiteDoes
    <2>2. UNCHANGED <<queryTable, itemTable>> /\ \A s \in siteTable[kind] : s.id # id
      BY <1>3, InsertSiteDoes
    <2> DEFINE new == [id |-> id, html |-> [of |-> i.content, html |-> html]]
    <2>3. new \in SiteRows /\ new.id = id
      BY <2>1 DEF SiteRows, SiteAdded
    <2> HIDE DEF new
    <2>4. /\ siteTable'[kind] = siteTable[kind] \cup {new}
          /\ \A other \in Kinds \ {kind} : siteTable'[other] = siteTable[other]
          /\ siteTable' = [k \in Kinds |-> siteTable'[k]]
      BY <2>1 DEF TablesTypeOK, new, SiteAdded
    <2>5. TablesTypeOK'
      BY <2>2, <2>3, <2>4 DEF TablesTypeOK
    <2>6. SitesUnique'
      BY <2>2, <2>3, <2>4 DEF SitesUnique
    <2>7. SitesHaveItems'
      BY <2>1, <2>2, <2>3, <2>4 DEF SitesHaveItems, SiteAdded
    <2> QED
      BY <2>2, <2>5, <2>6, <2>7 DEF QueriesUnique, ItemsUnique, ItemsHaveQueries
  <1>4. CASE UNCHANGED tables
    BY <1>4 DEF tables, TablesTypeOK, QueriesUnique, ItemsUnique, ItemsHaveQueries,
                SitesUnique, SitesHaveItems
  <1> QED
    BY <1>1, <1>2, <1>3, <1>4, NextCases

\* The keys and references of the migrations hold after any statements.
THEOREM SchemaAlwaysHolds == TablesSpec => []SchemaHolds
  BY SchemaInit, SchemaStep, PTL DEF TablesSpec

-----------------------------------------------------------------------------
(* The refinement *)

\* The cells of the catalogue are those of the tables.
LEMMA CellsKeyed ==
    /\ Keyed!Cells = Cells
    /\ \A c \in Cells : c[1] \in Kinds /\ c[2] \in Queries /\ c[3] \in Positions(c[1])
  BY DEF Keyed!Cells, Cells, Keyed!Positions, Positions, Keyed!PerQuery, PerQuery, Kinds

\* A cell has one row at most, and a row one document.
OneRowAt(c) ==
    /\ \A i, j \in ItemsAt(c) : i = j
    /\ \A i \in ItemsAt(c) : i \in itemTable[c[1]] /\ i.content \in Fabrics
    /\ \A s, t \in SitesAt(c) : s = t
    /\ \A s \in SitesAt(c) : s \in siteTable[c[1]] /\ s.html \in Websites
    /\ SitesAt(c) # {} => ItemsAt(c) # {}

OneRowPerCell == \A c \in Cells : OneRowAt(c)

LEMMA OneRow == SchemaHolds => OneRowPerCell
  <1> SUFFICES ASSUME SchemaHolds, NEW c \in Cells
               PROVE  OneRowAt(c)
    BY DEF OneRowPerCell
  <1> USE CellsKeyed DEF SchemaHolds
  <1>1. ASSUME NEW i \in ItemsAt(c), NEW j \in ItemsAt(c)
        PROVE  i = j
    <2>1. [id |-> i.query_id, text |-> c[2]] = [id |-> j.query_id, text |-> c[2]]
      BY DEF ItemsAt, QueriesUnique
    <2>2. i.query_id = j.query_id
      BY <2>1
    <2> QED
      BY <2>2 DEF ItemsAt, ItemsUnique
  <1>2. ASSUME NEW i \in ItemsAt(c)
        PROVE  i \in itemTable[c[1]] /\ i.content \in Fabrics
    BY DEF ItemsAt, TablesTypeOK, ItemRows
  <1>3. ASSUME NEW s \in SitesAt(c), NEW t \in SitesAt(c)
        PROVE  s = t
    BY <1>1 DEF SitesAt, SitesUnique
  <1>4. ASSUME NEW s \in SitesAt(c)
        PROVE  s \in siteTable[c[1]] /\ s.html \in Websites
    BY DEF SitesAt, TablesTypeOK, SiteRows
  <1> QED
    BY <1>1, <1>2, <1>3, <1>4 DEF SitesAt, OneRowAt

\* And so it is after a step that keeps the schema.
LEMMA OneRowNext == SchemaHolds' => OneRowPerCell'
  BY OneRow, PTL

\* What the catalogue shows of a cell.
LEMMA ByCell ==
    ASSUME SchemaHolds, NEW c \in Cells
    PROVE  /\ RowsByCell[c] = None <=> ItemsAt(c) = {}
           /\ \A i \in ItemsAt(c) : RowsByCell[c] = i.content
           /\ SitesByCell[c] = None <=> SitesAt(c) = {}
           /\ \A s \in SitesAt(c) : SitesByCell[c] = s.html
  <1>1. \A i \in ItemsAt(c) : TheRow(ItemsAt(c)) = i
    BY OneRow, TheRowIs DEF OneRowPerCell, OneRowAt
  <1>2. \A s \in SitesAt(c) : TheRow(SitesAt(c)) = s
    BY OneRow, TheRowIs DEF OneRowPerCell, OneRowAt
  <1> QED
    BY <1>1, <1>2, OneRow, NoneAssumption DEF OneRowPerCell, OneRowAt, RowsByCell, SitesByCell

\* A new query has no rows yet.
LEMMA UpsertStutters ==
    ASSUME SchemaHolds, NEW text \in Queries, UpsertQuery(text)
    PROVE  UNCHANGED <<RowsByCell, SitesByCell>>
  <1> USE DEF SchemaHolds
  <1>1. PICK id \in Ids : /\ \A q \in queryTable : q.id # id
                          /\ queryTable' = queryTable \cup {[id |-> id, text |-> text]}
    BY UpsertQueryDoes
  <1>2. UNCHANGED <<itemTable, siteTable>>
    BY UpsertQueryDoes
  <1>3. ASSUME NEW c \in Cells
        PROVE  ItemsAt(c)' = ItemsAt(c)
    <2>1. ASSUME NEW i \in itemTable[c[1]]
          PROVE  [id |-> i.query_id, text |-> c[2]] \in queryTable'
                     <=> [id |-> i.query_id, text |-> c[2]] \in queryTable
      <3>1. PICK q \in queryTable : q.id = i.query_id
        BY CellsKeyed DEF ItemsHaveQueries
      <3>2. i.query_id # id
        BY <1>1, <3>1
      <3>3. [id |-> i.query_id, text |-> c[2]] # [id |-> id, text |-> text]
        BY <3>2
      <3> QED
        BY <1>1, <3>3
    <2> QED
      BY <1>2, <2>1 DEF ItemsAt
  <1>4. ASSUME NEW c \in Cells
        PROVE  SitesAt(c)' = SitesAt(c)
    BY <1>2, <1>3 DEF SitesAt
  <1> QED
    BY <1>3, <1>4 DEF RowsByCell, SitesByCell

\* An insert into results or ads fills the row of one cell.
LEMMA InsertItemFills ==
    ASSUME SchemaHolds, SchemaHolds', NEW kind \in Kinds, NEW query_id \in Ids,
           NEW p \in Positions(kind), NEW content \in Fabrics,
           InsertItem(kind, query_id, p, content)
    PROVE  \E c \in Cells : Keyed!FillRow(c, content)
  <1> USE DEF SchemaHolds
  <1>1. PICK id \in Ids :
           /\ \A i \in itemTable[kind] : i.id # id
           /\ itemTable' = [itemTable EXCEPT ![kind] =
                               itemTable[kind] \cup {Item(id, query_id, p, content)}]
    BY InsertItemDoes
  <1>2. /\ UNCHANGED <<queryTable, siteTable>>
        /\ \A i \in itemTable[kind] : ~(i.query_id = query_id /\ i.position = p)
    BY InsertItemDoes
  <1>3. PICK q \in queryTable : q.id = query_id
    BY InsertItemDoes
  <1>4. q \in QueryRows /\ q = [id |-> query_id, text |-> q.text]
    BY <1>3 DEF TablesTypeOK, QueryRows
  <1> DEFINE new == Item(id, query_id, p, content)
             c   == <<kind, q.text, p>>
  <1>5. c \in Cells
    BY <1>4 DEF Cells, Kinds, QueryRows
  <1>6. /\ new.id = id /\ new.query_id = query_id
        /\ new.position = p /\ new.content = content
    BY DEF Item
  <1> HIDE DEF new
  <1>7. /\ itemTable'[kind] = itemTable[kind] \cup {new}
        /\ \A other \in Kinds \ {kind} : itemTable'[other] = itemTable[other]
    BY <1>1 DEF TablesTypeOK, new
  <1>8. ItemsAt(c) = {}
    <2> SUFFICES ASSUME NEW i \in ItemsAt(c)
                 PROVE  FALSE
      OBVIOUS
    <2>1. i \in itemTable[kind] /\ i.position = p
      BY DEF ItemsAt
    <2>2. [id |-> i.query_id, text |-> q.text] = q
      BY <1>3, <1>4 DEF ItemsAt, QueriesUnique
    <2>3. i.query_id = query_id
      BY <1>4, <2>2
    <2> QED
      BY <1>2, <2>1, <2>3
  <1>9. new \in ItemsAt(c)'
    BY <1>2, <1>3, <1>4, <1>6, <1>7 DEF ItemsAt
  <1>10. ASSUME NEW d \in Cells, d # c
         PROVE  ItemsAt(d)' = ItemsAt(d)
    <2>1. new \notin ItemsAt(d)' \/ d[1] # kind
      <3> SUFFICES ASSUME new \in ItemsAt(d)', d[1] = kind
                   PROVE  FALSE
        OBVIOUS
      <3>1. d[3] = p /\ [id |-> query_id, text |-> d[2]] \in queryTable
        BY <1>2, <1>6 DEF ItemsAt
      <3>2. [id |-> query_id, text |-> d[2]] = q
        BY <1>3, <3>1 DEF QueriesUnique
      <3>3. d[2] = q.text
        BY <1>4, <3>2
      <3>4. d = <<d[1], d[2], d[3]>>
        BY DEF Cells
      <3> QED
        BY <1>10, <3>1, <3>3, <3>4
    <2>2. d[1] \in Kinds
      BY CellsKeyed
    <2> QED
      BY <1>2, <1>7, <2>1, <2>2 DEF ItemsAt
  <1>11. ASSUME NEW d \in Cells
         PROVE  SitesAt(d)' = SitesAt(d)
    <2>1. CASE d = c
      <3>1. SitesAt(d) = {}
        BY <1>8, <2>1, <1>5, OneRow DEF OneRowPerCell, OneRowAt
      <3>2. \A s \in siteTable[kind] : s.id # new.id
        BY <1>1, <1>6 DEF SitesHaveItems
      <3>3. \A i \in ItemsAt(c)' : i = new
        BY <1>5, <1>9, OneRowNext DEF OneRowPerCell, OneRowAt
      <3>4. SitesAt(d)' = {}
        BY <1>2, <2>1, <3>2, <3>3 DEF SitesAt
      <3> QED
        BY <3>1, <3>4
    <2>2. CASE d # c
      BY <1>2, <1>10, <2>2 DEF SitesAt
    <2> QED
      BY <2>1, <2>2
  <1>12. RowsByCell[c] = None
    BY <1>5, <1>8, ByCell
  <1>13. RowsByCell'[c] = content
    <2>1. TheRow(ItemsAt(c)') = new
      BY <1>5, <1>9, OneRowNext, TheRowIs DEF OneRowPerCell, OneRowAt
    <2> QED
      BY <1>5, <1>6, <1>9, <2>1 DEF RowsByCell
  <1>14. RowsByCell' = [RowsByCell EXCEPT ![c] = content]
    <2>1. \A d \in Cells : d # c => RowsByCell'[d] = RowsByCell[d]
      BY <1>10 DEF RowsByCell
    <2> QED
      BY <1>5, <1>13, <2>1 DEF RowsByCell
  <1>15. UNCHANGED SitesByCell
    BY <1>11 DEF SitesByCell
  <1> QED
    BY <1>5, <1>12, <1>14, <1>15 DEF Keyed!FillRow

\* An insert into websites or ad_websites fills the website of one cell.
LEMMA InsertSiteFills ==
    ASSUME SchemaHolds, SchemaHolds', NEW kind \in Kinds, NEW id \in Ids,
           NEW html \in Fabrics, InsertSite(kind, id, html)
    PROVE  \E c \in Cells : Keyed!FillSite(c, html)
  <1> TablesTypeOK
    BY DEF SchemaHolds
  <1>1. PICK i \in itemTable[kind] : SiteAdded(kind, id, html, i)
    BY InsertSiteDoes
  <1>2. UNCHANGED <<queryTable, itemTable>> /\ \A s \in siteTable[kind] : s.id # id
    BY InsertSiteDoes
  <1> USE DEF SchemaHolds
  <1>3. PICK q \in queryTable : q.id = i.query_id
    BY DEF ItemsHaveQueries
  <1>4. /\ q \in QueryRows /\ q = [id |-> i.query_id, text |-> q.text]
        /\ i.position \in Positions(kind)
    BY <1>3 DEF TablesTypeOK, QueryRows, ItemRows
  <1> DEFINE new == [id |-> id, html |-> [of |-> i.content, html |-> html]]
             c   == <<kind, q.text, i.position>>
  <1>5. c \in Cells
    BY <1>4 DEF Cells, Kinds, QueryRows
  <1>6. i \in ItemsAt(c)
    BY <1>3, <1>4 DEF ItemsAt
  <1>7. new.id = id /\ new.html = [of |-> i.content, html |-> html]
    OBVIOUS
  <1> HIDE DEF new
  <1>8. /\ siteTable'[kind] = siteTable[kind] \cup {new}
        /\ \A other \in Kinds \ {kind} : siteTable'[other] = siteTable[other]
    BY <1>1 DEF TablesTypeOK, new, SiteAdded
  <1>9. \A d \in Cells : ItemsAt(d)' = ItemsAt(d)
    BY <1>2 DEF ItemsAt
  <1>10. SitesAt(c) = {}
    <2> SUFFICES ASSUME NEW s \in SitesAt(c)
                 PROVE  FALSE
      OBVIOUS
    <2>1. s \in siteTable[kind] /\ \E j \in ItemsAt(c) : j.id = s.id
      BY DEF SitesAt
    <2> QED
      BY <1>1, <1>2, <1>5, <1>6, <2>1, OneRow DEF OneRowPerCell, OneRowAt, SiteAdded
  <1>11. new \in SitesAt(c)'
    BY <1>1, <1>5, <1>6, <1>7, <1>8, <1>9 DEF SitesAt, SiteAdded
  <1>12. ASSUME NEW d \in Cells, d # c
         PROVE  SitesAt(d)' = SitesAt(d)
    <2>1. ASSUME d[1] = kind, NEW j \in ItemsAt(d)
          PROVE  j.id # id
      <3> SUFFICES ASSUME j.id = id
                   PROVE  FALSE
        OBVIOUS
      <3>1. j = i
        BY <1>1, <2>1 DEF ItemsAt, ItemsUnique, SiteAdded
      <3>2. d[3] = i.position /\ [id |-> i.query_id, text |-> d[2]] = q
        BY <1>3, <3>1 DEF ItemsAt, QueriesUnique
      <3>3. d[2] = q.text
        BY <1>4, <3>2
      <3>4. d = <<d[1], d[2], d[3]>>
        BY DEF Cells
      <3> QED
        BY <1>12, <2>1, <3>2, <3>3, <3>4
    <2>2. d[1] \in Kinds
      BY CellsKeyed
    <2> QED
      BY <1>7, <1>8, <1>9, <2>1, <2>2 DEF SitesAt
  <1>13. RowsByCell[c] = i.content /\ RowsByCell[c] # None
    BY <1>5, <1>6, ByCell
  <1>14. SitesByCell[c] = None
    BY <1>5, <1>10, ByCell
  <1>15. SitesByCell'[c] = [of |-> RowsByCell[c], html |-> html]
    <2>1. TheRow(SitesAt(c)') = new
      BY <1>5, <1>11, OneRowNext, TheRowIs DEF OneRowPerCell, OneRowAt
    <2> QED
      BY <1>5, <1>7, <1>11, <1>13, <2>1 DEF SitesByCell
  <1>16. SitesByCell' = [SitesByCell EXCEPT ![c] = [of |-> RowsByCell[c], html |-> html]]
    <2>1. \A d \in Cells : d # c => SitesByCell'[d] = SitesByCell[d]
      BY <1>12 DEF SitesByCell
    <2> QED
      BY <1>5, <1>15, <2>1 DEF SitesByCell
  <1>17. UNCHANGED RowsByCell
    BY <1>9 DEF RowsByCell
  <1> QED
    BY <1>5, <1>13, <1>14, <1>16, <1>17 DEF Keyed!FillSite

\* The tables with their random ids implement the catalogue keyed by cells:
\* an upsert changes nothing a reader of cells sees, an insert fills one cell.
THEOREM TablesRefine == TablesSpec => TablesImplementCatalogue
<1>1. TablesInit => Keyed!CatalogueInit
  BY CellsKeyed
  DEF TablesInit, Keyed!CatalogueInit, RowsByCell, SitesByCell, ItemsAt, SitesAt
<1>2. SchemaHolds /\ SchemaHolds' /\ [TablesNext]_tables
         => [Keyed!CatalogueNext]_Keyed!catalogueVars
  <2> SUFFICES ASSUME SchemaHolds, SchemaHolds', [TablesNext]_tables
               PROVE  Keyed!CatalogueNext \/ UNCHANGED <<RowsByCell, SitesByCell>>
    BY DEF Keyed!catalogueVars
  <2>1. ASSUME NEW text \in Queries, UpsertQuery(text)
        PROVE  UNCHANGED <<RowsByCell, SitesByCell>>
    BY <2>1, UpsertStutters
  <2>2. ASSUME NEW kind \in Kinds, NEW query_id \in Ids, NEW content \in Fabrics,
               NEW p \in Positions(kind), InsertItem(kind, query_id, p, content)
        PROVE  Keyed!CatalogueNext
    BY <2>2, InsertItemFills, CellsKeyed DEF Keyed!CatalogueNext
  <2>3. ASSUME NEW kind \in Kinds, NEW id \in Ids, NEW html \in Fabrics,
               InsertSite(kind, id, html)
        PROVE  Keyed!CatalogueNext
    BY <2>3, InsertSiteFills, CellsKeyed DEF Keyed!CatalogueNext
  <2>4. CASE UNCHANGED tables
    BY <2>4 DEF tables, RowsByCell, SitesByCell, ItemsAt, SitesAt
  <2> QED
    BY <2>1, <2>2, <2>3, <2>4, NextCases
<1> QED
  BY <1>1, <1>2, SchemaAlwaysHolds, PTL
  DEF TablesSpec, TablesImplementCatalogue, Keyed!CatalogueSpec
-----------------------------------------------------------------------------
(* Answers stay *)

\* A lookup that found the one row of its id finds it in a larger table whose
\* ids are unique.
LEMMA ByIdStays ==
    ASSUME NEW old, NEW new, old \subseteq new, None \notin new, NEW id,
           \A r, s \in new : r.id = s.id => r = s,
           ById(old, id) # None
    PROVE  ById(new, id) = ById(old, id)
  <1> None \notin old
    OBVIOUS
  <1>1. ById(old, id) \in new /\ ById(old, id).id = id
    BY ByIdFinds
  <1>2. ById(new, id) # None
    BY <1>1, ByIdFinds
  <1>3. ById(new, id) \in new /\ ById(new, id).id = id
    BY <1>2, ByIdFinds
  <1> QED
    BY <1>1, <1>3

\* No statement removes a row.
LEMMA TablesGrow ==
    ASSUME TablesTypeOK, [TablesNext]_tables
    PROVE  /\ queryTable \subseteq queryTable'
           /\ \A kind \in Kinds : /\ itemTable[kind] \subseteq itemTable'[kind]
                                  /\ siteTable[kind] \subseteq siteTable'[kind]
  <1>1. ASSUME NEW text \in Queries, UpsertQuery(text)
        PROVE  queryTable \subseteq queryTable' /\ UNCHANGED <<itemTable, siteTable>>
    BY <1>1, UpsertQueryDoes
  <1>2. ASSUME NEW kind \in Kinds, NEW query_id \in Ids, NEW content \in Fabrics,
               NEW p \in Positions(kind), InsertItem(kind, query_id, p, content)
        PROVE  /\ UNCHANGED <<queryTable, siteTable>>
               /\ \A k \in Kinds : itemTable[k] \subseteq itemTable'[k]
    BY <1>2, InsertItemDoes DEF TablesTypeOK
  <1>3. ASSUME NEW kind \in Kinds, NEW id \in Ids, NEW html \in Fabrics,
               InsertSite(kind, id, html)
        PROVE  /\ UNCHANGED <<queryTable, itemTable>>
               /\ \A k \in Kinds : siteTable[k] \subseteq siteTable'[k]
    <2>1. PICK i \in itemTable[kind] : SiteAdded(kind, id, html, i)
      BY <1>3, InsertSiteDoes
    <2>2. UNCHANGED <<queryTable, itemTable>>
      BY <1>3, InsertSiteDoes
    <2> QED
      BY <2>1, <2>2 DEF TablesTypeOK, SiteAdded
  <1> QED
    BY <1>1, <1>2, <1>3, NextCases DEF tables

\* What a lookup by id or by text has once answered, it answers for good.
THEOREM AnswersKeep == TablesSpec => AnswersStay
<1>1. ASSUME SchemaHolds, SchemaHolds', [TablesNext]_tables
      PROVE  (\A id \in Ids : IdStays(id)) /\ (\A text \in Queries : TextStays(text))
  <2>1. /\ queryTable \subseteq queryTable'
        /\ \A kind \in Kinds : /\ itemTable[kind] \subseteq itemTable'[kind]
                               /\ siteTable[kind] \subseteq siteTable'[kind]
    BY <1>1, TablesGrow DEF SchemaHolds
  <2>2. /\ None \notin queryTable /\ None \notin queryTable'
        /\ \A kind \in Kinds : None \notin itemTable'[kind] /\ None \notin siteTable'[kind]
    BY <1>1, NoRowAssumption DEF SchemaHolds, TablesTypeOK
  <2>3. QueriesUnique' /\ ItemsUnique' /\ SitesUnique'
    BY <1>1 DEF SchemaHolds
  <2>4. "result" \in Kinds /\ "ad" \in Kinds
    BY DEF Kinds
  <2>5. ASSUME NEW id \in Ids
        PROVE  IdStays(id)
    <3>1. ById(queryTable, id) # None => ById(queryTable', id) = ById(queryTable, id)
      BY <2>1, <2>2, <2>3, ByIdStays DEF QueriesUnique
    <3>2. \A kind \in Kinds : ById(itemTable[kind], id) # None
                  => ById(itemTable'[kind], id) = ById(itemTable[kind], id)
      BY <2>1, <2>2, <2>3, ByIdStays DEF ItemsUnique
    <3>3. \A kind \in Kinds : ById(siteTable[kind], id) # None
                  => ById(siteTable'[kind], id) = ById(siteTable[kind], id)
      BY <2>1, <2>2, <2>3, ByIdStays DEF SitesUnique
    <3>4. GetResults(id) \subseteq GetResults(id)' /\ GetAds(id) \subseteq GetAds(id)'
      BY <2>1, <2>4 DEF GetResults, GetAds, ItemsOf
    <3> QED
      BY <2>4, <3>1, <3>2, <3>3, <3>4
      DEF IdStays, GetQuery, GetResult, GetAd, GetWebsite, GetAdWebsite
  <2>6. ASSUME NEW text \in Queries, GetQueryByText(text) # None
        PROVE  GetQueryByText(text)' = GetQueryByText(text)
    <3> DEFINE found == {q \in queryTable : q.text = text}
               later == {q \in queryTable' : q.text = text}
    <3>1. found # {}
      BY <2>6 DEF GetQueryByText, TheRow
    <3>2. TheRow(found) \in found
      BY <3>1, TheRowIn
    <3>3. TheRow(found) \in later /\ later # {}
      BY <2>1, <3>2
    <3>4. TheRow(later) \in later
      BY <3>3, TheRowIn
    <3>5. TheRow(later) = TheRow(found)
      BY <2>3, <3>3, <3>4 DEF QueriesUnique
    <3> QED
      BY <3>5 DEF GetQueryByText, TheRow
  <2> QED
    BY <2>5, <2>6 DEF TextStays
<1> QED
  BY <1>1, SchemaAlwaysHolds, PTL DEF TablesSpec, AnswersStay
=============================================================================
