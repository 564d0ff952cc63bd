------------------------------- MODULE Tables -------------------------------
(***************************************************************************)
(* Package sqlite on its tables: rows with ids, unique keys, foreign keys  *)
(* and "on conflict do nothing". The other modules name a row by its cell, *)
(* the key <<kind, query, position>>; the handlers name it by an id that   *)
(* was drawn at random when it was inserted. This module keeps the ids and *)
(* shows that the tables are the catalogue all the same.                   *)
(*                                                                         *)
(* A statement is one step, and so is the transaction of UpsertQuery. A    *)
(* statement that fails (a missing parent, a position the check refuses)   *)
(* changes nothing and is left out.                                        *)
(***************************************************************************)
EXTENDS SearchModel

CONSTANT Ids        \* what follows the prefix q_, r_ or a_; bounds each table

VARIABLES
    queryTable,     \* rows of queries
    itemTable,      \* kind -> rows of results or ads
    siteTable       \* kind -> rows of websites or ad_websites

tables == <<queryTable, itemTable, siteTable>>

QueryRows == [id : Ids, text : Queries]
ItemRows(kind) == [id : Ids, query_id : Ids, position : Positions(kind), content : Fabrics]
SiteRows == [id : Ids, html : Websites]

\* No row of a table looks like none.
ASSUME NoRowAssumption == /\ None \notin QueryRows
                          /\ \A kind \in Kinds : None \notin ItemRows(kind)
                          /\ None \notin SiteRows

TablesTypeOK ==
    /\ queryTable \subseteq QueryRows
    /\ \A kind \in Kinds : /\ itemTable[kind] \subseteq ItemRows(kind)
                           /\ siteTable[kind] \subseteq SiteRows
    /\ itemTable = [kind \in Kinds |-> itemTable[kind]]
    /\ siteTable = [kind \in Kinds |-> siteTable[kind]]

TablesInit ==
    /\ queryTable = {}
    /\ itemTable = [kind \in Kinds |-> {}]
    /\ siteTable = [kind \in Kinds |-> {}]

Unused(table) == {i \in Ids : \A row \in table : row.id # i}

-----------------------------------------------------------------------------
(* Lookups: the row, or None where the code answers "not found" *)

TheRow(rows) == IF rows = {} THEN None ELSE CHOOSE row \in rows : TRUE

ById(table, id) == TheRow({row \in table : row.id = id})

GetQuery(id) == ById(queryTable, id)

GetQueryByText(text) == TheRow({q \in queryTable : q.text = text})

GetResult(id) == ById(itemTable["result"], id)

GetAd(id) == ById(itemTable["ad"], id)

GetWebsite(id) == ById(siteTable["result"], id)

GetAdWebsite(id) == ById(siteTable["ad"], id)

ItemsOf(kind, query_id) == {item \in itemTable[kind] : item.query_id = query_id}

GetResults(query_id) == ItemsOf("result", query_id)

GetAds(query_id) == ItemsOf("ad", query_id)

PositionsOf(items) == {item.position : item \in items}

-----------------------------------------------------------------------------
(* Statements *)

\* Variant: text is not unique.
UpsertQueryAgain(text) ==
    /\ \E id \in Unused(queryTable) :
          queryTable' = queryTable \cup {[id |-> id, text |-> text]}
    /\ UNCHANGED <<itemTable, siteTable>>

\* A text that is there already keeps its row.
UpsertQuery(text) ==
    /\ GetQueryByText(text) = None
    /\ \E id \in Unused(queryTable) :
          queryTable' = queryTable \cup {[id |-> id, text |-> text]}
    /\ UNCHANGED <<itemTable, siteTable>>

Item(id, query_id, position, content) ==
    [id |-> id, query_id |-> query_id, position |-> position, content |-> content]

\* Variants: the unique key is forgotten; "insert or replace", which deletes
\* the old row and, by cascade, its document.
InsertItemTwice(kind, query_id, position, content) ==
    /\ GetQuery(query_id) # None
    /\ \E id \in Unused(itemTable[kind]) :
          itemTable' = [itemTable EXCEPT ![kind] =
                            @ \cup {Item(id, query_id, position, content)}]
    /\ UNCHANGED <<queryTable, siteTable>>

InsertItemOrReplace(kind, query_id, position, content) ==
    /\ GetQuery(query_id) # None
    /\ \E id \in Unused(itemTable[kind]) :
          LET old == {o \in ItemsOf(kind, query_id) : o.position = position}
          IN  /\ itemTable' = [itemTable EXCEPT ![kind] =
                                  (@ \ old) \cup {Item(id, query_id, position, content)}]
              /\ siteTable' = [siteTable EXCEPT ![kind] =
                                  {s \in @ : \A o \in old : o.id # s.id}]
    /\ UNCHANGED queryTable

\* The parent must be there; a position that is taken stays as it is.
InsertItem(kind, query_id, position, content) ==
    /\ GetQuery(query_id) # None
    /\ position \notin PositionsOf(ItemsOf(kind, query_id))
    /\ \E id \in Unused(itemTable[kind]) :
          itemTable' = [itemTable EXCEPT ![kind] =
                            @ \cup {Item(id, query_id, position, content)}]
    /\ UNCHANGED <<queryTable, siteTable>>

InsertResult(query_id, position, content) ==
    InsertItem("result", query_id, position, content)

InsertAd(query_id, position, content) == InsertItem("ad", query_id, position, content)

\* The document was fabricated from the row that the caller had looked up.
InsertSite(kind, id, html) ==
    /\ ById(itemTable[kind], id) # None
    /\ ById(siteTable[kind], id) = None
    /\ siteTable' = [siteTable EXCEPT ![kind] =
           @ \cup {[id |-> id, html |-> [of   |-> ById(itemTable[kind], id).content,
                                         html |-> html]]}]
    /\ UNCHANGED <<queryTable, itemTable>>

InsertWebsite(id, html) == InsertSite("result", id, html)

InsertAdWebsite(id, html) == InsertSite("ad", id, html)

TablesNext ==
    \/ \E text \in Queries : UpsertQuery(text)
    \/ \E query_id \in Ids, content \in Fabrics :
          \/ \E p \in Positions("result") : InsertResult(query_id, p, content)
          \/ \E p \in Positions("ad") : InsertAd(query_id, p, content)
    \/ \E id \in Ids, html \in Fabrics : InsertWebsite(id, html) \/ InsertAdWebsite(id, html)

TablesSpec == TablesInit /\ [][TablesNext]_tables

-----------------------------------------------------------------------------
(* Properties *)

QueriesUnique == \A q, r \in queryTable : q.id = r.id \/ q.text = r.text => q = r

ItemsUnique ==
    \A kind \in Kinds : \A i, j \in itemTable[kind] :
        i.id = j.id \/ (i.query_id = j.query_id /\ i.position = j.position) => i = j

ItemsHaveQueries ==
    \A kind \in Kinds : \A i \in itemTable[kind] : \E q \in queryTable : q.id = i.query_id

SitesUnique == \A kind \in Kinds : \A s, t \in siteTable[kind] : s.id = t.id => s = t

SitesHaveItems ==
    \A kind \in Kinds : \A s \in siteTable[kind] : \E i \in itemTable[kind] : i.id = s.id

\* The keys and references of the schema hold together, table by table: ids and
\* texts are unique, a position of a query is taken once, and no row is without
\* its parent although three statements of different jobs write the chain.
SchemaHolds == /\ TablesTypeOK
               /\ QueriesUnique
               /\ ItemsUnique
               /\ ItemsHaveQueries
               /\ SitesUnique
               /\ SitesHaveItems

IdStays(id) ==
    /\ GetQuery(id) # None => GetQuery(id)' = GetQuery(id)
    /\ GetResult(id) # None => GetResult(id)' = GetResult(id)
    /\ GetAd(id) # None => GetAd(id)' = GetAd(id)
    /\ GetWebsite(id) # None => GetWebsite(id)' = GetWebsite(id)
    /\ GetAdWebsite(id) # None => GetAdWebsite(id)' = GetAdWebsite(id)
    /\ GetResults(id) \subseteq GetResults(id)'
    /\ GetAds(id) \subseteq GetAds(id)'

TextStays(text) ==
    GetQueryByText(text) # None => GetQueryByText(text)' = GetQueryByText(text)

\* An id, once given out in a link, a job or an answer, leads to the same row
\* for good, and so does the text of a query.
AnswersStay == [][/\ \A id \in Ids : IdStays(id)
                  /\ \A text \in Queries : TextStays(text)]_tables

\* The rows of a cell, found through the text of its query and its position.
ItemsAt(c) == {i \in itemTable[c[1]] : /\ i.position = c[3]
                                       /\ [id |-> i.query_id, text |-> c[2]] \in queryTable}

SitesAt(c) == {s \in siteTable[c[1]] : \E i \in ItemsAt(c) : i.id = s.id}

RowsByCell ==
    [c \in Cells |-> IF ItemsAt(c) = {} THEN None ELSE TheRow(ItemsAt(c)).content]

SitesByCell ==
    [c \in Cells |-> IF SitesAt(c) = {} THEN None ELSE TheRow(SitesAt(c)).html]

\* The tables with their random ids implement the catalogue keyed by cells, on
\* which all the other modules rest.
Keyed == INSTANCE Catalogue WITH rows <- RowsByCell, sites <- SitesByCell
TablesImplementCatalogue == Keyed!CatalogueSpec
=============================================================================
