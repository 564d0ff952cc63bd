----------------------------- MODULE Catalogue -----------------------------
(***************************************************************************)
(* What the fabrication pipeline promises to its readers, whatever jobs,   *)
(* retries and crashes it takes: each position of a query is filled at     *)
(* most once, its website at most once and after it, from the very row the *)
(* visitors see, and neither ever changes. Package html links a card to    *)
(* the id of its row and writeSiteHTML lets browsers keep a website for a  *)
(* day, so both rely on it.                                                *)
(***************************************************************************)
EXTENDS SearchModel

VARIABLES
    rows,       \* cell -> the row of results or ads, or None
    sites       \* cell -> the row of websites or ad_websites, or None

catalogueVars == <<rows, sites>>

CatalogueInit == /\ rows = [c \in Cells |-> None]
                 /\ sites = [c \in Cells |-> None]

\* Variant: a row is updated on conflict.
FillRowLastWins(c, f) == rows' = [rows EXCEPT ![c] = f] /\ UNCHANGED sites

FillRow(c, f) == /\ rows[c] = None
                 /\ rows' = [rows EXCEPT ![c] = f]
                 /\ UNCHANGED sites

\* Variant: a website is updated on conflict.
FillSiteLastWins(c, f) == /\ rows[c] # None
                          /\ sites' = [sites EXCEPT ![c] = [of |-> rows[c], html |-> f]]
                          /\ UNCHANGED rows

FillSite(c, f) == /\ rows[c] # None
                  /\ sites[c] = None
                  /\ sites' = [sites EXCEPT ![c] = [of |-> rows[c], html |-> f]]
                  /\ UNCHANGED rows

CatalogueNext == \E c \in Cells, f \in Fabrics : FillRow(c, f) \/ FillSite(c, f)

CatalogueSpec == CatalogueInit /\ [][CatalogueNext]_catalogueVars
=============================================================================
