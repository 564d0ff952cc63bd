---------------------------- MODULE SearchModel ----------------------------
(***************************************************************************)
(* The vocabulary of the search engine (package model and the migrations): *)
(* queries, the result and ad positions below them, and the documents the  *)
(* language model fabricates for them.                                     *)
(*                                                                         *)
(* A cell <<kind, query, position>> is the unique key of one row of the    *)
(* tables results (kind "result") and ads (kind "ad"); the website of a    *)
(* row is keyed by the row, so by the same cell.                           *)
(***************************************************************************)
EXTENDS Naturals

CONSTANTS
    Queries,            \* normalised query texts
    Fabrics,            \* answers of the language model, told apart
    None,               \* no row, no website, no job
    ResultsPerQuery,    \* resultsPerQuery
    AdsPerQuery         \* adsPerQuery

Kinds == {"result", "ad"}

PerQuery(kind) == IF kind = "result" THEN ResultsPerQuery ELSE AdsPerQuery

Positions(kind) == 0 .. PerQuery(kind) - 1

Cells == {<<"result", q, p>> : q \in Queries, p \in Positions("result")}
           \cup {<<"ad", q, p>> : q \in Queries, p \in Positions("ad")}

(* A website remembers the row it was fabricated from: its prompt holds    *)
(* the title, the display URL and the description of that row.             *)
Websites == [of : Fabrics, html : Fabrics]

ASSUME PositionsAssumption == /\ ResultsPerQuery \in Nat
                              /\ AdsPerQuery \in Nat

ASSUME NoneAssumption == None \notin Cells \cup Fabrics \cup Websites
=============================================================================
