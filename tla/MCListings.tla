------------------------------ MODULE MCListings ------------------------------
(***************************************************************************)
(* Instances of Listings for TLC.                                          *)
(***************************************************************************)
EXTENDS Listings, TLC

CONSTANTS rev1, rev2, lay1, lay2, lay3, doc1, doc2, doc3, note1, note2, note3,
          cor1, cor2, log1, log2

Reviews   == {rev1, rev2}
Layoffs   == {lay1, lay2, lay3}
Documents == {doc1, doc2, doc3}
Notes     == {note1, note2, note3}
Comments  == {cor1, cor2}
Log       == {log1, log2}

AllRows == Reviews \cup Layoffs \cup Documents \cup Notes \cup Comments \cup Log

TableOfRow ==
    [i \in AllRows |-> CASE i \in Reviews   -> "reviews"
                         [] i \in Layoffs   -> "layoffs"
                         [] i \in Documents -> "documents"
                         [] i \in Notes     -> "complaints"
                         [] i \in Comments  -> "corroborations"
                         [] i \in Log       -> "takedowns"]

CreatedAt ==
    (rev1 :> 1) @@ (lay1 :> 2) @@ (rev2 :> 3) @@ (lay2 :> 4) @@ (lay3 :> 6)
    @@ (doc1 :> 1) @@ (doc2 :> 2) @@ (doc3 :> 3) @@ (note1 :> 1) @@ (note2 :> 2) @@ (note3 :> 3)
    @@ (cor1 :> 1) @@ (cor2 :> 2) @@ (log1 :> 1) @@ (log2 :> 2)

\* two layoffs of one day, and an urgent complaint that overtakes the others
DueAt ==
    [i \in AllRows |-> CASE i \in {lay1, lay2} -> 1 [] i = lay3 -> 2
                         [] i = note3 -> 1 [] i = note1 -> 2 [] OTHER -> 3]

AllFeeds == {"moderation queue", "document queue", "company reviews", "company layoffs",
             "corroborations", "takedown log", "grievances"}

=============================================================================
