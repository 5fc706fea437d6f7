---------------------------- MODULE MCEtlTerritorio ----------------------------
(* Values of the constants of EtlTerritorio that a .cfg cannot write. *)
EXTENDS EtlTerritorioProps

(* Two groups of one historic key (two teachers), one of a single component
   and one alone in each year.                                             *)
ChavesExatas == 1..4

HistoricaDe == [e \in ChavesExatas |-> IF e = 1 THEN "h1" ELSE
                  IF e = 2 THEN "h1" ELSE IF e = 3 THEN "h2" ELSE "h3"]

AnoDaTurma == [h \in {"h1", "h2", "h3"} |-> IF h = "h3" THEN 2025 ELSE 2024]

(* The API EOL gives h1 two codes. *)
LinhasOficiais == {[cod |-> 800002, exata |-> 1], [cod |-> 800001, exata |-> 2],
                   [cod |-> 5, exata |-> 4]}
===============================================================================
