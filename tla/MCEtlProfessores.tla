-------------------------- MODULE MCEtlProfessores -----------------------------
(* Values of the constants of EtlProfessores that a .cfg cannot write. *)
EXTENDS EtlProfessoresProps

(* A chunk in the tables where phases 1 to 3 begin, where a resumption
   differs and where a failure or a repeated chunk does; two where their order
   matters, in the first table and the last; the other tables are empty.   *)
LotesCurtos == [t \in Tabelas |-> CASE t \in {1, 21} -> 2
                                    [] t \in {4, 5, 7, 14, 18} -> 1
                                    [] OTHER -> 0]

(* The years given: the first chunk of the last table. *)
LotesRecentes == [LotesCurtos EXCEPT ![21] = 1]
===============================================================================
