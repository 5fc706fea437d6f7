------------------------------- MODULE EtlPedido -------------------------------
(***************************************************************************)
(* What the executions of a domain promise to whoever asked for them,      *)
(* whether one process runs the phases (EtlControle) or a chain of chords  *)
(* does (EtlChord).  An execution serves a request: its own, or that of    *)
(* the execution it continues; a request has the name of its first         *)
(* execution.  A phase done for a request stays done, and an execution is  *)
(* reported concluded only when every phase it answers for was done for    *)
(* its request.  Checkpoints are a means to this and do not appear.        *)
(***************************************************************************)
EXTENDS Integers

CONSTANTS
  Fases,     \* the phases of the domain
  Ids,       \* executions
  Vazias     \* the phases that have nothing to write

VARIABLES
  pedido,     \* the request an execution serves, 0 until it begins
  escopo,     \* the phases an execution answers for
  feitas,     \* the phases done for a request
  concluidas  \* the executions reported "concluido"

varsPedido == <<pedido, escopo, feitas, concluidas>>

Init ==
  /\ pedido = [e \in Ids |-> 0]
  /\ escopo = [e \in Ids |-> {}]
  /\ feitas = [r \in Ids |-> Vazias]
  /\ concluidas = {}

Iniciadas == {e \in Ids : pedido[e] # 0}

(* An execution begins a request of its own or goes on with one. *)
Iniciar(e) ==
  /\ pedido[e] = 0
  /\ \E r \in {e} \cup {pedido[d] : d \in Iniciadas} :
       pedido' = [pedido EXCEPT ![e] = r]
  /\ \E fs \in SUBSET Fases : escopo' = [escopo EXCEPT ![e] = fs]
  /\ UNCHANGED <<feitas, concluidas>>

(* A phase is done, for every request that was waiting for it: one that had  *)
(* not been made yet will find it undone.                                    *)
Fazer(f) ==
  /\ UNCHANGED <<pedido, escopo, concluidas>>
  /\ \E rs \in SUBSET Iniciadas :
       feitas' = [r \in Ids |-> IF r \in rs THEN feitas[r] \cup {f} ELSE feitas[r]]

Concluir(e) ==
  /\ e \in Iniciadas
  /\ escopo[e] \subseteq feitas[pedido[e]]
  /\ concluidas' = concluidas \cup {e}
  /\ UNCHANGED <<pedido, escopo, feitas>>

(* A cancellation or a clean-up that read the executions before they ended   *)
(* overwrites what they reported.                                            *)
Sobrescrever ==
  /\ UNCHANGED <<pedido, escopo, feitas>>
  /\ concluidas' \in SUBSET concluidas

Next ==
  \/ Sobrescrever
  \/ \E f \in Fases : Fazer(f)
  \/ \E e \in Ids : Iniciar(e) \/ Concluir(e)

Spec == Init /\ [][Next]_varsPedido
================================================================================
