------------------------ MODULE MCDependencyOrder ------------------------
(***************************************************************************)
(* Four classes in every initial order, with every acyclic choice of the   *)
(* classes their fields name, and sources with a word that is no class.    *)
(***************************************************************************)
EXTENDS DependencyOrder, TLC

CONSTANTS A, B, C, D, Unknown

MCObjects == {A, B, C, D}
MCNames == MCObjects \cup {Unknown}

(* The words of a class, each once: repeating one changes nothing. *)
Words(S) == UNION { SetToSeqs(T) : T \in SUBSET S }

(* Up to renaming the classes, a class names only classes before it here. *)
MCDocuments ==
  { doc \in [MCObjects -> Words({A, B, C}) \cup {<<A, Unknown>>, <<B, A, Unknown, C>>}] :
      /\ doc[A] = << >>
      /\ doc[B] \in Words({A})
      /\ doc[C] \in Words({A, B}) \cup {<<A, Unknown>>} }
=============================================================================
