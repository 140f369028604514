--------------------------- MODULE MCSpecCache ---------------------------
(***************************************************************************)
(* Two versions of every part, caches of one or two entries, two calls     *)
(* (up to nine lookups) and a change of the state between them.            *)
(***************************************************************************)
EXTENDS SpecCache

RECURSIVE MCDirect(_, _, _)
MCDirect(f, arg, s) ==
  Own(f, arg, s) \cup
  UNION { MCDirect(Callees(f, arg, s)[i][1], Callees(f, arg, s)[i][2], s) :
            i \in DOMAIN Callees(f, arg, s) }

MCLruSize(f) == IF f = "get_active_validator_indices" THEN 2 ELSE 1
=============================================================================
