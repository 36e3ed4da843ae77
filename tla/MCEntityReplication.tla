------------------------- MODULE MCEntityReplication -------------------------
(* A session with its own player and one other entity, of either kind.       *)
EXTENDS EntityReplication
CONSTANTS p, x
==============================================================================
