----------------------------- MODULE SpawnSampling -----------------------------
(***************************************************************************)
(* How many of each kind go into a group: what an author may ask for, and  *)
(* what is drawn.  A composition is [units, min, max]: the size of a group *)
(* lies in min..max, and units[k] is the range of the kind k in it.        *)
(***************************************************************************)
EXTENDS Integers, FiniteSetsExt, Functions

LeastOf(units) == FoldFunction(LAMBDA u, sum : u.min + sum, 0, units)
MostOf(units) == FoldFunction(LAMBDA u, sum : u.max + sum, 0, units)

validate_spawn_composition(c) ==
    /\ DOMAIN c.units # {} /\ c.min > 0 /\ c.min <= c.max
    /\ \A k \in DOMAIN c.units : c.units[k].min <= c.units[k].max
    /\ LeastOf(c.units) <= c.min
    /\ MostOf(c.units) >= c.max

\* The compositions of a group of n: each kind within its range.  The least of
\* every kind is drawn even if that is more than n, and there is no more to draw
\* than the most of every kind.
draw_spawn_composition(units, n) ==
    LET size == Max({Min({n, MostOf(units)}), LeastOf(units)})
    IN {drawn \in [DOMAIN units -> 0..size] :
          /\ \A k \in DOMAIN units : drawn[k] \in units[k].min..units[k].max
          /\ FoldFunction(+, 0, drawn) = size}
================================================================================
