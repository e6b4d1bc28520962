---------------------------- MODULE MCRetroactive ----------------------------
(***************************************************************************)
(* Small chains for Retroactive: two contracts of one strategy id and one  *)
(* of another, none with a handler in the first build.                     *)
(***************************************************************************)
EXTENDS Retroactive

CONSTANTS sa, sb, sc, id1, id2

MCAddresses == {sa, sb, sc}
MCIds == {id1, id2}
MCIdOf == [x \in MCAddresses |-> IF x = sc THEN id2 ELSE id1]

PoolOf(x) == [addr |-> x, pool |-> TRUE]
By(x) == [addr |-> x, pool |-> FALSE]

\* Events of the two contracts of id1 in turn and, between them, one of id2.
MCLog == << PoolOf(sa), PoolOf(sb), By(sa), By(sb), PoolOf(sc), By(sc) >>
=============================================================================
