-------------------------- MODULE MCCatalogRequest --------------------------
(* Bounded inputs for CatalogRequest: every query text of at most three    *)
(* characters over the whole alphabet, limits on both sides of the clamp.  *)
EXTENDS CatalogRequest

CONSTANTS id1, id2

MCQueries == BoundedSeq(QueryChars, 3)
MCLimitArgs == {NoArg, 0, 1, 99, 100, 101, 500}
MCOffsetArgs == {NoArg, 0, 7}
MCIds == {id1, id2}
=============================================================================
