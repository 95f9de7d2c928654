----------------------------- MODULE MCCatalog ------------------------------
(***************************************************************************)
(* A small instance of CatalogSeeding for TLC: the first release ships a,  *)
(* the second a and b.  d comes from the publisher and from promotions,    *)
(* which adds behaviours and saves states; or y from the publisher.        *)
(***************************************************************************)
EXTENDS CatalogSeeding

McRelease == << <<"a">>, <<"a", "b">> >>

McFeed == <<"d">>

McPublisher == <<"y">>

=============================================================================
