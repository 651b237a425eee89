--------------------------- MODULE MCListingCrawl ---------------------------
(* A small crawl for TLC: a venue of two status listings.                  *)
EXTENDS ListingCrawl, TLC

MCListings == <<"accepted", "rejected">>
=============================================================================
