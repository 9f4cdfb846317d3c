--------------------------- MODULE MCCatalogLoader ---------------------------
(***************************************************************************)
(* CatalogLoader for TLC: a plain load and a refresh, of one process or of *)
(* two, over a registry that goes on publishing.                           *)
(***************************************************************************)
EXTENDS CatalogLoader

CONSTANTS load, refresh

MCLoads == {load, refresh}
MCForced == {refresh}
MCNoRanks == {}

\* Stable, pre-release that does not validate, stable but not canonical, stable.
MCPrereleases == {2}
MCUncanonical == {3}
=============================================================================
