------------------------------ MODULE MCParts ------------------------------
(* Parts, with the URLs and patterns of MCCrawlRules. *)
EXTENDS Parts, MCCrawlRules
=============================================================================
