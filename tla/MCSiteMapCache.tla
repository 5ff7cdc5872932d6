--------------------------- MODULE MCSiteMapCache ---------------------------
(* site_stats.py --clean and page_map.py for TLC.                          *)
EXTENDS SiteMapCache

Commands ==
  [site_stats |-> [want |-> "site", clean |-> TRUE, sizes |-> FALSE],
   page_map |-> [want |-> "gb", clean |-> FALSE, sizes |-> TRUE]]

CommandNames == DOMAIN Commands
=============================================================================
