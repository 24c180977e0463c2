-------------------------- MODULE MCScrapeTargets --------------------------
(* Scrapers on an instance where a target can leave in the middle of a scrape. *)
EXTENDS ScrapeTargets

Spec == Init /\ [][Next]_vars
=============================================================================
