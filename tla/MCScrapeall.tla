---------------------------- MODULE MCScrapeall -----------------------------
(***************************************************************************)
(* Three targets for Scrapeall.                                            *)
(***************************************************************************)
EXTENDS Scrapeall

\* The first two targets bear the same name, such as one host with two users; the third has
\* one of its own and comes after their clash.
NamedTargets == <<"host1", "host1", "host2">>
=============================================================================
