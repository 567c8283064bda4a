----------------------------- MODULE MCExporter -----------------------------
(***************************************************************************)
(* Small instances of Exporter for TLC.                                    *)
(***************************************************************************)
EXTENDS Exporter, TLC

ScrapeSymmetry == Permutations(Scrapes)

\* collect[] values: one collector that is known, or none that is
OneFilter == {{CHOOSE c \in Collectors : TRUE}}
OneFilterOrUnknown == OneFilter \cup {{}}
=============================================================================
