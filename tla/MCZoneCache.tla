----------------------------- MODULE MCZoneCache -----------------------------
(* ZoneCache for TLC.  Nodes and pods are model values; no symmetry is used, *)
(* since the run checks a liveness property.                                 *)
EXTENDS ZoneCache

===============================================================================
