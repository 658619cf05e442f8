--------------------------- MODULE MCDeprovisioner ---------------------------
(* Deprovisioner for TLC.  The constants are given in the .cfg files.       *)
EXTENDS Deprovisioner

===============================================================================
