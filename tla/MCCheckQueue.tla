---------------------------- MODULE MCCheckQueue ----------------------------
(* The instance of CheckQueue for TLC: all constants are model values and  *)
(* numbers, given in the configuration.                                    *)
EXTENDS CheckQueue
=============================================================================
