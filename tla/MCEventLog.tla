----------------------------- MODULE MCEventLog ------------------------------
(* Small instances of EventLog; the constants' values are in the .cfg      *)
(* files.                                                                  *)
EXTENDS EventLog, TLC
=============================================================================
