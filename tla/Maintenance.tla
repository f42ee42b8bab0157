----------------------------- MODULE Maintenance -----------------------------
(***************************************************************************)
(* run_maintenance_loop of matchmaker_storage.py, and the two ways it is   *)
(* started: by matchmaking_server.main, with an on_purge argument the      *)
(* function does not take, and by the test-suite, without it.              *)
(***************************************************************************)
EXTENDS MatchmakerStorage

CONSTANTS
  Starter,       (* "main" or "harness"                                    *)
  IntervalSec,   (* --maintenance-interval-sec; interval_s                 *)
  MaxFaults      (* bound of the model: transient SQLite faults            *)

ASSUME MaintenanceAssumption ==
  /\ Starter \in {"main", "harness"}
  /\ IntervalSec \in Nat
  /\ MaxFaults \in Nat

VARIABLES
  loop,      (* the maintenance thread's next step                         *)
  loopNow,   (* its copy of time.time(), 0 when it has none                *)
  wake,      (* when stop_event.wait(interval_s) times out, 0 if not waiting *)
  stopSet,   (* stop_event.is_set()                                        *)
  faults     (* cycles that raised                                         *)

maintenanceVars == <<loop, loopNow, wake, stopSet, faults>>

MaintenanceTypeOK ==
  /\ loop \in {"off", "call", "dead", "checkpoint", "now", "purge", "wait",
              "returned"}
  /\ loopNow \in Nat /\ wake \in Nat /\ faults \in Nat
  /\ stopSet \in BOOLEAN

(* main starts no thread for an interval of 0; the tests always call.      *)
Started == IF Starter = "main" /\ IntervalSec = 0 THEN "off" ELSE "call"

MaintenanceInit ==
  /\ loop = Started
  /\ loopNow = 0 /\ wake = 0
  /\ stopSet = FALSE
  /\ faults = 0

StartLoop ==
  /\ loop' = Started
  /\ loopNow' = 0 /\ wake' = 0
  /\ stopSet' = FALSE
  /\ UNCHANGED faults

-----------------------------------------------------------------------------
(* The thread calls run_maintenance_loop.  main passes an on_purge keyword *)
(* the function does not have: the call raises TypeError outside the       *)
(* loop's try block, and the thread is gone.                               *)
CallLoop ==
  /\ loop = "call"
  /\ loop' = IF Starter = "main" THEN "dead" ELSE "checkpoint"
  /\ UNCHANGED <<loopNow, wake, stopSet, faults>>
  /\ UNCHANGED storageVars

(* A cycle without anything to report is over: return, or wait for the     *)
(* next one.                                                               *)
EndCycle ==
  /\ loopNow' = 0
  /\ IF IntervalSec = 0
     THEN loop' = "returned" /\ UNCHANGED wake
     ELSE loop' = "wait" /\ wake' = clock + IntervalSec

(* A cycle with something to report.  Both reports go to sys.stderr, and   *)
(* the module does not import sys: the one in the try block raises         *)
(* NameError, the one in its except block raises it again, and the thread  *)
(* is gone.                                                                *)
ReportCycle ==
  /\ loop' = "dead" /\ loopNow' = 0
  /\ UNCHANGED wake

(* checkpoint_wal moves WAL pages, never rows.  A TRUNCATE checkpoint      *)
(* answers (0, 0, 0) unless another connection holds the WAL; the process  *)
(* has one connection, and others are not modelled.                        *)
Checkpoint ==
  /\ loop = "checkpoint"
  /\ loop' = "now"
  /\ UNCHANGED <<loopNow, wake, stopSet, faults>>
  /\ UNCHANGED storageVars

ReadLoopClock ==
  /\ loop = "now"
  /\ loop' = "purge"
  /\ loopNow' = clock
  /\ UNCHANGED <<wake, stopSet, faults>>
  /\ UNCHANGED storageVars

(* Mutant: the purge uses the listing window.                              *)
Purge_early ==
  /\ loop = "purge"
  /\ purge_stale_servers(loopNow, SERVER_TTL_SEC)
  /\ IF servers' = servers THEN EndCycle ELSE ReportCycle
  /\ UNCHANGED <<stopSet, faults>>

Purge ==
  /\ loop = "purge"
  /\ purge_stale_servers(loopNow, MAINTENANCE_PURGE_TTL_SEC)
  /\ IF servers' = servers THEN EndCycle ELSE ReportCycle
  /\ UNCHANGED <<stopSet, faults>>

(* A storage call of the cycle raises; the except block reports it.        *)
CycleFails ==
  /\ Durable
  /\ loop \in {"checkpoint", "purge"}
  /\ faults < MaxFaults
  /\ faults' = faults + 1
  /\ ReportCycle
  /\ UNCHANGED stopSet
  /\ UNCHANGED storageVars

(* Mutant: wait()'s answer is taken for the event's, and the loop returns  *)
(* after its first interval.                                               *)
WaitReturns_once ==
  /\ loop = "wait"
  /\ stopSet \/ clock >= wake \/ clock = MaxTime
  /\ loop' = "returned"
  /\ wake' = 0
  /\ UNCHANGED <<loopNow, stopSet, faults>>
  /\ UNCHANGED storageVars

(* stop_event.wait returns: the event was set, or the interval is over.    *)
(* Where the model's clock stands still, intervals end all the same.       *)
WaitReturns ==
  /\ loop = "wait"
  /\ \/ stopSet /\ loop' = "returned"
     \/ ~stopSet /\ (clock >= wake \/ clock = MaxTime) /\ loop' = "checkpoint"
  /\ wake' = 0
  /\ UNCHANGED <<loopNow, stopSet, faults>>
  /\ UNCHANGED storageVars

(* Only the tests keep a reference to the event and set it.                *)
SetStopEvent ==
  /\ Starter = "harness"
  /\ ~stopSet
  /\ stopSet' = TRUE
  /\ UNCHANGED <<loop, loopNow, wake, faults>>
  /\ UNCHANGED storageVars

Cycle == CallLoop \/ Checkpoint \/ ReadLoopClock \/ Purge \/ WaitReturns
=============================================================================
