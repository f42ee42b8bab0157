----------------------------- MODULE LocalStack ------------------------------
(***************************************************************************)
(* One machine: a matchmaker, as scripts/start_all.py starts it, a game    *)
(* server that beats to it, and a launcher window whose configured URL is  *)
(* that matchmaker.  The window's list is what the matchmaker lists when   *)
(* it handles the request.                                                 *)
(*                                                                         *)
(* The product of a full game server and a busy window is out of reach, so *)
(* a behaviour starts in one of two ways: the whole life of a game server  *)
(* seen by a window's first refresh, or a busy window over a game server   *)
(* that has just exited and whose row still ages.                          *)
(***************************************************************************)
EXTENDS GameServer, Launcher

CONSTANTS
  Server,      (* the id the game server registers                         *)
  MaxClicks,   (* bound of the model: clicks on a busy window              *)
  MaxRefreshes (* bound of the model: those of them that start a refresh   *)

ASSUME LocalStackAssumption ==
  Server \in Ids /\ MaxClicks \in Nat /\ MaxRefreshes \in Nat

(* Clicks and refreshes left; and whether the game server had exited and   *)
(* left the list when the refresh started last began, and no late          *)
(* heartbeat has brought it back since.                                    *)
VARIABLES clicks, refreshes, gone

stackVars == <<gameServerVars, launcherVars, clicks, refreshes, gone>>

StackTypeOK ==
  GameServerTypeOK /\ LauncherTypeOK /\ clicks \in 0..MaxClicks
    /\ refreshes \in 0..MaxRefreshes /\ gone \in BOOLEAN

Gone == phase = "exited" /\ age = TTL

(* The server was stopped a little before its row leaves the list or right *)
(* after, and may have given up a heartbeat that is stamped and not yet    *)
(* stored; the matchmaker has had its restarts.                            *)
JustStopped ==
  /\ durable = TRUE /\ up = TRUE /\ session = TRUE
  /\ age \in {TTL - 1, TTL} /\ late = 0 /\ lateStamps \in {<<>>, <<TTL - 1>>}
  /\ phase = "exited" /\ timer = 0 /\ req = "none" /\ reqAge = 0 /\ stop = TRUE
  /\ exit = "0" /\ misses = 0 /\ fresh = TRUE
  /\ faults = 0 /\ restarts = MaxRestarts

StackInit ==
  /\ LauncherInit /\ gone = FALSE /\ refreshes = MaxRefreshes
  /\ \/ GameServerInit /\ clicks = 0
     \/ JustStopped /\ clicks = MaxClicks

(* GET /api/servers of this machine's matchmaker, or of another one.       *)
Lists(u) ==
  IF u # HomeUrl THEN SUBSET Ids
  ELSE IF ~up THEN {}
  ELSE {IF Listed THEN {Server} ELSE {}}

ServerStep ==
  /\ GameServerNext
  /\ gone' = (gone /\ age' = TTL)
  /\ UNCHANGED <<launcherVars, clicks, refreshes>>

WindowClick ==
  /\ clicks > 0 /\ clicks' = clicks - 1
  /\ Click
  /\ IF worker' = worker THEN UNCHANGED <<refreshes, gone>>
     ELSE /\ refreshes > 0 /\ refreshes' = refreshes - 1
          /\ gone' = Gone
  /\ UNCHANGED gameServerVars

unlessWindow == <<gameServerVars, clicks, refreshes, gone>>

WindowStep == Background(Lists) /\ UNCHANGED unlessWindow

StackNext == ServerStep \/ WindowClick \/ WindowStep

(* Tk's loop runs what is posted, a thread runs on, and a call ends: the   *)
(* client has a timeout.                                                   *)
StackFairness ==
  /\ GameServerFairness
  /\ WF_stackVars(RunCallback /\ UNCHANGED unlessWindow)
  /\ \A t \in Workers :
       WF_stackVars(/\ \/ ReadClient(t) \/ CallFails(t) \/ PostResult(t)
                       \/ \E ids \in Lists(worker[t].client) : Answered(t, ids)
                    /\ UNCHANGED unlessWindow)

StackSpec == StackInit /\ [][StackNext]_stackVars /\ StackFairness

-----------------------------------------------------------------------------
(* A refresh that began after an exited server had left the list, and had  *)
(* the window to itself, does not show that server: no queued callback     *)
(* brings it back, nor a late heartbeat that is still on its way, refused  *)
(* or stored with a stamp outside the window; only one stored since with a *)
(* stamp inside it does (multiplayer_launcher.py:201-214 with              *)
(* fake_game_server.py:370-383 and matchmaking_server.py:289-296).         *)
NoGhostServer ==
  Quiet /\ ~raced /\ gone /\ health = "online" /\ tree.from = HomeUrl
    => Server \notin tree.ids

(* Every refresh comes to an end that the window shows: when the clicks    *)
(* are over, no thread is busy, no callback waits, and the label is no     *)
(* longer the initial one.  The callback that raises does not stop the     *)
(* ones after it (lines 201-214).                                          *)
WindowSettles == <>[](Quiet /\ health # "unknown")
=============================================================================
