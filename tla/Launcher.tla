------------------------------ MODULE Launcher -------------------------------
(***************************************************************************)
(* The launcher window (multiplayer_launcher.py), the HTTP client it calls *)
(* (launcher_core.MatchClient) and the engine shim it starts               *)
(* (game_engine/game_stub.py).                                             *)
(*                                                                         *)
(* Button handlers run one at a time on Tk's loop.  A refresh runs on a    *)
(* thread of its own, reads self.client when it gets to run, and hands its *)
(* result to the loop as two callbacks.  A list is the URL it came from    *)
(* and the ids in it; a token is the URL that issued it.                   *)
(***************************************************************************)
EXTENDS Integers, Sequences, FiniteSets

CONSTANTS
  None,
  Urls,       (* matchmakers the URL field may name                        *)
  HomeUrl,    (* the one of the configuration file                         *)
  Ids,        (* game servers                                              *)
  Workers,    (* refresh threads that may be in flight at once             *)
  MaxGames    (* bound of the model: games launched                        *)

ASSUME LauncherAssumption ==
  /\ HomeUrl \in Urls
  /\ None \notin Urls \union Ids
  /\ Workers # {}
  /\ MaxGames \in Nat

VARIABLES
  url,        (* self.client.base_url                                      *)
  token,      (* self.token: who issued it                                 *)
  tree,       (* the list shown                                            *)
  selected,   (* the selected row                                          *)
  health,     (* health_var                                                *)
  asking,     (* the id an open alias dialog was opened for                *)
  worker,     (* thread -> its step, the client it read, its answer        *)
  posted,     (* callbacks handed to root.after and not yet run            *)
  games,      (* engines started: what they were given, and their exit     *)
  handle      (* self._game_proc, as an index of games, 0 for None         *)

(* Two refreshes were in flight at once, or one was when the URL changed;  *)
(* no part of the program.                                                 *)
VARIABLE raced

launcherVars == <<url, token, tree, selected, health, asking, worker, posted,
                  games, handle, raced>>

List == [from : Urls, ids : SUBSET Ids]
Callback == [do : {"rebuild", "online", "offline", "report"}, list : List]
NoList == [from |-> HomeUrl, ids |-> {}]
Idle == [step |-> "idle", client |-> HomeUrl, list |-> NoList]

(* How an engine ended: game_stub.main's code, or terminate().             *)
Game == [server : Urls, token : Urls, exit : {"running", "0", "127", "term"}]

LauncherTypeOK ==
  /\ url \in Urls /\ token \in Urls \union {None}
  /\ tree \in List /\ selected \in Ids \union {None}
  /\ health \in {"unknown", "online", "offline"}
  /\ asking \in Ids \union {None}
  /\ worker \in [Workers -> [step : {"idle", "started", "calling", "failed",
                                    "report", "answered", "online"},
                             client : Urls, list : List]]
  /\ posted \in Seq(Callback)
  /\ games \in Seq(Game) /\ handle \in 0..Len(games)
  /\ raced \in BOOLEAN

Quiet == posted = <<>> /\ \A t \in Workers : worker[t].step = "idle"

(* The window is built and starts its first refresh.                       *)
LauncherInit ==
  /\ url = HomeUrl /\ token = None
  /\ tree = NoList /\ selected = None /\ health = "unknown" /\ asking = None
  /\ worker = [[t \in Workers |-> Idle] EXCEPT
                 ![CHOOSE t \in Workers : TRUE].step = "started"]
  /\ posted = <<>> /\ games = <<>> /\ handle = 0
  /\ raced = FALSE

-----------------------------------------------------------------------------
(* The buttons.  A modal alias dialog grabs them all.                      *)

(* Threads are alike: it does not matter which idle one is the new one.    *)
StartRefresh ==
  LET idle == {t \in Workers : worker[t].step = "idle"} IN
  /\ idle # {}
  /\ worker' = [worker EXCEPT ![CHOOSE t \in idle : TRUE].step = "started"]
  /\ raced' = ~Quiet

Refresh ==
  /\ asking = None
  /\ StartRefresh
  /\ UNCHANGED <<url, token, tree, selected, health, asking, posted, games,
                 handle>>

(* Mutant: the new client is not asked.                                    *)
ApplyUrl_quietly(u) ==
  /\ asking = None /\ url' = u
  /\ UNCHANGED <<token, tree, selected, health, asking, worker, posted, games,
                 handle, raced>>

(* A new client and a refresh; the token, the list and the label stay.     *)
ApplyUrl(u) ==
  /\ asking = None
  /\ url' = u
  /\ StartRefresh
  /\ UNCHANGED <<token, tree, selected, health, asking, posted, games, handle>>

(* The login is synchronous; a failure leaves token and username alone.    *)
Login ==
  /\ asking = None
  /\ token' = url
  /\ UNCHANGED <<url, tree, selected, health, asking, worker, posted, games,
                 handle, raced>>

Select(id) ==
  /\ asking = None
  /\ id \in tree.ids
  /\ selected' = id
  /\ UNCHANGED <<url, token, tree, health, asking, worker, posted, games,
                 handle, raced>>

AskAliasName ==
  /\ asking = None /\ selected # None
  /\ asking' = selected
  /\ UNCHANGED <<url, token, tree, selected, health, worker, posted, games,
                 handle, raced>>

(* The id read before the dialog opened is what SavedDB gets.              *)
SaveAlias ==
  /\ asking # None
  /\ asking' = None
  /\ UNCHANGED <<url, token, tree, selected, health, worker, posted, games,
                 handle, raced>>

(* Mutant: the handle of a running engine is kept.                         *)
Launch_keeping ==
  /\ asking = None /\ selected # None /\ token # None
  /\ Len(games) < MaxGames
  /\ games' = Append(games, [server |-> tree.from, token |-> token,
                             exit |-> "running"])
  /\ handle' = IF handle = 0 THEN 1 ELSE handle
  /\ UNCHANGED <<url, token, tree, selected, health, asking, worker, posted,
                 raced>>

(* Popen replaces the handle, whether or not an engine still runs.         *)
Launch ==
  /\ asking = None
  /\ selected # None /\ token # None
  /\ Len(games) < MaxGames
  /\ games' = Append(games, [server |-> tree.from, token |-> token,
                             exit |-> "running"])
  /\ handle' = Len(games')
  /\ UNCHANGED <<url, token, tree, selected, health, asking, worker, posted,
                 raced>>

Ended(g, code) ==
  /\ g \in DOMAIN games /\ games[g].exit = "running"
  /\ games' = [games EXCEPT ![g].exit = code]

(* terminate() of a process that is gone does nothing; the handle stays.   *)
StopGame ==
  /\ asking = None /\ handle # 0
  /\ Ended(handle, "term")
  /\ UNCHANGED <<url, token, tree, selected, health, asking, worker, posted,
                 handle, raced>>

(* The stub loop ends, or the engine that has taken the shim's place.      *)
StubEnds ==
  /\ \E g \in DOMAIN games : Ended(g, "0")
  /\ UNCHANGED <<url, token, tree, selected, health, asking, worker, posted,
                 handle, raced>>

(* The configured engine cannot be executed.                               *)
ExecFails ==
  /\ \E g \in DOMAIN games : Ended(g, "127")
  /\ UNCHANGED <<url, token, tree, selected, health, asking, worker, posted,
                 handle, raced>>

-----------------------------------------------------------------------------
(* The refresh thread.                                                     *)

ToStep(t, step) ==
  /\ worker' = [worker EXCEPT ![t].step = step]
  /\ UNCHANGED <<url, token, tree, selected, health, asking, games, handle,
                 raced>>

ReadClient(t) ==
  /\ worker[t].step = "started"
  /\ worker' = [worker EXCEPT ![t].step = "calling", ![t].client = url]
  /\ UNCHANGED <<url, token, tree, selected, health, asking, posted, games,
                 handle, raced>>

(* list_servers returns the ids the matchmaker lists, or raises: refused,   *)
(* a timeout, a status that is no success.                                 *)
Answered(t, ids) ==
  /\ worker[t].step = "calling"
  /\ worker' = [worker EXCEPT ![t].step = "answered",
                  ![t].list = [from |-> worker[t].client, ids |-> ids]]
  /\ UNCHANGED <<url, token, tree, selected, health, asking, posted, games,
                 handle, raced>>

CallFails(t) ==
  /\ worker[t].step = "calling"
  /\ worker' = [worker EXCEPT ![t].step = "failed"]
  /\ UNCHANGED <<url, token, tree, selected, health, asking, posted, games,
                 handle, raced>>

(* Two callbacks per refresh; another thread's may come in between.        *)
Post(t, step, what, next) ==
  /\ worker[t].step = step
  /\ posted' = Append(posted, [do |-> what, list |-> worker[t].list])
  /\ worker' = [worker EXCEPT ![t] = next]

PostResult(t) ==
  /\ \/ Post(t, "answered", "rebuild", [worker[t] EXCEPT !.step = "online"])
     \/ Post(t, "online", "online", Idle)
     \/ Post(t, "failed", "offline", [worker[t] EXCEPT !.step = "report"])
     \/ Post(t, "report", "report", Idle)
  /\ UNCHANGED <<url, token, tree, selected, health, asking, games, handle,
                 raced>>

(* Mutant: an exception in a callback ends the loop.                       *)
RunCallback_fatal ==
  /\ posted # <<>> /\ Head(posted).do # "report" /\ posted' = Tail(posted)
  /\ LET call == Head(posted) IN
     /\ tree' = IF call.do = "rebuild" THEN call.list ELSE tree
     /\ selected' = IF call.do = "rebuild" THEN None ELSE selected
     /\ health' = IF call.do \in {"online", "offline"} THEN call.do ELSE health
  /\ UNCHANGED <<url, token, asking, worker, games, handle, raced>>

(* Tk runs the callbacks in order, also while a dialog is open.  Deleting  *)
(* the rows drops the selection.  The callback that would report a failure *)
(* reads the except clause's variable, which is unbound once the thread    *)
(* has left the clause, and then raises; the status line is all it changes. *)
RunCallback ==
  /\ posted # <<>>
  /\ posted' = Tail(posted)
  /\ LET call == Head(posted) IN
     /\ tree' = IF call.do = "rebuild" THEN call.list ELSE tree
     /\ selected' = IF call.do = "rebuild" THEN None ELSE selected
     /\ health' = IF call.do \in {"online", "offline"} THEN call.do ELSE health
  /\ UNCHANGED <<url, token, asking, worker, games, handle, raced>>

Click ==
  \/ Refresh \/ Login \/ AskAliasName \/ Launch \/ StopGame
  \/ \E u \in Urls : ApplyUrl(u)
  \/ \E id \in Ids : Select(id)

(* What goes on without a click; lists(u) is what u may answer.            *)
Background(lists(_)) ==
  \/ SaveAlias \/ StubEnds \/ ExecFails \/ RunCallback
  \/ \E t \in Workers :
       \/ ReadClient(t) \/ CallFails(t) \/ PostResult(t)
       \/ \E ids \in lists(worker[t].client) : Answered(t, ids)

AnyList(u) == SUBSET Ids
LauncherNext == Click \/ Background(AnyList)
LauncherSpec == LauncherInit /\ [][LauncherNext]_launcherVars

-----------------------------------------------------------------------------
(* A refresh that had the window to itself shows the matchmaker the URL    *)
(* field was last applied to: when nothing is in flight and the label says *)
(* online, the list is from there.  It takes two refreshes in flight for a *)
(* late answer of an old URL to stay (multiplayer_launcher.py:201-214).    *)
LoneRefreshShowsCurrent ==
  Quiet /\ ~raced /\ health = "online" => tree.from = url

(* Stop reaches the engine launched last and no other: one that was        *)
(* running when the next was launched can only end by itself, since        *)
(* nothing keeps its handle (lines 280-317).                               *)
StopReachesLatest ==
  [][\A g \in DOMAIN games :
       games[g].exit = "running" /\ games'[g].exit = "term"
         => g = Len(games)]_launcherVars
=============================================================================
