---------------------------- MODULE PatchScripts -----------------------------
(***************************************************************************)
(* The four scripts of multiplayer_launcher/ that patch an umbrella        *)
(* repository: the splice (_xb_splice_phase5.py), the EOF splice           *)
(* (_phase5_eof_splice.py), the re-anchoring (_xb_reanchor_phase5.py) and  *)
(* the login fallback (_phase5_apply_with_login_fallback.py), run in any   *)
(* order, and killed between any two of their writes.                      *)
(*                                                                         *)
(* A file is a sequence of tokens: the user's code, the statement of it    *)
(* that binds app, a line end, an anchor the scripts look for, a sentinel, *)
(* or the payload between two sentinels, named for the script that carries *)
(* it.  A write is atomic (a temporary file and os.replace): it happens,   *)
(* or it fails or is killed and leaves the file as it was.  The temporary  *)
(* file it may leave behind is read by no script.  Nobody else writes      *)
(* while a script runs.                                                    *)
(***************************************************************************)
EXTENDS Integers, Sequences, SequencesExt

CONSTANTS
  MaxRuns,  (* bound of the model: scripts started                         *)
  Texts     (* file -> the texts it may hold before any script has run     *)

File == {"server", "html", "lua"}
Scripts == {"splice", "eof", "reanchor", "fallback"}
User == {"code", "app", "nl", "main", "body"}
Token == Scripts \union User \union {"begin", "end", "junk"}

(* No script has been here yet: a text at the start is all its user's.     *)
ASSUME PatchAssumption ==
  /\ MaxRuns \in Nat
  /\ \A f \in File : Texts[f] \subseteq Seq(User)

VARIABLES
  text,     (* file -> its tokens                                          *)
  exists,   (* file -> it is there                                         *)
  tests,    (* whose test file was written last                            *)
  login,    (* server.py binds login_required before any appended block    *)
  script,   (* the script that runs                                        *)
  todo,     (* the files it has still to write                             *)
  done,     (* the script that ran last                                    *)
  exit      (* its exit code, and "raised" for the 1 of a write that fails *)

(* What the checks compare with, no part of any script: the texts at the   *)
(* very start and at the start of the run; whether that run repeats one    *)
(* that went well; whether a block was ever put at the end of server.py,   *)
(* by re-anchoring or at all; and the runs so far.                         *)
VARIABLES base, before, again, tail, reanchored, runs

ghostVars == <<base, before, again, tail, reanchored, runs>>
patchVars == <<text, exists, tests, login, script, todo, done, exit, ghostVars>>

PatchTypeOK ==
  /\ text \in [File -> Seq(Token)] /\ exists \in [File -> BOOLEAN]
  /\ base \in [File -> Seq(Token)] /\ before \in [File -> Seq(Token)]
  /\ \A f \in File : ~exists[f] => text[f] = <<>>
  /\ tests \in {"none", "splice", "eof"}
  /\ login \in BOOLEAN /\ again \in BOOLEAN
  /\ reanchored \in BOOLEAN /\ tail \in BOOLEAN
  /\ script \in Scripts \union {"none"} /\ done \in Scripts \union {"none"}
  /\ todo \in Seq(File) /\ (script = "none" => todo = <<>>)
  /\ exit \in {"none", "0", "1", "3", "raised", "killed"}
  /\ runs \in 0..MaxRuns

-----------------------------------------------------------------------------
(* The blocks.  Payloads are longer than these tokens by a few hundred     *)
(* lines, none of which a script looks at.                                 *)

SERVER_PY_BLOCK == <<"begin", "splice", "end", "nl">>
INDEX_BLOCK     == <<"begin", "splice", "end", "nl">>
LUA_BLOCK       == <<"begin", "splice", "end", "nl">>

phase5_block_server_py  == <<"nl", "nl", "begin", "eof", "end", "nl", "nl">>
phase5_block_index_html == <<"nl", "nl", "begin", "eof", "end", "nl">>
phase5_block_init_lua   == <<"nl", "nl", "begin", "eof", "end", "nl">>

(* lstrip("\\n") strips backslashes and n's, of which there are none.      *)
SERVER_PY_BLOCK_TAIL ==
  <<"nl", "nl", "begin", "reanchor", "end", "nl", "nl", "nl">>

FALLBACK_PATCH == <<"fallback">>

TEST_FILE_BLOCK == "splice"
TEST_FILE_CONTENT == "eof"

-----------------------------------------------------------------------------
(* Finding and cutting.                                                    *)

Find(s, tok) == SelectInSeq(s, LAMBDA x : x = tok)

(* The place of the first block, and 0 for its end when it has none.       *)
BlockBegin(s) == Find(s, "begin")
BlockEnd(s) ==
  LET b == BlockBegin(s)
      e == Find(SubSeq(s, b + 1, Len(s)), "end")
  IN IF b = 0 \/ e = 0 THEN 0 ELSE b + e

Before(s, i) == SubSeq(s, 1, i - 1)
After(s, i) == SubSeq(s, i + 1, Len(s))

(* Mutant: a second run does not look for the block of the first.          *)
splice_around_blind(src, block, anchor) ==
  IF anchor = "EOF" \/ ~Contains(src, anchor) THEN src \o block
  ELSE Before(src, Find(src, anchor)) \o block
         \o After(src, Find(src, anchor) - 1)

(* Mutant: the anchor is searched for as the end of the insertion.         *)
splice_around_after(src, block, anchor) ==
  IF BlockEnd(src) > 0
    THEN Before(src, BlockBegin(src)) \o block \o After(src, BlockEnd(src))
  ELSE IF anchor = "EOF" THEN src \o block
  ELSE Before(src, Find(src, anchor) + 1) \o block
         \o After(src, Find(src, anchor))

splice_around(src, block, anchor) ==
  IF BlockEnd(src) > 0
    THEN Before(src, BlockBegin(src)) \o block \o After(src, BlockEnd(src))
  ELSE IF anchor = "EOF" THEN src \o block
  ELSE Before(src, Find(src, anchor)) \o block
         \o After(src, Find(src, anchor) - 1)

(* splice_around raises ValueError.                                        *)
Raises(src, anchor) ==
  BlockEnd(src) = 0 /\ anchor # "EOF" /\ ~Contains(src, anchor)

(* splice_server_py, splice_index_html and splice_init_lua.                *)
SpliceBlock(f) == CASE f = "server" -> SERVER_PY_BLOCK
                    [] f = "html" -> INDEX_BLOCK
                    [] f = "lua" -> LUA_BLOCK
Anchor(f) == CASE f = "server" -> "main" [] f = "html" -> "body"
               [] f = "lua" -> "EOF"

(* Mutant: everything from the first sentinel on is cut.                   *)
strip_existing_rest(src, n) ==
  IF BlockEnd(src) = 0 THEN src ELSE Before(src, BlockBegin(src))

(* The sentinels of init.lua include their line end, n tokens in all.      *)
strip_existing(src, n) ==
  IF BlockEnd(src) = 0 THEN src
  ELSE Before(src, BlockBegin(src)) \o After(src, BlockEnd(src) + n - 1)

WithLineEnd(src) ==
  IF src # <<>> /\ Last(src) = "nl" THEN src ELSE Append(src, "nl")

EofBlock(f) == CASE f = "server" -> phase5_block_server_py
                 [] f = "html" -> phase5_block_index_html
                 [] f = "lua" -> phase5_block_init_lua

apply_block(f, src) ==
  WithLineEnd(strip_existing(src, IF f = "lua" THEN 2 ELSE 1)) \o EofBlock(f)

(* endswith("\\n") is false of a text that ends in a line end, and what is *)
(* then added is a backslash and an n.                                     *)
reanchor(src) == strip_existing(src, 1) \o <<"junk">> \o SERVER_PY_BLOCK_TAIL

(* Mutant: the fallback is put where the block ends.                       *)
insert_fallback_last(src) ==
  Before(src, BlockEnd(src) + 1) \o FALLBACK_PATCH \o After(src, BlockEnd(src))

(* Mutant: a second run does not look for the first one's fallback.        *)
insert_fallback_again(src) ==
  Before(src, BlockBegin(src) + 1) \o FALLBACK_PATCH \o After(src, BlockBegin(src))

insert_fallback(src) ==
  IF Contains(src, "fallback") THEN src
  ELSE Before(src, BlockBegin(src) + 1) \o FALLBACK_PATCH
         \o After(src, BlockBegin(src))

-----------------------------------------------------------------------------
(* The umbrella as tests/test_phase5_patches.py builds it, or with an      *)
(* anchor, a last line end, all of its text or a whole file missing.       *)
PatchInit ==
  /\ text \in [File -> UNION {Texts[f] : f \in File}]
  /\ \A f \in File : text[f] \in Texts[f]
  /\ exists \in [File -> BOOLEAN]
  /\ \A f \in File : ~exists[f] => text[f] = <<>>
  /\ tests = "none" /\ login \in BOOLEAN
  /\ script = "none" /\ todo = <<>> /\ done = "none" /\ exit = "none"
  /\ base = text /\ before = text
  /\ again = FALSE /\ tail = FALSE /\ reanchored = FALSE /\ runs = 0

Begin(s) ==
  /\ script = "none" /\ runs < MaxRuns
  /\ runs' = runs + 1
  /\ before' = text
  /\ again' = (done = s /\ exit = "0")
  /\ UNCHANGED <<exists, login, base>>

(* The run of s ends, at once or after its writes.                         *)
End(s, code) ==
  /\ script' = "none" /\ todo' = <<>>
  /\ done' = s /\ exit' = code

Running(s, files) ==
  /\ script' = s /\ todo' = files
  /\ done' = "none" /\ exit' = "none"

AllFiles == <<"server", "html", "lua">>

(* Mutant: the texts are computed one by one, as they are written.         *)
StartSplice_lazily ==
  /\ Begin("splice")
  /\ IF \E f \in File : ~exists[f] THEN End("splice", "3") /\ UNCHANGED text
     ELSE IF Raises(text["server"], "main")
       THEN End("splice", "1") /\ UNCHANGED text
     ELSE IF Raises(text["html"], "body")
       THEN /\ End("splice", "1")
            /\ text' = [text EXCEPT !["server"] =
                          splice_around(@, SERVER_PY_BLOCK, "main")]
     ELSE Running("splice", AllFiles) /\ UNCHANGED text
  /\ UNCHANGED <<tests, tail, reanchored>>

(* All three files are looked for, read and spliced in memory first.       *)
StartSplice ==
  /\ Begin("splice")
  /\ IF \E f \in File : ~exists[f] THEN End("splice", "3")
     ELSE IF \E f \in File : Raises(text[f], Anchor(f)) THEN End("splice", "1")
     ELSE Running("splice", AllFiles)
  /\ UNCHANGED <<text, tests, tail, reanchored>>

(* The EOF splice reads server.py first, and the others in their turn.     *)
StartEof ==
  /\ Begin("eof")
  /\ IF exists["server"] THEN Running("eof", AllFiles) ELSE End("eof", "1")
  /\ UNCHANGED <<text, tests, tail, reanchored>>

WriteNext ==
  /\ todo # <<>>
  /\ LET f == Head(todo) IN
     IF exists[f]
     THEN /\ text' = [text EXCEPT ![f] =
                        IF script = "eof" THEN apply_block(f, @)
                        ELSE splice_around(@, SpliceBlock(f), Anchor(f))]
          /\ tail' = (tail \/ (script = "eof" /\ f = "server"))
          /\ todo' = Tail(todo)
          /\ UNCHANGED <<script, done, exit>>
     ELSE End(script, "1") /\ UNCHANGED <<text, tail>>
  /\ UNCHANGED <<exists, tests, login, base, before, again, reanchored, runs>>

WriteTests ==
  /\ script # "none" /\ todo = <<>>
  /\ tests' = (IF script = "eof" THEN TEST_FILE_CONTENT ELSE TEST_FILE_BLOCK)
  /\ End(script, "0")
  /\ UNCHANGED <<text, exists, login, ghostVars>>

Reanchor ==
  /\ Begin("reanchor")
  /\ IF exists["server"]
     THEN \/ /\ text' = [text EXCEPT !["server"] = reanchor(@)]
             /\ End("reanchor", "0")
             /\ tail' = TRUE /\ reanchored' = TRUE
          \/ End("reanchor", "raised") /\ UNCHANGED <<text, tail, reanchored>>
     ELSE End("reanchor", "1") /\ UNCHANGED <<text, tail, reanchored>>
  /\ UNCHANGED tests

ApplyFallback ==
  /\ Begin("fallback")
  /\ IF ~exists["server"] THEN End("fallback", "1") /\ UNCHANGED text
     ELSE IF BlockBegin(text["server"]) = 0
       THEN End("fallback", "3") /\ UNCHANGED text
     ELSE \/ /\ text' = [text EXCEPT !["server"] = insert_fallback(@)]
             /\ End("fallback", "0")
          \/ /\ ~Contains(text["server"], "fallback")
             /\ End("fallback", "raised") /\ UNCHANGED text
  /\ UNCHANGED <<tests, tail, reanchored>>

(* A write raises OSError, or making the directory of the tests does.      *)
WriteFails ==
  /\ script # "none"
  /\ End(script, "raised")
  /\ UNCHANGED <<text, exists, tests, login, ghostVars>>

Kill ==
  /\ script # "none"
  /\ End(script, "killed")
  /\ UNCHANGED <<text, exists, tests, login, ghostVars>>

PatchNext ==
  \/ StartSplice \/ StartEof \/ WriteNext \/ WriteTests
  \/ Reanchor \/ ApplyFallback \/ WriteFails \/ Kill

PatchSpec == PatchInit /\ [][PatchNext]_patchVars

-----------------------------------------------------------------------------
Only(s, toks) ==
  LET kept[n \in 0..Len(s)] ==
        IF n = 0 THEN <<>>
        ELSE IF s[n] \in toks THEN Append(kept[n - 1], s[n]) ELSE kept[n - 1]
  IN kept[Len(s)]

Payload(s) == Only(s, {"begin", "end", "splice", "eof", "reanchor"})
IsBlock(p) == \E s \in {"splice", "eof", "reanchor"} : p = <<"begin", s, "end">>

(* No sequence of runs, whole or killed, leaves two blocks, half a block   *)
(* or a payload outside the sentinels in a file (the sentinels of all four *)
(* scripts; multiplayer_launcher/README.md:18-22); and a splice that runs  *)
(* to its end leaves all four files to one script, whatever runs were      *)
(* killed before it.                                                       *)
OneBlock ==
  /\ \A f \in File : Payload(text[f]) = <<>> \/ IsBlock(Payload(text[f]))
  /\ exit = "0" /\ done \in {"splice", "eof"} =>
       /\ \A f \in File : Payload(text[f]) = <<"begin", done, "end">>
       /\ tests = done

(* What a file held besides line ends is still there, in its order:        *)
(* stripping and replacing never reach past the sentinels.                 *)
UserCodeKept ==
  \A f \in File :
    Only(text[f], {"code", "app", "main", "body"})
      = Only(base[f], {"code", "app", "main", "body"})

(* What a splice makes of the file it found.                               *)
AsSpliced(f) == splice_around(before[f], SpliceBlock(f), Anchor(f))

(* A splice or a fallback that refuses, because a file, an anchor or the   *)
(* block is missing, has changed nothing; a fallback that fails in any     *)
(* other way neither.  A splice that a failing write or a kill stops has   *)
(* patched some first files of the three, each as it was found, and left   *)
(* the others (lines 554-571: all is spliced in memory before the writes). *)
(* The EOF splice gives no such promise: it may find a file missing after  *)
(* it has written others.                                                  *)
RefusedRunChangesNothing ==
  /\ done = "splice" /\ exit \in {"1", "3"} => text = before
  /\ done = "fallback" /\ exit # "0" => text = before
  /\ done = "splice" /\ exit \in {"raised", "killed"} =>
       \E n \in 0..3 : \A i \in 1..3 :
         text[AllFiles[i]] = IF i <= n THEN AsSpliced(AllFiles[i])
                             ELSE before[AllFiles[i]]

(* Repeating a splice, an EOF splice or a fallback that went well changes  *)
(* nothing but line ends (multiplayer_launcher/README.md:20-21).           *)
(* Re-anchoring is not among them: each run adds a backslash and an n.     *)
RerunAddsOnlyLineEnds ==
  again /\ exit = "0" /\ done # "reanchor" =>
    \A f \in File : Only(text[f], Token \ {"nl"}) = Only(before[f], Token \ {"nl"})

(* server.py can be imported: there is no stray backslash, and the routes  *)
(* of a block, which say @app.route and @login_required, come after both   *)
(* names are bound.                                                        *)
Importable ==
  LET s == text["server"]
      b == BlockBegin(s)
  IN /\ ~Contains(s, "junk")
     /\ b # 0 =>
          /\ Contains(Before(s, b), "app")
          /\ login \/ (Contains(s, "fallback") /\ Find(s, "fallback") = b + 1)

(* app is bound before any block and before the call that runs the server, *)
(* as in the server.py of tests/test_phase5_patches.py:29-70.              *)
AppFirst(s) ==
  \E i \in 1..Len(s) :
    s[i] = "app" /\ \A j \in 1..i : s[j] \notin {"main", "begin"}

(* A fallback that exits with 0 leaves importable a server.py that binds   *)
(* app before the call that runs the server                                *)
(* (_phase5_apply_with_login_fallback.py:1-13), whatever scripts have run  *)
(* or been stopped before it, except the re-anchoring, whose stray         *)
(* backslash (_xb_reanchor_phase5.py:221-225) no script removes.           *)
ImportableUnlessReanchored ==
  /\ done = "fallback" /\ exit = "0"
  /\ ~reanchored /\ AppFirst(base["server"])
  => Importable

(* The splice's routes come before the call that runs the server, however  *)
(* often it is run, while no script has moved the block to the end.        *)
ServedWhenRun ==
  LET s == text["server"] IN
  ~tail /\ Contains(s, "splice") /\ Contains(s, "main")
    => BlockEnd(s) < Find(s, "main")
=============================================================================
