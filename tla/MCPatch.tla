------------------------------ MODULE MCPatch --------------------------------
(***************************************************************************)
(* Small umbrellas for PatchScripts: with and without the anchor of each   *)
(* file, with the anchor twice or in front, with app bound before it,      *)
(* after it or never, with and without a last line end, and empty.         *)
(***************************************************************************)
EXTENDS PatchScripts

MCTexts == [
  server |-> {<<"app", "code", "nl", "main">>, <<"main", "app", "main", "nl">>,
              <<"app", "nl">>, <<"code", "nl", "main">>, <<>>},
  html   |-> {<<"code", "body", "nl">>, <<"code", "nl">>, <<>>},
  lua    |-> {<<"code", "nl">>, <<"code">>, <<>>}]
=============================================================================
