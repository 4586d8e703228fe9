---------------------------- MODULE MCWorkingDir ----------------------------
(* Layers on /vol/content that merge and that replace, paths that are spelled  *)
(* with capitals, backslashes, a longer name, separators in a row and dots, and *)
(* an absolute and a relative directory to change to.                         *)
EXTENDS WorkingDir, TLC

CONSTANTS c1

OneClient == {c1}

Capitals == "CONTENT" :> "content"
Content  == <<"/", "vol", "/", "content">>
Layers   == {[prefix |-> Content, replacement |-> <<"sd:", "/", "mod", "/">>, fallback |-> TRUE],
             [prefix |-> Content, replacement |-> <<"sd:", "/", "mod">>, fallback |-> FALSE]}

PathsAsked == {<<"\\", "vol", "\\", "CONTENT", "\\", "f">>,
               Content \o <<"2", "/", "f">>,
               <<"/", "vol", "/", "/", "content", "/", "f">>,
               <<"content", "/", "f">>, <<"..", "/", "f">>}
Directories == {<<>>, <<<<"vol">>>>}
Dirs    == {<<"\\", "vol">>, <<"vol">>}
=============================================================================
