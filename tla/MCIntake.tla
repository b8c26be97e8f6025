------------------------------ MODULE MCIntake ------------------------------
(* A root with a file, a directory with one, and one more below it.          *)
EXTENDS Intake

CONSTANTS u, v  \* two contents

MCDirs  == {<<"a">>, <<"a", "d">>}
MCOrder == <<<<"a", "d", "x.mp3">>, <<"a", "y.mp3">>, <<"z.mp3">>>>
MCFiles == ToSet(MCOrder)

MCTrees ==
  [safe : {TRUE}, links : SUBSET {<<"a">>, <<"z.mp3">>}, excluded : SUBSET MCDirs,
   media : {MCFiles, MCFiles \ {<<"z.mp3">>}},
   content : {c \in [MCFiles -> {u, v}] : c[<<"z.mp3">>] = u}]
  \cup [safe : {FALSE}, links : {{}}, excluded : {{}}, media : {{}}, content : [MCFiles -> {u}]]

\* A root with three media files.
NoDirs    == {}
Flat      == {<<"x.mp3">>, <<"y.mp3">>, <<"z.mp3">>}
FlatOrder == <<<<"x.mp3">>, <<"y.mp3">>, <<"z.mp3">>>>
FlatTrees ==
  [safe : {TRUE}, links : {{}}, excluded : {{}}, media : {Flat}, content : [Flat -> {u, v}]]
=============================================================================
