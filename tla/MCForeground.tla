---------------------------- MODULE MCForeground ----------------------------
(* A foreground command on three files with two workers, or on one file.    *)
EXTENDS Foreground

CONSTANTS t1, t2, t3, b

OneFile    == <<t1>>
ThreeFiles == <<t1, t2, t3>>
=============================================================================
