---------------------------- MODULE MCSE2Window ----------------------------
(* Four scripts in three categories for TLC; titles and scans differ in order. *)
EXTENDS SE2WindowSafety

SomeScripts == 1..4
SomeTitles == <<12, 10, 11, 10>>
SomeCategories == <<7, 5, 7, 6>>
=============================================================================
