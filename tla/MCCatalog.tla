----------------------------- MODULE MCCatalog -----------------------------
(* Four scripts in two categories and two directories for TLC. *)
EXTENDS CatalogSafety

\* Files 1 and 2 share a category and have different titles; 3 and 4 are in the
\* other category.
SomeFiles == 1..4
SomeCategories == <<7, 7, 5, 5>>
SomeDirs == <<1, 2, 1, 2>>
OwnTitles == <<10, 11, 10, 12>>

\* A name filter that lets some titles through, a content filter that is in the
\* files 2 and 4, and none of either.
Names == {{10, 11, 12}, {10}}
NoNames == {{10, 11, 12}}
Contents == {1..4, {2, 4}}
NoContents == {1..4}
=============================================================================
