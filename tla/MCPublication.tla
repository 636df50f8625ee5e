--------------------------- MODULE MCPublication ---------------------------
(***************************************************************************)
(* A small instance of Publication: one work of each kind and one push by  *)
(* a reviewer.                                                             *)
(***************************************************************************)
EXTENDS Publication

CONSTANTS edit, file, folder, human

OneEdit   == {edit}
OneFile   == {file}
OneFolder == {folder}
OneHuman  == {human}
=============================================================================
