--------------------------- MODULE MCFileWatcher ---------------------------
(* One path, which notify accepts or refuses each time it is watched. *)
EXTENDS FileWatcher

CONSTANT one

OneFile == {one}
AllPrefs == {"Ask", "Always", "Never"}
AskOnly == {"Ask"}

=============================================================================
