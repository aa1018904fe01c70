--------------------------- MODULE MCFileSession ---------------------------
(* One file with a history, or two that compete for the prompts, of which  *)
(* one changes on disk.                                                    *)
EXTENDS FileSession

CONSTANTS one, two

OneFile == {one}
TwoFiles == {one, two}
MCMaxContent == [f \in Files |-> IF f = one THEN 2 ELSE 1]

=============================================================================
