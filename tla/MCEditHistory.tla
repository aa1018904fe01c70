--------------------------- MODULE MCEditHistory ---------------------------
(***************************************************************************)
(* An editor driven call by call ("session"), or by keys and clicks         *)
(* ("keys"); and, with no steps, the contents the motions and text objects  *)
(* of vim mode are tried on ("text").                                      *)
(*                                                                         *)
(* Byte 0 is a letter, 1 a newline, 2 and 3 a pair of brackets; 2 stands   *)
(* in for a quotation mark too.                                            *)
(***************************************************************************)
EXTENDS VimTexts

VARIABLE focus

MCSources == {<<0, 1>>}
MCPayloads == {<< >>, <<1>>}
MCClipboard == {<<2, 0>>}
MCBrackets == {<<2, 3>>}

TextOver(letters, n) == UNION {[1 .. k -> letters] : k \in 0 .. n}
MCTexts == TextOver({0, 1, 2, 3}, 5) \cup TextOver({0, 2, 3}, 6)

EditInit ==
    /\ focus \in {"session", "keys", "text"}
    /\ InputInit
    /\ focus # "keys" => selection = << >> /\ input_mode = "Default"
    /\ IF focus = "text" THEN TextInit ELSE text = << >>

EditNext ==
    /\ UNCHANGED <<focus, text>>
    /\ \/ focus = "session" /\ SessionNext /\ UNCHANGED keyVars
       \/ focus = "keys" /\ InputNext

EditSpec == EditInit /\ [][EditNext]_<<focus, text, inputVars>>

=============================================================================
