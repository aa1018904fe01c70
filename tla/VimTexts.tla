------------------------------ MODULE VimTexts ------------------------------
(***************************************************************************)
(* The contents on which the motions and text objects of vim mode are tried *)
(* beside their definitions in one piece: one content to a behaviour, which *)
(* has no steps.                                                           *)
(***************************************************************************)
EXTENDS EditorInput

CONSTANT Texts

ASSUME TextsAssumption == Texts \subseteq Seq(Byte)

VARIABLE text

TextInit == text \in Texts
TextSpec == TextInit /\ [][FALSE]_text

(* WordsAreExact of the content at hand: w, b and e go to the edges of words *)
(* (vim.rs word_forward, word_back, word_end_forward).                     *)
WordsOfText == WordsAreExact(text)

(* BracketsAreExact of the content at hand: a bracket object is the         *)
(* innermost pair around the caret (vim.rs bracket_range).                 *)
BracketsOfText == BracketsAreExact(text)

=============================================================================
