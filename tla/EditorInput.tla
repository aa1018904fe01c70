---------------------------- MODULE EditorInput ----------------------------
(***************************************************************************)
(* What the keyboard and the mouse do to an editor: hxy-editor's dispatch,  *)
(* input and vim modules over EditState, driven the way the gpui pane does  *)
(* it, one key in a batch.  A key the filter passes on to the host, or that *)
(* the editor swallows without a press, changes nothing here.  Clipboard    *)
(* text, scrolling and the register's origin are left out.                 *)
(***************************************************************************)
EXTENDS EditHistory, VimMotions

CONSTANTS
    NibbleBase,   \* 16 in the code: a byte is high * NibbleBase + low
    Nibbles,      \* the hex digits typed
    Clipboard,    \* what the host pastes
    Counts,       \* the digits of a count
    MaxCount,     \* bound: largest count
    MaxPresses    \* bound: inputs explored

ASSUME InputConstants ==
    /\ NibbleBase \in Nat \ {0}
    /\ Byte = 0 .. (NibbleBase * NibbleBase - 1)
    /\ WordBytes \subseteq Byte
    /\ Nibbles \subseteq 0 .. (NibbleBase - 1)
    /\ Clipboard \subseteq Seq(Byte)
    /\ << >> \notin Clipboard
    /\ Counts \subseteq 0 .. 9
    /\ MaxCount \in Nat /\ MaxPresses \in Nat

VARIABLES
    selection,            \* << >>, or <<anchor, cursor>>
    active_pane,
    last_cursor_offset,   \* << >>, or <<offset>>
    drag_anchor,          \* << >>, or <<offset>> while the button is held
    input_mode,
    vim,                  \* mode, count (0: None), pending, register
    stuck,                \* the UI thread does not come back from the last key
    half,                 \* where the last key left the nibble pointer low: << >>, or <<offset>>
    presses               \* inputs so far

keyVars == <<selection, active_pane, last_cursor_offset, drag_anchor, input_mode, vim, stuck,
             half, presses>>
inputVars == <<historyAndBuffer, keyVars>>

cursor == selection[2]
Caret(o) == <<o, o>>
CursorOf(sel) == IF sel = << >> THEN << >> ELSE <<sel[2]>>
To(sel, o, extend) == IF extend THEN <<sel[1], o>> ELSE Caret(o)

(* A tab opened afresh has no caret, a reopened or restored one its old one, *)
(* as far as the bytes go.                                                  *)
InputInit ==
    /\ HistoryInit
    /\ input_mode \in {"Default", "Vim"}
    /\ active_pane = "Hex"
    /\ selection \in {<< >>} \cup {Caret(o) : o \in 0 .. LastOf(base_source)}
    /\ last_cursor_offset = CursorOf(selection)
    /\ drag_anchor = << >>
    /\ vim = [mode |-> "Normal", count |-> 0, pending |-> "None", register |-> << >>]
    /\ stuck = FALSE
    /\ half = << >>
    /\ presses = 0

-----------------------------------------------------------------------------
(* Edits, with the abstract buffer in step; `boundary` is history_break as  *)
(* the input leaves it.  A refused edit leaves only that.                  *)

Accepted(offset, remove) == mode = "Mutable" /\ offset + remove <= Len(view)

Kept(boundary) ==
    /\ history_break' = boundary
    /\ UNCHANGED <<base_source, patch, mode, undo_stack, redo_stack, last_edit_at,
                   non_lp_entries, revision, bufferVars>>

Wrote(offset, bytes, boundary) ==
    /\ Requested(Len(bytes), bytes)
    /\ request_write(offset, bytes, boundary)
    /\ Edit(offset, Len(bytes), bytes, Joined)

Inserted(offset, bytes, boundary) ==
    IF ~Accepted(offset, 0) THEN Kept(boundary)
    ELSE /\ Requested(0, bytes)
         /\ insert_at(offset, bytes, boundary)
         /\ Edit(offset, 0, bytes, Joined)

Spliced(offset, remove, bytes, boundary) ==
    IF ~Accepted(offset, remove) THEN Kept(boundary)
    ELSE /\ Requested(remove, bytes)
         /\ splice(offset, remove, bytes, boundary)
         /\ Edit(offset, remove, bytes, Joined)

set_typing_mode(m) == typing_mode' = m /\ edit_high_nibble' = TRUE

-----------------------------------------------------------------------------
(* Moving: a place is a selection and the nibble pointer. *)

nav_nibble(place, pane, step, extend, len) ==
    LET sel == place.sel
        right == Lesser(sel[2] + 1, len)
        left  == Greater(sel[2], 1) - 1
        At(o, high) == [sel |-> To(sel, o, extend), high |-> high]
    IN  CASE pane = "Ascii" -> At(IF step = "Right" THEN right ELSE left, TRUE)
          [] step = "Right" -> IF place.high THEN At(sel[2], FALSE) ELSE At(right, TRUE)
          [] OTHER -> IF ~place.high THEN At(sel[2], TRUE)
                      ELSE IF sel[2] = 0 THEN At(0, TRUE) ELSE At(left, FALSE)

nav_row(place, step, extend, len) ==
    LET cur == place.sel[2]
        down == Lesser(cur + Columns, Greater(len, 1) - 1)
        up   == IF cur >= Columns THEN cur - Columns ELSE 0
    IN  [sel |-> To(place.sel, IF step = "Down" THEN down ELSE up, extend), high |-> TRUE]

Arrow(place, pane, step, extend, len) ==
    IF step \in {"Left", "Right"} THEN nav_nibble(place, pane, step, extend, len)
    ELSE nav_row(place, step, extend, len)

-----------------------------------------------------------------------------
(* Default dispatch; vim's Insert and Replace modes type through it too.    *)
(* It begins with a look at the caret: one that something else has moved    *)
(* starts on a high nibble and a fresh undo entry (input.rs apply).         *)

Delegated == input_mode = "Default" \/ vim.mode \in {"Insert", "Replace"}

Moved == CursorOf(selection) # last_cursor_offset

(* Bug: the caret is not looked at before the keys are applied. *)
NibbleAtStart_any == edit_high_nibble

NibbleAtStart == edit_high_nibble \/ Moved
BoundaryAtStart == history_break \/ Moved

(* What every batch leaves behind. *)
Settled ==
    /\ last_cursor_offset' = CursorOf(selection')
    /\ half' = IF edit_high_nibble' \/ selection' = << >> THEN << >> ELSE <<selection'[2]>>

Stay == selection' = selection /\ edit_high_nibble' = NibbleAtStart

advance_cursor_byte == selection' = Caret(Lesser(cursor + 1, Len(view')))

(* type_hex_digit: the first digit makes a byte, in Insert mode or at the   *)
(* end of the file, or overwrites the high half of one; the second          *)
(* overwrites the low half and goes on to the next byte.                   *)
HexDigit ==
    /\ mode = "Mutable" /\ active_pane = "Hex"
    /\ UNCHANGED typing_mode
    /\ IF selection = << >> THEN Kept(BoundaryAtStart) /\ Stay
       ELSE \E nibble \in Nibbles :
            LET high == NibbleAtStart
                creating_new_byte == high /\ (typing_mode = "Insert" \/ cursor >= Len(view))
                current == view[cursor + 1]
            IN  \/ /\ creating_new_byte
                   /\ Inserted(cursor, <<nibble * NibbleBase>>, BoundaryAtStart)
                   /\ IF Accepted(cursor, 0)
                      THEN selection' = selection /\ edit_high_nibble' = FALSE
                      ELSE Stay
                \/ /\ ~creating_new_byte /\ cursor >= Len(view)
                   /\ Kept(BoundaryAtStart) /\ Stay
                \/ /\ ~creating_new_byte /\ cursor < Len(view)
                   /\ Wrote(cursor, <<IF high THEN nibble * NibbleBase + (current % NibbleBase)
                                      ELSE (current \div NibbleBase) * NibbleBase + nibble>>,
                            BoundaryAtStart)
                   /\ edit_high_nibble' = ~high
                   /\ IF high THEN selection' = selection ELSE advance_cursor_byte

(* type_ascii_byte *)
TypeText ==
    /\ mode = "Mutable" /\ active_pane = "Ascii"
    /\ UNCHANGED typing_mode
    /\ edit_high_nibble' = NibbleAtStart
    /\ IF selection = << >> THEN Kept(BoundaryAtStart) /\ UNCHANGED selection
       ELSE \E byte \in WordBytes :
            IF cursor >= Len(view) \/ typing_mode = "Insert"
            THEN /\ Inserted(cursor, <<byte>>, BoundaryAtStart)
                 /\ IF Accepted(cursor, 0) THEN advance_cursor_byte ELSE UNCHANGED selection
            ELSE Wrote(cursor, <<byte>>, BoundaryAtStart) /\ advance_cursor_byte

ArrowKey ==
    /\ \E step \in {"Left", "Right", "Up", "Down"}, shift \in BOOLEAN :
          LET from == IF selection = << >> THEN [sel |-> Caret(0), high |-> TRUE]
                      ELSE [sel |-> selection, high |-> NibbleAtStart]
              place == Arrow(from, active_pane, step, shift, Len(view))
          IN  selection' = place.sel /\ edit_high_nibble' = place.high
    /\ Kept(TRUE)
    /\ UNCHANGED typing_mode

(* Escape; in vim's modes, with a modifier held. *)
ClearSelection ==
    /\ selection' = IF selection = << >> THEN << >> ELSE Caret(cursor)
    /\ edit_high_nibble' = TRUE
    /\ Kept(BoundaryAtStart)
    /\ UNCHANGED typing_mode

(* backspace_byte; in Replace mode the key is the host's. *)
Backspace ==
    /\ mode = "Mutable" /\ typing_mode = "Insert"
    /\ UNCHANGED typing_mode
    /\ IF selection = << >> \/ selection[2] = 0 \/ selection[2] > Len(view)
       THEN Kept(BoundaryAtStart) /\ Stay
       ELSE /\ Spliced(cursor - 1, 1, << >>, BoundaryAtStart)
            /\ selection' = Caret(cursor - 1)
            /\ edit_high_nibble' = TRUE

(* A key that is the host's still has its batch, and the look at the caret. *)
HostKey ==
    /\ Stay
    /\ Kept(BoundaryAtStart)
    /\ UNCHANGED typing_mode

DefaultNext ==
    /\ Delegated
    /\ HexDigit \/ TypeText \/ ArrowKey \/ ClearSelection \/ Backspace \/ HostKey
    /\ Settled
    /\ UNCHANGED <<active_pane, input_mode, vim, stuck>>

(* A bare Escape in Insert or Replace pops the mode and applies nothing. *)
ExitInsert ==
    /\ input_mode = "Vim" /\ vim.mode \in {"Insert", "Replace"}
    /\ vim' = [vim EXCEPT !.mode = "Normal"]
    /\ set_typing_mode("Replace")
    /\ Kept(TRUE)
    /\ half' = << >>
    /\ UNCHANGED <<selection, last_cursor_offset, active_pane, input_mode, stuck>>

-----------------------------------------------------------------------------
(* vim's Normal, Visual and VisualLine modes (vim.rs apply).  The first     *)
(* key of an editor without a caret puts it at the start of the file.       *)

Visual == vim.mode \in {"Visual", "VisualLine"}
FindKeys == {"f", "F", "t", "T"}
WantsChar == vim.pending \in FindKeys \cup {"Inner", "Around"}

sel0 == IF selection = << >> THEN Caret(0) ELSE selection
cur0 == sel0[2]

CountOrOne == Greater(vim.count, 1)
clear_pending == [vim EXCEPT !.count = 0, !.pending = "None"]

set_cursor(o) == selection' = To(sel0, o, Visual) /\ edit_high_nibble' = TRUE
StandStill == selection' = sel0 /\ UNCHANGED edit_high_nibble

(* A key that edits no bytes and leaves pane and typing mode alone. *)
Quiet == Kept(history_break) /\ UNCHANGED <<typing_mode, active_pane, stuck>>

VimEscape ==
    /\ vim' = [clear_pending EXCEPT !.mode = "Normal"]
    /\ selection' = Caret(cur0)
    /\ edit_high_nibble' = TRUE
    /\ Quiet

TogglePane ==
    /\ active_pane' = IF active_pane = "Hex" THEN "Ascii" ELSE "Hex"
    /\ vim' = clear_pending
    /\ selection' = sel0 /\ edit_high_nibble' = TRUE
    /\ Kept(TRUE)
    /\ UNCHANGED <<typing_mode, stuck>>

(* i outside Visual, and R. *)
EnterTyping ==
    /\ \/ ~Visual /\ vim' = [clear_pending EXCEPT !.mode = "Insert"] /\ set_typing_mode("Insert")
       \/ vim' = [clear_pending EXCEPT !.mode = "Replace"] /\ set_typing_mode("Replace")
    /\ selection' = sel0
    /\ Kept(TRUE)
    /\ UNCHANGED <<active_pane, stuck>>

(* A digit; a 0 that continues no count goes to the start of the line. *)
CountDigit ==
    /\ \E d \in Counts :
          IF d = 0 /\ vim.count = 0
          THEN set_cursor(LineStart(view, active_pane, cur0)) /\ UNCHANGED vim
          ELSE /\ vim.count * 10 + d <= MaxCount
               /\ vim' = [vim EXCEPT !.count = @ * 10 + d]
               /\ StandStill
    /\ Quiet

PressG ==
    /\ IF vim.pending = "G"
       THEN /\ vim' = clear_pending
            /\ set_cursor(Lesser(vim.count * Columns, LastOf(view)))
       ELSE vim' = [vim EXCEPT !.pending = "G"] /\ StandStill
    /\ Quiet

(* h, j, k and l, `count` times. *)
ArrowMotion ==
    /\ \E step \in {"Left", "Right", "Up", "Down"} :
          LET place[n \in 0 .. CountOrOne] ==
                  IF n = 0 THEN [sel |-> sel0, high |-> edit_high_nibble]
                  ELSE Arrow(place[n - 1], active_pane, step, Visual, Len(view))
          IN  /\ selection' = place[CountOrOne].sel
              /\ edit_high_nibble' = place[CountOrOne].high
    /\ vim' = clear_pending
    /\ Quiet

LineMotion ==
    /\ set_cursor(LineEnd(view, active_pane, cur0)) \/ set_cursor(LastOf(view))
    /\ vim' = clear_pending
    /\ Quiet

(* w, b, e; W and E, which are the same; B. *)
WordStep(motion, from) ==
    CASE motion = "w" -> word_forward(view, active_pane, from, FALSE)
      [] motion = "b" -> word_back(view, active_pane, from, FALSE)
      [] motion = "e" -> word_end_forward(view, active_pane, from, FALSE)
      [] motion = "W" -> word_end_forward(view, active_pane, from, TRUE)
      [] motion = "B" -> word_back(view, active_pane, from, TRUE)

WordMotion ==
    /\ \E motion \in {"w", "b", "e", "W", "B"} :
          LET at[n \in 0 .. CountOrOne] == IF n = 0 THEN cur0 ELSE WordStep(motion, at[n - 1])
          IN  set_cursor(at[CountOrOne])
    /\ vim' = clear_pending
    /\ Quiet

EnterVisual ==
    /\ vim' = [clear_pending EXCEPT !.mode = IF @ = "Visual" THEN "Normal" ELSE "Visual"]
    /\ selection' = Caret(cur0)
    /\ UNCHANGED edit_high_nibble
    /\ Quiet

EnterVisualLine ==
    /\ vim' = [clear_pending EXCEPT !.mode = IF @ = "VisualLine" THEN "Normal" ELSE "VisualLine"]
    /\ selection' = IF vim.mode = "VisualLine" THEN Caret(cur0)
                    ELSE line_bounds(view, active_pane, cur0)
    /\ UNCHANGED edit_high_nibble
    /\ Quiet

-----------------------------------------------------------------------------
(* Operators.  A range is inclusive; one that ends past the bytes cannot be *)
(* read, and the operator does nothing.                                    *)

Selected == <<Lesser(sel0[1], sel0[2]), Greater(sel0[1], sel0[2])>>
Rows == multi_line_bounds(view, active_pane, cur0, CountOrOne)
Readable(range) == range[1] <= range[2] /\ range[2] < Len(view)
BytesIn(range) == Slice(view, range[1], range[2] + 1 - range[1])

(* The register takes the bytes and they are spliced out. *)
Cut(range, v) ==
    /\ vim' = [v EXCEPT !.register = BytesIn(range)]
    /\ Spliced(range[1], range[2] + 1 - range[1], << >>, history_break)
    /\ selection' = Caret(Lesser(range[1], LastOf(view')))
    /\ UNCHANGED edit_high_nibble

Nothing(v) == vim' = v /\ Kept(history_break) /\ StandStill

(* y, and yy outside Visual. *)
Yank ==
    /\ IF Visual
       THEN LET v == [clear_pending EXCEPT !.mode = "Normal"]
            IN  IF Readable(Selected)
                THEN /\ vim' = [v EXCEPT !.register = BytesIn(Selected)]
                     /\ selection' = Caret(cur0)
                ELSE vim' = v /\ selection' = sel0
       ELSE /\ selection' = sel0
            /\ vim' = IF vim.pending # "Yank" THEN [vim EXCEPT !.pending = "Yank"]
                      ELSE IF Readable(Rows) THEN [clear_pending EXCEPT !.register = BytesIn(Rows)]
                      ELSE clear_pending
    /\ UNCHANGED edit_high_nibble
    /\ Quiet

(* d, and dd outside Visual. *)
Delete ==
    /\ IF Visual
       THEN LET v == [clear_pending EXCEPT !.mode = "Normal"]
            IN  IF Readable(Selected) THEN Cut(Selected, v) ELSE Nothing(v)
       ELSE IF vim.pending # "Delete" THEN Nothing([vim EXCEPT !.pending = "Delete"])
       ELSE IF Readable(Rows) THEN Cut(Rows, clear_pending) ELSE Nothing(clear_pending)
    /\ UNCHANGED <<typing_mode, active_pane, stuck>>

(* Bug: the register takes one byte, however many are deleted. *)
DeleteByte_one ==
    /\ IF cur0 >= Len(view) THEN Nothing(clear_pending)
       ELSE LET len == Lesser(CountOrOne, Len(view) - cur0)
            IN  /\ vim' = [clear_pending EXCEPT !.register = <<view[cur0 + 1]>>]
                /\ Spliced(cur0, len, << >>, history_break)
                /\ selection' = Caret(Lesser(cur0, LastOf(view')))
                /\ UNCHANGED edit_high_nibble
    /\ UNCHANGED <<typing_mode, active_pane, stuck>>

(* x: as many bytes as there are, from the caret on. *)
DeleteByte ==
    /\ IF cur0 >= Len(view) THEN Nothing(clear_pending)
       ELSE Cut(<<cur0, cur0 + Lesser(CountOrOne, Len(view) - cur0) - 1>>, clear_pending)
    /\ UNCHANGED <<typing_mode, active_pane, stuck>>

(* Bug: the caret goes where the last byte would be had the splice gone through. *)
PutRegister_trusting ==
    /\ IF vim.register = << >> THEN Nothing(clear_pending)
       ELSE LET at == IF view = << >> THEN 0 ELSE Lesser(cur0 + 1, Len(view))
                n  == Len(vim.register)
                payload == [i \in 1 .. (n * CountOrOne) |-> vim.register[((i - 1) % n) + 1]]
            IN  /\ vim' = clear_pending
                /\ Spliced(at, 0, payload, history_break)
                /\ selection' = Caret(at + Len(payload) - 1)
                /\ UNCHANGED edit_high_nibble
    /\ UNCHANGED <<typing_mode, active_pane, stuck>>

(* p: the register, `count` times, after the caret; the caret goes to the   *)
(* last byte pasted whether the splice was accepted or not.                *)
PutRegister ==
    /\ IF vim.register = << >> THEN Nothing(clear_pending)
       ELSE LET at == IF view = << >> THEN 0 ELSE Lesser(cur0 + 1, Len(view))
                n  == Len(vim.register)
                payload == [i \in 1 .. (n * CountOrOne) |-> vim.register[((i - 1) % n) + 1]]
            IN  /\ vim' = clear_pending
                /\ Spliced(at, 0, payload, history_break)
                /\ selection' = Caret(Lesser(at + Len(payload) - 1, LastOf(view')))
                /\ UNCHANGED edit_high_nibble
    /\ UNCHANGED <<typing_mode, active_pane, stuck>>

(* The character f, F, t and T look for.  A backward scan that has passed   *)
(* the start of its line and meets no target counts below zero: a build     *)
(* with overflow checks panics, the others go through every 64-bit offset.  *)
Find(key, target) ==
    /\ LET hits == apply_find_char(view, active_pane, cur0, key, target, CountOrOne)
       IN  IF hits = {} THEN StandStill ELSE \E o \in hits : set_cursor(o)
    /\ stuck' = /\ key \in {"F", "T"} /\ view # << >>
                /\ ScanUnderflows(view, active_pane, cur0, target, CountOrOne)
    /\ vim' = clear_pending
    /\ Kept(history_break)
    /\ UNCHANGED <<typing_mode, active_pane>>

(* f, F, t, T, and in Visual i and a: the filter arms itself on the key and *)
(* takes the text of the same keystroke for the character it waits for,     *)
(* which names no text object.                                             *)
ResolveAtOnce ==
    \/ \E key \in FindKeys, letter \in WordBytes : Find(key, letter)
    \/ Visual /\ vim' = clear_pending /\ StandStill /\ Quiet

(* A keystroke that carries no text (Control held, on macOS) leaves it      *)
(* waiting for the next one.                                               *)
WaitForChar ==
    /\ \E key \in FindKeys \cup (IF Visual THEN {"Inner", "Around"} ELSE {}) :
          vim' = [vim EXCEPT !.pending = key]
    /\ StandStill
    /\ Quiet

FindChar == vim.pending \in FindKeys /\ \E target \in Byte : Find(vim.pending, target)

(* The character a text object waits for. *)
TextObject ==
    /\ vim.pending \in {"Inner", "Around"}
    /\ LET around == vim.pending = "Around"
           ranges == {bracket_range(view, cur0, pair, around) : pair \in Brackets}
                     \cup {quote_range(view, cur0, q, around) : q \in Quotes}
                     \cup {word_object_range(view, active_pane, cur0, big, around) : big \in BOOLEAN}
       IN  \E found \in ranges :
              selection' \in IF view = << >> \/ found = {} THEN {sel0} ELSE found
    /\ vim' = clear_pending
    /\ UNCHANGED edit_high_nibble
    /\ Quiet

VimNext ==
    /\ input_mode = "Vim" /\ ~Delegated
    /\ \/ VimEscape
       \/ WantsChar /\ (FindChar \/ TextObject)
       \/ /\ ~WantsChar
          /\ \/ TogglePane \/ EnterTyping \/ CountDigit \/ PressG
             \/ ArrowMotion \/ LineMotion \/ WordMotion
             \/ EnterVisual \/ EnterVisualLine
             \/ Yank \/ Delete \/ DeleteByte \/ PutRegister
             \/ ResolveAtOnce \/ WaitForChar
    /\ Settled
    /\ UNCHANGED input_mode

-----------------------------------------------------------------------------
(* The rest of the host. *)

(* HexEditor::set_selection *)
set_selection(sel) ==
    /\ selection' = sel
    /\ last_cursor_offset' = CursorOf(sel)
    /\ edit_high_nibble' = TRUE

HostKeepsModes == UNCHANGED <<typing_mode, active_pane, drag_anchor, input_mode, vim, stuck, half>>

(* handle_mouse_down on a cell of either pane, the slot past the last byte  *)
(* included.  Neither the nibble nor last_cursor_offset follows the caret.  *)
Click ==
    /\ \E o \in 0 .. Len(view), pane \in {"Hex", "Ascii"}, shift \in BOOLEAN :
          /\ selection' = To(sel0, o, shift /\ selection # << >>)
          /\ active_pane' = pane
          /\ edit_high_nibble' = (edit_high_nibble \/ pane # active_pane)
          /\ Kept(history_break \/ pane # active_pane)
    /\ drag_anchor' = <<selection'[1]>>
    /\ UNCHANGED <<last_cursor_offset, typing_mode, input_mode, vim, stuck, half>>

(* handle_mouse_move with the button held: the anchor is the one of the     *)
(* press, whatever keys have done since.                                   *)
Drag ==
    /\ drag_anchor # << >>
    /\ \E o \in 0 .. Len(view) : selection' = <<drag_anchor[1], o>>
    /\ Kept(history_break)
    /\ UNCHANGED <<edit_high_nibble, last_cursor_offset>>
    /\ HostKeepsModes

(* handle_mouse_up *)
Release ==
    /\ drag_anchor # << >>
    /\ drag_anchor' = << >>
    /\ Kept(history_break)
    /\ UNCHANGED <<selection, edit_high_nibble, last_cursor_offset, typing_mode, active_pane,
                   input_mode, vim, stuck, half>>

(* GoToOffset and SetSelection of the palette, clamped to the bytes. *)
GoTo ==
    /\ \E first, last \in 0 .. LastOf(view) : first <= last /\ set_selection(<<first, last>>)
    /\ Kept(TRUE)
    /\ HostKeepsModes

jump_cursor_to(offset) == set_selection(Caret(Lesser(offset, LastOf(view'))))

Undo == UndoStep /\ jump_cursor_to(undo_stack[Len(undo_stack)].offset) /\ HostKeepsModes
Redo == RedoStep /\ jump_cursor_to(redo_stack[Len(redo_stack)].offset) /\ HostKeepsModes

(* A splice the selection is set after: set_selection has the next write    *)
(* start a fresh entry once more, and record_entry had cleared that.       *)
splice_and_select(offset, remove, insert, boundary) ==
    /\ CanRecord(offset, remove, insert)
    /\ Recorded(Entry(offset, remove, insert), boundary)
    /\ patch' = rebuild_patch_from_stack(undo_stack')
    /\ history_break' = TRUE
    /\ UNCHANGED <<base_source, mode>>

paste_bytes ==
    /\ \E bytes \in Clipboard :
          LET at == IF selection = << >> THEN Len(view) ELSE Lesser(cursor, Len(view))
          IN  IF mode = "Mutable"
              THEN /\ Requested(0, bytes)
                   /\ splice_and_select(at, 0, bytes, TRUE)
                   /\ Edit(at, 0, bytes, Joined)
                   /\ set_selection(Caret(at + Len(bytes)))
              ELSE Kept(TRUE) /\ UNCHANGED <<selection, last_cursor_offset, edit_high_nibble>>
    /\ HostKeepsModes

ToggleEditMode ==
    /\ set_edit_mode(IF mode = "Mutable" THEN "Readonly" ELSE "Mutable")
    /\ UNCHANGED <<bufferVars, selection, last_cursor_offset, active_pane, drag_anchor,
                   input_mode, vim, stuck, half>>

set_input_mode ==
    /\ input_mode' = IF input_mode = "Vim" THEN "Default" ELSE "Vim"
    /\ vim' = IF input_mode = "Vim" THEN vim ELSE [clear_pending EXCEPT !.mode = "Normal"]
    /\ set_typing_mode("Replace")
    /\ Kept(TRUE)
    /\ UNCHANGED <<selection, last_cursor_offset, active_pane, drag_anchor, stuck, half>>

(* write_file, and apply_reload without the edits: the caret stays.        *)
SaveTab == SaveStep /\ UNCHANGED <<selection, last_cursor_offset>> /\ HostKeepsModes
ReloadTab == ReloadStep /\ UNCHANGED <<selection, last_cursor_offset>> /\ HostKeepsModes

HostNext ==
    \/ Click \/ Drag \/ Release \/ GoTo \/ Undo \/ Redo \/ paste_bytes
    \/ ToggleEditMode \/ set_input_mode \/ SaveTab \/ ReloadTab

InputNext ==
    /\ ~stuck
    /\ presses < MaxPresses
    /\ presses' = presses + 1
    /\ \/ (DefaultNext \/ ExitInsert \/ VimNext) /\ UNCHANGED drag_anchor
       \/ HostNext

InputSpec == InputInit /\ [][InputNext]_inputVars

-----------------------------------------------------------------------------
(* Properties. *)

(* No key, click, jump of the palette, undo or paste takes the caret out of *)
(* the bytes, the slot past the last one included, however many bytes it    *)
(* deletes or puts back; only a reload of a shorter file does (input.rs,    *)
(* vim.rs, workspace.rs jump_cursor_to and paste_bytes).                   *)
CaretInside == selection # << >> => cursor <= Len(view)
CaretStaysInside == [][ CaretInside => CaretInside' \/ ReloadTab ]_inputVars

(* A digit that overwrites a low half does so on the byte where the last    *)
(* key left the nibble pointer: whatever clicks, jumps, undos, pastes,      *)
(* saves and reloads came in between, the second digit never lands in       *)
(* another byte than the first (input.rs apply, lib.rs type_hex_digit).     *)
DigitsMeet ==
    [][ /\ selection # << >> /\ active_pane = "Hex" /\ edit_high_nibble'
        /\ present' # present /\ Len(present') = Len(present) /\ cursor < Len(present)
        /\ present'[cursor + 1] \div NibbleBase = present[cursor + 1] \div NibbleBase
        /\ DefaultNext
        => half = <<cursor>> ]_inputVars

(* What vim's d, dd and x take out of the bytes is what the register holds, *)
(* so that p can put it back, counts larger than what is left included      *)
(* (vim.rs delete_selection, delete_rows, delete_byte_under_cursor).        *)
DeletedIsKept ==
    [][ Len(present') < Len(present) /\ VimNext
        => \E o \in 0 .. Len(present') : present = Splice(present', o, 0, vim'.register)
      ]_inputVars

(* f, F, t and T go to the count-th target "on the current row (hex pane)   *)
(* or current line (ASCII pane). No-op if not found" (vim.rs, comment of    *)
(* apply_find_char).                                                       *)
FindStaysInLine ==
    [][ input_mode = "Vim" /\ view # << >> /\ (\E key \in FindKeys, b \in Byte : Find(key, b))
        => /\ ~stuck'
           /\ LET line == line_bounds(view, active_pane, cur0)
              IN  cur0 <= line[2] => line[1] <= selection'[2] /\ selection'[2] <= line[2]
      ]_inputVars

=============================================================================
