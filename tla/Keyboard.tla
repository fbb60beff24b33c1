------------------------------ MODULE Keyboard ------------------------------
(***************************************************************************)
(* Host input to the keyboard matrix: keyboard.c with its callers in       *)
(* arch/ps3 (kbd.c, joy.cpp).  Three sources press and release the same    *)
(* host keys: the USB keyboard's reports, the pads' buttons mapped to keys *)
(* and the text of the on-screen keyboard, typed key by key.  All three    *)
(* are polled once per frame; what they change in the latched matrix       *)
(* reaches the emulated one, and the restore key the NMI, by an alarm      *)
(* somewhere within the next frame.                                        *)
(***************************************************************************)
EXTENDS Naturals, Sequences, FiniteSets, SequencesExt

CONSTANTS
  Syms,            \* host keys other than modifiers (keysyms)
  Mods,            \* modifier keys, as a sequence in the order kbd_process looks at them
  RESTORE,         \* the host key mapped to the restore key
  keyconvmap,      \* host key -> its entries [pos, shift], in the order of the keymap file
  LSHIFT, RSHIFT,  \* positions of the shift keys in the matrix
  vshift,          \* the position a virtual shift presses, or NONE
  NONE,
  Buttons,         \* buttons of the pads, in the order they are polled
  Joymaps,         \* the mappings of buttons to host keys (or NONE) a user may choose
  MAX_KEYS,        \* of a USB report
  Reports,         \* the reports [mkey, codes] of the USB keyboard
  Texts            \* what is entered with the on-screen keyboard

ASSUME KeyAssumption ==
  /\ MAX_KEYS \in Nat \ {0}
  /\ \A s \in Syms : \A i \in DOMAIN keyconvmap[s] :
       keyconvmap[s][i].shift \subseteq
         {"VIRTUAL_SHIFT", "LEFT_SHIFT", "RIGHT_SHIFT", "ALLOW_SHIFT", "DESHIFT_SHIFT", "ALLOW_OTHER"}

VARIABLES
  kb,          \* keyboard.c: the matrix, the shifts, the restore key and the two alarms
  keysdown,    \* kbd.c: slots for the keys a report showed; NONE is an empty one
  mkey,        \* kbd.c: modifiers of the last report
  pad,         \* joy.cpp: joymap_index and button_state
  osk,         \* kbd.c: inputbuffer, osk_active_bufferlen, keystroke, keydown
  host         \* history: the buttons last seen held, the press the program must still be
               \* told of, what it was last told, the keys typed of the current text, whether
               \* a button was mapped anew while it was held
keyVars == <<kb, keysdown, mkey, pad, osk, host>>

Entries == {keyconvmap[s] : s \in Syms \cup ToSet(Mods)}
Positions == {LSHIFT, RSHIFT} \cup UNION {{c[i].pos : i \in DOMAIN c} : c \in Entries}

-----------------------------------------------------------------------------
(* keyboard.c *)

\* The alarm is set within the next frame (again, if it is set already).
KeyboardAlarm(k) == [k EXCEPT !.armed = @ \cup {"Keyboard"}]
RestoreAlarm(k) == [k EXCEPT !.armed = @ \cup {"Restore"}]

ShiftsHeld(k) ==
  (IF k.left_shift_down \/ (k.virtual_shift_down /\ vshift = LSHIFT) THEN {LSHIFT} ELSE {})
    \cup (IF k.right_shift_down \/ (k.virtual_shift_down /\ vshift = RSHIFT) THEN {RSHIFT} ELSE {})

keyboard_key_deshift(k) == [k EXCEPT !.latch = @ \ {LSHIFT, RSHIFT}]
keyboard_key_shift(k) == [k EXCEPT !.latch = @ \cup ShiftsHeld(k)]

keyboard_key_pressed_matrix(k, shift) ==
  IF shift = {} \/ "DESHIFT_SHIFT" \in shift
  THEN keyboard_key_deshift(k)
  ELSE keyboard_key_shift([k EXCEPT !.virtual_shift_down = @ \/ "VIRTUAL_SHIFT" \in shift,
                                    !.left_shift_down = @ \/ "LEFT_SHIFT" \in shift,
                                    !.right_shift_down = @ \/ "RIGHT_SHIFT" \in shift])

keyboard_key_released_matrix(k, shift) ==
  LET freed == [k EXCEPT !.virtual_shift_down = @ /\ "VIRTUAL_SHIFT" \notin shift,
                         !.left_shift_down = @ /\ "LEFT_SHIFT" \notin shift,
                         !.right_shift_down = @ /\ "RIGHT_SHIFT" \notin shift]
  IN  [freed EXCEPT !.latch = (@ \ {LSHIFT, RSHIFT}) \cup ShiftsHeld(freed)]

keyboard_restore_pressed(k) ==
  IF k.restore_raw THEN k
  ELSE RestoreAlarm([k EXCEPT !.restore_raw = TRUE, !.restore_delayed = TRUE,
                              !.restore_quick_release = FALSE])

\* Mutant: a release takes a press back that was not delivered yet.
keyboard_restore_released_TakenBack(k) ==
  IF ~k.restore_raw THEN k
  ELSE RestoreAlarm([k EXCEPT !.restore_raw = FALSE, !.restore_delayed = FALSE])

keyboard_restore_released(k) ==
  IF ~k.restore_raw THEN k
  ELSE IF k.restore_delayed
  THEN [k EXCEPT !.restore_raw = FALSE, !.restore_quick_release = TRUE]
  ELSE RestoreAlarm([k EXCEPT !.restore_raw = FALSE])

\* The entries of the key up to the first that allows no other; with no shift held the
\* first is the only one.  The position latched is that of the last.
keyboard_key_pressed(k, sym) ==
  IF sym = RESTORE THEN keyboard_restore_pressed(k)
  ELSE LET try(acc, e) ==
             IF acc.break THEN acc
             ELSE LET p == keyboard_key_pressed_matrix(acc.k, e.shift)
                  IN  [ k |-> p, pos |-> {e.pos},
                        break |-> "ALLOW_OTHER" \notin e.shift
                                  \/ ~(p.left_shift_down \/ p.right_shift_down) ]
           end == FoldLeft(try, [k |-> k, pos |-> {}, break |-> FALSE], keyconvmap[sym])
       IN  IF end.pos = {} THEN k
           ELSE KeyboardAlarm([end.k EXCEPT !.latch = @ \cup end.pos])

keyboard_key_released(k, sym) ==
  IF sym = RESTORE THEN keyboard_restore_released(k)
  ELSE LET try(acc, e) ==
             IF acc.break THEN acc
             ELSE LET r == keyboard_key_released_matrix(acc.k, e.shift)
                  IN  [ k |-> [r EXCEPT !.latch = @ \ {e.pos}], latch |-> TRUE,
                        break |-> "ALLOW_OTHER" \notin e.shift ]
           end == FoldLeft(try, [k |-> k, latch |-> FALSE, break |-> FALSE], keyconvmap[sym])
       IN  IF end.latch THEN KeyboardAlarm(end.k) ELSE k

-----------------------------------------------------------------------------
(* kbd.c, joy.cpp: what a frame's poll does.  in is [kb, keysdown, button_state]. *)

ReleaseSlot(in, i) ==
  [in EXCEPT !.kb = keyboard_key_released(@, in.keysdown[i]), !.keysdown[i] = NONE]

\* All slots are released but those of the codes kept.
ReleaseKeys(in, kept) ==
  LET slot(acc, i) == IF acc.keysdown[i] \notin kept \cup {NONE} THEN ReleaseSlot(acc, i) ELSE acc
  IN  FoldLeft(slot, in, [i \in 1 .. MAX_KEYS |-> i])

\* A key for which there is no slot is not pressed.
PressKey(in, code) ==
  LET free == {i \in 1 .. MAX_KEYS : in.keysdown[i] = NONE}
  IN  IF code = NONE \/ (\E i \in 1 .. MAX_KEYS : in.keysdown[i] = code) \/ free = {} THEN in
      ELSE LET i == CHOOSE i \in free : \A j \in free : i <= j
           IN  [in EXCEPT !.keysdown[i] = code, !.kb = keyboard_key_pressed(@, code)]

ModifierKey(old, new, in, mod) ==
  CASE mod \in new \ old -> [in EXCEPT !.kb = keyboard_key_pressed(@, mod)]
    [] mod \in old \ new -> [in EXCEPT !.kb = keyboard_key_released(@, mod)]
    [] OTHER -> in

\* A report with no key at all is not looked at; the code NONE releases all.
kbd_process(in, old, report) ==
  IF report.codes = <<>> THEN in
  ELSE LET modified == FoldLeft(LAMBDA acc, m : ModifierKey(old, report.mkey, acc, m), in, Mods)
           cleared  == IF NONE \in ToSet(report.codes)
                       THEN ReleaseKeys(modified, {}) ELSE modified
           released == ReleaseKeys(cleared, ToSet(report.codes))
       IN  FoldLeft(PressKey, released, report.codes)

process_button(joymap, held, in, b) ==
  LET keycode == joymap[b]
  IN  IF keycode = NONE THEN in
      ELSE IF b \in held /\ b \notin in.button_state
      THEN [in EXCEPT !.button_state = @ \cup {b}, !.kb = keyboard_key_pressed(@, keycode)]
      ELSE IF b \notin held /\ b \in in.button_state
      THEN [in EXCEPT !.button_state = @ \ {b}, !.kb = keyboard_key_released(@, keycode)]
      ELSE in

\* osk_kbd_type_key, on o (the buffer keeps its old characters) and the keyboard.
OskEnded(o) ==
  IF o.keystroke > o.len THEN [o EXCEPT !.len = 0, !.keystroke = 0] ELSE o
OskTypes(o) == OskEnded(o).len # 0

OskNext(o, k) ==
  [ osk |-> [o EXCEPT !.keydown = FALSE, !.keystroke = @ + 1],
    kb |-> IF o.inputbuffer[o.keystroke + 1] = NONE THEN k
           ELSE keyboard_key_released(k, o.inputbuffer[o.keystroke + 1]) ]
OskPress(o, k) ==
  [ osk |-> [o EXCEPT !.keydown = TRUE],
    kb |-> IF o.inputbuffer[o.keystroke + 1] = NONE THEN k
           ELSE keyboard_key_pressed(k, o.inputbuffer[o.keystroke + 1]) ]

-----------------------------------------------------------------------------
KeyInit ==
  /\ kb = [ latch |-> {}, keyarr |-> {}, left_shift_down |-> FALSE, right_shift_down |-> FALSE,
            virtual_shift_down |-> FALSE, restore_raw |-> FALSE, restore_delayed |-> FALSE,
            restore_quick_release |-> FALSE, armed |-> {} ]
  /\ keysdown = [i \in 1 .. MAX_KEYS |-> NONE]
  /\ mkey = {}
  /\ \E j \in Joymaps : pad = [joymap |-> j, button_state |-> {}]
  /\ osk = [inputbuffer |-> [i \in 1 .. 3 |-> NONE], len |-> 0, keystroke |-> 0, keydown |-> FALSE]
  /\ host = [held |-> {}, owed |-> FALSE, told |-> FALSE, typed |-> <<>>, remapped |-> FALSE]

\* vsyncarch_presync: the pads (unless the on-screen keyboard types), the text, the USB
\* keyboard, in this order.  A key of the text is held for some frames.
vsyncarch_presync(held, report) ==
  LET polled == osk.len = 0
      start  == [kb |-> kb, keysdown |-> keysdown, button_state |-> pad.button_state]
      pads   == IF polled
                THEN FoldLeft(LAMBDA acc, b : process_button(pad.joymap, held, acc, b), start, Buttons)
                ELSE start
  IN  \E typing \in IF ~OskTypes(osk) THEN {[osk |-> OskEnded(osk), kb |-> pads.kb]}
                    ELSE IF OskEnded(osk).keydown
                    THEN {OskNext(osk, pads.kb), [osk |-> osk, kb |-> pads.kb]}
                    ELSE {OskPress(osk, pads.kb)} :
        LET end == kbd_process([pads EXCEPT !.kb = typing.kb], mkey, report)
        IN  /\ kb' = end.kb /\ keysdown' = end.keysdown
            /\ pad' = [pad EXCEPT !.button_state = end.button_state]
            /\ osk' = typing.osk
            /\ mkey' = IF report.codes = <<>> THEN mkey ELSE report.mkey
            /\ host' = [host EXCEPT
                 !.held = IF polled THEN held ELSE @,
                 !.owed = @ \/ (~kb.restore_raw /\ end.kb.restore_raw),
                 !.typed = IF typing.osk.keydown /\ ~osk.keydown
                           THEN Append(@, osk.inputbuffer[osk.keystroke + 1])
                           ELSE IF typing.osk.len = 0 THEN <<>> ELSE @]

\* Only when the last text is through: meanwhile the pads, which open it, are not polled.
osk_kbd_append_buffer(text) ==
  /\ osk.len = 0
  /\ osk' = [osk EXCEPT !.len = Len(text),
               !.inputbuffer = [i \in DOMAIN @ |-> IF i <= Len(text) THEN text[i] ELSE @[i]]]
  /\ UNCHANGED <<kb, keysdown, mkey, pad, host>>

\* In the in-game menu.
set_joymap(j) ==
  /\ pad' = [pad EXCEPT !.joymap = j]
  /\ host' = [host EXCEPT !.remapped = @ \/ \E b \in pad.button_state : j[b] # pad.joymap[b]]
  /\ UNCHANGED <<kb, keysdown, mkey, osk>>

latch_alarm ==
  /\ "Keyboard" \in kb.armed
  /\ kb' = [kb EXCEPT !.armed = @ \ {"Keyboard"}, !.keyarr = kb.latch]
  /\ UNCHANGED <<keysdown, mkey, pad, osk, host>>

AfterRestore(k) ==
  IF k.restore_quick_release
  THEN RestoreAlarm([k EXCEPT !.restore_quick_release = FALSE]) ELSE k
restore_alarm_triggered ==
  /\ "Restore" \in kb.armed
  /\ kb' = AfterRestore([kb EXCEPT !.armed = @ \ {"Restore"}, !.restore_delayed = FALSE])
  /\ host' = [host EXCEPT !.told = kb.restore_delayed, !.owed = @ /\ ~kb.restore_delayed]
  /\ UNCHANGED <<keysdown, mkey, pad, osk>>

KeyNext ==
  \/ \E held \in SUBSET ToSet(Buttons), report \in Reports : vsyncarch_presync(held, report)
  \/ \E text \in Texts : osk_kbd_append_buffer(text)
  \/ \E j \in Joymaps : set_joymap(j)
  \/ latch_alarm \/ restore_alarm_triggered

KeySpec == KeyInit /\ [][KeyNext]_keyVars

-----------------------------------------------------------------------------
(* Properties *)

\* Types; and a key takes one slot at most.
KeyTypeOK ==
  /\ kb.latch \subseteq Positions /\ kb.keyarr \subseteq Positions
  /\ kb.armed \subseteq {"Keyboard", "Restore"}
  /\ keysdown \in [1 .. MAX_KEYS -> Syms \cup ToSet(Mods) \cup {NONE}]
  /\ \A i, j \in 1 .. MAX_KEYS : keysdown[i] = keysdown[j] /\ i # j => keysdown[i] = NONE
  /\ mkey \subseteq ToSet(Mods) /\ pad.button_state \subseteq ToSet(Buttons)

\* When no key, button or text holds a key down, nothing is down in the latched matrix:
\* whatever the three sources did to keys and shifts they share, each press is undone.  But
\* for a button mapped anew while it is held: its old key stays down.
NoStuckKeys ==
  /\ keysdown = [i \in 1 .. MAX_KEYS |-> NONE] /\ mkey = {} /\ host.held = {} /\ ~osk.keydown
  /\ ~host.remapped
  => kb.latch = {}

\* The program sees the keys as they are as soon as no alarm is on its way.
LatchDelivered == "Keyboard" \notin kb.armed => kb.keyarr = kb.latch

\* A press of the restore key that was not delivered yet is still going to be, also if
\* the key was released and perhaps pressed again before.
RestorePressKept == host.owed => "Restore" \in kb.armed /\ kb.restore_delayed

\* And when nothing is on its way, the last the machine was told is how the key is.
RestoreSettles == "Restore" \notin kb.armed => host.told = kb.restore_raw

\* The on-screen keyboard types the text, each key once and in order.
TextTyped ==
  \A i \in DOMAIN host.typed : i <= osk.len => host.typed[i] = osk.inputbuffer[i]

\* What the host's keys, pads and on-screen keyboard do arrives at the machine: the matrix is
\* that of the keys held once the alarms have fired, no press of RESTORE is lost and no
\* character of a text is.
KeysArrive == NoStuckKeys /\ LatchDelivered /\ RestorePressKept /\ RestoreSettles /\ TextTyped
=============================================================================
