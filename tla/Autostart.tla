----------------------------- MODULE Autostart -----------------------------
(***************************************************************************)
(* autostart.c: the machine is rebooted and then watched once per frame:   *)
(* what its screen shows decides what is typed next, until the program     *)
(* runs.  Meanwhile warp and true drive emulation are as autostart wants   *)
(* them and the pads are not polled (arch/ps3/joy.cpp), so that the menu   *)
(* cannot be reached.  The Kernal and BASIC, which type back, are          *)
(* external.                                                               *)
(***************************************************************************)
EXTENDS KbdBuf, FiniteSets

CONSTANTS
  Kinds,           \* what may be autostarted: "disk", "tap", "t64", "snapshot", "inject"
  Load, Run,       \* the commands typed, as sequences of characters
  HandleTde,       \* values of AutostartHandleTrueDriveEmulation
  VirtualDevices,  \* values of VirtualDevices: the Kernal's serial routines are trapped
  MaxStarts,       \* bound: autostarts and resets of a behaviour
  NoChar           \* what the ring holds before it is used

ASSUME AutostartAssumption ==
  /\ MaxStarts \in Nat /\ HandleTde \cup VirtualDevices \subseteq BOOLEAN
  /\ Kinds \subseteq {"disk", "tap", "t64", "snapshot", "inject"}

Chars == {NoChar} \cup {Load[i] : i \in DOMAIN Load} \cup {Run[i] : i \in DOMAIN Run}

\* A command ends with return, and has none before.
ASSUME CommandAssumption ==
  /\ Load \in Seq(Chars) \ {<<>>} /\ Run \in Seq(Chars) \ {<<>>} /\ Load # Run
  /\ \A c \in {Load, Run} : \A i \in 1 .. Len(c) - 1 :
       c[i] \notin {Load[Len(Load)], Run[Len(Run)]}

VARIABLES
  auto,       \* autostart.c's variables, and what the serial traps were asked to call
  res,        \* resources; and held, joy.cpp's warp_mode
  kbuf,       \* kbdbuf.c's queue and the Kernal's
  age,        \* maincpu_clk: 0 below kernal_init_cycles, 1 below min_cycles, else 2
  resetting,  \* a reset was asked for
  kernal,     \* external: what the Kernal is at, and the line typed so far
  past        \* history: the kind of the current autostart, whether it has looked at the drive
              \* emulation, the one the user chose, warp mode as it was or the user has set it since,
              \* characters fed and not read, the lines BASIC was given since the reset, what to blame
              \* if they are not what they should be, and the number of starts
autoVars == <<auto, res, kbuf, age, resetting, kernal, past>>
AutoState == [auto |-> auto, res |-> res, kbuf |-> kbuf, resetting |-> resetting, past |-> past]

\* What was fed, without its first n characters.
Without(fed, n) == SubSeq(fed, n + 1, Len(fed))

Ended == {"NONE", "ERROR", "DONE"}
autostart_in_progress == auto.mode \notin {"NONE", "DONE"}
Initialised == age > 0

-----------------------------------------------------------------------------
(* What the Kernal and BASIC do with the screen: the answers check may give. *)

\* READY. with the cursor blinking below it.  A program shows what it likes, but not that.
SeesReady ==
  CASE kbdbuf_is_empty(kbuf) /\ kernal.at = "ready" /\ kernal.line = <<>> -> {"YES"}
    [] kbdbuf_is_empty(kbuf) /\ kernal.at = "program" -> {"NO", "NOT_YET"}
    [] OTHER -> {"NOT_YET"}

\* A text in the line of the cursor; an empty line is not an answer yet.
SeesLine(at) ==
  CASE ~kbdbuf_is_empty(kbuf) \/ kernal.at \in {"ramtas", "boot"} -> {"NOT_YET"}
    [] kbdbuf_is_empty(kbuf) /\ kernal.at = at -> {"YES"}
    [] kbdbuf_is_empty(kbuf) /\ kernal.at = "program" -> {"NO", "NOT_YET"}
    [] kbdbuf_is_empty(kbuf) /\ kernal.at = "ready" /\ kernal.line = <<>> -> {"NOT_YET"}
    [] OTHER -> {"NO"}

-----------------------------------------------------------------------------
(* Operators of autostart.c: from state to state. *)

Feed(s, string) ==
  [s EXCEPT !.kbuf = kbdbuf_feed(@, string, Initialised),
            !.past.fed = IF CanFeed(s.kbuf, string) THEN @ \o string ELSE @]

enable_warp_if_requested(s) ==
  IF ~s.res.AutostartWarp THEN s
  ELSE [s EXCEPT !.auto.orig_warp = s.res.WarpMode, !.res.WarpMode = TRUE]

disable_warp_if_was_requested(s) ==
  IF s.res.AutostartWarp /\ ~s.auto.orig_warp THEN [s EXCEPT !.res.WarpMode = FALSE] ELSE s

Off(s) == [disable_warp_if_was_requested(s) EXCEPT !.auto.mode = "ERROR"]
Done(s) == [disable_warp_if_was_requested(s) EXCEPT !.auto.mode = "DONE"]
TypeRun(s) == IF s.auto.run_mode = "RUN" THEN Feed(s, Run) ELSE s

\* Mutant: emulation stays as autostart set it.
disk_eof_callback_NoRestore(s) == [Done(s) EXCEPT !.auto.eof = FALSE]

disk_eof_callback(s) ==
  [Done(IF s.res.HandleTde THEN [s EXCEPT !.res.DriveTrueEmulation = TRUE \in s.auto.orig_tde] ELSE s)
     EXCEPT !.auto.eof = FALSE]

disk_attention_callback(s) == [TypeRun(s) EXCEPT !.auto.attention = FALSE, !.auto.eof = TRUE]

check_rom_area(s, in_ram) ==
  IF ~s.auto.entered_rom THEN [s EXCEPT !.auto.entered_rom = ~in_ram]
  ELSE IF in_ram THEN Done(s) ELSE s

\* The program counter, when asked: a program calls the ROM too.
InRam == IF kernal.at = "program" THEN BOOLEAN ELSE {FALSE}

advance_hastape(s) ==
  {CASE c = "YES" -> [Feed(s, Load) EXCEPT
                        !.auto.mode = IF s.past.kind = "tap" THEN "PRESSPLAYONTAPE" ELSE "LOADINGTAPE",
                        !.auto.entered_rom = FALSE]
     [] c = "NO" -> Off(s)
     [] OTHER -> s : c \in SeesReady}

advance_pressplayontape(s) ==
  {CASE c = "YES" -> [s EXCEPT !.auto.mode = "LOADINGTAPE", !.auto.play = TRUE]
     [] c = "NO" -> Off(s)
     [] OTHER -> s : c \in SeesLine("press play")}

\* advance_loadingtape and advance_waitloadready
advance_waitloadready(s) ==
  {CASE a[1] = "YES" -> TypeRun(Done(s))
     [] a[1] = "NO" -> Off(s)
     [] OTHER -> check_rom_area(s, a[2]) : a \in SeesReady \X InRam}

advance_hasdisk(s) ==
  LET tde   == IF s.res.HandleTde THEN ~s.res.VirtualDevices ELSE s.res.DriveTrueEmulation
      traps == IF s.res.HandleTde THEN s.res.VirtualDevices ELSE ~s.res.DriveTrueEmulation
      noted == [s EXCEPT !.auto.orig_tde = {s.res.DriveTrueEmulation}, !.past.noted = TRUE]
      typed == Feed([noted EXCEPT !.res.DriveTrueEmulation = tde], Load)
  IN  {CASE c = "YES" /\ traps -> [typed EXCEPT !.auto.mode = "LOADINGDISK", !.auto.attention = TRUE]
         [] c = "YES" /\ ~traps /\ s.res.AutostartWarp -> [typed EXCEPT !.auto.mode = "WAITSEARCHINGFOR"]
         [] c = "YES" /\ ~traps /\ ~s.res.AutostartWarp -> [TypeRun(typed) EXCEPT !.auto.mode = "DONE"]
         [] c = "NO" -> Off(noted)
         [] OTHER -> s : c \in SeesReady}

advance_hassnapshot(s) ==
  {CASE c = "YES" -> [s EXCEPT !.auto.mode = "DONE"]
     [] c = "NO" -> [s EXCEPT !.auto.mode = "ERROR"]
     [] OTHER -> s : c \in SeesReady}

advance_waitsearchingfor(s) ==
  {CASE c = "YES" -> [s EXCEPT !.auto.mode = "WAITLOADING"]
     [] c = "NO" -> Off(s)
     [] OTHER -> s : c \in SeesLine("searching")}

advance_waitloading(s) ==
  {CASE c = "YES" -> [s EXCEPT !.auto.mode = "WAITLOADREADY", !.auto.entered_rom = FALSE]
     [] c = "NO" -> IF kernal.at = "searching" THEN s ELSE Off(s)
     [] OTHER -> s : c \in SeesLine("loading")}

advance_inject(s) == {Off(s), [s EXCEPT !.auto.mode = "WAITLOADREADY"]}

autostart_advance(s) ==
  LET known == IF s.auto.orig_tde = {}
               THEN [s EXCEPT !.auto.orig_tde = {s.res.DriveTrueEmulation}] ELSE s
      after == CASE known.auto.mode = "HASTAPE" -> advance_hastape(known)
                 [] known.auto.mode = "PRESSPLAYONTAPE" -> advance_pressplayontape(known)
                 [] known.auto.mode \in {"LOADINGTAPE", "WAITLOADREADY"} -> advance_waitloadready(known)
                 [] known.auto.mode = "HASDISK" -> advance_hasdisk(known)
                 [] known.auto.mode = "HASSNAPSHOT" -> advance_hassnapshot(known)
                 [] known.auto.mode = "WAITLOADING" -> advance_waitloading(known)
                 [] known.auto.mode = "WAITSEARCHINGFOR" -> advance_waitsearchingfor(known)
                 [] known.auto.mode = "INJECT" -> advance_inject(known)
                 [] OTHER -> {known}
  IN  IF age < 2 THEN {[known EXCEPT !.auto.wait_for_reset = FALSE]}
      ELSE IF known.auto.wait_for_reset THEN {known}
      ELSE {IF t.auto.mode = "ERROR" /\ res.HandleTde /\ known.auto.mode \notin Ended \cup {"LOADINGDISK"}
            THEN [t EXCEPT !.res.DriveTrueEmulation = TRUE \in t.auto.orig_tde] ELSE t : t \in after}

Boots(kind) ==
  CASE kind \in {"tap", "t64"} -> "HASTAPE"
    [] kind = "disk" -> "HASDISK"
    [] kind = "snapshot" -> "HASSNAPSHOT"
    [] kind = "inject" -> "INJECT"

\* machine_trigger_reset.  What the queue holds now will be typed after the reset.
AskReset(s) == [s EXCEPT !.resetting = TRUE, !.past.disturbed = @ \/ s.kbuf.num_pending # 0]

reboot_for_autostart(s, kind, runmode) ==
  LET r == [AskReset(s) EXCEPT !.auto.ignore_reset = TRUE, !.auto.mode = Boots(kind), !.auto.run_mode = runmode,
                     !.auto.wait_for_reset = TRUE, !.auto.play = FALSE,
                     !.past.kind = kind, !.past.noted = FALSE,
                     !.past.warp = s.res.WarpMode]
  IN  IF kind = "snapshot" THEN r ELSE enable_warp_if_requested(r)

-----------------------------------------------------------------------------
AutoInit ==
  /\ auto = [ mode |-> "NONE", run_mode |-> "RUN", orig_tde |-> {}, orig_warp |-> TRUE,
              wait_for_reset |-> FALSE, ignore_reset |-> FALSE, entered_rom |-> FALSE,
              attention |-> FALSE, eof |-> FALSE, play |-> FALSE ]
  /\ \E h \in HandleTde, v \in VirtualDevices :
       res = [ WarpMode |-> FALSE, DriveTrueEmulation |-> TRUE, AutostartWarp |-> TRUE, held |-> FALSE,
               HandleTde |-> h, VirtualDevices |-> v ]
  /\ kbuf = [ queue |-> [i \in 0 .. QUEUE_SIZE - 1 |-> NoChar], head_idx |-> 0, num_pending |-> 0,
              buffer |-> <<>> ]
  /\ age = 0 /\ resetting = FALSE
  /\ kernal = [at |-> "ramtas", line |-> <<>>]
  /\ past = [kind |-> "none", noted |-> FALSE, tde |-> TRUE, warp |-> FALSE, fed |-> <<>>, lines |-> <<>>,
             disturbed |-> FALSE, starts |-> 0]

Counted(s) == [s EXCEPT !.past.starts = @ + 1]

\* True drive emulation and no warp, or the other way round, as the program to start wants it.
Compat(s, c) == [s EXCEPT !.res.AutostartWarp = ~c, !.res.DriveTrueEmulation = c, !.past.tde = c]

\* A reset, a program that starts or one that does not (arch/ps3/emu-ps3.cpp).
Starts(s) ==
  {AskReset(s)}
  \cup {reboot_for_autostart(Compat(s, c), k, r) : c \in BOOLEAN, k \in Kinds, r \in {"RUN", "LOAD"}}
  \cup {[Compat(s, c) EXCEPT !.auto.mode = "ERROR"] : c \in BOOLEAN}

\* One of the things a user does with the pads: start something, hold the warp buttons or let
\* them go.
Pads(s) ==
  {s, [s EXCEPT !.res.held = ~@, !.res.WarpMode = ~s.res.held, !.past.warp = ~s.res.held]}
  \cup (IF s.past.starts = MaxStarts THEN {} ELSE Starts(Counted(s)))

Flushed(s) ==
  LET k == kbdbuf_flush(s.kbuf, Initialised)
  IN  [s EXCEPT !.kbuf = k]

\* The end of a frame (vsync.c): the queue, the pads, autostart, in this order.
vsync_do_vsync ==
  /\ ~resetting
  /\ \E polled \in IF autostart_in_progress THEN {Flushed(AutoState)} ELSE Pads(Flushed(AutoState)) :
       \E s \in autostart_advance(polled) :
         /\ auto' = s.auto /\ res' = s.res /\ kbuf' = s.kbuf /\ resetting' = s.resetting
         /\ past' = s.past
  /\ UNCHANGED <<age, kernal>>

\* machine_reset: the Kernal starts again; its buffer is cleared, the queue is not.
machine_reset ==
  /\ resetting
  /\ LET s == AutoState
         t == IF ~s.auto.ignore_reset /\ s.auto.mode \notin {"NONE", "ERROR"}
              THEN [(IF s.auto.mode # "DONE" THEN disk_eof_callback(s) ELSE s) EXCEPT !.auto.mode = "NONE"]
              ELSE s
     IN  auto' = [t.auto EXCEPT !.ignore_reset = FALSE] /\ res' = t.res
  /\ kbuf' = [kbuf EXCEPT !.buffer = <<>>]
  /\ age' = 0 /\ resetting' = FALSE
  /\ kernal' = [at |-> "ramtas", line |-> <<>>]
  /\ past' = [past EXCEPT !.lines = <<>>, !.fed = Without(@, Len(kbuf.buffer))]

\* The clock grows; when the guard sets it back it is past kernal_init_cycles still.
TimePasses ==
  /\ ~resetting
  /\ \/ age = 0 /\ kernal.at # "ramtas" /\ age' = 1
     \/ age = 1 /\ age' = 2
     \/ age = 2 /\ age' = 1
  /\ UNCHANGED <<auto, res, kbuf, resetting, kernal, past>>

\* External: the Kernal clears its memory and gets to the prompt, or a cartridge starts.
KernalBoots ==
  /\ ~resetting
  /\ \/ /\ kernal.at = "ramtas" /\ kernal' = [kernal EXCEPT !.at = "boot"]
        /\ kbuf' = [kbuf EXCEPT !.buffer = <<>>]
        /\ past' = [past EXCEPT !.fed = Without(@, Len(kbuf.buffer))]
     \/ /\ kernal.at = "boot" /\ \E at \in {"ready", "program"} : kernal' = [kernal EXCEPT !.at = at]
        /\ UNCHANGED <<kbuf, past>>
  /\ UNCHANGED <<auto, res, age, resetting>>

\* External: at the prompt it takes a character; the last one of a command ends the line.
\* LOAD prints what it does; from a disk, with traps, it calls serial_trap_attention first.
KernalReads ==
  /\ ~resetting /\ kernal.at = "ready" /\ ~kbdbuf_is_empty(kbuf)
  /\ LET line == Append(kernal.line, Head(kbuf.buffer))
         read == [AutoState EXCEPT !.kbuf.buffer = Tail(@), !.past.fed = Without(@, 1)]
         executed == [read EXCEPT !.past.lines = Append(@, line)]
         disk == past.kind = "disk" /\ ~res.DriveTrueEmulation /\ res.VirtualDevices
         ends == line[Len(line)] \in {Load[Len(Load)], Run[Len(Run)]}
         s == IF line = Load /\ disk /\ auto.attention THEN disk_attention_callback(executed)
              ELSE IF ends THEN executed ELSE read
     IN  /\ auto' = s.auto /\ res' = s.res /\ kbuf' = s.kbuf
         /\ past' = s.past
         /\ kernal' = CASE line = Load /\ past.kind = "tap" -> [at |-> "press play", line |-> <<>>]
                        [] line = Load /\ past.kind # "tap" -> [at |-> "searching", line |-> <<>>]
                        [] line = Run -> [at |-> "program", line |-> <<>>]
                        [] ~ends -> [kernal EXCEPT !.line = line]
                        [] OTHER -> [kernal EXCEPT !.line = <<>>]
  /\ UNCHANGED <<age, resetting>>

DriveAnswers == past.kind # "disk" \/ res.DriveTrueEmulation \/ res.VirtualDevices

\* External: LOAD goes on, fails, is through or has started the program itself.
KernalLoads ==
  /\ ~resetting
  /\ \/ kernal.at = "press play" /\ auto.play /\ kernal' = [kernal EXCEPT !.at = "searching"] /\ UNCHANGED <<auto, res>>
     \/ /\ kernal.at = "searching"
        /\ \E at \in IF DriveAnswers THEN {"loading", "ready"} ELSE {"ready"} : kernal' = [kernal EXCEPT !.at = at]
        /\ UNCHANGED <<auto, res>>
     \/ /\ kernal.at = "loading" /\ \E at \in {"ready", "program"} : kernal' = [kernal EXCEPT !.at = at]
        /\ LET s == IF past.kind = "disk" /\ ~res.DriveTrueEmulation /\ auto.eof
                    THEN disk_eof_callback(AutoState) ELSE AutoState
           IN  /\ auto' = s.auto /\ res' = s.res
  /\ UNCHANGED <<kbuf, age, resetting, past>>

\* A program jams the CPU: the machine is reset (ui_jam_dialog); or it ends.
ProgramEnds ==
  /\ ~resetting /\ kernal.at = "program"
  /\ \/ kernal' = [kernal EXCEPT !.at = "ready"] /\ UNCHANGED <<resetting, past>>
     \/ LET s == AskReset(AutoState)
        IN  /\ past.starts < MaxStarts /\ past' = [s.past EXCEPT !.starts = @ + 1]
            /\ resetting' = s.resetting /\ UNCHANGED kernal
  /\ UNCHANGED <<auto, res, kbuf, age>>

AutoNext ==
  \/ vsync_do_vsync \/ machine_reset \/ TimePasses
  \/ KernalBoots \/ KernalReads \/ KernalLoads \/ ProgramEnds

AutoSpec == AutoInit /\ [][AutoNext]_autoVars

-----------------------------------------------------------------------------
(* Properties *)

AutoTypeOK ==
  /\ auto.mode \in Ended \cup {"HASTAPE", "PRESSPLAYONTAPE", "LOADINGTAPE", "HASDISK", "LOADINGDISK",
                  "HASSNAPSHOT", "WAITLOADREADY", "WAITLOADING", "WAITSEARCHINGFOR", "INJECT"}
  /\ auto.orig_tde \in SUBSET BOOLEAN
  /\ IsQueue(kbuf, Chars)

\* What was fed and not read by the Kernal is there, in order, however the ring wraps and
\* the chunks fall.
NoCharLost == kbuf.buffer \o Pending(kbuf) = past.fed

\* Nothing is typed before the Kernal has cleared the memory its buffer lies in.
NothingTypedTooEarly == kernal.at = "ramtas" => kbuf.buffer = <<>>

\* BASIC is given LOAD and then perhaps RUN, each whole and once, if the queue held nothing
\* else when the machine was reset.
CommandsWhole ==
  ~past.disturbed => past.lines \in {<<>>, <<Load>>, <<Run>>, <<Load, Run>>}

\* When autostart is over, warp mode is as it was before, or as the user has set it since (a
\* snapshot's does without warp).
WarpGivenBack == auto.mode \in Ended /\ past.kind # "snapshot" => res.WarpMode = past.warp

\* And true drive emulation is as the user has it, after a disk that LOAD was typed for, and
\* with virtual devices.
TdeGivenBack ==
  auto.mode \in Ended /\ past.noted /\ res.VirtualDevices => res.DriveTrueEmulation = past.tde

\* The machine calls autostart back only while autostart waits for the call.
CallbacksAwaited == auto.attention \/ auto.eof => auto.mode = "LOADINGDISK"

\* What is fed to the Kernal's buffer arrives: nothing lost, nothing too early, each command
\* whole and once.
TypedWhole == NoCharLost /\ NothingTypedTooEarly /\ CommandsWhole

\* Autostart leaves nothing behind: the two settings are the user's again, and no callback
\* waits for an autostart that is over.  All if nothing but its own commands was typed: a
\* program that other text starts can reset the machine while a callback is waited for, and
\* the callback then finds the next LOAD.
SettingsGivenBack ==
  ~past.disturbed => WarpGivenBack /\ TdeGivenBack /\ CallbacksAwaited
=============================================================================
