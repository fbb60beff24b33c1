------------------------------ MODULE MC_Input ------------------------------
(***************************************************************************)
(* The four parts that carry input into the machine: the keyboard and the  *)
(* pads, autostart with the key buffer, recordings, a network game.  They  *)
(* share no state and are checked side by side: the first choice is which  *)
(* of them runs, the others stay as they start.                            *)
(***************************************************************************)
EXTENDS Keyboard, Autostart, EventHistory, Netplay

CONSTANT Parts
VARIABLE part

\* A keyboard map with a letter that ignores the shift keys, a key that is shifted, a
\* shift key and RESTORE; a pad whose button is the letter or nothing.
Keymap == [s \in {"b", "ls", "@", "restore"} |->
  CASE s = "b" -> << [pos |-> "B", shift |-> {"ALLOW_OTHER", "ALLOW_SHIFT"}],
                     [pos |-> "C", shift |-> {"DESHIFT_SHIFT"}] >>
    [] s = "ls" -> << [pos |-> "L", shift |-> {"LEFT_SHIFT"}] >>
    [] s = "@" -> << [pos |-> "T", shift |-> {"VIRTUAL_SHIFT"}] >>
    [] OTHER -> << >>]
Joys == {("x" :> "b"), ("x" :> "none")}
Report(m, c) == [mkey |-> m, codes |-> c]
UsbReports ==
  {Report({}, <<"none">>), Report({"ls"}, <<"b">>), Report({}, <<"restore", "b", "@">>)}
UsbMods == <<"ls">>
PadButtons == <<"x">>
Words == {<<"b", "@">>}

\* Two characters are what the Kernal's buffer holds here, so a command takes more than one feed.
LoadText == <<"LO", "A", "D">>
RunText == <<"RU", "N">>

\* Both hosts share the keyboard; the joystick is nobody's.
Shared == [h \in {"S", "C"} |-> {"key"}]

PartInit ==
  /\ part \in Parts
  /\ KeyInit /\ AutoInit /\ EvInit /\ NetInit
  /\ part # "keyboard" => pad.joymap = ("x" :> "b")
  /\ part # "autostart" => res.HandleTde /\ res.VirtualDevices
  /\ part # "events" => saved.mode = "RESET"

PartNext ==
  \/ part = "keyboard" /\ KeyNext /\ UNCHANGED <<autoVars, evVars, netVars, part>>
  \/ part = "autostart" /\ AutoNext /\ UNCHANGED <<keyVars, evVars, netVars, part>>
  \/ part = "events" /\ EvNext /\ UNCHANGED <<keyVars, autoVars, netVars, part>>
  \/ part = "network" /\ NetNext /\ UNCHANGED <<keyVars, autoVars, evVars, part>>

PartSpec == PartInit /\ [][PartNext]_<<keyVars, autoVars, evVars, netVars, part>>

\* The types of all four parts.
InputTypeOK == KeyTypeOK /\ AutoTypeOK /\ EvTypeOK /\ NetTypeOK
=============================================================================
