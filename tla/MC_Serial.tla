----------------------------- MODULE MC_Serial ------------------------------
(***************************************************************************)
(* The serial bus in small: what MC_Devices gives to SerialTransfer.       *)
(***************************************************************************)
EXTENDS SerialTransfer, TLC

\* Two devices, one file <<9, 3>> named <<5>>, and names <<6>> to write and <<7>> that do not exist.
SerialUnits == <<8, 9>>
SerialKind(kind, arg) == [kind |-> kind, arg |-> arg]
SerialCommands ==
  << SerialKind("LISTEN", 8), SerialKind("TALK", 8), SerialKind("UNLISTEN", 0), SerialKind("UNTALK", 0),
     SerialKind("SECOND", 0), SerialKind("OPEN", 0), SerialKind("CLOSE", 0), SerialKind("LISTEN", 9),
     SerialKind("TALK", 9) >>
SerialFiles == <<5>> :> <<9, 3>>
SerialNames == {<<6>>}
SerialOp(op, unit, data) == [op |-> op, unit |-> unit, channel |-> 0, data |-> data]
SerialPrograms ==
  { << SerialOp("OPEN", 8, <<5>>), SerialOp("GET", 8, 1), SerialOp("GET", 8, 2), SerialOp("CLOSE", 8, <<>>) >>,
    << SerialOp("OPEN", 8, <<6>>), SerialOp("PRINT", 8, <<10, 3>>), SerialOp("CLOSE", 8, <<>>) >>,
    << SerialOp("OPEN", 8, <<7>>), SerialOp("PRINT", 8, <<1>>), SerialOp("OPEN", 8, <<5>>),
       SerialOp("GET", 8, 1), SerialOp("PRINT", 8, <<1>>) >>,
    << SerialOp("OPEN", 9, <<5>>) >> }
=============================================================================
