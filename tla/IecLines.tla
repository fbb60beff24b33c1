------------------------------ MODULE IecLines ------------------------------
(***************************************************************************)
(* iecbus.h and c64/c64iec.c: the lines of the serial bus.  Every device   *)
(* and the computer either pull a line low or leave it; a line is high     *)
(* when nobody pulls it.  TRUE stands for high.                            *)
(***************************************************************************)
EXTENDS Integers, Sequences, SequencesExt

CONSTANT Units  \* the units that may hold a line, in the order of their numbers

ASSUME UnitsAssumption == IsInjective(Units)

Released == [clk |-> TRUE, data |-> TRUE]

\* The wired-and of everybody's lines; ATN is the computer's alone.
iec_update_ports(bus) ==
  LET clk == bus.cpu_bus.clk /\ \A u \in ToSet(Units) : bus.drv_bus[u].clk
      data == bus.cpu_bus.data /\ \A u \in ToSet(Units) : bus.drv_bus[u].data
  IN  [bus EXCEPT !.cpu_port = [clk |-> clk, data |-> data],
                  !.drv_port = [atn |-> bus.cpu_bus.atn, clk |-> clk, data |-> data]]

iecbus_init ==
  [ cpu_bus |-> [atn |-> TRUE, clk |-> TRUE, data |-> TRUE],
    drv_bus |-> [u \in ToSet(Units) |-> Released],
    cpu_port |-> Released,
    drv_port |-> [atn |-> TRUE, clk |-> TRUE, data |-> TRUE],
    iec_fast_1541 |-> [atn |-> TRUE, clk |-> TRUE, data |-> TRUE] ]

\* Mutant: a device's change is seen when the computer writes next.
iecbus_device_write_Unseen(bus, u, lines) == [bus EXCEPT !.drv_bus[u] = lines]

iecbus_device_write(bus, u, lines) == iec_update_ports([bus EXCEPT !.drv_bus[u] = lines])
iec_update_cpu_bus(bus, lines) == [bus EXCEPT !.cpu_bus = lines]

PortsAreWired(bus) == iec_update_ports(bus) = bus
=============================================================================
