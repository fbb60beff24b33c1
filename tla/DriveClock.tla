----------------------------- MODULE DriveClock -----------------------------
(***************************************************************************)
(* How the disk drives' CPUs follow the main CPU (src/src/drive/drivecpu.c)*)
(*                                                                         *)
(* A drive has a CPU and a clock of its own.  It is run in bursts: when    *)
(* the main CPU touches the bus, and at the end of every frame, each drive *)
(* executes what it has missed.  `last_clk' is how far in main CPU time it *)
(* has been run, `stop_clk' the drive clock that corresponds to it.  Both  *)
(* clocks are 32 bits wide and both are set back before they overflow, by  *)
(* different guards at different times.                                    *)
(*                                                                         *)
(* Two history variables, part of each drive's record, keep the truth:     *)
(*   lag   main CPU cycles that passed and were not yet given to the drive *)
(*   due   drive cycles given to it minus drive cycles it executed,        *)
(*         capped at +-DueBound                                            *)
(***************************************************************************)
EXTENDS ClkGuard, FiniteSets

CONSTANTS
  DRIVE_NUM,
  CLOCK_MAX,
  SyncNum, SyncDen,    \* drive cycles per main cycle: sync_factor / 65536
  FrameCycles,         \* main CPU cycles of a frame
  MaxCycles,           \* cycles of a drive's longest instruction
  SkipLag, SkipClk,    \* 0xffffff and 934639 of drivecpu_wake_up
  Skippers,            \* drives whose idling method is DRIVE_IDLE_SKIP_CYCLES
  Events,              \* what the user does: "toggle", "reset", "monitor"
  DueBound             \* bound of the history variable due

ASSUME DriveAssumption ==
  /\ {DRIVE_NUM, SyncNum, SyncDen, FrameCycles, MaxCycles} \subseteq Nat \ {0}
  /\ {SkipLag, SkipClk, DueBound} \subseteq Nat
  /\ CLOCK_MAX \in Nat /\ CLOCK_MAX % 2 = 1
  /\ ClkMaxValue = CLOCK_MAX - CLKGUARD_SUB_MIN /\ 6 <= CLOCK_MAX \div 2
  /\ FrameCycles <= CLKGUARD_SUB_MIN /\ 2 * CLKGUARD_SUB_MIN + MaxCycles <= CLOCK_MAX \div 2
  /\ Events \subseteq {"toggle", "reset", "monitor"}

\* What a frame gives to a drive is far from the 2^31 that can be told from a debt.
MaxGrant == (SyncDen - 1 + SyncNum * FrameCycles) \div SyncDen
ASSUME GrantAssumption == MaxGrant <= CLOCK_MAX \div 2 + 1 /\ MaxGrant <= DueBound

Drives == 0 .. DRIVE_NUM - 1
Clock == 0 .. CLOCK_MAX
Wrap(n) == n % (CLOCK_MAX + 1)
Signed(n) == IF Wrap(n) > CLOCK_MAX \div 2 THEN Wrap(n) - CLOCK_MAX - 1 ELSE Wrap(n)
Capped(n) == IF n > DueBound THEN DueBound ELSE IF n < -DueBound THEN -DueBound ELSE n

\* The guard of a drive has no clk_base.
DriveGuard == INSTANCE ClkGuard WITH ClkBase <- 0

ASSUME SkippersAssumption == Skippers \subseteq Drives

VARIABLES
  maincpu_clk,
  frame,         \* cycles since the last end of frame
  drv,           \* the drives: a record each
  guard          \* drivecpu_prevent_clk_overflow_all: the next drive, and the amount
                 \* the main CPU's clock was set back by

vars == <<maincpu_clk, frame, drv, guard>>

-----------------------------------------------------------------------------
\* last_clk, last_exc_cycles (unused) and stop_clk; not the clock itself.
drivecpu_reset_clk(d, now) == [d EXCEPT !.last_clk = now, !.stop_clk = 0, !.lag = 0, !.due = 0]

drivecpu_reset(d, now) ==
  [drivecpu_reset_clk(d, now) EXCEPT !.clk = 0, !.reset = TRUE]

\* Mutant: what was missed is forgotten every time.
drivecpu_wake_up_Always(d, now) == [d EXCEPT !.last_clk = now, !.lag = 0]

\* A drive left alone for long is not made to execute all it has missed.
drivecpu_wake_up(d, now) ==
  IF Wrap(now - d.last_clk) > SkipLag /\ d.clk > SkipClk
  THEN [d EXCEPT !.last_clk = now, !.lag = 0]
  ELSE d

\* Main CPU cycles become drive cycles; the remainder is kept for next time.
\* (The code does it in pieces of 10000 cycles so that the product fits.)
ClocksToEmulate(d, clk_value) == IF clk_value > d.last_clk THEN clk_value - d.last_clk ELSE 0
\* Mutant: the accumulator keeps the whole cycles it has given.
Grant_Unmasked(d, clk_value) ==
  LET sum == d.cycle_accum + SyncNum * ClocksToEmulate(d, clk_value)
  IN  [d EXCEPT !.cycle_accum = sum, !.stop_clk = Wrap(d.stop_clk + sum \div SyncDen), !.lag = 0]

Grant(d, clk_value) ==
  LET sum == d.cycle_accum + SyncNum * ClocksToEmulate(d, clk_value)
      owed == (d.cycle_accum + SyncNum * d.lag) \div SyncDen
  IN  [d EXCEPT !.cycle_accum = sum % SyncDen,
                !.stop_clk = Wrap(d.stop_clk + sum \div SyncDen),
                !.lag = 0,
                !.due = Capped(d.due + owed)]

\* The CPU loop: it runs while the clock is before stop_clk, in the signed sense
\* of 32 bit subtraction, and ends `over' cycles past it, in the middle of an
\* instruction.  A pending reset is taken first and sets the clock to 6.
Behind(d) == Signed(d.clk - d.stop_clk) < 0
TakeReset(d) ==
  IF d.reset /\ Behind(d) THEN [d EXCEPT !.clk = 6, !.reset = FALSE, !.due = Capped(@ - 6)] ELSE d
RunCpu(d, over) ==
  LET r == TakeReset(d)
  IN  IF Behind(r)
      THEN [r EXCEPT !.clk = Wrap(r.stop_clk + over),
                     !.due = Capped(r.due - Wrap(r.stop_clk + over - r.clk))]
      ELSE r

\* Mutant: how far the drive was run is not noted.
drivecpu_execute_NotNoted(d, now, clk_value, over) ==
  RunCpu(Grant(drivecpu_wake_up(d, now), clk_value), over)

drivecpu_execute(d, now, clk_value, over) ==
  [RunCpu(Grant(drivecpu_wake_up(d, now), clk_value), over) EXCEPT !.last_clk = clk_value]

drivecpu_execute_all(ds, now, clk_value, over) ==
  [n \in Drives |-> IF ds[n].enable THEN drivecpu_execute(ds[n], now, clk_value, over[n]) ELSE ds[n]]

\* First the main CPU's subtraction: `now' is already decremented.
FollowSubtraction(ds, n, now, sub, over) ==
  LET caught_up == IF ds[n].last_clk < sub
                   THEN drivecpu_execute_all(ds, now, now + sub, over) ELSE ds
  IN  IF sub = 0 THEN ds
      ELSE IF ds[n].enable
           THEN [caught_up EXCEPT ![n].last_clk = Wrap(caught_up[n].last_clk - sub)]
           ELSE [ds EXCEPT ![n].last_clk = now]

\* Then the drive's own: its clock goes back, the callbacks see to its alarms.
OwnSubtraction(d) ==
  IF NeedsSubtraction(d.clk) THEN [d EXCEPT !.clk = d.clk - DriveGuard!clk_guard_clock_sub]
  ELSE d

drivecpu_prevent_clk_overflow(ds, n, now, sub, over) ==
  LET followed == FollowSubtraction(ds, n, now, sub, over)
  IN  [followed EXCEPT ![n] = OwnSubtraction(followed[n])]

\* Only the drives that do not skip cycles are kept up to date by frames.
drive_vsync_hook(ds, now, over) ==
  [n \in Drives |-> IF n \notin Skippers /\ ds[n].enable
                    THEN drivecpu_execute(ds[n], now, now, over[n]) ELSE ds[n]]

-----------------------------------------------------------------------------
Idle == [next |-> DRIVE_NUM, sub |-> 0]

Init ==
  /\ maincpu_clk = 6 /\ frame = 0 /\ guard = Idle
  /\ drv = [n \in Drives |->
              [ enable |-> TRUE, last_clk |-> 6, stop_clk |-> 0, cycle_accum |-> 0,
                clk |-> 0, reset |-> TRUE, lag |-> 0, due |-> 0 ]]

Overshoot == [Drives -> 0 .. MaxCycles - 1]

\* The main CPU runs; lag is the truth the drives have to catch up with.
MainRuns(n) ==
  /\ guard = Idle /\ frame + n <= FrameCycles
  /\ maincpu_clk' = maincpu_clk + n /\ frame' = frame + n
  /\ drv' = [d \in Drives |-> [drv[d] EXCEPT !.lag = IF drv[d].enable THEN @ + n ELSE 0]]
  /\ UNCHANGED guard

\* The main CPU touches the bus the drives are on (iecbus.c, parallel.c).
BusAccess ==
  /\ guard = Idle
  /\ \E over \in Overshoot : drv' = drivecpu_execute_all(drv, maincpu_clk, maincpu_clk, over)
  /\ UNCHANGED <<maincpu_clk, frame, guard>>

\* End of frame: the drives catch up, the main CPU's guard sets its clock back, and
\* one by one the drives follow.
machine_vsync_hook ==
  /\ guard = Idle /\ frame = FrameCycles /\ frame' = 0
  /\ \E over \in Overshoot : drv' = drive_vsync_hook(drv, maincpu_clk, over)
  /\ LET sub == IF NeedsSubtraction(maincpu_clk) THEN clk_guard_clock_sub ELSE 0
     IN  maincpu_clk' = maincpu_clk - sub /\ guard' = [next |-> 0, sub |-> sub]

drivecpu_prevent_clk_overflow_all ==
  /\ guard.next < DRIVE_NUM
  /\ \E over \in Overshoot :
       drv' = drivecpu_prevent_clk_overflow(drv, guard.next, maincpu_clk, guard.sub, over)
  /\ guard' = IF guard.next + 1 = DRIVE_NUM THEN Idle ELSE [guard EXCEPT !.next = @ + 1]
  /\ UNCHANGED <<maincpu_clk, frame>>

\* Machine reset: the main clock starts again, so do the drives.
machine_reset ==
  /\ "reset" \in Events /\ guard = Idle
  /\ maincpu_clk' = 6
  /\ drv' = [n \in Drives |-> drivecpu_reset(drv[n], 6)]
  /\ UNCHANGED <<frame, guard>>

\* The monitor's "reset 8": only the drive's CPU is reset.
drivecpu_trigger_reset(n) ==
  /\ "monitor" \in Events /\ guard = Idle /\ drv' = [drv EXCEPT ![n].reset = TRUE]
  /\ UNCHANGED <<maincpu_clk, frame, guard>>

\* Mutant: a drive that is switched on goes on from where it was switched off.
set_drive_true_emulation_NoReset(val) ==
  /\ "toggle" \in Events /\ guard = Idle
  /\ drv' = [n \in Drives |-> [drv[n] EXCEPT !.enable = val, !.lag = 0]]
  /\ UNCHANGED <<maincpu_clk, frame, guard>>

\* True drive emulation switched on or off.
SwitchedOn(d, now) == drivecpu_wake_up(drivecpu_reset_clk([d EXCEPT !.enable = TRUE], now), now)
SwitchedOff(d) == [d EXCEPT !.enable = FALSE, !.lag = 0]
set_drive_true_emulation(val) ==
  /\ "toggle" \in Events /\ guard = Idle
  /\ drv' = [n \in Drives |-> IF val THEN SwitchedOn(drv[n], maincpu_clk) ELSE SwitchedOff(drv[n])]
  /\ UNCHANGED <<maincpu_clk, frame, guard>>

Advance == \/ \E n \in 1 .. FrameCycles : MainRuns(n)
           \/ machine_vsync_hook
           \/ drivecpu_prevent_clk_overflow_all

Next ==
  \/ Advance
  \/ BusAccess
  \/ machine_reset
  \/ \E n \in Drives : drivecpu_trigger_reset(n)
  \/ \E val \in BOOLEAN : set_drive_true_emulation(val)

\* The main CPU never stops and frames end.
Spec == Init /\ [][Next]_vars /\ WF_vars(Advance)

-----------------------------------------------------------------------------
\* Properties

\* Every clock stays in its range.
Drive ==
  [ enable : BOOLEAN, last_clk : Clock, stop_clk : Clock, cycle_accum : 0 .. SyncDen - 1,
    clk : Clock, reset : BOOLEAN, lag : Nat, due : -DueBound .. DueBound ]
TypeOK ==
  /\ maincpu_clk \in Clock /\ frame \in 0 .. FrameCycles /\ drv \in [Drives -> Drive]
  /\ guard \in [next : 0 .. DRIVE_NUM, sub : Clock]

\* No main CPU cycle is lost or given to a drive twice: what lies between the
\* two clocks is what has passed, whichever of them was set back in between.
LastClkMirrorsMain ==
  guard = Idle => \A n \in Drives : drv[n].enable => maincpu_clk - drv[n].last_clk = drv[n].lag

\* A drive never executes cycles that the main CPU has not lived through, but for
\* the rest of its last instruction and a reset's first six.
NeverAhead == \A n \in Drives : drv[n].due >= -(MaxCycles + 6)

\* Between them: every cycle of the main CPU is counted once, and none before it was lived.
CyclesAccounted == LastClkMirrorsMain /\ NeverAhead

\* A drive that was run at the end of a frame has executed all it was given:
\* "Execute up to the current main CPU clock value".
CaughtUp == \A n \in Drives : drv[n].due <= 0

\* A drive does not stand still for ever, also when its clock is set back: again and
\* again it is given cycles, and again and again it gets to the end of them.
AtStopClk(d) == Signed(d.clk - d.stop_clk) \in 0 .. MaxCycles + 6
DriveKeepsRunning ==
  \A n \in Drives \ Skippers :
    /\ []<>(drv[n].enable => AtStopClk(drv[n]))
    /\ []<><<drv[n].enable => drv'[n].stop_clk # drv[n].stop_clk>>_drv
=============================================================================
