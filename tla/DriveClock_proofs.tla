-------------------------- MODULE DriveClock_proofs --------------------------
(***************************************************************************)
(* The clocks of the drives: types for all constants, the mirror of the    *)
(* main CPU's clock when all drives idle in the same way, and that a drive *)
(* kept up to date by every frame never executes a cycle too many.         *)
(***************************************************************************)
EXTENDS DriveClock, TLAPS

\* The numbers of the clocks and of the guards.
LEMMA Constants ==
  /\ DRIVE_NUM \in Nat \ {0} /\ SyncNum \in Nat \ {0} /\ SyncDen \in Nat \ {0}
  /\ FrameCycles \in Nat \ {0} /\ MaxCycles \in Nat \ {0} /\ DueBound \in Nat
  /\ CLOCK_MAX \in Nat /\ ClkMaxValue \in Nat /\ CLKGUARD_SUB_MIN \in Nat \ {0}
  /\ ClkMaxValue + CLKGUARD_SUB_MIN = CLOCK_MAX /\ ClkMaxValue >= 3 * CLKGUARD_SUB_MIN
  /\ FrameCycles <= CLKGUARD_SUB_MIN /\ 6 < ClkMaxValue
BY DriveAssumption, GuardAssumption

\* Half of the clock's range: what a signed difference reaches.
Half == CLOCK_MAX \div 2 + 1

\* What one catch-up grants and what one subtraction takes are well below half the range.
LEMMA HalfFacts ==
  /\ Half \in Nat /\ CLOCK_MAX + 1 = Half + Half /\ 7 <= Half
  /\ 2 * CLKGUARD_SUB_MIN + MaxCycles < Half /\ MaxGrant \in Nat /\ MaxGrant <= Half
  /\ MaxGrant <= DueBound
<1>1. /\ CLOCK_MAX \in Nat /\ (CLOCK_MAX % 2) = 1 /\ 6 <= CLOCK_MAX \div 2
      /\ 2 * CLKGUARD_SUB_MIN + MaxCycles <= CLOCK_MAX \div 2
      /\ CLKGUARD_SUB_MIN \in Nat /\ MaxCycles \in Nat
  BY DriveAssumption, GuardAssumption
<1>2. MaxGrant \in Nat
  <2>1. SyncNum * FrameCycles \in Nat /\ SyncDen \in Nat \ {0}
    BY Constants
  <2> DEFINE p == SyncNum * FrameCycles
  <2> HIDE DEF p
  <2>2. (SyncDen - 1 + p) \div SyncDen \in Nat
    BY <2>1 DEF p
  <2> QED
    BY <2>2 DEF MaxGrant, p
<1> QED
  BY <1>1, <1>2, GrantAssumption DEF Half

\* What the two guards take away.
LEMMA SubBounds ==
  /\ clk_guard_clock_sub \in Nat
  /\ clk_guard_clock_sub <= ClkMaxValue - CLKGUARD_SUB_MIN
  /\ clk_guard_clock_sub >= ClkMaxValue - 2 * CLKGUARD_SUB_MIN
  /\ DriveGuard!clk_guard_clock_sub = ClkMaxValue - CLKGUARD_SUB_MIN
<1> DEFINE s == ClkMaxValue - CLKGUARD_SUB_MIN
<1>1. s \in Nat /\ CLKGUARD_SUB_MIN \in Nat /\ ClkMaxValue \in Nat
  BY Constants
<1>2. CASE ClkBase = 0
  BY <1>1, <1>2 DEF clk_guard_clock_sub, DriveGuard!clk_guard_clock_sub
<1>3. CASE ClkBase # 0
  <2>1. ClkBase \in Nat \ {0} /\ ClkBase <= CLKGUARD_SUB_MIN
    BY <1>1, <1>3, GuardAssumption
  <2>2. clk_guard_clock_sub = (s \div ClkBase) * ClkBase
    BY <1>3 DEF clk_guard_clock_sub
  <2>3. /\ s = (s \div ClkBase) * ClkBase + (s % ClkBase)
        /\ s % ClkBase \in Nat /\ s % ClkBase < ClkBase /\ s \div ClkBase \in Nat
    BY <1>1, <2>1
  <2>4. (s \div ClkBase) * ClkBase \in Nat
    BY <2>1, <2>3
  <2>5. DriveGuard!clk_guard_clock_sub = s
    BY DEF DriveGuard!clk_guard_clock_sub
  <2> QED
    BY <1>1, <2>1, <2>2, <2>3, <2>4, <2>5
<1> QED
  BY <1>2, <1>3

\* 32 bit values are in range, and are themselves if they were before.
LEMMA WrapFacts ==
  /\ \A n \in Int : Wrap(n) \in Clock
  /\ \A n \in Clock : Wrap(n) = n
  /\ \A n \in Int : n >= CLOCK_MAX + 1 /\ n < 2 * (CLOCK_MAX + 1) => Wrap(n) = n - (CLOCK_MAX + 1)
  /\ \A n \in Int : n < 0 /\ n >= -(CLOCK_MAX + 1) => Wrap(n) = n + (CLOCK_MAX + 1)
<1> DEFINE m == CLOCK_MAX + 1
<1>1. m \in Nat \ {0}
  BY Constants
<1> HIDE DEF m
<1>2. \A n \in Int : n % m \in Int /\ 0 <= n % m /\ n % m < m /\ n = m * (n \div m) + (n % m)
                     /\ n \div m \in Int
  BY <1>1
<1>3. \A n \in Int : 0 <= n /\ n < m => n % m = n
  BY <1>1
<1>4. \A n \in Int : n >= m /\ n < 2 * m => n % m = n - m
  <2> SUFFICES ASSUME NEW n \in Int, n >= m, n < 2 * m PROVE n % m = n - m
    OBVIOUS
  <2> DEFINE q == n \div m  r == n % m
  <2>1. q \in Int /\ r \in Int /\ 0 <= r /\ r < m /\ n = m * q + r
    BY <1>2
  <2> HIDE DEF q, r
  <2>2. q = 1
    <3>1. q <= 0 => m * q <= 0
      BY <1>1, <2>1
    <3>2. q >= 2 => m * q >= 2 * m
      BY <1>1, <2>1
    <3> QED
      BY <1>1, <2>1, <3>1, <3>2
  <2>3. r = n - m
    BY <1>1, <2>1, <2>2
  <2> QED
    BY <2>3 DEF r
<1>5. \A n \in Int : n < 0 /\ n >= -m => n % m = n + m
  <2> SUFFICES ASSUME NEW n \in Int, n < 0, n >= -m PROVE n % m = n + m
    OBVIOUS
  <2> DEFINE q == n \div m  r == n % m
  <2>1. q \in Int /\ r \in Int /\ 0 <= r /\ r < m /\ n = m * q + r
    BY <1>2
  <2> HIDE DEF q, r
  <2>2. q = -1
    <3>1. q >= 0 => m * q >= 0
      BY <1>1, <2>1
    <3>2. q <= -2 => m * q <= -2 * m
      BY <1>1, <2>1
    <3> QED
      BY <1>1, <2>1, <3>1, <3>2
  <2>3. r = n + m
    BY <1>1, <2>1, <2>2
  <2> QED
    BY <2>3 DEF r
<1>6. Clock = 0 .. m - 1
  BY Constants DEF m, Clock
<1>7. \A n \in Int : Wrap(n) = n % m
  BY DEF Wrap, m
<1>8. \A n \in Clock : n \in Int /\ 0 <= n /\ n < m
  BY <1>1, <1>6
<1>9. \A n \in Int : n % m \in Clock
  BY <1>1, <1>2, <1>6
<1> QED
  BY <1>1, <1>3, <1>4, <1>5, <1>7, <1>8, <1>9 DEF m

\* The bound keeps what it bounds in its range, and takes nothing from a small debt.
LEMMA CappedFacts ==
  ASSUME NEW n \in Int
  PROVE  /\ Capped(n) \in -DueBound .. DueBound
         /\ Capped(n) >= n \/ Capped(n) = DueBound
BY Constants DEF Capped

-----------------------------------------------------------------------------
(* What the operations do to one drive. *)

\* A drive is given cycles: stop_clk moves on by whole cycles, the rest is kept.
LEMMA GrantFacts ==
  ASSUME NEW d \in Drive, NEW v \in Clock
  PROVE  LET e == Grant(d, v) IN
         /\ e \in Drive /\ e.enable = d.enable /\ e.last_clk = d.last_clk /\ e.lag = 0
         /\ e.clk = d.clk /\ e.reset = d.reset
         /\ e.stop_clk = Wrap(d.stop_clk + ((d.cycle_accum + SyncNum * ClocksToEmulate(d, v)) \div SyncDen))
         /\ e.due = Capped(d.due + ((d.cycle_accum + SyncNum * d.lag) \div SyncDen))
<1>1. /\ d.last_clk \in Clock /\ d.stop_clk \in Clock /\ d.cycle_accum \in Nat
      /\ d.lag \in Nat /\ d.due \in Int
  BY Constants DEF Drive
<1>2. ClocksToEmulate(d, v) \in Nat
  BY <1>1, Constants DEF ClocksToEmulate, Clock
<1> DEFINE sum == d.cycle_accum + SyncNum * ClocksToEmulate(d, v)
           owed == (d.cycle_accum + SyncNum * d.lag) \div SyncDen
           a == sum % SyncDen  t == Wrap(d.stop_clk + (sum \div SyncDen))  u == Capped(d.due + owed)
<1>3. SyncNum * ClocksToEmulate(d, v) \in Nat /\ SyncNum * d.lag \in Nat
  BY <1>1, <1>2, Constants
<1>4. sum \in Nat /\ d.cycle_accum + SyncNum * d.lag \in Nat
  BY <1>1, <1>3
<1>5. sum \div SyncDen \in Nat /\ owed \in Nat /\ a \in 0 .. SyncDen - 1
  BY <1>4, Constants
<1>6. t \in Clock
  BY <1>1, <1>5, WrapFacts DEF Clock
<1>7. u \in -DueBound .. DueBound
  BY <1>1, <1>5, CappedFacts
<1>8. Grant(d, v) = [d EXCEPT !.cycle_accum = a, !.stop_clk = t, !.lag = 0, !.due = u]
  BY DEF Grant
<1>9. a \in 0 .. SyncDen - 1
  BY <1>5
<1> DEFINE e == Grant(d, v)
<1>10. e.stop_clk = t => e.stop_clk = Wrap(d.stop_clk + (sum \div SyncDen))
  OBVIOUS
<1>11. e.due = u => e.due = Capped(d.due + owed)
  OBVIOUS
<1> HIDE DEF a, t, u, e
<1>12. /\ e \in Drive /\ e.enable = d.enable /\ e.last_clk = d.last_clk /\ e.lag = 0
       /\ e.clk = d.clk /\ e.reset = d.reset /\ e.stop_clk = t /\ e.due = u
  <2>1. e = [d EXCEPT !.cycle_accum = a, !.stop_clk = t, !.lag = 0, !.due = u]
    BY <1>8 DEF e
  <2>2. e \in Drive
    BY <1>6, <1>7, <1>9, <2>1 DEF Drive
  <2> QED
    BY <2>1, <2>2 DEF Drive
<1> QED
  BY <1>10, <1>11, <1>12 DEF e

\* Running a drive's CPU changes its clock, its debt and a reset that was pending.
LEMMA RunCpuFacts ==
  ASSUME NEW d \in Drive, NEW over \in 0 .. MaxCycles - 1
  PROVE  LET e == RunCpu(d, over) IN
         /\ e \in Drive /\ e.enable = d.enable /\ e.last_clk = d.last_clk /\ e.lag = d.lag
         /\ e.stop_clk = d.stop_clk
<1> DEFINE r == TakeReset(d)
<1>1. /\ r \in Drive /\ r.enable = d.enable /\ r.last_clk = d.last_clk /\ r.lag = d.lag
      /\ r.stop_clk = d.stop_clk
  <2>1. 6 \in Clock /\ d.due \in Int
    BY Constants DEF Clock, Drive
  <2>2. Capped(d.due - 6) \in -DueBound .. DueBound
    BY <2>1, CappedFacts
  <2> DEFINE u == Capped(d.due - 6)
  <2>3. r = IF d.reset /\ Behind(d) THEN [d EXCEPT !.clk = 6, !.reset = FALSE, !.due = u] ELSE d
    BY DEF TakeReset
  <2> HIDE DEF u, r
  <2> QED
    BY <2>1, <2>2, <2>3 DEF Drive, u
<1> DEFINE c == Wrap(r.stop_clk + over)  w == Capped(r.due - Wrap(r.stop_clk + over - r.clk))
<1>2. RunCpu(d, over) = IF Behind(r) THEN [r EXCEPT !.clk = c, !.due = w] ELSE r
  BY DEF RunCpu
<1> HIDE DEF r
<1>3. over \in Int /\ r.stop_clk \in Int /\ r.clk \in Int /\ r.due \in Int
  BY <1>1, Constants DEF Drive, Clock
<1>4. c \in Clock /\ Wrap(r.stop_clk + over - r.clk) \in Clock
  BY <1>3, WrapFacts
<1>5. Wrap(r.stop_clk + over - r.clk) \in Int
  BY <1>4, Constants DEF Clock
<1>6. w \in -DueBound .. DueBound
  BY <1>3, <1>5, CappedFacts
<1> HIDE DEF c, w
<1> QED
  BY <1>1, <1>2, <1>4, <1>6 DEF Drive

\* A drive that was woken up has lost nothing but what it skips.
LEMMA WakeUpFacts ==
  ASSUME NEW d \in Drive, NEW now \in Clock
  PROVE  LET e == drivecpu_wake_up(d, now) IN
         /\ e \in Drive /\ e.enable = d.enable /\ e.stop_clk = d.stop_clk
         /\ e.clk = d.clk /\ e.reset = d.reset /\ e.due = d.due /\ e.cycle_accum = d.cycle_accum
         /\ e = d \/ (e.last_clk = now /\ e.lag = 0)
BY DEF drivecpu_wake_up, Drive

\* A drive that was run is where the main CPU is.
LEMMA ExecuteFacts ==
  ASSUME NEW d \in Drive, NEW now \in Clock, NEW v \in Clock, NEW over \in 0 .. MaxCycles - 1
  PROVE  LET e == drivecpu_execute(d, now, v, over) IN
         e \in Drive /\ e.enable = d.enable /\ e.last_clk = v /\ e.lag = 0
<1> DEFINE w == drivecpu_wake_up(d, now)  g == Grant(w, v)  r == RunCpu(g, over)
<1>1. w \in Drive /\ w.enable = d.enable
  BY WakeUpFacts
<1> HIDE DEF w
<1>2. g \in Drive /\ g.enable = d.enable /\ g.lag = 0
  BY <1>1, GrantFacts
<1> HIDE DEF g
<1>3. r \in Drive /\ r.enable = d.enable /\ r.lag = 0
  BY <1>2, RunCpuFacts
<1>4. drivecpu_execute(d, now, v, over) = [r EXCEPT !.last_clk = v]
  BY DEF drivecpu_execute, w, g
<1> HIDE DEF r
<1> QED
  BY <1>3, <1>4 DEF Drive

\* All drives that are on are run; the others stay as they are.
LEMMA ExecuteAllFacts ==
  ASSUME NEW ds \in [Drives -> Drive], NEW now \in Clock, NEW v \in Clock, NEW over \in Overshoot
  PROVE  LET es == drivecpu_execute_all(ds, now, v, over) IN
         /\ es \in [Drives -> Drive]
         /\ \A n \in Drives : es[n].enable = ds[n].enable
         /\ \A n \in Drives : IF ds[n].enable THEN es[n].last_clk = v /\ es[n].lag = 0
                                              ELSE es[n] = ds[n]
<1>1. \A n \in Drives : over[n] \in 0 .. MaxCycles - 1
  BY DEF Overshoot
<1> DEFINE f(n) == IF ds[n].enable THEN drivecpu_execute(ds[n], now, v, over[n]) ELSE ds[n]
<1>2. \A n \in Drives : /\ f(n) \in Drive /\ f(n).enable = ds[n].enable
                        /\ IF ds[n].enable THEN f(n).last_clk = v /\ f(n).lag = 0 ELSE f(n) = ds[n]
  <2> SUFFICES ASSUME NEW n \in Drives
               PROVE  /\ f(n) \in Drive /\ f(n).enable = ds[n].enable
                      /\ IF ds[n].enable THEN f(n).last_clk = v /\ f(n).lag = 0 ELSE f(n) = ds[n]
    OBVIOUS
  <2> QED
    BY <1>1, ExecuteFacts
<1>3. drivecpu_execute_all(ds, now, v, over) = [n \in Drives |-> f(n)]
  BY DEF drivecpu_execute_all
<1> HIDE DEF f
<1> QED
  BY <1>2, <1>3

\* The drive's own guard changes its clock only.
LEMMA OwnSubtractionFacts ==
  ASSUME NEW d \in Drive
  PROVE  LET e == OwnSubtraction(d) IN
         /\ e \in Drive /\ e.enable = d.enable /\ e.last_clk = d.last_clk /\ e.lag = d.lag
<1> DEFINE c == d.clk - DriveGuard!clk_guard_clock_sub
<1>1. d.clk >= ClkMaxValue => c \in Clock
  BY SubBounds, Constants DEF Drive, Clock
<1>2. OwnSubtraction(d) = IF d.clk >= ClkMaxValue THEN [d EXCEPT !.clk = c] ELSE d
  BY DEF OwnSubtraction, NeedsSubtraction
<1> HIDE DEF c
<1> QED
  BY <1>1, <1>2 DEF Drive

\* A drive follows the main CPU's subtraction: if it is on its distance to the main CPU
\* stays what it was, or is made up; only then the other drives are run as well.
LEMMA FollowFacts ==
  ASSUME NEW ds \in [Drives -> Drive], NEW n \in Drives, NEW now \in Clock, NEW sub \in Clock,
         now + sub \in Clock, sub # 0, NEW over \in Overshoot
  PROVE  LET es == FollowSubtraction(ds, n, now, sub, over) IN
         /\ es \in [Drives -> Drive] /\ \A m \in Drives : es[m].enable = ds[m].enable
         /\ ds[n].enable /\ ds[n].last_clk < sub =>
              /\ es[n].last_clk = now /\ es[n].lag = 0
              /\ \A m \in Drives \ {n} : ds[m].enable => es[m].last_clk = now + sub /\ es[m].lag = 0
         /\ ~(ds[n].enable /\ ds[n].last_clk < sub) =>
              /\ ds[n].enable => es[n] = [ds[n] EXCEPT !.last_clk = ds[n].last_clk - sub]
              /\ es[n].lag = ds[n].lag
              /\ \A m \in Drives \ {n} : es[m] = ds[m]
<1> DEFINE xs == drivecpu_execute_all(ds, now, now + sub, over)
           es == FollowSubtraction(ds, n, now, sub, over)
<1>1. now \in Int /\ sub \in Int /\ ds[n].last_clk \in Int /\ 0 \in Clock
  BY Constants DEF Clock, Drive
<1>2. CASE ds[n].enable /\ ds[n].last_clk < sub
  <2>1. /\ xs \in [Drives -> Drive] /\ \A m \in Drives : xs[m].enable = ds[m].enable
        /\ \A m \in Drives : ds[m].enable => xs[m].last_clk = now + sub /\ xs[m].lag = 0
    BY ExecuteAllFacts
  <2>2. es = [xs EXCEPT ![n].last_clk = Wrap(xs[n].last_clk - sub)]
    BY <1>2 DEF FollowSubtraction
  <2> HIDE DEF xs, es
  <2>3. xs[n].last_clk - sub = now
    BY <1>1, <1>2, <2>1
  <2>4. Wrap(xs[n].last_clk - sub) = now
    BY <2>3, WrapFacts
  <2>5. /\ es[n] = [xs[n] EXCEPT !.last_clk = now] /\ \A m \in Drives \ {n} : es[m] = xs[m]
        /\ es = [xs EXCEPT ![n] = es[n]]
    BY <2>1, <2>2, <2>4
  <2>6. es[n] \in Drive /\ es[n].last_clk = now /\ es[n].lag = xs[n].lag /\ es[n].enable = xs[n].enable
    BY <2>1, <2>5 DEF Drive
  <2>7. es \in [Drives -> Drive]
    BY <2>1, <2>5, <2>6
  <2> QED
    BY <1>2, <2>1, <2>5, <2>6, <2>7, ZenonT(60) DEF es
<1>3. CASE ds[n].enable /\ ~(ds[n].last_clk < sub)
  <2> DEFINE l == ds[n].last_clk - sub
  <2>1. l \in Clock
    BY <1>1, <1>3, Constants DEF Clock, Drive
  <2>2. es = [ds EXCEPT ![n].last_clk = l]
    BY <1>3, <2>1, WrapFacts DEF FollowSubtraction
  <2> HIDE DEF es
  <2>3. /\ es[n] = [ds[n] EXCEPT !.last_clk = l] /\ \A m \in Drives \ {n} : es[m] = ds[m]
        /\ es = [ds EXCEPT ![n] = es[n]]
    BY <2>2
  <2>4. es[n] \in Drive /\ es[n].lag = ds[n].lag /\ es[n].enable = ds[n].enable
    BY <2>1, <2>3 DEF Drive
  <2> QED
    BY <1>3, <2>3, <2>4 DEF es
<1>4. CASE ~ds[n].enable
  <2>1. es = [ds EXCEPT ![n].last_clk = now]
    BY <1>4 DEF FollowSubtraction
  <2> HIDE DEF es
  <2>2. /\ es[n] = [ds[n] EXCEPT !.last_clk = now] /\ \A m \in Drives \ {n} : es[m] = ds[m]
        /\ es = [ds EXCEPT ![n] = es[n]]
    BY <2>1
  <2>3. es[n] \in Drive /\ es[n].lag = ds[n].lag /\ es[n].enable = ds[n].enable
    BY <2>2 DEF Drive
  <2> QED
    BY <1>4, <2>2, <2>3 DEF es
<1> QED
  BY <1>2, <1>3, <1>4
-----------------------------------------------------------------------------
(* The types. *)

\* Types, and the room that the guard leaves above the main CPU's clock.
DriveInv ==
  /\ TypeOK
  /\ maincpu_clk < ClkMaxValue + frame /\ maincpu_clk + guard.sub \in Clock
  /\ guard.next = DRIVE_NUM => guard.sub = 0
  /\ guard.next # DRIVE_NUM => frame = 0

\* The guard rests when it has been through all drives.
LEMMA GuardRests ==
  ASSUME DriveInv
  PROVE  /\ guard = Idle <=> guard.next = DRIVE_NUM
         /\ guard = Idle => guard.sub = 0
<1>1. guard \in [next : 0 .. DRIVE_NUM, sub : Clock] /\ (guard.next = DRIVE_NUM => guard.sub = 0)
  BY DEF DriveInv, TypeOK
<1> QED
  BY <1>1 DEF Idle

\* What changes the drives alone keeps the types if the drives keep theirs.
LEMMA DrivesOnly ==
  ASSUME DriveInv, drv' \in [Drives -> Drive], UNCHANGED <<maincpu_clk, frame, guard>>
  PROVE  DriveInv'
BY DEF DriveInv, TypeOK

\* The first state.
LEMMA InitDrive == Init => DriveInv
<1> SUFFICES ASSUME Init PROVE DriveInv
  OBVIOUS
<1> DEFINE d == [ enable |-> TRUE, last_clk |-> 6, stop_clk |-> 0, cycle_accum |-> 0,
                  clk |-> 0, reset |-> TRUE, lag |-> 0, due |-> 0 ]
<1>1. 0 \in Clock /\ 6 \in Clock /\ 0 \in 0 .. SyncDen - 1 /\ 0 \in -DueBound .. DueBound
      /\ 0 \in 0 .. FrameCycles /\ DRIVE_NUM \in 0 .. DRIVE_NUM
  BY Constants DEF Clock
<1>2. d \in Drive
  BY <1>1 DEF Drive
<1>3. maincpu_clk = 6 /\ frame = 0 /\ guard = Idle /\ drv = [n \in Drives |-> d]
  BY DEF Init
<1> HIDE DEF d
<1>4. drv \in [Drives -> Drive] /\ guard \in [next : 0 .. DRIVE_NUM, sub : Clock]
  BY <1>1, <1>2, <1>3 DEF Idle
<1>5. guard.sub = 0 /\ guard.next = DRIVE_NUM
  BY <1>3 DEF Idle
<1> QED
  BY <1>1, <1>3, <1>4, <1>5, Constants DEF DriveInv, TypeOK

\* The main CPU runs: the lag of the drives that are on grows by what has passed.
LEMMA MainRunsFacts ==
  ASSUME DriveInv, NEW k \in 1 .. FrameCycles, MainRuns(k)
  PROVE  /\ DriveInv' /\ frame' = frame + k /\ maincpu_clk' = maincpu_clk + k
         /\ \A n \in Drives :
              /\ drv'[n].enable = drv[n].enable /\ drv'[n].last_clk = drv[n].last_clk
              /\ drv'[n] = [drv[n] EXCEPT !.lag = drv'[n].lag]
              /\ drv'[n].lag = IF drv[n].enable THEN drv[n].lag + k ELSE 0
<1>1. /\ maincpu_clk' = maincpu_clk + k /\ frame' = frame + k /\ frame + k <= FrameCycles
      /\ guard' = guard /\ guard.sub = 0
      /\ drv' = [n \in Drives |-> [drv[n] EXCEPT !.lag = IF drv[n].enable THEN @ + k ELSE 0]]
  BY GuardRests DEF MainRuns
<1>2. /\ k \in Nat /\ maincpu_clk \in Nat /\ frame \in Nat /\ drv \in [Drives -> Drive]
      /\ maincpu_clk < ClkMaxValue + frame /\ guard \in [next : 0 .. DRIVE_NUM, sub : Clock]
      /\ guard.next = DRIVE_NUM
  BY Constants, GuardRests DEF DriveInv, TypeOK, Clock, MainRuns
<1>3. maincpu_clk + k \in Clock /\ frame + k \in 0 .. FrameCycles
  BY <1>1, <1>2, Constants DEF Clock
<1>4. \A n \in Drives : drv[n].lag \in Nat /\ drv[n].enable \in BOOLEAN
  BY <1>2 DEF Drive
<1> DEFINE l(n) == IF drv[n].enable THEN drv[n].lag + k ELSE 0
<1>5. \A n \in Drives : l(n) \in Nat
  BY <1>2, <1>4
<1>6. drv' = [n \in Drives |-> [drv[n] EXCEPT !.lag = l(n)]]
  BY <1>1
<1>7. \A n \in Drives : drv'[n].lag = l(n) => drv'[n].lag = IF drv[n].enable THEN drv[n].lag + k ELSE 0
  OBVIOUS
<1> HIDE DEF l
<1>8. \A n \in Drives : /\ drv'[n] = [drv[n] EXCEPT !.lag = l(n)] /\ drv'[n] \in Drive
                        /\ drv'[n].enable = drv[n].enable /\ drv'[n].last_clk = drv[n].last_clk
                        /\ drv'[n].lag = l(n)
  BY <1>2, <1>5, <1>6 DEF Drive
<1>9. drv' \in [Drives -> Drive]
  BY <1>6, <1>8
<1>10. DriveInv'
  BY <1>1, <1>2, <1>3, <1>9, Constants DEF DriveInv, TypeOK
<1> QED
  BY <1>1, <1>7, <1>8, <1>10

\* The bus: every drive that is on is up to date.
LEMMA BusAccessFacts ==
  ASSUME DriveInv, BusAccess
  PROVE  /\ DriveInv' /\ UNCHANGED <<maincpu_clk, frame, guard>>
         /\ \A n \in Drives :
              /\ drv'[n].enable = drv[n].enable
              /\ drv[n].enable => drv'[n].last_clk = maincpu_clk /\ drv'[n].lag = 0
<1>1. PICK over \in Overshoot : drv' = drivecpu_execute_all(drv, maincpu_clk, maincpu_clk, over)
  BY DEF BusAccess
<1>2. drv \in [Drives -> Drive] /\ maincpu_clk \in Clock /\ UNCHANGED <<maincpu_clk, frame, guard>>
  BY DEF DriveInv, TypeOK, BusAccess
<1>3. /\ drv' \in [Drives -> Drive]
      /\ \A n \in Drives :
              /\ drv'[n].enable = drv[n].enable
              /\ drv[n].enable => drv'[n].last_clk = maincpu_clk /\ drv'[n].lag = 0
  BY <1>1, <1>2, ExecuteAllFacts
<1> QED
  BY <1>2, <1>3, DrivesOnly

\* The end of a frame: drives that do not skip are up to date; the clock goes back.
LEMMA VsyncFacts ==
  ASSUME DriveInv, machine_vsync_hook
  PROVE  /\ DriveInv' /\ frame' = 0 /\ guard'.next = 0 /\ maincpu_clk' + guard'.sub = maincpu_clk
         /\ \A n \in Drives :
              /\ drv'[n].enable = drv[n].enable
              /\ IF n \notin Skippers /\ drv[n].enable
                 THEN drv'[n].last_clk = maincpu_clk /\ drv'[n].lag = 0
                 ELSE drv'[n] = drv[n]
<1>1. PICK over \in Overshoot : drv' = drive_vsync_hook(drv, maincpu_clk, over)
  BY DEF machine_vsync_hook
<1> DEFINE sub == IF NeedsSubtraction(maincpu_clk) THEN clk_guard_clock_sub ELSE 0
<1>2. /\ frame' = 0 /\ maincpu_clk' = maincpu_clk - sub /\ guard' = [next |-> 0, sub |-> sub]
  BY DEF machine_vsync_hook
<1>3. drv \in [Drives -> Drive] /\ maincpu_clk \in Clock /\ frame \in 0 .. FrameCycles
      /\ maincpu_clk < ClkMaxValue + frame
  BY DEF DriveInv, TypeOK
<1>4. \A n \in Drives : over[n] \in 0 .. MaxCycles - 1
  BY DEF Overshoot
<1> DEFINE f(n) == IF n \notin Skippers /\ drv[n].enable
                   THEN drivecpu_execute(drv[n], maincpu_clk, maincpu_clk, over[n]) ELSE drv[n]
<1>5. \A n \in Drives : /\ f(n) \in Drive /\ f(n).enable = drv[n].enable
                        /\ IF n \notin Skippers /\ drv[n].enable
                           THEN f(n).last_clk = maincpu_clk /\ f(n).lag = 0
                           ELSE f(n) = drv[n]
  BY <1>3, <1>4, ExecuteFacts
<1>6. drv' = [n \in Drives |-> f(n)]
  BY <1>1 DEF drive_vsync_hook
<1>7. sub \in Clock /\ maincpu_clk - sub \in Clock /\ maincpu_clk - sub < ClkMaxValue
      /\ maincpu_clk - sub + sub = maincpu_clk
  BY <1>3, SubBounds, Constants DEF Clock, NeedsSubtraction
<1> HIDE DEF f, sub
<1>8. drv' \in [Drives -> Drive]
  BY <1>5, <1>6
<1>9. guard' \in [next : 0 .. DRIVE_NUM, sub : Clock] /\ guard'.next = 0 /\ guard'.sub = sub
      /\ 0 # DRIVE_NUM
  BY <1>2, <1>7, Constants
<1>10. DriveInv'
  BY <1>2, <1>3, <1>7, <1>8, <1>9, Constants DEF DriveInv, TypeOK
<1>11. maincpu_clk' + guard'.sub = maincpu_clk
  BY <1>2, <1>7, <1>9
<1> QED
  BY <1>2, <1>5, <1>6, <1>9, <1>10, <1>11

\* The guard's round: one drive follows the subtraction, then looks after its own clock.
LEMMA PreventFacts ==
  ASSUME DriveInv, drivecpu_prevent_clk_overflow_all
  PROVE  /\ DriveInv' /\ guard.next \in Drives /\ UNCHANGED <<maincpu_clk, frame>>
         /\ guard'.next = guard.next + 1 /\ (guard'.sub = guard.sub \/ guard'.next = DRIVE_NUM)
         /\ \E over \in Overshoot :
              LET es == FollowSubtraction(drv, guard.next, maincpu_clk, guard.sub, over) IN
              /\ es \in [Drives -> Drive]
              /\ drv'[guard.next] = OwnSubtraction(es[guard.next])
              /\ \A m \in Drives \ {guard.next} : drv'[m] = es[m]
<1> DEFINE n == guard.next  sub == guard.sub
<1>1. /\ drv \in [Drives -> Drive] /\ maincpu_clk \in Clock /\ sub \in Clock
      /\ maincpu_clk + sub \in Clock /\ n \in 0 .. DRIVE_NUM /\ n < DRIVE_NUM
      /\ UNCHANGED <<maincpu_clk, frame>> /\ n # DRIVE_NUM /\ frame = 0
      /\ guard \in [next : 0 .. DRIVE_NUM, sub : Clock] /\ maincpu_clk < ClkMaxValue + frame
  BY Constants DEF DriveInv, TypeOK, drivecpu_prevent_clk_overflow_all
<1>2. n \in Drives
  BY <1>1, Constants DEF Drives
<1>3. PICK over \in Overshoot : drv' = drivecpu_prevent_clk_overflow(drv, n, maincpu_clk, sub, over)
  BY DEF drivecpu_prevent_clk_overflow_all
<1> DEFINE es == FollowSubtraction(drv, n, maincpu_clk, sub, over)
<1>4. es \in [Drives -> Drive]
  <2>1. CASE sub = 0
    BY <1>1, <2>1 DEF FollowSubtraction
  <2>2. CASE sub # 0
    BY <1>1, <1>2, <2>2, FollowFacts
  <2> QED
    BY <2>1, <2>2
<1>5. drv' = [es EXCEPT ![n] = OwnSubtraction(es[n])]
  BY <1>3 DEF drivecpu_prevent_clk_overflow
<1>6. guard' = IF n + 1 = DRIVE_NUM THEN Idle ELSE [guard EXCEPT !.next = n + 1]
  BY DEF drivecpu_prevent_clk_overflow_all
<1> HIDE DEF es
<1>7. OwnSubtraction(es[n]) \in Drive
  BY <1>2, <1>4, OwnSubtractionFacts
<1>8. /\ drv' \in [Drives -> Drive] /\ drv'[n] = OwnSubtraction(es[n])
      /\ \A m \in Drives \ {n} : drv'[m] = es[m]
  BY <1>2, <1>4, <1>5, <1>7
<1>9. /\ guard' \in [next : 0 .. DRIVE_NUM, sub : Clock] /\ guard'.next = n + 1
      /\ guard'.sub = IF n + 1 = DRIVE_NUM THEN 0 ELSE sub
  <2>1. n + 1 \in 0 .. DRIVE_NUM /\ 0 \in Clock
    BY <1>1, Constants DEF Clock
  <2> QED
    BY <1>1, <1>6, <2>1 DEF Idle
<1>10. maincpu_clk' + guard'.sub \in Clock
  BY <1>1, <1>9, Constants DEF Clock
<1>11. DriveInv'
  BY <1>1, <1>8, <1>9, <1>10 DEF DriveInv, TypeOK
<1> QED
  BY <1>1, <1>2, <1>4, <1>8, <1>9, <1>11 DEF es

\* Resets and switches set the drives' clocks to the main CPU's.
LEMMA MachineResetFacts ==
  ASSUME DriveInv, machine_reset
  PROVE  /\ DriveInv' /\ maincpu_clk' = 6 /\ UNCHANGED <<frame, guard>>
         /\ \A n \in Drives :
              /\ drv'[n].enable = drv[n].enable /\ drv'[n].last_clk = 6 /\ drv'[n].stop_clk = 0
              /\ drv'[n].lag = 0 /\ drv'[n].due = 0 /\ drv'[n].clk = 0 /\ drv'[n].reset
<1>1. /\ drv \in [Drives -> Drive] /\ frame \in 0 .. FrameCycles /\ guard' = guard /\ frame' = frame
      /\ guard \in [next : 0 .. DRIVE_NUM, sub : Clock] /\ guard.next = DRIVE_NUM /\ guard.sub = 0
      /\ maincpu_clk' = 6 /\ drv' = [n \in Drives |-> drivecpu_reset(drv[n], 6)]
  BY GuardRests DEF DriveInv, TypeOK, machine_reset
<1>2. 6 \in Clock /\ 0 \in Clock /\ 0 \in -DueBound .. DueBound
  BY Constants DEF Clock
<1>3. \A d \in Drive : LET e == drivecpu_reset(d, 6) IN
        /\ e \in Drive /\ e.enable = d.enable /\ e.last_clk = 6 /\ e.stop_clk = 0
        /\ e.lag = 0 /\ e.due = 0 /\ e.clk = 0 /\ e.reset
  BY <1>2 DEF drivecpu_reset, drivecpu_reset_clk, Drive
<1>4. drv' \in [Drives -> Drive]
  BY <1>1, <1>3
<1>5. DriveInv'
  BY <1>1, <1>2, <1>4, Constants DEF DriveInv, TypeOK
<1> QED
  BY <1>1, <1>3, <1>5

\* The monitor's reset is only noted.
LEMMA TriggerResetFacts ==
  ASSUME DriveInv, NEW k \in Drives, drivecpu_trigger_reset(k)
  PROVE  /\ DriveInv' /\ UNCHANGED <<maincpu_clk, frame, guard>>
         /\ \A n \in Drives : /\ drv'[n].enable = drv[n].enable /\ drv'[n].lag = drv[n].lag
                              /\ drv'[n].last_clk = drv[n].last_clk
<1>1. /\ drv \in [Drives -> Drive] /\ UNCHANGED <<maincpu_clk, frame, guard>>
      /\ drv' = [drv EXCEPT ![k].reset = TRUE]
  BY DEF DriveInv, TypeOK, drivecpu_trigger_reset
<1>2. \A n \in Drives : /\ drv'[n] \in Drive
                        /\ drv'[n].enable = drv[n].enable /\ drv'[n].lag = drv[n].lag
                        /\ drv'[n].last_clk = drv[n].last_clk
  BY <1>1 DEF Drive
<1>3. drv' \in [Drives -> Drive]
  BY <1>1, <1>2
<1> QED
  BY <1>1, <1>2, <1>3, DrivesOnly

\* True drive emulation is switched for all drives at once.
LEMMA SwitchFacts ==
  ASSUME DriveInv, NEW val \in BOOLEAN, set_drive_true_emulation(val)
  PROVE  /\ DriveInv' /\ guard = Idle /\ UNCHANGED <<maincpu_clk, frame, guard>>
         /\ \A n \in Drives :
              /\ drv'[n].enable = val /\ drv'[n].lag = 0
              /\ val => drv'[n].last_clk = maincpu_clk
<1>1. /\ drv \in [Drives -> Drive] /\ maincpu_clk \in Clock /\ UNCHANGED <<maincpu_clk, frame, guard>>
      /\ guard = Idle
      /\ drv' = [n \in Drives |-> IF val THEN SwitchedOn(drv[n], maincpu_clk) ELSE SwitchedOff(drv[n])]
  BY DEF DriveInv, TypeOK, set_drive_true_emulation
<1>2. 0 \in Clock /\ 0 \in -DueBound .. DueBound
  BY Constants DEF Clock
<1>3. ASSUME NEW d \in Drive
      PROVE  LET e == SwitchedOn(d, maincpu_clk) IN
             e \in Drive /\ e.enable = TRUE /\ e.lag = 0 /\ e.last_clk = maincpu_clk
  <2> DEFINE b == [d EXCEPT !.enable = TRUE]  c == drivecpu_reset_clk(b, maincpu_clk)
  <2>1. b \in Drive /\ b.enable = TRUE
    BY DEF Drive
  <2> HIDE DEF b
  <2>2. c \in Drive /\ c.enable = TRUE /\ c.lag = 0 /\ c.last_clk = maincpu_clk
    BY <1>1, <1>2, <2>1 DEF drivecpu_reset_clk, Drive
  <2>3. SwitchedOn(d, maincpu_clk) = drivecpu_wake_up(c, maincpu_clk)
    BY DEF SwitchedOn, b
  <2> HIDE DEF c
  <2> QED
    BY <1>1, <2>2, <2>3, WakeUpFacts
<1>4. ASSUME NEW d \in Drive
      PROVE  LET e == SwitchedOff(d) IN e \in Drive /\ e.enable = FALSE /\ e.lag = 0
  BY DEF SwitchedOff, Drive
<1>5. drv' \in [Drives -> Drive]
  BY <1>1, <1>3, <1>4
<1> QED
  BY <1>1, <1>3, <1>4, <1>5, DrivesOnly

\* In every state the variables have their types and the guard leaves room.
THEOREM DriveInvariant == Spec => []DriveInv
<1>1. Init => DriveInv
  BY InitDrive
<1>2. DriveInv /\ [Next]_vars => DriveInv'
  <2> SUFFICES ASSUME DriveInv, [Next]_vars PROVE DriveInv'
    OBVIOUS
  <2>1. CASE \E k \in 1 .. FrameCycles : MainRuns(k)
    BY <2>1, MainRunsFacts
  <2>2. CASE machine_vsync_hook
    BY <2>2, VsyncFacts
  <2>3. CASE drivecpu_prevent_clk_overflow_all
    BY <2>3, PreventFacts
  <2>4. CASE BusAccess
    BY <2>4, BusAccessFacts
  <2>5. CASE machine_reset
    BY <2>5, MachineResetFacts
  <2>6. CASE \E k \in Drives : drivecpu_trigger_reset(k)
    BY <2>6, TriggerResetFacts
  <2>7. CASE \E val \in BOOLEAN : set_drive_true_emulation(val)
    BY <2>7, SwitchFacts
  <2>8. CASE UNCHANGED vars
    BY <2>8 DEF vars, DriveInv, TypeOK
  <2> QED
    BY <2>1, <2>2, <2>3, <2>4, <2>5, <2>6, <2>7, <2>8 DEF Next, Advance
<1> QED
  BY <1>1, <1>2, PTL DEF Spec

\* Every clock stays in its range: for any number of drives, whatever idles and whatever
\* the user does.
THEOREM DriveTypes == Spec => []TypeOK
<1>1. DriveInv => TypeOK
  BY DEF DriveInv
<1> QED
  BY <1>1, DriveInvariant, PTL
-----------------------------------------------------------------------------
(* The mirror of the main CPU's clock. *)

\* What drive n has still to be set back by when the guard is at g.
Pending(g, n) == IF n < g.next THEN 0 ELSE g.sub

\* A drive that is on is its lag behind the main CPU.
InStep(clk, g, n, d) == d.enable => clk + Pending(g, n) - d.last_clk = d.lag

\* Also while the guard goes from drive to drive; and all drives that are on lag alike,
\* or the catch-up of one would run those that were already set back.
MirrorInv ==
  /\ DriveInv
  /\ \A n \in Drives : InStep(maincpu_clk, guard, n, drv[n])
  /\ \A m, n \in Drives : drv[m].enable /\ drv[n].enable => drv[m].lag = drv[n].lag

\* A CLOCK is a number.
LEMMA ClockNumbers == \A c \in Clock : c \in Nat
BY Constants DEF Clock

\* The numbers that the mirror is about.
LEMMA MirrorNumbers ==
  ASSUME DriveInv
  PROVE  /\ maincpu_clk \in Nat /\ guard.sub \in Nat /\ guard.next \in Nat
         /\ drv \in [Drives -> Drive]
         /\ \A n \in Drives : /\ n \in Nat /\ n < DRIVE_NUM
                              /\ drv[n].last_clk \in Nat /\ drv[n].lag \in Nat
                              /\ drv[n].enable \in BOOLEAN
<1>1. /\ maincpu_clk \in Nat /\ guard \in [next : 0 .. DRIVE_NUM, sub : Clock]
      /\ drv \in [Drives -> Drive] /\ (guard.next = DRIVE_NUM => guard.sub = 0)
  BY Constants DEF DriveInv, TypeOK, Clock
<1>2. guard.sub \in Nat /\ guard.next \in Nat
  BY <1>1, Constants DEF Clock
<1>3. \A n \in Drives : n \in Nat /\ n < DRIVE_NUM
  BY Constants DEF Drives
<1>4. \A n \in Drives : /\ drv[n].last_clk \in Nat /\ drv[n].lag \in Nat /\ drv[n].enable \in BOOLEAN
  BY <1>1, Constants DEF Drive, Clock
<1> QED
  BY <1>1, <1>2, <1>3, <1>4

\* When the guard rests nothing is left to set back.
LEMMA AtRest ==
  ASSUME NEW n \in Drives, NEW clk \in Nat, NEW d \in Drive
  PROVE  InStep(clk, Idle, n, d) <=> (d.enable => clk - d.last_clk = d.lag)
<1>1. Pending(Idle, n) = 0
  BY Constants DEF Drives, Idle, Pending
<1>2. d.last_clk \in Nat /\ d.enable \in BOOLEAN
  BY Constants DEF Drive, Clock
<1>3. clk + 0 - d.last_clk = clk - d.last_clk
  BY <1>2
<1> QED
  BY <1>1, <1>2, <1>3 DEF InStep

\* While drive 0 is next everything is left to set back.
LEMMA AtStart ==
  ASSUME NEW n \in Drives, NEW clk \in Nat, NEW d \in Drive, NEW g, g.next = 0, g.sub \in Nat
  PROVE  InStep(clk, g, n, d) <=> (d.enable => (clk + g.sub) - d.last_clk = d.lag)
<1>1. Pending(g, n) = g.sub
  BY Constants DEF Drives, Pending
<1>2. d.enable \in BOOLEAN /\ d.last_clk \in Nat
  BY Constants DEF Drive, Clock
<1>3. clk + g.sub - d.last_clk = (clk + g.sub) - d.last_clk
  BY <1>2
<1> QED
  BY <1>1, <1>2, <1>3 DEF InStep

\* Steps that leave the guard at rest.
LEMMA MirrorAtRest ==
  ASSUME MirrorInv, DriveInv', guard = Idle, guard' = guard,
         \A n \in Drives : drv'[n].enable => maincpu_clk' - drv'[n].last_clk = drv'[n].lag,
         \A m, n \in Drives : drv'[m].enable /\ drv'[n].enable => drv'[m].lag = drv'[n].lag
  PROVE  MirrorInv'
<1>1. maincpu_clk' \in Nat /\ drv' \in [Drives -> Drive] /\ guard' = Idle
  BY ClockNumbers DEF DriveInv, TypeOK
<1>2. \A n \in Drives : InStep(maincpu_clk', guard', n, drv'[n])
  BY <1>1, AtRest
<1> QED
  BY <1>2 DEF MirrorInv

\* The main CPU runs and all drives fall behind together.
LEMMA MainRunsMirror ==
  ASSUME MirrorInv, NEW k \in 1 .. FrameCycles, MainRuns(k)
  PROVE  MirrorInv'
<1>1. DriveInv /\ guard = Idle /\ guard' = guard
  BY DEF MirrorInv, MainRuns
<1>2. /\ DriveInv' /\ maincpu_clk' = maincpu_clk + k
      /\ \A n \in Drives : /\ drv'[n].enable = drv[n].enable /\ drv'[n].last_clk = drv[n].last_clk
                           /\ drv'[n].lag = IF drv[n].enable THEN drv[n].lag + k ELSE 0
  BY <1>1, MainRunsFacts
<1>3. \A n \in Drives : drv[n].enable => maincpu_clk - drv[n].last_clk = drv[n].lag
  BY <1>1, MirrorNumbers, AtRest DEF MirrorInv
<1>4. ASSUME NEW n \in Drives, drv'[n].enable
      PROVE  maincpu_clk' - drv'[n].last_clk = drv'[n].lag
  <2>1. maincpu_clk - drv[n].last_clk = drv[n].lag /\ drv'[n].lag = drv[n].lag + k
    BY <1>2, <1>3, <1>4
  <2>2. k \in Nat /\ maincpu_clk \in Nat /\ drv[n].last_clk \in Nat /\ drv[n].lag \in Nat
    BY <1>1, MirrorNumbers, Constants
  <2>3. (maincpu_clk + k) - drv[n].last_clk = drv[n].lag + k
    BY <2>1, <2>2
  <2> QED
    BY <1>2, <2>1, <2>3
<1>5. \A m, n \in Drives : drv'[m].enable /\ drv'[n].enable => drv'[m].lag = drv'[n].lag
  BY <1>2 DEF MirrorInv
<1> QED
  BY <1>1, <1>2, <1>4, <1>5, MirrorAtRest

\* A bus access brings every drive up to date.
LEMMA BusAccessMirror ==
  ASSUME MirrorInv, BusAccess
  PROVE  MirrorInv'
<1>1. DriveInv /\ guard = Idle /\ guard' = guard
  BY DEF MirrorInv, BusAccess
<1>2. /\ DriveInv' /\ maincpu_clk' = maincpu_clk
      /\ \A n \in Drives : drv'[n].enable => drv'[n].last_clk = maincpu_clk /\ drv'[n].lag = 0
  BY <1>1, BusAccessFacts
<1>3. maincpu_clk - maincpu_clk = 0
  BY <1>1, MirrorNumbers
<1> QED
  BY <1>1, <1>2, <1>3, MirrorAtRest

\* At the end of a frame nobody has been set back yet; all drives skip, or none.
LEMMA VsyncMirror ==
  ASSUME MirrorInv, machine_vsync_hook, Skippers = {} \/ Skippers = Drives
  PROVE  MirrorInv'
<1>1. DriveInv /\ guard = Idle
  BY DEF MirrorInv, machine_vsync_hook
<1>2. /\ DriveInv' /\ guard'.next = 0 /\ maincpu_clk' + guard'.sub = maincpu_clk
      /\ \A n \in Drives :
           /\ drv'[n].enable = drv[n].enable
           /\ IF n \notin Skippers /\ drv[n].enable
              THEN drv'[n].last_clk = maincpu_clk /\ drv'[n].lag = 0
              ELSE drv'[n] = drv[n]
  BY <1>1, VsyncFacts
<1>3. \A n \in Drives : drv[n].enable => maincpu_clk - drv[n].last_clk = drv[n].lag
  BY <1>1, MirrorNumbers, AtRest DEF MirrorInv
<1>4. maincpu_clk - maincpu_clk = 0
  BY <1>1, MirrorNumbers
<1>5. \A n \in Drives : drv'[n].enable => maincpu_clk - drv'[n].last_clk = drv'[n].lag
  BY <1>2, <1>3, <1>4
<1>6. maincpu_clk' \in Nat /\ drv' \in [Drives -> Drive] /\ guard'.sub \in Nat
  BY <1>2, ClockNumbers DEF DriveInv, TypeOK
<1>7. \A n \in Drives : drv'[n].enable => (maincpu_clk' + guard'.sub) - drv'[n].last_clk = drv'[n].lag
  BY <1>2, <1>5
<1>8. \A n \in Drives : InStep(maincpu_clk', guard', n, drv'[n])
  BY <1>2, <1>6, <1>7, AtStart
<1>9. \A m, n \in Drives : drv'[m].enable /\ drv'[n].enable => drv'[m].lag = drv'[n].lag
  BY <1>2 DEF MirrorInv
<1> QED
  BY <1>2, <1>8, <1>9 DEF MirrorInv

\* A drive that follows has nothing left to be set back; for the others nothing changes.
LEMMA PendingStep ==
  ASSUME DriveInv, drivecpu_prevent_clk_overflow_all
  PROVE  /\ Pending(guard, guard.next) = guard.sub /\ Pending(guard', guard.next) = 0
         /\ \A m \in Drives \ {guard.next} : Pending(guard', m) = Pending(guard, m)
         /\ \A m \in Drives : m < guard.next => Pending(guard, m) = 0
         /\ \A m \in Drives : m > guard.next => Pending(guard, m) = guard.sub
<1>1. /\ guard'.next = guard.next + 1 /\ (guard'.sub = guard.sub \/ guard'.next = DRIVE_NUM)
      /\ guard.next \in Drives /\ \A m \in Drives : m \in Nat /\ m < DRIVE_NUM
  BY PreventFacts, MirrorNumbers
<1> QED
  BY <1>1, Constants DEF Pending

\* The drives catch up with a subtraction one after the other, and each mirrors the main
\* clock as it was before for those still to come, as it is now for those done.
LEMMA PreventMirror ==
  ASSUME MirrorInv, drivecpu_prevent_clk_overflow_all
  PROVE  MirrorInv'
<1> DEFINE n == guard.next  sub == guard.sub  now == maincpu_clk
<1>1. DriveInv
  BY DEF MirrorInv
<1>2. /\ DriveInv' /\ n \in Drives /\ maincpu_clk' = now
      /\ drv \in [Drives -> Drive] /\ now \in Clock /\ sub \in Clock /\ now + sub \in Clock
      /\ now \in Nat /\ sub \in Nat
      /\ \A m \in Drives : /\ m \in Nat /\ drv[m].last_clk \in Nat /\ drv[m].lag \in Nat
                           /\ drv[m].enable \in BOOLEAN
  BY <1>1, PreventFacts, MirrorNumbers DEF DriveInv, TypeOK
<1>3. PICK over \in Overshoot :
        LET es == FollowSubtraction(drv, n, now, sub, over) IN
        /\ es \in [Drives -> Drive]
        /\ drv'[n] = OwnSubtraction(es[n]) /\ \A m \in Drives \ {n} : drv'[m] = es[m]
  BY <1>1, PreventFacts
<1> DEFINE es == FollowSubtraction(drv, n, now, sub, over)
<1>4. \A m \in Drives : /\ drv'[m].enable = es[m].enable /\ drv'[m].lag = es[m].lag
                        /\ drv'[m].last_clk = es[m].last_clk
  BY <1>2, <1>3, OwnSubtractionFacts
<1>5. /\ Pending(guard, n) = sub /\ Pending(guard', n) = 0
      /\ \A m \in Drives \ {n} : Pending(guard', m) = Pending(guard, m)
      /\ \A m \in Drives : m < n => Pending(guard, m) = 0
      /\ \A m \in Drives : m > n => Pending(guard, m) = sub
  BY <1>1, PendingStep
<1>6. \A m \in Drives : drv[m].enable => now + Pending(guard, m) - drv[m].last_clk = drv[m].lag
  BY DEF MirrorInv, InStep
<1> SUFFICES /\ \A m \in Drives : es[m].enable => now + Pending(guard', m) - es[m].last_clk = es[m].lag
             /\ \A m, k \in Drives : es[m].enable /\ es[k].enable => es[m].lag = es[k].lag
  BY <1>2, <1>4 DEF MirrorInv, InStep
<1>0. sub # 0 =>
        /\ \A m \in Drives : es[m].enable = drv[m].enable
        /\ drv[n].enable /\ drv[n].last_clk < sub =>
              /\ es[n].last_clk = now /\ es[n].lag = 0
              /\ \A m \in Drives \ {n} : drv[m].enable => es[m].last_clk = now + sub /\ es[m].lag = 0
        /\ ~(drv[n].enable /\ drv[n].last_clk < sub) =>
              /\ drv[n].enable => es[n] = [drv[n] EXCEPT !.last_clk = drv[n].last_clk - sub]
              /\ es[n].lag = drv[n].lag
              /\ \A m \in Drives \ {n} : es[m] = drv[m]
  <2> HIDE DEF n, now, sub
  <2> QED
    BY <1>2, FollowFacts
<1>7. CASE sub = 0
  <2>1. es = drv
    BY <1>7 DEF FollowSubtraction
  <2>2. \A m \in Drives : Pending(guard', m) = Pending(guard, m)
    BY <1>5, <1>7
  <2> QED
    BY <1>6, <2>1, <2>2 DEF MirrorInv
<1>8. CASE sub # 0 /\ drv[n].enable /\ drv[n].last_clk < sub
  <2> HIDE DEF es
  <2>1. /\ \A m \in Drives : es[m].enable = drv[m].enable
        /\ es[n].last_clk = now /\ es[n].lag = 0
        /\ \A m \in Drives \ {n} : drv[m].enable => es[m].last_clk = now + sub /\ es[m].lag = 0
    BY <1>8, <1>0
  <2>2. ASSUME NEW m \in Drives, drv[m].enable, m < n
        PROVE  FALSE
    <3>1. drv[m].lag = drv[n].lag
      BY <1>2, <1>8, <2>2 DEF MirrorInv
    <3>2. now + 0 - drv[m].last_clk = drv[m].lag /\ now + sub - drv[n].last_clk = drv[n].lag
      BY <1>2, <1>5, <1>6, <1>8, <2>2
    <3> QED
      BY <1>2, <1>8, <3>1, <3>2
  <2>3. ASSUME NEW m \in Drives, es[m].enable
        PROVE  now + Pending(guard', m) - es[m].last_clk = es[m].lag
    <3>1. CASE m = n
      BY <1>2, <1>5, <2>1, <3>1
    <3>2. CASE m # n
      <4>1. m > n
        BY <1>2, <2>1, <2>2, <2>3, <3>2
      <4>2. Pending(guard', m) = sub
        BY <1>5, <3>2, <4>1
      <4>3. es[m].last_clk = now + sub /\ es[m].lag = 0
        BY <2>1, <2>3, <3>2
      <4> QED
        BY <1>2, <4>2, <4>3
    <3> QED
      BY <3>1, <3>2
  <2>4. \A m \in Drives : es[m].enable => es[m].lag = 0
    BY <2>1
  <2> QED
    BY <2>3, <2>4
<1>9. CASE sub # 0 /\ ~(drv[n].enable /\ drv[n].last_clk < sub)
  <2>1. /\ \A m \in Drives : es[m].enable = drv[m].enable
        /\ drv[n].enable => es[n] = [drv[n] EXCEPT !.last_clk = drv[n].last_clk - sub]
        /\ es[n].lag = drv[n].lag /\ \A m \in Drives \ {n} : es[m] = drv[m]
    BY <1>9, <1>0
  <2>2. drv[n].enable => es[n].last_clk = drv[n].last_clk - sub
    BY <1>2, <2>1 DEF Drive
  <2> HIDE DEF es
  <2>3. ASSUME NEW m \in Drives, es[m].enable
        PROVE  now + Pending(guard', m) - es[m].last_clk = es[m].lag
    <3>1. CASE m = n
      <4>1. now + sub - drv[n].last_clk = drv[n].lag
        BY <1>2, <1>5, <1>6, <2>1, <2>3, <3>1
      <4>2. es[n].last_clk = drv[n].last_clk - sub /\ es[n].lag = drv[n].lag /\ Pending(guard', n) = 0
        BY <1>5, <2>1, <2>2, <2>3, <3>1
      <4> QED
        BY <1>2, <3>1, <4>1, <4>2
    <3>2. CASE m # n
      BY <1>5, <1>6, <2>1, <2>3, <3>2
    <3> QED
      BY <3>1, <3>2
  <2>4. \A m \in Drives : es[m].lag = drv[m].lag
    BY <2>1
  <2> QED
    BY <2>1, <2>3, <2>4 DEF MirrorInv
<1> QED
  BY <1>7, <1>8, <1>9

\* A machine reset starts the mirror again.
LEMMA MachineResetMirror ==
  ASSUME MirrorInv, machine_reset
  PROVE  MirrorInv'
<1>1. guard = Idle /\ DriveInv
  BY DEF machine_reset, MirrorInv
<1>2. /\ DriveInv' /\ maincpu_clk' = 6 /\ guard' = guard
      /\ \A n \in Drives : drv'[n].last_clk = 6 /\ drv'[n].lag = 0
  BY <1>1, MachineResetFacts
<1>3. maincpu_clk' - 6 = 0
  BY <1>2
<1> QED
  BY <1>1, <1>2, <1>3, MirrorAtRest

\* The mirror holds from the first state on.
LEMMA InitMirror == Init => MirrorInv
<1> SUFFICES ASSUME Init PROVE MirrorInv
  OBVIOUS
<1>1. DriveInv /\ guard = Idle /\ maincpu_clk = 6
  BY InitDrive DEF Init
<1>2. \A n \in Drives : drv[n].last_clk = 6 /\ drv[n].lag = 0
  BY DEF Init
<1>3. \A n \in Drives : drv[n].enable => maincpu_clk - drv[n].last_clk = drv[n].lag
  BY <1>1, <1>2
<1>4. \A n \in Drives : InStep(maincpu_clk, guard, n, drv[n])
  BY <1>1, <1>3, MirrorNumbers, AtRest
<1> QED
  BY <1>1, <1>2, <1>4 DEF MirrorInv

\* If all drives idle in the same way, the distance between the two clocks is what has
\* passed, for any number of drives and whatever the user does.
THEOREM MirrorInvariant ==
  ASSUME Skippers = {} \/ Skippers = Drives
  PROVE  Spec => []MirrorInv
<1>1. Init => MirrorInv
  BY InitMirror
<1>2. MirrorInv /\ [Next]_vars => MirrorInv'
  <2> SUFFICES ASSUME MirrorInv, [Next]_vars PROVE MirrorInv'
    OBVIOUS
  <2>0. DriveInv
    BY DEF MirrorInv
  <2>1. CASE \E k \in 1 .. FrameCycles : MainRuns(k)
    BY <2>1, MainRunsMirror
  <2>2. CASE machine_vsync_hook
    BY <2>2, VsyncMirror
  <2>3. CASE drivecpu_prevent_clk_overflow_all
    BY <2>3, PreventMirror
  <2>4. CASE BusAccess
    BY <2>4, BusAccessMirror
  <2>5. CASE machine_reset
    BY <2>5, MachineResetMirror
  <2>6. CASE \E k \in Drives : drivecpu_trigger_reset(k)
    <3>1. PICK k \in Drives : drivecpu_trigger_reset(k)
      BY <2>6
    <3>2. /\ DriveInv' /\ maincpu_clk' = maincpu_clk /\ guard' = guard /\ guard = Idle
          /\ \A n \in Drives : /\ drv'[n].enable = drv[n].enable /\ drv'[n].lag = drv[n].lag
                               /\ drv'[n].last_clk = drv[n].last_clk
      BY <2>0, <3>1, TriggerResetFacts DEF drivecpu_trigger_reset
    <3>3. \A n \in Drives : drv[n].enable => maincpu_clk - drv[n].last_clk = drv[n].lag
      BY <2>0, <3>2, MirrorNumbers, AtRest DEF MirrorInv
    <3>4. \A m, n \in Drives : drv'[m].enable /\ drv'[n].enable => drv'[m].lag = drv'[n].lag
      BY <3>2 DEF MirrorInv
    <3> QED
      BY <3>2, <3>3, <3>4, MirrorAtRest
  <2>7. CASE \E val \in BOOLEAN : set_drive_true_emulation(val)
    <3>1. PICK val \in BOOLEAN : set_drive_true_emulation(val)
      BY <2>7
    <3>2. /\ DriveInv' /\ maincpu_clk' = maincpu_clk /\ guard' = guard /\ guard = Idle
          /\ \A n \in Drives : /\ drv'[n].enable = val /\ drv'[n].lag = 0
                               /\ val => drv'[n].last_clk = maincpu_clk
      BY <2>0, <3>1, SwitchFacts
    <3>3. maincpu_clk - maincpu_clk = 0
      BY <2>0, MirrorNumbers
    <3> QED
      BY <3>2, <3>3, MirrorAtRest
  <2>8. CASE UNCHANGED vars
    BY <2>8 DEF vars, MirrorInv, DriveInv, TypeOK
  <2> QED
    BY <2>1, <2>2, <2>3, <2>4, <2>5, <2>6, <2>7, <2>8 DEF Next, Advance
<1> QED
  BY <1>1, <1>2, PTL DEF Spec

\* No main CPU cycle is lost or given twice, whichever clock was set back in between.
THEOREM LastClkStaysInStep ==
  ASSUME Skippers = {} \/ Skippers = Drives
  PROVE  Spec => []LastClkMirrorsMain
<1>1. MirrorInv => LastClkMirrorsMain
  BY MirrorNumbers, AtRest DEF MirrorInv, LastClkMirrorsMain
<1> QED
  BY <1>1, MirrorInvariant, PTL
-----------------------------------------------------------------------------
(* The cycles given and the cycles executed. *)

\* How far the drive's clock is past the end of what it was given.
Ahead(d) == Signed(d.clk - d.stop_clk)

\* A signed difference stands for the difference, give or take one turn of the clock.
LEMMA SignedRange ==
  ASSUME NEW a \in Clock, NEW b \in Clock
  PROVE  LET s == Signed(a - b) IN
         /\ s \in Int /\ -Half <= s /\ s < Half
         /\ a - b = s \/ a - b = s + Half + Half \/ a - b = s - (Half + Half)
<1> DEFINE n == a - b  M == Half + Half
<1>1. n \in Int /\ -M < n /\ n < M /\ Half \in Nat /\ M = CLOCK_MAX + 1
  BY HalfFacts, Constants DEF Clock
<1>2. n >= 0 => Wrap(n) = n
  BY <1>1, WrapFacts, Constants DEF Clock
<1>3. n < 0 => Wrap(n) = n + M
  BY <1>1, WrapFacts
<1> HIDE DEF n
<1>4. Signed(n) = IF Wrap(n) >= Half THEN Wrap(n) - M ELSE Wrap(n)
  <2>1. Wrap(n) \in Int
    BY <1>1, <1>2, <1>3
  <2>2. CLOCK_MAX \div 2 = Half - 1 /\ CLOCK_MAX \in Nat
    BY Constants, HalfFacts DEF Half
  <2>3. Wrap(n) - CLOCK_MAX - 1 = Wrap(n) - M
    BY <1>1, <2>1, <2>2
  <2>4. Wrap(n) > CLOCK_MAX \div 2 <=> Wrap(n) >= Half
    BY <1>1, <2>1, <2>2
  <2> QED
    BY <2>3, <2>4 DEF Signed
<1> QED
  BY <1>1, <1>2, <1>3, <1>4 DEF n

\* There is one such difference within half a turn.
LEMMA SignedIs ==
  ASSUME NEW a \in Clock, NEW b \in Clock, NEW s \in Int, -Half <= s, s < Half,
         \/ a - b = s \/ a - b = s + Half + Half \/ a - b = s - (Half + Half)
         \/ a - b = s + Half + Half + Half + Half \/ a - b = s - (Half + Half + Half + Half)
  PROVE  Signed(a - b) = s
<1> DEFINE t == Signed(a - b)
<1>1. a \in Nat /\ b \in Nat /\ Half \in Nat /\ a < Half + Half /\ b < Half + Half
  BY HalfFacts, Constants DEF Clock
<1>2. /\ t \in Int /\ -Half <= t /\ t < Half
      /\ a - b = t \/ a - b = t + Half + Half \/ a - b = t - (Half + Half)
  BY SignedRange
<1> HIDE DEF t
<1>3. t = s
  BY <1>1, <1>2
<1> QED
  BY <1>3 DEF t

\* Between two runs: what was executed too much is what the clock is ahead.
Square(d) ==
  /\ Ahead(d) >= 0 /\ d.due >= -Ahead(d) /\ d.due >= -(MaxCycles + 6)
  /\ d.clk >= ClkMaxValue => Ahead(d) < MaxCycles
  /\ d.reset => d.clk = 0 /\ d.stop_clk = 0

\* In a run, when the drive has been given its cycles.
Owing(d) ==
  /\ Ahead(d) >= -MaxGrant /\ d.due >= -Ahead(d) /\ d.due >= -(MaxCycles + 6)
  /\ d.clk >= ClkMaxValue => Ahead(d) < MaxCycles
  /\ d.reset => d.clk = 0 /\ (Ahead(d) >= 0 => d.stop_clk = 0)

\* The numbers of a drive.
LEMMA DriveNumbers ==
  ASSUME NEW d \in Drive
  PROVE  /\ d.clk \in Clock /\ d.stop_clk \in Clock /\ d.clk \in Nat /\ d.stop_clk \in Nat
         /\ d.last_clk \in Nat /\ d.lag \in Nat /\ d.due \in Int /\ d.due <= DueBound
         /\ d.cycle_accum \in Nat /\ d.cycle_accum <= SyncDen - 1
         /\ Ahead(d) \in Int /\ -Half <= Ahead(d) /\ Ahead(d) < Half
         /\ \/ d.clk - d.stop_clk = Ahead(d) \/ d.clk - d.stop_clk = Ahead(d) + Half + Half
            \/ d.clk - d.stop_clk = Ahead(d) - (Half + Half)
<1>1. /\ d.clk \in Clock /\ d.stop_clk \in Clock /\ d.clk \in Nat /\ d.stop_clk \in Nat
      /\ d.last_clk \in Nat /\ d.lag \in Nat /\ d.due \in Int /\ d.due <= DueBound
      /\ d.cycle_accum \in Nat /\ d.cycle_accum <= SyncDen - 1
  BY Constants DEF Drive, Clock
<1> QED
  BY <1>1, SignedRange DEF Ahead

\* No frame gives more than MaxGrant.
LEMMA GrantBound ==
  ASSUME NEW accum \in Nat, accum <= SyncDen - 1, NEW lag \in Nat, lag <= FrameCycles
  PROVE  LET g == (accum + SyncNum * lag) \div SyncDen IN g \in Nat /\ g <= MaxGrant
<1>1. SyncDen \in Nat \ {0} /\ SyncNum \in Nat /\ FrameCycles \in Nat
  BY Constants
<1>2. SyncNum * lag \in Nat /\ SyncNum * FrameCycles \in Nat /\ SyncNum * lag <= SyncNum * FrameCycles
  BY <1>1
<1> DEFINE p == SyncNum * lag  q == SyncNum * FrameCycles
<1>3. p \in Nat /\ q \in Nat /\ p <= q
  BY <1>2
<1> HIDE DEF p, q
<1>4. (accum + p) \div SyncDen \in Nat
  BY <1>1, <1>3
<1>5. \A a, b \in Nat : a <= b => a \div SyncDen <= b \div SyncDen
  BY <1>1
<1>6. accum + p \in Nat /\ SyncDen - 1 + q \in Nat /\ accum + p <= SyncDen - 1 + q
  BY <1>1, <1>3
<1>7. (accum + p) \div SyncDen <= (SyncDen - 1 + q) \div SyncDen
  BY <1>5, <1>6
<1> QED
  BY <1>4, <1>7 DEF p, q, MaxGrant

\* Turns of the clock add up.
LEMMA TurnsAdd ==
  ASSUME NEW H \in Nat, NEW c \in Int, NEW p \in Int, NEW q \in Int, NEW s \in Int, NEW g \in Int,
         \/ c - p = s \/ c - p = s + H + H \/ c - p = s - (H + H),
         q = p + g \/ q = p + g - (H + H)
  PROVE  LET t == s - g IN
         \/ c - q = t \/ c - q = t + H + H \/ c - q = t - (H + H)
         \/ c - q = t + H + H + H + H \/ c - q = t - (H + H + H + H)
OBVIOUS

\* Giving cycles moves the end away by as much as is owed.
LEMMA GrantOwing ==
  ASSUME NEW d \in Drive, Square(d), NEW v \in Clock, d.lag <= FrameCycles,
         ClocksToEmulate(d, v) = d.lag
  PROVE  Owing(Grant(d, v))
<1> DEFINE e == Grant(d, v)  g == (d.cycle_accum + SyncNum * d.lag) \div SyncDen
           s == Ahead(d)  t == s - g
<1>1. /\ e \in Drive /\ e.clk = d.clk /\ e.reset = d.reset
      /\ e.stop_clk = Wrap(d.stop_clk + g) /\ e.due = Capped(d.due + g)
  BY GrantFacts
<1>2. g \in Nat /\ g <= MaxGrant
  BY GrantBound, DriveNumbers
<1> HIDE DEF e, g
<1>3. /\ d.clk \in Clock /\ d.stop_clk \in Clock /\ d.clk \in Nat /\ d.stop_clk \in Nat
      /\ d.due \in Int /\ s \in Int /\ 0 <= s /\ s < Half /\ d.due >= -s /\ d.due >= -(MaxCycles + 6)
      /\ d.clk - d.stop_clk = s \/ d.clk - d.stop_clk = s + Half + Half
                                \/ d.clk - d.stop_clk = s - (Half + Half)
  BY DriveNumbers DEF Square
<1>4. /\ Half \in Nat /\ MaxGrant \in Nat /\ MaxGrant <= Half /\ MaxGrant <= DueBound
      /\ CLOCK_MAX + 1 = Half + Half /\ MaxCycles \in Nat /\ DueBound \in Nat /\ CLOCK_MAX \in Nat
  BY HalfFacts, Constants
<1>5. e.stop_clk = d.stop_clk + g \/ e.stop_clk = d.stop_clk + g - (Half + Half)
  <2>1. CASE d.stop_clk + g < Half + Half
    <3>1. d.stop_clk + g \in Clock
      BY <1>2, <1>3, <1>4, <2>1 DEF Clock
    <3> QED
      BY <1>1, <3>1, WrapFacts
  <2>2. CASE d.stop_clk + g >= Half + Half
    <3>1. /\ d.stop_clk + g \in Int /\ d.stop_clk + g >= CLOCK_MAX + 1
          /\ d.stop_clk + g < 2 * (CLOCK_MAX + 1)
      BY <1>2, <1>3, <1>4, <2>2 DEF Clock
    <3>2. Wrap(d.stop_clk + g) = (d.stop_clk + g) - (CLOCK_MAX + 1)
      BY <3>1, WrapFacts
    <3>3. (d.stop_clk + g) - (CLOCK_MAX + 1) = d.stop_clk + g - (Half + Half)
      BY <1>2, <1>3, <1>4
    <3> QED
      BY <1>1, <3>2, <3>3
  <2> QED
    BY <1>2, <1>3, <1>4, <2>1, <2>2
<1>6. e.stop_clk \in Clock /\ e.clk \in Clock /\ e.stop_clk \in Nat
  BY <1>1, DriveNumbers
<1> HIDE DEF s
<1>7. t \in Int /\ -Half <= t /\ t < Half /\ t >= -MaxGrant /\ t <= s
  BY <1>2, <1>3, <1>4
<1>8. \/ e.clk - e.stop_clk = t \/ e.clk - e.stop_clk = t + Half + Half
      \/ e.clk - e.stop_clk = t - (Half + Half)
      \/ e.clk - e.stop_clk = t + Half + Half + Half + Half
      \/ e.clk - e.stop_clk = t - (Half + Half + Half + Half)
  BY <1>1, <1>2, <1>3, <1>4, <1>5, <1>6, <1>7, TurnsAdd
<1>9. Ahead(e) = t
  BY <1>6, <1>7, <1>8, SignedIs DEF Ahead
<1>10. e.due \in Int /\ (e.due >= d.due + g \/ e.due = DueBound)
  BY <1>1, <1>2, <1>3, CappedFacts, DriveNumbers
<1>11. e.due >= -t /\ e.due >= -(MaxCycles + 6)
  BY <1>2, <1>3, <1>4, <1>7, <1>10
<1>12. e.clk >= ClkMaxValue => t < MaxCycles
  <2>1. e.clk >= ClkMaxValue => s < MaxCycles
    BY <1>1 DEF Square, s
  <2> QED
    BY <1>2, <1>3, <1>4, <2>1
<1>13. e.reset => e.clk = 0 /\ (t >= 0 => e.stop_clk = 0)
  <2> SUFFICES ASSUME e.reset PROVE e.clk = 0 /\ (t >= 0 => e.stop_clk = 0)
    OBVIOUS
  <2>1. d.clk = 0 /\ d.stop_clk = 0
    BY <1>1 DEF Square
  <2>2. s = 0
    BY <1>3, <1>4, <2>1
  <2>3. t >= 0 => g = 0
    BY <1>2, <2>2
  <2>4. g = 0 => e.stop_clk = 0
    BY <1>4, <1>5, <1>6, <2>1
  <2> QED
    BY <1>1, <2>1, <2>3, <2>4
<1> QED
  BY <1>7, <1>9, <1>11, <1>12, <1>13 DEF Owing, e

\* A reset that is taken counts as six cycles.
LEMMA ResetTaken ==
  ASSUME NEW d \in Drive, Owing(d)
  PROVE  LET r == TakeReset(d) IN
         /\ r \in Drive /\ Ahead(r) >= -MaxGrant /\ r.due >= -Ahead(r) /\ r.due >= -(MaxCycles + 6)
         /\ r.clk >= ClkMaxValue => Ahead(r) < MaxCycles
         /\ r.reset => Ahead(r) >= 0 /\ r.clk = 0 /\ r.stop_clk = 0
<1>1. /\ d.clk \in Clock /\ d.stop_clk \in Clock /\ d.clk \in Nat /\ d.stop_clk \in Nat
      /\ d.due \in Int /\ d.due <= DueBound /\ Ahead(d) \in Int /\ -Half <= Ahead(d) /\ Ahead(d) < Half
      /\ \/ d.clk - d.stop_clk = Ahead(d) \/ d.clk - d.stop_clk = Ahead(d) + Half + Half
         \/ d.clk - d.stop_clk = Ahead(d) - (Half + Half)
  BY DriveNumbers
<1>2. /\ Half \in Nat /\ 7 <= Half /\ MaxGrant \in Nat /\ MaxGrant <= DueBound /\ MaxGrant <= Half
      /\ CLOCK_MAX + 1 = Half + Half /\ MaxCycles \in Nat /\ DueBound \in Nat /\ CLOCK_MAX \in Nat
      /\ ClkMaxValue \in Nat /\ 6 < ClkMaxValue
  BY HalfFacts, Constants
<1>3. Behind(d) <=> Ahead(d) < 0
  BY DEF Behind, Ahead
<1>4. CASE ~(d.reset /\ Behind(d))
  BY <1>1, <1>3, <1>4 DEF TakeReset, Owing
<1>5. CASE d.reset /\ Behind(d)
  <2> DEFINE w == Capped(d.due - 6)  r == [d EXCEPT !.clk = 6, !.reset = FALSE, !.due = w]
             t == Ahead(d) + 6
  <2>1. TakeReset(d) = r
    BY <1>5 DEF TakeReset
  <2>2. w \in -DueBound .. DueBound /\ (w >= d.due - 6 \/ w = DueBound) /\ w \in Int
    BY <1>1, <1>2, CappedFacts
  <2>3. 6 \in Clock
    BY <1>2 DEF Clock
  <2> HIDE DEF w
  <2>4. r \in Drive /\ r.clk = 6 /\ r.reset = FALSE /\ r.due = w /\ r.stop_clk = d.stop_clk
    BY <2>2, <2>3 DEF Drive
  <2>5. d.clk = 0 /\ Ahead(d) < 0 /\ Ahead(d) >= -MaxGrant /\ d.due >= -Ahead(d)
        /\ d.due >= -(MaxCycles + 6)
    BY <1>3, <1>5 DEF Owing
  <2> HIDE DEF r
  <2>6. t \in Int /\ -Half <= t /\ t < Half /\ t < 6 /\ t >= -MaxGrant
    BY <1>1, <1>2, <2>5
  <2>7. \/ 6 - d.stop_clk = t \/ 6 - d.stop_clk = t + Half + Half
        \/ 6 - d.stop_clk = t - (Half + Half)
    BY <1>1, <1>2, <2>5
  <2>8. Ahead(r) = t
    BY <1>1, <2>3, <2>4, <2>6, <2>7, SignedIs DEF Ahead
  <2>9. w >= -t /\ w >= -(MaxCycles + 6)
    BY <1>1, <1>2, <2>2, <2>5, <2>6
  <2> QED
    BY <1>2, <2>1, <2>4, <2>6, <2>8, <2>9
<1> QED
  BY <1>4, <1>5

\* A drive that runs ends in the middle of an instruction, and no further.
LEMMA RunSquare ==
  ASSUME NEW d \in Drive, Owing(d), NEW over \in 0 .. MaxCycles - 1
  PROVE  Square(RunCpu(d, over))
<1> DEFINE r == TakeReset(d)
<1>1. /\ r \in Drive /\ Ahead(r) >= -MaxGrant /\ r.due >= -Ahead(r) /\ r.due >= -(MaxCycles + 6)
      /\ r.clk >= ClkMaxValue => Ahead(r) < MaxCycles
      /\ r.reset => Ahead(r) >= 0 /\ r.clk = 0 /\ r.stop_clk = 0
  BY ResetTaken
<1> HIDE DEF r
<1>2. Behind(r) <=> Ahead(r) < 0
  BY DEF Behind, Ahead
<1>3. /\ r.clk \in Clock /\ r.stop_clk \in Clock /\ r.clk \in Nat /\ r.stop_clk \in Nat
      /\ r.due \in Int /\ Ahead(r) \in Int /\ -Half <= Ahead(r) /\ Ahead(r) < Half
      /\ \/ r.clk - r.stop_clk = Ahead(r) \/ r.clk - r.stop_clk = Ahead(r) + Half + Half
         \/ r.clk - r.stop_clk = Ahead(r) - (Half + Half)
  BY <1>1, DriveNumbers
<1>4. /\ Half \in Nat /\ MaxGrant \in Nat /\ MaxGrant <= DueBound
      /\ CLOCK_MAX + 1 = Half + Half /\ MaxCycles \in Nat /\ MaxCycles < Half /\ DueBound \in Nat
      /\ CLOCK_MAX \in Nat /\ over \in Nat /\ over < MaxCycles
  BY HalfFacts, Constants
<1>5. CASE ~Behind(r)
  <2>1. RunCpu(d, over) = r
    BY <1>5 DEF RunCpu, r
  <2> QED
    BY <1>1, <1>2, <1>3, <1>5, <2>1 DEF Square
<1>6. CASE Behind(r)
  <2> DEFINE c == Wrap(r.stop_clk + over)  x == Wrap(r.stop_clk + over - r.clk)
             w == Capped(r.due - x)  e == [r EXCEPT !.clk = c, !.due = w]
  <2>1. RunCpu(d, over) = e
    BY <1>6 DEF RunCpu, r
  <2>2. Ahead(r) < 0
    BY <1>2, <1>6
  <2>3. c = r.stop_clk + over \/ c = r.stop_clk + over - (Half + Half)
    <3>1. CASE r.stop_clk + over < Half + Half
      <4>1. r.stop_clk + over \in Clock
        BY <1>3, <1>4, <3>1 DEF Clock
      <4> QED
        BY <4>1, WrapFacts
    <3>2. CASE r.stop_clk + over >= Half + Half
      <4>1. /\ r.stop_clk + over \in Int /\ r.stop_clk + over >= CLOCK_MAX + 1
            /\ r.stop_clk + over < 2 * (CLOCK_MAX + 1)
        BY <1>3, <1>4, <3>2 DEF Clock
      <4>2. c = (r.stop_clk + over) - (CLOCK_MAX + 1)
        BY <4>1, WrapFacts
      <4>3. (r.stop_clk + over) - (CLOCK_MAX + 1) = r.stop_clk + over - (Half + Half)
        BY <1>3, <1>4
      <4> QED
        BY <4>2, <4>3
    <3> QED
      BY <1>3, <1>4, <3>1, <3>2
  <2>4. x = over - Ahead(r)
    <3> DEFINE z == r.stop_clk + over - r.clk
    <3>1. z = over - Ahead(r) \/ z = over - Ahead(r) - (Half + Half)
      BY <1>3, <1>4, <2>2 DEF Clock
    <3>2. over - Ahead(r) \in Clock
      BY <1>3, <1>4, <2>2 DEF Clock
    <3>3. CASE z = over - Ahead(r)
      BY <3>2, <3>3, WrapFacts
    <3>4. CASE z = over - Ahead(r) - (Half + Half)
      <4> DEFINE y == over - Ahead(r)
      <4>1. y \in Int /\ 0 <= y /\ y < Half + Half
        BY <1>3, <1>4, <3>2 DEF Clock
      <4>2. z = y - (Half + Half)
        BY <1>3, <1>4, <3>4
      <4> HIDE DEF y, z
      <4>3. z \in Int /\ z < 0 /\ z >= -(CLOCK_MAX + 1) /\ z + (CLOCK_MAX + 1) = y
        BY <1>4, <4>1, <4>2
      <4>4. Wrap(z) = y
        BY <4>3, WrapFacts
      <4> QED
        BY <4>4 DEF y, z
    <3> QED
      BY <3>1, <3>3, <3>4
  <2>5. c \in Clock /\ x \in Int
    BY <1>3, <1>4, <2>4, WrapFacts
  <2>6. w \in -DueBound .. DueBound /\ w \in Int /\ (w >= r.due - x \/ w = DueBound)
    BY <1>3, <1>4, <2>5, CappedFacts
  <2> HIDE DEF c, x, w
  <2>7. /\ e \in Drive /\ e.clk = c /\ e.due = w /\ e.stop_clk = r.stop_clk /\ e.reset = r.reset
    BY <1>1, <2>5, <2>6 DEF Drive
  <2> HIDE DEF e
  <2>8. c - r.stop_clk = over \/ c - r.stop_clk = over - (Half + Half)
    BY <1>3, <1>4, <2>3
  <2>9. Ahead(e) = over
    BY <1>3, <1>4, <2>5, <2>7, <2>8, SignedIs DEF Ahead
  <2>10. w >= -over /\ w >= -(MaxCycles + 6)
    BY <1>1, <1>3, <1>4, <2>2, <2>4, <2>6
  <2>11. ~e.reset
    BY <1>1, <1>3, <2>2, <2>7
  <2> QED
    BY <1>4, <2>1, <2>7, <2>9, <2>10, <2>11 DEF Square
<1> QED
  BY <1>5, <1>6

\* A drive that is run up to now keeps its balance.
LEMMA ExecuteSquare ==
  ASSUME NEW d \in Drive, Square(d), NEW now \in Clock, now - d.last_clk = d.lag,
         d.lag <= FrameCycles, NEW over \in 0 .. MaxCycles - 1
  PROVE  Square(drivecpu_execute(d, now, now, over))
<1> DEFINE w == drivecpu_wake_up(d, now)  g == Grant(w, now)  r == RunCpu(g, over)
<1>1. /\ w \in Drive /\ w.stop_clk = d.stop_clk /\ w.clk = d.clk /\ w.reset = d.reset /\ w.due = d.due
      /\ w = d \/ (w.last_clk = now /\ w.lag = 0)
  BY WakeUpFacts
<1> HIDE DEF w
<1>2. Square(w)
  BY <1>1 DEF Square, Ahead
<1>3. ClocksToEmulate(w, now) = w.lag /\ w.lag <= FrameCycles
  <2>1. now \in Nat /\ d.last_clk \in Nat /\ d.lag \in Nat /\ FrameCycles \in Nat
    BY DriveNumbers, Constants DEF Clock
  <2> QED
    BY <1>1, <2>1 DEF ClocksToEmulate
<1>4. g \in Drive /\ Owing(g)
  BY <1>1, <1>2, <1>3, GrantFacts, GrantOwing
<1> HIDE DEF g
<1>5. r \in Drive /\ Square(r)
  BY <1>4, RunCpuFacts, RunSquare
<1>6. drivecpu_execute(d, now, now, over) = [r EXCEPT !.last_clk = now]
  BY DEF drivecpu_execute, w, g
<1> DEFINE e == [r EXCEPT !.last_clk = now]
<1> HIDE DEF r
<1>7. e.clk = r.clk /\ e.stop_clk = r.stop_clk /\ e.reset = r.reset /\ e.due = r.due
  BY <1>5 DEF Drive
<1> HIDE DEF e
<1>8. Square(e)
  BY <1>5, <1>7 DEF Square, Ahead
<1> QED
  BY <1>6, <1>8 DEF e

\* After its own subtraction a drive stands ahead of what it was given, and waits.
LEMMA OwnSquare ==
  ASSUME NEW d \in Drive, Square(d)
  PROVE  Square(OwnSubtraction(d))
<1> DEFINE c == d.clk - DriveGuard!clk_guard_clock_sub  e == [d EXCEPT !.clk = c]
           t == Ahead(d) + 1 + 2 * CLKGUARD_SUB_MIN
<1>1. /\ d.clk \in Clock /\ d.stop_clk \in Clock /\ d.clk \in Nat /\ d.stop_clk \in Nat
      /\ d.due \in Int /\ Ahead(d) \in Int /\ 0 <= Ahead(d)
      /\ d.due >= -Ahead(d) /\ d.due >= -(MaxCycles + 6)
      /\ \/ d.clk - d.stop_clk = Ahead(d) \/ d.clk - d.stop_clk = Ahead(d) + Half + Half
         \/ d.clk - d.stop_clk = Ahead(d) - (Half + Half)
  BY DriveNumbers DEF Square
<1>2. /\ Half \in Nat /\ CLOCK_MAX + 1 = Half + Half /\ CLOCK_MAX \in Nat /\ MaxCycles \in Nat
      /\ ClkMaxValue \in Nat /\ CLKGUARD_SUB_MIN \in Nat \ {0}
      /\ ClkMaxValue + CLKGUARD_SUB_MIN = CLOCK_MAX /\ ClkMaxValue >= 3 * CLKGUARD_SUB_MIN
      /\ 2 * CLKGUARD_SUB_MIN + MaxCycles < Half
  BY HalfFacts, Constants
<1>3. OwnSubtraction(d) = IF d.clk >= ClkMaxValue THEN e ELSE d
  BY DEF OwnSubtraction, NeedsSubtraction
<1>4. CASE d.clk < ClkMaxValue
  BY <1>1, <1>2, <1>3, <1>4
<1>5. CASE d.clk >= ClkMaxValue
  <2>1. c = d.clk - (ClkMaxValue - CLKGUARD_SUB_MIN)
    BY SubBounds
  <2> HIDE DEF c
  <2>2. c \in Nat /\ c \in Clock /\ c < ClkMaxValue
    BY <1>1, <1>2, <1>5, <2>1 DEF Clock
  <2>3. Ahead(d) < MaxCycles /\ ~d.reset
    BY <1>1, <1>2, <1>5 DEF Square
  <2>4. e.clk = c /\ e.stop_clk = d.stop_clk /\ e.due = d.due /\ e.reset = d.reset
    BY DEF Drive
  <2>5. t \in Int /\ -Half <= t /\ t < Half /\ 0 <= t /\ t >= Ahead(d)
    BY <1>1, <1>2, <2>3
  <2>6. \/ c - d.stop_clk = t \/ c - d.stop_clk = t - (Half + Half)
        \/ c - d.stop_clk = t - (Half + Half + Half + Half)
    BY <1>1, <1>2, <2>1, <2>2
  <2>7. Signed(c - d.stop_clk) = t
    BY <1>1, <2>2, <2>5, <2>6, SignedIs
  <2> HIDE DEF e, t
  <2>8. Ahead(e) = t
    BY <2>4, <2>7 DEF Ahead
  <2>9. e.due >= -t /\ e.due >= -(MaxCycles + 6)
    BY <1>1, <1>2, <2>4, <2>5
  <2> QED
    BY <1>2, <1>3, <1>5, <2>2, <2>3, <2>4, <2>5, <2>8, <2>9 DEF Square
<1> QED
  BY <1>1, <1>2, <1>4, <1>5

\* All drives are on, kept up to date by the frames, and square.
AccountInv ==
  /\ MirrorInv
  /\ \A n \in Drives : drv[n].enable /\ drv[n].lag <= frame /\ Square(drv[n])

\* With all drives on and no guard at work the mirror is a plain equation.
LEMMA AccountNumbers ==
  ASSUME AccountInv
  PROVE  /\ DriveInv /\ maincpu_clk \in Clock /\ maincpu_clk \in Nat /\ drv \in [Drives -> Drive]
         /\ frame \in Nat /\ frame <= FrameCycles
         /\ guard = Idle => \A n \in Drives : maincpu_clk - drv[n].last_clk = drv[n].lag
<1>1. DriveInv /\ MirrorInv
  BY DEF AccountInv, MirrorInv
<1>2. guard = Idle => \A n \in Drives : maincpu_clk - drv[n].last_clk = drv[n].lag
  BY <1>1, MirrorNumbers, AtRest DEF AccountInv, MirrorInv
<1> QED
  BY <1>1, <1>2, MirrorNumbers, Constants DEF DriveInv, TypeOK

\* Running the main CPU changes no drive but its lag.
LEMMA MainRunsAccount ==
  ASSUME AccountInv, NEW k \in 1 .. FrameCycles, MainRuns(k)
  PROVE  AccountInv'
<1>1. MirrorInv'
  BY MainRunsMirror DEF AccountInv
<1>2. /\ drv \in [Drives -> Drive] /\ frame' = frame + k /\ frame \in Nat /\ k \in Nat
      /\ drv' = [d \in Drives |-> [drv[d] EXCEPT !.lag = IF drv[d].enable THEN @ + k ELSE 0]]
  BY AccountNumbers, Constants DEF MainRuns
<1>3. ASSUME NEW n \in Drives
      PROVE  drv'[n].enable /\ drv'[n].lag <= frame' /\ Square(drv'[n])
  <2>1. drv[n] \in Drive /\ drv[n].enable /\ drv[n].lag <= frame /\ Square(drv[n]) /\ drv[n].lag \in Nat
    BY <1>2, DriveNumbers DEF AccountInv
  <2>2. drv'[n] = [drv[n] EXCEPT !.lag = drv[n].lag + k]
    BY <1>2, <2>1
  <2>3. /\ drv'[n].enable = drv[n].enable /\ drv'[n].lag = drv[n].lag + k
        /\ drv'[n].clk = drv[n].clk /\ drv'[n].stop_clk = drv[n].stop_clk
        /\ drv'[n].reset = drv[n].reset /\ drv'[n].due = drv[n].due
    BY <2>1, <2>2 DEF Drive
  <2>4. Square(drv'[n])
    BY <2>1, <2>3 DEF Square, Ahead
  <2>5. frame' = frame + k /\ frame \in Nat /\ k \in Nat
    BY <1>2
  <2>6. drv[n].lag + k <= frame + k
    BY <2>1, <2>5
  <2> QED
    BY <2>1, <2>3, <2>4, <2>5, <2>6
<1> QED
  BY <1>1, <1>3 DEF AccountInv

\* A bus access runs every drive up to now.
LEMMA BusAccessAccount ==
  ASSUME AccountInv, BusAccess
  PROVE  AccountInv'
<1>1. MirrorInv'
  BY BusAccessMirror DEF AccountInv
<1>2. PICK over \in Overshoot : drv' = drivecpu_execute_all(drv, maincpu_clk, maincpu_clk, over)
  BY DEF BusAccess
<1>3. guard = Idle /\ frame' = frame
  BY DEF BusAccess
<1>4. ASSUME NEW n \in Drives
      PROVE  drv'[n].enable /\ drv'[n].lag <= frame' /\ Square(drv'[n])
  <2>1. /\ drv[n] \in Drive /\ drv[n].enable /\ drv[n].lag <= FrameCycles /\ Square(drv[n])
        /\ maincpu_clk \in Clock /\ maincpu_clk - drv[n].last_clk = drv[n].lag
        /\ frame \in Nat /\ FrameCycles \in Nat
    <3>1. drv[n].enable /\ drv[n].lag <= frame /\ Square(drv[n])
      BY DEF AccountInv
    <3>2. /\ drv[n] \in Drive /\ maincpu_clk \in Clock /\ frame \in Nat /\ frame <= FrameCycles
          /\ maincpu_clk - drv[n].last_clk = drv[n].lag
      BY <1>3, AccountNumbers
    <3>3. drv[n].lag \in Nat /\ FrameCycles \in Nat
      BY <3>2, DriveNumbers, Constants
    <3>4. drv[n].lag <= FrameCycles
      BY <3>1, <3>2, <3>3
    <3> QED
      BY <3>1, <3>2, <3>3, <3>4
  <2>2. drv'[n] = drivecpu_execute(drv[n], maincpu_clk, maincpu_clk, over[n])
    BY <1>2, <2>1 DEF drivecpu_execute_all
  <2>3. over[n] \in 0 .. MaxCycles - 1
    BY DEF Overshoot
  <2>4. drv'[n].enable /\ drv'[n].lag = 0
    BY <2>1, <2>2, <2>3, ExecuteFacts
  <2>5. Square(drv'[n])
    BY <2>1, <2>2, <2>3, ExecuteSquare
  <2> QED
    BY <1>3, <2>1, <2>4, <2>5
<1> QED
  BY <1>1, <1>4 DEF AccountInv

\* So does the end of a frame, as no drive skips.
LEMMA VsyncAccount ==
  ASSUME AccountInv, machine_vsync_hook, Skippers = {}
  PROVE  AccountInv'
<1>1. MirrorInv'
  BY VsyncMirror DEF AccountInv
<1>2. PICK over \in Overshoot : drv' = drive_vsync_hook(drv, maincpu_clk, over)
  BY DEF machine_vsync_hook
<1>3. guard = Idle /\ frame' = 0
  BY DEF machine_vsync_hook
<1>4. ASSUME NEW n \in Drives
      PROVE  drv'[n].enable /\ drv'[n].lag <= frame' /\ Square(drv'[n])
  <2>1. /\ drv[n] \in Drive /\ drv[n].enable /\ drv[n].lag <= FrameCycles /\ Square(drv[n])
        /\ maincpu_clk \in Clock /\ maincpu_clk - drv[n].last_clk = drv[n].lag
    <3>1. drv[n].enable /\ drv[n].lag <= frame /\ Square(drv[n])
      BY DEF AccountInv
    <3>2. /\ drv[n] \in Drive /\ maincpu_clk \in Clock /\ frame \in Nat /\ frame <= FrameCycles
          /\ maincpu_clk - drv[n].last_clk = drv[n].lag
      BY <1>3, AccountNumbers
    <3>3. drv[n].lag \in Nat /\ FrameCycles \in Nat
      BY <3>2, DriveNumbers, Constants
    <3>4. drv[n].lag <= FrameCycles
      BY <3>1, <3>2, <3>3
    <3> QED
      BY <3>1, <3>2, <3>3, <3>4
  <2>2. drv'[n] = drivecpu_execute(drv[n], maincpu_clk, maincpu_clk, over[n])
    BY <1>2, <2>1 DEF drive_vsync_hook
  <2>3. over[n] \in 0 .. MaxCycles - 1
    BY DEF Overshoot
  <2>4. drv'[n].enable /\ drv'[n].lag = 0
    BY <2>1, <2>2, <2>3, ExecuteFacts
  <2>5. Square(drv'[n])
    BY <2>1, <2>2, <2>3, ExecuteSquare
  <2> QED
    BY <1>3, <2>4, <2>5
<1> QED
  BY <1>1, <1>4 DEF AccountInv

\* While the guard is at work nothing lags, so that nobody has to be caught up.
LEMMA PreventAccount ==
  ASSUME AccountInv, drivecpu_prevent_clk_overflow_all
  PROVE  AccountInv'
<1> DEFINE n == guard.next  sub == guard.sub  now == maincpu_clk
<1>1. MirrorInv'
  BY PreventMirror DEF AccountInv
<1>2. /\ DriveInv /\ drv \in [Drives -> Drive] /\ now \in Nat /\ sub \in Nat /\ n \in Drives
      /\ frame = 0 /\ frame' = 0 /\ now \in Clock /\ sub \in Clock /\ now + sub \in Clock
  <2>1. DriveInv /\ drv \in [Drives -> Drive] /\ now \in Nat
    BY AccountNumbers
  <2>2. n \in Drives /\ frame' = frame /\ sub \in Nat
    BY <2>1, PreventFacts, MirrorNumbers
  <2>3. n # DRIVE_NUM
    BY <2>2, Constants DEF Drives
  <2>4. frame = 0 /\ now \in Clock /\ sub \in Clock /\ now + sub \in Clock
    BY <2>1, <2>3 DEF DriveInv, TypeOK
  <2> QED
    BY <2>1, <2>2, <2>4
<1>3. \A m \in Drives : drv[m].enable /\ drv[m].lag = 0 /\ Square(drv[m])
  <2>1. \A m \in Drives : drv[m].enable /\ drv[m].lag <= 0 /\ Square(drv[m])
    BY <1>2 DEF AccountInv
  <2> QED
    BY <1>2, <2>1, DriveNumbers
<1>4. drv[n].last_clk = now + sub
  <2>1. Pending(guard, n) = sub
    BY <1>2, PendingStep
  <2>2. now + sub - drv[n].last_clk = drv[n].lag
    BY <1>2, <1>3, <2>1 DEF AccountInv, MirrorInv, InStep
  <2>3. drv[n].last_clk \in Nat
    BY <1>2, DriveNumbers
  <2> QED
    BY <1>2, <1>3, <2>2, <2>3
<1>5. PICK over \in Overshoot :
        LET es == FollowSubtraction(drv, n, now, sub, over) IN
        /\ es \in [Drives -> Drive]
        /\ drv'[n] = OwnSubtraction(es[n]) /\ \A m \in Drives \ {n} : drv'[m] = es[m]
  BY <1>2, PreventFacts
<1> DEFINE es == FollowSubtraction(drv, n, now, sub, over)
<1>6. \A m \in Drives : /\ es[m] \in Drive /\ es[m].enable /\ es[m].lag = 0 /\ Square(es[m])
  <2>1. CASE sub = 0
    BY <1>2, <1>3, <2>1 DEF FollowSubtraction
  <2>2. CASE sub # 0
    <3>1. ~(drv[n].last_clk < sub)
      BY <1>2, <1>4
    <3> HIDE DEF n, sub, now
    <3>2. /\ es \in [Drives -> Drive]
          /\ es[n] = [drv[n] EXCEPT !.last_clk = drv[n].last_clk - sub]
          /\ \A m \in Drives \ {n} : es[m] = drv[m]
      BY <1>2, <1>3, <2>2, <3>1, FollowFacts
    <3> HIDE DEF es
    <3>3. /\ es[n].enable = drv[n].enable /\ es[n].lag = drv[n].lag /\ es[n].clk = drv[n].clk
          /\ es[n].stop_clk = drv[n].stop_clk /\ es[n].reset = drv[n].reset /\ es[n].due = drv[n].due
      BY <1>2, <3>2 DEF Drive
    <3>4. Square(es[n])
      BY <1>2, <1>3, <3>3 DEF Square, Ahead
    <3> QED
      BY <1>2, <1>3, <3>2, <3>3, <3>4
  <2> QED
    BY <2>1, <2>2
<1> HIDE DEF es
<1>7. \A m \in Drives : drv'[m].enable /\ drv'[m].lag = 0 /\ Square(drv'[m])
  <2>1. /\ OwnSubtraction(es[n]).enable /\ OwnSubtraction(es[n]).lag = 0
        /\ Square(OwnSubtraction(es[n]))
    BY <1>2, <1>6, OwnSubtractionFacts, OwnSquare
  <2>2. drv'[n] = OwnSubtraction(es[n]) /\ \A m \in Drives \ {n} : drv'[m] = es[m]
    BY <1>5 DEF es
  <2> QED
    BY <1>6, <2>1, <2>2
<1>8. \A m \in Drives : drv'[m].lag <= frame'
  BY <1>2, <1>7
<1> QED
  BY <1>1, <1>7, <1>8 DEF AccountInv

\* A clock that was set to 0 together with its end is square.
LEMMA NewSquare ==
  ASSUME NEW d, d.clk = 0, d.stop_clk = 0, d.due = 0
  PROVE  Square(d)
<1>1. 0 \in Clock /\ 0 - 0 = 0 /\ Half \in Nat /\ 7 <= Half /\ MaxCycles \in Nat \ {0}
      /\ 6 < ClkMaxValue /\ ClkMaxValue \in Nat
  BY HalfFacts, Constants DEF Clock
<1>2. Signed(0 - 0) = 0
  BY <1>1, SignedIs
<1>3. Ahead(d) = 0
  BY <1>2 DEF Ahead
<1> QED
  BY <1>1, <1>3 DEF Square

\* The drives begin square.
LEMMA InitAccount == Init => AccountInv
<1> SUFFICES ASSUME Init PROVE AccountInv
  OBVIOUS
<1>1. MirrorInv
  BY InitMirror
<1>2. \A n \in Drives : /\ drv[n].enable /\ drv[n].lag = 0 /\ drv[n].clk = 0 /\ drv[n].stop_clk = 0
                        /\ drv[n].due = 0
  BY DEF Init
<1>3. frame = 0
  BY DEF Init
<1> QED
  BY <1>1, <1>2, <1>3, NewSquare DEF AccountInv

\* And are square again after a reset.
LEMMA MachineResetAccount ==
  ASSUME AccountInv, machine_reset, MirrorInv'
  PROVE  AccountInv'
<1>1. /\ frame' = frame /\ frame \in Nat
      /\ \A n \in Drives : /\ drv'[n].enable /\ drv'[n].lag = 0 /\ drv'[n].clk = 0
                           /\ drv'[n].stop_clk = 0 /\ drv'[n].due = 0
  BY AccountNumbers, MachineResetFacts DEF AccountInv
<1>2. \A n \in Drives : Square(drv'[n]) /\ drv'[n].lag <= frame'
  BY <1>1, NewSquare
<1> QED
  BY <1>1, <1>2 DEF AccountInv

\* While true drive emulation is never switched, the drives are kept up to date by the
\* frames and nobody resets a drive alone, every cycle is counted once and no drive
\* executes what the main CPU has not lived through: drivecpu.c:326 sets the clocks back
\* drive by drive, and a drive's own guard moves its clock but not stop_clk.
THEOREM CyclesStayAccounted ==
  ASSUME Skippers = {}, Events \subseteq {"reset"}
  PROVE  Spec => []CyclesAccounted
<1>1. Init => AccountInv
  BY InitAccount
<1>2. AccountInv /\ [Next]_vars => AccountInv'
  <2> SUFFICES ASSUME AccountInv, [Next]_vars PROVE AccountInv'
    OBVIOUS
  <2>1. CASE \E k \in 1 .. FrameCycles : MainRuns(k)
    BY <2>1, MainRunsAccount
  <2>2. CASE machine_vsync_hook
    BY <2>2, VsyncAccount
  <2>3. CASE drivecpu_prevent_clk_overflow_all
    BY <2>3, PreventAccount
  <2>4. CASE BusAccess
    BY <2>4, BusAccessAccount
  <2>5. CASE machine_reset
    <3>1. MirrorInv'
      BY <2>5, MachineResetMirror DEF AccountInv
    <3> QED
      BY <2>5, <3>1, MachineResetAccount
  <2>6. CASE \E k \in Drives : drivecpu_trigger_reset(k)
    BY <2>6 DEF drivecpu_trigger_reset
  <2>7. CASE \E val \in BOOLEAN : set_drive_true_emulation(val)
    BY <2>7 DEF set_drive_true_emulation
  <2>8. CASE UNCHANGED vars
    <3>1. MirrorInv'
      BY <2>8 DEF vars, MirrorInv, DriveInv, TypeOK, AccountInv
    <3> QED
      BY <2>8, <3>1 DEF vars, AccountInv
  <2> QED
    BY <2>1, <2>2, <2>3, <2>4, <2>5, <2>6, <2>7, <2>8 DEF Next, Advance
<1>3. AccountInv => CyclesAccounted
  <2> SUFFICES ASSUME AccountInv PROVE CyclesAccounted
    OBVIOUS
  <2>1. LastClkMirrorsMain
    BY MirrorNumbers, AtRest DEF AccountInv, MirrorInv, LastClkMirrorsMain
  <2>2. NeverAhead
    BY DEF AccountInv, Square, NeverAhead
  <2> QED
    BY <2>1, <2>2 DEF CyclesAccounted
<1> QED
  BY <1>1, <1>2, <1>3, PTL DEF Spec
=============================================================================
