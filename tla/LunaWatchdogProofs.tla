------------------------- MODULE LunaWatchdogProofs -------------------------
(***************************************************************************)
(* The watchdog's two promises for any number of CPUs and any times: a     *)
(* healthy board is not reset, a board with a CPU that hangs is.           *)
(*                                                                         *)
(* The argument.  A healthy CPU whose bit is not set sets it at most one   *)
(* period and delay after the last kick (Touches), so CPU 0 fails its test *)
(* at most until then, and tests again one period later (Tests).  Hence a  *)
(* kick comes at most 2 * (PMax + Late) after the one before it, or never  *)
(* again: once a CPU that hangs has lost its bit, it stays lost (Hangs).   *)
(***************************************************************************)
EXTENDS LunaWatchdog, TLAPS

K == 2 * (PMax + Late)

\* The tasks: all there while the hardware is enabled.
Tasks ==
    /\ pWatchdogTask \in [Cpus -> {"none", "run"}]
    /\ pc # "dead"
    /\ pc \in {"create", "disable", "idle"} =>
         \/ \A c \in Cpus : pWatchdogTask[c] = "run"
         \/ \A c \in Cpus : pWatchdogTask[c] = "none"
    /\ pc = "enable" => \A c \in Cpus : pWatchdogTask[c] = "run"
    /\ wdt_e => \A c \in Cpus : pWatchdogTask[c] = "run"
    /\ wdt_e => pc \notin {"others", "stop"}
    /\ wdt_e /\ pc # "disable" => watchdog_flag
    /\ op = "boot" /\ ~wdt_e => count = 0
    /\ pc \in {"disable", "stop"} => op = "off"
    /\ op = "boot" /\ ~reset /\ wdt_e => pc = "idle"

Types ==
    /\ TypeOK
    /\ due \in [Cpus -> (- Late) .. PMax]

StuckBit == \E c \in hung : c # 0 /\ c \notin wtd_count

Touches ==
    wdt_e /\ ~reset /\ watchdog_flag =>
      \A c \in Cpus \ hung : c # 0 /\ c \notin wtd_count => count + due[c] <= PMax

Tests ==
    wdt_e /\ ~reset /\ 0 \notin hung /\ (watchdog_flag \/ kicking) =>
      count + due[0] <= 2 * PMax + Late \/ StuckBit

Kicks == kicking => AllTouched

Hangs ==
    /\ hung = {} \/ ~wdt_e => since = 0
    /\ wdt_e /\ ~reset => count < Timeout
    /\ wdt_e /\ ~reset =>
         \/ since <= count
         \/ /\ 0 \in hung \/ StuckBit \/ (~watchdog_flag /\ ~kicking)
            /\ since <= count + K
    /\ reset => since <= Timeout + K

IInv == Types /\ Tasks /\ Touches /\ Tests /\ Kicks /\ Hangs /\ HealthyNotReset

\* What the two theorems assume of the times and of kthread_create.
Assumed == Timeout > K /\ ~MayFail

\* The initial states satisfy the inductive invariant.
LEMMA InitIInv == Assumed /\ Init => IInv
<1> SUFFICES ASSUME Assumed, Init PROVE IInv
  OBVIOUS
<1> USE LunaWatchdogAssumption DEF Init, Assumed, K
<1>1. Types
  <2>1. 0 \in (- Late) .. PMax /\ 0 \in Int /\ 0 \in Nat
    OBVIOUS
  <2> QED
    BY <2>1, Zenon DEF Types, TypeOK
<1>2. Tasks
  BY DEF Tasks
<1>3. Touches /\ Tests /\ Kicks /\ Hangs /\ HealthyNotReset
  BY DEF Touches, Tests, Kicks, Hangs, HealthyNotReset
<1> QED
  BY <1>1, <1>2, <1>3 DEF IInv

\* Every step preserves it.
LEMMA StepIInv == Assumed /\ IInv /\ [Next]_vars => IInv'
<1> SUFFICES ASSUME Assumed, IInv, [Next]_vars PROVE IInv'
  OBVIOUS
<1> USE LunaWatchdogAssumption DEF Assumed, IInv, K
<1>0. /\ PMax \in Int /\ Late \in Int /\ Timeout \in Int /\ Late >= 0 /\ PMax >= 0
      /\ \A p \in Periods : p \in Int /\ 0 <= p /\ p <= PMax
      /\ 0 \in Cpus
  BY DEF Cpus
<1>1. CASE \E c \in Cpus : Touch(c)
  BY <1>1, <1>0 DEF Touch, Runs, Bit, Types, TypeOK, Tasks, Touches, Tests, Kicks, Hangs,
         HealthyNotReset, StuckBit, AllTouched, thread, hw
<1>2. CASE \E c \in Cpus : Hang(c)
  BY <1>2, <1>0 DEF Hang, Types, TypeOK, Tasks, Touches, Tests, Kicks, Hangs,
         HealthyNotReset, StuckBit, AllTouched, thread, hw
<1>3. CASE Check
  <2> USE <1>3, <1>0 DEF Check, Runs, hw
  <2>1. Types'
    <3>1. due' \in [Cpus -> (- Late) .. PMax]
      <4>1. kick_wdg_time \in (- Late) .. PMax
        BY DEF Types, TypeOK
      <4> QED
        BY <4>1 DEF Types
    <3>2. due' \in [Cpus -> Int]
      BY <3>1
    <3> QED
      BY <3>1, <3>2, Zenon DEF Types, TypeOK
  <2>2. Tasks' /\ Touches' /\ Kicks' /\ HealthyNotReset'
    BY DEF Types, TypeOK, Tasks, Touches, Kicks, HealthyNotReset, AllTouched
  <2>3. Hangs'
    BY DEF Types, TypeOK, Hangs, StuckBit
  <2>4. Tests'
    <3>1. CASE watchdog_flag /\ AllTouched
      BY <3>1 DEF Tests, StuckBit
    <3>2. CASE ~watchdog_flag
      BY <3>2 DEF Tests
    \* The CPU whose bit is missing hangs, or will set it in time.
    <3>3. CASE watchdog_flag /\ ~AllTouched
      <4> SUFFICES ASSUME wdt_e, ~reset, ~StuckBit
                   PROVE  count + due'[0] <= 2 * PMax + Late
        BY DEF Tests, StuckBit
      <4>1. PICK c \in Cpus \ hung : c # 0 /\ c \notin wtd_count
        BY <3>3 DEF AllTouched, StuckBit
      <4>2. count + due[c] <= PMax /\ due[c] \in Int /\ due[c] >= - Late /\ count \in Int
        BY <3>3, <4>1 DEF Touches, Types, TypeOK
      <4>3. due'[0] = kick_wdg_time /\ kick_wdg_time \in Int /\ kick_wdg_time <= PMax
        BY <3>3 DEF Types, TypeOK
      <4> QED
        BY <4>2, <4>3
    <3> QED
      BY <3>1, <3>2, <3>3
  <2> QED
    BY <2>1, <2>2, <2>3, <2>4
<1>4. CASE Kick
  <2> USE <1>4, <1>0 DEF Kick, Runs, Cleared, hw
  <2>1. Types'
    <3>1. due' \in [Cpus -> (- Late) .. PMax]
      <4>1. kick_wdg_time \in (- Late) .. PMax
        BY DEF Types, TypeOK
      <4> QED
        BY <4>1 DEF Types
    <3>2. due' \in [Cpus -> Int]
      BY <3>1
    <3> QED
      BY <3>1, <3>2, ZenonT(30) DEF Types, TypeOK
  <2>2. Tasks' /\ Kicks' /\ HealthyNotReset'
    BY DEF Types, TypeOK, Tasks, Kicks, HealthyNotReset
  <2>3. Touches' /\ Tests'
    BY DEF Types, TypeOK, Touches, Tests, StuckBit
  \* A CPU that hangs loses its bit here for good.
  <2>4. Hangs'
    <3>1. ~StuckBit /\ 0 \notin hung
      BY DEF Kicks, AllTouched, StuckBit, Types, TypeOK
    <3>2. hung # {} => StuckBit'
      BY <3>1 DEF StuckBit
    <3>3. wdt_e /\ ~reset => since <= count /\ count + due[0] <= 2 * PMax + Late
      BY <3>1 DEF Hangs, Tests
    <3>4. count \in Int /\ since \in Int /\ due[0] \in Int /\ due[0] >= - Late
      BY DEF Types, TypeOK
    <3>5. wdt_e /\ ~reset => since <= 0 + K
      BY <3>3, <3>4
    <3>6. wdt_e' /\ ~reset' => \/ since' <= count'
                               \/ StuckBit' /\ since' <= count' + K
      BY <3>2, <3>5, <3>4 DEF Hangs
    <3> QED
      BY <3>4, <3>6 DEF Hangs
  <2> QED
    BY <2>1, <2>2, <2>3, <2>4
<1>5. CASE \E on \in BOOLEAN : Write(on)
  BY <1>5, <1>0 DEF Write, Types, TypeOK, Tasks, Touches, Tests, Kicks, Hangs,
         HealthyNotReset, StuckBit, AllTouched, thread, hw
<1>6. CASE \E on \in BOOLEAN : CreateMain(on)
  BY <1>6, <1>0 DEF CreateMain, Types, TypeOK, Tasks, Touches, Tests, Kicks, Hangs,
         HealthyNotReset, StuckBit, AllTouched, thread, hw
<1>7. CASE \E on \in BOOLEAN, c \in Cpus : CreateOther(c, on)
  BY <1>7, <1>0 DEF CreateOther, Types, TypeOK, Tasks, Touches, Tests, Kicks, Hangs,
         HealthyNotReset, StuckBit, AllTouched, thread, hw
<1>8. CASE \E p \in Periods : WriteKickTime(p)
  BY <1>8, <1>0 DEF WriteKickTime, Types, TypeOK, Tasks, Touches, Tests, Kicks, Hangs,
         HealthyNotReset, StuckBit, AllTouched, thread, hw
<1>9. CASE Created
  BY <1>9, <1>0 DEF Created, Types, TypeOK, Tasks, Touches, Tests, Kicks, Hangs,
         HealthyNotReset, StuckBit, AllTouched, thread, hw
<1>10. CASE CreatedAll
  BY <1>10, <1>0 DEF CreatedAll, Types, TypeOK, Tasks, Touches, Tests, Kicks, Hangs,
         HealthyNotReset, StuckBit, AllTouched, thread, hw
<1>11. CASE Enable
  BY <1>11, <1>0 DEF Enable, CountAtEnable, Types, TypeOK, Tasks, Touches, Tests, Kicks, Hangs,
         HealthyNotReset, StuckBit, AllTouched, thread, hw
<1>12. CASE Disable
  BY <1>12, <1>0, Zenon DEF Disable, Types, TypeOK, Tasks, Touches, Tests, Kicks, Hangs,
         HealthyNotReset, StuckBit, AllTouched, thread, hw
<1>13. CASE \E c \in Cpus : StopTask(c)
  BY <1>13, <1>0 DEF StopTask, Types, TypeOK, Tasks, Touches, Tests, Kicks, Hangs,
         HealthyNotReset, StuckBit, AllTouched, thread, hw
<1>14. CASE Stopped
  BY <1>14, <1>0 DEF Stopped, Types, TypeOK, Tasks, Touches, Tests, Kicks, Hangs,
         HealthyNotReset, StuckBit, AllTouched, thread, hw
<1>15. CASE Tick
  BY <1>15, <1>0 DEF Tick, Runs, Types, TypeOK, Tasks, Touches, Tests, Kicks, Hangs,
         HealthyNotReset, StuckBit, AllTouched, thread, hw
<1>16. CASE Reboot
  <2> USE <1>16, <1>0 DEF Reboot
  <2>1. Types'
    <3>1. 0 \in (- Late) .. PMax /\ 0 \in Int /\ 0 \in Nat
      OBVIOUS
    <3> QED
      BY <3>1, Zenon DEF Types, TypeOK
  <2>2. Tasks'
    BY DEF Tasks
  <2>3. Touches' /\ Tests' /\ Kicks' /\ Hangs' /\ HealthyNotReset'
    BY DEF Touches, Tests, Kicks, Hangs, HealthyNotReset
  <2> QED
    BY <2>1, <2>2, <2>3
<1>17. CASE UNCHANGED vars
  BY <1>17 DEF vars, Types, TypeOK, Tasks, Touches, Tests, Kicks, Hangs,
         HealthyNotReset, StuckBit, AllTouched, thread, hw
<1> QED
  BY <1>1, <1>2, <1>3, <1>4, <1>5, <1>6, <1>7, <1>8, <1>9, <1>10, <1>11, <1>12, <1>13, <1>14, <1>15, <1>16,
     <1>17, SMTT(30) DEF Next, Proc

\* Hence every reachable state satisfies it.
LEMMA AlwaysIInv == ASSUME Assumed PROVE Spec => []IInv
<1>1. Init => IInv
  BY InitIInv
<1>2. IInv /\ [Next]_vars => IInv'
  BY StepIInv
<1> QED
  BY <1>1, <1>2, PTL DEF Spec

\* luna_watchdog.c never resets a board whose CPUs all run, for any number of
\* CPUs, any periods and delays and any writes to the proc files, if the
\* timeout is longer than two of the largest periods and delays and
\* kthread_create succeeds.
THEOREM HealthyNotResetHolds == ASSUME Assumed PROVE Spec => []HealthyNotReset
<1>1. IInv => HealthyNotReset
  BY DEF IInv
<1> QED
  BY <1>1, AlwaysIInv, PTL

\* Under the same assumptions a CPU that hangs, while the watchdog is enabled,
\* leads to a reset within the timeout and two periods and delays.
THEOREM HungIsResetHolds == ASSUME Assumed PROVE Spec => []HungIsReset
<1>1. IInv => HungIsReset
  BY LunaWatchdogAssumption DEF Assumed, IInv, Types, TypeOK, Hangs, HungIsReset, K
<1> QED
  BY <1>1, AlwaysIInv, PTL

\* Every step keeps every variable's type, whatever the times are and also
\* when kthread_create fails.
LEMMA StepTypes == TypeOK /\ [Next]_vars => TypeOK'
<1> SUFFICES ASSUME TypeOK, [Next]_vars PROVE TypeOK'
  OBVIOUS
<1>1. Periods \subseteq Int /\ 0 \in Cpus
  BY LunaWatchdogAssumption, SMT DEF Cpus
<1>2. ASSUME NEW c, NEW f, f \in [Cpus -> Int], NEW p \in Periods PROVE [f EXCEPT ![c] = p] \in [Cpus -> Int]
  BY <1>1, <1>2, Zenon
<1>3. ASSUME NEW c, NEW x \in {"none", "err", "run"}
      PROVE  [pWatchdogTask EXCEPT ![c] = x] \in [Cpus -> {"none", "err", "run"}]
  BY Zenon DEF TypeOK
<1> USE DEF TypeOK, thread, hw
<1>4. ASSUME NEW c \in Cpus, Touch(c) PROVE TypeOK'
  <2>1. due' \in [Cpus -> Int]
    BY <1>2, <1>4, Zenon DEF Touch
  <2>2. wtd_count' \subseteq Cpus
    BY <1>4, Zenon DEF Touch, Bit
  <2> QED
    BY <1>4, <2>1, <2>2, Zenon DEF Touch
<1>5. ASSUME NEW c \in Cpus, Hang(c) PROVE TypeOK'
  BY <1>5, Zenon DEF Hang
<1>6. CASE Check
  <2>1. due' \in [Cpus -> Int] /\ kicking' \in BOOLEAN
    <3>1. CASE watchdog_flag /\ AllTouched
      BY <1>6, <3>1, Zenon DEF Check
    <3>2. CASE ~(watchdog_flag /\ AllTouched)
      <4>1. due' = [due EXCEPT ![0] = kick_wdg_time] /\ kicking' = kicking
        BY <1>6, <3>2, Zenon DEF Check
      <4>2. due' \in [Cpus -> Int]
        BY <1>2, <4>1, Zenon
      <4> QED
        BY <4>1, <4>2, Zenon
    <3> QED
      BY <3>1, <3>2, Zenon
  <2> QED
    BY <1>6, <2>1, Zenon DEF Check
<1>7. CASE Kick
  <2>1. due' \in [Cpus -> Int] /\ count' \in Nat
    BY <1>2, <1>7, Zenon DEF Kick
  <2> QED
    BY <1>7, <2>1, Zenon DEF Kick, Cleared
<1>8. ASSUME NEW on \in BOOLEAN, Write(on) PROVE TypeOK'
  <2>1. writes' \in Nat
    BY <1>8, SMT DEF Write
  <2> QED
    BY <1>8, <2>1, Zenon DEF Write
<1>9. ASSUME NEW p \in Periods, WriteKickTime(p) PROVE TypeOK'
  <2>1. writes' \in Nat
    BY <1>9, SMT DEF WriteKickTime
  <2> QED
    BY <1>9, <2>1, Zenon DEF WriteKickTime
<1>10. ASSUME NEW ok \in BOOLEAN, CreateMain(ok) PROVE TypeOK'
  <2>1. pWatchdogTask' \in [Cpus -> {"none", "err", "run"}]
    BY <1>3, <1>10, Zenon DEF CreateMain
  <2> QED
    BY <1>10, <2>1, Zenon DEF CreateMain
<1>11. ASSUME NEW c \in Cpus, NEW ok \in BOOLEAN, CreateOther(c, ok) PROVE TypeOK'
  <2>1. pWatchdogTask' \in [Cpus -> {"none", "err", "run"}] /\ due' \in [Cpus -> Int]
    BY <1>2, <1>3, <1>11, Zenon DEF CreateOther
  <2> QED
    BY <1>11, <2>1, Zenon DEF CreateOther
<1>12. CASE Created \/ Disable \/ Stopped
  <2>1. CASE Created
    BY <2>1, Zenon DEF Created
  <2>2. CASE Disable
    <3>1. since' \in Nat
      BY <2>2, SMT DEF Disable
    <3> QED
      BY <2>2, <3>1, Zenon DEF Disable
  <2>3. CASE Stopped
    BY <2>3, Zenon DEF Stopped
  <2> QED
    BY <1>12, <2>1, <2>2, <2>3, Zenon
<1>13. CASE CreatedAll
  <2>1. due' \in [Cpus -> Int]
    BY <1>2, <1>13, Zenon DEF CreatedAll
  <2> QED
    BY <1>13, <2>1, Zenon DEF CreatedAll
<1>14. CASE Enable
  BY <1>14, Zenon DEF Enable, CountAtEnable
<1>15. ASSUME NEW c \in Cpus, StopTask(c) PROVE TypeOK'
  <2>1. pWatchdogTask' \in [Cpus -> {"none", "err", "run"}]
    BY <1>3, <1>15, Zenon DEF StopTask
  <2> QED
    BY <1>15, <2>1, Zenon DEF StopTask
<1>16. CASE Tick
  <2>1. due' \in [Cpus -> Int]
    BY <1>16, SMTT(30) DEF Tick
  <2>2. count' \in Nat /\ since' \in Nat
    BY <1>16, SMT DEF Tick
  <2> QED
    BY <1>16, <2>1, <2>2, Zenon DEF Tick
<1>17. CASE Reboot
  <2>1. due' \in [Cpus -> Int] /\ count' \in Nat /\ since' \in Nat
    BY <1>17, SMT DEF Reboot
  <2>2. pWatchdogTask' \in [Cpus -> {"none", "err", "run"}]
    BY <1>17, Zenon DEF Reboot
  <2> QED
    BY <1>17, <2>1, <2>2, Zenon DEF Reboot
<1>18. CASE UNCHANGED vars
  BY <1>18, Zenon DEF vars
<1> HIDE DEF TypeOK
<1> QED
  BY <1>4, <1>5, <1>6, <1>7, <1>8, <1>9, <1>10, <1>11, <1>12, <1>13, <1>14, <1>15, <1>16, <1>17,
     <1>18, ZenonT(30) DEF Next, Proc

\* Every variable of the watchdog threads, the proc files and the hardware
\* keeps its type: a bit of wtd_count is always that of a CPU.
THEOREM TypeOKHolds == Spec => []TypeOK
<1>1. Init => TypeOK
  <2>1. Init => due \in [Cpus -> Int] /\ count \in Nat /\ since \in Nat /\ writes \in Nat
    BY SMT DEF Init
  <2>2. Init => pWatchdogTask \in [Cpus -> {"none", "err", "run"}]
    BY Zenon DEF Init
  <2> QED
    BY <2>1, <2>2, Zenon DEF Init, TypeOK
<1> QED
  BY <1>1, StepTypes, PTL DEF Spec
=============================================================================
