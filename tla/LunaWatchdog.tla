---------------------------- MODULE LunaWatchdog ----------------------------
(***************************************************************************)
(* The watchdog threads (arch/mips/rtl9607c/luna_watchdog.c).  A thread on *)
(* each CPU sets its bit of wtd_count every kick_wdg_time seconds; the one *)
(* on CPU 0 kicks the hardware when all the others have.  The hardware     *)
(* resets the board when it is enabled and not kicked for Timeout.  The    *)
(* file watchdog_flag switches all of it on and off.                       *)
(*                                                                         *)
(* Time is counted in ticks.  A CPU that hangs runs nothing any more; one  *)
(* that does not runs a thread at most Late ticks after its sleep ends.    *)
(***************************************************************************)
EXTENDS Integers, FiniteSets

CONSTANTS
    NCPU,           \* online CPUs
    Timeout,        \* ticks of the hardware's timeout (PH1 and PH2)
    Periods,        \* values of kick_wdg_time
    PMax,           \* the largest of them
    Late,           \* scheduling delay of a healthy CPU
    MayHang,        \* CPUs that may hang
    MayFail,        \* whether kthread_create may fail
    MaxWrites       \* bound: writes to the proc files

Cpus == 0 .. NCPU - 1

ASSUME LunaWatchdogAssumption ==
    /\ NCPU \in Nat \ {0} /\ Timeout \in Nat /\ Late \in Nat /\ MaxWrites \in Nat
    /\ PMax \in Nat /\ Periods # {} /\ Periods \subseteq 0 .. PMax
    /\ MayHang \subseteq Cpus /\ MayFail \in BOOLEAN

VARIABLES
    watchdog_flag, kick_wdg_time,
    pWatchdogTask,  \* for each CPU "none" (NULL), "err" (an error) or "run"
    wtd_count,      \* the CPUs whose bit is set
    wdt_e,          \* WDT_E: the hardware counts
    count,          \* ticks since the last kick
    reset,          \* the hardware has reset the board
    due,            \* ticks until the thread's sleep ends; negative when late
    kicking,        \* CPU 0 is between the test and the clearing of the bits
    hung,           \* CPUs that hang
    since,          \* ticks of hanging under an enabled watchdog
    op, pc,         \* the write in progress and its place
    oops,           \* an error pointer was used as a task
    writes

thread == <<pWatchdogTask, due>>
hw == <<wdt_e, count, reset, since>>
vars == <<watchdog_flag, kick_wdg_time, wtd_count, thread, hw, kicking, hung, op, pc, oops,
          writes>>

Init ==
    /\ watchdog_flag = FALSE /\ kick_wdg_time \in Periods
    /\ pWatchdogTask = [c \in Cpus |-> "none"]
    /\ wtd_count = {} /\ wdt_e = FALSE /\ count = 0 /\ reset = FALSE
    /\ due = [c \in Cpus |-> 0] /\ kicking = FALSE /\ hung = {} /\ since = 0
    /\ op = "boot" /\ pc = "create" /\ oops = FALSE /\ writes = 0

\* The thread of CPU 0 is woken after the others were created.
Runs(c) == pWatchdogTask[c] = "run" /\ c \notin hung /\ ~reset /\ (c = 0 => pc # "others")

-----------------------------------------------------------------------------
(* The threads.                                                            *)

\* Mutant: the bit of the next CPU.
MutBit(c) == c + 1

\* touch_wtd_count
Bit(c) == c

\* luna_watchdog_thread
Touch(c) ==
    /\ c # 0 /\ Runs(c) /\ due[c] <= 0
    /\ wtd_count' = IF watchdog_flag THEN wtd_count \cup {Bit(c)} ELSE wtd_count
    /\ due' = [due EXCEPT ![c] = kick_wdg_time]
    /\ UNCHANGED <<watchdog_flag, kick_wdg_time, pWatchdogTask, hw, kicking, hung, op, pc,
                   oops, writes>>

AllTouched == Cpus \ {0} \subseteq wtd_count

\* watchdog_timeout_thread, CHECK_CPUS_AND_KICK: the test
Check ==
    /\ Runs(0) /\ ~kicking /\ due[0] <= 0
    /\ IF watchdog_flag /\ AllTouched
       THEN kicking' = TRUE /\ UNCHANGED due
       ELSE due' = [due EXCEPT ![0] = kick_wdg_time] /\ UNCHANGED kicking
    /\ UNCHANGED <<watchdog_flag, kick_wdg_time, pWatchdogTask, wtd_count, hw, hung, op, pc,
                   oops, writes>>

\* Mutant: the bits stay set after a kick.
MutCleared == wtd_count

Cleared == {}

\* CHECK_CPUS_AND_KICK: clear_bit for each CPU, RTK_WDG_KICK
Kick ==
    /\ Runs(0) /\ kicking
    /\ wtd_count' = Cleared
    /\ count' = 0
    /\ kicking' = FALSE
    /\ due' = [due EXCEPT ![0] = kick_wdg_time]
    /\ UNCHANGED <<watchdog_flag, kick_wdg_time, pWatchdogTask, wdt_e, reset, since, hung, op,
                   pc, oops, writes>>

-----------------------------------------------------------------------------
(* The proc files and the module's initialisation.                         *)

Write(on) ==
    /\ ~reset /\ pc = "idle" /\ writes < MaxWrites
    /\ watchdog_flag' = on
    /\ op' = IF on THEN "on" ELSE "off"
    /\ pc' = IF on THEN "create" ELSE "disable"
    /\ writes' = writes + 1
    /\ UNCHANGED <<kick_wdg_time, wtd_count, thread, hw, kicking, hung, oops>>

\* kick_wdg_time_write
WriteKickTime(p) ==
    /\ ~reset /\ pc = "idle" /\ writes < MaxWrites
    /\ kick_wdg_time' = p
    /\ writes' = writes + 1
    /\ UNCHANGED <<watchdog_flag, wtd_count, thread, hw, kicking, hung, op, pc, oops>>

\* wdt_thread_maintain(1) without a task for CPU 0: the task is created
\* first, those of the other CPUs next; it is woken last.
CreateMain(ok) ==
    /\ ~reset /\ pc = "create" /\ pWatchdogTask[0] = "none" /\ (ok \/ MayFail)
    /\ pWatchdogTask' = [pWatchdogTask EXCEPT ![0] = IF ok THEN "run" ELSE "err"]
    /\ pc' = IF ok THEN "others" ELSE "enable"
    /\ UNCHANGED <<watchdog_flag, kick_wdg_time, wtd_count, due, hw, kicking, hung, op, oops, writes>>

Created ==
    /\ ~reset /\ pc = "create" /\ pWatchdogTask[0] # "none"
    /\ pc' = "enable"
    /\ UNCHANGED <<watchdog_flag, kick_wdg_time, wtd_count, thread, hw, kicking, hung, op, oops,
                   writes>>

\* luan_watchdog_thread_init for a CPU: an error is not a null pointer, so it
\* passes the test and is bound.
CreateOther(c, ok) ==
    /\ ~reset /\ pc = "others" /\ c # 0 /\ pWatchdogTask[c] = "none" /\ (ok \/ MayFail)
    /\ \A d \in 1 .. c - 1 : pWatchdogTask[d] # "none"
    /\ pWatchdogTask' = [pWatchdogTask EXCEPT ![c] = IF ok THEN "run" ELSE "err"]
    /\ due' = [due EXCEPT ![c] = kick_wdg_time]
    /\ oops' = (oops \/ ~ok)
    /\ pc' = IF ok THEN "others" ELSE "dead"
    /\ UNCHANGED <<watchdog_flag, kick_wdg_time, wtd_count, hw, kicking, hung, op, writes>>

CreatedAll ==
    /\ ~reset /\ pc = "others" /\ \A c \in Cpus : pWatchdogTask[c] # "none"
    /\ due' = [due EXCEPT ![0] = kick_wdg_time]
    /\ pc' = "enable"
    /\ UNCHANGED <<watchdog_flag, kick_wdg_time, wtd_count, pWatchdogTask, hw, kicking, hung, op,
                   oops, writes>>

\* Mutant: switching on does not kick.
MutCountAtEnable == count

CountAtEnable == 0

\* RTK_WDG_EN; the initialisation sets the flag, a write kicks.
Enable ==
    /\ ~reset /\ pc = "enable"
    /\ wdt_e' = TRUE
    /\ watchdog_flag' = TRUE
    /\ count' = IF op = "boot" THEN count ELSE CountAtEnable
    /\ since' = 0
    /\ pc' = "idle"
    /\ UNCHANGED <<kick_wdg_time, wtd_count, thread, reset, kicking, hung, op, oops, writes>>

\* RTK_WDG_DIS
Disable ==
    /\ ~reset /\ pc = "disable"
    /\ wdt_e' = FALSE /\ since' = 0
    /\ pc' = "stop"
    /\ UNCHANGED <<watchdog_flag, kick_wdg_time, wtd_count, thread, count, reset, kicking, hung,
                   op, oops, writes>>

\* wdt_thread_maintain(0): kthread_stop waits for the thread to leave its loop.
StopTask(c) ==
    /\ ~reset /\ pc = "stop" /\ pWatchdogTask[c] # "none"
    /\ \A d \in 0 .. c - 1 : pWatchdogTask[d] = "none"
    /\ pWatchdogTask[c] = "run" => c \notin hung /\ (c = 0 => ~kicking)
    /\ pWatchdogTask' = [pWatchdogTask EXCEPT ![c] = "none"]
    /\ oops' = (oops \/ pWatchdogTask[c] = "err")
    /\ pc' = IF pWatchdogTask[c] = "err" THEN "dead" ELSE "stop"
    /\ UNCHANGED <<watchdog_flag, kick_wdg_time, wtd_count, due, hw, kicking, hung, op, writes>>

Stopped ==
    /\ ~reset /\ pc = "stop" /\ \A c \in Cpus : pWatchdogTask[c] = "none"
    /\ pc' = "idle"
    /\ UNCHANGED <<watchdog_flag, kick_wdg_time, wtd_count, thread, hw, kicking, hung, op, oops,
                   writes>>

-----------------------------------------------------------------------------
(* Hanging CPUs and time.                                                  *)

Hang(c) ==
    /\ ~reset /\ c \in MayHang \ hung
    /\ hung' = hung \cup {c}
    /\ UNCHANGED <<watchdog_flag, kick_wdg_time, wtd_count, thread, hw, kicking, op, pc, oops,
                   writes>>

\* A tick.  Healthy threads are not later than Late; writes are short, unless
\* they were made on a CPU that hangs or wait for a thread there.
Tick ==
    /\ ~reset
    /\ \A c \in Cpus : Runs(c) => due[c] > - Late
    /\ pc \in {"idle", "dead"} \/ hung # {}
    /\ due' = [c \in Cpus |-> IF Runs(c) THEN due[c] - 1 ELSE due[c]]
    /\ count' = IF wdt_e THEN count + 1 ELSE count
    /\ reset' = (wdt_e /\ count + 1 >= Timeout)
    /\ since' = IF wdt_e /\ hung # {} THEN since + 1 ELSE 0
    /\ UNCHANGED <<watchdog_flag, kick_wdg_time, wtd_count, pWatchdogTask, wdt_e, kicking, hung,
                   op, pc, oops, writes>>

\* The board starts again.
Reboot ==
    /\ reset
    /\ watchdog_flag' = FALSE /\ kick_wdg_time' \in Periods
    /\ pWatchdogTask' = [c \in Cpus |-> "none"]
    /\ wtd_count' = {} /\ wdt_e' = FALSE /\ count' = 0 /\ reset' = FALSE
    /\ due' = [c \in Cpus |-> 0] /\ kicking' = FALSE /\ hung' = {} /\ since' = 0
    /\ op' = "boot" /\ pc' = "create" /\ oops' = FALSE /\ UNCHANGED writes

Proc ==
    \/ \E on \in BOOLEAN : Write(on) \/ CreateMain(on) \/ \E c \in Cpus : CreateOther(c, on)
    \/ \E p \in Periods : WriteKickTime(p)
    \/ Created \/ CreatedAll \/ Enable \/ Disable \/ Stopped
    \/ \E c \in Cpus : StopTask(c)

Next ==
    \/ \E c \in Cpus : Touch(c) \/ Hang(c)
    \/ Check \/ Kick \/ Proc \/ Tick \/ Reboot

Spec == Init /\ [][Next]_vars

-----------------------------------------------------------------------------
(* Properties.                                                             *)

\* Every variable keeps its type; a bit of wtd_count is that of a CPU.
TypeOK ==
    /\ watchdog_flag \in BOOLEAN /\ kick_wdg_time \in Periods
    /\ pWatchdogTask \in [Cpus -> {"none", "err", "run"}]
    /\ wtd_count \subseteq Cpus /\ wdt_e \in BOOLEAN /\ count \in Nat /\ reset \in BOOLEAN
    /\ due \in [Cpus -> Int] /\ kicking \in BOOLEAN /\ hung \subseteq Cpus /\ since \in Nat
    /\ op \in {"boot", "on", "off"} /\ oops \in BOOLEAN /\ writes \in Nat
    /\ pc \in {"create", "others", "enable", "idle", "disable", "stop", "dead"}

\* A board whose CPUs all run is never reset, when the timeout is longer than
\* two periods and delays: CHECK_CPUS_AND_KICK misses at most one round, also
\* when a touch falls between its test and its clearing of the bits, after a
\* change of the period, and after the watchdog was switched off and on.
HealthyNotReset == hung = {} => ~reset

\* A board with a CPU that hangs is reset: a bit that the CPU left behind
\* buys it one kick, not two.
HungIsReset == since <= Timeout + 2 * (PMax + Late)

\* Only a task is bound or stopped, as the WARN_ON behind kthread_create says.
TasksAreTasks == ~oops
=============================================================================
