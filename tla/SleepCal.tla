------------------------------ MODULE SleepCal ------------------------------
(***************************************************************************)
(* Sleep clock calibration: a poll timer looks at the temperature, starts a *)
(* hardware calibration when it has left the bin of the last one, and the   *)
(* calibration's result corrects the sleep clock.  The power manager pauses *)
(* and resumes the polling around a sleep through the power callback table  *)
(* (Fpci); a client enables and disables the whole.                         *)
(* Source: qhw_support/src/wlan_sleep_clk_cal.c, the timers it uses from    *)
(* qurt/zephyr/src/qurt_timer.c, and its callers in qpower/src/qpower.c.    *)
(***************************************************************************)
EXTENDS Fpci, FiniteSets

CONSTANTS
    calib,                   \* socpm_actv_slp_clk_cal_slp_cb
    preSleep, sleepAbort, postAwake,  \* the events it registers for
    MAX_NUM_HBIN,            \* the temperature bins are 0 .. MAX_NUM_HBIN
    HbinRange,               \* width of a bin in units of the sensor
    TS_HYS_THRESH,           \* hysteresis of the poll
    WordSize,                \* 2^32 in the code; beyond every temperature
    Temps,                   \* the readings of the temperature sensor
    SleepModeCfg,            \* NT_DEVCFG_SLP_MODE_SLP_CLK_CAL_ENABLE
    MaxMessages,             \* bound on the queued cal-done messages
    NoHbin,                  \* prev_hbin = 0xFF
    Ref                      \* xocnt = refxocnt: no correction

Hbins == 0 .. MAX_NUM_HBIN

ASSUME SleepCalAssumption ==
    /\ calib \in Callbacks
    /\ {preSleep, sleepAbort, postAwake} \subseteq Events
    /\ MAX_NUM_HBIN \in Nat /\ HbinRange \in Nat \ {0} /\ TS_HYS_THRESH \in Nat \ {0}
    /\ WordSize > (MAX_NUM_HBIN + 2) * HbinRange + TS_HYS_THRESH
    /\ Temps \subseteq 0 .. WordSize - TS_HYS_THRESH - 1
    /\ SleepModeCfg \in BOOLEAN
    /\ NoHbin \notin Hbins /\ Ref \notin Hbins

VARIABLES
    cal,       \* slp_clk_cal_params, its poll timer and the registers it uses
    temp,      \* what pmu_ts_get_raw_data returns
    power,     \* where the power manager is
    disabling, \* where a call of socpm_slp_clk_cal_enable(DISABLE) is
    lost,      \* some calibration's result was lost or came too late
    raced      \* the callback ran between the stop and the cancel of a deletion

calVars == <<cal, temp, power, disabling, lost, raced>>

(***************************************************************************)
(* The fields of cal:                                                      *)
(*   mode, sleep_mode_cal_enabled, prev_hbin, initialized, xocnt, pending  *)
(*       of socpm_sleep_clk_cal_t; xocnt is the bin it was read from, and   *)
(*       pending says whether the saved ticks are nonzero;                  *)
(*   timer   the poll timer exists; armed, reload, work are its k_timer's   *)
(*           state, its kind and its submitted work item;                   *)
(*   go_idle, cal_en, request   bits of SLP_CAL_CAL_EN and                  *)
(*           ACAL_VBAT_MON_EN: the state machine is held, calibration is on,*)
(*           a calibration was requested;                                   *)
(*   hbins   the HBIN registers that hold data;                             *)
(*   msgs    WMI_SLEEP_CLK_CAL_DONE messages in the WMI task's queue.       *)
(***************************************************************************)
CalInit ==
    /\ cal = [mode |-> "DISABLE", sleep_mode_cal_enabled |-> FALSE, prev_hbin |-> 0,
              initialized |-> FALSE, xocnt |-> Ref, pending |-> FALSE,
              timer |-> FALSE, armed |-> FALSE, reload |-> FALSE, work |-> FALSE,
              go_idle |-> FALSE, cal_en |-> FALSE, request |-> FALSE,
              hbins |-> {}, msgs |-> 0]
    /\ temp \in Temps
    /\ power = "awake"
    /\ disabling = "no"
    /\ lost = FALSE
    /\ raced = FALSE

----------------------------------------------------------------------------
\* The temperature bins: hbin_range[i] and the bin of a reading.
hbin_range(i) == i * HbinRange

InSomeHbin(t) == t < hbin_range(MAX_NUM_HBIN + 1)

HbinOf(t) == CHOOSE b \in Hbins : hbin_range(b) <= t /\ t < hbin_range(b + 1)

\* The poll's test that the temperature is still near the last bin, in
\* unsigned arithmetic.  With prev_hbin = 0xFF it reads past the array, so its
\* outcome is whatever `junk' is.
NearPrevHbin(c, junk) ==
    IF c.prev_hbin = NoHbin THEN junk
    ELSE /\ temp >= (hbin_range(c.prev_hbin) - TS_HYS_THRESH) % WordSize
         /\ temp < hbin_range(c.prev_hbin + 1) + TS_HYS_THRESH

\* The qurt timer: start, change_period, stop.  All refuse a null handle.
StartTimer(c) == [c EXCEPT !.armed = c.timer]

ChangePeriod(c) == [c EXCEPT !.armed = c.timer, !.reload = c.timer]

StopTimer(c) == [c EXCEPT !.armed = FALSE]

\* socpm_slp_clk_cal_trigger
Trigger(c) == [c EXCEPT !.request = TRUE]

\* socpm_slp_clk_cal_hw_init
HwInit(c) == [c EXCEPT !.go_idle = FALSE, !.cal_en = TRUE]

\* socpm_sleep_clk_cal_timer_cb
TimerCb(c, junk) ==
    LET polling == StartTimer(ChangePeriod(c))
    IN  IF NearPrevHbin(c, junk) /\ c.initialized THEN polling ELSE Trigger(polling)

\* socpm_slp_clk_cal_init; `made' says whether the timer could be allocated.
InitParams(c, made) ==
    LET timer == c.timer \/ made
    IN  [HwInit(c) EXCEPT !.sleep_mode_cal_enabled = SleepModeCfg,
                          !.xocnt = Ref, !.prev_hbin = NoHbin,
                          !.timer = timer, !.armed = timer,
                          !.reload = c.timer /\ c.reload]

\* The bin socpm_slp_clk_cal_get_hbin takes the count from: its own, the one
\* below or the one above; none of the three may hold data.
SourceHbin(c, bin) ==
    CASE bin \in c.hbins -> bin
      [] bin \notin c.hbins /\ bin - 1 \in c.hbins -> bin - 1
      [] bin \notin c.hbins /\ bin - 1 \notin c.hbins /\ bin + 1 \in c.hbins -> bin + 1
      [] OTHER -> c.xocnt

\* socpm_slp_clk_cal_get_hbin
GetHbin(c) ==
    IF InSomeHbin(temp)
    THEN [c EXCEPT !.xocnt = SourceHbin(c, HbinOf(temp)), !.prev_hbin = HbinOf(temp),
                   !.initialized = TRUE]
    ELSE c

\* socpm_actv_slp_clk_cal_monitor_pause; `left' says whether the expiry time
\* read from a running timer is nonzero.
Pause(c, left) ==
    IF c.timer /\ c.armed THEN [StopTimer(c) EXCEPT !.pending = left]
    ELSE [c EXCEPT !.pending = c.pending /\ ~c.timer]

\* Seeded fault, no part of the specification: a timer that was not running
\* when it was paused is not started again.
ResumeRunningOnly(c, junk) ==
    LET polling == IF c.pending THEN [ChangePeriod(c) EXCEPT !.pending = FALSE] ELSE c
    IN  [HwInit(polling) EXCEPT !.mode = "ACTIVE"]

\* socpm_actv_slp_clk_cal_monitor_resume
Resume(c, junk) ==
    LET polling == CASE ~c.timer -> c
                     [] c.timer /\ c.pending -> [ChangePeriod(c) EXCEPT !.pending = FALSE]
                     [] OTHER -> TimerCb(c, junk)
    IN  [HwInit(polling) EXCEPT !.mode = "ACTIVE"]

\* socpm_actv_slp_clk_cal_slp_cb
SlpCb(c, e, left, junk) ==
    IF e = preSleep THEN Pause([c EXCEPT !.go_idle = TRUE], left) ELSE Resume(c, junk)

----------------------------------------------------------------------------
\* The system work queue, the WMI task and the interrupts run while the
\* processor is up; their callbacks run to completion.  Only one step of a
\* dispatch touches what they use, so they are taken before or after it.
Running == power # "asleep" /\ evt = NoEvent

\* The poll timer expires and submits its work item; a timer that was started
\* as it was created does not repeat, one whose period was changed does.
TimerExpires ==
    /\ Running
    /\ cal.timer /\ cal.armed /\ ~cal.work
    /\ cal' = [cal EXCEPT !.work = TRUE, !.armed = cal.reload]
    /\ UNCHANGED <<temp, power, disabling, lost, raced, fpciVars>>

\* The system work queue runs the callback.
TimerWork ==
    /\ Running
    /\ cal.work
    /\ \E junk \in BOOLEAN : cal' = TimerCb([cal EXCEPT !.work = FALSE], junk)
    /\ raced' = (raced \/ disabling = "cancel")
    /\ UNCHANGED <<temp, power, disabling, lost, fpciVars>>

\* The hardware has calibrated the bin of the temperature; the interrupt
\* handler sends a message to the WMI task, which is lost if the queue is full.
CalDone ==
    /\ Running
    /\ cal.request /\ cal.cal_en /\ ~cal.go_idle
    /\ LET done == [cal EXCEPT !.request = FALSE,
                               !.hbins = IF InSomeHbin(temp) THEN @ \cup {HbinOf(temp)} ELSE @]
       IN  \/ /\ cal.msgs < MaxMessages
              /\ cal' = [done EXCEPT !.msgs = @ + 1]
              /\ UNCHANGED lost
           \/ /\ cal' = done
              /\ lost' = TRUE
    /\ UNCHANGED <<temp, power, disabling, raced, fpciVars>>

\* The WMI task takes the message.
CalDoneMsg ==
    /\ Running
    /\ cal.msgs > 0
    /\ cal' = GetHbin([cal EXCEPT !.msgs = @ - 1])
    /\ lost' = (lost \/ ~InSomeHbin(temp))
    /\ UNCHANGED <<temp, power, disabling, raced, fpciVars>>

\* The temperature changes; while a message is on its way, by one bin at most.
TempChange(t) ==
    /\ power \in {"awake", "asleep"}
    /\ t # temp
    /\ cal.msgs > 0 => \E b \in cal.hbins : t \in hbin_range(b - 1) .. hbin_range(b + 2) - 1
    /\ temp' = t
    /\ UNCHANGED <<cal, power, disabling, lost, raced, fpciVars>>

----------------------------------------------------------------------------
AllEvents == {preSleep, sleepAbort, postAwake}

\* A client calls: no dispatch and no other call is in progress.
Client == Running /\ disabling = "no"

\* socpm_slp_clk_cal_enable(ACTIVE_MODE)
EnableActive ==
    /\ Client
    /\ cal.mode # "ACTIVE"
    /\ \E made \in BOOLEAN :
          cal' = [InitParams([cal EXCEPT !.mode = "ACTIVE"], made) EXCEPT !.hbins = {}]
    /\ Register(calib, AllEvents)
    /\ UNCHANGED <<temp, power, disabling, lost, raced, dispatchVars, strayed>>

\* socpm_slp_clk_cal_enable(DISABLE): the registers first,
DisableHw ==
    /\ Client
    /\ cal.mode # "DISABLE"
    /\ cal' = [cal EXCEPT !.go_idle = TRUE, !.cal_en = FALSE, !.request = FALSE, !.hbins = {}]
    /\ disabling' = "stop"
    /\ raced' = FALSE
    /\ UNCHANGED <<temp, power, lost, fpciVars>>

\* then the timer is stopped, by nt_stop_timer and by qurt_timer_delete,
DisableStop ==
    /\ disabling = "stop"
    /\ cal' = StopTimer(cal)
    /\ disabling' = "cancel"
    /\ UNCHANGED <<temp, power, lost, raced, fpciVars>>

\* Seeded fault, no part of the specification: qurt_timer_delete leaves the
\* submitted work item alone.
CancelWorkLeft(c) == [c EXCEPT !.timer = FALSE]

\* (k_work_cancel_sync and k_free)
CancelWork(c) == [c EXCEPT !.work = FALSE, !.timer = FALSE]

\* then its work is cancelled, the timer freed and the callback deregistered.
DisableEnd ==
    /\ disabling = "cancel"
    /\ cal' = [CancelWork(cal) EXCEPT !.xocnt = Ref, !.mode = "DISABLE", !.initialized = FALSE]
    /\ Deregister(calib, AllEvents)
    /\ disabling' = "no"
    /\ lost' = (cal.msgs > 0)
    /\ UNCHANGED <<temp, power, raced, dispatchVars>>

\* socpm_slp_clk_cal_dynamic_slp_mode_cal_enable
DynamicEnable(en) ==
    /\ Client
    /\ cal' = [cal EXCEPT !.sleep_mode_cal_enabled = en]
    /\ UNCHANGED <<temp, power, disabling, lost, raced, fpciVars>>

----------------------------------------------------------------------------
\* The power manager announces the sleep; it runs when no call is in progress,
Announce(from, e, to) ==
    /\ power = from
    /\ disabling = "no"
    /\ EvtDispatch(e)
    /\ power' = to
    /\ UNCHANGED <<cal, temp, disabling, lost, raced>>

\* its loop calls the callbacks, the calibration's among them,
CallBack ==
    /\ DispatchStep
    /\ IF Len(called') > Len(called) /\ called'[Len(called')] = calib
       THEN \E left, junk \in BOOLEAN : cal' = SlpCb(cal, evt, left, junk)
       ELSE UNCHANGED cal
    /\ UNCHANGED <<temp, power, disabling, lost, raced>>

Announced ==
    /\ DispatchEnd
    /\ power' = IF power = "goingDown" THEN "ready" ELSE "awake"
    /\ UNCHANGED <<cal, temp, disabling, lost, raced>>

\* socpm_slp_clk_cal_presleep_activites and the sleep itself, which may reset
\* the request; in SLEEP_MODE the hardware calibrates as it likes.
PreSleepActivities ==
    LET sleepMode == [HwInit(cal) EXCEPT !.mode = "SLEEP", !.xocnt = Ref]
    IN  IF cal.sleep_mode_cal_enabled THEN sleepMode ELSE cal

FallAsleep ==
    /\ power = "ready" /\ disabling = "no"
    /\ power' = "asleep"
    /\ \E kept \in BOOLEAN :
          /\ cal' = [PreSleepActivities EXCEPT !.request = @ /\ kept]
          /\ lost' = (lost \/ (cal.request /\ ~kept /\ ~cal.sleep_mode_cal_enabled))
    /\ UNCHANGED <<temp, disabling, raced, fpciVars>>

SleepCalibrates ==
    /\ power = "asleep" /\ cal.mode = "SLEEP" /\ cal.cal_en /\ ~cal.go_idle
    /\ InSomeHbin(temp)
    /\ cal' = [cal EXCEPT !.hbins = @ \cup {HbinOf(temp)}]
    /\ UNCHANGED <<temp, power, disabling, lost, raced, fpciVars>>

\* Seeded fault, no part of the specification: after a sleep the bin is not
\* looked at and the count stays uncorrected.
PostAwakeNoRestore(c) ==
    IF c.sleep_mode_cal_enabled /\ c.mode = "SLEEP" THEN [c EXCEPT !.mode = "ACTIVE"] ELSE c

\* socpm_slp_clk_cal_postawake_activities
PostAwakeActivities(c) ==
    LET active == [c EXCEPT !.mode = "ACTIVE"]
    IN  CASE ~(c.sleep_mode_cal_enabled /\ c.mode = "SLEEP") -> c
          [] c.sleep_mode_cal_enabled /\ c.mode = "SLEEP" /\ c.prev_hbin \in c.hbins ->
                [active EXCEPT !.xocnt = c.prev_hbin]
          [] OTHER -> Trigger(HwInit(active))

WakeUp ==
    /\ power = "asleep"
    /\ power' = "woken"
    /\ cal' = PostAwakeActivities(cal)
    /\ UNCHANGED <<temp, disabling, lost, raced, fpciVars>>

CalNext ==
    \/ TimerExpires \/ TimerWork
    \/ CalDone \/ CalDoneMsg
    \/ \E t \in Temps : TempChange(t)
    \/ EnableActive
    \/ DisableHw \/ DisableStop \/ DisableEnd
    \/ \E en \in BOOLEAN : DynamicEnable(en)
    \/ Announce("awake", preSleep, "goingDown")
    \/ Announce("ready", sleepAbort, "comingUp")
    \/ Announce("woken", postAwake, "comingUp")
    \/ CallBack \/ Announced
    \/ FallAsleep \/ SleepCalibrates \/ WakeUp

----------------------------------------------------------------------------
\* While calibration is enabled and the system is up, the poll goes on: the
\* timer runs or its callback is about to, however sleeps, aborted sleeps,
\* expiries and calls follow each other (monitor_pause, monitor_resume,
\* timer_cb), as long as no stray deregistration has hit the callback table.
PollAlive ==
    cal.mode = "ACTIVE" /\ cal.timer /\ power = "awake" /\ disabling = "no" /\ ~strayed
        => cal.armed \/ cal.work

\* Once disabled, nothing of the calibration is left: no timer and no work item,
\* no callback in the table, the hardware off; a freed timer is still running
\* only if its callback ran between the stop and the cancel in
\* qurt_timer_delete and started it again.
DisabledQuiet ==
    cal.mode = "DISABLE" =>
        /\ ~cal.timer /\ ~cal.work
        /\ cal.armed => raced
        /\ ~cal.cal_en
        /\ ~strayed => registered[calib] = {}

\* The count that corrects the sleep clock comes from the bin the polls compare
\* the temperature with, or from a neighbour of it, or a calibration is on its
\* way; otherwise the polls would see no change and the clock stay wrong.
\* A result that was lost, or was still to come when calibration was disabled,
\* voids this until calibration is disabled again.
XocntFresh ==
    cal.mode = "ACTIVE" /\ cal.initialized /\ power = "awake" /\ disabling = "no" /\ ~lost
        => \/ cal.request \/ cal.msgs > 0
           \/ cal.xocnt # Ref /\ cal.prev_hbin # NoHbin
              /\ cal.xocnt \in cal.prev_hbin - 1 .. cal.prev_hbin + 1

\* "If current temperature falls in same hbin do not trigger cal"
\* (wlan_sleep_clk_cal.h:79): a poll that finds the temperature in the bin of
\* the last calibration starts none.
SameHbinNoTrigger ==
    [][cal.mode = "ACTIVE" /\ cal.initialized /\ InSomeHbin(temp) /\ cal.prev_hbin = HbinOf(temp)
        /\ cal'.request => cal.request]_<<calVars, fpciVars>>
=============================================================================
