------------------------------ MODULE WlanDrv ------------------------------
(***************************************************************************)
(* The WLAN driver that sits between the application's qapi_WLAN calls and  *)
(* the Wi-Fi firmware library (qwifi/src/wlan_drv).  A call sends a command *)
(* through one pipe to the firmware's WMI task and, for most calls, blocks  *)
(* on a bit of the signal wlan_cmd_done.  The firmware answers with events: *)
(* wmi_event_relay copies the payload into a ring of buffers and puts the   *)
(* event into the same pipe; the WMI task takes it out, runs the handler in *)
(* wmi_api.c, which sets the bit, and gives the buffer back.                *)
(*                                                                          *)
(* Actors: the application threads, the WMI task (it takes commands and     *)
(* runs event handlers), the firmware's own threads (external, they call    *)
(* wmi_event_relay) and the system work queue with the roaming handler.     *)
(* Two recursive mutexes: wlan_qapi_block_mutex serialises most calls,      *)
(* wlan_qapi_cxt_mutex protects the context.  A critical section of the     *)
(* latter is one step, except where the code sleeps inside it.              *)
(***************************************************************************)
EXTENDS Integers, Sequences, FiniteSetsExt

CONSTANTS Apps,         \* application threads
          Ops,          \* the calls each of them makes
          Params,       \* parameter identifiers of Set_Param
          PipeLen,      \* messages msg_wfm_wmi_id holds
          BufNum,       \* event_payload_buf[].buf_num, per size class
          MaxPolls,     \* polls of wmi_set_param_event (100)
          Period,       \* roaming periods: first, inc1, inc2, inc3, max, runs
          Budget,       \* bound: calls, runs of the roaming handler and events the
                        \* firmware sends by itself, together
          None

\* The calls: those under wlan_qapi_block_mutex, and the Set_Param calls.
Locked == {"on", "off", "scan", "results", "disconnect", "commit", "plain"}
AllOps == Locked \cup {"param", "profile"}

ASSUME WlanAssumption ==
  /\ Ops \in [Apps -> SUBSET AllOps]
  /\ PipeLen \in Nat \ {0} /\ MaxPolls \in Nat \ {0}
  /\ Budget \in Nat
  /\ BufNum \in [{"large", "small"} -> Nat \ {0}]
  /\ Period \in [first : Nat, inc1 : Nat, inc2 : Nat, inc3 : Nat, max : Nat, runs : Nat \ {0}]
  /\ None \notin Apps \cup AllOps

VARIABLES c,         \* wlan_qapi_cxt_t: the flags and settings
          pool,      \* wlan_qapi_cxt_t.event_payload_buf
          signals,   \* bits set in wlan_cmd_done
          block,     \* holder of wlan_qapi_block_mutex
          cxt,       \* holder of wlan_qapi_cxt_mutex between two steps
          pipe,      \* msg_wfm_wmi_id
          roam,      \* the work item roaming_work and its counters
          wfm,       \* the WMI task
          app,       \* the application threads
          fw,        \* the firmware: answers it owes, link state, losses
          hist       \* history, read by the properties only

vars == <<c, pool, signals, block, cxt, pipe, roam, wfm, app, fw, hist>>

Classes == DOMAIN BufNum

\* The signal bit a blocking command waits for.
Mask == [on |-> "ENABLE_DONE", off |-> "DISABLE_DONE",
         scan |-> "STARTED_SCAN", results |-> "SCAN_COMPLETED",
         disconnect |-> "DISCONNECTED", param |-> "SET_PARAM", plain |-> "GET_STAT"]

Idle == [at |-> "idle", op |-> None, cmd |-> None, n |-> 0, arg |-> None]

\* wlan_qapi_init, and the calls that brought the device up: Wi-Fi enabled, one
\* of the two modes chosen, and connected or not to a network with a passphrase.
Init ==
  /\ c \in [connected : BOOLEAN, connect_in_progress : {FALSE},
            disconnect_in_progress : {FALSE}, scan_in_progress : {FALSE},
            wait_scan_comp_evt : {FALSE}, wlanEnabled : {TRUE},
            opmode : {"ap", "sta"}, profile : {"psk"}, param_id : {None},
            roaming_started : {FALSE}, scan_out : {None}]
  /\ pool = [k \in Classes |->
               [used |-> 0, wp |-> 0, slots |-> [i \in 0 .. BufNum[k] - 1 |-> None]]]
  /\ signals = {}
  /\ block = None /\ cxt = None
  /\ pipe = <<>>
  /\ roam = [work |-> "idle", time_out |-> 0, cnt |-> 1, runs |-> 0]
  /\ wfm = [at |-> "recv", evt |-> None, polls |-> 0]
  /\ app = [t \in Apps |-> Idle]
  /\ fw = [owes |-> {}, link |-> c.connected, losses |-> 0]
  /\ hist = [answered |-> [t \in Apps |-> FALSE], lost |-> FALSE, raced |-> FALSE,
             overtaken |-> FALSE, scan |-> None, overlap |-> FALSE, partial |-> FALSE]
-----------------------------------------------------------------------------
\* The bound on what the environment starts.
Within == MapThenSumSet(LAMBDA t : app[t].n, Apps) + roam.runs + fw.losses < Budget

(* The pipe, the signal and the payload buffers.                           *)

PipeFull == Len(pipe) >= PipeLen

\* qurt_pipe_send puts with K_NO_WAIT: a message for a full pipe is dropped.
qurt_pipe_send(m) == pipe' = IF PipeFull THEN pipe ELSE Append(pipe, m)

\* wmi_cmd_send and wmi_dev_cmd_send; who sent it is remembered for the properties.
Command(cmd, by, n, arg) ==
  [kind |-> "cmd", cmd |-> cmd, by |-> by, n |-> n, arg |-> arg]

wmi_cmd_send(m) ==
  /\ qurt_pipe_send(m)
  /\ hist' = [hist EXCEPT !.lost = @ \/ PipeFull,
                          !.answered = [t \in Apps |-> @[t] /\ t # m.by]]

\* Payloads of scan results are the large ones.
ClassOf(p) == IF p.e = "scan_comp" THEN "large" ELSE "small"

\* Seeded fault, no part of the specification: the slot is chosen by buf_used instead
\* of buf_write_pointer.
RelayByUsed(p) ==
  LET k == ClassOf(p)
      b == pool[k]
  IN /\ cxt = None
     /\ b.used < BufNum[k]
     /\ pool' = [pool EXCEPT ![k] = [b EXCEPT !.used = b.used + 1,
                                             !.slots = [b.slots EXCEPT ![b.used] = p]]]
     /\ qurt_pipe_send([kind |-> "evt", class |-> k, slot |-> b.used, was |-> p])
     /\ hist' = [hist EXCEPT !.lost = @ \/ PipeFull]

\* wmi_event_relay, and wmi_event_notify at its end: choose the size class, drop
\* the event if the class is exhausted, else copy the payload into the next slot
\* and queue the event.  If the pipe is full the slot stays counted as used.
wmi_event_relay(p) ==
  LET k    == ClassOf(p)
      b    == pool[k]
      full == b.used >= BufNum[k]
  IN /\ cxt = None
     /\ IF full
          THEN UNCHANGED <<pool, pipe>>
          ELSE /\ pool' = [pool EXCEPT ![k] =
                             [used |-> b.used + 1, wp |-> (b.wp + 1) % BufNum[k],
                              slots |-> [b.slots EXCEPT ![b.wp] = p]]]
               /\ qurt_pipe_send([kind |-> "evt", class |-> k, slot |-> b.wp, was |-> p])
     /\ hist' = [hist EXCEPT !.lost = @ \/ full \/ PipeFull]
-----------------------------------------------------------------------------
(* Roaming: wlan_drv.c.                                                    *)

\* wlan_drv_roaming_start: what it does to the context and to the work item.
RoamingStarts(ctx) == ~ctx.roaming_started /\ ctx.profile # None

StartedRoam == [roam EXCEPT !.work = IF @ = "running" THEN "running_again" ELSE "scheduled",
                            !.time_out = Period.first]

\* k_work_cancel_delayable takes a scheduled item out of the queue; a handler that
\* has already started goes on (external: the kernel's work queue).
Cancelled == [roam EXCEPT !.work = CASE @ = "scheduled" -> "idle"
                                     [] @ = "running_again" -> "running"
                                     [] OTHER -> @]
Running == roam.work \in {"running", "running_again"}

\* The period has passed, and the work queue starts the handler.
RoamExpire ==
  /\ roam.work = "scheduled" /\ Within
  /\ roam' = [roam EXCEPT !.work = "running", !.runs = @ + 1]
  /\ UNCHANGED <<c, pool, signals, block, cxt, pipe, wfm, app, fw, hist>>

\* roam_handler: after a number of runs the period grows, in larger increments the
\* longer it is already; up to the maximum it connects again and reschedules itself.
NextPeriod(x) == x + (IF x < Period.inc2 THEN Period.inc1
                      ELSE IF x < Period.inc3 THEN Period.inc2 ELSE Period.inc3)

roam_handler ==
  LET grow == roam.cnt >= Period.runs
      t    == IF grow THEN NextPeriod(roam.time_out) ELSE roam.time_out
      tick == [roam EXCEPT !.time_out = t, !.cnt = (IF grow THEN 0 ELSE @) + 1]
      cmds == (IF c.profile = "psk" THEN <<Command("pass", "roam", 0, None)>> ELSE <<>>)
                \o <<Command("connect", "roam", 0, None)>>
      new  == pipe \o cmds
  IN /\ Running /\ cxt = None
     /\ IF t <= Period.max
          THEN /\ c' = [c EXCEPT !.connect_in_progress = TRUE]
               /\ pipe' = SubSeq(new, 1, IF Len(new) < PipeLen THEN Len(new) ELSE PipeLen)
               /\ hist' = [hist EXCEPT !.lost = @ \/ Len(new) > PipeLen]
               /\ roam' = [tick EXCEPT !.work = "scheduled"]
          ELSE /\ c' = [c EXCEPT !.roaming_started = FALSE]
               /\ roam' = [tick EXCEPT !.work = IF @ = "running" THEN "idle" ELSE "scheduled"]
               /\ UNCHANGED <<pipe, hist>>
     /\ UNCHANGED <<pool, signals, block, cxt, wfm, app, fw>>
-----------------------------------------------------------------------------
(* The calls of the application threads.                                   *)

Goto(t, l) == app' = [app EXCEPT ![t].at = l]

\* The call returns, and gives the lock back if it took it.
Return(t) ==
  /\ app' = [app EXCEPT ![t] = [Idle EXCEPT !.n = app[t].n]]
  /\ block' = IF block = t THEN None ELSE block

\* The command a call begins with: Enable(DISABLE) runs Disconnect first.
FirstCmd(op) == IF op = "off" THEN "disconnect" ELSE op

\* A call is made.  Commit reads the authentication mode before it takes the lock.
\* The Set_Param calls take no lock and return at once while Wi-Fi is off.
Call(t, op, arg) ==
  /\ app[t].at = "idle" /\ Within
  /\ app' = [app EXCEPT ![t] =
       [at  |-> IF op \in Locked THEN "lock"
                ELSE IF ~c.wlanEnabled THEN "idle"
                ELSE IF op = "param" THEN "send" ELSE "profile",
        op  |-> op, cmd |-> FirstCmd(op), n |-> @.n + 1,
        arg |-> IF op = "commit" THEN c.profile ELSE arg]]
  /\ UNCHANGED <<c, pool, signals, block, cxt, pipe, roam, wfm, fw, hist>>

\* WLAN_QAPI_LOCK.
WLAN_QAPI_LOCK(t) ==
  /\ app[t].at = "lock" /\ block = None
  /\ block' = t
  /\ Goto(t, CASE app[t].op = "commit" -> IF app[t].arg = "psk" THEN "pass" ELSE "start"
               [] app[t].op \in {"disconnect", "off"} -> "test"
               [] app[t].op \in {"scan", "results"} -> "start"
               [] OTHER -> "send")
  /\ UNCHANGED <<c, pool, signals, cxt, pipe, roam, wfm, fw, hist>>

\* wmi_set_passphrase: no event answers it.
wmi_set_passphrase(t) ==
  /\ app[t].at = "pass"
  /\ wmi_cmd_send(Command("pass", t, app[t].n, None))
  /\ Goto(t, "start")
  /\ UNCHANGED <<c, pool, signals, block, cxt, roam, wfm, fw>>

\* qapi_WLAN_Disconnect: nothing to do for a device that is neither connected, nor
\* connecting, nor roaming.
qapi_WLAN_Disconnect(t) ==
  /\ app[t].at = "test"
  /\ Goto(t, IF c.connected \/ c.connect_in_progress \/ c.roaming_started
               THEN "start" ELSE "clear")
  /\ UNCHANGED <<c, pool, signals, block, cxt, pipe, roam, wfm, fw, hist>>

\* The results copied by wlan_get_scan_results are those of the scan started last.
Whole == ~c.scan_in_progress /\ c.scan_out = hist.scan

\* The critical section with which wmi_connect begins.
wmi_connect(t) ==
  /\ app[t].at = "start" /\ app[t].cmd = "commit" /\ cxt = None
  /\ c' = [c EXCEPT !.connect_in_progress = TRUE]
  /\ Goto(t, "send")
  /\ UNCHANGED <<pool, signals, block, cxt, pipe, roam, wfm, fw, hist>>

\* The critical section with which wmi_disconnect begins.
wmi_disconnect(t) ==
  /\ app[t].at = "start" /\ app[t].cmd = "disconnect" /\ cxt = None
  /\ c' = [c EXCEPT !.disconnect_in_progress = TRUE]
  /\ Goto(t, "send")
  /\ hist' = [hist EXCEPT !.raced = @ \/ wfm.at \in {"signal", "finish"}]
  /\ UNCHANGED <<pool, signals, block, cxt, pipe, roam, wfm, fw>>

\* The critical section with which wmi_start_scan begins.
wmi_start_scan(t) ==
  /\ app[t].at = "start" /\ app[t].cmd = "scan" /\ cxt = None
  /\ c' = [c EXCEPT !.scan_in_progress = TRUE, !.scan_out = None]
  /\ Goto(t, "send")
  /\ hist' = [hist EXCEPT !.scan = <<t, app[t].n>>, !.overlap = @ \/ c.scan_in_progress]
  /\ UNCHANGED <<pool, signals, block, cxt, pipe, roam, wfm, fw>>

\* wlan_get_scan_results: while a scan runs, ask for its completion and wait;
\* otherwise copy what there is.
wlan_get_scan_results(t) ==
  /\ app[t].at = "start" /\ app[t].cmd = "results" /\ cxt = None
  /\ IF c.scan_in_progress
       THEN /\ c' = [c EXCEPT !.wait_scan_comp_evt = TRUE]
            /\ Goto(t, "wait")
            /\ UNCHANGED <<block, hist>>
       ELSE /\ hist' = [hist EXCEPT !.partial = @ \/ ~Whole]
            /\ Return(t)
            /\ UNCHANGED c
  /\ UNCHANGED <<pool, signals, cxt, pipe, roam, wfm, fw>>

\* The command goes into the pipe; Commit does not wait for its answer
\* (wlan_connect_block_mode is false).  A Set_Param call stores the identifier it
\* waits for only after it has sent the command.
SendCommand(t) ==
  /\ app[t].at = "send"
  /\ wmi_cmd_send(Command(IF app[t].cmd = "commit" THEN "connect" ELSE app[t].cmd,
                          t, app[t].n, app[t].arg))
  /\ IF app[t].cmd = "commit"
       THEN Return(t)
       ELSE Goto(t, IF app[t].cmd = "param" THEN "store" ELSE "wait") /\ UNCHANGED block
  /\ UNCHANGED <<c, pool, signals, cxt, roam, wfm, fw>>

StoreParamId(t) ==
  /\ app[t].at = "store"
  /\ c' = [c EXCEPT !.param_id = app[t].arg]
  /\ Goto(t, "wait")
  /\ UNCHANGED <<pool, signals, block, cxt, pipe, roam, wfm, fw, hist>>

\* qurt_signal_wait with CLEAR_MASK: k_event_wait, then k_event_clear.
qurt_signal_wait(t) ==
  /\ app[t].at = "wait" /\ Mask[app[t].cmd] \in signals
  /\ Goto(t, "woken")
  /\ UNCHANGED <<c, pool, signals, block, cxt, pipe, roam, wfm, fw, hist>>

\* Seeded fault, no part of the specification: the bit is left set.
WakeWithoutClear(t) ==
  /\ app[t].at = "woken"
  /\ Goto(t, "ret")
  /\ UNCHANGED <<c, pool, signals, block, cxt, pipe, roam, wfm, fw, hist>>

k_event_clear(t) ==
  /\ app[t].at = "woken"
  /\ signals' = signals \ {Mask[app[t].cmd]}
  /\ Goto(t, "ret")
  /\ UNCHANGED <<c, pool, block, cxt, pipe, roam, wfm, fw, hist>>

\* The end of a blocking call: read the status, under the context mutex except in
\* the Set_Param and the plain calls.  Get_Scan_Results copies the results.
FinishCall(t) ==
  /\ app[t].at = "ret"
  /\ app[t].cmd \notin {"param", "plain"} => cxt = None
  /\ IF app[t].cmd \in {"disconnect", "off"}
       THEN Goto(t, "roamstop") /\ UNCHANGED block
       ELSE Return(t)
  /\ hist' = [hist EXCEPT !.partial = @ \/ (app[t].cmd = "results" /\ ~Whole)]
  /\ UNCHANGED <<c, pool, signals, cxt, pipe, roam, wfm, fw>>

\* wlan_drv_roaming_stop as wmi_disconnect and wmi_off call it, in station mode,
\* without the context mutex: the flag and the work item are two steps.
wlan_drv_roaming_stop(t) ==
  LET stop == c.opmode = "sta" /\ c.roaming_started
      next == IF app[t].cmd = "off" THEN "offclear" ELSE "clear"
  IN /\ app[t].at = "roamstop"
     /\ c' = IF stop THEN [c EXCEPT !.roaming_started = FALSE] ELSE c
     /\ Goto(t, IF stop THEN "cancel" ELSE next)
     /\ UNCHANGED <<pool, signals, block, cxt, pipe, roam, wfm, fw, hist>>

\* Seeded fault, no part of the specification: the work item is not cancelled.
StopWithoutCancel(t) ==
  /\ app[t].at = "cancel"
  /\ Goto(t, IF app[t].cmd = "off" THEN "offclear" ELSE "clear")
  /\ UNCHANGED <<c, pool, signals, block, cxt, pipe, roam, wfm, fw, hist>>

CancelRoaming(t) ==
  /\ app[t].at = "cancel"
  /\ roam' = Cancelled
  /\ hist' = [hist EXCEPT !.overtaken = @ \/ Running \/ c.roaming_started]
  /\ Goto(t, IF app[t].cmd = "off" THEN "offclear" ELSE "clear")
  /\ UNCHANGED <<c, pool, signals, block, cxt, pipe, wfm, fw>>

\* The end of qapi_WLAN_Disconnect: forget the network.  Inside Enable(DISABLE),
\* wmi_off follows.
ClearProfile(t) ==
  /\ app[t].at = "clear" /\ cxt = None
  /\ c' = [c EXCEPT !.profile = None]
  /\ IF app[t].op = "off"
       THEN app' = [app EXCEPT ![t] = [@ EXCEPT !.at = "send", !.cmd = "off"]] /\ UNCHANGED block
       ELSE Return(t)
  /\ UNCHANGED <<pool, signals, cxt, pipe, roam, wfm, fw, hist>>

\* The end of wmi_off: back to the default mode, without security settings.
ClearSettings(t) ==
  /\ app[t].at = "offclear" /\ cxt = None
  /\ c' = [c EXCEPT !.opmode = "ap", !.profile = IF @ = "psk" THEN "open" ELSE @]
  /\ Return(t)
  /\ UNCHANGED <<pool, signals, cxt, pipe, roam, wfm, fw, hist>>

\* The Set_Param calls that store the network name and the security settings.
SetProfile(t) ==
  /\ app[t].at = "profile" /\ cxt = None
  /\ c' = [c EXCEPT !.profile = app[t].arg]
  /\ Return(t)
  /\ UNCHANGED <<pool, signals, cxt, pipe, roam, wfm, fw, hist>>
-----------------------------------------------------------------------------
(* The WMI task.                                                           *)

Evt == wfm.evt.was
Answers(p) == [t \in Apps |-> hist.answered[t] \/
                 (p.by = t /\ p.n = app[t].n /\ p.cmd = app[t].cmd)]
WfmTo(l) == wfm' = [wfm EXCEPT !.at = l]

\* A firmware payload: the event, the command it answers, its outcome and parameter.
Payload(e, m, ok) ==
  [e |-> e, cmd |-> m.cmd, by |-> m.by, n |-> m.n, ok |-> ok, arg |-> m.arg]

\* The task takes a command out of the pipe and hands it to the firmware, which
\* will owe an answer (external).  A disconnect ends a connection attempt; it is
\* reported by a join event in AP mode and by a disconnect event in station mode.
WfmCommand ==
  LET m == Head(pipe)
      owed(e) == [e |-> e, m |-> m]
  IN /\ wfm.at = "recv" /\ pipe # <<>> /\ m.kind = "cmd"
     /\ pipe' = Tail(pipe)
     /\ fw' = [fw EXCEPT !.owes =
          CASE m.cmd = "pass" -> @
            [] m.cmd = "connect" -> @ \cup {owed("join")}
            [] m.cmd = "disconnect" ->
                 {o \in @ : o.m.cmd # "connect"}
                   \cup {owed(IF c.opmode = "ap" THEN "join" ELSE "disc")}
            [] m.cmd = "scan" -> @ \cup {owed("scan_start")}
            [] OTHER -> @ \cup {owed(m.cmd)}]
     /\ UNCHANGED <<c, pool, signals, block, cxt, roam, wfm, app, hist>>

\* The task takes an event out of the pipe: wmi_cmd_result dispatches it.
WfmEvent ==
  /\ wfm.at = "recv" /\ pipe # <<>> /\ Head(pipe).kind = "evt"
  /\ pipe' = Tail(pipe)
  /\ wfm' = [at |-> "dispatch", evt |-> Head(pipe), polls |-> 0]
  /\ UNCHANGED <<c, pool, signals, block, cxt, roam, app, fw, hist>>

Dispatch(es) == wfm.at = "dispatch" /\ Evt.e \in es

\* Handlers that only set the bit of the waiting call: the statistics, rate, power,
\* regulatory... reports, and wmi_scan_started_event, which takes no mutex.
wmi_report_event ==
  /\ Dispatch({"scan_start", "plain"})
  /\ Evt.e = "plain" => cxt = None
  /\ signals' = signals \cup {Mask[Evt.cmd]}
  /\ hist' = [hist EXCEPT !.answered = Answers(Evt)]
  /\ WfmTo("free")
  /\ UNCHANGED <<c, pool, block, cxt, pipe, roam, app, fw>>

\* wmi_enabled_event and wmi_disabled_event.
wmi_enabled_event ==
  /\ Dispatch({"on", "off"}) /\ cxt = None
  /\ c' = [c EXCEPT !.wlanEnabled = (Evt.e = "on")]
  /\ signals' = signals \cup {Mask[Evt.e]}
  /\ hist' = [hist EXCEPT !.answered = Answers(Evt)]
  /\ WfmTo("free")
  /\ UNCHANGED <<pool, block, cxt, pipe, roam, app, fw>>

\* Seeded fault, no part of the specification: the bit is set even if nobody waits.
ScanCompAlwaysSignals ==
  /\ Dispatch({"scan_comp"}) /\ cxt = None
  /\ c' = [c EXCEPT !.scan_in_progress = FALSE, !.wait_scan_comp_evt = FALSE,
                    !.scan_out = <<Evt.by, Evt.n>>]
  /\ WfmTo("scanned")
  /\ UNCHANGED <<pool, signals, block, cxt, pipe, roam, app, fw, hist>>

\* wmi_scan_comp_event: ignored unless a scan is in progress.  Whoever waits for the
\* results is woken after the mutex has been released.
wmi_scan_comp_event ==
  /\ Dispatch({"scan_comp"}) /\ cxt = None
  /\ IF c.scan_in_progress
       THEN /\ c' = [c EXCEPT !.scan_in_progress = FALSE, !.wait_scan_comp_evt = FALSE,
                              !.scan_out = <<Evt.by, Evt.n>>]
            /\ WfmTo(IF c.wait_scan_comp_evt THEN "scanned" ELSE "free")
       ELSE UNCHANGED c /\ WfmTo("free")
  /\ UNCHANGED <<pool, signals, block, cxt, pipe, roam, app, fw, hist>>

WakeScanResults ==
  /\ wfm.at = "scanned"
  /\ signals' = signals \cup {Mask["results"]}
  /\ WfmTo("free")
  /\ UNCHANGED <<c, pool, block, cxt, pipe, roam, app, fw, hist>>

\* The end of wmi_join_comp_event and of wmi_disconnect_event in station mode: start
\* to roam when disconnected, stop when connected, in the same critical section.
FollowLink(ctx) ==
  IF ctx.opmode = "sta" /\ ~ctx.connected /\ RoamingStarts(ctx)
    THEN /\ c' = [ctx EXCEPT !.roaming_started = TRUE]
         /\ roam' = StartedRoam
         /\ UNCHANGED hist
  ELSE IF ctx.opmode = "sta" /\ ctx.connected /\ ctx.roaming_started
    THEN /\ c' = [ctx EXCEPT !.roaming_started = FALSE]
         /\ roam' = Cancelled
         /\ hist' = [hist EXCEPT !.overtaken = @ \/ Running]
  ELSE c' = ctx /\ UNCHANGED <<roam, hist>>

\* Seeded fault, no part of the specification: connected is not updated while a
\* disconnect is in progress.
JoinKeepsConnected ==
  /\ Dispatch({"join"}) /\ cxt = None
  /\ IF c.disconnect_in_progress
       THEN /\ c' = [c EXCEPT !.connect_in_progress = FALSE]
            /\ WfmTo("signal") /\ UNCHANGED <<roam, hist>>
       ELSE /\ FollowLink([c EXCEPT !.connected = Evt.ok, !.connect_in_progress = FALSE])
            /\ WfmTo("free")
  /\ UNCHANGED <<pool, signals, block, cxt, pipe, app, fw>>

\* wmi_join_comp_event: a station that joins this access point (no connection
\* status) changes nothing; the end of an own connection attempt sets connected.  It
\* counts as the answer to a disconnect call in progress, whoever caused it; that
\* caller is woken with the mutex released, and the flag is cleared after that.
wmi_join_comp_event ==
  /\ Dispatch({"join"}) /\ cxt = None
  /\ LET ctx == [c EXCEPT !.connected = Evt.ok, !.connect_in_progress = FALSE]
     IN IF c.disconnect_in_progress
          THEN c' = ctx /\ WfmTo("signal") /\ UNCHANGED <<roam, hist>>
          ELSE FollowLink(ctx) /\ WfmTo("free")
  /\ UNCHANGED <<pool, signals, block, cxt, pipe, app, fw>>

wmi_peer_event ==
  /\ Dispatch({"peer"}) /\ cxt = None
  /\ WfmTo("free")
  /\ UNCHANGED <<c, pool, signals, block, cxt, pipe, roam, app, fw, hist>>

WakeDisconnect ==
  /\ wfm.at = "signal"
  /\ signals' = signals \cup {Mask["disconnect"]}
  /\ WfmTo("finish")
  /\ UNCHANGED <<c, pool, block, cxt, pipe, roam, app, fw, hist>>

EndDisconnect ==
  /\ wfm.at = "finish" /\ cxt = None
  /\ c' = [c EXCEPT !.disconnect_in_progress = FALSE]
  /\ WfmTo("free")
  /\ UNCHANGED <<pool, signals, block, cxt, pipe, roam, app, fw, hist>>

\* wmi_disconnect_event: all of it under the mutex.
wmi_disconnect_event ==
  /\ Dispatch({"disc"}) /\ cxt = None
  /\ signals' = IF c.disconnect_in_progress THEN signals \cup {Mask["disconnect"]} ELSE signals
  /\ FollowLink([c EXCEPT !.connected = FALSE, !.disconnect_in_progress = FALSE])
  /\ WfmTo("free")
  /\ UNCHANGED <<pool, block, cxt, pipe, app, fw>>

\* wmi_set_param_event: the identifier is compared, and while it differs compared
\* again after a sleep, with the context mutex held; at last the handler gives up.
SetParamDone ==
  /\ signals' = signals \cup {Mask["param"]}
  /\ hist' = [hist EXCEPT !.answered = Answers(Evt)]
  /\ WfmTo("free")
  /\ cxt' = None

\* Seeded fault, no part of the specification: the identifier is compared only once.
SetParamComparesOnce ==
  /\ Dispatch({"param"}) /\ cxt = None
  /\ IF Evt.arg = c.param_id
       THEN SetParamDone
       ELSE WfmTo("free") /\ UNCHANGED <<signals, hist, cxt>>
  /\ UNCHANGED <<c, pool, block, pipe, roam, app, fw>>

wmi_set_param_event ==
  /\ \/ Dispatch({"param"}) /\ cxt = None
     \/ wfm.at = "poll"
  /\ \/ Evt.arg = c.param_id /\ SetParamDone
     \/ /\ Evt.arg # c.param_id /\ wfm.polls < MaxPolls
        /\ wfm' = [wfm EXCEPT !.at = "poll", !.polls = @ + 1]
        /\ cxt' = "wfm"
        /\ UNCHANGED <<signals, hist>>
     \/ /\ Evt.arg # c.param_id /\ wfm.polls = MaxPolls
        /\ WfmTo("free")
        /\ cxt' = None
        /\ hist' = [hist EXCEPT !.lost = TRUE]
        /\ UNCHANGED signals
  /\ UNCHANGED <<c, pool, block, pipe, roam, app, fw>>

\* wmi_event_buf_free: the slot is given back; nobody reads its content any more.
wmi_event_buf_free ==
  LET b == pool[wfm.evt.class]
  IN /\ wfm.at = "free" /\ cxt = None
     /\ pool' = [pool EXCEPT ![wfm.evt.class] =
                   [used |-> b.used - 1, wp |-> b.wp,
                    slots |-> [b.slots EXCEPT ![wfm.evt.slot] = None]]]
     /\ wfm' = [at |-> "recv", evt |-> None, polls |-> 0]
     /\ UNCHANGED <<c, signals, block, cxt, pipe, roam, app, fw, hist>>
-----------------------------------------------------------------------------
(* The firmware (external): how its answers reach wmi_event_relay.         *)

\* It answers a command it owes an answer for.  A scan that has started completes.
FwAnswer(o, ok) ==
  /\ o \in fw.owes
  /\ ok => o.e # "join" \/ o.m.cmd = "connect"
  /\ ok \/ o.e = "join"
  /\ wmi_event_relay(Payload(o.e, o.m, ok))
  /\ fw' = [fw EXCEPT !.owes = (@ \ {o}) \cup
                        (IF o.e = "scan_start" THEN {[e |-> "scan_comp", m |-> o.m]} ELSE {}),
                      !.link = CASE o.e = "join" -> ok [] o.e = "disc" -> FALSE [] OTHER -> @]
  /\ UNCHANGED <<c, signals, block, cxt, roam, wfm, app>>

\* It loses the connection, or a station joins its access point.
Unsolicited == [cmd |-> None, by |-> "fw", n |-> 0, arg |-> None]

FwEvent(e) ==
  /\ fw.link /\ Within
  /\ e = "peer" => c.opmode = "ap"
  /\ wmi_event_relay(Payload(e, Unsolicited, FALSE))
  /\ fw' = [fw EXCEPT !.link = (e = "peer"), !.losses = @ + 1]
  /\ UNCHANGED <<c, signals, block, cxt, roam, wfm, app>>
-----------------------------------------------------------------------------
Args(op) == CASE op = "param" -> Params
              [] op = "profile" -> {None, "psk"}
              [] OTHER -> {None}

\* The steps of thread t inside a call.
AppStep(t) ==
  \/ WLAN_QAPI_LOCK(t) \/ wmi_set_passphrase(t) \/ qapi_WLAN_Disconnect(t)
  \/ wmi_connect(t) \/ wmi_disconnect(t) \/ wmi_start_scan(t) \/ wlan_get_scan_results(t)
  \/ SendCommand(t) \/ StoreParamId(t) \/ qurt_signal_wait(t) \/ k_event_clear(t)
  \/ FinishCall(t) \/ wlan_drv_roaming_stop(t) \/ CancelRoaming(t)
  \/ ClearProfile(t) \/ ClearSettings(t) \/ SetProfile(t)

WfmStep ==
  \/ WfmCommand \/ WfmEvent
  \/ wmi_report_event \/ wmi_enabled_event
  \/ wmi_scan_comp_event \/ WakeScanResults
  \/ wmi_join_comp_event \/ wmi_peer_event \/ WakeDisconnect \/ EndDisconnect
  \/ wmi_disconnect_event \/ wmi_set_param_event \/ wmi_event_buf_free

FwStep == \E o \in fw.owes, ok \in BOOLEAN : FwAnswer(o, ok)

Next ==
  \/ \E t \in Apps : AppStep(t)
  \/ \E t \in Apps : \E op \in Ops[t] : \E a \in Args(op) : Call(t, op, a)
  \/ WfmStep \/ FwStep
  \/ \E e \in {"disc", "peer"} : FwEvent(e)
  \/ RoamExpire \/ roam_handler

\* The WMI task runs, some application thread that can run does, and the firmware
\* answers what it owes.
AppsStep == \E t \in Apps : AppStep(t)

Fairness == WF_vars(WfmStep) /\ WF_vars(AppsStep) /\ WF_vars(FwStep)

Spec == Init /\ [][Next]_vars /\ Fairness
-----------------------------------------------------------------------------
(* Properties.                                                             *)

Labels == {"idle", "lock", "pass", "test", "start", "send", "store", "wait", "woken",
           "ret", "roamstop", "cancel", "clear", "offclear", "profile"}

WfmLabels == {"recv", "dispatch", "scanned", "signal", "finish", "poll", "free"}

By     == Apps \cup {"roam", "fw"}
Values == Params \cup {None, "psk", "open"}
Sent   == {"on", "off", "scan", "disconnect", "param", "plain", "connect", "pass"}
Events == {"on", "off", "plain", "param", "join", "disc", "peer", "scan_start", "scan_comp"}

\* Which event answers which command.
Fits(e, cmd) ==
  /\ e \in {"on", "off", "plain", "param"} => cmd = e
  /\ e \in {"scan_start", "scan_comp"} => cmd = "scan"
  /\ e = "join" => cmd \in {"connect", "disconnect"}
  /\ e = "disc" => cmd \in {"disconnect", None}
  /\ e = "peer" => cmd = None

Commands == [kind : {"cmd"}, cmd : Sent, by : By, n : Nat, arg : Values]
Owed     == {o \in [e : Events, m : Commands] : Fits(o.e, o.m.cmd)}
Payloads == {p \in [e : Events, cmd : Sent \cup {None}, by : By, n : Nat, ok : BOOLEAN,
                    arg : Values] : Fits(p.e, p.cmd)}
Queued   == [kind : {"evt"}, class : Classes, slot : Nat, was : Payloads]
Scans    == {None} \cup (By \X Nat)
Bits     == {Mask[x] : x \in DOMAIN Mask}

\* The contexts, and where a thread may be in which call.
Contexts ==
  [connected : BOOLEAN, connect_in_progress : BOOLEAN, disconnect_in_progress : BOOLEAN,
   scan_in_progress : BOOLEAN, wait_scan_comp_evt : BOOLEAN, wlanEnabled : BOOLEAN,
   opmode : {"ap", "sta"}, profile : Values, param_id : Values, roaming_started : BOOLEAN,
   scan_out : Scans]

Flow(a) ==
  /\ a.at # "idle" => a.cmd = a.op \/ (a.op = "off" /\ a.cmd = "disconnect")
  /\ a.at \notin {"idle", "send", "store", "wait", "woken", "ret", "profile"} => a.op \in Locked
  /\ a.at = "lock" => a.cmd = FirstCmd(a.op)
  /\ a.at = "pass" => a.op = "commit"
  /\ a.at = "send" => a.cmd \in (Sent \ {"connect", "pass"}) \cup {"commit"}
  /\ a.at = "store" => a.cmd = "param"
  /\ a.at \in {"wait", "woken", "ret"} => a.cmd \in DOMAIN Mask

Threads == {a \in [at : Labels, op : AllOps \cup {None}, cmd : AllOps \cup {None}, n : Nat,
                   arg : Values] : Flow(a)}

\* Types.  That used never falls below zero is the assertion of
\* wmi_event_buf_free: no slot is given back twice.
CtxOK  == c \in Contexts
RoamOK == roam \in [work : {"idle", "scheduled", "running", "running_again"},
                    time_out : Nat, cnt : 1 .. Period.runs, runs : Nat]
AppOK  == app \in [Apps -> Threads]
PipeOK == pipe \in Seq(Commands \cup Queued) /\ Len(pipe) <= PipeLen
WfmOK  == /\ wfm \in [at : WfmLabels, evt : Queued \cup {None}, polls : Nat]
          /\ wfm.at # "recv" => wfm.evt \in Queued
          /\ wfm.at = "recv" => wfm.evt = None
FwOK   == fw \in [owes : SUBSET Owed, link : BOOLEAN, losses : Nat]
HistOK == hist \in [answered : [Apps -> BOOLEAN], lost : BOOLEAN, raced : BOOLEAN,
                    overtaken : BOOLEAN, scan : Scans, overlap : BOOLEAN, partial : BOOLEAN]
PoolOK == /\ DOMAIN pool = Classes
          /\ \A k \in Classes :
               pool[k] \in [used : 0 .. BufNum[k], wp : 0 .. BufNum[k] - 1,
                            slots : [0 .. BufNum[k] - 1 -> Payloads \cup {None}]]

TypeOK ==
  /\ CtxOK /\ RoamOK /\ AppOK /\ PipeOK /\ WfmOK /\ FwOK /\ HistOK /\ PoolOK
  /\ signals \subseteq Bits
  /\ block \in Apps \cup {None} /\ cxt \in {"wfm", None}

\* The payload of an event that is queued or being handled is the one the firmware
\* handed over: wmi_event_relay never reuses a slot before wmi_event_buf_free.
SlotIntact ==
  LET waiting == {pipe[i] : i \in DOMAIN pipe} \cup {wfm.evt}
  IN \A m \in waiting \ {None} :
       m.kind = "evt" => pool[m.class].slots[m.slot] = m.was

\* A blocking call other than Disconnect and Get_Scan_Results is woken by the event
\* that answers its own command, not by a bit left over from an earlier one.
OwnAnswer ==
  \A t \in Apps :
    (app[t].at = "woken" /\ app[t].cmd \notin {"disconnect", "results"}) => hist.answered[t]

\* Get_Scan_Results copies the results of the scan started last, complete; unless a
\* scan was started while another was running.
ScanResultsWhole == hist.partial => hist.overlap

\* When every report on the link has been handled and none was lost, connected tells
\* whether the firmware is connected.
LinkReports == {"join", "disc"}
ViewAgrees ==
  \/ hist.lost
  \/ \E i \in DOMAIN pipe : pipe[i].kind = "evt" /\ pipe[i].was.e \in LinkReports
  \/ Dispatch(LinkReports)
  \/ c.connected = fw.link

\* The roaming flag and the work item agree: a connection attempt is scheduled only
\* while roaming, and a device that roams has one coming; unless a stop met a handler
\* already running, or a start came between the two steps of a stop.
RoamTracked ==
  \/ hist.overtaken
  \/ /\ c.roaming_started => (roam.work # "idle")
     /\ roam.work = "scheduled" =>
          (c.roaming_started \/ \E t \in Apps : app[t].at = "cancel")

\* A thread that waits for an answer gets it, unless a message was lost (full pipe, no
\* payload buffer, identifier given up) or a Disconnect began while the previous
\* one's flag was still to be cleared.
CallsReturn ==
  \A t \in Apps : app[t].at = "wait" ~> (app[t].at # "wait" \/ hist.lost \/ hist.raced)
=============================================================================
