--------------------------- MODULE WlanDrvProofs ---------------------------
(***************************************************************************)
(* The scan, the answers, and the safety properties of WlanDrv for every   *)
(* number of threads and buffers and every length of the pipe.             *)
(***************************************************************************)
EXTENDS WlanRequestProofs

-----------------------------------------------------------------------------
(* What the steps do to the rest of the state.                             *)

LEMMA MaskInj ==
  /\ DOMAIN Mask = Awaited \cup {"results", "disconnect"}
  /\ \A y, z \in DOMAIN Mask : Mask[y] = Mask[z] => y = z
BY DEF Mask, Awaited

\* Two threads are not in the same serialised call.
LEMMA SameCaller ==
  ASSUME AppOK, LockInv, NEW t \in Apps, NEW u \in Apps,
         app[t].cmd \in {"on", "off", "scan", "plain", "results"}, app[t].at \notin {"idle", "lock"},
         app[u].cmd \in {"on", "off", "scan", "plain", "results"}, app[u].at \notin {"idle", "lock"}
  PROVE  t = u
<1>1. app[t].op = app[t].cmd /\ app[u].op = app[u].cmd
  BY ZenonT(40) DEF AppOK, Threads, Flow
<1>2. app[t].op \in Locked /\ app[u].op \in Locked
  BY ZenonT(40), <1>1 DEF Locked
<1> QED BY ZenonT(40), <1>2 DEF LockInv

\* A step of a thread and the history.
LEMMA ThreadHist ==
  ASSUME TypeOK, NEW t \in Apps, AppStep(t)
  PROVE  /\ \A u \in Apps \ {t} : hist'.answered[u] = hist.answered[u]
         /\ ~SendCommand(t) /\ ~wmi_set_passphrase(t) => hist'.answered = hist.answered
         /\ ~wmi_start_scan(t) => hist'.scan = hist.scan
         /\ ~wlan_get_scan_results(t) /\ ~FinishCall(t) => hist'.partial = hist.partial
<1>0. HistOK
  BY ZenonT(40) DEF TypeOK
<1> DEFINE f == [u \in Apps |-> hist.answered[u] /\ u # t]
<1>1. ASSUME NEW b, \/ hist' = [hist EXCEPT !.raced = b] \/ hist' = [hist EXCEPT !.overtaken = b]
      PROVE  /\ hist'.answered = hist.answered /\ hist'.scan = hist.scan /\ hist'.partial = hist.partial
  BY ZenonT(40), <1>0, <1>1 DEF HistOK
<1>2. ASSUME NEW b, hist' = [hist EXCEPT !.partial = b]
      PROVE  hist'.answered = hist.answered /\ hist'.scan = hist.scan
  BY ZenonT(40), <1>0, <1>2 DEF HistOK
<1>3. ASSUME NEW b, NEW x, hist' = [hist EXCEPT !.scan = x, !.overlap = b]
      PROVE  hist'.answered = hist.answered /\ hist'.partial = hist.partial
  BY ZenonT(40), <1>0, <1>3 DEF HistOK
<1>4. ASSUME NEW b, NEW h, hist' = [hist EXCEPT !.lost = b, !.answered = h]
      PROVE  hist'.answered = h /\ hist'.scan = hist.scan /\ hist'.partial = hist.partial
  BY ZenonT(40), <1>0, <1>4 DEF HistOK
<1>5. CASE UNCHANGED hist
  BY ZenonT(40), <1>5
<1>6. CASE wmi_disconnect(t) \/ CancelRoaming(t)
  <2>1. \E b : hist' = [hist EXCEPT !.raced = b] \/ hist' = [hist EXCEPT !.overtaken = b]
    BY ZenonT(40), <1>6 DEF wmi_disconnect, CancelRoaming
  <2>2. hist'.answered = hist.answered /\ hist'.scan = hist.scan /\ hist'.partial = hist.partial
    BY ZenonT(40), <1>1, <2>1
  <2> QED BY ZenonT(40), <2>2
<1>7. CASE wmi_start_scan(t)
  <2>1. \E b, x : hist' = [hist EXCEPT !.scan = x, !.overlap = b]
    BY ZenonT(40), <1>7 DEF wmi_start_scan
  <2>2. hist'.answered = hist.answered /\ hist'.partial = hist.partial
    BY ZenonT(40), <1>3, <2>1
  <2> QED BY ZenonT(40), <1>7, <2>2
<1>8. CASE FinishCall(t) \/ (wlan_get_scan_results(t) /\ ~UNCHANGED hist)
  <2>1. \E b : hist' = [hist EXCEPT !.partial = b]
    BY ZenonT(40), <1>8 DEF FinishCall, wlan_get_scan_results
  <2>2. hist'.answered = hist.answered /\ hist'.scan = hist.scan
    BY ZenonT(40), <1>2, <2>1
  <2> QED BY ZenonT(40), <1>8, <2>2
<1>9. CASE SendCommand(t) \/ wmi_set_passphrase(t)
  <2>1. \A x, n, v : Command(x, t, n, v).by = t
    BY ZenonT(40) DEF Command
  <2>2. \E b : hist' = [hist EXCEPT !.lost = b, !.answered = f]
    <3>1. PICK m : m.by = t /\ wmi_cmd_send(m)
      BY ZenonT(40), <1>9, <2>1 DEF SendCommand, wmi_set_passphrase
    <3>2. hist' = [hist EXCEPT !.lost = hist.lost \/ PipeFull,
                               !.answered = [u \in Apps |-> hist.answered[u] /\ u # m.by]]
      BY ZenonT(40), <3>1 DEF wmi_cmd_send
    <3> QED BY ZenonT(40), <3>1, <3>2
  <2>3. hist'.answered = f /\ hist'.scan = hist.scan /\ hist'.partial = hist.partial
    BY ZenonT(40), <1>4, <2>2
  <2>4. \A u \in Apps \ {t} : f[u] = hist.answered[u]
    BY ZenonT(40), <1>0 DEF HistOK
  <2> HIDE DEF f
  <2> QED BY ZenonT(40), <1>9, <2>3, <2>4
<1> QED BY ZenonT(60), <1>5, <1>6, <1>7, <1>8, <1>9 DEF AppStep, WLAN_QAPI_LOCK, qapi_WLAN_Disconnect,
     wmi_connect, wlan_get_scan_results, StoreParamId, qurt_signal_wait, k_event_clear,
     wlan_drv_roaming_stop, ClearProfile, ClearSettings, SetProfile

\* A step that is no step of a thread, and the history.
LEMMA OtherHist ==
  ASSUME TypeOK, Next, \A t \in Apps : ~AppStep(t)
  PROVE  /\ hist'.scan = hist.scan /\ hist'.partial = hist.partial
         /\ \/ hist'.answered = hist.answered
            \/ Handler /\ hist'.answered = Answers(Evt)
<1>0. HistOK
  BY ZenonT(40) DEF TypeOK
<1>1. ASSUME NEW b, \/ hist' = [hist EXCEPT !.lost = b] \/ hist' = [hist EXCEPT !.overtaken = b]
      PROVE  /\ hist'.answered = hist.answered /\ hist'.scan = hist.scan /\ hist'.partial = hist.partial
  BY ZenonT(40), <1>0, <1>1 DEF HistOK
<1>2. ASSUME NEW h, hist' = [hist EXCEPT !.answered = h]
      PROVE  hist'.answered = h /\ hist'.scan = hist.scan /\ hist'.partial = hist.partial
  BY ZenonT(40), <1>0, <1>2 DEF HistOK
<1>3. CASE Handler
  <2>1. \/ UNCHANGED hist
        \/ \E b : hist' = [hist EXCEPT !.lost = b] \/ hist' = [hist EXCEPT !.overtaken = b]
        \/ hist' = [hist EXCEPT !.answered = Answers(Evt)]
    BY ZenonT(60), <1>3 DEF Handler, wmi_report_event, wmi_enabled_event, wmi_scan_comp_event, WakeScanResults,
       wmi_join_comp_event, wmi_peer_event, WakeDisconnect, EndDisconnect, wmi_disconnect_event,
       wmi_set_param_event, SetParamDone, FollowLink
  <2> QED BY ZenonT(40), <1>1, <1>2, <1>3, <2>1
<1>4. CASE ~Handler
  <2>1. UNCHANGED hist \/ \E b : hist' = [hist EXCEPT !.lost = b]
    BY ZenonT(60), <1>4, NextIs DEF Client, Call, RoamExpire, roam_handler, WfmCommand, WfmEvent,
       wmi_event_buf_free, FwStep, FwAnswer, FwEvent, wmi_event_relay
  <2> QED BY ZenonT(40), <1>1, <2>1
<1> QED BY ZenonT(40), <1>3, <1>4

\* A step that is no step of a thread, and what the driver knows of the scan.
LEMMA OtherCtx ==
  ASSUME TypeOK, Next, \A t \in Apps : ~AppStep(t), ~wmi_scan_comp_event
  PROVE  /\ c'.scan_in_progress = c.scan_in_progress /\ c'.scan_out = c.scan_out
         /\ c'.wait_scan_comp_evt = c.wait_scan_comp_evt
<1>0. c \in Contexts /\ WfmOK
  BY ZenonT(40) DEF TypeOK, CtxOK
<1>1. ASSUME NEW d \in Contexts, NEW e, NEW b,
             \/ e = [d EXCEPT !.wlanEnabled = b] \/ e = [d EXCEPT !.disconnect_in_progress = b]
             \/ e = [d EXCEPT !.connect_in_progress = b] \/ e = [d EXCEPT !.roaming_started = b]
      PROVE  /\ e.scan_in_progress = d.scan_in_progress /\ e.scan_out = d.scan_out
             /\ e.wait_scan_comp_evt = d.wait_scan_comp_evt
  BY ZenonT(40), <1>1 DEF Contexts
<1>2. CASE wmi_join_comp_event \/ wmi_disconnect_event
  <2>1. wfm.at # "recv"
    BY ZenonT(40), <1>2 DEF wmi_join_comp_event, wmi_disconnect_event, Dispatch
  <2>2. Evt.ok \in BOOLEAN
    BY ZenonT(40), <1>0, <2>1, EvtIs
  <2>3. \A b \in BOOLEAN : \A x :
           \/ x = [c EXCEPT !.connected = b, !.connect_in_progress = FALSE]
           \/ x = [c EXCEPT !.connected = FALSE, !.disconnect_in_progress = FALSE]
           => /\ x \in Contexts
              /\ x.scan_in_progress = c.scan_in_progress /\ x.scan_out = c.scan_out
              /\ x.wait_scan_comp_evt = c.wait_scan_comp_evt
    BY ZenonT(40), <1>0 DEF Contexts
  <2>4. \E x : /\ \/ x = [c EXCEPT !.connected = Evt.ok, !.connect_in_progress = FALSE]
                  \/ x = [c EXCEPT !.connected = FALSE, !.disconnect_in_progress = FALSE]
               /\ c' = x \/ \E b : c' = [x EXCEPT !.roaming_started = b]
    BY ZenonT(40), <1>2 DEF wmi_join_comp_event, wmi_disconnect_event, FollowLink
  <2>5. PICK x : /\ \/ x = [c EXCEPT !.connected = Evt.ok, !.connect_in_progress = FALSE]
                    \/ x = [c EXCEPT !.connected = FALSE, !.disconnect_in_progress = FALSE]
                 /\ c' = x \/ \E b : c' = [x EXCEPT !.roaming_started = b]
    BY ZenonT(40), <2>4
  <2>6. x \in Contexts
    BY ZenonT(40), <2>2, <2>3, <2>5
  <2>7. /\ x.scan_in_progress = c.scan_in_progress /\ x.scan_out = c.scan_out
        /\ x.wait_scan_comp_evt = c.wait_scan_comp_evt
    BY ZenonT(40), <2>2, <2>3, <2>5
  <2>8. /\ c'.scan_in_progress = x.scan_in_progress /\ c'.scan_out = x.scan_out
        /\ c'.wait_scan_comp_evt = x.wait_scan_comp_evt
    BY ZenonT(40), <1>1, <2>5, <2>6
  <2> QED BY ZenonT(40), <2>7, <2>8
<1>3. CASE ~(wmi_join_comp_event \/ wmi_disconnect_event)
  <2>1. \/ UNCHANGED c
        \/ \E b : \/ c' = [c EXCEPT !.wlanEnabled = b] \/ c' = [c EXCEPT !.disconnect_in_progress = b]
                  \/ c' = [c EXCEPT !.connect_in_progress = b] \/ c' = [c EXCEPT !.roaming_started = b]
    BY ZenonT(60), <1>3 DEF Next, WfmStep, Call, RoamExpire, roam_handler, wmi_report_event,
       wmi_enabled_event, WakeScanResults, wmi_peer_event, WakeDisconnect, EndDisconnect,
       wmi_set_param_event, WfmCommand, WfmEvent, wmi_event_buf_free, FwStep, FwAnswer, FwEvent
  <2> QED BY ZenonT(40), <1>0, <1>1, <2>1
<1> QED BY ZenonT(40), <1>2, <1>3

\* The handlers and the bits.
LEMMA HandlerSignals ==
  ASSUME TypeOK, LockInv, Handler
  PROVE  \/ UNCHANGED signals /\ hist'.answered = hist.answered
         \/ signals' = signals \cup {Mask["disconnect"]} /\ hist'.answered = hist.answered
         \/ WakeScanResults
         \/ \E z \in Awaited :
              /\ Evt.e = Final(z) /\ Evt.cmd = z /\ Handling /\ ~Handling'
              /\ signals' = signals \cup {Mask[z]} /\ hist'.answered = Answers(Evt)
<1>0. HistOK /\ WfmOK
  BY ZenonT(40) DEF TypeOK
<1>1. /\ \A h : hist' = [hist EXCEPT !.answered = h] => hist'.answered = h
      /\ \A b : \/ hist' = [hist EXCEPT !.lost = b] \/ hist' = [hist EXCEPT !.overtaken = b]
                => hist'.answered = hist.answered
  BY ZenonT(40), <1>0 DEF HistOK
<1>2. WfmTo("free") => ~Handling'
  <2>1. WfmTo("free") => wfm'.at = "free"
    BY ZenonT(40), <1>0 DEF WfmTo, WfmOK
  <2> QED BY ZenonT(40), <2>1 DEF Handling
<1>3. \A es : Dispatch(es) => Handling /\ Evt.e \in es /\ Fits(Evt.e, Evt.cmd)
  BY ZenonT(40), <1>0, EvtIs DEF Dispatch, Handling
<1>4. CASE wmi_report_event
  <2>1. Evt.e \in {"scan_start", "plain"} /\ Fits(Evt.e, Evt.cmd) /\ Handling
    BY ZenonT(40), <1>3, <1>4 DEF wmi_report_event
  <2>2. /\ signals' = signals \cup {Mask[Evt.cmd]} /\ hist' = [hist EXCEPT !.answered = Answers(Evt)]
        /\ WfmTo("free")
    BY ZenonT(40), <1>4 DEF wmi_report_event
  <2>3. Evt.cmd \in Awaited /\ Evt.e = Final(Evt.cmd)
    BY ZenonT(40), <2>1 DEF Fits, Awaited, Final
  <2> QED BY ZenonT(40), <1>1, <1>2, <2>1, <2>2, <2>3
<1>5. CASE wmi_enabled_event
  <2>1. Evt.e \in {"on", "off"} /\ Fits(Evt.e, Evt.cmd) /\ Handling
    BY ZenonT(40), <1>3, <1>5 DEF wmi_enabled_event
  <2>2. /\ signals' = signals \cup {Mask[Evt.e]} /\ hist' = [hist EXCEPT !.answered = Answers(Evt)]
        /\ WfmTo("free")
    BY ZenonT(40), <1>5 DEF wmi_enabled_event
  <2>3. Evt.cmd = Evt.e /\ Evt.cmd \in Awaited /\ Evt.e = Final(Evt.cmd)
    BY ZenonT(40), <2>1 DEF Fits, Awaited, Final
  <2> QED BY ZenonT(40), <1>1, <1>2, <2>1, <2>2, <2>3
<1>6. CASE wmi_set_param_event
  <2>1. Evt.e = "param" /\ Handling /\ wfm.at # "recv"
    BY ZenonT(40), <1>6 DEF wmi_set_param_event, Dispatch, Handling, LockInv
  <2>2. Evt.cmd = "param" /\ "param" \in Awaited /\ Evt.e = Final("param")
    BY ZenonT(40), <1>0, <2>1, EvtIs DEF Fits, Awaited, Final
  <2>3. CASE SetParamDone
    <3>1. /\ signals' = signals \cup {Mask["param"]} /\ hist' = [hist EXCEPT !.answered = Answers(Evt)]
          /\ WfmTo("free")
      BY ZenonT(40), <2>3 DEF SetParamDone
    <3> QED BY ZenonT(40), <1>1, <1>2, <2>1, <2>2, <3>1
  <2>4. CASE UNCHANGED signals /\ (UNCHANGED hist \/ hist' = [hist EXCEPT !.lost = TRUE])
    BY ZenonT(40), <1>1, <2>4
  <2> QED BY ZenonT(40), <1>6, <2>3, <2>4 DEF wmi_set_param_event
<1>7. CASE wmi_scan_comp_event \/ wmi_peer_event \/ WakeDisconnect \/ EndDisconnect
  <2>1. UNCHANGED hist /\ (UNCHANGED signals \/ signals' = signals \cup {Mask["disconnect"]})
    BY ZenonT(40), <1>7 DEF wmi_scan_comp_event, wmi_peer_event, WakeDisconnect, EndDisconnect
  <2> QED BY ZenonT(40), <2>1
<1>8. CASE wmi_join_comp_event \/ wmi_disconnect_event
  <2>1. /\ UNCHANGED hist \/ \E b : hist' = [hist EXCEPT !.overtaken = b]
        /\ UNCHANGED signals \/ signals' = signals \cup {Mask["disconnect"]}
    BY ZenonT(40), <1>8 DEF wmi_join_comp_event, wmi_disconnect_event, FollowLink
  <2>2. hist'.answered = hist.answered
    BY ZenonT(40), <1>1, <2>1
  <2> QED BY ZenonT(40), <2>1, <2>2
<1> QED BY ZenonT(40), <1>4, <1>5, <1>6, <1>7, <1>8 DEF Handler

-----------------------------------------------------------------------------
(* The scan.                                                               *)

\* The threads between the flag and the command of a scan, and those in one of the
\* given places of Get_Scan_Results.
Starting == {t \in Apps : app[t].at = "send" /\ app[t].cmd = "scan"}
Results(ats) == \E t \in Apps : app[t].cmd = "results" /\ app[t].at \in ats

\* Unless scans overlapped: there is at most one, the one started last, and once it
\* is over its results are there; whoever asked to be woken waits, and nobody is
\* past the wait while a scan is in progress.
ScanInv ==
  \/ hist.overlap
  \/ /\ Sole("comp", hist.scan)
     /\ \A t \in Starting : <<t, app[t].n>> = hist.scan /\ Nothing("comp")
     /\ ~c.scan_in_progress => Starting = {} /\ Nothing("comp") /\ c.scan_out = hist.scan
     /\ c.wait_scan_comp_evt => c.scan_in_progress /\ Results({"wait"})
     /\ Mask["results"] \in signals =>
          ~c.scan_in_progress /\ Results({"wait", "woken"}) /\ wfm.at # "scanned"
     /\ wfm.at = "scanned" => ~c.scan_in_progress /\ Results({"wait"})
     /\ Results({"woken", "ret"}) => ~c.scan_in_progress
     /\ ~hist.partial

\* A thread that has nothing to do with a scan just now.
Aloof(a) ==
  /\ ~(a.cmd = "scan" /\ a.at = "send")
  /\ ~(a.cmd = "results" /\ a.at \in {"wait", "woken", "ret"})

LEMMA ScanKept ==
  ASSUME ScanInv, Grows, Calm("comp"), hist'.scan = hist.scan, hist'.partial = hist.partial,
         c'.scan_in_progress = c.scan_in_progress, c'.scan_out = c.scan_out,
         c'.wait_scan_comp_evt = c.wait_scan_comp_evt,
         Mask["results"] \in signals' <=> Mask["results"] \in signals,
         wfm'.at = "scanned" <=> wfm.at = "scanned",
         \A t \in Apps : app'[t] = app[t] \/ (Aloof(app[t]) /\ Aloof(app'[t]))
  PROVE  ScanInv'
<1>1. CASE hist.overlap
  BY ZenonT(40), <1>1 DEF ScanInv, Grows
<1>2. CASE ~hist.overlap
  <2>1. Starting' = Starting /\ \A t \in Starting : app'[t] = app[t]
    BY ZenonT(40) DEF Starting, Aloof
  <2>2. /\ Results({"wait"})' = Results({"wait"})
        /\ Results({"wait", "woken"})' = Results({"wait", "woken"})
        /\ Results({"woken", "ret"})' = Results({"woken", "ret"})
    BY ZenonT(40) DEF Results, Aloof
  <2>3. PICK g : g = hist.scan
    BY ZenonT(40)
  <2>4. Sole("comp", g) /\ (Nothing("comp") => Nothing("comp")')
    BY ZenonT(40), <1>2, <2>3 DEF ScanInv, Calm
  <2>5. Sole("comp", g)'
    BY ZenonT(40), <2>4 DEF Calm
  <2>6. Sole("comp", hist.scan)'
    BY ZenonT(40), <2>3, <2>5 DEF Sole
  <2>7. /\ \A t \in Starting' : <<t, app'[t].n>> = hist'.scan /\ Nothing("comp")'
        /\ ~c'.scan_in_progress => Starting' = {} /\ Nothing("comp")' /\ c'.scan_out = hist'.scan
    BY ZenonT(40), <1>2, <2>1, <2>4 DEF ScanInv
  <2>8. /\ c'.wait_scan_comp_evt => c'.scan_in_progress /\ Results({"wait"})'
        /\ Mask["results"] \in signals' =>
             ~c'.scan_in_progress /\ Results({"wait", "woken"})' /\ wfm'.at # "scanned"
        /\ wfm'.at = "scanned" => ~c'.scan_in_progress /\ Results({"wait"})'
        /\ Results({"woken", "ret"})' => ~c'.scan_in_progress
        /\ ~hist'.partial
    BY ZenonT(40), <1>2, <2>2 DEF ScanInv
  <2>9. Mask' = Mask
    BY ZenonT(40) DEF Mask
  <2> QED BY ZenonT(40), <2>6, <2>7, <2>8, <2>9 DEF ScanInv
<1> QED BY ZenonT(40), <1>1, <1>2

\* How a thread gets to the places that matter for a scan.
LEMMA ScanPlaces ==
  ASSUME TypeOK, NEW t \in Apps, AppStep(t), ~wmi_start_scan(t), ~wlan_get_scan_results(t),
         app[t].cmd = "results" => ~qurt_signal_wait(t) /\ ~k_event_clear(t)
  PROVE  Aloof(app'[t])
<1>0. AppOK /\ app[t] \in Threads
  BY ZenonT(40) DEF TypeOK, AppOK
<1>1. /\ app'[t].cmd \in {None, "off", app[t].cmd}
      /\ app'[t].at = "wait" => StoreParamId(t) \/ SendCommand(t)
      /\ app'[t].at = "woken" => qurt_signal_wait(t)
      /\ app'[t].at = "ret" => k_event_clear(t)
  BY ZenonT(40), ThreadMoves
<1>2. None \notin {"scan", "results"}
  BY ZenonT(40), WlanAssumption DEF AllOps, Locked
<1>3. ASSUME app'[t].at = "send", app'[t].cmd = "scan" PROVE FALSE
  <2>1. app[t].cmd = "scan"
    BY ZenonT(40), <1>1, <1>2, <1>3
  <2>2. ASSUME NEW l \in Labels \ {"send"}, Goto(t, l) PROVE FALSE
    <3>1. app'[t].at = l
      BY ZenonT(40), <1>0, <2>2, GotoFields
    <3> QED BY ZenonT(40), <1>3, <2>2, <3>1
  <2>3. ~Return(t)
    <3>1. Return(t) => app'[t].at = "idle"
      BY ZenonT(40), <1>0, ReturnFields
    <3> QED BY ZenonT(40), <1>3, <3>1
  <2>4. ~(ClearProfile(t) /\ app[t].op = "off")
    <3>1. app[t].at # "idle" /\ app[t].op = "off" => app[t].cmd \in {"off", "disconnect"}
      BY ZenonT(40), <1>0 DEF Threads, Flow
    <3> QED BY ZenonT(40), <2>1, <3>1 DEF ClearProfile
  <2>5. ~WLAN_QAPI_LOCK(t)
    <3>1. SUFFICES ASSUME WLAN_QAPI_LOCK(t) PROVE FALSE
      BY ZenonT(40)
    <3>2. app[t].at = "lock" /\ app[t].op = "scan"
      BY ZenonT(40), <1>0, <2>1, <3>1 DEF WLAN_QAPI_LOCK, Threads, Flow, FirstCmd
    <3>3. Goto(t, "start")
      BY ZenonT(40), <3>1, <3>2 DEF WLAN_QAPI_LOCK
    <3> QED BY ZenonT(40), <2>2, <3>3 DEF Labels
  <2>6. ~(Goto(t, "send") /\ app[t].at = "start")
    <3>1. app[t].at = "start" => wmi_connect(t) \/ wmi_disconnect(t) \/ wmi_start_scan(t) \/ wlan_get_scan_results(t)
      BY ZenonT(60) DEF AppStep, WLAN_QAPI_LOCK, wmi_set_passphrase, qapi_WLAN_Disconnect,
         wmi_connect, wmi_disconnect, wmi_start_scan, wlan_get_scan_results, SendCommand, StoreParamId,
         qurt_signal_wait, k_event_clear, FinishCall, wlan_drv_roaming_stop, CancelRoaming,
         ClearProfile, ClearSettings, SetProfile
    <3>2. ~wmi_connect(t) /\ ~wmi_disconnect(t)
      BY ZenonT(40), <2>1 DEF wmi_connect, wmi_disconnect
    <3> QED BY ZenonT(40), <3>1, <3>2
  <2> QED BY ZenonT(60), <2>2, <2>3, <2>4, <2>5, <2>6, ThreadTo DEF Labels
<1>4. ASSUME app'[t].at \in {"wait", "woken", "ret"}, app'[t].cmd = "results" PROVE FALSE
  <2>1. app[t].cmd = "results"
    BY ZenonT(40), <1>1, <1>2, <1>4
  <2>2. StoreParamId(t) => app[t].cmd = "param"
    BY ZenonT(40), <1>0 DEF StoreParamId, Threads, Flow
  <2>3. SendCommand(t) => app[t].cmd \in (Sent \ {"connect", "pass"}) \cup {"commit"}
    BY ZenonT(40), <1>0 DEF SendCommand, Threads, Flow
  <2> QED BY ZenonT(40), <1>1, <1>4, <2>1, <2>2, <2>3 DEF Sent
<1> QED BY ZenonT(40), <1>3, <1>4 DEF Aloof

\* A scan starts.
LEMMA ScanStarts ==
  ASSUME QueueInv, LockInv, ScanInv, Calm("comp"), NEW t \in Apps, AppStep(t), wmi_start_scan(t)
  PROVE  ScanInv'
<1>0. TypeOK /\ AppOK /\ HistOK /\ c \in Contexts
  BY ZenonT(40) DEF QueueInv, TypeOK, CtxOK
<1>1. /\ app[t].cmd = "scan" /\ app[t].at = "start" /\ Goto(t, "send") /\ UNCHANGED <<signals, wfm>>
      /\ c' = [c EXCEPT !.scan_in_progress = TRUE, !.scan_out = None]
      /\ hist' = [hist EXCEPT !.scan = <<t, app[t].n>>, !.overlap = hist.overlap \/ c.scan_in_progress]
  BY ZenonT(40) DEF wmi_start_scan
<1>2. c'.scan_in_progress = TRUE /\ c'.wait_scan_comp_evt = c.wait_scan_comp_evt
  BY ZenonT(40), <1>0, <1>1 DEF Contexts
<1>3. /\ hist'.scan = <<t, app[t].n>> /\ hist'.partial = hist.partial
      /\ hist'.overlap <=> hist.overlap \/ c.scan_in_progress
  BY ZenonT(40), <1>0, <1>1 DEF HistOK
<1>4. CASE hist.overlap \/ c.scan_in_progress
  BY ZenonT(40), <1>3, <1>4 DEF ScanInv
<1>5. CASE ~hist.overlap /\ ~c.scan_in_progress
  <2>1. Starting = {} /\ Nothing("comp") /\ ~hist.partial
    BY ZenonT(40), <1>5 DEF ScanInv
  <2>2. /\ app'[t].n = app[t].n /\ app'[t].cmd = "scan" /\ app'[t].at = "send"
        /\ \A u \in Apps \ {t} : app'[u] = app[u]
    BY ZenonT(40), <1>0, <1>1, GotoFields DEF Labels
  <2>3. ASSUME NEW u \in Apps, app[u].cmd = "results", app[u].at \in {"wait", "woken", "ret"} PROVE FALSE
    BY ZenonT(40), <1>0, <1>1, <2>3, SameCaller
  <2>4. ~Results({"wait"}) /\ ~Results({"wait", "woken"})
    BY ZenonT(40), <2>3 DEF Results
  <2>5. ~Results({"woken", "ret"})'
    BY ZenonT(40), <2>2, <2>3 DEF Results
  <2>6. Nothing("comp")'
    BY ZenonT(40), <2>1 DEF Calm
  <2>7. Sole("comp", hist.scan)'
    BY ZenonT(40), <2>6 DEF Sole, Nothing
  <2>8. \A u \in Starting' : <<u, app'[u].n>> = hist'.scan
    BY ZenonT(40), <1>3, <2>1, <2>2 DEF Starting
  <2>9. ~c.wait_scan_comp_evt /\ Mask["results"] \notin signals /\ wfm.at # "scanned"
    BY ZenonT(40), <1>5, <2>4 DEF ScanInv
  <2>10. ~c'.wait_scan_comp_evt /\ Mask["results"] \notin signals' /\ wfm'.at # "scanned"
    BY ZenonT(40), <1>1, <1>2, <2>9
  <2>11. Mask' = Mask
    BY ZenonT(40) DEF Mask
  <2> QED BY ZenonT(40), <1>2, <1>3, <2>1, <2>5, <2>6, <2>7, <2>8, <2>10, <2>11 DEF ScanInv
<1> QED BY ZenonT(40), <1>4, <1>5

\* Get_Scan_Results asks to be woken, or copies what there is.
LEMMA ScanAsked ==
  ASSUME QueueInv, LockInv, ScanInv, Calm("comp"), Grows, NEW t \in Apps, AppStep(t), wlan_get_scan_results(t)
  PROVE  ScanInv'
<1>0. TypeOK /\ AppOK /\ HistOK /\ c \in Contexts
  BY ZenonT(40) DEF QueueInv, TypeOK, CtxOK
<1>1. /\ app[t].cmd = "results" /\ app[t].at = "start" /\ UNCHANGED <<signals, wfm>>
  BY ZenonT(40) DEF wlan_get_scan_results
<1>2. /\ c'.scan_in_progress = c.scan_in_progress /\ c'.scan_out = c.scan_out /\ hist'.scan = hist.scan
      /\ ~wmi_start_scan(t)
  <2>1. ~wmi_start_scan(t)
    BY ZenonT(40), <1>1 DEF wmi_start_scan
  <2> QED BY ZenonT(40), <1>0, <2>1, ThreadCtx, ThreadHist
<1>3. CASE hist.overlap
  BY ZenonT(40), <1>3 DEF ScanInv, Grows
<1>4. CASE ~hist.overlap /\ ~c.scan_in_progress
  <2>1. Return(t) /\ UNCHANGED c /\ hist' = [hist EXCEPT !.partial = hist.partial \/ ~Whole]
    BY ZenonT(40), <1>4 DEF wlan_get_scan_results
  <2>2. Whole /\ ~hist.partial
    BY ZenonT(40), <1>4 DEF ScanInv, Whole
  <2>3. hist'.partial = hist.partial
    <3>1. (hist.partial \/ ~Whole) = FALSE /\ hist.partial = FALSE
      BY ZenonT(40), <1>0, <2>2 DEF HistOK
    <3>2. \A b : hist' = [hist EXCEPT !.partial = b] => hist'.partial = b
      BY ZenonT(40), <1>0 DEF HistOK
    <3> QED BY ZenonT(40), <2>1, <3>1, <3>2
  <2>4. /\ \A u \in Apps \ {t} : app'[u] = app[u]
        /\ app'[t].at = "idle"
    BY ZenonT(40), <1>0, <2>1, ReturnFields
  <2>5. Aloof(app[t]) /\ Aloof(app'[t])
    BY ZenonT(40), <1>1, <2>4 DEF Aloof
  <2> QED BY ZenonT(40), <1>1, <1>2, <2>1, <2>3, <2>4, <2>5, ScanKept
<1>5. CASE ~hist.overlap /\ c.scan_in_progress
  <2>1. Goto(t, "wait") /\ UNCHANGED hist
    BY ZenonT(40), <1>5 DEF wlan_get_scan_results
  <2>2. /\ \A u \in Apps \ {t} : app'[u] = app[u]
        /\ app'[t].at = "wait" /\ app'[t].cmd = "results"
    BY ZenonT(40), <1>0, <1>1, <2>1, GotoFields DEF Labels
  <2>3. PICK g : g = hist.scan
    BY ZenonT(40)
  <2>4. Sole("comp", g)'
    BY ZenonT(40), <1>5, <2>3 DEF ScanInv, Calm
  <2>5. Sole("comp", hist.scan)'
    BY ZenonT(40), <1>2, <2>3, <2>4 DEF Sole
  <2>6. \A u \in Starting' : u \in Starting /\ app'[u] = app[u]
    BY ZenonT(40), <2>2 DEF Starting
  <2>7. \A u \in Starting' : <<u, app'[u].n>> = hist'.scan /\ Nothing("comp")'
    BY ZenonT(40), <1>2, <1>5, <2>6 DEF ScanInv, Calm
  <2>8. Results({"wait"})' /\ ~Results({"woken", "ret"})'
    BY ZenonT(40), <1>5, <2>2 DEF ScanInv, Results
  <2>9. Mask' = Mask /\ Mask["results"] \notin signals' /\ wfm'.at # "scanned" /\ ~hist'.partial /\ c'.scan_in_progress
    BY ZenonT(40), <1>1, <1>2, <1>5, <2>1 DEF Mask, ScanInv
  <2> QED BY ZenonT(40), <2>5, <2>7, <2>8, <2>9 DEF ScanInv
<1> QED BY ZenonT(40), <1>3, <1>4, <1>5

\* The command of a scan is sent.
LEMMA ScanSent ==
  ASSUME QueueInv, LockInv, ScanInv, Grows, NEW t \in Apps, AppStep(t), SendCommand(t), app[t].cmd = "scan"
  PROVE  ScanInv'
<1>0. TypeOK /\ AppOK
  BY ZenonT(40) DEF QueueInv, TypeOK
<1>1. app[t].at = "send" /\ UNCHANGED <<signals, wfm, c>> /\ Goto(t, "wait")
  BY ZenonT(40) DEF SendCommand
<1>2. hist'.scan = hist.scan /\ hist'.partial = hist.partial
  <2>1. ~wmi_start_scan(t) /\ ~wlan_get_scan_results(t) /\ ~FinishCall(t)
    BY ZenonT(40), <1>1 DEF wmi_start_scan, wlan_get_scan_results, FinishCall
  <2> QED BY ZenonT(40), <1>0, <2>1, ThreadHist
<1>3. CASE hist.overlap
  BY ZenonT(40), <1>3 DEF ScanInv, Grows
<1>4. CASE ~hist.overlap
  <2>1. t \in Starting
    BY ZenonT(40), <1>1 DEF Starting
  <2>2. <<t, app[t].n>> = hist.scan /\ Nothing("comp") /\ c.scan_in_progress
    BY ZenonT(40), <1>4, <2>1 DEF ScanInv
  <2>3. PICK g : g = <<t, app[t].n>>
    BY Zenon
  <2>4. "comp" \in Kinds /\ Source("comp") = "scan"
    BY ZenonT(40) DEF Kinds, Source
  <2>5. Sole("comp", g)'
    BY ZenonT(40), <2>2, <2>3, <2>4, FlowSent
  <2>6. Sole("comp", hist.scan)'
    BY ZenonT(40), <1>2, <2>2, <2>3, <2>5 DEF Sole
  <2>7. /\ \A u \in Apps \ {t} : app'[u] = app[u]
        /\ app'[t].at = "wait" /\ app'[t].cmd = "scan"
    BY ZenonT(40), <1>0, <1>1, GotoFields DEF Labels
  <2>8. ASSUME NEW u \in Starting' PROVE FALSE
    <3>1. u \in Apps /\ u # t /\ app[u].at = "send" /\ app[u].cmd = "scan"
      BY ZenonT(40), <2>7 DEF Starting
    <3> QED BY ZenonT(40), <1>0, <1>1, <3>1, SameCaller
  <2>9. /\ Results({"wait"})' = Results({"wait"})
        /\ Results({"wait", "woken"})' = Results({"wait", "woken"})
        /\ Results({"woken", "ret"})' = Results({"woken", "ret"})
    BY ZenonT(40), <2>7 DEF Results
  <2>10. Mask' = Mask
    BY ZenonT(40) DEF Mask
  <2> QED BY ZenonT(40), <1>1, <1>2, <1>4, <2>2, <2>6, <2>8, <2>9, <2>10 DEF ScanInv
<1> QED BY ZenonT(40), <1>3, <1>4

\* Get_Scan_Results wakes up, clears the bit and copies the results.
LEMMA ScanWoken ==
  ASSUME QueueInv, LockInv, ScanInv, Calm("comp"), Grows, NEW t \in Apps, AppStep(t), app[t].cmd = "results",
         qurt_signal_wait(t) \/ k_event_clear(t) \/ FinishCall(t)
  PROVE  ScanInv'
<1>0. TypeOK /\ AppOK /\ HistOK
  BY ZenonT(40) DEF QueueInv, TypeOK
<1>1. UNCHANGED <<c, wfm>> /\ app[t].at \in {"wait", "woken", "ret"}
  BY ZenonT(40) DEF qurt_signal_wait, k_event_clear, FinishCall
<1>2. hist'.scan = hist.scan
  <2>1. ~wmi_start_scan(t)
    BY ZenonT(40), <1>1 DEF wmi_start_scan
  <2> QED BY ZenonT(40), <1>0, <2>1, ThreadHist
<1>3. CASE hist.overlap
  BY ZenonT(40), <1>3 DEF ScanInv, Grows
<1>4. CASE ~hist.overlap
  <2>1. ASSUME NEW u \in Apps, app[u].cmd \in {"scan", "results"}, app[u].at \notin {"idle", "lock"} PROVE u = t
    BY ZenonT(40), <1>0, <1>1, <2>1, SameCaller
  <2>2. /\ \A u \in Apps \ {t} : app'[u] = app[u]
        /\ app'[t].cmd \in {None, "off", "results"}
    BY ZenonT(40), <1>0, ThreadMoves
  <2>3. None # "scan"
    BY ZenonT(40), WlanAssumption DEF AllOps, Locked
  <2>4. Starting = {} /\ Starting' = {}
    <3>1. ASSUME NEW u \in Starting PROVE FALSE
      BY ZenonT(40), <2>1 DEF Starting
    <3>2. ASSUME NEW u \in Starting' PROVE FALSE
      BY ZenonT(40), <2>1, <2>2, <2>3 DEF Starting
    <3> QED BY ZenonT(40), <3>1, <3>2
  <2>5. PICK g : g = hist.scan
    BY ZenonT(40)
  <2>6. Sole("comp", g)'
    BY ZenonT(40), <1>4, <2>5 DEF ScanInv, Calm
  <2>7. Sole("comp", hist.scan)'
    BY ZenonT(40), <1>2, <2>5, <2>6 DEF Sole
  <2>8. Mask' = Mask /\ (Nothing("comp") => Nothing("comp")')
    BY ZenonT(40) DEF Mask, Calm
  <2>9. CASE qurt_signal_wait(t)
    <3>1. UNCHANGED <<signals, hist>> /\ Goto(t, "woken") /\ Mask["results"] \in signals
      BY ZenonT(40), <2>9 DEF qurt_signal_wait
    <3>2. ~c.scan_in_progress /\ ~c.wait_scan_comp_evt /\ wfm.at # "scanned"
      BY ZenonT(40), <1>4, <3>1 DEF ScanInv
    <3>3. app'[t].at = "woken" /\ app'[t].cmd = "results"
      BY ZenonT(40), <1>0, <3>1, GotoFields DEF Labels
    <3>4. Results({"wait", "woken"})'
      BY ZenonT(40), <3>3 DEF Results
    <3> QED BY ZenonT(40), <1>1, <1>2, <1>4, <2>4, <2>7, <2>8, <3>1, <3>2, <3>4 DEF ScanInv
  <2>10. CASE k_event_clear(t)
    <3>1. signals' = signals \ {Mask["results"]} /\ UNCHANGED hist /\ app[t].at = "woken"
      BY ZenonT(40), <2>10 DEF k_event_clear
    <3>2. Results({"woken", "ret"}) /\ ~Results({"wait"})
      BY ZenonT(40), <2>1, <3>1 DEF Results
    <3>3. ~c.scan_in_progress /\ ~c.wait_scan_comp_evt /\ wfm.at # "scanned"
      BY ZenonT(40), <1>4, <3>2 DEF ScanInv
    <3> QED BY ZenonT(40), <1>1, <1>2, <1>4, <2>4, <2>7, <2>8, <3>1, <3>3 DEF ScanInv
  <2>11. CASE FinishCall(t)
    <3>1. /\ hist' = [hist EXCEPT !.partial = hist.partial \/ (app[t].cmd = "results" /\ ~Whole)]
          /\ UNCHANGED signals /\ Return(t) /\ app[t].at = "ret"
      BY ZenonT(40), <2>11 DEF FinishCall
    <3>2. Results({"woken", "ret"}) /\ ~Results({"wait"}) /\ ~Results({"wait", "woken"})
      BY ZenonT(40), <2>1, <3>1 DEF Results
    <3>3. ~c.scan_in_progress /\ ~c.wait_scan_comp_evt /\ wfm.at # "scanned" /\ Mask["results"] \notin signals
      BY ZenonT(40), <1>4, <3>2 DEF ScanInv
    <3>4. Whole /\ hist.partial = FALSE
      BY ZenonT(40), <1>0, <1>4, <3>3 DEF ScanInv, Whole, HistOK
    <3>5. (hist.partial \/ (app[t].cmd = "results" /\ ~Whole)) = FALSE
      BY ZenonT(40), <3>4
    <3>6. \A b : hist' = [hist EXCEPT !.partial = b] => hist'.partial = b
      BY ZenonT(40), <1>0 DEF HistOK
    <3>7. ~hist'.partial
      BY ZenonT(40), <3>1, <3>5, <3>6
    <3> QED BY ZenonT(40), <1>1, <1>2, <1>4, <2>4, <2>7, <2>8, <3>1, <3>3, <3>7 DEF ScanInv
  <2> QED BY ZenonT(40), <2>9, <2>10, <2>11
<1> QED BY ZenonT(40), <1>3, <1>4


\* The scan is over.
LEMMA ScanOver ==
  ASSUME QueueInv, LockInv, ScanInv, Grows, hist'.scan = hist.scan, hist'.partial = hist.partial,
         wmi_scan_comp_event
  PROVE  ScanInv'
<1>0. TypeOK /\ c \in Contexts /\ WfmOK
  BY ZenonT(40) DEF QueueInv, TypeOK, CtxOK
<1>1. UNCHANGED <<signals, app, pipe, fw>> /\ Handling /\ Evt.e = "scan_comp"
  BY ZenonT(40) DEF wmi_scan_comp_event, Dispatch, Handling
<1>2. \A l : WfmTo(l) => wfm'.at = l
  BY ZenonT(40), <1>0 DEF WfmTo, WfmOK
<1>3. ~Handling'
  <2>1. WfmTo("free") \/ WfmTo("scanned")
    BY ZenonT(40) DEF wmi_scan_comp_event
  <2> QED BY ZenonT(40), <1>2, <2>1 DEF Handling
<1>4. CASE hist.overlap
  BY ZenonT(40), <1>4 DEF ScanInv, Grows
<1>5. CASE ~hist.overlap
  <2>1. PICK g : g = hist.scan
    BY ZenonT(40)
  <2>2. "comp" \in Kinds /\ Final("comp") = "scan_comp"
    BY ZenonT(40) DEF Kinds, Final
  <2>3. Sole("comp", g)
    BY ZenonT(40), <1>5, <2>1 DEF ScanInv
  <2>4. Nothing("comp")' /\ <<Evt.by, Evt.n>> = g
    BY ZenonT(40), <1>1, <1>3, <2>2, <2>3, FlowDone
  <2>5. ~Nothing("comp")
    <3>1. Len(pipe) \in Nat /\ wfm.evt \in Queued /\ wfm.evt.kind = "evt" /\ Msg(0) = wfm.evt
      BY <1>0, <1>1, EvtIs DEF QueueInv, TypeOK, PipeOK, Handling, Msg
    <3>2. 0 \in Sending("comp")
      BY <1>1, <2>2, <3>1 DEF Sending, Carries, Evt
    <3> QED BY ZenonT(40), <3>2 DEF Nothing
  <2>6. c.scan_in_progress /\ Starting = {}
    BY ZenonT(40), <1>5, <2>5 DEF ScanInv
  <2>7. /\ c' = [c EXCEPT !.scan_in_progress = FALSE, !.wait_scan_comp_evt = FALSE, !.scan_out = <<Evt.by, Evt.n>>]
        /\ WfmTo(IF c.wait_scan_comp_evt THEN "scanned" ELSE "free")
    BY ZenonT(40), <2>6 DEF wmi_scan_comp_event
  <2>8. /\ c'.scan_in_progress = FALSE /\ c'.wait_scan_comp_evt = FALSE
        /\ c'.scan_out = <<Evt.by, Evt.n>>
    BY ZenonT(40), <1>0, <2>7 DEF Contexts
  <2>9. wfm'.at = "scanned" => c.wait_scan_comp_evt
    BY ZenonT(40), <1>2, <2>7
  <2>10. Starting' = Starting /\ \A s : Results(s)' = Results(s)
    BY ZenonT(40), <1>1 DEF Starting, Results
  <2>11. Mask' = Mask /\ Mask["results"] \notin signals'
    BY ZenonT(40), <1>1, <1>5, <2>6 DEF Mask, ScanInv
  <2>12. wfm'.at = "scanned" => Results({"wait"})'
    BY ZenonT(40), <1>1, <1>5, <2>9 DEF ScanInv, Results
  <2>13. Sole("comp", hist.scan)'
    BY ZenonT(40), <2>4 DEF Sole, Nothing
  <2> QED BY ZenonT(40), <1>5, <2>1, <2>4, <2>6, <2>8, <2>10, <2>11, <2>12, <2>13 DEF ScanInv
<1> QED BY ZenonT(40), <1>4, <1>5

LEMMA ScanNext ==
  ASSUME QueueInv, QueueInv', LockInv, ScanInv, Next
  PROVE  ScanInv'
<1>0. TypeOK /\ AppOK /\ WfmOK /\ HistOK
  BY ZenonT(40) DEF QueueInv, TypeOK
<1>1. Grows
  BY ZenonT(40), <1>0, HistGrows
<1>2. "comp" \in Kinds /\ Source("comp") = "scan"
  BY ZenonT(40) DEF Kinds, Source
<1>3. ASSUME NEW t \in Apps, AppStep(t) PROVE ScanInv'
  <2>1. CASE SendCommand(t) /\ app[t].cmd = "scan"
    BY ZenonT(40), <1>1, <1>3, <2>1, ScanSent
  <2>2. CASE ~(SendCommand(t) /\ app[t].cmd = "scan")
    <3>1. Calm("comp")
      <4>1. ASSUME NEW u \in Apps, SendCommand(u), app[u].cmd = "scan" PROVE FALSE
        <5>1. app[u].at = "send" /\ app'[u].at # "send"
          <6>1. app[u].at = "send" /\ Goto(u, "wait")
            BY ZenonT(40), <4>1 DEF SendCommand
          <6>2. app'[u].at = "wait"
            BY ZenonT(40), <1>0, <6>1, GotoFields DEF Labels
          <6> QED BY ZenonT(40), <6>1, <6>2
        <5>2. \A v \in Apps \ {t} : app'[v] = app[v]
          BY ZenonT(40), <1>0, <1>3, ThreadMoves
        <5>3. u = t
          BY ZenonT(40), <5>1, <5>2
        <5> QED BY ZenonT(40), <2>2, <4>1, <5>3
      <4> QED BY ZenonT(40), <1>2, <4>1, FlowNext
    <3>2. CASE wmi_start_scan(t)
      BY ZenonT(40), <1>3, <3>1, <3>2, ScanStarts
    <3>3. CASE wlan_get_scan_results(t)
      BY ZenonT(40), <1>1, <1>3, <3>1, <3>3, ScanAsked
    <3>4. CASE app[t].cmd = "results" /\ (qurt_signal_wait(t) \/ k_event_clear(t) \/ FinishCall(t))
      BY ZenonT(40), <1>1, <1>3, <3>1, <3>4, ScanWoken
    <3>5. CASE /\ ~wmi_start_scan(t) /\ ~wlan_get_scan_results(t)
               /\ ~(app[t].cmd = "results" /\ (qurt_signal_wait(t) \/ k_event_clear(t) \/ FinishCall(t)))
      <4>1. Aloof(app'[t])
        BY ZenonT(40), <1>0, <1>3, <3>5, ScanPlaces
      <4>2. Aloof(app[t])
        BY ZenonT(40), <1>3, <2>2, <3>5, ThreadFrom DEF Aloof
      <4>3. \A u \in Apps : app'[u] = app[u] \/ (Aloof(app[u]) /\ Aloof(app'[u]))
        BY ZenonT(40), <1>0, <1>3, <4>1, <4>2, ThreadMoves
      <4>4. /\ c'.scan_in_progress = c.scan_in_progress /\ c'.scan_out = c.scan_out
            /\ c'.wait_scan_comp_evt = c.wait_scan_comp_evt
        BY ZenonT(40), <1>0, <1>3, <3>5, ThreadCtx
      <4>5. hist'.scan = hist.scan /\ hist'.partial = hist.partial
        <5>1. CASE ~FinishCall(t)
          BY ZenonT(40), <1>0, <1>3, <3>5, <5>1, ThreadHist
        <5>2. CASE FinishCall(t)
          <6>1. app[t].cmd # "results" /\ hist.partial \in BOOLEAN
            BY ZenonT(40), <1>0, <3>5, <5>2 DEF HistOK
          <6>2. (hist.partial \/ (app[t].cmd = "results" /\ ~Whole)) = hist.partial
            BY ZenonT(40), <6>1
          <6>3. hist' = [hist EXCEPT !.partial = hist.partial \/ (app[t].cmd = "results" /\ ~Whole)]
            BY ZenonT(40), <5>2 DEF FinishCall
          <6>4. \A b : hist' = [hist EXCEPT !.partial = b] => hist'.partial = b
            BY ZenonT(40), <1>0 DEF HistOK
          <6>5. hist'.scan = hist.scan
            BY ZenonT(40), <1>0, <1>3, <3>5, ThreadHist
          <6> QED BY ZenonT(40), <6>2, <6>3, <6>4, <6>5
        <5> QED BY ZenonT(40), <5>1, <5>2
      <4>6. UNCHANGED wfm
        BY ZenonT(40), <1>3, SendFrame
      <4>7. Mask["results"] \in signals' <=> Mask["results"] \in signals
        <5>1. CASE k_event_clear(t)
          <6>1. signals' = signals \ {Mask[app[t].cmd]} /\ app[t].cmd # "results" /\ app[t].at = "woken"
            BY ZenonT(40), <3>5, <5>1 DEF k_event_clear
          <6>2. app[t].cmd \in DOMAIN Mask
            BY ZenonT(40), <1>0, <6>1 DEF AppOK, Threads, Flow
          <6>3. Mask[app[t].cmd] # Mask["results"]
            BY ZenonT(40), <6>1, <6>2, MaskInj
          <6> QED BY ZenonT(40), <6>1, <6>3
        <5>2. CASE ~k_event_clear(t)
          <6>1. UNCHANGED signals
            BY ZenonT(60), <1>3, <5>2 DEF AppStep, WLAN_QAPI_LOCK, wmi_set_passphrase, qapi_WLAN_Disconnect,
               wmi_connect, wmi_disconnect, wmi_start_scan, wlan_get_scan_results, SendCommand, StoreParamId,
               qurt_signal_wait, FinishCall, wlan_drv_roaming_stop, CancelRoaming,
               ClearProfile, ClearSettings, SetProfile
          <6> QED BY ZenonT(40), <6>1
        <5> QED BY ZenonT(40), <5>1, <5>2
      <4> QED BY ZenonT(40), <1>1, <3>1, <4>3, <4>4, <4>5, <4>6, <4>7, ScanKept
    <3> QED BY ZenonT(40), <3>2, <3>3, <3>4, <3>5
  <2> QED BY ZenonT(40), <2>1, <2>2
<1>4. CASE \A t \in Apps : ~AppStep(t)
  <2>1. hist'.scan = hist.scan /\ hist'.partial = hist.partial
    BY ZenonT(40), <1>0, <1>4, OtherHist
  <2>2. Calm("comp")
    <3>1. \A t \in Apps : SendCommand(t) => AppStep(t)
      BY ZenonT(40) DEF AppStep
    <3> QED BY ZenonT(40), <1>2, <1>4, <3>1, FlowNext
  <2>3. \A t \in Apps : app'[t] = app[t] \/ (Aloof(app[t]) /\ Aloof(app'[t]))
    <3>1. ASSUME NEW t \in Apps, NEW op \in Ops[t], NEW a \in Args(op), Call(t, op, a)
          PROVE  (\A u \in Apps \ {t} : app'[u] = app[u]) /\ Aloof(app[t]) /\ Aloof(app'[t])
      <4>1. /\ \A u \in Apps \ {t} : app'[u] = app[u]
            /\ app[t].at = "idle" /\ app'[t].at \in {"lock", "idle", "send", "profile"}
            /\ app'[t].at = "send" => app'[t].cmd = "param"
        BY ZenonT(40), <1>0, <3>1, CallMoves
      <4> QED BY ZenonT(40), <4>1 DEF Aloof
    <3>2. \/ UNCHANGED app
          \/ \E t \in Apps : \E op \in Ops[t] : \E a \in Args(op) : Call(t, op, a)
      BY ZenonT(60), <1>4 DEF Next, WfmStep, RoamExpire, roam_handler, wmi_report_event,
         wmi_enabled_event, wmi_scan_comp_event, WakeScanResults, wmi_join_comp_event, wmi_peer_event,
         WakeDisconnect, EndDisconnect, wmi_disconnect_event, wmi_set_param_event, WfmCommand, WfmEvent,
         wmi_event_buf_free, FwStep, FwAnswer, FwEvent
    <3> QED BY ZenonT(40), <3>1, <3>2
  <2>4. CASE wmi_scan_comp_event
    BY ZenonT(40), <1>1, <2>1, <2>4, ScanOver
  <2>5. CASE WakeScanResults
    <3>1. UNCHANGED <<c, app>> /\ signals' = signals \cup {Mask["results"]} /\ wfm.at = "scanned" /\ WfmTo("free")
      BY ZenonT(40), <2>5 DEF WakeScanResults
    <3>2. wfm'.at = "free"
      BY ZenonT(40), <1>0, <3>1 DEF WfmTo, WfmOK
    <3>3. CASE hist.overlap
      BY ZenonT(40), <1>1, <3>3 DEF ScanInv, Grows
    <3>4. CASE ~hist.overlap
      <4>1. ~c.scan_in_progress /\ Results({"wait"}) /\ ~c.wait_scan_comp_evt
        BY ZenonT(40), <3>1, <3>4 DEF ScanInv
      <4>2. Starting' = Starting /\ Results({"wait", "woken"})'
        BY ZenonT(40), <3>1, <4>1 DEF Starting, Results
      <4>3. PICK g : g = hist.scan
        BY ZenonT(40)
      <4>4. Sole("comp", g)' /\ Nothing("comp")'
        BY ZenonT(40), <2>2, <3>4, <4>1, <4>3 DEF ScanInv, Calm
      <4>5. Sole("comp", hist.scan)'
        BY ZenonT(40), <2>1, <4>3, <4>4 DEF Sole
      <4> QED BY ZenonT(40), <2>1, <3>1, <3>2, <3>4, <4>1, <4>2, <4>4, <4>5 DEF ScanInv
    <3> QED BY ZenonT(40), <3>3, <3>4
  <2>6. CASE ~wmi_scan_comp_event /\ ~WakeScanResults
    <3>1. /\ c'.scan_in_progress = c.scan_in_progress /\ c'.scan_out = c.scan_out
          /\ c'.wait_scan_comp_evt = c.wait_scan_comp_evt
      BY ZenonT(40), <1>0, <1>4, <2>6, OtherCtx
    <3>2. Mask["results"] \in signals' <=> Mask["results"] \in signals
      <4>1. CASE Handler
        <5>1. \/ UNCHANGED signals \/ signals' = signals \cup {Mask["disconnect"]}
              \/ \E z \in Awaited : signals' = signals \cup {Mask[z]}
          BY ZenonT(40), <1>0, <2>6, <4>1, HandlerSignals
        <5>2. Mask["disconnect"] # Mask["results"] /\ \A z \in Awaited : Mask[z] # Mask["results"]
          BY DEF Mask, Awaited
        <5> QED BY ZenonT(40), <5>1, <5>2
      <4>2. CASE ~Handler
        <5>1. UNCHANGED signals
          BY ZenonT(60), <1>4, <4>2, NextIs DEF Client, Call, RoamExpire, roam_handler, WfmCommand, WfmEvent,
             wmi_event_buf_free, FwStep, FwAnswer, FwEvent
        <5> QED BY ZenonT(40), <5>1
      <4> QED BY ZenonT(40), <4>1, <4>2
    <3>3. wfm'.at = "scanned" <=> wfm.at = "scanned"
      <4>1. \A l : WfmTo(l) => wfm'.at = l
        BY ZenonT(40), <1>0 DEF WfmTo, WfmOK
      <4>2. \A n : wfm' = [wfm EXCEPT !.at = "poll", !.polls = n] => wfm'.at = "poll"
        BY ZenonT(40), <1>0 DEF WfmOK
      <4>3. CASE Handler
        <5>1. wfm.at \in {"dispatch", "signal", "finish", "poll"}
          BY ZenonT(60), <2>6, <4>3 DEF Handler, wmi_report_event, wmi_enabled_event,
             wmi_join_comp_event, wmi_peer_event, WakeDisconnect, EndDisconnect, wmi_disconnect_event,
             wmi_set_param_event, Dispatch
        <5>2. \/ WfmTo("free") \/ WfmTo("signal") \/ WfmTo("finish")
              \/ \E n : wfm' = [wfm EXCEPT !.at = "poll", !.polls = n]
          BY ZenonT(60), <2>6, <4>3 DEF Handler, wmi_report_event, wmi_enabled_event,
             wmi_join_comp_event, wmi_peer_event, WakeDisconnect, EndDisconnect, wmi_disconnect_event,
             wmi_set_param_event, SetParamDone
        <5> QED BY ZenonT(40), <4>1, <4>2, <5>1, <5>2
      <4>4. CASE ~Handler
        <5>1. UNCHANGED wfm \/ (wfm.at = "recv" /\ wfm'.at = "dispatch") \/ (wfm.at = "free" /\ wfm'.at = "recv")
          <6>1. WfmEvent => wfm.at = "recv" /\ wfm'.at = "dispatch"
            BY DEF WfmEvent
          <6>2. wmi_event_buf_free => wfm.at = "free" /\ wfm'.at = "recv"
            BY DEF wmi_event_buf_free
          <6>3. UNCHANGED wfm \/ WfmEvent \/ wmi_event_buf_free
            BY ZenonT(60), <1>4, <4>4, NextIs DEF Client, Call, RoamExpire, roam_handler, WfmCommand,
               FwStep, FwAnswer, FwEvent
          <6> QED BY ZenonT(40), <6>1, <6>2, <6>3
        <5> QED BY ZenonT(40), <5>1
      <4> QED BY ZenonT(40), <4>3, <4>4
    <3> QED BY ZenonT(40), <1>1, <2>1, <2>2, <2>3, <3>1, <3>2, <3>3, ScanKept
  <2> QED BY ZenonT(40), <2>4, <2>5, <2>6
<1> QED BY ZenonT(40), <1>3, <1>4

-----------------------------------------------------------------------------
(* The answers.                                                            *)

\* The Set_Param calls take no lock.  Where at most one thread makes them, every
\* answer is judged; otherwise those of the serialised calls.
OneSetter == \A t, u \in Apps : "param" \in Ops[t] \cap Ops[u] => t = u
Judged == {x \in Awaited : x = "param" => OneSetter}

\* A request under way is the one that its thread waits for, and a bit that is set
\* belongs to a thread whose request has been answered.
Engaged(x, ats) == {t \in Apps : app[t].cmd = x /\ app[t].at \in ats}
AnswerOf(x) ==
  /\ Nothing(x) \/ \E t \in Engaged(x, {"store", "wait"}) : Sole(x, <<t, app[t].n>>)
  /\ Mask[x] \in signals =>
       Nothing(x) /\ \E t \in Engaged(x, {"store", "wait", "woken"}) : hist.answered[t]
  /\ \A t \in Engaged(x, {"woken"}) : hist.answered[t]

AnswerInv == \A x \in Judged : AnswerOf(x)

LEMMA SameWaiter ==
  ASSUME AppOK, LockInv, NEW x \in Judged, NEW t \in Apps, NEW u \in Apps,
         app[t].cmd = x, app[t].at \notin {"idle", "lock"}, app[u].cmd = x, app[u].at \notin {"idle", "lock"}
  PROVE  t = u
<1>1. CASE x # "param"
  BY ZenonT(40), <1>1, SameCaller DEF Judged, Awaited
<1>2. CASE x = "param"
  <2>1. app[t].op = "param" /\ app[u].op = "param"
    BY ZenonT(40), <1>2 DEF AppOK, Threads, Flow
  <2>2. "param" # None
    BY ZenonT(40), WlanAssumption DEF AllOps
  <2>3. "param" \in Ops[t] /\ "param" \in Ops[u]
    BY ZenonT(40), <2>1, <2>2 DEF LockInv
  <2> QED BY ZenonT(40), <1>2, <2>3 DEF Judged, OneSetter
<1> QED BY ZenonT(40), <1>1, <1>2

\* A step that does not concern requests of kind x.
LEMMA AnswerKept ==
  ASSUME NEW x \in Judged, AnswerOf(x), Calm(x), Mask[x] \in signals' => Mask[x] \in signals,
         \A t \in Engaged(x, {"store", "wait", "woken"}) :
           app'[t] = app[t] /\ (hist.answered[t] => hist'.answered[t]),
         \A t \in Engaged(x, {"woken"})' : t \in Engaged(x, {"woken"})
  PROVE  AnswerOf(x)'
<1>1. (Nothing(x) \/ \E t \in Engaged(x, {"store", "wait"}) : Sole(x, <<t, app[t].n>>))'
  <2>1. CASE Nothing(x)
    BY ZenonT(40), <2>1 DEF Calm
  <2>2. CASE \E t \in Engaged(x, {"store", "wait"}) : Sole(x, <<t, app[t].n>>)
    <3>1. PICK t \in Engaged(x, {"store", "wait"}) : Sole(x, <<t, app[t].n>>)
      BY ZenonT(40), <2>2
    <3>2. PICK g : g = <<t, app[t].n>>
      BY Zenon
    <3>3. t \in Engaged(x, {"store", "wait", "woken"})
      BY ZenonT(40) DEF Engaged
    <3>4. Sole(x, g)' /\ app'[t] = app[t]
      BY ZenonT(40), <3>1, <3>2, <3>3 DEF Calm
    <3>5. Sole(x, <<t, app[t].n>>)'
      BY ZenonT(40), <3>2, <3>4 DEF Sole
    <3>6. t \in Engaged(x, {"store", "wait"})'
      BY ZenonT(40), <3>4 DEF Engaged
    <3> QED BY ZenonT(40), <3>5, <3>6
  <2> QED BY ZenonT(40), <2>1, <2>2 DEF AnswerOf
<1>2. ASSUME Mask[x] \in signals'
      PROVE  Nothing(x)' /\ \E t \in Engaged(x, {"store", "wait", "woken"})' : hist'.answered[t]
  <2>1. Nothing(x) /\ \E t \in Engaged(x, {"store", "wait", "woken"}) : hist.answered[t]
    BY ZenonT(40), <1>2 DEF AnswerOf
  <2>2. PICK t \in Engaged(x, {"store", "wait", "woken"}) : hist.answered[t]
    BY ZenonT(40), <2>1
  <2>3. t \in Engaged(x, {"store", "wait", "woken"})'
    BY ZenonT(40) DEF Engaged
  <2> QED BY ZenonT(40), <2>1, <2>2, <2>3 DEF Calm
<1>3. \A t \in Engaged(x, {"woken"})' : hist'.answered[t]
  <2>1. \A t \in Engaged(x, {"woken"}) : t \in Engaged(x, {"store", "wait", "woken"})
    BY ZenonT(40) DEF Engaged
  <2> QED BY ZenonT(40), <2>1 DEF AnswerOf
<1>4. Mask' = Mask
  BY ZenonT(40) DEF Mask
<1> QED BY ZenonT(40), <1>1, <1>2, <1>3, <1>4 DEF AnswerOf

\* The request is sent.
LEMMA AnswerSent ==
  ASSUME QueueInv, LockInv, NEW x \in Judged, AnswerOf(x), NEW t \in Apps, SendCommand(t), app[t].cmd = x
  PROVE  AnswerOf(x)'
<1>0. AppOK /\ x \in Kinds /\ Source(x) = x /\ x \in Awaited
  BY ZenonT(40) DEF QueueInv, TypeOK, Judged, Kinds, Source, Awaited
<1>1. app[t].at = "send" /\ UNCHANGED signals
  BY ZenonT(40) DEF SendCommand
<1>2. ASSUME NEW u \in Engaged(x, {"store", "wait", "woken"}) PROVE FALSE
  <2>1. u \in Apps /\ app[u].cmd = x /\ app[u].at \in {"store", "wait", "woken"}
    BY ZenonT(40) DEF Engaged
  <2> QED BY ZenonT(40), <1>0, <1>1, <2>1, SameWaiter
<1>3. Nothing(x) /\ Mask[x] \notin signals
  <2>1. \A u \in Engaged(x, {"store", "wait"}) : u \in Engaged(x, {"store", "wait", "woken"})
    BY ZenonT(40) DEF Engaged
  <2> QED BY ZenonT(40), <1>2, <2>1 DEF AnswerOf
<1>4. PICK g : g = <<t, app[t].n>>
  BY Zenon
<1>5. Sole(x, g)'
  BY ZenonT(40), <1>0, <1>3, <1>4, FlowSent
<1>6. PICK l \in {"store", "wait"} : Goto(t, l)
  BY ZenonT(40), <1>0 DEF SendCommand, Awaited
<1>7. /\ app'[t].at = l /\ app'[t].cmd = x /\ app'[t].n = app[t].n
      /\ \A u \in Apps \ {t} : app'[u] = app[u]
  BY ZenonT(40), <1>0, <1>6, GotoFields DEF Labels
<1>8. t \in Engaged(x, {"store", "wait"})' /\ Sole(x, <<t, app[t].n>>)'
  BY ZenonT(40), <1>4, <1>5, <1>6, <1>7 DEF Engaged, Sole
<1>9. ASSUME NEW u \in Engaged(x, {"woken"})' PROVE FALSE
  <2>1. u # t /\ u \in Apps
    BY ZenonT(40), <1>6, <1>7 DEF Engaged
  <2>2. u \in Engaged(x, {"store", "wait", "woken"})
    BY ZenonT(40), <1>7, <2>1 DEF Engaged
  <2> QED BY ZenonT(40), <1>2, <2>2
<1>10. Mask' = Mask /\ Mask[x] \notin signals'
  BY ZenonT(40), <1>1, <1>3 DEF Mask
<1> QED BY ZenonT(40), <1>8, <1>9, <1>10 DEF AnswerOf

\* The thread stores the identifier it waits for, wakes up, or clears the bit.
LEMMA AnswerWoken ==
  ASSUME QueueInv, LockInv, NEW x \in Judged, AnswerOf(x), Calm(x), NEW t \in Apps, AppStep(t), app[t].cmd = x,
         StoreParamId(t) \/ qurt_signal_wait(t) \/ k_event_clear(t)
  PROVE  AnswerOf(x)'
<1>0. TypeOK /\ AppOK /\ Mask' = Mask
  BY ZenonT(40) DEF QueueInv, TypeOK, Mask
<1>1. UNCHANGED hist /\ app[t].at \in {"store", "wait", "woken"}
  BY ZenonT(40) DEF StoreParamId, qurt_signal_wait, k_event_clear
<1>2. ASSUME NEW u \in Apps, app[u].cmd = x, app[u].at \in {"store", "wait", "woken"} PROVE u = t
  BY ZenonT(40), <1>0, <1>1, <1>2, SameWaiter
<1>3. \A u \in Apps \ {t} : app'[u] = app[u]
  BY ZenonT(40), <1>0, ThreadMoves
<1>4. CASE StoreParamId(t)
  <2>1. Goto(t, "wait") /\ UNCHANGED signals /\ app[t].at = "store"
    BY ZenonT(40), <1>4 DEF StoreParamId
  <2>2. app'[t].at = "wait" /\ app'[t].cmd = x /\ app'[t].n = app[t].n
    BY ZenonT(40), <1>0, <2>1, GotoFields DEF Labels
  <2>3. (Nothing(x) \/ \E u \in Engaged(x, {"store", "wait"}) : Sole(x, <<u, app[u].n>>))'
    <3>1. CASE Nothing(x)
      BY ZenonT(40), <3>1 DEF Calm
    <3>2. CASE \E u \in Engaged(x, {"store", "wait"}) : Sole(x, <<u, app[u].n>>)
      <4>1. Sole(x, <<t, app[t].n>>)
        BY ZenonT(40), <1>2, <3>2 DEF Engaged
      <4>2. PICK g : g = <<t, app[t].n>>
        BY Zenon
      <4>3. Sole(x, g)'
        BY ZenonT(40), <4>1, <4>2 DEF Calm
      <4>4. Sole(x, <<t, app[t].n>>)' /\ t \in Engaged(x, {"store", "wait"})'
        BY ZenonT(40), <2>2, <4>2, <4>3 DEF Sole, Engaged
      <4> QED BY ZenonT(40), <4>4
    <3> QED BY ZenonT(40), <3>1, <3>2 DEF AnswerOf
  <2>4. Mask[x] \in signals' => Nothing(x)' /\ \E u \in Engaged(x, {"store", "wait", "woken"})' : hist'.answered[u]
    <3>1. SUFFICES ASSUME Mask[x] \in signals
                   PROVE  Nothing(x)' /\ \E u \in Engaged(x, {"store", "wait", "woken"})' : hist'.answered[u]
      BY ZenonT(40), <2>1
    <3>2. Nothing(x) /\ hist.answered[t]
      BY ZenonT(40), <1>2, <3>1 DEF AnswerOf, Engaged
    <3>3. t \in Engaged(x, {"store", "wait", "woken"})'
      BY ZenonT(40), <2>2 DEF Engaged
    <3> QED BY ZenonT(40), <1>1, <3>2, <3>3 DEF Calm
  <2>5. ASSUME NEW u \in Engaged(x, {"woken"})' PROVE hist'.answered[u]
    <3>1. u \in Engaged(x, {"woken"})
      BY ZenonT(40), <1>3, <2>2 DEF Engaged
    <3> QED BY ZenonT(40), <1>1, <3>1 DEF AnswerOf
  <2> QED BY ZenonT(40), <1>0, <2>3, <2>4, <2>5 DEF AnswerOf
<1>5. CASE qurt_signal_wait(t)
  <2>1. Goto(t, "woken") /\ UNCHANGED signals /\ Mask[x] \in signals
    BY ZenonT(40), <1>5 DEF qurt_signal_wait
  <2>2. app'[t].at = "woken" /\ app'[t].cmd = x
    BY ZenonT(40), <1>0, <2>1, GotoFields DEF Labels
  <2>3. Nothing(x) /\ hist.answered[t]
    BY ZenonT(40), <1>2, <2>1 DEF AnswerOf, Engaged
  <2>4. t \in Engaged(x, {"store", "wait", "woken"})'
    BY ZenonT(40), <2>2 DEF Engaged
  <2>5. ASSUME NEW u \in Engaged(x, {"woken"})' PROVE u = t
    BY ZenonT(40), <1>2, <1>3 DEF Engaged
  <2>6. Nothing(x)'
    BY ZenonT(40), <2>3 DEF Calm
  <2> QED BY ZenonT(40), <1>0, <1>1, <2>3, <2>4, <2>5, <2>6 DEF AnswerOf
<1>6. CASE k_event_clear(t)
  <2>1. Goto(t, "ret") /\ signals' = signals \ {Mask[x]} /\ app[t].at = "woken"
    BY ZenonT(40), <1>6 DEF k_event_clear
  <2>2. app'[t].at = "ret"
    BY ZenonT(40), <1>0, <2>1, GotoFields DEF Labels
  <2>3. Nothing(x)
    BY ZenonT(40), <1>2, <2>1 DEF AnswerOf, Engaged
  <2>4. ASSUME NEW u \in Engaged(x, {"woken"})' PROVE FALSE
    BY ZenonT(40), <1>2, <1>3, <2>2 DEF Engaged
  <2>5. Nothing(x)' /\ Mask[x] \notin signals'
    BY ZenonT(40), <2>1, <2>3 DEF Calm
  <2> QED BY ZenonT(40), <1>0, <2>4, <2>5 DEF AnswerOf
<1> QED BY ZenonT(40), <1>4, <1>5, <1>6

\* The answer is handled: the bit is set.
LEMMA AnswerHandled ==
  ASSUME QueueInv, LockInv, NEW x \in Judged, AnswerOf(x), UNCHANGED <<pipe, fw, app>>,
         Evt.e = Final(x), Evt.cmd = x, Handling, ~Handling', hist'.answered = Answers(Evt)
  PROVE  AnswerOf(x)'
<1>0. x \in Kinds /\ Mask' = Mask /\ HistOK
  BY ZenonT(40) DEF Judged, Kinds, Mask, QueueInv, TypeOK
<1>1. ~Nothing(x)
  <2>1. Len(pipe) \in Nat /\ wfm.evt \in Queued /\ wfm.evt.kind = "evt" /\ Msg(0) = wfm.evt
    BY EvtIs DEF QueueInv, TypeOK, PipeOK, Handling, Msg
  <2>2. 0 \in Sending(x)
    BY <2>1 DEF Sending, Carries, Evt
  <2> QED BY ZenonT(40), <2>2 DEF Nothing
<1>2. PICK t \in Engaged(x, {"store", "wait"}) : Sole(x, <<t, app[t].n>>)
  BY ZenonT(40), <1>1 DEF AnswerOf
<1>3. Nothing(x)' /\ <<Evt.by, Evt.n>> = <<t, app[t].n>>
  BY <1>0, <1>2, FlowDone
<1>4. t \in Apps /\ app[t].cmd = x /\ Evt.by = t /\ Evt.n = app[t].n
  BY ZenonT(40), <1>3 DEF Engaged
<1>5. Answers(Evt)[t]
  BY ZenonT(40), <1>4 DEF Answers
<1>6. \A u \in Apps : hist.answered[u] => Answers(Evt)[u]
  BY ZenonT(40) DEF Answers
<1>7. t \in Engaged(x, {"store", "wait", "woken"})'
  BY ZenonT(40) DEF Engaged
<1>8. \A u \in Engaged(x, {"woken"})' : u \in Apps /\ u \in Engaged(x, {"woken"})
  BY ZenonT(40) DEF Engaged
<1> QED BY ZenonT(40), <1>0, <1>3, <1>5, <1>6, <1>7, <1>8 DEF AnswerOf


LEMMA AnswerNext ==
  ASSUME QueueInv, QueueInv', LockInv, AnswerInv, Next
  PROVE  AnswerInv'
<1>0. TypeOK /\ AppOK /\ HistOK
  BY ZenonT(40) DEF QueueInv, TypeOK
<1>1. SUFFICES ASSUME NEW x \in Judged PROVE AnswerOf(x)'
  BY ZenonT(40) DEF AnswerInv, Judged, OneSetter
<1>2. AnswerOf(x) /\ x \in Awaited /\ x \in Kinds /\ Source(x) = x /\ x \in DOMAIN Mask
  BY ZenonT(40), MaskInj DEF AnswerInv, Judged, Kinds, Source, Awaited
<1>3. ASSUME NEW t \in Apps, AppStep(t) PROVE AnswerOf(x)'
  <2>1. CASE SendCommand(t) /\ app[t].cmd = x
    BY ZenonT(40), <1>2, <2>1, AnswerSent
  <2>2. CASE ~(SendCommand(t) /\ app[t].cmd = x)
    <3>1. \A v \in Apps \ {t} : app'[v] = app[v]
      BY ZenonT(40), <1>0, <1>3, ThreadMoves
    <3>2. Calm(x)
      <4>1. ASSUME NEW u \in Apps, SendCommand(u), app[u].cmd = x PROVE FALSE
        <5>1. PICK l \in {"store", "wait"} : Goto(u, l)
          BY ZenonT(40), <1>2, <4>1 DEF SendCommand, Awaited
        <5>2. app'[u].at = l /\ app[u].at = "send"
          BY ZenonT(40), <1>0, <4>1, <5>1, GotoFields DEF Labels, SendCommand
        <5>3. u = t
          BY ZenonT(40), <3>1, <5>1, <5>2
        <5> QED BY ZenonT(40), <2>2, <4>1, <5>3
      <4> QED BY ZenonT(40), <1>2, <4>1, FlowNext
    <3>3. CASE app[t].cmd = x /\ (StoreParamId(t) \/ qurt_signal_wait(t) \/ k_event_clear(t))
      BY ZenonT(40), <1>2, <1>3, <3>2, <3>3, AnswerWoken
    <3>4. CASE ~(app[t].cmd = x /\ (StoreParamId(t) \/ qurt_signal_wait(t) \/ k_event_clear(t)))
      <4>1. Mask[x] \in signals' => Mask[x] \in signals
        <5>1. UNCHANGED signals \/ \E s : signals' = signals \ {s}
          BY ZenonT(60), <1>3 DEF AppStep, WLAN_QAPI_LOCK, wmi_set_passphrase, qapi_WLAN_Disconnect,
             wmi_connect, wmi_disconnect, wmi_start_scan, wlan_get_scan_results, SendCommand, StoreParamId,
             qurt_signal_wait, k_event_clear, FinishCall, wlan_drv_roaming_stop, CancelRoaming,
             ClearProfile, ClearSettings, SetProfile
        <5> QED BY ZenonT(40), <5>1
      <4>2. t \notin Engaged(x, {"store", "wait", "woken"})
        BY ZenonT(40), <1>3, <3>4, ThreadFrom DEF Engaged
      <4>3. \A u \in Engaged(x, {"store", "wait", "woken"}) :
              app'[u] = app[u] /\ (hist.answered[u] => hist'.answered[u])
        BY ZenonT(40), <1>0, <1>3, <3>1, <4>2, ThreadHist DEF Engaged
      <4>4. t \notin Engaged(x, {"woken"})'
        <5>1. SUFFICES ASSUME app'[t].cmd = x, app'[t].at = "woken" PROVE FALSE
          BY ZenonT(40) DEF Engaged
        <5>2. qurt_signal_wait(t) /\ app'[t].cmd = app[t].cmd
          BY ZenonT(40), <1>0, <1>3, <5>1, ThreadMoves
        <5> QED BY ZenonT(40), <3>4, <5>1, <5>2
      <4>5. \A u \in Engaged(x, {"woken"})' : u \in Engaged(x, {"woken"})
        BY ZenonT(40), <3>1, <4>4 DEF Engaged
      <4> QED BY ZenonT(40), <1>2, <3>2, <4>1, <4>3, <4>5, AnswerKept
    <3> QED BY ZenonT(40), <3>3, <3>4
  <2> QED BY ZenonT(40), <2>1, <2>2
<1>4. CASE \A t \in Apps : ~AppStep(t)
  <2>1. Calm(x)
    <3>1. \A t \in Apps : SendCommand(t) => AppStep(t)
      BY ZenonT(40) DEF AppStep
    <3> QED BY ZenonT(40), <1>2, <1>4, <3>1, FlowNext
  <2>2. /\ \A t \in Engaged(x, {"store", "wait", "woken"}) : app'[t] = app[t]
        /\ \A t \in Engaged(x, {"woken"})' : t \in Engaged(x, {"woken"})
    <3>1. ASSUME NEW t \in Apps, NEW op \in Ops[t], NEW a \in Args(op), Call(t, op, a)
          PROVE  /\ \A u \in Apps \ {t} : app'[u] = app[u]
                 /\ app[t].at = "idle" /\ app'[t].at # "woken"
      BY ZenonT(40), <1>0, <3>1, CallMoves
    <3>2. \/ UNCHANGED app
          \/ \E t \in Apps : \E op \in Ops[t] : \E a \in Args(op) : Call(t, op, a)
      BY ZenonT(60), <1>4 DEF Next, WfmStep, RoamExpire, roam_handler, wmi_report_event,
         wmi_enabled_event, wmi_scan_comp_event, WakeScanResults, wmi_join_comp_event, wmi_peer_event,
         WakeDisconnect, EndDisconnect, wmi_disconnect_event, wmi_set_param_event, WfmCommand, WfmEvent,
         wmi_event_buf_free, FwStep, FwAnswer, FwEvent
    <3>3. CASE UNCHANGED app
      BY ZenonT(40), <3>3 DEF Engaged
    <3>4. CASE \E t \in Apps : \E op \in Ops[t] : \E a \in Args(op) : Call(t, op, a)
      <4>1. PICK t \in Apps : /\ \A u \in Apps \ {t} : app'[u] = app[u]
                              /\ app[t].at = "idle" /\ app'[t].at # "woken"
        BY ZenonT(40), <3>1, <3>4
      <4> QED BY ZenonT(40), <4>1 DEF Engaged
    <3> QED BY ZenonT(40), <3>2, <3>3, <3>4
  <2>3. ASSUME Mask[x] \in signals' => Mask[x] \in signals, \A t \in Apps : hist.answered[t] => hist'.answered[t]
        PROVE  AnswerOf(x)'
    <3>1. \A t \in Engaged(x, {"store", "wait", "woken"}) : app'[t] = app[t] /\ (hist.answered[t] => hist'.answered[t])
      BY ZenonT(40), <2>2, <2>3 DEF Engaged
    <3> QED BY ZenonT(40), <1>2, <2>1, <2>2, <2>3, <3>1, AnswerKept
  <2>4. CASE Handler
    <3>1. UNCHANGED <<pipe, fw, app>>
      BY ZenonT(40), <1>0, <2>4, HandlerFrame
    <3>2. \A y \in DOMAIN Mask : y # x => Mask[y] # Mask[x]
      BY ZenonT(40), <1>2, MaskInj
    <3>3. DOMAIN Mask = Awaited \cup {"results", "disconnect"} /\ x \notin {"results", "disconnect"}
      BY ZenonT(40), <1>2, MaskInj DEF Awaited
    <3>4. CASE UNCHANGED signals /\ hist'.answered = hist.answered
      BY ZenonT(40), <2>3, <3>4
    <3>5. CASE signals' = signals \cup {Mask["disconnect"]} /\ hist'.answered = hist.answered
      BY ZenonT(40), <2>3, <3>2, <3>3, <3>5
    <3>6. CASE WakeScanResults
      <4>1. signals' = signals \cup {Mask["results"]} /\ UNCHANGED hist
        BY ZenonT(40), <3>6 DEF WakeScanResults
      <4> QED BY ZenonT(40), <2>3, <3>2, <3>3, <4>1
    <3>7. ASSUME NEW z \in Awaited, Evt.e = Final(z), Evt.cmd = z, Handling, ~Handling',
                 signals' = signals \cup {Mask[z]}, hist'.answered = Answers(Evt)
          PROVE  AnswerOf(x)'
      <4>1. CASE z = x
        BY ZenonT(40), <1>2, <3>1, <3>7, <4>1, AnswerHandled
      <4>2. CASE z # x
        <5>1. Mask[z] # Mask[x]
          BY ZenonT(40), <3>2, <3>3, <4>2
        <5>2. \A t \in Apps : hist.answered[t] => Answers(Evt)[t]
          BY ZenonT(40) DEF Answers
        <5> QED BY ZenonT(40), <2>3, <3>7, <5>1, <5>2
      <4> QED BY ZenonT(40), <4>1, <4>2
    <3> QED BY ZenonT(40), <1>0, <2>4, <3>4, <3>5, <3>6, <3>7, HandlerSignals
  <2>5. CASE ~Handler
    <3>1. UNCHANGED signals
      BY ZenonT(60), <1>4, <2>5, NextIs DEF Client, Call, RoamExpire, roam_handler, WfmCommand, WfmEvent,
         wmi_event_buf_free, FwStep, FwAnswer, FwEvent
    <3>2. hist'.answered = hist.answered
      BY ZenonT(40), <1>0, <1>4, <2>5, OtherHist
    <3> QED BY ZenonT(40), <2>3, <3>1, <3>2
  <2> QED BY ZenonT(40), <2>4, <2>5
<1> QED BY ZenonT(40), <1>3, <1>4

-----------------------------------------------------------------------------
(* The theorems.                                                           *)

DrvInv == QueueInv /\ LinkInv /\ LockInv /\ RoamInv /\ ScanInv /\ AnswerInv

LEMMA DrvInit == Init => DrvInv
<1> SUFFICES ASSUME Init PROVE DrvInv
  BY ZenonT(40)
<1>2. QueueInv
  BY ZenonT(40), QueueInit
<1>3. /\ pipe = <<>> /\ wfm = [at |-> "recv", evt |-> None, polls |-> 0] /\ signals = {}
      /\ fw = [owes |-> {}, link |-> c.connected, losses |-> 0]
      /\ app = [t \in Apps |-> Idle] /\ roam = [work |-> "idle", time_out |-> 0, cnt |-> 1, runs |-> 0]
  BY ZenonT(40) DEF Init
<1>4. Len(pipe) = 0 /\ wfm.at = "recv" /\ fw.owes = {} /\ fw.link = c.connected /\ roam.work = "idle"
  BY ZenonT(40), <1>3
<1>5. \A t \in Apps : app[t].at = "idle" /\ app[t].op = None /\ app[t].cmd = None
  BY ZenonT(40), <1>3 DEF Idle
<1>6. c.roaming_started = FALSE /\ c.scan_in_progress = FALSE /\ c.wait_scan_comp_evt = FALSE /\ c.scan_out = None
  <2>1. c \in [connected : BOOLEAN, connect_in_progress : {FALSE},
            disconnect_in_progress : {FALSE}, scan_in_progress : {FALSE},
            wait_scan_comp_evt : {FALSE}, wlanEnabled : {TRUE},
            opmode : {"ap", "sta"}, profile : {"psk"}, param_id : {None},
            roaming_started : {FALSE}, scan_out : {None}]
    BY ZenonT(40) DEF Init
  <2> QED BY ZenonT(40), <2>1
<1>7. hist.scan = None /\ hist.partial = FALSE
  BY ZenonT(40) DEF Init
<1>8. \A i \in 0 .. Len(pipe) : i = 0
  BY <1>4
<1>9. LinkInv
  <2>1. Reports = {}
    BY ZenonT(40), <1>4, <1>8 DEF Reports
  <2> QED BY ZenonT(40), <1>4, <2>1 DEF LinkInv
<1>10. LockInv
  <2>1. None \notin Locked
    BY ZenonT(40), WlanAssumption DEF AllOps
  <2> QED BY ZenonT(40), <1>4, <1>5, <2>1 DEF LockInv
<1>11. RoamInv
  BY ZenonT(40), <1>4, <1>6 DEF RoamInv
<1>12. ASSUME NEW x PROVE Nothing(x) /\ \A g : Sole(x, g)
  <2>1. Sending(x) = {} /\ Owing(x) = {}
    BY ZenonT(40), <1>4, <1>8 DEF Sending, Handling, Owing
  <2> QED BY ZenonT(40), <2>1 DEF Nothing, Sole
<1>13. ScanInv
  <2>1. Starting = {} /\ \A s : "idle" \notin s => ~Results(s)
    BY ZenonT(40), <1>5 DEF Starting, Results
  <2>2. ~Results({"woken", "ret"})
    BY ZenonT(40), <2>1
  <2> QED BY ZenonT(40), <1>3, <1>4, <1>6, <1>7, <1>12, <2>1, <2>2 DEF ScanInv
<1>14. AnswerInv
  <2>1. \A x : Engaged(x, {"woken"}) = {}
    BY ZenonT(40), <1>5 DEF Engaged
  <2> QED BY ZenonT(40), <1>3, <1>12, <2>1 DEF AnswerInv, AnswerOf
<1> QED BY ZenonT(40), <1>2, <1>9, <1>10, <1>11, <1>13, <1>14 DEF DrvInv

LEMMA DrvNext ==
  ASSUME DrvInv, Next
  PROVE  DrvInv'
<1>1. QueueInv /\ LinkInv /\ LockInv /\ RoamInv /\ ScanInv /\ AnswerInv
  BY ZenonT(40) DEF DrvInv
<1>2. QueueInv'
  BY ZenonT(40), <1>1, QueueNext
<1>3. LinkInv' /\ LockInv' /\ RoamInv' /\ ScanInv' /\ AnswerInv'
  BY ZenonT(40), <1>1, <1>2, LinkNext, LockNext, RoamNext, ScanNext, AnswerNext
<1> QED BY ZenonT(40), <1>2, <1>3 DEF DrvInv

\* The parts together are inductive: the API calls, the WMI task, the roaming work and
\* the firmware keep them in every interleaving.
THEOREM DrvInvariant == Spec => []DrvInv
<1>1. ASSUME DrvInv, QueueInv', UNCHANGED vars PROVE DrvInv'
  <2>1. /\ UNCHANGED c /\ UNCHANGED signals /\ UNCHANGED block /\ UNCHANGED pipe /\ UNCHANGED roam
        /\ UNCHANGED wfm /\ UNCHANGED app /\ UNCHANGED fw /\ UNCHANGED hist
    BY ZenonT(40), <1>1 DEF vars
  <2>2. LinkInv /\ LockInv /\ RoamInv /\ ScanInv /\ AnswerInv
    BY ZenonT(40), <1>1 DEF DrvInv
  <2>3. PipeOK /\ PipeOK' /\ Extended /\ Grows /\ \A i \in Len(pipe) + 1 .. Len(pipe') : FALSE
    <3>1. PipeOK /\ PipeOK' /\ Len(pipe) \in Nat
      BY <1>1 DEF DrvInv, QueueInv, TypeOK, PipeOK
    <3> QED BY <2>1, <3>1 DEF Extended, Grows
  <2>4. LinkInv'
    BY ZenonT(40), <2>1, <2>2, <2>3, LinkKept
  <2>5. LockInv' /\ RoamInv'
    BY ZenonT(40), <2>1, <2>2 DEF LockInv, Evt, RoamInv, Stopping
  <2>6. \A x : Calm(x)
    <3> SUFFICES ASSUME NEW x PROVE Calm(x)
      BY ZenonT(40)
    <3> QED BY ZenonT(40), <2>1, <2>3, FlowKept DEF Handling
  <2>7. ScanInv'
    BY ZenonT(40), <2>1, <2>2, <2>3, <2>6, ScanKept
  <2>8. ASSUME NEW x \in Judged PROVE AnswerOf(x)'
    <3>1. AnswerOf(x)
      BY ZenonT(40), <2>2 DEF AnswerInv
    <3>2. Calm(x)
      BY ZenonT(40), <2>6
    <3>3. \A ats : Engaged(x, ats)' = Engaged(x, ats)
      BY ZenonT(40), <2>1 DEF Engaged
    <3> QED BY ZenonT(40), <2>1, <3>1, <3>2, <3>3, AnswerKept
  <2>9. AnswerInv'
    BY ZenonT(40), <2>8 DEF AnswerInv, Judged, OneSetter
  <2> QED BY ZenonT(40), <1>1, <2>4, <2>5, <2>7, <2>9 DEF DrvInv
<1> QED BY <1>1, DrvInit, DrvNext, QueueInvariant, PTL DEF Spec

\* connected, as wmi_join_comp_event and wmi_disconnect_event set it, tells whether the
\* firmware is connected when all its reports have been handled and none was lost.
THEOREM LinkAgrees == Spec => []ViewAgrees
<1>1. DrvInv => ViewAgrees
  <2>1. SUFFICES ASSUME DrvInv, ~hist.lost, ~Dispatch(LinkReports),
                        ~\E i \in DOMAIN pipe : pipe[i].kind = "evt" /\ pipe[i].was.e \in LinkReports
                 PROVE  c.connected = fw.link
    BY ZenonT(40) DEF ViewAgrees
  <2>2. Len(pipe) \in Nat /\ DOMAIN pipe = 1 .. Len(pipe)
    BY <2>1 DEF DrvInv, QueueInv, TypeOK, PipeOK
  <2>3. ASSUME NEW i \in Reports PROVE FALSE
    <3>1. i \in 0 .. Len(pipe) /\ (i = 0 => wfm.at = "dispatch") /\ Msg(i).was.e \in LinkReports /\ Msg(i).kind = "evt"
      BY ZenonT(40) DEF Reports, IsReport
    <3>2. CASE i = 0
      BY ZenonT(40), <2>1, <3>1, <3>2 DEF Msg, Dispatch, Evt
    <3>3. CASE i # 0
      BY <2>1, <2>2, <3>1, <3>3 DEF Msg
    <3> QED BY ZenonT(40), <3>2, <3>3
  <2> QED BY ZenonT(40), <2>1, <2>3 DEF DrvInv, LinkInv
<1> QED BY <1>1, DrvInvariant, PTL

\* roaming_started and the delayable work of wlan_drv_roaming_start and
\* wlan_drv_roaming_stop agree, unless a stop met a running handler or a start came
\* between the two steps of a stop.
THEOREM RoamingTracked == Spec => []RoamTracked
<1>1. DrvInv => RoamTracked
  BY ZenonT(40) DEF DrvInv, RoamInv, RoamTracked, Stopping
<1> QED BY <1>1, DrvInvariant, PTL

\* What wlan_get_scan_results copies is the complete result of the scan started last,
\* unless a scan was started while another one was running.
THEOREM ResultsWhole == Spec => []ScanResultsWhole
<1>1. DrvInv => ScanResultsWhole
  BY ZenonT(40) DEF DrvInv, ScanInv, ScanResultsWhole
<1> QED BY <1>1, DrvInvariant, PTL

\* The calls under wlan_qapi_block_mutex are woken by the event that answers their own
\* command; so are the Set_Param calls, which take no lock, if one thread makes them.
THEOREM OwnAnswers == OneSetter => (Spec => []OwnAnswer)
<1>1. SUFFICES ASSUME OneSetter PROVE Spec => []OwnAnswer
  BY ZenonT(40)
<1>2. DrvInv => OwnAnswer
  <2>1. SUFFICES ASSUME DrvInv, NEW t \in Apps, app[t].at = "woken", app[t].cmd \notin {"disconnect", "results"}
                 PROVE  hist.answered[t]
    BY ZenonT(40) DEF OwnAnswer
  <2>2. AppOK
    BY ZenonT(40), <2>1 DEF DrvInv, QueueInv, TypeOK
  <2>3. app[t].cmd \in DOMAIN Mask
    BY ZenonT(40), <2>1, <2>2 DEF AppOK, Threads, Flow
  <2>4. app[t].cmd \in Judged
    BY ZenonT(40), <1>1, <2>1, <2>3, MaskInj DEF Judged
  <2>5. AnswerOf(app[t].cmd)
    BY ZenonT(40), <2>1, <2>4 DEF DrvInv, AnswerInv
  <2>6. t \in Engaged(app[t].cmd, {"woken"})
    BY ZenonT(40), <2>1 DEF Engaged
  <2> QED BY ZenonT(40), <2>5, <2>6 DEF AnswerOf
<1> QED BY <1>2, DrvInvariant, PTL

\* The serialised calls alone, whatever the threads that set parameters do.
OwnLocked ==
  \A t \in Apps :
    app[t].at = "woken" /\ app[t].cmd \in {"on", "off", "scan", "plain"} => hist.answered[t]

\* A call that wlan_qapi_block_mutex serialises is woken by the answer to its own command.
THEOREM LockedAnswers == Spec => []OwnLocked
<1>1. DrvInv => OwnLocked
  <2>1. SUFFICES ASSUME DrvInv, NEW t \in Apps, app[t].at = "woken", app[t].cmd \in {"on", "off", "scan", "plain"}
                 PROVE  hist.answered[t]
    BY ZenonT(40) DEF OwnLocked
  <2>2. AnswerOf(app[t].cmd)
    BY ZenonT(40), <2>1 DEF DrvInv, AnswerInv, Judged, Awaited
  <2>3. t \in Engaged(app[t].cmd, {"woken"})
    BY ZenonT(40), <2>1 DEF Engaged
  <2> QED BY ZenonT(40), <2>2, <2>3 DEF AnswerOf
<1> QED BY <1>1, DrvInvariant, PTL
=============================================================================
