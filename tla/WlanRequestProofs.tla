------------------------- MODULE WlanRequestProofs -------------------------
(***************************************************************************)
(* More proofs about WlanDrv: the driver's view of the link, the threads   *)
(* and their lock, the roaming work, and requests on their way.            *)
(***************************************************************************)
EXTENDS WlanQueueProofs

-----------------------------------------------------------------------------
(* The driver's view of the link.                                          *)

\* What a report on the link says, and where the reports not yet handled are.
Says(p) == p.e = "join" /\ p.ok
IsReport(m) == m.kind = "evt" /\ m.was.e \in LinkReports
Reports == {i \in 0 .. Len(pipe) : (i = 0 => wfm.at = "dispatch") /\ IsReport(Msg(i))}

\* The last report says what the firmware's state is; without one, the driver knows.
LinkInv ==
  \/ hist.lost
  \/ /\ Reports = {} => c.connected = fw.link
     /\ \A i \in Reports : (\A j \in Reports : j <= i) => Says(Msg(i).was) = fw.link

LEMMA LinkShift ==
  ASSUME LinkInv, Grows, Len(pipe) \in Nat, Len(pipe') \in Nat, NEW d \in {0, 1},
         c'.connected = c.connected, fw'.link = fw.link,
         \A i \in (0 .. Len(pipe))' : i \in Reports' => i + d \in Reports /\ Msg(i)' = Msg(i + d),
         \A i \in Reports : i - d \in Reports'
  PROVE  LinkInv'
<1>1. SUFFICES ASSUME ~hist.lost
               PROVE  /\ Reports' = {} => c.connected = fw.link
                      /\ \A i \in Reports' : (\A j \in Reports' : j <= i) => Says(Msg(i)'.was) = fw.link
  BY ZenonT(40) DEF LinkInv, Grows, Says
<1>2. ASSUME Reports' = {} PROVE Reports = {}
  BY ZenonT(40), <1>2
<1>3. ASSUME NEW i \in Reports', \A j \in Reports' : j <= i PROVE Says(Msg(i)'.was) = fw.link
  <2>1. i \in (0 .. Len(pipe))' /\ i \in Nat
    BY DEF Reports
  <2>2. i + d \in Reports /\ Msg(i)' = Msg(i + d)
    BY ZenonT(40), <2>1
  <2>3. ASSUME NEW j \in Reports PROVE j <= i + d
    <3>1. j - d <= i /\ j \in Nat
      BY <1>3 DEF Reports
    <3> QED BY <2>1, <3>1
  <2> QED BY ZenonT(40), <1>1, <2>2, <2>3 DEF LinkInv
<1> QED BY ZenonT(40), <1>1, <1>2, <1>3 DEF LinkInv

\* A handler of another event, a command or the release of a buffer.
LEMMA LinkKept ==
  ASSUME LinkInv, Grows, PipeOK, PipeOK', Extended, wfm'.evt = wfm.evt,
         c'.connected = c.connected, fw'.link = fw.link,
         wfm'.at = "dispatch" /\ IsReport(wfm.evt) <=> wfm.at = "dispatch" /\ IsReport(wfm.evt)
  PROVE  LinkInv'
<1>1. /\ Len(pipe) \in Nat /\ Len(pipe') \in Nat /\ Len(pipe) <= Len(pipe')
      /\ \A i \in 0 .. Len(pipe) : Msg(i)' = Msg(i)
      /\ \A i \in Len(pipe) + 1 .. Len(pipe') : Msg(i)' = pipe'[i] /\ Msg(i)' \in Commands /\ i # 0
  BY ZenonT(40), KeptMsg
<1>2. \A m \in Commands : ~IsReport(m)
  BY ZenonT(40) DEF Commands, IsReport
<1>3. Msg(0) = wfm.evt
  BY ZenonT(40) DEF Msg
<1>4. ASSUME NEW i \in (0 .. Len(pipe))', i \in Reports' PROVE i + 0 \in Reports /\ Msg(i)' = Msg(i + 0)
  <2>1. i \in 0 .. Len(pipe') /\ (i = 0 => wfm'.at = "dispatch") /\ IsReport(Msg(i)')
    BY ZenonT(40), <1>4 DEF Reports, IsReport
  <2>2. i <= Len(pipe)
    BY <1>1, <1>2, <2>1
  <2>3. i \in 0 .. Len(pipe) /\ Msg(i)' = Msg(i) /\ i + 0 = i
    BY <1>1, <2>1, <2>2
  <2>4. i = 0 => wfm.at = "dispatch"
    BY ZenonT(40), <1>3, <2>1, <2>3
  <2> QED BY ZenonT(40), <2>1, <2>3, <2>4 DEF Reports
<1>5. ASSUME NEW i \in Reports PROVE i - 0 \in Reports'
  <2>1. i \in 0 .. Len(pipe) /\ (i = 0 => wfm.at = "dispatch") /\ IsReport(Msg(i))
    BY ZenonT(40) DEF Reports
  <2>2. i \in 0 .. Len(pipe') /\ Msg(i)' = Msg(i) /\ i - 0 = i
    BY <1>1, <2>1
  <2>3. i = 0 => wfm'.at = "dispatch"
    BY ZenonT(40), <1>3, <2>1, <2>2
  <2>4. i \in Reports'
    BY ZenonT(40), <2>1, <2>2, <2>3 DEF Reports, IsReport
  <2> QED BY ZenonT(40), <2>2, <2>4
<1> QED BY ZenonT(40), <1>1, <1>4, <1>5, LinkShift

LEMMA LinkTaken ==
  ASSUME QueueInv, LinkInv, Grows, WfmCommand \/ WfmEvent
  PROVE  LinkInv'
<1>1. /\ Len(pipe) \in Nat /\ Len(pipe) >= 1 /\ Len(pipe') = Len(pipe) - 1
      /\ \A i \in 1 .. Len(pipe') : Msg(i)' = Msg(i + 1)
      /\ wfm.at = "recv"
      /\ WfmEvent => wfm'.at = "dispatch" /\ Msg(0)' = Msg(1)
      /\ WfmCommand => wfm'.at = "recv" /\ Msg(1) \in Commands
  BY ZenonT(40), TakenMsg
<1>2. c' = c /\ fw'.link = fw.link
  <2>1. FwOK
    BY ZenonT(40) DEF QueueInv, TypeOK
  <2>2. UNCHANGED c /\ (UNCHANGED fw \/ \E W : fw' = [fw EXCEPT !.owes = W])
    BY ZenonT(40) DEF WfmCommand, WfmEvent
  <2> QED BY ZenonT(40), <2>1, <2>2 DEF FwOK
<1>3. \A m \in Commands : ~IsReport(m)
  BY ZenonT(40) DEF Commands, IsReport
<1>4. ASSUME NEW i \in (0 .. Len(pipe))', i \in Reports' PROVE i + 1 \in Reports /\ Msg(i)' = Msg(i + 1)
  <2>1. i \in 0 .. Len(pipe') /\ (i = 0 => wfm'.at = "dispatch") /\ IsReport(Msg(i)')
    BY ZenonT(40), <1>4 DEF Reports, IsReport
  <2>2. Msg(i)' = Msg(i + 1)
    BY <1>1, <2>1
  <2>3. i + 1 \in 0 .. Len(pipe) /\ i + 1 # 0
    BY <1>1, <2>1
  <2> QED BY ZenonT(40), <2>1, <2>2, <2>3 DEF Reports
<1>5. ASSUME NEW i \in Reports PROVE i - 1 \in Reports'
  <2>1. i \in 0 .. Len(pipe) /\ (i = 0 => wfm.at = "dispatch") /\ IsReport(Msg(i))
    BY ZenonT(40) DEF Reports
  <2>2. i \in 1 .. Len(pipe) /\ i - 1 \in 0 .. Len(pipe')
    BY <1>1, <2>1
  <2>3. Msg(i - 1)' = Msg(i) /\ (i - 1 = 0 => wfm'.at = "dispatch")
    <3>1. CASE i = 1
      BY <1>1, <1>3, <2>1, <3>1
    <3>2. CASE i # 1
      <4>1. i - 1 \in 1 .. Len(pipe') /\ (i - 1) + 1 = i
        BY <1>1, <2>2, <3>2
      <4> QED BY <1>1, <4>1
    <3> QED BY ZenonT(40), <3>1, <3>2
  <2>4. IsReport(Msg(i - 1)')
    BY ZenonT(40), <2>1, <2>3
  <2> QED BY ZenonT(40), <2>2, <2>3, <2>4 DEF Reports, IsReport
<1>6. Len(pipe') \in Nat
  BY <1>1
<1> QED BY ZenonT(40), <1>1, <1>2, <1>4, <1>5, <1>6, LinkShift

\* The report at the head is handled: it was the last, or a later one counts.
LEMMA LinkHandled ==
  ASSUME QueueInv, LinkInv, Grows, UNCHANGED <<pipe, fw>>, wfm.at = "dispatch", IsReport(wfm.evt),
         wfm'.at # "dispatch", wfm'.evt = wfm.evt, c'.connected = Says(Evt)
  PROVE  LinkInv'
<1>1. Len(pipe) \in Nat /\ Msg(0) = wfm.evt /\ \A i \in 0 .. Len(pipe) : Msg(i)' = Msg(i)
  BY DEF QueueInv, TypeOK, PipeOK, Msg
<1>2. Reports' = Reports \ {0} /\ 0 \in Reports /\ \A i \in Reports : i \in Nat
  BY <1>1 DEF Reports, IsReport
<1>3. SUFFICES ASSUME ~hist.lost
               PROVE  /\ Reports' = {} => Says(Evt) = fw.link
                      /\ \A i \in Reports' : (\A j \in Reports' : j <= i) => Says(Msg(i)'.was) = fw.link
  BY ZenonT(40) DEF LinkInv, Grows, Says
<1>4. ASSUME Reports' = {} PROVE Says(Evt) = fw.link
  <2>1. \A j \in Reports : j <= 0
    BY <1>2, <1>4
  <2> QED BY ZenonT(40), <1>1, <1>2, <1>3, <2>1 DEF LinkInv, Evt
<1>5. ASSUME NEW i \in Reports', \A j \in Reports' : j <= i PROVE Says(Msg(i)'.was) = fw.link
  <2>1. \A j \in Reports : j <= i
    BY <1>2, <1>5
  <2>2. i \in 0 .. Len(pipe)
    BY ZenonT(40), <1>2 DEF Reports
  <2> QED BY ZenonT(40), <1>1, <1>2, <1>3, <2>1, <2>2 DEF LinkInv
<1> QED BY ZenonT(40), <1>4, <1>5

\* A new event: a report that says the firmware's new state, or another event and
\* the state is the old one.
LEMMA LinkSent ==
  ASSUME QueueInv, LinkInv, Grows, NEW p \in Payloads, wmi_event_relay(p), UNCHANGED <<wfm, c>>,
         IF p.e \in LinkReports THEN fw'.link = Says(p) ELSE fw'.link = fw.link
  PROVE  LinkInv'
<1>1. /\ Len(pipe) \in Nat /\ Len(pipe') \in Nat
      /\ \A i \in 0 .. Len(pipe) : Msg(i)' = Msg(i)
      /\ \/ pipe' = pipe /\ hist'.lost
         \/ /\ Len(pipe') = Len(pipe) + 1
            /\ \A i : i = Len(pipe) + 1 => Msg(i)'.kind = "evt" /\ Msg(i)'.was = p
  BY ZenonT(40), SentMsg
<1>2. CASE hist'.lost
  BY ZenonT(40), <1>2 DEF LinkInv
<1>3. CASE ~hist'.lost
  <2>1. Len(pipe') = Len(pipe) + 1 /\ ~hist.lost
    BY ZenonT(40), <1>1, <1>3 DEF Grows
  <2>2. \A i : i = Len(pipe) + 1 => IsReport(Msg(i)') = (p.e \in LinkReports) /\ Msg(i)'.was = p
    BY <1>1, <1>3 DEF IsReport
  <2>3. \A i \in 0 .. Len(pipe) : i \in Reports' <=> i \in Reports
    BY <1>1, <2>1 DEF Reports, IsReport
  <2>4. \A i \in Reports' : i \in Reports \/ i = Len(pipe) + 1
    BY <1>1, <2>1, <2>3 DEF Reports
  <2>5. PICK n \in Nat : n = Len(pipe) + 1
    BY <1>1
  <2>6. LinkReports' = LinkReports /\ n \in (0 .. Len(pipe))' /\ n # 0
    BY <1>1, <2>1, <2>5 DEF LinkReports
  <2>7. \A i \in Reports : i \in 0 .. Len(pipe) /\ i < n
    BY <1>1, <2>5 DEF Reports
  <2>8. CASE p.e \in LinkReports
    <3>1. n \in Reports' /\ Msg(n)'.was = p
      BY ZenonT(40), <2>2, <2>5, <2>6, <2>8 DEF Reports, IsReport
    <3>2. ASSUME NEW i \in Reports', \A j \in Reports' : j <= i PROVE i = n
      BY <1>1, <2>4, <2>5, <2>7, <3>1, <3>2
    <3>3. \A i \in Reports' : (\A j \in Reports' : j <= i) => Says(Msg(i)'.was) = fw'.link
      BY ZenonT(40), <2>8, <3>1, <3>2
    <3> QED BY ZenonT(40), <3>1, <3>3 DEF LinkInv, Says
  <2>9. CASE p.e \notin LinkReports
    <3>1. Reports' = Reports
      <4>1. n \notin Reports'
        BY ZenonT(40), <2>2, <2>5, <2>9 DEF Reports, IsReport
      <4> QED BY ZenonT(40), <2>3, <2>4, <2>5, <2>7, <4>1
    <3>2. \A i \in Reports : Msg(i)' = Msg(i)
      BY ZenonT(40), <1>1, <2>7
    <3>3. fw'.link = fw.link
      BY ZenonT(40), <2>9
    <3>4. /\ Reports' = {} => c'.connected = fw'.link
          /\ \A i \in Reports' : (\A j \in Reports' : j <= i) => Says(Msg(i)'.was) = fw'.link
      BY ZenonT(40), <2>1, <3>1, <3>2, <3>3 DEF LinkInv
    <3> QED BY ZenonT(40), <3>4 DEF LinkInv, Says
  <2> QED BY ZenonT(40), <2>8, <2>9
<1> QED BY ZenonT(40), <1>2, <1>3

LEMMA LinkNext ==
  ASSUME QueueInv, QueueInv', LinkInv, Next
  PROVE  LinkInv'
<1>0. TypeOK /\ PipeOK /\ PipeOK' /\ WfmOK /\ FwOK /\ c \in Contexts /\ Len(pipe) \in Nat
  BY DEF QueueInv, TypeOK, PipeOK, CtxOK
<1>1. Grows
  BY ZenonT(40), <1>0, HistGrows
<1>2. CASE Client
  <2>1. Extended /\ UNCHANGED <<wfm, fw>> /\ c'.connected = c.connected
    BY ZenonT(40), <1>2, ClientFrame
  <2>2. fw'.link = fw.link /\ wfm'.evt = wfm.evt /\ wfm'.at = wfm.at
    BY ZenonT(40), <2>1
  <2> QED BY ZenonT(40), <1>0, <1>1, <2>1, <2>2, LinkKept
<1>3. CASE Handler
  <2>1. /\ UNCHANGED <<pipe, fw>> /\ wfm'.evt = wfm.evt /\ wfm'.at # "dispatch" /\ wfm.at # "recv"
    BY ZenonT(40), <1>0, <1>3, HandlerFrame
  <2>2. Extended
    BY <1>0, <2>1 DEF Extended
  <2>3. wfm.evt.was = Evt /\ wfm.evt.kind = "evt" /\ Evt.ok \in BOOLEAN
    BY ZenonT(40), <1>0, <2>1, EvtIs DEF Evt
  <2>4. ASSUME NEW ctx, FollowLink(ctx) PROVE c'.connected = ctx.connected \/ ctx \notin Contexts
    BY ZenonT(40), <2>4 DEF FollowLink, Contexts
  <2>5. CASE wmi_join_comp_event
    <3>1. wfm.at = "dispatch" /\ Evt.e = "join"
      BY ZenonT(40), <2>5 DEF wmi_join_comp_event, Dispatch
    <3>2. ASSUME NEW x, x = [c EXCEPT !.connected = Evt.ok, !.connect_in_progress = FALSE]
          PROVE  x \in Contexts /\ x.connected = Evt.ok
      BY ZenonT(40), <1>0, <2>3, <3>2 DEF Contexts
    <3>3. c'.connected = Evt.ok
      <4>1. \E x : x = [c EXCEPT !.connected = Evt.ok, !.connect_in_progress = FALSE] /\ (c' = x \/ FollowLink(x))
        BY ZenonT(40), <2>5 DEF wmi_join_comp_event
      <4> QED BY <2>4, <3>2, <4>1
    <3>4. c'.connected = Says(Evt) /\ IsReport(wfm.evt)
      BY ZenonT(40), <2>3, <3>1, <3>3 DEF Says, IsReport, LinkReports
    <3> QED BY ZenonT(40), <1>1, <2>1, <3>1, <3>4, LinkHandled
  <2>6. CASE wmi_disconnect_event
    <3>1. wfm.at = "dispatch" /\ Evt.e = "disc"
      BY ZenonT(40), <2>6 DEF wmi_disconnect_event, Dispatch
    <3>2. ASSUME NEW x, x = [c EXCEPT !.connected = FALSE, !.disconnect_in_progress = FALSE]
          PROVE  x \in Contexts /\ x.connected = FALSE
      BY ZenonT(40), <1>0, <2>3, <3>2 DEF Contexts
    <3>3. c'.connected = FALSE
      <4>1. \E x : x = [c EXCEPT !.connected = FALSE, !.disconnect_in_progress = FALSE] /\ FollowLink(x)
        BY ZenonT(40), <2>6 DEF wmi_disconnect_event
      <4> QED BY ZenonT(40), <2>4, <3>2, <4>1
    <3>4. c'.connected = Says(Evt) /\ IsReport(wfm.evt)
      BY ZenonT(40), <2>3, <3>1, <3>3 DEF Says, IsReport, LinkReports
    <3> QED BY ZenonT(40), <1>1, <2>1, <3>1, <3>4, LinkHandled
  <2>7. CASE ~wmi_join_comp_event /\ ~wmi_disconnect_event
    <3>1. ~(wfm.at = "dispatch" /\ Evt.e \in LinkReports)
      BY ZenonT(40), <1>3, <2>7 DEF Handler, wmi_report_event, wmi_enabled_event, wmi_scan_comp_event,
         WakeScanResults, wmi_peer_event, WakeDisconnect, EndDisconnect, wmi_set_param_event,
         Dispatch, LinkReports
    <3>2. c'.connected = c.connected
      <4>1. \/ UNCHANGED c
            \/ \E b : c' = [c EXCEPT !.wlanEnabled = b]
            \/ \E x : c' = [c EXCEPT !.scan_in_progress = FALSE, !.wait_scan_comp_evt = FALSE, !.scan_out = x]
            \/ c' = [c EXCEPT !.disconnect_in_progress = FALSE]
        BY ZenonT(40), <1>3, <2>7 DEF Handler, wmi_report_event, wmi_enabled_event, wmi_scan_comp_event,
           WakeScanResults, wmi_peer_event, WakeDisconnect, EndDisconnect, wmi_set_param_event
      <4> QED BY ZenonT(40), <1>0, <4>1 DEF Contexts
    <3>3. ~(wfm.at = "dispatch" /\ IsReport(wfm.evt))
      BY ZenonT(40), <2>3, <3>1 DEF IsReport
    <3>4. fw'.link = fw.link
      BY ZenonT(40), <2>1
    <3> QED BY ZenonT(40), <1>0, <1>1, <2>1, <2>2, <3>2, <3>3, <3>4, LinkKept
  <2> QED BY ZenonT(40), <2>5, <2>6, <2>7
<1>4. CASE WfmCommand \/ WfmEvent
  BY ZenonT(40), <1>1, <1>4, LinkTaken
<1>5. CASE wmi_event_buf_free
  <2>1. /\ UNCHANGED <<pipe, fw, c>> /\ wfm'.at = "recv" /\ wfm.at = "free"
    BY ZenonT(40), <1>5 DEF wmi_event_buf_free
  <2>2. Extended
    BY <1>0, <2>1 DEF Extended
  <2>3. Reports' = Reports /\ \A i \in Reports : Msg(i)' = Msg(i)
    BY ZenonT(40), <1>0, <2>1 DEF Reports, Msg, IsReport
  <2>4. \A i \in Reports : i + 0 = i /\ i - 0 = i
    BY <1>0 DEF Reports
  <2>5. /\ Len(pipe') \in Nat /\ fw'.link = fw.link /\ c'.connected = c.connected
    BY ZenonT(40), <1>0, <2>1
  <2> QED BY ZenonT(40), <1>0, <1>1, <2>3, <2>4, <2>5, LinkShift
<1>6. ASSUME NEW o \in fw.owes, NEW ok \in BOOLEAN, FwAnswer(o, ok) PROVE LinkInv'
  <2> DEFINE p == Payload(o.e, o.m, ok)
  <2>1. p \in Payloads /\ wmi_event_relay(p) /\ UNCHANGED <<wfm, c>>
    BY ZenonT(40), <1>0, <1>6, PayloadIs DEF FwAnswer
  <2>2. p.e = o.e /\ p.ok = ok
    BY ZenonT(40) DEF Payload
  <2>3. fw'.link = CASE o.e = "join" -> ok [] o.e = "disc" -> FALSE [] OTHER -> fw.link
    <3>1. \A W, b : fw' = [fw EXCEPT !.owes = W, !.link = b] => fw'.link = b
      BY ZenonT(40), <1>0 DEF FwOK
    <3>2. fw' = [fw EXCEPT !.owes = (fw.owes \ {o}) \cup
                        (IF o.e = "scan_start" THEN {[e |-> "scan_comp", m |-> o.m]} ELSE {}),
                      !.link = CASE o.e = "join" -> ok [] o.e = "disc" -> FALSE [] OTHER -> fw.link]
      BY ZenonT(40), <1>6 DEF FwAnswer
    <3> QED BY ZenonT(40), <3>1, <3>2
  <2> HIDE DEF p
  <2>4. IF p.e \in LinkReports THEN fw'.link = Says(p) ELSE fw'.link = fw.link
    BY ZenonT(40), <2>2, <2>3 DEF LinkReports, Says
  <2> QED BY ZenonT(40), <1>1, <2>1, <2>4, LinkSent
<1>7. ASSUME NEW e \in {"disc", "peer"}, FwEvent(e) PROVE LinkInv'
  <2> DEFINE p == Payload(e, Unsolicited, FALSE)
  <2>1. p \in Payloads /\ wmi_event_relay(p) /\ UNCHANGED <<wfm, c>> /\ fw.link
    BY ZenonT(40), <1>0, <1>7, PayloadIs DEF FwEvent
  <2>2. p.e = e /\ p.ok = FALSE
    BY ZenonT(40) DEF Payload
  <2>3. fw'.link = (e = "peer")
    <3>1. \A n, b : fw' = [fw EXCEPT !.link = b, !.losses = n] => fw'.link = b
      BY ZenonT(40), <1>0 DEF FwOK
    <3> QED BY ZenonT(40), <1>7, <3>1 DEF FwEvent
  <2> HIDE DEF p
  <2>4. fw.link = TRUE
    BY ZenonT(40), <1>0, <2>1 DEF FwOK
  <2>5. IF p.e \in LinkReports THEN fw'.link = Says(p) ELSE fw'.link = fw.link
    BY ZenonT(40), <2>2, <2>3, <2>4 DEF LinkReports, Says
  <2> QED BY ZenonT(40), <1>1, <2>1, <2>5, LinkSent
<1> QED BY ZenonT(40), <1>2, <1>3, <1>4, <1>5, <1>6, <1>7, NextIs DEF FwStep

-----------------------------------------------------------------------------
(* The threads.                                                            *)

\* Which step a thread is about to take.
LEMMA ThreadFrom ==
  ASSUME NEW t \in Apps, AppStep(t)
  PROVE  /\ app[t].at # "idle"
         /\ app[t].at = "lock" => WLAN_QAPI_LOCK(t)
         /\ app[t].at = "send" => SendCommand(t)
         /\ app[t].at = "store" => StoreParamId(t)
         /\ app[t].at = "wait" => qurt_signal_wait(t)
         /\ app[t].at = "woken" => k_event_clear(t)
         /\ app[t].at = "ret" => FinishCall(t)
         /\ app[t].at = "cancel" => CancelRoaming(t)
         /\ app[t].at = "clear" => ClearProfile(t)
BY ZenonT(60) DEF AppStep, WLAN_QAPI_LOCK, wmi_set_passphrase, qapi_WLAN_Disconnect,
   wmi_connect, wmi_disconnect, wmi_start_scan, wlan_get_scan_results, SendCommand, StoreParamId,
   qurt_signal_wait, k_event_clear, FinishCall, wlan_drv_roaming_stop, CancelRoaming,
   ClearProfile, ClearSettings, SetProfile

\* What the step does to the thread and to the lock: it goes on in its call or returns.
LEMMA ThreadTo ==
  ASSUME TypeOK, NEW t \in Apps, AppStep(t)
  PROVE  \/ Return(t) /\ app[t].at # "cancel" /\ app[t].at # "lock"
         \/ WLAN_QAPI_LOCK(t)
         \/ UNCHANGED block /\ \/ Goto(t, "start") /\ app[t].at \in {"pass", "test"}
                               \/ Goto(t, "clear") /\ app[t].at \in {"test", "roamstop", "cancel"}
                               \/ Goto(t, "offclear") /\ app[t].at \in {"roamstop", "cancel"}
                               \/ Goto(t, "send") /\ app[t].at = "start"
                               \/ Goto(t, "wait") /\ \/ wlan_get_scan_results(t)
                                                     \/ StoreParamId(t)
                                                     \/ SendCommand(t) /\ app[t].cmd # "param"
                               \/ Goto(t, "store") /\ SendCommand(t) /\ app[t].cmd = "param"
                               \/ Goto(t, "woken") /\ qurt_signal_wait(t)
                               \/ Goto(t, "ret") /\ k_event_clear(t)
                               \/ Goto(t, "roamstop") /\ FinishCall(t)
                               \/ Goto(t, "cancel") /\ wlan_drv_roaming_stop(t)
                               \/ ClearProfile(t) /\ app[t].op = "off"
<1>2. CASE \/ WLAN_QAPI_LOCK(t) \/ wmi_set_passphrase(t) \/ qapi_WLAN_Disconnect(t)
           \/ wmi_connect(t) \/ wmi_disconnect(t) \/ wmi_start_scan(t) \/ wlan_get_scan_results(t)
  BY ZenonT(60), <1>2 DEF wmi_set_passphrase, qapi_WLAN_Disconnect,
     wmi_connect, wmi_disconnect, wmi_start_scan, wlan_get_scan_results
<1>3. CASE \/ SendCommand(t) \/ StoreParamId(t) \/ qurt_signal_wait(t) \/ k_event_clear(t)
           \/ FinishCall(t)
  BY ZenonT(60), <1>3 DEF SendCommand, StoreParamId, qurt_signal_wait, k_event_clear, FinishCall
<1>4. CASE wlan_drv_roaming_stop(t) \/ CancelRoaming(t) \/ ClearProfile(t) \/ ClearSettings(t) \/ SetProfile(t)
  BY ZenonT(60), <1>4 DEF wlan_drv_roaming_stop, CancelRoaming, ClearProfile, ClearSettings, SetProfile
<1> QED BY ZenonT(40), <1>2, <1>3, <1>4 DEF AppStep

LEMMA GotoFields ==
  ASSUME AppOK, NEW t \in Apps, NEW l \in Labels, Goto(t, l)
  PROVE  /\ \A u \in Apps \ {t} : app'[u] = app[u]
         /\ app'[t].n = app[t].n /\ app'[t].op = app[t].op /\ app'[t].cmd = app[t].cmd
         /\ app'[t].at = l
<1>1. /\ app'[t] = [at |-> l, op |-> app[t].op, cmd |-> app[t].cmd, n |-> app[t].n,
                    arg |-> app[t].arg]
      /\ \A u \in Apps \ {t} : app'[u] = app[u]
  BY ZenonT(40), GotoIs
<1> QED BY <1>1

LEMMA ReturnFields ==
  ASSUME AppOK, NEW t \in Apps, Return(t)
  PROVE  /\ \A u \in Apps \ {t} : app'[u] = app[u]
         /\ app'[t].n = app[t].n /\ app'[t].op = None /\ app'[t].cmd = None
         /\ app'[t].at = "idle"
<1>1. /\ app'[t] = [at |-> "idle", op |-> None, cmd |-> None, n |-> app[t].n, arg |-> None]
      /\ \A u \in Apps \ {t} : app'[u] = app[u]
  BY ZenonT(40), ReturnIs
<1> QED BY <1>1

LEMMA ThreadMoves ==
  ASSUME TypeOK, NEW t \in Apps, AppStep(t)
  PROVE  /\ \A u \in Apps \ {t} : app'[u] = app[u]
         /\ app'[t].n = app[t].n
         /\ \/ app'[t].at = "idle" /\ app'[t].op = None /\ app'[t].cmd = None
            \/ /\ app'[t].at \notin {"idle", "lock"} /\ app'[t].op = app[t].op
               /\ \/ app'[t].cmd = app[t].cmd
                  \/ app'[t].cmd = "off" /\ app'[t].at = "send" /\ ClearProfile(t)
         /\ app'[t].at = "cancel" => wlan_drv_roaming_stop(t)
         /\ app'[t].at = "store" => SendCommand(t) /\ app[t].cmd = "param"
         /\ app'[t].at = "wait" => \/ wlan_get_scan_results(t) \/ StoreParamId(t)
                                   \/ SendCommand(t) /\ app[t].cmd # "param"
         /\ app'[t].at = "woken" => qurt_signal_wait(t)
         /\ app'[t].at = "ret" => k_event_clear(t)
<1>0. AppOK
  BY ZenonT(40) DEF TypeOK
<1>1. ASSUME NEW l \in Labels, Goto(t, l)
      PROVE  /\ \A u \in Apps \ {t} : app'[u] = app[u]
             /\ app'[t].n = app[t].n /\ app'[t].op = app[t].op /\ app'[t].cmd = app[t].cmd
             /\ app'[t].at = l
  BY ZenonT(40), <1>0, <1>1, GotoFields
<1>2. CASE Return(t)
  <2>1. /\ \A u \in Apps \ {t} : app'[u] = app[u]
        /\ app'[t].n = app[t].n /\ app'[t].op = None /\ app'[t].cmd = None
        /\ app'[t].at = "idle"
    BY ZenonT(40), <1>0, <1>2, ReturnFields
  <2> QED BY ZenonT(40), <2>1
<1>3. CASE WLAN_QAPI_LOCK(t)
  <2>1. Goto(t, "pass") \/ Goto(t, "start") \/ Goto(t, "test") \/ Goto(t, "send")
    BY ZenonT(40), <1>3 DEF WLAN_QAPI_LOCK
  <2> QED BY ZenonT(40), <1>1, <2>1 DEF Labels
<1>4. CASE ClearProfile(t) /\ app[t].op = "off"
  <2>1. app' = [app EXCEPT ![t] = [app[t] EXCEPT !.at = "send", !.cmd = "off"]]
    BY ZenonT(40), <1>4 DEF ClearProfile
  <2>2. app[t] \in Thread
    BY ZenonT(40), <1>0 DEF AppOK, Threads, Thread
  <2>3. ASSUME NEW s, s = [app[t] EXCEPT !.at = "send", !.cmd = "off"]
        PROVE  s.at = "send" /\ s.cmd = "off" /\ s.n = app[t].n /\ s.op = app[t].op
    BY ZenonT(40), <2>2, <2>3 DEF Thread
  <2>4. /\ app'[t].at = "send" /\ app'[t].cmd = "off" /\ app'[t].n = app[t].n /\ app'[t].op = app[t].op
        /\ \A u \in Apps \ {t} : app'[u] = app[u]
    BY ZenonT(40), <1>0, <2>1, <2>3 DEF AppOK
  <2> QED BY ZenonT(40), <1>4, <2>4
<1>5. CASE \/ Goto(t, "start") \/ Goto(t, "clear") \/ Goto(t, "offclear") \/ Goto(t, "send") \/ Goto(t, "roamstop")
  BY ZenonT(40), <1>1, <1>5 DEF Labels
<1>6. CASE \/ Goto(t, "cancel") /\ wlan_drv_roaming_stop(t)
           \/ Goto(t, "woken") /\ qurt_signal_wait(t)
           \/ Goto(t, "ret") /\ k_event_clear(t)
           \/ Goto(t, "store") /\ SendCommand(t) /\ app[t].cmd = "param"
  BY ZenonT(40), <1>1, <1>6 DEF Labels
<1>7. CASE Goto(t, "wait") /\ \/ wlan_get_scan_results(t) \/ StoreParamId(t)
                              \/ SendCommand(t) /\ app[t].cmd # "param"
  BY ZenonT(40), <1>1, <1>7 DEF Labels
<1> QED BY ZenonT(40), <1>2, <1>3, <1>4, <1>5, <1>6, <1>7, ThreadTo

\* A call to be made.
LEMMA CallMoves ==
  ASSUME TypeOK, NEW t \in Apps, NEW op \in Ops[t], NEW a \in Args(op), Call(t, op, a)
  PROVE  /\ \A u \in Apps \ {t} : app'[u] = app[u]
         /\ app[t].at = "idle" /\ app'[t].op = op
         /\ op \in Locked => app'[t].at = "lock"
         /\ op \notin Locked => app'[t].at \in {"idle", "send", "profile"}
         /\ app'[t].at = "send" => app'[t].cmd = "param" /\ op = "param"
<1>0. AppOK
  BY ZenonT(40) DEF TypeOK
<1> DEFINE r == [at  |-> IF op \in Locked THEN "lock"
                         ELSE IF ~c.wlanEnabled THEN "idle"
                         ELSE IF op = "param" THEN "send" ELSE "profile",
                 op  |-> op, cmd |-> FirstCmd(op), n |-> app[t].n + 1,
                 arg |-> IF op = "commit" THEN c.profile ELSE a]
<1>1. app' = [app EXCEPT ![t] = r] /\ app[t].at = "idle"
  BY ZenonT(40) DEF Call
<1>2. /\ r.op = op /\ r.cmd = FirstCmd(op)
      /\ op \in Locked => r.at = "lock"
      /\ op \notin Locked => r.at \in {"idle", "send", "profile"}
      /\ r.at = "send" => op = "param"
  BY ZenonT(40)
<1>3. op = "param" => FirstCmd(op) = "param"
  BY ZenonT(40) DEF FirstCmd
<1> HIDE DEF r
<1>4. app'[t] = r /\ \A u \in Apps \ {t} : app'[u] = app[u]
  BY ZenonT(40), <1>0, <1>1 DEF AppOK
<1> QED BY ZenonT(40), <1>1, <1>2, <1>3, <1>4

\* Whoever is inside a serialised call holds the lock, a thread makes its own calls
\* only, and only the identifier of a Set_Param answer is polled for.
LockInv ==
  /\ \A t \in Apps : app[t].op \in Locked /\ app[t].at \notin {"idle", "lock"} => block = t
  /\ \A t \in Apps : app[t].op \in Ops[t] \cup {None}
  /\ wfm.at = "poll" => Evt.e = "param"

LEMMA LockNext ==
  ASSUME QueueInv, LockInv, Next
  PROVE  LockInv'
<1>0. TypeOK /\ AppOK /\ WfmOK /\ None \notin Apps /\ None \notin Locked
  BY ZenonT(40), WlanAssumption DEF QueueInv, TypeOK, AllOps
<1>1. ASSUME UNCHANGED <<app, block>>, wfm'.at = "poll" => Evt'.e = "param" PROVE LockInv'
  BY ZenonT(40), <1>1 DEF LockInv
<1>2. ASSUME UNCHANGED wfm PROVE wfm'.at = "poll" => Evt'.e = "param"
  BY ZenonT(40), <1>2 DEF LockInv, Evt
<1>3. ASSUME NEW t \in Apps, AppStep(t) PROVE LockInv'
  <2>1. UNCHANGED wfm
    BY ZenonT(40), <1>3, SendFrame
  <2>2. /\ \A u \in Apps \ {t} : app'[u] = app[u]
        /\ \/ app'[t].at = "idle" /\ app'[t].op = None
           \/ app'[t].at \notin {"idle", "lock"} /\ app'[t].op = app[t].op
    BY ZenonT(40), <1>0, <1>3, ThreadMoves
  <2>3. \A u \in Apps : app'[u].op \in Ops[u] \cup {None}
    BY ZenonT(40), <2>2 DEF LockInv
  <2>4. app[t].at # "idle"
    BY ZenonT(40), <1>3, ThreadFrom
  <2>5. \A u \in Apps : app'[u].op \in Locked /\ app'[u].at \notin {"idle", "lock"} => block' = u
    <3>1. CASE Return(t)
      <4>1. app'[t].at = "idle"
        BY ZenonT(40), <1>0, <3>1, ReturnFields
      <4>2. block' = IF block = t THEN None ELSE block
        BY ZenonT(40), <3>1 DEF Return
      <4> QED BY ZenonT(40), <2>2, <4>1, <4>2 DEF LockInv
    <3>2. CASE WLAN_QAPI_LOCK(t)
      <4>1. block = None /\ block' = t
        BY ZenonT(40), <3>2 DEF WLAN_QAPI_LOCK
      <4>2. \A u \in Apps \ {t} : ~(app[u].op \in Locked /\ app[u].at \notin {"idle", "lock"})
        BY ZenonT(40), <1>0, <4>1 DEF LockInv
      <4> QED BY ZenonT(40), <2>2, <4>1, <4>2
    <3>3. CASE UNCHANGED block /\ app[t].at # "lock"
      BY ZenonT(40), <2>2, <2>4, <3>3 DEF LockInv
    <3>4. app[t].at = "lock" => WLAN_QAPI_LOCK(t)
      BY ZenonT(40), <1>3, ThreadFrom
    <3>5. Return(t) \/ WLAN_QAPI_LOCK(t) \/ UNCHANGED block
      BY ZenonT(40), <1>0, <1>3, ThreadTo
    <3> QED BY ZenonT(40), <3>1, <3>2, <3>3, <3>4, <3>5
  <2> QED BY ZenonT(40), <1>2, <2>1, <2>3, <2>5 DEF LockInv
<1>4. ASSUME NEW t \in Apps, NEW op \in Ops[t], NEW a \in Args(op), Call(t, op, a) PROVE LockInv'
  <2>1. UNCHANGED <<wfm, block>>
    BY ZenonT(40), <1>4 DEF Call
  <2>2. /\ \A u \in Apps \ {t} : app'[u] = app[u]
        /\ app'[t].op = op
        /\ app'[t].at = "lock" \/ op \notin Locked
    BY ZenonT(40), <1>0, <1>4, CallMoves
  <2> QED BY ZenonT(40), <1>2, <2>1, <2>2 DEF LockInv
<1>5. CASE Handler
  <2>1. UNCHANGED <<app, block>> /\ wfm'.evt = wfm.evt /\ (wfm'.at = "poll" => wmi_set_param_event)
    BY ZenonT(40), <1>0, <1>5, HandlerFrame
  <2>2. wmi_set_param_event => Evt.e = "param"
    BY ZenonT(40) DEF wmi_set_param_event, Dispatch, LockInv
  <2>3. Evt' = Evt
    BY ZenonT(40), <2>1 DEF Evt
  <2> QED BY ZenonT(40), <1>1, <2>1, <2>2, <2>3
<1>6. CASE WfmEvent \/ wmi_event_buf_free
  <2>1. UNCHANGED <<app, block>> /\ wfm'.at # "poll"
    BY <1>6 DEF WfmEvent, wmi_event_buf_free
  <2> QED BY ZenonT(40), <1>1, <2>1
<1>7. CASE RoamExpire \/ roam_handler \/ WfmCommand \/ FwStep \/ \E e \in {"disc", "peer"} : FwEvent(e)
  <2>1. UNCHANGED <<app, block, wfm>>
    BY ZenonT(40), <1>7 DEF RoamExpire, roam_handler, WfmCommand, FwStep, FwAnswer, FwEvent
  <2> QED BY ZenonT(40), <1>1, <1>2, <2>1
<1> QED BY ZenonT(40), <1>3, <1>4, <1>5, <1>6, <1>7, NextIs DEF Client

-----------------------------------------------------------------------------
(* Roaming.                                                                *)

\* While nothing was overtaken: a device that roams has work to do, and the work item
\* is idle unless the device roams or a stop is between its two steps; a start met a
\* running handler only then.
Stopping == \E t \in Apps : app[t].at = "cancel"

RoamInv ==
  \/ hist.overtaken
  \/ /\ c.roaming_started => roam.work # "idle"
     /\ roam.work # "idle" => c.roaming_started \/ Stopping
     /\ roam.work = "running_again" => Stopping

LEMMA RoamFollow ==
  ASSUME TypeOK, RoamInv, Grows, NEW ctx \in Contexts, FollowLink(ctx), UNCHANGED app,
         ctx.roaming_started = c.roaming_started
  PROVE  RoamInv'
<1>0. /\ roam \in [work : {"idle", "scheduled", "running", "running_again"}, time_out : Nat, cnt : 1 .. Period.runs, runs : Nat]
      /\ HistOK
  BY ZenonT(40) DEF TypeOK, RoamOK
<1>1. Stopping' = Stopping
  BY ZenonT(40) DEF Stopping
<1>2. CASE hist.overtaken
  BY ZenonT(40), <1>2 DEF RoamInv, Grows
<1>3. CASE ~hist.overtaken /\ c' = [ctx EXCEPT !.roaming_started = TRUE] /\ roam' = StartedRoam
           /\ ~ctx.roaming_started
  <2>1. c'.roaming_started = TRUE
    BY ZenonT(40), <1>3 DEF Contexts
  <2>2. roam'.work = IF roam.work = "running" THEN "running_again" ELSE "scheduled"
    BY ZenonT(40), <1>0, <1>3 DEF StartedRoam
  <2>3. roam.work = "running" => Stopping
    BY ZenonT(40), <1>3 DEF RoamInv
  <2> QED BY ZenonT(40), <1>1, <2>1, <2>2, <2>3 DEF RoamInv
<1>4. CASE ~hist.overtaken /\ c' = [ctx EXCEPT !.roaming_started = FALSE] /\ roam' = Cancelled
           /\ hist' = [hist EXCEPT !.overtaken = hist.overtaken \/ Running]
  <2>1. c'.roaming_started = FALSE
    BY ZenonT(40), <1>4 DEF Contexts
  <2>2. hist'.overtaken = (hist.overtaken \/ Running)
    BY ZenonT(40), <1>0, <1>4 DEF HistOK
  <2>3. CASE Running
    BY ZenonT(40), <2>2, <2>3 DEF RoamInv
  <2>4. CASE ~Running
    <3>1. roam'.work = "idle"
      BY ZenonT(40), <1>0, <1>4, <2>4 DEF Cancelled, Running
    <3> QED BY ZenonT(40), <2>1, <3>1 DEF RoamInv
  <2> QED BY ZenonT(40), <2>3, <2>4
<1>5. CASE ~hist.overtaken /\ c' = ctx /\ UNCHANGED <<roam, hist>>
  BY ZenonT(40), <1>1, <1>5 DEF RoamInv
<1> QED BY ZenonT(40), <1>2, <1>3, <1>4, <1>5 DEF FollowLink, RoamingStarts

LEMMA RoamNext ==
  ASSUME QueueInv, RoamInv, Next
  PROVE  RoamInv'
<1>0. /\ TypeOK /\ AppOK /\ HistOK /\ c \in Contexts /\ WfmOK
      /\ roam \in [work : {"idle", "scheduled", "running", "running_again"}, time_out : Nat, cnt : 1 .. Period.runs, runs : Nat]
  BY ZenonT(40) DEF QueueInv, TypeOK, RoamOK, CtxOK
<1>1. Grows
  BY ZenonT(40), <1>0, HistGrows
<1>2. CASE hist.overtaken
  BY ZenonT(40), <1>1, <1>2 DEF RoamInv, Grows
<1>3. ASSUME UNCHANGED roam, c'.roaming_started = c.roaming_started, Stopping => Stopping' PROVE RoamInv'
  BY ZenonT(40), <1>1, <1>3 DEF RoamInv, Grows
<1>4. ASSUME NEW t \in Apps, AppStep(t), ~hist.overtaken PROVE RoamInv'
  <2>1. /\ \A u \in Apps \ {t} : app'[u] = app[u]
        /\ app'[t].at = "cancel" => wlan_drv_roaming_stop(t)
    BY ZenonT(40), <1>0, <1>4, ThreadMoves
  <2>2. CASE CancelRoaming(t)
    <3>1. roam' = Cancelled /\ UNCHANGED c /\ hist' = [hist EXCEPT !.overtaken = hist.overtaken \/ Running \/ c.roaming_started]
      BY ZenonT(40), <2>2 DEF CancelRoaming
    <3>2. Running \/ c.roaming_started => hist'.overtaken
      BY ZenonT(40), <1>0, <3>1 DEF HistOK
    <3>3. CASE ~Running /\ ~c.roaming_started
      <4>1. roam'.work = "idle"
        BY ZenonT(40), <1>0, <3>1, <3>3 DEF Cancelled, Running
      <4> QED BY ZenonT(40), <3>1, <3>3, <4>1 DEF RoamInv
    <3> QED BY ZenonT(40), <3>2, <3>3 DEF RoamInv
  <2>3. CASE ~CancelRoaming(t)
    <3>1. UNCHANGED roam
      BY ZenonT(60), <1>4, <2>3 DEF AppStep, WLAN_QAPI_LOCK, wmi_set_passphrase, qapi_WLAN_Disconnect,
         wmi_connect, wmi_disconnect, wmi_start_scan, wlan_get_scan_results, SendCommand, StoreParamId,
         qurt_signal_wait, k_event_clear, FinishCall, wlan_drv_roaming_stop,
         ClearProfile, ClearSettings, SetProfile
    <3>2. app[t].at # "cancel"
      BY ZenonT(40), <1>4, <2>3, ThreadFrom
    <3>3. Stopping => Stopping'
      BY ZenonT(40), <2>1, <3>2 DEF Stopping
    <3>4. CASE ~wlan_drv_roaming_stop(t)
      <4>1. c'.roaming_started = c.roaming_started
        BY ZenonT(40), <1>0, <1>4, <3>4, ThreadCtx
      <4> QED BY ZenonT(40), <1>3, <3>1, <3>3, <4>1
    <3>5. CASE wlan_drv_roaming_stop(t) /\ ~(c.opmode = "sta" /\ c.roaming_started)
      <4>1. UNCHANGED c
        BY ZenonT(40), <3>5 DEF wlan_drv_roaming_stop
      <4> QED BY ZenonT(40), <1>3, <3>1, <3>3, <4>1
    <3>6. CASE wlan_drv_roaming_stop(t) /\ c.opmode = "sta" /\ c.roaming_started
      <4>1. c' = [c EXCEPT !.roaming_started = FALSE] /\ Goto(t, "cancel")
        BY ZenonT(40), <3>6 DEF wlan_drv_roaming_stop
      <4>2. c'.roaming_started = FALSE
        BY ZenonT(40), <1>0, <4>1 DEF Contexts
      <4>3. app'[t].at = "cancel"
        BY ZenonT(40), <1>0, <4>1, GotoFields DEF Labels
      <4>4. Stopping'
        BY ZenonT(40), <4>3 DEF Stopping
      <4> QED BY ZenonT(40), <4>2, <4>4 DEF RoamInv
    <3> QED BY ZenonT(40), <3>4, <3>5, <3>6
  <2> QED BY ZenonT(40), <2>2, <2>3
<1>5. ASSUME NEW t \in Apps, NEW op \in Ops[t], NEW a \in Args(op), Call(t, op, a) PROVE RoamInv'
  <2>1. UNCHANGED <<c, roam>>
    BY ZenonT(40), <1>5 DEF Call
  <2>2. (\A u \in Apps \ {t} : app'[u] = app[u]) /\ app[t].at # "cancel"
    BY ZenonT(40), <1>0, <1>5, CallMoves
  <2>3. Stopping => Stopping'
    BY ZenonT(40), <2>2 DEF Stopping
  <2> QED BY ZenonT(40), <1>3, <2>1, <2>3
<1>6. CASE RoamExpire /\ ~hist.overtaken
  <2>1. UNCHANGED <<c, app>> /\ roam.work = "scheduled" /\ roam' = [roam EXCEPT !.work = "running", !.runs = roam.runs + 1]
    BY ZenonT(40), <1>6 DEF RoamExpire
  <2>2. \A n : roam' = [roam EXCEPT !.work = "running", !.runs = n] => roam'.work = "running"
    BY ZenonT(40), <1>0
  <2>3. roam'.work = "running"
    BY ZenonT(40), <2>1, <2>2
  <2>4. Stopping' = Stopping
    BY ZenonT(40), <2>1 DEF Stopping
  <2> QED BY ZenonT(40), <1>6, <2>1, <2>3, <2>4 DEF RoamInv
<1>7. CASE roam_handler /\ ~hist.overtaken
  <2> DEFINE x == IF roam.cnt >= Period.runs THEN NextPeriod(roam.time_out) ELSE roam.time_out
             n == (IF roam.cnt >= Period.runs THEN 0 ELSE roam.cnt) + 1
  <2>1. UNCHANGED app /\ Running
    BY ZenonT(40), <1>7 DEF roam_handler
  <2>2. Stopping' = Stopping
    BY ZenonT(40), <2>1 DEF Stopping
  <2>3. c.roaming_started \/ Stopping
    BY ZenonT(40), <1>7, <2>1 DEF RoamInv, Running
  <2>4. \A k : [roam EXCEPT !.time_out = x, !.cnt = k].work = roam.work
    BY ZenonT(40), <1>0
  <2>5. \/ /\ c' = [c EXCEPT !.connect_in_progress = TRUE]
           /\ roam' = [[roam EXCEPT !.time_out = x, !.cnt = n] EXCEPT !.work = "scheduled"]
        \/ /\ c' = [c EXCEPT !.roaming_started = FALSE]
           /\ roam' = [[roam EXCEPT !.time_out = x, !.cnt = n]
                EXCEPT !.work = IF [roam EXCEPT !.time_out = x, !.cnt = n].work = "running"
                                THEN "idle" ELSE "scheduled"]
    BY ZenonT(40), <1>7 DEF roam_handler
  <2>6. \A r, w : r = [[roam EXCEPT !.time_out = x, !.cnt = n] EXCEPT !.work = w] => r.work = w
    <3> HIDE DEF x, n
    <3> QED BY ZenonT(40), <1>0
  <2> HIDE DEF x, n
  <2>7. CASE /\ c' = [c EXCEPT !.connect_in_progress = TRUE]
             /\ roam' = [[roam EXCEPT !.time_out = x, !.cnt = n] EXCEPT !.work = "scheduled"]
    <3>1. c'.roaming_started = c.roaming_started
      BY ZenonT(40), <1>0, <2>7 DEF Contexts
    <3>2. roam'.work = "scheduled"
      BY ZenonT(40), <2>6, <2>7
    <3> QED BY ZenonT(40), <2>2, <2>3, <3>1, <3>2 DEF RoamInv
  <2>8. CASE /\ c' = [c EXCEPT !.roaming_started = FALSE]
             /\ roam' = [[roam EXCEPT !.time_out = x, !.cnt = n]
                EXCEPT !.work = IF [roam EXCEPT !.time_out = x, !.cnt = n].work = "running"
                                THEN "idle" ELSE "scheduled"]
    <3>1. c'.roaming_started = FALSE
      BY ZenonT(40), <1>0, <2>8 DEF Contexts
    <3>2. roam'.work = IF roam.work = "running" THEN "idle" ELSE "scheduled"
      BY ZenonT(40), <2>4, <2>6, <2>8
    <3>3. roam.work # "running" => Stopping
      BY ZenonT(40), <1>7, <2>1 DEF RoamInv, Running
    <3> QED BY ZenonT(40), <2>2, <3>1, <3>2, <3>3 DEF RoamInv
  <2> QED BY ZenonT(40), <2>5, <2>7, <2>8
<1>8. CASE wmi_join_comp_event \/ wmi_disconnect_event
  <2>1. wfm.at # "recv" /\ UNCHANGED app
    BY ZenonT(40), <1>8 DEF wmi_join_comp_event, wmi_disconnect_event, Dispatch
  <2>2. Evt.ok \in BOOLEAN
    BY ZenonT(40), <1>0, <2>1, EvtIs
  <2>3. \A b \in BOOLEAN : \A x :
           \/ x = [c EXCEPT !.connected = b, !.connect_in_progress = FALSE]
           \/ x = [c EXCEPT !.connected = FALSE, !.disconnect_in_progress = FALSE]
           => x \in Contexts /\ x.roaming_started = c.roaming_started
    BY ZenonT(40), <1>0 DEF Contexts
  <2>4. \E x : /\ \/ x = [c EXCEPT !.connected = Evt.ok, !.connect_in_progress = FALSE]
                  \/ x = [c EXCEPT !.connected = FALSE, !.disconnect_in_progress = FALSE]
               /\ (c' = x /\ UNCHANGED roam) \/ FollowLink(x)
    BY ZenonT(40), <1>8 DEF wmi_join_comp_event, wmi_disconnect_event
  <2>5. PICK x \in Contexts : x.roaming_started = c.roaming_started /\ ((c' = x /\ UNCHANGED roam) \/ FollowLink(x))
    BY ZenonT(40), <2>2, <2>3, <2>4
  <2>6. Stopping' = Stopping
    BY ZenonT(40), <2>1 DEF Stopping
  <2>7. CASE c' = x /\ UNCHANGED roam
    BY ZenonT(40), <1>3, <2>5, <2>6, <2>7
  <2>8. CASE FollowLink(x)
    BY ZenonT(40), <1>0, <1>1, <2>1, <2>5, <2>8, RoamFollow
  <2> QED BY ZenonT(40), <2>5, <2>7, <2>8
<1>9. CASE \/ Handler /\ ~wmi_join_comp_event /\ ~wmi_disconnect_event
           \/ WfmCommand \/ WfmEvent \/ wmi_event_buf_free \/ FwStep \/ \E e \in {"disc", "peer"} : FwEvent(e)
  <2>1. UNCHANGED <<roam, app>>
    BY ZenonT(60), <1>9 DEF Handler, wmi_report_event, wmi_enabled_event, wmi_scan_comp_event,
       WakeScanResults, wmi_peer_event, WakeDisconnect, EndDisconnect, wmi_set_param_event,
       WfmCommand, WfmEvent, wmi_event_buf_free, FwStep, FwAnswer, FwEvent
  <2>2. \/ UNCHANGED c
        \/ \E b : c' = [c EXCEPT !.wlanEnabled = b]
        \/ \E x : c' = [c EXCEPT !.scan_in_progress = FALSE, !.wait_scan_comp_evt = FALSE, !.scan_out = x]
        \/ c' = [c EXCEPT !.disconnect_in_progress = FALSE]
    BY ZenonT(60), <1>9 DEF Handler, wmi_report_event, wmi_enabled_event, wmi_scan_comp_event,
       WakeScanResults, wmi_peer_event, WakeDisconnect, EndDisconnect, wmi_set_param_event,
       WfmCommand, WfmEvent, wmi_event_buf_free, FwStep, FwAnswer, FwEvent
  <2>3. c'.roaming_started = c.roaming_started
    BY ZenonT(40), <1>0, <2>2 DEF Contexts
  <2>4. Stopping' = Stopping
    BY ZenonT(40), <2>1 DEF Stopping
  <2> QED BY ZenonT(40), <1>3, <2>1, <2>3, <2>4
<1> QED BY ZenonT(40), <1>2, <1>4, <1>5, <1>6, <1>7, <1>8, <1>9, NextIs DEF Client

-----------------------------------------------------------------------------
(* Requests: a command that is answered, and then its answer, on their way. *)

\* A request is a command that a thread waits for, or the scan that a scan command
\* starts (comp); it begins as a command and ends as an event.
Awaited == {"on", "off", "scan", "plain", "param"}
Kinds == Awaited \cup {"comp"}
Source(x) == IF x = "comp" THEN "scan" ELSE x
Final(x) == IF x = "comp" THEN "scan_comp" ELSE IF x = "scan" THEN "scan_start" ELSE x

\* Where the requests of kind x are: on the way through the pipe and in the hands of
\* the WMI task, or in the hands of the firmware.
Carries(m, x) == IF m.kind = "cmd" THEN m.cmd = Source(x) ELSE m.was.e = Final(x)
Tag(m) == IF m.kind = "cmd" THEN <<m.by, m.n>> ELSE <<m.was.by, m.was.n>>
Handling == wfm.at \in {"dispatch", "poll"}
Sending(x) == {i \in 0 .. Len(pipe) : (i = 0 => Handling) /\ Carries(Msg(i), x)}
Owes(o, x) == o.e = Final(x) \/ (x = "comp" /\ o.e = "scan_start")
Owing(x) == {o \in fw.owes : Owes(o, x)}

\* There is no request of kind x; there is at most one, the one that g names.
Nothing(x) == Sending(x) = {} /\ Owing(x) = {}
Sole(x, g) ==
  /\ \A i \in Sending(x) : Tag(Msg(i)) = g
  /\ \A o \in Owing(x) : <<o.m.by, o.m.n>> = g
  /\ \A i, j \in Sending(x) : i = j
  /\ \A o, p \in Owing(x) : o = p
  /\ Sending(x) = {} \/ Owing(x) = {}

\* What a step does that sends no request of kind x: it adds none.
Calm(x) ==
  /\ Nothing(x) => Nothing(x)'
  /\ \A g : Sole(x, g) => Sole(x, g)'

LEMMA RequestIs ==
  ASSUME NEW x \in Kinds
  PROVE  /\ \A o \in Owed : Owes(o, x) => o.m.cmd = Source(x)
         /\ \A m \in Queued : Carries(m, x) => m.was.e = Final(x) /\ m.was.cmd = Source(x)
         /\ \A m \in Commands : Carries(m, x) => m.cmd = Source(x)
         /\ Source(x) \notin {"pass", "connect", "disconnect", "commit"}
<1>1. ASSUME NEW e, NEW y, Fits(e, y), e = Final(x) \/ (x = "comp" /\ e = "scan_start") PROVE y = Source(x)
  BY ZenonT(40), <1>1 DEF Fits, Source, Final, Kinds, Awaited
<1>2. ASSUME NEW o \in Owed, Owes(o, x) PROVE o.m.cmd = Source(x)
  <2>1. Fits(o.e, o.m.cmd)
    BY ZenonT(40) DEF Owed
  <2>2. o.e = Final(x) \/ (x = "comp" /\ o.e = "scan_start")
    BY ZenonT(40), <1>2 DEF Owes
  <2> QED BY ZenonT(40), <1>1, <2>1, <2>2
<1>3. ASSUME NEW m \in Queued, Carries(m, x) PROVE m.was.e = Final(x) /\ m.was.cmd = Source(x)
  <2>1. m.kind = "evt" /\ m.was \in Payloads
    BY ZenonT(40) DEF Queued
  <2>2. Fits(m.was.e, m.was.cmd)
    BY ZenonT(40), <2>1 DEF Payloads
  <2>3. m.was.e = Final(x)
    BY ZenonT(40), <1>3, <2>1 DEF Carries
  <2>4. m.was.cmd = Source(x)
    BY ZenonT(40), <1>1, <2>2, <2>3
  <2> QED BY ZenonT(40), <2>3, <2>4
<1>4. \A m \in Commands : Carries(m, x) => m.cmd = Source(x)
  BY ZenonT(40) DEF Commands, Carries
<1>5. Source(x) \notin {"pass", "connect", "disconnect", "commit"}
  BY ZenonT(40) DEF Source, Kinds, Awaited
<1> QED BY ZenonT(40), <1>2, <1>3, <1>4, <1>5

\* The requests stay where they are, or move up one place, or leave.
LEMMA FlowShift ==
  ASSUME NEW x, NEW d \in {0, 1}, Len(pipe) \in Nat, Len(pipe') \in Nat,
         \A i \in Sending(x)' : i + d \in Sending(x) /\ Msg(i)' = Msg(i + d),
         \A o \in Owing(x)' : o \in Owing(x)
  PROVE  Calm(x)
<1>1. \A i \in Sending(x)' : i \in Nat
  BY DEF Sending
<1>2. Nothing(x) => Nothing(x)'
  BY ZenonT(40) DEF Nothing
<1>3. ASSUME NEW g, Sole(x, g) PROVE Sole(x, g)'
  <2>1. \A i \in Sending(x)' : Tag(Msg(i)') = g
    BY ZenonT(40), <1>3 DEF Sole
  <2>2. \A o \in Owing(x)' : <<o.m.by, o.m.n>> = g
    BY ZenonT(40), <1>3 DEF Sole
  <2>3. \A i, j \in Sending(x)' : i = j
    BY <1>1, <1>3 DEF Sole
  <2>4. \A o, p \in Owing(x)' : o = p
    BY ZenonT(40), <1>3 DEF Sole
  <2>5. Sending(x)' = {} \/ Owing(x)' = {}
    BY ZenonT(40), <1>3 DEF Sole
  <2> QED BY ZenonT(40), <2>1, <2>2, <2>3, <2>4, <2>5 DEF Sole, Tag
<1> QED BY ZenonT(40), <1>2, <1>3 DEF Calm

LEMMA FlowKept ==
  ASSUME NEW x, PipeOK, PipeOK', Extended, wfm'.evt = wfm.evt, fw'.owes = fw.owes,
         \A i \in Len(pipe) + 1 .. Len(pipe') : ~Carries(pipe'[i], x),
         Handling' /\ Carries(wfm.evt, x) => Handling
  PROVE  Calm(x)
<1>1. /\ Len(pipe) \in Nat /\ Len(pipe') \in Nat /\ Len(pipe) <= Len(pipe')
      /\ \A i \in 0 .. Len(pipe) : Msg(i)' = Msg(i)
      /\ \A i \in Len(pipe) + 1 .. Len(pipe') : Msg(i)' = pipe'[i] /\ i # 0
  BY ZenonT(40), KeptMsg
<1>2. Msg(0) = wfm.evt
  BY ZenonT(40) DEF Msg
<1>3. ASSUME NEW i \in Sending(x)' PROVE i + 0 \in Sending(x) /\ Msg(i)' = Msg(i + 0)
  <2>1. i \in 0 .. Len(pipe') /\ (i = 0 => Handling') /\ Carries(Msg(i)', x)
    BY ZenonT(40) DEF Sending, Carries, Source, Final
  <2>2. i <= Len(pipe)
    BY <1>1, <2>1
  <2>3. i \in 0 .. Len(pipe) /\ Msg(i)' = Msg(i) /\ i + 0 = i
    BY <1>1, <2>1, <2>2
  <2>4. i = 0 => Handling
    BY ZenonT(40), <1>2, <2>1, <2>3
  <2> QED BY ZenonT(40), <2>1, <2>3, <2>4 DEF Sending
<1>4. \A o \in Owing(x)' : o \in Owing(x)
  BY ZenonT(40) DEF Owing, Owes, Final
<1> QED BY ZenonT(40), <1>1, <1>3, <1>4, FlowShift

\* The WMI task takes a message: a command goes to the firmware.
LEMMA FlowTaken ==
  ASSUME QueueInv, QueueInv', NEW x \in Kinds, WfmCommand \/ WfmEvent
  PROVE  Calm(x)
<1>0. FwOK /\ FwOK'
  BY ZenonT(40) DEF QueueInv, TypeOK
<1>1. /\ Len(pipe) \in Nat /\ Len(pipe) >= 1 /\ Len(pipe') = Len(pipe) - 1
      /\ \A i \in 1 .. Len(pipe') : Msg(i)' = Msg(i + 1)
      /\ WfmEvent => Msg(0)' = Msg(1)
      /\ WfmCommand => wfm'.at = "recv" /\ Msg(1) \in Commands /\ Msg(1) = Head(pipe)
  BY ZenonT(40), TakenMsg
<1>2. ASSUME NEW i \in Sending(x)' PROVE i + 1 \in Sending(x) /\ Msg(i)' = Msg(i + 1) /\ (WfmCommand => i # 0)
  <2>1. i \in 0 .. Len(pipe') /\ (i = 0 => Handling') /\ Carries(Msg(i)', x)
    BY ZenonT(40) DEF Sending, Carries, Source, Final
  <2>2. WfmCommand => i # 0
    BY ZenonT(40), <1>1, <2>1 DEF Handling
  <2>3. Msg(i)' = Msg(i + 1)
    BY <1>1, <2>1, <2>2
  <2>4. i + 1 \in 0 .. Len(pipe) /\ i + 1 # 0
    BY <1>1, <2>1
  <2> QED BY ZenonT(40), <2>1, <2>2, <2>3, <2>4 DEF Sending
<1>3. CASE WfmEvent
  <2>1. UNCHANGED fw
    BY ZenonT(40), <1>3 DEF WfmEvent
  <2>2. \A o \in Owing(x)' : o \in Owing(x)
    BY ZenonT(40), <2>1 DEF Owing, Owes, Final
  <2>3. Len(pipe') \in Nat
    BY <1>1
  <2> QED BY ZenonT(40), <1>1, <1>2, <2>2, <2>3, FlowShift
<1>4. CASE WfmCommand
  <2> DEFINE m == Msg(1)
  <2>1. PICK e : fw'.owes \subseteq fw.owes \cup {[e |-> e, m |-> m]}
    <3>1. \A W : fw' = [fw EXCEPT !.owes = W] => fw'.owes = W
      BY ZenonT(40), <1>0 DEF FwOK
    <3>2. \E W : /\ fw' = [fw EXCEPT !.owes = W]
                 /\ \/ W = fw.owes
                    \/ \E e : W = fw.owes \cup {[e |-> e, m |-> m]}
                    \/ \E e : W = {o \in fw.owes : o.m.cmd # "connect"} \cup {[e |-> e, m |-> m]}
      BY ZenonT(60), <1>1, <1>4 DEF WfmCommand
    <3>3. \E W : /\ fw'.owes = W
                 /\ \/ W = fw.owes
                    \/ \E e : W = fw.owes \cup {[e |-> e, m |-> m]}
                    \/ \E e : W = {o \in fw.owes : o.m.cmd # "connect"} \cup {[e |-> e, m |-> m]}
      BY ZenonT(40), <3>1, <3>2
    <3> HIDE DEF m
    <3> QED BY ZenonT(40), <3>3
  <2> DEFINE w == [e |-> e, m |-> m]
  <2>2. \A o \in Owing(x)' : o \in Owing(x) \/ o = w
    BY ZenonT(40), <2>1 DEF Owing, Owes, Final
  <2>3. \A o \in Owing(x)' : o.m.cmd = Source(x)
    BY ZenonT(40), <1>0, RequestIs DEF Owing, FwOK, Owes, Final
  <2>4. w.m = m /\ m \in Commands /\ m.kind = "cmd"
    BY ZenonT(40), <1>1, <1>4 DEF Commands
  <2> HIDE DEF w, m
  <2>5. CASE w \notin Owing(x)'
    <3>1. \A o \in Owing(x)' : o \in Owing(x)
      BY ZenonT(40), <2>2, <2>5
    <3>2. Len(pipe') \in Nat
      BY <1>1
    <3> QED BY ZenonT(40), <1>1, <1>2, <3>1, <3>2, FlowShift
  <2>6. CASE w \in Owing(x)'
    <3>1. m.cmd = Source(x) /\ Carries(Msg(1), x)
      BY ZenonT(40), <2>3, <2>4, <2>6 DEF Carries, m
    <3>2. 1 \in Sending(x)
      BY <1>1, <3>1 DEF Sending
    <3>3. ~Nothing(x)
      BY ZenonT(40), <3>2 DEF Nothing
    <3>4. ASSUME NEW g, Sole(x, g) PROVE Sole(x, g)'
      <4>1. Owing(x) = {} /\ \A i \in Sending(x) : i = 1
        BY ZenonT(40), <3>2, <3>4 DEF Sole
      <4>2. Tag(Msg(1)) = g
        BY ZenonT(40), <3>2, <3>4 DEF Sole
      <4>3. Sending(x)' = {}
        <5>1. SUFFICES ASSUME NEW i \in Sending(x)' PROVE FALSE
          BY ZenonT(40)
        <5>2. i + 1 = 1 /\ i # 0 /\ i \in Nat
          BY <1>1, <1>2, <1>4, <4>1 DEF Sending
        <5> QED BY <5>2
      <4>4. \A o \in Owing(x)' : o = w
        BY ZenonT(40), <2>2, <4>1
      <4>5. <<w.m.by, w.m.n>> = g
        BY ZenonT(40), <2>4, <4>2 DEF Tag, m
      <4> QED BY ZenonT(40), <4>3, <4>4, <4>5 DEF Sole
    <3> QED BY ZenonT(40), <3>3, <3>4 DEF Calm
  <2> QED BY ZenonT(40), <2>5, <2>6
<1> QED BY ZenonT(40), <1>3, <1>4

\* The firmware answers: the request goes back through the pipe, or is lost.
LEMMA FlowAnswered ==
  ASSUME QueueInv, NEW x \in Kinds, NEW o \in fw.owes, NEW ok \in BOOLEAN, FwAnswer(o, ok)
  PROVE  Calm(x)
<1>0. FwOK /\ o \in Owed
  BY ZenonT(40) DEF QueueInv, TypeOK, FwOK
<1> DEFINE p == Payload(o.e, o.m, ok)
           w == [e |-> "scan_comp", m |-> o.m]
<1>1. p \in Payloads /\ wmi_event_relay(p) /\ UNCHANGED wfm
  BY ZenonT(40), <1>0, PayloadIs DEF FwAnswer
<1>2. p.e = o.e /\ p.by = o.m.by /\ p.n = o.m.n
  BY ZenonT(40) DEF Payload
<1> HIDE DEF p
<1>3. /\ Len(pipe) \in Nat /\ Len(pipe') \in Nat
      /\ \A i \in 0 .. Len(pipe) : Msg(i)' = Msg(i)
      /\ \/ pipe' = pipe
         \/ /\ Len(pipe') = Len(pipe) + 1
            /\ \A i : i = Len(pipe) + 1 => Msg(i)'.kind = "evt" /\ Msg(i)'.was = p
  BY ZenonT(40), <1>1, SentMsg
<1>4. fw'.owes = (fw.owes \ {o}) \cup (IF o.e = "scan_start" THEN {w} ELSE {})
  <2>1. \A W, b : fw' = [fw EXCEPT !.owes = W, !.link = b] => fw'.owes = W
    BY ZenonT(40), <1>0 DEF FwOK
  <2> QED BY ZenonT(40), <2>1 DEF FwAnswer
<1>5. w.e = "scan_comp" /\ w.m = o.m
  BY ZenonT(40)
<1> HIDE DEF w
<1>6. PICK n \in Nat : n = Len(pipe) + 1
  BY <1>3
<1>7. \A i \in Sending(x)' : \/ i \in Sending(x) /\ i + 0 = i /\ Msg(i)' = Msg(i)
                             \/ i = n /\ o.e = Final(x) /\ Msg(i)'.kind = "evt" /\ Msg(i)'.was = p
  <2>1. SUFFICES ASSUME NEW i \in Sending(x)'
                 PROVE  \/ i \in Sending(x) /\ i + 0 = i /\ Msg(i)' = Msg(i)
                        \/ i = n /\ o.e = Final(x) /\ Msg(i)'.kind = "evt" /\ Msg(i)'.was = p
    BY ZenonT(40)
  <2>2. i \in 0 .. Len(pipe') /\ (i = 0 => Handling') /\ Carries(Msg(i)', x) /\ Handling' = Handling
    BY ZenonT(40), <1>1 DEF Sending, Carries, Source, Final, Handling
  <2>3. CASE i \in 0 .. Len(pipe)
    BY <1>3, <2>2, <2>3 DEF Sending
  <2>4. CASE i \notin 0 .. Len(pipe)
    <3>1. i = n /\ Msg(i)'.kind = "evt" /\ Msg(i)'.was = p
      BY <1>3, <1>6, <2>2, <2>4
    <3> QED BY ZenonT(40), <1>2, <2>2, <3>1 DEF Carries
  <2> QED BY ZenonT(40), <2>3, <2>4
<1>8. \A q \in Owing(x)' : (q \in Owing(x) /\ q # o) \/ (x = "comp" /\ o.e = "scan_start" /\ q = w)
  <2>1. Owes(w, x) => x = "comp"
    BY ZenonT(40), <1>5 DEF Owes, Final, Kinds, Awaited
  <2> QED BY ZenonT(40), <1>4, <2>1 DEF Owing, Owes, Final
<1>9. CASE ~Owes(o, x)
  <2>1. o.e # Final(x) /\ ~(x = "comp" /\ o.e = "scan_start")
    BY ZenonT(40), <1>9 DEF Owes
  <2>2. \A i \in Sending(x)' : i + 0 \in Sending(x) /\ Msg(i)' = Msg(i + 0)
    BY ZenonT(40), <1>7, <2>1
  <2>3. \A q \in Owing(x)' : q \in Owing(x)
    BY ZenonT(40), <1>8, <2>1
  <2> QED BY ZenonT(40), <1>3, <2>2, <2>3, FlowShift
<1>10. CASE Owes(o, x)
  <2>1. o \in Owing(x) /\ ~Nothing(x)
    BY ZenonT(40), <1>10 DEF Owing, Nothing
  <2>2. ASSUME NEW g, Sole(x, g) PROVE Sole(x, g)'
    <3>1. Sending(x) = {} /\ (\A q \in Owing(x) : q = o) /\ <<o.m.by, o.m.n>> = g
      BY ZenonT(40), <2>1, <2>2 DEF Sole
    <3>2. \A i \in Sending(x)' : i = n /\ o.e = Final(x) /\ Msg(i)'.kind = "evt" /\ Msg(i)'.was = p
      BY ZenonT(40), <1>7, <3>1
    <3>3. \A q \in Owing(x)' : x = "comp" /\ o.e = "scan_start" /\ q = w
      BY ZenonT(40), <1>8, <3>1
    <3>4. \A i \in Sending(x)' : Tag(Msg(i)') = g
      BY ZenonT(40), <1>2, <3>1, <3>2 DEF Tag
    <3>5. \A q \in Owing(x)' : <<q.m.by, q.m.n>> = g
      BY ZenonT(40), <1>5, <3>1, <3>3
    <3>6. Sending(x)' = {} \/ Owing(x)' = {}
      BY ZenonT(40), <3>2, <3>3 DEF Final
    <3>7. (\A i, j \in Sending(x)' : i = j) /\ \A q, r \in Owing(x)' : q = r
      BY ZenonT(40), <3>2, <3>3
    <3> QED BY ZenonT(40), <3>4, <3>5, <3>6, <3>7 DEF Sole, Tag
  <2> QED BY ZenonT(40), <2>1, <2>2 DEF Calm
<1> QED BY ZenonT(40), <1>9, <1>10

LEMMA FlowEvent ==
  ASSUME QueueInv, NEW x \in Kinds, NEW e \in {"disc", "peer"}, FwEvent(e)
  PROVE  Calm(x)
<1>0. FwOK
  BY ZenonT(40) DEF QueueInv, TypeOK
<1> DEFINE p == Payload(e, Unsolicited, FALSE)
<1>1. p \in Payloads /\ wmi_event_relay(p) /\ UNCHANGED wfm
  BY ZenonT(40), <1>0, PayloadIs DEF FwEvent
<1>2. p.e = e
  BY ZenonT(40) DEF Payload
<1> HIDE DEF p
<1>3. /\ Len(pipe) \in Nat /\ Len(pipe') \in Nat
      /\ \A i \in 0 .. Len(pipe) : Msg(i)' = Msg(i)
      /\ \/ pipe' = pipe
         \/ /\ Len(pipe') = Len(pipe) + 1
            /\ \A i : i = Len(pipe) + 1 => Msg(i)'.kind = "evt" /\ Msg(i)'.was = p
  BY ZenonT(40), <1>1, SentMsg
<1>4. fw'.owes = fw.owes
  <2>1. \A k, b : fw' = [fw EXCEPT !.link = b, !.losses = k] => fw'.owes = fw.owes
    BY ZenonT(40), <1>0 DEF FwOK
  <2> QED BY ZenonT(40), <2>1 DEF FwEvent
<1>5. e # Final(x)
  BY ZenonT(40) DEF Final, Kinds, Awaited
<1>6. ASSUME NEW i \in Sending(x)' PROVE i + 0 \in Sending(x) /\ Msg(i)' = Msg(i + 0)
  <2>1. i \in 0 .. Len(pipe') /\ (i = 0 => Handling') /\ Carries(Msg(i)', x) /\ Handling' = Handling
    BY ZenonT(40), <1>1 DEF Sending, Carries, Source, Final, Handling
  <2>2. i \in 0 .. Len(pipe)
    <3>1. SUFFICES ASSUME i \notin 0 .. Len(pipe) PROVE FALSE
      BY ZenonT(40)
    <3>2. Msg(i)'.kind = "evt" /\ Msg(i)'.was = p
      BY <1>3, <2>1, <3>1
    <3> QED BY ZenonT(40), <1>2, <1>5, <2>1, <3>2 DEF Carries
  <2>3. i + 0 = i /\ Msg(i)' = Msg(i)
    BY <1>3, <2>2
  <2> QED BY ZenonT(40), <2>1, <2>2, <2>3 DEF Sending
<1>7. \A o \in Owing(x)' : o \in Owing(x)
  BY ZenonT(40), <1>4 DEF Owing, Owes, Final
<1> QED BY ZenonT(40), <1>3, <1>6, <1>7, FlowShift


\* A thread sends a request, the only one of its kind.
LEMMA FlowSent ==
  ASSUME QueueInv, NEW x \in Kinds, NEW t \in Apps, SendCommand(t), app[t].cmd = Source(x), Nothing(x),
         NEW g, g = <<t, app[t].n>>
  PROVE  Sole(x, g)'
<1>0. PipeOK /\ AppOK /\ Len(pipe) \in Nat /\ app[t] \in Threads
  BY DEF QueueInv, TypeOK, PipeOK, AppOK
<1> DEFINE m == Command(app[t].cmd, t, app[t].n, app[t].arg)
<1>1. app[t].cmd # "commit" /\ Source(x) \in Sent
  BY ZenonT(40), RequestIs DEF Source, Kinds, Awaited, Sent
<1>2. qurt_pipe_send(m) /\ UNCHANGED <<wfm, fw>>
  BY ZenonT(40), <1>1 DEF SendCommand, wmi_cmd_send
<1>3. m \in Messages /\ m.kind = "cmd" /\ m.by = t /\ m.n = app[t].n
  <2>1. t \in By /\ app[t].n \in Nat /\ app[t].arg \in Values
    BY ZenonT(40), <1>0 DEF By, Threads
  <2> QED BY ZenonT(40), <1>1, <2>1 DEF Command, Commands, Messages
<1> HIDE DEF m
<1>4. /\ PipeFull => pipe' = pipe
      /\ ~PipeFull => Len(pipe') = Len(pipe) + 1 /\ pipe'[Len(pipe) + 1] = m
      /\ \A i \in 1 .. Len(pipe) : pipe'[i] = pipe[i]
  BY ZenonT(40), <1>0, <1>2, <1>3, SendIs
<1>5. PICK n \in Nat : n = Len(pipe) + 1
  BY <1>0
<1>6. ASSUME NEW i \in Sending(x)' PROVE i = n /\ Msg(i)' = m
  <2>1. i \in 0 .. Len(pipe') /\ (i = 0 => Handling') /\ Carries(Msg(i)', x) /\ Handling' = Handling
    BY ZenonT(40), <1>2 DEF Sending, Carries, Source, Final, Handling
  <2>2. i \notin 0 .. Len(pipe)
    <3>1. SUFFICES ASSUME i \in 0 .. Len(pipe) PROVE FALSE
      BY ZenonT(40)
    <3>2. Msg(i)' = Msg(i)
      BY <1>0, <1>2, <1>4, <3>1 DEF Msg
    <3> QED BY ZenonT(40), <2>1, <3>1, <3>2 DEF Sending, Nothing
  <2>3. ~PipeFull /\ i = n
    BY <1>0, <1>4, <1>5, <2>1, <2>2
  <2>4. Msg(i)' = pipe'[i]
    BY <1>5, <2>3 DEF Msg
  <2> QED BY ZenonT(40), <1>4, <1>5, <2>3, <2>4
<1>7. Owing(x)' = {}
  BY ZenonT(40), <1>2 DEF Owing, Nothing, Owes, Final
<1>8. \A i \in Sending(x)' : Tag(Msg(i)') = g
  BY ZenonT(40), <1>3, <1>6 DEF Tag
<1> QED BY ZenonT(40), <1>6, <1>7, <1>8 DEF Sole, Tag

\* The WMI task is done with the answer to the request.
LEMMA FlowDone ==
  ASSUME QueueInv, NEW x \in Kinds, UNCHANGED <<pipe, fw>>, Handling, Evt.e = Final(x), ~Handling',
         NEW g, Sole(x, g)
  PROVE  Nothing(x)' /\ <<Evt.by, Evt.n>> = g
<1>0. wfm.evt \in Queued /\ wfm.evt.kind = "evt" /\ Len(pipe) \in Nat
  BY EvtIs DEF QueueInv, TypeOK, Handling, PipeOK
<1>1. Msg(0) = wfm.evt /\ wfm.evt.was = Evt
  BY ZenonT(40) DEF Msg, Evt
<1>2. 0 \in Sending(x)
  BY <1>0, <1>1 DEF Sending, Carries
<1>3. Owing(x) = {} /\ \A i \in Sending(x) : i = 0
  BY ZenonT(40), <1>2 DEF Sole
<1>4. Tag(Msg(0)) = g
  BY ZenonT(40), <1>2 DEF Sole
<1>5. ASSUME NEW i \in Sending(x)' PROVE FALSE
  <2>1. i \in 0 .. Len(pipe) /\ i # 0 /\ Carries(Msg(i)', x)
    BY ZenonT(40) DEF Sending, Carries, Source, Final
  <2>2. Msg(i)' = Msg(i)
    BY ZenonT(40), <2>1 DEF Msg
  <2> QED BY ZenonT(40), <1>3, <2>1, <2>2 DEF Sending
<1>6. Owing(x)' = {}
  BY ZenonT(40), <1>3 DEF Owing, Owes, Final
<1> QED BY ZenonT(40), <1>0, <1>1, <1>4, <1>5, <1>6 DEF Nothing, Tag

\* No other step adds a request.
LEMMA FlowNext ==
  ASSUME QueueInv, QueueInv', LockInv, Next, NEW x \in Kinds,
         \A t \in Apps : ~(SendCommand(t) /\ app[t].cmd = Source(x))
  PROVE  Calm(x)
<1>0. TypeOK /\ PipeOK /\ PipeOK' /\ WfmOK /\ AppOK /\ Len(pipe) \in Nat
  BY DEF QueueInv, TypeOK, PipeOK
<1>1. ASSUME UNCHANGED <<wfm, fw>> PROVE wfm'.evt = wfm.evt /\ fw'.owes = fw.owes /\ Handling' = Handling
  BY ZenonT(40), <1>1 DEF Handling
<1>2. ASSUME UNCHANGED <<wfm, fw, pipe>> PROVE Calm(x)
  <2>1. Extended /\ \A i \in Len(pipe) + 1 .. Len(pipe') : ~Carries(pipe'[i], x)
    BY <1>0, <1>2 DEF Extended
  <2> QED BY <1>0, <1>1, <1>2, <2>1, FlowKept
<1>3. ASSUME NEW m \in Commands, m.cmd # Source(x), qurt_pipe_send(m), UNCHANGED <<wfm, fw>> PROVE Calm(x)
  <2>1. Extended /\ PipeOK'
    BY ZenonT(40), <1>0, <1>3, CommandExtends
  <2>2. ~Carries(m, x)
    BY ZenonT(40), <1>3, RequestIs
  <2>3. m \in Messages
    BY ZenonT(40) DEF Messages
  <2>4. /\ PipeFull => pipe' = pipe
        /\ ~PipeFull => Len(pipe') = Len(pipe) + 1 /\ pipe'[Len(pipe) + 1] = m
    BY ZenonT(40), <1>0, <1>3, <2>3, SendIs
  <2>5. \A i \in Len(pipe) + 1 .. Len(pipe') : ~Carries(pipe'[i], x)
    BY <1>0, <2>2, <2>4
  <2> QED BY <1>0, <1>1, <1>3, <2>1, <2>5, FlowKept
<1>4. ASSUME NEW t \in Apps, AppStep(t) PROVE Calm(x)
  <2>1. /\ UNCHANGED <<wfm, fw>>
        /\ \/ UNCHANGED pipe
           \/ wmi_cmd_send(Command("pass", t, app[t].n, None))
           \/ SendCommand(t)
    BY ZenonT(40), <1>4, SendFrame
  <2>2. t \in By /\ app[t].n \in Nat /\ app[t].arg \in Values /\ None \in Values /\ app[t] \in Threads
    BY ZenonT(40), <1>0 DEF By, Threads, AppOK, Values
  <2>3. ASSUME NEW y \in Sent, NEW v \in Values
        PROVE  Command(y, t, app[t].n, v) \in Commands /\ Command(y, t, app[t].n, v).cmd = y
    BY ZenonT(40), <2>2 DEF Command, Commands
  <2>4. CASE wmi_cmd_send(Command("pass", t, app[t].n, None))
    <3>1. "pass" \in Sent /\ "pass" # Source(x) /\ qurt_pipe_send(Command("pass", t, app[t].n, None))
      BY ZenonT(40), <2>4, RequestIs DEF Sent, wmi_cmd_send
    <3> QED BY ZenonT(40), <1>3, <2>1, <2>2, <2>3, <3>1
  <2>5. CASE SendCommand(t)
    <3> DEFINE y == IF app[t].cmd = "commit" THEN "connect" ELSE app[t].cmd
    <3>1. qurt_pipe_send(Command(y, t, app[t].n, app[t].arg))
      BY ZenonT(40), <2>5 DEF SendCommand, wmi_cmd_send
    <3>2. y \in Sent
      BY ZenonT(40), <2>2, <2>5 DEF SendCommand, Threads, Flow, Sent
    <3>3. y # Source(x)
      BY ZenonT(40), <2>5, RequestIs
    <3> HIDE DEF y
    <3> QED BY ZenonT(40), <1>3, <2>1, <2>2, <2>3, <3>1, <3>2, <3>3
  <2> QED BY ZenonT(40), <1>2, <2>1, <2>4, <2>5
<1>5. CASE RoamExpire \/ \E t \in Apps : \E op \in Ops[t] : \E a \in Args(op) : Call(t, op, a)
  <2>1. UNCHANGED <<wfm, fw, pipe>>
    BY ZenonT(40), <1>5 DEF RoamExpire, Call
  <2> QED BY ZenonT(40), <1>2, <2>1
<1>6. CASE roam_handler
  <2>1. UNCHANGED <<wfm, fw>>
    BY ZenonT(40), <1>6 DEF roam_handler
  <2>2. Extended /\ \A i \in Len(pipe) + 1 .. Len(pipe') : pipe'[i].cmd \in {"pass", "connect"}
    BY ZenonT(40), <1>0, <1>6, RoamSends
  <2>3. \A i \in Len(pipe) + 1 .. Len(pipe') : ~Carries(pipe'[i], x)
    BY ZenonT(40), <1>0, <2>2, RequestIs DEF Extended
  <2> QED BY <1>0, <1>1, <2>1, <2>2, <2>3, FlowKept
<1>7. CASE Handler
  <2>1. /\ UNCHANGED <<pipe, fw>> /\ wfm'.evt = wfm.evt /\ wfm'.at # "dispatch"
        /\ wfm'.at = "poll" => wmi_set_param_event
    BY ZenonT(40), <1>0, <1>7, HandlerFrame
  <2>2. Handling' => Handling
    BY ZenonT(40), <2>1 DEF Handling, wmi_set_param_event, Dispatch
  <2>3. Extended /\ \A i \in Len(pipe) + 1 .. Len(pipe') : ~Carries(pipe'[i], x)
    BY <1>0, <2>1 DEF Extended
  <2> QED BY ZenonT(40), <1>0, <2>1, <2>2, <2>3, FlowKept
<1>8. CASE wmi_event_buf_free
  <2>1. UNCHANGED <<pipe, fw>> /\ wfm'.at = "recv"
    BY ZenonT(40), <1>8 DEF wmi_event_buf_free
  <2>2. ASSUME NEW i \in Sending(x)' PROVE i + 0 \in Sending(x) /\ Msg(i)' = Msg(i + 0)
    <3>1. i \in 0 .. Len(pipe') /\ i # 0 /\ Carries(Msg(i)', x)
      BY ZenonT(40), <2>1 DEF Sending, Handling, Carries, Source, Final
    <3>2. i + 0 = i /\ Msg(i)' = Msg(i)
      BY <1>0, <2>1, <3>1 DEF Msg
    <3> QED BY ZenonT(40), <2>1, <3>1, <3>2 DEF Sending
  <2>3. \A o \in Owing(x)' : o \in Owing(x)
    BY ZenonT(40), <2>1 DEF Owing, Owes, Final
  <2> QED BY ZenonT(40), <1>0, <2>1, <2>2, <2>3, FlowShift
<1>9. CASE FwStep
  BY ZenonT(40), <1>9, FlowAnswered DEF FwStep
<1>10. CASE \E e \in {"disc", "peer"} : FwEvent(e)
  BY ZenonT(40), <1>10, FlowEvent
<1>11. CASE WfmCommand \/ WfmEvent
  BY ZenonT(40), <1>11, FlowTaken
<1> QED BY ZenonT(40), <1>4, <1>5, <1>6, <1>7, <1>8, <1>9, <1>10, <1>11, NextIs DEF Client
=============================================================================
