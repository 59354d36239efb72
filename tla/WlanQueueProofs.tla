-------------------------- MODULE WlanQueueProofs --------------------------
(***************************************************************************)
(* Proofs about WlanDrv for every number of threads and buffers and every  *)
(* length of the pipe: types, the payload buffers, and what the steps of   *)
(* each actor leave alone.                                                 *)
(***************************************************************************)
EXTENDS WlanDrv, TLAPS

Messages == Commands \cup Queued

\* Position 0 is the event being handled, the others are the pipe.
Msg(i) == IF i = 0 THEN wfm.evt ELSE pipe[i]

\* The events of size class k that hold a buffer, and how far slot s lies behind
\* the write pointer w.
Pending(k) ==
  {i \in 0 .. Len(pipe) : /\ i = 0 => wfm.at # "recv"
                          /\ Msg(i).kind = "evt" /\ Msg(i).class = k}
Behind(k, w, s) == IF s < w THEN w - s ELSE w - s + BufNum[k]

\* The buffers of the pending events are among the `used' ones behind the write
\* pointer, an older event's farther behind; each holds its payload.  Buffers that
\* were lost with a full pipe are among the used ones too.
SlotInv ==
  \A k \in Classes : \A i \in Pending(k) :
    /\ Msg(i).slot \in 0 .. BufNum[k] - 1
    /\ Behind(k, pool[k].wp, Msg(i).slot) <= pool[k].used
    /\ pool[k].slots[Msg(i).slot] = Msg(i).was
    /\ \A j \in Pending(k) : i < j =>
         Behind(k, pool[k].wp, Msg(j).slot) < Behind(k, pool[k].wp, Msg(i).slot)

\* A slot lies between one and BufNum behind the write pointer.
LEMMA BehindRange ==
  ASSUME NEW N \in Nat \ {0}, NEW w \in 0 .. N - 1, NEW x \in 0 .. N - 1
  PROVE  (IF x < w THEN w - x ELSE w - x + N) \in 1 .. N
  OBVIOUS

-----------------------------------------------------------------------------
(* The pipe.                                                               *)

\* Commands are added at the end.
Extended ==
  /\ Len(pipe') >= Len(pipe)
  /\ \A i \in 1 .. Len(pipe) : pipe'[i] = pipe[i]
  /\ \A i \in Len(pipe) + 1 .. Len(pipe') : pipe'[i] \in Commands

LEMMA SendIs ==
  ASSUME PipeOK, NEW m \in Messages, qurt_pipe_send(m)
  PROVE  /\ PipeOK'
         /\ PipeFull => pipe' = pipe
         /\ ~PipeFull => Len(pipe') = Len(pipe) + 1 /\ pipe'[Len(pipe) + 1] = m
         /\ \A i \in 1 .. Len(pipe) : pipe'[i] = pipe[i]
<1>1. CASE PipeFull
  BY ZenonT(40), <1>1 DEF PipeOK, qurt_pipe_send
<1>2. CASE ~PipeFull
  <2>1. pipe' = Append(pipe, m) /\ pipe \in Seq(Messages) /\ Len(pipe) \in Nat
    BY <1>2 DEF PipeOK, qurt_pipe_send, Messages
  <2>2. /\ pipe' \in Seq(Messages) /\ Len(pipe') = Len(pipe) + 1 /\ pipe'[Len(pipe) + 1] = m
        /\ \A i \in 1 .. Len(pipe) : pipe'[i] = pipe[i]
    BY <2>1
  <2>3. Len(pipe') <= PipeLen
    BY <1>2, <2>1, <2>2, WlanAssumption DEF PipeFull
  <2> QED BY ZenonT(40), <1>2, <2>2, <2>3 DEF PipeOK, Messages
<1> QED BY ZenonT(40), <1>1, <1>2

LEMMA CommandExtends ==
  ASSUME PipeOK, NEW m \in Commands, qurt_pipe_send(m)
  PROVE  PipeOK' /\ Extended
<1>1. m \in Messages
  BY DEF Messages
<1>2. Len(pipe) \in Nat
  BY DEF PipeOK
<1> QED BY <1>1, <1>2, SendIs DEF Extended

LEMMA TakeIs ==
  ASSUME PipeOK, pipe # <<>>, pipe' = Tail(pipe)
  PROVE  /\ PipeOK' /\ Len(pipe) \in Nat /\ Len(pipe) >= 1 /\ Len(pipe') = Len(pipe) - 1
         /\ \A i \in 1 .. Len(pipe') : pipe'[i] = pipe[i + 1]
         /\ Head(pipe) = pipe[1] /\ Head(pipe) \in Messages
<1>1. pipe \in Seq(Messages) /\ Len(pipe) \in Nat /\ Len(pipe) <= PipeLen
  BY DEF PipeOK, Messages
<1>2. /\ Tail(pipe) \in Seq(Messages) /\ Len(Tail(pipe)) = Len(pipe) - 1
      /\ \A i \in 1 .. Len(Tail(pipe)) : Tail(pipe)[i] = pipe[i + 1]
      /\ Head(pipe) \in Messages
  BY <1>1
<1>3. Len(pipe) >= 1
  BY <1>1
<1>4. Head(pipe) = pipe[1]
  BY <1>1, <1>3
<1> QED BY <1>1, <1>2, <1>3, <1>4, WlanAssumption DEF PipeOK, Messages

LEMMA RoamSends ==
  ASSUME PipeOK, roam_handler
  PROVE  /\ PipeOK' /\ Extended
         /\ \A i \in Len(pipe) + 1 .. Len(pipe') : pipe'[i].cmd \in {"pass", "connect"}
<1> DEFINE pass == Command("pass", "roam", 0, None)
           conn == Command("connect", "roam", 0, None)
           cmds == (IF c.profile = "psk" THEN <<pass>> ELSE <<>>) \o <<conn>>
           new  == pipe \o cmds
           own  == {m \in Commands : m.cmd \in {"pass", "connect"}}
           k    == IF Len(new) < PipeLen THEN Len(new) ELSE PipeLen
<1>1. pass \in own /\ conn \in own
  BY ZenonT(40) DEF Command, Commands, Sent, By, Values
<1>2. cmds \in Seq(own)
  <2> HIDE DEF pass, conn
  <2>1. <<pass>> \in Seq(own) /\ <<conn>> \in Seq(own) /\ <<>> \in Seq(own)
    BY <1>1
  <2>2. (IF c.profile = "psk" THEN <<pass>> ELSE <<>>) \in Seq(own)
    BY ZenonT(40), <2>1
  <2> QED BY <2>1, <2>2
<1>3. /\ new \in Seq(Messages) /\ Len(new) = Len(pipe) + Len(cmds) /\ Len(pipe) \in Nat
      /\ Len(cmds) \in Nat /\ Len(pipe) <= PipeLen
      /\ \A i \in 1 .. Len(pipe) + Len(cmds) :
            new[i] = IF i <= Len(pipe) THEN pipe[i] ELSE cmds[i - Len(pipe)]
  <2> HIDE DEF cmds
  <2>1. cmds \in Seq(Messages) /\ pipe \in Seq(Messages)
    BY <1>2 DEF Messages, PipeOK
  <2> QED BY <2>1 DEF PipeOK
<1>4. CASE UNCHANGED pipe
  BY <1>3, <1>4 DEF PipeOK, Extended
<1>5. CASE pipe' = SubSeq(new, 1, k)
  <2> HIDE DEF new, cmds, own
  <2>1. k \in Nat /\ k <= PipeLen /\ k <= Len(new) /\ k >= Len(pipe)
    BY <1>3, WlanAssumption
  <2> HIDE DEF k
  <2>2. \A i \in 1 .. k : new[i] \in Messages
    BY <1>3, <2>1
  <2>3. /\ pipe' \in Seq(Messages) /\ Len(pipe') = k
        /\ \A i \in 1 .. k : pipe'[i] = new[i]
    BY <1>5, <2>1, <2>2
  <2>4. \A i \in 1 .. Len(pipe) : pipe'[i] = pipe[i]
    BY <1>3, <2>1, <2>3
  <2>5. ASSUME NEW i \in Len(pipe) + 1 .. k PROVE pipe'[i] \in own
    <3>1. i - Len(pipe) \in 1 .. Len(cmds) /\ i \in 1 .. k /\ i \in 1 .. Len(pipe) + Len(cmds)
      BY <1>3, <2>1
    <3>2. pipe'[i] = cmds[i - Len(pipe)]
      BY <1>3, <2>3, <3>1
    <3> QED BY <1>2, <3>1, <3>2
  <2> QED BY ZenonT(40), <2>1, <2>3, <2>4, <2>5 DEF PipeOK, Extended, Messages, own
<1> QED BY ZenonT(40), <1>4, <1>5 DEF roam_handler
-----------------------------------------------------------------------------
(* Types: each variable by itself.                                         *)

Thread == [at : Labels, op : AllOps \cup {None}, cmd : AllOps \cup {None}, n : Nat, arg : Values]

\* What a step of a thread within its call does to the thread.
LEMMA GotoIs ==
  ASSUME AppOK, NEW t \in Apps, NEW l \in Labels, Goto(t, l)
  PROVE  /\ app' = [app EXCEPT ![t] = [at |-> l, op |-> app[t].op, cmd |-> app[t].cmd,
                                       n |-> app[t].n, arg |-> app[t].arg]]
         /\ app'[t] = [at |-> l, op |-> app[t].op, cmd |-> app[t].cmd, n |-> app[t].n,
                       arg |-> app[t].arg]
         /\ \A u \in Apps \ {t} : app'[u] = app[u]
         /\ app'[t] \in Thread
<1>1. app[t] \in Thread
  BY ZenonT(40) DEF AppOK, Threads, Thread
<1>2. [app[t] EXCEPT !.at = l] = [at |-> l, op |-> app[t].op, cmd |-> app[t].cmd,
                                  n |-> app[t].n, arg |-> app[t].arg]
  BY <1>1 DEF Thread
<1>3. app' = [app EXCEPT ![t] = [app[t] EXCEPT !.at = l]]
  BY DEF Goto
<1>4. app'[t] \in Thread
  BY ZenonT(40), <1>1, <1>2, <1>3 DEF Thread, AppOK
<1> QED BY ZenonT(40), <1>2, <1>3, <1>4 DEF AppOK

LEMMA ReturnIs ==
  ASSUME AppOK, NEW t \in Apps, Return(t)
  PROVE  /\ app'[t] = [at |-> "idle", op |-> None, cmd |-> None, n |-> app[t].n, arg |-> None]
         /\ \A u \in Apps \ {t} : app'[u] = app[u]
         /\ AppOK'
<1> DEFINE r == [at |-> "idle", op |-> None, cmd |-> None, n |-> app[t].n, arg |-> None]
<1>0. [Idle EXCEPT !.n = app[t].n] = r
  BY DEF Idle
<1>1. app' = [app EXCEPT ![t] = r]
  BY ZenonT(40), <1>0 DEF Return
<1>2. app[t].n \in Nat
  BY ZenonT(40) DEF AppOK, Threads
<1>3. r \in Threads
  BY ZenonT(40), <1>2 DEF Threads, Flow, Labels, Values, FirstCmd
<1> HIDE DEF r
<1>4. app'[t] = r /\ \A u \in Apps \ {t} : app'[u] = app[u]
  BY ZenonT(40), <1>1 DEF AppOK
<1>5. AppOK'
  BY ZenonT(40), <1>1, <1>3 DEF AppOK
<1> QED BY ZenonT(40), <1>4, <1>5 DEF r

LEMMA AppType ==
  ASSUME TypeOK, Next
  PROVE  AppOK'
<1>0. AppOK
  BY DEF TypeOK
<1>1. ASSUME NEW t \in Apps, NEW l \in Labels, Goto(t, l), app'[t] \in Thread => Flow(app'[t])
      PROVE  AppOK'
  <2>1. app'[t] \in Threads
    BY ZenonT(40), <1>0, <1>1, GotoIs DEF Threads, Thread
  <2>2. app' = [app EXCEPT ![t] = app'[t]]
    BY ZenonT(40), <1>0, <1>1, GotoIs
  <2> QED BY ZenonT(40), <1>0, <2>1, <2>2 DEF AppOK
<1>2. ASSUME NEW t \in Apps PROVE Flow(app[t]) /\ app[t] \in Thread
  BY ZenonT(40), <1>0 DEF AppOK, Threads, Thread
<1>3. ASSUME NEW t \in Apps, NEW l \in Labels, Goto(t, l),
             Flow([at |-> l, op |-> app[t].op, cmd |-> app[t].cmd, n |-> app[t].n,
                   arg |-> app[t].arg])
      PROVE  AppOK'
  <2>1. app'[t] = [at |-> l, op |-> app[t].op, cmd |-> app[t].cmd, n |-> app[t].n,
                   arg |-> app[t].arg]
    BY ZenonT(40), <1>0, <1>3, GotoIs
  <2> QED BY ZenonT(40), <1>1, <1>3, <2>1
<1>4. ASSUME NEW t \in Apps, WLAN_QAPI_LOCK(t) PROVE AppOK'
  <2> DEFINE l == CASE app[t].op = "commit" -> IF app[t].arg = "psk" THEN "pass" ELSE "start"
                    [] app[t].op \in {"disconnect", "off"} -> "test"
                    [] app[t].op \in {"scan", "results"} -> "start"
                    [] OTHER -> "send"
  <2>1. Goto(t, l) /\ app[t].at = "lock"
    BY ZenonT(40), <1>4 DEF WLAN_QAPI_LOCK
  <2>2. Flow(app[t])
    BY ZenonT(40), <1>2
  <2>3. /\ app[t].op \in Locked /\ app[t].cmd = FirstCmd(app[t].op)
        /\ app[t].cmd = app[t].op \/ (app[t].op = "off" /\ app[t].cmd = "disconnect")
    BY ZenonT(40), <2>1, <2>2 DEF Flow
  <2>4. l \in Labels /\ Flow([at |-> l, op |-> app[t].op, cmd |-> app[t].cmd, n |-> app[t].n,
                              arg |-> app[t].arg])
    BY ZenonT(40), <2>3 DEF Flow, Locked, FirstCmd, Sent, Mask, Labels
  <2> QED BY ZenonT(40), <1>3, <2>1, <2>4
<1>5. ASSUME NEW t \in Apps, wmi_set_passphrase(t) PROVE AppOK'
  <2>1. Goto(t, "start") /\ app[t].at = "pass" /\ Flow(app[t])
    BY ZenonT(40), <1>2, <1>5 DEF wmi_set_passphrase
  <2>2. Flow([at |-> "start", op |-> app[t].op, cmd |-> app[t].cmd, n |-> app[t].n, arg |-> app[t].arg])
    BY ZenonT(40), <2>1 DEF Flow, Locked, FirstCmd, Sent, Mask, Labels
  <2> QED BY ZenonT(40), <1>3, <2>1, <2>2 DEF Labels
<1>6. ASSUME NEW t \in Apps, qapi_WLAN_Disconnect(t) PROVE AppOK'
  <2>1. app[t].at = "test" /\ Flow(app[t])
    BY ZenonT(40), <1>2, <1>6 DEF qapi_WLAN_Disconnect
  <2>2. CASE c.connected \/ c.connect_in_progress \/ c.roaming_started
    <3>1. Goto(t, "start")
      BY ZenonT(40), <1>6, <2>2 DEF qapi_WLAN_Disconnect
    <3>2. Flow([at |-> "start", op |-> app[t].op, cmd |-> app[t].cmd, n |-> app[t].n, arg |-> app[t].arg])
      BY ZenonT(40), <2>1, <2>2 DEF Flow, Locked, FirstCmd, Sent, Mask, Labels
    <3> QED BY ZenonT(40), <1>3, <3>1, <3>2 DEF Labels
  <2>3. CASE ~(c.connected \/ c.connect_in_progress \/ c.roaming_started)
    <3>1. Goto(t, "clear")
      BY ZenonT(40), <1>6, <2>3 DEF qapi_WLAN_Disconnect
    <3>2. Flow([at |-> "clear", op |-> app[t].op, cmd |-> app[t].cmd, n |-> app[t].n, arg |-> app[t].arg])
      BY ZenonT(40), <2>1, <2>3 DEF Flow, Locked, FirstCmd, Sent, Mask, Labels
    <3> QED BY ZenonT(40), <1>3, <3>1, <3>2 DEF Labels
  <2> QED BY ZenonT(40), <2>2, <2>3
<1>7. ASSUME NEW t \in Apps, wmi_connect(t) PROVE AppOK'
  <2>1. Goto(t, "send") /\ app[t].at = "start" /\ app[t].cmd = "commit" /\ Flow(app[t])
    BY ZenonT(40), <1>2, <1>7 DEF wmi_connect
  <2>2. Flow([at |-> "send", op |-> app[t].op, cmd |-> app[t].cmd, n |-> app[t].n, arg |-> app[t].arg])
    BY ZenonT(40), <2>1 DEF Flow, Locked, FirstCmd, Sent, Mask, Labels
  <2> QED BY ZenonT(40), <1>3, <2>1, <2>2 DEF Labels
<1>8. ASSUME NEW t \in Apps, wmi_disconnect(t) PROVE AppOK'
  <2>1. Goto(t, "send") /\ app[t].at = "start" /\ app[t].cmd = "disconnect" /\ Flow(app[t])
    BY ZenonT(40), <1>2, <1>8 DEF wmi_disconnect
  <2>2. Flow([at |-> "send", op |-> app[t].op, cmd |-> app[t].cmd, n |-> app[t].n, arg |-> app[t].arg])
    BY ZenonT(40), <2>1 DEF Flow, Locked, FirstCmd, Sent, Mask, Labels
  <2> QED BY ZenonT(40), <1>3, <2>1, <2>2 DEF Labels
<1>9. ASSUME NEW t \in Apps, wmi_start_scan(t) PROVE AppOK'
  <2>1. Goto(t, "send") /\ app[t].at = "start" /\ app[t].cmd = "scan" /\ Flow(app[t])
    BY ZenonT(40), <1>2, <1>9 DEF wmi_start_scan
  <2>2. Flow([at |-> "send", op |-> app[t].op, cmd |-> app[t].cmd, n |-> app[t].n, arg |-> app[t].arg])
    BY ZenonT(40), <2>1 DEF Flow, Locked, FirstCmd, Sent, Mask, Labels
  <2> QED BY ZenonT(40), <1>3, <2>1, <2>2 DEF Labels
<1>10. ASSUME NEW t \in Apps, wlan_get_scan_results(t) PROVE AppOK'
  <2>1. app[t].at = "start" /\ app[t].cmd = "results" /\ Flow(app[t])
    BY ZenonT(40), <1>2, <1>10 DEF wlan_get_scan_results
  <2>2. CASE c.scan_in_progress
    <3>1. Goto(t, "wait")
      BY ZenonT(40), <1>10, <2>2 DEF wlan_get_scan_results
    <3>2. Flow([at |-> "wait", op |-> app[t].op, cmd |-> app[t].cmd, n |-> app[t].n, arg |-> app[t].arg])
      BY ZenonT(40), <2>1, <2>2 DEF Flow, Locked, FirstCmd, Sent, Mask, Labels
    <3> QED BY ZenonT(40), <1>3, <3>1, <3>2 DEF Labels
  <2>3. CASE ~(c.scan_in_progress)
    BY ZenonT(40), <1>0, <1>10, <2>3, ReturnIs DEF wlan_get_scan_results
  <2> QED BY ZenonT(40), <2>2, <2>3
<1>11. ASSUME NEW t \in Apps, SendCommand(t) PROVE AppOK'
  <2>1. app[t].at = "send" /\ Flow(app[t])
    BY ZenonT(40), <1>2, <1>11 DEF SendCommand
  <2>2. CASE app[t].cmd = "commit"
    BY ZenonT(40), <1>0, <1>11, <2>2, ReturnIs DEF SendCommand
  <2>3. CASE app[t].cmd = "param"
    <3>1. Goto(t, "store")
      BY ZenonT(40), <1>11, <2>3 DEF SendCommand
    <3>2. Flow([at |-> "store", op |-> app[t].op, cmd |-> app[t].cmd, n |-> app[t].n, arg |-> app[t].arg])
      BY ZenonT(40), <2>1, <2>3 DEF Flow, Locked, FirstCmd, Sent, Mask, Labels
    <3> QED BY ZenonT(40), <1>3, <3>1, <3>2 DEF Labels
  <2>4. CASE app[t].cmd \notin {"commit", "param"}
    <3>1. Goto(t, "wait")
      BY ZenonT(40), <1>11, <2>4 DEF SendCommand
    <3>2. Flow([at |-> "wait", op |-> app[t].op, cmd |-> app[t].cmd, n |-> app[t].n, arg |-> app[t].arg])
      BY ZenonT(40), <2>1, <2>4 DEF Flow, Locked, FirstCmd, Sent, Mask, Labels
    <3> QED BY ZenonT(40), <1>3, <3>1, <3>2 DEF Labels
  <2> QED BY ZenonT(40), <2>2, <2>3, <2>4
<1>12. ASSUME NEW t \in Apps, StoreParamId(t) PROVE AppOK'
  <2>1. Goto(t, "wait") /\ app[t].at = "store" /\ Flow(app[t])
    BY ZenonT(40), <1>2, <1>12 DEF StoreParamId
  <2>2. Flow([at |-> "wait", op |-> app[t].op, cmd |-> app[t].cmd, n |-> app[t].n, arg |-> app[t].arg])
    BY ZenonT(40), <2>1 DEF Flow, Locked, FirstCmd, Sent, Mask, Labels
  <2> QED BY ZenonT(40), <1>3, <2>1, <2>2 DEF Labels
<1>13. ASSUME NEW t \in Apps, qurt_signal_wait(t) PROVE AppOK'
  <2>1. Goto(t, "woken") /\ app[t].at = "wait" /\ Flow(app[t])
    BY ZenonT(40), <1>2, <1>13 DEF qurt_signal_wait
  <2>2. Flow([at |-> "woken", op |-> app[t].op, cmd |-> app[t].cmd, n |-> app[t].n, arg |-> app[t].arg])
    BY ZenonT(40), <2>1 DEF Flow, Locked, FirstCmd, Sent, Mask, Labels
  <2> QED BY ZenonT(40), <1>3, <2>1, <2>2 DEF Labels
<1>14. ASSUME NEW t \in Apps, k_event_clear(t) PROVE AppOK'
  <2>1. Goto(t, "ret") /\ app[t].at = "woken" /\ Flow(app[t])
    BY ZenonT(40), <1>2, <1>14 DEF k_event_clear
  <2>2. Flow([at |-> "ret", op |-> app[t].op, cmd |-> app[t].cmd, n |-> app[t].n, arg |-> app[t].arg])
    BY ZenonT(40), <2>1 DEF Flow, Locked, FirstCmd, Sent, Mask, Labels
  <2> QED BY ZenonT(40), <1>3, <2>1, <2>2 DEF Labels
<1>15. ASSUME NEW t \in Apps, FinishCall(t) PROVE AppOK'
  <2>1. app[t].at = "ret" /\ Flow(app[t])
    BY ZenonT(40), <1>2, <1>15 DEF FinishCall
  <2>2. CASE app[t].cmd \in {"disconnect", "off"}
    <3>1. Goto(t, "roamstop")
      BY ZenonT(40), <1>15, <2>2 DEF FinishCall
    <3>2. Flow([at |-> "roamstop", op |-> app[t].op, cmd |-> app[t].cmd, n |-> app[t].n, arg |-> app[t].arg])
      BY ZenonT(40), <2>1, <2>2 DEF Flow, Locked, FirstCmd, Sent, Mask, Labels
    <3> QED BY ZenonT(40), <1>3, <3>1, <3>2 DEF Labels
  <2>3. CASE ~(app[t].cmd \in {"disconnect", "off"})
    BY ZenonT(40), <1>0, <1>15, <2>3, ReturnIs DEF FinishCall
  <2> QED BY ZenonT(40), <2>2, <2>3
<1>16. ASSUME NEW t \in Apps, wlan_drv_roaming_stop(t) PROVE AppOK'
  <2> DEFINE l == IF c.opmode = "sta" /\ c.roaming_started THEN "cancel"
                  ELSE IF app[t].cmd = "off" THEN "offclear" ELSE "clear"
  <2>1. Goto(t, l) /\ app[t].at = "roamstop" /\ Flow(app[t])
    BY ZenonT(40), <1>2, <1>16 DEF wlan_drv_roaming_stop
  <2>2. l \in Labels /\ Flow([at |-> l, op |-> app[t].op, cmd |-> app[t].cmd, n |-> app[t].n,
                              arg |-> app[t].arg])
    BY ZenonT(40), <2>1 DEF Flow, Locked, FirstCmd, Sent, Mask, Labels
  <2> QED BY ZenonT(40), <1>3, <2>1, <2>2
<1>17. ASSUME NEW t \in Apps, CancelRoaming(t) PROVE AppOK'
  <2>1. app[t].at = "cancel" /\ Flow(app[t])
    BY ZenonT(40), <1>2, <1>17 DEF CancelRoaming
  <2>2. CASE app[t].cmd = "off"
    <3>1. Goto(t, "offclear")
      BY ZenonT(40), <1>17, <2>2 DEF CancelRoaming
    <3>2. Flow([at |-> "offclear", op |-> app[t].op, cmd |-> app[t].cmd, n |-> app[t].n, arg |-> app[t].arg])
      BY ZenonT(40), <2>1, <2>2 DEF Flow, Locked, FirstCmd, Sent, Mask, Labels
    <3> QED BY ZenonT(40), <1>3, <3>1, <3>2 DEF Labels
  <2>3. CASE ~(app[t].cmd = "off")
    <3>1. Goto(t, "clear")
      BY ZenonT(40), <1>17, <2>3 DEF CancelRoaming
    <3>2. Flow([at |-> "clear", op |-> app[t].op, cmd |-> app[t].cmd, n |-> app[t].n, arg |-> app[t].arg])
      BY ZenonT(40), <2>1, <2>3 DEF Flow, Locked, FirstCmd, Sent, Mask, Labels
    <3> QED BY ZenonT(40), <1>3, <3>1, <3>2 DEF Labels
  <2> QED BY ZenonT(40), <2>2, <2>3
<1>18. ASSUME NEW t \in Apps, ClearProfile(t) PROVE AppOK'
  <2> DEFINE r == [at |-> "send", op |-> app[t].op, cmd |-> "off", n |-> app[t].n, arg |-> app[t].arg]
  <2>1. app[t].at = "clear" /\ app[t] \in Thread
    BY ZenonT(40), <1>2, <1>18 DEF ClearProfile
  <2>2. CASE app[t].op = "off"
    <3>1. r \in Threads
      BY ZenonT(40), <2>1, <2>2 DEF Threads, Thread, AllOps, Flow, Locked, FirstCmd, Sent, Mask, Labels
    <3>2. ASSUME NEW s, s = [app[t] EXCEPT !.at = "send", !.cmd = "off"] PROVE s = r
      BY ZenonT(40), <2>1, <3>2 DEF Thread
    <3>3. app' = [app EXCEPT ![t] = r]
      BY ZenonT(40), <1>18, <2>2, <3>2 DEF ClearProfile
    <3> HIDE DEF r
    <3> QED BY ZenonT(40), <1>0, <3>1, <3>3 DEF AppOK
  <2>3. CASE ~(app[t].op = "off")
    BY ZenonT(40), <1>0, <1>18, <2>3, ReturnIs DEF ClearProfile
  <2> QED BY ZenonT(40), <2>2, <2>3
<1>19. ASSUME NEW t \in Apps, ClearSettings(t) PROVE AppOK'
  BY ZenonT(40), <1>0, <1>19, ReturnIs DEF ClearSettings
<1>20. ASSUME NEW t \in Apps, SetProfile(t) PROVE AppOK'
  BY ZenonT(40), <1>0, <1>20, ReturnIs DEF SetProfile
<1>21. ASSUME NEW t \in Apps, NEW op \in Ops[t], NEW a \in Args(op), Call(t, op, a) PROVE AppOK'
  <2> DEFINE r == [at  |-> IF op \in Locked THEN "lock"
                           ELSE IF ~c.wlanEnabled THEN "idle"
                           ELSE IF op = "param" THEN "send" ELSE "profile",
                   op  |-> op, cmd |-> FirstCmd(op), n |-> app[t].n + 1,
                   arg |-> IF op = "commit" THEN c.profile ELSE a]
  <2>1. app[t].n \in Nat
    BY ZenonT(40), <1>2 DEF Thread
  <2>2. op \in AllOps /\ FirstCmd(op) \in AllOps
    BY ZenonT(40), WlanAssumption DEF FirstCmd, AllOps, Locked
  <2>3. a \in Values /\ c.profile \in Values
    BY ZenonT(40) DEF Args, Values, TypeOK, CtxOK, Contexts
  <2>4. r.at \in Labels /\ r.arg \in Values
    BY ZenonT(40), <2>3 DEF Labels
  <2>5. Flow(r)
    BY ZenonT(40), <2>2 DEF Flow, Locked, AllOps, FirstCmd, Sent, Mask
  <2>6. r \in Threads
    BY <2>1, <2>2, <2>4, <2>5 DEF Threads
  <2>7. app' = [app EXCEPT ![t] = r]
    BY ZenonT(40), <1>21 DEF Call
  <2> HIDE DEF r
  <2> QED BY ZenonT(40), <1>0, <2>6, <2>7 DEF AppOK
<1>22. CASE WfmStep \/ FwStep \/ RoamExpire \/ roam_handler \/ \E e \in {"disc", "peer"} : FwEvent(e)
  <2>1. UNCHANGED app
    BY ZenonT(40), <1>22 DEF WfmStep, FwStep, FwAnswer, FwEvent, RoamExpire, roam_handler, WfmCommand, WfmEvent,
       wmi_report_event, wmi_enabled_event, wmi_scan_comp_event, WakeScanResults, wmi_join_comp_event,
       wmi_peer_event, WakeDisconnect, EndDisconnect, wmi_disconnect_event, wmi_set_param_event,
       wmi_event_buf_free
  <2> QED BY ZenonT(40), <1>0, <2>1 DEF AppOK
<1> QED BY ZenonT(40), <1>4, <1>5, <1>6, <1>7, <1>8, <1>9, <1>10, <1>11, <1>12, <1>13, <1>14, <1>15, <1>16, <1>17, <1>18, <1>19, <1>20, <1>21, <1>22 DEF Next, AppStep

\* The context, the roaming work item and the history when the link is followed.
LEMMA FollowType ==
  ASSUME RoamOK, HistOK, NEW ctx \in Contexts, FollowLink(ctx)
  PROVE  CtxOK' /\ RoamOK' /\ HistOK'
<1>0. Period.first \in Nat
  BY ZenonT(40), WlanAssumption
<1>1. [ctx EXCEPT !.roaming_started = TRUE] \in Contexts /\ [ctx EXCEPT !.roaming_started = FALSE] \in Contexts
  BY ZenonT(40) DEF Contexts
<1>2. CtxOK'
  BY ZenonT(40), <1>1 DEF CtxOK, FollowLink
<1>3. RoamOK'
  <2>1. CASE roam' = StartedRoam
    BY ZenonT(40), <1>0, <2>1 DEF RoamOK, StartedRoam
  <2>2. CASE roam' = Cancelled
    BY ZenonT(40), <2>2 DEF RoamOK, Cancelled
  <2>3. CASE UNCHANGED roam
    BY ZenonT(40), <2>3 DEF RoamOK
  <2> QED BY ZenonT(40), <2>1, <2>2, <2>3 DEF FollowLink
<1>4. HistOK'
  <2>1. [hist EXCEPT !.overtaken = hist.overtaken \/ Running] \in
           [answered : [Apps -> BOOLEAN], lost : BOOLEAN, raced : BOOLEAN,
            overtaken : BOOLEAN, scan : Scans, overlap : BOOLEAN, partial : BOOLEAN]
    BY ZenonT(40) DEF HistOK, Running
  <2> QED BY ZenonT(40), <2>1 DEF HistOK, FollowLink
<1> QED BY ZenonT(40), <1>2, <1>3, <1>4

\* What the WMI task is handling.
LEMMA EvtIs ==
  ASSUME WfmOK, wfm.at # "recv"
  PROVE  /\ wfm.evt \in Queued /\ Evt \in Payloads /\ Evt.e \in Events /\ Evt.by \in By
         /\ Evt.n \in Nat /\ Evt.ok \in BOOLEAN /\ Evt.cmd \in Sent \cup {None} /\ Fits(Evt.e, Evt.cmd)
         /\ wfm.evt.class \in Classes /\ wfm.evt.slot \in Nat /\ wfm.evt.kind = "evt"
<1>1. wfm.evt \in Queued
  BY DEF WfmOK
<1>2. Evt \in Payloads /\ wfm.evt.class \in Classes /\ wfm.evt.slot \in Nat /\ wfm.evt.kind = "evt"
  BY ZenonT(40), <1>1 DEF Queued, Evt
<1> QED BY ZenonT(40), <1>1, <1>2 DEF Payloads

LEMMA CtxType ==
  ASSUME TypeOK, Next
  PROVE  CtxOK'
<1>0. c \in Contexts /\ WfmOK /\ RoamOK /\ HistOK /\ AppOK
  BY DEF TypeOK, CtxOK
<1>1. CASE UNCHANGED c
  BY ZenonT(40), <1>0, <1>1 DEF CtxOK
<1>2. ASSUME NEW t \in Apps, AppStep(t), ~UNCHANGED c PROVE CtxOK'
  <2>1. app[t].arg \in Values
    BY ZenonT(40), <1>0 DEF AppOK, Threads
  <2>2. \/ c' = [c EXCEPT !.connect_in_progress = TRUE]
        \/ c' = [c EXCEPT !.disconnect_in_progress = TRUE]
        \/ c' = [c EXCEPT !.scan_in_progress = TRUE, !.scan_out = None]
        \/ c' = [c EXCEPT !.wait_scan_comp_evt = TRUE]
        \/ c' = [c EXCEPT !.param_id = app[t].arg]
        \/ c' = [c EXCEPT !.roaming_started = FALSE]
        \/ c' = [c EXCEPT !.profile = None]
        \/ c' = [c EXCEPT !.opmode = "ap", !.profile = IF c.profile = "psk" THEN "open" ELSE c.profile]
        \/ c' = [c EXCEPT !.profile = app[t].arg]
    BY ZenonT(60), <1>2 DEF AppStep, WLAN_QAPI_LOCK, wmi_set_passphrase, qapi_WLAN_Disconnect,
       wmi_connect, wmi_disconnect, wmi_start_scan, wlan_get_scan_results, SendCommand,
       StoreParamId, qurt_signal_wait, k_event_clear, FinishCall, wlan_drv_roaming_stop,
       CancelRoaming, ClearProfile, ClearSettings, SetProfile
  <2>3. {None, "psk", "open"} \subseteq Values /\ None \in Scans
    BY DEF Values, Scans
  <2>4. c.profile \in Values
    BY ZenonT(40), <1>0 DEF Contexts
  <2>5. CASE c' = [c EXCEPT !.scan_in_progress = TRUE, !.scan_out = None]
    BY ZenonT(40), <1>0, <2>3, <2>5 DEF CtxOK, Contexts
  <2>6. CASE c' = [c EXCEPT !.opmode = "ap", !.profile = IF c.profile = "psk" THEN "open" ELSE c.profile]
    <3>1. ASSUME NEW p \in Values, c' = [c EXCEPT !.opmode = "ap", !.profile = p] PROVE CtxOK'
      BY ZenonT(40), <1>0, <3>1 DEF CtxOK, Contexts
    <3> QED BY ZenonT(40), <2>3, <2>4, <2>6, <3>1
  <2>7. CASE \/ c' = [c EXCEPT !.connect_in_progress = TRUE]
             \/ c' = [c EXCEPT !.disconnect_in_progress = TRUE]
             \/ c' = [c EXCEPT !.wait_scan_comp_evt = TRUE]
             \/ c' = [c EXCEPT !.roaming_started = FALSE]
    BY ZenonT(40), <1>0, <2>7 DEF CtxOK, Contexts
  <2>8. CASE \/ c' = [c EXCEPT !.param_id = app[t].arg]
             \/ c' = [c EXCEPT !.profile = app[t].arg]
             \/ c' = [c EXCEPT !.profile = None]
    BY ZenonT(40), <1>0, <2>1, <2>3, <2>8 DEF CtxOK, Contexts
  <2> QED BY ZenonT(40), <2>2, <2>5, <2>6, <2>7, <2>8
<1>3. CASE wmi_enabled_event
  <2>1. (Evt.e = "on") \in BOOLEAN /\ c' = [c EXCEPT !.wlanEnabled = (Evt.e = "on")]
    BY ZenonT(40), <1>3 DEF wmi_enabled_event
  <2> QED BY ZenonT(40), <1>0, <2>1 DEF CtxOK, Contexts
<1>4. CASE wmi_scan_comp_event
  <2>1. <<Evt.by, Evt.n>> \in Scans
    BY ZenonT(40), <1>0, <1>4, EvtIs DEF wmi_scan_comp_event, Dispatch, Scans
  <2>2. ASSUME NEW x \in Scans, c' = [c EXCEPT !.scan_in_progress = FALSE,
               !.wait_scan_comp_evt = FALSE, !.scan_out = x]
        PROVE CtxOK'
    BY ZenonT(40), <1>0, <2>2 DEF CtxOK, Contexts
  <2> QED BY ZenonT(40), <1>1, <1>4, <2>1, <2>2 DEF wmi_scan_comp_event
<1>5. CASE wmi_join_comp_event
  <2>1. Evt.ok \in BOOLEAN
    BY ZenonT(40), <1>0, <1>5, EvtIs DEF wmi_join_comp_event, Dispatch
  <2>2. ASSUME NEW b \in BOOLEAN, NEW x, x = [c EXCEPT !.connected = b, !.connect_in_progress = FALSE]
        PROVE  x \in Contexts
    BY ZenonT(40), <1>0, <2>2 DEF Contexts
  <2>3. [c EXCEPT !.connected = Evt.ok, !.connect_in_progress = FALSE] \in Contexts
    BY ZenonT(40), <2>1, <2>2
  <2> QED BY ZenonT(40), <1>0, <1>5, <2>3, FollowType DEF wmi_join_comp_event, CtxOK
<1>6. CASE wmi_disconnect_event
  <2>2. ASSUME NEW x, x = [c EXCEPT !.connected = FALSE, !.disconnect_in_progress = FALSE]
        PROVE  x \in Contexts
    BY ZenonT(40), <1>0, <2>2 DEF Contexts
  <2> QED BY ZenonT(40), <1>0, <1>6, <2>2, FollowType DEF wmi_disconnect_event, CtxOK
<1>7. CASE EndDisconnect
  BY ZenonT(40), <1>0, <1>7 DEF EndDisconnect, CtxOK, Contexts
<1>8. CASE roam_handler
  BY ZenonT(40), <1>0, <1>8 DEF roam_handler, CtxOK, Contexts
<1>9. CASE \/ WfmCommand \/ WfmEvent \/ wmi_report_event \/ WakeScanResults \/ wmi_peer_event
           \/ WakeDisconnect \/ wmi_set_param_event \/ wmi_event_buf_free \/ RoamExpire \/ FwStep
           \/ (\E e \in {"disc", "peer"} : FwEvent(e))
           \/ (\E t \in Apps : \E op \in Ops[t] : \E a \in Args(op) : Call(t, op, a))
  BY ZenonT(40), <1>1, <1>9 DEF WfmCommand, WfmEvent, wmi_report_event, WakeScanResults,
     wmi_peer_event, WakeDisconnect, wmi_set_param_event, wmi_event_buf_free, RoamExpire,
     FwStep, FwAnswer, FwEvent, Call
<1> QED BY ZenonT(40), <1>1, <1>2, <1>3, <1>4, <1>5, <1>6, <1>7, <1>8, <1>9 DEF Next, WfmStep

LEMMA RoamType ==
  ASSUME TypeOK, Next
  PROVE  RoamOK'
<1>0. CtxOK /\ RoamOK /\ HistOK /\ WfmOK
  BY ZenonT(40) DEF TypeOK
<1>1. CASE UNCHANGED roam
  BY ZenonT(40), <1>0, <1>1 DEF RoamOK
<1>2. CASE RoamExpire
  <2>1. roam.runs + 1 \in Nat
    BY <1>0 DEF RoamOK
  <2>2. ASSUME NEW n \in Nat, roam' = [roam EXCEPT !.work = "running", !.runs = n] PROVE RoamOK'
    BY ZenonT(40), <1>0, <2>2 DEF RoamOK
  <2> QED BY ZenonT(40), <1>2, <2>1, <2>2 DEF RoamExpire
<1>3. CASE roam_handler
  <2> DEFINE grow == roam.cnt >= Period.runs
             x    == IF grow THEN NextPeriod(roam.time_out) ELSE roam.time_out
             n    == (IF grow THEN 0 ELSE roam.cnt) + 1
  <2>1. roam.time_out \in Nat /\ roam.cnt \in 1 .. Period.runs /\ Period.runs \in Nat \ {0}
    BY ZenonT(40), <1>0, WlanAssumption DEF RoamOK
  <2>2. x \in Nat /\ n \in 1 .. Period.runs
    BY <2>1, WlanAssumption DEF NextPeriod
  <2>3. \E w \in {"idle", "scheduled"} : roam' = [[roam EXCEPT !.time_out = x, !.cnt = n] EXCEPT !.work = w]
    <3> HIDE DEF x, n
    <3>1. [roam EXCEPT !.time_out = x, !.cnt = n].work = roam.work
      BY ZenonT(40), <1>0 DEF RoamOK
    <3>2. \/ roam' = [[roam EXCEPT !.time_out = x, !.cnt = n] EXCEPT !.work = "scheduled"]
          \/ roam' = [[roam EXCEPT !.time_out = x, !.cnt = n] EXCEPT !.work = "idle"]
      BY ZenonT(40), <1>3, <3>1 DEF roam_handler, x, n
    <3> QED BY ZenonT(40), <3>2
  <2> HIDE DEF x, n
  <2>4. PICK w \in {"idle", "scheduled"} : roam' = [[roam EXCEPT !.time_out = x, !.cnt = n] EXCEPT !.work = w]
    BY ZenonT(40), <2>3
  <2>5. roam' \in [work : {"idle", "scheduled", "running", "running_again"},
                   time_out : Nat, cnt : 1 .. Period.runs, runs : Nat]
    BY ZenonT(40), <1>0, <2>2, <2>4 DEF RoamOK
  <2> QED BY ZenonT(40), <2>5 DEF RoamOK
<1>4. CASE \E t \in Apps : CancelRoaming(t)
  BY ZenonT(40), <1>0, <1>4 DEF CancelRoaming, Cancelled, RoamOK
<1>5. CASE wmi_join_comp_event \/ wmi_disconnect_event
  <2>1. PICK ctx : FollowLink(ctx) \/ UNCHANGED roam
    BY ZenonT(40), <1>5 DEF wmi_join_comp_event, wmi_disconnect_event
  <2>2. UNCHANGED roam \/ roam' = StartedRoam \/ roam' = Cancelled
    BY ZenonT(40), <2>1 DEF FollowLink
  <2>3. Period.first \in Nat /\ 1 \in 1 .. Period.runs
    <3>1. Period.first \in Nat /\ Period.runs \in Nat \ {0}
      BY ZenonT(40), WlanAssumption
    <3> QED BY <3>1
  <2>4. CASE roam' = StartedRoam
    BY ZenonT(40), <1>0, <2>3, <2>4 DEF StartedRoam, RoamOK
  <2>5. CASE roam' = Cancelled
    BY ZenonT(40), <1>0, <2>5 DEF Cancelled, RoamOK
  <2> QED BY ZenonT(40), <1>1, <2>2, <2>4, <2>5
<1>6. CASE \/ \E t \in Apps : AppStep(t) /\ ~CancelRoaming(t)
           \/ \E t \in Apps : \E op \in Ops[t] : \E a \in Args(op) : Call(t, op, a)
  BY ZenonT(60), <1>1, <1>6 DEF AppStep, WLAN_QAPI_LOCK, wmi_set_passphrase, qapi_WLAN_Disconnect,
     wmi_connect, wmi_disconnect, wmi_start_scan, wlan_get_scan_results, SendCommand,
     StoreParamId, qurt_signal_wait, k_event_clear, FinishCall, wlan_drv_roaming_stop,
     ClearProfile, ClearSettings, SetProfile, Call
<1>7. CASE \/ WfmStep /\ ~wmi_join_comp_event /\ ~wmi_disconnect_event
           \/ FwStep \/ (\E e \in {"disc", "peer"} : FwEvent(e))
  BY ZenonT(60), <1>1, <1>7 DEF WfmStep, FwStep, FwAnswer, FwEvent, WfmCommand, WfmEvent,
     wmi_report_event, wmi_enabled_event, wmi_scan_comp_event, WakeScanResults,
     wmi_peer_event, WakeDisconnect, EndDisconnect, wmi_set_param_event, wmi_event_buf_free
<1> QED BY ZenonT(40), <1>2, <1>3, <1>4, <1>5, <1>6, <1>7 DEF Next

\* The task is where its step says, with the event it had or the one it takes.
LEMMA WfmType ==
  ASSUME TypeOK, Next
  PROVE  WfmOK'
<1>0. WfmOK /\ PipeOK
  BY ZenonT(40) DEF TypeOK
<1>1. CASE UNCHANGED wfm
  BY ZenonT(40), <1>0, <1>1 DEF WfmOK
<1>2. ASSUME NEW l \in WfmLabels \ {"recv"}, wfm.at # "recv", WfmTo(l) PROVE WfmOK'
  BY ZenonT(40), <1>0, <1>2 DEF WfmOK, WfmTo
<1>3. CASE WfmEvent
  <2>1. Head(pipe) \in Messages
    BY ZenonT(40), <1>0, <1>3, TakeIs DEF WfmEvent
  <2>2. Head(pipe) \in Queued
    BY ZenonT(40), <1>3, <2>1 DEF WfmEvent, Messages, Commands
  <2>3. wfm' = [at |-> "dispatch", evt |-> Head(pipe), polls |-> 0]
    BY ZenonT(40), <1>3 DEF WfmEvent
  <2> QED BY ZenonT(40), <2>2, <2>3 DEF WfmOK, WfmLabels
<1>4. CASE wmi_event_buf_free
  <2>1. wfm' = [at |-> "recv", evt |-> None, polls |-> 0]
    BY ZenonT(40), <1>4 DEF wmi_event_buf_free
  <2> QED BY ZenonT(40), <2>1 DEF WfmOK, WfmLabels
<1>5. CASE wmi_set_param_event
  <2>1. wfm.at # "recv"
    BY ZenonT(40), <1>5 DEF wmi_set_param_event, Dispatch
  <2>2. CASE WfmTo("free")
    BY ZenonT(40), <1>2, <2>1, <2>2 DEF WfmLabels
  <2>3. CASE wfm' = [wfm EXCEPT !.at = "poll", !.polls = wfm.polls + 1]
    <3>1. wfm.polls + 1 \in Nat
      BY <1>0 DEF WfmOK
    <3>2. ASSUME NEW n \in Nat, wfm' = [wfm EXCEPT !.at = "poll", !.polls = n] PROVE WfmOK'
      BY ZenonT(40), <1>0, <2>1, <3>2 DEF WfmOK, WfmLabels
    <3> QED BY ZenonT(40), <2>3, <3>1, <3>2
  <2> QED BY ZenonT(40), <1>5, <2>2, <2>3 DEF wmi_set_param_event, SetParamDone
<1>6. CASE \/ wmi_report_event \/ wmi_enabled_event \/ wmi_scan_comp_event \/ WakeScanResults
           \/ wmi_join_comp_event \/ wmi_peer_event \/ WakeDisconnect \/ EndDisconnect
           \/ wmi_disconnect_event
  <2>1. wfm.at # "recv"
    BY ZenonT(40), <1>6 DEF wmi_report_event, wmi_enabled_event, wmi_scan_comp_event, WakeScanResults,
       wmi_join_comp_event, wmi_peer_event, WakeDisconnect, EndDisconnect, wmi_disconnect_event, Dispatch
  <2>2. WfmTo("free") \/ WfmTo("signal") \/ WfmTo("finish") \/ WfmTo("scanned")
    BY ZenonT(40), <1>6 DEF wmi_report_event, wmi_enabled_event, wmi_scan_comp_event, WakeScanResults,
       wmi_join_comp_event, wmi_peer_event, WakeDisconnect, EndDisconnect, wmi_disconnect_event
  <2> QED BY ZenonT(40), <1>2, <2>1, <2>2 DEF WfmLabels
<1>7. CASE \/ \E t \in Apps : AppStep(t)
           \/ \E t \in Apps : \E op \in Ops[t] : \E a \in Args(op) : Call(t, op, a)
  BY ZenonT(60), <1>1, <1>7 DEF AppStep, WLAN_QAPI_LOCK, wmi_set_passphrase, qapi_WLAN_Disconnect,
     wmi_connect, wmi_disconnect, wmi_start_scan, wlan_get_scan_results, SendCommand,
     StoreParamId, qurt_signal_wait, k_event_clear, FinishCall, wlan_drv_roaming_stop, CancelRoaming,
     ClearProfile, ClearSettings, SetProfile, Call
<1>8. CASE WfmCommand \/ FwStep \/ RoamExpire \/ roam_handler \/ \E e \in {"disc", "peer"} : FwEvent(e)
  BY ZenonT(60), <1>1, <1>8 DEF FwStep, FwAnswer, FwEvent, WfmCommand, RoamExpire, roam_handler
<1> QED BY ZenonT(40), <1>3, <1>4, <1>5, <1>6, <1>7, <1>8 DEF Next, WfmStep

\* What the firmware hands to the relay is a payload.
LEMMA PayloadIs ==
  ASSUME FwOK
  PROVE  /\ \A o \in fw.owes, ok \in BOOLEAN : Payload(o.e, o.m, ok) \in Payloads
         /\ \A e \in {"disc", "peer"} : Payload(e, Unsolicited, FALSE) \in Payloads
<1>1. ASSUME NEW o \in fw.owes, NEW ok \in BOOLEAN PROVE Payload(o.e, o.m, ok) \in Payloads
  <2>1. o \in Owed
    BY DEF FwOK
  <2>2. o.e \in Events /\ o.m \in Commands /\ Fits(o.e, o.m.cmd)
    BY ZenonT(40), <2>1 DEF Owed
  <2>3. o.m.cmd \in Sent /\ o.m.by \in By /\ o.m.n \in Nat /\ o.m.arg \in Values
    BY ZenonT(40), <2>2 DEF Commands
  <2> HIDE DEF Events, Sent, By, Values, Fits
  <2> QED BY ZenonT(40), <2>2, <2>3 DEF Payload, Payloads
<1>2. ASSUME NEW e \in {"disc", "peer"} PROVE Payload(e, Unsolicited, FALSE) \in Payloads
  <2>1. Payload(e, Unsolicited, FALSE) = [e |-> e, cmd |-> None, by |-> "fw", n |-> 0, ok |-> FALSE, arg |-> None]
    BY ZenonT(40) DEF Payload, Unsolicited
  <2>2. e \in Events /\ "fw" \in By /\ None \in Values /\ Fits(e, None)
    BY ZenonT(40) DEF Events, By, Values, Fits
  <2>3. 0 \in Nat
    OBVIOUS
  <2> HIDE DEF Events, Sent, By, Values, Fits
  <2> DEFINE p == [e |-> e, cmd |-> None, by |-> "fw", n |-> 0, ok |-> FALSE, arg |-> None]
  <2>4. p \in [e : Events, cmd : Sent \cup {None}, by : By, n : Nat, ok : BOOLEAN, arg : Values]
    BY ZenonT(40), <2>2, <2>3
  <2>5. p.e = e /\ p.cmd = None
    BY ZenonT(40)
  <2> HIDE DEF p
  <2>6. p \in Payloads
    BY ZenonT(40), <2>2, <2>4, <2>5 DEF Payloads
  <2> QED BY ZenonT(40), <2>1, <2>6 DEF p
<1> QED BY ZenonT(40), <1>1, <1>2

LEMMA FwType ==
  ASSUME TypeOK, Next
  PROVE  FwOK'
<1>0. FwOK /\ PipeOK
  BY DEF TypeOK
<1>1. CASE UNCHANGED fw
  BY ZenonT(40), <1>0, <1>1 DEF FwOK
<1>2. CASE WfmCommand
  <2> DEFINE m == Head(pipe)
  <2>1. m \in Commands
    <3>1. m \in Messages /\ m.kind = "cmd"
      BY ZenonT(40), <1>0, <1>2, TakeIs DEF WfmCommand
    <3> QED BY ZenonT(40), <3>1 DEF Messages, Queued
  <2> HIDE DEF m
  <2>2. m.cmd \in Sent
    BY ZenonT(40), <2>1 DEF Commands
  <2>3. ASSUME NEW e \in Events, Fits(e, m.cmd) PROVE [e |-> e, m |-> m] \in Owed
    BY ZenonT(40), <2>1, <2>3 DEF Owed
  <2>4. PICK W \in SUBSET Owed : fw' = [fw EXCEPT !.owes = W]
    <3>1. CASE m.cmd = "pass"
      BY ZenonT(40), <1>0, <1>2, <3>1 DEF FwOK, WfmCommand, m
    <3>2. CASE m.cmd = "connect"
      <4>1. [e |-> "join", m |-> m] \in Owed
        BY ZenonT(40), <2>3, <3>2 DEF Fits, Events
      <4>2. fw' = [fw EXCEPT !.owes = fw.owes \cup {[e |-> "join", m |-> m]}]
        BY ZenonT(40), <1>2, <3>2 DEF WfmCommand, m
      <4> QED BY ZenonT(40), <1>0, <4>1, <4>2 DEF FwOK
    <3>3. CASE m.cmd = "disconnect"
      <4>1. [e |-> "join", m |-> m] \in Owed /\ [e |-> "disc", m |-> m] \in Owed
        BY ZenonT(40), <2>3, <3>3 DEF Fits, Events
      <4>2. fw' = [fw EXCEPT !.owes = {o \in fw.owes : o.m.cmd # "connect"}
                     \cup {[e |-> IF c.opmode = "ap" THEN "join" ELSE "disc", m |-> m]}]
        BY ZenonT(40), <1>2, <3>3 DEF WfmCommand, m
      <4> QED BY ZenonT(40), <1>0, <4>1, <4>2 DEF FwOK
    <3>4. CASE m.cmd = "scan"
      <4>1. [e |-> "scan_start", m |-> m] \in Owed
        BY ZenonT(40), <2>3, <3>4 DEF Fits, Events
      <4>2. fw' = [fw EXCEPT !.owes = fw.owes \cup {[e |-> "scan_start", m |-> m]}]
        BY ZenonT(40), <1>2, <3>4 DEF WfmCommand, m
      <4> QED BY ZenonT(40), <1>0, <4>1, <4>2 DEF FwOK
    <3>5. CASE m.cmd \notin {"pass", "connect", "disconnect", "scan"}
      <4>1. [e |-> m.cmd, m |-> m] \in Owed
        BY ZenonT(40), <2>2, <2>3, <3>5 DEF Fits, Events, Sent
      <4>2. fw' = [fw EXCEPT !.owes = fw.owes \cup {[e |-> m.cmd, m |-> m]}]
        BY ZenonT(40), <1>2, <3>5 DEF WfmCommand, m
      <4> QED BY ZenonT(40), <1>0, <4>1, <4>2 DEF FwOK
    <3> QED BY ZenonT(40), <3>1, <3>2, <3>3, <3>4, <3>5
  <2> QED BY ZenonT(40), <1>0, <2>4 DEF FwOK
<1>3. ASSUME NEW W \in SUBSET Owed, NEW b \in BOOLEAN, fw' = [fw EXCEPT !.owes = W, !.link = b]
      PROVE  FwOK'
  BY ZenonT(40), <1>0, <1>3 DEF FwOK
<1>4. ASSUME NEW o \in fw.owes, NEW ok \in BOOLEAN, FwAnswer(o, ok) PROVE FwOK'
  <2>1. o \in Owed /\ fw.owes \subseteq Owed /\ fw.link \in BOOLEAN
    BY ZenonT(40), <1>0 DEF FwOK
  <2>2. o.e = "scan_start" => [e |-> "scan_comp", m |-> o.m] \in Owed
    BY ZenonT(40), <2>1 DEF Owed, Fits, Events
  <2> DEFINE W == (fw.owes \ {o}) \cup
                    (IF o.e = "scan_start" THEN {[e |-> "scan_comp", m |-> o.m]} ELSE {})
             b == CASE o.e = "join" -> ok [] o.e = "disc" -> FALSE [] OTHER -> fw.link
  <2>3. W \in SUBSET Owed /\ b \in BOOLEAN
    BY ZenonT(40), <2>1, <2>2
  <2>4. fw' = [fw EXCEPT !.owes = W, !.link = b]
    BY ZenonT(40), <1>4 DEF FwAnswer
  <2> HIDE DEF W, b
  <2> QED BY ZenonT(40), <1>3, <2>3, <2>4
<1>5. ASSUME NEW e \in {"disc", "peer"}, FwEvent(e) PROVE FwOK'
  <2>1. fw.losses + 1 \in Nat
    BY <1>0 DEF FwOK
  <2>2. ASSUME NEW n \in Nat, NEW b \in BOOLEAN, fw' = [fw EXCEPT !.link = b, !.losses = n] PROVE FwOK'
    BY ZenonT(40), <1>0, <2>2 DEF FwOK
  <2> QED BY ZenonT(40), <1>5, <2>1, <2>2 DEF FwEvent
<1>6. CASE \/ \E t \in Apps : AppStep(t)
           \/ \E t \in Apps : \E op \in Ops[t] : \E a \in Args(op) : Call(t, op, a)
  BY ZenonT(60), <1>1, <1>6 DEF AppStep, WLAN_QAPI_LOCK, wmi_set_passphrase, qapi_WLAN_Disconnect,
     wmi_connect, wmi_disconnect, wmi_start_scan, wlan_get_scan_results, SendCommand,
     StoreParamId, qurt_signal_wait, k_event_clear, FinishCall, wlan_drv_roaming_stop, CancelRoaming,
     ClearProfile, ClearSettings, SetProfile, Call
<1>7. CASE RoamExpire \/ roam_handler \/ (WfmStep /\ ~WfmCommand)
  BY ZenonT(60), <1>1, <1>7 DEF WfmStep, WfmEvent, RoamExpire, roam_handler,
     wmi_report_event, wmi_enabled_event, wmi_scan_comp_event, WakeScanResults, wmi_join_comp_event,
     wmi_peer_event, WakeDisconnect, EndDisconnect, wmi_disconnect_event, wmi_set_param_event,
     wmi_event_buf_free
<1> QED BY ZenonT(40), <1>2, <1>4, <1>5, <1>6, <1>7 DEF Next, FwStep

\* Sending a command changes the history by the loss and by the answers.
LEMMA HistType ==
  ASSUME TypeOK, Next
  PROVE  HistOK'
<1> DEFINE H == [answered : [Apps -> BOOLEAN], lost : BOOLEAN, raced : BOOLEAN,
                 overtaken : BOOLEAN, scan : Scans, overlap : BOOLEAN, partial : BOOLEAN]
<1>0. hist \in H /\ CtxOK /\ RoamOK /\ HistOK /\ WfmOK /\ AppOK
  BY ZenonT(40) DEF TypeOK, HistOK
<1>1. CASE UNCHANGED hist
  BY ZenonT(40), <1>0, <1>1 DEF HistOK
<1>2. ASSUME NEW b \in BOOLEAN,
             \/ hist' = [hist EXCEPT !.lost = b] \/ hist' = [hist EXCEPT !.raced = b]
             \/ hist' = [hist EXCEPT !.overtaken = b] \/ hist' = [hist EXCEPT !.partial = b]
      PROVE  HistOK'
  BY ZenonT(40), <1>0, <1>2 DEF HistOK
<1>a. ASSUME NEW f \in [Apps -> BOOLEAN], hist' = [hist EXCEPT !.answered = f] PROVE HistOK'
  BY ZenonT(40), <1>0, <1>a DEF HistOK
<1>b. ASSUME NEW b \in BOOLEAN, NEW f \in [Apps -> BOOLEAN],
             hist' = [hist EXCEPT !.lost = b, !.answered = f]
      PROVE  HistOK'
  BY ZenonT(40), <1>0, <1>b DEF HistOK
<1>d. ASSUME NEW b \in BOOLEAN, NEW x \in Scans, hist' = [hist EXCEPT !.scan = x, !.overlap = b]
      PROVE  HistOK'
  BY ZenonT(40), <1>0, <1>d DEF HistOK
<1>3. ASSUME NEW m, wmi_cmd_send(m) PROVE HistOK'
  <2>1. (hist.lost \/ PipeFull) \in BOOLEAN
    OBVIOUS
  <2>2. [t \in Apps |-> hist.answered[t] /\ t # m.by] \in [Apps -> BOOLEAN]
    OBVIOUS
  <2>3. hist' = [hist EXCEPT !.lost = hist.lost \/ PipeFull,
                             !.answered = [t \in Apps |-> hist.answered[t] /\ t # m.by]]
    BY ZenonT(40), <1>3 DEF wmi_cmd_send
  <2> QED BY ZenonT(40), <1>b, <2>1, <2>2, <2>3
<1>4. ASSUME NEW p, wmi_event_relay(p) PROVE HistOK'
  <2>1. \E b \in BOOLEAN : hist' = [hist EXCEPT !.lost = b]
    BY ZenonT(40), <1>4 DEF wmi_event_relay
  <2> QED BY ZenonT(40), <1>2, <2>1
<1>5. ASSUME hist' = [hist EXCEPT !.answered = Answers(Evt)] PROVE HistOK'
  <2>1. Answers(Evt) \in [Apps -> BOOLEAN]
    <3>1. \A t \in Apps : hist.answered[t] \in BOOLEAN
      BY ZenonT(40), <1>0
    <3> QED BY ZenonT(40), <3>1 DEF Answers
  <2> HIDE DEF Answers
  <2> QED BY ZenonT(40), <1>a, <1>5, <2>1
<1>6. CASE \E t \in Apps : AppStep(t)
  <2>1. PICK t \in Apps : AppStep(t)
    BY ZenonT(40), <1>6
  <2>2. \/ UNCHANGED hist \/ (\E m : wmi_cmd_send(m))
        \/ (\E b \in BOOLEAN : hist' = [hist EXCEPT !.raced = b])
        \/ (\E b \in BOOLEAN : hist' = [hist EXCEPT !.overtaken = b])
        \/ (\E b \in BOOLEAN : hist' = [hist EXCEPT !.partial = b])
        \/ wmi_start_scan(t)
    BY ZenonT(60), <2>1 DEF AppStep, WLAN_QAPI_LOCK, wmi_set_passphrase, qapi_WLAN_Disconnect,
       wmi_connect, wmi_disconnect, wlan_get_scan_results, SendCommand, StoreParamId,
       qurt_signal_wait, k_event_clear, FinishCall, wlan_drv_roaming_stop, CancelRoaming,
       ClearProfile, ClearSettings, SetProfile
  <2>3. CASE wmi_start_scan(t)
    <3>1. <<t, app[t].n>> \in Scans
      BY ZenonT(40), <1>0 DEF AppOK, Threads, Scans, By
    <3>2. hist.overlap \in BOOLEAN /\ c.scan_in_progress \in BOOLEAN
      BY ZenonT(40), <1>0 DEF CtxOK, Contexts
    <3>3. hist' = [hist EXCEPT !.scan = <<t, app[t].n>>, !.overlap = hist.overlap \/ c.scan_in_progress]
      BY ZenonT(40), <2>3 DEF wmi_start_scan
    <3>4. (hist.overlap \/ c.scan_in_progress) \in BOOLEAN
      BY ZenonT(40), <3>2
    <3> QED BY ZenonT(40), <1>d, <3>1, <3>3, <3>4
  <2> QED BY ZenonT(40), <1>1, <1>2, <1>3, <2>2, <2>3
<1>7. CASE roam_handler
  <2>1. UNCHANGED hist \/ \E b \in BOOLEAN : hist' = [hist EXCEPT !.lost = b]
    BY ZenonT(40), <1>7 DEF roam_handler
  <2> QED BY ZenonT(40), <1>1, <1>2, <2>1
<1>8. CASE FwStep \/ \E e \in {"disc", "peer"} : FwEvent(e)
  BY ZenonT(40), <1>4, <1>8 DEF FwStep, FwAnswer, FwEvent
<1>9. CASE wmi_report_event \/ wmi_enabled_event \/ wmi_set_param_event
  <2>1. \/ UNCHANGED hist \/ hist' = [hist EXCEPT !.answered = Answers(Evt)]
        \/ hist' = [hist EXCEPT !.lost = TRUE]
    BY ZenonT(40), <1>9 DEF wmi_report_event, wmi_enabled_event, wmi_set_param_event, SetParamDone
  <2> QED BY ZenonT(40), <1>1, <1>2, <1>5, <2>1
<1>10. CASE wmi_join_comp_event \/ wmi_disconnect_event
  <2>1. UNCHANGED hist \/ \E b \in BOOLEAN : hist' = [hist EXCEPT !.overtaken = b]
    BY ZenonT(40), <1>10 DEF wmi_join_comp_event, wmi_disconnect_event, FollowLink
  <2> QED BY ZenonT(40), <1>1, <1>2, <2>1
<1>11. CASE \/ RoamExpire \/ WfmCommand \/ WfmEvent \/ wmi_scan_comp_event \/ WakeScanResults
            \/ wmi_peer_event \/ WakeDisconnect \/ EndDisconnect \/ wmi_event_buf_free
            \/ \E t \in Apps : \E op \in Ops[t] : \E a \in Args(op) : Call(t, op, a)
  BY ZenonT(60), <1>1, <1>11 DEF Call, RoamExpire, WfmCommand, WfmEvent, wmi_scan_comp_event,
     WakeScanResults, wmi_peer_event, WakeDisconnect, EndDisconnect, wmi_event_buf_free
<1> QED BY ZenonT(40), <1>6, <1>7, <1>8, <1>9, <1>10, <1>11 DEF Next, WfmStep

\* The signal bits, the two mutexes.
LEMMA RestType ==
  ASSUME TypeOK, Next
  PROVE  /\ (signals \subseteq Bits)'
         /\ (block \in Apps \cup {None} /\ cxt \in {"wfm", None})'
<1>0. signals \subseteq Bits /\ block \in Apps \cup {None} /\ cxt \in {"wfm", None} /\ WfmOK
  BY ZenonT(40) DEF TypeOK
<1>1. \A x \in DOMAIN Mask : Mask[x] \in Bits
  BY ZenonT(40) DEF Bits
<1>2. DOMAIN Mask = {"on", "off", "scan", "results", "disconnect", "param", "plain"}
  BY ZenonT(40) DEF Mask
<1>3. CASE \E t \in Apps : AppStep(t)
  <2>1. PICK t \in Apps : AppStep(t)
    BY ZenonT(40), <1>3
  <2>2. /\ UNCHANGED cxt /\ (UNCHANGED block \/ block' = t \/ Return(t))
        /\ UNCHANGED signals \/ k_event_clear(t)
    BY ZenonT(60), <2>1 DEF AppStep, WLAN_QAPI_LOCK, wmi_set_passphrase, qapi_WLAN_Disconnect,
       wmi_connect, wmi_disconnect, wmi_start_scan, wlan_get_scan_results, SendCommand, StoreParamId,
       qurt_signal_wait, k_event_clear, FinishCall, wlan_drv_roaming_stop, CancelRoaming,
       ClearProfile, ClearSettings, SetProfile
  <2>3. block' \in Apps \cup {None}
    BY ZenonT(40), <1>0, <2>2 DEF Return
  <2>4. signals' \subseteq Bits
    BY ZenonT(40), <1>0, <2>2 DEF k_event_clear
  <2> QED BY ZenonT(40), <1>0, <2>2, <2>3, <2>4
<1>4. CASE WfmStep
  <2>1. UNCHANGED block
    BY ZenonT(60), <1>4 DEF WfmStep, WfmEvent, WfmCommand, wmi_report_event, wmi_enabled_event,
       wmi_scan_comp_event, WakeScanResults, wmi_join_comp_event, wmi_peer_event, WakeDisconnect,
       EndDisconnect, wmi_disconnect_event, wmi_set_param_event, wmi_event_buf_free
  <2>2. cxt' \in {cxt, "wfm", None}
    BY ZenonT(60), <1>4 DEF WfmStep, WfmEvent, WfmCommand, wmi_report_event, wmi_enabled_event,
       wmi_scan_comp_event, WakeScanResults, wmi_join_comp_event, wmi_peer_event, WakeDisconnect,
       EndDisconnect, wmi_disconnect_event, wmi_set_param_event, SetParamDone, wmi_event_buf_free
  <2>3. \/ UNCHANGED signals \/ signals' = signals \cup {Mask["results"]}
        \/ signals' = signals \cup {Mask["disconnect"]} \/ signals' = signals \cup {Mask["param"]}
        \/ wmi_report_event \/ wmi_enabled_event
    BY ZenonT(60), <1>4 DEF WfmStep, WfmEvent, WfmCommand, wmi_scan_comp_event, WakeScanResults,
       wmi_join_comp_event, wmi_peer_event, WakeDisconnect, EndDisconnect,
       wmi_disconnect_event, wmi_set_param_event, SetParamDone, wmi_event_buf_free
  <2>4. CASE wmi_report_event
    <3>1. Evt.cmd \in {"scan", "plain"}
      BY ZenonT(40), <1>0, <2>4, EvtIs DEF wmi_report_event, Dispatch, Fits
    <3> QED BY ZenonT(40), <1>0, <1>1, <1>2, <2>1, <2>2, <2>4, <3>1 DEF wmi_report_event
  <2>5. CASE wmi_enabled_event
    <3>1. Evt.e \in {"on", "off"}
      BY ZenonT(40), <2>5 DEF wmi_enabled_event, Dispatch
    <3> QED BY ZenonT(40), <1>0, <1>1, <1>2, <2>1, <2>2, <2>5, <3>1 DEF wmi_enabled_event
  <2> HIDE DEF Mask
  <2> QED BY ZenonT(40), <1>0, <1>1, <1>2, <2>1, <2>2, <2>3, <2>4, <2>5
<1>5. CASE \/ RoamExpire \/ roam_handler \/ FwStep \/ (\E e \in {"disc", "peer"} : FwEvent(e))
           \/ \E t \in Apps : \E op \in Ops[t] : \E a \in Args(op) : Call(t, op, a)
  <2>1. UNCHANGED <<signals, block, cxt>>
    BY ZenonT(60), <1>5 DEF Call, RoamExpire, roam_handler, FwStep, FwAnswer, FwEvent
  <2> QED BY ZenonT(40), <1>0, <2>1
<1> QED BY ZenonT(40), <1>3, <1>4, <1>5 DEF Next

-----------------------------------------------------------------------------
(* The payload buffers.                                                    *)

\* No step but the relay and the release touches a buffer; the queue may move up by
\* one, its head going to the task or to the firmware.
LEMMA SlotsShift ==
  ASSUME PoolOK, SlotInv, UNCHANGED pool, NEW d \in {0, 1}, Len(pipe') \in Nat,
         \A k \in Classes : \A i \in (0 .. Len(pipe))' :
            i \in Pending(k)' => i + d \in Pending(k) /\ Msg(i)' = Msg(i + d)
  PROVE  SlotInv'
<1>2. SUFFICES ASSUME NEW k \in Classes, NEW i \in Pending(k)'
               PROVE  /\ Msg(i)'.slot \in 0 .. BufNum[k] - 1
                      /\ Behind(k, pool[k].wp, Msg(i)'.slot) <= pool[k].used
                      /\ pool[k].slots[Msg(i)'.slot] = Msg(i)'.was
                      /\ \A j \in Pending(k)' : i < j =>
                            Behind(k, pool[k].wp, Msg(j)'.slot) < Behind(k, pool[k].wp, Msg(i)'.slot)
  BY ZenonT(40) DEF SlotInv
<1>3. \A j \in Pending(k)' : j \in Nat /\ j + d \in Pending(k) /\ Msg(j)' = Msg(j + d)
  <2>1. \A j \in Pending(k)' : j \in (0 .. Len(pipe))'
    BY ZenonT(40) DEF Pending
  <2> QED BY <2>1
<1>4. /\ Msg(i + d).slot \in 0 .. BufNum[k] - 1
      /\ Behind(k, pool[k].wp, Msg(i + d).slot) <= pool[k].used
      /\ pool[k].slots[Msg(i + d).slot] = Msg(i + d).was
      /\ \A j \in Pending(k) : i + d < j => Behind(k, pool[k].wp, Msg(j).slot) < Behind(k, pool[k].wp, Msg(i + d).slot)
  BY ZenonT(40), <1>3 DEF SlotInv
<1>5. ASSUME NEW j \in Pending(k)', i < j PROVE Behind(k, pool[k].wp, Msg(j)'.slot) < Behind(k, pool[k].wp, Msg(i)'.slot)
  <2>1. i + d < j + d
    BY <1>3, <1>5
  <2> QED BY ZenonT(40), <1>3, <1>4, <2>1
<1> QED BY ZenonT(40), <1>3, <1>4, <1>5

\* Commands joined the queue, or nothing did.
LEMMA SlotsKept ==
  ASSUME PoolOK, SlotInv, PipeOK, PipeOK', UNCHANGED pool, Extended, wfm'.evt = wfm.evt,
         wfm'.at = "recv" <=> wfm.at = "recv"
  PROVE  SlotInv'
<1>1. Len(pipe) \in Nat /\ Len(pipe') \in Nat
  BY DEF PipeOK
<1>2. ASSUME NEW k \in Classes, NEW i \in (0 .. Len(pipe))', i \in Pending(k)'
      PROVE  i + 0 \in Pending(k) /\ Msg(i)' = Msg(i + 0)
  <2>1. i \in 0 .. Len(pipe') /\ (i = 0 => wfm'.at # "recv") /\ Msg(i)'.kind = "evt" /\ Msg(i)'.class = k
    BY ZenonT(40), <1>2 DEF Pending
  <2>2. Msg(i)' = IF i = 0 THEN wfm'.evt ELSE pipe'[i]
    BY ZenonT(40) DEF Msg
  <2>3. i <= Len(pipe)
    <3>1. ASSUME i > Len(pipe) PROVE FALSE
      <4>1. pipe'[i] \in Commands /\ i # 0
        BY <1>1, <2>1, <3>1 DEF Extended
      <4>2. pipe'[i].kind = "cmd"
        BY ZenonT(40), <4>1 DEF Commands
      <4> QED BY ZenonT(40), <2>1, <2>2, <4>1, <4>2
    <3> QED BY <1>1, <2>1, <3>1
  <2>4. Msg(i)' = Msg(i)
    BY <1>1, <2>1, <2>2, <2>3 DEF Msg, Extended
  <2>5. i \in Pending(k)
    BY <1>1, <2>1, <2>3, <2>4 DEF Pending
  <2> QED BY <2>1, <2>4, <2>5
<1> QED BY ZenonT(40), <1>1, <1>2, SlotsShift

\* The task takes the head of the queue.
LEMMA SlotsTaken ==
  ASSUME TypeOK, SlotInv, WfmCommand \/ WfmEvent
  PROVE  SlotInv' /\ PipeOK'
<1>1. PoolOK /\ PipeOK /\ pipe # <<>> /\ pipe' = Tail(pipe) /\ UNCHANGED pool /\ wfm.at = "recv"
  BY ZenonT(40) DEF TypeOK, WfmCommand, WfmEvent
<1>2. /\ PipeOK' /\ Len(pipe) \in Nat /\ Len(pipe) >= 1 /\ Len(pipe') = Len(pipe) - 1
      /\ \A i \in 1 .. Len(pipe') : pipe'[i] = pipe[i + 1]
      /\ Head(pipe) = pipe[1]
  BY ZenonT(40), <1>1, TakeIs
<1>3. wfm'.at # "recv" => wfm'.evt = Head(pipe)
  BY <1>1 DEF WfmCommand, WfmEvent
<1>4. ASSUME NEW k \in Classes, NEW i \in (0 .. Len(pipe))', i \in Pending(k)'
      PROVE  i + 1 \in Pending(k) /\ Msg(i)' = Msg(i + 1)
  <2>1. i \in 0 .. Len(pipe') /\ (i = 0 => wfm'.at # "recv") /\ Msg(i)'.kind = "evt" /\ Msg(i)'.class = k
    BY ZenonT(40), <1>4 DEF Pending
  <2>2. Msg(i)' = (IF i = 0 THEN wfm'.evt ELSE pipe'[i]) /\ Msg(i + 1) = pipe[i + 1]
    BY <2>1, <1>2 DEF Msg
  <2>3. Msg(i)' = Msg(i + 1)
    <3>1. CASE i = 0
      BY <1>2, <1>3, <2>1, <2>2, <3>1
    <3>2. CASE i # 0
      BY <1>2, <2>1, <2>2, <3>2
    <3> QED BY ZenonT(40), <3>1, <3>2
  <2>4. i + 1 \in 0 .. Len(pipe) /\ i + 1 # 0
    BY <1>2, <2>1
  <2> QED BY ZenonT(40), <2>1, <2>3, <2>4 DEF Pending
<1>5. Len(pipe') \in Nat
  BY <1>2
<1> QED BY ZenonT(40), <1>1, <1>2, <1>4, <1>5, SlotsShift

\* The buffer of the event handled is the oldest of its class: to release it leaves
\* the others where they were.  It is counted, so used does not fall below zero.
LEMMA SlotsFreed ==
  ASSUME TypeOK, SlotInv, wmi_event_buf_free
  PROVE  SlotInv' /\ PoolOK'
<1> DEFINE k == wfm.evt.class
           s == wfm.evt.slot
<1> DEFINE b == [used |-> pool[k].used - 1, wp |-> pool[k].wp, slots |-> [pool[k].slots EXCEPT ![s] = None]]
<1>1. /\ PoolOK /\ PipeOK /\ WfmOK /\ UNCHANGED pipe /\ wfm.at = "free"
      /\ wfm' = [at |-> "recv", evt |-> None, polls |-> 0]
  BY ZenonT(40) DEF TypeOK, wmi_event_buf_free
<1>8. pool' = [pool EXCEPT ![k] = b]
  BY ZenonT(40) DEF wmi_event_buf_free
<1>2. k \in Classes /\ wfm.evt.kind = "evt" /\ Len(pipe) \in Nat
  BY <1>1, EvtIs DEF PipeOK
<1>3. 0 \in Pending(k) /\ Msg(0) = wfm.evt
  BY <1>1, <1>2 DEF Pending, Msg
<1>4. /\ BufNum[k] \in Nat \ {0} /\ pool[k].used \in 0 .. BufNum[k] /\ pool[k].wp \in 0 .. BufNum[k] - 1
      /\ pool[k].slots \in [0 .. BufNum[k] - 1 -> Payloads \cup {None}]
      /\ pool[k] \in [used : 0 .. BufNum[k], wp : 0 .. BufNum[k] - 1,
                      slots : [0 .. BufNum[k] - 1 -> Payloads \cup {None}]]
  BY ZenonT(40), <1>1, <1>2, WlanAssumption DEF PoolOK, Classes
<1>5. /\ s \in 0 .. BufNum[k] - 1 /\ Behind(k, pool[k].wp, s) <= pool[k].used
      /\ \A j \in Pending(k) : 0 < j => Behind(k, pool[k].wp, Msg(j).slot) < Behind(k, pool[k].wp, s)
  BY ZenonT(40), <1>2, <1>3 DEF SlotInv
<1>6. /\ \A x \in 0 .. BufNum[k] - 1 : Behind(k, pool[k].wp, x) \in 1 .. BufNum[k]
      /\ Behind(k, pool[k].wp, s) \in 1 .. BufNum[k]
  <2>1. ASSUME NEW x \in 0 .. BufNum[k] - 1 PROVE Behind(k, pool[k].wp, x) \in 1 .. BufNum[k]
    <3>1. BufNum[k] \in Nat \ {0} /\ pool[k].wp \in 0 .. BufNum[k] - 1
      BY ZenonT(40), <1>4
    <3> QED BY ZenonT(40), <2>1, <3>1, BehindRange DEF Behind
  <2> QED BY ZenonT(40), <1>5, <2>1
<1>7. pool[k].used - 1 \in 0 .. BufNum[k]
  <2> HIDE DEF b, k, s
  <2>1. pool[k].used \in 0 .. BufNum[k] /\ BufNum[k] \in Nat \ {0} /\ Behind(k, pool[k].wp, s) <= pool[k].used
    BY ZenonT(40), <1>4, <1>5
  <2> QED BY <1>6, <2>1
<1>9. b \in [used : 0 .. BufNum[k], wp : 0 .. BufNum[k] - 1,
             slots : [0 .. BufNum[k] - 1 -> Payloads \cup {None}]]
  BY ZenonT(40), <1>4, <1>7
<1>10. /\ pool'[k] = b /\ \A q \in Classes \ {k} : pool'[q] = pool[q]
       /\ pool'[k].used = pool[k].used - 1 /\ pool'[k].wp = pool[k].wp
       /\ \A x \in 0 .. BufNum[k] - 1 : x # s => pool'[k].slots[x] = pool[k].slots[x]
  <2>1. pool'[k] = b /\ \A q \in Classes \ {k} : pool'[q] = pool[q]
    <3> HIDE DEF b, k
    <3> QED BY ZenonT(40), <1>1, <1>2, <1>8 DEF PoolOK
  <2>2. b.used = pool[k].used - 1 /\ b.wp = pool[k].wp /\ b.slots = [pool[k].slots EXCEPT ![s] = None]
    BY ZenonT(40)
  <2> HIDE DEF b, k, s
  <2> QED BY ZenonT(40), <1>4, <2>1, <2>2
<1>11. PoolOK'
  <2> HIDE DEF b, k
  <2> QED BY ZenonT(40), <1>1, <1>2, <1>8, <1>9, <1>10 DEF PoolOK
<1>12. \A q \in Classes : \A i \in Pending(q)' : i \in Pending(q) /\ 0 < i /\ i \in Nat /\ Msg(i)' = Msg(i)
  <2>1. wfm'.at = "recv"
    BY ZenonT(40), <1>1
  <2> QED BY <1>1, <1>2, <2>1 DEF Pending, Msg
<1> HIDE DEF b, k, s
<1>13. \A q \in Classes : pool'[q].wp = pool[q].wp
  BY ZenonT(40), <1>10
<1>14. SUFFICES ASSUME NEW q \in Classes, NEW i \in Pending(q)'
                PROVE  /\ Msg(i).slot \in 0 .. BufNum[q] - 1
                       /\ Behind(q, pool[q].wp, Msg(i).slot) <= pool'[q].used
                       /\ pool'[q].slots[Msg(i).slot] = Msg(i).was
                       /\ \A j \in Pending(q)' : i < j =>
                            Behind(q, pool[q].wp, Msg(j).slot) < Behind(q, pool[q].wp, Msg(i).slot)
  BY ZenonT(40), <1>11, <1>12, <1>13 DEF SlotInv
<1>15. /\ Msg(i).slot \in 0 .. BufNum[q] - 1
       /\ Behind(q, pool[q].wp, Msg(i).slot) <= pool[q].used
       /\ pool[q].slots[Msg(i).slot] = Msg(i).was
       /\ \A j \in Pending(q)' : i < j =>
            Behind(q, pool[q].wp, Msg(j).slot) < Behind(q, pool[q].wp, Msg(i).slot)
  BY ZenonT(40), <1>12 DEF SlotInv
<1>16. CASE q # k
  BY ZenonT(40), <1>10, <1>15, <1>16
<1>17. CASE q = k
  <2>1. Behind(k, pool[k].wp, Msg(i).slot) < Behind(k, pool[k].wp, s) /\ Msg(i).slot \in 0 .. BufNum[k] - 1
    BY ZenonT(40), <1>5, <1>12, <1>15, <1>17
  <2>2. Msg(i).slot # s
    BY <1>5, <1>6, <2>1
  <2>3. Behind(k, pool[k].wp, Msg(i).slot) <= pool[k].used - 1
    BY <1>4, <1>5, <1>6, <2>1
  <2> QED BY ZenonT(40), <1>10, <1>15, <1>17, <2>1, <2>2, <2>3
<1> QED BY ZenonT(40), <1>16, <1>17

\* The relay takes the slot at the write pointer.  It is none of the used ones, as
\* there is one left; all of them move one farther from the write pointer.
LEMMA SlotsRelayed ==
  ASSUME TypeOK, SlotInv, NEW p \in Payloads, wmi_event_relay(p), UNCHANGED wfm
  PROVE  SlotInv' /\ PoolOK' /\ PipeOK'
<1> DEFINE k == ClassOf(p)
           N == BufNum[k]
           w == pool[k].wp
           v == (w + 1) % N
           m == [kind |-> "evt", class |-> k, slot |-> w, was |-> p]
           b == [used |-> pool[k].used + 1, wp |-> v, slots |-> [pool[k].slots EXCEPT ![w] = p]]
<1>1. PoolOK /\ PipeOK /\ WfmOK /\ Len(pipe) \in Nat
  BY DEF TypeOK, PipeOK
<1>2. k \in Classes
  BY ZenonT(40), WlanAssumption DEF ClassOf, Classes
<1>3. /\ N \in Nat \ {0} /\ pool[k].used \in 0 .. N /\ w \in 0 .. N - 1
      /\ pool[k].slots \in [0 .. N - 1 -> Payloads \cup {None}]
  BY ZenonT(40), <1>1, <1>2, WlanAssumption DEF PoolOK, Classes
<1>4. CASE UNCHANGED <<pool, pipe>>
  <2>1. Extended
    BY <1>1, <1>4 DEF Extended
  <2>2. PoolOK' /\ PipeOK'
    BY ZenonT(40), <1>1, <1>4 DEF PoolOK, PipeOK
  <2> QED BY ZenonT(40), <1>1, <1>4, <2>1, <2>2, SlotsKept
<1>5. CASE ~UNCHANGED <<pool, pipe>>
  <2>1. pool[k].used < N /\ pool' = [pool EXCEPT ![k] = b] /\ qurt_pipe_send(m)
    <3>1. ~(pool[k].used >= N) /\ pool' = [pool EXCEPT ![k] = b] /\ qurt_pipe_send(m)
      BY ZenonT(40), <1>5 DEF wmi_event_relay
    <3> HIDE DEF b, m
    <3> QED BY <1>3, <3>1
  <2>2. m \in Messages /\ m.kind = "evt" /\ m.class = k /\ m.slot = w /\ m.was = p
    <3>1. w \in Nat
      BY <1>3
    <3> HIDE DEF k, w
    <3> QED BY ZenonT(40), <1>2, <3>1 DEF Messages, Queued
  <2>3. /\ PipeOK' /\ Len(pipe') \in Nat
        /\ PipeFull => pipe' = pipe
        /\ ~PipeFull => Len(pipe') = Len(pipe) + 1 /\ pipe'[Len(pipe) + 1] = m
        /\ \A i \in 1 .. Len(pipe) : pipe'[i] = pipe[i]
    <3> HIDE DEF m
    <3>1. PipeOK' => Len(pipe') \in Nat
      BY DEF PipeOK
    <3> QED BY ZenonT(40), <1>1, <2>1, <2>2, <3>1, SendIs
  <2>4. v \in 0 .. N - 1 /\ (w + 1 < N => v = w + 1) /\ (w + 1 = N => v = 0)
    <3>1. N \in Nat \ {0} /\ w \in 0 .. N - 1
      BY ZenonT(40), <1>3
    <3> HIDE DEF N, w
    <3> QED BY <3>1
  <2>5. b \in [used : 0 .. BufNum[k], wp : 0 .. BufNum[k] - 1,
               slots : [0 .. BufNum[k] - 1 -> Payloads \cup {None}]]
    <3> HIDE DEF v, w, k
    <3>1. pool[k].used + 1 \in 0 .. BufNum[k]
      BY <1>3, <2>1
    <3>2. [pool[k].slots EXCEPT ![w] = p] \in [0 .. BufNum[k] - 1 -> Payloads \cup {None}]
      BY ZenonT(40), <1>3
    <3>3. v \in 0 .. BufNum[k] - 1
      BY ZenonT(40), <2>4
    <3> QED BY ZenonT(40), <3>1, <3>2, <3>3
  <2>6. /\ b.used = pool[k].used + 1 /\ b.wp = v /\ b.slots[w] = p
        /\ \A x \in 0 .. N - 1 : x # w => b.slots[x] = pool[k].slots[x]
    <3> HIDE DEF v, k
    <3> QED BY ZenonT(40), <1>3
  <2> HIDE DEF b, m, v, w, N, k
  <2>7. pool'[k] = b /\ \A q \in Classes \ {k} : pool'[q] = pool[q]
    BY ZenonT(40), <1>1, <1>2, <2>1 DEF PoolOK
  <2>8. PoolOK'
    BY ZenonT(40), <1>1, <1>2, <2>1, <2>5, <2>7 DEF PoolOK
  <2>9. ASSUME NEW x \in 0 .. N - 1, x # w PROVE Behind(k, v, x) = Behind(k, w, x) + 1
    <3>1. Behind(k, v, x) = (IF x < v THEN v - x ELSE v - x + N) /\ Behind(k, w, x) = IF x < w THEN w - x ELSE w - x + N
      BY ZenonT(40) DEF Behind, N
    <3>2. CASE w + 1 < N
      BY <1>3, <2>4, <2>9, <3>1, <3>2
    <3>3. CASE w + 1 = N
      BY <1>3, <2>4, <2>9, <3>1, <3>3
    <3> QED BY <1>3, <3>2, <3>3
  <2>10. /\ Behind(k, v, w) = 1
         /\ Behind(k, w, w) = N
         /\ \A x \in 0 .. N - 1 : Behind(k, w, x) \in 1 .. N
    BY <1>3, <2>4 DEF Behind, N
  \* Which events are pending.
  <2>11. ASSUME NEW q \in Classes, NEW i \in Pending(q)'
         PROVE  /\ i \in Nat
                /\ \/ i \in Pending(q) /\ Msg(i)' = Msg(i) /\ i <= Len(pipe)
                   \/ q = k /\ i = Len(pipe) + 1 /\ Msg(i)' = m
    <3>1. i \in 0 .. Len(pipe') /\ (i = 0 => wfm.at # "recv") /\ Msg(i)'.kind = "evt" /\ Msg(i)'.class = q
      BY ZenonT(40) DEF Pending
    <3>2. Msg(i)' = IF i = 0 THEN wfm.evt ELSE pipe'[i]
      BY ZenonT(40) DEF Msg
    <3>3. CASE i <= Len(pipe)
      <4>1. Msg(i)' = Msg(i)
        BY <1>1, <2>3, <3>1, <3>2, <3>3 DEF Msg
      <4> QED BY <1>1, <3>1, <3>3, <4>1 DEF Pending
    <3>4. CASE i > Len(pipe)
      <4>1. ~PipeFull /\ i = Len(pipe) + 1 /\ i # 0
        BY <1>1, <2>3, <3>1, <3>4
      <4>2. Msg(i)' = m
        BY ZenonT(40), <2>3, <3>2, <4>1
      <4> QED BY <2>2, <3>1, <4>1, <4>2
    <3> QED BY <1>1, <3>1, <3>3, <3>4
  \* The old ones of this class are not at the write pointer.
  <2>12. ASSUME NEW i \in Pending(k)
         PROVE  /\ Msg(i).slot \in 0 .. N - 1 /\ Msg(i).slot # w
                /\ Behind(k, v, Msg(i).slot) = Behind(k, w, Msg(i).slot) + 1
                /\ Behind(k, w, Msg(i).slot) \in 1 .. pool[k].used
                /\ b.slots[Msg(i).slot] = Msg(i).was
                /\ \A j \in Pending(k) : i < j =>
                     Behind(k, w, Msg(j).slot) < Behind(k, w, Msg(i).slot)
    <3>1. /\ Msg(i).slot \in 0 .. N - 1 /\ Behind(k, w, Msg(i).slot) <= pool[k].used
          /\ pool[k].slots[Msg(i).slot] = Msg(i).was
          /\ \A j \in Pending(k) : i < j =>
                     Behind(k, w, Msg(j).slot) < Behind(k, w, Msg(i).slot)
      BY ZenonT(40), <1>2 DEF SlotInv, N, w
    <3>2. Msg(i).slot # w /\ Behind(k, w, Msg(i).slot) \in 1 .. pool[k].used
      BY <1>3, <2>1, <2>10, <3>1
    <3> QED BY ZenonT(40), <2>6, <2>9, <3>1, <3>2
  <2>13. SUFFICES ASSUME NEW q \in Classes, NEW i \in Pending(q)'
                  PROVE  /\ Msg(i)'.slot \in 0 .. BufNum[q] - 1
                         /\ Behind(q, pool'[q].wp, Msg(i)'.slot) <= pool'[q].used
                         /\ pool'[q].slots[Msg(i)'.slot] = Msg(i)'.was
                         /\ \A j \in Pending(q)' : i < j =>
                              Behind(q, pool'[q].wp, Msg(j)'.slot) < Behind(q, pool'[q].wp, Msg(i)'.slot)
    BY ZenonT(40), <2>3, <2>8 DEF SlotInv
  <2>14. CASE q # k
    <3>1. \A j \in Pending(q)' : j \in Pending(q) /\ Msg(j)' = Msg(j)
      BY ZenonT(40), <2>11, <2>14
    <3> QED BY <2>7, <2>14, <3>1 DEF SlotInv
  <2>15. CASE q = k /\ i = Len(pipe) + 1 /\ Msg(i)' = m
    <3>1. \A j \in Pending(q)' : ~(i < j)
      BY <1>1, <2>11, <2>15
    <3>2. Msg(i)'.slot = w /\ Msg(i)'.was = p /\ pool'[q].wp = v /\ pool'[q].used = pool[k].used + 1
          /\ pool'[q].slots[w] = p
      BY ZenonT(40), <2>2, <2>6, <2>7, <2>15
    <3>3. w \in 0 .. BufNum[q] - 1 /\ Behind(q, v, w) <= pool[k].used + 1
      BY <1>3, <2>10, <2>15 DEF N
    <3> QED BY ZenonT(40), <3>1, <3>2, <3>3
  <2>16. CASE q = k /\ i \in Pending(q) /\ Msg(i)' = Msg(i) /\ i <= Len(pipe)
    <3>1. /\ Msg(i)'.slot \in 0 .. BufNum[q] - 1 /\ pool'[q] = b
          /\ Behind(k, v, Msg(i)'.slot) = Behind(k, w, Msg(i).slot) + 1
          /\ Behind(k, w, Msg(i).slot) \in 1 .. pool[k].used
          /\ b.slots[Msg(i)'.slot] = Msg(i)'.was
      BY ZenonT(40), <2>7, <2>12, <2>16 DEF N
    <3>4. /\ pool'[q].wp = v /\ pool'[q].used = pool[k].used + 1 /\ pool[k].used \in Nat
          /\ Behind(q, v, Msg(i)'.slot) = Behind(k, w, Msg(i).slot) + 1
      <4>1. pool[k].used \in Nat
        BY <1>3
      <4> QED BY ZenonT(40), <2>6, <2>16, <3>1, <4>1
    <3>5. Behind(k, w, Msg(i).slot) \in 1 .. pool[k].used
      BY ZenonT(40), <3>1
    <3> HIDE DEF Behind, Msg
    <3>2. Behind(q, pool'[q].wp, Msg(i)'.slot) <= pool'[q].used
      BY <3>4, <3>5
    <3>3. ASSUME NEW j \in Pending(q)', i < j
          PROVE  Behind(q, pool'[q].wp, Msg(j)'.slot) < Behind(q, pool'[q].wp, Msg(i)'.slot)
      <4>1. CASE j \in Pending(q) /\ Msg(j)' = Msg(j)
        <5>1. /\ Behind(k, v, Msg(j)'.slot) = Behind(k, w, Msg(j).slot) + 1
              /\ Behind(k, w, Msg(j).slot) \in 1 .. pool[k].used
              /\ Behind(k, w, Msg(j).slot) < Behind(k, w, Msg(i).slot)
          BY ZenonT(40), <2>12, <2>16, <3>3, <4>1
        <5>2. Behind(q, v, Msg(j)'.slot) = Behind(k, w, Msg(j).slot) + 1
          BY ZenonT(40), <2>16, <5>1
        <5> QED BY <3>4, <3>5, <5>1, <5>2
      <4>2. CASE Msg(j)' = m
        <5>1. Behind(q, v, Msg(j)'.slot) = 1
          BY ZenonT(40), <2>2, <2>10, <2>16, <4>2
        <5> QED BY <3>4, <3>5, <5>1
      <4> QED BY ZenonT(40), <2>11, <4>1, <4>2
    <3> QED BY ZenonT(40), <3>1, <3>2, <3>3
  <2> QED BY ZenonT(40), <2>11, <2>14, <2>15, <2>16
<1> QED BY ZenonT(40), <1>4, <1>5

-----------------------------------------------------------------------------
QueueInv == TypeOK /\ SlotInv

LEMMA QueueInit == Init => QueueInv
<1> SUFFICES ASSUME Init PROVE QueueInv
  OBVIOUS
<1>1. CtxOK
  BY ZenonT(40) DEF Init, CtxOK, Contexts, Values, Scans
<1>2. RoamOK /\ WfmOK /\ PipeOK
  BY WlanAssumption DEF Init, RoamOK, WfmOK, PipeOK, WfmLabels
<1>3. AppOK
  <2>1. Idle \in Threads
    BY ZenonT(40) DEF Idle, Threads, Labels, Values, Flow
  <2> HIDE DEF Idle, Threads
  <2> QED BY ZenonT(40), <2>1 DEF Init, AppOK
<1>4. FwOK
  <2>1. c.connected \in BOOLEAN
    BY ZenonT(40), <1>1 DEF CtxOK, Contexts
  <2>2. fw = [owes |-> {}, link |-> c.connected, losses |-> 0]
    BY ZenonT(40) DEF Init
  <2> HIDE DEF Owed
  <2> QED BY ZenonT(40), <2>1, <2>2 DEF FwOK
<1>5. HistOK
  <2>1. hist = [answered |-> [t \in Apps |-> FALSE], lost |-> FALSE, raced |-> FALSE,
             overtaken |-> FALSE, scan |-> None, overlap |-> FALSE, partial |-> FALSE]
    BY ZenonT(40) DEF Init
  <2>2. None \in Scans
    BY DEF Scans
  <2> HIDE DEF Scans
  <2> QED BY ZenonT(40), <2>1, <2>2 DEF HistOK
<1>6. PoolOK
  <2>1. \A k \in Classes : BufNum[k] \in Nat \ {0}
    BY ZenonT(40), WlanAssumption DEF Classes
  <2>2. pool = [k \in Classes |->
               [used |-> 0, wp |-> 0, slots |-> [i \in 0 .. BufNum[k] - 1 |-> None]]]
    BY ZenonT(40) DEF Init
  <2>3. ASSUME NEW k \in Classes
        PROVE pool[k] \in [used : 0 .. BufNum[k], wp : 0 .. BufNum[k] - 1,
                           slots : [0 .. BufNum[k] - 1 -> Payloads \cup {None}]]
    <3>1. pool[k] = [used |-> 0, wp |-> 0, slots |-> [i \in 0 .. BufNum[k] - 1 |-> None]]
      BY ZenonT(40), <2>2
    <3>2. 0 \in 0 .. BufNum[k] /\ 0 \in 0 .. BufNum[k] - 1
      BY <2>1
    <3> QED BY <3>1, <3>2
  <2> QED BY ZenonT(40), <2>2, <2>3 DEF PoolOK
<1>7. signals \subseteq Bits /\ block \in Apps \cup {None} /\ cxt \in {"wfm", None}
  BY ZenonT(40) DEF Init
<1>8. SlotInv
  <2>1. \A k \in Classes : Pending(k) = {}
    BY DEF Init, Pending
  <2> QED BY ZenonT(40), <2>1 DEF SlotInv
<1> QED BY ZenonT(40), <1>1, <1>2, <1>3, <1>4, <1>5, <1>6, <1>7, <1>8 DEF QueueInv, TypeOK

LEMMA QueueNext ==
  ASSUME QueueInv, Next
  PROVE  QueueInv'
<1> SUFFICES SlotInv' /\ PoolOK' /\ PipeOK'
  <2>1. TypeOK
    BY DEF QueueInv
  <2> QED BY ZenonT(40), <2>1, AppType, CtxType, RoamType, WfmType, FwType, HistType, RestType DEF QueueInv, TypeOK
<1>0. TypeOK /\ SlotInv /\ PipeOK /\ PoolOK /\ AppOK /\ FwOK /\ Len(pipe) \in Nat
  BY DEF QueueInv, TypeOK, PipeOK
<1>1. ASSUME UNCHANGED pool, Extended, PipeOK', wfm'.evt = wfm.evt, wfm'.at = "recv" <=> wfm.at = "recv"
      PROVE  SlotInv' /\ PoolOK' /\ PipeOK'
  BY ZenonT(40), <1>0, <1>1, SlotsKept DEF PoolOK
<1>2. ASSUME UNCHANGED pipe PROVE Extended /\ PipeOK'
  BY <1>0, <1>2 DEF Extended, PipeOK
<1>3. CASE WfmCommand \/ WfmEvent
  <2>1. UNCHANGED pool
    BY ZenonT(40), <1>3 DEF WfmCommand, WfmEvent
  <2> QED BY ZenonT(40), <1>0, <1>3, <2>1, SlotsTaken DEF PoolOK
<1>4. CASE wmi_event_buf_free
  <2>1. UNCHANGED pipe
    BY ZenonT(40), <1>4 DEF wmi_event_buf_free
  <2> QED BY ZenonT(40), <1>0, <1>2, <1>4, <2>1, SlotsFreed
<1>5. ASSUME NEW o \in fw.owes, NEW ok \in BOOLEAN, FwAnswer(o, ok) PROVE SlotInv' /\ PoolOK' /\ PipeOK'
  BY ZenonT(40), <1>0, <1>5, PayloadIs, SlotsRelayed DEF FwAnswer
<1>6. ASSUME NEW e \in {"disc", "peer"}, FwEvent(e) PROVE SlotInv' /\ PoolOK' /\ PipeOK'
  BY ZenonT(40), <1>0, <1>6, PayloadIs, SlotsRelayed DEF FwEvent
<1>7. CASE roam_handler
  <2>1. UNCHANGED <<pool, wfm>>
    BY ZenonT(40), <1>7 DEF roam_handler
  <2> QED BY ZenonT(40), <1>0, <1>1, <1>7, <2>1, RoamSends
<1>8. CASE \/ RoamExpire \/ \E t \in Apps : \E op \in Ops[t] : \E a \in Args(op) : Call(t, op, a)
  <2>1. UNCHANGED <<pool, wfm, pipe>>
    BY ZenonT(40), <1>8 DEF RoamExpire, Call
  <2> QED BY ZenonT(40), <1>1, <1>2, <2>1
<1>9. ASSUME NEW t \in Apps, AppStep(t) PROVE SlotInv' /\ PoolOK' /\ PipeOK'
  <2>1. UNCHANGED <<pool, wfm>> /\ (UNCHANGED pipe \/ wmi_set_passphrase(t) \/ SendCommand(t))
    BY ZenonT(60), <1>9 DEF AppStep, WLAN_QAPI_LOCK, wmi_set_passphrase, qapi_WLAN_Disconnect,
       wmi_connect, wmi_disconnect, wmi_start_scan, wlan_get_scan_results, SendCommand, StoreParamId,
       qurt_signal_wait, k_event_clear, FinishCall, wlan_drv_roaming_stop, CancelRoaming,
       ClearProfile, ClearSettings, SetProfile
  <2>2. app[t] \in Threads /\ app[t].n \in Nat /\ app[t].arg \in Values /\ t \in By
    BY ZenonT(40), <1>0 DEF AppOK, Threads, By
  <2>3. ASSUME NEW x \in Sent, NEW v \in Values PROVE Command(x, t, app[t].n, v) \in Commands
    BY ZenonT(40), <2>2 DEF Command, Commands
  <2>4. CASE wmi_set_passphrase(t)
    <3>1. qurt_pipe_send(Command("pass", t, app[t].n, None)) /\ "pass" \in Sent /\ None \in Values
      BY ZenonT(40), <2>4 DEF wmi_set_passphrase, wmi_cmd_send, Sent, Values
    <3> QED BY ZenonT(40), <1>0, <1>1, <2>1, <2>3, <3>1, CommandExtends
  <2>5. CASE SendCommand(t)
    <3> DEFINE x == IF app[t].cmd = "commit" THEN "connect" ELSE app[t].cmd
    <3>1. qurt_pipe_send(Command(x, t, app[t].n, app[t].arg))
      BY ZenonT(40), <2>5 DEF SendCommand, wmi_cmd_send
    <3>2. x \in Sent
      BY ZenonT(40), <2>2, <2>5 DEF SendCommand, Threads, Flow, Sent
    <3> HIDE DEF x
    <3> QED BY ZenonT(40), <1>0, <1>1, <2>1, <2>2, <2>3, <3>1, <3>2, CommandExtends
  <2> QED BY ZenonT(40), <1>1, <1>2, <2>1, <2>4, <2>5
<1>10. CASE \/ wmi_report_event \/ wmi_enabled_event \/ wmi_scan_comp_event \/ WakeScanResults
            \/ wmi_join_comp_event \/ wmi_peer_event \/ WakeDisconnect \/ EndDisconnect
            \/ wmi_disconnect_event \/ wmi_set_param_event
  <2>1. UNCHANGED <<pool, pipe>>
    BY ZenonT(40), <1>10 DEF wmi_report_event, wmi_enabled_event, wmi_scan_comp_event, WakeScanResults,
       wmi_join_comp_event, wmi_peer_event, WakeDisconnect, EndDisconnect, wmi_disconnect_event,
       wmi_set_param_event
  <2>2. wfm.at # "recv"
    BY ZenonT(40), <1>10 DEF wmi_report_event, wmi_enabled_event, wmi_scan_comp_event, WakeScanResults,
       wmi_join_comp_event, wmi_peer_event, WakeDisconnect, EndDisconnect, wmi_disconnect_event,
       wmi_set_param_event, Dispatch
  <2>3. WfmOK
    BY ZenonT(40), <1>0 DEF TypeOK
  <2>4. /\ \A l : WfmTo(l) => wfm'.at = l /\ wfm'.evt = wfm.evt
        /\ \A n : wfm' = [wfm EXCEPT !.at = "poll", !.polls = n] => wfm'.at = "poll" /\ wfm'.evt = wfm.evt
    BY ZenonT(40), <2>3 DEF WfmTo, WfmOK
  <2>5. \/ WfmTo("free") \/ WfmTo("signal") \/ WfmTo("finish") \/ WfmTo("scanned")
        \/ \E n : wfm' = [wfm EXCEPT !.at = "poll", !.polls = n]
    BY ZenonT(60), <1>10 DEF wmi_report_event, wmi_enabled_event, wmi_scan_comp_event, WakeScanResults,
       wmi_join_comp_event, wmi_peer_event, WakeDisconnect, EndDisconnect, wmi_disconnect_event,
       wmi_set_param_event, SetParamDone
  <2>6. wfm'.at # "recv" /\ wfm'.evt = wfm.evt
    BY ZenonT(40), <2>4, <2>5
  <2> QED BY ZenonT(40), <1>1, <1>2, <2>1, <2>2, <2>6
<1> QED BY ZenonT(40), <1>3, <1>4, <1>5, <1>6, <1>7, <1>8, <1>9, <1>10 DEF Next, WfmStep, FwStep

\* Every field keeps its type, and the buffers that wmi_event_relay fills stay with
\* their events: qurt_pipe_send and wmi_event_buf_free keep the order of the two.
THEOREM QueueInvariant == Spec => []QueueInv
<1>1. QueueInv /\ UNCHANGED vars => QueueInv'
  <2> SUFFICES ASSUME QueueInv, UNCHANGED vars PROVE QueueInv'
    OBVIOUS
  <2>1. /\ UNCHANGED c /\ UNCHANGED pool /\ UNCHANGED signals /\ UNCHANGED block /\ UNCHANGED cxt
        /\ UNCHANGED pipe /\ UNCHANGED roam /\ UNCHANGED wfm /\ UNCHANGED app /\ UNCHANGED fw /\ UNCHANGED hist
    BY ZenonT(40) DEF vars
  <2>2. TypeOK'
    <3>1. CtxOK' /\ RoamOK' /\ PipeOK' /\ PoolOK'
      BY ZenonT(40), <2>1 DEF QueueInv, TypeOK, CtxOK, RoamOK, PipeOK, PoolOK
    <3>2. AppOK' /\ FwOK' /\ HistOK'
      BY ZenonT(40), <2>1 DEF QueueInv, TypeOK, AppOK, FwOK, HistOK
    <3>3. WfmOK'
      BY ZenonT(40), <2>1 DEF QueueInv, TypeOK, WfmOK
    <3> QED BY ZenonT(40), <2>1, <3>1, <3>2, <3>3 DEF QueueInv, TypeOK
  <2>3. SlotInv'
    <3>1. Extended /\ PoolOK /\ SlotInv /\ PipeOK /\ PipeOK'
      BY <2>1, <2>2 DEF QueueInv, TypeOK, Extended, PipeOK
    <3> QED BY ZenonT(40), <2>1, <3>1, SlotsKept
  <2> QED BY ZenonT(40), <2>2, <2>3 DEF QueueInv
<1> QED BY <1>1, QueueInit, QueueNext, PTL DEF Spec

\* wmi_event_relay never reuses a slot before wmi_event_buf_free.
THEOREM SlotsIntact == Spec => []SlotIntact
<1>1. QueueInv => SlotIntact
  <2> SUFFICES ASSUME QueueInv, NEW m \in ({pipe[i] : i \in DOMAIN pipe} \cup {wfm.evt}) \ {None}, m.kind = "evt"
               PROVE  pool[m.class].slots[m.slot] = m.was
    BY ZenonT(40) DEF SlotIntact
  <2>1. WfmOK /\ PipeOK /\ SlotInv /\ Len(pipe) \in Nat /\ DOMAIN pipe = 1 .. Len(pipe)
    BY DEF QueueInv, TypeOK, PipeOK
  <2>2. ASSUME NEW i \in 0 .. Len(pipe), m = Msg(i), i = 0 => wfm.at # "recv", m.class \in Classes
        PROVE  pool[m.class].slots[m.slot] = m.was
    BY ZenonT(40), <2>1, <2>2 DEF SlotInv, Pending
  <2>3. CASE m = wfm.evt
    <3>1. wfm.at # "recv"
      BY ZenonT(40), <2>1, <2>3 DEF WfmOK
    <3>2. 0 \in 0 .. Len(pipe) /\ m = Msg(0)
      BY <2>1, <2>3 DEF Msg
    <3> QED BY ZenonT(40), <2>1, <2>2, <2>3, <3>1, <3>2, EvtIs
  <2>4. CASE \E i \in DOMAIN pipe : m = pipe[i]
    <3>1. PICK i \in 1 .. Len(pipe) : m = pipe[i]
      BY ZenonT(40), <2>1, <2>4
    <3>2. pipe[i] \in Messages
      BY <2>1 DEF PipeOK, Messages
    <3>3. m \in Queued
      BY ZenonT(40), <3>1, <3>2 DEF Messages, Commands
    <3>4. m.class \in Classes /\ m = Msg(i) /\ i # 0
      BY <2>1, <3>1, <3>3 DEF Queued, Msg
    <3> QED BY <2>1, <2>2, <3>4
  <2> QED BY ZenonT(40), <2>3, <2>4
<1> QED BY <1>1, QueueInvariant, PTL

-----------------------------------------------------------------------------
(* What the steps of each actor leave alone.                               *)

\* The application threads and the roaming work.
Client ==
  \/ \E t \in Apps : AppStep(t)
  \/ \E t \in Apps : \E op \in Ops[t] : \E a \in Args(op) : Call(t, op, a)
  \/ RoamExpire \/ roam_handler

\* The handlers of events in the WMI task.
Handler ==
  \/ wmi_report_event \/ wmi_enabled_event \/ wmi_scan_comp_event \/ WakeScanResults
  \/ wmi_join_comp_event \/ wmi_peer_event \/ WakeDisconnect \/ EndDisconnect
  \/ wmi_disconnect_event \/ wmi_set_param_event

LEMMA NextIs ==
  Next <=> \/ Client \/ Handler \/ WfmCommand \/ WfmEvent \/ wmi_event_buf_free
           \/ FwStep \/ \E e \in {"disc", "peer"} : FwEvent(e)
BY ZenonT(40) DEF Next, WfmStep, Client, Handler

\* What a step of a thread does to the pipe.
LEMMA SendFrame ==
  ASSUME QueueInv, NEW t \in Apps, AppStep(t)
  PROVE  /\ UNCHANGED <<pool, wfm, fw, cxt>> /\ PipeOK' /\ Extended
         /\ \/ UNCHANGED pipe
            \/ /\ wmi_set_passphrase(t)
               /\ wmi_cmd_send(Command("pass", t, app[t].n, None))
            \/ SendCommand(t)
<1>0. PipeOK /\ AppOK /\ Len(pipe) \in Nat
  BY DEF QueueInv, TypeOK, PipeOK
<1>1. /\ UNCHANGED <<pool, wfm, fw, cxt>>
      /\ \/ UNCHANGED pipe
         \/ /\ wmi_set_passphrase(t)
            /\ wmi_cmd_send(Command("pass", t, app[t].n, None))
         \/ SendCommand(t)
  BY ZenonT(60) DEF AppStep, WLAN_QAPI_LOCK, wmi_set_passphrase, qapi_WLAN_Disconnect,
     wmi_connect, wmi_disconnect, wmi_start_scan, wlan_get_scan_results, SendCommand, StoreParamId,
     qurt_signal_wait, k_event_clear, FinishCall, wlan_drv_roaming_stop, CancelRoaming,
     ClearProfile, ClearSettings, SetProfile
<1>2. app[t] \in Threads /\ app[t].n \in Nat /\ app[t].arg \in Values /\ t \in By
  BY ZenonT(40), <1>0 DEF AppOK, Threads, By
<1>3. ASSUME NEW x \in Sent, NEW v \in Values PROVE Command(x, t, app[t].n, v) \in Commands
  BY ZenonT(40), <1>2 DEF Command, Commands
<1>4. CASE wmi_set_passphrase(t)
  <2>1. qurt_pipe_send(Command("pass", t, app[t].n, None)) /\ "pass" \in Sent /\ None \in Values
    BY ZenonT(40), <1>4 DEF wmi_set_passphrase, wmi_cmd_send, Sent, Values
  <2> QED BY ZenonT(40), <1>0, <1>1, <1>3, <2>1, CommandExtends
<1>5. CASE SendCommand(t)
  <2> DEFINE x == IF app[t].cmd = "commit" THEN "connect" ELSE app[t].cmd
  <2>1. qurt_pipe_send(Command(x, t, app[t].n, app[t].arg))
    BY ZenonT(40), <1>5 DEF SendCommand, wmi_cmd_send
  <2>2. x \in Sent
    BY ZenonT(40), <1>2, <1>5 DEF SendCommand, Threads, Flow, Sent
  <2> HIDE DEF x
  <2> QED BY ZenonT(40), <1>0, <1>1, <1>2, <1>3, <2>1, <2>2, CommandExtends
<1>6. CASE UNCHANGED pipe
  BY <1>0, <1>1, <1>6 DEF Extended, PipeOK
<1> QED BY ZenonT(40), <1>1, <1>4, <1>5, <1>6

\* The context after a step of a thread.
LEMMA ThreadCtx ==
  ASSUME TypeOK, NEW t \in Apps, AppStep(t)
  PROVE  /\ c'.connected = c.connected
         /\ ~wmi_start_scan(t) => /\ c'.scan_in_progress = c.scan_in_progress
                                  /\ c'.scan_out = c.scan_out
         /\ ~wlan_get_scan_results(t) => c'.wait_scan_comp_evt = c.wait_scan_comp_evt
         /\ ~wlan_drv_roaming_stop(t) => c'.roaming_started = c.roaming_started
<1>0. c \in Contexts
  BY ZenonT(40) DEF TypeOK, CtxOK
<1>1. /\ \A p : c' = [c EXCEPT !.profile = p] \/ c' = [c EXCEPT !.param_id = p] =>
             /\ c'.connected = c.connected /\ c'.scan_in_progress = c.scan_in_progress
             /\ c'.scan_out = c.scan_out /\ c'.wait_scan_comp_evt = c.wait_scan_comp_evt
             /\ c'.roaming_started = c.roaming_started
      /\ \A p : c' = [c EXCEPT !.opmode = "ap", !.profile = p] =>
             /\ c'.connected = c.connected /\ c'.scan_in_progress = c.scan_in_progress
             /\ c'.scan_out = c.scan_out /\ c'.wait_scan_comp_evt = c.wait_scan_comp_evt
             /\ c'.roaming_started = c.roaming_started
      /\ \A b : c' = [c EXCEPT !.connect_in_progress = b] \/ c' = [c EXCEPT !.disconnect_in_progress = b] =>
             /\ c'.connected = c.connected /\ c'.scan_in_progress = c.scan_in_progress
             /\ c'.scan_out = c.scan_out /\ c'.wait_scan_comp_evt = c.wait_scan_comp_evt
             /\ c'.roaming_started = c.roaming_started
  BY ZenonT(40), <1>0 DEF Contexts
<1>2. CASE wmi_start_scan(t) \/ wlan_get_scan_results(t) \/ wlan_drv_roaming_stop(t)
  BY ZenonT(60), <1>0, <1>2 DEF Contexts, wmi_start_scan, wlan_get_scan_results, wlan_drv_roaming_stop
<1>3. CASE ~(wmi_start_scan(t) \/ wlan_get_scan_results(t) \/ wlan_drv_roaming_stop(t))
  <2>1. \/ UNCHANGED c
        \/ \E p : c' = [c EXCEPT !.profile = p] \/ c' = [c EXCEPT !.param_id = p]
        \/ \E p : c' = [c EXCEPT !.opmode = "ap", !.profile = p]
        \/ \E b : c' = [c EXCEPT !.connect_in_progress = b] \/ c' = [c EXCEPT !.disconnect_in_progress = b]
    BY ZenonT(60), <1>3 DEF AppStep, WLAN_QAPI_LOCK, wmi_set_passphrase, qapi_WLAN_Disconnect,
       wmi_connect, wmi_disconnect, SendCommand, StoreParamId, qurt_signal_wait, k_event_clear,
       FinishCall, CancelRoaming, ClearProfile, ClearSettings, SetProfile
  <2> QED BY ZenonT(40), <1>1, <2>1
<1> QED BY ZenonT(40), <1>2, <1>3

LEMMA ClientFrame ==
  ASSUME QueueInv, Client
  PROVE  /\ Extended /\ PipeOK' /\ UNCHANGED <<pool, wfm, fw>> /\ c'.connected = c.connected
<1>0. TypeOK /\ PipeOK /\ Len(pipe) \in Nat /\ c \in Contexts
  BY DEF QueueInv, TypeOK, PipeOK, CtxOK
<1>1. ASSUME UNCHANGED pipe PROVE Extended /\ PipeOK'
  BY <1>0, <1>1 DEF Extended, PipeOK
<1>2. CASE \E t \in Apps : AppStep(t)
  BY ZenonT(40), <1>0, <1>2, SendFrame, ThreadCtx
<1>3. CASE RoamExpire \/ \E t \in Apps : \E op \in Ops[t] : \E a \in Args(op) : Call(t, op, a)
  <2>1. UNCHANGED <<pipe, c, pool, wfm, fw>>
    BY ZenonT(40), <1>3 DEF RoamExpire, Call
  <2> QED BY ZenonT(40), <1>1, <2>1
<1>4. CASE roam_handler
  <2>1. UNCHANGED <<pool, wfm, fw>>
    BY ZenonT(40), <1>4 DEF roam_handler
  <2>2. c'.connected = c.connected
    BY ZenonT(40), <1>0, <1>4 DEF roam_handler, Contexts
  <2> QED BY ZenonT(40), <1>0, <1>4, <2>1, <2>2, RoamSends
<1> QED BY ZenonT(40), <1>2, <1>3, <1>4 DEF Client

LEMMA HandlerFrame ==
  ASSUME TypeOK, Handler
  PROVE  /\ UNCHANGED <<pool, pipe, block, app, fw>> /\ wfm.at \notin {"recv", "free"}
         /\ wfm'.at # "recv" /\ wfm'.evt = wfm.evt /\ wfm.evt \in Queued
         /\ wfm'.at # "dispatch" /\ (wfm'.at = "poll" => wmi_set_param_event)
<1>0. WfmOK
  BY ZenonT(40) DEF TypeOK
<1>1. UNCHANGED <<pool, pipe, block, app, fw>>
  BY ZenonT(40) DEF Handler, wmi_report_event, wmi_enabled_event, wmi_scan_comp_event, WakeScanResults,
     wmi_join_comp_event, wmi_peer_event, WakeDisconnect, EndDisconnect, wmi_disconnect_event,
     wmi_set_param_event
<1>2. wfm.at \notin {"recv", "free"}
  BY ZenonT(40) DEF Handler, wmi_report_event, wmi_enabled_event, wmi_scan_comp_event, WakeScanResults,
     wmi_join_comp_event, wmi_peer_event, WakeDisconnect, EndDisconnect, wmi_disconnect_event,
     wmi_set_param_event, Dispatch
<1>3. /\ \A l : WfmTo(l) => wfm'.at = l /\ wfm'.evt = wfm.evt
      /\ \A n : wfm' = [wfm EXCEPT !.at = "poll", !.polls = n] => wfm'.at = "poll" /\ wfm'.evt = wfm.evt
  BY ZenonT(40), <1>0 DEF WfmTo, WfmOK
<1>4. \/ WfmTo("free") \/ WfmTo("signal") \/ WfmTo("finish") \/ WfmTo("scanned")
      \/ wmi_set_param_event /\ \E n : wfm' = [wfm EXCEPT !.at = "poll", !.polls = n]
  BY ZenonT(60) DEF Handler, wmi_report_event, wmi_enabled_event, wmi_scan_comp_event, WakeScanResults,
     wmi_join_comp_event, wmi_peer_event, WakeDisconnect, EndDisconnect, wmi_disconnect_event,
     wmi_set_param_event, SetParamDone
<1>a. /\ wfm'.evt = wfm.evt
      /\ \/ wfm'.at = "free" \/ wfm'.at = "signal" \/ wfm'.at = "finish" \/ wfm'.at = "scanned"
         \/ wfm'.at = "poll" /\ wmi_set_param_event
  BY ZenonT(40), <1>3, <1>4
<1>5. /\ wfm'.at # "recv" /\ wfm'.at # "dispatch" /\ wfm'.evt = wfm.evt
      /\ wfm'.at = "poll" => wmi_set_param_event
  <2> HIDE DEF wmi_set_param_event
  <2> QED BY ZenonT(40), <1>a
<1>6. wfm.evt \in Queued
  BY ZenonT(40), <1>0, <1>2 DEF WfmOK
<1> QED BY ZenonT(40), <1>1, <1>2, <1>5, <1>6

\* The losses and races once noticed stay noticed.
Grows == /\ hist.lost => hist'.lost
         /\ hist.overtaken => hist'.overtaken
         /\ hist.overlap => hist'.overlap

LEMMA HistGrows ==
  ASSUME TypeOK, Next
  PROVE  Grows
<1>0. hist \in [answered : [Apps -> BOOLEAN], lost : BOOLEAN, raced : BOOLEAN,
                overtaken : BOOLEAN, scan : Scans, overlap : BOOLEAN, partial : BOOLEAN]
  BY ZenonT(40) DEF TypeOK, HistOK
<1>1. CASE UNCHANGED hist
  BY ZenonT(40), <1>1 DEF Grows
<1>2. ASSUME NEW b, hist' = [hist EXCEPT !.lost = hist.lost \/ b]
      PROVE  Grows
  BY ZenonT(40), <1>0, <1>2 DEF Grows
<1>3. ASSUME NEW b, hist' = [hist EXCEPT !.overtaken = hist.overtaken \/ b]
      PROVE  Grows
  BY ZenonT(40), <1>0, <1>3 DEF Grows
<1>4. ASSUME NEW b, NEW x, hist' = [hist EXCEPT !.scan = x, !.overlap = hist.overlap \/ b]
      PROVE  Grows
  BY ZenonT(40), <1>0, <1>4 DEF Grows
<1>5. ASSUME NEW b, NEW f, hist' = [hist EXCEPT !.lost = hist.lost \/ b, !.answered = f]
      PROVE  Grows
  BY ZenonT(40), <1>0, <1>5 DEF Grows
<1>6. ASSUME NEW b, \/ hist' = [hist EXCEPT !.raced = b] \/ hist' = [hist EXCEPT !.partial = b]
                    \/ hist' = [hist EXCEPT !.answered = b] \/ hist' = [hist EXCEPT !.lost = TRUE]
      PROVE  Grows
  BY ZenonT(40), <1>0, <1>6 DEF Grows
<1>7. CASE \E t \in Apps : AppStep(t)
  <2>1. PICK t \in Apps : AppStep(t)
    BY ZenonT(40), <1>7
  <2>2. \/ UNCHANGED hist \/ (\E b, f : hist' = [hist EXCEPT !.lost = hist.lost \/ b, !.answered = f])
        \/ (\E b : hist' = [hist EXCEPT !.raced = b])
        \/ (\E b : hist' = [hist EXCEPT !.overtaken = hist.overtaken \/ b])
        \/ (\E b : hist' = [hist EXCEPT !.partial = b])
        \/ (\E b, x : hist' = [hist EXCEPT !.scan = x, !.overlap = hist.overlap \/ b])
    BY ZenonT(60), <2>1 DEF AppStep, WLAN_QAPI_LOCK, wmi_set_passphrase, qapi_WLAN_Disconnect,
       wmi_connect, wmi_disconnect, wlan_get_scan_results, SendCommand, StoreParamId, wmi_start_scan,
       qurt_signal_wait, k_event_clear, FinishCall, wlan_drv_roaming_stop, CancelRoaming,
       ClearProfile, ClearSettings, SetProfile, wmi_cmd_send
  <2> QED BY ZenonT(40), <1>1, <1>3, <1>4, <1>5, <1>6, <2>2
<1>8. CASE \/ roam_handler \/ FwStep \/ \E e \in {"disc", "peer"} : FwEvent(e)
  <2>1. UNCHANGED hist \/ \E b : hist' = [hist EXCEPT !.lost = hist.lost \/ b]
    BY ZenonT(40), <1>8 DEF roam_handler, FwStep, FwAnswer, FwEvent, wmi_event_relay
  <2> QED BY ZenonT(40), <1>1, <1>2, <2>1
<1>9. CASE wmi_report_event \/ wmi_enabled_event \/ wmi_set_param_event
  <2>1. \/ UNCHANGED hist \/ (\E b : hist' = [hist EXCEPT !.answered = b])
        \/ hist' = [hist EXCEPT !.lost = TRUE]
    BY ZenonT(40), <1>9 DEF wmi_report_event, wmi_enabled_event, wmi_set_param_event, SetParamDone
  <2> QED BY ZenonT(40), <1>1, <1>6, <2>1
<1>10. CASE wmi_join_comp_event \/ wmi_disconnect_event
  <2>1. UNCHANGED hist \/ \E b : hist' = [hist EXCEPT !.overtaken = hist.overtaken \/ b]
    BY ZenonT(40), <1>10 DEF wmi_join_comp_event, wmi_disconnect_event, FollowLink
  <2> QED BY ZenonT(40), <1>1, <1>3, <2>1
<1>11. CASE \/ RoamExpire \/ WfmCommand \/ WfmEvent \/ wmi_scan_comp_event \/ WakeScanResults
            \/ wmi_peer_event \/ WakeDisconnect \/ EndDisconnect \/ wmi_event_buf_free
            \/ \E t \in Apps : \E op \in Ops[t] : \E a \in Args(op) : Call(t, op, a)
  BY ZenonT(60), <1>1, <1>11 DEF Call, RoamExpire, WfmCommand, WfmEvent, wmi_scan_comp_event,
     WakeScanResults, wmi_peer_event, WakeDisconnect, EndDisconnect, wmi_event_buf_free
<1> QED BY ZenonT(40), <1>7, <1>8, <1>9, <1>10, <1>11 DEF Next, WfmStep

\* Where the messages are after a step: the same places, or one place farther up.
LEMMA KeptMsg ==
  ASSUME PipeOK, PipeOK', Extended, wfm'.evt = wfm.evt
  PROVE  /\ Len(pipe) \in Nat /\ Len(pipe') \in Nat /\ Len(pipe) <= Len(pipe')
         /\ \A i \in 0 .. Len(pipe) : Msg(i)' = Msg(i)
         /\ \A i \in Len(pipe) + 1 .. Len(pipe') : Msg(i)' = pipe'[i] /\ Msg(i)' \in Commands /\ i # 0
<1>1. Len(pipe) \in Nat /\ Len(pipe') \in Nat /\ Len(pipe) <= Len(pipe')
  BY DEF PipeOK, Extended
<1> QED BY <1>1 DEF Msg, Extended

LEMMA TakenMsg ==
  ASSUME QueueInv, WfmCommand \/ WfmEvent
  PROVE  /\ Len(pipe) \in Nat /\ Len(pipe) >= 1 /\ Len(pipe') = Len(pipe) - 1
         /\ \A i \in 1 .. Len(pipe') : Msg(i)' = Msg(i + 1)
         /\ Msg(1) = Head(pipe) /\ Msg(1) \in Messages /\ wfm.at = "recv"
         /\ WfmEvent => wfm'.at = "dispatch" /\ Msg(0)' = Msg(1) /\ Msg(1) \in Queued
         /\ WfmCommand => wfm'.at = "recv" /\ Msg(1) \in Commands
<1>1. PipeOK /\ pipe # <<>> /\ pipe' = Tail(pipe) /\ wfm.at = "recv"
  BY ZenonT(40) DEF QueueInv, TypeOK, WfmCommand, WfmEvent
<1>2. /\ Len(pipe) \in Nat /\ Len(pipe) >= 1 /\ Len(pipe') = Len(pipe) - 1
      /\ \A i \in 1 .. Len(pipe') : pipe'[i] = pipe[i + 1]
      /\ Head(pipe) = pipe[1] /\ Head(pipe) \in Messages
  BY ZenonT(40), <1>1, TakeIs
<1>3. \A i \in 1 .. Len(pipe') : Msg(i)' = Msg(i + 1)
  BY <1>2 DEF Msg
<1>4. Msg(1) = Head(pipe)
  BY <1>2 DEF Msg
<1>5. WfmEvent => Head(pipe) \in Queued /\ wfm'.at = "dispatch" /\ Msg(0)' = Head(pipe)
  BY <1>2 DEF WfmEvent, Messages, Commands, Msg
<1>6. WfmCommand => Head(pipe) \in Commands /\ wfm'.at = "recv"
  BY ZenonT(40), <1>1, <1>2 DEF WfmCommand, Messages, Queued
<1> QED BY ZenonT(40), <1>1, <1>2, <1>3, <1>4, <1>5, <1>6

\* The relay: the event is dropped, and the loss is noticed, or it joins the queue.
LEMMA SentMsg ==
  ASSUME QueueInv, NEW p \in Payloads, wmi_event_relay(p), UNCHANGED wfm
  PROVE  /\ Len(pipe) \in Nat /\ Len(pipe') \in Nat
         /\ \A i \in 0 .. Len(pipe) : Msg(i)' = Msg(i)
         /\ \/ pipe' = pipe /\ hist'.lost
            \/ /\ Len(pipe') = Len(pipe) + 1
               /\ \A i : i = Len(pipe) + 1 => Msg(i)'.kind = "evt" /\ Msg(i)'.was = p
<1> DEFINE k == ClassOf(p)
           m == [kind |-> "evt", class |-> k, slot |-> pool[k].wp, was |-> p]
<1>1. PipeOK /\ HistOK /\ Len(pipe) \in Nat /\ PoolOK
  BY DEF QueueInv, TypeOK, PipeOK
<1>2. k \in Classes
  BY ZenonT(40), WlanAssumption DEF ClassOf, Classes
<1>3. m \in Messages /\ m.kind = "evt" /\ m.was = p
  <2>1. pool[k].wp \in Nat
    <3> HIDE DEF k
    <3>1. pool[k].wp \in 0 .. BufNum[k] - 1
      BY ZenonT(40), <1>1, <1>2 DEF PoolOK
    <3> QED BY <3>1
  <2> HIDE DEF k
  <2> QED BY ZenonT(40), <1>2, <2>1 DEF Messages, Queued
<1>4. hist' = [hist EXCEPT !.lost = hist.lost \/ pool[k].used >= BufNum[k] \/ PipeFull]
  BY ZenonT(40) DEF wmi_event_relay
<1>5. pool[k].used >= BufNum[k] \/ PipeFull => hist'.lost
  BY ZenonT(40), <1>1, <1>4 DEF HistOK
<1>6. CASE pool[k].used >= BufNum[k]
  <2>1. UNCHANGED pipe
    BY ZenonT(40), <1>6 DEF wmi_event_relay
  <2> QED BY ZenonT(40), <1>1, <1>5, <1>6, <2>1 DEF Msg
<1>7. CASE ~(pool[k].used >= BufNum[k])
  <2>1. qurt_pipe_send(m)
    BY ZenonT(40), <1>7 DEF wmi_event_relay
  <2> HIDE DEF m
  <2>2. /\ PipeFull => pipe' = pipe
        /\ ~PipeFull => Len(pipe') = Len(pipe) + 1 /\ pipe'[Len(pipe) + 1] = m
        /\ \A i \in 1 .. Len(pipe) : pipe'[i] = pipe[i]
    BY ZenonT(40), <1>1, <1>3, <2>1, SendIs
  <2>3. \A i \in 0 .. Len(pipe) : Msg(i)' = Msg(i)
    BY <1>1, <2>2 DEF Msg
  <2>4. CASE PipeFull
    BY ZenonT(40), <1>1, <1>5, <2>2, <2>3, <2>4
  <2>5. CASE ~PipeFull
    <3>1. \A i : i = Len(pipe) + 1 => Msg(i)' = m
      BY <1>1, <2>2, <2>5 DEF Msg
    <3> QED BY <1>1, <1>3, <2>2, <2>3, <2>5, <3>1
  <2> QED BY ZenonT(40), <2>4, <2>5
<1> QED BY ZenonT(40), <1>6, <1>7
=============================================================================
