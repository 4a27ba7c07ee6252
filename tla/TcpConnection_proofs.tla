------------------------ MODULE TcpConnection_proofs ------------------------
(***************************************************************************)
(* Proofs about TcpConnection for any set of application threads, any      *)
(* messages, any size of the socket's buffer and any bound on the calls.   *)
(***************************************************************************)
EXTENDS TcpConnection, TLAPS

-----------------------------------------------------------------------------
(***************************************************************************)
(* Type correctness.                                                       *)
(***************************************************************************)

\* Every label an action names is a label.
LEMMA LabelFacts ==
  /\ CallLabels \subseteq Labels /\ LoopLabels \subseteq Labels
  /\ ResumeLabels \subseteq LoopLabels
  /\ "idle" \in Labels
  /\ {"push", "send", "arm", "c_chk", "c_set", "c_mod", "bad"} \subseteq Labels
  /\ {"wait", "ready", "r_set", "cb_connect", "in", "cb_data", "out",
      "err", "fin", "d_del", "d_close", "d_sd", "run"} \subseteq Labels
BY DEF Labels, CallLabels, LoopLabels, ResumeLabels

\* What the helpers of thread control do to pc and write_mutex.
LEMMA GotoEffect ==
  ASSUME ControlType, NEW t \in Threads, NEW label \in Labels, Goto(t, label)
  PROVE  /\ pc' \in [Threads -> Labels]
         /\ pc'[t] = label
         /\ \A u \in Threads : u # t => pc'[u] = pc[u]
BY DEF ControlType, Goto

LEMMA ReturnEffect ==
  ASSUME ControlType, NEW t \in Threads, Return(t)
  PROVE  /\ pc' \in [Threads -> Labels]
         /\ write_mutex' \in Threads \cup {Free}
         /\ pc'[t] = IF t = Worker THEN resume ELSE "idle"
         /\ \A u \in Threads : u # t => pc'[u] = pc[u]
<1>1. (IF t = Worker THEN resume ELSE "idle") \in Labels
  BY LabelFacts DEF ControlType
<1>2. QED
  BY <1>1, GotoEffect DEF ControlType, Return

\* Sequences: mpush and unsent keep their type.
LEMMA MpushType ==
  ASSUME NEW buffer \in Seq(Byte), NEW p \in Packets
  PROVE  mpush(buffer, p) \in Seq(Byte)
BY PacketsAssumption DEF mpush

LEMMA UnsentType ==
  ASSUME send_buffer \in Seq(Byte), NEW n \in 1..Len(send_buffer)
  PROVE  /\ unsent(n) \in Seq(Byte)
         /\ SubSeq(send_buffer, 1, n) \in Seq(Byte)
         /\ SubSeq(send_buffer, 1, n) \o unsent(n) = send_buffer
BY DEF unsent

\* mod_event leaves pc, write_mutex and the epoll entry well typed.
LEMMA ModEventType ==
  ASSUME TypeOK, NEW t \in Threads, NEW out \in BOOLEAN, mod_event(t, out)
  PROVE  /\ pc' \in [Threads -> Labels]
         /\ write_mutex' \in Threads \cup {Free}
         /\ reg' \in {"none", "own", "other"}
         /\ reg_out' \in BOOLEAN /\ queued' \in BOOLEAN
<1>1. CASE Return(t)
  <2>1. reg' \in {"none", "own", "other"}
    BY <1>1 DEF mod_event, TypeOK, KernelType, pollVars
  <2>2. reg_out' \in BOOLEAN
    BY <1>1, Zenon DEF mod_event, TypeOK, KernelType, pollVars
  <2>3. queued' \in BOOLEAN
    BY <1>1, Zenon DEF mod_event, TypeOK, KernelType, pollVars
  <2>4. QED
    BY <1>1, <2>1, <2>2, <2>3, ReturnEffect DEF TypeOK
<1>2. CASE Goto(t, "bad") /\ UNCHANGED <<pollVars, write_mutex>>
  BY <1>2, LabelFacts, GotoEffect DEF TypeOK, ControlType, KernelType, pollVars
<1>3. QED
  BY <1>1, <1>2 DEF mod_event

LEMMA TypeInit == Init => TypeOK
<1> SUFFICES ASSUME Init PROVE TypeOK
  OBVIOUS
<1>1. ConnType
  BY DEF Init, ConnType, Statuses
<1>2. ControlType
  BY DEF Init, ControlType, Threads, Labels, LoopLabels, ResumeLabels
<1>3. KernelType
  <2>1. 0 \in 0..SockCap
    BY BoundsAssumption
  <2>2. QED
    BY <2>1 DEF Init, KernelType
<1>4. DataType
  BY BoundsAssumption DEF Init, DataType
<1>5. QED
  BY <1>1, <1>2, <1>3, <1>4 DEF TypeOK

LEMMA CallType ==
  ASSUME TypeOK, NEW t \in Threads, Call(t)
  PROVE  TypeOK'
<1>1. CASE msend(t)
  <2>1. ConnType'
    BY <1>1 DEF TypeOK, ConnType, msend, connVars, mapVars, Statuses
  <2>2. ControlType'
    BY <1>1, GotoEffect, LabelFacts DEF TypeOK, ControlType, msend, ResumeLabels
  <2>3. KernelType'
    BY <1>1, ModEventType DEF TypeOK, KernelType, msend, pollVars, sockVars
  <2>4. DataType'
    BY <1>1, BoundsAssumption DEF TypeOK, DataType, msend, bufVars, countVars
  <2>5. QED
    BY <2>1, <2>2, <2>3, <2>4 DEF TypeOK
<1>2. CASE msend_push(t)
  <2>1. ConnType'
    BY <1>2 DEF TypeOK, ConnType, msend_push, connVars, mapVars, Statuses
  <2>2. ControlType'
    BY <1>2, GotoEffect, ReturnEffect, MpushType, LabelFacts DEF TypeOK, ControlType, msend_push,
             ResumeLabels
  <2>3. KernelType'
    BY <1>2, ModEventType DEF TypeOK, KernelType, msend_push, pollVars, sockVars
  <2>4. DataType'
    BY <1>2, MpushType, UnsentType DEF TypeOK, DataType, msend_push, bufVars, countVars
  <2>5. QED
    BY <2>1, <2>2, <2>3, <2>4 DEF TypeOK
<1>3. CASE mod_event_close(t)
  <2>1. ConnType'
    BY <1>3 DEF TypeOK, ConnType, mod_event_close, connVars, mapVars, Statuses
  <2>2. ControlType'
    BY <1>3, ReturnEffect DEF TypeOK, ControlType, mod_event_close, ResumeLabels
  <2>3. KernelType'
    BY <1>3, ModEventType DEF TypeOK, KernelType, mod_event_close, CloseFd, pollVars, sockVars
  <2>4. DataType'
    BY <1>3, MpushType, UnsentType DEF TypeOK, DataType, mod_event_close, bufVars, countVars
  <2>5. QED
    BY <2>1, <2>2, <2>3, <2>4 DEF TypeOK
<1>4. CASE do_send_empty(t)
  <2>1. ConnType'
    BY <1>4 DEF TypeOK, ConnType, do_send_empty, connVars, mapVars, Statuses
  <2>2. ControlType'
    BY <1>4, ModEventType DEF TypeOK, ControlType, do_send_empty, ResumeLabels
  <2>3. KernelType'
    BY <1>4, ModEventType DEF TypeOK, KernelType, do_send_empty, pollVars, sockVars
  <2>4. DataType'
    BY <1>4, MpushType, UnsentType DEF TypeOK, DataType, do_send_empty, bufVars, countVars
  <2>5. QED
    BY <2>1, <2>2, <2>3, <2>4 DEF TypeOK
<1>5. CASE do_send_some(t)
  <2>1. PICK n \in 1..Len(send_buffer) :
          /\ \/ /\ fd = "own" /\ peer # "reset" /\ n <= SockCap - inflight
                /\ accepted' = accepted \o SubSeq(send_buffer, 1, n)
                /\ inflight' = inflight + n
             \/ fd = "other" /\ UNCHANGED <<accepted, inflight>>
          /\ send_buffer' = unsent(n)
          /\ IF n < Len(send_buffer) THEN UNCHANGED <<pc, write_mutex>> ELSE Return(t)
    BY <1>5 DEF do_send_some
  <2>2. ConnType'
    BY <1>5 DEF TypeOK, ConnType, do_send_some, connVars, mapVars, Statuses
  <2>3. ControlType'
    BY <1>5, <2>1, ReturnEffect DEF TypeOK, ControlType, do_send_some
  <2>4. KernelType'
    <3>1. inflight' \in 0..SockCap
      BY <2>1, BoundsAssumption DEF TypeOK, KernelType, DataType
    <3>2. QED
      BY <1>5, <3>1 DEF TypeOK, KernelType, do_send_some, pollVars
  <2>5. DataType'
    <3>1. send_buffer' \in Seq(Byte) /\ SubSeq(send_buffer, 1, n) \in Seq(Byte)
      BY <2>1, UnsentType DEF TypeOK, DataType
    <3>2. accepted \o SubSeq(send_buffer, 1, n) \in Seq(Byte)
      BY <3>1 DEF TypeOK, DataType
    <3>3. accepted' \in Seq(Byte)
      BY <2>1, <3>2 DEF TypeOK, DataType
    <3>4. QED
      BY <1>5, <3>1, <3>3 DEF TypeOK, DataType, do_send_some, countVars
  <2>6. QED
    BY <2>2, <2>3, <2>4, <2>5 DEF TypeOK
<1>6. CASE do_send_again(t)
  <2>1. ConnType'
    BY <1>6 DEF TypeOK, ConnType, do_send_again, connVars, mapVars, Statuses
  <2>2. ControlType'
    BY <1>6, GotoEffect, LabelFacts DEF TypeOK, ControlType, do_send_again, ResumeLabels
  <2>3. KernelType'
    BY <1>6, ModEventType DEF TypeOK, KernelType, do_send_again, pollVars, sockVars
  <2>4. DataType'
    BY <1>6, MpushType, UnsentType DEF TypeOK, DataType, do_send_again, bufVars, countVars
  <2>5. QED
    BY <2>1, <2>2, <2>3, <2>4 DEF TypeOK
<1>7. CASE do_send_arm(t)
  <2>1. ConnType'
    BY <1>7 DEF TypeOK, ConnType, do_send_arm, connVars, mapVars, Statuses
  <2>2. ControlType'
    BY <1>7, ModEventType DEF TypeOK, ControlType, do_send_arm, ResumeLabels
  <2>3. KernelType'
    BY <1>7, ModEventType DEF TypeOK, KernelType, do_send_arm, pollVars, sockVars
  <2>4. DataType'
    BY <1>7, MpushType, UnsentType DEF TypeOK, DataType, do_send_arm, bufVars, countVars
  <2>5. QED
    BY <2>1, <2>2, <2>3, <2>4 DEF TypeOK
<1>8. CASE do_send_fail(t)
  <2>1. ConnType'
    BY <1>8 DEF TypeOK, ConnType, do_send_fail, connVars, mapVars, Statuses
  <2>2. ControlType'
    BY <1>8, GotoEffect, LabelFacts DEF TypeOK, ControlType, do_send_fail, ResumeLabels
  <2>3. KernelType'
    BY <1>8, ModEventType DEF TypeOK, KernelType, do_send_fail, pollVars, sockVars
  <2>4. DataType'
    BY <1>8, MpushType, UnsentType DEF TypeOK, DataType, do_send_fail, bufVars, countVars
  <2>5. QED
    BY <2>1, <2>2, <2>3, <2>4 DEF TypeOK
<1>9. CASE close_call(t)
  <2>1. ConnType'
    BY <1>9 DEF TypeOK, ConnType, close_call, connVars, mapVars, Statuses
  <2>2. ControlType'
    BY <1>9, GotoEffect, LabelFacts DEF TypeOK, ControlType, close_call, ResumeLabels
  <2>3. KernelType'
    BY <1>9, ModEventType DEF TypeOK, KernelType, close_call, pollVars, sockVars
  <2>4. DataType'
    BY <1>9, MpushType, UnsentType DEF TypeOK, DataType, close_call, bufVars, countVars
  <2>5. QED
    BY <2>1, <2>2, <2>3, <2>4 DEF TypeOK
<1>10. CASE close_check(t)
  <2>1. ConnType'
    BY <1>10 DEF TypeOK, ConnType, close_check, connVars, mapVars, Statuses
  <2>2. ControlType'
    BY <1>10, GotoEffect, ReturnEffect, LabelFacts DEF TypeOK, ControlType, close_check,
             ResumeLabels
  <2>3. KernelType'
    BY <1>10, ModEventType DEF TypeOK, KernelType, close_check, pollVars, sockVars
  <2>4. DataType'
    BY <1>10, MpushType, UnsentType DEF TypeOK, DataType, close_check, bufVars, countVars
  <2>5. QED
    BY <2>1, <2>2, <2>3, <2>4 DEF TypeOK
<1>11. CASE close_set(t)
  <2>1. ConnType'
    BY <1>11 DEF TypeOK, ConnType, close_set, connVars, mapVars, Statuses
  <2>2. ControlType'
    BY <1>11, GotoEffect, LabelFacts DEF TypeOK, ControlType, close_set, ResumeLabels
  <2>3. KernelType'
    BY <1>11, ModEventType DEF TypeOK, KernelType, close_set, pollVars, sockVars
  <2>4. DataType'
    BY <1>11, MpushType, UnsentType DEF TypeOK, DataType, close_set, bufVars, countVars
  <2>5. QED
    BY <2>1, <2>2, <2>3, <2>4 DEF TypeOK
<1>12. CASE notify_send(t)
  <2>1. ConnType'
    BY <1>12 DEF TypeOK, ConnType, notify_send, connVars, mapVars, Statuses
  <2>2. ControlType'
    BY <1>12, ModEventType DEF TypeOK, ControlType, notify_send, ResumeLabels
  <2>3. KernelType'
    BY <1>12, ModEventType DEF TypeOK, KernelType, notify_send, pollVars, sockVars
  <2>4. DataType'
    BY <1>12, MpushType, UnsentType DEF TypeOK, DataType, notify_send, bufVars, countVars
  <2>5. QED
    BY <2>1, <2>2, <2>3, <2>4 DEF TypeOK
<1>13. QED
  BY <1>1, <1>2, <1>3, <1>4, <1>5, <1>6, <1>7, <1>8, <1>9, <1>10, <1>11, <1>12 DEF Call, do_send,
           close


LEMMA LoopType ==
  ASSUME TypeOK, Loop
  PROVE  TypeOK'
<1> Worker \in Threads
  BY DEF Threads
<1>1. CASE epoll_wait
  <2>1. ConnType'
    BY <1>1 DEF TypeOK, ConnType, epoll_wait, connVars, mapVars, Statuses
  <2>2. ControlType'
    BY <1>1, GotoEffect, LabelFacts DEF TypeOK, ControlType, epoll_wait, Events, Ready, ResumeLabels
  <2>3. KernelType'
    BY <1>1 DEF TypeOK, KernelType, epoll_wait, Events, Ready, pollVars, sockVars
  <2>4. DataType'
    BY <1>1, BoundsAssumption DEF TypeOK, DataType, epoll_wait, bufVars, countVars
  <2>5. QED
    BY <2>1, <2>2, <2>3, <2>4 DEF TypeOK
<1>2. CASE on_ready_check
  <2>1. ConnType'
    BY <1>2 DEF TypeOK, ConnType, on_ready_check, WorkerGoto, connVars, mapVars, Statuses
  <2>2. ControlType'
    BY <1>2, GotoEffect, LabelFacts DEF TypeOK, ControlType, on_ready_check, WorkerGoto,
             ResumeLabels
  <2>3. KernelType'
    BY <1>2 DEF TypeOK, KernelType, on_ready_check, WorkerGoto, pollVars, sockVars
  <2>4. DataType'
    BY <1>2, BoundsAssumption DEF TypeOK, DataType, on_ready_check, WorkerGoto, bufVars, countVars
  <2>5. QED
    BY <2>1, <2>2, <2>3, <2>4 DEF TypeOK
<1>3. CASE on_ready
  <2>1. ConnType'
    BY <1>3 DEF TypeOK, ConnType, on_ready, connVars, mapVars, Statuses
  <2>2. ControlType'
    BY <1>3, GotoEffect, LabelFacts DEF TypeOK, ControlType, on_ready, ResumeLabels
  <2>3. KernelType'
    BY <1>3 DEF TypeOK, KernelType, on_ready, pollVars, sockVars
  <2>4. DataType'
    BY <1>3, BoundsAssumption DEF TypeOK, DataType, on_ready, bufVars, countVars
  <2>5. QED
    BY <2>1, <2>2, <2>3, <2>4 DEF TypeOK
<1>4. CASE callback_end
  <2>1. ConnType'
    BY <1>4 DEF TypeOK, ConnType, callback_end, WorkerGoto, connVars, mapVars, Statuses
  <2>2. ControlType'
    BY <1>4, GotoEffect, LabelFacts DEF TypeOK, ControlType, callback_end, WorkerGoto, ResumeLabels
  <2>3. KernelType'
    BY <1>4 DEF TypeOK, KernelType, callback_end, WorkerGoto, pollVars, sockVars
  <2>4. DataType'
    BY <1>4, BoundsAssumption DEF TypeOK, DataType, callback_end, WorkerGoto, bufVars, countVars
  <2>5. QED
    BY <2>1, <2>2, <2>3, <2>4 DEF TypeOK
<1>5. CASE do_read_skip
  <2>1. ConnType'
    BY <1>5 DEF TypeOK, ConnType, do_read_skip, WorkerGoto, connVars, mapVars, Statuses
  <2>2. ControlType'
    BY <1>5, GotoEffect, LabelFacts DEF TypeOK, ControlType, do_read_skip, WorkerGoto, ResumeLabels
  <2>3. KernelType'
    BY <1>5 DEF TypeOK, KernelType, do_read_skip, WorkerGoto, pollVars, sockVars
  <2>4. DataType'
    BY <1>5, BoundsAssumption DEF TypeOK, DataType, do_read_skip, WorkerGoto, bufVars, countVars
  <2>5. QED
    BY <2>1, <2>2, <2>3, <2>4 DEF TypeOK
<1>6. CASE do_read_data
  <2>1. ConnType'
    BY <1>6 DEF TypeOK, ConnType, do_read_data, connVars, mapVars, Statuses
  <2>2. ControlType'
    BY <1>6, GotoEffect, LabelFacts DEF TypeOK, ControlType, do_read_data, ResumeLabels
  <2>3. KernelType'
    BY <1>6 DEF TypeOK, KernelType, do_read_data, pollVars, sockVars
  <2>4. DataType'
    BY <1>6, BoundsAssumption DEF TypeOK, DataType, do_read_data, bufVars, countVars
  <2>5. QED
    BY <2>1, <2>2, <2>3, <2>4 DEF TypeOK
<1>7. CASE do_read_close
  <2>1. ConnType'
    BY <1>7 DEF TypeOK, ConnType, do_read_close, WorkerGoto, connVars, mapVars, Statuses
  <2>2. ControlType'
    BY <1>7, GotoEffect, LabelFacts DEF TypeOK, ControlType, do_read_close, WorkerGoto, ResumeLabels
  <2>3. KernelType'
    BY <1>7 DEF TypeOK, KernelType, do_read_close, WorkerGoto, pollVars, sockVars
  <2>4. DataType'
    BY <1>7, BoundsAssumption DEF TypeOK, DataType, do_read_close, WorkerGoto, bufVars, countVars
  <2>5. QED
    BY <2>1, <2>2, <2>3, <2>4 DEF TypeOK
<1>8. CASE process_out
  <2>1. ConnType'
    BY <1>8 DEF TypeOK, ConnType, process_out, WorkerGoto, connVars, mapVars, Statuses
  <2>2. ControlType'
    BY <1>8, GotoEffect, LabelFacts DEF TypeOK, ControlType, process_out, WorkerGoto, ResumeLabels
  <2>3. KernelType'
    BY <1>8 DEF TypeOK, KernelType, process_out, WorkerGoto, pollVars, sockVars
  <2>4. DataType'
    BY <1>8, BoundsAssumption DEF TypeOK, DataType, process_out, WorkerGoto, bufVars, countVars
  <2>5. QED
    BY <2>1, <2>2, <2>3, <2>4 DEF TypeOK
<1>9. CASE process_err
  <2>1. ConnType'
    BY <1>9 DEF TypeOK, ConnType, process_err, WorkerGoto, connVars, mapVars, Statuses
  <2>2. ControlType'
    BY <1>9, GotoEffect, LabelFacts DEF TypeOK, ControlType, process_err, WorkerGoto, ResumeLabels
  <2>3. KernelType'
    BY <1>9 DEF TypeOK, KernelType, process_err, WorkerGoto, pollVars, sockVars
  <2>4. DataType'
    BY <1>9, BoundsAssumption DEF TypeOK, DataType, process_err, WorkerGoto, bufVars, countVars
  <2>5. QED
    BY <2>1, <2>2, <2>3, <2>4 DEF TypeOK
<1>10. CASE process_end
  <2>1. ConnType'
    BY <1>10 DEF TypeOK, ConnType, process_end, WorkerGoto, connVars, mapVars, Statuses
  <2>2. ControlType'
    BY <1>10, GotoEffect, LabelFacts DEF TypeOK, ControlType, process_end, WorkerGoto, ResumeLabels
  <2>3. KernelType'
    BY <1>10 DEF TypeOK, KernelType, process_end, WorkerGoto, pollVars, sockVars
  <2>4. DataType'
    BY <1>10, BoundsAssumption DEF TypeOK, DataType, process_end, WorkerGoto, bufVars, countVars
  <2>5. QED
    BY <2>1, <2>2, <2>3, <2>4 DEF TypeOK
<1>11. CASE do_close
  <2>1. ConnType'
    BY <1>11 DEF TypeOK, ConnType, do_close, connVars, mapVars, Statuses
  <2>2. ControlType'
    BY <1>11, GotoEffect, LabelFacts DEF TypeOK, ControlType, do_close, ResumeLabels
  <2>3. KernelType'
    BY <1>11 DEF TypeOK, KernelType, do_close, pollVars, sockVars
  <2>4. DataType'
    BY <1>11, BoundsAssumption DEF TypeOK, DataType, do_close, bufVars, countVars
  <2>5. QED
    BY <2>1, <2>2, <2>3, <2>4 DEF TypeOK
<1>12. CASE do_close_del
  <2>1. ConnType'
    BY <1>12 DEF TypeOK, ConnType, do_close_del, connVars, mapVars, Statuses
  <2>2. ControlType'
    BY <1>12, GotoEffect, LabelFacts DEF TypeOK, ControlType, do_close_del, ResumeLabels
  <2>3. KernelType'
    BY <1>12 DEF TypeOK, KernelType, do_close_del, pollVars, sockVars
  <2>4. DataType'
    BY <1>12, BoundsAssumption DEF TypeOK, DataType, do_close_del, bufVars, countVars
  <2>5. QED
    BY <2>1, <2>2, <2>3, <2>4 DEF TypeOK
<1>13. CASE do_close_fd
  <2>1. ConnType'
    BY <1>13 DEF TypeOK, ConnType, do_close_fd, connVars, mapVars, Statuses
  <2>2. ControlType'
    BY <1>13, GotoEffect, LabelFacts DEF TypeOK, ControlType, do_close_fd, CloseFd, ResumeLabels
  <2>3. KernelType'
    BY <1>13 DEF TypeOK, KernelType, do_close_fd, CloseFd, pollVars, sockVars
  <2>4. DataType'
    BY <1>13, BoundsAssumption DEF TypeOK, DataType, do_close_fd, bufVars, countVars
  <2>5. QED
    BY <2>1, <2>2, <2>3, <2>4 DEF TypeOK
<1>14. CASE do_close_post
  <2>1. ConnType'
    BY <1>14 DEF TypeOK, ConnType, do_close_post, closed_sd, connVars, mapVars, Statuses
  <2>2. ControlType'
    BY <1>14, GotoEffect, LabelFacts DEF TypeOK, ControlType, do_close_post, closed_sd, ResumeLabels
  <2>3. KernelType'
    BY <1>14 DEF TypeOK, KernelType, do_close_post, pollVars, sockVars
  <2>4. DataType'
    BY <1>14, BoundsAssumption DEF TypeOK, DataType, do_close_post, bufVars, countVars
  <2>5. QED
    BY <2>1, <2>2, <2>3, <2>4 DEF TypeOK
<1>15. CASE run_tasks
  <2>1. ConnType'
    BY <1>15 DEF TypeOK, ConnType, run_tasks, connVars, mapVars, Statuses
  <2>2. ControlType'
    BY <1>15, GotoEffect, LabelFacts DEF TypeOK, ControlType, run_tasks, ResumeLabels
  <2>3. KernelType'
    BY <1>15 DEF TypeOK, KernelType, run_tasks, pollVars, sockVars
  <2>4. DataType'
    BY <1>15, BoundsAssumption DEF TypeOK, DataType, run_tasks, bufVars, countVars
  <2>5. QED
    BY <2>1, <2>2, <2>3, <2>4 DEF TypeOK
<1>16. QED
  BY <1>1, <1>2, <1>3, <1>4, <1>5, <1>6, <1>7, <1>8, <1>9, <1>10, <1>11, <1>12, <1>13, <1>14,
     <1>15 DEF Loop


LEMMA EnvType ==
  ASSUME TypeOK, Env
  PROVE  TypeOK'
<1> Worker \in Threads
  BY DEF Threads
<1>1. CASE PeerRecv
  <2>1. ConnType'
    BY <1>1 DEF TypeOK, ConnType, PeerRecv, connVars, mapVars, Statuses
  <2>2. ControlType'
    BY <1>1, GotoEffect, LabelFacts DEF TypeOK, ControlType, PeerRecv, Wake, ResumeLabels
  <2>3. KernelType'
    <3>1. inflight' \in 0..SockCap
      BY <1>1, BoundsAssumption DEF TypeOK, KernelType, PeerRecv
    <3>2. QED
      BY <1>1, <3>1 DEF TypeOK, KernelType, PeerRecv, Wake
  <2>4. DataType'
    BY <1>1, BoundsAssumption DEF TypeOK, DataType, PeerRecv, bufVars, countVars
  <2>5. QED
    BY <2>1, <2>2, <2>3, <2>4 DEF TypeOK
<1>2. CASE PeerSend
  <2>1. ConnType'
    BY <1>2 DEF TypeOK, ConnType, PeerSend, connVars, mapVars, Statuses
  <2>2. ControlType'
    BY <1>2, GotoEffect, LabelFacts DEF TypeOK, ControlType, PeerSend, Wake, ResumeLabels
  <2>3. KernelType'
    BY <1>2 DEF TypeOK, KernelType, PeerSend, Wake, pollVars, sockVars
  <2>4. DataType'
    BY <1>2, BoundsAssumption DEF TypeOK, DataType, PeerSend, bufVars, countVars
  <2>5. QED
    BY <2>1, <2>2, <2>3, <2>4 DEF TypeOK
<1>3. CASE PeerClose
  <2>1. ConnType'
    BY <1>3 DEF TypeOK, ConnType, PeerClose, connVars, mapVars, Statuses
  <2>2. ControlType'
    BY <1>3, GotoEffect, LabelFacts DEF TypeOK, ControlType, PeerClose, Wake, ResumeLabels
  <2>3. KernelType'
    <3>1. inflight' \in 0..SockCap
      BY <1>3, BoundsAssumption DEF TypeOK, KernelType, PeerClose
    <3>2. QED
      BY <1>3, <3>1 DEF TypeOK, KernelType, PeerClose, Wake
  <2>4. DataType'
    BY <1>3, BoundsAssumption DEF TypeOK, DataType, PeerClose, bufVars, countVars
  <2>5. QED
    BY <2>1, <2>2, <2>3, <2>4 DEF TypeOK
<1>4. CASE ReuseFd
  <2>1. ConnType'
    BY <1>4 DEF TypeOK, ConnType, ReuseFd, connVars, mapVars, Statuses
  <2>2. ControlType'
    BY <1>4, GotoEffect, LabelFacts DEF TypeOK, ControlType, ReuseFd, ResumeLabels
  <2>3. KernelType'
    BY <1>4 DEF TypeOK, KernelType, ReuseFd, pollVars, sockVars
  <2>4. DataType'
    BY <1>4, BoundsAssumption DEF TypeOK, DataType, ReuseFd, bufVars, countVars
  <2>5. QED
    BY <2>1, <2>2, <2>3, <2>4 DEF TypeOK
<1>5. QED
  BY <1>1, <1>2, <1>3, <1>4 DEF Env

LEMMA TypeStep == TypeOK /\ [Next]_vars => TypeOK'
<1> SUFFICES ASSUME TypeOK, [Next]_vars PROVE TypeOK'
  OBVIOUS
<1>1. CASE UNCHANGED vars
  BY <1>1 DEF vars, TypeOK, ConnType, ControlType, KernelType, DataType
<1>2. QED
  BY <1>1, CallType, LoopType, EnvType DEF Next

\* Type correctness: every variable keeps its type, for any threads and bounds.
THEOREM TypeCorrect == Spec => []TypeOK
BY TypeInit, TypeStep, PTL DEF Spec


-----------------------------------------------------------------------------
(***************************************************************************)
(* Who owns the descriptor.  OpenOwnsSocket is not inductive: on_ready     *)
(* opens a connection it found IDLE two steps earlier, and a failing       *)
(* mod_event closes the descriptor whatever conn_status says.  The         *)
(* strengthening says that until do_close begins the socket is the         *)
(* connection's and no mod_event fails, and that do_close begins only once *)
(* the connection can never be found IDLE or OPEN again.                   *)
(***************************************************************************)
Live == disconnects = 0 /\ pc[Worker] # "d_del"
Owns == conn_sd = Sd /\ fd = "own" /\ reg = "own"

OwnershipInv ==
  /\ conn_status \in {"IDLE", "OPEN"} \/ pc[Worker] = "r_set" => Live
  /\ Live => Owns /\ \A t \in Threads : pc[t] # "bad"
  /\ pc[Worker] \in {"d_close", "d_sd"} => disconnects > 0
  /\ tasks => disconnects > 0 /\ conn_sd = -1

LEMMA OwnershipInit == Init => OwnershipInv
BY ThreadsAssumption DEF Init, OwnershipInv, Live, Owns, Threads

\* While the socket is owned, mod_event succeeds and returns.
LEMMA ModEventOwned ==
  ASSUME Owns, NEW t \in Threads, NEW out \in BOOLEAN, mod_event(t, out)
  PROVE  Return(t) /\ reg' = reg
BY DEF mod_event, Owns, Sd, pollVars

\* Where mod_event takes the thread that calls it.
LEMMA ModEventPc ==
  ASSUME ControlType, NEW t \in Threads, NEW out \in BOOLEAN, mod_event(t, out)
  PROVE  /\ pc'[t] \in {IF t = Worker THEN resume ELSE "idle", "bad"}
         /\ \A u \in Threads : u # t => pc'[u] = pc[u]
BY ReturnEffect, GotoEffect, LabelFacts DEF mod_event

\* msend and close do not touch what OwnershipInv says of the worker's place,
\* of the callbacks and of the tasks; only close changes conn_status.
LEMMA CallFrame ==
  ASSUME TypeOK, NEW t \in Threads, Call(t)
  PROVE  /\ UNCHANGED <<conn_sd, in_map, tasks, disconnects>>
         /\ conn_status' \in {conn_status, "CLOSING"}
         /\ pc'[Worker] = pc[Worker] \/
              {pc[Worker], pc'[Worker]} \cap {"r_set", "d_del", "d_close", "d_sd"} = {}
<1> USE DEF connVars, mapVars, countVars
<1>1. CASE msend(t)
  BY <1>1, GotoEffect, LabelFacts DEF TypeOK, ControlType, msend, ResumeLabels
<1>2. CASE msend_push(t)
  BY <1>2, GotoEffect, ReturnEffect, LabelFacts DEF TypeOK, ControlType, msend_push, ResumeLabels
<1>3. CASE mod_event_close(t)
  BY <1>3, ReturnEffect DEF TypeOK, ControlType, mod_event_close, ResumeLabels
<1>4. CASE do_send_empty(t)
  BY <1>4, ModEventPc DEF TypeOK, ControlType, do_send_empty, do_send_lock, ResumeLabels
<1>5. CASE do_send_some(t)
  BY <1>5, ReturnEffect DEF TypeOK, ControlType, do_send_some, do_send_lock, ResumeLabels
<1>6. CASE do_send_again(t)
  BY <1>6, GotoEffect, LabelFacts DEF TypeOK, ControlType, do_send_again, do_send_lock, ResumeLabels
<1>7. CASE do_send_arm(t)
  BY <1>7, ModEventPc DEF TypeOK, ControlType, do_send_arm, ResumeLabels
<1>8. CASE do_send_fail(t)
  BY <1>8, GotoEffect, LabelFacts DEF TypeOK, ControlType, do_send_fail, do_send_lock, ResumeLabels
<1>9. CASE close_call(t)
  BY <1>9, GotoEffect, LabelFacts DEF TypeOK, ControlType, close_call, ResumeLabels
<1>10. CASE close_check(t)
  BY <1>10, GotoEffect, ReturnEffect, LabelFacts DEF TypeOK, ControlType, close_check, ResumeLabels
<1>11. CASE close_set(t)
  BY <1>11, GotoEffect, LabelFacts DEF TypeOK, ControlType, close_set, ResumeLabels
<1>12. CASE notify_send(t)
  BY <1>12, ModEventPc DEF TypeOK, ControlType, notify_send, ResumeLabels
<1>13. QED
  BY <1>1, <1>2, <1>3, <1>4, <1>5, <1>6, <1>7, <1>8, <1>9, <1>10, <1>11, <1>12 DEF Call, do_send,
           close

\* Until do_close begins, msend and close leave the socket owned, and none of
\* their mod_event calls fails.
LEMMA CallOwned ==
  ASSUME TypeOK, OwnershipInv, Live, NEW t \in Threads, Call(t)
  PROVE  Owns' /\ \A u \in Threads : pc'[u] # "bad"
<1> USE DEF connVars, pollVars
<1>1. Owns /\ \A u \in Threads : pc[u] # "bad"
  BY DEF OwnershipInv
<1>2. CASE do_send_empty(t) \/ do_send_arm(t) \/ notify_send(t)
  <2>1. Return(t) /\ UNCHANGED <<conn_sd, fd, reg>>
    BY <1>1, <1>2, ModEventOwned DEF do_send_empty, do_send_arm, notify_send
  <2>2. QED
    BY <1>1, <2>1, ReturnEffect DEF TypeOK, ControlType, ResumeLabels, Owns
<1>3. CASE msend(t) \/ do_send_again(t) \/ do_send_fail(t) \/ close_call(t) \/ close_set(t)
  <2>1. UNCHANGED <<conn_sd, fd, reg>>
    BY <1>3 DEF msend, do_send_again, do_send_fail, close_call, close_set
  <2>2. \E l \in {"push", "arm", "c_chk", "c_mod"} : Goto(t, l)
    BY <1>3 DEF msend, do_send_again, do_send_fail, close_call, close_set
  <2>3. QED
    BY <1>1, <2>1, <2>2, GotoEffect, LabelFacts DEF TypeOK, Owns
<1>4. CASE msend_push(t) \/ do_send_some(t) \/ close_check(t)
  <2>1. UNCHANGED <<conn_sd, fd, reg>>
    BY <1>4 DEF msend_push, do_send_some, close_check
  <2>2. Return(t) \/ UNCHANGED pc \/ \E l \in {"send", "c_set"} : Goto(t, l)
    BY <1>4 DEF msend_push, do_send_some, close_check
  <2>3. QED
    BY <1>1, <2>1, <2>2, ReturnEffect, GotoEffect, LabelFacts
       DEF TypeOK, ControlType, ResumeLabels, Owns
<1>5. CASE mod_event_close(t)
  BY <1>1, <1>5 DEF mod_event_close
<1>6. QED
  BY <1>2, <1>3, <1>4, <1>5 DEF Call, do_send, close

LEMMA OwnershipStep == TypeOK /\ OwnershipInv /\ [Next]_vars => OwnershipInv'
<1> SUFFICES ASSUME TypeOK, OwnershipInv, [Next]_vars PROVE OwnershipInv'
  OBVIOUS
<1> Worker \in Threads
  BY DEF Threads
<1>1. ASSUME NEW t \in Threads, Call(t) PROVE OwnershipInv'
  <2>1. Live' => Live
    BY <1>1, CallFrame DEF Live
  <2>2. Live => Live'
    BY <1>1, CallFrame DEF Live
  <2>3. QED
    BY <1>1, <2>1, <2>2, CallFrame, CallOwned DEF OwnershipInv
<1>2. CASE Loop
  <2> USE DEF OwnershipInv, Live, Owns, connVars, mapVars, pollVars, countVars
  <2>1. CASE epoll_wait
    BY <2>1, GotoEffect, LabelFacts DEF TypeOK, DataType, epoll_wait
  <2>2. CASE on_ready_check
    BY <2>2, GotoEffect, LabelFacts DEF TypeOK, DataType, on_ready_check, WorkerGoto
  <2>3. CASE on_ready
    BY <2>3, GotoEffect, LabelFacts DEF TypeOK, DataType, on_ready
  <2>4. CASE callback_end
    BY <2>4, GotoEffect, LabelFacts DEF TypeOK, DataType, callback_end, WorkerGoto
  <2>5. CASE do_read_skip
    BY <2>5, GotoEffect, LabelFacts DEF TypeOK, DataType, do_read_skip, WorkerGoto
  <2>6. CASE do_read_data
    BY <2>6, GotoEffect, LabelFacts DEF TypeOK, DataType, do_read_data
  <2>7. CASE do_read_close
    BY <2>7, GotoEffect, LabelFacts DEF TypeOK, DataType, do_read_close, WorkerGoto
  <2>8. CASE process_out
    BY <2>8, GotoEffect, LabelFacts DEF TypeOK, DataType, process_out, WorkerGoto
  <2>9. CASE process_err
    BY <2>9, GotoEffect, LabelFacts DEF TypeOK, DataType, process_err, WorkerGoto
  <2>10. CASE process_end
    BY <2>10, GotoEffect, LabelFacts DEF TypeOK, DataType, process_end, WorkerGoto
  <2>11. CASE do_close
    BY <2>11, GotoEffect, LabelFacts DEF TypeOK, DataType, do_close
  <2>12. CASE do_close_del
    BY <2>12, GotoEffect, LabelFacts DEF TypeOK, DataType, do_close_del, Sd
  <2>13. CASE do_close_fd
    BY <2>13, GotoEffect, LabelFacts DEF TypeOK, DataType, do_close_fd, CloseFd
  <2>14. CASE do_close_post
    BY <2>14, GotoEffect, LabelFacts DEF TypeOK, DataType, do_close_post, closed_sd
  <2>15. CASE run_tasks
    BY <2>15, GotoEffect, LabelFacts DEF TypeOK, DataType, run_tasks
  <2>16. QED
    BY <1>2, <2>1, <2>2, <2>3, <2>4, <2>5, <2>6, <2>7, <2>8, <2>9, <2>10, <2>11, <2>12, <2>13,
       <2>14, <2>15 DEF Loop
<1>3. CASE Env
  BY <1>3 DEF Env, PeerRecv, PeerSend, PeerClose, ReuseFd, OwnershipInv, Live, Owns,
              connVars, mapVars, pollVars, countVars
<1>4. CASE UNCHANGED vars
  BY <1>4 DEF vars, OwnershipInv, Live, Owns
<1>5. QED
  BY <1>1, <1>2, <1>3, <1>4 DEF Next

\* Until do_close begins, the descriptor and its epoll entry are the
\* connection's and no mod_event fails; afterwards it is never IDLE or OPEN again
\* (on_ready, close, process_event, do_close).
THEOREM Ownership == Spec => []OwnershipInv
BY TypeInit, TypeStep, OwnershipInit, OwnershipStep, PTL DEF Spec

\* A connection that reports itself open owns its socket and its epoll entry.
THEOREM OpenOwns == Spec => []OpenOwnsSocket
<1>1. OwnershipInv => OpenOwnsSocket
  BY DEF OwnershipInv, OpenOwnsSocket, Owns
<1>2. QED
  BY <1>1, Ownership, PTL

\* No connection opens again after EVT_DISCONNECT, and the factory drops it only
\* after EVT_DISCONNECT and the reset of conn_sd.
THEOREM Reopening == Spec => NeverReopened
<1> DEFINE Kept == /\ conn_status' = "OPEN" /\ conn_status # "OPEN" => disconnects = 0
                   /\ in_map /\ ~in_map' => disconnects > 0 /\ conn_sd = -1
<1>1. TypeOK /\ OwnershipInv /\ [Next]_vars => [Kept]_vars
  <2> SUFFICES ASSUME TypeOK, OwnershipInv, Next PROVE Kept
    OBVIOUS
  <2>1. ASSUME NEW t \in Threads, Call(t) PROVE Kept
    BY <2>1, CallFrame
  <2>2. CASE run_tasks
    <3>1. in_map /\ ~in_map' => tasks
      BY <2>2, Zenon DEF run_tasks, TypeOK, ConnType
    <3>2. QED
      BY <2>2, <3>1 DEF OwnershipInv, run_tasks, connVars
  <2>3. CASE Loop /\ ~run_tasks
    <3>1. UNCHANGED in_map
      BY <2>3 DEF Loop, WorkerGoto, epoll_wait, on_ready_check, on_ready, callback_end,
         do_read_skip, do_read_data, do_read_close, process_out, process_err,
         process_end, do_close, do_close_del, do_close_fd, do_close_post, mapVars
    <3>2. conn_status' = "OPEN" => conn_status = "OPEN" \/ pc[Worker] = "r_set"
      BY <2>3 DEF Loop, WorkerGoto, epoll_wait, on_ready_check, on_ready, callback_end,
         do_read_skip, do_read_data, do_read_close, process_out, process_err,
         process_end, do_close, do_close_del, do_close_fd, do_close_post, connVars
    <3>3. QED
      BY <3>1, <3>2 DEF OwnershipInv, Live
  <2>4. CASE Env
    BY <2>4 DEF Env, PeerRecv, PeerSend, PeerClose, ReuseFd, connVars, mapVars
  <2>5. QED
    BY <2>1, <2>2, <2>3, <2>4 DEF Next
<1>2. QED
  BY <1>1, TypeCorrect, Ownership, PTL DEF Spec, NeverReopened

-----------------------------------------------------------------------------
(***************************************************************************)
(* The byte stream.  StreamIntegrity is inductive relative to TypeOK: the  *)
(* two equations move together under write_mutex, and the descriptor never *)
(* names the connection's socket again once it was closed.                 *)
(***************************************************************************)

\* Facts about sequences.
LEMMA ConcatAssoc ==
  ASSUME NEW a \in Seq(Byte), NEW b \in Seq(Byte), NEW c \in Seq(Byte)
  PROVE  (a \o b) \o c = a \o (b \o c)
OBVIOUS

LEMMA PrefixOfConcat ==
  ASSUME NEW a \in Seq(Byte), NEW b \in Seq(Byte)
  PROVE  /\ IsPrefix(a, a \o b)
         /\ SubSeq(a \o b, 1, Len(a)) = a
         /\ Len(a \o b) = Len(a) + Len(b)
BY DEF IsPrefix

LEMMA PrefixExtends ==
  ASSUME NEW a \in Seq(Byte), NEW b \in Seq(Byte), NEW c \in Seq(Byte), IsPrefix(a, b)
  PROVE  IsPrefix(a, b \o c)
BY DEF IsPrefix

\* The round of do_send that the kernel takes bytes from: either the
\* connection's socket took the bytes that left send_buffer, or it is gone.
LEMMA SendSome ==
  ASSUME TypeOK, NEW t \in Threads, do_send_some(t)
  PROVE  /\ UNCHANGED <<pushed, fd>>
         /\ \/ fd = "other" /\ UNCHANGED accepted
            \/ \E n \in 1..Len(send_buffer) :
                 /\ fd = "own" /\ send_buffer' = unsent(n)
                 /\ accepted' = accepted \o SubSeq(send_buffer, 1, n)
                 /\ accepted' \o send_buffer' = accepted \o send_buffer
<1>1. PICK n \in 1..Len(send_buffer) :
        /\ \/ fd = "own" /\ accepted' = accepted \o SubSeq(send_buffer, 1, n)
           \/ fd = "other" /\ UNCHANGED accepted
        /\ send_buffer' = unsent(n)
  BY DEF do_send_some
<1>2. accepted \o send_buffer = (accepted \o SubSeq(send_buffer, 1, n)) \o unsent(n)
  <2>1. /\ unsent(n) \in Seq(Byte) /\ SubSeq(send_buffer, 1, n) \in Seq(Byte)
        /\ SubSeq(send_buffer, 1, n) \o unsent(n) = send_buffer
        /\ accepted \in Seq(Byte)
    BY UnsentType DEF TypeOK, DataType
  <2>2. (accepted \o SubSeq(send_buffer, 1, n)) \o unsent(n)
          = accepted \o (SubSeq(send_buffer, 1, n) \o unsent(n))
    BY <2>1, ConcatAssoc
  <2>3. QED
    BY <2>1, <2>2
<1>3. QED
  BY <1>1, <1>2 DEF do_send_some

\* Every other step leaves the buffer alone, except the push of msend.
LEMMA StreamFrame ==
  ASSUME TypeOK, [Next]_vars
  PROVE  /\ fd' = "own" => fd = "own"
         /\ \/ UNCHANGED bufVars
            \/ \E t \in Threads : do_send_some(t)
            \/ \E b \in Seq(Byte) : /\ send_buffer' = send_buffer \o b
                                    /\ pushed' = pushed \o b
                                    /\ UNCHANGED <<accepted, fd>>
<1>1. ASSUME NEW t \in Threads, Call(t), ~do_send_some(t), ~msend_push(t)
      PROVE  UNCHANGED bufVars /\ (fd' = "own" => fd = "own")
  BY <1>1 DEF Call, do_send, close, msend, mod_event_close, do_send_empty, do_send_again,
     do_send_arm, do_send_fail, close_call, close_check, close_set, notify_send, CloseFd, bufVars
<1>2. ASSUME NEW t \in Threads, msend_push(t)
      PROVE  \E b \in Seq(Byte) : /\ send_buffer' = send_buffer \o b
                                  /\ pushed' = pushed \o b
                                  /\ UNCHANGED <<accepted, fd>>
  BY <1>2, MpushType DEF TypeOK, DataType, msend_push
<1>3. CASE Loop
  BY <1>3 DEF Loop, WorkerGoto, epoll_wait, on_ready_check, on_ready, callback_end,
     do_read_skip, do_read_data, do_read_close, process_out, process_err, process_end,
     do_close, do_close_del, do_close_fd, do_close_post, run_tasks, CloseFd, bufVars
<1>4. CASE Env
  BY <1>4 DEF Env, PeerRecv, PeerSend, PeerClose, ReuseFd, bufVars
<1>5. CASE UNCHANGED vars
  BY <1>5 DEF vars, bufVars
<1>6. QED
  BY <1>1, <1>2, <1>3, <1>4, <1>5, SendSome DEF Next

LEMMA StreamStep == TypeOK /\ StreamIntegrity /\ [Next]_vars => StreamIntegrity'
<1> SUFFICES ASSUME TypeOK, StreamIntegrity, [Next]_vars PROVE StreamIntegrity'
  OBVIOUS
<1> USE DEF StreamIntegrity
<1>1. CASE UNCHANGED bufVars
  BY <1>1, StreamFrame DEF bufVars
<1>2. CASE \E t \in Threads : do_send_some(t)
  <2>1. CASE fd = "other" /\ UNCHANGED <<pushed, accepted, fd>>
    BY <2>1
  <2>2. CASE fd = "own" /\ UNCHANGED pushed /\ accepted' \o send_buffer' = accepted \o send_buffer
    <3>1. accepted' \in Seq(Byte) /\ send_buffer' \in Seq(Byte)
      BY TypeStep DEF TypeOK, DataType
    <3>2. accepted' \o send_buffer' = pushed'
      BY <2>2
    <3>3. IsPrefix(accepted', pushed')
      BY <3>1, <3>2, PrefixOfConcat
    <3>4. QED
      BY <3>2, <3>3
  <2>3. QED
    BY <1>2, <2>1, <2>2, SendSome
<1>3. ASSUME NEW b \in Seq(Byte), send_buffer' = send_buffer \o b, pushed' = pushed \o b,
             UNCHANGED <<accepted, fd>>
      PROVE  StreamIntegrity'
  <2>1. IsPrefix(accepted', pushed')
    BY <1>3, PrefixExtends DEF TypeOK, DataType
  <2>2. accepted \o (send_buffer \o b) = (accepted \o send_buffer) \o b
    BY ConcatAssoc DEF TypeOK, DataType
  <2>3. QED
    BY <1>3, <2>1, <2>2
<1>4. QED
  BY <1>1, <1>2, <1>3, StreamFrame

\* The byte stream is never torn: for any threads, messages and socket size, the
\* bytes the socket took are a prefix of the bytes msend appended, and the
\* buffer holds the rest while the socket exists.
THEOREM StreamSafe == Spec => []StreamIntegrity
<1>1. Init => StreamIntegrity
  BY PrefixOfConcat DEF Init, StreamIntegrity, IsPrefix
<1>2. QED
  BY <1>1, TypeInit, TypeStep, StreamStep, PTL DEF Spec

\* The connection implements the abstract byte stream of TcpStream.
THEOREM Refinement == Spec => ByteStream
<1>1. Init => Stream!StreamInit
  BY DEF Init, Stream!StreamInit
<1>2. TypeOK /\ StreamIntegrity /\ [Next]_vars => [Stream!StreamNext]_(Stream!streamVars)
  <2> SUFFICES ASSUME TypeOK, StreamIntegrity, [Next]_vars
               PROVE  Stream!StreamNext \/ UNCHANGED Stream!streamVars
    OBVIOUS
  <2> USE DEF Stream!StreamNext, Stream!streamVars
  <2>1. CASE UNCHANGED bufVars
    BY <2>1, StreamFrame DEF bufVars, Stream!End
  <2>2. CASE \E t \in Threads : do_send_some(t)
    <3>1. CASE fd = "other" /\ UNCHANGED <<pushed, accepted, fd>>
      BY <3>1
    <3>2. ASSUME fd = "own", UNCHANGED <<pushed, fd>>, NEW n \in 1..Len(send_buffer),
                 accepted' = accepted \o SubSeq(send_buffer, 1, n)
          PROVE  Stream!Transmit
      <4>1. /\ Len(pushed) = Len(accepted) + Len(send_buffer)
            /\ pushed = accepted \o send_buffer
        BY <3>2, PrefixOfConcat DEF StreamIntegrity, TypeOK, DataType
      <4>2. accepted' = SubSeq(pushed, 1, Len(accepted) + n)
        BY <3>2, <4>1 DEF TypeOK, DataType
      <4>3. n \in 1..(Len(pushed) - Len(accepted))
        BY <4>1 DEF TypeOK, DataType
      <4>4. QED
        BY <3>2, <4>2, <4>3 DEF Stream!Transmit
    <3>3. QED
      BY <2>2, <3>1, <3>2, SendSome
  <2>3. ASSUME NEW b \in Seq(Byte), pushed' = pushed \o b, UNCHANGED <<accepted, fd>>
        PROVE  Stream!Push
    BY <2>3, PrefixOfConcat DEF Stream!Push, TypeOK, DataType
  <2>4. QED
    BY <2>1, <2>2, <2>3, StreamFrame
<1>3. QED
  BY <1>1, <1>2, TypeCorrect, StreamSafe, PTL DEF Spec, ByteStream, Stream!StreamSpec

-----------------------------------------------------------------------------
(***************************************************************************)
(* No lost wake-up.  NoLostWakeup is inductive relative to OwnershipInv,   *)
(* which makes each mod_event of an open connection arm or disarm the      *)
(* connection's own entry, and to one fact about the beginning: on_ready   *)
(* opens the connection when nothing was pushed yet, also when close() of  *)
(* another thread set CLOSING in between.                                  *)
(***************************************************************************)
FreshInv ==
  conn_status = "IDLE" \/ pc[Worker] = "r_set" =>
    /\ conn_status # "OPEN" /\ send_buffer = <<>>
    /\ \A t \in Threads : pc[t] # "push"

LEMMA FreshInit == Init => FreshInv
BY ThreadsAssumption DEF Init, FreshInv, Threads

LEMMA FreshStep == TypeOK /\ FreshInv /\ [Next]_vars => FreshInv'
<1> SUFFICES ASSUME TypeOK, FreshInv, [Next]_vars PROVE FreshInv'
  OBVIOUS
<1> Worker \in Threads
  BY DEF Threads
<1>1. ASSUME NEW t \in Threads, Call(t) PROVE FreshInv'
  <2>1. conn_status' = "IDLE" \/ pc'[Worker] = "r_set"
          => conn_status = "IDLE" \/ pc[Worker] = "r_set"
    BY <1>1, CallFrame
  <2>2. CASE msend(t) \/ msend_push(t)
    BY <2>1, <2>2 DEF msend, msend_push, FreshInv
  <2>3. CASE do_send_some(t)
    <3>1. ~(conn_status = "IDLE" \/ pc[Worker] = "r_set")
      BY <2>3 DEF do_send_some, FreshInv
    <3>2. QED
      BY <2>1, <3>1 DEF FreshInv
  <2>4. CASE ~(msend(t) \/ msend_push(t) \/ do_send_some(t))
    <3>1. UNCHANGED send_buffer
      BY <1>1, <2>4 DEF Call, do_send, close, mod_event_close, do_send_empty, do_send_again,
         do_send_arm, do_send_fail, close_call, close_check, close_set, notify_send, bufVars
    <3>2. pc'[t] # "push" /\ \A u \in Threads : u # t => pc'[u] = pc[u]
      <4>1. CASE mod_event_close(t)
        BY <4>1, ReturnEffect DEF mod_event_close, TypeOK, ControlType, ResumeLabels
      <4>2. CASE do_send_empty(t)
        BY <4>2, ModEventPc DEF do_send_empty, TypeOK, ControlType, ResumeLabels
      <4>3. CASE do_send_arm(t)
        BY <4>3, ModEventPc DEF do_send_arm, TypeOK, ControlType, ResumeLabels
      <4>4. CASE notify_send(t)
        BY <4>4, ModEventPc DEF notify_send, TypeOK, ControlType, ResumeLabels
      <4>5. CASE do_send_again(t) \/ do_send_fail(t) \/ close_call(t) \/ close_set(t)
        BY <4>5, GotoEffect, LabelFacts
           DEF do_send_again, do_send_fail, close_call, close_set, TypeOK
      <4>6. CASE close_check(t)
        BY <4>6, ReturnEffect, GotoEffect, LabelFacts
           DEF close_check, TypeOK, ControlType, ResumeLabels
      <4>7. QED
        BY <1>1, <2>4, <4>1, <4>2, <4>3, <4>4, <4>5, <4>6 DEF Call, do_send, close
    <3>3. conn_status' \in {conn_status, "CLOSING"}
      BY <1>1, CallFrame
    <3>4. QED
      BY <2>1, <3>1, <3>2, <3>3 DEF FreshInv
  <2>5. QED
    BY <2>2, <2>3, <2>4
<1>2. CASE Loop
  <2> USE DEF FreshInv, connVars, bufVars
  <2>1. CASE on_ready
    BY <2>1, GotoEffect, LabelFacts DEF TypeOK, on_ready
  <2>2. CASE on_ready_check
    BY <2>2, GotoEffect, LabelFacts DEF TypeOK, on_ready_check, WorkerGoto
  <2>3. CASE do_close
    BY <2>3, GotoEffect, LabelFacts DEF TypeOK, do_close
  <2>4. CASE Loop /\ ~on_ready /\ ~on_ready_check /\ ~do_close
    <3>1. UNCHANGED <<conn_status, send_buffer>>
      BY <2>4 DEF Loop, WorkerGoto, epoll_wait, callback_end,
         do_read_skip, do_read_data, do_read_close, process_out, process_err, process_end,
         do_close_del, do_close_fd, do_close_post, run_tasks
    <3>2. \/ UNCHANGED pc
          \/ \E l \in LoopLabels \cup {"send", "c_chk"} : l # "r_set" /\ Goto(Worker, l)
      BY <2>4 DEF Loop, WorkerGoto, epoll_wait, callback_end, LoopLabels,
         do_read_skip, do_read_data, do_read_close, process_out, process_err, process_end,
         do_close_del, do_close_fd, do_close_post, run_tasks
    <3>3. \/ UNCHANGED pc
          \/ /\ pc'[Worker] \notin {"r_set", "push"}
             /\ \A u \in Threads : u # Worker => pc'[u] = pc[u]
      BY <3>2, GotoEffect, LabelFacts DEF TypeOK, LoopLabels
    <3>4. QED
      BY <3>1, <3>3
  <2>5. QED
    BY <1>2, <2>1, <2>2, <2>3, <2>4
<1>3. CASE Env
  BY <1>3 DEF Env, PeerRecv, PeerSend, PeerClose, ReuseFd, FreshInv, connVars, bufVars
<1>4. CASE UNCHANGED vars
  BY <1>4 DEF vars, FreshInv
<1>5. QED
  BY <1>1, <1>2, <1>3, <1>4 DEF Next

\* Arming EPOLLOUT of an owned socket: if there is room, the entry is queued.
LEMMA ModEventArms ==
  ASSUME Owns, NEW t \in Threads, mod_event(t, TRUE)
  PROVE  Return(t) /\ reg_out' = TRUE /\ (Writable => queued')
<1>1. /\ Return(t) /\ reg_out' = TRUE
      /\ queued' = (queued \/ Ready(TRUE) # {})
  BY DEF mod_event, Owns, Sd
<1>2. Writable => "OUT" \in Ready(TRUE)
  BY DEF Ready, Events
<1>3. QED
  BY <1>1, <1>2

\* A thread that is about to send, to arm EPOLLOUT or to close.
Busy(t) == pc[t] \in {"send", "arm", "c_chk", "c_set"}

\* The other half of NoLostWakeup: EPOLLOUT is armed, and with room in the socket
\* the event is on its way.
Armed == reg_out /\ (Writable => queued \/ WorkerWillSend)

LEMMA WakeCall ==
  ASSUME TypeOK, OwnershipInv, NoLostWakeup, NEW t \in Threads, Call(t)
  PROVE  NoLostWakeup'
<1> SUFFICES ASSUME conn_status' = "OPEN", send_buffer' # <<>>
             PROVE  (\E u \in Threads : Busy(u)') \/ Armed'
  BY DEF NoLostWakeup, Busy, Armed
<1>1. conn_status = "OPEN" /\ Owns
  BY CallFrame DEF OwnershipInv
<1>2. CASE do_send_arm(t) \/ notify_send(t)
  <2>1. mod_event(t, TRUE) /\ UNCHANGED sockVars
    BY <1>2 DEF do_send_arm, notify_send
  <2>2. reg_out' /\ (Writable => queued')
    BY <1>1, <2>1, ModEventArms
  <2>3. Writable' = Writable
    BY <2>1 DEF Writable, sockVars
  <2>4. QED
    BY <2>2, <2>3 DEF Armed
<1>3. CASE do_send_empty(t)
  BY <1>3 DEF do_send_empty, bufVars
<1>4. CASE do_send_again(t) \/ do_send_fail(t) \/ close_call(t)
  BY <1>4, GotoEffect, LabelFacts DEF do_send_again, do_send_fail, close_call, TypeOK, Busy
<1>5. CASE close_check(t)
  BY <1>1, <1>5, GotoEffect, LabelFacts DEF close_check, TypeOK, Busy
<1>6. CASE close_set(t)
  BY <1>6 DEF close_set
<1>7. CASE mod_event_close(t)
  BY <1>1, <1>7 DEF mod_event_close, OwnershipInv
<1>8. CASE do_send_some(t)
  <2>1. PICK n \in 1..Len(send_buffer) :
          /\ send_buffer' = unsent(n)
          /\ IF n < Len(send_buffer) THEN UNCHANGED <<pc, write_mutex>> ELSE Return(t)
    BY <1>8 DEF do_send_some
  <2>2. n < Len(send_buffer)
    <3>1. n = Len(send_buffer) => unsent(n) = <<>>
      BY DEF unsent, TypeOK, DataType
    <3>2. QED
      BY <2>1, <3>1
  <2>3. QED
    BY <1>8, <2>1, <2>2 DEF do_send_some, do_send_lock, Busy
<1>9. CASE msend(t)
  <2>1. /\ pc'[t] = "push" /\ pc[t] \notin {"send", "arm", "c_chk", "c_set"}
        /\ \A u \in Threads : u # t => pc'[u] = pc[u]
    BY <1>9, GotoEffect, LabelFacts DEF msend, TypeOK
  <2>2. (\E u \in Threads : Busy(u)) => \E u \in Threads : Busy(u)'
    BY <2>1 DEF Busy
  <2>3. WorkerWillSend => WorkerWillSend'
    <3>1. CASE t = Worker
      <4>1. pc[Worker] \in {"cb_connect", "cb_data"} /\ resume' = pc[Worker] /\ evts' = evts
        BY <1>9, <3>1, ThreadsAssumption DEF msend
      <4>2. QED
        BY <2>1, <3>1, <4>1 DEF WorkerWillSend, CallLabels
    <3>2. CASE t # Worker
      BY <1>9, <2>1, <3>2 DEF msend, WorkerWillSend, Threads
    <3>3. QED
      BY <3>1, <3>2
  <2>4. Armed => Armed'
    BY <1>9, <2>3 DEF Armed, msend, pollVars, sockVars, Writable
  <2>5. conn_status = "OPEN" /\ send_buffer # <<>>
    BY <1>1, <1>9 DEF msend, bufVars
  <2>6. QED
    BY <2>2, <2>4, <2>5 DEF NoLostWakeup, Busy, Armed
<1>10. CASE msend_push(t)
  <2>1. CASE send_buffer = <<>>
    BY <1>10, <2>1, GotoEffect, LabelFacts DEF msend_push, TypeOK, Busy
  <2>2. CASE send_buffer # <<>>
    <3>1. Return(t) /\ pc[t] = "push"
      BY <1>10, <2>2 DEF msend_push
    <3>2. (\E u \in Threads : Busy(u)) => \E u \in Threads : Busy(u)'
      BY <3>1, ReturnEffect DEF Busy, TypeOK
    <3>3. WorkerWillSend => WorkerWillSend'
      <4>1. CASE t = Worker
        <5>1. pc'[Worker] = resume /\ resume \in ResumeLabels /\ UNCHANGED <<evts, resume>>
          BY <1>10, <3>1, <4>1, ReturnEffect DEF msend_push, TypeOK, ControlType
        <5>2. QED
          BY <3>1, <4>1, <5>1 DEF WorkerWillSend, CallLabels, ResumeLabels
      <4>2. CASE t # Worker
        BY <1>10, <3>1, <4>2, ReturnEffect DEF msend_push, WorkerWillSend, Threads, TypeOK
      <4>3. QED
        BY <4>1, <4>2
    <3>4. Armed => Armed'
      BY <1>10, <3>3 DEF Armed, msend_push, pollVars, sockVars, Writable
    <3>5. QED
      BY <1>1, <2>2, <3>2, <3>4 DEF NoLostWakeup, Busy, Armed
  <2>3. QED
    BY <2>1, <2>2
<1>11. QED
  BY <1>2, <1>3, <1>4, <1>5, <1>6, <1>7, <1>8, <1>9, <1>10 DEF Call, do_send, close

LEMMA WakeLoop ==
  ASSUME TypeOK, OwnershipInv, FreshInv, NoLostWakeup, Loop
  PROVE  NoLostWakeup'
<1> SUFFICES ASSUME conn_status' = "OPEN", send_buffer' # <<>>
             PROVE  (\E u \in Threads : Busy(u)') \/ Armed'
  BY DEF NoLostWakeup, Busy, Armed
<1> Worker \in Threads
  BY DEF Threads
<1>1. UNCHANGED send_buffer /\ ~on_ready
  BY DEF Loop, WorkerGoto, epoll_wait, on_ready_check, on_ready, callback_end,
     do_read_skip, do_read_data, do_read_close, process_out, process_err, process_end,
     do_close, do_close_del, do_close_fd, do_close_post, run_tasks, bufVars, FreshInv
<1>2. UNCHANGED conn_status /\ ~do_close
  BY <1>1 DEF Loop, WorkerGoto, epoll_wait, on_ready_check, callback_end,
     do_read_skip, do_read_data, do_read_close, process_out, process_err, process_end,
     do_close, do_close_del, do_close_fd, do_close_post, run_tasks, connVars
<1>3. /\ conn_status = "OPEN" /\ Owns /\ Live
      /\ (\E u \in Threads : Busy(u)) \/ Armed
  BY <1>1, <1>2 DEF OwnershipInv, NoLostWakeup, Busy, Armed
<1>4. pc[Worker] \in LoopLabels \ {"d_del", "d_close", "d_sd"}
  BY <1>1, <1>2, <1>3 DEF Loop, Live, LoopLabels, epoll_wait, on_ready_check, callback_end,
     do_read_skip, do_read_data, do_read_close, process_out, process_err, process_end,
     do_close_del, do_close_fd, do_close_post, run_tasks, OwnershipInv
<1>5. ASSUME NEW l \in Labels, Goto(Worker, l)
      PROVE  /\ pc'[Worker] = l
             /\ (\E u \in Threads : Busy(u)) => \E u \in Threads : Busy(u)'
  <2>1. pc'[Worker] = l /\ \A u \in Threads : u # Worker => pc'[u] = pc[u]
    BY <1>5, GotoEffect DEF TypeOK
  <2>2. ~Busy(Worker)
    BY <1>4 DEF Busy, LoopLabels
  <2>3. QED
    BY <2>1, <2>2 DEF Busy
<1>6. ASSUME NEW l \in Labels, Goto(Worker, l), UNCHANGED <<pollVars, evts, inflight, peer>>,
             WorkerWillSend => WorkerWillSend'
      PROVE  (\E u \in Threads : Busy(u)') \/ Armed'
  BY <1>3, <1>5, <1>6 DEF Armed, Writable, pollVars
<1>7. CASE epoll_wait
  <2>1. /\ reg = "own" /\ queued /\ evts' = Ready(reg_out)
        /\ IF evts' = {} THEN UNCHANGED pc ELSE Goto(Worker, "ready")
        /\ UNCHANGED <<reg_out, sockVars>>
    BY <1>3, <1>7 DEF epoll_wait, Owns
  <2>2. CASE \E u \in Threads : Busy(u)
    BY <1>5, <2>1, <2>2, LabelFacts DEF Busy
  <2>3. CASE Armed
    <3>1. reg_out' /\ Writable' = Writable
      BY <2>1, <2>3 DEF Armed, Writable, sockVars
    <3>2. Writable => WorkerWillSend'
      <4> SUFFICES ASSUME Writable PROVE WorkerWillSend'
        OBVIOUS
      <4>1. "OUT" \in evts'
        BY <2>1, <2>3 DEF Armed, Ready, Events
      <4>2. pc'[Worker] = "ready"
        BY <1>5, <2>1, <4>1, LabelFacts
      <4>3. QED
        BY <4>1, <4>2 DEF WorkerWillSend, CallLabels
    <3>3. QED
      BY <3>1, <3>2 DEF Armed
  <2>4. QED
    BY <1>3, <2>2, <2>3
<1>8. CASE on_ready_check
  <2>1. Goto(Worker, "in") /\ UNCHANGED <<pollVars, evts, inflight, peer>> /\ pc[Worker] = "ready"
    BY <1>3, <1>8 DEF on_ready_check, WorkerGoto, sockVars
  <2>2. WorkerWillSend => WorkerWillSend'
    BY <1>5, <2>1, LabelFacts DEF WorkerWillSend, CallLabels
  <2>3. QED
    BY <1>6, <2>1, <2>2, LabelFacts
<1>9. CASE callback_end
  <2>1. PICK l \in {"in", "out"} :
          Goto(Worker, l) /\ UNCHANGED <<pollVars, evts, inflight, peer>>
    BY <1>9 DEF callback_end, WorkerGoto, sockVars
  <2>2. WorkerWillSend => WorkerWillSend'
    BY <1>5, <1>9, <2>1, LabelFacts DEF WorkerWillSend, CallLabels
  <2>3. QED
    BY <1>6, <2>1, <2>2, LabelFacts
<1>10. CASE do_read_skip \/ do_read_data
  <2>1. PICK l \in {"out", "cb_data"} :
          Goto(Worker, l) /\ UNCHANGED <<pollVars, evts, inflight, peer>>
    BY <1>10 DEF do_read_skip, do_read_data, WorkerGoto, sockVars
  <2>2. WorkerWillSend => WorkerWillSend'
    BY <1>5, <2>1, LabelFacts DEF WorkerWillSend, CallLabels
  <2>3. QED
    BY <1>6, <2>1, <2>2, LabelFacts
<1>11. CASE do_read_close
  BY <1>5, <1>11, LabelFacts DEF do_read_close, WorkerGoto, Busy
<1>12. CASE process_out
  <2>1. CASE "OUT" \in evts
    BY <1>5, <1>12, <2>1, LabelFacts DEF process_out, WorkerGoto, Busy
  <2>2. CASE "OUT" \notin evts
    BY <1>6, <1>12, <2>2, LabelFacts DEF process_out, WorkerGoto, sockVars, WorkerWillSend
  <2>3. QED
    BY <2>1, <2>2
<1>13. CASE process_err \/ process_end \/ run_tasks
  <2>1. PICK l \in {"c_chk", "fin", "run", "wait"} :
          Goto(Worker, l) /\ UNCHANGED <<pollVars, evts, inflight, peer>>
    BY <1>13 DEF process_err, process_end, run_tasks, WorkerGoto, sockVars
  <2>2. ~WorkerWillSend
    BY <1>13 DEF process_err, process_end, run_tasks, WorkerWillSend, CallLabels
  <2>3. QED
    BY <1>6, <2>1, <2>2, LabelFacts
<1>14. CASE do_close_del \/ do_close_fd \/ do_close_post
  BY <1>4, <1>14 DEF do_close_del, do_close_fd, do_close_post
<1>15. QED
  BY <1>1, <1>2, <1>7, <1>8, <1>9, <1>10, <1>11, <1>12, <1>13, <1>14 DEF Loop

LEMMA WakeEnv ==
  ASSUME TypeOK, OwnershipInv, NoLostWakeup, Env
  PROVE  NoLostWakeup'
<1> SUFFICES ASSUME conn_status' = "OPEN", send_buffer' # <<>>
             PROVE  (\E u \in Threads : Busy(u)') \/ Armed'
  BY DEF NoLostWakeup, Busy, Armed
<1>1. UNCHANGED <<conn_status, send_buffer, pc, evts, resume, reg_out>>
  BY DEF Env, PeerRecv, PeerSend, PeerClose, ReuseFd, connVars, bufVars, pollVars
<1>2. Owns /\ ((\E u \in Threads : Busy(u)) \/ Armed)
  BY <1>1 DEF OwnershipInv, NoLostWakeup, Busy, Armed
<1>3. (\E u \in Threads : Busy(u)) => \E u \in Threads : Busy(u)'
  BY <1>1 DEF Busy
<1>4. WorkerWillSend' = WorkerWillSend
  BY <1>1 DEF WorkerWillSend
<1>5. CASE PeerSend \/ PeerClose
  <2>1. queued'
    BY <1>2, <1>5 DEF PeerSend, PeerClose, Wake, Owns
  <2>2. QED
    BY <1>1, <1>2, <1>3, <2>1 DEF Armed
<1>6. CASE PeerRecv
  <2>1. CASE inflight = SockCap /\ reg_out
    BY <1>1, <1>2, <1>6, <2>1 DEF PeerRecv, Wake, Owns, Armed
  <2>2. CASE inflight # SockCap
    <3>1. Writable
      BY <2>2, BoundsAssumption DEF Writable, TypeOK, KernelType
    <3>2. UNCHANGED queued
      BY <1>6, <2>2 DEF PeerRecv
    <3>3. QED
      BY <1>1, <1>2, <1>3, <1>4, <3>1, <3>2 DEF Armed
  <2>3. CASE ~reg_out
    BY <1>2, <1>3, <2>3 DEF Armed
  <2>4. QED
    BY <2>1, <2>2, <2>3
<1>7. CASE ReuseFd
  BY <1>2, <1>7 DEF ReuseFd, Owns
<1>8. QED
  BY <1>5, <1>6, <1>7 DEF Env

\* Data in send_buffer of an open connection is never stranded: msend's hand-over,
\* do_send's disarming and arming of EPOLLOUT and the worker's stages always leave
\* somebody who will send it, for any threads and any socket.
THEOREM WakeupKept == Spec => []NoLostWakeup
<1>1. Init => NoLostWakeup
  BY DEF Init, NoLostWakeup
<1>2. TypeOK /\ OwnershipInv /\ FreshInv /\ NoLostWakeup /\ [Next]_vars => NoLostWakeup'
  <2> SUFFICES ASSUME TypeOK, OwnershipInv, FreshInv, NoLostWakeup, [Next]_vars
               PROVE  NoLostWakeup'
    OBVIOUS
  <2>1. CASE UNCHANGED vars
    BY <2>1 DEF vars, NoLostWakeup, WorkerWillSend, Writable
  <2>2. QED
    BY <2>1, WakeCall, WakeLoop, WakeEnv DEF Next
<1>3. QED
  BY <1>1, <1>2, TypeInit, TypeStep, OwnershipInit, OwnershipStep, FreshInit, FreshStep, PTL
     DEF Spec

-----------------------------------------------------------------------------
(***************************************************************************)
(* A connection that only the worker's callbacks use.  With one thread the *)
(* end of the connection is a straight line: del_event takes the entry out *)
(* of the epoll set while the descriptor is still the connection's, so no  *)
(* event comes after it and the worker is in no call when the number is    *)
(* given back.                                                             *)
(***************************************************************************)
AloneInv ==
  /\ disconnects = 0 => Owns
  /\ disconnects > 0 =>
       /\ disconnects = 1 /\ reg = "none"
       /\ \/ pc[Worker] = "d_close" /\ fd = "own"
          \/ pc[Worker] = "d_sd"
          \/ pc[Worker] \in {"run", "wait"} /\ conn_sd = -1
  /\ pc[Worker] # "bad"

\* The worker's steps keep AloneInv, whoever else there is.
LEMMA AloneStep ==
  ASSUME TypeOK, OwnershipInv, AloneInv, Call(Worker) \/ Loop \/ Env \/ UNCHANGED vars
  PROVE  AloneInv'
<1> Worker \in Threads
  BY DEF Threads
<1>1. CASE Call(Worker)
  <2>1. pc[Worker] \in CallLabels \cup {"cb_connect", "cb_data"}
    BY <1>1, ThreadsAssumption
       DEF Call, do_send, close, msend, msend_push, mod_event_close, do_send_empty, do_send_some,
       do_send_again, do_send_arm, do_send_fail, do_send_lock, close_call,
       close_check, close_set, notify_send, CallLabels
  <2>2. disconnects = 0 /\ pc[Worker] # "d_del"
    BY <2>1 DEF AloneInv, CallLabels, TypeOK, DataType
  <2>3. Owns' /\ pc'[Worker] # "bad"
    BY <1>1, <2>2, CallOwned DEF Live
  <2>4. disconnects' = 0
    BY <1>1, <2>2, CallFrame
  <2>5. QED
    BY <2>3, <2>4 DEF AloneInv
<1>2. CASE Loop
  <2> USE DEF AloneInv, Owns, connVars, mapVars, pollVars, countVars
  <2>1. CASE epoll_wait
    BY <2>1, GotoEffect, LabelFacts DEF TypeOK, DataType, epoll_wait
  <2>2. CASE on_ready_check
    BY <2>2, GotoEffect, LabelFacts DEF TypeOK, DataType, on_ready_check, WorkerGoto
  <2>3. CASE on_ready
    BY <2>3, GotoEffect, LabelFacts DEF TypeOK, DataType, on_ready
  <2>4. CASE callback_end
    BY <2>4, GotoEffect, LabelFacts DEF TypeOK, DataType, callback_end, WorkerGoto
  <2>5. CASE do_read_skip
    BY <2>5, GotoEffect, LabelFacts DEF TypeOK, DataType, do_read_skip, WorkerGoto
  <2>6. CASE do_read_data
    BY <2>6, GotoEffect, LabelFacts DEF TypeOK, DataType, do_read_data
  <2>7. CASE do_read_close
    BY <2>7, GotoEffect, LabelFacts DEF TypeOK, DataType, do_read_close, WorkerGoto
  <2>8. CASE process_out
    BY <2>8, GotoEffect, LabelFacts DEF TypeOK, DataType, process_out, WorkerGoto
  <2>9. CASE process_err
    BY <2>9, GotoEffect, LabelFacts DEF TypeOK, DataType, process_err, WorkerGoto
  <2>10. CASE process_end
    BY <2>10, GotoEffect, LabelFacts DEF TypeOK, DataType, process_end, WorkerGoto
  <2>11. CASE do_close
    BY <2>11, GotoEffect, LabelFacts DEF TypeOK, DataType, do_close
  <2>12. CASE do_close_del
    BY <2>12, GotoEffect, LabelFacts DEF TypeOK, DataType, do_close_del, Sd
  <2>13. CASE do_close_fd
    BY <2>13, GotoEffect, LabelFacts DEF TypeOK, DataType, OwnershipInv, do_close_fd, CloseFd
  <2>14. CASE do_close_post
    BY <2>14, GotoEffect, LabelFacts DEF TypeOK, DataType, OwnershipInv, do_close_post, closed_sd
  <2>15. CASE run_tasks
    BY <2>15, GotoEffect, LabelFacts DEF TypeOK, DataType, run_tasks
  <2>16. QED
    BY <1>2, <2>1, <2>2, <2>3, <2>4, <2>5, <2>6, <2>7, <2>8, <2>9, <2>10, <2>11, <2>12,
       <2>13, <2>14, <2>15 DEF Loop
<1>3. CASE Env
  BY <1>3 DEF Env, PeerRecv, PeerSend, PeerClose, ReuseFd, AloneInv, Owns,
              connVars, mapVars, pollVars, countVars
<1>4. CASE UNCHANGED vars
  BY <1>4 DEF vars, AloneInv, Owns
<1>5. QED
  BY <1>1, <1>2, <1>3, <1>4

\* The worker's steps leave the other threads where they are.
LEMMA OthersStay ==
  ASSUME TypeOK, Call(Worker) \/ Loop \/ Env \/ UNCHANGED vars, NEW a \in Apps
  PROVE  pc'[a] = pc[a]
<1>1. a \in Threads /\ Worker \in Threads /\ a # Worker /\ pc \in [Threads -> Labels]
  BY ThreadsAssumption DEF Threads, TypeOK, ControlType
<1>2. \A label : Goto(Worker, label) => pc'[a] = pc[a]
  BY <1>1 DEF Goto
<1>3. Return(Worker) => pc'[a] = pc[a]
  BY <1>2 DEF Return
<1>4. \A out : mod_event(Worker, out) => pc'[a] = pc[a]
  BY <1>2, <1>3 DEF mod_event
<1>5. CASE Call(Worker)
  BY <1>2, <1>3, <1>4, <1>5 DEF Call, msend, msend_push, mod_event_close, do_send, do_send_empty,
     do_send_some, do_send_again, do_send_arm, do_send_fail, close_call, close, close_check,
     close_set, notify_send
<1>6. CASE Loop
  BY <1>2, <1>6 DEF Loop, WorkerGoto, epoll_wait, on_ready_check, on_ready, callback_end,
     do_read_skip, do_read_data, do_read_close, process_out, process_err, process_end,
     do_close, do_close_del, do_close_fd, do_close_post, run_tasks
<1>7. CASE Env \/ UNCHANGED vars
  BY <1>7 DEF Env, PeerRecv, PeerSend, PeerClose, ReuseFd, vars
<1>8. QED
  BY <1>5, <1>6, <1>7

\* When only the worker's callbacks use the connection, no step of it reaches a
\* descriptor that is not its own and EVT_DISCONNECT comes at most once (do_close,
\* mod_event), for any messages and bounds.
THEOREM DescriptorAlone == UseSpec => []AloneSafe
<1> DEFINE Quiet == AloneInv /\ \A a \in Apps : pc[a] = "idle"
           Inv == TypeOK /\ OwnershipInv /\ (alone => Quiet)
<1>1. UseInit => Inv
  <2>1. Init => Quiet
    BY ThreadsAssumption DEF Init, AloneInv, Owns, Threads
  <2>2. QED
    BY <2>1, TypeInit, OwnershipInit DEF UseInit
<1>2. Inv /\ [UseNext]_<<vars, alone>> => Inv'
  <2> SUFFICES ASSUME Inv, [UseNext]_<<vars, alone>> PROVE Inv'
    OBVIOUS
  <2>1. [Next]_vars /\ alone' = alone
    BY DEF UseNext, Next, Threads
  <2>2. TypeOK' /\ OwnershipInv'
    BY <2>1, TypeStep, OwnershipStep
  <2>3. alone => Call(Worker) \/ Loop \/ Env \/ UNCHANGED vars
    BY DEF UseNext
  <2>4. alone => Quiet'
    BY <2>3, AloneStep, OthersStay
  <2>5. QED
    BY <2>1, <2>2, <2>4
<1>3. Inv => AloneSafe
  <2> SUFFICES ASSUME Inv, alone PROVE DescriptorSafe
    BY DEF AloneSafe
  <2>1. \A t \in Threads : pc[t] # "bad"
    BY DEF Threads, AloneInv
  <2>2. QED
    BY <2>1 DEF TypeOK, DataType, AloneInv, DescriptorSafe, Owns, Sd
<1>4. QED
  BY <1>1, <1>2, <1>3, PTL DEF UseSpec

=============================================================================
