------------------------ MODULE NotkaSessions_proofs ------------------------
(***************************************************************************)
(* Proofs of the safety properties of NotkaSessions, for any number of     *)
(* clients, frames and pool threads.                                       *)
(***************************************************************************)
EXTENDS NotkaSessions, FiniteSetTheorems, TLAPS

\* Where each handler may be: frames are numbered in the order they arrive,
\* and only the last one can be between arriving and being queued.
FramesPlaced ==
    \A c \in Clients :
        /\ \A n \in 1..MaxFrames :
             /\ n > rx[c] => handler[<<c, n>>] = "none"
             /\ handler[<<c, n>>] = "none" /\ n <= rx[c] => At("rx", c) /\ n = rx[c]
        /\ At("rx", c) => rx[c] >= 1 /\ handler[<<c, rx[c]>>] = "none"
        /\ At("start", c) => rx[c] >= 1 /\ handler[<<c, rx[c]>>] = "created"

\* The pool holds queued handlers, each of them once.
PoolQueued ==
    /\ \A i \in 1..Len(pool) : handler[pool[i]] = "queued"
    /\ \A i, j \in 1..Len(pool) : i # j => pool[i] # pool[j]

\* The session whose destructor is about to run has no handler left.
DeleteUnscheduled ==
    \A c \in Clients : At("delete", c) => Outstanding(c) = {}

\* A socket is scheduled for deletion only by its session's destructor.
DeletesFollowSession ==
    \A i \in 1..Len(events) :
        events[i].type = "delete" => sess[events[i].sock] = "freed"

\* The inductive invariant.
IInv ==
    /\ TypeOK
    /\ FramesPlaced
    /\ PoolQueued
    /\ CounterExact
    /\ SessionSerial
    /\ SessionsAlive
    /\ MapConsistent
    /\ DeleteUnscheduled
    /\ DeletesFollowSession
    /\ TxTargetsLiveSocket
    /\ NothingDropped

-----------------------------------------------------------------------------
(* Typing of the records the actions build.                                *)
LEMMA RecordsTyped ==
    /\ \A p \in SlotsWithSession, c \in Clients : Goto(p, c) \in MainPlaces
    /\ \A p \in OtherPlaces : Goto(p, NoClient) \in MainPlaces
    /\ Resume \in MainPlaces
    /\ \A c \in Clients : on_sock_disconnect(c) \in MainPlaces
    /\ \A h \in Handlers, k \in {1, 2} : TxEvent(h, k) \in PostedEvents
    /\ \A c \in Clients : DeleteEvent(c) \in PostedEvents
    /\ ReconnectEvent \in PostedEvents
  BY DEF SlotsWithSession, OtherPlaces, MainPlaces, Goto, Resume, on_sock_disconnect, PostedEvents,
         TxEvent, DeleteEvent, ReconnectEvent, Handlers, Replies

LEMMA TypeStep == IInv /\ [Next]_vars => TypeOK'
<1> SUFFICES ASSUME IInv, [Next]_vars PROVE TypeOK'
  OBVIOUS
<1> USE SessionsAssumption, RecordsTyped DEF IInv, TypeOK, sessVars, workVars, histVars, SlotsWithSession, OtherPlaces, Phases
<1>1. ASSUME NEW c \in Clients, on_new_connection(c) PROVE TypeOK'
  BY <1>1 DEF on_new_connection
<1>2. ASSUME NEW c \in Clients, BinFrame(c) PROVE TypeOK'
  BY <1>2 DEF BinFrame
<1>3. ASSUME NEW c \in Clients, TextFrame(c) PROVE TypeOK'
  BY <1>3 DEF TextFrame
<1>4. ASSUME NEW c \in Clients, SockDisconnected(c) PROVE TypeOK'
  BY <1>4 DEF SockDisconnected, on_sock_disconnect
<1>5. ASSUME NEW c \in Clients, RxSchedule(c) PROVE TypeOK'
  <2>1. qrunnables_scheduled' \in [Clients -> Nat]
    BY <1>5 DEF RxSchedule, CountOn
  <2>2. handler' \in [Handlers -> Phases]
    BY <1>5 DEF RxSchedule, Phases
  <2> QED
    BY <1>5, <2>1, <2>2 DEF RxSchedule, Phases
<1>6. ASSUME NEW c \in Clients, RxStart(c) PROVE TypeOK'
  <2>1. <<c, rx[c]>> \in Handlers
    BY <1>6 DEF RxStart, FramesPlaced, Handlers
  <2> QED
    BY <1>6, <2>1 DEF RxStart, Enqueue
<1>7. ASSUME NEW c \in Clients, on_text_msg_rx(c) PROVE TypeOK'
  BY <1>7 DEF on_text_msg_rx
<1>8. ASSUME NEW c \in Clients, CloseErase(c) PROVE TypeOK'
  BY <1>8 DEF CloseErase, Erased
<1>9. ASSUME NEW c \in Clients, CloseBusy(c) PROVE TypeOK'
  BY <1>9 DEF CloseBusy
<1>10. ASSUME NEW c \in Clients, CloseWake(c) PROVE TypeOK'
  BY <1>10 DEF CloseWake
<1>11. ASSUME NEW c \in Clients, DeleteSession(c) PROVE TypeOK'
  <2>1. main' \in MainPlaces
    BY <1>11 DEF DeleteSession
  <2>2. events' \in Seq(PostedEvents)
    BY <1>11 DEF DeleteSession
  <2> QED
    BY <1>11, <2>1, <2>2 DEF DeleteSession
<1>12. ASSUME NEW c \in Clients, DrainNext(c) PROVE TypeOK'
  BY <1>12 DEF DrainNext
<1>13. ASSUME NEW c \in Clients, DeferredDelete(c) PROVE TypeOK'
  BY <1>13 DEF DeferredDelete, on_sock_disconnect
<1>14. ASSUME NEW h \in Handlers, NEW k \in {1, 2}, bin_msg_tx(h, k) PROVE TypeOK'
  <2>1. h[1] \in Clients /\ <<h, k>> \in Replies
    BY <1>14 DEF Handlers, Replies
  <2>2. sent' \in [Clients -> Seq(Replies)]
    BY <1>14, <2>1 DEF bin_msg_tx
  <2> QED
    BY <1>14, <2>2 DEF bin_msg_tx
<1>15. ASSUME NEW h \in Handlers, Take(h) PROVE TypeOK'
  BY <1>15 DEF Take
<1>16. ASSUME NEW h \in Handlers, Lock(h) PROVE TypeOK'
  BY <1>16 DEF Lock
<1>17. ASSUME NEW h \in Handlers, PostAck(h) PROVE TypeOK'
  <2>1. h[1] \in Clients /\ <<h, 1>> \in Replies
    BY <1>17 DEF Handlers, Replies
  <2>2. posted' \in [Clients -> Seq(Replies)]
    BY <1>17, <2>1 DEF PostAck, PostTx
  <2>3. events' \in Seq(PostedEvents)
    BY <1>17 DEF PostAck, PostTx
  <2> QED
    BY <1>17, <2>2, <2>3 DEF PostAck, PostTx
<1>18. ASSUME NEW h \in Handlers, PostNotka(h) PROVE TypeOK'
  <2>1. h[1] \in Clients /\ <<h, 2>> \in Replies
    BY <1>18 DEF Handlers, Replies
  <2>2. posted' \in [Clients -> Seq(Replies)]
    BY <1>18, <2>1 DEF PostNotka, PostTx
  <2>3. events' \in Seq(PostedEvents)
    BY <1>18 DEF PostNotka, PostTx
  <2> QED
    BY <1>18, <2>2, <2>3 DEF PostNotka, PostTx
<1>19. ASSUME NEW h \in Handlers, Finish(h) PROVE TypeOK'
  <2>1. h[1] \in Clients /\ h \in Outstanding(h[1])
    BY <1>19 DEF Finish, Handlers, Outstanding
  <2>2. qrunnables_scheduled[h[1]] \in Nat /\ qrunnables_scheduled[h[1]] # 0
    BY <2>1, FS_EmptySet DEF CounterExact
  <2>3. qrunnables_scheduled' \in [Clients -> Nat]
    BY <1>19, <2>1, <2>2 DEF Finish, CountOff
  <2>4. mutex' \in [Clients -> Handlers \cup {Free}]
    BY <1>19 DEF Finish
  <2> QED
    BY <1>19, <2>3, <2>4 DEF Finish
<1>20. CASE ReconnectInit
  BY <1>20 DEF ReconnectInit
<1>21. CASE ReconnectCheck
  BY <1>21 DEF ReconnectCheck
<1>22. CASE DrainDone
  BY <1>22 DEF DrainDone
<1>23. CASE ReconnectClose
  BY <1>23 DEF ReconnectClose
<1>24. CASE ExecReturns
  BY <1>24 DEF ExecReturns
<1>25. CASE run_once
  BY <1>25 DEF run_once
<1>26. CASE UNCHANGED vars
  BY <1>26 DEF vars
<1> QED
  BY <1>1, <1>2, <1>3, <1>4, <1>5, <1>6, <1>7, <1>8, <1>9, <1>10, <1>11, <1>12, <1>13, <1>14, <1>15, <1>16, <1>17, <1>18, <1>19, <1>20, <1>21, <1>22, <1>23, <1>24, <1>25, <1>26 DEF Next, SlotStep, EventStep, EnvStep, HandlerStep, Stopped

-----------------------------------------------------------------------------
(* What the pool hands to a thread is a handler that waits in it.          *)
LEMMA HeadQueued ==
    ASSUME TypeOK, PoolQueued, pool # <<>>
    PROVE  Head(pool) \in Handlers /\ handler[Head(pool)] = "queued"
<1>1. pool \in Seq(Handlers) /\ Len(pool) \in Nat /\ Len(pool) # 0
  BY DEF TypeOK
<1>2. 1 \in 1..Len(pool) /\ Head(pool) = pool[1]
  BY <1>1
<1> QED
  BY <1>1, <1>2 DEF PoolQueued

(* The counter follows the set of outstanding handlers: only creating a    *)
(* handler adds to it and only finishing one takes from it.                *)
LEMMA OutstandingSame ==
    ASSUME CounterExact, qrunnables_scheduled' = qrunnables_scheduled,
           \A h \in Handlers : handler'[h] \in {"none", "done"}
                                    <=> handler[h] \in {"none", "done"}
    PROVE  CounterExact'
<1>1. \A c \in Clients : Outstanding(c)' = Outstanding(c)
  BY DEF Outstanding
<1> QED
  BY <1>1 DEF CounterExact

LEMMA CounterStep == IInv /\ [Next]_vars => CounterExact'
<1> SUFFICES ASSUME IInv, [Next]_vars PROVE CounterExact'
  OBVIOUS
<1> USE DEF IInv, sessVars, workVars, histVars
<1>1. CASE UNCHANGED <<handler, qrunnables_scheduled>>
  BY <1>1, OutstandingSame
<1>2. ASSUME NEW c \in Clients, RxSchedule(c) PROVE CounterExact'
  <2> DEFINE h == <<c, rx[c]>>
  <2>1. h \in Handlers /\ handler[h] = "none"
    BY <1>2 DEF RxSchedule, FramesPlaced, Handlers, TypeOK
  <2>2. handler' = [handler EXCEPT ![h] = "created"]
    BY <1>2 DEF RxSchedule
  <2>3. Outstanding(c)' = Outstanding(c) \cup {h} /\ h \notin Outstanding(c)
    <3>1. h[1] = c
      OBVIOUS
    <3>2. \A g \in Handlers : handler'[g] = IF g = h THEN "created" ELSE handler[g]
      BY <2>2 DEF TypeOK
    <3> HIDE DEF h
    <3> QED
      BY <2>1, <3>1, <3>2 DEF Outstanding
  <2>4. \A d \in Clients \ {c} : Outstanding(d)' = Outstanding(d)
    BY <2>1, <2>2 DEF Outstanding, TypeOK
  <2>5. /\ IsFiniteSet(Outstanding(c)')
        /\ Cardinality(Outstanding(c)') = Cardinality(Outstanding(c)) + 1
    BY <2>3, FS_AddElement DEF CounterExact
  <2>6. qrunnables_scheduled' = [qrunnables_scheduled EXCEPT ![c] = @ + 1]
    BY <1>2 DEF RxSchedule, CountOn
  <2> QED
    BY <2>4, <2>5, <2>6 DEF CounterExact, TypeOK
<1>3. ASSUME NEW c \in Clients, RxStart(c) PROVE CounterExact'
  <2>1. <<c, rx[c]>> \in Handlers /\ handler[<<c, rx[c]>>] = "created"
    BY <1>3 DEF RxStart, FramesPlaced, Handlers, TypeOK
  <2> QED
    BY <1>3, <2>1, OutstandingSame DEF RxStart, TypeOK
<1>4. ASSUME NEW h \in Handlers, Take(h) PROVE CounterExact'
  <2>1. handler[h] = "queued"
    BY <1>4, HeadQueued DEF Take
  <2> QED
    BY <1>4, <2>1, OutstandingSame DEF Take, TypeOK
<1>5. ASSUME NEW h \in Handlers, Lock(h) PROVE CounterExact'
  BY <1>5, OutstandingSame DEF Lock, TypeOK
<1>6. ASSUME NEW h \in Handlers, PostAck(h) \/ PostNotka(h) PROVE CounterExact'
  BY <1>6, OutstandingSame DEF PostAck, PostNotka, PostTx, TypeOK
<1>7. ASSUME NEW h \in Handlers, Finish(h) PROVE CounterExact'
  <2> DEFINE c == h[1]
  <2>1. c \in Clients /\ h \in Outstanding(c)
    BY <1>7 DEF Finish, Handlers, Outstanding
  <2>2. handler' = [handler EXCEPT ![h] = "done"]
    BY <1>7 DEF Finish
  <2>3. Outstanding(c)' = Outstanding(c) \ {h}
    BY <2>1, <2>2 DEF Outstanding, TypeOK
  <2>4. \A d \in Clients \ {c} : Outstanding(d)' = Outstanding(d)
    BY <2>1, <2>2 DEF Outstanding, TypeOK
  <2>5. /\ IsFiniteSet(Outstanding(c)')
        /\ Cardinality(Outstanding(c)') = Cardinality(Outstanding(c)) - 1
    BY <2>1, <2>3, FS_RemoveElement DEF CounterExact
  <2>6. qrunnables_scheduled' = [qrunnables_scheduled EXCEPT ![c] = @ - 1]
    BY <1>7 DEF Finish, CountOff
  <2> QED
    BY <2>1, <2>4, <2>5, <2>6 DEF CounterExact, TypeOK
<1> QED
  BY <1>1, <1>2, <1>3, <1>4, <1>5, <1>6, <1>7
  DEF Next, SlotStep, EventStep, EnvStep, HandlerStep, Stopped, vars, on_new_connection, BinFrame, TextFrame, SockDisconnected, RxSchedule, RxStart, on_text_msg_rx, CloseErase, CloseBusy, CloseWake, DeleteSession, DrainNext, DeferredDelete, bin_msg_tx, Take, Lock, PostAck, PostNotka, PostTx, Finish, ReconnectInit, ReconnectCheck, DrainDone, ReconnectClose, ExecReturns, run_once

-----------------------------------------------------------------------------
(* A session mutex is held by exactly the handler that is processing.      *)
LEMMA SerialStep == IInv /\ [Next]_vars => SessionSerial'
<1> SUFFICES ASSUME IInv, [Next]_vars PROVE SessionSerial'
  OBVIOUS
<1> USE SessionsAssumption
    DEF IInv, sessVars, workVars, histVars, TypeOK, SessionSerial, Processing,
        Handlers, Phases
<1>1. CASE UNCHANGED <<handler, mutex>>
  BY <1>1
<1>2. ASSUME NEW c \in Clients, RxSchedule(c) PROVE SessionSerial'
  <2>1. <<c, rx[c]>> \in Handlers /\ handler[<<c, rx[c]>>] = "none"
    BY <1>2 DEF RxSchedule, FramesPlaced
  <2> QED
    BY <1>2, <2>1 DEF RxSchedule
<1>3. ASSUME NEW c \in Clients, RxStart(c) PROVE SessionSerial'
  <2>1. <<c, rx[c]>> \in Handlers /\ handler[<<c, rx[c]>>] = "created"
    BY <1>3 DEF RxStart, FramesPlaced
  <2> QED
    BY <1>3, <2>1 DEF RxStart
<1>4. ASSUME NEW h \in Handlers, Take(h) PROVE SessionSerial'
  <2>1. handler[h] = "queued"
    BY <1>4, HeadQueued DEF Take
  <2> QED
    BY <1>4, <2>1 DEF Take
<1>5. ASSUME NEW h \in Handlers, Lock(h) PROVE SessionSerial'
  <2>1. mutex[h[1]] = Free /\ Free \notin Handlers
    BY <1>5 DEF Lock, SessionUnlocked
  <2> QED
    BY <1>5, <2>1 DEF Lock
<1>6. ASSUME NEW h \in Handlers, PostAck(h) \/ PostNotka(h) PROVE SessionSerial'
  BY <1>6, SMTT(30) DEF PostAck, PostNotka, PostTx
<1>7. ASSUME NEW h \in Handlers, Finish(h) PROVE SessionSerial'
  BY <1>7 DEF Finish
<1> QED
  BY <1>1, <1>2, <1>3, <1>4, <1>5, <1>6, <1>7
  DEF Next, SlotStep, EventStep, EnvStep, HandlerStep, Stopped, vars, on_new_connection, BinFrame, TextFrame, SockDisconnected, RxSchedule, RxStart, on_text_msg_rx, CloseErase, CloseBusy, CloseWake, DeleteSession, DrainNext, DeferredDelete, bin_msg_tx, Take, Lock, PostAck, PostNotka, PostTx, Finish, ReconnectInit, ReconnectCheck, DrainDone, ReconnectClose, ExecReturns, run_once

-----------------------------------------------------------------------------
(* Frames become handlers one at a time, on the main thread.               *)
LEMMA FramesSame ==
    ASSUME TypeOK, FramesPlaced, rx' = rx,
           \A h \in Handlers : \/ handler'[h] = handler[h]
                               \/ {handler[h], handler'[h]} \cap {"none", "created"} = {},
           \/ main' = main
           \/ \A c \in Clients : ~At("rx", c) /\ ~At("rx", c)' /\ ~At("start", c)'
    PROVE  FramesPlaced'
<1>1. \A c \in Clients : rx[c] >= 1 => <<c, rx[c]>> \in Handlers
  BY DEF TypeOK, Handlers
<1>2. \A c \in Clients, n \in 1..MaxFrames : <<c, n>> \in Handlers
  BY DEF Handlers
<1>3. \A c \in Clients : /\ At("rx", c)' => At("rx", c)
                         /\ At("start", c)' => At("start", c)
                         /\ At("rx", c) => At("rx", c)'
  BY DEF At
<1> QED
  BY <1>1, <1>2, <1>3 DEF FramesPlaced

LEMMA FramesStep == IInv /\ [Next]_vars => FramesPlaced'
<1> SUFFICES ASSUME IInv, [Next]_vars PROVE FramesPlaced'
  OBVIOUS
<1> USE SessionsAssumption DEF IInv, sessVars, workVars, histVars
<1>1. CASE UNCHANGED <<handler, rx, main>>
  BY <1>1, FramesSame
<1>2. CASE /\ UNCHANGED <<handler, rx>>
           /\ \A c \in Clients : ~At("rx", c) /\ ~At("rx", c)' /\ ~At("start", c)'
  BY <1>2, FramesSame
<1>3. ASSUME NEW c \in Clients, TextFrame(c) \/ on_text_msg_rx(c) \/ SockDisconnected(c)
      PROVE FramesPlaced'
  BY <1>3, <1>2 DEF TextFrame, on_text_msg_rx, SockDisconnected,
                    on_sock_disconnect, At, Goto, Resume, Idle
<1>4. ASSUME NEW c \in Clients, CloseErase(c) \/ CloseBusy(c) \/ CloseWake(c) \/ DrainNext(c)
      PROVE FramesPlaced'
  BY <1>4, <1>2 DEF CloseErase, CloseBusy, CloseWake, DrainNext, At, Goto
<1>5. ASSUME NEW c \in Clients, DeleteSession(c) \/ DeferredDelete(c)
      PROVE FramesPlaced'
  BY <1>5, <1>2 DEF DeleteSession, DeferredDelete, on_sock_disconnect, At, Goto, Resume, Idle
<1>6. CASE ReconnectClose \/ ReconnectInit \/ ReconnectCheck \/ ExecReturns \/ DrainDone
  BY <1>6, <1>2 DEF ReconnectClose, ReconnectInit, ReconnectCheck, ExecReturns,
                    DrainDone, At, Goto, Resume, Idle
<1>7. ASSUME NEW c \in Clients, BinFrame(c) PROVE FramesPlaced'
  <2>1. /\ rx' = [rx EXCEPT ![c] = rx[c] + 1] /\ rx[c] + 1 \in 1..MaxFrames
        /\ handler' = handler
        /\ main' = Goto("rx", c)
    BY <1>7 DEF BinFrame, TypeOK
  <2>2. \A d \in Clients : ~At("rx", d)
    BY <1>7 DEF BinFrame, Idle, At
  <2>3. \A d \in Clients : (At("rx", d)' => d = c) /\ ~At("start", d)'
    BY <2>1 DEF At, Goto
  <2>4. At("rx", c)'
    BY <2>1 DEF At, Goto
  <2>5. rx' \in [Clients -> 0..MaxFrames] /\ rx'[c] = rx[c] + 1 /\ rx[c] \in Nat
    BY <2>1 DEF TypeOK
  <2>6. \A n \in 1..MaxFrames :
            /\ n > rx'[c] => handler'[<<c, n>>] = "none"
            /\ handler'[<<c, n>>] = "none" /\ n <= rx'[c] => n = rx'[c]
    <3>1. \A n \in 1..MaxFrames : /\ n > rx[c] => handler[<<c, n>>] = "none"
                                  /\ handler[<<c, n>>] = "none" => ~(n <= rx[c])
      BY <2>2 DEF FramesPlaced
    <3>2. \A n \in 1..MaxFrames : /\ n > rx[c] + 1 => n > rx[c]
                                  /\ ~(n <= rx[c]) /\ n <= rx[c] + 1 => n = rx[c] + 1
      BY <2>5
    <3> QED
      BY <2>1, <2>5, <3>1, <3>2
  <2>7. handler'[<<c, rx'[c]>>] = "none" /\ rx'[c] >= 1
    <3>1. rx[c] + 1 > rx[c] /\ rx[c] + 1 >= 1
      BY <2>5
    <3>2. handler[<<c, rx[c] + 1>>] = "none"
      BY <2>1, <3>1 DEF FramesPlaced
    <3> QED
      BY <2>1, <2>5, <3>1, <3>2
  <2>8. \A d \in Clients \ {c} : rx'[d] = rx[d]
    BY <2>1 DEF TypeOK
  <2>9. \A d \in Clients \ {c}, n \in 1..MaxFrames :
            /\ n > rx'[d] => handler'[<<d, n>>] = "none"
            /\ ~(handler'[<<d, n>>] = "none" /\ n <= rx'[d])
    BY <2>1, <2>2, <2>8 DEF FramesPlaced
  <2> QED
    BY <2>3, <2>4, <2>6, <2>7, <2>9 DEF FramesPlaced
<1>8. ASSUME NEW c \in Clients, RxSchedule(c) PROVE FramesPlaced'
  <2>1. <<c, rx[c]>> \in Handlers /\ handler[<<c, rx[c]>>] = "none" /\ rx[c] \in 1..MaxFrames
    BY <1>8 DEF RxSchedule, FramesPlaced, TypeOK, Handlers
  <2>2. /\ handler' = [handler EXCEPT ![<<c, rx[c]>>] = "created"]
        /\ main = Goto("rx", c) /\ main' = Goto("start", c) /\ rx' = rx
    BY <1>8 DEF RxSchedule, At, Goto
  <2>3. \A d \in Clients : /\ At("rx", d) => d = c
                           /\ ~At("rx", d)'
                           /\ At("start", d)' => d = c
    BY <2>2 DEF At, Goto
  <2>4. \A d \in Clients, n \in 1..MaxFrames :
            /\ <<d, n>> \in Handlers
            /\ handler'[<<d, n>>] = IF d = c /\ n = rx[c] THEN "created" ELSE handler[<<d, n>>]
    BY <2>2 DEF TypeOK, Handlers
  <2> QED
    BY <2>1, <2>2, <2>3, <2>4 DEF FramesPlaced, TypeOK
<1>9. ASSUME NEW c \in Clients, RxStart(c) PROVE FramesPlaced'
  <2>1. <<c, rx[c]>> \in Handlers /\ handler[<<c, rx[c]>>] = "created" /\ rx[c] \in 1..MaxFrames
    BY <1>9 DEF RxStart, FramesPlaced, TypeOK, Handlers
  <2>2. /\ handler' = [handler EXCEPT ![<<c, rx[c]>>] = "queued"]
        /\ main = Goto("start", c) /\ main' = Resume /\ rx' = rx
    BY <1>9 DEF RxStart, At, Goto
  <2>3. \A d \in Clients : ~At("rx", d) /\ ~At("rx", d)' /\ ~At("start", d)'
    BY <2>2 DEF At, Goto, Resume
  <2>4. \A d \in Clients, n \in 1..MaxFrames :
            /\ <<d, n>> \in Handlers
            /\ handler'[<<d, n>>] = IF d = c /\ n = rx[c] THEN "queued" ELSE handler[<<d, n>>]
    BY <2>2 DEF TypeOK, Handlers
  <2> QED
    BY <2>1, <2>2, <2>3, <2>4 DEF FramesPlaced, TypeOK
<1>10. ASSUME NEW h \in Handlers, Take(h) PROVE FramesPlaced'
  <2>1. handler[h] = "queued" /\ handler' = [handler EXCEPT ![h] = "started"]
    BY <1>10, HeadQueued DEF Take
  <2> QED
    BY <1>10, <2>1, FramesSame DEF Take, TypeOK
<1>11. ASSUME NEW h \in Handlers, Lock(h) \/ PostAck(h) \/ PostNotka(h) \/ Finish(h)
       PROVE FramesPlaced'
  BY <1>11, FramesSame DEF Lock, PostAck, PostNotka, PostTx, Finish, TypeOK
<1> QED
  BY <1>1, <1>3, <1>4, <1>5, <1>6, <1>7, <1>8, <1>9, <1>10, <1>11
  DEF Next, SlotStep, EventStep, EnvStep, HandlerStep, Stopped, vars,
      on_new_connection, bin_msg_tx, run_once

-----------------------------------------------------------------------------
(* The pool is a queue without repetition.                                 *)
LEMMA PoolStep == IInv /\ [Next]_vars => PoolQueued'
<1> SUFFICES ASSUME IInv, [Next]_vars PROVE PoolQueued'
  OBVIOUS
<1> USE SessionsAssumption DEF IInv, sessVars, workVars, histVars
<1>0. Len(pool) \in Nat /\ \A i \in 1..Len(pool) : pool[i] \in Handlers
  BY DEF TypeOK
<1>1. CASE UNCHANGED <<handler, pool>>
  BY <1>1 DEF PoolQueued
<1>2. ASSUME NEW c \in Clients, RxSchedule(c) PROVE PoolQueued'
  <2>1. <<c, rx[c]>> \in Handlers /\ handler[<<c, rx[c]>>] = "none"
    BY <1>2 DEF RxSchedule, FramesPlaced, TypeOK, Handlers
  <2>2. handler' = [handler EXCEPT ![<<c, rx[c]>>] = "created"] /\ pool' = pool
    BY <1>2 DEF RxSchedule
  <2> QED
    BY <1>0, <2>1, <2>2 DEF PoolQueued, TypeOK
<1>3. ASSUME NEW c \in Clients, RxStart(c) PROVE PoolQueued'
  <2> DEFINE g == <<c, rx[c]>>
  <2>1. g \in Handlers /\ handler[g] = "created"
    BY <1>3 DEF RxStart, FramesPlaced, TypeOK, Handlers
  <2>2. handler' = [handler EXCEPT ![g] = "queued"] /\ pool' = Append(pool, g)
    BY <1>3 DEF RxStart, Enqueue
  <2> HIDE DEF g
  <2>3. \A i \in 1..Len(pool) : handler[pool[i]] = "queued" /\ pool[i] # g
    BY <2>1 DEF PoolQueued
  <2>4. /\ Len(pool') = Len(pool) + 1 /\ pool'[Len(pool) + 1] = g
        /\ \A i \in 1..Len(pool) : pool'[i] = pool[i]
    BY <2>2, <2>1 DEF TypeOK
  <2>5. \A i \in 1..Len(pool') : i \in 1..Len(pool) \/ i = Len(pool) + 1
    BY <1>0, <2>4
  <2>6. \A i \in 1..Len(pool') : handler'[pool'[i]] = "queued"
    BY <1>0, <2>1, <2>2, <2>3, <2>4, <2>5 DEF TypeOK
  <2>7. \A i, j \in 1..Len(pool') : i # j => pool'[i] # pool'[j]
    BY <2>3, <2>4, <2>5 DEF PoolQueued
  <2> QED
    BY <2>6, <2>7 DEF PoolQueued
<1>4. ASSUME NEW h \in Handlers, Take(h) PROVE PoolQueued'
  <2>1. handler' = [handler EXCEPT ![h] = "started"] /\ pool # <<>>
        /\ h = Head(pool) /\ pool' = Tail(pool)
    BY <1>4 DEF Take
  <2>2. /\ pool[1] = h /\ 1 \in 1..Len(pool)
        /\ Len(pool') = Len(pool) - 1
        /\ \A i \in 1..Len(pool') : pool'[i] = pool[i + 1]
    BY <2>1, <1>0 DEF TypeOK
  <2>3. \A i \in 1..Len(pool') : i + 1 \in 1..Len(pool) /\ i + 1 # 1
    BY <1>0, <2>2
  <2>4. \A i \in 1..Len(pool') : pool'[i] \in Handlers /\ pool'[i] # h
    BY <1>0, <2>2, <2>3 DEF PoolQueued
  <2>5. \A i \in 1..Len(pool') : handler'[pool'[i]] = handler[pool'[i]]
    BY <2>1, <2>4 DEF TypeOK
  <2>6. \A i \in 1..Len(pool') : handler[pool'[i]] = "queued"
    BY <2>2, <2>3 DEF PoolQueued
  <2>7. \A i, j \in 1..Len(pool') : i # j => pool'[i] # pool'[j]
    <3> SUFFICES ASSUME NEW i \in 1..Len(pool'), NEW j \in 1..Len(pool'), i # j
                 PROVE pool'[i] # pool'[j]
      OBVIOUS
    <3>1. i + 1 # j + 1
      BY <1>0, <2>2
    <3> QED
      BY <2>2, <2>3, <3>1 DEF PoolQueued
  <2> QED
    BY <2>5, <2>6, <2>7 DEF PoolQueued
<1>5. ASSUME NEW h \in Handlers, Lock(h) \/ PostAck(h) \/ PostNotka(h) \/ Finish(h)
      PROVE PoolQueued'
  <2>1. /\ pool' = pool
        /\ handler[h] # "queued"
        /\ \A g \in Handlers \ {h} : handler'[g] = handler[g]
    BY <1>5 DEF Lock, PostAck, PostNotka, PostTx, Finish, TypeOK
  <2> QED
    BY <1>0, <2>1 DEF PoolQueued
<1> QED
  BY <1>1, <1>2, <1>3, <1>4, <1>5
  DEF Next, SlotStep, EventStep, EnvStep, HandlerStep, Stopped, vars, on_new_connection, BinFrame, TextFrame, SockDisconnected,
      on_text_msg_rx, CloseErase, CloseBusy, CloseWake, DeleteSession, DrainNext,
      DeferredDelete, bin_msg_tx, ReconnectInit, ReconnectCheck, DrainDone,
      ReconnectClose, ExecReturns, run_once

-----------------------------------------------------------------------------
(* No step but RxSchedule makes a handler outstanding.                     *)
LEMMA OutstandingShrinks ==
    ASSUME IInv, [Next]_vars, NEW c \in Clients, ~RxSchedule(c)
    PROVE  Outstanding(c)' \subseteq Outstanding(c)
<1> USE SessionsAssumption DEF IInv, sessVars, workVars, histVars
<1>1. CASE UNCHANGED handler
  BY <1>1 DEF Outstanding
<1>2. ASSUME NEW d \in Clients, RxSchedule(d) PROVE Outstanding(c)' \subseteq Outstanding(c)
  <2>1. d # c /\ handler' = [handler EXCEPT ![<<d, rx[d]>>] = "created"]
    BY <1>2 DEF RxSchedule
  <2> QED
    BY <2>1 DEF Outstanding, TypeOK, Handlers
<1>3. ASSUME NEW d \in Clients, RxStart(d) PROVE Outstanding(c)' \subseteq Outstanding(c)
  <2>1. <<d, rx[d]>> \in Handlers /\ handler[<<d, rx[d]>>] = "created"
    BY <1>3 DEF RxStart, FramesPlaced, TypeOK, Handlers
  <2>2. handler' = [handler EXCEPT ![<<d, rx[d]>>] = "queued"]
    BY <1>3 DEF RxStart
  <2> QED
    BY <2>1, <2>2 DEF Outstanding, TypeOK
<1>4. ASSUME NEW h \in Handlers, HandlerStep(h)
      PROVE Outstanding(c)' \subseteq Outstanding(c)
  <2>1. handler[h] \notin {"none", "done"}
    BY <1>4, HeadQueued DEF HandlerStep, Take, Lock, PostAck, PostNotka, Finish
  <2>2. \A g \in Handlers \ {h} : handler'[g] = handler[g]
    BY <1>4 DEF HandlerStep, Take, Lock, PostAck, PostNotka, PostTx, Finish, TypeOK
  <2> QED
    BY <2>1, <2>2 DEF Outstanding
<1> QED
  BY <1>1, <1>2, <1>3, <1>4
  DEF Next, SlotStep, EventStep, EnvStep, Stopped, vars, on_new_connection,
      BinFrame, TextFrame, SockDisconnected, on_text_msg_rx, CloseErase, CloseBusy,
      CloseWake, DeleteSession, DrainNext, DeferredDelete, bin_msg_tx,
      ReconnectInit, ReconnectCheck, DrainDone, ReconnectClose, ExecReturns, run_once

-----------------------------------------------------------------------------
(* The map, the sessions and the sockets.                                  *)
LEMMA SlotHasSession ==
    ASSUME TypeOK, SessionsAlive, NEW c \in Clients, NEW p \in SlotsWithSession, At(p, c)
    PROVE  sess[c] = "live"
  BY DEF SessionsAlive, At

LEMMA DeletePosted ==
    ASSUME TypeOK, DeletesFollowSession, NEW c \in Clients,
           NEW i \in DOMAIN events, events[i] = DeleteEvent(c)
    PROVE  sess[c] = "freed"
<1>1. i \in 1..Len(events)
  BY DEF TypeOK
<1>2. events[i].type = "delete" /\ events[i].sock = c
  BY DEF DeleteEvent
<1> QED
  BY <1>1, <1>2 DEF DeletesFollowSession

LEMMA MapStep == IInv /\ [Next]_vars => MapConsistent'
<1> SUFFICES ASSUME IInv, [Next]_vars PROVE MapConsistent'
  OBVIOUS
<1> USE SessionsAssumption DEF IInv, sessVars, workVars, histVars, TypeOK
<1>1. CASE UNCHANGED <<sock, sess, ws_sessions, main>>
  BY <1>1 DEF MapConsistent, At
<1>2. CASE /\ UNCHANGED <<sock, sess, ws_sessions>>
           /\ \A c \in Clients : ~At("delete", c) /\ ~At("delete", c)'
  BY <1>2 DEF MapConsistent
<1>3. ASSUME NEW c \in Clients, BinFrame(c) \/ TextFrame(c) \/ on_text_msg_rx(c)
      PROVE MapConsistent'
  BY <1>3, <1>2 DEF BinFrame, TextFrame, on_text_msg_rx, At, Goto, Resume, Idle
<1>4. ASSUME NEW c \in Clients, RxSchedule(c) \/ RxStart(c) PROVE MapConsistent'
  BY <1>4, <1>2 DEF RxSchedule, RxStart, At, Goto, Resume
<1>5. ASSUME NEW c \in Clients, CloseBusy(c) \/ CloseWake(c) \/ DrainNext(c)
      PROVE MapConsistent'
  BY <1>5, <1>2 DEF CloseBusy, CloseWake, DrainNext, At, Goto
<1>6. CASE ReconnectClose \/ ReconnectInit \/ ReconnectCheck \/ DrainDone
  BY <1>6, <1>2 DEF ReconnectClose, ReconnectInit, ReconnectCheck, DrainDone, At,
                    Goto, Resume, Idle
<1>7. ASSUME NEW c \in Clients, on_new_connection(c) PROVE MapConsistent'
  BY <1>7 DEF on_new_connection, MapConsistent, At, Idle
<1>8. ASSUME NEW c \in Clients, SockDisconnected(c) PROVE MapConsistent'
  <2>1. /\ UNCHANGED <<sess, ws_sessions>> /\ sock[c] \in {"open", "closing"}
        /\ sock' = [sock EXCEPT ![c] = "closed"]
    BY <1>8 DEF SockDisconnected
  <2>2. \A d \in Clients : ~At("delete", d) /\ ~At("delete", d)'
    BY <1>8 DEF SockDisconnected, on_sock_disconnect, At, Goto, Resume, Idle
  <2> QED
    BY <2>1, <2>2 DEF MapConsistent
<1>9. ASSUME NEW c \in Clients, CloseErase(c) PROVE MapConsistent'
  <2>1. UNCHANGED <<sock, sess>> /\ ws_sessions' = ws_sessions \ {c}
    BY <1>9 DEF CloseErase, Erased
  <2>2. \A d \in Clients : ~At("delete", d) /\ (At("delete", d)' <=> d = c)
    BY <1>9 DEF CloseErase, At, Goto
  <2> QED
    BY <2>1, <2>2 DEF MapConsistent
<1>10. ASSUME NEW c \in Clients, DeleteSession(c) PROVE MapConsistent'
  <2>1. At("delete", c) /\ sess[c] = "live" /\ c \notin ws_sessions
    BY <1>10, SlotHasSession DEF DeleteSession, MapConsistent, SlotsWithSession
  <2>2. main' = Resume /\ UNCHANGED ws_sessions /\ sess' = [sess EXCEPT ![c] = "freed"]
    BY <1>10, <2>1 DEF DeleteSession, on_sock_disconnect
  <2>3. /\ \A d \in Clients \ {c} : sock'[d] = sock[d]
        /\ sock'[c] # "none"
    BY <1>10, <2>1 DEF DeleteSession, MapConsistent
  <2>4. \A d \in Clients : ~At("delete", d)' /\ (At("delete", d) => d = c)
    BY <2>1, <2>2 DEF At, Goto, Resume
  <2> QED
    BY <2>1, <2>2, <2>3, <2>4 DEF MapConsistent
<1>11. ASSUME NEW c \in Clients, DeferredDelete(c) PROVE MapConsistent'
  <2>1. Head(events) = events[1] /\ 1 \in DOMAIN events
    BY <1>11 DEF DeferredDelete
  <2>2. sess[c] = "freed" /\ c \notin ws_sessions
    BY <1>11, <2>1, DeletePosted DEF DeferredDelete, MapConsistent
  <2>3. main' = Resume /\ UNCHANGED <<sess, ws_sessions>> /\ sock' = [sock EXCEPT ![c] = "freed"]
    BY <1>11, <2>2 DEF DeferredDelete, on_sock_disconnect
  <2>4. \A d \in Clients : ~At("delete", d)' /\ ~At("delete", d)
    BY <1>11, <2>3 DEF DeferredDelete, At, Goto, Resume, Idle
  <2> QED
    BY <2>2, <2>3, <2>4 DEF MapConsistent
<1>12. CASE ExecReturns
  <2>1. \A c \in Clients : sock'[c] # sock[c] => sock'[c] = "freed" /\ sess[c] = "freed"
    BY <1>12, DeletePosted DEF ExecReturns
  <2>2. \A c \in Clients : ~At("delete", c)' /\ ~At("delete", c)
    BY <1>12 DEF ExecReturns, At, Goto, Idle
  <2>3. UNCHANGED <<sess, ws_sessions>>
    BY <1>12 DEF ExecReturns
  <2> QED
    BY <2>1, <2>2, <2>3 DEF MapConsistent
<1> QED
  BY <1>1, <1>3, <1>4, <1>5, <1>6, <1>7, <1>8, <1>9, <1>10, <1>11, <1>12
  DEF Next, SlotStep, EventStep, EnvStep, HandlerStep, Stopped, vars, bin_msg_tx,
      run_once, Take, Lock, PostAck, PostNotka, PostTx, Finish

-----------------------------------------------------------------------------
(* Sessions die in DeleteSession only, and are born in on_new_connection.  *)
LEMMA SessChanges ==
    ASSUME IInv, [Next]_vars, NEW c \in Clients
    PROVE  \/ sess'[c] = sess[c]
           \/ sess[c] = "none" /\ sess'[c] = "live" /\ on_new_connection(c)
           \/ At("delete", c) /\ sess'[c] = "freed"
<1> USE DEF IInv, TypeOK, sessVars, workVars, histVars
<1>1. CASE UNCHANGED sess
  BY <1>1
<1>2. ASSUME NEW d \in Clients, on_new_connection(d)
      PROVE  \/ sess'[c] = sess[c]
             \/ sess[c] = "none" /\ sess'[c] = "live" /\ on_new_connection(c)
  BY <1>2 DEF on_new_connection, MapConsistent
<1>3. ASSUME NEW d \in Clients, DeleteSession(d)
      PROVE  sess'[c] = sess[c] \/ (At("delete", c) /\ sess'[c] = "freed")
  BY <1>3 DEF DeleteSession
<1> QED
  BY <1>1, <1>2, <1>3
  DEF Next, SlotStep, EventStep, EnvStep, HandlerStep, Stopped, vars, BinFrame,
      TextFrame, SockDisconnected, RxSchedule, RxStart, on_text_msg_rx,
      CloseErase, CloseBusy, CloseWake, DrainNext, DeferredDelete, bin_msg_tx,
      ReconnectInit, ReconnectCheck, DrainDone, ReconnectClose, ExecReturns,
      run_once, Take, Lock, PostAck, PostNotka, PostTx, Finish

\* A slot for a socket is entered only while the socket's session is alive.
LEMMA SlotEntered ==
    ASSUME IInv, [Next]_vars, NEW c \in Clients, NEW p \in SlotsWithSession, At(p, c)'
    PROVE  sess'[c] = "live"
<1> USE DEF IInv, TypeOK, sessVars, workVars, histVars
<1> DEFINE Goal == sess'[c] = "live"
<1>1. main'.at = p /\ main'.sock = c /\ p \notin {"loop", "drain", "init_database", "check", "exited", "aborted"}
  BY DEF At, SlotsWithSession
<1>2. main' # Resume /\ \A q \in OtherPlaces : main' # Goto(q, NoClient)
  BY <1>1 DEF Resume, Goto, OtherPlaces
<1>3. ASSUME UNCHANGED <<sess, main>> PROVE Goal
  BY <1>3, SlotHasSession DEF At
<1>4. ASSUME NEW d \in Clients, BinFrame(d) \/ TextFrame(d) PROVE Goal
  BY <1>4, <1>1 DEF BinFrame, TextFrame, Goto
<1>5. ASSUME NEW d \in Clients, SockDisconnected(d) PROVE Goal
  <2>1. d \in ws_sessions /\ main' = Goto("close", d) /\ UNCHANGED sess
    BY <1>5, <1>2 DEF SockDisconnected, on_sock_disconnect
  <2> QED
    BY <2>1, <1>1 DEF MapConsistent, Goto
<1>6. ASSUME NEW d \in Clients,
             RxSchedule(d) \/ CloseErase(d) \/ CloseBusy(d) \/ CloseWake(d)
      PROVE Goal
  <2>1. \E q \in SlotsWithSession : At(q, d)
    BY <1>6 DEF RxSchedule, CloseErase, CloseBusy, CloseWake, SlotsWithSession
  <2>2. \E q \in SlotsWithSession : main' = Goto(q, d) /\ UNCHANGED sess
    BY <1>6 DEF RxSchedule, CloseErase, CloseBusy, CloseWake, SlotsWithSession
  <2> QED
    BY <2>1, <2>2, <1>1, SlotHasSession DEF Goto
<1>7. ASSUME NEW d \in Clients, DrainNext(d) PROVE Goal
  BY <1>7, <1>1 DEF DrainNext, MapConsistent, Goto
<1>8. ASSUME NEW d \in Clients, DeleteSession(d) PROVE Goal
  <2>1. d \notin ws_sessions
    BY <1>8 DEF DeleteSession, MapConsistent
  <2> QED
    BY <1>8, <2>1, <1>2 DEF DeleteSession, on_sock_disconnect
<1>9. ASSUME NEW d \in Clients, DeferredDelete(d) PROVE Goal
  <2>1. Head(events) = events[1] /\ 1 \in DOMAIN events
    BY <1>9 DEF DeferredDelete
  <2>2. d \notin ws_sessions
    BY <1>9, <2>1, DeletePosted DEF DeferredDelete, MapConsistent
  <2> QED
    BY <1>9, <2>2, <1>2 DEF DeferredDelete, on_sock_disconnect
<1>10. ASSUME NEW d \in Clients, RxStart(d) \/ on_text_msg_rx(d) PROVE Goal
  BY <1>10, <1>2 DEF RxStart, on_text_msg_rx
<1>11. ASSUME ReconnectClose \/ ReconnectInit \/ ReconnectCheck \/ ExecReturns \/ DrainDone
       PROVE Goal
  BY <1>11, <1>2 DEF ReconnectClose, ReconnectInit, ReconnectCheck, ExecReturns, DrainDone, OtherPlaces
<1>12. ASSUME NEW d \in Clients, on_new_connection(d) PROVE Goal
  BY <1>12, <1>2 DEF on_new_connection, Idle, At, Goto, OtherPlaces
<1> QED
  BY <1>3, <1>4, <1>5, <1>6, <1>7, <1>8, <1>9, <1>10, <1>11, <1>12
  DEF Next, SlotStep, EventStep, EnvStep, HandlerStep, Stopped, vars, bin_msg_tx,
      run_once, Take, Lock, PostAck, PostNotka, PostTx, Finish

LEMMA AliveStep == IInv /\ [Next]_vars => SessionsAlive'
<1> SUFFICES ASSUME IInv, [Next]_vars PROVE SessionsAlive'
  OBVIOUS
<1>1. ASSUME NEW c \in Clients, Outstanding(c)' # {} PROVE sess'[c] = "live"
  <2>1. CASE RxSchedule(c)
    BY <2>1, SlotHasSession DEF RxSchedule, SlotsWithSession, IInv
  <2>2. CASE ~RxSchedule(c)
    <3>1. Outstanding(c) # {} /\ sess[c] = "live"
      BY <1>1, <2>2, OutstandingShrinks DEF IInv, SessionsAlive
    <3>2. ~At("delete", c)
      BY <3>1 DEF IInv, DeleteUnscheduled
    <3> QED
      BY <3>1, <3>2, SessChanges
  <2> QED
    BY <2>1, <2>2
<1>2. ASSUME main'.at \in SlotsWithSession PROVE sess'[main'.sock] = "live"
  <2>1. main' \in MainPlaces
    BY TypeStep DEF TypeOK
  <2>2. main'.at \notin OtherPlaces
    BY <1>2 DEF SlotsWithSession, OtherPlaces
  <2>3. main'.sock \in Clients /\ main' = [at |-> main'.at, sock |-> main'.sock]
    BY <2>1, <2>2 DEF MainPlaces
  <2> QED
    BY <1>2, <2>3, SlotEntered DEF At
<1> QED
  BY <1>1, <1>2 DEF SessionsAlive

LEMMA UnscheduledStep == IInv /\ [Next]_vars => DeleteUnscheduled'
<1> SUFFICES ASSUME IInv, [Next]_vars, NEW c \in Clients, At("delete", c)'
             PROVE Outstanding(c)' = {}
  BY DEF DeleteUnscheduled
<1> USE DEF sessVars, workVars, histVars
<1>1. ~RxSchedule(c)
  BY DEF RxSchedule, At, Goto
<1>2. CASE At("delete", c)
  BY <1>1, <1>2, OutstandingShrinks DEF IInv, DeleteUnscheduled
<1>3. CASE ~At("delete", c)
  <2>1. CloseErase(c)
    BY <1>3 DEF Next, SlotStep, EventStep, EnvStep, HandlerStep, Stopped, vars,
      RxSchedule, RxStart, At, Goto, Resume, on_sock_disconnect, on_new_connection,
      BinFrame, TextFrame, SockDisconnected, on_text_msg_rx, CloseErase, CloseBusy,
      CloseWake, DeleteSession, DrainNext, DeferredDelete, bin_msg_tx,
      ReconnectInit, ReconnectCheck, DrainDone, ReconnectClose, ExecReturns, run_once,
      Take, Lock, PostAck, PostNotka, PostTx, Finish
  <2>2. qrunnables_scheduled[c] = 0
    BY <2>1 DEF CloseErase, Unscheduled
  <2>3. Outstanding(c) = {}
    BY <2>2, FS_EmptySet DEF IInv, CounterExact
  <2> QED
    BY <1>1, <2>3, OutstandingShrinks
<1> QED
  BY <1>2, <1>3

-----------------------------------------------------------------------------
(* Frames of a session that is gone have all been processed.               *)
LEMMA DroppedStep == IInv /\ [Next]_vars => NothingDropped'
<1> SUFFICES ASSUME IInv, [Next]_vars, NEW c \in Clients, sess'[c] = "freed",
                    NEW n \in 1..rx'[c]
             PROVE handler'[<<c, n>>] = "done"
  BY DEF NothingDropped
<1> USE DEF sessVars, workVars, histVars
<1>1. Outstanding(c)' = {}
  BY AliveStep DEF SessionsAlive
<1>2. TypeOK' /\ FramesPlaced'
  BY TypeStep, FramesStep
<1>3. n \in 1..MaxFrames /\ n <= rx'[c] /\ <<c, n>> \in Handlers
  BY <1>2, SessionsAssumption DEF TypeOK, Handlers
<1>4. ~At("rx", c)'
  BY SlotEntered DEF SlotsWithSession
<1>5. handler'[<<c, n>>] # "none"
  BY <1>2, <1>3, <1>4 DEF FramesPlaced
<1> QED
  BY <1>1, <1>3, <1>5 DEF Outstanding

-----------------------------------------------------------------------------
(* The queue of posted events.                                             *)

\* Both invariants of the queue, over positions.
EventsSafe(q, sk, ss) ==
    \A i \in 1..Len(q) :
        /\ q[i].type = "delete" => ss[q[i].sock] = "freed"
        /\ q[i].type = "tx" =>
             /\ sk[q[i].sock] # "freed"
             /\ \A j \in 1..(i-1) : q[j] # DeleteEvent(q[i].sock)

LEMMA EventsSafeMeans ==
    ASSUME events \in Seq(PostedEvents)
    PROVE  EventsSafe(events, sock, sess) <=> TxTargetsLiveSocket /\ DeletesFollowSession
<1>1. DOMAIN events = 1..Len(events)
  OBVIOUS
<1> QED
  BY <1>1 DEF EventsSafe, TxTargetsLiveSocket, DeletesFollowSession

LEMMA EventsSafeTail ==
    ASSUME NEW q \in Seq(PostedEvents), q # <<>>, NEW sk, NEW ss,
           EventsSafe(q, sk, ss)
    PROVE  EventsSafe(Tail(q), sk, ss)
<1>1. /\ Len(Tail(q)) = Len(q) - 1 /\ Len(q) \in Nat
      /\ \A i \in 1..Len(Tail(q)) : Tail(q)[i] = q[i + 1] /\ i + 1 \in 1..Len(q)
  OBVIOUS
<1>2. \A i \in 1..Len(Tail(q)) : \A j \in 1..(i-1) :
          Tail(q)[j] = q[j + 1] /\ j + 1 \in 1..((i + 1) - 1)
  BY <1>1
<1> QED
  BY <1>1, <1>2 DEF EventsSafe

LEMMA EventsSafeAppend ==
    ASSUME NEW q \in Seq(PostedEvents), NEW sk, NEW ss, EventsSafe(q, sk, ss),
           NEW e \in PostedEvents,
           e.type = "delete" => ss[e.sock] = "freed",
           e.type = "tx" => sk[e.sock] # "freed" /\ ss[e.sock] # "freed"
    PROVE  EventsSafe(Append(q, e), sk, ss)
<1> DEFINE r == Append(q, e)
<1>1. /\ Len(r) = Len(q) + 1 /\ r[Len(q) + 1] = e /\ Len(q) \in Nat
      /\ \A i \in 1..Len(q) : r[i] = q[i]
  OBVIOUS
<1> HIDE DEF r
<1>2. ASSUME NEW i \in 1..Len(q)
      PROVE  /\ r[i].type = "delete" => ss[r[i].sock] = "freed"
             /\ r[i].type = "tx" =>
                  /\ sk[r[i].sock] # "freed"
                  /\ \A j \in 1..(i-1) : r[j] # DeleteEvent(r[i].sock)
  <2>1. \A j \in 1..(i-1) : r[j] = q[j]
    BY <1>1
  <2> QED
    BY <1>1, <2>1 DEF EventsSafe
<1>3. ASSUME e.type = "tx", NEW j \in 1..Len(q) PROVE r[j] # DeleteEvent(e.sock)
  <2>1. q[j].type = "delete" => ss[q[j].sock] = "freed"
    BY DEF EventsSafe
  <2> QED
    BY <1>1, <1>3, <2>1 DEF DeleteEvent
<1>4. \A i \in 1..Len(r) : i \in 1..Len(q) \/ i = Len(q) + 1
  BY <1>1
<1>5. EventsSafe(r, sk, ss)
  BY <1>1, <1>2, <1>3, <1>4 DEF EventsSafe
<1> QED
  BY <1>5 DEF r

\* Neither a step that frees only sockets without a queued transmission nor
\* one that frees sessions disturbs the queue.
LEMMA EventsSafeLater ==
    ASSUME NEW q \in Seq(PostedEvents), NEW sk, NEW ss, EventsSafe(q, sk, ss),
           NEW sk2, NEW ss2,
           \A c \in Clients : ss[c] = "freed" => ss2[c] = "freed",
           \A i \in 1..Len(q) : q[i].type = "tx" /\ sk2[q[i].sock] = "freed"
                                    => sk[q[i].sock] = "freed"
    PROVE  EventsSafe(q, sk2, ss2)
<1>1. \A i \in 1..Len(q) : q[i] \in PostedEvents
  OBVIOUS
<1>2. \A i \in 1..Len(q) : q[i].type = "delete" => q[i].sock \in Clients
  BY <1>1 DEF PostedEvents, ReconnectEvent
<1> QED
  BY <1>2 DEF EventsSafe

LEMMA EventsStep ==
    IInv /\ [Next]_vars => TxTargetsLiveSocket' /\ DeletesFollowSession'
<1> SUFFICES ASSUME IInv, [Next]_vars
             PROVE  TxTargetsLiveSocket' /\ DeletesFollowSession'
  OBVIOUS
<1> DEFINE Goal == EventsSafe(events', sock', sess')
<1> SUFFICES Goal
  <2>1. events' \in Seq(PostedEvents) /\ DOMAIN events' = 1..Len(events')
    BY TypeStep DEF TypeOK
  <2> QED
    BY <2>1 DEF EventsSafe, TxTargetsLiveSocket, DeletesFollowSession
<1>a. events \in Seq(PostedEvents) /\ EventsSafe(events, sock, sess)
  BY EventsSafeMeans DEF IInv, TypeOK
<1>b. \A c \in Clients : sess[c] = "freed" => sess'[c] = "freed"
  BY SessChanges, SlotHasSession DEF IInv, SlotsWithSession
<1>c. \A i \in 1..Len(events) : events[i].type \in {"tx", "delete"} => events[i].sock \in Clients
  BY <1>a DEF PostedEvents, ReconnectEvent
<1>1. ASSUME UNCHANGED events, \A c \in Clients : sock'[c] = "freed" => sock[c] = "freed"
      PROVE Goal
  <2>1. \A i \in 1..Len(events) : events[i].type = "tx" /\ sock'[events[i].sock] = "freed"
                                    => sock[events[i].sock] = "freed"
    BY <1>1, <1>c
  <2>2. EventsSafe(events, sock', sess')
    BY <1>a, <1>b, <2>1, EventsSafeLater
  <2> QED
    BY <1>1, <2>2
<1>2. ASSUME NEW h \in Handlers, NEW k \in {1, 2}, PostTx(h, k),
             handler[h] \notin {"none", "done"}
      PROVE Goal
  <2>1. h[1] \in Clients /\ Outstanding(h[1]) # {}
    BY <1>2 DEF Handlers, Outstanding
  <2>2. sess[h[1]] = "live" /\ sock[h[1]] # "freed"
    BY <2>1 DEF IInv, SessionsAlive, MapConsistent
  <2>3. /\ TxEvent(h, k) \in PostedEvents
        /\ TxEvent(h, k).type = "tx" /\ TxEvent(h, k).sock = h[1]
    BY RecordsTyped DEF TxEvent
  <2>4. EventsSafe(Append(events, TxEvent(h, k)), sock, sess)
    BY <1>a, <2>2, <2>3, EventsSafeAppend
  <2> QED
    BY <1>2, <2>4 DEF PostTx, sessVars
<1>3. ASSUME NEW c \in Clients, DeleteSession(c) PROVE Goal
  <2>1. sess'[c] = "freed" /\ events' = Append(events, DeleteEvent(c))
    BY <1>3 DEF DeleteSession, IInv, TypeOK
  <2>2. \A d \in Clients : sock'[d] = "freed" => sock[d] = "freed"
    BY <1>3 DEF DeleteSession, IInv, TypeOK
  <2>3. EventsSafe(events, sock', sess')
    BY <1>a, <1>b, <1>c, <2>2, EventsSafeLater
  <2>4. /\ DeleteEvent(c) \in PostedEvents
        /\ DeleteEvent(c).type = "delete" /\ DeleteEvent(c).sock = c
    BY RecordsTyped DEF DeleteEvent
  <2>5. EventsSafe(Append(events, DeleteEvent(c)), sock', sess')
    BY <1>a, <2>1, <2>3, <2>4, EventsSafeAppend
  <2> QED
    BY <2>1, <2>5
<1>4. CASE run_once
  <2>1. ReconnectEvent \in PostedEvents /\ ReconnectEvent.type = "reconnect"
    BY RecordsTyped DEF ReconnectEvent
  <2>2. EventsSafe(Append(events, ReconnectEvent), sock, sess)
    BY <1>a, <2>1, EventsSafeAppend
  <2> QED
    BY <1>4, <2>2 DEF run_once, sessVars
<1>5. ASSUME events # <<>>, events' = Tail(events), UNCHANGED <<sock, sess>>
      PROVE Goal
  BY <1>5, <1>a, EventsSafeTail
<1>6. ASSUME NEW c \in Clients, DeferredDelete(c) PROVE Goal
  <2>1. /\ events # <<>> /\ Head(events) = DeleteEvent(c) /\ events' = Tail(events)
        /\ UNCHANGED sess /\ sock' = [sock EXCEPT ![c] = "freed"]
    BY <1>6 DEF DeferredDelete, sessVars
  <2>2. /\ events[1] = DeleteEvent(c) /\ Tail(events) \in Seq(PostedEvents)
        /\ \A i \in 1..Len(Tail(events)) : /\ Tail(events)[i] = events[i + 1]
                                           /\ i + 1 \in 1..Len(events)
                                           /\ 1 \in 1..((i + 1) - 1)
    BY <1>a, <2>1
  <2>3. \A i \in 1..Len(Tail(events)) :
            Tail(events)[i].type = "tx" => Tail(events)[i].sock # c
    BY <1>a, <2>2 DEF EventsSafe
  <2>4. \A i \in 1..Len(Tail(events)) :
            Tail(events)[i].type = "tx" /\ sock'[Tail(events)[i].sock] = "freed"
                => sock[Tail(events)[i].sock] = "freed"
    <3>1. \A i \in 1..Len(Tail(events)) :
              Tail(events)[i].type = "tx" => Tail(events)[i].sock \in Clients \ {c}
      BY <1>c, <2>2, <2>3
    <3>2. \A d \in Clients \ {c} : sock'[d] = sock[d]
      BY <2>1 DEF IInv, TypeOK
    <3> QED
      BY <3>1, <3>2
  <2>5. EventsSafe(Tail(events), sock, sess)
    BY <1>a, <2>1, EventsSafeTail
  <2>6. EventsSafe(Tail(events), sock', sess')
    <3> DEFINE q == Tail(events)
    <3>1. q \in Seq(PostedEvents)
      BY <2>2
    <3>2. \A i \in 1..Len(q) : q[i].type = "tx" /\ sock'[q[i].sock] = "freed"
                                    => sock[q[i].sock] = "freed"
      BY <2>4
    <3>3. EventsSafe(q, sock, sess)
      BY <2>5
    <3> HIDE DEF q
    <3>4. EventsSafe(q, sock', sess')
      BY <1>b, <3>1, <3>2, <3>3, EventsSafeLater
    <3> QED
      BY <3>4 DEF q
  <2> QED
    BY <2>1, <2>6
<1>7. CASE ExecReturns
  BY <1>7 DEF ExecReturns, EventsSafe
<1>8. ASSUME NEW h \in Handlers, HandlerStep(h) PROVE Goal
  <2>1. CASE Take(h) \/ Lock(h) \/ Finish(h)
    BY <2>1, <1>1 DEF Take, Lock, Finish
  <2>2. CASE PostAck(h) \/ PostNotka(h)
    BY <2>2, <1>2 DEF PostAck, PostNotka
  <2> QED
    BY <1>8, <2>1, <2>2 DEF HandlerStep
<1>9. ASSUME NEW c \in Clients,
             \/ on_new_connection(c) \/ SockDisconnected(c)
             \/ BinFrame(c) \/ TextFrame(c) \/ RxSchedule(c) \/ RxStart(c) \/ on_text_msg_rx(c)
             \/ CloseErase(c) \/ CloseBusy(c) \/ CloseWake(c) \/ DrainNext(c)
      PROVE Goal
  <2>1. /\ UNCHANGED events
        /\ sock' = sock \/ \E s \in {"open", "gone", "closed"} : sock' = [sock EXCEPT ![c] = s]
    BY <1>9 DEF on_new_connection, SockDisconnected, BinFrame, TextFrame,
      RxSchedule, RxStart, on_text_msg_rx, CloseErase, CloseBusy, CloseWake, DrainNext
  <2> QED
    BY <2>1, <1>1 DEF IInv, TypeOK
<1>10. ASSUME NEW h \in Handlers, NEW k \in {1, 2}, bin_msg_tx(h, k) PROVE Goal
  BY <1>10, <1>5 DEF bin_msg_tx, sessVars
<1>11. CASE ReconnectClose
  BY <1>11, <1>5 DEF ReconnectClose, sessVars
<1>12. CASE ReconnectInit \/ ReconnectCheck \/ DrainDone \/ UNCHANGED vars
  BY <1>12, <1>1 DEF ReconnectInit, ReconnectCheck, DrainDone, vars
<1> HIDE DEF Goal
<1>13. SlotStep => Goal
  BY <1>3, <1>9, <1>12 DEF SlotStep
<1>14. EventStep => Goal
  BY <1>6, <1>10, <1>11 DEF EventStep
<1>15. EnvStep => Goal
  BY <1>7, <1>9 DEF EnvStep
<1> QED
  BY <1>4, <1>8, <1>12, <1>13, <1>14, <1>15 DEF Next, Stopped

-----------------------------------------------------------------------------
(* Results.                                                                *)

LEMMA Initially == Init => IInv
<1> SUFFICES ASSUME Init PROVE IInv
  OBVIOUS
<1> USE SessionsAssumption DEF Init
<1>1. TypeOK
  <2>1. main \in MainPlaces
    BY RecordsTyped DEF OtherPlaces
  <2>2. handler \in [Handlers -> Phases] /\ mutex \in [Clients -> Handlers \cup {Free}]
    BY DEF Phases
  <2>3. pool \in Seq(Handlers) /\ events \in Seq(PostedEvents)
    OBVIOUS
  <2>4. posted \in [Clients -> Seq(Replies)] /\ sent \in [Clients -> Seq(Replies)]
    OBVIOUS
  <2>5. /\ rx \in [Clients -> 0..MaxFrames] /\ ticks \in 0..MaxTicks
        /\ qrunnables_scheduled \in [Clients -> Nat]
    OBVIOUS
  <2>6. /\ sock \in [Clients -> {"none", "open", "gone", "closing", "closed", "freed"}]
        /\ sess \in [Clients -> {"none", "live", "freed"}]
        /\ ws_sessions \in SUBSET Clients /\ quitting \in BOOLEAN
    OBVIOUS
  <2> HIDE DEF Init
  <2> QED
    BY <2>1, <2>2, <2>3, <2>4, <2>5, <2>6 DEF TypeOK
<1>2. \A c \in Clients : Outstanding(c) = {}
  BY DEF Outstanding, Handlers
<1>3. CounterExact /\ SessionsAlive /\ DeleteUnscheduled
  BY <1>2, FS_EmptySet DEF CounterExact, SessionsAlive, DeleteUnscheduled, Goto, SlotsWithSession
<1>4. FramesPlaced
  BY DEF FramesPlaced, Handlers, At, Goto
<1>5. PoolQueued /\ DeletesFollowSession /\ TxTargetsLiveSocket
  BY DEF PoolQueued, DeletesFollowSession, TxTargetsLiveSocket
<1>6. SessionSerial
  BY DEF SessionSerial, Processing, Handlers
<1>7. MapConsistent /\ NothingDropped
  BY DEF MapConsistent, NothingDropped
<1> QED
  BY <1>1, <1>3, <1>4, <1>5, <1>6, <1>7 DEF IInv

(* The invariant is inductive, for any number of clients, frames and       *)
(* pool threads.                                                           *)
THEOREM Invariance == Spec => []IInv
<1>1. IInv /\ [Next]_vars => IInv'
  BY TypeStep, FramesStep, PoolStep, CounterStep, SerialStep, AliveStep, MapStep,
     UnscheduledStep, EventsStep, DroppedStep
  DEF IInv
<1> QED
  BY Initially, <1>1, PTL DEF Spec

(* Every variable keeps its type.                                          *)
THEOREM TypeCorrect == Spec => []TypeOK
<1>1. IInv => TypeOK
  BY DEF IInv
<1> QED
  BY Invariance, <1>1, PTL

(* No runnable, slot or map entry reaches a session that close_ws_session  *)
(* has deleted, and no queued reply a socket that is.                      *)
THEOREM SessionsNotUsedAfterFree == Spec => []NoUseAfterFree
<1>1. IInv => NoUseAfterFree
  BY DEF IInv, NoUseAfterFree
<1> QED
  BY Invariance, <1>1, PTL

(* qrunnables_scheduled counts the runnables that have not finished.       *)
THEOREM CounterIsExact == Spec => []CounterExact
<1>1. IInv => CounterExact
  BY DEF IInv
<1> QED
  BY Invariance, <1>1, PTL

(* A queued transmission never holds a dangling socket pointer.            *)
THEOREM TransmissionsTargetLiveSockets == Spec => []TxTargetsLiveSocket
<1>1. IInv => TxTargetsLiveSocket
  BY DEF IInv
<1> QED
  BY Invariance, <1>1, PTL

(* One thread at a time processes messages of a session, the one that      *)
(* holds the session's mutex.                                              *)
THEOREM SessionsAreSerial == Spec => []SessionSerial
<1>1. IInv => SessionSerial
  BY DEF IInv
<1> QED
  BY Invariance, <1>1, PTL

(* The map, the sessions and the sockets agree.                            *)
THEOREM MapIsConsistent == Spec => []MapConsistent
<1>1. IInv => MapConsistent
  BY DEF IInv
<1> QED
  BY Invariance, <1>1, PTL

(* A session is deleted only after all its frames were processed.          *)
THEOREM NoFrameIsDropped == Spec => []NothingDropped
<1>1. IInv => NothingDropped
  BY DEF IInv
<1> QED
  BY Invariance, <1>1, PTL

(* Freed sessions are never written: neither their counter nor their       *)
(* mutex changes again, and they do not come back.                         *)
THEOREM FreedSessionsAreNotWritten == Spec => NoWriteAfterFree
<1> DEFINE Kept ==
      \A c \in Clients : sess[c] = "freed" =>
          /\ sess'[c] = "freed"
          /\ qrunnables_scheduled'[c] = qrunnables_scheduled[c]
          /\ mutex'[c] = mutex[c]
<1>1. IInv /\ IInv' /\ [Next]_vars => [Kept]_vars
  <2> SUFFICES ASSUME IInv, IInv', [Next]_vars, NEW c \in Clients, sess[c] = "freed"
               PROVE  /\ sess'[c] = "freed"
                      /\ qrunnables_scheduled'[c] = qrunnables_scheduled[c]
                      /\ mutex'[c] = mutex[c]
    OBVIOUS
  <2> DEFINE Goal == UNCHANGED <<qrunnables_scheduled[c], mutex[c]>>
  <2>1. sess'[c] = "freed"
    BY SessChanges, SlotHasSession DEF IInv, SlotsWithSession
  <2>2. Outstanding(c) = {} /\ \A p \in SlotsWithSession : ~At(p, c)
    BY SlotHasSession DEF IInv, SessionsAlive
  <2> USE DEF IInv, TypeOK, sessVars, workVars, histVars
  <2>3. ASSUME NEW d \in Clients, RxSchedule(d)
        PROVE Goal
    BY <2>2, <2>3 DEF RxSchedule, CountOn, SlotsWithSession
  <2>4. ASSUME NEW h \in Handlers, Lock(h) \/ Finish(h)
        PROVE Goal
    <3>1. h[1] # c /\ h[1] \in Clients
      BY <2>2, <2>4 DEF Lock, Finish, Outstanding, Handlers
    <3> QED
      BY <2>4, <3>1 DEF Lock, Finish, CountOff
  <2>5. ASSUME UNCHANGED <<qrunnables_scheduled, mutex>> PROVE Goal
    BY <2>5
  <2>6. ASSUME SlotStep PROVE Goal
    BY <2>3, <2>5, <2>6
    DEF SlotStep, RxStart, on_text_msg_rx, CloseErase, CloseBusy, CloseWake,
        DeleteSession, DrainNext, ReconnectInit, ReconnectCheck, DrainDone
  <2>7. ASSUME EventStep \/ EnvStep \/ run_once PROVE Goal
    BY <2>5, <2>7
    DEF EventStep, EnvStep, bin_msg_tx, DeferredDelete, ReconnectClose,
        on_new_connection, BinFrame, TextFrame, SockDisconnected, ExecReturns, run_once
  <2>8. ASSUME NEW h \in Handlers, HandlerStep(h)
        PROVE Goal
    BY <2>4, <2>5, <2>8 DEF HandlerStep, Take, PostAck, PostNotka, PostTx
  <2>9. ASSUME UNCHANGED vars PROVE Goal
    BY <2>5, <2>9 DEF vars
  <2>10. Goal
    BY <2>6, <2>7, <2>8, <2>9 DEF Next, Stopped
  <2> QED
    BY <2>1, <2>10
<1> QED
  BY Invariance, <1>1, PTL DEF Spec, NoWriteAfterFree

-----------------------------------------------------------------------------
(* ~Notka drains: once it has left ws_sessions_disconnect, the map is      *)
(* empty and no slot runs that could fill it again.                        *)
DrainedMap == main.at = "exited" => ws_sessions = {}

LEMMA DrainedMapStep == IInv /\ DrainedMap /\ [Next]_vars => DrainedMap'
<1> SUFFICES ASSUME IInv, DrainedMap, [Next]_vars, main'.at = "exited"
             PROVE  ws_sessions' = {}
  BY DEF DrainedMap
<1> DEFINE Goal == ws_sessions' = {}
<1> USE DEF sessVars, workVars, histVars, At, Goto, Idle
<1>a. /\ Resume.at # "exited" /\ \A c \in Clients : on_sock_disconnect(c).at # "exited"
  BY DEF Resume, on_sock_disconnect
<1>1. ASSUME UNCHANGED <<main, ws_sessions>> PROVE Goal
  BY <1>1 DEF DrainedMap
<1>2. CASE DrainDone
  BY <1>2 DEF DrainDone, AllClosed
<1>3. ASSUME NEW c \in Clients,
             \/ RxSchedule(c) \/ RxStart(c) \/ on_text_msg_rx(c)
             \/ CloseErase(c) \/ CloseBusy(c) \/ CloseWake(c) \/ DrainNext(c)
      PROVE Goal
  BY <1>3, <1>a DEF RxSchedule, RxStart, on_text_msg_rx, CloseErase, CloseBusy,
                    CloseWake, DrainNext
<1>4. ASSUME NEW c \in Clients, DeleteSession(c) \/ DeferredDelete(c) PROVE Goal
  BY <1>4, <1>a DEF DeleteSession, DeferredDelete
<1>5. ASSUME NEW c \in Clients,
             on_new_connection(c) \/ BinFrame(c) \/ TextFrame(c) \/ SockDisconnected(c)
      PROVE Goal
  BY <1>5, <1>a DEF on_new_connection, BinFrame, TextFrame, SockDisconnected
<1>6. CASE ReconnectInit \/ ReconnectCheck \/ ReconnectClose \/ ExecReturns
  BY <1>6, <1>a DEF ReconnectInit, ReconnectCheck, ReconnectClose, ExecReturns
<1>7. ASSUME NEW h \in Handlers, NEW k \in {1, 2}, bin_msg_tx(h, k) PROVE Goal
  BY <1>7, <1>1 DEF bin_msg_tx
<1>8. ASSUME NEW h \in Handlers, HandlerStep(h) PROVE Goal
  BY <1>8, <1>1 DEF HandlerStep, Take, Lock, PostAck, PostNotka, PostTx, Finish
<1>9. CASE run_once \/ UNCHANGED vars
  BY <1>9, <1>1 DEF run_once, vars
<1> QED
  BY <1>2, <1>3, <1>4, <1>5, <1>6, <1>7, <1>8, <1>9
  DEF Next, SlotStep, EventStep, EnvStep, Stopped

(* ~Notka closes the database only when no runnable is left that could use *)
(* it and no session that could schedule one: the empty map means no live  *)
(* session, and a runnable keeps its session alive.                        *)
THEOREM DrainedBeforeExit == Spec => []DrainedAtExit
<1>1. Init => DrainedMap
  BY DEF Init, DrainedMap
<1>2. Spec => []DrainedMap
  BY <1>1, DrainedMapStep, Invariance, PTL DEF Spec
<1>3. IInv /\ DrainedMap => DrainedAtExit
  BY DEF IInv, DrainedMap, DrainedAtExit, MapConsistent, SessionsAlive, At
<1> QED
  BY Invariance, <1>2, <1>3, PTL

-----------------------------------------------------------------------------
(* Until the shutdown, close_ws_session runs only for a socket whose       *)
(* disconnected() was emitted: never for one that was gone from the start. *)
GoneUntouched ==
    ~quitting => \A c \in Clients : sock[c] = "gone" =>
        c \in ws_sessions /\ \A p \in {"close", "sleep", "delete"} : ~At(p, c)

\* The sessions are drained only by ~Notka.
DrainsLast == main.at = "drain" => quitting

LEMMA DrainsLastStep == IInv /\ DrainsLast /\ [Next]_vars => DrainsLast'
<1> SUFFICES ASSUME IInv, DrainsLast, [Next]_vars, ~quitting'
             PROVE  main'.at # "drain"
  BY DEF DrainsLast
<1> DEFINE Goal == main'.at # "drain"
<1> USE DEF sessVars, workVars, histVars, At, Goto
<1>a. ~quitting => Resume.at # "drain" /\ \A c \in Clients : on_sock_disconnect(c).at # "drain"
  BY DEF Resume, on_sock_disconnect
<1>1. ASSUME UNCHANGED <<main, quitting>> PROVE Goal
  BY <1>1 DEF DrainsLast
<1>2. ASSUME NEW c \in Clients,
             \/ RxSchedule(c) \/ RxStart(c) \/ on_text_msg_rx(c)
             \/ CloseErase(c) \/ CloseBusy(c) \/ CloseWake(c) \/ DrainNext(c)
      PROVE Goal
  BY <1>2, <1>a DEF RxSchedule, RxStart, on_text_msg_rx, CloseErase, CloseBusy,
                    CloseWake, DrainNext
<1>3. ASSUME NEW c \in Clients, DeleteSession(c) \/ DeferredDelete(c) PROVE Goal
  BY <1>3, <1>a, <1>1 DEF DeleteSession, DeferredDelete
<1>4. ASSUME NEW c \in Clients,
             on_new_connection(c) \/ BinFrame(c) \/ TextFrame(c) \/ SockDisconnected(c)
      PROVE Goal
  BY <1>4, <1>a, <1>1 DEF on_new_connection, BinFrame, TextFrame, SockDisconnected
<1>5. CASE ReconnectInit \/ ReconnectCheck \/ ReconnectClose \/ ExecReturns \/ DrainDone
  BY <1>5, <1>a DEF ReconnectInit, ReconnectCheck, ReconnectClose, ExecReturns, DrainDone
<1>6. ASSUME NEW h \in Handlers, NEW k \in {1, 2}, bin_msg_tx(h, k) PROVE Goal
  BY <1>6, <1>1 DEF bin_msg_tx
<1>7. ASSUME NEW h \in Handlers, HandlerStep(h) PROVE Goal
  BY <1>7, <1>1 DEF HandlerStep, Take, Lock, PostAck, PostNotka, PostTx, Finish
<1>8. CASE run_once \/ UNCHANGED vars
  BY <1>8, <1>1 DEF run_once, vars
<1> QED
  BY <1>2, <1>3, <1>4, <1>5, <1>6, <1>7, <1>8
  DEF Next, SlotStep, EventStep, EnvStep, Stopped

LEMMA GoneStep == IInv /\ DrainsLast /\ GoneUntouched /\ [Next]_vars => GoneUntouched'
<1> SUFFICES ASSUME IInv, DrainsLast, GoneUntouched, [Next]_vars, ~quitting', NEW c \in Clients,
                    sock'[c] = "gone"
             PROVE  c \in ws_sessions' /\ \A p \in {"close", "sleep", "delete"} : ~At(p, c)'
  BY DEF GoneUntouched
<1> DEFINE Goal == c \in ws_sessions' /\ \A p \in {"close", "sleep", "delete"} : ~At(p, c)'
<1> USE DEF IInv, TypeOK, sessVars, workVars, histVars
<1>0. /\ Resume.at \notin {"close", "sleep", "delete"}
      /\ \A d \in Clients : on_sock_disconnect(d) = Resume \/ on_sock_disconnect(d) = Goto("close", d)
  BY DEF Resume, on_sock_disconnect, Goto
<1>1. ASSUME UNCHANGED <<sock, ws_sessions, quitting>>, main' = main \/ main' = Resume
                 \/ \E p \in {"rx", "start", "text", "init_database", "check", "exited", "aborted"} :
                       main'.at = p
      PROVE  Goal
  BY <1>0, <1>1 DEF GoneUntouched, At
<1>2. ASSUME NEW d \in Clients, on_new_connection(d) PROVE Goal
  BY <1>2 DEF on_new_connection, GoneUntouched, Idle, At
<1>3. ASSUME NEW d \in Clients,
             BinFrame(d) \/ TextFrame(d) \/ RxSchedule(d) \/ RxStart(d) \/ on_text_msg_rx(d)
      PROVE  Goal
  BY <1>1, <1>3 DEF BinFrame, TextFrame, RxSchedule, RxStart, on_text_msg_rx, Goto
<1>4. ASSUME NEW d \in Clients, SockDisconnected(d) PROVE Goal
  <2>1. c # d /\ sock[c] = "gone"
    BY <1>4 DEF SockDisconnected
  <2>2. c \in ws_sessions' /\ ~quitting
    BY <1>4, <2>1 DEF SockDisconnected, GoneUntouched
  <2>3. main' = Resume \/ main' = Goto("close", d)
    BY <1>0, <1>4 DEF SockDisconnected
  <2> QED
    BY <1>0, <2>1, <2>2, <2>3 DEF At, Goto
<1>5. ASSUME NEW d \in Clients, CloseErase(d) \/ CloseBusy(d) \/ CloseWake(d) PROVE Goal
  BY <1>5 DEF CloseErase, CloseBusy, CloseWake, Erased, GoneUntouched, At, Goto
<1>6. ASSUME NEW d \in Clients, DeleteSession(d) PROVE Goal
  <2>1. ~quitting /\ At("delete", d) /\ UNCHANGED ws_sessions
    BY <1>6 DEF DeleteSession
  <2>2. sock[c] = "gone"
    BY <1>6 DEF DeleteSession
  <2>3. c # d /\ c \in ws_sessions'
    BY <2>1, <2>2 DEF GoneUntouched
  <2>4. main' = Resume \/ main' = Goto("close", d)
    BY <1>0, <1>6 DEF DeleteSession
  <2> QED
    BY <1>0, <2>3, <2>4 DEF At, Goto
<1>7. ASSUME NEW d \in Clients, DeferredDelete(d) PROVE Goal
  BY <1>0, <1>7 DEF DeferredDelete, GoneUntouched, Idle, At, Goto
<1>8. ASSUME NEW d \in Clients, DrainNext(d) PROVE Goal
  <2>1. quitting
    BY <1>8 DEF DrainNext, DrainsLast, At, Goto
  <2> QED
    BY <1>8, <2>1 DEF DrainNext
<1>9. CASE ReconnectClose \/ ReconnectInit \/ ReconnectCheck \/ DrainDone \/ ExecReturns
  BY <1>1, <1>9 DEF ReconnectClose, ReconnectInit, ReconnectCheck, DrainDone, ExecReturns, Goto
<1>10. ASSUME NEW h \in Handlers, NEW k \in {1, 2}, bin_msg_tx(h, k) PROVE Goal
  BY <1>10, <1>1 DEF bin_msg_tx
<1>11. ASSUME NEW h \in Handlers, HandlerStep(h) PROVE Goal
  BY <1>11, <1>1 DEF HandlerStep, Take, Lock, PostAck, PostNotka, PostTx, Finish
<1>12. CASE run_once \/ UNCHANGED vars
  BY <1>12, <1>1 DEF run_once, vars
<1> QED
  BY <1>2, <1>3, <1>4, <1>5, <1>6, <1>7, <1>8, <1>9, <1>10, <1>11, <1>12
  DEF Next, SlotStep, EventStep, EnvStep, Stopped

(* The session of a socket that was gone when it was made is kept until    *)
(* the shutdown: nothing that happens to other sessions removes it.        *)
THEOREM GoneSocketsAreKept == Spec => []GoneIsKept
<1>1. Init => DrainsLast /\ GoneUntouched
  BY DEF Init, DrainsLast, GoneUntouched, Goto
<1>2. Spec => []GoneUntouched
  BY <1>1, DrainsLastStep, GoneStep, Invariance, PTL DEF Spec
<1>3. IInv /\ GoneUntouched => GoneIsKept
  BY DEF IInv, GoneUntouched, GoneIsKept, MapConsistent
<1> QED
  BY Invariance, <1>2, <1>3, PTL
=============================================================================
