------------------------ MODULE AsyncDispatcherProofs ------------------------
(***************************************************************************)
(* What AsyncDispatcher guarantees for every number of clients, channels,  *)
(* keys and envelopes.                                                     *)
(***************************************************************************)
EXTENDS AsyncDispatcher, SequenceTheorems, FiniteSetTheorems, TLAPS

\* A router with no sends to make has a table of the right type.
LEMMA NoSendsType == NoSends \in [Keys -> [Channels -> Nat]]
  BY DEF NoSends, NoCopies

\* A dispatcher that was just constructed has its types.
LEMMA InitType == Init => TypeOK
  <1> SUFFICES ASSUME Init PROVE TypeOK
    OBVIOUS
  <1>1. /\ queue \in Seq(Envelope) /\ env \in Seq(Envelope)
        /\ accepted \in Seq(Envelope) /\ routed \in Seq(Envelope)
    BY DEF Init
  <1>2. /\ routes \in [Keys -> [Channels -> Nat]]
        /\ pending \in [Keys -> [Channels -> Nat]]
    BY NoSendsType DEF Init
  <1>3. /\ inbox \in [Channels -> Seq(Nat)]
        /\ buffered \in [Channels -> SUBSET Nat]
    BY DEF Init
  <1>4. /\ calls \in [Clients -> Nat]
        /\ mark \in [Clients -> Nat]
    BY DEF Init
  <1> QED BY <1>1, <1>2, <1>3, <1>4 DEF Init, TypeOK, Nobody

\* One cell of the subscription table is overwritten.
LEMMA TableType ==
  ASSUME NEW t \in [Keys -> [Channels -> Nat]],
         NEW k \in Keys, NEW ch \in Channels, NEW n \in Nat
  PROVE  [t EXCEPT ![k][ch] = n] \in [Keys -> [Channels -> Nat]]
  OBVIOUS

\* One push keeps the types of the queue and of the history.
LEMMA PushType ==
  ASSUME NEW type \in Types, Push(type), TypeOK
  PROVE  /\ queue' \in Seq(Envelope)
         /\ accepted' \in Seq(Envelope)
  <1>1. [id |-> Len(accepted) + 1, type |-> type] \in Envelope
    BY DEF TypeOK, Envelope
  <1> QED BY <1>1 DEF Push, TypeOK

\* Every step keeps the types; the worker's steps need that it holds an envelope.
LEMMA StepType == TypeOK /\ InHandOk /\ [Next]_vars => TypeOK'
  <1> SUFFICES ASSUME TypeOK, InHandOk, [Next]_vars PROVE TypeOK'
    OBVIOUS
  <1> USE DispatcherAssumption DEF Worker, Nobody
  <1>1. ASSUME NEW c \in Clients, NEW type \in Types, DispatchPush(c, type)
        PROVE TypeOK'
    <2>1. queue' \in Seq(Envelope) /\ accepted' \in Seq(Envelope)
      BY <1>1, PushType DEF DispatchPush
    <2>2. calls' \in [Clients -> Nat] /\ client' = [client EXCEPT ![c] = "notify"]
      BY <1>1 DEF DispatchPush, Call, TypeOK
    <2>3. UNCHANGED <<busy, stop, routerVars, mark, workerVars, owner>>
      BY <1>1 DEF DispatchPush, Push
    <2> QED BY <2>1, <2>2, <2>3 DEF TypeOK, routerVars, workerVars
  <1>2. ASSUME NEW c \in Clients, NEW k \in Keys, NEW ch \in Channels,
               Subscribe(c, k, ch) \/ Unsubscribe(c, k, ch)
        PROVE TypeOK'
    <2>1. PICK n \in Nat : routes' = [routes EXCEPT ![k][ch] = n]
      <3>1. routes[k][ch] + 1 \in Nat /\ 0 \in Nat
        BY DEF TypeOK
      <3> QED BY <1>2, <3>1 DEF Subscribe, Unsubscribe
    <2>2. routes' \in [Keys -> [Channels -> Nat]]
      BY <2>1, TableType DEF TypeOK
    <2>3. Call(c, "idle")
      BY <1>2 DEF Subscribe, Unsubscribe
    <2>4. /\ calls' \in [Clients -> Nat]
          /\ client' = [client EXCEPT ![c] = "idle"]
      BY <2>3 DEF Call, TypeOK
    <2>5. UNCHANGED <<queueVars, routeOwner, pending, inbox, buffered, mark,
                      workerVars, owner>>
      BY <1>2 DEF Subscribe, Unsubscribe
    <2> QED BY <2>2, <2>4, <2>5 DEF TypeOK, queueVars, workerVars
  <1>3. ASSUME NEW c \in Clients, FlushCall(c) PROVE TypeOK'
    BY <1>3 DEF FlushCall, Call, TypeOK, queueVars, routerVars, workerVars
  <1>4. ASSUME NEW c \in Clients, Returning(c) PROVE TypeOK'
    <2>1. CASE DispatchNotify(c)
      BY <2>1 DEF DispatchNotify, At, Goto, TypeOK, queueVars, routerVars
    <2>2. CASE FlushWait(c)
      BY <2>2 DEF FlushWait, At, Goto, TypeOK, queueVars, routerVars, workerVars
    <2>3. CASE FlushLock(c)
      BY <2>3 DEF FlushLock, At, Goto, TypeOK, queueVars, workerVars
    <2>4. CASE FlushReturn(c)
      <3>1. buffered' \in [Channels -> SUBSET Nat]
        BY <2>4 DEF FlushReturn, RouterFlush, TypeOK
      <3> QED BY <2>4, <3>1 DEF FlushReturn, Goto, TypeOK, queueVars, workerVars
    <2> QED BY <1>4, <2>1, <2>2, <2>3, <2>4 DEF Returning
  <1>5. CASE WorkerLoop
    <2>1. CASE WorkerBlock \/ WorkerExit \/ WorkerIdle
      BY <2>1 DEF WorkerBlock, WorkerExit, WorkerIdle, TypeOK,
         queueVars, routerVars, clientVars
    <2>2. CASE WorkerTake
      BY <2>2 DEF WorkerTake, TypeOK, queueVars, routerVars, clientVars
    <2>3. CASE WorkerLock
      BY <2>3 DEF WorkerLock, SendsFor, NoCopies, TypeOK, queueVars, clientVars
    <2>4. CASE WorkerRouted
      BY <2>4 DEF WorkerRouted, TypeOK, queueVars, clientVars
    <2>5. CASE WorkerNotifyAll
      BY <2>5 DEF WorkerNotifyAll, TypeOK, queueVars, routerVars
    <2>6. ASSUME NEW k \in Keys, NEW ch \in Channels, WorkerSend(k, ch)
          PROVE TypeOK'
      <3>1. env[1].id \in Nat
        <4>1. Len(env) = 1
          BY <2>6 DEF WorkerSend, InHandOk
        <4>2. env \in Seq(Envelope) /\ 1 \in 1..Len(env)
          BY <4>1 DEF TypeOK
        <4>3. env[1] \in Envelope
          BY <4>2, ElementOfSeq
        <4> QED BY <4>3 DEF Envelope
      <3>2. pending' \in [Keys -> [Channels -> Nat]]
        BY <2>6 DEF WorkerSend, TypeOK
      <3>3. /\ inbox' \in [Channels -> Seq(Nat)]
            /\ buffered' \in [Channels -> SUBSET Nat]
        <4> DEFINE id == env[1].id
        <4>1. id \in Nat /\ inbox[ch] \in Seq(Nat) /\ buffered[ch] \in SUBSET Nat
          BY <3>1 DEF TypeOK
        <4>2. /\ inbox' = [inbox EXCEPT ![ch] = Append(@, id)]
              /\ buffered' = [buffered EXCEPT ![ch] = @ \cup {id}]
          BY <2>6 DEF WorkerSend
        <4> HIDE DEF id
        <4>3. Append(inbox[ch], id) \in Seq(Nat)
          BY <4>1
        <4>4. inbox' \in [Channels -> Seq(Nat)]
          BY <4>2, <4>3 DEF TypeOK
        <4>5. buffered' \in [Channels -> SUBSET Nat]
          BY <4>1, <4>2 DEF TypeOK
        <4> QED BY <4>4, <4>5
      <3>4. UNCHANGED <<queueVars, routes, routeOwner, clientVars, workerVars, owner>>
        BY <2>6 DEF WorkerSend
      <3> QED BY <3>2, <3>3, <3>4 DEF TypeOK, queueVars, clientVars, workerVars
    <2> QED BY <1>5, <2>1, <2>2, <2>3, <2>4, <2>5, <2>6 DEF WorkerLoop
  <1>6. CASE Callback
    <2>1. ASSUME NEW type \in Types, NestedDispatch(type) PROVE TypeOK'
      <3>1. queue' \in Seq(Envelope) /\ accepted' \in Seq(Envelope)
        BY <2>1, PushType DEF NestedDispatch
      <3> QED BY <2>1, <3>1 DEF NestedDispatch, Push, TypeOK, routerVars,
                 clientVars, workerVars
    <2>2. CASE NestedBlock
      BY <2>2 DEF NestedBlock, TypeOK, queueVars, routerVars, clientVars
    <2>3. ASSUME NEW k \in Keys, NEW ch \in Channels, WorkerThrow(k, ch)
          PROVE TypeOK'
      BY <2>3 DEF WorkerThrow, TypeOK, queueVars, routerVars, clientVars
    <2> QED BY <1>6, <2>1, <2>2, <2>3 DEF Callback
  <1>7. CASE Destructor
    <2>1. CASE DtorStop \/ DtorNotify \/ DtorJoin
      BY <2>1 DEF DtorStop, DtorNotify, DtorJoin, TypeOK, queueVars, routerVars,
         clientVars, workerVars
    <2>2. CASE DtorFlush
      BY <2>2 DEF DtorFlush, RouterFlush, TypeOK, queueVars, clientVars, workerVars
    <2> QED BY <1>7, <2>1, <2>2 DEF Destructor
  <1>8. CASE Spurious
    <2>1. CASE SpuriousWorker
      BY <2>1 DEF SpuriousWorker, TypeOK, queueVars, routerVars, clientVars
    <2>2. ASSUME NEW c \in Clients, SpuriousFlush(c) PROVE TypeOK'
      BY <2>2 DEF SpuriousFlush, At, Goto, TypeOK, queueVars, routerVars, workerVars
    <2> QED BY <1>8, <2>1, <2>2 DEF Spurious
  <1>9. CASE UNCHANGED vars
    BY <1>9 DEF TypeOK, vars, queueVars, routerVars, clientVars, workerVars
  <1> QED BY <1>1, <1>2, <1>3, <1>4, <1>5, <1>6, <1>7, <1>8, <1>9
             DEF Next, Calling, Ended

(***************************************************************************)
(* No envelope is lost, doubled or overtaken between push and route.       *)
(***************************************************************************)
LEMMA StepNothingLost ==
  TypeOK /\ InHandOk /\ NothingLost /\ [Next]_vars => NothingLost'
  <1> SUFFICES ASSUME TypeOK, InHandOk, NothingLost, [Next]_vars
               PROVE  NothingLost'
    OBVIOUS
  <1>1. ASSUME NEW type \in Types, Push(type), UNCHANGED <<routed, env>>
        PROVE NothingLost'
    <2> DEFINE e == [id |-> Len(accepted) + 1, type |-> type]
    <2> DEFINE r == routed \o env
    <2>1. e \in Envelope
      BY DEF TypeOK, Envelope
    <2>2. queue' = Append(queue, e) /\ accepted' = Append(accepted, e)
      BY <1>1 DEF Push
    <2>3. r \in Seq(Envelope) /\ queue \in Seq(Envelope)
      BY DEF TypeOK
    <2> HIDE DEF e, r
    <2>4. Append(r \o queue, e) = r \o Append(queue, e)
      <3>1. (r \o queue) \o <<e>> = r \o (queue \o <<e>>)
        BY <2>1, <2>3, ConcatAssociative
      <3>2. /\ Append(r \o queue, e) = (r \o queue) \o <<e>>
            /\ Append(queue, e) = queue \o <<e>>
        BY <2>1, <2>3, AppendIsConcat
      <3> QED BY <3>1, <3>2
    <2> USE DEF r
    <2> QED BY <1>1, <2>2, <2>4 DEF NothingLost
  <1>2. CASE WorkerTake
    <2>1. env = <<>> /\ queue # <<>>
      BY <1>2 DEF WorkerTake, InHandOk
    <2>2. /\ Head(queue) \in Envelope
          /\ Tail(queue) \in Seq(Envelope)
          /\ <<Head(queue)>> \o Tail(queue) = queue
      BY <2>1, HeadTailProperties DEF TypeOK
    <2>3. (routed \o <<Head(queue)>>) \o Tail(queue)
            = routed \o (<<Head(queue)>> \o Tail(queue))
      <3>1. /\ routed \in Seq(Envelope)
            /\ <<Head(queue)>> \in Seq(Envelope)
            /\ Tail(queue) \in Seq(Envelope)
        BY <2>2 DEF TypeOK
      <3> QED BY <3>1, ConcatAssociative
    <2>4. routed \o <<>> = routed
      BY ConcatEmptySeq DEF TypeOK
    <2> QED BY <1>2, <2>1, <2>2, <2>3, <2>4 DEF WorkerTake, NothingLost
  <1>3. CASE WorkerRouted
    <2>1. (routed \o env) \o <<>> \o queue = routed \o env \o queue
      BY DEF TypeOK
    <2> QED BY <1>3, <2>1 DEF WorkerRouted, NothingLost, queueVars
  <1>4. CASE UNCHANGED <<accepted, queue, env, routed>>
    BY <1>4 DEF NothingLost
  <1>5. ASSUME NEW c \in Clients, Calling(c)
        PROVE NothingLost'
    BY <1>5, <1>1, <1>4 DEF Calling, DispatchPush, Subscribe, Unsubscribe,
       FlushCall, queueVars, workerVars
  <1>6. ASSUME NEW c \in Clients, Returning(c) PROVE NothingLost'
    BY <1>6, <1>4 DEF Returning, DispatchNotify, FlushWait, FlushLock,
       FlushReturn, queueVars, workerVars
  <1>7. CASE WorkerLoop
    BY <1>7, <1>2, <1>3, <1>4 DEF WorkerLoop, WorkerBlock, WorkerExit, WorkerLock,
       WorkerSend, WorkerIdle, WorkerNotifyAll, queueVars, workerVars
  <1>8. CASE Callback
    BY <1>8, <1>1, <1>4 DEF Callback, NestedDispatch, NestedBlock, WorkerThrow,
       queueVars, workerVars
  <1>9. CASE Destructor \/ Spurious \/ UNCHANGED vars
    BY <1>9, <1>4 DEF Destructor, DtorStop, DtorNotify, DtorJoin, DtorFlush,
       Spurious, SpuriousWorker, SpuriousFlush, queueVars, workerVars, vars
  <1> QED BY <1>5, <1>6, <1>7, <1>8, <1>9 DEF Next, Ended

(***************************************************************************)
(* Who holds the worker's envelope, _worker_busy, _route_mutex and _stop.  *)
(***************************************************************************)
Control == InHandOk /\ BusyOk /\ LockOk /\ StopOk /\ ExitOk

\* Every step keeps the relation of flags, mutex owners and program counters.
LEMMA StepControl ==
  TypeOK /\ Control /\ [Next]_vars => Control'
  <1> SUFFICES ASSUME TypeOK, Control, [Next]_vars PROVE Control'
    OBVIOUS
  <1> USE DispatcherAssumption DEF Control, Worker, Nobody
  <1>1. ASSUME NEW c \in Clients, NEW type \in Types, DispatchPush(c, type) PROVE Control'
    BY <1>1 DEF DispatchPush, Call, Push, routerVars, workerVars,
       TypeOK, InHandOk, BusyOk, LockOk, StopOk, ExitOk
  <1>2. ASSUME NEW c \in Clients, NEW k \in Keys, NEW ch \in Channels,
               Subscribe(c, k, ch) \/ Unsubscribe(c, k, ch) PROVE Control'
    <2>1. /\ client[c] = "idle" /\ client' = [client EXCEPT ![c] = "idle"]
          /\ UNCHANGED <<queueVars, workerVars, routeOwner, owner>>
      BY <1>2 DEF Subscribe, Unsubscribe, Call
    <2>2. client' = client
      BY <2>1 DEF TypeOK
    <2> QED BY <2>1, <2>2 DEF queueVars, workerVars,
               InHandOk, BusyOk, LockOk, StopOk, ExitOk
  <1>3. ASSUME NEW c \in Clients, FlushCall(c) PROVE Control'
    BY <1>3 DEF FlushCall, Call, queueVars, routerVars, workerVars,
       TypeOK, InHandOk, BusyOk, LockOk, StopOk, ExitOk
  <1>4. ASSUME NEW c \in Clients, DispatchNotify(c) PROVE Control'
    BY <1>4 DEF DispatchNotify, At, Goto, queueVars, routerVars,
       TypeOK, InHandOk, BusyOk, LockOk, StopOk, ExitOk
  <1>5. ASSUME NEW c \in Clients, FlushWait(c) PROVE Control'
    BY <1>5 DEF FlushWait, At, Goto, queueVars, routerVars, workerVars,
       TypeOK, InHandOk, BusyOk, LockOk, StopOk, ExitOk
  <1>6. ASSUME NEW c \in Clients, FlushLock(c) PROVE Control'
    BY <1>6 DEF FlushLock, At, Goto, queueVars, workerVars,
       TypeOK, InHandOk, BusyOk, LockOk, StopOk, ExitOk
  <1>7. ASSUME NEW c \in Clients, FlushReturn(c) PROVE Control'
    BY <1>7 DEF FlushReturn, At, Goto, queueVars, workerVars,
       TypeOK, InHandOk, BusyOk, LockOk, StopOk, ExitOk
  <1>8. ASSUME WorkerBlock \/ WorkerExit \/ WorkerIdle PROVE Control'
    BY <1>8 DEF WorkerBlock, WorkerExit, WorkerIdle, queueVars, routerVars,
       clientVars,
       TypeOK, InHandOk, BusyOk, LockOk, StopOk, ExitOk
  <1>9. ASSUME WorkerTake PROVE Control'
    BY <1>9 DEF WorkerTake, routerVars, clientVars,
       TypeOK, InHandOk, BusyOk, LockOk, StopOk, ExitOk
  <1>10. ASSUME WorkerLock PROVE Control'
    BY <1>10 DEF WorkerLock, queueVars, clientVars,
       TypeOK, InHandOk, BusyOk, LockOk, StopOk, ExitOk
  <1>11. ASSUME NEW k \in Keys, NEW ch \in Channels, WorkerSend(k, ch) PROVE Control'
    BY <1>11 DEF WorkerSend, queueVars, clientVars, workerVars,
       TypeOK, InHandOk, BusyOk, LockOk, StopOk, ExitOk
  <1>12. ASSUME WorkerRouted PROVE Control'
    BY <1>12 DEF WorkerRouted, queueVars, clientVars,
       TypeOK, InHandOk, BusyOk, LockOk, StopOk, ExitOk
  <1>13. ASSUME WorkerNotifyAll PROVE Control'
    BY <1>13 DEF WorkerNotifyAll, queueVars, routerVars,
       TypeOK, InHandOk, BusyOk, LockOk, StopOk, ExitOk
  <1>14. ASSUME NEW type \in Types, NestedDispatch(type) PROVE Control'
    BY <1>14 DEF NestedDispatch, InSend, Push, routerVars, clientVars,
       workerVars,
       TypeOK, InHandOk, BusyOk, LockOk, StopOk, ExitOk
  <1>15. ASSUME NestedBlock PROVE Control'
    BY <1>15 DEF NestedBlock, InSend, queueVars, routerVars, clientVars,
       TypeOK, InHandOk, BusyOk, LockOk, StopOk, ExitOk
  <1>16. ASSUME NEW k \in Keys, NEW ch \in Channels, WorkerThrow(k, ch) PROVE Control'
    BY <1>16 DEF WorkerThrow, queueVars, routerVars, clientVars,
       TypeOK, InHandOk, BusyOk, LockOk, StopOk, ExitOk
  <1>17. ASSUME DtorStop \/ DtorNotify \/ DtorJoin PROVE Control'
    BY <1>17 DEF DtorStop, DtorNotify, DtorJoin, At, queueVars, routerVars,
       clientVars, workerVars,
       TypeOK, InHandOk, BusyOk, LockOk, StopOk, ExitOk
  <1>18. ASSUME DtorFlush PROVE Control'
    BY <1>18 DEF DtorFlush, queueVars, clientVars, workerVars,
       TypeOK, InHandOk, BusyOk, LockOk, StopOk, ExitOk
  <1>19. ASSUME SpuriousWorker PROVE Control'
    BY <1>19 DEF SpuriousWorker, queueVars, routerVars, clientVars,
       TypeOK, InHandOk, BusyOk, LockOk, StopOk, ExitOk
  <1>20. ASSUME NEW c \in Clients, SpuriousFlush(c) PROVE Control'
    BY <1>20 DEF SpuriousFlush, At, Goto, queueVars, routerVars, workerVars,
       TypeOK, InHandOk, BusyOk, LockOk, StopOk, ExitOk
  <1>21. ASSUME UNCHANGED vars PROVE Control'
    BY <1>21 DEF vars, queueVars, routerVars, clientVars, workerVars,
       TypeOK, InHandOk, BusyOk, LockOk, StopOk, ExitOk
  <1> QED BY <1>1, <1>2, <1>3, <1>4, <1>5, <1>6, <1>7, <1>8, <1>9, <1>10, <1>11,
             <1>12, <1>13, <1>14, <1>15, <1>16, <1>17, <1>18, <1>19, <1>20, <1>21
          DEF Next, Calling, Returning, WorkerLoop, Callback, Destructor, Spurious,
              Ended

(***************************************************************************)
(* A flush() waits for all that was accepted before it.                    *)
(***************************************************************************)
LEMMA StepMark ==
  TypeOK /\ MarkOk /\ [Next]_vars => MarkOk'
  <1> SUFFICES ASSUME TypeOK, MarkOk, [Next]_vars PROVE MarkOk'
    OBVIOUS
  <1>1. ASSUME NEW c \in Clients, FlushCall(c) PROVE MarkOk'
    BY <1>1 DEF FlushCall, MarkOk, TypeOK, queueVars
  <1>2. ASSUME NEW type \in Types, Push(type), UNCHANGED mark PROVE MarkOk'
    <2>1. Len(accepted') = Len(accepted) + 1
      BY <1>2 DEF Push, TypeOK
    <2> QED BY <1>2, <2>1 DEF MarkOk, TypeOK
  <1>3. CASE UNCHANGED <<accepted, mark>>
    BY <1>3 DEF MarkOk
  <1>4. ASSUME NEW c \in Clients, Calling(c) PROVE MarkOk'
    BY <1>4, <1>1, <1>2, <1>3 DEF Calling, DispatchPush, Subscribe, Unsubscribe,
       queueVars
  <1>5. ASSUME NEW c \in Clients, Returning(c) PROVE MarkOk'
    BY <1>5, <1>3 DEF Returning, DispatchNotify, FlushWait, FlushLock,
       FlushReturn, queueVars
  <1>6. CASE WorkerLoop
    BY <1>6, <1>3 DEF WorkerLoop, WorkerBlock, WorkerExit, WorkerTake, WorkerLock,
       WorkerSend, WorkerRouted, WorkerIdle, WorkerNotifyAll, queueVars, clientVars
  <1>7. CASE Callback
    BY <1>7, <1>2, <1>3 DEF Callback, NestedDispatch, NestedBlock, WorkerThrow,
       queueVars, clientVars
  <1>8. CASE Destructor \/ Spurious \/ UNCHANGED vars
    BY <1>8, <1>3 DEF Destructor, DtorStop, DtorNotify, DtorJoin, DtorFlush,
       Spurious, SpuriousWorker, SpuriousFlush, queueVars, clientVars, vars
  <1> QED BY <1>4, <1>5, <1>6, <1>7, <1>8 DEF Next, Ended

\* A drained dispatcher has routed everything it accepted.
LEMMA DrainedRouted ==
  ASSUME TypeOK, NothingLost, InHandOk, BusyOk, Drained
  PROVE  routed = accepted
  <1>1. env = <<>> /\ queue = <<>>
    BY DEF Drained, BusyOk, InHandOk
  <1> QED BY <1>1, ConcatEmptySeq DEF NothingLost, TypeOK

\* The history of routed envelopes only grows.
LEMMA RoutedGrows ==
  TypeOK /\ [Next]_vars => Len(routed') >= Len(routed)
  <1> SUFFICES ASSUME TypeOK, [Next]_vars PROVE Len(routed') >= Len(routed)
    OBVIOUS
  <1>1. CASE UNCHANGED routed
    BY <1>1 DEF TypeOK
  <1>2. CASE WorkerRouted
    BY <1>2 DEF WorkerRouted, TypeOK
  <1> QED BY <1>1, <1>2 DEF Next, Calling, DispatchPush, Subscribe, Unsubscribe,
       FlushCall, Returning, DispatchNotify, FlushWait, FlushLock, FlushReturn,
       WorkerLoop, WorkerBlock, WorkerExit, WorkerTake, WorkerLock, WorkerSend,
       WorkerIdle, WorkerNotifyAll, Callback, NestedDispatch, NestedBlock,
       WorkerThrow, Destructor, DtorStop, DtorNotify, DtorJoin, DtorFlush,
       Spurious, SpuriousWorker, SpuriousFlush, Ended, workerVars, vars

\* Every step keeps what flush() waits for: what is routed only grows, and a flush
\* goes on only when drained.
LEMMA StepFlush ==
  TypeOK /\ TypeOK' /\ Control /\ NothingLost /\ MarkOk /\ FlushWaitsForAll
    /\ [Next]_vars => FlushWaitsForAll'
  <1> SUFFICES ASSUME TypeOK, TypeOK', Control, NothingLost, MarkOk,
                      FlushWaitsForAll, [Next]_vars,
                      NEW d \in Clients, client'[d] \in {"flushRouter", "flushing"}
               PROVE  mark'[d] <= Len(routed')
    BY DEF FlushWaitsForAll
  <1>1. CASE client[d] \in {"flushRouter", "flushing"} /\ mark'[d] = mark[d]
    <2>1. Len(routed) <= Len(routed')
      BY RoutedGrows
    <2>2. mark[d] <= Len(routed)
      BY <1>1 DEF FlushWaitsForAll
    <2> QED BY <1>1, <2>1, <2>2 DEF TypeOK
  <1>2. CASE FlushWait(d)
    <2>1. Drained /\ mark' = mark /\ routed' = routed
      BY <1>2 DEF FlushWait, At, Goto, TypeOK, workerVars
    <2>2. routed = accepted
      BY <2>1, DrainedRouted DEF Control
    <2> QED BY <2>1, <2>2 DEF MarkOk
  <1>3. ASSUME NEW c \in Clients, Calling(c)
        PROVE client[d] \in {"flushRouter", "flushing"} /\ mark'[d] = mark[d]
    BY <1>3 DEF Calling, DispatchPush, Subscribe, Unsubscribe, FlushCall, Call,
       TypeOK
  <1>4. ASSUME NEW c \in Clients, Returning(c), ~FlushWait(d)
        PROVE client[d] \in {"flushRouter", "flushing"} /\ mark'[d] = mark[d]
    BY <1>4 DEF Returning, DispatchNotify, FlushWait, FlushLock, FlushReturn,
       At, Goto, TypeOK
  <1>5. CASE WorkerLoop \/ Callback \/ Destructor \/ Spurious \/ UNCHANGED vars
    BY <1>5, <1>1 DEF WorkerLoop, WorkerBlock, WorkerExit, WorkerTake, WorkerLock,
       WorkerSend, WorkerRouted, WorkerIdle, WorkerNotifyAll, Callback,
       NestedDispatch, NestedBlock, WorkerThrow, Destructor, DtorStop, DtorNotify,
       DtorJoin, DtorFlush, Spurious, SpuriousWorker, SpuriousFlush, At, Goto,
       TypeOK, clientVars, vars
  <1> QED BY <1>1, <1>2, <1>3, <1>4, <1>5 DEF Next, Ended

(***************************************************************************)
(* Destruction.                                                            *)
(***************************************************************************)
LEMMA StepShutdown ==
  TypeOK' /\ Control /\ Control' /\ NothingLost' /\ ShutdownComplete
    /\ [Next]_vars => ShutdownComplete'
  <1> SUFFICES ASSUME TypeOK', Control, Control', NothingLost', ShutdownComplete,
                      [Next]_vars, owner' \in {"joined", "destroyed"}
               PROVE  /\ worker' = "done"
                      /\ routed' = accepted'
                      /\ owner' = "destroyed" =>
                            (\A ch \in Subscribed : buffered[ch] = {})'
    BY DEF ShutdownComplete
  <1>1. worker' = "done"
    BY DEF Control, ExitOk
  <1>2. env' = <<>> /\ queue' = <<>>
    BY <1>1 DEF Control, InHandOk, ExitOk
  <1>3. routed' = accepted'
    BY <1>2, ConcatEmptySeq DEF NothingLost, TypeOK
  <1>4. ASSUME owner' = "destroyed"
        PROVE  (\A ch \in Subscribed : buffered[ch] = {})'
    <2>1. CASE DtorFlush
      BY <2>1 DEF DtorFlush, RouterFlush, Subscribed
    <2>2. CASE owner = "destroyed" /\ UNCHANGED <<routes, buffered>>
      BY <2>2 DEF ShutdownComplete, Subscribed
    <2>3. owner = "destroyed" => /\ worker = "done"
                                 /\ \A c \in Clients : client[c] = "idle"
      BY DEF Control, ExitOk, StopOk
    <2>4. CASE owner = "destroyed"
      BY <2>2, <2>3, <2>4 DEF Next, Calling, Call, DispatchPush, Subscribe,
         Unsubscribe, FlushCall, Returning, DispatchNotify, FlushWait, FlushLock,
         FlushReturn, At, WorkerLoop, WorkerBlock, WorkerExit, WorkerTake,
         WorkerLock, WorkerSend, WorkerRouted, WorkerIdle, WorkerNotifyAll,
         Callback, InSend, NestedDispatch, NestedBlock, WorkerThrow, Destructor,
         DtorStop, DtorNotify, DtorJoin, DtorFlush, Spurious, SpuriousWorker,
         SpuriousFlush, Ended, routerVars, vars
    <2>5. CASE owner # "destroyed"
      BY <1>4, <2>1, <2>5 DEF Next, Calling, DispatchPush, Subscribe,
         Unsubscribe, FlushCall, Returning, DispatchNotify, FlushWait, FlushLock,
         FlushReturn, WorkerLoop, WorkerBlock, WorkerExit, WorkerTake,
         WorkerLock, WorkerSend, WorkerRouted, WorkerIdle, WorkerNotifyAll,
         Callback, NestedDispatch, NestedBlock, WorkerThrow, Destructor,
         DtorStop, DtorNotify, DtorJoin, Spurious, SpuriousWorker,
         SpuriousFlush, Ended, vars
    <2> QED BY <2>4, <2>5
  <1> QED BY <1>1, <1>3, <1>4

(***************************************************************************)
(* Wakeups.                                                                *)
(***************************************************************************)
LEMMA StepWakeup ==
  TypeOK /\ Control /\ NoLostWakeup /\ [Next]_vars => NoLostWakeup'
  <1> SUFFICES ASSUME TypeOK, Control, NoLostWakeup, [Next]_vars,
                      worker' = "blocked"
               PROVE  /\ queue' # <<>> =>
                            \E c \in Clients : client'[c] = "notify"
                      /\ stop' => owner' = "stopping"
    BY DEF NoLostWakeup
  <1>1. ASSUME NEW c \in Clients, NEW type \in Types, DispatchPush(c, type)
        PROVE  /\ client'[c] = "notify"
               /\ ~stop'
    BY <1>1 DEF DispatchPush, Call, Push, Control, StopOk, TypeOK
  <1>2. ASSUME NEW c \in Clients,
               \/ \E k \in Keys, ch \in Channels :
                      Subscribe(c, k, ch) \/ Unsubscribe(c, k, ch)
               \/ FlushCall(c) \/ FlushWait(c) \/ FlushLock(c) \/ FlushReturn(c)
               \/ SpuriousFlush(c)
        PROVE  /\ UNCHANGED <<queue, stop, owner, worker>>
               /\ \A d \in Clients : client[d] = "notify" => client'[d] = "notify"
    BY <1>2 DEF Subscribe, Unsubscribe, FlushCall, Call, FlushWait, FlushLock,
       FlushReturn, SpuriousFlush, At, Goto, TypeOK, queueVars, workerVars
  <1>3. ASSUME NEW c \in Clients PROVE ~DispatchNotify(c)
    BY DEF DispatchNotify
  <1>4. CASE WorkerBlock
    BY <1>4 DEF WorkerBlock, queueVars
  <1>5. worker' = worker \/ WorkerBlock
    BY DEF Next, Calling, DispatchPush, Subscribe, Unsubscribe, FlushCall,
       Returning, DispatchNotify, FlushWait, FlushLock, FlushReturn,
       WorkerLoop, WorkerBlock, WorkerExit, WorkerTake, WorkerLock, WorkerSend,
       WorkerRouted, WorkerIdle, WorkerNotifyAll, Callback, NestedDispatch,
       NestedBlock, WorkerThrow, Destructor, DtorStop, DtorNotify, DtorJoin,
       DtorFlush, Spurious, SpuriousWorker, SpuriousFlush, Ended,
       workerVars, vars
  <1>6. CASE worker' = worker /\ (WorkerLoop \/ Callback \/ Destructor
                                  \/ SpuriousWorker \/ UNCHANGED vars)
    BY <1>6 DEF WorkerLoop, WorkerBlock, WorkerExit, WorkerTake, WorkerLock,
       WorkerSend, WorkerRouted, WorkerIdle, WorkerNotifyAll, Callback, InSend,
       NestedDispatch, NestedBlock, WorkerThrow, Destructor, DtorStop, DtorNotify,
       DtorJoin, DtorFlush, SpuriousWorker, NoLostWakeup, Control, StopOk, ExitOk,
       queueVars, clientVars, vars
  <1>7. ASSUME UNCHANGED <<queue, stop, owner, worker>>,
               \A d \in Clients : client[d] = "notify" => client'[d] = "notify"
        PROVE  /\ queue' # <<>> =>
                     \E c \in Clients : client'[c] = "notify"
               /\ stop' => owner' = "stopping"
    BY <1>7 DEF NoLostWakeup
  <1> QED BY <1>1, <1>2, <1>3, <1>4, <1>5, <1>6, <1>7
          DEF Next, Calling, Returning, Spurious, Ended

\* A flush() falls asleep only on a queue that is not drained, and whoever drains
\* it has notify_all() still to come.
LEMMA StepDrain ==
  TypeOK /\ Control /\ Control' /\ NoLostDrain /\ [Next]_vars => NoLostDrain'
  <1> SUFFICES ASSUME TypeOK, Control, Control', NoLostDrain, [Next]_vars,
                      NEW d \in Clients, client'[d] = "flushBlocked", Drained'
               PROVE  worker' = "notify"
    BY DEF NoLostDrain
  <1>1. CASE client[d] = "flushBlocked" /\ Drained /\ worker' = worker
    BY <1>1 DEF NoLostDrain
  <1>2. ASSUME NEW type \in Types, Push(type) PROVE FALSE
    <2> DEFINE e == [id |-> Len(accepted) + 1, type |-> type]
    <2>1. e \in Envelope
      BY DEF TypeOK, Envelope
    <2>2. queue' = Append(queue, e)
      BY <1>2 DEF Push
    <2> HIDE DEF e
    <2>3. queue \in Seq(Envelope)
      BY DEF TypeOK
    <2>4. Len(Append(queue, e)) = Len(queue) + 1 /\ Len(queue) \in Nat
      BY <2>1, <2>3
    <2>5. Append(queue, e) # <<>>
      BY <2>4
    <2> QED BY <2>2, <2>5 DEF Drained
  <1>3. ASSUME NEW c \in Clients, Calling(c)
        PROVE client[d] = "flushBlocked" /\ Drained /\ worker' = worker
    BY <1>3, <1>2 DEF Calling, DispatchPush, Subscribe, Unsubscribe, FlushCall,
       Call, Drained, TypeOK, queueVars, workerVars
  <1>4. ASSUME NEW c \in Clients, Returning(c) \/ SpuriousFlush(c)
        PROVE client[d] = "flushBlocked" /\ Drained /\ worker # "blocked"
    <2>1. client[d] = "flushBlocked" /\ Drained
      BY <1>4 DEF Returning, DispatchNotify, FlushWait, FlushLock, FlushReturn,
         SpuriousFlush, At, Goto, Drained, TypeOK, queueVars
    <2> QED BY <2>1 DEF NoLostDrain
  <1>5. ASSUME NEW c \in Clients, Returning(c) \/ SpuriousFlush(c)
        PROVE worker' = worker
    BY <1>4, <1>5 DEF Returning, DispatchNotify, FlushWait, FlushLock, FlushReturn,
       SpuriousFlush, workerVars
  <1>6. CASE WorkerIdle
    BY <1>6 DEF WorkerIdle
  <1>7. CASE WorkerNotifyAll
    BY <1>7 DEF WorkerNotifyAll, TypeOK
  <1>8. CASE WorkerLoop /\ ~WorkerIdle /\ ~WorkerNotifyAll
    BY <1>8 DEF WorkerLoop, WorkerBlock, WorkerExit, WorkerTake, WorkerLock,
       WorkerSend, WorkerRouted, NoLostDrain, Drained, Control, BusyOk, queueVars,
       clientVars, workerVars
  <1>9. CASE Callback \/ Destructor \/ SpuriousWorker \/ UNCHANGED vars
    BY <1>9, <1>2 DEF Callback, NestedDispatch, NestedBlock, WorkerThrow, InSend,
       Destructor, DtorStop, DtorNotify, DtorJoin, DtorFlush, At, SpuriousWorker,
       Control, BusyOk, StopOk, NoLostDrain, Drained, Push, queueVars, clientVars,
       workerVars, vars
  <1> QED BY <1>1, <1>3, <1>4, <1>5, <1>6, <1>7, <1>8, <1>9
          DEF Next, Spurious, Ended

------------------------------------------------------------------------------
(* The invariant. *)

\* The inductive invariant holds when the dispatcher was just constructed ...
LEMMA InitInv == Init => IInv
  <1> SUFFICES ASSUME Init PROVE IInv
    OBVIOUS
  <1>1. TypeOK
    BY InitType
  <1>2. NothingLost
    BY ConcatEmptySeq, EmptySeq DEF Init, NothingLost
  <1>3. InHandOk /\ BusyOk /\ LockOk /\ StopOk /\ ExitOk
    BY DispatcherAssumption DEF Init, InHandOk, BusyOk, LockOk, StopOk, ExitOk,
       Worker, Nobody
  <1>4. MarkOk /\ FlushWaitsForAll /\ ShutdownComplete
    BY DEF Init, MarkOk, FlushWaitsForAll, ShutdownComplete
  <1>5. NoLostWakeup /\ NoLostDrain
    BY DEF Init, NoLostWakeup, NoLostDrain
  <1> QED BY <1>1, <1>2, <1>3, <1>4, <1>5 DEF IInv

\* ... and every step of any thread preserves it.
LEMMA StepInv == IInv /\ [Next]_vars => IInv'
  <1> SUFFICES ASSUME IInv, [Next]_vars PROVE IInv'
    OBVIOUS
  <1>1. TypeOK' /\ NothingLost' /\ Control'
    BY StepType, StepNothingLost, StepControl DEF IInv, Control
  <1>2. MarkOk' /\ FlushWaitsForAll'
    BY <1>1, StepMark, StepFlush DEF IInv, Control
  <1>3. ShutdownComplete' /\ NoLostWakeup' /\ NoLostDrain'
    BY <1>1, StepShutdown, StepWakeup, StepDrain DEF IInv, Control
  <1> QED BY <1>1, <1>2, <1>3 DEF IInv, Control

\* The inductive invariant holds whatever the constants are.
THEOREM Invariance == Spec => []IInv
  <1>1. Init => IInv
    BY InitInv
  <1>2. IInv /\ [Next]_vars => IInv'
    BY StepInv
  <1> QED BY <1>1, <1>2, PTL DEF Spec

\* Every variable keeps its type.
THEOREM TypeCorrect == Spec => []TypeOK
  <1>1. IInv => TypeOK
    BY DEF IInv
  <1> QED BY <1>1, Invariance, PTL

\* Envelopes go from dispatch() to route() in order, each exactly once.
THEOREM DeliveryInOrder == Spec => []NothingLost
  <1>1. IInv => NothingLost
    BY DEF IInv
  <1> QED BY <1>1, Invariance, PTL

\* When a flush() reaches the channels, all that was accepted before the call
\* has been routed.
THEOREM FlushGuarantee == Spec => []FlushWaitsForAll
  <1>1. IInv => FlushWaitsForAll
    BY DEF IInv
  <1> QED BY <1>1, Invariance, PTL

\* A destroyed dispatcher left no envelope behind and nothing in a channel.
THEOREM DestructionDrains == Spec => []ShutdownComplete
  <1>1. IInv => ShutdownComplete
    BY DEF IInv
  <1> QED BY <1>1, Invariance, PTL

\* No thread sleeps on a condition that already holds with no notify to come.
THEOREM WakeupsArrive == Spec => [](NoLostWakeup /\ NoLostDrain)
  <1>1. IInv => NoLostWakeup /\ NoLostDrain
    BY DEF IInv
  <1> QED BY <1>1, Invariance, PTL

\* send() and flush() of the channels never run at the same time.
THEOREM RouterSerialised == Spec => []RouterExclusive
  <1>1. IInv => RouterExclusive
    <2> SUFFICES ASSUME IInv PROVE RouterExclusive
      OBVIOUS
    <2>1. ASSUME NEW t \in InRouter PROVE routeOwner = t
      BY <2>1 DEF IInv, LockOk, InRouter
    <2> QED BY <2>1 DEF RouterExclusive
  <1> QED BY <1>1, Invariance, PTL

------------------------------------------------------------------------------
(* Refinement: each step is a step of OrderedDelivery or leaves it alone. *)

\* Reading the types off a sequence commutes with appending one envelope.
LEMMA TypesOfAppend ==
  ASSUME NEW s \in Seq(Envelope), NEW e \in Envelope
  PROVE  TypesOf(Append(s, e)) = Append(TypesOf(s), e.type)
  BY DEF TypesOf, Envelope

\* Forgetting the numbers of envelopes keeps how many there are, and their types.
LEMMA TypesOfLen ==
  ASSUME NEW s \in Seq(Envelope)
  PROVE  /\ TypesOf(s) \in Seq(Types)
         /\ Len(TypesOf(s)) = Len(s)
         /\ \A i \in 1..Len(s) : TypesOf(s)[i] = s[i].type
  <1>1. \A i \in 1..Len(s) : s[i] \in Envelope
    BY ElementOfSeq
  <1>2. /\ DOMAIN s = 1..Len(s)
        /\ Len(s) \in Nat
    OBVIOUS
  <1>3. /\ TypesOf(s) = [i \in 1..Len(s) |-> s[i].type]
        /\ \A i \in 1..Len(s) : s[i].type \in Types
    BY <1>1, <1>2 DEF TypesOf, Envelope
  <1>4. TypesOf(s) \in [1..Len(s) -> Types]
    BY <1>3
  <1>5. TypesOf(s) \in Seq(Types) /\ Len(TypesOf(s)) = Len(s)
    BY <1>2, <1>4
  <1> QED BY <1>3, <1>5

\* Accepting an envelope from a client or from a callback.
LEMMA PushAccepts ==
  ASSUME TypeOK, NEW type \in Types, Push(type), owner # "destroyed",
         owner' = owner, UNCHANGED <<routed, mark>>,
         \A c \in Clients : InFlush(c)' <=> InFlush(c)
  PROVE  Promise!Next
  <1> DEFINE e == [id |-> Len(accepted) + 1, type |-> type]
  <1>1. e \in Envelope /\ e.type = type
    BY DEF TypeOK, Envelope
  <1>2. accepted' = Append(accepted, e)
    BY DEF Push
  <1> HIDE DEF e
  <1>3. TypesOf(accepted)' = Append(TypesOf(accepted), type)
    BY <1>1, <1>2, TypesOfAppend DEF TypeOK, TypesOf
  <1>4. Promise!Accept(type)
    BY <1>3 DEF Promise!Accept, TypesOf
  <1> QED BY <1>4 DEF Promise!Next

\* The end of route() handles the oldest envelope that was not handled.
LEMMA RoutedHandles ==
  ASSUME TypeOK, Control, NothingLost, WorkerRouted
  PROVE  Promise!Next
  <1>1. Len(env) = 1 /\ env \in Seq(Envelope) /\ env[1] \in Envelope
    <2>1. Len(env) = 1
      BY DEF WorkerRouted, Control, InHandOk
    <2>2. env \in Seq(Envelope) /\ 1 \in 1..Len(env)
      BY <2>1 DEF TypeOK
    <2> QED BY <2>1, <2>2, ElementOfSeq
  <1> DEFINE e == env[1]
  <1>2. env = <<e>>
    <2>1. <<e>> \in Seq(Envelope) /\ Len(<<e>>) = 1 /\ <<e>>[1] = e
      BY <1>1
    <2>2. \A i \in 1..Len(env) : env[i] = <<e>>[i]
      BY <1>1, <2>1
    <2> QED BY <1>1, <2>1, <2>2, SeqEqual
  <1>r. routed \in Seq(Envelope) /\ queue \in Seq(Envelope) /\ e \in Envelope
    BY <1>1 DEF TypeOK
  <1>n. routed' = routed \o <<e>> /\ accepted = (routed \o <<e>>) \o queue
    BY <1>2 DEF WorkerRouted, NothingLost
  <1> HIDE DEF e
  <1>3. routed' = Append(routed, e)
    BY <1>r, <1>n
  <1>4. /\ Len(routed) + 1 <= Len(accepted)
        /\ accepted[Len(routed) + 1] = e
    BY <1>r, <1>n
  <1>5. TypesOf(routed)' = Append(TypesOf(routed), e.type)
    BY <1>r, <1>3, TypesOfAppend DEF TypesOf
  <1>6. /\ Len(TypesOf(routed)) = Len(routed)
        /\ Len(TypesOf(accepted)) = Len(accepted)
        /\ TypesOf(accepted)[Len(routed) + 1] = e.type
    <2>1. accepted \in Seq(Envelope) /\ Len(routed) \in Nat
      BY DEF TypeOK
    <2>2. Len(routed) + 1 \in 1..Len(accepted)
      BY <1>4, <2>1
    <2> QED BY <1>r, <1>4, <2>1, <2>2, TypesOfLen
  <1>7. owner # "destroyed" /\ owner' = owner
    BY DEF WorkerRouted, Control, ExitOk
  <1>8. UNCHANGED <<accepted, client, mark>>
    BY DEF WorkerRouted, queueVars, clientVars
  <1>9. Len(TypesOf(routed)) < Len(TypesOf(accepted))
    BY <1>r, <1>4, <1>6 DEF TypeOK
  <1>10. TypesOf(routed)' = Append(TypesOf(routed),
                                   TypesOf(accepted)[Len(TypesOf(routed)) + 1])
    BY <1>5, <1>6
  <1>11. Promise!Handle
    BY <1>7, <1>8, <1>9, <1>10 DEF Promise!Handle, TypesOf, InFlush
  <1> QED BY <1>11 DEF Promise!Next

\* A flush() call begins and ends a flush of OrderedDelivery.
LEMMA FlushCallBegins ==
  ASSUME TypeOK, NEW c \in Clients, FlushCall(c)
  PROVE  Promise!Next
  <1>1. Len(TypesOf(accepted)) = Len(accepted)
    BY TypesOfLen DEF TypeOK
  <1>2. /\ owner = "alive" /\ owner' = owner
        /\ UNCHANGED <<accepted, routed>>
        /\ ~InFlush(c)
        /\ client' = [client EXCEPT ![c] = "flush"]
        /\ mark' = [mark EXCEPT ![c] = Len(accepted)]
    BY DEF FlushCall, Call, InFlush, queueVars, workerVars
  <1>3. \A d \in Clients : IF d = c THEN InFlush(d)' /\ mark'[d] = Len(accepted)
                           ELSE (InFlush(d)' <=> InFlush(d)) /\ mark'[d] = mark[d]
    BY <1>2 DEF InFlush, TypeOK
  <1>4. [d \in Clients |-> IF InFlush(d)' THEN mark'[d] ELSE -1]
          = [[d \in Clients |-> IF InFlush(d) THEN mark[d] ELSE -1]
               EXCEPT ![c] = Len(accepted)]
    BY <1>3
  <1>5. Promise!BeginFlush(c)
    BY <1>1, <1>2, <1>4 DEF Promise!BeginFlush, Promise!NoFlush, TypesOf
  <1> QED BY <1>5 DEF Promise!Next

\* The return of flush() is the end of the promised flush.
LEMMA FlushReturnEnds ==
  ASSUME TypeOK, FlushWaitsForAll, NEW c \in Clients, FlushReturn(c)
  PROVE  Promise!Next
  <1>1. Len(TypesOf(routed)) = Len(routed)
    BY TypesOfLen DEF TypeOK
  <1>2. /\ owner' = owner
        /\ UNCHANGED <<accepted, routed, mark>>
        /\ client[c] = "flushing"
        /\ client' = [client EXCEPT ![c] = "idle"]
    BY DEF FlushReturn, At, Goto, queueVars, workerVars
  <1>3. \A d \in Clients : IF d = c THEN ~InFlush(d)'
                           ELSE InFlush(d)' <=> InFlush(d)
    BY <1>2 DEF InFlush, TypeOK
  <1>4. InFlush(c) /\ mark[c] <= Len(routed) /\ mark[c] \in Nat /\ Len(routed) \in Nat
    BY <1>2 DEF InFlush, FlushWaitsForAll, TypeOK
  <1>5. [d \in Clients |-> IF InFlush(d)' THEN mark'[d] ELSE -1]
          = [[d \in Clients |-> IF InFlush(d) THEN mark[d] ELSE -1]
               EXCEPT ![c] = -1]
    BY <1>2, <1>3
  <1>6. [d \in Clients |-> IF InFlush(d) THEN mark[d] ELSE -1][c] = mark[c]
    BY <1>4
  <1>7. mark[c] # -1 /\ Len(TypesOf(routed)) >= mark[c]
    BY <1>1, <1>4
  <1>8. Promise!EndFlush(c)
    BY <1>2, <1>5, <1>6, <1>7 DEF Promise!EndFlush, Promise!NoFlush, TypesOf
  <1> QED BY <1>8 DEF Promise!Next

\* The destructor's last flush closes OrderedDelivery.
LEMMA DtorFlushCloses ==
  ASSUME TypeOK, Control, ShutdownComplete, DtorFlush
  PROVE  Promise!Next
  <1>1. owner = "joined" /\ owner' = "destroyed"
    BY DEF DtorFlush
  <1>2. routed = accepted /\ \A c \in Clients : ~InFlush(c)
    BY <1>1 DEF Control, StopOk, ShutdownComplete, InFlush
  <1>3. UNCHANGED <<accepted, routed, client, mark>>
    BY DEF DtorFlush, queueVars, clientVars, workerVars
  <1>4. Promise!Close
    BY <1>1, <1>2, <1>3 DEF Promise!Close, Promise!NoFlush, TypesOf, InFlush
  <1> QED BY <1>4 DEF Promise!Next

\* What leaves the histories and the flushes in progress alone is a stutter.
LEMMA Stutter ==
  ASSUME UNCHANGED <<accepted, routed, mark>>,
         owner' = "destroyed" <=> owner = "destroyed",
         \A c \in Clients : InFlush(c)' <=> InFlush(c)
  PROVE  UNCHANGED Promise!vars
  BY DEF Promise!vars, TypesOf

\* Every step is a step of OrderedDelivery, or leaves what it promises unchanged.
LEMMA StepRefines == IInv /\ [Next]_vars => [Promise!Next]_(Promise!vars)
  <1> SUFFICES ASSUME IInv, [Next]_vars PROVE [Promise!Next]_(Promise!vars)
    OBVIOUS
  <1> USE DEF Control
  <1>0. TypeOK /\ Control /\ NothingLost /\ FlushWaitsForAll /\ ShutdownComplete
    BY DEF IInv
  <1>1. ASSUME NEW c \in Clients, NEW type \in Types, DispatchPush(c, type)
        PROVE Promise!Next
    <2>1. /\ Push(type) /\ owner = "alive" /\ owner' = owner
          /\ UNCHANGED <<routed, mark>>
      BY <1>1 DEF DispatchPush, Call, workerVars
    <2>2. \A d \in Clients : InFlush(d)' <=> InFlush(d)
      BY <1>0, <1>1 DEF DispatchPush, Call, InFlush, TypeOK
    <2> QED BY <1>0, <2>1, <2>2, PushAccepts
  <1>2. ASSUME NEW c \in Clients,
               \/ \E k \in Keys, ch \in Channels :
                      Subscribe(c, k, ch) \/ Unsubscribe(c, k, ch)
               \/ DispatchNotify(c) \/ FlushWait(c) \/ FlushLock(c)
               \/ SpuriousFlush(c)
        PROVE UNCHANGED Promise!vars
    <2>1. UNCHANGED <<accepted, routed, mark, owner>>
      BY <1>2 DEF Subscribe, Unsubscribe, DispatchNotify, FlushWait, FlushLock,
         SpuriousFlush, queueVars, workerVars
    <2>2. \A d \in Clients : InFlush(d)' <=> InFlush(d)
      BY <1>0, <1>2 DEF Subscribe, Unsubscribe, Call, DispatchNotify, FlushWait,
         FlushLock, SpuriousFlush, At, Goto, InFlush, TypeOK
    <2> QED BY <2>1, <2>2, Stutter
  <1>3. CASE \/ WorkerBlock \/ WorkerExit \/ WorkerTake \/ WorkerLock \/ WorkerIdle
             \/ \E k \in Keys, ch \in Channels : WorkerSend(k, ch)
             \/ NestedBlock \/ SpuriousWorker \/ UNCHANGED vars
    <2>1. UNCHANGED <<accepted, routed, mark, client, owner>>
      BY <1>3 DEF WorkerBlock, WorkerExit, WorkerTake, WorkerLock, WorkerIdle,
         WorkerSend, NestedBlock, SpuriousWorker, queueVars, clientVars,
         workerVars, vars
    <2> QED BY <2>1, Stutter DEF InFlush
  <1>4. CASE \/ \E k \in Keys, ch \in Channels : WorkerThrow(k, ch)
             \/ DtorStop \/ DtorNotify \/ DtorJoin
    <2>1. UNCHANGED <<accepted, routed, mark, client>>
      BY <1>4 DEF WorkerThrow, DtorStop, DtorNotify, DtorJoin, queueVars,
         clientVars, workerVars
    <2>2. owner # "destroyed" /\ owner' # "destroyed"
      BY <1>0, <1>4 DEF WorkerThrow, DtorStop, DtorNotify, DtorJoin, ExitOk
    <2> QED BY <2>1, <2>2, Stutter DEF InFlush
  <1>5. CASE WorkerNotifyAll
    <2>1. UNCHANGED <<accepted, routed, mark, owner>>
      BY <1>5 DEF WorkerNotifyAll, queueVars
    <2>2. \A d \in Clients : InFlush(d)' <=> InFlush(d)
      BY <1>0, <1>5 DEF WorkerNotifyAll, InFlush, TypeOK
    <2> QED BY <2>1, <2>2, Stutter
  <1>6. ASSUME NEW type \in Types, NestedDispatch(type) PROVE Promise!Next
    <2>1. /\ Push(type) /\ owner' = owner
          /\ UNCHANGED <<routed, mark, client>>
          /\ worker = "routing"
      BY <1>6 DEF NestedDispatch, InSend, clientVars, workerVars
    <2>2. owner # "destroyed"
      BY <1>0, <2>1 DEF ExitOk
    <2> QED BY <1>0, <2>1, <2>2, PushAccepts DEF InFlush
  <1> QED
    BY <1>0, <1>1, <1>2, <1>3, <1>4, <1>5, <1>6, FlushCallBegins, FlushReturnEnds,
       DtorFlushCloses, RoutedHandles
    DEF Next, Calling, Returning, WorkerLoop, Callback, Destructor, Spurious, Ended

\* A new dispatcher is an open one that has accepted nothing.
LEMMA InitRefines == Init => Promise!Init
  BY DEF Init, Promise!Init, Promise!NoFlush, TypesOf, InFlush

\* AsyncDispatcher keeps the promise of OrderedDelivery: in-order handling,
\* flush() as a barrier, and destruction only with nothing left.
THEOREM Refinement == Spec => Promise!Safety
  <1>1. Init => Promise!Init
    BY InitRefines
  <1>2. IInv /\ [Next]_vars => [Promise!Next]_(Promise!vars)
    BY StepRefines
  <1> QED BY <1>1, <1>2, Invariance, PTL DEF Spec, Promise!Safety
------------------------------------------------------------------------------
(* Copies: what route() sends is counted against the subscriptions.          *)

\* The sends that a table of counts still asks for on one channel.
Slots(table, ch) == UNION {{k} \X (1..table[k][ch]) : k \in Keys}

LEMMA SlotsFinite ==
  ASSUME NEW table \in [Keys -> [Channels -> Nat]], NEW ch \in Channels
  PROVE  IsFiniteSet(Slots(table, ch))
  <1> DEFINE f == [k \in Keys |-> {k} \X (1..table[k][ch])]
  <1> DEFINE T == {f[k] : k \in Keys}
  <1>1. IsFiniteSet(Keys)
    BY DispatcherAssumption
  <1>2. IsFiniteSet(T)
    <2>1. f \in Surjection(Keys, T)
      BY DEF Surjection
    <2> HIDE DEF f, T
    <2> QED BY <1>1, <2>1, FS_Surjection
  <1>3. ASSUME NEW S \in T PROVE IsFiniteSet(S)
    <2>1. PICK k \in Keys : S = {k} \X (1..table[k][ch])
      BY <1>3
    <2>2. IsFiniteSet({k})
      BY FS_Singleton
    <2>3. 1 \in Int /\ table[k][ch] \in Int
      OBVIOUS
    <2>4. IsFiniteSet(1..table[k][ch])
      BY <2>3, FS_Interval
    <2> QED BY <2>1, <2>2, <2>4, FS_Product
  <1>4. Slots(table, ch) = UNION T
    BY DEF Slots
  <1> HIDE DEF T, f
  <1>5. IsFiniteSet(UNION T)
    BY <1>2, <1>3, FS_UNION
  <1> QED BY <1>4, <1>5

\* One send less under one key, or on another channel.
LEMMA SlotSent ==
  ASSUME NEW table \in [Keys -> [Channels -> Nat]], NEW k \in Keys, NEW ch \in Channels,
         table[k][ch] > 0, NEW c \in Channels,
         NEW next,
         \A j \in Keys : next[j][c] = IF j = k /\ c = ch THEN table[k][ch] - 1 ELSE table[j][c]
  PROVE  /\ c = ch => Slots(next, c) = Slots(table, ch) \ {<<k, table[k][ch]>>}
         /\ c # ch => Slots(next, c) = Slots(table, c)
  <1>1. \A j \in Keys : next[j][c] = IF j = k /\ c = ch THEN table[k][ch] - 1 ELSE table[j][c]
    OBVIOUS
  <1>2. CASE c # ch
    BY <1>1, <1>2 DEF Slots
  <1>3. CASE c = ch
    <2> DEFINE n == table[k][ch]
    <2>1. n \in Nat /\ n > 0
      OBVIOUS
    <2>2. 1..(n - 1) = (1..n) \ {n}
      BY <2>1
    <2>3. \A j \in Keys : {j} \X (1..next[j][ch])
                           = ({j} \X (1..table[j][ch])) \ {<<k, n>>}
      <3>1. TAKE j \in Keys
      <3>2. CASE j = k
        BY <1>1, <1>3, <2>2, <3>2
      <3>3. CASE j # k
        BY <1>1, <1>3, <3>3
      <3> QED BY <3>2, <3>3
    <2> QED BY <1>3, <2>3 DEF Slots
  <1> QED BY <1>2, <1>3

\* Envelopes are numbered in the order in which they are accepted.
Numbered == \A i \in 1..Len(accepted) : accepted[i].id = i

Sending == worker \in {"routing", "stuck", "terminated"}

\* No channel was sent anything beyond the envelope in the worker's hands.
SentSoFar ==
  \A ch \in Channels : \A i \in 1..Len(inbox[ch]) :
    inbox[ch][i] <= Len(routed) + (IF Sending THEN 1 ELSE 0)

\* What was sent of the envelope and what is still to send make up its subscriptions.
CopiesOk ==
  worker = "routing" =>
    \A ch \in Channels :
      Cardinality(CopiesOf(ch, env[1].id)) + Cardinality(Slots(pending, ch))
        = Cardinality(Matching(ch, env[1].type))

CopiesInv == Numbered /\ SentSoFar /\ CopiesOk

LEMMA InHandIsNext ==
  ASSUME IInv, Numbered, worker \in {"taken", "routing"}
  PROVE  env \in Seq(Envelope) /\ Len(env) = 1 /\ env[1] \in Envelope /\ env[1].id = Len(routed) + 1
  <1>1. /\ routed \in Seq(Envelope) /\ env \in Seq(Envelope) /\ queue \in Seq(Envelope)
        /\ Len(env) = 1 /\ accepted = routed \o env \o queue
    BY DEF IInv, TypeOK, InHandOk, NothingLost
  <1>2. accepted[Len(routed) + 1] = env[1] /\ Len(routed) + 1 \in 1..Len(accepted)
    BY <1>1
  <1> QED BY <1>1, <1>2 DEF Numbered

LEMMA CopiesFinite ==
  ASSUME TypeOK, NEW ch \in Channels, NEW id
  PROVE  IsFiniteSet(CopiesOf(ch, id))
  <1>1. inbox[ch] \in Seq(Nat)
    BY DEF TypeOK
  <1>2. IsFiniteSet(1..Len(inbox[ch])) /\ CopiesOf(ch, id) \subseteq 1..Len(inbox[ch])
    BY <1>1, FS_Interval DEF CopiesOf
  <1> QED BY <1>2, FS_Subset

\* Nothing that is counted has changed.
LEMMA CopiesStay ==
  ASSUME TypeOK, CopiesInv, UNCHANGED <<inbox, routed>>,
         \/ UNCHANGED accepted
         \/ Numbered',
         Sending => Sending',
         worker' = "routing" => worker = "routing" /\ UNCHANGED <<env, pending, routes>>
  PROVE  CopiesInv'
  <1>1. Numbered'
    BY DEF CopiesInv, Numbered
  <1>2. SentSoFar'
    <2>1. SUFFICES ASSUME NEW ch \in Channels, NEW i \in 1..Len(inbox[ch])
                   PROVE  inbox[ch][i] <= Len(routed) + (IF Sending' THEN 1 ELSE 0)
      BY DEF SentSoFar
    <2>2. inbox[ch] \in Seq(Nat) /\ Len(routed) \in Nat /\ inbox[ch][i] \in Nat
      BY DEF TypeOK
    <2>3. inbox[ch][i] <= Len(routed) + (IF Sending THEN 1 ELSE 0)
      BY DEF CopiesInv, SentSoFar
    <2> QED BY <2>2, <2>3
  <1>3. CopiesOk'
    BY DEF CopiesInv, CopiesOk, CopiesOf, Matching, Slots
  <1> QED BY <1>1, <1>2, <1>3 DEF CopiesInv

LEMMA PushNumbers ==
  ASSUME TypeOK, Numbered, NEW type \in Types, Push(type)
  PROVE  Numbered'
  <1>1. accepted \in Seq(Envelope) /\ accepted' = Append(accepted, [id |-> Len(accepted) + 1, type |-> type])
    BY DEF TypeOK, Push
  <1> QED BY <1>1 DEF Numbered

\* route() begins: all the copies are still to send.
LEMMA LockCopies ==
  ASSUME IInv, IInv', CopiesInv, WorkerLock
  PROVE  CopiesInv'
  <1>0. TypeOK'
    BY DEF IInv
  <1>1. TypeOK /\ Numbered /\ SentSoFar
    BY DEF IInv, CopiesInv
  <1>2. /\ worker = "taken" /\ worker' = "routing" /\ pending' = SendsFor(env[1].type)
        /\ UNCHANGED <<inbox, routed, env, routes, accepted>>
    BY DEF WorkerLock, queueVars
  <1>3. Numbered' /\ SentSoFar'
    <2>1. Numbered'
      BY <1>1, <1>2 DEF Numbered
    <2>2. SUFFICES ASSUME NEW ch \in Channels, NEW i \in 1..Len(inbox[ch])
                   PROVE  inbox[ch][i] <= Len(routed) + 1
      BY <1>2, <2>1 DEF SentSoFar, Sending
    <2>3. inbox[ch] \in Seq(Nat) /\ Len(routed) \in Nat /\ inbox[ch][i] \in Nat
      BY <1>1 DEF TypeOK
    <2>4. inbox[ch][i] <= Len(routed) + (IF Sending THEN 1 ELSE 0)
      BY <1>1 DEF SentSoFar
    <2> QED BY <2>3, <2>4
  <1>4. env[1].id = Len(routed) + 1 /\ env[1] \in Envelope
    BY <1>1, <1>2, InHandIsNext
  <1>5. ASSUME NEW ch \in Channels
        PROVE  Cardinality(CopiesOf(ch, env[1].id)') + Cardinality(Slots(pending', ch))
                 = Cardinality(Matching(ch, env[1].type)')
    <2>1. CopiesOf(ch, env[1].id)' = {}
      <3>0. inbox[ch] \in Seq(Nat)
        BY <1>1 DEF TypeOK
      <3>1. SUFFICES ASSUME NEW i \in 1..Len(inbox[ch]), inbox[ch][i] = Len(routed) + 1 PROVE FALSE
        BY <1>2, <1>4, <3>0 DEF CopiesOf
      <3>2. inbox[ch][i] <= Len(routed) + 0
        BY <1>1, <1>2 DEF SentSoFar, Sending
      <3>3. Len(routed) \in Nat
        BY <1>1 DEF TypeOK
      <3> QED BY <3>1, <3>2, <3>3
    <2>2. Slots(pending', ch) = Matching(ch, env[1].type)'
      <3> DEFINE type == env[1].type
      <3>1. Matches[type] \subseteq Keys
        BY <1>4, DispatcherAssumption DEF Envelope
      <3>2. \A k \in Keys : pending'[k][ch] = IF k \in Matches[type] THEN routes[k][ch] ELSE 0
        <4>1. ASSUME NEW k \in Keys PROVE pending'[k] = IF k \in Matches[type] THEN routes[k] ELSE NoCopies
          BY <1>2 DEF SendsFor
        <4> QED BY <4>1 DEF NoCopies
      <3>3. Matching(ch, type)' = UNION {{k} \X (1..routes[k][ch]) : k \in Matches[type]}
        BY <1>2 DEF Matching
      <3>4. \A k \in Keys \ Matches[type] : {k} \X (1..pending'[k][ch]) = {}
        BY <3>2
      <3>5. \A k \in Matches[type] : {k} \X (1..pending'[k][ch]) = {k} \X (1..routes[k][ch])
        BY <3>1, <3>2
      <3> HIDE DEF type
      <3>6. Slots(pending', ch) = UNION {{k} \X (1..pending'[k][ch]) : k \in Matches[type]}
        BY <3>1, <3>4 DEF Slots
      <3> QED BY <3>3, <3>5, <3>6 DEF type
    <2>3. Cardinality(Slots(pending', ch)) \in Nat
      <3>1. IsFiniteSet(Slots(pending', ch))
        BY <1>0, SlotsFinite DEF TypeOK
      <3> QED BY <3>1, FS_CardinalityType
    <2> QED BY <2>1, <2>2, <2>3, FS_EmptySet
  <1> QED BY <1>2, <1>3, <1>5 DEF CopiesInv, CopiesOk
\* One copy more on the channel, one send less to make.
LEMMA SendCopies ==
  ASSUME IInv, CopiesInv, NEW k \in Keys, NEW ch \in Channels, WorkerSend(k, ch)
  PROVE  CopiesInv'
  <1> DEFINE id == env[1].id
  <1> DEFINE q == inbox[ch]
  <1>1. TypeOK /\ Numbered /\ SentSoFar /\ CopiesOk
    BY DEF IInv, CopiesInv
  <1>2. /\ worker = "routing" /\ worker' = "routing" /\ pending[k][ch] > 0
        /\ pending' = [pending EXCEPT ![k][ch] = pending[k][ch] - 1]
        /\ inbox' = [inbox EXCEPT ![ch] = Append(q, id)]
        /\ UNCHANGED <<routed, env, routes, accepted>>
    BY DEF WorkerSend, queueVars, workerVars
  <1>3. id = Len(routed) + 1 /\ Len(routed) \in Nat
    BY <1>1, <1>2, InHandIsNext DEF TypeOK
  <1>4. q \in Seq(Nat) /\ inbox'[ch] = Append(q, id) /\ \A c \in Channels \ {ch} : inbox'[c] = inbox[c]
    BY <1>1, <1>2 DEF TypeOK
  <1>5. Numbered'
    BY <1>1, <1>2 DEF Numbered
  <1> HIDE DEF id
  <1>6. SentSoFar'
    <2>1. SUFFICES ASSUME NEW c \in Channels, NEW i \in 1..Len(inbox'[c])
                   PROVE  inbox'[c][i] <= Len(routed) + 1
      BY <1>2 DEF SentSoFar, Sending
    <2>2. \A i2 \in 1..Len(inbox[c]) : inbox[c][i2] <= Len(routed) + 1
      BY <1>1, <1>2 DEF SentSoFar, Sending
    <2>3. CASE c = ch
      <3>1. \/ i = Len(q) + 1 /\ inbox'[c][i] = id
            \/ i \in 1..Len(q) /\ inbox'[c][i] = q[i]
        <4>1. /\ Append(q, id)[Len(q) + 1] = id /\ Len(Append(q, id)) = Len(q) + 1
              /\ \A j \in 1..Len(q) : Append(q, id)[j] = q[j]
          BY <1>4
        <4>2. i \in 1..(Len(q) + 1) /\ Len(q) \in Nat
          BY <1>4, <2>1, <2>3, <4>1
        <4> HIDE DEF q
        <4> QED BY <1>4, <2>3, <4>1, <4>2
      <3> QED BY <1>3, <2>2, <2>3, <3>1
    <2>4. CASE c # ch
      BY <1>4, <2>1, <2>2, <2>4
    <2> QED BY <2>3, <2>4
  <1>7. ASSUME NEW c \in Channels
        PROVE  Cardinality(CopiesOf(c, id)') + Cardinality(Slots(pending', c))
                 = Cardinality(CopiesOf(c, id)) + Cardinality(Slots(pending, c))
    <2>1. pending \in [Keys -> [Channels -> Nat]]
      BY <1>1 DEF TypeOK
    <2>4. /\ c = ch => Slots(pending', c) = Slots(pending, ch) \ {<<k, pending[k][ch]>>}
          /\ c # ch => Slots(pending', c) = Slots(pending, c)
      <3>1. pending[k][ch] > 0
            /\ \A j \in Keys : pending'[j][c] =
                  IF j = k /\ c = ch THEN pending[k][ch] - 1 ELSE pending[j][c]
        BY <1>2, <2>1
      <3> QED BY <2>1, <3>1, SlotSent
    <2>2. CASE c # ch
      <3>1. CopiesOf(c, id)' = CopiesOf(c, id)
        <4>1. inbox'[c] = inbox[c] /\ id' = id
          BY <1>2, <1>4, <2>2 DEF id
        <4> QED BY <4>1 DEF CopiesOf
      <3>2. Slots(pending', c) = Slots(pending, c)
        BY <2>2, <2>4
      <3> QED BY <3>1, <3>2
    <2>3. CASE c = ch
      <3> DEFINE old == CopiesOf(ch, id)
      <3> DEFINE slot == <<k, pending[k][ch]>>
      <3>1. CopiesOf(ch, id)' = old \cup {Len(q) + 1}
        <4>1. CopiesOf(ch, id)' = {i \in 1..(Len(q) + 1) : inbox'[ch][i] = id}
          <5>1. DOMAIN inbox'[ch] = 1..(Len(q) + 1) /\ id' = id
            BY <1>2, <1>4 DEF id
          <5> HIDE DEF q
          <5> QED BY <5>1 DEF CopiesOf
        <4>2. old = {i \in 1..Len(q) : q[i] = id}
          BY <1>4 DEF CopiesOf
        <4>3. inbox'[ch][Len(q) + 1] = id /\ \A i \in 1..Len(q) : inbox'[ch][i] = q[i]
          BY <1>3, <1>4
        <4>4. Len(q) \in Nat
          BY <1>4
        <4> HIDE DEF old
        <4> QED BY <4>1, <4>2, <4>3, <4>4
      <3>2. Len(q) + 1 \notin old
        BY <1>4 DEF CopiesOf
      <3>3. IsFiniteSet(old)
        BY <1>1, CopiesFinite
      <3>4. Slots(pending', ch) = Slots(pending, ch) \ {slot}
        BY <2>3, <2>4
      <3>5. slot \in Slots(pending, ch)
        BY <1>2, <2>1 DEF Slots
      <3>6. IsFiniteSet(Slots(pending, ch))
        BY <2>1, SlotsFinite
      <3> HIDE DEF old, slot
      <3>7. Cardinality(old \cup {Len(q) + 1}) = Cardinality(old) + 1 /\ Cardinality(old) \in Nat
        BY <3>2, <3>3, FS_AddElement, FS_CardinalityType
      <3>8. Cardinality(Slots(pending, ch) \ {slot}) = Cardinality(Slots(pending, ch)) - 1
            /\ Cardinality(Slots(pending, ch)) \in Nat
        BY <3>5, <3>6, FS_RemoveElement, FS_CardinalityType
      <3>9. Cardinality(CopiesOf(ch, id)') + Cardinality(Slots(pending', ch))
              = Cardinality(old) + Cardinality(Slots(pending, ch))
        BY <3>1, <3>4, <3>7, <3>8
      <3> QED BY <2>3, <3>9 DEF old
    <2> QED BY <2>2, <2>3
  <1>8. CopiesOk'
    <2>1. \A c \in Channels : Matching(c, env[1].type)' = Matching(c, env[1].type)
      BY <1>2 DEF Matching
    <2>2. \A c \in Channels :
            Cardinality(CopiesOf(c, id)) + Cardinality(Slots(pending, c)) = Cardinality(Matching(c, env[1].type))
      BY <1>1, <1>2 DEF CopiesOk, id
    <2> QED BY <1>2, <1>7, <2>1, <2>2 DEF CopiesOk, id
  <1> QED BY <1>5, <1>6, <1>8 DEF CopiesInv

\* route() returns: nothing is left to send.
LEMMA RoutedCopies ==
  ASSUME IInv, CopiesInv, WorkerRouted
  PROVE  /\ CopiesInv'
         /\ \A ch \in Channels :
              Cardinality(CopiesOf(ch, env[1].id)) = Cardinality(Matching(ch, env[1].type))
  <1>1. TypeOK /\ Numbered /\ SentSoFar /\ CopiesOk
    BY DEF IInv, CopiesInv
  <1>2. /\ worker = "routing" /\ worker' = "routed" /\ pending = NoSends
        /\ routed' = routed \o env /\ UNCHANGED <<inbox, accepted>>
    BY DEF WorkerRouted, queueVars
  <1>3. env \in Seq(Envelope) /\ Len(env) = 1 /\ routed \in Seq(Envelope)
    BY <1>1, <1>2, InHandIsNext DEF TypeOK
  <1>4. Len(routed') = Len(routed) + 1
    <2>1. Len(routed \o env) = Len(routed) + Len(env)
      BY <1>3, ConcatProperties
    <2> QED BY <1>2, <1>3, <2>1
  <1>5. Numbered' /\ SentSoFar' /\ CopiesOk'
    BY <1>1, <1>2, <1>4 DEF Numbered, SentSoFar, Sending, CopiesOk
  <1>6. ASSUME NEW ch \in Channels
        PROVE  Cardinality(CopiesOf(ch, env[1].id)) = Cardinality(Matching(ch, env[1].type))
    <2>1. Slots(pending, ch) = {}
      BY <1>2 DEF Slots, NoSends, NoCopies
    <2>2. Cardinality(CopiesOf(ch, env[1].id)) \in Nat
      BY <1>1, CopiesFinite, FS_CardinalityType
    <2>3. Cardinality(CopiesOf(ch, env[1].id)) + Cardinality(Slots(pending, ch))
            = Cardinality(Matching(ch, env[1].type))
      BY <1>1, <1>2 DEF CopiesOk
    <2> QED BY <2>1, <2>2, <2>3, FS_EmptySet
  <1> QED BY <1>5, <1>6 DEF CopiesInv
LEMMA InitCopies == Init => CopiesInv
  BY DEF Init, CopiesInv, Numbered, SentSoFar, CopiesOk

\* The route mutex keeps the table still while the worker is inside route().
LEMMA StepCopies ==
  IInv /\ IInv' /\ CopiesInv /\ [Next]_vars =>
    /\ CopiesInv'
    /\ Len(routed') > Len(routed) =>
         \A ch \in Channels :
           Cardinality(CopiesOf(ch, env[1].id)) = Cardinality(Matching(ch, env[1].type))
  <1> SUFFICES ASSUME IInv, IInv', CopiesInv, [Next]_vars
               PROVE  /\ CopiesInv'
                      /\ ~UNCHANGED routed =>
                           \A ch \in Channels :
                             Cardinality(CopiesOf(ch, env[1].id))
                               = Cardinality(Matching(ch, env[1].type))
    <2>1. Len(routed) \in Nat
      BY DEF IInv, TypeOK
    <2> QED BY <2>1
  <1>1. TypeOK /\ LockOk /\ Numbered
    BY DEF IInv, CopiesInv
  <1>2. ASSUME NEW type \in Types, Push(type),
               UNCHANGED <<routerVars, workerVars>>
        PROVE CopiesInv' /\ UNCHANGED routed
    <2>1. Numbered'
      BY <1>1, <1>2, PushNumbers
    <2> QED BY <1>1, <1>2, <2>1, CopiesStay DEF routerVars, workerVars, Sending
  <1>3. ASSUME UNCHANGED <<accepted, inbox, pending, routes, routed, env>>,
               worker' = worker \/ (worker' \notin {"routing"} /\ ~Sending)
                 \/ (worker = "routing" /\ worker' \in {"stuck", "terminated"})
        PROVE CopiesInv' /\ UNCHANGED routed
    BY <1>1, <1>3, CopiesStay DEF Sending
  <1>4. ASSUME NEW c \in Clients, Calling(c) PROVE CopiesInv' /\ UNCHANGED routed
    <2>1. ASSUME NEW type \in Types, DispatchPush(c, type)
          PROVE CopiesInv' /\ UNCHANGED routed
      BY <1>2, <2>1 DEF DispatchPush
    <2>2. ASSUME NEW k \in Keys, NEW ch \in Channels,
                 Subscribe(c, k, ch) \/ Unsubscribe(c, k, ch)
          PROVE CopiesInv' /\ UNCHANGED routed
      <3>1. routeOwner = Nobody /\ UNCHANGED <<accepted, inbox, routed, worker>>
        BY <2>2 DEF Subscribe, Unsubscribe, queueVars, workerVars
      <3>2. ~Sending
        BY <1>1, <3>1 DEF LockOk, Sending, Nobody, Worker
      <3> QED BY <1>1, <3>1, <3>2, CopiesStay DEF Sending
    <2>3. ASSUME FlushCall(c) PROVE CopiesInv' /\ UNCHANGED routed
      BY <1>3, <2>3 DEF FlushCall, queueVars, routerVars, workerVars
    <2> QED BY <1>4, <2>1, <2>2, <2>3 DEF Calling
  <1>5. ASSUME NEW c \in Clients, Returning(c) PROVE CopiesInv' /\ UNCHANGED routed
    BY <1>3, <1>5 DEF Returning, DispatchNotify, FlushWait, FlushLock, FlushReturn,
       queueVars, routerVars, workerVars, Sending
  <1>6. ASSUME NEW k \in Keys, NEW ch \in Channels, WorkerSend(k, ch)
        PROVE CopiesInv' /\ UNCHANGED routed
    BY <1>6, SendCopies DEF WorkerSend, workerVars
  <1>7. CASE WorkerLock
    BY <1>7, LockCopies DEF WorkerLock
  <1>8. CASE WorkerRouted
    BY <1>8, RoutedCopies
  <1>9. ASSUME WorkerBlock \/ WorkerExit \/ WorkerIdle \/ WorkerNotifyAll
        PROVE CopiesInv' /\ UNCHANGED routed
    BY <1>3, <1>9 DEF WorkerBlock, WorkerExit, WorkerIdle, WorkerNotifyAll,
       queueVars, routerVars, workerVars, Sending
  <1>10. CASE WorkerTake
    <2>1. UNCHANGED <<accepted, inbox, routed>> /\ worker' = "taken" /\ ~Sending
      BY <1>10 DEF WorkerTake, routerVars, Sending
    <2> QED BY <1>1, <2>1, CopiesStay
  <1>11. ASSUME Callback PROVE CopiesInv' /\ UNCHANGED routed
    <2>1. ASSUME NEW type \in Types, NestedDispatch(type)
          PROVE CopiesInv' /\ UNCHANGED routed
      BY <1>2, <2>1 DEF NestedDispatch
    <2>2. ASSUME NestedBlock PROVE CopiesInv' /\ UNCHANGED routed
      BY <1>3, <2>2 DEF NestedBlock, InSend, queueVars, routerVars, workerVars
    <2>3. ASSUME NEW k \in Keys, NEW ch \in Channels, WorkerThrow(k, ch)
          PROVE CopiesInv' /\ UNCHANGED routed
      BY <1>3, <2>3 DEF WorkerThrow, queueVars, routerVars
    <2> QED BY <1>11, <2>1, <2>2, <2>3 DEF Callback
  <1>12. ASSUME Destructor \/ Spurious \/ UNCHANGED vars
         PROVE CopiesInv' /\ UNCHANGED routed
    BY <1>3, <1>12 DEF Destructor, DtorStop, DtorNotify, DtorJoin, DtorFlush,
       Spurious, SpuriousWorker, SpuriousFlush, vars, queueVars, routerVars,
       workerVars, Sending
  <1> QED BY <1>4, <1>5, <1>6, <1>7, <1>8, <1>9, <1>10, <1>11, <1>12
             DEF Next, WorkerLoop, Ended

(* When route() ends, every channel holds of the envelope one copy for each   *)
(* subscription that matches its type, whoever subscribes, unsubscribes or    *)
(* dispatches meanwhile (SyncRouter::route under _route_mutex).               *)
THEOREM CopiesMatchSubscriptions == Spec => OneCopyPerSubscription
  <1>1. Init => CopiesInv
    BY InitCopies
  <1>2. IInv /\ IInv' /\ CopiesInv /\ [Next]_vars => CopiesInv'
    BY StepCopies
  <1>3. IInv /\ IInv' /\ CopiesInv /\ [Next]_vars =>
          [Len(routed') > Len(routed) =>
             \A ch \in Channels :
               Cardinality(CopiesOf(ch, env[1].id))
                 = Cardinality(Matching(ch, env[1].type))]_vars
    BY StepCopies
  <1> QED BY <1>1, <1>2, <1>3, Invariance, PTL DEF Spec, OneCopyPerSubscription
==============================================================================
