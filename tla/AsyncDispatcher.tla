--------------------------- MODULE AsyncDispatcher ---------------------------
(***************************************************************************)
(* gmDispatch::AsyncDispatcher: client threads put envelopes on a queue, a *)
(* worker thread takes them off and routes them to channels, flush() waits *)
(* for the queue to drain, and the destructor stops and joins the worker.  *)
(*                                                                         *)
(* A critical section of _queue_mutex is one step: nothing inside blocks.  *)
(* _route_mutex is held while channels run, so it has an owner.  Waiting   *)
(* on a condition variable takes a thread out of the running until it is   *)
(* notified, or woken for no reason.  The router is any IRouter: how many  *)
(* times a channel is subscribed under a key, and which keys match a type. *)
(***************************************************************************)
EXTENDS Integers, Sequences, FiniteSets

CONSTANTS
    Clients,        \* threads that call the dispatcher
    Types,          \* values of Envelope::typeId
    Keys,           \* subscription keys: an exact typeId, a pattern or "*"
    Matches,        \* Matches[type]: the keys the router matches with type
    Channels,       \* IChannel objects
    Reentrant,      \* calls that a send() callback makes on the dispatcher
    Failing,        \* channels whose send() may throw (IpSocketChannel)
    MaxCalls,       \* bound: calls made by one client
    MaxAccepted,    \* bound: envelopes accepted, nested dispatches included
    MaxCopies       \* bound: subscriptions of one channel under one key

ASSUME DispatcherAssumption ==
    /\ IsFiniteSet(Keys) /\ Matches \in [Types -> SUBSET Keys]
    /\ Reentrant \subseteq {"dispatch", "subscribe", "flush"}
    /\ Failing \subseteq Channels
    /\ MaxCalls \in Nat
    /\ MaxAccepted \in Nat
    /\ MaxCopies \in Nat
    /\ Clients \cap {"worker", "owner", "nobody"} = {}

VARIABLES
    queue,          \* _queue
    busy,           \* _worker_busy
    stop,           \* _stop
    routes,         \* the router's table: copies[k][ch]
    routeOwner,     \* holder of _route_mutex
    worker,         \* where worker_loop() is
    env,            \* the envelope in the worker's hands, as a sequence
    pending,        \* sends route() has still to make, by key and channel
    client,         \* where each client is
    calls,          \* calls each client has made
    owner,          \* where the destructor is
    accepted,       \* history: envelopes pushed, in order
    routed,         \* history: envelopes routed, in order
    mark,           \* history: envelopes accepted when a flush() was called
    inbox,          \* history: envelopes sent to each channel, by number
    buffered        \* envelopes sent to each channel since its last flush()

queueVars == <<queue, busy, stop, accepted>>
routerVars == <<routes, routeOwner, pending, inbox, buffered>>
clientVars == <<client, calls, mark>>
workerVars == <<worker, env, routed>>
vars == <<queueVars, routerVars, clientVars, workerVars, owner>>

------------------------------------------------------------------------------
(* Data.  An envelope is the number it was accepted under and its typeId. *)

Envelope == [id : Nat \ {0}, type : Types]

Worker == "worker"
Nobody == "nobody"

NoCopies == [ch \in Channels |-> 0]
NoSends == [k \in Keys |-> NoCopies]

\* The sends of one route(): a channel is sent the envelope once for each of
\* its subscriptions under a key that matches, in an order left open.
SendsFor(type) ==
    [k \in Keys |-> IF k \in Matches[type] THEN routes[k] ELSE NoCopies]

Subscribed == {ch \in Channels : \E k \in Keys : routes[k][ch] > 0}

\* IRouter::flush(): every channel in the table, each once.
RouterFlush ==
    buffered' = [ch \in Channels |->
                    IF ch \in Subscribed THEN {} ELSE buffered[ch]]

\* Mutant of Push: the newest envelope overtakes the queue.
PushFront(type) ==
    LET e == [id |-> Len(accepted) + 1, type |-> type]
    IN  /\ Len(accepted) < MaxAccepted
        /\ queue' = <<e>> \o queue
        /\ accepted' = Append(accepted, e)
        /\ UNCHANGED <<busy, stop>>

\* The queue push shared by dispatch() from a client and from a callback.
Push(type) ==
    LET e == [id |-> Len(accepted) + 1, type |-> type]
    IN  /\ Len(accepted) < MaxAccepted
        /\ queue' = Append(queue, e)
        /\ accepted' = Append(accepted, e)
        /\ UNCHANGED <<busy, stop>>

------------------------------------------------------------------------------
Init ==
    /\ queue = <<>>
    /\ busy = FALSE
    /\ stop = FALSE
    /\ routes = NoSends
    /\ routeOwner = Nobody
    /\ worker = "check"
    /\ env = <<>>
    /\ pending = NoSends
    /\ client = [c \in Clients |-> "idle"]
    /\ calls = [c \in Clients |-> 0]
    /\ owner = "alive"
    /\ accepted = <<>>
    /\ routed = <<>>
    /\ mark = [c \in Clients |-> 0]
    /\ inbox = [ch \in Channels |-> <<>>]
    /\ buffered = [ch \in Channels |-> {}]

------------------------------------------------------------------------------
(* Client threads.  A call starts only while the object is alive. *)

Call(c, pc) ==
    /\ owner = "alive"
    /\ client[c] = "idle"
    /\ calls[c] < MaxCalls
    /\ calls' = [calls EXCEPT ![c] = @ + 1]
    /\ client' = [client EXCEPT ![c] = pc]

\* A thread runs on from pc, unless std::terminate() ended them all.
At(c, pc) == client[c] = pc /\ owner # "terminated"
Goto(c, pc) == client' = [client EXCEPT ![c] = pc]

\* dispatch(): push under _queue_mutex ...
DispatchPush(c, type) ==
    /\ Call(c, "notify")
    /\ Push(type)
    /\ UNCHANGED <<routerVars, mark, workerVars, owner>>

\* Mutant of DispatchNotify: the notify is forgotten.
DispatchNoNotify(c) ==
    /\ At(c, "notify")
    /\ Goto(c, "idle")
    /\ UNCHANGED <<queueVars, routerVars, calls, mark, workerVars, owner>>

\* ... then _queue_cv.notify_one() without it; only the worker waits there.
DispatchNotify(c) ==
    /\ At(c, "notify")
    /\ Goto(c, "idle")
    /\ worker' = IF worker = "blocked" THEN "check" ELSE worker
    /\ UNCHANGED <<queueVars, routerVars, calls, mark, env, routed, owner>>

\* subscribe() and unsubscribe() hold _route_mutex for one table update.
Subscribe(c, k, ch) ==
    /\ Call(c, "idle")
    /\ routeOwner = Nobody
    /\ routes[k][ch] < MaxCopies
    /\ routes' = [routes EXCEPT ![k][ch] = @ + 1]
    /\ UNCHANGED <<queueVars, routeOwner, pending, inbox, buffered, mark,
                   workerVars, owner>>

\* Mutant of Unsubscribe: the route mutex is not taken.
UnsubscribeUnlocked(c, k, ch) ==
    /\ Call(c, "idle")
    /\ routes' = [routes EXCEPT ![k][ch] = 0]
    /\ UNCHANGED <<queueVars, routeOwner, pending, inbox, buffered, mark,
                   workerVars, owner>>

\* std::remove drops every occurrence of the channel under the key.
Unsubscribe(c, k, ch) ==
    /\ Call(c, "idle")
    /\ routeOwner = Nobody
    /\ routes' = [routes EXCEPT ![k][ch] = 0]
    /\ UNCHANGED <<queueVars, routeOwner, pending, inbox, buffered, mark,
                   workerVars, owner>>

\* flush() is called.
FlushCall(c) ==
    /\ Call(c, "flush")
    /\ mark' = [mark EXCEPT ![c] = Len(accepted)]
    /\ UNCHANGED <<queueVars, routerVars, workerVars, owner>>

\* Mutant of Drained: the envelope in the worker's hands is overlooked.
QueueEmpty == queue = <<>>

\* The predicate of _drain_cv.wait().
Drained == queue = <<>> /\ ~busy

\* _drain_cv.wait(): go on when drained, else give up the lock and sleep.
FlushWait(c) ==
    /\ At(c, "flush")
    /\ Goto(c, IF Drained THEN "flushRouter" ELSE "flushBlocked")
    /\ UNCHANGED <<queueVars, routerVars, calls, mark, workerVars, owner>>

FlushLock(c) ==
    /\ At(c, "flushRouter")
    /\ routeOwner = Nobody
    /\ routeOwner' = c
    /\ Goto(c, "flushing")
    /\ UNCHANGED <<queueVars, routes, pending, inbox, buffered, calls, mark,
                   workerVars, owner>>

FlushReturn(c) ==
    /\ At(c, "flushing")
    /\ RouterFlush
    /\ routeOwner' = Nobody
    /\ Goto(c, "idle")
    /\ UNCHANGED <<queueVars, routes, pending, inbox, calls, mark,
                   workerVars, owner>>

------------------------------------------------------------------------------
(* The worker thread. *)

\* _queue_cv.wait(): nothing to do, so sleep.
WorkerBlock ==
    /\ worker = "check"
    /\ queue = <<>> /\ ~stop
    /\ worker' = "blocked"
    /\ UNCHANGED <<queueVars, routerVars, clientVars, env, routed, owner>>

\* Mutant of WorkerExit: stop at once, whatever is queued.
WorkerExitNow ==
    /\ worker = "check"
    /\ stop
    /\ worker' = "done"
    /\ UNCHANGED <<queueVars, routerVars, clientVars, env, routed, owner>>

\* Told to stop, and the queue is empty: leave the loop.
WorkerExit ==
    /\ worker = "check"
    /\ queue = <<>> /\ stop
    /\ worker' = "done"
    /\ UNCHANGED <<queueVars, routerVars, clientVars, env, routed, owner>>

\* Take the front envelope; _worker_busy covers it until it is routed.
WorkerTake ==
    /\ worker = "check"
    /\ queue # <<>>
    /\ env' = <<Head(queue)>>
    /\ queue' = Tail(queue)
    /\ busy' = TRUE
    /\ worker' = "taken"
    /\ UNCHANGED <<stop, accepted, routerVars, clientVars, routed, owner>>

WorkerLock ==
    /\ worker = "taken"
    /\ routeOwner = Nobody
    /\ routeOwner' = Worker
    /\ pending' = SendsFor(env[1].type)
    /\ worker' = "routing"
    /\ UNCHANGED <<queueVars, routes, inbox, buffered, clientVars, env, routed,
                   owner>>

\* One IChannel::send().
WorkerSend(k, ch) ==
    /\ worker = "routing"
    /\ pending[k][ch] > 0
    /\ pending' = [pending EXCEPT ![k][ch] = @ - 1]
    /\ inbox' = [inbox EXCEPT ![ch] = Append(@, env[1].id)]
    /\ buffered' = [buffered EXCEPT ![ch] = @ \cup {env[1].id}]
    /\ UNCHANGED <<queueVars, routes, routeOwner, clientVars, workerVars, owner>>

\* route() returns and the lock on _route_mutex ends.
WorkerRouted ==
    /\ worker = "routing"
    /\ pending = NoSends
    /\ routed' = routed \o env
    /\ env' = <<>>
    /\ routeOwner' = Nobody
    /\ worker' = "routed"
    /\ UNCHANGED <<queueVars, routes, pending, inbox, buffered, clientVars,
                   owner>>

WorkerIdle ==
    /\ worker = "routed"
    /\ busy' = FALSE
    /\ worker' = "notify"
    /\ UNCHANGED <<queue, stop, accepted, routerVars, clientVars, env, routed,
                   owner>>

\* Mutant of WorkerNotifyAll: nobody is told.
WorkerNoNotify ==
    /\ worker = "notify"
    /\ worker' = "check"
    /\ UNCHANGED <<queueVars, routerVars, clientVars, env, routed, owner>>

\* _drain_cv.notify_all(): every sleeping flush() looks again.
WorkerNotifyAll ==
    /\ worker = "notify"
    /\ client' = [c \in Clients |->
                    IF client[c] = "flushBlocked" THEN "flush" ELSE client[c]]
    /\ worker' = "check"
    /\ UNCHANGED <<queueVars, routerVars, calls, mark, env, routed, owner>>

------------------------------------------------------------------------------
(* What a channel's send() may do besides delivering: call the dispatcher   *)
(* it runs in, or throw.                                                    *)

InSend == worker = "routing" /\ pending # SendsFor(env[1].type)

\* dispatch() needs _queue_mutex only, which the worker does not hold here,
\* and notifies _queue_cv, where nobody can wait but the worker.
NestedDispatch(type) ==
    /\ "dispatch" \in Reentrant
    /\ InSend
    /\ Push(type)
    /\ UNCHANGED <<routerVars, clientVars, workerVars, owner>>

\* subscribe() and unsubscribe() lock a std::mutex the worker itself holds,
\* flush() waits for a drain that only the worker reports: neither returns.
NestedBlock ==
    /\ Reentrant \cap {"subscribe", "flush"} # {}
    /\ InSend
    /\ worker' = "stuck"
    /\ UNCHANGED <<queueVars, routerVars, clientVars, env, routed, owner>>

\* Nothing in worker_loop() catches what send() throws: std::terminate().
WorkerThrow(k, ch) ==
    /\ worker = "routing"
    /\ ch \in Failing
    /\ pending[k][ch] > 0
    /\ worker' = "terminated"
    /\ owner' = "terminated"
    /\ UNCHANGED <<queueVars, routerVars, clientVars, env, routed>>

------------------------------------------------------------------------------
(* The destructor, called when no other call is in progress, as C++ asks of *)
(* every destructor.                                                        *)

DtorStop ==
    /\ owner = "alive"
    /\ \A c \in Clients : At(c, "idle")
    /\ stop' = TRUE
    /\ owner' = "stopping"
    /\ UNCHANGED <<queue, busy, accepted, routerVars, clientVars, workerVars>>

\* _queue_cv.notify_all().
DtorNotify ==
    /\ owner = "stopping"
    /\ owner' = "joining"
    /\ worker' = IF worker = "blocked" THEN "check" ELSE worker
    /\ UNCHANGED <<queueVars, routerVars, clientVars, env, routed>>

DtorJoin ==
    /\ owner = "joining"
    /\ worker = "done"
    /\ owner' = "joined"
    /\ UNCHANGED <<queueVars, routerVars, clientVars, workerVars>>

DtorFlush ==
    /\ owner = "joined"
    /\ routeOwner = Nobody
    /\ RouterFlush
    /\ owner' = "destroyed"
    /\ UNCHANGED <<queueVars, routes, routeOwner, pending, inbox, clientVars,
                   workerVars>>

------------------------------------------------------------------------------
(* A condition variable may wake a thread that nobody notified. *)

SpuriousWorker ==
    /\ worker = "blocked"
    /\ worker' = "check"
    /\ UNCHANGED <<queueVars, routerVars, clientVars, env, routed, owner>>

SpuriousFlush(c) ==
    /\ At(c, "flushBlocked")
    /\ Goto(c, "flush")
    /\ UNCHANGED <<queueVars, routerVars, calls, mark, workerVars, owner>>

\* Once destroyed the dispatcher is at rest.
Ended == owner = "destroyed" /\ UNCHANGED vars

------------------------------------------------------------------------------
Calling(c) ==
    \/ \E type \in Types : DispatchPush(c, type)
    \/ \E k \in Keys, ch \in Channels : Subscribe(c, k, ch)
    \/ \E k \in Keys, ch \in Channels : Unsubscribe(c, k, ch)
    \/ FlushCall(c)

Returning(c) ==
    \/ DispatchNotify(c) \/ FlushWait(c) \/ FlushLock(c) \/ FlushReturn(c)

WorkerLoop ==
    \/ WorkerBlock \/ WorkerExit \/ WorkerTake \/ WorkerLock
    \/ \E k \in Keys, ch \in Channels : WorkerSend(k, ch)
    \/ WorkerRouted \/ WorkerIdle \/ WorkerNotifyAll

Callback ==
    \/ \E type \in Types : NestedDispatch(type)
    \/ NestedBlock
    \/ \E k \in Keys, ch \in Channels : WorkerThrow(k, ch)

Destructor == DtorStop \/ DtorNotify \/ DtorJoin \/ DtorFlush

Spurious == SpuriousWorker \/ \E c \in Clients : SpuriousFlush(c)

Next ==
    \/ \E c \in Clients : Calling(c) \/ Returning(c)
    \/ WorkerLoop \/ Callback \/ Destructor \/ Spurious \/ Ended

\* Every thread that can run is run; nothing makes a client call again.
Fairness ==
    /\ \A c \in Clients : WF_vars(Returning(c))
    /\ WF_vars(WorkerLoop)
    /\ WF_vars(DtorNotify \/ DtorJoin \/ DtorFlush)

Spec == Init /\ [][Next]_vars /\ Fairness

------------------------------------------------------------------------------
(* Properties. *)

\* Every variable holds a value of its type.
TypeOK ==
    /\ queue \in Seq(Envelope)
    /\ busy \in BOOLEAN
    /\ stop \in BOOLEAN
    /\ routes \in [Keys -> [Channels -> Nat]]
    /\ routeOwner \in Clients \cup {Worker, Nobody}
    /\ worker \in {"check", "blocked", "taken", "routing", "routed", "notify",
                   "stuck", "terminated", "done"}
    /\ env \in Seq(Envelope)
    /\ pending \in [Keys -> [Channels -> Nat]]
    /\ client \in [Clients -> {"idle", "notify", "flush", "flushBlocked",
                               "flushRouter", "flushing"}]
    /\ calls \in [Clients -> Nat]
    /\ owner \in {"alive", "stopping", "joining", "joined", "destroyed",
                  "terminated"}
    /\ accepted \in Seq(Envelope)
    /\ routed \in Seq(Envelope)
    /\ mark \in [Clients -> Nat]
    /\ inbox \in [Channels -> Seq(Nat)]
    /\ buffered \in [Channels -> SUBSET Nat]

\* AsyncDispatcher.hpp: the worker dequeues envelopes and routes them.  Across
\* the queue, the worker's hands and the router nothing is lost, doubled or
\* overtaken, whatever the threads do.
NothingLost == accepted = routed \o env \o queue

\* IChannel.hpp asks a dispatcher to serialise send() and flush(): at most one
\* thread is inside the router, and the mutex names it.
InRouter ==
    {c \in Clients : client[c] = "flushing"}
        \cup (IF worker \in {"routing", "stuck"} THEN {Worker} ELSE {})

RouterExclusive ==
    /\ \A t, u \in InRouter : t = u
    /\ \A t \in InRouter : routeOwner = t

\* AsyncDispatcher.hpp on flush(): when it goes on to the channels, every
\* envelope accepted before the call has been routed, the last one included.
FlushWaitsForAll ==
    \A c \in Clients :
        client[c] \in {"flushRouter", "flushing"} => mark[c] <= Len(routed)

\* ~AsyncDispatcher(): past the join the worker is gone and every accepted
\* envelope was routed; the last flush leaves nothing in a subscribed channel.
ShutdownComplete ==
    owner \in {"joined", "destroyed"} =>
        /\ worker = "done"
        /\ routed = accepted
        /\ owner = "destroyed" =>
               \A ch \in Subscribed : buffered[ch] = {}

\* No wakeup is lost: the worker sleeps on a non-empty queue, or after _stop,
\* only while a thread that changed them has its notify still to come.
NoLostWakeup ==
    worker = "blocked" =>
        /\ queue # <<>> => \E c \in Clients : client[c] = "notify"
        /\ stop => owner = "stopping"

\* Likewise a flush() sleeps on a drained queue only while the worker has its
\* notify_all() still to come.
NoLostDrain ==
    \A c \in Clients : client[c] = "flushBlocked" /\ Drained => worker = "notify"

\* The subscriptions of a channel that an envelope of the type matches, and the
\* copies of an envelope that the channel holds.
Matching(ch, type) == UNION {{k} \X (1..routes[k][ch]) : k \in Matches[type]}
CopiesOf(ch, id) == {i \in DOMAIN inbox[ch] : inbox[ch][i] = id}

\* Each subscription gets exactly one copy of an envelope: when route() ends,
\* a channel holds as many copies as it has matching subscriptions (SyncRouter:
\* two for a channel under both the typeId and "*").
OneCopyPerSubscription ==
    [][Len(routed') > Len(routed) =>
          \A ch \in Channels :
              Cardinality(CopiesOf(ch, env[1].id))
                  = Cardinality(Matching(ch, env[1].type))]_vars

\* Every accepted envelope is routed in the end.
EventuallyRouted ==
    \A n \in 1..MaxAccepted : Len(accepted) >= n ~> Len(routed) >= n

\* No call blocks forever, and a destructor that started ends.  The clients
\* dispatch finitely often: nothing in flush() keeps others from refilling the
\* queue for ever.
CallsReturn ==
    /\ \A c \in Clients : client[c] # "idle" ~> client[c] = "idle"
    /\ owner = "stopping" ~> owner = "destroyed"

------------------------------------------------------------------------------
(* The inductive invariant behind the safety properties. *)

\* The worker holds one envelope from its pop to the end of route().
InHandOk ==
    IF worker \in {"taken", "routing", "stuck", "terminated"}
    THEN Len(env) = 1
    ELSE env = <<>>

\* _worker_busy brackets that, up to the critical section that resets it.
BusyOk == busy <=> worker \in {"taken", "routing", "routed", "stuck", "terminated"}

\* _route_mutex is held by whoever is inside the router, and by nobody else.
LockOk ==
    /\ routeOwner = Worker <=> worker \in {"routing", "stuck", "terminated"}
    /\ \A c \in Clients : routeOwner = c <=> client[c] = "flushing"

\* _stop is set for good by the destructor, which finds no client in a call.
StopOk ==
    /\ stop => owner # "alive"
    /\ owner \in {"stopping", "joining", "joined", "destroyed"} =>
          stop /\ \A c \in Clients : client[c] = "idle"

\* The worker leaves its loop only with the queue empty, and is joined after.
ExitOk ==
    /\ worker = "done" => stop /\ queue = <<>>
    /\ owner \in {"joined", "destroyed"} => worker = "done"
    /\ worker = "terminated" => owner = "terminated"

MarkOk == \A c \in Clients : mark[c] <= Len(accepted)

IInv ==
    /\ TypeOK /\ NothingLost /\ InHandOk /\ BusyOk /\ LockOk /\ StopOk /\ ExitOk
    /\ MarkOk /\ FlushWaitsForAll /\ ShutdownComplete
    /\ NoLostWakeup /\ NoLostDrain

------------------------------------------------------------------------------
(* The promise of OrderedDelivery, kept by this design. *)

InFlush(c) == client[c] \in {"flush", "flushBlocked", "flushRouter", "flushing"}

TypesOf(envelopes) == [i \in DOMAIN envelopes |-> envelopes[i].type]

Promise == INSTANCE OrderedDelivery WITH
    log <- TypesOf(accepted),
    handled <- TypesOf(routed),
    waiting <- [c \in Clients |-> IF InFlush(c) THEN mark[c] ELSE -1],
    open <- owner # "destroyed"

Implements == Promise!Spec
==============================================================================
