--------------------------- MODULE SessionRegistry ---------------------------
(***************************************************************************)
(* gmWebServe.SessionRegistry: the web gateway's table of game sessions,   *)
(* one engine subprocess each.                                             *)
(*                                                                         *)
(* Three kinds of threads share it: workers, which run the REST requests   *)
(* (create, join, command, close) and the reaper; the asyncio loop, which  *)
(* subscribes browser tabs and fills their queues; and one listener per    *)
(* session, which fans the engine's envelopes out.  What runs under _lock  *)
(* is one step, except create_session(), which starts the engine with the  *)
(* lock held; what runs outside it is a step per access to shared state.   *)
(* A join code names its session for good and is left out; time is only    *)
(* whether a session's last activity is older than the idle timeout.       *)
(***************************************************************************)
EXTENDS Integers, Sequences, FiniteSets, SequencesExt

CONSTANTS
    Users,          \* usernames of the auth tokens
    Sessions,       \* session ids: uuids, never used twice
    Roles,          \* the seats of a session, the owner's first
    Workers,        \* threads of the pool that runs the requests
    Tabs,           \* WebSocket connections
    Types,          \* typeIds of the engine's envelopes
    MaxPerUser,     \* max_sessions_per_user
    MaxCalls,       \* bound: commands sent, reaper runs and shutdowns
    MaxEvents       \* bound: envelopes of one engine

ASSUME RegistryAssumption ==
    /\ Len(Roles) \in Nat \ {0} /\ DOMAIN Roles = 1..Len(Roles)
    /\ \A i, j \in DOMAIN Roles : Roles[i] = Roles[j] => i = j
    /\ MaxPerUser \in Nat \ {0}
    /\ MaxCalls \in Nat
    /\ MaxEvents \in Nat
    /\ "nobody" \notin Workers \cup Users

VARIABLES
    lock,           \* holder of _lock
    table,          \* _sessions: the ids registered
    seats,          \* participants of each session
    idle,           \* sessions not active for longer than the timeout
    engine,         \* subprocess of each session
    wire,           \* sender's socket of each session
    work,           \* what each worker is doing
    doomed,         \* sessions each worker has still to tear down
    listener,       \* where each session's listener thread is
    emitted,        \* envelopes each engine emitted, as a sequence of types
    last,           \* last_envelope_by_type of each session, by number
    members,        \* subscribers of each session
    tab,            \* where each tab's subscription is, and its session
    queue,          \* what each tab was sent: envelope numbers, in order
    ready,          \* callbacks call_soon_threadsafe() scheduled
    calls           \* commands sent, reaper runs and shutdowns so far

tableVars == <<lock, table, seats, idle>>
procVars == <<engine, wire>>
eventVars == <<listener, emitted, last>>
tabVars == <<members, tab, queue, ready>>
vars == <<tableVars, procVars, work, doomed, eventVars, tabVars, calls>>

------------------------------------------------------------------------------
Nobody == "nobody"
Resting == [at |-> "idle"]
Seats == {Roles[i] : i \in DOMAIN Roles}

\* A subprocess that was started and not stopped; it may have ended by itself.
Started == {"running", "ended"}

Holds(u, s) == \E r \in Seats : seats[s][r] = u
SessionsOf(u) == {s \in table : Holds(u, s)}
Capped(u) == Cardinality(SessionsOf(u)) >= MaxPerUser

\* get_session(): under the lock, then is_participant().
Visible(s, u) == lock = Nobody /\ s \in table /\ Holds(u, s)

\* The keys of last_envelope_by_type.
TypesSeen(s) == {t \in Types : last[s][t] > 0}

Init ==
    /\ lock = Nobody
    /\ table = {}
    /\ seats = [s \in Sessions |-> [r \in Seats |-> Nobody]]
    /\ idle = {}
    /\ engine = [s \in Sessions |-> "none"]
    /\ wire = [s \in Sessions |-> "closed"]
    /\ work = [w \in Workers |-> Resting]
    /\ doomed = [w \in Workers |-> {}]
    /\ listener = [s \in Sessions |-> "off"]
    /\ emitted = [s \in Sessions |-> <<>>]
    /\ last = [s \in Sessions |-> [t \in Types |-> 0]]
    /\ members = [s \in Sessions |-> {}]
    /\ tab = [b \in Tabs |-> [at |-> "new"]]
    /\ queue = [b \in Tabs |-> <<>>]
    /\ ready = <<>>
    /\ calls = 0

------------------------------------------------------------------------------
(* create_session() and join_session(). *)

\* Mutant of StartLock: the engine starts outside the lock.
StartUnlocked(w) == Nobody

\* Who holds the lock while the engine starts: the creating thread.
StartLock(w) == w

\* The cap is checked and the engine is spawned under the lock.
Create(w, u, s) ==
    /\ work[w].at = "idle"
    /\ lock = Nobody
    /\ ~Capped(u)
    /\ engine[s] = "none"
    /\ lock' = StartLock(w)
    /\ engine' = [engine EXCEPT ![s] = "running"]
    /\ work' = [work EXCEPT ![w] = [at |-> "starting", session |-> s, user |-> u]]
    /\ UNCHANGED <<table, seats, idle, wire, doomed, eventVars, tabVars, calls>>

\* The command port answers: the listener starts and the session is registered.
Register(w) ==
    /\ work[w].at = "starting"
    /\ LET s == work[w].session
       IN  /\ table' = table \cup {s}
           /\ seats' = [seats EXCEPT ![s][Roles[1]] = work[w].user]
           /\ listener' = [listener EXCEPT ![s] = "read"]
    /\ lock' = Nobody
    /\ work' = [work EXCEPT ![w].at = "bootstrap"]
    /\ UNCHANGED <<idle, procVars, doomed, emitted, last, tabVars, calls>>

\* Mutant of StartFails: the engine that was spawned is left running.
StartFailsDirty(w) ==
    /\ work[w].at = "starting"
    /\ lock' = Nobody
    /\ work' = [work EXCEPT ![w] = Resting]
    /\ UNCHANGED <<table, seats, idle, procVars, doomed, eventVars, tabVars, calls>>

\* The command port never answers: start() stops the engine and raises.
StartFails(w) ==
    /\ work[w].at = "starting"
    /\ engine' = [engine EXCEPT ![work[w].session] = "stopped"]
    /\ lock' = Nobody
    /\ work' = [work EXCEPT ![w] = Resting]
    /\ UNCHANGED <<table, seats, idle, wire, doomed, eventVars, tabVars, calls>>

\* EngineSender.send_command() connects when it has no socket and closes it when
\* it fails; what is written to an engine that just ended may still be accepted.
Written(s) ==
    \/ engine[s] = "running" /\ wire' = [wire EXCEPT ![s] = "open"]
    \/ engine[s] # "running" /\ (UNCHANGED wire \/ wire' = [wire EXCEPT ![s] = "closed"])

\* bootstrap() sends the first command, outside the lock.
Bootstrap(w) ==
    /\ work[w].at = "bootstrap"
    /\ Written(work[w].session)
    /\ work' = [work EXCEPT ![w] = Resting]
    /\ UNCHANGED <<tableVars, engine, doomed, eventVars, tabVars, calls>>

\* Mutant of MayJoin: a participant who reloads takes another seat.
MayJoinTwice(u, s) == s \in table /\ (Holds(u, s) \/ ~Capped(u))

\* Not a participant yet, and not at the cap.
MayJoin(u, s) == s \in table /\ ~Holds(u, s) /\ ~Capped(u)

\* The first seat that is free.
Join(w, u, s) ==
    /\ work[w].at = "idle"
    /\ lock = Nobody
    /\ MayJoin(u, s)
    /\ \E i \in DOMAIN Roles :
          /\ seats[s][Roles[i]] = Nobody
          /\ \A j \in 1..(i - 1) : seats[s][Roles[j]] # Nobody
          /\ seats' = [seats EXCEPT ![s][Roles[i]] = u]
    /\ UNCHANGED <<lock, table, idle, procVars, work, doomed, eventVars, tabVars,
                   calls>>

------------------------------------------------------------------------------
(* send_command(): look up under the lock, then touch and write without it. *)

Send(w, u, s) ==
    /\ work[w].at = "idle"
    /\ Visible(s, u)
    /\ calls < MaxCalls
    /\ calls' = calls + 1
    /\ work' = [work EXCEPT ![w] = [at |-> "touch", session |-> s]]
    /\ UNCHANGED <<tableVars, procVars, doomed, eventVars, tabVars>>

Touch(w) ==
    /\ work[w].at = "touch"
    /\ idle' = idle \ {work[w].session}
    /\ work' = [work EXCEPT ![w].at = "write"]
    /\ UNCHANGED <<lock, table, seats, procVars, doomed, eventVars, tabVars, calls>>

Write(w) ==
    /\ work[w].at = "write"
    /\ Written(work[w].session)
    /\ work' = [work EXCEPT ![w] = Resting]
    /\ UNCHANGED <<tableVars, engine, doomed, eventVars, tabVars, calls>>

\* The subprocess exits or crashes by itself; nobody looks at is_running, and its
\* session stays in the table.
EngineEnds(s) ==
    /\ engine[s] = "running"
    /\ engine' = [engine EXCEPT ![s] = "ended"]
    /\ UNCHANGED <<tableVars, wire, work, doomed, eventVars, tabVars, calls>>

\* Time passes: a session's last activity is now too long ago.
Age(s) ==
    /\ s \in table \ idle
    /\ idle' = idle \cup {s}
    /\ UNCHANGED <<lock, table, seats, procVars, work, doomed, eventVars, tabVars,
                   calls>>

------------------------------------------------------------------------------
(* Ends of sessions: forgotten under the lock, torn down outside it. *)

Forget(w, gone) ==
    /\ table' = table \ gone
    /\ doomed' = [doomed EXCEPT ![w] = gone]
    /\ work' = [work EXCEPT ![w] = [at |-> "teardown"]]
    /\ UNCHANGED <<lock, seats, idle, procVars, eventVars, tabVars>>

\* Mutant of MayClose: whether the session is still registered is not looked at.
MayCloseStale(s, u) == lock = Nobody /\ engine[s] \in Started /\ Holds(u, s)

MayClose(s, u) == Visible(s, u)

Close(w, u, s) ==
    /\ work[w].at = "idle"
    /\ MayClose(s, u)
    /\ Forget(w, {s})
    /\ UNCHANGED calls

\* reap_idle_sessions().
Reap(w) ==
    /\ work[w].at = "idle"
    /\ lock = Nobody
    /\ table \cap idle # {}
    /\ calls < MaxCalls
    /\ Forget(w, table \cap idle)
    /\ calls' = calls + 1

\* shutdown(), when the application stops.
Shutdown(w) ==
    /\ work[w].at = "idle"
    /\ lock = Nobody
    /\ table # {}
    /\ calls < MaxCalls
    /\ Forget(w, table)
    /\ calls' = calls + 1

\* _teardown() of one session: the listener first.  stop() waits for its thread,
\* but no longer than two seconds: an envelope in hand may still be handled later.
StopListener(w, s) ==
    /\ work[w] = [at |-> "teardown"]
    /\ s \in doomed[w]
    /\ listener' = [listener EXCEPT ![s] = IF @ = "read" THEN "off" ELSE @]
    /\ work' = [work EXCEPT ![w] = [at |-> "closing", session |-> s]]
    /\ UNCHANGED <<tableVars, procVars, doomed, emitted, last, tabVars, calls>>

\* ... then the sender ...
CloseSender(w) ==
    /\ work[w].at = "closing"
    /\ wire' = [wire EXCEPT ![work[w].session] = "closed"]
    /\ work' = [work EXCEPT ![w].at = "stopping"]
    /\ UNCHANGED <<tableVars, engine, doomed, eventVars, tabVars, calls>>

\* Mutant of Remaining: a failed teardown drops the sessions that follow it.
RemainingNone(w) == {}

Remaining(w) == doomed[w] \ {work[w].session}

\* ... and the engine, which is waited for.
StopEngine(w) ==
    /\ work[w].at = "stopping"
    /\ engine' = [engine EXCEPT ![work[w].session] = "stopped"]
    /\ doomed' = [doomed EXCEPT ![w] = Remaining(w)]
    /\ work' = [work EXCEPT ![w] =
                  IF Remaining(w) = {} THEN Resting ELSE [at |-> "teardown"]]
    /\ UNCHANGED <<tableVars, wire, eventVars, tabVars, calls>>

------------------------------------------------------------------------------
(* The listener thread of a session. *)

\* The engine emits an envelope, and _on_envelope() looks the session up.
Emit(s, t) ==
    /\ listener[s] = "read"
    /\ engine[s] = "running" /\ wire[s] = "open"
    /\ Len(emitted[s]) < MaxEvents
    /\ lock = Nobody
    /\ emitted' = [emitted EXCEPT ![s] = Append(@, t)]
    /\ listener' = [listener EXCEPT ![s] = IF s \in table THEN "found" ELSE @]
    /\ UNCHANGED <<tableVars, procVars, work, doomed, last, tabVars, calls>>

\* The envelope becomes the last one of its type ...
Store(s) ==
    /\ listener[s] = "found"
    /\ last' = [last EXCEPT ![s][emitted[s][Len(emitted[s])]] = Len(emitted[s])]
    /\ listener' = [listener EXCEPT ![s] = "stored"]
    /\ UNCHANGED <<tableVars, procVars, work, doomed, emitted, tabVars, calls>>

\* ... and is handed to the loop for every subscriber.  What a forgotten session's
\* listener would still read is dropped: it reads on only while the session lives.
FanOut(s) ==
    /\ listener[s] = "stored"
    /\ ready' = ready \o [i \in 1..Cardinality(members[s]) |->
                             [to |-> SetToSeq(members[s])[i],
                              number |-> Len(emitted[s])]]
    /\ listener' = [listener EXCEPT ![s] = IF s \in table THEN "read" ELSE "off"]
    /\ UNCHANGED <<tableVars, procVars, work, doomed, emitted, last, members, tab,
                   queue, calls>>

------------------------------------------------------------------------------
(* The event loop: one coroutine step or callback at a time. *)

LoopFree == \A b \in Tabs : tab[b].at \notin {"copy", "copying", "add"}

\* The callback queue.put_nowait(envelope).
Deliver ==
    /\ LoopFree
    /\ ready # <<>>
    /\ queue' = [queue EXCEPT ![Head(ready).to] = Append(@, Head(ready).number)]
    /\ ready' = Tail(ready)
    /\ UNCHANGED <<tableVars, procVars, work, doomed, eventVars, members, tab, calls>>

\* subscribe(): look the session up, mark activity ...
Subscribe(b, u, s) ==
    /\ LoopFree
    /\ tab[b].at = "new"
    /\ Visible(s, u)
    /\ idle' = idle \ {s}
    /\ tab' = [tab EXCEPT ![b] = [at |-> "copy", session |-> s]]
    /\ UNCHANGED <<lock, table, seats, procVars, work, doomed, eventVars, members,
                   queue, ready, calls>>

\* Mutant of CopyBegin: the tab joins the subscribers before the replay.
CopyBeginJoined(b) ==
    LET s == tab[b].session
    IN  /\ tab[b].at = "copy"
        /\ tab' = [tab EXCEPT ![b] = [at |-> "copying", session |-> s,
                                      keys |-> TypesSeen(s), left |-> TypesSeen(s)]]
        /\ members' = [members EXCEPT ![s] = @ \cup {b}]
        /\ UNCHANGED <<tableVars, procVars, work, doomed, eventVars, queue, ready,
                       calls>>

\* ... begin to iterate over the last envelopes ...
CopyBegin(b) ==
    LET s == tab[b].session
    IN  /\ tab[b].at = "copy"
        /\ tab' = [tab EXCEPT ![b] = [at |-> "copying", session |-> s,
                                      keys |-> TypesSeen(s), left |-> TypesSeen(s)]]
        /\ UNCHANGED <<tableVars, procVars, work, doomed, eventVars, members, queue,
                       ready, calls>>

\* ... put the next one into the queue ...
CopyNext(b, t) ==
    LET s == tab[b].session
    IN  /\ tab[b].at = "copying"
        /\ TypesSeen(s) = tab[b].keys
        /\ t \in tab[b].left
        /\ queue' = [queue EXCEPT ![b] = Append(@, last[s][t])]
        /\ tab' = [tab EXCEPT ![b].left = @ \ {t}]
        /\ UNCHANGED <<tableVars, procVars, work, doomed, eventVars, members, ready,
                       calls>>

\* ... until there is none; a type the listener added meanwhile makes the
\* iteration raise ...
CopyEnd(b) ==
    LET grown == TypesSeen(tab[b].session) # tab[b].keys
    IN  /\ tab[b].at = "copying"
        /\ grown \/ tab[b].left = {}
        /\ tab' = [tab EXCEPT ![b] = [at |-> IF grown THEN "failed" ELSE "add",
                                      session |-> tab[b].session]]
        /\ UNCHANGED <<tableVars, procVars, work, doomed, eventVars, members, queue,
                       ready, calls>>

\* ... and only then joins the subscribers.
CopyAdd(b) ==
    /\ tab[b].at = "add"
    /\ members' = [members EXCEPT ![tab[b].session] = @ \cup {b}]
    /\ tab' = [tab EXCEPT ![b].at = "open"]
    /\ UNCHANGED <<tableVars, procVars, work, doomed, eventVars, queue, ready, calls>>

\* Mutant of Staying: whoever disconnects takes every subscriber along.
StayingNone(b, s) == {}

Staying(b, s) == members[s] \ {b}

\* The browser disconnects; unsubscribe() finds the session only if it lives.
Disconnect(b) ==
    /\ LoopFree
    /\ tab[b].at = "open"
    /\ lock = Nobody
    /\ LET s == tab[b].session
       IN  members' = [members EXCEPT ![s] = IF s \in table THEN Staying(b, s) ELSE @]
    /\ tab' = [tab EXCEPT ![b].at = "gone"]
    /\ UNCHANGED <<tableVars, procVars, work, doomed, eventVars, queue, ready, calls>>

------------------------------------------------------------------------------
Requests(w) ==
    \/ \E u \in Users, s \in Sessions :
          Create(w, u, s) \/ Join(w, u, s) \/ Send(w, u, s) \/ Close(w, u, s)
    \/ Reap(w) \/ Shutdown(w)

RunOn(w) ==
    \/ Register(w) \/ StartFails(w) \/ Bootstrap(w)
    \/ Touch(w) \/ Write(w)
    \/ \E s \in Sessions : StopListener(w, s)
    \/ CloseSender(w) \/ StopEngine(w)

Listening(s) == Store(s) \/ FanOut(s) \/ \E t \in Types : Emit(s, t)

Copying(b) == \/ CopyBegin(b) \/ CopyEnd(b) \/ CopyAdd(b)
              \/ \E t \in Types : CopyNext(b, t)

Loop ==
    \/ Deliver
    \/ \E b \in Tabs : \/ \E u \in Users, s \in Sessions : Subscribe(b, u, s)
                       \/ Copying(b) \/ Disconnect(b)

Next ==
    \/ \E w \in Workers : Requests(w) \/ RunOn(w)
    \/ \E s \in Sessions : Age(s) \/ EngineEnds(s) \/ Listening(s)
    \/ Loop

\* A request that runs runs on, a listener handles what it read and the loop
\* runs its callbacks; nobody has to make a request.
Fairness ==
    /\ \A w \in Workers : WF_vars(RunOn(w))
    /\ \A s \in Sessions : WF_vars(Store(s) \/ FanOut(s))
    /\ WF_vars(Deliver \/ \E b \in Tabs : Copying(b))

Spec == Init /\ [][Next]_vars /\ Fairness

------------------------------------------------------------------------------
(* Properties. *)

\* max_sessions_per_user: nobody holds seats in more sessions than that, those
\* created and those joined counted together, whatever requests run at once.
CapRespected == \A u \in Users : Cardinality(SessionsOf(u)) <= MaxPerUser

\* GameSession: a session is shared by different users: nobody holds two seats.
OneSeatEach ==
    \A s \in Sessions : \A r, q \in Seats :
        seats[s][r] = seats[s][q] /\ seats[s][r] # Nobody => r = q

\* An engine subprocess that runs belongs to a session of the table, or some
\* request is starting it or has it still to stop: none is left behind.
NoOrphanEngine ==
    \A s \in Sessions : engine[s] = "running" =>
        \/ s \in table
        \/ \E w \in Workers :
              s \in doomed[w] \/ (work[w].at = "starting" /\ work[w].session = s)

\* One request at most tears a session down, and never one that is still listed:
\* the engine of a listed session was started, and nobody has stopped it.
TornDownOnce ==
    /\ \A w, x \in Workers : doomed[w] \cap doomed[x] # {} => w = x
    /\ \A w \in Workers : doomed[w] \cap table = {}
    /\ \A s \in table : engine[s] \in Started

\* subscribe() and _on_envelope(): a tab is never sent an older envelope of a
\* type after a newer one, replayed or live.
NeverBackwards ==
    \A b \in Tabs : \A i, j \in DOMAIN queue[b] :
        LET log == emitted[tab[b].session]
        IN  i < j /\ log[queue[b][i]] = log[queue[b][j]] => queue[b][i] <= queue[b][j]

\* Every engine that was started for a session that is not listed, because it was
\* closed, reaped or never registered, is stopped in the end, ended or not.
ForgottenIsStopped ==
    \A s \in Sessions :
        (engine[s] \in Started /\ s \notin table) ~>
            (engine[s] = "stopped" \/ s \in table)

\* An envelope that the listener has looked its session up for is put into the
\* queue of every tab that is subscribed then, whatever others do meanwhile.
EventsReachTabs ==
    \A b \in Tabs, s \in Sessions, n \in 1..MaxEvents :
        (/\ tab[b].at = "open" /\ tab[b].session = s
         /\ listener[s] = "found" /\ Len(emitted[s]) = n)
            ~> (tab[b].at = "gone" \/ Contains(queue[b], n))
==============================================================================
