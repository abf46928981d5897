----------------------- MODULE SessionRegistryProofs ------------------------
(***************************************************************************)
(* The safety of the session registry, for any users, sessions, seats,     *)
(* workers, tabs and caps.                                                 *)
(*                                                                         *)
(* The properties lean on three facts about the code: whoever starts an    *)
(* engine holds the lock until the session is registered, so nothing the   *)
(* cap was computed from changes meanwhile (StartingOk); a session id that *)
(* no engine was started for is nowhere (FreshOk); and a worker has        *)
(* sessions to tear down only while it is tearing down, the one in hand    *)
(* among them (TearingOk).  What tabs are sent has an invariant of its own *)
(* (DInv), in the last section.                                            *)
(***************************************************************************)
EXTENDS SessionRegistry, FiniteSetTheorems, TLAPS

InTeardown == {"teardown", "closing", "stopping"}

\* What a worker may be doing.
Creating == [at : {"starting", "bootstrap"}, session : Sessions, user : Users]
Handling == [at : {"touch", "write", "closing", "stopping"}, session : Sessions]
Between == [at : {"idle", "teardown"}]

CoreTypes ==
    /\ lock \in Workers \cup {Nobody}
    /\ table \subseteq Sessions
    /\ IsFiniteSet(table)
    /\ seats \in [Sessions -> [Seats -> Users \cup {Nobody}]]
    /\ engine \in [Sessions -> {"none", "running", "ended", "stopped"}]
    /\ work \in [Workers -> Creating \cup Handling \cup Between]
    /\ doomed \in [Workers -> SUBSET Sessions]

\* Nobody has a seat in the session and nobody tears it down.
Unused(s) ==
    /\ s \notin table
    /\ \A r \in Seats : seats[s][r] = Nobody
    /\ \A x \in Workers : s \notin doomed[x]

StartingOk ==
    \A w \in Workers : work[w].at = "starting" =>
        /\ lock = w
        /\ engine[work[w].session] \in Started
        /\ Unused(work[w].session)
        /\ ~Capped(work[w].user)

FreshOk == \A s \in Sessions : engine[s] = "none" => Unused(s)

TearingOk ==
    \A w \in Workers :
        /\ doomed[w] # {} => work[w].at \in InTeardown
        /\ work[w].at \in {"closing", "stopping"} => work[w].session \in doomed[w]

IInv ==
    /\ CoreTypes
    /\ StartingOk
    /\ FreshOk
    /\ TearingOk
    /\ CapRespected
    /\ OneSeatEach
    /\ NoOrphanEngine
    /\ TornDownOnce

\* What the invariant is about.
core == <<lock, table, seats, engine, work, doomed>>

------------------------------------------------------------------------------
(* Lemmas about the operators. *)

\* The sessions of a user are finitely many.
LEMMA SessionsFinite ==
    ASSUME IsFiniteSet(table), NEW u
    PROVE  IsFiniteSet(SessionsOf(u)) /\ Cardinality(SessionsOf(u)) \in Nat
<1>1. SessionsOf(u) \subseteq table
  BY DEF SessionsOf
<1>2. IsFiniteSet(SessionsOf(u))
  BY <1>1, FS_Subset
<1> QED
  BY <1>2, FS_CardinalityType

\* Whoever is below the cap may hold a seat in one session more.
LEMMA RoomForOne ==
    ASSUME IsFiniteSet(table), NEW u, NEW s, ~Capped(u), NEW S,
           S \subseteq SessionsOf(u) \cup {s}
    PROVE  Cardinality(S) <= MaxPerUser
<1> DEFINE T == SessionsOf(u) \cup {s}
<1>1. IsFiniteSet(SessionsOf(u)) /\ Cardinality(SessionsOf(u)) \in Nat
  BY SessionsFinite
<1>2. MaxPerUser \in Nat
  BY RegistryAssumption
<1>3. Cardinality(SessionsOf(u)) + 1 <= MaxPerUser
  BY <1>1, <1>2 DEF Capped
<1>4. IsFiniteSet(T) /\ Cardinality(T) <= Cardinality(SessionsOf(u)) + 1
  <2>1. IsFiniteSet(T) /\ Cardinality(T) = IF s \in SessionsOf(u)
                                            THEN Cardinality(SessionsOf(u))
                                            ELSE Cardinality(SessionsOf(u)) + 1
    BY <1>1, FS_AddElement
  <2> QED
    BY <1>1, <2>1
<1>5. IsFiniteSet(S) /\ Cardinality(S) <= Cardinality(T)
  BY <1>4, FS_Subset
<1>6. Cardinality(S) \in Nat /\ Cardinality(T) \in Nat
  BY <1>4, <1>5, FS_CardinalityType
<1> QED
  BY <1>1, <1>2, <1>3, <1>4, <1>5, <1>6

\* Fewer sessions stay within the cap.
LEMMA FewerStayWithin ==
    ASSUME IsFiniteSet(table), NEW u, Cardinality(SessionsOf(u)) <= MaxPerUser,
           NEW S, S \subseteq SessionsOf(u)
    PROVE  Cardinality(S) <= MaxPerUser
<1>1. IsFiniteSet(SessionsOf(u)) /\ Cardinality(SessionsOf(u)) \in Nat
  BY SessionsFinite
<1>2. IsFiniteSet(S) /\ Cardinality(S) <= Cardinality(SessionsOf(u))
  BY <1>1, FS_Subset
<1>3. Cardinality(S) \in Nat /\ MaxPerUser \in Nat
  BY <1>2, FS_CardinalityType, RegistryAssumption
<1> QED
  BY <1>1, <1>2, <1>3

\* The shape of what a worker does, by what it does.
LEMMA Shapes ==
    ASSUME CoreTypes, NEW w \in Workers
    PROVE  /\ work[w].at \in {"starting", "bootstrap"} => work[w] \in Creating
           /\ work[w].at \in {"touch", "write", "closing", "stopping"}
                => work[w] \in Handling
           /\ work[w].at \in {"idle", "teardown"} => work[w] \in Between
<1>1. work[w] \in Creating \cup Handling \cup Between
  BY DEF CoreTypes
<1>2. CASE work[w] \in Creating
  BY <1>2 DEF Creating
<1>3. CASE work[w] \in Handling
  BY <1>3 DEF Handling
<1>4. CASE work[w] \in Between
  BY <1>4 DEF Between
<1> QED
  BY <1>1, <1>2, <1>3, <1>4

\* Going on with another command.
LEMMA GoOnHandling ==
    ASSUME NEW r \in Handling, NEW a \in {"touch", "write", "closing", "stopping"}
    PROVE  /\ [r EXCEPT !.at = a] \in Handling
           /\ [r EXCEPT !.at = a].at = a
           /\ [r EXCEPT !.at = a].session = r.session
BY DEF Handling

LEMMA GoOnCreating ==
    ASSUME NEW r \in Creating
    PROVE  /\ [r EXCEPT !.at = "bootstrap"] \in Creating
           /\ [r EXCEPT !.at = "bootstrap"].at = "bootstrap"
           /\ [r EXCEPT !.at = "bootstrap"].session = r.session
BY DEF Creating

------------------------------------------------------------------------------
(* Steps that leave the registry alone. *)

LEMMA StutterKeeps ==
    ASSUME IInv, UNCHANGED core
    PROVE  IInv'
<1>1. CoreTypes'
  BY DEF IInv, CoreTypes, core
<1>2. \A u : SessionsOf(u)' = SessionsOf(u)
  BY DEF SessionsOf, Holds, core
<1>3. \A u : Capped(u)' = Capped(u)
  BY <1>2 DEF Capped
<1>4. \A s : Unused(s)' = Unused(s)
  BY DEF Unused, core
<1>5. StartingOk' /\ FreshOk'
  BY <1>3, <1>4 DEF IInv, StartingOk, FreshOk, core
<1>6. TearingOk' /\ OneSeatEach' /\ NoOrphanEngine' /\ TornDownOnce'
  BY DEF IInv, TearingOk, OneSeatEach, NoOrphanEngine, TornDownOnce, core
<1>7. CapRespected'
  BY <1>2 DEF IInv, CapRespected
<1> QED
  BY <1>1, <1>5, <1>6, <1>7 DEF IInv

\* A worker goes on within a request: it neither starts an engine nor takes a
\* session to tear down, and keeps the one it has in hand.
LEMMA ErrandKeeps ==
    ASSUME IInv, NEW w \in Workers, NEW r \in Creating \cup Handling \cup Between,
           work' = [work EXCEPT ![w] = r],
           UNCHANGED <<lock, table, seats, engine, doomed>>,
           work[w].at # "starting", r.at # "starting",
           work[w].at \in InTeardown => r.at \in InTeardown,
           r.at \in {"closing", "stopping"} => r.session \in doomed[w]
    PROVE  IInv'
<1>1. CoreTypes'
  BY DEF IInv, CoreTypes
<1>2. \A u : SessionsOf(u)' = SessionsOf(u)
  BY DEF SessionsOf, Holds
<1>3. \A u : Capped(u)' = Capped(u)
  BY <1>2 DEF Capped
<1>4. \A s : Unused(s)' = Unused(s)
  BY DEF Unused
<1>5. work'[w] = r /\ \A x \in Workers \ {w} : work'[x] = work[x]
  BY DEF IInv, CoreTypes
<1>6. StartingOk' /\ FreshOk'
  BY <1>3, <1>4, <1>5 DEF IInv, StartingOk, FreshOk
<1>7. TearingOk'
  BY <1>5 DEF IInv, TearingOk
<1>8. OneSeatEach' /\ TornDownOnce'
  BY DEF IInv, OneSeatEach, TornDownOnce
<1>9. NoOrphanEngine'
  BY <1>5 DEF IInv, NoOrphanEngine
<1>10. CapRespected'
  BY <1>2 DEF IInv, CapRespected
<1> QED
  BY <1>1, <1>6, <1>7, <1>8, <1>9, <1>10 DEF IInv

LEMMA HandlingKeeps ==
    ASSUME IInv, NEW w \in Workers,
           \/ Bootstrap(w) \/ Touch(w) \/ Write(w) \/ CloseSender(w)
           \/ \E u \in Users, s \in Sessions : Send(w, u, s)
           \/ \E s \in Sessions : StopListener(w, s)
    PROVE  IInv'
<1> USE DEF InTeardown
<1>0. CoreTypes /\ TearingOk
  BY DEF IInv
<1>1. CASE Bootstrap(w) \/ Write(w)
  <2>1. Resting \in Between /\ Resting.at = "idle"
    BY DEF Resting, Between
  <2>2. work' = [work EXCEPT ![w] = Resting]
    BY <1>1 DEF Bootstrap, Write
  <2>3. UNCHANGED <<lock, table, seats, engine, doomed>>
    BY <1>1 DEF Bootstrap, Write, tableVars
  <2>4. work[w].at \in {"bootstrap", "write"}
    BY <1>1 DEF Bootstrap, Write
  <2> QED
    BY <2>1, <2>2, <2>3, <2>4, ErrandKeeps
<1>2. CASE Touch(w)
  <2> DEFINE r == [work[w] EXCEPT !.at = "write"]
  <2>1. work[w].at = "touch" /\ work[w] \in Handling
    BY <1>2, <1>0, Shapes DEF Touch
  <2>2. r \in Handling /\ r.at = "write"
    BY <2>1, GoOnHandling
  <2>3. work' = [work EXCEPT ![w] = r]
    BY <1>2 DEF Touch
  <2>4. UNCHANGED <<lock, table, seats, engine, doomed>>
    BY <1>2 DEF Touch, procVars
  <2> HIDE DEF r
  <2> QED
    BY <2>1, <2>2, <2>3, <2>4, ErrandKeeps
<1>3. CASE CloseSender(w)
  <2> DEFINE r == [work[w] EXCEPT !.at = "stopping"]
  <2>1. work[w].at = "closing" /\ work[w] \in Handling
    BY <1>3, <1>0, Shapes DEF CloseSender
  <2>2. r \in Handling /\ r.at = "stopping" /\ r.session = work[w].session
    BY <2>1, GoOnHandling
  <2>3. work' = [work EXCEPT ![w] = r]
    BY <1>3 DEF CloseSender
  <2>4. UNCHANGED <<lock, table, seats, engine, doomed>>
    BY <1>3 DEF CloseSender, tableVars
  <2>5. work[w].session \in doomed[w]
    BY <1>0, <2>1 DEF TearingOk
  <2> HIDE DEF r
  <2> QED
    BY <2>1, <2>2, <2>3, <2>4, <2>5, ErrandKeeps
<1>4. ASSUME NEW u \in Users, NEW s \in Sessions, Send(w, u, s)
      PROVE  IInv'
  <2> DEFINE r == [at |-> "touch", session |-> s]
  <2>1. r \in Handling /\ r.at = "touch"
    BY DEF Handling
  <2>2. work' = [work EXCEPT ![w] = r] /\ work[w].at = "idle"
    BY <1>4 DEF Send
  <2>3. UNCHANGED <<lock, table, seats, engine, doomed>>
    BY <1>4 DEF Send, tableVars, procVars
  <2> HIDE DEF r
  <2> QED
    BY <2>1, <2>2, <2>3, ErrandKeeps
<1>5. ASSUME NEW s \in Sessions, StopListener(w, s)
      PROVE  IInv'
  <2> DEFINE r == [at |-> "closing", session |-> s]
  <2>1. r \in Handling /\ r.at = "closing" /\ r.session = s
    BY DEF Handling
  <2>2. work' = [work EXCEPT ![w] = r] /\ work[w].at = "teardown" /\ s \in doomed[w]
    BY <1>5 DEF StopListener
  <2>3. UNCHANGED <<lock, table, seats, engine, doomed>>
    BY <1>5 DEF StopListener, tableVars, procVars
  <2> HIDE DEF r
  <2> QED
    BY <2>1, <2>2, <2>3, ErrandKeeps
<1> QED
  BY <1>1, <1>2, <1>3, <1>4, <1>5

------------------------------------------------------------------------------
(* Creating and joining. *)

LEMMA CreateKeeps ==
    ASSUME IInv, NEW w \in Workers, NEW u \in Users, NEW s \in Sessions, Create(w, u, s)
    PROVE  IInv'
<1> DEFINE r == [at |-> "starting", session |-> s, user |-> u]
<1>0. /\ CoreTypes /\ StartingOk /\ FreshOk /\ TearingOk
      /\ CapRespected /\ OneSeatEach /\ NoOrphanEngine /\ TornDownOnce
  BY DEF IInv
<1>1. /\ work[w].at = "idle" /\ lock = Nobody /\ ~Capped(u) /\ engine[s] = "none"
      /\ lock' = w
      /\ engine' = [engine EXCEPT ![s] = "running"]
      /\ work' = [work EXCEPT ![w] = r]
      /\ UNCHANGED <<table, seats, doomed>>
  BY DEF Create, StartLock
<1>2. r \in Creating /\ r.at = "starting" /\ r.session = s /\ r.user = u
  BY DEF Creating
<1> HIDE DEF r
<1>3. CoreTypes'
  BY <1>0, <1>1, <1>2 DEF CoreTypes
<1>4. \A v : SessionsOf(v)' = SessionsOf(v)
  BY <1>1 DEF SessionsOf, Holds
<1>5. \A v : Capped(v)' = Capped(v)
  BY <1>4 DEF Capped
<1>6. \A t : Unused(t)' = Unused(t)
  BY <1>1 DEF Unused
<1>7. work'[w] = r /\ \A x \in Workers \ {w} : work'[x] = work[x]
  BY <1>0, <1>1 DEF CoreTypes
<1>8. engine'[s] = "running" /\ \A t \in Sessions \ {s} : engine'[t] = engine[t]
  BY <1>0, <1>1 DEF CoreTypes
<1>9. StartingOk'
  <2>1. \A x \in Workers : work[x].at # "starting"
    <3>1. Nobody \notin Workers
      BY RegistryAssumption DEF Nobody
    <3> QED
      BY <1>0, <1>1, <3>1 DEF StartingOk
  <2>2. Unused(s)
    BY <1>0, <1>1 DEF FreshOk
  <2> QED
    BY <1>1, <1>2, <1>5, <1>6, <1>7, <1>8, <2>1, <2>2 DEF StartingOk, Started
<1>10. FreshOk'
  BY <1>0, <1>6, <1>8 DEF FreshOk
<1>11. TearingOk'
  <2>1. doomed[w] = {}
    BY <1>0, <1>1 DEF TearingOk, InTeardown
  <2> QED
    BY <1>0, <1>1, <1>2, <1>7, <2>1 DEF TearingOk
<1>12. OneSeatEach'
  BY <1>0, <1>1 DEF OneSeatEach
<1>13. NoOrphanEngine'
  BY <1>0, <1>1, <1>2, <1>7, <1>8 DEF NoOrphanEngine
<1>14. TornDownOnce'
  BY <1>0, <1>1, <1>8 DEF TornDownOnce, CoreTypes, Started
<1>15. CapRespected'
  BY <1>0, <1>4 DEF CapRespected
<1> QED
  BY <1>3, <1>9, <1>10, <1>11, <1>12, <1>13, <1>14, <1>15 DEF IInv

\* The owner's seat is a seat.
LEMMA OwnerSeat == Roles[1] \in Seats
BY RegistryAssumption DEF Seats

LEMMA RegisterKeeps ==
    ASSUME IInv, NEW w \in Workers, Register(w)
    PROVE  IInv'
<1> DEFINE s == work[w].session
           u == work[w].user
           r == [work[w] EXCEPT !.at = "bootstrap"]
<1>0. /\ CoreTypes /\ StartingOk /\ FreshOk /\ TearingOk
      /\ CapRespected /\ OneSeatEach /\ NoOrphanEngine /\ TornDownOnce
  BY DEF IInv
<1>1. /\ work[w].at = "starting"
      /\ table' = table \cup {s}
      /\ seats' = [seats EXCEPT ![s][Roles[1]] = u]
      /\ lock' = Nobody
      /\ work' = [work EXCEPT ![w] = r]
      /\ UNCHANGED <<engine, doomed>>
  BY DEF Register, procVars
<1>2. /\ work[w] \in Creating /\ s \in Sessions /\ u \in Users
      /\ r \in Creating /\ r.at = "bootstrap"
  <2>1. work[w] \in Creating
    BY <1>0, <1>1, Shapes
  <2> QED
    BY <2>1, GoOnCreating DEF Creating
<1>3. lock = w /\ engine[s] \in Started /\ Unused(s) /\ ~Capped(u)
  BY <1>0, <1>1 DEF StartingOk
<1> HIDE DEF s, u, r
<1>4. u # Nobody /\ w # Nobody
  BY <1>2, RegistryAssumption DEF Nobody
<1>5. /\ \A t \in Sessions \ {s} : seats'[t] = seats[t]
      /\ \A q \in Seats : seats'[s][q] = IF q = Roles[1] THEN u ELSE Nobody
      /\ seats' \in [Sessions -> [Seats -> Users \cup {Nobody}]]
  BY <1>0, <1>1, <1>2, <1>3, OwnerSeat DEF CoreTypes, Unused
<1>6. CoreTypes'
  <2>1. IsFiniteSet(table')
    BY <1>0, <1>1, FS_AddElement DEF CoreTypes
  <2> QED
    BY <1>0, <1>1, <1>2, <1>5, <2>1 DEF CoreTypes
<1>7. work'[w] = r /\ \A x \in Workers \ {w} : work'[x] = work[x]
  BY <1>0, <1>1 DEF CoreTypes
<1>8. \A x \in Workers : work'[x].at # "starting"
  BY <1>0, <1>2, <1>3, <1>7 DEF StartingOk
<1>9. StartingOk'
  BY <1>8 DEF StartingOk
<1>10. FreshOk'
  BY <1>0, <1>1, <1>3, <1>5 DEF FreshOk, Unused, Started
<1>11. TearingOk'
  <2>1. doomed[w] = {}
    BY <1>0, <1>1 DEF TearingOk, InTeardown
  <2> QED
    BY <1>0, <1>1, <1>2, <1>7, <2>1 DEF TearingOk
<1>12. OneSeatEach'
  BY <1>0, <1>4, <1>5 DEF OneSeatEach
<1>13. NoOrphanEngine'
  <2> SUFFICES ASSUME NEW t \in Sessions, engine'[t] = "running", t \notin table'
               PROVE  \E x \in Workers :
                         t \in doomed'[x] \/ (work'[x].at = "starting" /\ work'[x].session = t)
    BY DEF NoOrphanEngine
  <2>1. PICK x \in Workers :
               t \in doomed[x] \/ (work[x].at = "starting" /\ work[x].session = t)
    BY <1>0, <1>1 DEF NoOrphanEngine
  <2>2. CASE t \in doomed[x]
    BY <1>1, <2>2
  <2>3. CASE work[x].at = "starting" /\ work[x].session = t
    BY <1>0, <1>1, <1>3, <2>3 DEF StartingOk, s
  <2> QED
    BY <2>1, <2>2, <2>3
<1>14. TornDownOnce'
  BY <1>0, <1>1, <1>3 DEF TornDownOnce, Unused
<1>15. CapRespected'
  <2> SUFFICES ASSUME NEW v \in Users
               PROVE  Cardinality(SessionsOf(v)') <= MaxPerUser
    BY DEF CapRespected
  <2>1. IsFiniteSet(table)
    BY <1>0 DEF CoreTypes
  <2>2. CASE v = u
    <3>1. SessionsOf(v)' \subseteq SessionsOf(u) \cup {s}
      BY <1>0, <1>1, <1>5, <2>2 DEF SessionsOf, Holds, CoreTypes
    <3> QED
      BY <1>3, <2>1, <3>1, RoomForOne
  <2>3. CASE v # u
    <3>1. v # Nobody
      BY RegistryAssumption DEF Nobody
    <3>2. SessionsOf(v)' \subseteq SessionsOf(v)
      BY <1>0, <1>1, <1>5, <2>3, <3>1 DEF SessionsOf, Holds, CoreTypes
    <3> QED
      BY <1>0, <2>1, <3>2, FewerStayWithin DEF CapRespected
  <2> QED
    BY <2>2, <2>3
<1> QED
  BY <1>6, <1>9, <1>10, <1>11, <1>12, <1>13, <1>14, <1>15 DEF IInv

LEMMA StartFailsKeeps ==
    ASSUME IInv, NEW w \in Workers, StartFails(w)
    PROVE  IInv'
<1> DEFINE s == work[w].session
<1>0. /\ CoreTypes /\ StartingOk /\ FreshOk /\ TearingOk
      /\ CapRespected /\ OneSeatEach /\ NoOrphanEngine /\ TornDownOnce
  BY DEF IInv
<1>1. /\ work[w].at = "starting"
      /\ engine' = [engine EXCEPT ![s] = "stopped"]
      /\ lock' = Nobody
      /\ work' = [work EXCEPT ![w] = Resting]
      /\ UNCHANGED <<table, seats, doomed>>
  BY DEF StartFails
<1>2. s \in Sessions
  <2>1. work[w] \in Creating
    BY <1>0, <1>1, Shapes
  <2> QED
    BY <2>1 DEF Creating
<1>3. lock = w /\ engine[s] \in Started /\ Unused(s)
  BY <1>0, <1>1 DEF StartingOk
<1>4. Resting \in Between /\ Resting.at = "idle"
  BY DEF Resting, Between
<1>5. CoreTypes'
  BY <1>0, <1>1, <1>4 DEF CoreTypes
<1>6. work'[w] = Resting /\ \A x \in Workers \ {w} : work'[x] = work[x]
  BY <1>0, <1>1 DEF CoreTypes
<1>7. engine'[s] = "stopped" /\ \A t \in Sessions \ {s} : engine'[t] = engine[t]
  BY <1>0, <1>1, <1>2 DEF CoreTypes
<1>8. \A x \in Workers : x # w => work[x].at # "starting"
  BY <1>0, <1>3 DEF StartingOk
<1>9. StartingOk'
  BY <1>4, <1>6, <1>8 DEF StartingOk
<1>10. FreshOk'
  BY <1>0, <1>1, <1>7 DEF FreshOk, Unused
<1>11. TearingOk'
  <2>1. doomed[w] = {}
    BY <1>0, <1>1 DEF TearingOk, InTeardown
  <2> QED
    BY <1>0, <1>1, <1>4, <1>6, <2>1 DEF TearingOk
<1>12. OneSeatEach'
  BY <1>0, <1>1 DEF OneSeatEach
<1>13. NoOrphanEngine'
  BY <1>0, <1>1, <1>6, <1>7, <1>8 DEF NoOrphanEngine
<1>14. TornDownOnce'
  BY <1>0, <1>1, <1>3, <1>7 DEF TornDownOnce, Unused, CoreTypes
<1>15. CapRespected'
  BY <1>0, <1>1 DEF CapRespected, SessionsOf, Holds
<1> QED
  BY <1>5, <1>9, <1>10, <1>11, <1>12, <1>13, <1>14, <1>15 DEF IInv

LEMMA JoinKeeps ==
    ASSUME IInv, NEW w \in Workers, NEW u \in Users, NEW s \in Sessions, Join(w, u, s)
    PROVE  IInv'
<1>0. /\ CoreTypes /\ StartingOk /\ FreshOk /\ TearingOk
      /\ CapRespected /\ OneSeatEach /\ NoOrphanEngine /\ TornDownOnce
  BY DEF IInv
<1>1. /\ lock = Nobody /\ s \in table /\ ~Holds(u, s) /\ ~Capped(u)
      /\ UNCHANGED <<lock, table, engine, work, doomed>>
  BY DEF Join, MayJoin, procVars
<1>2. PICK i \in DOMAIN Roles :
             /\ seats[s][Roles[i]] = Nobody
             /\ seats' = [seats EXCEPT ![s][Roles[i]] = u]
  BY DEF Join
<1>3. Roles[i] \in Seats
  BY DEF Seats
<1>4. u # Nobody
  BY RegistryAssumption DEF Nobody
<1>5. /\ \A t \in Sessions \ {s} : seats'[t] = seats[t]
      /\ \A q \in Seats : seats'[s][q] = IF q = Roles[i] THEN u ELSE seats[s][q]
      /\ seats' \in [Sessions -> [Seats -> Users \cup {Nobody}]]
  BY <1>0, <1>2, <1>3 DEF CoreTypes
<1>6. CoreTypes'
  BY <1>0, <1>1, <1>5 DEF CoreTypes
<1>7. \A x \in Workers : work[x].at # "starting"
  <2>1. Nobody \notin Workers
    BY RegistryAssumption DEF Nobody
  <2> QED
    BY <1>0, <1>1, <2>1 DEF StartingOk
<1>8. StartingOk'
  BY <1>1, <1>7 DEF StartingOk
<1>9. FreshOk'
  BY <1>0, <1>1, <1>5 DEF FreshOk, Unused
<1>10. TearingOk' /\ NoOrphanEngine' /\ TornDownOnce'
  BY <1>0, <1>1 DEF TearingOk, NoOrphanEngine, TornDownOnce
<1>11. OneSeatEach'
  <2>1. \A q \in Seats : seats[s][q] # u
    BY <1>1 DEF Holds
  <2> QED
    BY <1>0, <1>5, <2>1 DEF OneSeatEach
<1>12. CapRespected'
  <2> SUFFICES ASSUME NEW v \in Users
               PROVE  Cardinality(SessionsOf(v)') <= MaxPerUser
    BY DEF CapRespected
  <2>1. IsFiniteSet(table)
    BY <1>0 DEF CoreTypes
  <2>2. CASE v = u
    <3>1. SessionsOf(v)' \subseteq SessionsOf(u) \cup {s}
      BY <1>0, <1>1, <1>5, <2>2 DEF SessionsOf, Holds, CoreTypes
    <3> QED
      BY <1>1, <2>1, <3>1, RoomForOne
  <2>3. CASE v # u
    <3>1. SessionsOf(v)' \subseteq SessionsOf(v)
      BY <1>0, <1>1, <1>5, <2>3 DEF SessionsOf, Holds, CoreTypes
    <3> QED
      BY <1>0, <2>1, <3>1, FewerStayWithin DEF CapRespected
  <2> QED
    BY <2>2, <2>3
<1> QED
  BY <1>6, <1>8, <1>9, <1>10, <1>11, <1>12 DEF IInv

------------------------------------------------------------------------------
(* Forgetting sessions and stopping their engines. *)

LEMMA ForgetKeeps ==
    ASSUME IInv, NEW w \in Workers, NEW gone \in SUBSET table,
           Forget(w, gone), work[w].at = "idle", lock = Nobody
    PROVE  IInv'
<1> DEFINE r == [at |-> "teardown"]
<1>0. /\ CoreTypes /\ StartingOk /\ FreshOk /\ TearingOk
      /\ CapRespected /\ OneSeatEach /\ NoOrphanEngine /\ TornDownOnce
  BY DEF IInv
<1>1. /\ table' = table \ gone
      /\ doomed' = [doomed EXCEPT ![w] = gone]
      /\ work' = [work EXCEPT ![w] = r]
      /\ UNCHANGED <<lock, seats, engine>>
  BY DEF Forget, procVars
<1>2. r \in Between /\ r.at = "teardown"
  BY DEF Between
<1> HIDE DEF r
<1>3. /\ work'[w] = r /\ \A x \in Workers \ {w} : work'[x] = work[x]
      /\ doomed'[w] = gone /\ \A x \in Workers \ {w} : doomed'[x] = doomed[x]
  BY <1>0, <1>1 DEF CoreTypes
<1>4. CoreTypes'
  <2>1. IsFiniteSet(table')
    BY <1>0, <1>1, FS_Subset DEF CoreTypes
  <2> QED
    BY <1>0, <1>1, <1>2, <2>1 DEF CoreTypes
<1>5. doomed[w] = {}
  BY <1>0 DEF TearingOk, InTeardown
<1>6. StartingOk'
  <2>1. Nobody \notin Workers
    BY RegistryAssumption DEF Nobody
  <2> QED
    BY <1>0, <1>2, <1>3, <2>1 DEF StartingOk
<1>7. FreshOk'
  BY <1>0, <1>1, <1>3 DEF FreshOk, Unused
<1>8. TearingOk'
  BY <1>0, <1>2, <1>3 DEF TearingOk, InTeardown
<1>9. OneSeatEach'
  BY <1>0, <1>1 DEF OneSeatEach
<1>10. NoOrphanEngine'
  BY <1>0, <1>1, <1>2, <1>3, <1>5 DEF NoOrphanEngine
<1>11. TornDownOnce'
  BY <1>0, <1>1, <1>3 DEF TornDownOnce
<1>12. CapRespected'
  <2> SUFFICES ASSUME NEW v \in Users
               PROVE  Cardinality(SessionsOf(v)') <= MaxPerUser
    BY DEF CapRespected
  <2>1. SessionsOf(v)' \subseteq SessionsOf(v)
    BY <1>1 DEF SessionsOf, Holds
  <2> QED
    BY <1>0, <2>1, FewerStayWithin DEF CapRespected, CoreTypes
<1> QED
  BY <1>4, <1>6, <1>7, <1>8, <1>9, <1>10, <1>11, <1>12 DEF IInv

LEMMA StopEngineKeeps ==
    ASSUME IInv, NEW w \in Workers, StopEngine(w)
    PROVE  IInv'
<1> DEFINE s == work[w].session
           r == IF Remaining(w) = {} THEN Resting ELSE [at |-> "teardown"]
<1>0. /\ CoreTypes /\ StartingOk /\ FreshOk /\ TearingOk
      /\ CapRespected /\ OneSeatEach /\ NoOrphanEngine /\ TornDownOnce
  BY DEF IInv
<1>1. /\ work[w].at = "stopping"
      /\ engine' = [engine EXCEPT ![s] = "stopped"]
      /\ doomed' = [doomed EXCEPT ![w] = doomed[w] \ {s}]
      /\ work' = [work EXCEPT ![w] = r]
      /\ UNCHANGED <<lock, table, seats>>
  BY DEF StopEngine, Remaining, tableVars
<1>2. s \in doomed[w] /\ s \in Sessions
  BY <1>0, <1>1 DEF TearingOk, CoreTypes
<1>3. /\ r \in Between
      /\ r.at \in {"idle", "teardown"}
      /\ doomed[w] \ {s} # {} => r.at = "teardown"
  BY DEF Between, Resting, Remaining
<1> HIDE DEF s, r
<1>4. CoreTypes'
  BY <1>0, <1>1, <1>3 DEF CoreTypes
<1>5. /\ work'[w] = r /\ \A x \in Workers \ {w} : work'[x] = work[x]
      /\ doomed'[w] = doomed[w] \ {s}
      /\ \A x \in Workers \ {w} : doomed'[x] = doomed[x]
      /\ engine'[s] = "stopped" /\ \A t \in Sessions \ {s} : engine'[t] = engine[t]
  BY <1>0, <1>1, <1>2 DEF CoreTypes
<1>6. \A v : Capped(v)' = Capped(v)
  BY <1>1 DEF Capped, SessionsOf, Holds
<1>7. \A t : Unused(t) => Unused(t)'
  BY <1>1, <1>5 DEF Unused
<1>8. ~Unused(s)
  BY <1>2 DEF Unused
<1>9. StartingOk'
  <2>1. \A x \in Workers : work'[x].at = "starting" => x # w /\ work'[x] = work[x]
    BY <1>3, <1>5
  <2>2. ASSUME NEW x \in Workers, work[x].at = "starting"
        PROVE  work[x].session \in Sessions \ {s}
    <3>1. work[x] \in Creating
      BY <1>0, <2>2, Shapes
    <3>2. work[x].session \in Sessions
      BY <3>1 DEF Creating
    <3> QED
      BY <1>0, <1>8, <2>2, <3>2 DEF StartingOk
  <2> QED
    BY <1>0, <1>1, <1>5, <1>6, <1>7, <2>1, <2>2 DEF StartingOk
<1>10. FreshOk'
  BY <1>0, <1>5, <1>7 DEF FreshOk
<1>11. TearingOk'
  BY <1>0, <1>3, <1>5 DEF TearingOk, InTeardown
<1>12. OneSeatEach'
  BY <1>0, <1>1 DEF OneSeatEach
<1>13. NoOrphanEngine'
  <2> SUFFICES ASSUME NEW t \in Sessions, engine'[t] = "running", t \notin table'
               PROVE  \E x \in Workers :
                         t \in doomed'[x] \/ (work'[x].at = "starting" /\ work'[x].session = t)
    BY DEF NoOrphanEngine
  <2>1. t # s /\ engine[t] = "running" /\ t \notin table
    BY <1>1, <1>5
  <2>2. PICK x \in Workers :
               t \in doomed[x] \/ (work[x].at = "starting" /\ work[x].session = t)
    BY <1>0, <2>1 DEF NoOrphanEngine
  <2> QED
    BY <1>1, <1>5, <2>1, <2>2
<1>14. TornDownOnce'
  BY <1>0, <1>1, <1>2, <1>5 DEF TornDownOnce, CoreTypes
<1>15. CapRespected'
  BY <1>0, <1>1 DEF CapRespected, SessionsOf, Holds
<1> QED
  BY <1>4, <1>9, <1>10, <1>11, <1>12, <1>13, <1>14, <1>15 DEF IInv

\* An engine that ends by itself has still been started: its session stays listed,
\* or whoever is starting or stopping it goes on.
LEMMA EngineEndsKeeps ==
    ASSUME IInv, NEW s \in Sessions, EngineEnds(s)
    PROVE  IInv'
<1>0. /\ CoreTypes /\ StartingOk /\ FreshOk /\ TearingOk
      /\ CapRespected /\ OneSeatEach /\ NoOrphanEngine /\ TornDownOnce
  BY DEF IInv
<1>1. /\ engine[s] = "running"
      /\ engine' = [engine EXCEPT ![s] = "ended"]
      /\ UNCHANGED <<lock, table, seats, work, doomed>>
  BY DEF EngineEnds, tableVars
<1>2. engine'[s] = "ended" /\ \A t \in Sessions \ {s} : engine'[t] = engine[t]
  BY <1>0, <1>1 DEF CoreTypes
<1>3. \A t \in Sessions : engine[t] \in Started => engine'[t] \in Started
  BY <1>2 DEF Started
<1>4. CoreTypes'
  BY <1>0, <1>1 DEF CoreTypes
<1>5. (\A u : Capped(u)' = Capped(u)) /\ (\A t : Unused(t)' = Unused(t))
  BY <1>1 DEF Capped, SessionsOf, Holds, Unused
<1>6. StartingOk'
  <2> SUFFICES ASSUME NEW w \in Workers, work[w].at = "starting"
               PROVE  /\ lock = w /\ engine'[work[w].session] \in Started
                      /\ Unused(work[w].session) /\ ~Capped(work[w].user)
    BY <1>1, <1>5 DEF StartingOk
  <2>1. work[w].session \in Sessions
    BY <1>0, Shapes DEF Creating
  <2> QED
    BY <1>0, <1>3, <2>1 DEF StartingOk
<1>7. FreshOk'
  BY <1>0, <1>2, <1>5 DEF FreshOk
<1>8. TearingOk' /\ OneSeatEach'
  BY <1>0, <1>1 DEF TearingOk, OneSeatEach
<1>9. NoOrphanEngine'
  BY <1>0, <1>1, <1>2 DEF NoOrphanEngine
<1>10. TornDownOnce'
  BY <1>0, <1>1, <1>3 DEF TornDownOnce, CoreTypes
<1>11. CapRespected'
  BY <1>0, <1>1 DEF CapRespected, SessionsOf, Holds
<1> QED
  BY <1>4, <1>6, <1>7, <1>8, <1>9, <1>10, <1>11 DEF IInv

------------------------------------------------------------------------------
(* The invariant. *)

LEMMA Start == Init => IInv
<1> SUFFICES ASSUME Init
             PROVE  IInv
  OBVIOUS
<1>1. /\ lock = Nobody /\ table = {}
      /\ seats = [s \in Sessions |-> [r \in Seats |-> Nobody]]
      /\ engine = [s \in Sessions |-> "none"]
      /\ work = [w \in Workers |-> Resting]
      /\ doomed = [w \in Workers |-> {}]
  BY DEF Init
<1>2. Resting \in Between /\ Resting.at = "idle"
  BY DEF Resting, Between
<1>3. CoreTypes
  <2>1. IsFiniteSet(table)
    BY <1>1, FS_EmptySet
  <2> QED
    BY <1>1, <1>2, <2>1 DEF CoreTypes
<1>4. StartingOk /\ FreshOk /\ TearingOk
  BY <1>1, <1>2 DEF StartingOk, FreshOk, TearingOk, Unused
<1>5. OneSeatEach /\ NoOrphanEngine /\ TornDownOnce
  BY <1>1 DEF OneSeatEach, NoOrphanEngine, TornDownOnce
<1>6. CapRespected
  <2>1. \A u : SessionsOf(u) = {}
    BY <1>1 DEF SessionsOf
  <2>2. Cardinality({}) = 0 /\ MaxPerUser \in Nat
    BY FS_EmptySet, RegistryAssumption
  <2> QED
    BY <2>1, <2>2 DEF CapRespected
<1> QED
  BY <1>3, <1>4, <1>5, <1>6 DEF IInv

LEMMA Step == IInv /\ [Next]_vars => IInv'
<1> SUFFICES ASSUME IInv, [Next]_vars
             PROVE  IInv'
  OBVIOUS
<1> USE DEF core, tableVars, procVars
<1>1. ASSUME NEW w \in Workers, Requests(w)
      PROVE  IInv'
  <2>1. CASE \E u \in Users, s \in Sessions : Create(w, u, s)
    BY <2>1, CreateKeeps
  <2>2. CASE \E u \in Users, s \in Sessions : Join(w, u, s)
    BY <2>2, JoinKeeps
  <2>3. CASE \E u \in Users, s \in Sessions : Send(w, u, s)
    BY <2>3, HandlingKeeps
  <2>4. CASE \E u \in Users, s \in Sessions : Close(w, u, s)
    BY <2>4, ForgetKeeps DEF Close, MayClose, Visible
  <2>5. CASE Reap(w)
    BY <2>5, ForgetKeeps DEF Reap
  <2>6. CASE Shutdown(w)
    BY <2>6, ForgetKeeps DEF Shutdown
  <2> QED
    BY <1>1, <2>1, <2>2, <2>3, <2>4, <2>5, <2>6 DEF Requests
<1>2. ASSUME NEW w \in Workers, RunOn(w)
      PROVE  IInv'
  BY <1>2, RegisterKeeps, StartFailsKeeps, HandlingKeeps, StopEngineKeeps DEF RunOn
<1>3. ASSUME NEW s \in Sessions, Age(s) \/ EngineEnds(s) \/ Listening(s)
      PROVE  IInv'
  BY <1>3, StutterKeeps, EngineEndsKeeps DEF Age, Listening, Store, FanOut, Emit
<1>4. CASE Loop
  <2>1. CASE Deliver
    BY <2>1, StutterKeeps DEF Deliver
  <2>2. CASE \E b \in Tabs : Disconnect(b) \/ \E u \in Users, s \in Sessions : Subscribe(b, u, s)
    BY <2>2, StutterKeeps DEF Disconnect, Subscribe
  <2>3. CASE \E b \in Tabs : Copying(b)
    BY <2>3, StutterKeeps DEF Copying, CopyBegin, CopyNext, CopyEnd, CopyAdd
  <2> QED
    BY <1>4, <2>1, <2>2, <2>3 DEF Loop
<1>5. CASE UNCHANGED vars
  BY <1>5, StutterKeeps DEF vars
<1> QED
  BY <1>1, <1>2, <1>3, <1>4, <1>5 DEF Next

\* The inductive invariant: what the cap was computed from holds until the session
\* is registered, and whatever runs has somebody who answers for it.
THEOREM Invariance == Spec => []IInv
<1>1. Init => IInv
  BY Start
<1>2. IInv /\ [Next]_vars => IInv'
  BY Step
<1> QED
  BY <1>1, <1>2, PTL DEF Spec

\* However requests interleave, nobody holds seats in more sessions than
\* max_sessions_per_user.
THEOREM CapAlwaysRespected == Spec => []CapRespected
<1>1. IInv => CapRespected
  BY DEF IInv
<1> QED
  BY <1>1, Invariance, PTL

\* Nobody ever holds two seats of a session.
THEOREM AlwaysOneSeatEach == Spec => []OneSeatEach
<1>1. IInv => OneSeatEach
  BY DEF IInv
<1> QED
  BY <1>1, Invariance, PTL

\* Every engine that runs is registered, being started or being stopped.
THEOREM NeverAnOrphan == Spec => []NoOrphanEngine
<1>1. IInv => NoOrphanEngine
  BY DEF IInv
<1> QED
  BY <1>1, Invariance, PTL

\* A session is torn down by one request, and only when it is no longer listed:
\* nobody stops the engine of a session that still is, whether that engine still
\* runs or has ended by itself.
THEOREM AlwaysTornDownOnce == Spec => []TornDownOnce
<1>1. IInv => TornDownOnce
  BY DEF IInv
<1> QED
  BY <1>1, Invariance, PTL

------------------------------------------------------------------------------
(* What the tabs are sent.  A tab is in three stages: it has no queue before *)
(* it subscribes; while the last envelopes are copied nobody else writes to  *)
(* its queue, since it is no subscriber yet (JoinedOk), and a type is copied *)
(* once (ReplayOk); and from then on it is sent what is emitted from then    *)
(* on, so no number that waits in the loop is below one in its queue         *)
(* (PendingOk).                                                              *)

Unsubscribed == [at : {"new"}]
Attached == [at : {"copy", "add", "failed", "open", "gone"}, session : Sessions]
Replaying == [at : {"copying"}, session : Sessions, keys : SUBSET Types,
              left : SUBSET Types]
Stages == Unsubscribed \cup Attached \cup Replaying

\* Where a tab is that live envelopes may be under way to.
Live == {"open", "gone"}

DeliveryTypes ==
    /\ listener \in [Sessions -> {"off", "read", "found", "stored"}]
    /\ emitted \in [Sessions -> Seq(Types)]
    /\ last \in [Sessions -> [Types -> Nat]]
    /\ members \in [Sessions -> SUBSET Tabs]
    /\ \A s \in Sessions : IsFiniteSet(members[s])
    /\ tab \in [Tabs -> Stages]
    /\ queue \in [Tabs -> Seq(Nat)]
    /\ ready \in Seq([to : Tabs, number : Nat])

ReadOk == \A s \in Sessions : listener[s] \in {"found", "stored"} => emitted[s] # <<>>

StoredOk ==
    \A s \in Sessions : \A t \in Types :
        /\ last[s][t] <= Len(emitted[s])
        /\ last[s][t] > 0 => emitted[s][last[s][t]] = t

JoinedOk ==
    /\ \A s \in Sessions : \A b \in members[s] : tab[b].at \in Live /\ tab[b].session = s
    /\ \A i \in DOMAIN ready : tab[ready[i].to].at \in Live

ReplayOk ==
    \A b \in Tabs :
        /\ tab[b].at \in {"new", "copy"} => queue[b] = <<>>
        /\ tab[b].at = "copying" =>
              /\ tab[b].left \subseteq tab[b].keys
              /\ \A i \in DOMAIN queue[b] :
                     emitted[tab[b].session][queue[b][i]] \notin tab[b].left

EmittedOk ==
    /\ \A b \in Tabs : \A i \in DOMAIN queue[b] :
          queue[b][i] \in 1..Len(emitted[tab[b].session])
    /\ \A i \in DOMAIN ready : ready[i].number \in 1..Len(emitted[tab[ready[i].to].session])

PendingOk ==
    /\ \A j \in DOMAIN ready : \A i \in DOMAIN queue[ready[j].to] :
          queue[ready[j].to][i] <= ready[j].number
    /\ \A i, j \in DOMAIN ready :
          i < j /\ ready[i].to = ready[j].to => ready[i].number <= ready[j].number

DInv ==
    /\ DeliveryTypes
    /\ ReadOk
    /\ StoredOk
    /\ JoinedOk
    /\ ReplayOk
    /\ EmittedOk
    /\ PendingOk
    /\ NeverBackwards

delivery == <<emitted, last, members, tab, queue, ready>>

\* The shape of a tab's subscription, by where it is.
LEMMA StageShapes ==
    ASSUME NEW r \in Stages
    PROVE  /\ r.at = "new" => r \in Unsubscribed
           /\ r.at = "copying" => r \in Replaying
           /\ r.at \in {"copy", "add", "failed", "open", "gone"} => r \in Attached
           /\ r.at # "new" => r.session \in Sessions
<1>1. CASE r \in Unsubscribed
  BY <1>1 DEF Unsubscribed
<1>2. CASE r \in Attached
  BY <1>2 DEF Attached
<1>3. CASE r \in Replaying
  BY <1>3 DEF Replaying
<1> QED
  BY <1>1, <1>2, <1>3 DEF Stages

\* SetToSeq() lists members only.
LEMMA ListsMembers ==
    ASSUME NEW S, IsFiniteSet(S)
    PROVE  /\ Cardinality(S) \in Nat
           /\ SetToSeq(S) \in [1..Cardinality(S) -> S]
<1>1. Cardinality(S) \in Nat /\ ExistsBijection(1..Cardinality(S), S)
  BY FS_CardinalityType
<1>2. PICK f \in Bijection(1..Cardinality(S), S) : TRUE
  BY <1>1 DEF ExistsBijection
<1>3. f \in [1..Cardinality(S) -> S] /\ IsInjective(f)
  BY <1>2 DEF Bijection, Injection
<1> QED
  BY <1>1, <1>3 DEF SetToSeq

\* The items of a sequence, and of one that gets an item more.
LEMMA SequenceItems ==
    ASSUME NEW S, NEW q \in Seq(S)
    PROVE  /\ DOMAIN q = 1..Len(q)
           /\ Len(q) \in Nat
           /\ \A i \in DOMAIN q : q[i] \in S
           /\ q # <<>> => Len(q) \in DOMAIN q
OBVIOUS

LEMMA OneMoreItem ==
    ASSUME NEW S, NEW q \in Seq(S), NEW x \in S
    PROVE  /\ Append(q, x) \in Seq(S)
           /\ Append(q, x) # <<>>
           /\ Len(Append(q, x)) = Len(q) + 1
           /\ DOMAIN Append(q, x) = 1..(Len(q) + 1)
           /\ \A i \in 1..Len(q) : Append(q, x)[i] = q[i]
           /\ Append(q, x)[Len(q) + 1] = x
OBVIOUS

LEMMA OneItemLess ==
    ASSUME NEW S, NEW q \in Seq(S), q # <<>>
    PROVE  /\ Head(q) = q[1]
           /\ 1 \in DOMAIN q
           /\ Tail(q) \in Seq(S)
           /\ \A i \in DOMAIN Tail(q) : i \in Nat /\ i + 1 \in DOMAIN q /\ Tail(q)[i] = q[i + 1]
OBVIOUS

LEMMA FunctionIsSequence ==
    ASSUME NEW S, NEW k \in Nat, NEW f \in [1..k -> S]
    PROVE  f \in Seq(S) /\ DOMAIN f = 1..k
OBVIOUS

LEMMA TwoSequences ==
    ASSUME NEW S, NEW q \in Seq(S), NEW p \in Seq(S)
    PROVE  /\ q \o p \in Seq(S)
           /\ \A i \in DOMAIN (q \o p) :
                 \/ i \in DOMAIN q /\ (q \o p)[i] = q[i]
                 \/ i - Len(q) \in DOMAIN p /\ (q \o p)[i] = p[i - Len(q)]
OBVIOUS

\* What waits in the loop.
LEMMA ReadyItems ==
    ASSUME DeliveryTypes
    PROVE  \A i \in DOMAIN ready : /\ ready[i] \in [to : Tabs, number : Nat]
                                  /\ ready[i].to \in Tabs /\ ready[i].number \in Nat
<1>1. ready \in Seq([to : Tabs, number : Nat])
  BY DEF DeliveryTypes
<1>2. \A i \in DOMAIN ready : ready[i] \in [to : Tabs, number : Nat]
  BY <1>1, SequenceItems
<1> QED
  BY <1>2

\* Nothing that the tabs are sent changes.
LEMMA QuietKeeps ==
    ASSUME DInv, UNCHANGED delivery, ReadOk',
           listener' \in [Sessions -> {"off", "read", "found", "stored"}]
    PROVE  DInv'
<1>1. DeliveryTypes' /\ StoredOk' /\ JoinedOk'
  BY DEF DInv, delivery, DeliveryTypes, StoredOk, JoinedOk
<1>2. ReplayOk' /\ EmittedOk' /\ PendingOk' /\ NeverBackwards'
  BY DEF DInv, delivery, ReplayOk, EmittedOk, PendingOk, NeverBackwards
<1> QED
  BY <1>1, <1>2 DEF DInv

\* A listener that starts or stops reads nothing.
LEMMA ListenerKeeps ==
    ASSUME DInv, UNCHANGED delivery,
           \/ UNCHANGED listener
           \/ \E s : listener' = [listener EXCEPT ![s] = "read"]
           \/ \E s : listener' = [listener EXCEPT ![s] = IF @ = "read" THEN "off" ELSE @]
    PROVE  DInv'
<1>0. DeliveryTypes /\ ReadOk
  BY DEF DInv
<1>1. listener' \in [Sessions -> {"off", "read", "found", "stored"}]
  BY <1>0 DEF DeliveryTypes
<1>2. \A s \in Sessions : listener'[s] \in {"found", "stored"} => listener'[s] = listener[s]
  BY <1>0 DEF DeliveryTypes
<1>3. ReadOk'
  BY <1>0, <1>2 DEF ReadOk, delivery
<1> QED
  BY <1>1, <1>3, QuietKeeps

\* A subscription goes on; nobody's queue changes.
LEMMA StageKeeps ==
    ASSUME DInv, NEW b \in Tabs, NEW r \in Stages,
           tab' = [tab EXCEPT ![b] = r],
           UNCHANGED <<listener, emitted, last, queue, ready>>,
           members' \in [Sessions -> SUBSET Tabs],
           \A s \in Sessions : IsFiniteSet(members'[s]),
           \A s \in Sessions : \A c \in members'[s] :
               c \in members[s] \/ (c = b /\ r.at \in Live /\ r.session = s),
           r.at # "new",
           tab[b].at # "new" => r.session = tab[b].session,
           r.at = "copy" => tab[b].at = "new",
           r.at = "copying" => tab[b].at = "copy" /\ r.left \subseteq r.keys,
           tab[b].at \in Live => r.at \in Live
    PROVE  DInv'
<1>0. /\ DeliveryTypes /\ ReadOk /\ StoredOk /\ JoinedOk
      /\ ReplayOk /\ EmittedOk /\ PendingOk /\ NeverBackwards
  BY DEF DInv
<1>1. tab'[b] = r /\ \A c \in Tabs \ {b} : tab'[c] = tab[c]
  BY <1>0 DEF DeliveryTypes
<1>2. \A c \in Tabs : queue[c] # <<>> => tab'[c].session = tab[c].session
  BY <1>0, <1>1 DEF ReplayOk
<1>3. \A c \in Tabs : DOMAIN queue[c] # {} => queue[c] # <<>>
  BY <1>0 DEF DeliveryTypes
<1>4. \A i \in DOMAIN ready : ready[i].to \in Tabs
  BY <1>0, ReadyItems
<1>5. \A i \in DOMAIN ready :
         /\ tab'[ready[i].to].session = tab[ready[i].to].session
         /\ tab'[ready[i].to].at \in Live
  BY <1>0, <1>1, <1>4 DEF JoinedOk, Live
<1>6. DeliveryTypes'
  BY <1>0 DEF DeliveryTypes
<1>7. ReadOk' /\ StoredOk'
  BY <1>0 DEF ReadOk, StoredOk
<1>8. JoinedOk'
  <2>1. ASSUME NEW s \in Sessions, NEW c \in members'[s]
        PROVE  tab'[c].at \in Live /\ tab'[c].session = s
    <3>1. CASE c \in members[s]
      <4>1. tab[c].at \in Live /\ tab[c].session = s /\ c \in Tabs
        BY <1>0, <3>1 DEF JoinedOk, DeliveryTypes
      <4> QED
        BY <1>1, <4>1 DEF Live
    <3>2. CASE c = b /\ r.at \in Live /\ r.session = s
      BY <1>1, <3>2
    <3> QED
      BY <2>1, <3>1, <3>2
  <2> QED
    BY <1>5, <2>1 DEF JoinedOk
<1>9. ReplayOk'
  <2> SUFFICES ASSUME NEW c \in Tabs
               PROVE  /\ tab'[c].at \in {"new", "copy"} => queue[c] = <<>>
                      /\ tab'[c].at = "copying" =>
                            /\ tab'[c].left \subseteq tab'[c].keys
                            /\ \A i \in DOMAIN queue[c] :
                                  emitted[tab'[c].session][queue[c][i]] \notin tab'[c].left
    BY DEF ReplayOk
  <2>1. CASE c = b
    <3>1. tab'[c].at \in {"new", "copy", "copying"} => queue[c] = <<>>
      BY <1>0, <1>1, <2>1 DEF ReplayOk
    <3> QED
      BY <1>1, <1>3, <2>1, <3>1
  <2>2. CASE c # b
    BY <1>0, <1>1, <2>2 DEF ReplayOk
  <2> QED
    BY <2>1, <2>2
<1>10. EmittedOk'
  BY <1>0, <1>2, <1>3, <1>5 DEF EmittedOk
<1>11. PendingOk'
  BY <1>0 DEF PendingOk
<1>12. NeverBackwards'
  BY <1>0, <1>2, <1>3 DEF NeverBackwards
<1> QED
  BY <1>6, <1>7, <1>8, <1>9, <1>10, <1>11, <1>12 DEF DInv

\* The steps of a subscription that leave the queues alone.
LEMMA SubscribeKeeps ==
    ASSUME DInv, NEW b \in Tabs, NEW u \in Users, NEW s \in Sessions, Subscribe(b, u, s)
    PROVE  DInv'
<1> DEFINE r == [at |-> "copy", session |-> s]
<1>1. r \in Stages /\ r.at = "copy" /\ r.session = s
  BY DEF Stages, Attached
<1>2. tab[b].at = "new" /\ tab' = [tab EXCEPT ![b] = r]
  BY DEF Subscribe
<1>3. UNCHANGED <<listener, emitted, last, members, queue, ready>>
  BY DEF Subscribe, eventVars
<1>4. DeliveryTypes
  BY DEF DInv
<1>5. /\ members' \in [Sessions -> SUBSET Tabs]
      /\ \A x \in Sessions : IsFiniteSet(members'[x])
  BY <1>3, <1>4 DEF DeliveryTypes
<1> HIDE DEF r
<1> QED
  BY <1>1, <1>2, <1>3, <1>5, StageKeeps DEF Live

LEMMA CopyBeginKeeps ==
    ASSUME DInv, NEW b \in Tabs, CopyBegin(b)
    PROVE  DInv'
<1> DEFINE s == tab[b].session
           r == [at |-> "copying", session |-> s, keys |-> TypesSeen(s),
                 left |-> TypesSeen(s)]
<1>1. DeliveryTypes /\ tab[b].at = "copy"
  BY DEF DInv, CopyBegin
<1>2. tab[b] \in Stages /\ s \in Sessions
  <2>1. tab[b] \in Stages
    BY <1>1 DEF DeliveryTypes
  <2> QED
    BY <1>1, <2>1, StageShapes
<1>3. TypesSeen(s) \subseteq Types
  BY DEF TypesSeen
<1>4. r \in Stages /\ r.at = "copying" /\ r.session = s /\ r.left \subseteq r.keys
  BY <1>2, <1>3 DEF Stages, Replaying
<1>5. tab' = [tab EXCEPT ![b] = r]
  BY DEF CopyBegin
<1>6. UNCHANGED <<listener, emitted, last, members, queue, ready>>
  BY DEF CopyBegin, eventVars
<1>7. /\ members' \in [Sessions -> SUBSET Tabs]
      /\ \A x \in Sessions : IsFiniteSet(members'[x])
  BY <1>1, <1>6 DEF DeliveryTypes
<1> HIDE DEF r, s
<1>8. r.session = tab[b].session
  BY <1>4 DEF s
<1> QED
  BY <1>1, <1>4, <1>5, <1>6, <1>7, <1>8, StageKeeps DEF Live

LEMMA CopyEndKeeps ==
    ASSUME DInv, NEW b \in Tabs, CopyEnd(b)
    PROVE  DInv'
<1> DEFINE r == [at |-> IF TypesSeen(tab[b].session) # tab[b].keys THEN "failed" ELSE "add",
                 session |-> tab[b].session]
<1>1. DeliveryTypes /\ tab[b].at = "copying"
  BY DEF DInv, CopyEnd
<1>2. tab[b].session \in Sessions
  <2>1. tab[b] \in Stages
    BY <1>1 DEF DeliveryTypes
  <2> QED
    BY <1>1, <2>1, StageShapes
<1>3. r \in Stages /\ r.at \in {"failed", "add"} /\ r.session = tab[b].session
  BY <1>2 DEF Stages, Attached
<1>4. tab' = [tab EXCEPT ![b] = r]
  BY DEF CopyEnd
<1>5. UNCHANGED <<listener, emitted, last, members, queue, ready>>
  BY DEF CopyEnd, eventVars
<1>6. /\ members' \in [Sessions -> SUBSET Tabs]
      /\ \A x \in Sessions : IsFiniteSet(members'[x])
  BY <1>1, <1>5 DEF DeliveryTypes
<1> HIDE DEF r
<1> QED
  BY <1>1, <1>3, <1>4, <1>5, <1>6, StageKeeps DEF Live

\* Another place for a tab that is subscribed or about to be.
LEMMA MoveOn ==
    ASSUME NEW r \in Stages, r.at \in {"add", "open"}, NEW a \in {"open", "gone"}
    PROVE  /\ [r EXCEPT !.at = a] \in Stages
           /\ [r EXCEPT !.at = a].at = a
           /\ [r EXCEPT !.at = a].session = r.session
           /\ r.session \in Sessions
<1>1. r \in Attached
  BY StageShapes
<1>2. [r EXCEPT !.at = a] \in Attached
  BY <1>1 DEF Attached
<1> QED
  BY <1>1, <1>2 DEF Attached, Stages

LEMMA CopyAddKeeps ==
    ASSUME DInv, NEW b \in Tabs, CopyAdd(b)
    PROVE  DInv'
<1> DEFINE s == tab[b].session
           r == [tab[b] EXCEPT !.at = "open"]
<1>1. DeliveryTypes /\ tab[b].at = "add"
  BY DEF DInv, CopyAdd
<1>2. tab[b] \in Stages
  BY <1>1 DEF DeliveryTypes
<1>3. r \in Stages /\ r.at = "open" /\ r.session = s /\ s \in Sessions
  BY <1>1, <1>2, MoveOn
<1>4. tab' = [tab EXCEPT ![b] = r] /\ members' = [members EXCEPT ![s] = @ \cup {b}]
  BY DEF CopyAdd
<1>5. UNCHANGED <<listener, emitted, last, queue, ready>>
  BY DEF CopyAdd, eventVars
<1> HIDE DEF r, s
<1>6. members'[s] = members[s] \cup {b} /\ \A x \in Sessions \ {s} : members'[x] = members[x]
  BY <1>1, <1>3, <1>4 DEF DeliveryTypes
<1>7. members' \in [Sessions -> SUBSET Tabs]
  BY <1>1, <1>3, <1>4 DEF DeliveryTypes
<1>8. IsFiniteSet(members[s] \cup {b})
  BY <1>1, <1>3, FS_AddElement DEF DeliveryTypes
<1>9. \A x \in Sessions : IsFiniteSet(members'[x])
  BY <1>1, <1>6, <1>8 DEF DeliveryTypes
<1>10. \A x \in Sessions : \A c \in members'[x] :
           c \in members[x] \/ (c = b /\ r.at \in Live /\ r.session = x)
  BY <1>3, <1>6 DEF Live
<1>11. r.session = tab[b].session
  BY <1>3 DEF s
<1> QED
  BY <1>1, <1>3, <1>4, <1>5, <1>7, <1>9, <1>10, <1>11, StageKeeps DEF Live

LEMMA DisconnectKeeps ==
    ASSUME DInv, NEW b \in Tabs, Disconnect(b)
    PROVE  DInv'
<1> DEFINE s == tab[b].session
           r == [tab[b] EXCEPT !.at = "gone"]
<1>1. DeliveryTypes /\ tab[b].at = "open"
  BY DEF DInv, Disconnect
<1>2. tab[b] \in Stages
  BY <1>1 DEF DeliveryTypes
<1>3. r \in Stages /\ r.at = "gone" /\ r.session = s /\ s \in Sessions
  BY <1>1, <1>2, MoveOn
<1>4. /\ tab' = [tab EXCEPT ![b] = r]
      /\ members' = [members EXCEPT ![s] = IF s \in table THEN Staying(b, s) ELSE @]
  BY DEF Disconnect
<1>5. UNCHANGED <<listener, emitted, last, queue, ready>>
  BY DEF Disconnect, eventVars
<1> HIDE DEF r, s
<1>6. \A x \in Sessions : members'[x] \subseteq members[x]
  BY <1>1, <1>3, <1>4 DEF DeliveryTypes, Staying
<1>7. members' \in [Sessions -> SUBSET Tabs]
  BY <1>1, <1>3, <1>4 DEF DeliveryTypes, Staying
<1>8. \A x \in Sessions : IsFiniteSet(members'[x])
  BY <1>1, <1>6, FS_Subset DEF DeliveryTypes
<1>9. r.session = tab[b].session
  BY <1>3 DEF s
<1> QED
  BY <1>1, <1>3, <1>4, <1>5, <1>6, <1>7, <1>8, <1>9, StageKeeps DEF Live

\* The last envelope of a type that was not copied yet is queued.
LEMMA CopyNextKeeps ==
    ASSUME DInv, NEW b \in Tabs, NEW t \in Types, CopyNext(b, t)
    PROVE  DInv'
<1> DEFINE s == tab[b].session
           r == [tab[b] EXCEPT !.left = @ \ {t}]
           n == last[s][t]
<1>0. /\ DeliveryTypes /\ ReadOk /\ StoredOk /\ JoinedOk
      /\ ReplayOk /\ EmittedOk /\ PendingOk /\ NeverBackwards
  BY DEF DInv
<1>1. /\ tab[b].at = "copying" /\ TypesSeen(s) = tab[b].keys /\ t \in tab[b].left
      /\ queue' = [queue EXCEPT ![b] = Append(@, n)]
      /\ tab' = [tab EXCEPT ![b] = r]
      /\ UNCHANGED <<listener, emitted, last, members, ready>>
  BY DEF CopyNext, eventVars
<1>2. tab[b] \in Replaying
  <2>1. tab[b] \in Stages
    BY <1>0 DEF DeliveryTypes
  <2> QED
    BY <1>1, <2>1, StageShapes
<1>3. /\ r \in Stages /\ r.at = "copying" /\ r.session = s /\ s \in Sessions
      /\ r.left = tab[b].left \ {t}
  BY <1>2 DEF Replaying, Stages
<1>4. n \in 1..Len(emitted[s]) /\ emitted[s][n] = t
  <2>1. tab[b].left \subseteq TypesSeen(s)
    BY <1>0, <1>1 DEF ReplayOk
  <2>2. n > 0 /\ n \in Nat
    BY <1>0, <1>1, <1>3, <2>1 DEF TypesSeen, DeliveryTypes
  <2>3. Len(emitted[s]) \in Nat
    BY <1>0, <1>3 DEF DeliveryTypes
  <2> QED
    BY <1>0, <1>3, <2>2, <2>3 DEF StoredOk
<1> HIDE DEF r, s, n
<1>5. tab'[b] = r /\ \A c \in Tabs \ {b} : tab'[c] = tab[c]
  BY <1>0, <1>1 DEF DeliveryTypes
<1>6. \A c \in Tabs : tab'[c].session = tab[c].session /\ tab'[c].at = tab[c].at
  BY <1>1, <1>3, <1>5 DEF s
<1>7. queue'[b] = Append(queue[b], n) /\ \A c \in Tabs \ {b} : queue'[c] = queue[c]
  BY <1>0, <1>1 DEF DeliveryTypes
<1>8. queue[b] \in Seq(Nat) /\ n \in Nat
  BY <1>0, <1>4 DEF DeliveryTypes
<1>9. /\ queue'[b] \in Seq(Nat)
      /\ Len(queue[b]) \in Nat
      /\ DOMAIN queue[b] = 1..Len(queue[b])
      /\ DOMAIN queue'[b] = 1..(Len(queue[b]) + 1)
      /\ \A i \in 1..Len(queue[b]) : queue'[b][i] = queue[b][i]
      /\ queue'[b][Len(queue[b]) + 1] = n
  BY <1>7, <1>8, OneMoreItem, SequenceItems
<1>10. \A i \in DOMAIN queue'[b] :
           \/ i \in DOMAIN queue[b] /\ queue'[b][i] = queue[b][i]
           \/ i = Len(queue[b]) + 1 /\ queue'[b][i] = n
  BY SMTT(30), <1>9
<1>11. \A i \in DOMAIN ready : ready[i].to \in Tabs \ {b}
  BY <1>0, <1>1, ReadyItems DEF JoinedOk, Live
<1>12. DeliveryTypes'
  BY <1>0, <1>1, <1>3, <1>9 DEF DeliveryTypes
<1>13. ReadOk' /\ StoredOk'
  BY <1>0, <1>1 DEF ReadOk, StoredOk
<1>14. JoinedOk'
  <2>1. \A x \in Sessions : members[x] \subseteq Tabs
    BY <1>0 DEF DeliveryTypes
  <2> QED
    BY <1>0, <1>1, <1>6, <1>11, <2>1 DEF JoinedOk
<1>15. ReplayOk'
  <2>1. \A i \in DOMAIN queue[b] : emitted[s][queue[b][i]] \notin tab[b].left
    BY <1>0, <1>1 DEF ReplayOk, s
  <2>2. \A i \in DOMAIN queue'[b] : emitted[s][queue'[b][i]] \notin r.left
    BY <1>3, <1>4, <1>10, <2>1
  <2>3. r.left \subseteq r.keys
    BY <1>0, <1>1, <1>2, <1>3 DEF ReplayOk, Replaying, r
  <2> QED
    BY <1>0, <1>1, <1>3, <1>5, <1>7, <2>2, <2>3 DEF ReplayOk
<1>16. EmittedOk'
  <2>1. \A i \in DOMAIN queue'[b] : queue'[b][i] \in 1..Len(emitted[s])
    BY <1>0, <1>4, <1>10 DEF EmittedOk, s
  <2>2. \A i \in DOMAIN ready' :
            ready'[i].number \in 1..Len(emitted'[tab'[ready'[i].to].session])
    BY <1>0, <1>1, <1>6, <1>11 DEF EmittedOk
  <2> QED
    BY <1>0, <1>1, <1>3, <1>5, <1>7, <2>1, <2>2 DEF EmittedOk
<1>17. PendingOk'
  BY <1>0, <1>1, <1>7, <1>11 DEF PendingOk
<1>18. NeverBackwards'
  <2> SUFFICES ASSUME NEW c \in Tabs, NEW k \in DOMAIN queue'[c], NEW m \in DOMAIN queue'[c], k < m,
                      emitted'[tab'[c].session][queue'[c][k]]
                         = emitted'[tab'[c].session][queue'[c][m]]
               PROVE  queue'[c][k] <= queue'[c][m]
    BY DEF NeverBackwards
  <2>1. \A i \in DOMAIN queue[b] : emitted[s][queue[b][i]] # t
    BY <1>0, <1>1 DEF ReplayOk, s
  <2>2. ASSUME NEW i \in DOMAIN queue'[b], NEW j \in DOMAIN queue'[b], i < j,
               emitted[s][queue'[b][i]] = emitted[s][queue'[b][j]]
        PROVE  queue'[b][i] <= queue'[b][j]
    <3>1. i \in DOMAIN queue[b] /\ queue'[b][i] = queue[b][i]
      BY <1>9, <1>10, <2>2
    <3>2. j \in DOMAIN queue[b] /\ queue'[b][j] = queue[b][j]
      BY <1>4, <1>10, <2>1, <2>2, <3>1
    <3> QED
      BY <1>0, <2>2, <3>1, <3>2 DEF NeverBackwards, s
  <2> QED
    <3>1. CASE c = b
      BY <1>1, <1>3, <1>5, <2>2, <3>1
    <3>2. CASE c # b
      <4>1. queue'[c] = queue[c] /\ tab'[c] = tab[c] /\ emitted' = emitted
        BY <1>1, <1>5, <1>7, <3>2
      <4> QED
        BY <1>0, <4>1 DEF NeverBackwards
    <3> QED
      BY <3>1, <3>2
<1> QED
  BY <1>12, <1>13, <1>14, <1>15, <1>16, <1>17, <1>18 DEF DInv

\* The log grows at its end: what was emitted keeps its number.
LEMMA EmitKeeps ==
    ASSUME DInv, NEW s \in Sessions, NEW t \in Types, Emit(s, t)
    PROVE  DInv'
<1>0. /\ DeliveryTypes /\ ReadOk /\ StoredOk /\ JoinedOk
      /\ ReplayOk /\ EmittedOk /\ PendingOk /\ NeverBackwards
  BY DEF DInv
<1>1. /\ emitted' = [emitted EXCEPT ![s] = Append(@, t)]
      /\ listener' = [listener EXCEPT ![s] = IF s \in table THEN "found" ELSE @]
      /\ UNCHANGED <<last, members, tab, queue, ready>>
  BY DEF Emit, tabVars
<1>2. emitted[s] \in Seq(Types)
  BY <1>0 DEF DeliveryTypes
<1>3. /\ emitted'[s] \in Seq(Types) /\ emitted'[s] # <<>>
      /\ Len(emitted'[s]) = Len(emitted[s]) + 1
      /\ Len(emitted[s]) \in Nat
      /\ \A i \in 1..Len(emitted[s]) : emitted'[s][i] = emitted[s][i]
  <2>1. emitted'[s] = Append(emitted[s], t)
    BY <1>0, <1>1 DEF DeliveryTypes
  <2> QED
    BY <1>2, <2>1, OneMoreItem, SequenceItems
<1>4. \A x \in Sessions \ {s} : emitted'[x] = emitted[x] /\ listener'[x] = listener[x]
  BY <1>0, <1>1 DEF DeliveryTypes
<1>5. \A x \in Sessions :
          /\ Len(emitted[x]) \in Nat /\ Len(emitted'[x]) \in Nat
          /\ Len(emitted[x]) <= Len(emitted'[x])
          /\ \A i \in 1..Len(emitted[x]) : emitted'[x][i] = emitted[x][i]
  <2>1. \A x \in Sessions : Len(emitted[x]) \in Nat
    BY <1>0 DEF DeliveryTypes
  <2> QED
    BY <1>3, <1>4, <2>1
<1>6. DeliveryTypes'
  BY <1>0, <1>1, <1>3 DEF DeliveryTypes
<1>7. ReadOk'
  BY <1>0, <1>3, <1>4 DEF ReadOk
<1>8. StoredOk'
  <2>1. \A x \in Sessions : \A y \in Types : last[x][y] \in Nat
    BY <1>0 DEF DeliveryTypes
  <2> QED
    BY <1>0, <1>1, <1>5, <2>1 DEF StoredOk
<1>9. JoinedOk' /\ PendingOk'
  BY <1>0, <1>1 DEF JoinedOk, PendingOk
<1>10. \A c \in Tabs : \A i \in DOMAIN queue[c] :
           /\ tab[c].session \in Sessions
           /\ queue[c][i] \in 1..Len(emitted'[tab[c].session])
           /\ emitted'[tab[c].session][queue[c][i]] = emitted[tab[c].session][queue[c][i]]
  <2> SUFFICES ASSUME NEW c \in Tabs, NEW i \in DOMAIN queue[c]
               PROVE  /\ tab[c].session \in Sessions
                      /\ queue[c][i] \in 1..Len(emitted'[tab[c].session])
                      /\ emitted'[tab[c].session][queue[c][i]]
                            = emitted[tab[c].session][queue[c][i]]
    OBVIOUS
  <2>1. tab[c].at # "new"
    BY <1>0 DEF ReplayOk
  <2>2. tab[c] \in Stages
    BY <1>0 DEF DeliveryTypes
  <2>3. tab[c].session \in Sessions
    BY <2>1, <2>2, StageShapes
  <2>4. queue[c][i] \in 1..Len(emitted[tab[c].session])
    BY <1>0 DEF EmittedOk
  <2> QED
    BY <1>5, <2>3, <2>4
<1>11. \A i \in DOMAIN ready : ready[i].number \in 1..Len(emitted'[tab[ready[i].to].session])
  <2> SUFFICES ASSUME NEW i \in DOMAIN ready
               PROVE  ready[i].number \in 1..Len(emitted'[tab[ready[i].to].session])
    OBVIOUS
  <2>1. ready[i].to \in Tabs
    BY <1>0, ReadyItems
  <2>2. tab[ready[i].to].at # "new"
    BY <1>0 DEF JoinedOk, Live
  <2>3. tab[ready[i].to] \in Stages
    BY <1>0, <2>1 DEF DeliveryTypes
  <2>4. tab[ready[i].to].session \in Sessions
    BY <2>2, <2>3, StageShapes
  <2>5. ready[i].number \in 1..Len(emitted[tab[ready[i].to].session])
    BY <1>0 DEF EmittedOk
  <2> QED
    BY <1>5, <2>4, <2>5
<1>12. EmittedOk'
  BY <1>1, <1>10, <1>11 DEF EmittedOk
<1>13. ReplayOk'
  BY <1>0, <1>1, <1>10 DEF ReplayOk
<1>14. NeverBackwards'
  <2> SUFFICES ASSUME NEW c \in Tabs, NEW i \in DOMAIN queue'[c], NEW j \in DOMAIN queue'[c], i < j,
                      emitted'[tab'[c].session][queue'[c][i]]
                         = emitted'[tab'[c].session][queue'[c][j]]
               PROVE  queue'[c][i] <= queue'[c][j]
    BY DEF NeverBackwards
  <2>1. queue'[c] = queue[c] /\ tab'[c] = tab[c]
    BY <1>1
  <2>2. emitted[tab[c].session][queue[c][i]] = emitted[tab[c].session][queue[c][j]]
    BY <1>10, <2>1
  <2> QED
    BY <1>0, <2>1, <2>2 DEF NeverBackwards
<1> QED
  BY <1>6, <1>7, <1>8, <1>9, <1>12, <1>13, <1>14 DEF DInv

\* The newest envelope becomes the last one of its type.
LEMMA StoreKeeps ==
    ASSUME DInv, NEW s \in Sessions, Store(s)
    PROVE  DInv'
<1> DEFINE n == Len(emitted[s])
           y == emitted[s][n]
<1>0. /\ DeliveryTypes /\ ReadOk /\ StoredOk /\ JoinedOk
      /\ ReplayOk /\ EmittedOk /\ PendingOk /\ NeverBackwards
  BY DEF DInv
<1>1. /\ listener[s] = "found"
      /\ last' = [last EXCEPT ![s][y] = n]
      /\ listener' = [listener EXCEPT ![s] = "stored"]
      /\ UNCHANGED <<emitted, members, tab, queue, ready>>
  BY DEF Store, tabVars
<1>2. emitted[s] \in Seq(Types) /\ emitted[s] # <<>>
  BY <1>0, <1>1 DEF DeliveryTypes, ReadOk
<1>3. n \in Nat /\ n \in DOMAIN emitted[s] /\ y \in Types
  BY <1>2, SequenceItems
<1>4. last \in [Sessions -> [Types -> Nat]]
  BY <1>0 DEF DeliveryTypes
<1> HIDE DEF n, y
<1>5. last' \in [Sessions -> [Types -> Nat]]
  BY <1>1, <1>3, <1>4
<1>6. /\ last'[s][y] = n
      /\ \A x \in Sessions, z \in Types : (x # s \/ z # y) => last'[x][z] = last[x][z]
  BY <1>1, <1>3, <1>4
<1>7. DeliveryTypes'
  BY <1>0, <1>1, <1>5 DEF DeliveryTypes
<1>8. ReadOk'
  BY <1>0, <1>1, <1>2 DEF ReadOk, DeliveryTypes
<1>9. StoredOk'
  <2>1. n <= Len(emitted[s]) /\ emitted[s][n] = y
    BY <1>3 DEF n, y
  <2> QED
    BY <1>0, <1>1, <1>6, <2>1 DEF StoredOk
<1>10. JoinedOk' /\ PendingOk' /\ ReplayOk' /\ EmittedOk' /\ NeverBackwards'
  BY <1>0, <1>1 DEF JoinedOk, PendingOk, ReplayOk, EmittedOk, NeverBackwards
<1> QED
  BY <1>7, <1>8, <1>9, <1>10 DEF DInv

\* Every subscriber is sent the newest envelope.
LEMMA FanOutKeeps ==
    ASSUME DInv, NEW s \in Sessions, FanOut(s)
    PROVE  DInv'
<1> DEFINE n == Len(emitted[s])
           items == [i \in 1..Cardinality(members[s]) |->
                        [to |-> SetToSeq(members[s])[i], number |-> n]]
           Item == [to : Tabs, number : Nat]
<1>0. /\ DeliveryTypes /\ ReadOk /\ StoredOk /\ JoinedOk
      /\ ReplayOk /\ EmittedOk /\ PendingOk /\ NeverBackwards
  BY DEF DInv
<1>1. /\ listener[s] = "stored"
      /\ ready' = ready \o items
      /\ listener' = [listener EXCEPT ![s] = IF s \in table THEN "read" ELSE "off"]
      /\ UNCHANGED <<emitted, last, members, tab, queue>>
  BY DEF FanOut
<1>2. n \in Nat /\ n >= 1
  <2>1. emitted[s] \in Seq(Types) /\ emitted[s] # <<>>
    BY <1>0, <1>1 DEF DeliveryTypes, ReadOk
  <2> QED
    BY <2>1, SequenceItems
<1>3. members[s] \subseteq Tabs /\ IsFiniteSet(members[s])
  BY <1>0 DEF DeliveryTypes
<1>4. /\ Cardinality(members[s]) \in Nat
      /\ SetToSeq(members[s]) \in [1..Cardinality(members[s]) -> members[s]]
  BY <1>3, ListsMembers
<1>5. \A i \in 1..Cardinality(members[s]) :
          /\ items[i].to \in members[s] /\ items[i].number = n /\ items[i] \in Item
  BY <1>2, <1>3, <1>4
<1>6. items \in Seq(Item) /\ DOMAIN items = 1..Cardinality(members[s])
  <2> HIDE DEF Item
  <2>1. items \in [1..Cardinality(members[s]) -> Item]
    BY <1>5
  <2> HIDE DEF items
  <2> QED
    BY <1>4, <2>1, FunctionIsSequence
<1>7. ready \in Seq(Item) /\ DOMAIN ready = 1..Len(ready) /\ Len(ready) \in Nat
  BY <1>0, SequenceItems DEF DeliveryTypes
<1> HIDE DEF items, Item
<1>8. /\ ready' \in Seq(Item)
      /\ \A i \in DOMAIN ready' :
            \/ i \in DOMAIN ready /\ ready'[i] = ready[i]
            \/ i - Len(ready) \in DOMAIN items /\ ready'[i] = items[i - Len(ready)]
  <2>1. /\ ready \o items \in Seq(Item)
        /\ \A i \in DOMAIN (ready \o items) :
              \/ i \in DOMAIN ready /\ (ready \o items)[i] = ready[i]
              \/ /\ i - Len(ready) \in DOMAIN items
                 /\ (ready \o items)[i] = items[i - Len(ready)]
    <3>1. ready \in Seq(Item) /\ items \in Seq(Item)
      BY <1>6, <1>7
    <3> QED
      BY <3>1, TwoSequences
  <2> QED
    BY <1>1, <2>1
<1>9. \A i \in DOMAIN ready' : i \in Nat
  BY <1>8, SequenceItems
<1>10. \A i \in DOMAIN ready' :
           \/ i \in DOMAIN ready /\ ready'[i] = ready[i]
           \/ i > Len(ready) /\ ready'[i].to \in members[s] /\ ready'[i].number = n
  BY <1>5, <1>6, <1>7, <1>8, <1>9
<1> HIDE DEF n
<1>11. \A b \in members[s] : b \in Tabs /\ tab[b].at \in Live /\ tab[b].session = s
  BY <1>0, <1>3 DEF JoinedOk
<1>12. DeliveryTypes'
  BY <1>0, <1>1, <1>8 DEF DeliveryTypes, Item
<1>13. ReadOk' /\ StoredOk' /\ ReplayOk' /\ NeverBackwards'
  BY <1>0, <1>1 DEF DeliveryTypes, ReadOk, StoredOk, ReplayOk, NeverBackwards
<1>14. JoinedOk'
  BY <1>0, <1>1, <1>10, <1>11 DEF JoinedOk
<1>15. EmittedOk'
  <2>1. n \in 1..Len(emitted[s])
    BY <1>2 DEF n
  <2>2. \A i \in DOMAIN ready' : ready'[i].number \in 1..Len(emitted[tab[ready'[i].to].session])
    BY <1>0, <1>10, <1>11, <2>1 DEF EmittedOk
  <2> QED
    BY <1>0, <1>1, <2>2 DEF EmittedOk
<1>16. PendingOk'
  <2>1. ASSUME NEW j \in DOMAIN ready', NEW i \in DOMAIN queue[ready'[j].to]
        PROVE  queue[ready'[j].to][i] <= ready'[j].number
    <3>1. CASE j \in DOMAIN ready /\ ready'[j] = ready[j]
      BY <1>0, <2>1, <3>1 DEF PendingOk
    <3>2. CASE ready'[j].to \in members[s] /\ ready'[j].number = n
      <4>1. queue[ready'[j].to][i] \in 1..Len(emitted[s])
        BY <1>0, <1>11, <2>1, <3>2 DEF EmittedOk
      <4> QED
        BY <1>2, <3>2, <4>1 DEF n
    <3> QED
      BY <1>10, <3>1, <3>2
  <2>2. ASSUME NEW i \in DOMAIN ready', NEW j \in DOMAIN ready', i < j,
               ready'[i].to = ready'[j].to
        PROVE  ready'[i].number <= ready'[j].number
    <3>1. CASE j \in DOMAIN ready /\ ready'[j] = ready[j]
      <4>1. i \in DOMAIN ready /\ ready'[i] = ready[i]
        BY <1>7, <1>9, <1>10, <2>2, <3>1
      <4> QED
        BY <1>0, <2>2, <3>1, <4>1 DEF PendingOk
    <3>2. CASE ready'[j].to \in members[s] /\ ready'[j].number = n
      <4>1. CASE i \in DOMAIN ready /\ ready'[i] = ready[i]
        <5>1. ready[i].to \in members[s]
          BY <2>2, <3>2, <4>1
        <5>2. ready[i].number \in 1..Len(emitted[s])
          BY <1>0, <1>11, <4>1, <5>1 DEF EmittedOk
        <5> QED
          BY <1>2, <3>2, <4>1, <5>2 DEF n
      <4>2. CASE ready'[i].number = n
        BY <1>2, <3>2, <4>2
      <4> QED
        BY <1>10, <4>1, <4>2
    <3> QED
      BY <1>10, <3>1, <3>2
  <2> QED
    BY <1>1, <2>1, <2>2 DEF PendingOk
<1> QED
  BY <1>12, <1>13, <1>14, <1>15, <1>16 DEF DInv

\* The first callback that waits runs.
LEMMA DeliverKeeps ==
    ASSUME DInv, Deliver
    PROVE  DInv'
<1> DEFINE b == Head(ready).to
           n == Head(ready).number
           Item == [to : Tabs, number : Nat]
<1>0. /\ DeliveryTypes /\ ReadOk /\ StoredOk /\ JoinedOk
      /\ ReplayOk /\ EmittedOk /\ PendingOk /\ NeverBackwards
  BY DEF DInv
<1>1. /\ ready # <<>>
      /\ queue' = [queue EXCEPT ![b] = Append(@, n)]
      /\ ready' = Tail(ready)
      /\ UNCHANGED <<listener, emitted, last, members, tab>>
  BY DEF Deliver, eventVars
<1>2. ready \in Seq(Item)
  BY <1>0 DEF DeliveryTypes
<1> HIDE DEF Item
<1>3. /\ Head(ready) = ready[1] /\ 1 \in DOMAIN ready /\ ready' \in Seq(Item)
      /\ \A i \in DOMAIN ready' :
            i \in Nat /\ i + 1 \in DOMAIN ready /\ ready'[i] = ready[i + 1]
  BY <1>1, <1>2, OneItemLess
<1>4. /\ b = ready[1].to /\ n = ready[1].number
      /\ b \in Tabs /\ n \in Nat /\ tab[b].at \in Live
      /\ n \in 1..Len(emitted[tab[b].session])
  BY <1>0, <1>3, ReadyItems DEF JoinedOk, EmittedOk
<1> HIDE DEF b, n
<1>5. queue'[b] = Append(queue[b], n) /\ \A c \in Tabs \ {b} : queue'[c] = queue[c]
  BY <1>0, <1>1, <1>4 DEF DeliveryTypes
<1>6. queue[b] \in Seq(Nat)
  BY <1>0, <1>4 DEF DeliveryTypes
<1>7. /\ queue'[b] \in Seq(Nat)
      /\ Len(queue[b]) \in Nat
      /\ DOMAIN queue[b] = 1..Len(queue[b])
      /\ DOMAIN queue'[b] = 1..(Len(queue[b]) + 1)
      /\ \A i \in 1..Len(queue[b]) : queue'[b][i] = queue[b][i]
      /\ queue'[b][Len(queue[b]) + 1] = n
  BY <1>4, <1>5, <1>6, OneMoreItem, SequenceItems
<1>8. \A i \in DOMAIN queue'[b] :
          \/ i \in DOMAIN queue[b] /\ queue'[b][i] = queue[b][i]
          \/ i = Len(queue[b]) + 1 /\ queue'[b][i] = n
  BY SMTT(30), <1>7
<1>9. DeliveryTypes'
  BY <1>0, <1>1, <1>3, <1>4, <1>7 DEF DeliveryTypes, Item
<1>10. ReadOk' /\ StoredOk'
  BY <1>0, <1>1 DEF ReadOk, StoredOk
<1>11. JoinedOk'
  BY <1>0, <1>1, <1>3 DEF JoinedOk
<1>12. ReplayOk'
  BY <1>0, <1>1, <1>4, <1>5 DEF ReplayOk, Live
<1>13. EmittedOk'
  <2>1. \A i \in DOMAIN queue'[b] : queue'[b][i] \in 1..Len(emitted[tab[b].session])
    BY <1>0, <1>4, <1>8 DEF EmittedOk
  <2>2. \A i \in DOMAIN ready' : ready'[i].number \in 1..Len(emitted[tab[ready'[i].to].session])
    BY <1>0, <1>3 DEF EmittedOk
  <2> QED
    BY <1>0, <1>1, <1>5, <2>1, <2>2 DEF EmittedOk
<1>14. PendingOk'
  <2>1. ASSUME NEW j \in DOMAIN ready', NEW i \in DOMAIN queue'[ready'[j].to]
        PROVE  queue'[ready'[j].to][i] <= ready'[j].number
    <3>1. j + 1 \in DOMAIN ready /\ ready'[j] = ready[j + 1] /\ j \in Nat
      BY <1>3
    <3>2. ready[j + 1].to \in Tabs
      BY <1>0, <3>1, ReadyItems
    <3>3. CASE ready[j + 1].to # b
      BY <1>0, <1>5, <2>1, <3>1, <3>2, <3>3 DEF PendingOk
    <3>4. CASE ready[j + 1].to = b
      <4>1. CASE i \in DOMAIN queue[b] /\ queue'[b][i] = queue[b][i]
        BY <1>0, <2>1, <3>1, <3>4, <4>1 DEF PendingOk
      <4>2. CASE queue'[b][i] = n
        <5>1. j + 1 > 1 \/ j = 0
          BY <3>1
        <5>2. ready[1].to = ready[j + 1].to
          BY <1>4, <3>4
        <5>3. ready[1].number <= ready[j + 1].number
          <6>1. CASE j = 0
            BY <1>4, <6>1
          <6>2. CASE j + 1 > 1
            BY <1>0, <1>3, <3>1, <5>2, <6>2 DEF PendingOk
          <6> QED
            BY <5>1, <6>1, <6>2
        <5> QED
          BY <1>4, <3>1, <3>4, <4>2, <5>3
      <4> QED
        BY <1>8, <2>1, <3>1, <3>4, <4>1, <4>2
    <3> QED
      BY <3>3, <3>4
  <2>2. ASSUME NEW i \in DOMAIN ready', NEW j \in DOMAIN ready', i < j,
               ready'[i].to = ready'[j].to
        PROVE  ready'[i].number <= ready'[j].number
    <3>1. /\ i + 1 \in DOMAIN ready /\ ready'[i] = ready[i + 1] /\ i \in Nat
          /\ j + 1 \in DOMAIN ready /\ ready'[j] = ready[j + 1] /\ j \in Nat
      BY <1>3
    <3>2. i + 1 < j + 1
      BY <2>2, <3>1
    <3> QED
      BY <1>0, <2>2, <3>1, <3>2 DEF PendingOk
  <2> QED
    BY <2>1, <2>2 DEF PendingOk
<1>15. NeverBackwards'
  <2> SUFFICES ASSUME NEW c \in Tabs, NEW k \in DOMAIN queue'[c], NEW m \in DOMAIN queue'[c], k < m,
                      emitted'[tab'[c].session][queue'[c][k]]
                         = emitted'[tab'[c].session][queue'[c][m]]
               PROVE  queue'[c][k] <= queue'[c][m]
    BY DEF NeverBackwards
  <2>1. ASSUME NEW i \in DOMAIN queue'[b], NEW j \in DOMAIN queue'[b], i < j,
               emitted[tab[b].session][queue'[b][i]] = emitted[tab[b].session][queue'[b][j]]
        PROVE  queue'[b][i] <= queue'[b][j]
    <3>1. i \in DOMAIN queue[b] /\ queue'[b][i] = queue[b][i]
      BY <1>7, <1>8, <2>1
    <3>2. CASE j \in DOMAIN queue[b] /\ queue'[b][j] = queue[b][j]
      BY <1>0, <1>4, <2>1, <3>1, <3>2 DEF NeverBackwards
    <3>3. CASE queue'[b][j] = n
      <4>1. queue[b][i] <= ready[1].number
        BY <1>0, <1>3, <1>4, <3>1 DEF PendingOk
      <4> QED
        BY <1>4, <3>1, <3>3, <4>1
    <3> QED
      BY <1>8, <3>2, <3>3
  <2> QED
    <3>1. CASE c = b
      BY <1>1, <2>1, <3>1
    <3>2. CASE c # b
      <4>1. queue'[c] = queue[c]
        BY <1>5, <3>2
      <4> QED
        BY <1>0, <1>1, <4>1 DEF NeverBackwards
    <3> QED
      BY <3>1, <3>2
<1> QED
  BY <1>9, <1>10, <1>11, <1>12, <1>13, <1>14, <1>15 DEF DInv


LEMMA DeliveryStart == Init => DInv
<1> SUFFICES ASSUME Init
             PROVE  DInv
  OBVIOUS
<1>1. /\ listener = [s \in Sessions |-> "off"]
      /\ emitted = [s \in Sessions |-> <<>>]
      /\ last = [s \in Sessions |-> [t \in Types |-> 0]]
      /\ members = [s \in Sessions |-> {}]
      /\ tab = [b \in Tabs |-> [at |-> "new"]]
      /\ queue = [b \in Tabs |-> <<>>]
      /\ ready = <<>>
  BY DEF Init
<1>2. DeliveryTypes
  <2>1. [at |-> "new"] \in Stages
    BY DEF Stages, Unsubscribed
  <2>2. \A s \in Sessions : IsFiniteSet(members[s])
    BY <1>1, FS_EmptySet
  <2> QED
    BY <1>1, <2>1, <2>2 DEF DeliveryTypes
<1>3. ReadOk /\ StoredOk /\ JoinedOk /\ ReplayOk
  BY <1>1 DEF ReadOk, StoredOk, JoinedOk, ReplayOk
<1>4. EmittedOk /\ PendingOk /\ NeverBackwards
  BY <1>1 DEF EmittedOk, PendingOk, NeverBackwards
<1> QED
  BY <1>2, <1>3, <1>4 DEF DInv

LEMMA DeliveryStep == DInv /\ [Next]_vars => DInv'
<1> SUFFICES ASSUME DInv, [Next]_vars
             PROVE  DInv'
  OBVIOUS
<1> USE DEF delivery, eventVars, tabVars
<1>1. ASSUME NEW w \in Workers, Requests(w)
      PROVE  DInv'
  <2>1. UNCHANGED delivery /\ UNCHANGED listener
    BY <1>1 DEF Requests, Create, Join, Send, Close, Reap, Shutdown, Forget
  <2> QED
    BY <2>1, ListenerKeeps
<1>2. ASSUME NEW w \in Workers, RunOn(w)
      PROVE  DInv'
  <2>1. CASE Register(w)
    BY <2>1, ListenerKeeps DEF Register
  <2>2. CASE \E s \in Sessions : StopListener(w, s)
    BY <2>2, ListenerKeeps DEF StopListener
  <2>3. CASE \/ StartFails(w) \/ Bootstrap(w) \/ Touch(w) \/ Write(w)
             \/ CloseSender(w) \/ StopEngine(w)
    <3>1. UNCHANGED delivery /\ UNCHANGED listener
      BY <2>3 DEF StartFails, Bootstrap, Touch, Write, CloseSender, StopEngine
    <3> QED
      BY <3>1, ListenerKeeps
  <2> QED
    BY <1>2, <2>1, <2>2, <2>3 DEF RunOn
<1>3. ASSUME NEW s \in Sessions, Age(s) \/ EngineEnds(s)
      PROVE  DInv'
  BY <1>3, ListenerKeeps DEF Age, EngineEnds
<1>4. ASSUME NEW s \in Sessions, Listening(s)
      PROVE  DInv'
  BY <1>4, StoreKeeps, FanOutKeeps, EmitKeeps DEF Listening
<1>5. CASE Loop
  BY <1>5, DeliverKeeps, SubscribeKeeps, CopyBeginKeeps, CopyNextKeeps, CopyEndKeeps,
     CopyAddKeeps, DisconnectKeeps DEF Loop, Copying
<1>6. CASE UNCHANGED vars
  BY <1>6, ListenerKeeps DEF vars
<1> QED
  BY <1>1, <1>2, <1>3, <1>4, <1>5, <1>6 DEF Next

\* Whatever a tab is sent, replayed when it subscribes or live, however the
\* listener, the loop and the requests interleave: it never gets an older envelope
\* of a type after a newer one.
THEOREM TabsNeverGoBackwards == Spec => []NeverBackwards
<1>1. Init => DInv
  BY DeliveryStart
<1>2. DInv /\ [Next]_vars => DInv'
  BY DeliveryStep
<1>3. DInv => NeverBackwards
  BY DEF DInv
<1> QED
  BY <1>1, <1>2, <1>3, PTL DEF Spec
==============================================================================
