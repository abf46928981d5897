--------------------------- MODULE OrderedDelivery ---------------------------
(***************************************************************************)
(* What a gmDispatch dispatcher promises its callers, with no threads, no  *)
(* locks and no router: envelopes are handled one at a time in the order   *)
(* in which they were accepted; a flush returns only once everything that  *)
(* was accepted before it was called has been handled; and the dispatcher  *)
(* is gone only when nothing it accepted is left.                          *)
(*                                                                         *)
(* AsyncDispatcher is shown to implement this specification.               *)
(***************************************************************************)
EXTENDS Integers, Sequences

CONSTANTS
    Clients,    \* the threads that call the dispatcher
    Types       \* the values of Envelope::typeId

VARIABLES
    log,        \* the types of the envelopes accepted, in order
    handled,    \* the types of the envelopes handled, in order
    waiting,    \* waiting[c]: how much c's flush waits for, NoFlush if none
    open        \* FALSE once the dispatcher is destroyed

vars == <<log, handled, waiting, open>>

NoFlush == -1

Init ==
    /\ log = <<>>
    /\ handled = <<>>
    /\ waiting = [c \in Clients |-> NoFlush]
    /\ open = TRUE

\* An envelope is accepted: from here on it cannot be lost.
Accept(type) ==
    /\ open
    /\ log' = Append(log, type)
    /\ UNCHANGED <<handled, waiting, open>>

\* The oldest envelope that was not handled is handled.
Handle ==
    /\ open
    /\ Len(handled) < Len(log)
    /\ handled' = Append(handled, log[Len(handled) + 1])
    /\ UNCHANGED <<log, waiting, open>>

BeginFlush(c) ==
    /\ open
    /\ waiting[c] = NoFlush
    /\ waiting' = [waiting EXCEPT ![c] = Len(log)]
    /\ UNCHANGED <<log, handled, open>>

EndFlush(c) ==
    /\ waiting[c] # NoFlush
    /\ Len(handled) >= waiting[c]
    /\ waiting' = [waiting EXCEPT ![c] = NoFlush]
    /\ UNCHANGED <<log, handled, open>>

\* Destruction: nothing accepted is left behind and no call is in progress.
Close ==
    /\ open
    /\ handled = log
    /\ \A c \in Clients : waiting[c] = NoFlush
    /\ open' = FALSE
    /\ UNCHANGED <<log, handled, waiting>>

Next ==
    \/ \E type \in Types : Accept(type)
    \/ Handle
    \/ \E c \in Clients : BeginFlush(c) \/ EndFlush(c)
    \/ Close

\* The safety part, and the promise that what is accepted gets handled.
Safety == Init /\ [][Next]_vars

Spec == Safety /\ WF_vars(Handle)
==============================================================================
