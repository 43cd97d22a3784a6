------------------------------- MODULE Mailbox -------------------------------
(***************************************************************************)
(* Cpl::Itc and Cpl::System::EventLoop: threads that exchange messages and *)
(* raise event flags.                                                      *)
(*                                                                         *)
(* A server is a thread that runs an event loop with a mailbox; other      *)
(* threads are clients.  post() queues a message under the global lock and *)
(* then signals the loop's semaphore; postSync() goes on to wait for the   *)
(* poster's own thread semaphore, which returning the message signals.  An *)
(* asynchronous message comes back through the mailbox of its poster.      *)
(* Handlers may post before they return their message.  Surplus counts of  *)
(* a loop's semaphore only make it turn once more, so it is a flag.        *)
(***************************************************************************)
EXTENDS Integers, Sequences, SequencesExt

CONSTANTS Servers, Clients,
          Messages, From, To,   \* the poster and the server of each message
          Sync,                 \* the messages posted with postSync()
          Flags,                \* event flags
          None,
          Notifiers,            \* threads that call notifyEvents()
          Notified,             \* servers that have event flags
          Stoppable,            \* servers that pleaseStop() is called for
          TwoCores              \* do interrupts run on another core?

Threads == Servers \cup Clients

ASSUME MailboxAssumption ==
    /\ Servers \cap Clients = {}
    /\ From \in [Messages -> Threads] /\ To \in [Messages -> Servers]
    /\ Sync \subseteq Messages /\ \A m \in Messages \ Sync : From[m] \in Servers
    /\ None \notin Threads \cup Messages
    /\ Notifiers \subseteq Threads
    /\ Notified \cup Stoppable \subseteq Servers
    /\ TwoCores \in BOOLEAN

VARIABLES
    mbox,        \* the messages queued at each server
    signaled,    \* each loop's semaphore
    tsema,       \* each thread's own semaphore
    m_run,       \* false once pleaseStop() was called
    m_events,    \* the event flags of each loop
    captured,    \* flags taken by the loop and not yet processed
    pc,          \* where each loop is
    cur,         \* the message it is processing
    signalTo,    \* the loop that a thread in post() has still to signal
    waitsFor,    \* the message a thread in postSync() waits for
    posted,      \* messages their posters have not got back
    response,    \* messages on their way back
    waiter,      \* the poster that a server in rts() has still to signal
    isr,         \* the interrupt in su_notifyEvents()
    raised       \* history: flags raised and not processed since

vars == <<mbox, signaled, tsema, m_run, m_events, captured, pc, cur, signalTo,
          waitsFor, posted, response, waiter, isr, raised>>
loopVars == <<m_run, captured, pc, cur>>
msgVars == <<mbox, tsema, waitsFor, posted, response, waiter>>
eventVars == <<m_events, isr, raised>>

-----------------------------------------------------------------------------
Init ==
    /\ mbox = [s \in Servers |-> <<>>]
    /\ signaled = [s \in Servers |-> FALSE]
    /\ tsema = [t \in Threads |-> 0]
    /\ m_run = [s \in Servers |-> TRUE]
    /\ m_events = [s \in Servers |-> {}]
    /\ captured = [s \in Servers |-> {}]
    /\ pc = [s \in Servers |-> "top"]
    /\ cur = [s \in Servers |-> None]
    /\ signalTo = [t \in Threads |-> None]
    /\ waitsFor = [t \in Threads |-> None]
    /\ posted = {} /\ response = {}
    /\ waiter = [s \in Servers |-> None]
    /\ isr = None
    /\ raised = [s \in Servers |-> {}]

\* The thread runs code of the application: it is not inside a call, and a
\* server is in a handler.
Free(t) ==
    /\ signalTo[t] = None /\ waitsFor[t] = None
    /\ t \in Servers => waiter[t] = None
MayCall(t) == Free(t) /\ (t \in Servers => pc[t] \in {"events", "handle"})

Put(m, s) == mbox' = [mbox EXCEPT ![s] = Append(@, m)]

\* post() and postSync(): the message is queued, ...
Post(t, m) ==
    /\ MayCall(t)
    /\ From[m] = t /\ m \notin posted
    /\ Put(m, To[m])
    /\ posted' = posted \cup {m}
    /\ signalTo' = [signalTo EXCEPT ![t] = To[m]]
    /\ waitsFor' = [waitsFor EXCEPT ![t] = IF m \in Sync THEN m ELSE None]
    /\ UNCHANGED <<signaled, tsema, response, waiter, loopVars, eventVars>>

\* Faulty: the loop is signalled only if it was seen to be waiting.
SignalWaiting(t) ==
    /\ signalTo[t] # None
    /\ signaled' = [signaled EXCEPT ![signalTo[t]] = @ \/ pc[signalTo[t]] = "wait"]
    /\ signalTo' = [signalTo EXCEPT ![t] = None]
    /\ UNCHANGED <<msgVars, loopVars, eventVars>>

\* ... and the loop is signalled.
Signal(t) ==
    /\ signalTo[t] # None
    /\ signaled' = [signaled EXCEPT ![signalTo[t]] = TRUE]
    /\ signalTo' = [signalTo EXCEPT ![t] = None]
    /\ UNCHANGED <<msgVars, loopVars, eventVars>>

\* Thread::wait() returns: the poster has the message back.
Resume(t) ==
    /\ signalTo[t] = None /\ waitsFor[t] # None
    /\ tsema[t] > 0
    /\ tsema' = [tsema EXCEPT ![t] = @ - 1]
    /\ posted' = posted \ {waitsFor[t]}
    /\ waitsFor' = [waitsFor EXCEPT ![t] = None]
    /\ UNCHANGED <<mbox, signaled, signalTo, response, waiter, loopVars, eventVars>>

\* notifyEvents(), up to its signal
NotifyEvents(t, s, f) ==
    /\ t \in Notifiers /\ MayCall(t)
    /\ m_events' = [m_events EXCEPT ![s] = @ \cup {f}]
    /\ raised' = [raised EXCEPT ![s] = @ \cup {f}]
    /\ signalTo' = [signalTo EXCEPT ![t] = s]
    /\ UNCHANGED <<signaled, isr, msgVars, loopVars>>

\* pleaseStop(), up to its signal
PleaseStop(t, s) ==
    /\ s \in Stoppable /\ m_run[s]
    /\ MayCall(t)
    /\ m_run' = [m_run EXCEPT ![s] = FALSE]
    /\ signalTo' = [signalTo EXCEPT ![t] = s]
    /\ UNCHANGED <<signaled, captured, pc, cur, msgVars, eventVars>>

\* su_notifyEvents() in an interrupt: m_events |= events without a lock.  It
\* is read and written in two steps; threads run between them only on another
\* core, so that on one core the read is as good as made with the write.
IsrRead(s, f) ==
    /\ isr = None
    /\ isr' = [srv |-> s, flag |-> f,
               seen |-> IF TwoCores THEN m_events[s] ELSE {}]
    /\ UNCHANGED <<signaled, signalTo, m_events, raised, msgVars, loopVars>>

\* Faulty: the flags are set, not added to.
IsrWriteOver ==
    /\ isr # None
    /\ m_events' = [m_events EXCEPT ![isr.srv] = {isr.flag}]
    /\ raised' = [raised EXCEPT ![isr.srv] = @ \cup {isr.flag}]
    /\ signaled' = [signaled EXCEPT ![isr.srv] = TRUE]
    /\ isr' = None
    /\ UNCHANGED <<signalTo, msgVars, loopVars>>

IsrWrite ==
    /\ isr # None
    /\ m_events' = [m_events EXCEPT ![isr.srv] =
                     (IF TwoCores THEN isr.seen ELSE @) \cup {isr.flag}]
    /\ raised' = [raised EXCEPT ![isr.srv] = @ \cup {isr.flag}]
    /\ signaled' = [signaled EXCEPT ![isr.srv] = TRUE]
    /\ isr' = None
    /\ UNCHANGED <<signalTo, msgVars, loopVars>>

-----------------------------------------------------------------------------
\* A turn of the loop: isPendingMessage() and the first test of m_run, ...
Top(s) ==
    /\ Free(s) /\ pc[s] = "top"
    /\ pc' = [pc EXCEPT ![s] = IF ~m_run[s] THEN "stopped"
                               ELSE IF mbox[s] # <<>> THEN "check" ELSE "wait"]
    /\ UNCHANGED <<m_run, captured, cur, signaled, signalTo, msgVars, eventVars>>

\* ... the wait, which may time out (or be skipped after a long turn), ...
Wake(s) ==
    /\ Free(s) /\ pc[s] = "wait" /\ signaled[s]
    /\ signaled' = [signaled EXCEPT ![s] = FALSE]
    /\ pc' = [pc EXCEPT ![s] = "check"]
    /\ UNCHANGED <<m_run, captured, cur, signalTo, msgVars, eventVars>>

Timeout(s) ==
    /\ Free(s) /\ pc[s] = "wait"
    /\ pc' = [pc EXCEPT ![s] = "check"]
    /\ UNCHANGED <<m_run, captured, cur, signaled, signalTo, msgVars, eventVars>>

\* ... the second test of m_run and the capture of the event flags, ...
Capture(s) ==
    /\ Free(s) /\ pc[s] = "check"
    /\ pc' = [pc EXCEPT ![s] = IF m_run[s] THEN "events" ELSE "stopped"]
    /\ captured' = [captured EXCEPT ![s] = IF m_run[s] THEN m_events[s] ELSE @]
    /\ m_events' = [m_events EXCEPT ![s] = IF m_run[s] THEN {} ELSE @]
    /\ UNCHANGED <<m_run, cur, signaled, signalTo, msgVars, isr, raised>>

\* ... processEventFlag() for each of them, ...
ProcessEventFlag(s, f) ==
    /\ Free(s) /\ pc[s] = "events" /\ f \in captured[s]
    /\ captured' = [captured EXCEPT ![s] = @ \ {f}]
    /\ raised' = [raised EXCEPT ![s] = (@ \ {f}) \cup (m_events[s] \cap {f})]
    /\ UNCHANGED <<m_run, pc, cur, signaled, signalTo, msgVars, m_events, isr>>

\* ... (the timers,) and at most one message.
ProcessMessages(s) ==
    /\ Free(s) /\ pc[s] = "events" /\ captured[s] = {}
    /\ pc' = [pc EXCEPT ![s] = IF mbox[s] = <<>> THEN "top" ELSE "handle"]
    /\ cur' = [cur EXCEPT ![s] = IF mbox[s] = <<>> THEN None ELSE Head(mbox[s])]
    /\ mbox' = [mbox EXCEPT ![s] = IF @ = <<>> THEN @ ELSE Tail(@)]
    /\ UNCHANGED <<m_run, captured, signaled, signalTo, tsema, waitsFor, posted,
                   response, waiter, eventVars>>

Handled(s) ==
    /\ Free(s) /\ pc[s] = "handle"
    /\ pc' = [pc EXCEPT ![s] = "top"]
    /\ cur' = [cur EXCEPT ![s] = None]
    /\ UNCHANGED <<m_run, captured, signaled, waitsFor, eventVars>>

\* Faulty: the poster is signalled before the server lets go of the message.
ReturnSyncEarly(s) ==
    /\ Free(s) /\ pc[s] = "handle" /\ cur[s] \in Sync
    /\ tsema[From[cur[s]]] = 0
    /\ tsema' = [tsema EXCEPT ![From[cur[s]]] = 1]
    /\ UNCHANGED <<mbox, waitsFor, posted, response, waiter, loopVars, signaled,
                   signalTo, eventVars>>

\* returnToSender() of a synchronous request: the server is done with the
\* message, ...
ReturnSync(s) ==
    /\ Handled(s) /\ cur[s] \in Sync
    /\ waiter' = [waiter EXCEPT ![s] = From[cur[s]]]
    /\ UNCHANGED <<mbox, tsema, signalTo, posted, response>>

\* Faulty: the semaphore of the server's own thread is signalled.
SignalSelf(s) ==
    /\ waiter[s] # None
    /\ tsema' = [tsema EXCEPT ![s] = @ + 1]
    /\ waiter' = [waiter EXCEPT ![s] = None]
    /\ UNCHANGED <<mbox, waitsFor, posted, response, loopVars, signaled, signalTo,
                   eventVars>>

\* ... and SyncReturnHandler::rts() signals the poster.
SignalWaiter(s) ==
    /\ waiter[s] # None
    /\ tsema' = [tsema EXCEPT ![waiter[s]] = @ + 1]
    /\ waiter' = [waiter EXCEPT ![s] = None]
    /\ UNCHANGED <<mbox, waitsFor, posted, response, loopVars, signaled, signalTo,
                   eventVars>>

\* returnToSender() of an asynchronous request: AsyncReturnHandler::rts()
ReturnAsync(s) ==
    /\ Handled(s) /\ cur[s] \notin Sync \cup response
    /\ Put(cur[s], From[cur[s]])
    /\ response' = response \cup {cur[s]}
    /\ signalTo' = [signalTo EXCEPT ![s] = From[cur[s]]]
    /\ UNCHANGED <<tsema, posted, waiter>>

\* The response is processed by the poster of the request.
Response(s) ==
    /\ Handled(s) /\ cur[s] \in response
    /\ posted' = posted \ {cur[s]}
    /\ response' = response \ {cur[s]}
    /\ UNCHANGED <<mbox, tsema, signalTo, waiter>>

LoopStep(s) ==
    \/ Top(s) \/ Wake(s) \/ Capture(s) \/ ProcessMessages(s)
    \/ \E f \in Flags : ProcessEventFlag(s, f)
    \/ ReturnSync(s) \/ SignalWaiter(s) \/ ReturnAsync(s) \/ Response(s)

Next ==
    \/ \E t \in Threads :
         \/ \E m \in Messages : Post(t, m)
         \/ \E s \in Notified, f \in Flags : NotifyEvents(t, s, f)
         \/ \E s \in Servers : PleaseStop(t, s)
         \/ Signal(t) \/ Resume(t)
    \/ \E s \in Notified, f \in Flags : IsrRead(s, f)
    \/ IsrWrite
    \/ \E s \in Servers : LoopStep(s) \/ Timeout(s)

\* Threads and interrupts go on, and handlers come to their end; nobody has
\* to post anything, and no wait has to time out.  A handler that calls others
\* again and again does return in the end (SF).
Fairness ==
    /\ WF_vars(IsrWrite)
    /\ \A t \in Threads : WF_vars(Signal(t)) /\ WF_vars(Resume(t))
    /\ \A s \in Servers : SF_vars(LoopStep(s))

Spec == Init /\ [][Next]_vars /\ Fairness

-----------------------------------------------------------------------------
TypeOK ==
    /\ mbox \in [Servers -> Seq(Messages)]
    /\ signaled \in [Servers -> BOOLEAN] /\ m_run \in [Servers -> BOOLEAN]
    /\ tsema \in [Threads -> {0, 1}]
    /\ m_events \in [Servers -> SUBSET Flags]
    /\ captured \in [Servers -> SUBSET Flags]
    /\ raised \in [Servers -> SUBSET Flags]
    /\ pc \in [Servers -> {"top", "wait", "check", "events", "handle", "stopped"}]
    /\ cur \in [Servers -> Messages \cup {None}]
    /\ signalTo \in [Threads -> Servers \cup {None}]
    /\ waitsFor \in [Threads -> Messages \cup {None}]
    /\ response \subseteq posted /\ posted \subseteq Messages
    /\ waiter \in [Servers -> Threads \cup {None}]
    /\ isr = None \/ isr \in [srv : Servers, seen : SUBSET Flags, flag : Flags]

\* A payload has one owner: a message its poster has back is in no mailbox
\* and in nobody's hands, and one that is under way is in one place only
\* ("a convention of ownership is used to provide thread-safe access").  A
\* thread is signalled once, and only while it waits for its own message.
OneOwner ==
    /\ TypeOK
    /\ \A m \in Messages :
        LET queued == {s \in Servers : m \in ToSet(mbox[s])}
            held == {s \in Servers : cur[s] = m}
        IN  /\ m \notin posted => queued \cup held = {}
            /\ \A s, u \in queued \cup held : s = u
            /\ queued = {} \/ held = {}
            /\ \A s \in queued : IsInjective(mbox[s])
    /\ \A t \in Threads : tsema[t] > 0 => waitsFor[t] # None

\* Nothing is slept over: a loop that waits without a signal has no message
\* and no event flag, unless the one who left it there is about to signal
\* (post(), notifyEvents(), waitAndProcessEvents()).
NoLostWakeup ==
    \A s \in Servers :
        pc[s] = "wait" /\ ~signaled[s] /\ m_run[s]
            => \/ mbox[s] = <<>> /\ m_events[s] = {}
               \/ \E t \in Threads : signalTo[t] = s

\* The flags a loop still has to process are those that were raised: none is
\* lost, none is invented (notifyEvents(), su_notifyEvents(), the capture).
EventsExact ==
    \A s \in Servers : m_events[s] \cup captured[s] = raised[s]

\* The servers that a server's answers depend on: those its handlers call.
Needs(s) == {s} \cup {To[m] : m \in {n \in Sync : From[n] = s}}

\* A synchronous call returns, unless one of the servers it needs is stopped.
Answered ==
    \A m \in Sync :
        m \in posted ~> (m \notin posted \/ \E s \in Needs(To[m]) : ~m_run[s])
=============================================================================
