------------------------------ MODULE Reconnect ------------------------------
(* XMPPReconnect (Extensions/Reconnect/XMPPReconnect.m) on a stream that is    *)
(* connected and lost again.                                                   *)
(*                                                                             *)
(* The stream lives on its own queue and posts callbacks to the moduleQueue,   *)
(* where they wait behind what was posted before; the module reads the state   *)
(* of the stream, connects it and aborts it synchronously, as it is by then.   *)
(* Calls of the application, the timer, the delayed restart and changes of     *)
(* reachability run between any two blocks.  No number grows: a ticket is only *)
(* ever compared with the last one, so it is kept as "the delayed restart      *)
(* still counts".                                                              *)
EXTENDS Naturals, Sequences, FiniteSets, SequencesExt

CONSTANTS
    MaxQueue,       \* bound: callbacks of the stream that wait on the moduleQueue
    MaxQueries,     \* bound: questions to the delegates that are open together
    TimerRepeats,   \* reconnectTimerInterval > 0
    TimerDelayed,   \* reconnectDelay > 0
    SrvResolution   \* connecting starts with the resolution of SRV records

ASSUME BoundsAssumption == MaxQueue \in Nat /\ MaxQueries \in Nat

ASSUME ConfigAssumption == {TimerRepeats, TimerDelayed, SrvResolution} \subseteq BOOLEAN

VARIABLES
    stream,           \* the state of the stream
    network,          \* the reachability flags of the host
    moduleQueue,      \* callbacks of the stream, and answers of the delegates
    \* the module
    autoReconnect,
    shouldReconnect, shouldRestartReconnect, manuallyStarted, queryingDelegates,  \* flags
    reconnectTimer,   \* "none", "armed", or "spent" when it will not fire again
    reachability,     \* the network is monitored
    restart,          \* a delayed restart has the current ticket
    previous,         \* previousReachabilityFlags
    queries,          \* flags of the questions the delegates have not answered
    \* history, for the properties
    process,          \* a reconnect process was begun and neither stopped nor successful
    halted            \* stopped, told to disconnect or replaced, and nothing begun since

flagVars  == <<shouldReconnect, shouldRestartReconnect, manuallyStarted, queryingDelegates>>
planVars  == <<reconnectTimer, reachability, restart>>
histVars  == <<process, halted>>
moduleVars == <<flagVars, planVars, previous, queries, histVars>>
vars == <<stream, network, moduleQueue, autoReconnect, moduleVars>>

Flags == {"wifi", "cell"}

\* After didConnect: "connected" and "authenticated" are STATE_XMPP_CONNECTED, before and
\* after "authenticating".  A stream is "closing" from the end of its socket to the callback.
Up == {"connected", "authenticating", "authenticated"}

Event(kind)       == [kind |-> kind, flags |-> "none"]
Answer(yes, f)    == [kind |-> IF yes THEN "yes" ELSE "no", flags |-> f]
Waiting(kind)     == \E i \in DOMAIN moduleQueue : moduleQueue[i].kind = kind
Posted(kind)      == Append(moduleQueue, Event(kind))

Init ==
    /\ stream = "disconnected" /\ network \in Flags /\ moduleQueue = <<>>
    /\ autoReconnect = TRUE
    /\ shouldReconnect = FALSE /\ shouldRestartReconnect = FALSE
    /\ manuallyStarted = FALSE /\ queryingDelegates = FALSE
    /\ reconnectTimer = "none" /\ reachability = FALSE /\ restart = FALSE
    /\ previous = "none" /\ queries = <<>>
    /\ process = FALSE /\ halted = FALSE

-----------------------------------------------------------------------------
(* The stream.                                                                 *)

Connecting == IF SrvResolution THEN "resolving" ELSE "connecting"

\* connectWithTimeout: refuses a stream that is not disconnected.
StreamAfterConnect == IF stream = "disconnected" THEN Connecting ELSE stream

StreamAfterAbort_SocketOnly ==
    IF stream \in {"connecting", "authenticating"} THEN "closing" ELSE stream

\* abortConnecting.  During the resolution nothing is left that would call back.
StreamAfterAbort ==
    CASE stream = "resolving" -> "disconnected"
      [] stream \in {"connecting", "authenticating"} -> "closing"
      [] OTHER -> stream

StreamMay == Len(moduleQueue) < MaxQueue

\* The stream goes from one of these states to another and posts callbacks on the queue.
StreamStep(from, to, queue) ==
    /\ stream \in from /\ (queue # moduleQueue => StreamMay)
    /\ stream' = to
    /\ moduleQueue' = queue
    /\ UNCHANGED <<network, autoReconnect, moduleVars>>

AppConnects   == StreamStep({"disconnected"}, Connecting, moduleQueue)
Resolved      == StreamStep({"resolving"}, "connecting", moduleQueue)
DidConnect    == StreamStep({"connecting"}, "connected", Posted("didConnect"))
Authenticates == StreamStep({"connected"}, "authenticating", moduleQueue)
DidAuthenticate == StreamStep({"authenticating"}, "authenticated", Posted("didAuthenticate"))
Refused       == StreamStep({"authenticating"}, "connected", moduleQueue)
ConnectFails  == StreamStep({"connecting"}, "disconnected", Posted("didDisconnect"))
Lost          == StreamStep(Up, "disconnected", Posted("didDisconnect"))
Replaced      == StreamStep(Up, "closing", Posted("conflict"))
Closed        == StreamStep({"closing"}, "disconnected", Posted("didDisconnect"))
AppDisconnects ==
    \/ StreamStep({"resolving"}, "disconnected",
                  Append(Posted("told"), Event("didDisconnect")))
    \/ StreamStep({"connecting", "closing"} \cup Up, "closing", Posted("told"))

-----------------------------------------------------------------------------
(* The module.  The operators say what a method assigns.                       *)

\* setupReconnectTimer: with neither a delay nor an interval there is no timer.
TimerSetUp ==
    IF reconnectTimer = "none" /\ (TimerRepeats \/ TimerDelayed) THEN "armed" ELSE reconnectTimer

SetsUp == reconnectTimer' = TimerSetUp /\ reachability' = TRUE

TearsDown == reconnectTimer' = "none" /\ reachability' = FALSE

Wanted == manuallyStarted \/ (autoReconnect /\ shouldReconnect)

\* maybeAttemptReconnectWithReachabilityFlags: asks the delegates, or ends an attempt that is
\* under way if the next should begin (`again').
MaybeAttempt(f, again) ==
    /\ IF Wanted /\ stream = "disconnected" /\ ~queryingDelegates
       THEN queryingDelegates' = TRUE /\ queries' = Append(queries, f)
       ELSE UNCHANGED <<queryingDelegates, queries>>
    /\ stream' = IF Wanted /\ (stream # "disconnected" \/ queryingDelegates) /\ again
                 THEN StreamAfterAbort ELSE stream

\* The bound: a question is asked only if fewer are open, unanswered or with the answer waiting.
IsAnswer(e) == e.kind \in {"yes", "no"}
MayAsk == Len(queries) + Len(SelectSeq(moduleQueue, IsAnswer)) < MaxQueries

Rest == UNCHANGED <<network, autoReconnect>>
TakesFirst == moduleQueue # <<>> /\ moduleQueue' = Tail(moduleQueue)
Taking(kind) == TakesFirst /\ Head(moduleQueue).kind = kind

ManualStart ==
    /\ IF stream = "disconnected" /\ ~manuallyStarted
       THEN manuallyStarted' = TRUE /\ SetsUp /\ process' = TRUE /\ halted' = FALSE
       ELSE UNCHANGED <<manuallyStarted, reconnectTimer, reachability, histVars>>
    /\ UNCHANGED <<stream, moduleQueue, shouldReconnect, shouldRestartReconnect,
                   queryingDelegates, restart, previous, queries>>
    /\ Rest

\* Clearing all flags includes the one that says that delegates are being asked.
ClearsFlags_Some == manuallyStarted' = FALSE /\ shouldRestartReconnect' = FALSE
                    /\ queryingDelegates' = FALSE /\ UNCHANGED shouldReconnect
ClearsFlags == shouldReconnect' = FALSE /\ manuallyStarted' = FALSE
               /\ shouldRestartReconnect' = FALSE /\ queryingDelegates' = FALSE

Stops ==
    /\ ClearsFlags /\ TearsDown /\ restart' = FALSE
    /\ process' = FALSE /\ halted' = TRUE
    /\ UNCHANGED <<stream, previous, queries>>
    /\ Rest

Stop == Stops /\ UNCHANGED moduleQueue

HandleTold == Taking("told") /\ Stops

\* As stop, but the flag that authentication set stays.
EndsRestart_Not == shouldRestartReconnect' = FALSE /\ UNCHANGED restart
EndsRestart == shouldRestartReconnect' = FALSE /\ restart' = FALSE

HandleDidConnect ==
    /\ Taking("didConnect")
    /\ EndsRestart /\ manuallyStarted' = FALSE
    /\ TearsDown
    /\ process' = FALSE
    /\ UNCHANGED <<stream, shouldReconnect, queryingDelegates, previous, queries, halted>>
    /\ Rest

HandleDidAuthenticate ==
    /\ Taking("didAuthenticate")
    /\ shouldReconnect' = TRUE /\ halted' = FALSE
    /\ UNCHANGED <<stream, shouldRestartReconnect, manuallyStarted, queryingDelegates, planVars,
                   previous, queries, process>>
    /\ Rest

HandleConflict ==
    /\ Taking("conflict")
    /\ shouldReconnect' = FALSE /\ halted' = ~manuallyStarted
    /\ UNCHANGED <<stream, shouldRestartReconnect, manuallyStarted, queryingDelegates, planVars,
                   previous, queries, process>>
    /\ Rest

BeginsProcess_Always == autoReconnect
BeginsProcess == autoReconnect /\ shouldReconnect

HandleDidDisconnect ==
    /\ Taking("didDisconnect")
    /\ IF BeginsProcess THEN SetsUp /\ process' = TRUE
       ELSE UNCHANGED <<reconnectTimer, reachability, process>>
    /\ restart' = (restart \/ shouldRestartReconnect)
    /\ UNCHANGED <<stream, flagVars, previous, queries, halted>>
    /\ Rest

\* The timer, with maybeAttemptReconnect.
TimerFires ==
    /\ reconnectTimer = "armed" /\ MayAsk
    /\ reconnectTimer' = IF TimerRepeats THEN "armed" ELSE "spent"
    /\ shouldRestartReconnect' = TRUE
    /\ IF reachability THEN MaybeAttempt(network, TRUE)
       ELSE UNCHANGED <<stream, queryingDelegates, queries>>
    /\ UNCHANGED <<moduleQueue, shouldReconnect, manuallyStarted, reachability, restart,
                   previous, histVars>>
    /\ Rest

\* maybeAttemptReconnectWithTicket: with the ticket that counts.
RestartFires ==
    /\ restart /\ MayAsk
    /\ restart' = FALSE
    /\ IF reachability THEN MaybeAttempt(network, shouldRestartReconnect)
       ELSE UNCHANGED <<stream, queryingDelegates, queries>>
    /\ UNCHANGED <<moduleQueue, shouldReconnect, shouldRestartReconnect, manuallyStarted,
                   reconnectTimer, reachability, previous, histVars>>
    /\ Rest

\* The callback of a monitored network, with the flags by then.
NetworkChanges ==
    /\ network' \in Flags /\ UNCHANGED autoReconnect
    /\ IF reachability
       THEN /\ MayAsk
            /\ shouldRestartReconnect' = (shouldRestartReconnect \/ previous # network')
            /\ MaybeAttempt(network', shouldRestartReconnect')
       ELSE network' # network /\ UNCHANGED <<stream, shouldRestartReconnect, queryingDelegates,
                                              queries>>
    /\ UNCHANGED <<moduleQueue, shouldReconnect, manuallyStarted, planVars, previous, histVars>>

\* All delegates have said whether to reconnect.
DelegatesAnswer(yes) ==
    /\ \E i \in DOMAIN queries :
          /\ moduleQueue' = Append(moduleQueue, Answer(yes, queries[i]))
          /\ queries' = RemoveAt(queries, i)
    /\ UNCHANGED <<stream, flagVars, planVars, previous, histVars>>
    /\ Rest

HandleYes ==
    /\ Taking("yes")
    /\ queryingDelegates' = FALSE /\ shouldRestartReconnect' = FALSE
    /\ previous' = Head(moduleQueue).flags
    /\ stream' = StreamAfterConnect
    /\ UNCHANGED <<shouldReconnect, manuallyStarted, planVars, queries, histVars>>
    /\ Rest

\* If the network changed meanwhile the delegates are asked again.
HandleNo ==
    /\ Taking("no")
    /\ previous' = "none"
    /\ shouldRestartReconnect' = FALSE
    /\ IF shouldRestartReconnect /\ reachability /\ Wanted /\ stream = "disconnected"
       THEN queryingDelegates' = TRUE /\ queries' = Append(queries, network)
       ELSE queryingDelegates' = FALSE /\ UNCHANGED queries
    /\ UNCHANGED <<stream, shouldReconnect, manuallyStarted, planVars, histVars>>
    /\ Rest

SetAutoReconnect(flag) ==
    /\ autoReconnect' = flag
    /\ UNCHANGED <<stream, network, moduleQueue, moduleVars>>

-----------------------------------------------------------------------------
Application ==
    \/ AppConnects \/ Authenticates \/ AppDisconnects
    \/ ManualStart \/ Stop
    \/ \E flag \in BOOLEAN : SetAutoReconnect(flag)

Stream == \/ Resolved \/ DidConnect \/ DidAuthenticate \/ Refused
          \/ ConnectFails \/ Lost \/ Replaced \/ Closed

HandleFirst ==
    \/ HandleTold \/ HandleDidConnect \/ HandleDidAuthenticate
    \/ HandleConflict \/ HandleDidDisconnect \/ HandleYes \/ HandleNo

Module == \/ HandleFirst \/ TimerFires \/ RestartFires \/ NetworkChanges
          \/ \E yes \in BOOLEAN : DelegatesAnswer(yes)

Next == Application \/ Stream \/ Module

Spec == Init /\ [][Next]_vars

\* Blocks run, timers fire, a socket that was closed reports it, and the delegates answer, at
\* some time with yes.  An attempt need not come to an end by itself.
LiveSpec ==
    /\ Spec
    /\ WF_vars(HandleFirst) /\ WF_vars(TimerFires) /\ WF_vars(RestartFires) /\ WF_vars(Closed)
    /\ WF_vars(\E yes \in BOOLEAN : DelegatesAnswer(yes)) /\ SF_vars(DelegatesAnswer(TRUE))

-----------------------------------------------------------------------------
(* Properties.                                                                 *)

BlockSet == [kind : {"told", "didConnect", "didAuthenticate", "conflict", "didDisconnect",
                    "yes", "no"}, flags : Flags \cup {"none"}]

\* Every variable stays in its domain.
TypeOK ==
    /\ stream \in {"disconnected", "resolving", "connecting", "closing"} \cup Up
    /\ network \in Flags
    /\ moduleQueue \in Seq(BlockSet)
    /\ {autoReconnect, shouldReconnect, shouldRestartReconnect, manuallyStarted,
        queryingDelegates, reachability, restart, process, halted} \subseteq BOOLEAN
    /\ reconnectTimer \in {"none", "armed", "spent"}
    /\ previous \in Flags \cup {"none"}
    /\ queries \in Seq(Flags)

\* "The stream is up so we can stop our reconnect attempts now": once didConnect has been
\* handled nothing of the process is left that could act on the open stream, neither the
\* timer nor the network monitor nor a delayed restart.
QuietWhenUp ==
    stream \in Up /\ ~Waiting("didConnect")
        => reconnectTimer = "none" /\ ~reachability /\ ~restart

\* A process that was begun, by an accidental disconnection or by manualStart, can go on: the
\* network is monitored, and the timer is there unless it is disabled.
ProcessIsEquipped ==
    process => /\ reachability
               /\ (TimerRepeats \/ TimerDelayed => reconnectTimer # "none")

\* A process that was begun is not left running for nothing: as long as autoReconnect is set
\* the module wants the attempts that the timer and the monitor ask for.
ProcessIsWantedUnchanged == process /\ autoReconnect => Wanted

\* As the documentation has it, also when autoReconnect is cleared meanwhile: "this will not
\* stop the current reconnect process".
ProcessIsWanted == process => Wanted

\* What is not wanted any more is not monitored: after stop, a disconnection on purpose or a
\* success there is no timer left that fires for nobody.
MonitorsForProcess == reconnectTimer # "none" \/ reachability => process

\* After stop, a disconnection on purpose, or a conflict ("the two devices may get into an
\* infinite loop of kicking each other off") the delegates are not asked for another attempt
\* until the stream has authenticated or manualStart is called.
StopEnds == [][halted /\ halted' => Len(queries') <= Len(queries)]_vars

\* The module aborts only attempts: a stream that was connected is aborted (it is negotiating
\* or authenticating) only while the module has not heard of didConnect yet.
AbortsUnheardOnly ==
    [][stream = "authenticating" /\ stream' = "closing" /\ ~Waiting("didConnect")
         => Len(moduleQueue') > Len(moduleQueue)]_vars

\* A process makes attempt after attempt until it ends: a stream that is disconnected is
\* connected again, and an attempt that neither succeeds nor fails is aborted, so that the
\* next can begin.  (Without a repeating timer a process may rest until the network changes.)
Reconnects ==
    /\ process /\ stream = "disconnected" ~> ~process \/ ~autoReconnect \/ stream # "disconnected"
    /\ process /\ stream # "disconnected" ~> ~process \/ ~autoReconnect \/ stream = "disconnected"

\* stop is final "regardless of the state we're in": the module does not connect a stream
\* that it was told to leave alone.
StoppedStays ==
    [][halted /\ stream = "disconnected" /\ Len(moduleQueue') < Len(moduleQueue)
         => stream' = "disconnected"]_vars

=============================================================================
