------------------------------ MODULE AutoPing ------------------------------
(* XMPPAutoPing and the XMPPPing it owns (Extensions/XEP-0199), with the       *)
(* XMPPIDTracker that times the pings (Utilities/XMPPIDTracker.m).             *)
(*                                                                             *)
(* The two modules have a queue each.  The stream posts its callbacks to both; *)
(* XMPPAutoPing posts the tracking of a new ping to the queue of XMPPPing and  *)
(* the ping to the stream; XMPPPing posts the outcome back.  Timers run on the *)
(* queue of their module, between its blocks.  Time is kept only as "recent"   *)
(* or "old" of the last reception; a ping whose id occurs nowhere any more may *)
(* be sent again as a new one, so that no number grows.                        *)
EXTENDS Naturals, Sequences, FiniteSets, SequencesExt

CONSTANTS
    Pings,      \* bound: pings that are known to somebody at the same time
    MaxQueue,   \* bound: blocks on a queue to which the stream adds another
    TimesOut    \* pingTimeout > 0

ASSUME PingsAssumption == IsFiniteSet(Pings) /\ "none" \notin Pings

ASSUME QueueAssumption == MaxQueue \in Nat

ASSUME TimesOutAssumption == TimesOut \in BOOLEAN

VARIABLES
    \* the stream
    authenticated,    \* isAuthenticated
    outbox,           \* pings given to sendElement: that its queue has not taken
    wire,             \* pings written on this connection and not answered
    \* XMPPAutoPing
    moduleQueue,
    pingInterval,     \* pingInterval > 0
    pingIntervalTimer,
    lastReceiveTime,  \* "never" is 0
    awaitingPingResponse,
    \* XMPPPing and its pingTracker
    pingQueue,
    tracked,          \* the ids in the dictionary
    armed,            \* those whose timer can still fire
    \* history, for the properties
    verdicts,         \* what XMPPAutoPing was told of each ping
    old               \* pings sent before the last disconnection

streamVars == <<authenticated, outbox, wire>>
autoVars   == <<pingInterval, pingIntervalTimer, lastReceiveTime, awaitingPingResponse>>
trackVars  == <<tracked, armed>>
histVars   == <<verdicts, old>>
vars == <<streamVars, moduleQueue, autoVars, pingQueue, trackVars, histVars>>

Event(kind)     == [kind |-> kind, id |-> "none"]
About(kind, id) == [kind |-> kind, id |-> id]
Waits(queue, kinds) == \E i \in DOMAIN queue : queue[i].kind \in kinds
Ids(queue)      == {queue[i].id : i \in DOMAIN queue}

\* generateUUID never returns an id that is in use.
Known == ToSet(outbox) \cup wire \cup Ids(moduleQueue) \cup Ids(pingQueue) \cup tracked
Fresh == Pings \ Known

Init ==
    /\ authenticated = FALSE /\ outbox = <<>> /\ wire = {}
    /\ moduleQueue = <<>>
    /\ pingInterval = TRUE /\ pingIntervalTimer = FALSE
    /\ lastReceiveTime = "never" /\ awaitingPingResponse = FALSE
    /\ pingQueue = <<>> /\ tracked = {} /\ armed = {}
    /\ verdicts = [p \in Pings |-> <<>>] /\ old = {}

-----------------------------------------------------------------------------
(* The stream and the server.                                                  *)

StreamMay == Len(moduleQueue) < MaxQueue /\ Len(pingQueue) < MaxQueue

DidAuthenticate ==
    /\ ~authenticated /\ StreamMay
    /\ authenticated' = TRUE
    /\ moduleQueue' = Append(moduleQueue, Event("didAuthenticate"))
    /\ UNCHANGED <<outbox, wire, autoVars, pingQueue, trackVars, histVars>>

DidDisconnect ==
    /\ authenticated /\ StreamMay
    /\ authenticated' = FALSE /\ wire' = {}
    /\ moduleQueue' = Append(moduleQueue, Event("didDisconnect"))
    /\ pingQueue' = Append(pingQueue, Event("didDisconnect"))
    /\ old' = Known \cap Pings
    /\ UNCHANGED <<outbox, autoVars, trackVars, verdicts>>

\* sendElement: without a connection the element is dropped.
WritePing ==
    /\ outbox # <<>> /\ outbox' = Tail(outbox)
    /\ wire' = IF authenticated THEN wire \cup {Head(outbox)} ELSE wire
    /\ UNCHANGED <<authenticated, moduleQueue, autoVars, pingQueue, trackVars, histVars>>

ReceivePong ==
    \E p \in wire :
        /\ StreamMay
        /\ wire' = wire \ {p}
        /\ moduleQueue' = Append(moduleQueue, Event("received"))
        /\ pingQueue' = Append(pingQueue, About("iq", p))
        /\ UNCHANGED <<authenticated, outbox, autoVars, trackVars, histVars>>

ReceiveOther ==
    /\ authenticated /\ StreamMay
    /\ moduleQueue' = Append(moduleQueue, Event("received"))
    /\ UNCHANGED <<streamVars, autoVars, pingQueue, trackVars, histVars>>

-----------------------------------------------------------------------------
(* XMPPAutoPing.                                                               *)

Taking(kind) ==
    /\ moduleQueue # <<>> /\ Head(moduleQueue).kind = kind
    /\ moduleQueue' = Tail(moduleQueue)

Rest == UNCHANGED <<streamVars, pingQueue, trackVars, old>>

HandleDidAuthenticate ==
    /\ Taking("didAuthenticate")
    /\ lastReceiveTime' = "recent" /\ awaitingPingResponse' = FALSE
    /\ pingIntervalTimer' = (pingIntervalTimer \/ pingInterval)
    /\ UNCHANGED <<pingInterval, verdicts>> /\ Rest

HandleReceived ==
    /\ Taking("received")
    /\ lastReceiveTime' = "recent"
    /\ UNCHANGED <<pingInterval, pingIntervalTimer, awaitingPingResponse, verdicts>> /\ Rest

Resets_NotAwaiting ==
    pingIntervalTimer' = FALSE /\ lastReceiveTime' = "never" /\ UNCHANGED awaitingPingResponse
Resets ==
    pingIntervalTimer' = FALSE /\ lastReceiveTime' = "never" /\ awaitingPingResponse' = FALSE

HandleDidDisconnect ==
    /\ Taking("didDisconnect")
    /\ Resets
    /\ UNCHANGED <<pingInterval, verdicts>> /\ Rest

\* didReceivePong and didNotReceivePong, whatever ping they are about.
HandleVerdict(kind) ==
    /\ Taking(kind)
    /\ awaitingPingResponse' = FALSE
    /\ verdicts' = [verdicts EXCEPT ![Head(moduleQueue).id] = Append(@, kind)]
    /\ UNCHANGED <<pingInterval, pingIntervalTimer, lastReceiveTime>> /\ Rest

\* Tracking is posted before the ping is.
HandlePingIntervalTimerFire ==
    /\ pingIntervalTimer /\ ~awaitingPingResponse /\ lastReceiveTime # "recent"
    /\ awaitingPingResponse' = TRUE
    /\ \E p \in Fresh :
          /\ pingQueue' = Append(pingQueue, About("addID", p))
          /\ outbox' = Append(outbox, p)
          /\ verdicts' = [verdicts EXCEPT ![p] = <<>>]
          /\ old' = old \ {p}
    /\ UNCHANGED <<authenticated, wire, moduleQueue, pingInterval, pingIntervalTimer,
                   lastReceiveTime, trackVars>>

Elapses ==
    /\ lastReceiveTime = "recent" /\ lastReceiveTime' = "old"
    /\ UNCHANGED <<moduleQueue, pingInterval, pingIntervalTimer, awaitingPingResponse, verdicts>>
    /\ Rest

\* Only on a stream that is authenticated by then.
StartsTimer_Always == pingIntervalTimer' = TRUE
StartsTimer == pingIntervalTimer' = (pingIntervalTimer \/ authenticated)

SetPingInterval(positive) ==
    /\ pingInterval' = positive
    /\ IF positive THEN StartsTimer ELSE pingIntervalTimer' = FALSE
    /\ UNCHANGED <<moduleQueue, lastReceiveTime, awaitingPingResponse, verdicts>> /\ Rest

-----------------------------------------------------------------------------
(* XMPPPing and its tracker.                                                   *)

PingTaking(kind) ==
    /\ pingQueue # <<>> /\ Head(pingQueue).kind = kind
    /\ pingQueue' = Tail(pingQueue)

PingRest == UNCHANGED <<streamVars, autoVars, histVars>>
PingTells(kind, p) == moduleQueue' = Append(moduleQueue, About(kind, p))

\* The tracker arms a timer only for a positive timeout.
HandleAddID ==
    /\ PingTaking("addID")
    /\ tracked' = tracked \cup {Head(pingQueue).id}
    /\ armed' = IF TimesOut THEN armed \cup {Head(pingQueue).id} ELSE armed
    /\ UNCHANGED moduleQueue /\ PingRest

\* invokeForID:withObject: cancels the timer and removes the entry.
Untracks_TimerStays(p) == tracked' = tracked \ {p} /\ UNCHANGED armed
Untracks(p) == tracked' = tracked \ {p} /\ armed' = armed \ {p}

HandleIQ ==
    /\ PingTaking("iq")
    /\ LET p == Head(pingQueue).id IN
       IF p \in tracked THEN Untracks(p) /\ PingTells("pong", p)
       ELSE UNCHANGED <<trackVars, moduleQueue>>
    /\ PingRest

RemoveAllIDs_TimersOnly == armed' = {} /\ UNCHANGED tracked
RemoveAllIDs == tracked' = {} /\ armed' = {}

HandlePingDidDisconnect ==
    /\ PingTaking("didDisconnect")
    /\ RemoveAllIDs
    /\ UNCHANGED moduleQueue /\ PingRest

\* The timer of a tracked ping: the entry stays in the dictionary.
TrackerFires_Silent(p) ==
    /\ p \in armed /\ armed' = armed \ {p}
    /\ UNCHANGED <<tracked, moduleQueue, pingQueue>> /\ PingRest

TrackerFires(p) ==
    /\ p \in armed /\ armed' = armed \ {p}
    /\ PingTells("timeout", p)
    /\ UNCHANGED <<tracked, pingQueue>> /\ PingRest

-----------------------------------------------------------------------------
Stream == DidAuthenticate \/ DidDisconnect \/ WritePing \/ ReceivePong \/ ReceiveOther

AutoPingBlock ==
    \/ HandleDidAuthenticate \/ HandleReceived \/ HandleDidDisconnect
    \/ HandleVerdict("pong") \/ HandleVerdict("timeout")

PingBlock == HandleAddID \/ HandleIQ \/ HandlePingDidDisconnect

Next ==
    \/ Stream \/ AutoPingBlock \/ PingBlock
    \/ HandlePingIntervalTimerFire \/ Elapses
    \/ \E positive \in BOOLEAN : SetPingInterval(positive)
    \/ \E p \in Pings : TrackerFires(p)

Spec == Init /\ [][Next]_vars

\* The queues run their blocks and timers fire.  Neither the server nor the application has
\* to do anything.
LiveSpec ==
    /\ Spec
    /\ WF_vars(AutoPingBlock) /\ WF_vars(PingBlock) /\ WF_vars(HandlePingIntervalTimerFire)
    /\ \A p \in Pings : WF_vars(TrackerFires(p))

-----------------------------------------------------------------------------
(* Properties.                                                                 *)

ModuleBlocks == {Event(k) : k \in {"didAuthenticate", "didDisconnect", "received"}}
                  \cup [kind : {"pong", "timeout"}, id : Pings]
PingBlocks   == {Event("didDisconnect")} \cup [kind : {"addID", "iq"}, id : Pings]

\* Every variable stays in its domain, and only tracked pings have a timer.
TypeOK ==
    /\ {authenticated, pingInterval, pingIntervalTimer, awaitingPingResponse} \subseteq BOOLEAN
    /\ outbox \in Seq(Pings) /\ wire \subseteq Pings
    /\ moduleQueue \in Seq(ModuleBlocks) /\ pingQueue \in Seq(PingBlocks)
    /\ lastReceiveTime \in {"never", "recent", "old"}
    /\ tracked \subseteq Pings /\ armed \subseteq tracked
    /\ verdicts \in [Pings -> Seq({"pong", "timeout"})]
    /\ old \subseteq Pings

\* XMPPAutoPing never waits for nothing: while a ping keeps it from sending another, its
\* outcome can still come, or a callback that ends the waiting is on the way.  A ping that
\* XMPPPing forgot on its own queue would stop the pings for good.  (Without a timeout a ping
\* ends only with its pong or with the connection.)
AwaitingEnds ==
    awaitingPingResponse =>
        \/ Waits(moduleQueue, {"didAuthenticate", "didDisconnect", "pong", "timeout"})
        \/ Waits(pingQueue, {"addID"})
        \/ armed # {}
        \/ ~TimesOut /\ tracked # {}

\* An open stream is watched and a closed one is not: apart from callbacks that XMPPAutoPing
\* has not heard yet the timer runs when the stream is authenticated and pinging is enabled,
\* whatever the order of setPingInterval: and the callbacks.
MonitorsWhileUp ==
    ~Waits(moduleQueue, {"didAuthenticate", "didDisconnect"})
        => (pingIntervalTimer <=> authenticated /\ pingInterval)

\* A pong is the last word on a ping: the timer of a ping that was answered does not report
\* a timeout afterwards.  (A timeout may be followed by the pong that was late.)
PongIsFinal ==
    \A p \in Pings : verdicts[p] \in {<<>>, <<"pong">>, <<"timeout">>, <<"timeout", "pong">>}

\* The same with one outcome for each ping, which the late pong breaks: the tracker keeps the
\* entry whose timer fired.
OneVerdict == \A p \in Pings : Len(verdicts[p]) <= 1

StillTracked(p) == p \in tracked \/ About("addID", p) \in ToSet(pingQueue)

\* "outstanding pings are forgotten": a ping sent before a disconnection is not tracked any
\* more once XMPPPing has heard of it, so that it does not time out on the next connection.
OldPingsForgotten ==
    \A p \in old : StillTracked(p) => Waits(pingQueue, {"didDisconnect"})

\* As documented, of every ping.  A ping of the timer that fires before XMPPAutoPing hears of
\* the disconnection is tracked after XMPPPing has heard of it.
PingsForgotten ==
    tracked # {} => authenticated \/ Waits(pingQueue, {"didDisconnect"})

\* A silent peer is noticed: when nothing was received for the interval a ping is sent, and
\* every ping that is awaited ends, with a pong, a timeout or the connection.  (Pings have a
\* timeout, as they do unless the application sets it to zero.)
SilenceIsNoticed ==
    /\ pingIntervalTimer /\ lastReceiveTime = "old"
         ~> \/ awaitingPingResponse \/ lastReceiveTime = "recent"
            \/ ~pingIntervalTimer \/ Fresh = {}
    /\ awaitingPingResponse ~> ~awaitingPingResponse

=============================================================================
