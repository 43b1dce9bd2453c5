--------------------------- MODULE StreamManagement ---------------------------
(* The client side of XEP-0198 (XMPPStreamManagement.m): how the module counts *)
(* and acknowledges the stanzas that cross one XMPPStream, keeps what is not   *)
(* acknowledged in its storage, and resumes a session on a later connection.   *)
(*                                                                             *)
(* Two serial queues take part.  The stream's xmppQueue writes to the socket   *)
(* and posts delegate callbacks; the module's moduleQueue runs them in order.  *)
(* `moduleQ' is the sequence of callbacks posted and not yet run, `c2s' what   *)
(* is written and not yet handled by the server.  What the server sends is     *)
(* posted to moduleQ at once: the wire and the queue are both FIFO, and what   *)
(* the wire loses is what the server never gets to send (see Disconnect).      *)
(* The delegates answer on their own queues, at any later time.                *)
EXTENDS Integers, Sequences, FiniteSets

CONSTANTS
    MaxOut,          \* bound: stanzas the application sends
    MaxIn,           \* bound: stanzas the server sends, over all its sessions
    MaxConn,         \* bound: connections
    MaxCrash,        \* bound: crashes of the client process
    MaxQueue,        \* bound: length of moduleQ and c2s before optional traffic is added
    Modulus,         \* values an h attribute can take: 2^32 in the code
    AsyncIds,        \* a delegate implements stanzaIdForSentElement:
    AsyncHandled,    \* a delegate implements getIsHandled:stanzaId:forReceivedElement:
    IdLess,          \* sent stanzas with neither a delegate's id nor an elementID
    RequestCount,    \* autoRequest_stanzaCount
    RequestTimeout,  \* autoRequest_timeout > 0
    AckCount,        \* autoAck_stanzaCount
    AckTimeout,      \* autoAck_timeout > 0
    AckDelay,        \* ackResponseDelay > 0
    MayDecline,      \* the application may bind afresh although it could resume
    ResumeMayBreak,  \* connection or process may be lost before the answer to <resume/>
    EnableLate,      \* the application's call of enable may come after the connection is lost
    WillReceive      \* a delegate implements xmppStream:willReceiveX:

ASSUME BoundsAssumption ==
    /\ MaxOut \in Nat /\ MaxIn \in Nat /\ MaxConn \in Nat /\ MaxCrash \in Nat
    /\ MaxQueue \in Nat
    /\ Modulus \in Nat \ {0}

ASSUME ConfigAssumption ==
    /\ {AsyncIds, AsyncHandled, RequestTimeout, AckTimeout, AckDelay} \subseteq BOOLEAN
    /\ {MayDecline, ResumeMayBreak, EnableLate, WillReceive} \subseteq BOOLEAN
    /\ RequestCount \in Nat /\ AckCount \in Nat
    /\ IdLess \subseteq Nat

VARIABLES
    \* the stream and the wire
    conn,        \* "closed", "binding", "resuming" or "bound"
    conns,       \* connections so far
    sent,        \* stanzas sent so far: stanza n is the n-th
    c2s,         \* elements written and not yet handled by the server
    moduleQ,     \* callbacks posted to the moduleQueue
    willQ,       \* stanzas waiting on the stream's willReceiveStanzaQueue
    \* the server
    attached,    \* the session of this connection, 0 if none
    sessions,    \* sessions[s]: what the server knows of session s
    received,    \* the stanzas the server has handled
    delivered,   \* stanzas the server has produced, whether they arrived or not
    \* flags of the module
    isStarted, enableQueued, enableSent, wasCleanDisconnect, didResume, disconnectDate,
    \* outgoing half of the module
    lastHandledByServer, unackedByServer, lastRequestOffset, prevUnacked,
    unprocessedAcks, draining, autoRequestTimer, idQueries,
    \* incoming half of the module
    lastHandledByClient, unackedByClient, lastAckOffset, pendingHandled,
    outstandingIds, objects, autoAckTimer, ackResponseTimer, handledQueries, handledAnswers,
    \* the storage
    store,
    \* history, for the properties
    session,     \* the server's session that the module's counters are about
    reported,    \* stanzas whose acknowledgement was reported to the delegates
    reports,     \* how many ids were reported, repetitions included
    appHandled,  \* stanzas <<session, n>> the application has handled
    marksDue,    \* stanzas the application will hand to markHandledStanzaId:
    lost,        \* stanzas a <resumed/> counted without their id being reported
    crashes

streamVars == <<conn, conns, sent>>
serverVars == <<attached, sessions, received, delivered>>
flagVars   == <<isStarted, enableQueued, enableSent, wasCleanDisconnect, didResume,
                disconnectDate>>
outVars    == <<lastHandledByServer, unackedByServer, lastRequestOffset, prevUnacked,
                unprocessedAcks, draining, autoRequestTimer, idQueries>>
inVars     == <<lastHandledByClient, unackedByClient, lastAckOffset, pendingHandled,
                outstandingIds, objects, autoAckTimer, ackResponseTimer, handledQueries,
                handledAnswers>>
histVars   == <<session, reported, reports, appHandled, marksDue, lost, crashes>>
vars       == <<streamVars, c2s, moduleQ, willQ, serverVars, flagVars, outVars, inVars, store,
                histVars>>

-----------------------------------------------------------------------------
(* Elements, callbacks and stanzas.                                           *)

Element(name, arg, sid) == [name |-> name, arg |-> arg, sid |-> sid]

ElementName == {"didSend", "didSendEnable", "stanza", "filtered", "a", "r", "enabled",
                "failed", "sendResume", "resumed", "resumeFailed", "closing",
                "didDisconnect", "enable", "resume", "close"}

\* Some element of the queue q has one of the names.
Holds(q, names) == \E i \in DOMAIN q : q[i].name \in names

\* XMPPStreamManagementOutgoingStanza: id 0 stands for nil.
Outgoing(n, id, awaiting) == [n |-> n, id |-> id, awaiting |-> awaiting]

\* XMPPStreamManagementIncomingStanza, and which of the server's stanzas it is.
\* `obj' tells apart the objects made for two deliveries of the same stanza.
Incoming(obj, sid, n, known, handled) ==
    [obj |-> obj, sid |-> sid, n |-> n, known |-> known, handled |-> handled]

StanzaId(n) == IF n \in IdLess THEN 0 ELSE n

\* How many of the first n outgoing stanzas can be acknowledged: those before the
\* first whose id a delegate has not given yet.
KnownPrefix_All(s, n) == n
KnownPrefix(s, n) == Cardinality({k \in 1..n : \A j \in 1..k : ~s[j].awaiting})

\* How many incoming stanzas can be acknowledged: those before the first unhandled one.
HandledPrefix_Any(s) == Cardinality({k \in 1..Len(s) : s[k].handled})
HandledPrefix(s) == Cardinality({k \in 1..Len(s) : \A j \in 1..k : s[j].handled})

Drop(s, k) == SubSeq(s, k + 1, Len(s))

EmptyStore == [id |-> 0, date |-> FALSE, hc |-> 0, hs |-> 0, pending |-> <<>>]

-----------------------------------------------------------------------------
Init ==
    /\ conn = "closed" /\ conns = 0 /\ sent = 0
    /\ c2s = <<>> /\ moduleQ = <<>> /\ willQ = <<>>
    /\ attached = 0 /\ sessions = <<>> /\ received = {} /\ delivered = 0
    /\ isStarted = FALSE /\ enableQueued = FALSE /\ enableSent = FALSE
    /\ wasCleanDisconnect = FALSE /\ didResume = FALSE /\ disconnectDate = FALSE
    /\ lastHandledByServer = 0 /\ unackedByServer = <<>> /\ lastRequestOffset = 0
    /\ prevUnacked = <<>> /\ unprocessedAcks = <<>> /\ draining = "idle"
    /\ autoRequestTimer = FALSE /\ idQueries = {}
    /\ lastHandledByClient = 0 /\ unackedByClient = <<>> /\ lastAckOffset = 0
    /\ pendingHandled = <<>> /\ outstandingIds = 0 /\ objects = 0
    /\ autoAckTimer = FALSE /\ ackResponseTimer = FALSE
    /\ handledQueries = {} /\ handledAnswers = {}
    /\ store = EmptyStore
    /\ session = 0 /\ reported = {} /\ reports = 0 /\ appHandled = {} /\ marksDue = {}
    /\ lost = {} /\ crashes = 0

-----------------------------------------------------------------------------
(* What the module's handlers share.                                          *)

\* A block of the moduleQueue may run: the loop of AnswerStanzaId is one block.
QueueFree == draining = "idle"

\* The next callback is called `name'.
Next_is(name) == QueueFree /\ moduleQ # <<>> /\ Head(moduleQ).name = name

\* [xmppStream sendElement:] writes the element only in STATE_XMPP_CONNECTED.
Written(name, arg) ==
    IF conn = "bound" THEN Append(c2s, Element(name, arg, 0)) ELSE c2s

\* The two ways the module writes the outgoing half to storage.
StoreOutgoing_StaleCount(hs, pending) == [store EXCEPT !.date = TRUE, !.pending = pending]

StoreOutgoing(hs, pending) ==
    IF isStarted
    THEN [store EXCEPT !.date = TRUE, !.hs = hs, !.pending = pending]
    ELSE [store EXCEPT !.date = disconnectDate, !.hc = lastHandledByClient, !.hs = hs,
                       !.pending = pending]

\* ... and the incoming half.
StoreHandled(hc) ==
    IF isStarted
    THEN [store EXCEPT !.date = TRUE, !.hc = hc]
    ELSE [store EXCEPT !.date = disconnectDate, !.hc = hc, !.hs = lastHandledByServer,
                       !.pending = unackedByServer]

-----------------------------------------------------------------------------
(* Requesting acks and processing them.                                       *)

\* _requestAck, with u the stanzas waiting for an ack.
RequestAck_OffsetKept(u) ==
    /\ c2s' = Written("r", 0)
    /\ autoRequestTimer' = FALSE
    /\ UNCHANGED lastRequestOffset

RequestAck(u) ==
    /\ IF isStarted \/ enableQueued \/ enableSent
       THEN c2s' = Written("r", 0) /\ lastRequestOffset' = Len(u)
       ELSE UNCHANGED <<c2s, lastRequestOffset>>
    /\ autoRequestTimer' = FALSE

\* maybeRequestAck: enough stanzas since the last request, or a timer for later.
MaybeRequestAck(u) ==
    LET pending == Len(u) - lastRequestOffset
        enough  == pending > 0 /\ RequestCount > 0 /\ pending >= RequestCount
    IN \/ enough /\ RequestAck(u)
       \/ /\ ~enough
          /\ autoRequestTimer' = (autoRequestTimer \/ (RequestTimeout /\ pending > 0))
          /\ UNCHANGED <<c2s, lastRequestOffset>>

\* The bound on acks that no stanza calls for: one at a time, and none for a client that
\* sends no stanza.
RoomForAck ==
    /\ MaxOut > 0
    /\ Len(moduleQ) < MaxQueue /\ ~Holds(moduleQ, {"a"}) /\ Len(unprocessedAcks) < MaxQueue

\* The API method requestAck, and the firing of autoRequestTimer.
CallRequestAck ==
    /\ QueueFree
    /\ isStarted \/ enableQueued \/ enableSent
    /\ RoomForAck /\ Len(c2s) < MaxQueue /\ ~Holds(c2s, {"r"})
    /\ RequestAck(unackedByServer)
    /\ UNCHANGED <<streamVars, moduleQ, willQ, serverVars, flagVars, lastHandledByServer,
                   unackedByServer, prevUnacked, unprocessedAcks, draining, idQueries,
                   inVars, store, histVars>>

AutoRequestTimerFires ==
    /\ QueueFree
    /\ autoRequestTimer
    /\ RequestAck(unackedByServer)
    /\ UNCHANGED <<streamVars, moduleQ, willQ, serverVars, flagVars, lastHandledByServer,
                   unackedByServer, prevUnacked, unprocessedAcks, draining, idQueries,
                   inVars, store, histVars>>

\* [unackedByServer addObject:stanza].
AddPending(x) == Append(unackedByServer, x)

\* processSentElement:, from xmppStream:didSendIQ:, didSendMessage: and didSendPresence:.
HandleDidSend ==
    /\ Next_is("didSend")
    /\ moduleQ' = Tail(moduleQ)
    /\ LET n == Head(moduleQ).arg
           u == AddPending(IF AsyncIds THEN Outgoing(n, 0, TRUE)
                           ELSE Outgoing(n, StanzaId(n), FALSE))
       IN IF isStarted \/ enableSent
          THEN /\ unackedByServer' = u
               /\ idQueries' = IF AsyncIds THEN idQueries \cup {n} ELSE idQueries
               /\ store' = IF AsyncIds THEN store ELSE StoreOutgoing(lastHandledByServer, u)
               /\ MaybeRequestAck(u)
          ELSE UNCHANGED <<unackedByServer, idQueries, store, c2s, lastRequestOffset,
                           autoRequestTimer>>
    /\ UNCHANGED <<streamVars, willQ, serverVars, flagVars, lastHandledByServer, prevUnacked,
                   unprocessedAcks, draining, inVars, histVars>>

\* How many stanzas an h acknowledges, as uint32_t arithmetic computes it.
AckDiff_OneMore(h) == h - lastHandledByServer + 1

AckDiff(h) == IF h >= lastHandledByServer
              THEN h - lastHandledByServer
              ELSE (Modulus - 1 - lastHandledByServer) + h

Smaller(a, b) == IF a < b THEN a ELSE b

\* The ids of the first k stanzas of s that have one.
IdsOf(s, k) == {s[i].id : i \in 1..k} \ {0}

\* What the delegates are told: didReceiveAckForStanzaIds:.
Report(s, k) ==
    /\ reported' = reported \cup IdsOf(s, k)
    /\ reports' = reports + Cardinality({i \in 1..k : s[i].id # 0})

\* lastRequestOffset when k stanzas leave the front of unackedByServer.
OffsetAfter_Kept(k)      == lastRequestOffset
OffsetAfter(k) == IF lastRequestOffset > k THEN lastRequestOffset - k ELSE 0

\* processReceivedAck: can mark the whole ack as processed ...
AckComplete_Always(h) == TRUE

AckComplete(h) ==
    LET diff == Smaller(AckDiff(h), Len(unackedByServer))
    IN KnownPrefix(unackedByServer, diff) = diff

\* ... and in any case reports what it can, in the order the stanzas were sent.
ProcessAck(h) ==
    LET diff      == Smaller(AckDiff(h), Len(unackedByServer))
        processed == KnownPrefix(unackedByServer, diff)
        newest    == IF processed = diff THEN h
                     ELSE (lastHandledByServer + processed) % Modulus
        rest      == Drop(unackedByServer, processed)
    IN IF AckDiff(h) # 0 /\ (processed = diff \/ processed > 0)
       THEN /\ unackedByServer' = rest
            /\ lastRequestOffset' = OffsetAfter(processed)
            /\ lastHandledByServer' = newest
            /\ store' = StoreOutgoing(newest, rest)
            /\ Report(unackedByServer, processed)
       ELSE UNCHANGED <<unackedByServer, lastRequestOffset, lastHandledByServer, store,
                        reported, reports>>

\* An <a/>: an ack that is not completely processed is kept for later.
HandleAck ==
    /\ Next_is("a")
    /\ moduleQ' = Tail(moduleQ)
    /\ LET h == Head(moduleQ).arg
       IN /\ ProcessAck(h)
          /\ unprocessedAcks' = IF AckComplete(h) THEN unprocessedAcks
                                ELSE Append(unprocessedAcks, h)
    /\ UNCHANGED <<streamVars, c2s, willQ, serverVars, flagVars, prevUnacked, draining,
                   autoRequestTimer, idQueries, inVars, session, appHandled, marksDue,
                   lost, crashes>>

\* The delegates' stanzaId for stanza n arrives.  It is set on the object, which may
\* have left unackedByServer (enable, resume); then the kept acks are tried again.
AnswerStanzaId ==
    /\ QueueFree
    /\ \E n \in idQueries :
          /\ idQueries' = idQueries \ {n}
          /\ unackedByServer' =
                [i \in DOMAIN unackedByServer |->
                    IF unackedByServer[i].n = n THEN Outgoing(n, StanzaId(n), FALSE)
                    ELSE unackedByServer[i]]
    /\ draining' = "first"
    /\ UNCHANGED <<streamVars, c2s, moduleQ, willQ, serverVars, flagVars, lastHandledByServer,
                   lastRequestOffset, prevUnacked, unprocessedAcks, autoRequestTimer,
                   inVars, store, histVars>>

\* One turn of the loop over unprocessedReceivedAcks, in the same block: "first" until
\* an ack has been dequeued, "again" from then on.
DrainAck ==
    /\ draining # "idle"
    /\ unprocessedAcks # <<>>
    /\ AckComplete(Head(unprocessedAcks))
    /\ ProcessAck(Head(unprocessedAcks))
    /\ unprocessedAcks' = Tail(unprocessedAcks)
    /\ draining' = "again"
    /\ UNCHANGED <<streamVars, c2s, moduleQ, willQ, serverVars, flagVars, prevUnacked,
                   autoRequestTimer, idQueries, inVars, session, appHandled, marksDue,
                   lost, crashes>>

\* The loop ends at an ack that still waits for an id, having reported what precedes it.
\* updateStoredPendingOutgoingStanzas adds nothing to what that ack stored.
DrainBlocked ==
    /\ draining # "idle"
    /\ unprocessedAcks # <<>>
    /\ LET h    == Head(unprocessedAcks)
           diff == Smaller(AckDiff(h), Len(unackedByServer))
       IN /\ ~AckComplete(h)
          /\ IF KnownPrefix(unackedByServer, diff) = 0 /\ draining = "first"
             THEN /\ store' = StoreOutgoing(lastHandledByServer, unackedByServer)
                  /\ UNCHANGED <<unackedByServer, lastRequestOffset, lastHandledByServer,
                                 reported, reports>>
             ELSE ProcessAck(h)
    /\ draining' = "idle"
    /\ UNCHANGED <<streamVars, c2s, moduleQ, willQ, serverVars, flagVars, prevUnacked,
                   unprocessedAcks, autoRequestTimer, idQueries, inVars, session,
                   appHandled, marksDue, lost, crashes>>

\* ... or because none is left.
DrainDone ==
    /\ draining # "idle"
    /\ unprocessedAcks = <<>>
    /\ store' = IF draining = "first" THEN StoreOutgoing(lastHandledByServer, unackedByServer)
                ELSE store
    /\ draining' = "idle"
    /\ UNCHANGED <<streamVars, c2s, moduleQ, willQ, serverVars, flagVars, lastHandledByServer,
                   unackedByServer, lastRequestOffset, prevUnacked, unprocessedAcks,
                   autoRequestTimer, idQueries, inVars, histVars>>

-----------------------------------------------------------------------------
(* Handling received stanzas and sending acks.                                *)

\* Moves the handled prefix of u out of unackedByClient and stores the new count.
CountHandled(u, offset) ==
    LET k  == HandledPrefix(u)
        hc == (lastHandledByClient + k) % Modulus
    IN /\ unackedByClient' = Drop(u, k)
       /\ lastHandledByClient' = hc
       /\ lastAckOffset' = IF offset = "reset" THEN 0 ELSE lastAckOffset + k
       /\ store' = IF k > 0 THEN StoreHandled(hc) ELSE store

\* _sendAck.  The <a h/> itself carries lastHandledByClient and is not modelled as traffic:
\* the server only trims its own queue with it.
SendAck(u) ==
    /\ CountHandled(u, IF isStarted THEN "reset" ELSE "keep")
    /\ autoAckTimer' = FALSE
    /\ ackResponseTimer' = FALSE

\* if (![self maybeSendAck]) [self maybeUpdateStoredLastHandledByClient]
MaybeSendAck_OneLate(u) ==
    LET pending == lastAckOffset + HandledPrefix(u)
    IN IF isStarted /\ AckCount > 0 /\ pending > AckCount
       THEN SendAck(u)
       ELSE /\ CountHandled(u, "keep")
            /\ autoAckTimer' = (autoAckTimer \/ (isStarted /\ AckTimeout /\ pending > 0))
            /\ UNCHANGED ackResponseTimer

MaybeSendAck_TimerKept(u) ==
    LET pending == lastAckOffset + HandledPrefix(u)
        enough  == isStarted /\ AckCount > 0 /\ pending >= AckCount
    IN \/ enough /\ pending > 0 /\ SendAck(u)
       \/ /\ ~enough \/ pending = 0
          /\ CountHandled(u, "keep")
          /\ UNCHANGED <<autoAckTimer, ackResponseTimer>>

MaybeSendAck(u) ==
    LET pending == lastAckOffset + HandledPrefix(u)
        enough  == isStarted /\ AckCount > 0 /\ pending >= AckCount
    IN \/ enough /\ pending > 0 /\ SendAck(u)
       \/ /\ ~enough \/ pending = 0
          /\ CountHandled(u, "keep")
          /\ autoAckTimer' = (autoAckTimer \/ (isStarted /\ AckTimeout /\ pending > 0))
          /\ UNCHANGED ackResponseTimer

\* processReceivedElement:, from didReceiveIQ:, didReceiveMessage: and didReceivePresence:.
HandleStanza ==
    /\ Next_is("stanza")
    /\ moduleQ' = Tail(moduleQ)
    /\ LET e == Head(moduleQ)
           x == Incoming(objects + 1, e.sid, e.arg, FALSE, ~AsyncHandled)
           u == Append(unackedByClient, x)
       IN \/ /\ isStarted /\ ~AsyncHandled
             /\ appHandled' = appHandled \cup {<<e.sid, e.arg>>}
             /\ objects' = objects + 1
             /\ MaybeSendAck(u)
             /\ UNCHANGED <<outstandingIds, handledQueries>>
          \/ /\ isStarted /\ AsyncHandled
             /\ unackedByClient' = u
             /\ objects' = objects + 1
             /\ outstandingIds' = outstandingIds + 1
             /\ handledQueries' = handledQueries \cup {x}
             /\ UNCHANGED <<lastHandledByClient, lastAckOffset, store, autoAckTimer,
                            ackResponseTimer, appHandled>>
          \/ /\ ~isStarted
             /\ UNCHANGED <<inVars, store, appHandled>>
    /\ UNCHANGED <<streamVars, c2s, willQ, serverVars, flagVars, outVars, pendingHandled,
                   handledAnswers, session, reported, reports, marksDue, lost, crashes>>

\* xmppStreamDidFilterStanza: counts as handled, whoever is asked about the others.
HandleFiltered ==
    /\ Next_is("filtered")
    /\ moduleQ' = Tail(moduleQ)
    /\ LET e == Head(moduleQ)
           u == Append(unackedByClient, Incoming(objects + 1, e.sid, e.arg, FALSE, TRUE))
       IN IF isStarted
          THEN /\ MaybeSendAck(u)
               /\ objects' = objects + 1
               /\ appHandled' = appHandled \cup {<<e.sid, e.arg>>}
          ELSE UNCHANGED <<objects, unackedByClient, lastHandledByClient, lastAckOffset,
                           store, autoAckTimer, ackResponseTimer, appHandled>>
    /\ UNCHANGED <<streamVars, c2s, willQ, serverVars, flagVars, outVars, pendingHandled,
                   outstandingIds, handledQueries, handledAnswers, session, reported,
                   reports, marksDue, lost, crashes>>

\* A delegate is asked about a received stanza.  It says that it is handled, or that the
\* application will call markHandledStanzaId: when it is.
DelegateDecides ==
    /\ \E x \in handledQueries, handled \in BOOLEAN :
          /\ handledQueries' = handledQueries \ {x}
          /\ handledAnswers' = handledAnswers \cup {[x EXCEPT !.handled = handled]}
          /\ appHandled' = IF handled THEN appHandled \cup {<<x.sid, x.n>>} ELSE appHandled
          /\ marksDue' = IF handled THEN marksDue ELSE marksDue \cup {<<x.sid, x.n>>}
    /\ UNCHANGED <<streamVars, c2s, moduleQ, willQ, serverVars, flagVars, outVars,
                   lastHandledByClient, unackedByClient, lastAckOffset, pendingHandled,
                   outstandingIds, objects, autoAckTimer, ackResponseTimer, store, session,
                   reported, reports, lost, crashes>>

\* A position of an item in a sequence that holds it; equal ids are interchangeable.
IndexOf(s, item) == CHOOSE i \in DOMAIN s : s[i] = item
Without(s, i)    == SubSeq(s, 1, i - 1) \o SubSeq(s, i + 1, Len(s))

\* The application marked the stanza of answer x before the answer was there.
MarkedEarly(x) ==
    ~x.handled /\ \E i \in DOMAIN pendingHandled : pendingHandled[i] = <<x.sid, x.n>>

\* pendingHandledStanzaIds after answer x.
MarksAfter(x) ==
    IF outstandingIds = 1 THEN <<>>
    ELSE IF MarkedEarly(x)
    THEN Without(pendingHandled, IndexOf(pendingHandled, <<x.sid, x.n>>))
    ELSE pendingHandled

\* ... and the answer reaches the moduleQueue.  It is set on the object, which may have
\* left unackedByClient.  outstandingStanzaIds is unsigned: below zero it has wrapped.
AnswerHandled ==
    /\ QueueFree
    /\ \E x \in handledAnswers :
          LET handled == x.handled \/ MarkedEarly(x)
              u       == [i \in DOMAIN unackedByClient |->
                            IF unackedByClient[i].obj = x.obj
                            THEN Incoming(x.obj, x.sid, x.n, ~x.handled, handled)
                            ELSE unackedByClient[i]]
          IN /\ handledAnswers' = handledAnswers \ {x}
             /\ outstandingIds' = outstandingIds - 1
             /\ pendingHandled' = MarksAfter(x)
             /\ IF handled
                THEN MaybeSendAck(u)
                ELSE /\ unackedByClient' = u
                     /\ UNCHANGED <<lastHandledByClient, lastAckOffset, store, autoAckTimer,
                                    ackResponseTimer>>
    /\ UNCHANGED <<streamVars, c2s, moduleQ, willQ, serverVars, flagVars, outVars, objects,
                   handledQueries, histVars>>

\* The application has handled a stanza and calls markHandledStanzaId:.
MarkHandledStanzaId ==
    /\ QueueFree
    /\ \E id \in marksDue :
          LET matches == {i \in DOMAIN unackedByClient :
                            /\ ~unackedByClient[i].handled /\ unackedByClient[i].known
                            /\ <<unackedByClient[i].sid, unackedByClient[i].n>> = id}
              first   == CHOOSE i \in matches : \A j \in matches : i <= j
          IN /\ marksDue' = marksDue \ {id}
             /\ appHandled' = appHandled \cup {id}
             /\ IF matches # {}
                THEN /\ MaybeSendAck([unackedByClient EXCEPT ![first].handled = TRUE])
                     /\ UNCHANGED pendingHandled
                ELSE /\ pendingHandled' = IF outstandingIds # 0
                                          THEN Append(pendingHandled, id) ELSE pendingHandled
                     /\ UNCHANGED <<lastHandledByClient, unackedByClient, lastAckOffset,
                                    store, autoAckTimer, ackResponseTimer>>
    /\ UNCHANGED <<streamVars, c2s, moduleQ, willQ, serverVars, flagVars, outVars,
                   outstandingIds, objects, handledQueries, handledAnswers, session,
                   reported, reports, lost, crashes>>

\* An <r/> from the server: answered at once, or after ackResponseDelay.
HandleRequest ==
    /\ Next_is("r")
    /\ moduleQ' = Tail(moduleQ)
    /\ IF AckDelay
       THEN /\ ackResponseTimer' = TRUE
            /\ UNCHANGED <<lastHandledByClient, unackedByClient, lastAckOffset, store,
                           autoAckTimer>>
       ELSE SendAck(unackedByClient)
    /\ UNCHANGED <<streamVars, c2s, willQ, serverVars, flagVars, outVars, pendingHandled,
                   outstandingIds, objects, handledQueries, handledAnswers, histVars>>

\* The API method sendAck, and the firing of autoAckTimer or ackResponseTimer.
CallSendAck ==
    /\ QueueFree
    /\ isStarted
    /\ autoAckTimer \/ ackResponseTimer \/ lastAckOffset > 0
    /\ SendAck(unackedByClient)
    /\ UNCHANGED <<streamVars, c2s, moduleQ, willQ, serverVars, flagVars, outVars,
                   pendingHandled, outstandingIds, objects, handledQueries, handledAnswers,
                   histVars>>

\* ... the timers alone.
SendAckTimerFires == (autoAckTimer \/ ackResponseTimer) /\ CallSendAck

-----------------------------------------------------------------------------
(* The life of a session.                                                     *)

Cleanup_AcksKept ==
    /\ unackedByServer' = <<>> /\ lastRequestOffset' = 0
    /\ unackedByClient' = <<>> /\ lastAckOffset' = 0
    /\ pendingHandled' = <<>> /\ outstandingIds' = 0
    /\ UNCHANGED unprocessedAcks
\* "State transition cleanup", before <enable/> and before <resume/>.
Cleanup ==
    /\ unackedByServer' = <<>> /\ lastRequestOffset' = 0
    /\ unackedByClient' = <<>> /\ lastAckOffset' = 0
    /\ unprocessedAcks' = <<>>
    /\ pendingHandled' = <<>> /\ outstandingIds' = 0

\* enableStreamManagementWithResumption:maxTimeout:.  On a stream that is not connected
\* sendElement: drops the element.  The application calls it once it knows that the stream
\* is bound, so that its block comes after the answer to <resume/>.
Enable ==
    /\ QueueFree
    /\ ~Holds(moduleQ, {"resumed", "resumeFailed"})
    /\ conn = "bound" \/ (EnableLate /\ conn = "closed" /\ conns > 0)
    /\ ~isStarted /\ ~enableQueued /\ ~enableSent
    /\ Cleanup
    /\ enableQueued' = TRUE
    /\ c2s' = Written("enable", 0)
    /\ moduleQ' = IF conn = "bound" THEN Append(moduleQ, Element("didSendEnable", 0, 0))
                  ELSE moduleQ
    /\ UNCHANGED <<streamVars, willQ, serverVars, isStarted, enableSent, wasCleanDisconnect,
                   didResume, disconnectDate, lastHandledByServer, prevUnacked, draining,
                   autoRequestTimer, idQueries, lastHandledByClient, objects, autoAckTimer,
                   ackResponseTimer, handledQueries, handledAnswers, store, histVars>>

\* xmppStream:didSendCustomElement: for the <enable/>.
HandleDidSendEnable ==
    /\ Next_is("didSendEnable")
    /\ moduleQ' = Tail(moduleQ)
    /\ enableQueued' = FALSE
    /\ enableSent' = (enableSent \/ enableQueued)
    /\ UNCHANGED <<streamVars, c2s, willQ, serverVars, isStarted, wasCleanDisconnect,
                   didResume, disconnectDate, outVars, inVars, store, histVars>>

\* <enabled/>: setResumptionId:timeout:lastDisconnect:forStream: also resets what is stored.
HandleEnabled ==
    /\ Next_is("enabled")
    /\ moduleQ' = Tail(moduleQ)
    /\ IF enableSent
       THEN /\ store' = [EmptyStore EXCEPT !.id = Head(moduleQ).arg, !.date = TRUE]
            /\ isStarted' = TRUE
            /\ enableSent' = FALSE
            /\ lastHandledByClient' = 0
            /\ lastHandledByServer' = 0
            /\ unprocessedAcks' = <<>>
            /\ session' = Head(moduleQ).sid
       ELSE UNCHANGED <<store, isStarted, enableSent, lastHandledByClient,
                        lastHandledByServer, unprocessedAcks, session>>
    /\ UNCHANGED <<streamVars, c2s, willQ, serverVars, enableQueued, wasCleanDisconnect,
                   didResume, disconnectDate, unackedByServer, lastRequestOffset, prevUnacked,
                   draining, autoRequestTimer, idQueries, unackedByClient, lastAckOffset,
                   pendingHandled, outstandingIds, objects, autoAckTimer, ackResponseTimer,
                   handledQueries, handledAnswers, reported, reports, appHandled, marksDue,
                   lost, crashes>>

\* <failed/> in answer to <enable/>.
HandleFailed ==
    /\ Next_is("failed")
    /\ moduleQ' = Tail(moduleQ)
    /\ IF enableSent
       THEN /\ store' = EmptyStore
            /\ isStarted' = FALSE
            /\ enableSent' = FALSE
            /\ autoRequestTimer' = FALSE
       ELSE UNCHANGED <<store, isStarted, enableSent, autoRequestTimer>>
    /\ UNCHANGED <<streamVars, c2s, willQ, serverVars, enableQueued, wasCleanDisconnect,
                   didResume, disconnectDate, lastHandledByServer, unackedByServer,
                   lastRequestOffset, prevUnacked, unprocessedAcks, draining, idQueries,
                   inVars, histVars>>

\* The counters a resumed session starts from.
RestoredCounts == lastHandledByClient' = store.hc /\ lastHandledByServer' = store.hs

\* sendResumeRequestWithResumptionId:.  sendBindElement: writes only while binding.
HandleSendResume ==
    /\ Next_is("sendResume")
    /\ moduleQ' = Tail(moduleQ)
    /\ Cleanup
    /\ RestoredCounts
    /\ prevUnacked' = IF store.pending = <<>> THEN prevUnacked ELSE store.pending
    /\ c2s' = IF conn = "resuming"
              THEN Append(c2s, Element("resume", store.hc, Head(moduleQ).sid)) ELSE c2s
    /\ session' = Head(moduleQ).sid
    /\ UNCHANGED <<streamVars, willQ, serverVars, flagVars, draining, autoRequestTimer,
                   idQueries, objects, autoAckTimer, ackResponseTimer, handledQueries,
                   handledAnswers, store, reported, reports, appHandled, marksDue, lost, crashes>>

\* The stanzas an h of <resumed/> counts and no delegate is told of: the storage did not hold
\* them, or held them without the id that a delegate had still to give.
Unreported(h) ==
    LET log  == sessions[session].log
        held == {i \in DOMAIN prevUnacked : prevUnacked[i].id # 0}
    IN {n \in received \ IdLess :
          \E k \in DOMAIN log : log[k] = n /\ k - lastHandledByServer \in (1..AckDiff(h)) \ held}

\* processResumed:, the h of <resumed/> against what the previous connection left.
HandleResumed ==
    /\ Next_is("resumed")
    /\ moduleQ' = Tail(moduleQ)
    /\ LET h == Head(moduleQ).arg
       IN /\ Report(prevUnacked, Smaller(AckDiff(h), Len(prevUnacked)))
          /\ lost' = lost \cup Unreported(h)
          /\ lastHandledByServer' = h
          /\ store' = [store EXCEPT !.date = TRUE, !.hs = h, !.pending = <<>>]
    /\ isStarted' = TRUE
    /\ didResume' = TRUE
    /\ prevUnacked' = <<>>
    /\ UNCHANGED <<streamVars, c2s, willQ, serverVars, enableQueued, enableSent,
                   wasCleanDisconnect, disconnectDate, unackedByServer, lastRequestOffset,
                   unprocessedAcks, draining, autoRequestTimer, idQueries, inVars, session,
                   appHandled, marksDue, crashes>>

\* handleBind: of anything else; the stream falls back to standard binding.
HandleResumeFailed ==
    /\ Next_is("resumeFailed")
    /\ moduleQ' = Tail(moduleQ)
    /\ didResume' = FALSE
    /\ prevUnacked' = <<>>
    /\ UNCHANGED <<streamVars, c2s, willQ, serverVars, isStarted, enableQueued, enableSent,
                   wasCleanDisconnect, disconnectDate, lastHandledByServer, unackedByServer,
                   lastRequestOffset, unprocessedAcks, draining, autoRequestTimer, idQueries,
                   inVars, store, histVars>>

\* xmppStreamDidSendClosingStreamStanza:
HandleClosing ==
    /\ Next_is("closing")
    /\ moduleQ' = Tail(moduleQ)
    /\ wasCleanDisconnect' = TRUE
    /\ UNCHANGED <<streamVars, c2s, willQ, serverVars, isStarted, enableQueued, enableSent,
                   didResume, disconnectDate, outVars, inVars, store, histVars>>

\* xmppStreamDidDisconnect:withError:
HandleDidDisconnect ==
    /\ Next_is("didDisconnect")
    /\ moduleQ' = Tail(moduleQ)
    /\ disconnectDate' = ~wasCleanDisconnect
    /\ store' = IF wasCleanDisconnect THEN EmptyStore
                ELSE [store EXCEPT !.date = TRUE, !.hc = lastHandledByClient,
                                   !.hs = lastHandledByServer, !.pending = unackedByServer]
    /\ isStarted' = FALSE /\ enableQueued' = FALSE /\ enableSent' = FALSE
    /\ wasCleanDisconnect' = FALSE /\ didResume' = FALSE
    /\ prevUnacked' = <<>>
    /\ autoRequestTimer' = FALSE /\ autoAckTimer' = FALSE /\ ackResponseTimer' = FALSE
    /\ UNCHANGED <<streamVars, c2s, willQ, serverVars, lastHandledByServer, unackedByServer,
                   lastRequestOffset, unprocessedAcks, draining, idQueries,
                   lastHandledByClient, unackedByClient, lastAckOffset, pendingHandled,
                   outstandingIds, objects, handledQueries, handledAnswers, histVars>>

-----------------------------------------------------------------------------
(* The stream, as far as the module sees it.                                  *)

moduleVars == <<flagVars, outVars, inVars, store>>

\* A connection is open and authenticated; binding comes next.  The moduleQueue is taken
\* to have run the last connection's didDisconnect by the time the server has answered.
\* What the server has not read of the last connection by now, it will not read.
Connect ==
    /\ conn = "closed"
    /\ conns < MaxConn
    /\ ~Holds(moduleQ, {"didDisconnect"})
    /\ conn' = "binding"
    /\ conns' = conns + 1
    /\ c2s' = <<>>
    /\ attached' = 0
    /\ UNCHANGED <<sent, moduleQ, willQ, sessions, received, delivered, moduleVars, histVars>>

\* canResumeStreamWithResumptionId:timeout:lastDisconnect:, the dates left to MayDecline.
CanResume == store.id # 0 /\ store.date

\* xmppStreamWillBind: returned the module, and start: runs on the xmppQueue: it reads the
\* storage there, whatever the moduleQueue has still to do.
StartCustomBinding ==
    /\ conn = "binding"
    /\ CanResume
    /\ conn' = "resuming"
    /\ moduleQ' = Append(moduleQ, Element("sendResume", 0, store.id))
    /\ UNCHANGED <<conns, sent, c2s, willQ, serverVars, moduleVars, histVars>>

StartStandardBinding ==
    /\ conn = "binding"
    /\ ~CanResume \/ MayDecline
    /\ conn' = "bound"
    /\ UNCHANGED <<conns, sent, c2s, moduleQ, willQ, serverVars, moduleVars, histVars>>

\* The application sends a stanza: continueSendIQ:, continueSendMessage:, continueSendPresence:.
SendStanza ==
    /\ conn = "bound"
    /\ sent < MaxOut
    /\ sent' = sent + 1
    /\ c2s' = Append(c2s, Element("stanza", sent + 1, 0))
    /\ moduleQ' = Append(moduleQ, Element("didSend", sent + 1, 0))
    /\ UNCHANGED <<conn, conns, willQ, serverVars, moduleVars, histVars>>

\* A stanza comes off the willReceiveStanzaQueue: delivered or filtered, and dropped
\* unless the stream is connected by then, on whatever connection.
ContinueReceive ==
    /\ willQ # <<>>
    /\ willQ' = Tail(willQ)
    /\ IF conn = "bound"
       THEN \E name \in {"stanza", "filtered"} :
              moduleQ' = Append(moduleQ, [Head(willQ) EXCEPT !.name = name])
       ELSE UNCHANGED moduleQ
    /\ UNCHANGED <<streamVars, c2s, serverVars, moduleVars, histVars>>

\* The connection is lost, or closed after </stream:stream>.  The server may still read
\* what was written; its answers are lost (see Arrives).
Disconnect ==
    /\ conn # "closed"
    /\ conn = "resuming" => ResumeMayBreak
    /\ \/ UNCHANGED c2s /\ moduleQ' = Append(moduleQ, Element("didDisconnect", 0, 0))
       \/ /\ conn = "bound"
          /\ c2s' = Append(c2s, Element("close", 0, 0))
          /\ moduleQ' = moduleQ \o <<Element("closing", 0, 0), Element("didDisconnect", 0, 0)>>
    /\ conn' = "closed"
    /\ UNCHANGED <<conns, sent, serverVars, willQ, moduleVars, histVars>>

\* The process dies and is started again: only the storage survives.
Crash ==
    /\ crashes < MaxCrash
    /\ conn = "resuming" \/ Holds(moduleQ, {"resumed"}) => ResumeMayBreak
    /\ crashes' = crashes + 1
    /\ conn' = "closed" /\ moduleQ' = <<>> /\ willQ' = <<>>
    /\ isStarted' = FALSE /\ enableQueued' = FALSE /\ enableSent' = FALSE
    /\ wasCleanDisconnect' = FALSE /\ didResume' = FALSE /\ disconnectDate' = FALSE
    /\ Cleanup
    /\ lastHandledByServer' = 0 /\ lastHandledByClient' = 0
    /\ prevUnacked' = <<>> /\ draining' = "idle" /\ idQueries' = {}
    /\ autoRequestTimer' = FALSE /\ autoAckTimer' = FALSE /\ ackResponseTimer' = FALSE
    /\ handledQueries' = {} /\ handledAnswers' = {} /\ marksDue' = {}
    /\ UNCHANGED <<conns, sent, c2s, serverVars, objects, store, session, reported, reports,
                   appHandled, lost>>

-----------------------------------------------------------------------------
(* The server.  It handles what it reads in order, and answers.               *)

\* What the server sends passes the willReceiveStanzaQueue if it is a stanza and a
\* delegate filters; everything else is posted directly.  Nothing arrives any more once the
\* connection is lost.
Arrives(elements, stanzas) ==
    \/ /\ conn # "closed" /\ WillReceive
       /\ moduleQ' = moduleQ \o elements /\ willQ' = willQ \o stanzas
    \/ /\ conn # "closed" /\ ~WillReceive
       /\ moduleQ' = moduleQ \o elements \o stanzas /\ UNCHANGED willQ
    \/ conn = "closed" /\ UNCHANGED <<moduleQ, willQ>>

Take(name) == c2s # <<>> /\ Head(c2s).name = name /\ c2s' = Tail(c2s)

HandledCount(s) == Len(sessions[s].log) % Modulus

ServerHandlesStanza ==
    /\ Take("stanza")
    /\ received' = received \cup {Head(c2s).arg}
    /\ sessions' = IF attached = 0 THEN sessions
                   ELSE [sessions EXCEPT ![attached].log = Append(@, Head(c2s).arg)]
    /\ UNCHANGED <<streamVars, moduleQ, willQ, attached, delivered, moduleVars, histVars>>

\* A session with or without resumption, or none.
ServerHandlesEnable ==
    /\ Take("enable")
    /\ LET s == Len(sessions) + 1 IN
       \/ \E resume \in BOOLEAN :
            /\ sessions' = Append(sessions, [log |-> <<>>, out |-> 0, alive |-> resume])
            /\ attached' = s
            /\ Arrives(<<Element("enabled", IF resume THEN s ELSE 0, s)>>, <<>>)
       \/ /\ Arrives(<<Element("failed", 0, 0)>>, <<>>)
          /\ UNCHANGED <<sessions, attached>>
    /\ UNCHANGED <<streamVars, received, delivered, moduleVars, histVars>>

\* </stream:stream> ends the session for good.
ServerHandlesClose ==
    /\ Take("close")
    /\ sessions' = IF attached = 0 THEN sessions
                   ELSE [sessions EXCEPT ![attached].alive = FALSE]
    /\ UNCHANGED <<streamVars, moduleQ, willQ, attached, received, delivered, moduleVars,
                   histVars>>

ServerHandlesRequest ==
    /\ Take("r")
    /\ IF attached # 0
       THEN Arrives(<<Element("a", HandledCount(attached), 0)>>, <<>>)
       ELSE UNCHANGED <<moduleQ, willQ>>
    /\ UNCHANGED <<streamVars, serverVars, moduleVars, histVars>>

\* <resume/>: the session goes on, and what the client has not handled is sent again.
ServerHandlesResume ==
    /\ Take("resume")
    /\ LET s == Head(c2s).sid
           h == Head(c2s).arg
           again == [i \in 1..(sessions[s].out - h) |-> Element("stanza", h + i, s)]
       IN \/ /\ conn = "resuming" /\ sessions[s].alive
             /\ attached' = s
             /\ conn' = "bound"
             /\ Arrives(<<Element("resumed", HandledCount(s), s)>>, again)
          \/ /\ conn = "resuming" /\ ~sessions[s].alive
             /\ conn' = "bound"
             /\ Arrives(<<Element("resumeFailed", 0, s)>>, <<>>)
             /\ UNCHANGED attached
          \/ /\ conn # "resuming"
             /\ UNCHANGED <<conn, attached, moduleQ, willQ>>
    /\ UNCHANGED <<conns, sent, sessions, received, delivered, moduleVars, histVars>>

\* An ack nobody asked for, and a request of the server's own.
ServerSendsAck ==
    /\ attached # 0 /\ conn = "bound"
    /\ RoomForAck
    /\ Arrives(<<Element("a", HandledCount(attached), 0)>>, <<>>)
    /\ UNCHANGED <<streamVars, c2s, serverVars, moduleVars, histVars>>

ServerSendsRequest ==
    /\ attached # 0 /\ conn = "bound"
    /\ delivered > 0
    /\ Len(moduleQ) < MaxQueue
    /\ Arrives(<<Element("r", 0, 0)>>, <<>>)
    /\ UNCHANGED <<streamVars, c2s, serverVars, moduleVars, histVars>>

\* A stanza for the client, numbered within the session once there is one.  For a session
\* that is not attached the server keeps it, and sends it when the session is resumed.
ServerSendsStanza ==
    /\ delivered < MaxIn
    /\ delivered' = delivered + 1
    /\ \/ /\ attached # 0
          /\ sessions' = [sessions EXCEPT ![attached].out = @ + 1]
          /\ Arrives(<<>>, <<Element("stanza", sessions[attached].out + 1, attached)>>)
       \/ /\ attached = 0 /\ conn = "bound"
          /\ Arrives(<<>>, <<Element("stanza", 0, 0)>>)
          /\ UNCHANGED sessions
       \/ \E s \in DOMAIN sessions :
            /\ attached = 0 /\ conn = "binding" /\ sessions[s].alive
            /\ sessions' = [sessions EXCEPT ![s].out = @ + 1]
            /\ UNCHANGED <<moduleQ, willQ>>
    /\ UNCHANGED <<streamVars, c2s, attached, received, moduleVars, histVars>>

\* The server gives up a session that nobody has resumed.
ServerExpires ==
    /\ \E s \in DOMAIN sessions :
          /\ s # attached /\ sessions[s].alive
          /\ sessions' = [sessions EXCEPT ![s].alive = FALSE]
    /\ UNCHANGED <<streamVars, c2s, moduleQ, willQ, attached, received, delivered, moduleVars,
                   histVars>>

-----------------------------------------------------------------------------
HandleCallback ==
    \/ HandleDidSend \/ HandleAck \/ HandleStanza \/ HandleFiltered \/ HandleRequest
    \/ HandleDidSendEnable \/ HandleEnabled \/ HandleFailed
    \/ HandleSendResume \/ HandleResumed \/ HandleResumeFailed
    \/ HandleClosing \/ HandleDidDisconnect

Drain == DrainAck \/ DrainBlocked \/ DrainDone

Delegates == AnswerStanzaId \/ DelegateDecides \/ AnswerHandled \/ MarkHandledStanzaId

Timers == AutoRequestTimerFires \/ CallSendAck

Server ==
    \/ ServerHandlesStanza \/ ServerHandlesEnable \/ ServerHandlesRequest
    \/ ServerHandlesClose \/ ServerHandlesResume \/ ServerSendsAck \/ ServerSendsRequest
    \/ ServerSendsStanza \/ ServerExpires

Stream ==
    \/ Connect \/ StartCustomBinding \/ StartStandardBinding \/ ContinueReceive \/ Disconnect
    \/ Crash

Application == SendStanza \/ Enable \/ CallRequestAck

Next == HandleCallback \/ Drain \/ Delegates \/ Timers \/ Server \/ Stream \/ Application

Spec == Init /\ [][Next]_vars

-----------------------------------------------------------------------------
(* Properties.                                                                *)

Items(s) == {s[i] : i \in DOMAIN s}

OutgoingItem == [n : Nat, id : Nat, awaiting : BOOLEAN]
IncomingItem == [obj : Nat, sid : Nat, n : Nat, known : BOOLEAN, handled : BOOLEAN]
ElementSet   == [name : ElementName, arg : Nat, sid : Nat]
Storage      == [id : Nat, date : BOOLEAN, hc : Nat, hs : Nat, pending : Seq(OutgoingItem)]
Session      == [log : Seq(Nat), out : Nat, alive : BOOLEAN]

StreamTypeOK ==
    /\ conn \in {"closed", "binding", "resuming", "bound"}
    /\ conns \in Nat /\ sent \in Nat
    /\ c2s \in Seq(ElementSet) /\ moduleQ \in Seq(ElementSet) /\ willQ \in Seq(ElementSet)

ServerTypeOK ==
    /\ attached \in Nat /\ sessions \in Seq(Session)
    /\ received \subseteq Nat /\ delivered \in Nat

FlagTypeOK ==
    /\ isStarted \in BOOLEAN /\ enableQueued \in BOOLEAN /\ enableSent \in BOOLEAN
    /\ wasCleanDisconnect \in BOOLEAN /\ didResume \in BOOLEAN /\ disconnectDate \in BOOLEAN

OutTypeOK ==
    /\ lastHandledByServer \in Nat
    /\ unackedByServer \in Seq(OutgoingItem) /\ prevUnacked \in Seq(OutgoingItem)
    /\ lastRequestOffset \in Nat
    /\ unprocessedAcks \in Seq(Nat) /\ draining \in {"idle", "first", "again"}
    /\ autoRequestTimer \in BOOLEAN /\ idQueries \subseteq Nat

InTypeOK ==
    /\ lastHandledByClient \in Nat /\ unackedByClient \in Seq(IncomingItem)
    /\ lastAckOffset \in Nat /\ pendingHandled \in Seq(Nat \X Nat)
    /\ outstandingIds \in Int /\ objects \in Nat
    /\ autoAckTimer \in BOOLEAN /\ ackResponseTimer \in BOOLEAN
    /\ handledQueries \subseteq IncomingItem /\ handledAnswers \subseteq IncomingItem

HistTypeOK ==
    /\ session \in Nat /\ reported \subseteq Nat /\ reports \in Nat
    /\ appHandled \subseteq Nat \X Nat /\ marksDue \subseteq Nat \X Nat
    /\ lost \subseteq Nat /\ crashes \in Nat

\* The values the variables range over.
TypeOK ==
    /\ StreamTypeOK /\ ServerTypeOK /\ FlagTypeOK /\ OutTypeOK /\ InTypeOK
    /\ store \in Storage /\ HistTypeOK

\* The sessions that elements, callbacks and the storage speak of are among the n there are.
NamesSession(e, n) ==
    /\ e.name = "enabled" => e.arg \in 0..n
    /\ e.name \in {"sendResume", "resume"} => e.sid \in 1..n

AllKnown(q, n) == \A i \in DOMAIN q : NamesSession(q[i], n)

SessionsKnown ==
    /\ attached \in 0..Len(sessions) /\ store.id \in 0..Len(sessions)
    /\ AllKnown(c2s, Len(sessions)) /\ AllKnown(moduleQ, Len(sessions))

\* maybeRequestAck subtracts lastRequestOffset from the number of stanzas that wait for an
\* ack, both unsigned: the offset never passes the number, in whatever order stanzas are
\* sent, acks arrive, ids are answered and sessions replaced.
OffsetInRange == lastRequestOffset <= Len(unackedByServer)

\* An ack is never reported for a stanza the server has not handled: the counts the module
\* keeps, in memory and in the storage, never run ahead of the session they are about.
NoFalseAck == reported \subseteq received

\* lastHandledByServer is true to the reports: it counts, modulo the width of h, a prefix of
\* what the server handled in the session; that prefix was reported (where it has ids), and
\* nothing after it was.  So no stanza is acknowledged silently, or ahead of the count; but
\* for those a <resumed/> counts that the storage did not hold, or held without their id.
AcksComplete ==
    isStarted =>
        LET log == sessions[session].log IN
        \E total \in 0..Len(log) :
            /\ total % Modulus = lastHandledByServer
            /\ \A i \in 1..total : log[i] \in reported \cup IdLess \cup lost
            /\ \A i \in (total + 1)..Len(log) : log[i] \notin reported

\* What the storage holds of a session that can be resumed lines up with what the server
\* knows of it: counted from the stored h, the i-th pending stanza is the one the server
\* handled i-th.  (While a <resumed/> waits on the moduleQueue the storage is still that of
\* the last connection.)
StoreMatchesServer ==
    store.id # 0 /\ sessions[store.id].alive /\ ~Holds(moduleQ, {"resumed"}) =>
        \A i \in DOMAIN store.pending :
            store.hs + i <= Len(sessions[store.id].log) =>
                sessions[store.id].log[store.hs + i] = store.pending[i].n

\* The h the client may send, in memory and in the storage, covers only stanzas of that
\* session that the application has handled.
HandledSafe ==
    /\ isStarted => \A k \in 1..lastHandledByClient : <<session, k>> \in appHandled
    /\ store.id # 0 => \A k \in 1..store.hc : <<store.id, k>> \in appHandled

\* "either trigger": while a stanza waits that no <r/> asks about, the timer that will ask
\* runs; whatever acks, ids and requests came in between.
AutoRequestArmed ==
    (isStarted \/ enableSent) /\ RequestTimeout /\ Len(unackedByServer) > lastRequestOffset
        => autoRequestTimer

\* The same for the acks the module sends: handled stanzas not yet acknowledged stay below
\* the configured count, and the timer for them runs.
AutoAckArmed ==
    LET pending == lastAckOffset + HandledPrefix(unackedByClient)
    IN isStarted /\ pending > 0 =>
         /\ AckTimeout => autoAckTimer
         /\ AckCount > 0 => pending < AckCount

\* What the schedulers of the process and a live server do: queues run, timers fire,
\* delegates answer, the server reads.
Fairness ==
    /\ WF_vars(HandleCallback) /\ WF_vars(Drain) /\ WF_vars(Delegates)
    /\ WF_vars(AutoRequestTimerFires) /\ WF_vars(SendAckTimerFires)
    /\ WF_vars(ServerHandlesStanza \/ ServerHandlesEnable \/ ServerHandlesRequest
               \/ ServerHandlesResume)

LiveSpec == Spec /\ Fairness

\* Stanzas that have an id and wait for their ack are all reported in the end, or the session
\* is interrupted: acks kept back for an id that a delegate owes are not forgotten.
AllReported == \A i \in DOMAIN unackedByServer : unackedByServer[i].n \in reported \cup IdLess

EventuallyReported == isStarted /\ ~AllReported ~> AllReported \/ ~isStarted

\* Every stanza received in a session is counted and an <a/> sent whose h counts it (sending
\* one is what resets lastAckOffset), once the application handles it; or the session is
\* interrupted.  The application need not call sendAck for it.
AllAcked == unackedByClient = <<>> /\ lastAckOffset = 0

EventuallyAckedAlways == isStarted /\ ~AllAcked ~> AllAcked \/ ~isStarted

\* ... unless a delegate still owed an answer when a session was asked for or resumed: that
\* answer counts down the answers owed on the new connection.
AnswersCounted == outstandingIds = Cardinality(handledQueries) + Cardinality(handledAnswers)

EventuallyAcked ==
    isStarted /\ ~AllAcked ~> AllAcked \/ ~isStarted \/ ~AnswersCounted

=============================================================================
