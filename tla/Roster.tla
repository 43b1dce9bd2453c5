------------------------------- MODULE Roster -------------------------------
(* XMPPRoster (Extensions/Roster/XMPPRoster.m) with XMPPRosterMemoryStorage,   *)
(* which runs on the queue of its parent, and the timer that XMPPIDTracker     *)
(* keeps for the fetch of the roster.                                          *)
(*                                                                             *)
(* What the server sends is posted to the queue of the module in its order;    *)
(* what was not sent when a connection ends never comes.  The server answers   *)
(* fetches and presence when it likes and in any order.  An item is the        *)
(* subscription it states, "absent" where there is none; a contact has one     *)
(* resource.  Its presence comes from the full JID of the resource, requests   *)
(* and answers to one's own (subscribed, unsubscribed, unsubscribe) from its   *)
(* bare JID.  One's own presence, errors and photos are left out.              *)
EXTENDS Naturals, Sequences, FiniteSets, SequencesExt

CONSTANTS
    Contacts,
    Ids,          \* bound: fetches that are timed or on their way at the same time
    Configs,      \* the settings: autoFetch, autoClear, rosterless
    MaxQueue,     \* bound: blocks on the queue to which another is added
    MaxConns,     \* bound: connections
    MaxChanges    \* bound: what contacts, other clients and the application do

ASSUME ContactsAssumption == IsFiniteSet(Contacts)
ASSUME IdsAssumption      == IsFiniteSet(Ids) /\ Ids \subseteq Nat
ASSUME ConfigsAssumption  == Configs \subseteq [autoFetch : BOOLEAN, autoClear : BOOLEAN,
                                                rosterless : BOOLEAN]
ASSUME BoundsAssumption   == MaxQueue \in Nat /\ MaxConns \in Nat /\ MaxChanges \in Nat

VARIABLES
    \* the stream and the server
    up,            \* the stream is authenticated
    roster,        \* the roster on the server
    online,        \* contacts that are available
    asks,          \* fetches the server has and has not answered
    interested,    \* it answered one on this connection and pushes changes
    shown,         \* the presence last sent is an available one
    available,     \* and the last one the server has seen
    owed,          \* contacts whose presence the server is about to send
    \* XMPPRoster
    config,
    moduleQueue,
    requestedRoster,
    hasRoster,
    earlyPresenceElements,
    armed,         \* fetches whose timer can still fire
    \* XMPPRosterMemoryStorage
    users,         \* the item of each user, "seen" without one
    resources,     \* users with a resource
    bareResources, \* users with one under their bare JID
    \* history, for the properties
    conns, changes,
    left,          \* an unavailable presence was sent on this connection
    answered,      \* contacts whose answer to a request was sent to it
    guessed,       \* it was a timer that set hasRoster
    asked,         \* the delegates were asked about a request of these
    strangers      \* contacts that were not "both" at some time

serverVars == <<roster, online, asks, interested, available, owed>>
streamVars == <<up, shown, left, answered>>
moduleVars == <<requestedRoster, hasRoster, earlyPresenceElements, armed>>
storeVars  == <<users, resources, bareResources>>
toldVars   == <<guessed, asked>>
vars == <<streamVars, serverVars, config, moduleQueue, moduleVars, storeVars, toldVars,
          conns, changes, strangers>>

Event(kind)       == [kind |-> kind]
Result(id, items) == [kind |-> "result", id |-> id, items |-> items]
Push(c, item)     == [kind |-> "push", jid |-> c, item |-> item]
Presence(type, c) == [kind |-> "presence", type |-> type, from |-> c]

Items   == {"absent", "none", "both"}
NoItems == [c \in Contacts |-> "absent"]

IdsOnQueue == {id \in Ids : \E i \in DOMAIN moduleQueue :
                   moduleQueue[i].kind = "result" /\ moduleQueue[i].id = id}
Fresh == Ids \ (armed \cup asks \cup IdsOnQueue)

\* Which of them is taken makes no difference: the least.
NewIds == {id \in Fresh : \A i \in Fresh : id <= i}

Init ==
    /\ up = FALSE /\ shown = FALSE /\ left = FALSE /\ answered = {}
    /\ roster \in [Contacts -> Items] /\ online \in SUBSET Contacts
    /\ asks = {} /\ interested = FALSE /\ available = FALSE /\ owed = {}
    /\ config \in Configs /\ moduleQueue = <<>>
    /\ requestedRoster = FALSE /\ hasRoster = FALSE /\ earlyPresenceElements = <<>>
    /\ armed = {}
    /\ users = NoItems /\ resources = {} /\ bareResources = {}
    /\ guessed = FALSE /\ asked = {}
    /\ conns = 0 /\ changes = 0
    /\ strangers = {c \in Contacts : roster[c] # "both"}

-----------------------------------------------------------------------------
(* The stream, the application and the server.                                 *)

MayPost == Len(moduleQueue) < MaxQueue
Posts(block) == MayPost /\ moduleQueue' = Append(moduleQueue, block)

\* Every block that may fetch the roster finds an id.
Fetches == {i \in DOMAIN moduleQueue : moduleQueue[i].kind \in {"didAuthenticate", "fetch"}}
MayFetch == Cardinality(Fetches) < Cardinality(Fresh)

Changes == changes < MaxChanges /\ changes' = changes + 1

Outside == UNCHANGED <<config, moduleVars, storeVars, toldVars>>

DidAuthenticate ==
    /\ ~up /\ conns < MaxConns /\ MayFetch
    /\ up' = TRUE /\ left' = FALSE /\ answered' = {} /\ conns' = conns + 1
    /\ Posts(Event("didAuthenticate"))
    /\ UNCHANGED <<shown, serverVars, changes, strangers>> /\ Outside

DidDisconnect ==
    /\ up /\ up' = FALSE /\ shown' = FALSE
    /\ asks' = {} /\ interested' = FALSE /\ available' = FALSE /\ owed' = {}
    /\ Posts(Event("didDisconnect"))
    /\ UNCHANGED <<left, answered, roster, online, conns, changes, strangers>> /\ Outside

SendAvailable ==
    /\ up /\ ~shown /\ shown' = TRUE
    /\ UNCHANGED <<up, left, answered, serverVars, moduleQueue, conns, changes, strangers>>
    /\ Outside

SendUnavailable ==
    /\ up /\ shown /\ Changes
    /\ shown' = FALSE /\ left' = TRUE
    /\ Posts(Event("didSendUnavailable"))
    /\ UNCHANGED <<up, answered, serverVars, conns, strangers>> /\ Outside

FetchRoster ==
    /\ MayFetch /\ Changes
    /\ Posts(Event("fetch"))
    /\ UNCHANGED <<streamVars, serverVars, conns, strangers>> /\ Outside

ServerSeesPresence ==
    /\ available # shown /\ available' = shown
    /\ owed' = IF shown THEN {c \in online : roster[c] = "both"} ELSE {}
    /\ UNCHANGED <<streamVars, roster, online, asks, interested, moduleQueue, conns, changes,
                   strangers>>
    /\ Outside

ServerAnswersFetch(id) ==
    /\ id \in asks /\ asks' = asks \ {id} /\ interested' = TRUE
    /\ Posts(Result(id, roster))
    /\ UNCHANGED <<streamVars, roster, online, available, owed, conns, changes, strangers>>
    /\ Outside

ServerSendsPresence(c) ==
    /\ c \in owed /\ owed' = owed \ {c}
    /\ Posts(Presence(IF c \in online THEN "available" ELSE "unavailable", c))
    /\ UNCHANGED <<streamVars, roster, online, asks, interested, available, conns, changes,
                   strangers>>
    /\ Outside

ServerSendsRequest(c) ==
    /\ available /\ Changes
    /\ Posts(Presence("subscribe", c))
    /\ UNCHANGED <<streamVars, serverVars, conns, strangers>> /\ Outside

\* The contact approves one's own request, denies it, or unsubscribes.
ServerSendsAnswer(c) ==
    /\ (available \/ interested) /\ Changes
    /\ Posts(Presence("answer", c))
    /\ answered' = answered \cup {c}
    /\ UNCHANGED <<up, shown, left, serverVars, conns, strangers>> /\ Outside

ContactComesOrGoes(c) ==
    /\ Changes
    /\ online' = IF c \in online THEN online \ {c} ELSE online \cup {c}
    /\ owed' = IF available /\ roster[c] = "both" THEN owed \cup {c} ELSE owed
    /\ UNCHANGED <<streamVars, roster, asks, interested, available, moduleQueue, conns, strangers>>
    /\ Outside

\* The presence of a contact that is not subscribed to any more ends before the push says so.
RosterChanges(c, item) ==
    /\ item # roster[c] /\ Changes /\ MayPost
    /\ roster' = [roster EXCEPT ![c] = item]
    /\ moduleQueue' = moduleQueue
          \o (IF available /\ roster[c] = "both" THEN <<Presence("unavailable", c)>> ELSE <<>>)
          \o (IF interested THEN <<Push(c, item)>> ELSE <<>>)
    /\ owed' = IF item = "both" /\ available /\ c \in online THEN owed \cup {c} ELSE owed \ {c}
    /\ strangers' = IF item = "both" THEN strangers ELSE strangers \cup {c}
    /\ UNCHANGED <<streamVars, online, asks, interested, available, conns>> /\ Outside

-----------------------------------------------------------------------------
(* XMPPRoster.                                                                 *)

Taking(kind) ==
    /\ moduleQueue # <<>> /\ Head(moduleQueue).kind = kind
    /\ moduleQueue' = Tail(moduleQueue)

Inside == UNCHANGED <<streamVars, roster, online, interested, available, owed, config, conns,
                      changes, strangers>>

\* An element that is sent without a connection is dropped.
FetchRosterVersion ==
    IF requestedRoster
    THEN UNCHANGED <<requestedRoster, armed, asks>>
    ELSE \E id \in NewIds :
            /\ requestedRoster' = TRUE
            /\ armed' = armed \cup {id}
            /\ asks' = IF up THEN asks \cup {id} ELSE asks

HandleDidAuthenticate ==
    /\ Taking("didAuthenticate")
    /\ IF config.autoFetch THEN FetchRosterVersion ELSE UNCHANGED <<requestedRoster, armed, asks>>
    /\ UNCHANGED <<hasRoster, earlyPresenceElements, storeVars, toldVars>> /\ Inside

HandleFetch ==
    /\ Taking("fetch")
    /\ FetchRosterVersion
    /\ UNCHANGED <<hasRoster, earlyPresenceElements, storeVars, toldVars>> /\ Inside

\* The contacts of `was` that have a resource, but for the bare JID, after the presences ps.
OnlineAfter(ps, was) ==
    {c \in Contacts :
        LET Says(i, type) == ps[i] = Presence(type, c) IN
        \/ /\ c \in was
           /\ \A i \in DOMAIN ps : ~Says(i, "unavailable")
        \/ \E i \in DOMAIN ps :
              /\ Says(i, "available")
              /\ \A j \in DOMAIN ps : j > i => ~Says(j, "unavailable")}

\* didReceivePresence: of each of ps, with the users and resources that are stored by then.
\* Requests of users are accepted, which changes nothing here.  Whatever else is neither
\* unavailable nor an error counts as available, so an answer adds a resource for the bare JID.
Applies(ps, stored, was, bare) ==
    LET Tells(type) == {c \in Contacts : \E i \in DOMAIN ps : ps[i] = Presence(type, c)}
        Spoke == Tells("available") \cup Tells("unavailable") \cup Tells("answer") IN
    /\ users' = [c \in Contacts |-> IF config.rosterless /\ stored[c] = "absent" /\ c \in Spoke
                                    THEN "seen" ELSE stored[c]]
    /\ resources' = {c \in OnlineAfter(ps, was) : users'[c] # "absent"}
    /\ bareResources' = {c \in bare \cup Tells("answer") : users'[c] # "absent"}
    /\ asked' = asked \cup {c \in Tells("subscribe") : stored[c] = "absent"}

\* The first roster: all users are cleared, and items that may wait for one's own approval are
\* left out.
Population_NotCleared(items) ==
    [c \in Contacts |-> IF items[c] = "both" THEN items[c] ELSE users[c]]
Population(items) == [c \in Contacts |-> IF items[c] = "none" THEN "absent" ELSE items[c]]

\* Items that come later update the users.
Updated(items) == [c \in Contacts |-> IF items[c] = "absent" THEN users[c] ELSE items[c]]

\* handleFetchRosterQueryIQ:withInfo:
HandleFetchRosterQueryIQ(items) ==
    IF hasRoster
    THEN /\ users' = Updated(items)
         /\ UNCHANGED <<resources, bareResources, hasRoster, earlyPresenceElements, asked>>
    ELSE /\ hasRoster' = TRUE
         /\ Applies(earlyPresenceElements, Population(items), {}, {})
         /\ earlyPresenceElements' = <<>>

\* invokeForElement:withObject: cancels the timer.
HandleResult ==
    /\ Taking("result")
    /\ armed' = armed \ {Head(moduleQueue).id}
    /\ HandleFetchRosterQueryIQ(Head(moduleQueue).items)
    /\ UNCHANGED <<asks, requestedRoster, guessed>> /\ Inside

\* The timer of the tracker invokes the handler with nil, whatever became of the fetch.
TimerFires(id) ==
    /\ id \in armed /\ armed' = armed \ {id}
    /\ guessed' = (guessed \/ ~hasRoster)
    /\ HandleFetchRosterQueryIQ(NoItems)
    /\ UNCHANGED <<asks, moduleQueue, requestedRoster>> /\ Inside

HandlePush ==
    /\ Taking("push")
    /\ LET c == Head(moduleQueue).jid
           item == Head(moduleQueue).item IN
       IF hasRoster \/ item # "none"
       THEN /\ users' = [users EXCEPT ![c] = item]
            /\ LET gone == IF item = "absent" THEN {c} ELSE {} IN
               resources' = resources \ gone /\ bareResources' = bareResources \ gone
       ELSE UNCHANGED storeVars
    /\ UNCHANGED <<asks, moduleVars, toldVars>> /\ Inside

Premature_NotRequests(p) == ~hasRoster /\ ~config.rosterless /\ p.type # "subscribe"
Premature(p) == ~hasRoster /\ ~config.rosterless

Keeps(p) ==
    earlyPresenceElements' = IF requestedRoster THEN Append(earlyPresenceElements, p)
                                                ELSE earlyPresenceElements

HandlePresence ==
    /\ Taking("presence")
    /\ IF Premature(Head(moduleQueue))
       THEN Keeps(Head(moduleQueue)) /\ UNCHANGED <<storeVars, asked>>
       ELSE /\ Applies(<<Head(moduleQueue)>>, users, resources, bareResources)
            /\ UNCHANGED earlyPresenceElements
    /\ UNCHANGED <<asks, requestedRoster, hasRoster, armed, guessed>> /\ Inside

HandleDidSendUnavailable ==
    /\ Taking("didSendUnavailable")
    /\ resources' = {} /\ bareResources' = {} /\ earlyPresenceElements' = <<>>
    /\ UNCHANGED <<asks, requestedRoster, hasRoster, armed, users, toldVars>> /\ Inside

\* The timers of fetches go on.
Forgets_EarlyStay == requestedRoster' = FALSE /\ hasRoster' = FALSE /\ UNCHANGED earlyPresenceElements
Forgets_StillRequested == hasRoster' = FALSE /\ earlyPresenceElements' = <<>> /\ UNCHANGED requestedRoster
Forgets == requestedRoster' = FALSE /\ hasRoster' = FALSE /\ earlyPresenceElements' = <<>>

HandleDidDisconnect ==
    /\ Taking("didDisconnect")
    /\ users' = IF config.autoClear THEN NoItems ELSE users
    /\ resources' = {} /\ bareResources' = {}
    /\ Forgets
    /\ guessed' = FALSE /\ asked' = {}
    /\ UNCHANGED <<asks, armed>> /\ Inside

-----------------------------------------------------------------------------
Application == SendAvailable \/ SendUnavailable \/ FetchRoster

Server ==
    \/ ServerSeesPresence
    \/ \E id \in Ids : ServerAnswersFetch(id)
    \/ \E c \in Contacts : \/ ServerSendsPresence(c) \/ ServerSendsRequest(c)
                           \/ ServerSendsAnswer(c) \/ ContactComesOrGoes(c)
                           \/ \E item \in Items : RosterChanges(c, item)

Block ==
    \/ HandleDidAuthenticate \/ HandleFetch \/ HandleResult \/ HandlePush \/ HandlePresence
    \/ HandleDidSendUnavailable \/ HandleDidDisconnect

Next ==
    \/ DidAuthenticate \/ DidDisconnect \/ Application \/ Server \/ Block
    \/ \E id \in Ids : TimerFires(id)

Spec == Init /\ [][Next]_vars

\* The queue runs its blocks and timers fire.
LiveSpec == Spec /\ WF_vars(Block) /\ \A id \in Ids : WF_vars(TimerFires(id))

-----------------------------------------------------------------------------
(* Properties.                                                                 *)

Presences == [kind : {"presence"}, type : {"available", "unavailable", "subscribe", "answer"},
              from : Contacts]
Blocks ==
    Presences
      \cup {Event(k) : k \in {"didAuthenticate", "didDisconnect", "fetch", "didSendUnavailable"}}
      \cup [kind : {"result"}, id : Ids, items : [Contacts -> Items]]
      \cup [kind : {"push"}, jid : Contacts, item : Items]

StreamOK ==
    /\ up \in BOOLEAN /\ shown \in BOOLEAN /\ left \in BOOLEAN /\ answered \subseteq Contacts
    /\ interested \in BOOLEAN /\ available \in BOOLEAN /\ asks \subseteq Ids
    /\ ~up => asks = {} /\ ~interested /\ ~shown /\ ~available
ServerOK ==
    /\ roster \in [Contacts -> Items] /\ online \subseteq Contacts /\ owed \subseteq Contacts
    /\ strangers \subseteq Contacts /\ conns \in Nat /\ changes \in Nat
ModuleOK ==
    /\ requestedRoster \in BOOLEAN /\ hasRoster \in BOOLEAN /\ guessed \in BOOLEAN
    /\ config \in Configs /\ armed \subseteq Ids /\ asked \subseteq Contacts
    /\ moduleQueue \in Seq(Blocks) /\ earlyPresenceElements \in Seq(Presences)
StoreOK ==
    /\ users \in [Contacts -> Items \cup {"seen"}] /\ resources \subseteq Contacts
    /\ bareResources \subseteq Contacts
    /\ \A c \in resources \cup bareResources : users[c] # "absent"

\* Every variable stays in its domain, resources are those of users, and the server sends
\* nothing without a connection.
TypeOK == StreamOK /\ ServerOK /\ ModuleOK /\ StoreOK

\* The module and the server have nothing more to tell each other.
AllHeard == up /\ moduleQueue = <<>> /\ owed = {} /\ available = shown

\* The users are the contacts on the server once everything is heard: no push is lost between
\* the answer to the fetch and the first population, nobody is left of an earlier connection,
\* and neither a timeout nor a second answer spoils the roster.  (Items with the subscription
\* "none" come with a push and not with the first roster.)
RosterMatches ==
    AllHeard /\ interested =>
        \A c \in Contacts :
            CASE roster[c] = "both"   -> users[c] = "both"
              [] roster[c] = "none"   -> users[c] \in {"none", "absent", "seen"}
              [] roster[c] = "absent" -> users[c] \in {"absent", "seen"}

\* The presence of this connection is heard, and no timer took the place of the roster.
PresenceIsHeard ==
    /\ AllHeard /\ shown /\ ~left
    /\ IF config.rosterless THEN ~hasRoster ELSE config.autoFetch /\ hasRoster /\ ~guessed

\* The users with a resource are the contacts that are available: presence that came before
\* the roster is kept for it, in its order, and nothing of an earlier connection is among it.
\* One that is not available has a resource, under its bare JID, only if it answered a request
\* on this connection.
PresenceMatches ==
    PresenceIsHeard => /\ resources = {c \in online : roster[c] = "both"}
                       /\ bareResources \subseteq answered

\* autoAcceptKnownPresenceSubscriptionRequests: nobody is asked about a contact of the roster,
\* even if its request came before the roster.
KnownIsAccepted == ~config.rosterless /\ ~guessed => asked \subseteq strangers

\* Presence that is kept does not wait forever, even if the server never answers.
EarlyIsHeard == earlyPresenceElements # <<>> ~> earlyPresenceElements = <<>>

\* "The initial roster has been received by client and populated." (hasRoster)
HasRosterIsReceived == hasRoster => ~guessed

\* isOnline as its name has it: a user has a resource only while the contact is available.
OnlineIsAvailable ==
    PresenceIsHeard => resources \cup bareResources = {c \in online : roster[c] = "both"}

\* A fetch that was requested is on its way, or the server has it.
RequestIsSent == requestedRoster /\ ~hasRoster /\ AllHeard => asks # {} \/ interested

=============================================================================
