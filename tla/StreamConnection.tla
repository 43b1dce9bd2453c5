--------------------------- MODULE StreamConnection ---------------------------
(* XMPPStream from connectWithTimeout: to a stream that is connected,          *)
(* authenticated and bound, and back (Core/XMPPStream.m).                      *)
(*                                                                             *)
(* Every handler is one block of the serial xmppQueue.  What waits to run on   *)
(* it comes from five sources, each in order, in any order among each other:   *)
(* the socket (`callbacks'), the parser on its own queue (`parsed'), the SRV   *)
(* resolver (`resolvers'), the connect timer, and the answers of delegates     *)
(* that are asked on a concurrent queue (`questions').  Calls of the           *)
(* application run between any two of them.                                    *)
(*                                                                             *)
(* The socket is GCDAsyncSocket, which is not part of this repository: it      *)
(* completes a read when there is data, and reports the end of a connection it *)
(* has started exactly once.  The server answers requests in their order.      *)
EXTENDS Naturals, Sequences, FiniteSets

CONSTANTS
    MaxAttempts,     \* bound: connection attempts of the application
    MaxRounds,       \* bound: challenges, refused resources and pushes on one TCP connection
    SrvCounts,       \* how many SRV records a domain may have
    HostNameSet,     \* whether hostName is set: no SRV resolution
    OldSchoolSet,    \* whether oldSchoolSecureConnectWithTimeout: is called
    SyncFailures,    \* the socket may refuse to start connecting
    Policies,        \* values of startTLSPolicy: 0 allowed, 1 preferred, 2 required
    Validates,       \* validatesResponses
    LateAnswers,     \* a delegate may answer a question about binding after the connection ended
    EndsInStart,     \* a custom binding may succeed or abort in its start:
    Reauthenticates  \* the application may authenticate an authenticated stream

ASSUME BoundsAssumption ==
    /\ MaxAttempts \in Nat /\ MaxRounds \in Nat
    /\ SrvCounts \subseteq Nat

ASSUME ConfigAssumption ==
    /\ {SyncFailures, Validates, LateAnswers, EndsInStart, Reauthenticates} \subseteq BOOLEAN
    /\ HostNameSet \subseteq BOOLEAN /\ OldSchoolSet \subseteq BOOLEAN
    /\ Policies \subseteq 0..2

VARIABLES
    \* the attempt
    state,            \* XMPPStreamState
    timer,            \* the attempt connectTimer was started for, 0 if there is none
    srvResolver,      \* the resolver in use (that of attempt n is called n), 0 if nil
    srvResults,       \* number of SRV records, 0 also if nil
    srvResultsIndex,
    \* the negotiation
    parser,           \* <<connection, n>>: the n-th parser of a TCP connection
    isSecure, isAuthenticated,
    features,         \* the stream features in rootElement
    auth,             \* the authentication in progress
    customBinding,    \* not nil
    tracked,          \* requests in idTracker
    \* waiting to run on the xmppQueue
    callbacks,        \* of the socket
    parsed,           \* of the parsers: elements and ends of chunks
    resolvers,        \* attempts whose resolver may still call back
    questions,        \* asked of delegates and not answered: [kind, conn]
    \* the socket, the wire and the server
    socket,           \* "idle", "connecting", "open"
    draining,         \* disconnectAfterWriting was called
    conn,             \* number of the TCP connection
    reads,            \* reads queued on the socket
    wire,             \* elements that have arrived and are not read
    requests,         \* written and not answered by the server
    rounds,
    \* history, for the properties
    attempt,          \* calls of connectWithTimeout: that succeeded
    told,             \* the application has told this attempt to end
    granted,          \* what the server of this TCP connection has granted
    heard             \* what the delegates were told in this attempt

srvVars     == <<srvResolver, srvResults, srvResultsIndex, resolvers>>
negVars     == <<parser, isSecure>>
loginVars   == <<isAuthenticated, features, auth, customBinding, tracked>>
socketVars  == <<socket, draining, callbacks, wire>>
trafficVars == <<requests, reads>>
serverVars  == <<conn, granted, rounds>>
attemptVars == <<timer, attempt, told>>
vars == <<state, srvVars, negVars, loginVars, socketVars, trafficVars, serverVars,
          attemptVars, parsed, questions, heard>>

-----------------------------------------------------------------------------
(* Elements and requests.  `id' says which tracked request an IQ answers.      *)

NoParser   == <<0, 0>>
NoFeatures == [starttls |-> "no", bind |-> FALSE, session |-> FALSE, login |-> FALSE]

\* Asking anything but stream features for what is offered gives nil.
Elem(kind, value, id) == [kind |-> kind, value |-> value, id |-> id, offers |-> NoFeatures]
Features(f)           == [Elem("features", "none", "none") EXCEPT !.offers = f]
ChunkEnd              == Elem("chunkEnd", "none", "none")
Request(kind, id)     == [kind |-> kind, id |-> id]
Callback(kind, data)  == [kind |-> kind, data |-> data]

Established == state \notin {"DISCONNECTED", "RESOLVING_SRV", "CONNECTING"}

-----------------------------------------------------------------------------
Init ==
    /\ state = "DISCONNECTED" /\ timer = 0
    /\ srvResolver = 0 /\ srvResults = 0 /\ srvResultsIndex = 0
    /\ parser = NoParser /\ isSecure = FALSE /\ isAuthenticated = FALSE
    /\ features = NoFeatures /\ auth = "none" /\ customBinding = FALSE /\ tracked = {}
    /\ callbacks = <<>> /\ parsed = <<>> /\ resolvers = {} /\ questions = {}
    /\ socket = "idle" /\ draining = FALSE /\ conn = 0 /\ reads = 0
    /\ wire = <<>> /\ requests = <<>> /\ rounds = 0
    /\ attempt = 0 /\ told = FALSE /\ granted = {} /\ heard = {}

-----------------------------------------------------------------------------
(* What the handlers do to the socket.  Reads and writes on a socket that is   *)
(* closed, or that closes after its last write, are ignored.                   *)

Usable == socket = "open" /\ ~draining

Writes(r) == requests' = IF Usable THEN Append(requests, r) ELSE requests
QueuesRead == reads' = IF Usable THEN reads + 1 ELSE reads

\* The socket closes, and says so if it had been started.
ClosesSocket ==
    /\ callbacks' = IF socket = "idle" THEN callbacks
                     ELSE Append(callbacks, Callback("closed", <<>>))
    /\ socket' = "idle" /\ draining' = FALSE
    /\ wire' = <<>> /\ requests' = <<>> /\ reads' = 0

\* The socket starts connecting to the next host.
BeginsConnection ==
    /\ conn' = conn + 1 /\ granted' = {} /\ rounds' = 0
    /\ socket' = "connecting"

-----------------------------------------------------------------------------
(* Connecting.                                                                *)

EndConnectTimeout_Not == UNCHANGED timer
EndConnectTimeout == timer' = 0

\* What is left of the SRV records when a host has answered.
ForgetsHosts_Kept == srvResolver' = 0 /\ UNCHANGED srvResults
ForgetsHosts == srvResolver' = 0 /\ srvResults' = 0

\* connectWithTimeout:, directly or from oldSchoolSecureConnectWithTimeout:.  A timer that
\* is still there is not replaced.
ConnectWithTimeout ==
    /\ state = "DISCONNECTED" /\ attempt < MaxAttempts
    /\ attempt' = attempt + 1 /\ told' = FALSE /\ heard' = {}
    /\ \E secure \in OldSchoolSet : isSecure' = (isSecure \/ secure)
    /\ \/ UNCHANGED timer
       \/ timer = 0 /\ timer' = attempt'
    /\ \/ /\ FALSE \in HostNameSet
          /\ state' = "RESOLVING_SRV"
          /\ srvResolver' = attempt' /\ resolvers' = resolvers \cup {attempt'}
          /\ srvResults' = 0 /\ srvResultsIndex' = 0
          /\ UNCHANGED <<serverVars, socket>>
       \/ /\ TRUE \in HostNameSet
          /\ state' = "CONNECTING" /\ BeginsConnection
          /\ UNCHANGED srvVars
    /\ UNCHANGED <<parser, loginVars, draining, callbacks, wire, trafficVars, parsed, questions>>

\* The hosts from `first' on that refuse at once are skipped; behind the last of `count'
\* comes the domain of the JID.
TryNextSrvResult(first, count) ==
    \/ \E i \in first..count :
          /\ SyncFailures \/ i = first
          /\ srvResultsIndex' = i
          /\ state' = "CONNECTING" /\ BeginsConnection
          /\ UNCHANGED heard
    \/ /\ SyncFailures
       /\ srvResultsIndex' = count
       /\ state' = "DISCONNECTED" /\ heard' = heard \cup {"didDisconnect"}
       /\ UNCHANGED <<serverVars, socket>>

\* No records and no answer both leave the domain itself to be tried.
DidResolve ==
    \E n \in resolvers :
        /\ resolvers' = resolvers \ {n}
        /\ \/ /\ n # srvResolver
              /\ UNCHANGED <<state, srvResults, srvResultsIndex, serverVars, socket, timer, heard>>
           \/ /\ n = srvResolver
              /\ \E count \in SrvCounts : srvResults' = count /\ TryNextSrvResult(0, count)
              /\ timer' = IF state' = "DISCONNECTED" THEN 0 ELSE timer
        /\ UNCHANGED <<srvResolver, negVars, loginVars, draining, callbacks, wire, trafficVars,
                       attempt, told, parsed, questions>>

\* What disconnect, abortConnecting and the timeout have in common: an SRV resolution is
\* stopped and leaves a disconnected stream; otherwise the socket closes and its callback
\* does the rest.
StopsConnecting ==
    /\ state = "RESOLVING_SRV"
    /\ srvResolver' = 0 /\ state' = "DISCONNECTED"
    /\ UNCHANGED <<socketVars, trafficVars>>

LeavesToSocket ==
    /\ state \notin {"DISCONNECTED", "RESOLVING_SRV"}
    /\ ClosesSocket
    /\ UNCHANGED <<state, srvResolver>>

DoConnectTimeout ==
    /\ timer # 0 /\ EndConnectTimeout
    /\ \/ /\ StopsConnecting \/ LeavesToSocket
          /\ heard' = heard \cup {"connectDidTimeout"}
       \/ /\ state = "DISCONNECTED"
          /\ UNCHANGED <<state, srvResolver, socketVars, trafficVars, heard>>
    /\ UNCHANGED <<srvResults, srvResultsIndex, resolvers, negVars, loginVars, serverVars, attempt,
                   told, parsed, questions>>

AbortConnecting ==
    /\ EndConnectTimeout
    /\ \/ /\ state \notin {"DISCONNECTED", "CONNECTED"}
          /\ StopsConnecting \/ LeavesToSocket
          /\ told' = TRUE
       \/ /\ state \in {"DISCONNECTED", "CONNECTED"} /\ timer # 0
          /\ UNCHANGED <<state, srvResolver, socketVars, trafficVars, told>>
    /\ UNCHANGED <<srvResults, srvResultsIndex, resolvers, negVars, loginVars, serverVars, attempt,
                   parsed, questions, heard>>

Disconnect ==
    /\ \/ StopsConnecting /\ heard' = heard \cup {"didDisconnect"}
       \/ LeavesToSocket /\ UNCHANGED heard
    /\ told' = TRUE
    /\ UNCHANGED <<srvResults, srvResultsIndex, resolvers, negVars, loginVars, serverVars, timer,
                   attempt, parsed, questions>>

\* As disconnect, but the socket closes only when everything is written.  (During an SRV
\* resolution the two do the same.)
DisconnectAfterSending ==
    /\ state \notin {"DISCONNECTED", "RESOLVING_SRV"} /\ socket # "idle"
    /\ draining' = TRUE /\ told' = TRUE
    /\ UNCHANGED <<state, srvVars, negVars, loginVars, socket, callbacks, wire, trafficVars,
                   serverVars, timer, attempt, parsed, questions, heard>>

-----------------------------------------------------------------------------
(* Stream negotiation.  Each operator below says what a method of the stream   *)
(* assigns; the actions that call it add what stays as it is.                  *)

NewParser == <<conn, IF parser[1] = conn THEN parser[2] + 1 ELSE 1>>

\* sendOpeningNegotiation.  didStartNegotiation is set exactly while there is a parser.
SendOpeningNegotiation ==
    /\ parser' = NewParser
    /\ Writes(Request("header", "none"))
    /\ state' = "OPENING"

\* continueStartTLS: (the stream header follows in either case; TLS is on at both ends).
ContinueStartTLS == isSecure' = TRUE /\ SendOpeningNegotiation /\ QueuesRead

\* startTLS: with or without a delegate that implements willSecureWithSettings:.
StartTLS ==
    \/ ContinueStartTLS /\ UNCHANGED questions
    \/ /\ state' = "STARTTLS_2"
       /\ questions' = questions \cup {[kind |-> "settings", conn |-> conn]}
       /\ UNCHANGED <<negVars, trafficVars>>

DidConnectToHost ==
    /\ callbacks # <<>> /\ Head(callbacks).kind = "connected"
    /\ callbacks' = Tail(callbacks)
    /\ EndConnectTimeout /\ ForgetsHosts
    /\ \/ isSecure /\ StartTLS
       \/ ~isSecure /\ SendOpeningNegotiation /\ QueuesRead /\ UNCHANGED <<isSecure, questions>>
    /\ UNCHANGED <<srvResultsIndex, resolvers, loginVars, socket, draining, wire, serverVars,
                   attempt, told, parsed, heard>>

\* On a secure socket the next read is queued before the data is parsed.
DidReadData ==
    /\ callbacks # <<>> /\ Head(callbacks).kind = "read"
    /\ callbacks' = Tail(callbacks)
    /\ LET data == Head(callbacks).data
           Parsed(e) == [parser |-> parser, elem |-> e]
       IN parsed' = IF parser = NoParser THEN parsed
                    ELSE parsed \o [i \in 1..Len(data) |-> Parsed(data[i])] \o <<Parsed(ChunkEnd)>>
    /\ IF isSecure THEN QueuesRead ELSE UNCHANGED reads
    /\ UNCHANGED <<state, srvVars, negVars, loginVars, socket, draining, wire, requests, serverVars,
                   attemptVars, questions, heard>>

\* What the end of a connection releases and resets.
Releases_NotFlags ==
    /\ parser' = NoParser /\ features' = NoFeatures /\ auth' = "none" /\ tracked' = {}
    /\ UNCHANGED <<isSecure, isAuthenticated>>
Releases ==
    /\ parser' = NoParser /\ features' = NoFeatures /\ auth' = "none" /\ tracked' = {}
    /\ isSecure' = FALSE /\ isAuthenticated' = FALSE

\* With SRV records left the next host is tried; otherwise the stream is disconnected.
SocketDidDisconnect ==
    /\ callbacks # <<>> /\ Head(callbacks).kind = "closed"
    /\ callbacks' = Tail(callbacks)
    /\ LateAnswers \/ \A q \in questions : q.kind = "settings"
    /\ EndConnectTimeout
    /\ \/ /\ srvResultsIndex + 1 < srvResults
          /\ TryNextSrvResult(srvResultsIndex + 1, srvResults)
          /\ UNCHANGED <<srvResolver, srvResults, negVars, loginVars>>
       \/ /\ ~(srvResultsIndex + 1 < srvResults)
          /\ srvResultsIndex' = IF srvResults = 0 THEN srvResultsIndex ELSE srvResultsIndex + 1
          /\ state' = "DISCONNECTED" /\ heard' = heard \cup {"didDisconnect"}
          /\ ForgetsHosts /\ Releases
          /\ UNCHANGED <<customBinding, socket, serverVars>>
    /\ UNCHANGED <<resolvers, draining, wire, trafficVars, attempt, told, parsed,
                   questions>>

-----------------------------------------------------------------------------
(* What the parser read.  Callbacks of a parser that has been replaced or      *)
(* released are ignored.                                                       *)

elem == Head(parsed).elem

FromCurrentParser == Head(parsed).parser = parser

\* Taking the next callback of the parser off the xmppQueue.
TakesParsed ==
    /\ parsed # <<>> /\ parsed' = Tail(parsed)
    /\ UNCHANGED <<srvVars, serverVars, attemptVars>>

\* xmppParser:didReadElement: in a state that waits for something.
TakesElement(inState) ==
    /\ TakesParsed /\ FromCurrentParser
    /\ elem.kind \notin {"root", "chunkEnd", "eof"} /\ state = inState

IgnoreOldParser ==
    /\ TakesParsed /\ ~FromCurrentParser
    /\ UNCHANGED <<state, negVars, loginVars, socketVars, trafficVars, questions, heard>>

\* A server older than RFC 3920 sends no features and is asked for its authentication
\* fields instead.
DidReadRoot ==
    /\ TakesParsed /\ FromCurrentParser /\ elem.kind = "root"
    /\ state' = "NEGOTIATING" /\ features' = NoFeatures
    /\ IF elem.value = "old" THEN Writes(Request("query", "none")) ELSE UNCHANGED requests
    /\ UNCHANGED <<negVars, isAuthenticated, auth, customBinding, tracked, socketVars, reads,
                   questions, heard>>

\* xmppParserDidParseData:.  Before startTLS no read may be queued on the socket.
ReadsOn_Always == ~isSecure
ReadsOn == ~isSecure /\ state # "STARTTLS_2"

DidParseData ==
    /\ TakesParsed /\ FromCurrentParser /\ elem.kind = "chunkEnd"
    /\ IF ReadsOn THEN QueuesRead ELSE UNCHANGED reads
    /\ UNCHANGED <<state, negVars, loginVars, socketVars, requests, questions, heard>>

\* xmppParserDidEnd: and xmppParser:didFail:.
ParserDidEnd ==
    /\ TakesParsed /\ FromCurrentParser /\ elem.kind = "eof"
    /\ ClosesSocket
    /\ UNCHANGED <<state, negVars, loginVars, questions, heard>>

-----------------------------------------------------------------------------
(* Binding.  `known' is what idTracker holds before the handler adds to it.    *)

\* An IQ of the stream's own: written, and tracked under its id.
SendsIQ(kind, id, known) == Writes(Request(kind, id)) /\ tracked' = known \cup {id}

\* continuePostBinding: the session is skipped if the property, the custom binding or the
\* server's features say so.
ContinuePostBinding_Untold(known) ==
    /\ state' = "CONNECTED" /\ tracked' = known
    /\ UNCHANGED <<requests, heard>>
ContinuePostBinding(known) ==
    \/ /\ features.session
       /\ state' = "START_SESSION"
       /\ SendsIQ("session", "session", known)
       /\ UNCHANGED heard
    \/ /\ state' = "CONNECTED" /\ heard' = heard \cup {"didAuthenticate"}
       /\ tracked' = known
       /\ UNCHANGED requests

StartStandardBinding == SendsIQ("bind", "bind", tracked) /\ UNCHANGED <<state, heard>>

\* What the stream does with the result FailFallback, and with Success and FailAbort.
FallsBack == customBinding' = FALSE /\ StartStandardBinding /\ UNCHANGED <<socketVars, reads>>

EndsCustomBinding ==
    /\ customBinding' = FALSE
    /\ \/ ContinuePostBinding(tracked) /\ UNCHANGED <<socketVars, reads>>
       \/ ClosesSocket /\ UNCHANGED <<state, tracked, heard>>

\* startCustomBinding: with result Continue the custom binding has sent a request through
\* sendBindElement:, which wants the state to be BINDING.  The start: of XMPPStreamManagement
\* continues or falls back; one of the application may also end the binding (EndsInStart).
StartCustomBinding ==
    \/ /\ customBinding' = TRUE
       /\ IF state = "BINDING" THEN Writes(Request("custom", "none")) ELSE UNCHANGED requests
       /\ UNCHANGED <<state, tracked, heard, socketVars, reads>>
    \/ FallsBack
    \/ EndsInStart /\ EndsCustomBinding

\* startBinding, when no delegate implements xmppStreamWillBind:, and when one does.
StartBinding ==
    /\ state' = "BINDING"
    /\ \/ /\ SendsIQ("bind", "bind", tracked)
          /\ UNCHANGED questions
       \/ /\ questions' = questions \cup {[kind |-> "willBind", conn |-> conn]}
          /\ UNCHANGED <<requests, tracked>>

\* handleStreamFeatures: TLS, then binding, then done.
NeedsTLS(f, policy) == f.starttls = "required" \/ (f.starttls = "offered" /\ policy >= 1)
Refuses(f, policy)  == f.starttls = "no" /\ ~isSecure /\ policy = 2

HandleStreamFeatures ==
    /\ TakesElement("NEGOTIATING")
    /\ features' = elem.offers
    /\ \E policy \in Policies :
         \/ /\ NeedsTLS(elem.offers, policy)
            /\ state' = "STARTTLS_1" /\ Writes(Request("starttls", "none"))
            /\ UNCHANGED <<socketVars, reads, tracked, questions, heard>>
         \/ /\ Refuses(elem.offers, policy)
            /\ ClosesSocket
            /\ UNCHANGED <<state, tracked, questions, heard>>
         \/ /\ ~NeedsTLS(elem.offers, policy) /\ ~Refuses(elem.offers, policy)
            /\ elem.offers.bind
            /\ StartBinding
            /\ UNCHANGED <<socketVars, reads, heard>>
         \/ /\ ~NeedsTLS(elem.offers, policy) /\ ~Refuses(elem.offers, policy)
            /\ ~elem.offers.bind
            /\ state' = "CONNECTED"
            /\ heard' = IF isAuthenticated THEN heard ELSE heard \cup {"didConnect"}
            /\ UNCHANGED <<socketVars, trafficVars, tracked, questions>>
    /\ UNCHANGED <<negVars, isAuthenticated, auth, customBinding>>

HandleStartTLSResponse ==
    /\ TakesElement("STARTTLS_1")
    /\ \/ /\ elem.value = "proceed"
          /\ StartTLS
          /\ UNCHANGED socketVars
       \/ /\ elem.value # "proceed"
          /\ ClosesSocket
          /\ UNCHANGED <<state, negVars, questions>>
    /\ UNCHANGED <<loginVars, heard>>

HandleRegistration ==
    /\ TakesElement("REGISTERING")
    /\ state' = "CONNECTED"
    /\ UNCHANGED <<negVars, loginVars, socketVars, trafficVars, questions, heard>>

\* After a success the stream restarts, unless the mechanism is one of the old ones.  The
\* parser that would queue the next read has just been replaced, so it is queued here.
ReadsAfterAuth_Never == FALSE
ReadsAfterAuth == ~isSecure

HandleAuth ==
    /\ TakesElement("AUTH")
    /\ \/ /\ elem.value = "success"
          /\ isAuthenticated' = TRUE /\ auth' = "none"
          /\ \/ /\ auth = "sasl"
                /\ SendOpeningNegotiation
                /\ IF ReadsAfterAuth THEN QueuesRead ELSE UNCHANGED reads
                /\ UNCHANGED heard
             \/ /\ auth = "legacy"
                /\ state' = "CONNECTED" /\ heard' = heard \cup {"didAuthenticate"}
                /\ UNCHANGED <<parser, trafficVars>>
       \/ /\ elem.value = "challenge"
          /\ Writes(Request("auth", "none"))
          /\ UNCHANGED <<state, parser, isAuthenticated, auth, reads, heard>>
       \/ /\ elem.value \notin {"success", "challenge"}
          /\ state' = "CONNECTED" /\ auth' = "none"
          /\ heard' = heard \cup {"didNotAuthenticate"}
          /\ UNCHANGED <<parser, isAuthenticated, trafficVars>>
    /\ UNCHANGED <<isSecure, features, customBinding, tracked, socketVars, questions>>

\* handleCustomBinding: every element goes to the custom binding.
HandleCustomBinding ==
    /\ TakesElement("BINDING") /\ customBinding
    /\ \/ /\ elem.value = "again"
          /\ Writes(Request("custom", "none"))
          /\ UNCHANGED <<state, tracked, heard, customBinding, socketVars, reads>>
       \/ elem.value # "again" /\ (FallsBack \/ EndsCustomBinding)
    /\ UNCHANGED <<negVars, isAuthenticated, features, auth, questions>>

\* With validatesResponses an IQ that answers no tracked request is ignored.
IsValidResponse == Validates => elem.id \in tracked
StillTracked == IF Validates THEN tracked \ {elem.id} ELSE tracked

\* continueHandleStandardBinding: for a resource that a delegate has chosen, or for any.
ContinueHandleStandardBinding(known) == SendsIQ("bind", "bind", known)

HandleStandardBinding ==
    /\ TakesElement("BINDING") /\ ~customBinding /\ IsValidResponse
    /\ \/ /\ elem.value = "jid"
          /\ ContinuePostBinding(StillTracked)
          /\ UNCHANGED questions
       \/ /\ elem.value # "jid"
          /\ ContinueHandleStandardBinding(StillTracked)
          /\ UNCHANGED <<state, heard, questions>>
       \/ /\ elem.value = "conflict"
          /\ questions' = questions \cup {[kind |-> "resource", conn |-> conn]}
          /\ tracked' = StillTracked
          /\ UNCHANGED <<state, heard, requests>>
    /\ UNCHANGED <<negVars, isAuthenticated, features, auth, customBinding, socketVars, reads>>

HandleStartSessionResponse ==
    /\ TakesElement("START_SESSION") /\ IsValidResponse
    /\ state' = "CONNECTED" /\ tracked' = StillTracked
    /\ heard' = heard \cup {IF elem.value = "result" THEN "didAuthenticate" ELSE "didNotAuthenticate"}
    /\ UNCHANGED <<negVars, isAuthenticated, features, auth, customBinding, socketVars, trafficVars,
                   questions>>

\* An element that the stream is not waiting for: an invalid response, or traffic.
IgnoreElement ==
    /\ TakesElement(state)
    /\ \/ state = "BINDING" /\ ~customBinding /\ ~IsValidResponse
       \/ state = "START_SESSION" /\ ~IsValidResponse
       \/ state \in {"DISCONNECTED", "RESOLVING_SRV", "CONNECTING", "OPENING", "STARTTLS_2",
                     "CONNECTED"}
    /\ UNCHANGED <<state, negVars, loginVars, socketVars, trafficVars, questions, heard>>

-----------------------------------------------------------------------------
(* Answers of delegates.                                                      *)

Answers(kind) ==
    /\ \E q \in questions : q.kind = kind /\ questions' = questions \ {q}
    /\ UNCHANGED <<srvVars, serverVars, attemptVars, parsed>>

WantsSettings_Always == TRUE
WantsSettings == state = "STARTTLS_2"

AnswerSettings ==
    /\ Answers("settings")
    /\ \/ WantsSettings /\ ContinueStartTLS
       \/ ~WantsSettings /\ UNCHANGED <<state, negVars, trafficVars>>
    /\ UNCHANGED <<loginVars, socketVars, heard>>

\* The answer to xmppStreamWillBind: is acted on in any state.
AnswerWillBind ==
    /\ Answers("willBind")
    /\ \/ StartCustomBinding
       \/ StartStandardBinding /\ UNCHANGED <<customBinding, socketVars, reads>>
    /\ UNCHANGED <<negVars, isAuthenticated, features, auth>>

AnswerResource ==
    /\ Answers("resource")
    /\ ContinueHandleStandardBinding(tracked)
    /\ UNCHANGED <<state, negVars, isAuthenticated, features, auth, customBinding, socketVars, reads,
                   heard>>

-----------------------------------------------------------------------------
(* What the application asks of a connected stream.                           *)

\* Nothing but the state is asked for.
Authenticate ==
    /\ state = "CONNECTED" /\ (Reauthenticates \/ ~isAuthenticated)
    /\ state' = "AUTH" /\ auth' \in {"legacy"} \cup IF features.login THEN {"sasl"} ELSE {}
    /\ Writes(Request("auth", "none"))
    /\ UNCHANGED <<srvVars, negVars, isAuthenticated, features, customBinding, tracked, socketVars,
                   reads, serverVars, attemptVars, parsed, questions, heard>>

RegisterWithElements ==
    /\ state = "CONNECTED" /\ features.login
    /\ state' = "REGISTERING"
    /\ Writes(Request("register", "none"))
    /\ UNCHANGED <<srvVars, negVars, loginVars, socketVars, reads, serverVars, attemptVars, parsed,
                   questions, heard>>

SecureConnection ==
    /\ state = "CONNECTED" /\ ~isSecure /\ features.starttls # "no"
    /\ state' = "STARTTLS_1"
    /\ Writes(Request("starttls", "none"))
    /\ UNCHANGED <<srvVars, negVars, loginVars, socketVars, reads, serverVars, attemptVars, parsed,
                   questions, heard>>

-----------------------------------------------------------------------------
(* The socket and the server.                                                 *)

NetworkStep == UNCHANGED <<state, srvVars, negVars, loginVars, attemptVars, parsed, questions, heard>>

SocketConnects ==
    /\ socket = "connecting" /\ socket' = "open"
    /\ callbacks' = Append(callbacks, Callback("connected", <<>>))
    /\ UNCHANGED <<draining, wire, trafficVars, serverVars>> /\ NetworkStep

\* The host does not answer, the connection breaks, or everything is written and the socket
\* closes as it was told.
SocketCloses ==
    /\ socket # "idle"
    /\ ClosesSocket
    /\ UNCHANGED serverVars /\ NetworkStep

\* A read completes with all that has arrived, or with the first part of it.
SocketReads ==
    /\ socket = "open" /\ reads > 0
    /\ \E n \in 1..Len(wire) :
          /\ callbacks' = Append(callbacks, Callback("read", SubSeq(wire, 1, n)))
          /\ wire' = SubSeq(wire, n + 1, Len(wire))
    /\ reads' = reads - 1
    /\ UNCHANGED <<socket, draining, requests, serverVars>> /\ NetworkStep

\* What a server offers: TLS until it is used, authentication mechanisms and registration
\* (`login') to a client that has not authenticated, binding to one that has.
Offers ==
    LET done == "auth" \in granted IN
    [starttls : IF isSecure THEN {"no"} ELSE {"no", "offered", "required"},
     bind : {done}, session : IF done THEN BOOLEAN ELSE {FALSE}, login : {~done}]

\* The answers to a request; `again' if the exchange may go on.
AnswersTo(r, again) ==
    LET Reply(values) == {<<Elem(r.kind, v, r.id)>> : v \in values} IN
    CASE r.kind = "header"   -> {<<Elem("root", "rfc", "none"), Features(f)>> : f \in Offers}
                                  \cup IF parser[2] = 1 THEN {<<Elem("root", "old", "none")>>} ELSE {}
      [] r.kind = "starttls" -> Reply({"proceed", "failure"})
      [] r.kind = "auth"     -> Reply({"success", "failure"} \cup IF again THEN {"challenge"} ELSE {})
      [] r.kind = "bind"     -> Reply({"jid"} \cup IF again THEN {"conflict", "error"} ELSE {})
      [] r.kind = "custom"   -> Reply({"done"} \cup IF again THEN {"again"} ELSE {})
      [] OTHER               -> Reply({"result", "refused"})

ServerAnswers ==
    /\ socket = "open" /\ requests # <<>>
    /\ \E answer \in AnswersTo(Head(requests), rounds < MaxRounds)
                       \cup {<<Elem("eof", "none", "none")>>} :
          /\ wire' = wire \o answer
          /\ rounds' = IF answer[1].value \in {"challenge", "conflict", "error", "again"}
                       THEN rounds + 1 ELSE rounds
          /\ granted' = granted \cup CASE answer[1].value = "success" -> {"auth"}
                                       [] answer[1].value \in {"jid", "done"} -> {"bind"}
                                       [] OTHER -> {}
    /\ requests' = Tail(requests)
    /\ UNCHANGED <<socket, draining, callbacks, reads, conn>> /\ NetworkStep

\* To a bound client the server may send stanzas of its own accord.
ServerPushes ==
    /\ socket = "open" /\ "bind" \in granted /\ rounds < MaxRounds
    /\ wire' = Append(wire, Elem("stanza", "none", "none"))
    /\ rounds' = rounds + 1
    /\ UNCHANGED <<socket, draining, callbacks, trafficVars, conn, granted>> /\ NetworkStep

-----------------------------------------------------------------------------
Application == ConnectWithTimeout \/ Disconnect \/ DisconnectAfterSending \/ AbortConnecting
                 \/ Authenticate \/ RegisterWithElements \/ SecureConnection

HandleCallback == DidConnectToHost \/ DidReadData \/ SocketDidDisconnect

HandleParsed ==
    \/ IgnoreOldParser \/ DidReadRoot \/ DidParseData \/ ParserDidEnd \/ HandleStreamFeatures
    \/ HandleStartTLSResponse \/ HandleRegistration \/ HandleAuth \/ HandleCustomBinding
    \/ HandleStandardBinding \/ HandleStartSessionResponse \/ IgnoreElement

Delegates == AnswerSettings \/ AnswerWillBind \/ AnswerResource

Network == SocketConnects \/ SocketReads \/ ServerAnswers

Next == Application \/ HandleCallback \/ HandleParsed \/ Delegates \/ Network
          \/ DidResolve \/ DoConnectTimeout \/ SocketCloses \/ ServerPushes

Spec == Init /\ [][Next]_vars

\* The state without the two history variables, which no action reads: states that differ only
\* in them are one to a property that does not read them either.
WithoutHistory ==
    <<state, srvVars, negVars, loginVars, socketVars, trafficVars, serverVars, timer, attempt,
      parsed, questions>>

-----------------------------------------------------------------------------
(* Properties.                                                                *)

States == {"DISCONNECTED", "RESOLVING_SRV", "CONNECTING", "OPENING", "NEGOTIATING", "STARTTLS_1",
           "STARTTLS_2", "REGISTERING", "AUTH", "BINDING", "START_SESSION", "CONNECTED"}

FeatureSet == [starttls : {"no", "offered", "required"}, bind : BOOLEAN, session : BOOLEAN,
               login : BOOLEAN]

ElemSet == [kind : {"root", "features", "chunkEnd", "eof", "query", "starttls", "auth", "register",
                    "bind", "custom", "session", "stanza"},
            value : {"none", "rfc", "old", "proceed", "failure", "success", "challenge", "jid",
                     "conflict", "error", "done", "again", "result", "refused"},
            id : {"none", "bind", "session"}, offers : FeatureSet]

RequestSet == [kind : {"header", "query", "starttls", "auth", "register", "bind", "custom",
                       "session"},
               id : {"none", "bind", "session"}]

CallbackSet == [kind : {"connected", "read", "closed"}, data : Seq(ElemSet)]

SrvTypes ==
    /\ srvResolver \in 0..MaxAttempts /\ resolvers \subseteq 1..MaxAttempts
    /\ srvResults \in Nat /\ srvResultsIndex \in Nat

NegTypes == parser \in Nat \X Nat /\ isSecure \in BOOLEAN

LoginTypes ==
    /\ isAuthenticated \in BOOLEAN /\ features \in FeatureSet
    /\ auth \in {"none", "sasl", "legacy"}
    /\ customBinding \in BOOLEAN /\ tracked \subseteq {"bind", "session"}

SocketTypes ==
    /\ socket \in {"idle", "connecting", "open"} /\ draining \in BOOLEAN
    /\ callbacks \in Seq(CallbackSet) /\ wire \in Seq(ElemSet)

TrafficTypes == requests \in Seq(RequestSet) /\ reads \in Nat

ServerTypes == conn \in Nat /\ granted \subseteq {"auth", "bind"} /\ rounds \in Nat

AttemptTypes == timer \in 0..MaxAttempts /\ attempt \in 0..MaxAttempts /\ told \in BOOLEAN

WaitingTypes ==
    /\ parsed \in Seq([parser : Nat \X Nat, elem : ElemSet])
    /\ questions \subseteq [kind : {"settings", "willBind", "resource"}, conn : Nat]
    /\ heard \subseteq {"didConnect", "didAuthenticate", "didNotAuthenticate", "didDisconnect",
                        "connectDidTimeout"}

\* What a stream without a connection must not have kept from the last one.
NothingKept ==
    ~Established => /\ parser = NoParser /\ features = NoFeatures
                    /\ auth = "none" /\ ~isAuthenticated

\* The types of the state, and that of a stream without a connection: it has no parser, no
\* features, and no authentication in progress or done.
TypeOK ==
    /\ state \in States
    /\ SrvTypes /\ NegTypes /\ LoginTypes /\ SocketTypes /\ TrafficTypes
    /\ ServerTypes /\ AttemptTypes /\ WaitingTypes
    /\ NothingKept

CountIn(q, P(_)) == Cardinality({i \in DOMAIN q : P(q[i])})

EndIsHeard == \E i \in DOMAIN callbacks : callbacks[i].kind = "closed"

\* A stream that is neither disconnected nor resolving has a connection, or will hear that
\* it has ended: otherwise nothing would ever bring it back to DISCONNECTED, and no new
\* connection could be made.
AliveHasSocket ==
    state \in {"DISCONNECTED", "RESOLVING_SRV"} <=> socket = "idle" /\ ~EndIsHeard

\* Exactly one read keeps the stream going: queued on the socket, completed and waiting to
\* be handled, or, before TLS, with the parser whose end of chunk queues the next.  None is
\* on its way while delegates are asked for the TLS settings: the socket must not read
\* before startTLS.  Lost, the stream would go deaf; doubled, it would read TLS as text.
Readers ==
    reads + CountIn(callbacks, LAMBDA c : c.kind = "read")
      + IF isSecure THEN 0
        ELSE CountIn(parsed, LAMBDA p : p.parser = parser /\ p.elem = ChunkEnd)

OneReader ==
    Usable /\ Established =>
        IF state = "STARTTLS_2"
        THEN reads = 0 /\ CountIn(callbacks, LAMBDA c : c.kind = "read") = 0
        ELSE Readers = 1

\* The stream counts as authenticated only if the server of this very connection said so,
\* whatever is still on the queues of connections and parsers before it.
AuthenticatedByServer == isAuthenticated => "auth" \in granted

\* When a stream is ready for use, the delegates have been told that it is connected, or how
\* its authentication ended.
ConnectedIsAnnounced ==
    state = "CONNECTED" =>
        heard \cap (IF isAuthenticated THEN {"didAuthenticate", "didNotAuthenticate"}
                    ELSE {"didConnect"}) # {}

\* The connect timer ends connection attempts only, never an established stream.
TimerEndsWithConnection == Established => timer = 0

\* Once a TCP connection of an attempt was established, the attempt opens no other: SRV
\* records left over are not tried when the connection is lost.
NoReconnectBehindTheBack == [][conn' # conn => ~Established]_vars

\* "Aborts any in-progress connection attempt", "the disconnect will happen immediately":
\* after one of these the attempt opens no further connection.
ToldIsFinal == [][conn' # conn => ~told']_vars

\* The timer that runs was started for the connection attempt that is under way; one that
\* outlived its attempt would end an attempt made with another timeout, or with none.
TimerIsOfThisAttempt == state # "DISCONNECTED" => timer \in {0, attempt}

Fairness ==
    /\ WF_vars(HandleCallback) /\ WF_vars(HandleParsed) /\ WF_vars(Delegates)
    /\ WF_vars(SocketConnects) /\ WF_vars(SocketReads) /\ WF_vars(ServerAnswers)
    /\ WF_vars(DidResolve) /\ WF_vars(draining /\ SocketCloses)

LiveSpec == Spec /\ Fairness

\* A stream on its way gets somewhere: whatever the server answers, the negotiation ends in
\* a usable or in a disconnected stream.
Settles == state \notin {"CONNECTED", "DISCONNECTED"} ~> state \in {"CONNECTED", "DISCONNECTED"}

=============================================================================
