------------------------ MODULE StreamConnectionProofs ------------------------
(* Proofs about StreamConnection, for every value of its constants.            *)
(*                                                                             *)
(* The inductive invariant Inv says of which state the leftovers of a          *)
(* connection attempt are: SRV records and the connect timer belong to the     *)
(* time before a connection is established, the questions about binding to the *)
(* time after, a resolver that may still call back to RESOLVING_SRV, and no    *)
(* element waits that no parser has read.  SocketInv, GrantInv and             *)
(* NegotiationInv build on it: they say where the end of a connection stands   *)
(* among the callbacks, where a success of the server may still be, and what   *)
(* is under way between the stream and its server.                             *)
EXTENDS StreamConnection, TLAPS, FiniteSetTheorems

\* A custom binding whose start: ends the binding does so before the end of the connection is
\* handled.  The one of this repository, XMPPStreamManagement, continues or falls back in its
\* start:, however late.  One that succeeds there too late makes a disconnected stream CONNECTED
\* without a socket (startCustomBinding: does not look at the state).
NoLateEnd == LateAnswers => ~EndsInStart

\* A delegate answers a question about binding before the end of the connection is handled.
\* Only the turns that stream and server take until a resource is bound need this.
InTime == ~LateAnswers

\* A stream is authenticated once.  With that the turns need not be taken again.
AuthenticatesOnce == ~Reauthenticates

EstablishedForgets == Established => srvResults = 0 /\ timer = 0
NoStrayElements    == \A i \in DOMAIN parsed : parsed[i].parser # NoParser
ResolverInUse      == /\ srvResolver \in resolvers => state = "RESOLVING_SRV"
                      /\ state = "RESOLVING_SRV" => srvResults = 0
QuestionsInTime    == InTime => \A q \in questions : q.kind # "settings" => Established

Control == EstablishedForgets /\ NoStrayElements /\ ResolverInUse /\ QuestionsInTime

Inv == TypeOK /\ Control

-----------------------------------------------------------------------------
(* The operators of StreamConnection return and assign values of their types. *)

LEMMA ElementTypes ==
    /\ NoFeatures \in FeatureSet
    /\ ChunkEnd \in ElemSet
    /\ Elem("eof", "none", "none") \in ElemSet /\ Elem("stanza", "none", "none") \in ElemSet
    /\ \A v \in {"rfc", "old"} : Elem("root", v, "none") \in ElemSet
    /\ \A f \in FeatureSet : Features(f) \in ElemSet
  BY DEF NoFeatures, FeatureSet, ChunkEnd, Elem, ElemSet, Features

LEMMA AppendType ==
    ASSUME NEW S, NEW s \in Seq(S), NEW e \in S
    PROVE  Append(s, e) \in Seq(S)
  OBVIOUS

LEMMA TailType ==
    ASSUME NEW S, NEW s \in Seq(S), s # <<>>
    PROVE  Tail(s) \in Seq(S) /\ Head(s) \in S
  OBVIOUS

LEMMA EmptyType == ASSUME NEW S PROVE <<>> \in Seq(S)
  OBVIOUS

LEMMA ConcatType ==
    ASSUME NEW S, NEW s \in Seq(S), NEW t \in Seq(S)
    PROVE  s \o t \in Seq(S)
  OBVIOUS

LEMMA WritesType ==
    ASSUME TrafficTypes, NEW r \in RequestSet, Writes(r)
    PROVE  requests' \in Seq(RequestSet)
  BY AppendType DEF TrafficTypes, Writes

LEMMA QueuesReadType ==
    ASSUME TrafficTypes, QueuesRead
    PROVE  reads' \in Nat
  BY DEF TrafficTypes, QueuesRead

LEMMA ClosedType == Callback("closed", <<>>) \in CallbackSet
                      /\ Callback("connected", <<>>) \in CallbackSet
  BY EmptyType DEF Callback, CallbackSet

LEMMA ClosesSocketTypes ==
    ASSUME SocketTypes, ClosesSocket
    PROVE  SocketTypes' /\ TrafficTypes'
  <1>1. callbacks' \in Seq(CallbackSet)
    BY AppendType, ClosedType DEF SocketTypes, ClosesSocket
  <1>2. <<>> \in Seq(ElemSet) /\ <<>> \in Seq(RequestSet)
    BY EmptyType
  <1> QED
    BY <1>1, <1>2 DEF SocketTypes, TrafficTypes, ClosesSocket

LEMMA BeginsConnectionTypes ==
    ASSUME ServerTypes, BeginsConnection
    PROVE  ServerTypes' /\ socket' \in {"idle", "connecting", "open"}
  BY DEF ServerTypes, BeginsConnection

LEMMA SendOpeningNegotiationTypes ==
    ASSUME ServerTypes, NegTypes, TrafficTypes, SendOpeningNegotiation
    PROVE  /\ parser' \in Nat \X Nat /\ requests' \in Seq(RequestSet)
           /\ state' = "OPENING"
  <1>1. Request("header", "none") \in RequestSet
    BY DEF Request, RequestSet
  <1>2. requests' \in Seq(RequestSet)
    BY <1>1, WritesType DEF SendOpeningNegotiation
  <1>3. parser' \in Nat \X Nat
    BY DEF SendOpeningNegotiation, NewParser, ServerTypes, NegTypes
  <1> QED
    BY <1>2, <1>3 DEF SendOpeningNegotiation

LEMMA ContinueStartTLSTypes ==
    ASSUME ServerTypes, NegTypes, TrafficTypes, ContinueStartTLS
    PROVE  NegTypes' /\ TrafficTypes' /\ state' = "OPENING"
  BY SendOpeningNegotiationTypes, QueuesReadType
     DEF ContinueStartTLS, NegTypes, TrafficTypes

LEMMA SendsIQTypes ==
    ASSUME TrafficTypes, NEW known \in SUBSET {"bind", "session"},
           NEW id \in {"bind", "session"}, SendsIQ(id, id, known)
    PROVE  requests' \in Seq(RequestSet) /\ tracked' \subseteq {"bind", "session"}
  <1>1. Request(id, id) \in RequestSet
    BY DEF Request, RequestSet
  <1> QED
    BY <1>1, WritesType DEF SendsIQ

-----------------------------------------------------------------------------
(* Frames: what a step does not touch keeps its type.                          *)

LEMMA Frames ==
    ASSUME TypeOK
    PROVE  /\ UNCHANGED srvVars => SrvTypes'
           /\ UNCHANGED negVars => NegTypes'
           /\ UNCHANGED loginVars => LoginTypes'
           /\ UNCHANGED socketVars => SocketTypes'
           /\ UNCHANGED trafficVars => TrafficTypes'
           /\ UNCHANGED serverVars => ServerTypes'
           /\ UNCHANGED attemptVars => AttemptTypes'
           /\ UNCHANGED <<parsed, questions, heard>> => WaitingTypes'
  <1>1. UNCHANGED srvVars => SrvTypes'
    BY DEF TypeOK, SrvTypes, srvVars
  <1>2. UNCHANGED negVars => NegTypes'
    BY DEF TypeOK, NegTypes, negVars
  <1>3. UNCHANGED loginVars => LoginTypes'
    BY DEF TypeOK, LoginTypes, loginVars
  <1>4. UNCHANGED socketVars => SocketTypes'
    BY DEF TypeOK, SocketTypes, socketVars
  <1>5. UNCHANGED trafficVars => TrafficTypes'
    BY DEF TypeOK, TrafficTypes, trafficVars
  <1>6. UNCHANGED serverVars => ServerTypes'
    BY DEF TypeOK, ServerTypes, serverVars
  <1>7. UNCHANGED attemptVars => AttemptTypes'
    BY DEF TypeOK, AttemptTypes, attemptVars
  <1>8. UNCHANGED <<parsed, questions, heard>> => WaitingTypes'
    BY DEF TypeOK, WaitingTypes
  <1> QED
    BY <1>1, <1>2, <1>3, <1>4, <1>5, <1>6, <1>7, <1>8

LEMMA TailNotStray ==
    ASSUME NoStrayElements, TypeOK, parsed # <<>>, parsed' = Tail(parsed)
    PROVE  NoStrayElements'
  <1>1. parsed \in Seq([parser : Nat \X Nat, elem : ElemSet])
    BY DEF TypeOK, WaitingTypes
  <1>2. \A i \in DOMAIN Tail(parsed) : i + 1 \in DOMAIN parsed /\ Tail(parsed)[i] = parsed[i + 1]
    BY <1>1
  <1> QED
    BY <1>2 DEF NoStrayElements, NoParser

\* A step inside an established stream.
LEMMA EstablishedControl ==
    ASSUME Inv, Established, Established', UNCHANGED <<srvVars, attemptVars>>, NoStrayElements'
    PROVE  NothingKept' /\ Control'
  <1>1. NothingKept' /\ QuestionsInTime'
    BY DEF NothingKept, QuestionsInTime
  <1>2. EstablishedForgets'
    BY DEF Inv, Control, EstablishedForgets, srvVars, attemptVars
  <1>3. srvResolver \notin resolvers
    BY DEF Inv, Control, ResolverInUse, Established
  <1> QED
    BY <1>1, <1>2, <1>3 DEF Control, ResolverInUse, srvVars, Established

\* A step that leaves the state as it is.
LEMMA SameStateControl ==
    ASSUME Inv, UNCHANGED <<state, srvVars, parser, features, auth, isAuthenticated>>,
           timer' \in {timer, 0}, NoStrayElements', questions' \subseteq questions
    PROVE  NothingKept' /\ Control'
  <1>1. Established' <=> Established
    BY DEF Established
  <1>2. NothingKept'
    BY <1>1 DEF Inv, TypeOK, NothingKept, NoParser, NoFeatures
  <1>3. EstablishedForgets'
    BY <1>1 DEF Inv, Control, EstablishedForgets, srvVars
  <1>4. ResolverInUse'
    BY DEF Inv, Control, ResolverInUse, srvVars
  <1>5. QuestionsInTime'
    BY <1>1 DEF Inv, Control, QuestionsInTime
  <1> QED
    BY <1>2, <1>3, <1>4, <1>5 DEF Control

\* What the parser read belongs to an established stream, or is ignored.
LEMMA CurrentIsEstablished ==
    ASSUME Inv, parsed # <<>>, FromCurrentParser
    PROVE  Established
  <1>1. parsed \in Seq([parser : Nat \X Nat, elem : ElemSet])
    BY DEF Inv, TypeOK, WaitingTypes
  <1>2. Head(parsed) = parsed[1] /\ 1 \in DOMAIN parsed
    BY <1>1
  <1>3. parser # NoParser
    BY <1>2 DEF Inv, Control, NoStrayElements, FromCurrentParser
  <1> QED
    BY <1>3 DEF Inv, TypeOK, NothingKept

-----------------------------------------------------------------------------
(* Connecting and disconnecting.                                              *)

LEMMA TryNextSrvResultTypes ==
    ASSUME TypeOK, NEW first \in Nat, NEW count \in Nat, TryNextSrvResult(first, count)
    PROVE  /\ srvResultsIndex' \in Nat /\ ServerTypes'
           /\ socket' \in {"idle", "connecting", "open"}
           /\ state' \in {"CONNECTING", "DISCONNECTED"}
           /\ heard' \subseteq heard \cup {"didDisconnect"}
  <1>1. CASE \E i \in first..count : /\ srvResultsIndex' = i
                                    /\ state' = "CONNECTING" /\ BeginsConnection
                                    /\ UNCHANGED heard
    BY <1>1, BeginsConnectionTypes DEF TypeOK
  <1>2. CASE /\ srvResultsIndex' = count
             /\ state' = "DISCONNECTED" /\ heard' = heard \cup {"didDisconnect"}
             /\ UNCHANGED <<serverVars, socket>>
    BY <1>2, Frames DEF TypeOK, SocketTypes
  <1> QED
    BY <1>1, <1>2 DEF TryNextSrvResult

LEMMA ConnectWithTimeoutInv == ASSUME Inv, ConnectWithTimeout PROVE Inv'
  <1> USE BoundsAssumption
  <1>1. /\ LoginTypes' /\ TrafficTypes'
        /\ UNCHANGED <<parsed, questions, parser>> /\ parsed' = parsed
    BY Frames DEF ConnectWithTimeout, Inv
  <1>2. WaitingTypes'
    BY DEF ConnectWithTimeout, Inv, TypeOK, WaitingTypes
  <1>3. NegTypes'
    BY ConfigAssumption DEF ConnectWithTimeout, Inv, TypeOK, NegTypes
  <1>4. attempt' \in 1..MaxAttempts /\ AttemptTypes'
    <2>1. attempt' \in 1..MaxAttempts /\ attempt' \in 0..MaxAttempts
      BY DEF BoundsAssumption, ConnectWithTimeout, Inv, TypeOK, AttemptTypes
    <2>2. timer' \in {timer, attempt'} /\ told' = FALSE
      BY DEF ConnectWithTimeout
    <2> QED
      BY <2>1, <2>2 DEF Inv, TypeOK, AttemptTypes
  <1>5. CASE /\ state' = "RESOLVING_SRV"
             /\ srvResolver' = attempt' /\ resolvers' = resolvers \cup {attempt'}
             /\ srvResults' = 0 /\ srvResultsIndex' = 0
             /\ UNCHANGED <<serverVars, socket>>
    <2>1. SrvTypes' /\ ServerTypes' /\ state' \in States
      BY <1>4, <1>5, Frames DEF Inv, TypeOK, SrvTypes, States
    <2>2. SocketTypes'
      BY <1>5 DEF ConnectWithTimeout, Inv, TypeOK, SocketTypes
    <2>3. ~Established'
      BY <1>5 DEF Established
    <2>4. NothingKept' /\ EstablishedForgets' /\ NoStrayElements' /\ ResolverInUse'
      BY <1>5, <2>3 DEF ConnectWithTimeout, Inv, TypeOK, Control, NothingKept, EstablishedForgets,
                        NoStrayElements, ResolverInUse, Established, loginVars
    <2>5. QuestionsInTime'
      BY <1>1 DEF ConnectWithTimeout, Inv, Control, QuestionsInTime, Established
    <2> QED
      BY <1>1, <1>2, <1>3, <1>4, <2>1, <2>2, <2>4, <2>5 DEF Inv, TypeOK, Control
  <1>6. CASE /\ state' = "CONNECTING" /\ BeginsConnection
             /\ UNCHANGED srvVars
    <2>1. SrvTypes' /\ ServerTypes' /\ state' \in States
      BY <1>6, Frames, BeginsConnectionTypes DEF Inv, TypeOK, States
    <2>2. SocketTypes'
      BY <1>6, BeginsConnectionTypes DEF ConnectWithTimeout, Inv, TypeOK, SocketTypes
    <2>3. ~Established'
      BY <1>6 DEF Established
    <2>4. NothingKept' /\ EstablishedForgets' /\ NoStrayElements' /\ ResolverInUse'
      BY <1>6, <2>3 DEF ConnectWithTimeout, Inv, TypeOK, Control, NothingKept, EstablishedForgets,
                        NoStrayElements, ResolverInUse, Established, loginVars, srvVars
    <2>5. QuestionsInTime'
      BY <1>1 DEF ConnectWithTimeout, Inv, Control, QuestionsInTime, Established
    <2> QED
      BY <1>1, <1>2, <1>3, <1>4, <2>1, <2>2, <2>4, <2>5 DEF Inv, TypeOK, Control
  <1> QED
    BY <1>5, <1>6 DEF ConnectWithTimeout

LEMMA DidResolveInv == ASSUME Inv, DidResolve PROVE Inv'
  <1> USE BoundsAssumption
  <1>1. PICK n \in resolvers :
           /\ resolvers' = resolvers \ {n}
           /\ \/ /\ n # srvResolver
                 /\ UNCHANGED <<state, srvResults, srvResultsIndex, serverVars, socket, timer, heard>>
              \/ /\ n = srvResolver
                 /\ \E count \in SrvCounts : srvResults' = count /\ TryNextSrvResult(0, count)
                 /\ timer' = IF state' = "DISCONNECTED" THEN 0 ELSE timer
           /\ UNCHANGED <<srvResolver, negVars, loginVars, draining, callbacks, wire, trafficVars,
                          attempt, told, parsed, questions>>
    BY DEF DidResolve
  <1>2. NegTypes' /\ LoginTypes' /\ TrafficTypes'
    BY <1>1, Frames DEF Inv
  <1>3. CASE n # srvResolver
    <2>1. UNCHANGED <<state, srvResults, srvResultsIndex, serverVars, socket, timer, heard>>
      BY <1>1, <1>3
    <2>2. SrvTypes' /\ ServerTypes' /\ AttemptTypes' /\ WaitingTypes' /\ SocketTypes'
      BY <1>1, <2>1, Frames DEF Inv, TypeOK, SrvTypes, AttemptTypes, WaitingTypes, SocketTypes
    <2>3. NothingKept' /\ EstablishedForgets' /\ NoStrayElements' /\ ResolverInUse'
      BY <1>1, <2>1 DEF Inv, TypeOK, Control, NothingKept, EstablishedForgets,
                        NoStrayElements, ResolverInUse, Established, loginVars, negVars
    <2>4. QuestionsInTime'
      BY <1>1, <2>1 DEF Inv, Control, QuestionsInTime, Established
    <2> QED
      BY <1>2, <2>1, <2>2, <2>3, <2>4 DEF Inv, TypeOK, Control
  <1>4. CASE n = srvResolver
    <2>1. PICK count \in SrvCounts : srvResults' = count /\ TryNextSrvResult(0, count)
      BY <1>1, <1>4
    <2>2. timer' \in {timer, 0}
      BY <1>1, <1>4
    <2>3. /\ srvResultsIndex' \in Nat /\ ServerTypes'
          /\ socket' \in {"idle", "connecting", "open"}
          /\ state' \in {"CONNECTING", "DISCONNECTED"}
          /\ heard' \subseteq heard \cup {"didDisconnect"}
      BY <2>1, TryNextSrvResultTypes DEF Inv
    <2>4. state = "RESOLVING_SRV"
      BY <1>1, <1>4 DEF Inv, Control, ResolverInUse
    <2>5. SrvTypes' /\ AttemptTypes' /\ WaitingTypes' /\ SocketTypes' /\ state' \in States
      BY <1>1, <2>1, <2>2, <2>3
         DEF Inv, TypeOK, SrvTypes, AttemptTypes, WaitingTypes, SocketTypes, States
    <2>6. NothingKept' /\ EstablishedForgets' /\ NoStrayElements' /\ ResolverInUse'
      BY <1>1, <1>4, <2>3, <2>4 DEF Inv, TypeOK, Control, NothingKept, EstablishedForgets,
                        NoStrayElements, ResolverInUse, Established, loginVars, negVars
    <2>7. QuestionsInTime'
      BY <1>1, <2>4 DEF Inv, Control, QuestionsInTime, Established
    <2> QED
      BY <1>2, <2>3, <2>5, <2>6, <2>7 DEF Inv, TypeOK, Control
  <1> QED
    BY <1>3, <1>4

\* Disconnect, abort and timeout: an SRV resolution stops, or the socket closes.
LEMMA StopInv ==
    ASSUME Inv, StopsConnecting \/ LeavesToSocket,
           UNCHANGED <<srvResults, srvResultsIndex, resolvers, negVars, loginVars, serverVars,
                       attempt, parsed, questions>>,
           timer' \in {timer, 0}, told' \in BOOLEAN,
           heard' \subseteq heard \cup {"didDisconnect", "connectDidTimeout"}
    PROVE  Inv'
  <1>1. NegTypes' /\ LoginTypes' /\ ServerTypes' /\ AttemptTypes'
    <2>1. 0 \in 0..MaxAttempts
      BY BoundsAssumption DEF BoundsAssumption
    <2>2. AttemptTypes'
      BY <2>1 DEF Inv, TypeOK, AttemptTypes
    <2> QED
      BY <2>2, Frames DEF Inv
  <1>2. WaitingTypes'
    BY DEF Inv, TypeOK, WaitingTypes
  <1>3. SocketTypes' /\ TrafficTypes'
    BY Frames, ClosesSocketTypes DEF Inv, TypeOK, StopsConnecting, LeavesToSocket
  <1>4. /\ srvResolver' \in {srvResolver, 0}
        /\ state' \in {state, "DISCONNECTED"}
    BY DEF StopsConnecting, LeavesToSocket
  <1>5. SrvTypes' /\ state' \in States
    <2>1. state' \in States
      BY <1>4 DEF Inv, TypeOK, States
    <2>2. 0 \in 0..MaxAttempts
      BY BoundsAssumption DEF BoundsAssumption
    <2> QED
      BY <1>4, <2>1, <2>2 DEF Inv, TypeOK, SrvTypes
  <1>6. CASE StopsConnecting
    <2>1. state = "RESOLVING_SRV" /\ state' = "DISCONNECTED" /\ srvResolver' = 0
      BY <1>6 DEF StopsConnecting
    <2>2. NothingKept' /\ EstablishedForgets' /\ NoStrayElements'
      BY <2>1 DEF Inv, TypeOK, Control, NothingKept, EstablishedForgets, NoStrayElements,
                  Established, loginVars, negVars
    <2>3. ResolverInUse'
      BY <2>1 DEF Inv, TypeOK, SrvTypes, ResolverInUse
    <2>4. QuestionsInTime'
      BY <2>1 DEF Inv, Control, QuestionsInTime, Established
    <2> QED
      BY <1>1, <1>2, <1>3, <1>5, <2>2, <2>3, <2>4 DEF Inv, TypeOK, Control
  <1>7. CASE LeavesToSocket
    <2>1. UNCHANGED <<state, srvResolver>>
      BY <1>7 DEF LeavesToSocket
    <2>2. NoStrayElements'
      BY DEF Inv, Control, NoStrayElements
    <2>3. NothingKept' /\ Control'
      BY <2>1, <2>2, SameStateControl DEF srvVars, negVars, loginVars
    <2> QED
      BY <1>1, <1>2, <1>3, <1>5, <2>3 DEF Inv, TypeOK
  <1> QED
    BY <1>6, <1>7

LEMMA DoConnectTimeoutInv == ASSUME Inv, DoConnectTimeout PROVE Inv'
  <1>1. timer' = 0 /\ told' = told /\ told \in BOOLEAN
    BY DEF DoConnectTimeout, EndConnectTimeout, Inv, TypeOK, AttemptTypes
  <1>2. CASE StopsConnecting \/ LeavesToSocket
    <2>1. heard' \subseteq heard \cup {"didDisconnect", "connectDidTimeout"}
      BY <1>2 DEF DoConnectTimeout
    <2> QED
      BY <1>1, <1>2, <2>1, StopInv DEF DoConnectTimeout
  <1>3. CASE UNCHANGED <<state, srvResolver, socketVars, trafficVars, heard>>
    <2>1. UNCHANGED <<srvVars, negVars, loginVars, serverVars, parsed, questions, attempt>>
      BY <1>3 DEF DoConnectTimeout, srvVars
    <2>2. NothingKept' /\ Control'
      BY <1>1, <1>3, <2>1, SameStateControl
         DEF negVars, loginVars, Inv, Control, NoStrayElements
    <2>3. SrvTypes' /\ state' \in States
      BY <1>3, <2>1, Frames DEF Inv, TypeOK
    <2>4. 0 \in 0..MaxAttempts
      BY BoundsAssumption DEF BoundsAssumption
    <2>5. AttemptTypes'
      BY <1>1, <1>3, <2>1, <2>4 DEF Inv, TypeOK, AttemptTypes
    <2> QED
      BY <1>1, <1>3, <2>1, <2>2, <2>3, <2>5, Frames DEF Inv, TypeOK, WaitingTypes
  <1> QED
    BY <1>2, <1>3 DEF DoConnectTimeout

LEMMA AbortConnectingInv == ASSUME Inv, AbortConnecting PROVE Inv'
  <1>1. timer' = 0 /\ heard' = heard
    BY DEF AbortConnecting, EndConnectTimeout
  <1>2. CASE (StopsConnecting \/ LeavesToSocket) /\ told' = TRUE
    BY <1>1, <1>2, StopInv DEF AbortConnecting
  <1>3. CASE UNCHANGED <<state, srvResolver, socketVars, trafficVars, told>>
    <2>1. UNCHANGED <<srvVars, negVars, loginVars, serverVars, parsed, questions, attempt>>
      BY <1>3 DEF AbortConnecting, srvVars
    <2>2. NothingKept' /\ Control'
      BY <1>1, <1>3, <2>1, SameStateControl
         DEF negVars, loginVars, Inv, Control, NoStrayElements
    <2>3. SrvTypes' /\ state' \in States
      BY <1>3, <2>1, Frames DEF Inv, TypeOK
    <2>4. 0 \in 0..MaxAttempts
      BY BoundsAssumption DEF BoundsAssumption
    <2>5. AttemptTypes'
      BY <1>1, <1>3, <2>1, <2>4 DEF Inv, TypeOK, AttemptTypes
    <2> QED
      BY <1>1, <1>3, <2>1, <2>2, <2>3, <2>5, Frames DEF Inv, TypeOK, WaitingTypes
  <1> QED
    BY <1>2, <1>3 DEF AbortConnecting

LEMMA DisconnectInv == ASSUME Inv, Disconnect PROVE Inv'
  <1>1. told' \in BOOLEAN /\ heard' \subseteq heard \cup {"didDisconnect", "connectDidTimeout"}
    BY DEF Disconnect
  <1> QED
    BY <1>1, StopInv DEF Disconnect

LEMMA DisconnectAfterSendingInv == ASSUME Inv, DisconnectAfterSending PROVE Inv'
  <1>1. SocketTypes' /\ AttemptTypes' /\ state' \in States
    BY DEF DisconnectAfterSending, Inv, TypeOK, SocketTypes, AttemptTypes
  <1>2. NothingKept' /\ Control'
    BY SameStateControl
       DEF DisconnectAfterSending, negVars, loginVars, Inv, Control, NoStrayElements
  <1> QED
    BY <1>1, <1>2, Frames DEF DisconnectAfterSending, Inv, TypeOK

-----------------------------------------------------------------------------
(* Callbacks of the socket.                                                   *)

LEMMA StartTLSTypes ==
    ASSUME TypeOK, StartTLS
    PROVE  /\ NegTypes' /\ TrafficTypes' /\ state' \in {"OPENING", "STARTTLS_2"}
           /\ questions' \subseteq [kind : {"settings", "willBind", "resource"}, conn : Nat]
  <1>1. CASE ContinueStartTLS /\ UNCHANGED questions
    BY <1>1, ContinueStartTLSTypes DEF TypeOK, WaitingTypes
  <1>2. CASE /\ state' = "STARTTLS_2"
             /\ questions' = questions \cup {[kind |-> "settings", conn |-> conn]}
             /\ UNCHANGED <<negVars, trafficVars>>
    BY <1>2, Frames DEF TypeOK, WaitingTypes, ServerTypes
  <1> QED
    BY <1>1, <1>2 DEF StartTLS

LEMMA CallbackTaken ==
    ASSUME Inv, callbacks # <<>>, callbacks' = Tail(callbacks)
    PROVE  callbacks' \in Seq(CallbackSet) /\ Head(callbacks) \in CallbackSet
  BY TailType DEF Inv, TypeOK, SocketTypes

LEMMA DidConnectToHostInv == ASSUME Inv, DidConnectToHost PROVE Inv'
  <1>1. SocketTypes'
    BY CallbackTaken DEF DidConnectToHost, Inv, TypeOK, SocketTypes
  <1>2. timer' = 0 /\ srvResolver' = 0 /\ srvResults' = 0
    BY DEF DidConnectToHost, EndConnectTimeout, ForgetsHosts
  <1>3. 0 \in 0..MaxAttempts
    BY BoundsAssumption DEF BoundsAssumption
  <1>4. SrvTypes' /\ AttemptTypes'
    BY <1>2, <1>3 DEF DidConnectToHost, Inv, TypeOK, SrvTypes, AttemptTypes
  <1>5. LoginTypes' /\ ServerTypes'
    BY Frames DEF DidConnectToHost, Inv
  <1>6. /\ NegTypes' /\ TrafficTypes' /\ state' \in {"OPENING", "STARTTLS_2"}
        /\ questions' \subseteq [kind : {"settings", "willBind", "resource"}, conn : Nat]
    <2>1. CASE isSecure /\ StartTLS
      BY <2>1, StartTLSTypes DEF Inv
    <2>2. CASE /\ ~isSecure /\ SendOpeningNegotiation /\ QueuesRead
               /\ UNCHANGED <<isSecure, questions>>
      BY <2>2, SendOpeningNegotiationTypes, QueuesReadType
         DEF Inv, TypeOK, NegTypes, TrafficTypes, WaitingTypes
    <2> QED
      BY <2>1, <2>2 DEF DidConnectToHost
  <1>7. WaitingTypes' /\ state' \in States
    BY <1>6 DEF DidConnectToHost, Inv, TypeOK, WaitingTypes, States
  <1>8. NothingKept' /\ EstablishedForgets' /\ QuestionsInTime'
    BY <1>2, <1>6 DEF NothingKept, EstablishedForgets, QuestionsInTime, Established
  <1>9. NoStrayElements' /\ ResolverInUse'
    BY <1>2 DEF DidConnectToHost, Inv, TypeOK, SrvTypes, Control, NoStrayElements, ResolverInUse
  <1> QED
    BY <1>1, <1>4, <1>5, <1>6, <1>7, <1>8, <1>9 DEF Inv, TypeOK, Control

LEMMA DidReadDataInv == ASSUME Inv, DidReadData PROVE Inv'
  <1>1. SocketTypes' /\ Head(callbacks) \in CallbackSet
    BY CallbackTaken DEF DidReadData, Inv, TypeOK, SocketTypes
  <1>2. /\ SrvTypes' /\ NegTypes' /\ LoginTypes' /\ ServerTypes' /\ AttemptTypes'
        /\ state' \in States
    BY Frames DEF DidReadData, Inv, TypeOK
  <1>3. TrafficTypes'
    BY QueuesReadType DEF DidReadData, Inv, TypeOK, TrafficTypes
  <1> DEFINE data == Head(callbacks).data
             Entries == [parser : Nat \X Nat, elem : ElemSet]
             Read(e) == [parser |-> parser, elem |-> e]
             new == [i \in 1..Len(data) |-> Read(data[i])]
  <1>4. parsed' = IF parser = NoParser THEN parsed ELSE parsed \o new \o <<Read(ChunkEnd)>>
    BY DEF DidReadData
  <1>5. data \in Seq(ElemSet)
    BY <1>1 DEF CallbackSet
  <1>6. \A e \in ElemSet : Read(e) \in Entries
    BY DEF Inv, TypeOK, NegTypes
  <1>7. new \in Seq(Entries) /\ <<Read(ChunkEnd)>> \in Seq(Entries)
    <2>1. new \in Seq(Entries)
      <3> HIDE DEF Entries, Read
      <3>1. \A i \in 1..Len(data) : Read(data[i]) \in Entries
        BY <1>5, <1>6
      <3> QED
        BY <1>5, <3>1
    <2>2. Read(ChunkEnd) \in Entries
      BY <1>6, ElementTypes
    <2> QED
      BY <2>1, <2>2
  <1>8. parsed \in Seq(Entries)
    BY DEF Inv, TypeOK, WaitingTypes
  <1>9. parsed' \in Seq(Entries)
    <2> HIDE DEF Entries, new, Read
    <2> QED
      BY <1>4, <1>7, <1>8, ConcatType
  <1>10. WaitingTypes'
    BY <1>9 DEF DidReadData, Inv, TypeOK, WaitingTypes
  <1>11. NoStrayElements'
    <2>1. CASE parser = NoParser
      BY <1>4, <2>1 DEF Inv, Control, NoStrayElements, NoParser
    <2>2. CASE parser # NoParser
      <3>1. \A i \in DOMAIN new : new[i].parser = parser
        OBVIOUS
      <3>2. Read(ChunkEnd).parser = parser
        OBVIOUS
      <3>3. \A i \in DOMAIN parsed : parsed[i].parser # NoParser
        BY DEF Inv, Control, NoStrayElements
      <3> HIDE DEF Entries, new, Read
      <3>4. \A i \in DOMAIN parsed' : \/ i \in DOMAIN parsed /\ parsed'[i] = parsed[i]
                                      \/ \E j \in DOMAIN new : parsed'[i] = new[j]
                                      \/ parsed'[i] = Read(ChunkEnd)
        BY <1>4, <1>7, <1>8, <2>2
      <3> QED
        BY <2>2, <3>1, <3>2, <3>3, <3>4 DEF NoStrayElements, NoParser
    <2> QED
      BY <2>1, <2>2
  <1>12. NothingKept' /\ Control'
    BY <1>11, SameStateControl DEF DidReadData, negVars, loginVars, attemptVars
  <1> QED
    BY <1>1, <1>2, <1>3, <1>10, <1>12 DEF Inv, TypeOK

LEMMA ReleasesTypes ==
    ASSUME Releases
    PROVE  /\ NegTypes'
           /\ UNCHANGED customBinding /\ TypeOK => LoginTypes'
           /\ ~Established' => NothingKept'
  <1>1. NegTypes'
    BY DEF Releases, NegTypes, NoParser
  <1>2. UNCHANGED customBinding /\ TypeOK => LoginTypes'
    BY ElementTypes DEF Releases, TypeOK, LoginTypes
  <1>3. ~Established' => NothingKept'
    BY DEF Releases, NothingKept, NoParser, NoFeatures
  <1> QED
    BY <1>1, <1>2, <1>3

LEMMA SocketDidDisconnectInv == ASSUME Inv, SocketDidDisconnect PROVE Inv'
  <1>1. callbacks' \in Seq(CallbackSet)
    BY CallbackTaken DEF SocketDidDisconnect
  <1>2. TrafficTypes' /\ UNCHANGED <<parsed, questions>>
    BY Frames DEF SocketDidDisconnect, Inv
  <1>3. timer' = 0 /\ 0 \in 0..MaxAttempts
    BY BoundsAssumption DEF SocketDidDisconnect, EndConnectTimeout, BoundsAssumption
  <1>4. AttemptTypes'
    BY <1>3 DEF SocketDidDisconnect, Inv, TypeOK, AttemptTypes
  <1>5. NoStrayElements'
    BY <1>2 DEF Inv, Control, NoStrayElements
  <1>6. QuestionsInTime'
    BY <1>2 DEF SocketDidDisconnect, InTime, QuestionsInTime
  <1>7. CASE /\ srvResultsIndex + 1 < srvResults
             /\ TryNextSrvResult(srvResultsIndex + 1, srvResults)
             /\ UNCHANGED <<srvResolver, srvResults, negVars, loginVars>>
    <2>1. ~Established
      BY <1>7 DEF Inv, TypeOK, SrvTypes, Control, EstablishedForgets
    <2>2. srvResultsIndex + 1 \in Nat /\ srvResults \in Nat
      BY DEF Inv, TypeOK, SrvTypes
    <2>3. /\ srvResultsIndex' \in Nat /\ ServerTypes'
          /\ socket' \in {"idle", "connecting", "open"}
          /\ state' \in {"CONNECTING", "DISCONNECTED"}
          /\ heard' \subseteq heard \cup {"didDisconnect"}
      BY <1>7, <2>2, TryNextSrvResultTypes DEF Inv
    <2>4. NegTypes' /\ LoginTypes'
      BY <1>7, Frames DEF Inv
    <2>5. SrvTypes' /\ WaitingTypes' /\ SocketTypes' /\ state' \in States
      BY <1>1, <1>2, <1>7, <2>3
         DEF SocketDidDisconnect, Inv, TypeOK, SrvTypes, WaitingTypes, SocketTypes, States
    <2>6. NothingKept' /\ EstablishedForgets'
      BY <1>7, <2>1, <2>3 DEF Inv, TypeOK, NothingKept, EstablishedForgets, Established, negVars,
                              loginVars
    <2>7. ResolverInUse'
      <3>1. state # "RESOLVING_SRV"
        BY <1>7 DEF Inv, TypeOK, SrvTypes, Control, ResolverInUse
      <3> QED
        BY <1>7, <2>3, <3>1 DEF SocketDidDisconnect, Inv, Control, ResolverInUse
    <2> QED
      BY <1>2, <1>4, <1>5, <1>6, <2>3, <2>4, <2>5, <2>6, <2>7 DEF Inv, TypeOK, Control
  <1>8. CASE /\ ~(srvResultsIndex + 1 < srvResults)
             /\ srvResultsIndex' = IF srvResults = 0 THEN srvResultsIndex ELSE srvResultsIndex + 1
             /\ state' = "DISCONNECTED" /\ heard' = heard \cup {"didDisconnect"}
             /\ ForgetsHosts /\ Releases
             /\ UNCHANGED <<customBinding, socket, serverVars>>
    <2>1. srvResolver' = 0 /\ srvResults' = 0 /\ ~Established'
      BY <1>8 DEF ForgetsHosts, Established
    <2>2. NegTypes' /\ LoginTypes' /\ ServerTypes' /\ NothingKept'
      BY <1>8, <2>1, ReleasesTypes, Frames DEF Inv
    <2>3. SrvTypes'
      BY <1>3, <1>8, <2>1 DEF SocketDidDisconnect, Inv, TypeOK, SrvTypes
    <2>4. WaitingTypes' /\ SocketTypes' /\ state' \in States
      BY <1>1, <1>2, <1>8
         DEF SocketDidDisconnect, Inv, TypeOK, WaitingTypes, SocketTypes, States
    <2>5. EstablishedForgets' /\ ResolverInUse'
      BY <2>1, <2>3 DEF EstablishedForgets, ResolverInUse, SrvTypes
    <2> QED
      BY <1>2, <1>4, <1>5, <1>6, <2>2, <2>3, <2>4, <2>5 DEF Inv, TypeOK, Control
  <1> QED
    BY <1>7, <1>8 DEF SocketDidDisconnect

-----------------------------------------------------------------------------
(* What the parser read.                                                      *)

Entries == [parser : Nat \X Nat, elem : ElemSet]

LEMMA ParsedTaken ==
    ASSUME Inv, TakesParsed
    PROVE  /\ SrvTypes' /\ ServerTypes' /\ AttemptTypes'
           /\ parsed' \in Seq(Entries) /\ NoStrayElements'
           /\ elem \in ElemSet
  <1>1. parsed \in Seq(Entries)
    BY DEF Inv, TypeOK, WaitingTypes, Entries
  <1>2. parsed' \in Seq(Entries) /\ Head(parsed) \in Entries
    BY <1>1, TailType DEF TakesParsed
  <1>3. NoStrayElements'
    BY TailNotStray DEF TakesParsed, Inv, Control
  <1>4. SrvTypes' /\ ServerTypes' /\ AttemptTypes'
    BY Frames DEF TakesParsed, Inv
  <1> QED
    BY <1>2, <1>3, <1>4 DEF Entries, elem

\* Everything an action that takes an element of the current parser leaves to show.
LEMMA ElementTaken ==
    ASSUME Inv, TakesParsed, FromCurrentParser, state' \in States, Established',
           NegTypes', LoginTypes', SocketTypes', TrafficTypes',
           questions' \subseteq [kind : {"settings", "willBind", "resource"}, conn : Nat],
           heard' \subseteq heard \cup {"didConnect", "didAuthenticate", "didNotAuthenticate"}
    PROVE  Inv'
  <1>1. Established
    BY CurrentIsEstablished DEF TakesParsed
  <1>2. NothingKept' /\ Control'
    BY <1>1, ParsedTaken, EstablishedControl DEF TakesParsed
  <1>3. WaitingTypes'
    BY ParsedTaken DEF Inv, TypeOK, WaitingTypes, Entries
  <1> QED
    BY <1>2, <1>3, ParsedTaken DEF Inv, TypeOK

LEMMA QuestionTypes ==
    ASSUME TypeOK, UNCHANGED questions
    PROVE  questions' \subseteq [kind : {"settings", "willBind", "resource"}, conn : Nat]
  BY DEF TypeOK, WaitingTypes

LEMMA IgnoreOldParserInv == ASSUME Inv, IgnoreOldParser PROVE Inv'
  <1>1. /\ NegTypes' /\ LoginTypes' /\ SocketTypes' /\ TrafficTypes' /\ state' \in States
    BY Frames DEF IgnoreOldParser, Inv, TypeOK
  <1>2. WaitingTypes'
    BY ParsedTaken DEF IgnoreOldParser, Inv, TypeOK, WaitingTypes, Entries
  <1>3. NothingKept' /\ Control'
    BY ParsedTaken, SameStateControl
       DEF IgnoreOldParser, TakesParsed, negVars, loginVars, attemptVars
  <1> QED
    BY <1>1, <1>2, <1>3, ParsedTaken DEF IgnoreOldParser, Inv, TypeOK

LEMMA IgnoreElementInv == ASSUME Inv, IgnoreElement PROVE Inv'
  <1>1. /\ NegTypes' /\ LoginTypes' /\ SocketTypes' /\ TrafficTypes' /\ state' \in States
    BY Frames DEF IgnoreElement, Inv, TypeOK
  <1>2. WaitingTypes'
    BY ParsedTaken DEF IgnoreElement, TakesElement, Inv, TypeOK, WaitingTypes, Entries
  <1>3. NothingKept' /\ Control'
    BY ParsedTaken, SameStateControl
       DEF IgnoreElement, TakesElement, TakesParsed, negVars, loginVars, attemptVars
  <1> QED
    BY <1>1, <1>2, <1>3, ParsedTaken DEF IgnoreElement, TakesElement, Inv, TypeOK

LEMMA DidReadRootInv == ASSUME Inv, DidReadRoot PROVE Inv'
  <1>1. Request("query", "none") \in RequestSet
    BY DEF Request, RequestSet
  <1>2. TrafficTypes'
    BY <1>1, WritesType DEF DidReadRoot, Inv, TypeOK, TrafficTypes
  <1>3. NegTypes' /\ SocketTypes'
    BY Frames DEF DidReadRoot, Inv
  <1>4. LoginTypes'
    BY ElementTypes DEF DidReadRoot, Inv, TypeOK, LoginTypes
  <1>5. state' \in States /\ Established'
    BY DEF DidReadRoot, States, Established
  <1>6. /\ questions' \subseteq [kind : {"settings", "willBind", "resource"}, conn : Nat]
        /\ heard' = heard
    BY QuestionTypes DEF DidReadRoot, Inv
  <1> QED
    BY <1>2, <1>3, <1>4, <1>5, <1>6, ElementTaken DEF DidReadRoot

LEMMA DidParseDataInv == ASSUME Inv, DidParseData PROVE Inv'
  <1>1. TrafficTypes'
    BY QueuesReadType DEF DidParseData, Inv, TypeOK, TrafficTypes
  <1>2. NegTypes' /\ LoginTypes' /\ SocketTypes' /\ state' \in States
    BY Frames DEF DidParseData, Inv, TypeOK
  <1>3. Established'
    BY CurrentIsEstablished DEF DidParseData, TakesParsed, Established
  <1>4. /\ questions' \subseteq [kind : {"settings", "willBind", "resource"}, conn : Nat]
        /\ heard' = heard
    BY QuestionTypes DEF DidParseData, Inv
  <1> QED
    BY <1>1, <1>2, <1>3, <1>4, ElementTaken DEF DidParseData

LEMMA ParserDidEndInv == ASSUME Inv, ParserDidEnd PROVE Inv'
  <1>1. TrafficTypes' /\ SocketTypes'
    BY ClosesSocketTypes DEF ParserDidEnd, Inv, TypeOK
  <1>2. NegTypes' /\ LoginTypes' /\ state' \in States
    BY Frames DEF ParserDidEnd, Inv, TypeOK
  <1>3. Established'
    BY CurrentIsEstablished DEF ParserDidEnd, TakesParsed, Established
  <1>4. /\ questions' \subseteq [kind : {"settings", "willBind", "resource"}, conn : Nat]
        /\ heard' = heard
    BY QuestionTypes DEF ParserDidEnd, Inv
  <1> QED
    BY <1>1, <1>2, <1>3, <1>4, ElementTaken DEF ParserDidEnd

LEMMA HandleStartTLSResponseInv == ASSUME Inv, HandleStartTLSResponse PROVE Inv'
  <1>1. LoginTypes' /\ heard' = heard
    BY Frames DEF HandleStartTLSResponse, Inv
  <1>2. CASE StartTLS /\ UNCHANGED socketVars
    BY <1>1, <1>2, StartTLSTypes, Frames, ElementTaken
       DEF HandleStartTLSResponse, TakesElement, Inv, States, Established
  <1>3. CASE ClosesSocket /\ UNCHANGED <<state, negVars, questions>>
    <2>1. Established' /\ state' \in States
      BY <1>3, CurrentIsEstablished
         DEF HandleStartTLSResponse, TakesElement, TakesParsed, Established, Inv, TypeOK
    <2>2. SocketTypes' /\ TrafficTypes' /\ NegTypes'
      BY <1>3, Frames, ClosesSocketTypes DEF Inv, TypeOK
    <2> QED
      BY <1>1, <1>3, <2>1, <2>2, QuestionTypes, ElementTaken
         DEF HandleStartTLSResponse, TakesElement, Inv
  <1> QED
    BY <1>2, <1>3 DEF HandleStartTLSResponse

LEMMA HandleRegistrationInv == ASSUME Inv, HandleRegistration PROVE Inv'
  <1>1. NegTypes' /\ LoginTypes' /\ SocketTypes' /\ TrafficTypes' /\ heard' = heard
    BY Frames DEF HandleRegistration, Inv
  <1>2. Established' /\ state' \in States
    BY DEF HandleRegistration, Established, States
  <1> QED
    BY <1>1, <1>2, QuestionTypes, ElementTaken DEF HandleRegistration, TakesElement, Inv

LEMMA HandleAuthInv == ASSUME Inv, HandleAuth PROVE Inv'
  <1>1. SocketTypes' /\ questions' = questions /\ isSecure' = isSecure
    BY Frames DEF HandleAuth, Inv
  <1>2. Request("auth", "none") \in RequestSet
    BY DEF Request, RequestSet
  <1>3. CASE /\ isAuthenticated' = TRUE /\ auth' = "none"
             /\ SendOpeningNegotiation
             /\ IF ReadsAfterAuth THEN QueuesRead ELSE UNCHANGED reads
             /\ UNCHANGED heard
    <2>1. NegTypes' /\ TrafficTypes' /\ state' = "OPENING"
      BY <1>1, <1>3, SendOpeningNegotiationTypes, QueuesReadType
         DEF Inv, TypeOK, NegTypes, TrafficTypes
    <2>2. LoginTypes'
      BY <1>3 DEF HandleAuth, Inv, TypeOK, LoginTypes
    <2> QED
      BY <1>1, <1>3, <2>1, <2>2, QuestionTypes, ElementTaken
         DEF HandleAuth, TakesElement, Inv, States, Established
  <1>4. CASE /\ isAuthenticated' \in {TRUE, isAuthenticated} /\ auth' = "none"
             /\ state' = "CONNECTED"
             /\ heard' \subseteq heard \cup {"didAuthenticate", "didNotAuthenticate"}
             /\ UNCHANGED <<parser, trafficVars>>
    <2>1. NegTypes' /\ TrafficTypes'
      BY <1>1, <1>4, Frames DEF Inv, TypeOK, NegTypes
    <2>2. LoginTypes'
      BY <1>4 DEF HandleAuth, Inv, TypeOK, LoginTypes
    <2> QED
      BY <1>1, <1>4, <2>1, <2>2, QuestionTypes, ElementTaken
         DEF HandleAuth, TakesElement, Inv, States, Established
  <1>5. CASE /\ Writes(Request("auth", "none"))
             /\ UNCHANGED <<state, parser, isAuthenticated, auth, reads, heard>>
    <2>1. NegTypes' /\ TrafficTypes'
      BY <1>1, <1>2, <1>5, WritesType DEF Inv, TypeOK, NegTypes, TrafficTypes
    <2>2. LoginTypes'
      BY <1>5 DEF HandleAuth, Inv, TypeOK, LoginTypes
    <2>3. Established' /\ state' \in States
      BY <1>5 DEF HandleAuth, TakesElement, Established, States
    <2> QED
      BY <1>1, <1>5, <2>1, <2>2, <2>3, QuestionTypes, ElementTaken
         DEF HandleAuth, TakesElement, Inv
  <1> QED
    BY <1>3, <1>4, <1>5 DEF HandleAuth

-----------------------------------------------------------------------------
(* Binding.                                                                   *)

Announces == heard' \subseteq heard \cup {"didConnect", "didAuthenticate", "didNotAuthenticate"}

LEMMA ContinuePostBindingTypes ==
    ASSUME TypeOK, NEW known \in SUBSET {"bind", "session"}, ContinuePostBinding(known)
    PROVE  /\ requests' \in Seq(RequestSet) /\ tracked' \subseteq {"bind", "session"}
           /\ state' \in {"START_SESSION", "CONNECTED"} /\ Announces
  <1>1. CASE state' = "START_SESSION" /\ SendsIQ("session", "session", known) /\ UNCHANGED heard
    BY <1>1, SendsIQTypes DEF TypeOK, Announces
  <1>2. CASE /\ state' = "CONNECTED" /\ heard' = heard \cup {"didAuthenticate"}
             /\ tracked' = known /\ UNCHANGED requests
    BY <1>2 DEF TypeOK, TrafficTypes, Announces
  <1> QED
    BY <1>1, <1>2 DEF ContinuePostBinding

LEMMA StartStandardBindingTypes ==
    ASSUME TypeOK, StartStandardBinding
    PROVE  /\ requests' \in Seq(RequestSet) /\ tracked' \subseteq {"bind", "session"}
           /\ state' = state /\ Announces
  <1>1. tracked \in SUBSET {"bind", "session"}
    BY DEF TypeOK, LoginTypes
  <1> QED
    BY <1>1, SendsIQTypes DEF TypeOK, StartStandardBinding, Announces

LEMMA FallsBackTypes ==
    ASSUME TypeOK, FallsBack
    PROVE  /\ SocketTypes' /\ TrafficTypes' /\ tracked' \subseteq {"bind", "session"}
           /\ customBinding' = FALSE /\ state' = state /\ Announces
  BY StartStandardBindingTypes, Frames DEF FallsBack, TypeOK, TrafficTypes

LEMMA EndsCustomBindingTypes ==
    ASSUME TypeOK, EndsCustomBinding
    PROVE  /\ SocketTypes' /\ TrafficTypes' /\ tracked' \subseteq {"bind", "session"}
           /\ customBinding' = FALSE
           /\ state' \in {state, "START_SESSION", "CONNECTED"} /\ Announces
  <1>1. tracked \in SUBSET {"bind", "session"}
    BY DEF TypeOK, LoginTypes
  <1>2. CASE ContinuePostBinding(tracked) /\ UNCHANGED <<socketVars, reads>>
    BY <1>1, <1>2, ContinuePostBindingTypes, Frames DEF EndsCustomBinding, TypeOK, TrafficTypes
  <1>3. CASE ClosesSocket /\ UNCHANGED <<state, tracked, heard>>
    BY <1>1, <1>3, ClosesSocketTypes DEF EndsCustomBinding, TypeOK, Announces
  <1> QED
    BY <1>2, <1>3 DEF EndsCustomBinding

LEMMA StartCustomBindingTypes ==
    ASSUME TypeOK, StartCustomBinding
    PROVE  /\ SocketTypes' /\ TrafficTypes' /\ tracked' \subseteq {"bind", "session"}
           /\ customBinding' \in BOOLEAN /\ (state' = state \/ EndsInStart)
           /\ state' \in {state, "START_SESSION", "CONNECTED"} /\ Announces
  <1>1. Request("custom", "none") \in RequestSet
    BY DEF Request, RequestSet
  <1>2. CASE /\ customBinding' = TRUE
             /\ IF state = "BINDING" THEN Writes(Request("custom", "none"))
                                     ELSE UNCHANGED requests
             /\ UNCHANGED <<state, tracked, heard, socketVars, reads>>
    <2>1. requests' \in Seq(RequestSet) /\ reads' \in Nat
      BY <1>1, <1>2, WritesType DEF TypeOK, TrafficTypes
    <2> QED
      BY <1>2, <2>1, Frames DEF TypeOK, TrafficTypes, LoginTypes, Announces
  <1>3. CASE EndsInStart /\ EndsCustomBinding
    BY <1>3, EndsCustomBindingTypes
  <1>4. CASE FallsBack
    BY <1>4, FallsBackTypes
  <1> QED
    BY <1>2, <1>3, <1>4 DEF StartCustomBinding

LEMMA HandleCustomBindingInv == ASSUME Inv, HandleCustomBinding PROVE Inv'
  <1>1. NegTypes' /\ UNCHANGED <<isAuthenticated, features, auth, questions>>
    BY Frames DEF HandleCustomBinding, Inv
  <1>2. Request("custom", "none") \in RequestSet
    BY DEF Request, RequestSet
  <1>3. CASE /\ Writes(Request("custom", "none"))
             /\ UNCHANGED <<state, tracked, heard, customBinding, socketVars, reads>>
    <2>1. SocketTypes' /\ LoginTypes'
      BY <1>1, <1>3, Frames DEF Inv, loginVars
    <2>2. TrafficTypes'
      BY <1>2, <1>3, WritesType DEF Inv, TypeOK, TrafficTypes
    <2>3. Established' /\ state' \in States
      BY <1>3 DEF HandleCustomBinding, TakesElement, Established, States
    <2> QED
      BY <1>1, <1>3, <2>1, <2>2, <2>3, QuestionTypes, ElementTaken
         DEF HandleCustomBinding, TakesElement, Inv
  <1>4. CASE FallsBack \/ EndsCustomBinding
    <2>1. /\ SocketTypes' /\ TrafficTypes' /\ tracked' \subseteq {"bind", "session"}
          /\ customBinding' = FALSE
          /\ state' \in {state, "START_SESSION", "CONNECTED"} /\ Announces
      BY <1>4, FallsBackTypes, EndsCustomBindingTypes DEF Inv
    <2>2. LoginTypes'
      BY <1>1, <2>1 DEF Inv, TypeOK, LoginTypes
    <2>3. Established' /\ state' \in States
      BY <2>1 DEF HandleCustomBinding, TakesElement, Established, States
    <2> QED
      BY <1>1, <2>1, <2>2, <2>3, QuestionTypes, ElementTaken
         DEF HandleCustomBinding, TakesElement, Inv, Announces
  <1> QED
    BY <1>3, <1>4 DEF HandleCustomBinding

LEMMA HandleStandardBindingInv == ASSUME Inv, HandleStandardBinding PROVE Inv'
  <1>1. /\ NegTypes' /\ SocketTypes'
        /\ UNCHANGED <<isAuthenticated, features, auth, customBinding, reads>>
    BY Frames DEF HandleStandardBinding, Inv
  <1>2. StillTracked \in SUBSET {"bind", "session"}
    BY DEF StillTracked, Inv, TypeOK, LoginTypes
  <1>3. /\ requests' \in Seq(RequestSet) /\ tracked' \subseteq {"bind", "session"}
        /\ state' \in {"BINDING", "START_SESSION", "CONNECTED"} /\ Announces
        /\ questions' \subseteq [kind : {"settings", "willBind", "resource"}, conn : Nat]
    <2>1. CASE ContinuePostBinding(StillTracked) /\ UNCHANGED questions
      BY <1>2, <2>1, ContinuePostBindingTypes, QuestionTypes DEF Inv
    <2>2. CASE ContinueHandleStandardBinding(StillTracked) /\ UNCHANGED <<state, heard, questions>>
      <3>1. requests' \in Seq(RequestSet) /\ tracked' \subseteq {"bind", "session"}
        BY <1>2, <2>2, SendsIQTypes DEF Inv, TypeOK, ContinueHandleStandardBinding
      <3> QED
        BY <2>2, <3>1, QuestionTypes DEF HandleStandardBinding, TakesElement, Inv, Announces
    <2>3. CASE /\ questions' = questions \cup {[kind |-> "resource", conn |-> conn]}
               /\ tracked' = StillTracked
               /\ UNCHANGED <<state, heard, requests>>
      BY <1>2, <2>3 DEF HandleStandardBinding, TakesElement, Inv, TypeOK, Announces, WaitingTypes,
                       TrafficTypes, ServerTypes
    <2> QED
      BY <2>1, <2>2, <2>3 DEF HandleStandardBinding
  <1>4. LoginTypes' /\ TrafficTypes'
    BY <1>1, <1>3 DEF Inv, TypeOK, LoginTypes, TrafficTypes
  <1>5. Established' /\ state' \in States
    BY <1>3 DEF Established, States
  <1> QED
    BY <1>1, <1>3, <1>4, <1>5, ElementTaken DEF HandleStandardBinding, TakesElement, Announces

LEMMA HandleStartSessionResponseInv == ASSUME Inv, HandleStartSessionResponse PROVE Inv'
  <1>1. /\ NegTypes' /\ SocketTypes' /\ TrafficTypes' /\ UNCHANGED questions
        /\ state' = "CONNECTED" /\ Announces
    BY Frames DEF HandleStartSessionResponse, Inv, Announces
  <1>2. LoginTypes'
    BY DEF HandleStartSessionResponse, StillTracked, Inv, TypeOK, LoginTypes
  <1>3. Established' /\ state' \in States
    BY <1>1 DEF Established, States
  <1> QED
    BY <1>1, <1>2, <1>3, QuestionTypes, ElementTaken
       DEF HandleStartSessionResponse, TakesElement, Announces, Inv

LEMMA StartBindingTypes ==
    ASSUME TypeOK, StartBinding
    PROVE  /\ requests' \in Seq(RequestSet) /\ tracked' \subseteq {"bind", "session"}
           /\ state' = "BINDING"
           /\ questions' \subseteq [kind : {"settings", "willBind", "resource"}, conn : Nat]
  <1>1. tracked \in SUBSET {"bind", "session"}
    BY DEF TypeOK, LoginTypes
  <1>2. CASE SendsIQ("bind", "bind", tracked) /\ UNCHANGED questions
    BY <1>1, <1>2, SendsIQTypes, QuestionTypes DEF TypeOK, StartBinding
  <1>3. CASE /\ questions' = questions \cup {[kind |-> "willBind", conn |-> conn]}
             /\ UNCHANGED <<requests, tracked>>
    BY <1>1, <1>3 DEF TypeOK, StartBinding, WaitingTypes, TrafficTypes, ServerTypes
  <1> QED
    BY <1>2, <1>3 DEF StartBinding

LEMMA HandleStreamFeaturesInv == ASSUME Inv, HandleStreamFeatures PROVE Inv'
  <1>1. NegTypes' /\ UNCHANGED <<isAuthenticated, auth, customBinding>>
    BY Frames DEF HandleStreamFeatures, Inv
  <1>2. features' \in FeatureSet
    BY ParsedTaken DEF HandleStreamFeatures, TakesElement, ElemSet
  <1>3. /\ SocketTypes' /\ TrafficTypes' /\ tracked' \subseteq {"bind", "session"}
        /\ state' \in {"NEGOTIATING", "STARTTLS_1", "BINDING", "CONNECTED"} /\ Announces
        /\ questions' \subseteq [kind : {"settings", "willBind", "resource"}, conn : Nat]
    <2>1. CASE /\ state' = "STARTTLS_1" /\ Writes(Request("starttls", "none"))
               /\ UNCHANGED <<socketVars, reads, tracked, questions, heard>>
      <3>1. Request("starttls", "none") \in RequestSet
        BY DEF Request, RequestSet
      <3>2. TrafficTypes'
        BY <2>1, <3>1, WritesType DEF Inv, TypeOK, TrafficTypes
      <3> QED
        BY <2>1, <3>2, Frames, QuestionTypes DEF Inv, TypeOK, LoginTypes, Announces
    <2>2. CASE ClosesSocket /\ UNCHANGED <<state, tracked, questions, heard>>
      BY <2>2, ClosesSocketTypes, QuestionTypes
         DEF HandleStreamFeatures, TakesElement, Inv, TypeOK, LoginTypes, Announces
    <2>3. CASE StartBinding /\ UNCHANGED <<socketVars, reads, heard>>
      BY <2>3, StartBindingTypes, Frames DEF Inv, TypeOK, TrafficTypes, Announces
    <2>4. CASE /\ state' = "CONNECTED"
               /\ heard' = IF isAuthenticated THEN heard ELSE heard \cup {"didConnect"}
               /\ UNCHANGED <<socketVars, trafficVars, tracked, questions>>
      BY <2>4, Frames, QuestionTypes DEF Inv, TypeOK, LoginTypes, Announces
    <2> QED
      BY <2>1, <2>2, <2>3, <2>4 DEF HandleStreamFeatures
  <1>4. LoginTypes'
    BY <1>1, <1>2, <1>3 DEF Inv, TypeOK, LoginTypes
  <1>5. Established' /\ state' \in States
    BY <1>3 DEF Established, States
  <1> QED
    BY <1>1, <1>3, <1>4, <1>5, ElementTaken DEF HandleStreamFeatures, TakesElement, Announces

-----------------------------------------------------------------------------
(* Answers of delegates.                                                      *)

LEMMA AnswersTypes ==
    ASSUME Inv, NEW kind, Answers(kind)
    PROVE  /\ SrvTypes' /\ ServerTypes' /\ AttemptTypes' /\ NoStrayElements'
           /\ questions' \subseteq questions
           /\ InTime /\ kind # "settings" => Established
  <1>1. PICK q \in questions : q.kind = kind /\ questions' = questions \ {q}
    BY DEF Answers
  <1>2. InTime /\ kind # "settings" => Established
    BY <1>1 DEF Inv, Control, QuestionsInTime
  <1>3. SrvTypes' /\ ServerTypes' /\ AttemptTypes' /\ NoStrayElements'
    BY Frames DEF Answers, Inv, Control, NoStrayElements
  <1> QED
    BY <1>1, <1>2, <1>3

LEMMA AnswerSettingsInv == ASSUME Inv, AnswerSettings PROVE Inv'
  <1>1. /\ SrvTypes' /\ ServerTypes' /\ AttemptTypes' /\ NoStrayElements'
        /\ questions' \subseteq questions /\ UNCHANGED parsed
    BY AnswersTypes DEF AnswerSettings, Answers
  <1>2. LoginTypes' /\ SocketTypes'
    BY Frames DEF AnswerSettings, Inv
  <1>3. WaitingTypes'
    BY <1>1 DEF AnswerSettings, Inv, TypeOK, WaitingTypes
  <1>4. CASE WantsSettings /\ ContinueStartTLS
    <2>1. NegTypes' /\ TrafficTypes' /\ state' = "OPENING"
      BY <1>4, ContinueStartTLSTypes DEF Inv, TypeOK
    <2>2. Established /\ Established'
      BY <1>4, <2>1 DEF WantsSettings, Established
    <2>3. NothingKept' /\ Control'
      BY <1>1, <2>2, EstablishedControl DEF AnswerSettings, Answers
    <2> QED
      BY <1>1, <1>2, <1>3, <2>1, <2>3 DEF Inv, TypeOK, States
  <1>5. CASE UNCHANGED <<state, negVars, trafficVars>>
    <2>1. NegTypes' /\ TrafficTypes' /\ state' \in States
      BY <1>5, Frames DEF Inv, TypeOK
    <2>2. NothingKept' /\ Control'
      BY <1>1, <1>5, SameStateControl
         DEF AnswerSettings, Answers, negVars, loginVars, attemptVars
    <2> QED
      BY <1>1, <1>2, <1>3, <2>1, <2>2 DEF Inv, TypeOK
  <1> QED
    BY <1>4, <1>5 DEF AnswerSettings

LEMMA AnswerWillBindInv == ASSUME Inv, NoLateEnd, AnswerWillBind PROVE Inv'
  <1>1. /\ SrvTypes' /\ ServerTypes' /\ AttemptTypes' /\ NoStrayElements'
        /\ questions' \subseteq questions /\ UNCHANGED parsed /\ (InTime => Established)
    BY AnswersTypes DEF AnswerWillBind, Answers
  <1>2. NegTypes' /\ UNCHANGED <<isAuthenticated, features, auth>>
    BY Frames DEF AnswerWillBind, Inv
  <1>3. /\ SocketTypes' /\ TrafficTypes' /\ tracked' \subseteq {"bind", "session"}
        /\ customBinding' \in BOOLEAN /\ (state' = state \/ EndsInStart)
        /\ state' \in {state, "START_SESSION", "CONNECTED"} /\ Announces
    <2>1. CASE StartCustomBinding
      BY <2>1, StartCustomBindingTypes DEF Inv
    <2>2. CASE StartStandardBinding /\ UNCHANGED <<customBinding, socketVars, reads>>
      BY <2>2, StartStandardBindingTypes, Frames DEF Inv, TypeOK, TrafficTypes, LoginTypes
    <2> QED
      BY <2>1, <2>2 DEF AnswerWillBind
  <1>4. LoginTypes'
    BY <1>2, <1>3 DEF Inv, TypeOK, LoginTypes
  <1>5. WaitingTypes'
    BY <1>1, <1>3 DEF Inv, TypeOK, WaitingTypes, Announces
  <1>6. state' \in States
    BY <1>3 DEF States, Inv, TypeOK
  <1>7. NothingKept' /\ Control'
    <2>1. CASE state' = state
      BY <1>1, <1>2, <2>1, SameStateControl DEF AnswerWillBind, Answers, negVars, attemptVars
    <2>2. CASE EndsInStart
      <3>1. Established
        BY <1>1, <2>2 DEF NoLateEnd, InTime
      <3>2. Established'
        BY <1>3, <3>1 DEF Established
      <3> QED
        BY <1>1, <3>1, <3>2, EstablishedControl DEF AnswerWillBind, Answers
    <2> QED
      BY <1>3, <2>1, <2>2
  <1> QED
    BY <1>1, <1>2, <1>3, <1>4, <1>5, <1>6, <1>7 DEF Inv, TypeOK

LEMMA AnswerResourceInv == ASSUME Inv, AnswerResource PROVE Inv'
  <1>1. /\ SrvTypes' /\ ServerTypes' /\ AttemptTypes' /\ NoStrayElements'
        /\ questions' \subseteq questions /\ UNCHANGED parsed
    BY AnswersTypes DEF AnswerResource, Answers
  <1>2. NegTypes' /\ SocketTypes'
    BY Frames DEF AnswerResource, Inv
  <1>3. tracked \in SUBSET {"bind", "session"}
    BY DEF Inv, TypeOK, LoginTypes
  <1>4. requests' \in Seq(RequestSet) /\ tracked' \subseteq {"bind", "session"}
    BY <1>3, SendsIQTypes DEF AnswerResource, ContinueHandleStandardBinding, Inv, TypeOK
  <1>5. LoginTypes' /\ TrafficTypes' /\ state' \in States
    BY <1>4 DEF AnswerResource, Inv, TypeOK, LoginTypes, TrafficTypes
  <1>6. WaitingTypes'
    BY <1>1 DEF AnswerResource, Inv, TypeOK, WaitingTypes
  <1>7. NothingKept' /\ Control'
    BY <1>1, SameStateControl DEF AnswerResource, Answers, negVars, attemptVars
  <1> QED
    BY <1>1, <1>2, <1>5, <1>6, <1>7 DEF Inv, TypeOK

-----------------------------------------------------------------------------
(* The application.                                                           *)

\* A request of the application on a connected stream.
LEMMA ApplicationRequest ==
    ASSUME Inv, Established, Established', state' \in States, LoginTypes',
           NEW r \in RequestSet, Writes(r),
           UNCHANGED <<srvVars, negVars, socketVars, reads, serverVars, attemptVars, parsed,
                       questions, heard>>
    PROVE  Inv'
  <1>1. TrafficTypes'
    BY WritesType DEF Inv, TypeOK, TrafficTypes
  <1>2. NoStrayElements'
    BY DEF Inv, Control, NoStrayElements
  <1>3. NothingKept' /\ Control'
    BY <1>2, EstablishedControl
  <1> QED
    BY <1>1, <1>3, Frames DEF Inv, TypeOK

LEMMA AuthenticateInv == ASSUME Inv, Authenticate PROVE Inv'
  <1>1. Request("auth", "none") \in RequestSet
    BY DEF Request, RequestSet
  <1>2. auth' \in {"sasl", "legacy"}
    BY DEF Authenticate
  <1>3. LoginTypes' /\ Established /\ Established' /\ state' \in States
    BY <1>2 DEF Authenticate, Inv, TypeOK, LoginTypes, Established, States
  <1> QED
    BY <1>1, <1>3, ApplicationRequest DEF Authenticate

LEMMA RegisterWithElementsInv == ASSUME Inv, RegisterWithElements PROVE Inv'
  <1>1. Request("register", "none") \in RequestSet
    BY DEF Request, RequestSet
  <1>2. LoginTypes' /\ Established /\ Established' /\ state' \in States
    BY Frames DEF RegisterWithElements, Inv, Established, States
  <1> QED
    BY <1>1, <1>2, ApplicationRequest DEF RegisterWithElements

LEMMA SecureConnectionInv == ASSUME Inv, SecureConnection PROVE Inv'
  <1>1. Request("starttls", "none") \in RequestSet
    BY DEF Request, RequestSet
  <1>2. LoginTypes' /\ Established /\ Established' /\ state' \in States
    BY Frames DEF SecureConnection, Inv, Established, States
  <1> QED
    BY <1>1, <1>2, ApplicationRequest DEF SecureConnection

-----------------------------------------------------------------------------
(* The socket and the server.                                                 *)

LEMMA NetworkInv ==
    ASSUME Inv, NetworkStep, SocketTypes', TrafficTypes', ServerTypes'
    PROVE  Inv'
  <1>1. /\ SrvTypes' /\ NegTypes' /\ LoginTypes' /\ AttemptTypes' /\ WaitingTypes'
        /\ state' \in States
    BY Frames DEF NetworkStep, Inv, TypeOK
  <1>2. NoStrayElements'
    BY DEF NetworkStep, Inv, Control, NoStrayElements
  <1>3. NothingKept' /\ Control'
    BY <1>2, SameStateControl DEF NetworkStep, negVars, loginVars, attemptVars
  <1> QED
    BY <1>1, <1>3 DEF Inv, TypeOK

LEMMA SocketConnectsInv == ASSUME Inv, SocketConnects PROVE Inv'
  <1>1. callbacks' \in Seq(CallbackSet)
    BY AppendType, ClosedType DEF SocketConnects, Inv, TypeOK, SocketTypes
  <1>2. SocketTypes'
    BY <1>1 DEF SocketConnects, Inv, TypeOK, SocketTypes
  <1> QED
    BY <1>2, Frames, NetworkInv DEF SocketConnects, Inv

LEMMA SocketClosesInv == ASSUME Inv, SocketCloses PROVE Inv'
  <1>1. SocketTypes' /\ TrafficTypes'
    BY ClosesSocketTypes DEF SocketCloses, Inv, TypeOK
  <1> QED
    BY <1>1, Frames, NetworkInv DEF SocketCloses, Inv

LEMMA SocketReadsInv == ASSUME Inv, SocketReads PROVE Inv'
  <1>1. PICK n \in 1..Len(wire) :
          /\ callbacks' = Append(callbacks, Callback("read", SubSeq(wire, 1, n)))
          /\ wire' = SubSeq(wire, n + 1, Len(wire))
    BY DEF SocketReads
  <1>2. wire \in Seq(ElemSet) /\ callbacks \in Seq(CallbackSet)
    BY DEF Inv, TypeOK, SocketTypes
  <1>3. SubSeq(wire, 1, n) \in Seq(ElemSet) /\ wire' \in Seq(ElemSet)
    <2> HIDE DEF ElemSet
    <2> QED
      BY <1>1, <1>2
  <1>4. Callback("read", SubSeq(wire, 1, n)) \in CallbackSet
    BY <1>3 DEF Callback, CallbackSet
  <1>5. callbacks' \in Seq(CallbackSet)
    BY <1>1, <1>2, <1>4, AppendType
  <1>6. SocketTypes' /\ TrafficTypes'
    BY <1>3, <1>5 DEF SocketReads, Inv, TypeOK, SocketTypes, TrafficTypes
  <1> QED
    BY <1>6, Frames, NetworkInv DEF SocketReads, Inv

LEMMA OneElement == ASSUME NEW S, NEW e \in S PROVE <<e>> \in Seq(S)
  OBVIOUS

LEMMA TwoElements == ASSUME NEW S, NEW d \in S, NEW e \in S PROVE <<d, e>> \in Seq(S)
  OBVIOUS

LEMMA AnswersToTypes ==
    ASSUME NEW r \in RequestSet, NEW again \in BOOLEAN, NEW answer \in AnswersTo(r, again)
    PROVE  answer \in Seq(ElemSet)
  <1>1. CASE r.kind = "header"
    <2>1. Offers \subseteq FeatureSet
      <3> DEFINE done == "auth" \in granted
                 T == IF isSecure THEN {"no"} ELSE {"no", "offered", "required"}
                 S == IF done THEN BOOLEAN ELSE {FALSE}
      <3>1. T \subseteq {"no", "offered", "required"}
        OBVIOUS
      <3>2. done \in BOOLEAN /\ (~done) \in BOOLEAN
        OBVIOUS
      <3>3. S \subseteq BOOLEAN
        <4>1. CASE done
          BY <4>1
        <4>2. CASE ~done
          BY <4>2
        <4> QED
          BY <4>1, <4>2
      <3>4. Offers = [starttls : T, bind : {done}, session : S, login : {~done}]
        BY DEF Offers
      <3> HIDE DEF T, S, done
      <3> QED
        BY <3>1, <3>2, <3>3, <3>4 DEF FeatureSet
    <2>2. \/ answer = <<Elem("root", "old", "none")>>
          \/ \E f \in Offers : answer = <<Elem("root", "rfc", "none"), Features(f)>>
      BY <1>1 DEF AnswersTo
    <2>3. CASE answer = <<Elem("root", "old", "none")>>
      BY <2>3, ElementTypes, OneElement
    <2>4. CASE \E f \in Offers : answer = <<Elem("root", "rfc", "none"), Features(f)>>
      <3>1. PICK f \in Offers : answer = <<Elem("root", "rfc", "none"), Features(f)>>
        BY <2>4
      <3>2. Features(f) \in ElemSet /\ Elem("root", "rfc", "none") \in ElemSet
        BY <2>1, ElementTypes
      <3> QED
        BY <3>1, <3>2, TwoElements
    <2> QED
      BY <2>2, <2>3, <2>4
  <1>2. CASE r.kind # "header"
    <2>1. \E v \in {"proceed", "failure", "success", "challenge", "jid", "conflict", "error",
                    "done", "again", "result", "refused"} : answer = <<Elem(r.kind, v, r.id)>>
      <3>1. CASE r.kind \in {"starttls", "auth"}
        BY <3>1 DEF AnswersTo
      <3>2. CASE r.kind \in {"bind", "custom"}
        BY <3>2 DEF AnswersTo
      <3>3. CASE r.kind \notin {"header", "starttls", "auth", "bind", "custom"}
        BY <3>3 DEF AnswersTo
      <3> QED
        BY <1>2, <3>1, <3>2, <3>3
    <2>2. PICK v \in {"proceed", "failure", "success", "challenge", "jid", "conflict", "error",
                    "done", "again", "result", "refused"} : answer = <<Elem(r.kind, v, r.id)>>
      BY <2>1
    <2>3. Elem(r.kind, v, r.id) \in ElemSet
      BY <1>2 DEF Elem, ElemSet, RequestSet, NoFeatures, FeatureSet
    <2> QED
      BY <2>2, <2>3, OneElement
  <1> QED
    BY <1>1, <1>2

LEMMA ServerAnswersInv == ASSUME Inv, ServerAnswers PROVE Inv'
  <1>1. requests \in Seq(RequestSet) /\ requests # <<>> /\ wire \in Seq(ElemSet)
    BY DEF ServerAnswers, Inv, TypeOK, SocketTypes, TrafficTypes
  <1>2. requests' \in Seq(RequestSet) /\ Head(requests) \in RequestSet
    BY <1>1, TailType DEF ServerAnswers
  <1>3. PICK answer \in AnswersTo(Head(requests), rounds < MaxRounds)
                          \cup {<<Elem("eof", "none", "none")>>} :
          /\ wire' = wire \o answer
          /\ rounds' = IF answer[1].value \in {"challenge", "conflict", "error", "again"}
                       THEN rounds + 1 ELSE rounds
          /\ granted' = granted \cup CASE answer[1].value = "success" -> {"auth"}
                                       [] answer[1].value \in {"jid", "done"} -> {"bind"}
                                       [] OTHER -> {}
    BY DEF ServerAnswers
  <1>4. answer \in Seq(ElemSet)
    <2>1. CASE answer \in AnswersTo(Head(requests), rounds < MaxRounds)
      <3>1. (rounds < MaxRounds) \in BOOLEAN
        BY BoundsAssumption DEF BoundsAssumption, Inv, TypeOK, ServerTypes
      <3> QED
        BY <1>2, <2>1, <3>1, AnswersToTypes
    <2>2. CASE answer = <<Elem("eof", "none", "none")>>
      BY <2>2, ElementTypes, OneElement
    <2> QED
      BY <2>1, <2>2, <1>3
  <1>5. wire' \in Seq(ElemSet)
    BY <1>1, <1>3, <1>4, ConcatType
  <1>6. ServerTypes'
    <2>1. rounds' \in Nat
      BY <1>3 DEF Inv, TypeOK, ServerTypes
    <2>2. granted' \subseteq {"auth", "bind"}
      BY <1>3 DEF Inv, TypeOK, ServerTypes
    <2> QED
      BY <2>1, <2>2 DEF ServerAnswers, Inv, TypeOK, ServerTypes
  <1>7. SocketTypes' /\ TrafficTypes'
    BY <1>2, <1>5 DEF ServerAnswers, Inv, TypeOK, SocketTypes, TrafficTypes
  <1> QED
    BY <1>6, <1>7, NetworkInv DEF ServerAnswers

LEMMA ServerPushesInv == ASSUME Inv, ServerPushes PROVE Inv'
  <1>1. wire' \in Seq(ElemSet)
    BY AppendType, ElementTypes DEF ServerPushes, Inv, TypeOK, SocketTypes
  <1>2. SocketTypes' /\ ServerTypes'
    BY <1>1 DEF ServerPushes, Inv, TypeOK, SocketTypes, ServerTypes
  <1> QED
    BY <1>2, Frames, NetworkInv DEF ServerPushes, Inv

-----------------------------------------------------------------------------
(* The theorems.                                                              *)

LEMMA InitInv == Init => Inv
  <1> SUFFICES ASSUME Init PROVE Inv
    OBVIOUS
  <1>1. 0 \in 0..MaxAttempts /\ state \in States
    BY BoundsAssumption DEF BoundsAssumption, Init, States
  <1>2. /\ <<>> \in Seq(CallbackSet) /\ <<>> \in Seq(ElemSet) /\ <<>> \in Seq(RequestSet)
        /\ <<>> \in Seq([parser : Nat \X Nat, elem : ElemSet])
    BY EmptyType
  <1>3. SrvTypes /\ NegTypes /\ ServerTypes /\ AttemptTypes
    BY <1>1 DEF Init, SrvTypes, NegTypes, ServerTypes, AttemptTypes, NoParser
  <1>4. LoginTypes
    BY ElementTypes DEF Init, LoginTypes
  <1>5. SocketTypes /\ TrafficTypes /\ WaitingTypes
    BY <1>2 DEF Init, SocketTypes, TrafficTypes, WaitingTypes
  <1>6. NothingKept
    BY DEF Init, NothingKept
  <1>7. Control
    BY DEF Init, Control, EstablishedForgets, NoStrayElements, ResolverInUse, QuestionsInTime,
           Established
  <1> QED
    BY <1>1, <1>3, <1>4, <1>5, <1>6, <1>7 DEF Inv, TypeOK

LEMMA StutterInv == ASSUME Inv, UNCHANGED vars PROVE Inv'
  <1>1. /\ UNCHANGED <<state, srvVars, negVars, loginVars, socketVars, trafficVars, serverVars>>
        /\ UNCHANGED <<attemptVars, parsed, questions, heard>>
    BY DEF vars
  <1>2. NetworkStep /\ SocketTypes' /\ TrafficTypes' /\ ServerTypes'
    BY <1>1, Frames DEF Inv, NetworkStep
  <1> QED
    BY <1>2, NetworkInv

LEMMA NextInv == ASSUME Inv, NoLateEnd, Next PROVE Inv'
  <1>1. CASE Application
    BY <1>1, ConnectWithTimeoutInv, DisconnectInv, DisconnectAfterSendingInv, AbortConnectingInv,
       AuthenticateInv, RegisterWithElementsInv, SecureConnectionInv DEF Application
  <1>2. CASE HandleCallback
    BY <1>2, DidConnectToHostInv, DidReadDataInv, SocketDidDisconnectInv DEF HandleCallback
  <1>3. CASE HandleParsed
    BY <1>3, IgnoreOldParserInv, DidReadRootInv, DidParseDataInv, ParserDidEndInv,
       HandleStreamFeaturesInv, HandleStartTLSResponseInv, HandleRegistrationInv, HandleAuthInv,
       HandleCustomBindingInv, HandleStandardBindingInv, HandleStartSessionResponseInv,
       IgnoreElementInv DEF HandleParsed
  <1>4. CASE Delegates
    BY <1>4, AnswerSettingsInv, AnswerWillBindInv, AnswerResourceInv DEF Delegates
  <1>5. CASE Network
    BY <1>5, SocketConnectsInv, SocketReadsInv, ServerAnswersInv DEF Network
  <1>6. CASE DidResolve \/ DoConnectTimeout
    BY <1>6, DidResolveInv, DoConnectTimeoutInv
  <1>7. CASE SocketCloses \/ ServerPushes
    BY <1>7, SocketClosesInv, ServerPushesInv
  <1> QED
    BY <1>1, <1>2, <1>3, <1>4, <1>5, <1>6, <1>7 DEF Next

THEOREM Invariance == ASSUME NoLateEnd PROVE Spec => []Inv
  <1>1. Inv /\ [Next]_vars => Inv'
    BY NextInv, StutterInv
  <1> QED
    BY <1>1, InitInv, PTL DEF Spec

\* The state is well typed, and a stream that has no connection has kept no parser, features or
\* authentication of an earlier one (socketDidDisconnect:withError: releases them all).
THEOREM TypeCorrect == ASSUME NoLateEnd PROVE Spec => []TypeOK
  <1>1. Inv => TypeOK
    BY DEF Inv
  <1> QED
    BY <1>1, Invariance, PTL

\* No connect timer runs for an established stream, so doConnectTimeout cannot close one.
THEOREM TimerCorrect == ASSUME NoLateEnd PROVE Spec => []TimerEndsWithConnection
  <1>1. Inv => TimerEndsWithConnection
    BY DEF Inv, Control, EstablishedForgets, TimerEndsWithConnection
  <1> QED
    BY <1>1, Invariance, PTL

\* The steps that start a TCP connection.
LEMMA ConnectionSteps ==
    ASSUME Inv, Next, conn' # conn
    PROVE  ConnectWithTimeout \/ DidResolve \/ SocketDidDisconnect
  <1>1. ~(DoConnectTimeout \/ SocketCloses \/ ServerPushes)
    BY DEF DoConnectTimeout, SocketCloses, ServerPushes, serverVars
  <1>2. ~Delegates
    BY DEF Delegates, AnswerSettings, AnswerWillBind, AnswerResource, Answers, serverVars
  <1>3. ~Network
    BY DEF Network, SocketConnects, SocketReads, ServerAnswers, serverVars
  <1>4. HandleParsed => TakesParsed
    BY DEF HandleParsed, IgnoreOldParser, DidReadRoot, DidParseData, ParserDidEnd,
           HandleStreamFeatures, HandleStartTLSResponse, HandleRegistration, HandleAuth,
           HandleCustomBinding, HandleStandardBinding, HandleStartSessionResponse, IgnoreElement,
           TakesElement
  <1>5. ~HandleParsed
    BY <1>4 DEF TakesParsed, serverVars
  <1>6. Application => ConnectWithTimeout
    BY DEF Application, Disconnect, DisconnectAfterSending, AbortConnecting, Authenticate,
           RegisterWithElements, SecureConnection, serverVars
  <1>7. HandleCallback => SocketDidDisconnect
    BY DEF HandleCallback, DidConnectToHost, DidReadData, serverVars
  <1> QED
    BY <1>1, <1>2, <1>3, <1>5, <1>6, <1>7 DEF Next

\* An established stream never opens another TCP connection by itself: when it ends, no SRV
\* record is left for socketDidDisconnect:withError: to try.
THEOREM NoReconnectCorrect == ASSUME NoLateEnd PROVE Spec => NoReconnectBehindTheBack
  <1>1. Inv /\ [Next]_vars => [conn' # conn => ~Established]_vars
    <2> SUFFICES ASSUME Inv, Next, conn' # conn PROVE ~Established
      BY DEF vars, serverVars
    <2>1. CASE ConnectWithTimeout
      BY <2>1 DEF ConnectWithTimeout, Established
    <2>2. CASE DidResolve
      <3>1. srvResolver \in resolvers
        BY <2>2 DEF DidResolve, serverVars
      <3> QED
        BY <3>1 DEF Inv, Control, ResolverInUse, Established
    <2>3. CASE SocketDidDisconnect
      <3>1. srvResultsIndex + 1 < srvResults
        BY <2>3 DEF SocketDidDisconnect, serverVars
      <3> QED
        BY <3>1 DEF Inv, TypeOK, SrvTypes, Control, EstablishedForgets
    <2> QED
      BY <2>1, <2>2, <2>3, ConnectionSteps
  <1> QED
    BY <1>1, Invariance, PTL DEF NoReconnectBehindTheBack, Spec

-----------------------------------------------------------------------------
(* AliveHasSocket.  Its inductive form also says where the end of a connection *)
(* stands among the callbacks: it is the last one, and the socket is idle.     *)

Down == state \in {"DISCONNECTED", "RESOLVING_SRV"}

SocketInv ==
    /\ Down <=> socket = "idle" /\ callbacks = <<>>
    /\ \A i \in DOMAIN callbacks :
          callbacks[i].kind = "closed" => i = Len(callbacks) /\ socket = "idle"
    /\ socket = "idle" /\ callbacks # <<>> => callbacks[Len(callbacks)].kind = "closed"

LEMMA CallbacksType == ASSUME Inv PROVE callbacks \in Seq(CallbackSet)
  BY DEF Inv, TypeOK, SocketTypes

LEMMA SocketInvImplies == ASSUME Inv, SocketInv PROVE AliveHasSocket
  <1>1. callbacks \in Seq(CallbackSet)
    BY CallbacksType
  <1>2. callbacks # <<>> => Len(callbacks) \in DOMAIN callbacks
    BY <1>1
  <1>3. callbacks = <<>> => ~EndIsHeard
    BY DEF EndIsHeard
  <1> QED
    BY <1>2, <1>3 DEF SocketInv, Down, AliveHasSocket, EndIsHeard

\* A step that leaves the socket and its callbacks alone.
LEMMA SocketKept ==
    ASSUME SocketInv, UNCHANGED <<socket, callbacks>>, Down' <=> Down
    PROVE  SocketInv'
  BY DEF SocketInv

\* A step that closes the socket of a stream that is not down, or closes it again.
LEMMA SocketClosed ==
    ASSUME Inv, SocketInv, ClosesSocket, ~Down, ~Down'
    PROVE  SocketInv'
  <1>1. callbacks \in Seq(CallbackSet)
    BY CallbacksType
  <1>2. socket' = "idle"
    BY DEF ClosesSocket
  <1>3. CASE socket = "idle"
    <2>1. callbacks' = callbacks
      BY <1>3 DEF ClosesSocket
    <2> QED
      BY <1>2, <1>3, <2>1 DEF SocketInv
  <1>4. CASE socket # "idle"
    <2>1. callbacks' = Append(callbacks, Callback("closed", <<>>))
      BY <1>4 DEF ClosesSocket
    <2>2. Len(callbacks') = Len(callbacks) + 1 /\ DOMAIN callbacks' = 1..(Len(callbacks) + 1)
      BY <1>1, <2>1, ClosedType
    <2>3. \A i \in DOMAIN callbacks : callbacks'[i] = callbacks[i]
      BY <1>1, <2>1, ClosedType
    <2>4. callbacks'[Len(callbacks)+1].kind = "closed"
      BY <1>1, <2>1, ClosedType DEF Callback
    <2>5. DOMAIN callbacks = 1..Len(callbacks) /\ Len(callbacks) \in Nat /\ callbacks' # <<>>
      BY <1>1, <2>1, <2>2
    <2> QED
      BY <1>2, <1>4, <2>2, <2>3, <2>4, <2>5 DEF SocketInv
  <1> QED
    BY <1>3, <1>4

\* Taking a callback other than the end of the connection.
LEMMA CallbackTakenSocket ==
    ASSUME Inv, SocketInv, callbacks # <<>>, Head(callbacks).kind # "closed",
           callbacks' = Tail(callbacks), UNCHANGED socket, Down => Down', ~Down => ~Down'
    PROVE  SocketInv'
  <1>1. callbacks \in Seq(CallbackSet)
    BY CallbacksType
  <1>2. ~Down
    BY DEF SocketInv
  <1>3. /\ Len(callbacks) \in Nat \ {0} /\ DOMAIN callbacks = 1..Len(callbacks)
        /\ Len(callbacks') = Len(callbacks) - 1
        /\ DOMAIN callbacks' = 1..(Len(callbacks) - 1)
        /\ \A i \in DOMAIN callbacks' : callbacks'[i] = callbacks[i + 1]
        /\ Head(callbacks) = callbacks[1]
    BY <1>1
  <1>4. socket = "idle" => Len(callbacks) > 1
    BY <1>3 DEF SocketInv
  <1>5. callbacks' # <<>> => Len(callbacks) > 1
    BY <1>1
  <1>6. Len(callbacks) > 1 => callbacks' # <<>>
    BY <1>3
  <1>7. Down' <=> socket' = "idle" /\ callbacks' = <<>>
    BY <1>2, <1>4, <1>6
  <1>8. \A i \in DOMAIN callbacks' :
          callbacks'[i].kind = "closed" => i = Len(callbacks') /\ socket' = "idle"
    <2> SUFFICES ASSUME NEW i \in DOMAIN callbacks', callbacks'[i].kind = "closed"
                 PROVE  i = Len(callbacks') /\ socket' = "idle"
      OBVIOUS
    <2>1. i + 1 \in DOMAIN callbacks /\ callbacks[i + 1].kind = "closed"
      BY <1>3
    <2>2. i + 1 = Len(callbacks) /\ socket = "idle"
      BY <2>1 DEF SocketInv
    <2> QED
      BY <1>3, <2>2
  <1>9. socket' = "idle" /\ callbacks' # <<>> => callbacks'[Len(callbacks')].kind = "closed"
    <2> SUFFICES ASSUME socket' = "idle", callbacks' # <<>>
                 PROVE  callbacks'[Len(callbacks')].kind = "closed"
      OBVIOUS
    <2>1. callbacks[Len(callbacks)].kind = "closed"
      BY DEF SocketInv
    <2>2. Len(callbacks') \in DOMAIN callbacks' /\ Len(callbacks') + 1 = Len(callbacks)
      BY <1>3, <1>5
    <2> QED
      BY <1>3, <2>1, <2>2
  <1> QED
    BY <1>7, <1>8, <1>9 DEF SocketInv

LEMMA EndTaken ==
    ASSUME Inv, SocketInv, callbacks # <<>>, Head(callbacks).kind = "closed"
    PROVE  socket = "idle" /\ Tail(callbacks) = <<>>
  <1>1. callbacks \in Seq(CallbackSet)
    BY CallbacksType
  <1>2. 1 \in DOMAIN callbacks /\ Head(callbacks) = callbacks[1]
    BY <1>1
  <1>3. Len(callbacks) = 1 /\ socket = "idle"
    BY <1>2 DEF SocketInv
  <1>4. Tail(callbacks) # <<>> => Len(callbacks) > 1
    BY <1>1
  <1>5. Tail(callbacks) = <<>>
    BY <1>3, <1>4
  <1> QED
    BY <1>3, <1>5

LEMMA ApplicationSocket == ASSUME Inv, SocketInv, Application PROVE SocketInv'
  <1>1. CASE ConnectWithTimeout
    <2>1. Down /\ UNCHANGED callbacks
      BY <1>1 DEF ConnectWithTimeout, Down
    <2>2. \/ Down' /\ UNCHANGED socket
          \/ ~Down' /\ socket' = "connecting"
      BY <1>1 DEF ConnectWithTimeout, BeginsConnection, Down
    <2> QED
      BY <2>1, <2>2 DEF SocketInv
  <1>2. CASE StopsConnecting
    BY <1>2, SocketKept DEF StopsConnecting, Down, socketVars
  <1>3. CASE LeavesToSocket
    BY <1>3, SocketClosed DEF LeavesToSocket, Down
  <1>4. CASE AbortConnecting \/ Disconnect
    <2>1. CASE UNCHANGED <<state, socketVars>>
      BY <2>1, SocketKept DEF Down, socketVars
    <2> QED
      BY <1>2, <1>3, <1>4, <2>1 DEF AbortConnecting, Disconnect
  <1>5. CASE DisconnectAfterSending
    BY <1>5, SocketKept DEF DisconnectAfterSending, Down
  <1>6. CASE Authenticate \/ RegisterWithElements \/ SecureConnection
    BY <1>6, SocketKept DEF Authenticate, RegisterWithElements, SecureConnection, Down, socketVars
  <1> QED
    BY <1>1, <1>4, <1>5, <1>6 DEF Application

LEMMA CallbackSocket == ASSUME Inv, SocketInv, HandleCallback PROVE SocketInv'
  <1>1. CASE DidConnectToHost
    <2>1. ~Down'
      <3>1. CASE isSecure /\ StartTLS
        BY <3>1, StartTLSTypes DEF Inv, Down
      <3>2. CASE SendOpeningNegotiation
        BY <3>2 DEF SendOpeningNegotiation, Down
      <3> QED
        BY <1>1, <3>1, <3>2 DEF DidConnectToHost
    <2> QED
      BY <1>1, <2>1, CallbackTakenSocket DEF DidConnectToHost, SocketInv
  <1>2. CASE DidReadData
    BY <1>2, CallbackTakenSocket DEF DidReadData, Down
  <1>3. CASE SocketDidDisconnect
    <2>1. socket = "idle" /\ callbacks' = <<>>
      BY <1>3, EndTaken DEF SocketDidDisconnect
    <2>2. \/ Down' /\ UNCHANGED socket
          \/ ~Down' /\ socket' = "connecting"
      BY <1>3 DEF SocketDidDisconnect, TryNextSrvResult, BeginsConnection, Down
    <2> QED
      BY <2>1, <2>2 DEF SocketInv
  <1> QED
    BY <1>1, <1>2, <1>3 DEF HandleCallback

LEMMA EstablishedIsUp == Established => ~Down
  BY DEF Established, Down

\* A step inside an established stream.
LEMMA EstablishedSocket ==
    ASSUME Inv, SocketInv, Established, Established',
           ClosesSocket \/ UNCHANGED <<socket, callbacks>>
    PROVE  SocketInv'
  <1>1. ~Down /\ ~Down'
    BY EstablishedIsUp DEF Established, Down
  <1> QED
    BY <1>1, SocketClosed, SocketKept

LEMMA HandleStreamFeaturesSocket ==
    ASSUME Inv, HandleStreamFeatures
    PROVE  Established' /\ (ClosesSocket \/ UNCHANGED <<socket, callbacks>>)
  <1>1. state = "NEGOTIATING"
    BY DEF HandleStreamFeatures, TakesElement
  <1> QED
    BY <1>1 DEF HandleStreamFeatures, StartBinding, Established, socketVars

LEMMA ParsedSocket == ASSUME Inv, SocketInv, HandleParsed PROVE SocketInv'
  <1>1. CASE IgnoreOldParser \/ IgnoreElement \/ DidParseData
    BY <1>1, SocketKept DEF IgnoreOldParser, IgnoreElement, DidParseData, Down, socketVars
  <1>2. CASE DidReadRoot
    BY <1>2, CurrentIsEstablished, EstablishedSocket
       DEF DidReadRoot, TakesParsed, Established, socketVars
  <1>3. CASE ParserDidEnd
    BY <1>3, CurrentIsEstablished, EstablishedSocket DEF ParserDidEnd, TakesParsed, Established
  <1>4. CASE HandleStreamFeatures
    BY <1>4, CurrentIsEstablished, EstablishedSocket, HandleStreamFeaturesSocket
       DEF HandleStreamFeatures, TakesElement, TakesParsed
  <1>5. CASE HandleStartTLSResponse
    <2>1. StartTLS => Established'
      BY StartTLSTypes DEF Inv, Established
    <2> QED
      BY <1>5, <2>1, CurrentIsEstablished, EstablishedSocket
         DEF HandleStartTLSResponse, TakesElement, TakesParsed, Established, socketVars
  <1>6. CASE HandleRegistration \/ HandleStartSessionResponse
    BY <1>6, CurrentIsEstablished, EstablishedSocket
       DEF HandleRegistration, HandleStartSessionResponse, TakesElement, TakesParsed, Established,
           socketVars
  <1>7. CASE HandleAuth
    BY <1>7, CurrentIsEstablished, EstablishedSocket
       DEF HandleAuth, SendOpeningNegotiation, TakesElement, TakesParsed, Established, socketVars
  <1>8. CASE HandleCustomBinding
    BY <1>8, CurrentIsEstablished, EstablishedSocket
       DEF HandleCustomBinding, FallsBack, EndsCustomBinding, ContinuePostBinding,
           StartStandardBinding, TakesElement, TakesParsed, Established, socketVars
  <1>9. CASE HandleStandardBinding
    BY <1>9, CurrentIsEstablished, EstablishedSocket
       DEF HandleStandardBinding, ContinuePostBinding, TakesElement, TakesParsed, Established,
           socketVars
  <1> QED
    BY <1>1, <1>2, <1>3, <1>4, <1>5, <1>6, <1>7, <1>8, <1>9 DEF HandleParsed

LEMMA DelegatesSocket == ASSUME Inv, SocketInv, NoLateEnd, Delegates PROVE SocketInv'
  <1>1. CASE AnswerSettings
    BY <1>1, SocketKept DEF AnswerSettings, WantsSettings, ContinueStartTLS,
                            SendOpeningNegotiation, Down, socketVars
  <1>2. CASE AnswerWillBind
    <2>1. CASE UNCHANGED <<state, socket, callbacks>>
      BY <2>1, SocketKept DEF Down
    <2>2. CASE EndsInStart /\ EndsCustomBinding
      <3>1. Established
        BY <1>2, <2>2, AnswersTypes DEF AnswerWillBind, NoLateEnd, InTime
      <3>2. /\ Established'
            /\ ClosesSocket \/ UNCHANGED <<socket, callbacks>>
        BY <2>2, <3>1 DEF EndsCustomBinding, ContinuePostBinding, Established, socketVars
      <3> QED
        BY <3>1, <3>2, EstablishedSocket
    <2> QED
      BY <1>2, <2>1, <2>2 DEF AnswerWillBind, StartCustomBinding, FallsBack,
                              StartStandardBinding, socketVars
  <1>3. CASE AnswerResource
    BY <1>3, SocketKept DEF AnswerResource, Down, socketVars
  <1> QED
    BY <1>1, <1>2, <1>3 DEF Delegates

LEMMA NetworkSocket ==
    ASSUME Inv, SocketInv, Network \/ SocketCloses \/ ServerPushes
    PROVE  SocketInv'
  <1>1. CASE SocketConnects \/ SocketReads
    <2>1. callbacks \in Seq(CallbackSet)
      BY CallbacksType
    <2>2. PICK c \in CallbackSet : /\ callbacks' = Append(callbacks, c)
                                  /\ c.kind \in {"connected", "read"}
      <3>1. CASE SocketConnects
        BY <3>1, ClosedType DEF SocketConnects, Callback
      <3>2. CASE SocketReads
        <4>1. PICK n \in 1..Len(wire) :
                callbacks' = Append(callbacks, Callback("read", SubSeq(wire, 1, n)))
          BY <3>2 DEF SocketReads
        <4>2. wire \in Seq(ElemSet)
          BY DEF Inv, TypeOK, SocketTypes
        <4>3. SubSeq(wire, 1, n) \in Seq(ElemSet)
          <5> HIDE DEF ElemSet
          <5> QED
            BY <4>1, <4>2
        <4>4. Callback("read", SubSeq(wire, 1, n)) \in CallbackSet
          BY <4>3 DEF Callback, CallbackSet
        <4>5. Callback("read", SubSeq(wire, 1, n)).kind = "read"
          BY DEF Callback
        <4> QED
          BY <4>1, <4>4, <4>5
      <3> QED
        BY <1>1, <3>1, <3>2
    <2>3. socket # "idle" /\ socket' # "idle" /\ UNCHANGED state
      BY <1>1 DEF SocketConnects, SocketReads, NetworkStep
    <2>4. DOMAIN callbacks' = 1..(Len(callbacks) + 1) /\ callbacks'[Len(callbacks) + 1] = c
      BY <2>1, <2>2
    <2>5. \A i \in DOMAIN callbacks : callbacks'[i] = callbacks[i]
      BY <2>1, <2>2
    <2>6. DOMAIN callbacks = 1..Len(callbacks) /\ Len(callbacks) \in Nat
      BY <2>1
    <2>7. \A i \in DOMAIN callbacks' : callbacks'[i].kind # "closed"
      BY <2>2, <2>3, <2>4, <2>5, <2>6 DEF SocketInv
    <2> QED
      BY <2>3, <2>7 DEF SocketInv, Down
  <1>2. CASE SocketCloses
    BY <1>2, SocketClosed DEF SocketCloses, NetworkStep, SocketInv, Down
  <1>3. CASE ServerAnswers \/ ServerPushes
    BY <1>3, SocketKept DEF ServerAnswers, ServerPushes, NetworkStep, Down
  <1> QED
    BY <1>1, <1>2, <1>3 DEF Network

LEMMA ResolvedSocket == ASSUME Inv, SocketInv, DidResolve \/ DoConnectTimeout PROVE SocketInv'
  <1>1. CASE DidResolve
    <2>1. CASE UNCHANGED <<state, socket>>
      BY <1>1, <2>1, SocketKept DEF DidResolve, Down
    <2>2. CASE ~UNCHANGED <<state, socket>>
      <3>1. srvResolver \in resolvers /\ UNCHANGED callbacks
        BY <1>1, <2>2 DEF DidResolve
      <3>2. Down
        BY <3>1 DEF Inv, Control, ResolverInUse, Down
      <3>3. \/ Down' /\ UNCHANGED socket
            \/ ~Down' /\ socket' = "connecting"
        BY <1>1, <2>2 DEF DidResolve, TryNextSrvResult, BeginsConnection, Down
      <3> QED
        BY <3>1, <3>2, <3>3 DEF SocketInv
    <2> QED
      BY <2>1, <2>2
  <1>2. CASE DoConnectTimeout
    <2>1. CASE StopsConnecting
      BY <2>1, SocketKept DEF StopsConnecting, Down, socketVars
    <2>2. CASE LeavesToSocket
      BY <2>2, SocketClosed DEF LeavesToSocket, Down
    <2>3. CASE UNCHANGED <<state, socketVars>>
      BY <2>3, SocketKept DEF Down, socketVars
    <2> QED
      BY <1>2, <2>1, <2>2, <2>3 DEF DoConnectTimeout
  <1> QED
    BY <1>1, <1>2

\* A stream that is neither disconnected nor resolving has a connection or will hear of its
\* end: whatever happened, socketDidDisconnect:withError: brings it back.
THEOREM SocketCorrect == ASSUME NoLateEnd PROVE Spec => []AliveHasSocket
  <1>1. Init => SocketInv
    BY DEF Init, SocketInv, Down
  <1>2. Inv /\ SocketInv /\ [Next]_vars => SocketInv'
    <2> SUFFICES ASSUME Inv, SocketInv, [Next]_vars PROVE SocketInv'
      OBVIOUS
    <2>1. CASE UNCHANGED vars
      BY <2>1, SocketKept DEF vars, Down, socketVars
    <2> QED
      BY <2>1, ApplicationSocket, CallbackSocket, ParsedSocket, DelegatesSocket, NetworkSocket,
         ResolvedSocket DEF Next
  <1>3. Inv /\ SocketInv => AliveHasSocket
    BY SocketInvImplies
  <1> QED
    BY <1>1, <1>2, <1>3, Invariance, PTL DEF Spec

-----------------------------------------------------------------------------
(* AuthenticatedByServer.  A success that somebody may still read was granted  *)
(* on this TCP connection: on the wire, in the data of a read, and among the   *)
(* elements of a parser of this connection.  Those of earlier connections stay *)
(* on the xmppQueue, but no parser of theirs is in use.                        *)

On(q) == {q[i] : i \in DOMAIN q}

Granted(e) == e.value = "success" => "auth" \in granted

ParserIsOfConn == parser # NoParser => parser[1] = conn

ParsedGranted ==
    \A p \in On(parsed) : p.parser[1] <= conn /\ (p.parser[1] = conn => Granted(p.elem))

CallbacksGranted == \A c \in On(callbacks) : \A e \in On(c.data) : Granted(e)

WireGranted == (\A e \in On(wire) : Granted(e)) /\ (socket = "idle" => wire = <<>>)

GrantInv ==
    AuthenticatedByServer /\ ParserIsOfConn /\ ParsedGranted /\ CallbacksGranted /\ WireGranted

LEMMA OnMembers == ASSUME NEW S, NEW q \in Seq(S) PROVE On(q) \subseteq S
  BY DEF On

LEMMA ParsedType == ASSUME Inv PROVE parsed \in Seq(Entries)
  BY DEF Inv, TypeOK, WaitingTypes, Entries

LEMMA WireType == ASSUME Inv PROVE wire \in Seq(ElemSet)
  BY DEF Inv, TypeOK, SocketTypes

LEMMA OnTail == ASSUME NEW S, NEW q \in Seq(S), q # <<>> PROVE On(Tail(q)) \subseteq On(q)
  <1>1. \A i \in DOMAIN Tail(q) : i + 1 \in DOMAIN q /\ Tail(q)[i] = q[i + 1]
    OBVIOUS
  <1> QED
    BY <1>1 DEF On

LEMMA OnHead == ASSUME NEW S, NEW q \in Seq(S), q # <<>> PROVE Head(q) \in On(q)
  <1>1. 1 \in DOMAIN q /\ Head(q) = q[1]
    OBVIOUS
  <1> QED
    BY <1>1 DEF On

LEMMA OnAppend ==
    ASSUME NEW S, NEW q \in Seq(S), NEW e \in S
    PROVE  On(Append(q, e)) \subseteq On(q) \cup {e}
  <1>1. \A i \in DOMAIN Append(q, e) :
          (i \in DOMAIN q /\ Append(q, e)[i] = q[i]) \/ Append(q, e)[i] = e
    OBVIOUS
  <1> QED
    BY <1>1 DEF On

LEMMA OnConcat ==
    ASSUME NEW S, NEW q \in Seq(S), NEW r \in Seq(S)
    PROVE  On(q \o r) \subseteq On(q) \cup On(r)
  <1>1. \A i \in DOMAIN (q \o r) : \/ i \in DOMAIN q /\ (q \o r)[i] = q[i]
                                   \/ i - Len(q) \in DOMAIN r /\ (q \o r)[i] = r[i - Len(q)]
    OBVIOUS
  <1> QED
    BY <1>1 DEF On

LEMMA OnPart ==
    ASSUME NEW S, NEW q \in Seq(S), NEW m \in Nat \ {0}, NEW n \in 0..Len(q)
    PROVE  On(SubSeq(q, m, n)) \subseteq On(q)
  <1>1. \A i \in DOMAIN SubSeq(q, m, n) :
          m + i - 1 \in DOMAIN q /\ SubSeq(q, m, n)[i] = q[m + i - 1]
    OBVIOUS
  <1> QED
    BY <1>1 DEF On

LEMMA OnEmpty == On(<<>>) = {}
  BY DEF On

\* What a step that reads nothing does to the callbacks and the wire.
SocketAsWas ==
    \/ UNCHANGED <<callbacks, wire, socket>>
    \/ callbacks # <<>> /\ callbacks' = Tail(callbacks) /\ UNCHANGED <<wire, socket>>
    \/ ClosesSocket

LEMMA SocketAsWasGranted ==
    ASSUME Inv, CallbacksGranted, WireGranted, SocketAsWas, UNCHANGED granted
    PROVE  CallbacksGranted' /\ WireGranted'
  <1>1. CASE UNCHANGED <<callbacks, wire, socket>>
    BY <1>1 DEF CallbacksGranted, WireGranted, Granted
  <1>2. CASE ClosesSocket
    <2>1. WireGranted'
      BY <1>2, OnEmpty DEF ClosesSocket, WireGranted
    <2>2. On(callbacks') \subseteq On(callbacks) \cup {Callback("closed", <<>>)}
      BY <1>2, OnAppend, CallbacksType, ClosedType DEF ClosesSocket
    <2>3. On(Callback("closed", <<>>).data) = {}
      BY OnEmpty DEF Callback
    <2> QED
      BY <2>1, <2>2, <2>3 DEF CallbacksGranted, Granted
  <1>3. CASE callbacks # <<>> /\ callbacks' = Tail(callbacks) /\ UNCHANGED <<wire, socket>>
    <2>1. On(callbacks') \subseteq On(callbacks)
      BY <1>3, OnTail, CallbacksType
    <2> QED
      BY <1>3, <2>1 DEF CallbacksGranted, WireGranted, Granted
  <1> QED
    BY <1>1, <1>2, <1>3 DEF SocketAsWas

\* A step within a TCP connection that reads nothing and writes nothing.
LEMMA WithinGranted ==
    ASSUME Inv, GrantInv, UNCHANGED <<conn, granted>>, SocketAsWas,
           parsed' = parsed \/ (parsed # <<>> /\ parsed' = Tail(parsed)),
           parser' \in {parser, NoParser, NewParser},
           isAuthenticated' => isAuthenticated \/ "auth" \in granted
    PROVE  GrantInv'
  <1>1. CallbacksGranted' /\ WireGranted'
    BY SocketAsWasGranted DEF GrantInv
  <1>2. On(parsed') \subseteq On(parsed)
    BY OnTail DEF Inv, TypeOK, WaitingTypes
  <1>3. ParsedGranted'
    BY <1>2 DEF GrantInv, ParsedGranted, Granted
  <1>4. ParserIsOfConn'
    BY DEF GrantInv, ParserIsOfConn, NewParser
  <1>5. AuthenticatedByServer'
    BY DEF GrantInv, AuthenticatedByServer
  <1> QED
    BY <1>1, <1>3, <1>4, <1>5 DEF GrantInv

\* A new TCP connection.  Nothing is granted, and nothing waits that could be read on it.
LEMMA BeginsGranted ==
    ASSUME Inv, GrantInv, ~Established, BeginsConnection, socket = "idle", callbacks' = <<>>,
           UNCHANGED <<parser, isAuthenticated, parsed, wire>>
    PROVE  GrantInv'
  <1>1. parser' = NoParser /\ ~isAuthenticated'
    <2>1. NothingKept
      BY DEF Inv, TypeOK
    <2> QED
      BY <2>1 DEF NothingKept
  <1>2. conn \in Nat /\ conn' = conn + 1 /\ socket' = "connecting"
    BY DEF BeginsConnection, Inv, TypeOK, ServerTypes
  <1>3. \A p \in On(parsed) : p.parser[1] \in Nat /\ p.parser[1] <= conn
    <2>1. On(parsed) \subseteq Entries
      BY ParsedType, OnMembers
    <2>2. \A p \in Entries : p.parser[1] \in Nat
      BY DEF Entries
    <2> QED
      BY <2>1, <2>2 DEF GrantInv, ParsedGranted
  <1>4. ParsedGranted'
    BY <1>2, <1>3 DEF ParsedGranted
  <1>5. CallbacksGranted'
    BY OnEmpty DEF CallbacksGranted
  <1>6. WireGranted'
    BY <1>2, OnEmpty DEF GrantInv, WireGranted
  <1> QED
    BY <1>1, <1>4, <1>5, <1>6 DEF GrantInv, AuthenticatedByServer, ParserIsOfConn

LEMMA DownKeepsNothing ==
    ASSUME Inv, SocketInv, Down
    PROVE  ~Established /\ socket = "idle" /\ callbacks = <<>>
  BY DEF SocketInv, Down, Established

LEMMA ApplicationGranted ==
    ASSUME Inv, SocketInv, GrantInv, Application
    PROVE  GrantInv'
  <1>1. CASE ConnectWithTimeout
    <2>1. Down /\ UNCHANGED <<parser, isAuthenticated, parsed, wire, callbacks>>
      BY <1>1 DEF ConnectWithTimeout, Down, loginVars
    <2>2. CASE UNCHANGED <<serverVars, socket>>
      BY <2>1, <2>2, WithinGranted DEF SocketAsWas, serverVars
    <2>3. CASE BeginsConnection
      BY <2>1, <2>3, DownKeepsNothing, BeginsGranted
    <2> QED
      BY <1>1, <2>2, <2>3 DEF ConnectWithTimeout
  <1>2. CASE ~ConnectWithTimeout
    <2>1. /\ UNCHANGED <<conn, granted, parsed, parser, isAuthenticated>>
          /\ UNCHANGED socketVars \/ ClosesSocket
             \/ UNCHANGED <<callbacks, wire, socket>>
      BY <1>2 DEF Application, Disconnect, DisconnectAfterSending, AbortConnecting, Authenticate,
                  RegisterWithElements, SecureConnection, StopsConnecting, LeavesToSocket,
                  negVars, loginVars, serverVars, socketVars
    <2> QED
      BY <2>1, WithinGranted DEF SocketAsWas, socketVars
  <1> QED
    BY <1>1, <1>2

\* What is handed to the parser was granted, and the parser is one of this connection.
LEMMA DidReadDataGranted ==
    ASSUME Inv, GrantInv, DidReadData
    PROVE  GrantInv'
  <1> DEFINE c == Head(callbacks)
             Parsed(e) == [parser |-> parser, elem |-> e]
             new == [i \in 1..Len(c.data) |-> Parsed(c.data[i])]
  <1>1. /\ callbacks # <<>> /\ callbacks' = Tail(callbacks)
        /\ UNCHANGED <<wire, socket, conn, granted, parser, isAuthenticated>>
    BY DEF DidReadData, negVars, loginVars, serverVars
  <1>2. CallbacksGranted' /\ WireGranted'
    BY <1>1, SocketAsWasGranted DEF SocketAsWas, GrantInv
  <1>3. c \in On(callbacks) /\ c \in CallbackSet
    BY <1>1, CallbacksType, OnHead, TailType
  <1>4. c.data \in Seq(ElemSet) /\ \A e \in On(c.data) : Granted(e)
    BY <1>3 DEF GrantInv, CallbacksGranted, CallbackSet
  <1>5. \A e \in ElemSet : Parsed(e) \in Entries
    BY DEF Inv, TypeOK, NegTypes, Entries
  <1>6. new \in Seq(Entries) /\ <<Parsed(ChunkEnd)>> \in Seq(Entries)
    <2>1. Parsed(ChunkEnd) \in Entries
      BY <1>5, ElementTypes
    <2>2. \A i \in 1..Len(c.data) : Parsed(c.data[i]) \in Entries
      BY <1>4, <1>5
    <2> HIDE DEF Parsed, c
    <2> QED
      BY <1>4, <2>1, <2>2, OneElement
  <1>7. \A p \in On(new) : p.parser = parser /\ Granted(p.elem)
    <2>1. DOMAIN new = 1..Len(c.data) /\ 1..Len(c.data) = DOMAIN c.data
      BY <1>4
    <2>2. \A i \in DOMAIN new : new[i].parser = parser /\ new[i].elem = c.data[i]
      OBVIOUS
    <2> HIDE DEF new
    <2> QED
      BY <1>4, <2>1, <2>2 DEF On
  <1>8. \A p \in On(<<Parsed(ChunkEnd)>>) : p.parser = parser /\ Granted(p.elem)
    BY DEF On, ChunkEnd, Elem, Granted
  <1>9. parsed' = IF parser = NoParser THEN parsed ELSE parsed \o new \o <<Parsed(ChunkEnd)>>
    BY DEF DidReadData
  <1>10. ParsedGranted'
    <2>1. CASE parser = NoParser
      BY <1>1, <1>9, <2>1 DEF GrantInv, ParsedGranted, Granted
    <2>2. CASE parser # NoParser
      <3> HIDE DEF new, Parsed
      <3>1. On(parsed \o new) \subseteq On(parsed) \cup On(new)
        BY <1>6, ParsedType, OnConcat
      <3>2. On(parsed') \subseteq On(parsed \o new) \cup On(<<Parsed(ChunkEnd)>>)
        <4>1. parsed \o new \in Seq(Entries)
          BY <1>6, ParsedType, ConcatType
        <4> QED
          BY <1>6, <1>9, <2>2, <4>1, OnConcat
      <3>3. parser[1] = conn /\ conn \in Nat
        BY <2>2 DEF GrantInv, ParserIsOfConn, Inv, TypeOK, ServerTypes
      <3>4. \A p \in On(parsed') :
              p.parser[1] <= conn /\ (p.parser[1] = conn => Granted(p.elem))
        BY <1>7, <1>8, <3>1, <3>2, <3>3 DEF GrantInv, ParsedGranted
      <3> QED
        BY <1>1, <3>4 DEF ParsedGranted, Granted
    <2> QED
      BY <2>1, <2>2
  <1>11. ParserIsOfConn' /\ AuthenticatedByServer'
    BY <1>1 DEF GrantInv, ParserIsOfConn, AuthenticatedByServer
  <1> QED
    BY <1>2, <1>10, <1>11 DEF GrantInv

LEMMA TryNextGranted ==
    ASSUME NEW first \in Nat, NEW count \in Nat, TryNextSrvResult(first, count)
    PROVE  BeginsConnection \/ UNCHANGED <<conn, granted, socket>>
  BY DEF TryNextSrvResult, serverVars

LEMMA CallbackGranted ==
    ASSUME Inv, SocketInv, GrantInv, HandleCallback
    PROVE  GrantInv'
  <1>1. CASE DidConnectToHost
    <2>1. parser' \in {parser, NewParser}
      BY <1>1 DEF DidConnectToHost, StartTLS, ContinueStartTLS, SendOpeningNegotiation, negVars
    <2> QED
      BY <1>1, <2>1, WithinGranted DEF DidConnectToHost, SocketAsWas, loginVars, serverVars
  <1>2. CASE DidReadData
    BY <1>2, DidReadDataGranted
  <1>3. CASE SocketDidDisconnect
    <2>1. callbacks # <<>> /\ callbacks' = Tail(callbacks) /\ UNCHANGED <<parsed, wire>>
      BY <1>3 DEF SocketDidDisconnect
    <2>2. socket = "idle" /\ callbacks' = <<>>
      BY <1>3, EndTaken DEF SocketDidDisconnect
    <2>3. CASE /\ srvResultsIndex + 1 < srvResults
               /\ TryNextSrvResult(srvResultsIndex + 1, srvResults)
               /\ UNCHANGED <<negVars, loginVars>>
      <3>1. srvResultsIndex \in Nat /\ srvResults \in Nat
        BY DEF Inv, TypeOK, SrvTypes
      <3>2. ~Established
        BY <2>3, <3>1 DEF Inv, Control, EstablishedForgets
      <3>3. UNCHANGED <<parser, isAuthenticated>>
        BY <2>3 DEF negVars, loginVars
      <3>4. CASE BeginsConnection
        BY <2>1, <2>2, <3>2, <3>3, <3>4, BeginsGranted
      <3>5. CASE UNCHANGED <<conn, granted, socket>>
        BY <2>1, <3>3, <3>5, WithinGranted DEF SocketAsWas
      <3> QED
        BY <2>3, <3>1, <3>4, <3>5, TryNextGranted
    <2>4. CASE Releases /\ UNCHANGED <<socket, serverVars>>
      BY <2>1, <2>4, WithinGranted DEF Releases, SocketAsWas, serverVars
    <2> QED
      BY <1>3, <2>3, <2>4 DEF SocketDidDisconnect
  <1> QED
    BY <1>1, <1>2, <1>3 DEF HandleCallback

\* An element of the current parser is one of this connection.
LEMMA CurrentIsGranted ==
    ASSUME Inv, GrantInv, parsed # <<>>, FromCurrentParser
    PROVE  Granted(elem)
  <1>1. Head(parsed) \in On(parsed)
    BY ParsedType, OnHead
  <1>2. parser # NoParser
    <2>1. Head(parsed) = parsed[1] /\ 1 \in DOMAIN parsed
      BY ParsedType
    <2> QED
      BY <2>1 DEF Inv, Control, NoStrayElements, FromCurrentParser
  <1> QED
    BY <1>1, <1>2 DEF GrantInv, ParserIsOfConn, ParsedGranted, FromCurrentParser, elem

\* What every handler of the parser's callbacks has in common.
LEMMA TakesParsedFrame ==
    ASSUME TakesParsed
    PROVE  parsed # <<>> /\ parsed' = Tail(parsed) /\ UNCHANGED <<conn, granted>>
  BY DEF TakesParsed, serverVars

LEMMA ParsedGrantedStep ==
    ASSUME Inv, GrantInv, HandleParsed
    PROVE  GrantInv'
  <1>1. TakesParsed
    BY DEF HandleParsed, IgnoreOldParser, DidReadRoot, DidParseData, ParserDidEnd,
           HandleStreamFeatures, HandleStartTLSResponse, HandleRegistration, HandleAuth,
           HandleCustomBinding, HandleStandardBinding, HandleStartSessionResponse, IgnoreElement,
           TakesElement
  <1>2. SocketAsWas
    BY DEF SocketAsWas, HandleParsed, IgnoreOldParser, DidReadRoot, DidParseData, ParserDidEnd,
           HandleStreamFeatures, HandleStartTLSResponse, HandleRegistration, HandleAuth,
           HandleCustomBinding, HandleStandardBinding, HandleStartSessionResponse, IgnoreElement,
           FallsBack, EndsCustomBinding, socketVars
  <1>3. parser' \in {parser, NoParser, NewParser}
    BY DEF HandleParsed, IgnoreOldParser, DidReadRoot, DidParseData, ParserDidEnd,
           HandleStreamFeatures, HandleStartTLSResponse, HandleRegistration, HandleAuth,
           HandleCustomBinding, HandleStandardBinding, HandleStartSessionResponse, IgnoreElement,
           StartTLS, ContinueStartTLS, SendOpeningNegotiation, negVars
  <1>4. isAuthenticated' => isAuthenticated \/ "auth" \in granted
    <2>1. CASE HandleAuth
      <3>1. CASE elem.value = "success"
        BY <1>1, <2>1, <3>1, CurrentIsGranted DEF HandleAuth, TakesElement, TakesParsed, Granted
      <3>2. CASE elem.value # "success"
        <4>1. isAuthenticated' = isAuthenticated
          BY <2>1, <3>2 DEF HandleAuth
        <4> QED
          BY <4>1
      <3> QED
        BY <3>1, <3>2
    <2>2. CASE ~HandleAuth
      <3>1. isAuthenticated' = isAuthenticated
        BY <2>2 DEF HandleParsed, IgnoreOldParser, DidReadRoot, DidParseData, ParserDidEnd,
               HandleStreamFeatures, HandleStartTLSResponse, HandleRegistration,
               HandleCustomBinding, HandleStandardBinding, HandleStartSessionResponse,
               IgnoreElement, loginVars
      <3> QED
        BY <3>1
    <2> QED
      BY <2>1, <2>2
  <1> QED
    BY <1>1, <1>2, <1>3, <1>4, TakesParsedFrame, WithinGranted

LEMMA DelegatesGranted ==
    ASSUME Inv, GrantInv, Delegates
    PROVE  GrantInv'
  <1>1. UNCHANGED <<conn, granted, parsed, isAuthenticated>>
    BY DEF Delegates, AnswerSettings, AnswerWillBind, AnswerResource, Answers, serverVars, loginVars
  <1>2. SocketAsWas
    BY DEF Delegates, AnswerSettings, AnswerWillBind, AnswerResource, StartCustomBinding,
           FallsBack, EndsCustomBinding, SocketAsWas, socketVars
  <1>3. parser' \in {parser, NewParser}
    BY DEF Delegates, AnswerSettings, AnswerWillBind, AnswerResource, ContinueStartTLS,
           SendOpeningNegotiation, negVars
  <1> QED
    BY <1>1, <1>2, <1>3, WithinGranted

\* A server that only ever grants more leaves granted what was.
LEMMA GrantedGrows ==
    ASSUME GrantInv, granted \subseteq granted',
           UNCHANGED <<conn, parser, parsed, isAuthenticated>>
    PROVE  AuthenticatedByServer' /\ ParserIsOfConn' /\ ParsedGranted'
  BY DEF GrantInv, AuthenticatedByServer, ParserIsOfConn, ParsedGranted, Granted

LEMMA SocketReadsGranted ==
    ASSUME Inv, GrantInv, SocketReads
    PROVE  GrantInv'
  <1>1. UNCHANGED <<conn, granted, parser, parsed, isAuthenticated, socket>> /\ socket = "open"
    BY DEF SocketReads, NetworkStep, serverVars, negVars, loginVars
  <1>2. PICK n \in 1..Len(wire) :
          /\ callbacks' = Append(callbacks, Callback("read", SubSeq(wire, 1, n)))
          /\ wire' = SubSeq(wire, n + 1, Len(wire))
    BY DEF SocketReads
  <1>3. Len(wire) \in Nat /\ n \in 0..Len(wire) /\ n + 1 \in Nat \ {0}
    BY WireType
  <1>4. On(SubSeq(wire, 1, n)) \subseteq On(wire) /\ On(wire') \subseteq On(wire)
    BY <1>2, <1>3, WireType, OnPart
  <1>5. SubSeq(wire, 1, n) \in Seq(ElemSet)
    <2> HIDE DEF ElemSet
    <2> QED
      BY <1>2, WireType
  <1>6. Callback("read", SubSeq(wire, 1, n)) \in CallbackSet
    BY <1>5 DEF Callback, CallbackSet
  <1>7. On(callbacks') \subseteq On(callbacks) \cup {Callback("read", SubSeq(wire, 1, n))}
    BY <1>2, <1>6, CallbacksType, OnAppend
  <1>8. Callback("read", SubSeq(wire, 1, n)).data = SubSeq(wire, 1, n)
    BY DEF Callback
  <1>9. CallbacksGranted'
    BY <1>1, <1>4, <1>7, <1>8 DEF GrantInv, CallbacksGranted, WireGranted, Granted
  <1>10. WireGranted'
    BY <1>1, <1>4 DEF GrantInv, WireGranted, Granted
  <1> QED
    BY <1>1, <1>9, <1>10, GrantedGrows DEF GrantInv

\* A success is the only element of an answer.
LEMMA SuccessIsFirst ==
    ASSUME NEW r \in RequestSet, NEW again \in BOOLEAN,
           NEW answer \in AnswersTo(r, again) \cup {<<Elem("eof", "none", "none")>>},
           NEW e \in On(answer), e.value = "success"
    PROVE  answer[1].value = "success"
  <1>1. CASE e = answer[1]
    BY <1>1
  <1>2. CASE e # answer[1]
    <2>1. PICK i \in DOMAIN answer : i # 1 /\ answer[i] = e
      BY <1>2 DEF On
    <2>2. answer \notin {<<Elem("eof", "none", "none")>>, <<Elem("root", "old", "none")>>}
      BY <2>1
    <2>3. \A v : answer # <<Elem(r.kind, v, r.id)>>
      BY <2>1
    <2>4. r.kind = "header"
      <3>1. CASE r.kind \in {"starttls", "auth"}
        BY <2>2, <2>3, <3>1 DEF AnswersTo
      <3>2. CASE r.kind \in {"bind", "custom"}
        BY <2>2, <2>3, <3>2 DEF AnswersTo
      <3>3. CASE r.kind \notin {"header", "starttls", "auth", "bind", "custom"}
        BY <2>2, <2>3, <3>3 DEF AnswersTo
      <3> QED
        BY <3>1, <3>2, <3>3
    <2>5. \E f \in Offers : answer = <<Elem("root", "rfc", "none"), Features(f)>>
      BY <2>2, <2>4 DEF AnswersTo
    <2>6. i = 2 /\ e.value = "none"
      BY <2>1, <2>5 DEF Features, Elem
    <2> QED
      BY <2>6
  <1> QED
    BY <1>1, <1>2

LEMMA ServerAnswersGranted ==
    ASSUME Inv, GrantInv, ServerAnswers
    PROVE  GrantInv'
  <1>1. UNCHANGED <<conn, parser, parsed, isAuthenticated, socket, callbacks>> /\ socket = "open"
    BY DEF ServerAnswers, NetworkStep, negVars, loginVars
  <1>2. Head(requests) \in RequestSet
    BY TailType DEF ServerAnswers, Inv, TypeOK, TrafficTypes
  <1>3. (rounds < MaxRounds) \in BOOLEAN
    BY BoundsAssumption DEF BoundsAssumption, Inv, TypeOK, ServerTypes
  <1>4. PICK answer \in AnswersTo(Head(requests), rounds < MaxRounds)
                          \cup {<<Elem("eof", "none", "none")>>} :
          /\ wire' = wire \o answer
          /\ granted' = granted \cup CASE answer[1].value = "success" -> {"auth"}
                                       [] answer[1].value \in {"jid", "done"} -> {"bind"}
                                       [] OTHER -> {}
    BY DEF ServerAnswers
  <1>5. answer \in Seq(ElemSet)
    <2>1. <<Elem("eof", "none", "none")>> \in Seq(ElemSet)
      BY ElementTypes, OneElement
    <2> QED
      BY <1>2, <1>3, <2>1, AnswersToTypes
  <1>6. granted \subseteq granted'
    BY <1>4
  <1>7. \A e \in On(answer) : e.value = "success" => "auth" \in granted'
    <2> SUFFICES ASSUME NEW e \in On(answer), e.value = "success" PROVE "auth" \in granted'
      OBVIOUS
    <2>1. answer[1].value = "success"
      BY <1>2, <1>3, SuccessIsFirst
    <2> QED
      BY <1>4, <2>1
  <1>8. On(wire') \subseteq On(wire) \cup On(answer)
    BY <1>4, <1>5, WireType, OnConcat
  <1>9. WireGranted'
    BY <1>1, <1>6, <1>7, <1>8 DEF GrantInv, WireGranted, Granted
  <1>10. CallbacksGranted'
    BY <1>1, <1>6 DEF GrantInv, CallbacksGranted, Granted
  <1> QED
    BY <1>1, <1>6, <1>9, <1>10, GrantedGrows DEF GrantInv

LEMMA NetworkGranted ==
    ASSUME Inv, GrantInv, Network \/ SocketCloses \/ ServerPushes
    PROVE  GrantInv'
  <1>1. CASE SocketConnects
    <2>1. UNCHANGED <<conn, granted, parser, parsed, isAuthenticated, wire>> /\ socket' = "open"
      BY <1>1 DEF SocketConnects, NetworkStep, serverVars, negVars, loginVars
    <2>2. On(callbacks') \subseteq On(callbacks) \cup {Callback("connected", <<>>)}
      BY <1>1, OnAppend, CallbacksType, ClosedType DEF SocketConnects
    <2>3. On(Callback("connected", <<>>).data) = {}
      BY OnEmpty DEF Callback
    <2>4. CallbacksGranted' /\ WireGranted'
      BY <2>1, <2>2, <2>3 DEF GrantInv, CallbacksGranted, WireGranted, Granted
    <2> QED
      BY <2>1, <2>4, GrantedGrows DEF GrantInv
  <1>2. CASE SocketCloses
    BY <1>2, WithinGranted DEF SocketCloses, NetworkStep, SocketAsWas, serverVars, negVars, loginVars
  <1>3. CASE ServerPushes
    <2>1. /\ UNCHANGED <<conn, granted, parser, parsed, isAuthenticated, callbacks, socket>>
          /\ socket = "open"
      BY <1>3 DEF ServerPushes, NetworkStep, negVars, loginVars
    <2>2. On(wire') \subseteq On(wire) \cup {Elem("stanza", "none", "none")}
      BY <1>3, OnAppend, WireType, ElementTypes DEF ServerPushes
    <2>3. WireGranted' /\ CallbacksGranted'
      BY <2>1, <2>2 DEF GrantInv, WireGranted, CallbacksGranted, Granted, Elem
    <2> QED
      BY <2>1, <2>3, GrantedGrows DEF GrantInv
  <1> QED
    BY <1>1, <1>2, <1>3, SocketReadsGranted, ServerAnswersGranted DEF Network

LEMMA ResolvedGranted ==
    ASSUME Inv, SocketInv, GrantInv, DidResolve \/ DoConnectTimeout
    PROVE  GrantInv'
  <1>1. CASE DidResolve
    <2>1. UNCHANGED <<parser, isAuthenticated, parsed, wire, callbacks>>
      BY <1>1 DEF DidResolve, negVars, loginVars
    <2>2. CASE UNCHANGED <<conn, granted, socket>>
      BY <2>1, <2>2, WithinGranted DEF SocketAsWas
    <2>3. CASE ~UNCHANGED <<conn, granted, socket>>
      <3>1. BeginsConnection /\ srvResolver \in resolvers
        BY <1>1, <2>3 DEF DidResolve, TryNextSrvResult, serverVars
      <3>2. Down
        BY <3>1 DEF Inv, Control, ResolverInUse, Down
      <3> QED
        BY <2>1, <3>1, <3>2, DownKeepsNothing, BeginsGranted
    <2> QED
      BY <2>2, <2>3
  <1>2. CASE DoConnectTimeout
    <2>1. UNCHANGED <<conn, granted, parsed, parser, isAuthenticated>>
      BY <1>2 DEF DoConnectTimeout, serverVars, negVars, loginVars
    <2>2. SocketAsWas
      BY <1>2 DEF DoConnectTimeout, StopsConnecting, LeavesToSocket, SocketAsWas, socketVars
    <2> QED
      BY <2>1, <2>2, WithinGranted
  <1> QED
    BY <1>1, <1>2

LEMMA SocketGrantInit == Init => SocketInv /\ GrantInv
  BY OnEmpty DEF Init, SocketInv, Down, GrantInv, AuthenticatedByServer, ParserIsOfConn,
                 ParsedGranted, CallbacksGranted, WireGranted

LEMMA SocketGrantStep ==
    ASSUME NoLateEnd, Inv, SocketInv, GrantInv, [Next]_vars
    PROVE  SocketInv' /\ GrantInv'
  <1>1. CASE UNCHANGED vars
    <2>1. UNCHANGED <<state, callbacks, wire, socket, conn, granted, parsed, parser,
                      isAuthenticated>>
      BY <1>1 DEF vars, socketVars, serverVars, negVars, loginVars
    <2> QED
      BY <2>1, SocketKept, WithinGranted DEF SocketAsWas, Down
  <1>2. CASE Next
    <2>1. SocketInv'
      BY <1>2, ApplicationSocket, CallbackSocket, ParsedSocket, DelegatesSocket, NetworkSocket,
         ResolvedSocket DEF Next
    <2>2. GrantInv'
      BY <1>2, ApplicationGranted, CallbackGranted, ParsedGrantedStep, DelegatesGranted,
         NetworkGranted, ResolvedGranted DEF Next
    <2> QED
      BY <2>1, <2>2
  <1> QED
    BY <1>1, <1>2

\* A stream that counts as authenticated was authenticated by the server of this TCP
\* connection, whatever earlier connections and parsers left on the xmppQueue.
THEOREM AuthCorrect == ASSUME NoLateEnd PROVE Spec => []AuthenticatedByServer
  <1>1. Inv /\ SocketInv /\ GrantInv /\ [Next]_vars => SocketInv' /\ GrantInv'
    BY SocketGrantStep
  <1>2. GrantInv => AuthenticatedByServer
    BY DEF GrantInv
  <1> QED
    BY <1>1, <1>2, SocketGrantInit, Invariance, PTL DEF Spec

-----------------------------------------------------------------------------
(* OneReader and ConnectedIsAnnounced.  What is under way between the stream   *)
(* and its server is pending: requests, and elements on the wire, in the data  *)
(* of a read, or with the parser in use.  Until a resource is bound the two    *)
(* take turns, so that at most one exchange is under way.  An exchange that    *)
(* opens a stream is a header, then a root and its features, and weighs three; *)
(* every other weighs one.  What weighs nothing is not there: that is why no   *)
(* stream features can arrive after TLS is on, or after the resource is bound. *)

Exchanged == {e \in ElemSet : e.kind # "chunkEnd"}
Roots     == {e \in Exchanged : e.kind = "root"}
OldRoots  == {e \in Roots : e.value = "old"}
Headers   == {r \in RequestSet : r.kind = "header"}
Served    == {e \in Exchanged : e.kind # "features" => e.offers = NoFeatures}

OfParser(p, S) == {x \in Entries : x.parser = p /\ x.elem \in S}

Among(q, S) == Cardinality({i \in DOMAIN q : q[i] \in S})

ElemWeight(q)      == Among(q, Exchanged) + Among(q, Roots) + Among(q, OldRoots)
RequestWeight(q)   == Among(q, RequestSet) + Among(q, Headers) + Among(q, Headers)
ParsedWeight(q, p) == Among(q, OfParser(p, Exchanged)) + Among(q, OfParser(p, Roots))
                        + Among(q, OfParser(p, OldRoots))

Reading(c) == c # <<>> /\ c[1].kind = "read"
Data(c)    == IF Reading(c) THEN c[1].data ELSE <<>>

Weight(r, w, c, q, p) ==
    RequestWeight(r) + ElemWeight(w) + ElemWeight(Data(c)) + ParsedWeight(q, p)

Owned(q, p)         == {x.elem : x \in {y \in On(q) : y.parser = p /\ y.elem \in Exchanged}}
Pending(w, c, q, p) == On(w) \cup On(Data(c)) \cup Owned(q, p)

Underway == Weight(requests, wire, callbacks, parsed, parser)
Arriving == Pending(wire, callbacks, parsed, parser)

Room(s) == IF s = "OPENING" THEN 3 ELSE IF s \in {"CONNECTED", "STARTTLS_2"} THEN 0 ELSE 1

Asked    == {q \in questions : q.kind # "settings"}
Bound    == "bind" \in granted
Answered == heard \cap {"didAuthenticate", "didNotAuthenticate"} # {}

\* The queues of the socket, before and after a stream is established.
Queues ==
    /\ socket # "open" => reads = 0 /\ wire = <<>> /\ requests = <<>>
    /\ socket = "connecting" => state = "CONNECTING" /\ callbacks = <<>>
    /\ state = "CONNECTING" =>
         /\ reads = 0 /\ wire = <<>> /\ requests = <<>> /\ granted = {} /\ ~Reading(callbacks)
         /\ socket = "open" => callbacks # <<>> /\ callbacks[1].kind = "connected"
    /\ Established => ~(callbacks # <<>> /\ callbacks[1].kind = "connected")
    /\ \A i \in DOMAIN callbacks : callbacks[i].kind # "closed" => i = 1
    /\ Arriving \subseteq Served

\* Parsers are numbered in the order they are made.
Numbered ==
    /\ parser # NoParser => parser[2] >= 1
    /\ ~Down => \A x \in On(parsed) :
                  x.parser[1] = conn => parser[1] = conn /\ x.parser[2] <= parser[2]
    /\ isAuthenticated => parser # NoParser
    /\ Established => parser # NoParser \/ (isSecure /\ state = "STARTTLS_2")

\* What the parser in use has read ends with the end of a chunk, and only there.
Own(q, p)    == {i \in DOMAIN q : q[i].parser = p}
OneEnd(q, p) == /\ Len(q) \in Own(q, p) /\ q[Len(q)].elem = ChunkEnd
                /\ \A i \in Own(q, p) : q[i].elem.kind = "chunkEnd" => i = Len(q)

ReadsInv ==
    Established =>
      /\ reads <= 1 /\ (Reading(callbacks) => reads = 0)
      /\ ~isSecure /\ Own(parsed, parser) # {} =>
           reads = 0 /\ ~Reading(callbacks) /\ OneEnd(parsed, parser)
      /\ state = "STARTTLS_2" => /\ reads = 0 /\ ~Reading(callbacks)
                                 /\ isSecure => parser = NoParser /\ ~Bound
      /\ Usable /\ state # "STARTTLS_2" =>
           reads = 1 \/ Reading(callbacks) \/ (~isSecure /\ Own(parsed, parser) # {})

\* Until a resource is bound, stream and server take turns.
Turns ==
    Established /\ ~Bound =>
      /\ Underway <= Room(state)
      /\ Asked # {} => Underway = 0 /\ state = "BINDING"
      /\ \A q, r \in Asked : q = r
      /\ \A r \in On(requests) : /\ r.kind = "auth" => state = "AUTH"
                                 /\ r.kind \in {"bind", "custom"} => state = "BINDING"

\* Once TLS is on it is not offered.
NoTLSTwice ==
    Established /\ isSecure => state # "STARTTLS_1" /\ \A e \in Arriving : e.offers.starttls = "no"

\* Once a resource is bound the stream is opened anew only for TLS, and only when the delegates
\* know of the authentication.
BoundStays ==
    Established /\ Bound =>
      /\ ~isSecure \/ ~Answered =>
           /\ \A r \in On(requests) : r.kind # "header"
           /\ \A e \in Arriving : e.kind \notin {"root", "features"}
      /\ state \in {"OPENING", "NEGOTIATING", "STARTTLS_1", "STARTTLS_2"} => Answered
      /\ (\E q \in Asked : q.kind = "willBind") => isSecure

\* Resources are bound for who is authenticated.
BindsAuthenticated ==
    /\ Established /\ state = "AUTH" => ~isAuthenticated
    /\ Asked # {} \/ state \in {"BINDING", "START_SESSION"} \/ (Established /\ Bound)
         => isAuthenticated

\* Only a success on its way to the stream separates what the server has granted from what
\* the stream knows.
Granting ==
    Established /\ ~isAuthenticated =>
      /\ "auth" \in granted => /\ state = "AUTH" /\ requests = <<>>
                               /\ \A e \in Arriving : e.value = "success"
      /\ \A e \in Arriving : ~e.offers.bind

\* The stream that restarts after its authentication is offered to bind a resource.
Restarting ==
    Established /\ isAuthenticated /\ ~Bound /\ state \in {"OPENING", "NEGOTIATING"} =>
      /\ parser[2] >= 2
      /\ \A r \in On(requests) : r.kind = "header"
      /\ \A e \in Arriving : \/ e.kind = "root" /\ e.value # "old"
                             \/ e.kind = "features" /\ e.offers.bind
                             \/ e.kind = "eof"

Announced ==
    state \in {"CONNECTED", "REGISTERING", "AUTH"} =>
      IF isAuthenticated THEN Answered ELSE "didConnect" \in heard

TurnInv ==
    /\ Turns /\ NoTLSTwice /\ BoundStays /\ BindsAuthenticated /\ Granting /\ Restarting
    /\ Announced

NegotiationInv == Queues /\ Numbered /\ ReadsInv /\ TurnInv

-----------------------------------------------------------------------------
(* Counting what is under way.                                                *)

Is(x, S) == IF x \in S THEN 1 ELSE 0

LEMMA AmongNat ==
    ASSUME NEW T, NEW q \in Seq(T), NEW S
    PROVE  /\ IsFiniteSet({i \in DOMAIN q : q[i] \in S}) /\ Among(q, S) \in Nat
           /\ Among(q, S) = 0 => \A i \in DOMAIN q : q[i] \notin S
  <1>1. DOMAIN q = 1..Len(q) /\ Len(q) \in Nat
    OBVIOUS
  <1>2. IsFiniteSet(1..Len(q))
    BY <1>1, FS_Interval
  <1>3. IsFiniteSet({i \in DOMAIN q : q[i] \in S})
    <2>1. {i \in DOMAIN q : q[i] \in S} \subseteq 1..Len(q)
      BY <1>1
    <2> QED
      BY <1>2, <2>1, FS_Subset
  <1>4. Among(q, S) \in Nat
    BY <1>3, FS_CardinalityType DEF Among
  <1>5. Among(q, S) = 0 => {i \in DOMAIN q : q[i] \in S} = {}
    BY <1>3, FS_EmptySet DEF Among
  <1> QED
    BY <1>3, <1>4, <1>5

LEMMA AmongOne == ASSUME NEW T, NEW e \in T, NEW S PROVE Among(<<e>>, S) = Is(e, S)
  <1> DEFINE P == {i \in DOMAIN <<e>> : <<e>>[i] \in S}
  <1>1. CASE e \in S
    <2>1. P = {1}
      BY <1>1
    <2> QED
      BY <1>1, <2>1, FS_Singleton DEF Among, Is
  <1>2. CASE e \notin S
    <2>1. P = {}
      BY <1>2
    <2> QED
      BY <1>2, <2>1, FS_EmptySet DEF Among, Is
  <1> QED
    BY <1>1, <1>2

LEMMA AmongEmpty == ASSUME NEW S PROVE Among(<<>>, S) = 0
  <1>1. {i \in DOMAIN <<>> : <<>>[i] \in S} = {}
    OBVIOUS
  <1> QED
    BY <1>1, FS_EmptySet DEF Among

LEMMA AmongConcat ==
    ASSUME NEW T, NEW q \in Seq(T), NEW r \in Seq(T), NEW S
    PROVE  Among(q \o r, S) = Among(q, S) + Among(r, S)
  <1> DEFINE P == {i \in DOMAIN q : q[i] \in S}
             Q == {i \in DOMAIN r : r[i] \in S}
             R == {i \in DOMAIN (q \o r) : (q \o r)[i] \in S}
             n == Len(q)
             M == {n + i : i \in Q}
  <1>1. /\ n \in Nat /\ Len(r) \in Nat /\ DOMAIN q = 1..n /\ DOMAIN r = 1..Len(r)
        /\ DOMAIN (q \o r) = 1..(n + Len(r))
        /\ \A i \in 1..n : (q \o r)[i] = q[i]
        /\ \A i \in 1..Len(r) : (q \o r)[n + i] = r[i]
    OBVIOUS
  <1>2. IsFiniteSet(P) /\ IsFiniteSet(Q) /\ Among(q, S) \in Nat /\ Among(r, S) \in Nat
    BY AmongNat
  <1>3. R = P \cup M
    <2>1. R \subseteq P \cup M
      <3> SUFFICES ASSUME NEW i \in R PROVE i \in P \cup M
        OBVIOUS
      <3>1. CASE i \in 1..n
        BY <1>1, <3>1
      <3>2. CASE i \notin 1..n
        <4>1. i - n \in 1..Len(r) /\ i = n + (i - n)
          BY <1>1, <3>2
        <4>2. i - n \in Q
          BY <1>1, <4>1
        <4> QED
          BY <4>1, <4>2
      <3> QED
        BY <3>1, <3>2
    <2>2. P \subseteq R
      BY <1>1
    <2>3. M \subseteq R
      BY <1>1
    <2> QED
      BY <2>1, <2>2, <2>3
  <1>4. P \cap M = {}
    BY <1>1
  <1>5. IsFiniteSet(M) /\ Cardinality(M) = Cardinality(Q)
    <2> DEFINE f == [i \in Q |-> n + i]
    <2>1. \A i \in Q : i \in Nat /\ f[i] = n + i
      BY <1>1
    <2>2. \A i, j \in Q : f[i] = f[j] => i = j
      BY <1>1, <2>1
    <2>3. f \in [Q -> M] /\ \A m \in M : \E i \in Q : f[i] = m
      OBVIOUS
    <2> HIDE DEF f, Q, M
    <2>4. f \in Injection(Q, M)
      BY <2>2, <2>3 DEF Injection, IsInjective
    <2>5. f \in Surjection(Q, M)
      BY <2>3 DEF Surjection
    <2>6. f \in Bijection(Q, M)
      BY <2>4, <2>5 DEF Bijection
    <2> QED
      BY <1>2, <2>6, FS_Bijection DEF ExistsBijection
  <1>6. Cardinality(P \cup M) = Cardinality(P) + Cardinality(M) - Cardinality({})
    <2> HIDE DEF P, M
    <2> QED
      BY <1>2, <1>4, <1>5, FS_Union
  <1>7. Cardinality(R) = Cardinality(P) + Cardinality(Q)
    <2> HIDE DEF P, Q, R, M
    <2>1. Cardinality({}) = 0 /\ Cardinality(P) \in Nat /\ Cardinality(Q) \in Nat
      BY <1>2, FS_EmptySet, FS_CardinalityType
    <2> QED
      BY <1>3, <1>5, <1>6, <2>1
  <1> QED
    <2>1. /\ Among(q, S) = Cardinality(P) /\ Among(r, S) = Cardinality(Q)
          /\ Among(q \o r, S) = Cardinality(R)
      BY DEF Among
    <2> QED
      BY <1>7, <2>1

LEMMA AmongAppend ==
    ASSUME NEW T, NEW q \in Seq(T), NEW e \in T, NEW S
    PROVE  Among(Append(q, e), S) = Among(q, S) + Is(e, S)
  <1>1. Append(q, e) = q \o <<e>> /\ <<e>> \in Seq(T)
    OBVIOUS
  <1>2. Among(q \o <<e>>, S) = Among(q, S) + Among(<<e>>, S)
    BY <1>1, AmongConcat
  <1>3. Among(<<e>>, S) = Is(e, S)
    BY AmongOne
  <1> QED
    BY <1>1, <1>2, <1>3

LEMMA AmongTail ==
    ASSUME NEW T, NEW q \in Seq(T), q # <<>>, NEW S
    PROVE  Among(q, S) = Is(Head(q), S) + Among(Tail(q), S)
  <1>1. Head(q) \in T /\ Tail(q) \in Seq(T) /\ <<Head(q)>> \in Seq(T)
    OBVIOUS
  <1>2. q = <<Head(q)>> \o Tail(q)
    OBVIOUS
  <1>3. Among(<<Head(q)>> \o Tail(q), S) = Among(<<Head(q)>>, S) + Among(Tail(q), S)
    BY <1>1, AmongConcat
  <1>4. Among(<<Head(q)>>, S) = Is(Head(q), S)
    BY <1>1, AmongOne
  <1> QED
    BY <1>2, <1>3, <1>4

\* What an element and a request weigh.
ElemIs(e) == Is(e, Exchanged) + Is(e, Roots) + Is(e, OldRoots)

LEMMA ElemIsValues ==
    ASSUME NEW e \in ElemSet
    PROVE  /\ ElemIs(e) \in 0..3
           /\ e.kind = "chunkEnd" => ElemIs(e) = 0
           /\ e.kind # "chunkEnd" => e \in Exchanged /\ ElemIs(e) >= 1
           /\ e.kind \notin {"chunkEnd", "root"} => ElemIs(e) = 1
           /\ e.kind = "root" => ElemIs(e) >= 2
           /\ e.kind = "root" /\ e.value = "old" => ElemIs(e) = 3
           /\ e.kind = "root" /\ e.value # "old" => ElemIs(e) = 2
  BY DEF ElemIs, Is, Exchanged, Roots, OldRoots

LEMMA ElemWeightNat ==
    ASSUME NEW q \in Seq(ElemSet)
    PROVE  /\ ElemWeight(q) \in Nat
           /\ ElemWeight(q) = 0 /\ On(q) \subseteq Exchanged => q = <<>>
  <1>1. /\ Among(q, Exchanged) \in Nat /\ Among(q, Roots) \in Nat /\ Among(q, OldRoots) \in Nat
        /\ Among(q, Exchanged) = 0 => \A i \in DOMAIN q : q[i] \notin Exchanged
    BY AmongNat
  <1>2. ElemWeight(q) \in Nat /\ (ElemWeight(q) = 0 => Among(q, Exchanged) = 0)
    BY <1>1 DEF ElemWeight
  <1>3. (\A i \in DOMAIN q : q[i] \notin Exchanged) /\ On(q) \subseteq Exchanged => DOMAIN q = {}
    BY DEF On
  <1>4. DOMAIN q = {} => q = <<>>
    OBVIOUS
  <1> QED
    BY <1>1, <1>2, <1>3, <1>4

LEMMA ElemWeightEmpty == ElemWeight(<<>>) = 0
  <1>1. /\ Among(<<>>, Exchanged) = 0 /\ Among(<<>>, Roots) = 0 /\ Among(<<>>, OldRoots) = 0
    BY AmongEmpty
  <1> QED
    BY <1>1 DEF ElemWeight

LEMMA ElemWeightConcat ==
    ASSUME NEW q \in Seq(ElemSet), NEW r \in Seq(ElemSet)
    PROVE  ElemWeight(q \o r) = ElemWeight(q) + ElemWeight(r)
  <1> DEFINE Adds(S) == /\ Among(q \o r, S) = Among(q, S) + Among(r, S)
                        /\ Among(q, S) \in Nat /\ Among(r, S) \in Nat
  <1>1. Adds(Exchanged) /\ Adds(Roots) /\ Adds(OldRoots)
    <2>1. ASSUME NEW S PROVE Adds(S)
      <3>1. Among(q \o r, S) = Among(q, S) + Among(r, S)
        BY AmongConcat
      <3>2. Among(q, S) \in Nat /\ Among(r, S) \in Nat
        BY AmongNat
      <3> QED
        BY <3>1, <3>2
    <2> HIDE DEF Adds
    <2> QED
      BY <2>1
  <1> QED
    BY <1>1 DEF ElemWeight

LEMMA ElemWeightOne == ASSUME NEW e \in ElemSet PROVE ElemWeight(<<e>>) = ElemIs(e)
  <1>1. /\ Among(<<e>>, Exchanged) = Is(e, Exchanged) /\ Among(<<e>>, Roots) = Is(e, Roots)
        /\ Among(<<e>>, OldRoots) = Is(e, OldRoots)
    BY AmongOne
  <1> QED
    BY <1>1 DEF ElemWeight, ElemIs

LEMMA ElemWeightSplit ==
    ASSUME NEW q \in Seq(ElemSet), NEW n \in 1..Len(q)
    PROVE  /\ SubSeq(q, 1, n) \in Seq(ElemSet) /\ SubSeq(q, n + 1, Len(q)) \in Seq(ElemSet)
           /\ ElemWeight(q) = ElemWeight(SubSeq(q, 1, n)) + ElemWeight(SubSeq(q, n + 1, Len(q)))
  <1> DEFINE a == SubSeq(q, 1, n)
             b == SubSeq(q, n + 1, Len(q))
  <1> HIDE DEF ElemSet
  <1>1. a \in Seq(ElemSet) /\ b \in Seq(ElemSet)
    OBVIOUS
  <1>2. q = a \o b
    <2>1. Len(a) = n /\ Len(b) = Len(q) - n /\ Len(a \o b) = Len(q)
      OBVIOUS
    <2>2. \A i \in 1..Len(q) : (a \o b)[i] = q[i]
      OBVIOUS
    <2>3. a \o b \in Seq(ElemSet)
      BY <1>1, ConcatType
    <2> DEFINE c == a \o b
    <2>4. c \in Seq(ElemSet) /\ Len(c) = Len(q) /\ \A i \in 1..Len(q) : c[i] = q[i]
      BY <2>1, <2>2, <2>3
    <2> HIDE DEF a, b, c
    <2>5. q = c
      BY <2>4
    <2> QED
      BY <2>5 DEF c
  <1>3. ElemWeight(a \o b) = ElemWeight(a) + ElemWeight(b)
    BY <1>1, ElemWeightConcat
  <1> HIDE DEF a, b
  <1>4. ElemWeight(q) = ElemWeight(a) + ElemWeight(b)
    BY <1>2, <1>3
  <1> QED
    BY <1>1, <1>4 DEF a, b

RequestIs(r) == IF r.kind = "header" THEN 3 ELSE 1

LEMMA RequestIsValues ==
    ASSUME NEW r \in RequestSet
    PROVE  /\ RequestIs(r) \in {1, 3}
           /\ Is(r, RequestSet) + Is(r, Headers) + Is(r, Headers) = RequestIs(r)
  BY DEF RequestIs, Is, Headers

LEMMA RequestWeightEmpty == RequestWeight(<<>>) = 0
  <1>1. Among(<<>>, RequestSet) = 0 /\ Among(<<>>, Headers) = 0
    BY AmongEmpty
  <1> QED
    BY <1>1 DEF RequestWeight

LEMMA RequestWeightNat ==
    ASSUME NEW q \in Seq(RequestSet)
    PROVE  /\ RequestWeight(q) \in Nat
           /\ RequestWeight(q) = 0 <=> q = <<>>
           /\ RequestWeight(q) < 3 => \A r \in On(q) : r.kind # "header"
  <1>1. /\ Among(q, RequestSet) \in Nat /\ Among(q, Headers) \in Nat
        /\ Among(q, RequestSet) = 0 => \A i \in DOMAIN q : q[i] \notin RequestSet
        /\ Among(q, Headers) = 0 => \A i \in DOMAIN q : q[i] \notin Headers
    BY AmongNat
  <1>2. Among(q, RequestSet) = 0 => q = <<>>
    <2>1. \A i \in DOMAIN q : q[i] \in RequestSet
      OBVIOUS
    <2> QED
      BY <1>1, <2>1
  <1>3. RequestWeight(q) \in Nat /\ (RequestWeight(q) = 0 => q = <<>>)
    BY <1>1, <1>2 DEF RequestWeight
  <1>4. q # <<>> => Among(q, Headers) = 0 \/ RequestWeight(q) >= 3
    BY <1>1, <1>2 DEF RequestWeight
  <1>5. Among(q, Headers) = 0 => \A r \in On(q) : r.kind # "header"
    <2>1. \A r \in On(q) : r \in RequestSet
      BY OnMembers
    <2> QED
      BY <1>1, <2>1 DEF On, Headers
  <1>6. q = <<>> => \A r \in On(q) : r.kind # "header"
    BY OnEmpty
  <1> QED
    BY <1>3, <1>4, <1>5, <1>6, RequestWeightEmpty

LEMMA RequestWeightAppend ==
    ASSUME NEW q \in Seq(RequestSet), NEW r \in RequestSet
    PROVE  RequestWeight(Append(q, r)) = RequestWeight(q) + RequestIs(r)
  <1>1. \A S \in {RequestSet, Headers} :
          Among(Append(q, r), S) = Among(q, S) + Is(r, S) /\ Among(q, S) \in Nat
    BY AmongAppend, AmongNat
  <1>2. Is(r, RequestSet) + Is(r, Headers) + Is(r, Headers) = RequestIs(r)
    BY RequestIsValues
  <1>3. Is(r, RequestSet) \in Nat /\ Is(r, Headers) \in Nat
    BY DEF Is
  <1> QED
    BY <1>1, <1>2, <1>3 DEF RequestWeight

LEMMA RequestWeightTail ==
    ASSUME NEW q \in Seq(RequestSet), q # <<>>
    PROVE  /\ Tail(q) \in Seq(RequestSet) /\ Head(q) \in RequestSet
           /\ RequestWeight(q) = RequestIs(Head(q)) + RequestWeight(Tail(q))
  <1>1. Tail(q) \in Seq(RequestSet) /\ Head(q) \in RequestSet
    BY TailType
  <1>2. \A S \in {RequestSet, Headers} :
          Among(q, S) = Is(Head(q), S) + Among(Tail(q), S) /\ Among(Tail(q), S) \in Nat
    BY <1>1, AmongTail, AmongNat
  <1>3. Is(Head(q), RequestSet) + Is(Head(q), Headers) + Is(Head(q), Headers) = RequestIs(Head(q))
    BY <1>1, RequestIsValues
  <1>4. Is(Head(q), RequestSet) \in Nat /\ Is(Head(q), Headers) \in Nat
    BY DEF Is
  <1> QED
    BY <1>1, <1>2, <1>3, <1>4 DEF RequestWeight

\* What a parser makes of a chunk of data.
Read(p, data) == [i \in 1..Len(data) |-> [parser |-> p, elem |-> data[i]]]
Ended(p)      == [parser |-> p, elem |-> ChunkEnd]

LEMMA ReadTypes ==
    ASSUME NEW p \in Nat \X Nat, NEW data \in Seq(ElemSet)
    PROVE  /\ Read(p, data) \in Seq(Entries) /\ Ended(p) \in Entries
           /\ Len(Read(p, data)) = Len(data)
           /\ \A i \in 1..Len(data) : /\ Read(p, data)[i].parser = p
                                      /\ Read(p, data)[i].elem = data[i]
  <1>1. \A e \in ElemSet : [parser |-> p, elem |-> e] \in Entries
    BY DEF Entries
  <1>2. \A i \in 1..Len(data) : data[i] \in ElemSet
    OBVIOUS
  <1>3. Read(p, data) \in [1..Len(data) -> Entries]
    BY <1>1, <1>2 DEF Read
  <1>4. Len(data) \in Nat
    OBVIOUS
  <1>5. Read(p, data) \in Seq(Entries) /\ Len(Read(p, data)) = Len(data)
    BY <1>3, <1>4
  <1>6. Ended(p) \in Entries
    BY <1>1, ElementTypes DEF Ended
  <1> QED
    BY <1>5, <1>6 DEF Read

LEMMA ParsedWeightNat ==
    ASSUME NEW q \in Seq(Entries), NEW p
    PROVE  /\ ParsedWeight(q, p) \in Nat
           /\ ParsedWeight(q, p) = 0 => Owned(q, p) = {}
  <1>1. /\ Among(q, OfParser(p, Exchanged)) \in Nat /\ Among(q, OfParser(p, Roots)) \in Nat
        /\ Among(q, OfParser(p, OldRoots)) \in Nat
        /\ Among(q, OfParser(p, Exchanged)) = 0
             => \A i \in DOMAIN q : q[i] \notin OfParser(p, Exchanged)
    BY AmongNat
  <1>2. /\ ParsedWeight(q, p) \in Nat
        /\ ParsedWeight(q, p) = 0 => Among(q, OfParser(p, Exchanged)) = 0
    BY <1>1 DEF ParsedWeight
  <1>3. On(q) \subseteq Entries
    BY OnMembers
  <1>4. (\A i \in DOMAIN q : q[i] \notin OfParser(p, Exchanged)) => Owned(q, p) = {}
    BY <1>3 DEF OfParser, Owned, On
  <1> QED
    BY <1>1, <1>2, <1>4

LEMMA ParsedWeightTail ==
    ASSUME NEW q \in Seq(Entries), q # <<>>, NEW p
    PROVE  ParsedWeight(q, p) = (IF Head(q).parser = p THEN ElemIs(Head(q).elem) ELSE 0)
                                  + ParsedWeight(Tail(q), p)
  <1>1. Tail(q) \in Seq(Entries) /\ Head(q) \in Entries
    BY TailType
  <1>2. \A S : /\ Among(q, OfParser(p, S)) = Is(Head(q), OfParser(p, S)) + Among(Tail(q), OfParser(p, S))
               /\ Among(Tail(q), OfParser(p, S)) \in Nat
    BY <1>1, AmongTail, AmongNat
  <1>3. \A S : Is(Head(q), OfParser(p, S)) = IF Head(q).parser = p THEN Is(Head(q).elem, S) ELSE 0
    BY <1>1 DEF Is, OfParser
  <1>4. \A x, S : Is(x, S) \in Nat
    BY DEF Is
  <1> QED
    BY <1>2, <1>3, <1>4 DEF ParsedWeight, ElemIs

LEMMA OwnedTail ==
    ASSUME NEW q \in Seq(Entries), q # <<>>, NEW p
    PROVE  /\ Owned(Tail(q), p) \subseteq Owned(q, p)
           /\ Head(q).parser = p /\ Head(q).elem.kind # "chunkEnd" => Head(q).elem \in Owned(q, p)
  <1>1. On(Tail(q)) \subseteq On(q) /\ Head(q) \in On(q) /\ Head(q) \in Entries
    BY OnTail, OnHead, TailType
  <1>2. Head(q).elem.kind # "chunkEnd" => Head(q).elem \in Exchanged
    BY <1>1 DEF Entries, Exchanged
  <1> QED
    BY <1>1, <1>2 DEF Owned

\* A parser that has read nothing.
LEMMA NotOwn ==
    ASSUME NEW q \in Seq(Entries), NEW p, Own(q, p) = {}
    PROVE  ParsedWeight(q, p) = 0 /\ Owned(q, p) = {}
  <1>1. \A S : {i \in DOMAIN q : q[i] \in OfParser(p, S)} = {}
    BY DEF Own, OfParser
  <1>2. \A S : Among(q, OfParser(p, S)) = 0
    BY <1>1, FS_EmptySet DEF Among
  <1>3. Owned(q, p) = {}
    BY DEF Own, Owned, On
  <1> QED
    BY <1>2, <1>3 DEF ParsedWeight

LEMMA ParsedWeightRead ==
    ASSUME NEW q \in Seq(Entries), NEW p \in Nat \X Nat, NEW data \in Seq(ElemSet)
    PROVE  ParsedWeight(q \o Read(p, data) \o <<Ended(p)>>, p)
             = ParsedWeight(q, p) + ElemWeight(data)
  <1>1. Read(p, data) \in Seq(Entries) /\ Ended(p) \in Entries /\ <<Ended(p)>> \in Seq(Entries)
    BY ReadTypes, OneElement
  <1>2. q \o Read(p, data) \in Seq(Entries)
    BY <1>1, ConcatType
  <1>3. \A S : S \subseteq Exchanged => Among(Read(p, data), OfParser(p, S)) = Among(data, S)
    <2> SUFFICES ASSUME NEW S, S \subseteq Exchanged
                 PROVE  Among(Read(p, data), OfParser(p, S)) = Among(data, S)
      OBVIOUS
    <2>1. DOMAIN data = 1..Len(data) /\ DOMAIN Read(p, data) = 1..Len(data)
      BY DEF Read
    <2>2. \A i \in 1..Len(data) : Read(p, data)[i] \in OfParser(p, S) <=> data[i] \in S
      <3>1. \A i \in 1..Len(data) : Read(p, data)[i] \in Entries
        BY <1>1, <2>1
      <3> QED
        BY <3>1, ReadTypes DEF OfParser
    <2>3. {i \in DOMAIN Read(p, data) : Read(p, data)[i] \in OfParser(p, S)}
            = {i \in DOMAIN data : data[i] \in S}
      BY <2>1, <2>2
    <2> QED
      BY <2>3 DEF Among
  <1>4. \A S : S \subseteq Exchanged => Is(Ended(p), OfParser(p, S)) = 0
    BY DEF Is, OfParser, Ended, ChunkEnd, Elem, Exchanged
  <1>5. \A S : S \subseteq Exchanged =>
          /\ Among(q \o Read(p, data) \o <<Ended(p)>>, OfParser(p, S))
               = Among(q, OfParser(p, S)) + Among(data, S)
          /\ Among(q, OfParser(p, S)) \in Nat /\ Among(data, S) \in Nat
    <2> SUFFICES ASSUME NEW S, S \subseteq Exchanged
                 PROVE  /\ Among(q \o Read(p, data) \o <<Ended(p)>>, OfParser(p, S))
                             = Among(q, OfParser(p, S)) + Among(data, S)
                        /\ Among(q, OfParser(p, S)) \in Nat /\ Among(data, S) \in Nat
      OBVIOUS
    <2>1. Among(q \o Read(p, data), OfParser(p, S))
            = Among(q, OfParser(p, S)) + Among(Read(p, data), OfParser(p, S))
      BY <1>1, AmongConcat
    <2>2. Among((q \o Read(p, data)) \o <<Ended(p)>>, OfParser(p, S))
            = Among(q \o Read(p, data), OfParser(p, S)) + Among(<<Ended(p)>>, OfParser(p, S))
      BY <1>1, <1>2, AmongConcat
    <2>3. Among(<<Ended(p)>>, OfParser(p, S)) = Is(Ended(p), OfParser(p, S))
      BY <1>1, AmongOne
    <2>4. Among(<<Ended(p)>>, OfParser(p, S)) = 0 /\ Among(Read(p, data), OfParser(p, S)) = Among(data, S)
      BY <1>3, <1>4, <2>3
    <2>5. Among(q, OfParser(p, S)) \in Nat /\ Among(data, S) \in Nat
      BY AmongNat
    <2> QED
      BY <2>1, <2>2, <2>4, <2>5
  <1>6. Roots \subseteq Exchanged /\ OldRoots \subseteq Exchanged
    BY DEF Roots, OldRoots
  <1> DEFINE r == q \o Read(p, data) \o <<Ended(p)>>
  <1>7. /\ Among(r, OfParser(p, Exchanged)) = Among(q, OfParser(p, Exchanged)) + Among(data, Exchanged)
        /\ Among(q, OfParser(p, Exchanged)) \in Nat /\ Among(data, Exchanged) \in Nat
    BY <1>5
  <1>8. /\ Among(r, OfParser(p, Roots)) = Among(q, OfParser(p, Roots)) + Among(data, Roots)
        /\ Among(q, OfParser(p, Roots)) \in Nat /\ Among(data, Roots) \in Nat
    BY <1>5, <1>6
  <1>9. /\ Among(r, OfParser(p, OldRoots)) = Among(q, OfParser(p, OldRoots)) + Among(data, OldRoots)
        /\ Among(q, OfParser(p, OldRoots)) \in Nat /\ Among(data, OldRoots) \in Nat
    BY <1>5, <1>6
  <1> HIDE DEF r
  <1>10. ParsedWeight(r, p) = ParsedWeight(q, p) + ElemWeight(data)
    <2> DEFINE a == Among(q, OfParser(p, Exchanged))
               b == Among(q, OfParser(p, Roots))
               c == Among(q, OfParser(p, OldRoots))
               u == Among(data, Exchanged)
               v == Among(data, Roots)
               w == Among(data, OldRoots)
    <2>1. ParsedWeight(r, p) = (a + u) + (b + v) + (c + w)
      BY <1>7, <1>8, <1>9 DEF ParsedWeight
    <2>2. ParsedWeight(q, p) = a + b + c /\ ElemWeight(data) = u + v + w
      BY DEF ParsedWeight, ElemWeight
    <2>3. a \in Nat /\ b \in Nat /\ c \in Nat /\ u \in Nat /\ v \in Nat /\ w \in Nat
      BY <1>7, <1>8, <1>9
    <2> HIDE DEF a, b, c, u, v, w
    <2>4. (a + u) + (b + v) + (c + w) = (a + b + c) + (u + v + w)
      BY <2>3
    <2> QED
      BY <2>1, <2>2, <2>4
  <1> QED
    BY <1>10 DEF r

LEMMA OwnedRead ==
    ASSUME NEW q \in Seq(Entries), NEW p \in Nat \X Nat, NEW data \in Seq(ElemSet)
    PROVE  /\ q \o Read(p, data) \o <<Ended(p)>> \in Seq(Entries)
           /\ On(q \o Read(p, data) \o <<Ended(p)>>)
                \subseteq On(q) \cup On(Read(p, data)) \cup {Ended(p)}
           /\ \A x \in On(Read(p, data)) : x.parser = p /\ x.elem \in On(data)
           /\ Owned(q \o Read(p, data) \o <<Ended(p)>>, p) \subseteq Owned(q, p) \cup On(data)
  <1>1. Read(p, data) \in Seq(Entries) /\ Ended(p) \in Entries /\ <<Ended(p)>> \in Seq(Entries)
    BY ReadTypes, OneElement
  <1>2. q \o Read(p, data) \in Seq(Entries)
    BY <1>1, ConcatType
  <1>3. On(q \o Read(p, data)) \subseteq On(q) \cup On(Read(p, data))
    BY <1>1, OnConcat
  <1>4. On(q \o Read(p, data) \o <<Ended(p)>>) \subseteq On(q \o Read(p, data)) \cup On(<<Ended(p)>>)
    BY <1>1, <1>2, OnConcat
  <1>5. On(<<Ended(p)>>) = {Ended(p)}
    BY DEF On
  <1>6. \A x \in On(Read(p, data)) : x.parser = p /\ x.elem \in On(data)
    <2>1. DOMAIN data = 1..Len(data) /\ DOMAIN Read(p, data) = 1..Len(data)
      BY DEF Read
    <2> QED
      BY <2>1, ReadTypes DEF On
  <1>7. q \o Read(p, data) \o <<Ended(p)>> \in Seq(Entries)
    BY <1>1, <1>2, ConcatType
  <1>8. Ended(p).elem \notin Exchanged
    BY DEF Ended, Exchanged, ChunkEnd, Elem
  <1>9. \A x \in On(q \o Read(p, data) \o <<Ended(p)>>) :
           x.elem \in Exchanged => x \in On(q) \/ x \in On(Read(p, data))
    BY <1>3, <1>4, <1>5, <1>8
  <1> QED
    BY <1>3, <1>4, <1>5, <1>6, <1>7, <1>9 DEF Owned

\* The end of a chunk stays behind what it ends.
LEMMA EndTail ==
    ASSUME NEW q \in Seq(Entries), q # <<>>, NEW p
    PROVE  /\ Own(q, p) = {} => Own(Tail(q), p) = {}
           /\ OneEnd(q, p) /\ (Head(q).parser # p \/ Head(q).elem.kind # "chunkEnd")
                => Own(Tail(q), p) # {} /\ OneEnd(Tail(q), p)
           /\ OneEnd(q, p) /\ Head(q).parser = p /\ Head(q).elem.kind = "chunkEnd"
                => Own(Tail(q), p) = {}
  <1> DEFINE n == Len(q)
             t == Tail(q)
  <1>1. /\ n \in Nat \ {0} /\ Len(t) = n - 1 /\ DOMAIN q = 1..n /\ DOMAIN t = 1..(n - 1)
        /\ \A i \in 1..(n - 1) : t[i] = q[i + 1]
        /\ Head(q) = q[1]
    OBVIOUS
  <1> HIDE DEF n, t
  <1>2. Own(q, p) = {} => Own(t, p) = {}
    BY <1>1 DEF Own
  <1>3. \A i \in Own(t, p) : i \in 1..(n - 1) /\ i + 1 \in Own(q, p) /\ t[i] = q[i + 1]
    BY <1>1 DEF Own
  <1>4. ASSUME OneEnd(q, p), Head(q).parser # p \/ Head(q).elem.kind # "chunkEnd"
        PROVE  Own(t, p) # {} /\ OneEnd(t, p)
    <2>1. n \in Own(q, p) /\ q[n].elem = ChunkEnd
      BY <1>4 DEF OneEnd, n
    <2>2. n # 1
      BY <1>1, <1>4, <2>1 DEF Own, ChunkEnd, Elem
    <2>3. n - 1 \in Own(t, p) /\ t[n - 1].elem = ChunkEnd
      BY <1>1, <2>1, <2>2 DEF Own
    <2>4. \A i \in Own(t, p) : t[i].elem.kind = "chunkEnd" => i = n - 1
      <3> SUFFICES ASSUME NEW i \in Own(t, p), t[i].elem.kind = "chunkEnd" PROVE i = n - 1
        OBVIOUS
      <3>1. i \in 1..(n - 1) /\ i + 1 \in Own(q, p) /\ q[i + 1].elem.kind = "chunkEnd"
        BY <1>3
      <3>2. i + 1 = n
        BY <1>4, <3>1 DEF OneEnd, n
      <3> QED
        BY <1>1, <3>1, <3>2
    <2> QED
      BY <1>1, <2>3, <2>4 DEF OneEnd
  <1>5. ASSUME OneEnd(q, p), Head(q).parser = p, Head(q).elem.kind = "chunkEnd"
        PROVE  Own(t, p) = {}
    <2>1. 1 \in Own(q, p)
      BY <1>1, <1>5 DEF Own
    <2>2. n = 1
      BY <1>1, <1>5, <2>1 DEF OneEnd, n
    <2> QED
      BY <1>1, <2>2 DEF Own
  <1> QED
    BY <1>2, <1>4, <1>5 DEF t

\* What stands at each place of two sequences put together.
Joined(S, s, t, r) == /\ r \in Seq(S) /\ Len(r) = Len(s) + Len(t)
                      /\ \A i \in 1..Len(s) : r[i] = s[i]
                      /\ \A i \in 1..Len(t) : r[Len(s) + i] = t[i]

LEMMA ConcatAt ==
    ASSUME NEW S, NEW s \in Seq(S), NEW t \in Seq(S)
    PROVE  Joined(S, s, t, s \o t)
  <1>1. s \o t \in Seq(S) /\ Len(s \o t) = Len(s) + Len(t)
    OBVIOUS
  <1>2. \A i \in 1..Len(s) : (s \o t)[i] = s[i]
    OBVIOUS
  <1>3. \A i \in 1..Len(t) : (s \o t)[Len(s) + i] = t[i]
    OBVIOUS
  <1> QED
    BY <1>1, <1>2, <1>3 DEF Joined

\* Two sequences and a last element: every place of the result is known.
LEMMA ClosedConcat ==
    ASSUME NEW S, NEW q \in Seq(S), NEW d \in Seq(S), NEW z \in Seq(S), Len(z) = 1,
           NEW a, Joined(S, q, d, a), NEW r, Joined(S, a, z, r),
           NEW k \in Nat, NEW n \in Nat, Len(q) = k, Len(d) = n
    PROVE  /\ Len(r) = k + n + 1 /\ DOMAIN r = 1..(k + n + 1) /\ r[k + n + 1] = z[1]
           /\ \A i \in 1..k : r[i] = q[i]
           /\ \A i \in (k + 1)..(k + n) : i - k \in 1..n /\ r[i] = d[i - k]
  <1>1. /\ a \in Seq(S) /\ Len(a) = k + n
        /\ \A i \in 1..k : a[i] = q[i]
        /\ \A i \in 1..n : a[k + i] = d[i]
    BY DEF Joined
  <1>2. /\ r \in Seq(S) /\ Len(r) = k + n + 1
        /\ \A i \in 1..(k + n) : r[i] = a[i]
        /\ \A i \in 1..1 : r[(k + n) + i] = z[i]
    BY <1>1 DEF Joined
  <1>3. DOMAIN r = 1..(k + n + 1) /\ r[k + n + 1] = z[1]
    BY <1>2
  <1>4. \A i \in 1..k : r[i] = q[i]
    <2>1. \A i \in 1..k : i \in 1..(k + n)
      OBVIOUS
    <2> QED
      BY <1>1, <1>2, <2>1
  <1>5. ASSUME NEW i \in (k + 1)..(k + n) PROVE i - k \in 1..n /\ r[i] = d[i - k]
    <2>1. i - k \in 1..n /\ i \in 1..(k + n) /\ k + (i - k) = i
      OBVIOUS
    <2> DEFINE j == i - k
    <2>2. a[k + j] = d[j]
      BY <1>1, <2>1
    <2>3. r[i] = a[i]
      BY <1>2, <2>1
    <2> QED
      BY <2>1, <2>2, <2>3
  <1> QED
    BY <1>2, <1>3, <1>4, <1>5

LEMMA EndRead ==
    ASSUME NEW q \in Seq(Entries), NEW p \in Nat \X Nat, NEW data \in Seq(ElemSet),
           Own(q, p) = {}, On(data) \subseteq Exchanged
    PROVE  LET r == q \o Read(p, data) \o <<Ended(p)>> IN Own(r, p) # {} /\ OneEnd(r, p)
  <1> DEFINE d == Read(p, data)
             r == q \o d \o <<Ended(p)>>
             k == Len(q)
             n == Len(data)
  <1>1. /\ d \in Seq(Entries) /\ Len(d) = n
        /\ \A i \in 1..n : d[i].parser = p /\ d[i].elem = data[i]
        /\ <<Ended(p)>> \in Seq(Entries)
    BY ReadTypes, OneElement
  <1>2. n \in Nat /\ k \in Nat /\ DOMAIN q = 1..k /\ DOMAIN data = 1..n
    OBVIOUS
  <1> HIDE DEF d, n, k
  <1>3. /\ Len(r) = k + n + 1 /\ DOMAIN r = 1..(k + n + 1) /\ r[k + n + 1] = Ended(p)
        /\ \A i \in 1..k : r[i] = q[i]
        /\ \A i \in (k + 1)..(k + n) : i - k \in 1..n /\ r[i] = d[i - k]
    <2>1. Len(q) = k
      BY DEF k
    <2> DEFINE z == <<Ended(p)>>
               a == q \o d
    <2>2. z \in Seq(Entries) /\ Len(z) = 1 /\ z[1] = Ended(p)
      BY <1>1
    <2>3. Joined(Entries, q, d, a)
      BY <1>1, ConcatAt
    <2>4. r = a \o z
      OBVIOUS
    <2> HIDE DEF r, a, z
    <2>5. a \in Seq(Entries)
      BY <2>3 DEF Joined
    <2>6. Joined(Entries, a, z, r)
      BY <2>2, <2>4, <2>5, ConcatAt
    <2>7. /\ Len(r) = k + n + 1 /\ DOMAIN r = 1..(k + n + 1) /\ r[k + n + 1] = z[1]
          /\ \A i \in 1..k : r[i] = q[i]
          /\ \A i \in (k + 1)..(k + n) : i - k \in 1..n /\ r[i] = d[i - k]
      BY <1>1, <1>2, <2>1, <2>2, <2>3, <2>6, ClosedConcat
    <2> QED
      BY <2>2, <2>7
  <1> HIDE DEF r
  <1>4. Ended(p).parser = p /\ Ended(p).elem = ChunkEnd
    BY DEF Ended
  <1>5. Len(r) \in Own(r, p) /\ r[Len(r)].elem = ChunkEnd
    <2>1. k + n + 1 \in 1..(k + n + 1)
      BY <1>2
    <2> QED
      BY <1>3, <1>4, <2>1 DEF Own
  <1>6. \A i \in Own(r, p) : r[i].elem.kind = "chunkEnd" => i = Len(r)
    <2> SUFFICES ASSUME NEW i \in Own(r, p), r[i].elem.kind = "chunkEnd" PROVE i = Len(r)
      OBVIOUS
    <2>1. i \in 1..(k + n + 1) /\ r[i].parser = p
      BY <1>3 DEF Own
    <2>2. i \notin 1..k
      BY <1>2, <1>3, <2>1 DEF Own
    <2>3. i \notin (k + 1)..(k + n)
      <3>1. \A j \in 1..n : data[j].kind # "chunkEnd"
        BY <1>2 DEF On, Exchanged
      <3> QED
        BY <1>1, <1>3, <3>1
    <2> QED
      BY <1>2, <1>3, <2>1, <2>2, <2>3
  <1>7. Own(r, p) # {} /\ OneEnd(r, p)
    BY <1>5, <1>6 DEF OneEnd
  <1> QED
    BY <1>7 DEF r, d

-----------------------------------------------------------------------------
(* What the steps do to what is under way.                                    *)

LEMMA DataType ==
    ASSUME Inv
    PROVE  Data(callbacks) \in Seq(ElemSet)
  <1>1. callbacks # <<>> => callbacks[1] \in CallbackSet
    BY CallbacksType
  <1> QED
    BY <1>1, EmptyType DEF Data, Reading, CallbackSet

LEMMA Weights ==
    ASSUME Inv
    PROVE  /\ RequestWeight(requests) \in Nat /\ ElemWeight(wire) \in Nat
           /\ ElemWeight(Data(callbacks)) \in Nat /\ ParsedWeight(parsed, parser) \in Nat
           /\ requests \in Seq(RequestSet)
           /\ Underway = RequestWeight(requests) + ElemWeight(wire) + ElemWeight(Data(callbacks))
                           + ParsedWeight(parsed, parser)
           /\ Underway \in Nat
  <1>1. requests \in Seq(RequestSet)
    BY DEF Inv, TypeOK, TrafficTypes
  <1>2. /\ RequestWeight(requests) \in Nat /\ ElemWeight(wire) \in Nat
        /\ ElemWeight(Data(callbacks)) \in Nat /\ ParsedWeight(parsed, parser) \in Nat
    BY <1>1, RequestWeightNat, ElemWeightNat, ParsedWeightNat, WireType, DataType, ParsedType
  <1>3. Underway = RequestWeight(requests) + ElemWeight(wire) + ElemWeight(Data(callbacks))
                     + ParsedWeight(parsed, parser)
    BY DEF Underway, Weight
  <1> QED
    BY <1>1, <1>2, <1>3

LEMMA ServedIsExchanged == Served \subseteq Exchanged /\ Exchanged \subseteq ElemSet
  BY DEF Served, Exchanged

\* What has no weight is empty.
LEMMA Weightless ==
    ASSUME Inv, Queues
    PROVE  /\ ElemWeight(wire) = 0 => wire = <<>> /\ On(wire) = {}
           /\ ElemWeight(Data(callbacks)) = 0 => On(Data(callbacks)) = {}
           /\ ParsedWeight(parsed, parser) = 0 => Owned(parsed, parser) = {}
           /\ RequestWeight(requests) = 0 => requests = <<>>
  <1>1. On(wire) \subseteq Exchanged /\ On(Data(callbacks)) \subseteq Exchanged
    BY ServedIsExchanged DEF Queues, Arriving, Pending
  <1>2. ElemWeight(wire) = 0 => wire = <<>>
    BY <1>1, ElemWeightNat, WireType
  <1>3. ElemWeight(Data(callbacks)) = 0 => Data(callbacks) = <<>>
    BY <1>1, ElemWeightNat, DataType
  <1>4. RequestWeight(requests) = 0 => requests = <<>>
    BY RequestWeightNat, Weights
  <1>5. ParsedWeight(parsed, parser) = 0 => Owned(parsed, parser) = {}
    BY ParsedWeightNat, ParsedType
  <1> QED
    BY <1>2, <1>3, <1>4, <1>5, OnEmpty

LEMMA NothingUnderway ==
    ASSUME Inv, Queues, Underway = 0
    PROVE  /\ requests = <<>> /\ wire = <<>> /\ Arriving = {}
           /\ RequestWeight(requests) = 0 /\ ElemWeight(wire) = 0
           /\ ElemWeight(Data(callbacks)) = 0 /\ ParsedWeight(parsed, parser) = 0
  <1>1. /\ RequestWeight(requests) = 0 /\ ElemWeight(wire) = 0
        /\ ElemWeight(Data(callbacks)) = 0 /\ ParsedWeight(parsed, parser) = 0
    BY Weights
  <1> QED
    BY <1>1, Weightless DEF Arriving, Pending

\* A request on its way to the server, and nothing else.
LEMMA OnlyRequest ==
    ASSUME Inv, Queues, requests # <<>>, Underway <= RequestIs(Head(requests))
    PROVE  /\ Tail(requests) = <<>> /\ wire = <<>> /\ Arriving = {}
           /\ ElemWeight(wire) = 0 /\ ElemWeight(Data(callbacks)) = 0
           /\ ParsedWeight(parsed, parser) = 0
  <1>1. /\ RequestWeight(requests) = RequestIs(Head(requests)) + RequestWeight(Tail(requests))
        /\ Head(requests) \in RequestSet /\ Tail(requests) \in Seq(RequestSet)
    BY RequestWeightTail, Weights
  <1>2. RequestIs(Head(requests)) \in Nat
    BY <1>1, RequestIsValues
  <1>3. RequestWeight(Tail(requests)) \in Nat
    BY <1>1, RequestWeightNat
  <1>4. /\ RequestWeight(Tail(requests)) = 0 /\ ElemWeight(wire) = 0
        /\ ElemWeight(Data(callbacks)) = 0 /\ ParsedWeight(parsed, parser) = 0
    BY <1>1, <1>2, <1>3, Weights
  <1>5. Tail(requests) = <<>>
    BY <1>1, <1>4, RequestWeightNat
  <1> QED
    BY <1>4, <1>5, Weightless DEF Arriving, Pending

\* Taking what the parser read.
LEMMA TakenWeight ==
    ASSUME Inv, TakesParsed, Inv', UNCHANGED <<parser, wire, callbacks>>
    PROVE  /\ Arriving' \subseteq Arriving
           /\ Underway' + RequestWeight(requests)
                + (IF FromCurrentParser THEN ElemIs(elem) ELSE 0)
                = Underway + RequestWeight(requests')
           /\ ParsedWeight(parsed, parser) =
                ParsedWeight(parsed', parser) + (IF FromCurrentParser THEN ElemIs(elem) ELSE 0)
           /\ elem \in ElemSet
           /\ FromCurrentParser /\ elem.kind # "chunkEnd" => elem \in Arriving
  <1>1. /\ parsed \in Seq(Entries) /\ parsed # <<>> /\ parsed' = Tail(parsed)
        /\ elem \in ElemSet
    BY ParsedType, ParsedTaken DEF TakesParsed
  <1>2. ParsedWeight(parsed, parser) =
          (IF FromCurrentParser THEN ElemIs(elem) ELSE 0) + ParsedWeight(parsed', parser)
    BY <1>1, ParsedWeightTail DEF FromCurrentParser, elem
  <1>3. ElemIs(elem) \in Nat
    BY <1>1, ElemIsValues
  <1>4. Underway' = RequestWeight(requests') + ElemWeight(wire) + ElemWeight(Data(callbacks))
                      + ParsedWeight(parsed', parser)
    BY DEF Underway, Weight
  <1>5. RequestWeight(requests') \in Nat /\ ParsedWeight(parsed', parser) \in Nat
    <2>1. requests' \in Seq(RequestSet) /\ parsed' \in Seq(Entries)
      BY DEF Inv, TypeOK, TrafficTypes, WaitingTypes, Entries
    <2> QED
      BY <2>1, RequestWeightNat, ParsedWeightNat
  <1>6. /\ Owned(parsed', parser) \subseteq Owned(parsed, parser)
        /\ FromCurrentParser /\ elem.kind # "chunkEnd" => elem \in Owned(parsed, parser)
    BY <1>1, OwnedTail DEF FromCurrentParser, elem
  <1>7. Arriving' \subseteq Arriving /\ Owned(parsed, parser) \subseteq Arriving
    BY <1>6 DEF Arriving, Pending
  <1> DEFINE n == IF FromCurrentParser THEN ElemIs(elem) ELSE 0
  <1>8. Underway' + RequestWeight(requests) + n = Underway + RequestWeight(requests')
    <2>1. ParsedWeight(parsed, parser) = n + ParsedWeight(parsed', parser) /\ n \in Nat
      BY <1>2, <1>3
    <2>2. /\ RequestWeight(requests) \in Nat /\ ElemWeight(wire) \in Nat
          /\ ElemWeight(Data(callbacks)) \in Nat
          /\ Underway = RequestWeight(requests) + ElemWeight(wire) + ElemWeight(Data(callbacks))
                          + ParsedWeight(parsed, parser)
      BY Weights
    <2> HIDE DEF n
    <2> QED
      BY <1>4, <1>5, <2>1, <2>2
  <1> QED
    BY <1>1, <1>2, <1>3, <1>5, <1>6, <1>7, <1>8

\* The socket closes.
LEMMA ClosedWeight ==
    ASSUME Inv, Inv', ClosesSocket, parser' = parser,
           parsed' = parsed \/ (parsed # <<>> /\ parsed' = Tail(parsed))
    PROVE  Arriving' \subseteq Arriving /\ Underway' <= Underway /\ requests' = <<>>
  <1>1. Data(callbacks') = Data(callbacks)
    <2>1. CASE socket = "idle"
      BY <2>1 DEF ClosesSocket
    <2>2. CASE socket # "idle" /\ callbacks = <<>>
      <3>1. callbacks' = <<Callback("closed", <<>>)>>
        BY <2>2 DEF ClosesSocket
      <3> QED
        BY <2>2, <3>1 DEF Data, Reading, Callback
    <2>3. CASE socket # "idle" /\ callbacks # <<>>
      <3>1. callbacks' = Append(callbacks, Callback("closed", <<>>))
        BY <2>3 DEF ClosesSocket
      <3>2. callbacks' # <<>> /\ callbacks'[1] = callbacks[1]
        BY <2>3, <3>1, CallbacksType, ClosedType
      <3> QED
        BY <2>3, <3>2 DEF Data, Reading
    <2> QED
      BY <2>1, <2>2, <2>3
  <1>2. wire' = <<>> /\ requests' = <<>>
    BY DEF ClosesSocket
  <1>3. /\ Owned(parsed', parser) \subseteq Owned(parsed, parser)
        /\ ParsedWeight(parsed', parser) \in Nat
        /\ ParsedWeight(parsed', parser) <= ParsedWeight(parsed, parser)
    <2>1. parsed \in Seq(Entries)
      BY ParsedType
    <2>2. CASE parsed' = parsed
      BY <2>2, Weights
    <2>3. CASE parsed # <<>> /\ parsed' = Tail(parsed)
      <3>1. Head(parsed) \in Entries /\ Tail(parsed) \in Seq(Entries)
        BY <2>1, <2>3, TailType
      <3>2. ElemIs(Head(parsed).elem) \in Nat
        BY <3>1, ElemIsValues DEF Entries
      <3>3. ParsedWeight(parsed', parser) \in Nat
        BY <2>3, <3>1, ParsedWeightNat
      <3>4. ParsedWeight(parsed, parser) =
              (IF Head(parsed).parser = parser THEN ElemIs(Head(parsed).elem) ELSE 0)
                + ParsedWeight(parsed', parser)
        BY <2>1, <2>3, ParsedWeightTail
      <3>5. ParsedWeight(parsed', parser) <= ParsedWeight(parsed, parser)
        BY <3>2, <3>3, <3>4
      <3> QED
        BY <2>1, <2>3, <3>3, <3>5, OwnedTail
    <2> QED
      BY <2>2, <2>3
  <1>4. Arriving' \subseteq Arriving
    BY <1>1, <1>2, <1>3, OnEmpty DEF Arriving, Pending
  <1>5. Underway' = 0 + 0 + ElemWeight(Data(callbacks)) + ParsedWeight(parsed', parser)
    BY <1>1, <1>2, ElemWeightEmpty, RequestWeightEmpty DEF Underway, Weight
  <1> QED
    BY <1>2, <1>3, <1>4, <1>5, Weights

LEMMA WritesAdds ==
    ASSUME Inv, NEW r \in RequestSet, Writes(r) \/ UNCHANGED requests
    PROVE  /\ requests' \in {requests, Append(requests, r)}
           /\ On(requests') \subseteq On(requests) \cup {r}
           /\ requests = <<>> => requests' \in {<<>>, <<r>>}
  <1>1. requests' \in {requests, Append(requests, r)}
    BY DEF Writes
  <1>2. On(Append(requests, r)) \subseteq On(requests) \cup {r}
    BY OnAppend, Weights
  <1>3. requests = <<>> => Append(requests, r) = <<r>>
    OBVIOUS
  <1> QED
    BY <1>1, <1>2, <1>3

\* A new parser has read nothing.
LEMMA FreshParser ==
    ASSUME Inv, GrantInv, Numbered, ~Down,
           parsed' = parsed \/ (parsed # <<>> /\ parsed' = Tail(parsed))
    PROVE  Own(parsed', NewParser) = {} /\ NewParser # NoParser
  <1>1. On(parsed') \subseteq On(parsed) /\ On(parsed) \subseteq Entries
    BY ParsedType, OnTail, OnMembers
  <1>2. parser \in Nat \X Nat /\ conn \in Nat
    BY DEF Inv, TypeOK, NegTypes, ServerTypes
  <1>3. \A x \in On(parsed) : x.parser # NewParser
    <2> SUFFICES ASSUME NEW x \in On(parsed), x.parser = NewParser PROVE FALSE
      OBVIOUS
    <2>1. x.parser[1] = conn
      BY DEF NewParser
    <2>2. parser[1] = conn /\ x.parser[2] <= parser[2]
      BY <2>1 DEF Numbered
    <2>3. x.parser[2] = parser[2] + 1
      BY <2>2 DEF NewParser
    <2> QED
      BY <1>2, <2>2, <2>3
  <1>4. Own(parsed', NewParser) = {}
    BY <1>1, <1>3 DEF Own, On
  <1>5. NewParser[2] >= 1
    BY <1>2 DEF NewParser
  <1> QED
    BY <1>4, <1>5 DEF NoParser

\* Whoever takes an element before a resource is bound finds nothing else under way.
LEMMA Alone ==
    ASSUME Inv, Queues, Turns, ~Bound, TakesParsed, FromCurrentParser,
           elem.kind # "chunkEnd", state # "OPENING"
    PROVE  /\ state \notin {"CONNECTED", "STARTTLS_2"} /\ elem.kind # "root"
           /\ elem \in Arriving /\ requests = <<>> /\ wire = <<>> /\ On(wire) = {}
           /\ ElemWeight(wire) = 0
           /\ ElemWeight(Data(callbacks)) = 0 /\ On(Data(callbacks)) = {}
           /\ ParsedWeight(Tail(parsed), parser) = 0 /\ Owned(Tail(parsed), parser) = {}
           /\ Asked = {}
  <1>1. Established
    BY CurrentIsEstablished DEF TakesParsed
  <1>2. Underway <= Room(state) /\ (Asked # {} => Underway = 0)
    BY <1>1 DEF Turns
  <1>3. Room(state) \in {0, 1} /\ (Room(state) = 1 => state \notin {"CONNECTED", "STARTTLS_2"})
    BY DEF Room
  <1>4. /\ parsed \in Seq(Entries) /\ parsed # <<>> /\ Tail(parsed) \in Seq(Entries)
        /\ elem \in ElemSet
    BY ParsedType, TailType, ParsedTaken DEF TakesParsed
  <1>5. /\ ParsedWeight(parsed, parser) = ElemIs(elem) + ParsedWeight(Tail(parsed), parser)
        /\ ParsedWeight(Tail(parsed), parser) \in Nat
    BY <1>4, ParsedWeightTail, ParsedWeightNat DEF FromCurrentParser, elem
  <1>6. ElemIs(elem) \in Nat /\ ElemIs(elem) >= 1 /\ (elem.kind = "root" => ElemIs(elem) >= 2)
    BY <1>4, ElemIsValues
  <1>7. /\ Room(state) = 1 /\ Underway # 0 /\ ElemIs(elem) = 1
        /\ RequestWeight(requests) = 0 /\ ElemWeight(wire) = 0
        /\ ElemWeight(Data(callbacks)) = 0
        /\ ParsedWeight(Tail(parsed), parser) = 0
    <2>1. Room(state) <= 1
      BY <1>3
    <2> QED
      BY <1>2, <1>3, <1>5, <1>6, <2>1, Weights
  <1>8. Owned(Tail(parsed), parser) = {}
    BY <1>4, <1>7, ParsedWeightNat
  <1>9. elem \in Arriving
    BY <1>4, OwnedTail DEF FromCurrentParser, elem, Arriving, Pending
  <1> QED
    BY <1>2, <1>3, <1>6, <1>7, <1>8, <1>9, Weightless

\* So a handler that takes it leaves at most its own request, also when it replaces the parser.
LEMMA Leaves ==
    ASSUME Inv', ElemWeight(wire') = 0, ElemWeight(Data(callbacks')) = 0,
           ParsedWeight(parsed', parser') = 0
    PROVE  Underway' = RequestWeight(requests')
  <1>1. requests' \in Seq(RequestSet)
    BY DEF Inv, TypeOK, TrafficTypes
  <1>2. RequestWeight(requests') \in Nat
    BY <1>1, RequestWeightNat
  <1>3. Underway' = RequestWeight(requests') + ElemWeight(wire') + ElemWeight(Data(callbacks'))
                      + ParsedWeight(parsed', parser')
    BY DEF Underway, Weight
  <1> QED
    BY <1>2, <1>3

LEMMA AloneLeaves ==
    ASSUME Inv, Inv', GrantInv, Queues, Numbered, Turns, ~Bound, TakesParsed, FromCurrentParser,
           elem.kind # "chunkEnd", state # "OPENING", parser' \in {parser, NewParser},
           UNCHANGED <<wire, callbacks>>
    PROVE  Arriving' = {} /\ Underway' = RequestWeight(requests')
  <1>1. parsed' = Tail(parsed) /\ parsed # <<>> /\ Tail(parsed) \in Seq(Entries)
    BY ParsedType, TailType DEF TakesParsed
  <1>2. ~Down
    BY CurrentIsEstablished, EstablishedIsUp DEF TakesParsed
  <1>3. Owned(parsed', parser') = {} /\ ParsedWeight(parsed', parser') = 0
    <2>1. CASE parser' = parser
      BY <1>1, <2>1, Alone
    <2>2. CASE parser' = NewParser
      <3>1. Own(Tail(parsed), NewParser) = {}
        BY <1>1, <1>2, FreshParser
      <3> QED
        BY <1>1, <2>2, <3>1, NotOwn
    <2> QED
      BY <2>1, <2>2
  <1>4. Arriving' = {}
    BY <1>3, Alone DEF Arriving, Pending
  <1>5. ElemWeight(wire') = 0 /\ ElemWeight(Data(callbacks')) = 0
    BY Alone
  <1> QED
    BY <1>3, <1>4, <1>5, Leaves

\* The same of a step that finds nothing under way.
LEMMA IdleLeaves ==
    ASSUME Inv, Inv', GrantInv, Queues, Numbered, ~Down, Underway = 0,
           parser' \in {parser, NewParser}, UNCHANGED <<wire, callbacks, parsed>>
    PROVE  Arriving' = {} /\ Underway' = RequestWeight(requests')
  <1>1. /\ On(wire) = {} /\ On(Data(callbacks)) = {} /\ Owned(parsed, parser) = {}
        /\ ElemWeight(wire) = 0 /\ ElemWeight(Data(callbacks)) = 0
        /\ ParsedWeight(parsed, parser) = 0
    BY NothingUnderway, Weightless
  <1>2. Owned(parsed', parser') = {} /\ ParsedWeight(parsed', parser') = 0
    <2>1. CASE parser' = parser
      BY <1>1, <2>1
    <2>2. CASE parser' = NewParser
      <3>1. Own(parsed, NewParser) = {}
        BY FreshParser
      <3> QED
        BY <2>2, <3>1, NotOwn, ParsedType
    <2> QED
      BY <2>1, <2>2
  <1>3. Arriving' = {}
    BY <1>1, <1>2 DEF Arriving, Pending
  <1>4. ElemWeight(wire') = 0 /\ ElemWeight(Data(callbacks')) = 0
    BY <1>1
  <1> QED
    BY <1>2, <1>3, <1>4, Leaves

\* Whatever handler runs, nothing arrives but what was on its way.
LEMMA ArrivingShrinks ==
    ASSUME Inv, GrantInv, Numbered, ~Down, parser' \in {parser, NewParser},
           parsed' = parsed \/ (parsed # <<>> /\ parsed' = Tail(parsed)),
           UNCHANGED <<wire, callbacks>>
    PROVE  Arriving' \subseteq Arriving
  <1>1. parsed \in Seq(Entries) /\ parsed' \in Seq(Entries)
    BY ParsedType, TailType
  <1>2. Owned(parsed', parser') \subseteq Owned(parsed, parser)
    <2>1. CASE parser' = parser
      BY <1>1, <2>1, OwnedTail
    <2>2. CASE parser' = NewParser
      BY <1>1, <2>2, FreshParser, NotOwn
    <2> QED
      BY <2>1, <2>2
  <1> QED
    BY <1>2 DEF Arriving, Pending

\* Without an established connection there are no turns to take.
LEMMA DownTurn ==
    ASSUME Inv', InTime, ~Established'
    PROVE  TurnInv' /\ ReadsInv'
  <1>1. Asked' = {}
    BY DEF Inv, Control, QuestionsInTime, InTime, Asked
  <1>2. state' \notin {"CONNECTED", "REGISTERING", "AUTH", "BINDING", "START_SESSION"}
    BY DEF Established
  <1> QED
    BY <1>1, <1>2 DEF TurnInv, Turns, NoTLSTwice, BoundStays, BindsAuthenticated, Granting,
                      Restarting, Announced, ReadsInv

\* A step that takes from what is under way, and leaves the rest of the state to the others.
LEMMA ShrinksTurn ==
    ASSUME TurnInv,
           UNCHANGED <<state, isSecure, isAuthenticated, granted, parser>>,
           heard \subseteq heard', Asked' \subseteq Asked, Arriving' \subseteq Arriving,
           On(requests') \subseteq On(requests), requests = <<>> => requests' = <<>>,
           Underway \in Nat, Underway' \in Nat, Underway' <= Underway
    PROVE  TurnInv'
  <1>1. Turns'
    <2>1. Room(state) \in Nat /\ Room(state') = Room(state)
      BY DEF Room
    <2>2. Underway <= Room(state) => Underway' <= Room(state')
      BY <2>1
    <2>3. Underway = 0 => Underway' = 0
      OBVIOUS
    <2> QED
      BY <2>2, <2>3 DEF TurnInv, Turns, Established, Bound
  <1>2. Answered => Answered'
    BY DEF Answered
  <1>3. NoTLSTwice'
    BY DEF TurnInv, NoTLSTwice, Established
  <1>4. BoundStays'
    BY <1>2 DEF TurnInv, BoundStays, Established, Bound
  <1>5. BindsAuthenticated'
    BY DEF TurnInv, BindsAuthenticated, Established, Bound
  <1>6. Granting' /\ Restarting'
    BY DEF TurnInv, Granting, Restarting, Established, Bound
  <1>7. Announced'
    BY <1>2 DEF TurnInv, Announced
  <1> QED
    BY <1>1, <1>3, <1>4, <1>5, <1>6, <1>7 DEF TurnInv

\* Before a resource is bound a step leaves at most one request, or one question, behind.
LEMMA TurnTaken ==
    ASSUME ~Bound', Arriving' = {}, Underway' = RequestWeight(requests'),
           NEW r \in RequestSet, requests' \in {<<>>, <<r>>},
           requests' = <<>> \/ RequestIs(r) <= Room(state'),
           Asked' = {} \/ (requests' = <<>> /\ state' = "BINDING"),
           \A p, q \in Asked' : p = q,
           r.kind = "auth" => state' = "AUTH",
           r.kind \in {"bind", "custom"} => state' = "BINDING",
           isSecure' => state' # "STARTTLS_1",
           state' = "AUTH" => ~isAuthenticated',
           state' \in {"BINDING", "START_SESSION"} => isAuthenticated',
           "auth" \in granted' => isAuthenticated',
           isAuthenticated' /\ state' \in {"OPENING", "NEGOTIATING"} =>
             parser'[2] >= 2 /\ r.kind = "header",
           Announced'
    PROVE  TurnInv'
  <1>1. On(requests') \subseteq {r}
    BY DEF On
  <1>2. Underway' <= Room(state') /\ (requests' = <<>> => Underway' = 0)
    <2>1. RequestWeight(<<r>>) = RequestIs(r)
      <3>1. <<r>> = Append(<<>>, r) /\ <<>> \in Seq(RequestSet)
        OBVIOUS
      <3>2. RequestWeight(<<r>>) = 0 + RequestIs(r)
        BY <3>1, RequestWeightAppend, RequestWeightEmpty
      <3>3. RequestIs(r) \in Nat
        BY RequestIsValues
      <3> QED
        BY <3>2, <3>3
    <2>2. Room(state') >= 0
      BY DEF Room
    <2> QED
      BY <2>1, <2>2, RequestWeightEmpty
  <1>3. Turns'
    BY <1>1, <1>2 DEF Turns
  <1>4. NoTLSTwice' /\ BoundStays' /\ Granting'
    BY DEF NoTLSTwice, BoundStays, Granting
  <1>5. BindsAuthenticated'
    BY DEF BindsAuthenticated, Bound
  <1>6. Restarting'
    BY <1>1 DEF Restarting
  <1> QED
    BY <1>3, <1>4, <1>5, <1>6 DEF TurnInv

\* After it, what a step may add is a request that opens no stream.
LEMMA BoundStep ==
    ASSUME TurnInv, Bound, Established, UNCHANGED <<isAuthenticated, granted>>,
           Arriving' \subseteq Arriving, heard \subseteq heard',
           NEW r, On(requests') \subseteq On(requests) \cup {r},
           r.kind # "header" \/ (isSecure' /\ Answered'),
           \/ isSecure' = isSecure
           \/ isSecure' /\ Answered' /\ \A e \in Arriving : e.offers.starttls = "no",
           isSecure' => state' # "STARTTLS_1",
           state' = "AUTH" => state' = state,
           state' \in {"OPENING", "NEGOTIATING", "STARTTLS_1", "STARTTLS_2", "CONNECTED",
                       "REGISTERING"} => Answered',
           \A q \in Asked' : q.kind = "willBind" => isSecure' \/ q \in Asked
    PROVE  TurnInv'
  <1>1. Answered => Answered'
    BY DEF Answered
  <1>2. isAuthenticated' /\ state' # "AUTH" /\ Bound'
    BY DEF TurnInv, BindsAuthenticated, Bound
  <1>3. Turns' /\ Granting' /\ Restarting' /\ Announced'
    BY <1>2 DEF Turns, Granting, Restarting, Announced
  <1>4. NoTLSTwice'
    BY DEF TurnInv, NoTLSTwice
  <1>5. BindsAuthenticated'
    BY <1>2 DEF BindsAuthenticated
  <1>6. BoundStays'
    BY <1>1 DEF TurnInv, BoundStays
  <1> QED
    BY <1>3, <1>4, <1>5, <1>6 DEF TurnInv

\* What the server answers or pushes before TLS, once a resource is bound, offers no TLS.
LEMMA BoundOffersNoTLS ==
    ASSUME Queues, TurnInv, Bound, Established, ~isSecure
    PROVE  \A e \in Arriving : e.offers = NoFeatures /\ e.offers.starttls = "no"
  <1>1. \A e \in Arriving : e.kind \notin {"root", "features"}
    BY DEF TurnInv, BoundStays
  <1> QED
    BY <1>1 DEF Queues, Served, NoFeatures

-----------------------------------------------------------------------------
(* Steps of an established stream: those that keep the parser, and those that  *)
(* open the stream anew.                                                       *)

\* The end of a connection goes behind the other callbacks.
LEMMA ClosedCallbacks ==
    ASSUME Inv, ClosesSocket
    PROVE  /\ Reading(callbacks') <=> Reading(callbacks)
           /\ \A i \in DOMAIN callbacks' :
                callbacks'[i].kind # "closed" => i \in DOMAIN callbacks /\ callbacks'[i] = callbacks[i]
  <1>1. CASE socket = "idle"
    BY <1>1 DEF ClosesSocket
  <1>2. CASE socket # "idle"
    <2>1. callbacks' = Append(callbacks, Callback("closed", <<>>))
      BY <1>2 DEF ClosesSocket
    <2>2. callbacks \in Seq(CallbackSet) /\ Callback("closed", <<>>) \in CallbackSet
      BY CallbacksType, ClosedType
    <2>3. \A i \in DOMAIN callbacks' :
            \/ i \in DOMAIN callbacks /\ callbacks'[i] = callbacks[i]
            \/ callbacks'[i] = Callback("closed", <<>>)
      BY <2>1, <2>2
    <2>4. Callback("closed", <<>>).kind = "closed"
      BY DEF Callback
    <2>5. Reading(callbacks') <=> Reading(callbacks)
      <3>1. CASE callbacks = <<>>
        <4>1. callbacks'[1] = Callback("closed", <<>>)
          BY <2>1, <2>2, <3>1
        <4> QED
          BY <2>4, <3>1, <4>1 DEF Reading
      <3>2. CASE callbacks # <<>>
        <4>1. callbacks' # <<>> /\ callbacks'[1] = callbacks[1]
          BY <2>1, <2>2, <3>2
        <4> QED
          BY <3>2, <4>1 DEF Reading
      <3> QED
        BY <3>1, <3>2
    <2> QED
      BY <2>3, <2>4, <2>5
  <1> QED
    BY <1>1, <1>2

LEMMA ClosedQueues ==
    ASSUME Inv, Queues, ClosesSocket, UNCHANGED <<state, granted>>, Arriving' \subseteq Arriving
    PROVE  Queues'
  <1>1. socket' = "idle" /\ reads' = 0 /\ wire' = <<>> /\ requests' = <<>>
    BY DEF ClosesSocket
  <1>2. /\ Reading(callbacks') <=> Reading(callbacks)
        /\ \A i \in DOMAIN callbacks' :
             callbacks'[i].kind # "closed" => i \in DOMAIN callbacks /\ callbacks'[i] = callbacks[i]
    BY ClosedCallbacks
  <1>3. callbacks' # <<>> => 1 \in DOMAIN callbacks'
    BY CallbacksType, ClosedType DEF ClosesSocket
  <1>4. callbacks' # <<>> /\ callbacks'[1].kind = "connected"
          => callbacks # <<>> /\ callbacks[1].kind = "connected"
    BY <1>2, <1>3
  <1>5. \A i \in DOMAIN callbacks' : callbacks'[i].kind # "closed" => i = 1
    BY <1>2 DEF Queues
  <1> QED
    BY <1>1, <1>2, <1>4, <1>5 DEF Queues, Established

LEMMA ConnectedQueues ==
    ASSUME Inv, Queues, Established, Established', UNCHANGED socketVars,
           Usable \/ UNCHANGED trafficVars, Arriving' \subseteq Arriving
    PROVE  Queues'
  BY DEF Queues, Established, Usable, socketVars, trafficVars

LEMMA NumberedKept ==
    ASSUME Inv, GrantInv, Numbered, ~Down, UNCHANGED conn, parser' \in {parser, NewParser},
           parsed' = parsed \/ (parsed # <<>> /\ parsed' = Tail(parsed)),
           isAuthenticated' => isAuthenticated \/ parser' # NoParser,
           parser' # NoParser \/ ~Established' \/ (isSecure' /\ state' = "STARTTLS_2")
    PROVE  Numbered'
  <1>1. On(parsed') \subseteq On(parsed) /\ On(parsed) \subseteq Entries
    BY ParsedType, OnTail, OnMembers
  <1>2. parser \in Nat \X Nat /\ conn \in Nat
    BY DEF Inv, TypeOK, NegTypes, ServerTypes
  <1>3. CASE parser' = parser
    BY <1>1, <1>3 DEF Numbered
  <1>4. CASE parser' = NewParser
    <2>1. parser'[1] = conn /\ parser'[2] = (IF parser[1] = conn THEN parser[2] + 1 ELSE 1)
      BY <1>4 DEF NewParser
    <2>2. parser'[2] \in Nat /\ parser'[2] >= 1
      BY <1>2, <2>1
    <2>3. parser' # NoParser
      BY <2>2 DEF NoParser
    <2>4. ASSUME NEW x \in On(parsed), x.parser[1] = conn PROVE x.parser[2] <= parser'[2]
      <3>1. parser[1] = conn /\ x.parser[2] <= parser[2]
        BY <2>4 DEF Numbered
      <3>2. x.parser[2] \in Nat
        BY <1>1 DEF Entries
      <3> QED
        BY <1>2, <2>1, <3>1, <3>2
    <2> QED
      BY <1>1, <2>1, <2>2, <2>3, <2>4 DEF Numbered
  <1> QED
    BY <1>3, <1>4

\* The reads of a step that keeps the parser.
LEMMA ReadsKept ==
    ASSUME Inv, ReadsInv, Established, UNCHANGED <<granted, parser, isSecure>>,
           ClosesSocket \/ UNCHANGED <<socketVars, reads>>,
           parsed' = parsed \/ (TakesParsed /\ (~FromCurrentParser \/ elem.kind # "chunkEnd")),
           state = "STARTTLS_2" => state' = "STARTTLS_2",
           state' = "STARTTLS_2" =>
             state = "STARTTLS_2" \/ (~isSecure /\ Own(parsed, parser) # {})
    PROVE  ReadsInv'
  <1>1. /\ Own(parsed', parser) # {} => Own(parsed, parser) # {}
        /\ OneEnd(parsed, parser) => OneEnd(parsed', parser) /\ Own(parsed', parser) # {}
    <2>1. CASE parsed' = parsed
      BY <2>1 DEF OneEnd
    <2>2. CASE TakesParsed /\ (~FromCurrentParser \/ elem.kind # "chunkEnd")
      <3>1. parsed \in Seq(Entries) /\ parsed # <<>> /\ parsed' = Tail(parsed)
        BY <2>2, ParsedType DEF TakesParsed
      <3> QED
        BY <2>2, <3>1, EndTail DEF FromCurrentParser, elem
    <2> QED
      BY <2>1, <2>2
  <1>2. CASE UNCHANGED <<socketVars, reads>>
    BY <1>1, <1>2 DEF ReadsInv, Usable, Bound, socketVars
  <1>3. CASE ClosesSocket
    <2>1. reads' = 0 /\ ~Usable' /\ (Reading(callbacks') <=> Reading(callbacks))
      BY <1>3, ClosedCallbacks DEF ClosesSocket, Usable
    <2> QED
      BY <1>1, <2>1 DEF ReadsInv, Bound
  <1> QED
    BY <1>2, <1>3

LEMMA Stays ==
    ASSUME Inv, Inv', GrantInv, Queues, Numbered, ReadsInv, Established, Established',
           UNCHANGED <<conn, granted, parser, isSecure>>,
           isAuthenticated' => isAuthenticated \/ parser # NoParser,
           \/ ClosesSocket /\ UNCHANGED state
           \/ UNCHANGED <<socketVars, reads>> /\ (Usable \/ UNCHANGED requests),
           parsed' = parsed \/ (TakesParsed /\ (~FromCurrentParser \/ elem.kind # "chunkEnd")),
           state = "STARTTLS_2" => state' = "STARTTLS_2",
           state' = "STARTTLS_2" =>
             state = "STARTTLS_2" \/ (~isSecure /\ Own(parsed, parser) # {})
    PROVE  Queues' /\ Numbered' /\ ReadsInv' /\ Arriving' \subseteq Arriving
  <1>1. parsed' = parsed \/ (parsed # <<>> /\ parsed' = Tail(parsed))
    BY DEF TakesParsed
  <1>2. ~Down
    BY EstablishedIsUp
  <1>3. Arriving' \subseteq Arriving
    <2>1. CASE ClosesSocket
      BY <1>1, <2>1, ClosedWeight
    <2>2. CASE UNCHANGED socketVars
      BY <1>1, <1>2, <2>2, ArrivingShrinks DEF socketVars
    <2> QED
      BY <2>1, <2>2
  <1>4. Queues'
    <2>1. CASE ClosesSocket /\ UNCHANGED state
      BY <1>3, <2>1, ClosedQueues
    <2>2. CASE UNCHANGED <<socketVars, reads>> /\ (Usable \/ UNCHANGED requests)
      BY <1>3, <2>2, ConnectedQueues DEF trafficVars
    <2> QED
      BY <2>1, <2>2
  <1>5. Numbered'
    <2>1. parser # NoParser \/ (isSecure /\ state = "STARTTLS_2")
      BY DEF Numbered
    <2> QED
      BY <1>1, <1>2, <2>1, NumberedKept
  <1>6. ReadsInv'
    BY ReadsKept
  <1> QED
    BY <1>3, <1>4, <1>5, <1>6

LEMMA Restarts ==
    ASSUME Inv, Inv', GrantInv, Queues, Numbered, ReadsInv, Established, state' = "OPENING",
           parser' = NewParser, UNCHANGED <<conn, granted, socketVars>>,
           Usable \/ UNCHANGED requests, parsed' = parsed \/ TakesParsed,
           \/ reads = 0 /\ ~Reading(callbacks) /\ QueuesRead
           \/ isSecure /\ isSecure' /\ UNCHANGED reads /\ state # "STARTTLS_2"
    PROVE  /\ Queues' /\ Numbered' /\ ReadsInv' /\ Arriving' \subseteq Arriving
           /\ parser # NoParser => parser'[2] >= 2
  <1>1. parsed' = parsed \/ (parsed # <<>> /\ parsed' = Tail(parsed))
    BY DEF TakesParsed
  <1>2. ~Down /\ Established'
    BY EstablishedIsUp DEF Established
  <1>3. Own(parsed', parser') = {} /\ parser' # NoParser
    BY <1>1, <1>2, FreshParser
  <1>4. Arriving' \subseteq Arriving
    BY <1>1, <1>2, ArrivingShrinks DEF socketVars
  <1>5. Queues'
    BY <1>2, <1>4, ConnectedQueues DEF trafficVars, QueuesRead
  <1>6. Numbered'
    BY <1>1, <1>2, <1>3, NumberedKept
  <1>7. ReadsInv'
    <2>1. CASE reads = 0 /\ ~Reading(callbacks) /\ QueuesRead
      <3>1. reads' = IF Usable THEN 1 ELSE 0
        BY <2>1 DEF QueuesRead
      <3> QED
        BY <1>3, <2>1, <3>1 DEF ReadsInv, Usable, socketVars
    <2>2. CASE isSecure /\ isSecure' /\ UNCHANGED reads /\ state # "STARTTLS_2"
      BY <2>2 DEF ReadsInv, Usable, socketVars
    <2> QED
      BY <2>1, <2>2
  <1>8. parser # NoParser => parser'[2] >= 2
    <2>1. parser \in Nat \X Nat /\ (parser # NoParser => parser[1] = conn /\ parser[2] >= 1)
      BY DEF Inv, TypeOK, NegTypes, Numbered, GrantInv, ParserIsOfConn
    <2> QED
      BY <2>1 DEF NewParser
  <1> QED
    BY <1>4, <1>5, <1>6, <1>7, <1>8

-----------------------------------------------------------------------------
(* NegotiationInv holds in every state: the steps, one action after the other. *)

LEMMA UnderwayNext == ASSUME Inv' PROVE Underway' \in Nat
  <1>1. /\ requests' \in Seq(RequestSet) /\ wire' \in Seq(ElemSet)
        /\ callbacks' \in Seq(CallbackSet) /\ parsed' \in Seq(Entries)
    BY DEF Inv, TypeOK, TrafficTypes, SocketTypes, WaitingTypes, Entries
  <1>2. Data(callbacks') \in Seq(ElemSet)
    <2>1. CASE Reading(callbacks')
      <3>1. callbacks'[1] \in CallbackSet
        BY <1>1, <2>1 DEF Reading
      <3> QED
        BY <2>1, <3>1 DEF Data, CallbackSet
    <2>2. CASE ~Reading(callbacks')
      BY <2>2, EmptyType DEF Data
    <2> QED
      BY <2>1, <2>2
  <1>3. /\ RequestWeight(requests') \in Nat /\ ElemWeight(wire') \in Nat
        /\ ElemWeight(Data(callbacks')) \in Nat /\ ParsedWeight(parsed', parser') \in Nat
    BY <1>1, <1>2, RequestWeightNat, ElemWeightNat, ParsedWeightNat
  <1> QED
    BY <1>3 DEF Underway, Weight

LEMMA NegotiationStutter ==
    ASSUME NegotiationInv,
           UNCHANGED <<state, isSecure, isAuthenticated, parser, parsed, callbacks, wire, requests,
                       reads, socket, draining, conn, granted, questions, heard>>
    PROVE  NegotiationInv'
  <1>1. Arriving' = Arriving /\ Underway' = Underway /\ Asked' = Asked
    BY DEF Arriving, Underway, Asked
  <1>2. (Established' <=> Established) /\ (Bound' <=> Bound) /\ (Answered' <=> Answered)
    BY DEF Established, Bound, Answered
  <1>3. Queues'
    BY <1>1, <1>2 DEF NegotiationInv, Queues
  <1>4. Numbered'
    BY <1>2 DEF NegotiationInv, Numbered, Down
  <1>5. ReadsInv'
    BY <1>2 DEF NegotiationInv, ReadsInv, Usable
  <1>6. TurnInv'
    BY <1>1, <1>2 DEF NegotiationInv, TurnInv, Turns, NoTLSTwice, BoundStays,
                      BindsAuthenticated, Granting, Restarting, Announced
  <1> QED
    BY <1>3, <1>4, <1>5, <1>6 DEF NegotiationInv

\* A host is tried, or none: before a connection is established.
LEMMA ConnectingStep ==
    ASSUME Inv, InTime, Inv', GrantInv, NegotiationInv, ~Established, ~Established',
           socket = "idle", callbacks' = <<>>,
           UNCHANGED <<parser, parsed, wire, requests, reads, isAuthenticated>>,
           \/ BeginsConnection /\ state' = "CONNECTING"
           \/ state' # "CONNECTING" /\ UNCHANGED socket
    PROVE  NegotiationInv'
  <1>1. reads' = 0 /\ wire' = <<>> /\ requests' = <<>>
    BY DEF NegotiationInv, Queues
  <1>2. Arriving' \subseteq Arriving
    <2>1. Data(callbacks') = <<>>
      BY DEF Data, Reading
    <2> QED
      BY <2>1, OnEmpty DEF Arriving, Pending
  <1>3. Queues'
    <2>1. ~Reading(callbacks')
      BY DEF Reading
    <2> QED
      BY <1>1, <1>2, <2>1 DEF NegotiationInv, Queues, BeginsConnection
  <1>4. Numbered'
    <2>1. CASE BeginsConnection
      <3>1. \A x \in On(parsed) : x.parser[1] \in Nat /\ x.parser[1] <= conn
        BY ParsedType, OnMembers DEF GrantInv, ParsedGranted, Entries
      <3>2. conn \in Nat /\ conn' = conn + 1
        BY <2>1 DEF BeginsConnection, Inv, TypeOK, ServerTypes
      <3>3. \A x \in On(parsed) : x.parser[1] # conn'
        BY <3>1, <3>2
      <3> QED
        BY <3>3 DEF NegotiationInv, Numbered
    <2>2. CASE state' # "CONNECTING"
      <3>1. Down'
        BY <2>2 DEF Established, Down, Inv, TypeOK, States
      <3> QED
        BY <3>1 DEF NegotiationInv, Numbered
    <2> QED
      BY <2>1, <2>2
  <1> QED
    BY <1>3, <1>4, DownTurn DEF NegotiationInv

\* The socket closes.
LEMMA ClosesNegotiation ==
    ASSUME Inv, InTime, Inv', GrantInv, NegotiationInv, ClosesSocket, ~Down,
           UNCHANGED <<state, isSecure, isAuthenticated, conn, granted, parser>>,
           heard \subseteq heard', Asked' \subseteq Asked,
           parsed' = parsed \/ (TakesParsed /\ (~FromCurrentParser \/ elem.kind # "chunkEnd"))
    PROVE  NegotiationInv'
  <1>1. parsed' = parsed \/ (parsed # <<>> /\ parsed' = Tail(parsed))
    BY DEF TakesParsed
  <1>2. Arriving' \subseteq Arriving /\ Underway' <= Underway /\ requests' = <<>>
    BY <1>1, ClosedWeight
  <1>3. CASE Established
    <2>1. Established'
      BY <1>3 DEF Established
    <2>2. Queues' /\ Numbered' /\ ReadsInv'
      BY <1>3, <2>1, Stays DEF NegotiationInv
    <2>3. Underway \in Nat /\ Underway' \in Nat
      BY Weights, UnderwayNext
    <2>4. TurnInv'
      BY <1>2, <2>3, OnEmpty, ShrinksTurn DEF NegotiationInv
    <2> QED
      BY <2>2, <2>4 DEF NegotiationInv
  <1>4. CASE ~Established
    <2>1. ~Established'
      BY <1>4 DEF Established
    <2>2. Queues'
      BY <1>2, ClosedQueues DEF NegotiationInv
    <2>3. Numbered'
      BY <1>1, <2>1, NumberedKept DEF NegotiationInv
    <2> QED
      BY <2>1, <2>2, <2>3, DownTurn DEF NegotiationInv
  <1> QED
    BY <1>3, <1>4

\* What disconnect, abortConnecting and the timeout have in common.
LEMMA StopsNegotiation ==
    ASSUME Inv, InTime, Inv', SocketInv, GrantInv, NegotiationInv, StopsConnecting \/ LeavesToSocket,
           UNCHANGED <<negVars, loginVars, serverVars, parsed, questions>>, heard \subseteq heard'
    PROVE  NegotiationInv'
  <1>1. CASE StopsConnecting
    <2>1. Down /\ state' = "DISCONNECTED" /\ UNCHANGED <<socketVars, trafficVars>>
      BY <1>1 DEF StopsConnecting, Down
    <2>2. ~Established /\ socket = "idle" /\ callbacks = <<>>
      BY <2>1, DownKeepsNothing
    <2> QED
      BY <2>1, <2>2, ConnectingStep
         DEF Established, negVars, loginVars, serverVars, socketVars, trafficVars
  <1>2. CASE LeavesToSocket
    <2>1. ~Down /\ ClosesSocket /\ UNCHANGED state
      BY <1>2 DEF LeavesToSocket, Down
    <2>2. Asked' = Asked
      BY DEF Asked
    <2> QED
      BY <2>1, <2>2, ClosesNegotiation DEF negVars, loginVars, serverVars
  <1> QED
    BY <1>1, <1>2

LEMMA ConnectNegotiation ==
    ASSUME Inv, InTime, Inv', SocketInv, GrantInv, NegotiationInv, ConnectWithTimeout
    PROVE  NegotiationInv'
  <1>1. /\ Down /\ ~Established'
        /\ UNCHANGED <<parser, parsed, wire, requests, reads, isAuthenticated, callbacks>>
        /\ \/ BeginsConnection /\ state' = "CONNECTING"
           \/ state' # "CONNECTING" /\ UNCHANGED socket
    BY DEF ConnectWithTimeout, Down, Established, loginVars, trafficVars
  <1>2. ~Established /\ socket = "idle" /\ callbacks = <<>>
    BY <1>1, DownKeepsNothing
  <1> QED
    BY <1>1, <1>2, ConnectingStep

LEMMA StoppingNegotiation ==
    ASSUME Inv, InTime, Inv', SocketInv, GrantInv, NegotiationInv,
           Disconnect \/ AbortConnecting \/ DoConnectTimeout
    PROVE  NegotiationInv'
  <1>1. CASE Disconnect
    <2>1. heard \subseteq heard'
      BY <1>1 DEF Disconnect
    <2> QED
      BY <1>1, <2>1, StopsNegotiation DEF Disconnect
  <1>2. CASE AbortConnecting
    <2>1. CASE StopsConnecting \/ LeavesToSocket
      BY <1>2, <2>1, StopsNegotiation DEF AbortConnecting
    <2>2. CASE UNCHANGED <<state, srvResolver, socketVars, trafficVars, told>>
      BY <1>2, <2>2, NegotiationStutter
         DEF AbortConnecting, negVars, loginVars, serverVars, socketVars, trafficVars
    <2> QED
      BY <1>2, <2>1, <2>2 DEF AbortConnecting
  <1>3. CASE DoConnectTimeout
    <2>1. CASE StopsConnecting \/ LeavesToSocket
      <3>1. heard \subseteq heard'
        BY <1>3 DEF DoConnectTimeout
      <3> QED
        BY <1>3, <2>1, <3>1, StopsNegotiation DEF DoConnectTimeout
    <2>2. CASE UNCHANGED <<state, srvResolver, socketVars, trafficVars, heard>>
      BY <1>3, <2>2, NegotiationStutter
         DEF DoConnectTimeout, negVars, loginVars, serverVars, socketVars, trafficVars
    <2> QED
      BY <1>3, <2>1, <2>2 DEF DoConnectTimeout
  <1> QED
    BY <1>1, <1>2, <1>3

LEMMA DisconnectAfterSendingNegotiation ==
    ASSUME NegotiationInv, DisconnectAfterSending
    PROVE  NegotiationInv'
  <1>1. UNCHANGED <<state, isSecure, isAuthenticated, parser, parsed, callbacks, wire, requests,
                    reads, socket, conn, granted, questions, heard>>
    BY DEF DisconnectAfterSending, negVars, loginVars, trafficVars, serverVars
  <1>2. ~Usable'
    BY DEF DisconnectAfterSending, Usable
  <1>3. Arriving' = Arriving /\ Underway' = Underway /\ Asked' = Asked
    BY <1>1 DEF Arriving, Underway, Asked
  <1>4. (Established' <=> Established) /\ (Bound' <=> Bound) /\ (Answered' <=> Answered)
    BY <1>1 DEF Established, Bound, Answered
  <1>5. Queues'
    BY <1>1, <1>3, <1>4 DEF NegotiationInv, Queues
  <1>6. Numbered'
    BY <1>1, <1>4 DEF NegotiationInv, Numbered, Down
  <1>7. ReadsInv'
    BY <1>1, <1>2, <1>4 DEF NegotiationInv, ReadsInv
  <1>8. TurnInv'
    BY <1>1, <1>3, <1>4 DEF NegotiationInv, TurnInv, Turns, NoTLSTwice, BoundStays,
                            BindsAuthenticated, Granting, Restarting, Announced
  <1> QED
    BY <1>5, <1>6, <1>7, <1>8 DEF NegotiationInv

\* The application asks something of the server of a connected stream.
LEMMA AsksServer ==
    ASSUME Inv, Inv', GrantInv, NegotiationInv, state = "CONNECTED", NEW r \in RequestSet, Writes(r),
           UNCHANGED <<negVars, isAuthenticated, socketVars, reads, serverVars, parsed, questions,
                       heard>>,
           \/ r.kind = "auth" /\ state' = "AUTH" /\ ~isAuthenticated
           \/ r.kind = "register" /\ state' = "REGISTERING"
           \/ r.kind = "starttls" /\ state' = "STARTTLS_1" /\ ~isSecure
    PROVE  NegotiationInv'
  <1>1. /\ UNCHANGED <<parser, isSecure, conn, granted, wire, callbacks>>
        /\ Established /\ Established' /\ Asked' = Asked
    BY DEF negVars, serverVars, socketVars, Established, Asked
  <1>2. Queues' /\ Numbered' /\ ReadsInv' /\ Arriving' \subseteq Arriving
    BY <1>1, Stays DEF NegotiationInv, Writes
  <1>3. On(requests') \subseteq On(requests) \cup {r} /\ (requests = <<>> => requests' \in {<<>>, <<r>>})
    BY WritesAdds
  <1>4. IF isAuthenticated THEN Answered ELSE "didConnect" \in heard
    BY DEF NegotiationInv, TurnInv, Announced
  <1>5. (Answered' <=> Answered) /\ heard' = heard
    BY DEF Answered
  <1>6. TurnInv'
    <2>1. CASE ~Bound
      <3>1. Underway = 0 /\ Asked = {}
        <4>1. Underway <= Room(state) /\ (Asked # {} => state = "BINDING")
          BY <1>1, <2>1 DEF NegotiationInv, TurnInv, Turns
        <4> QED
          BY <4>1, Weights DEF Room
      <3>2. requests = <<>> /\ Arriving' = {} /\ Underway' = RequestWeight(requests')
        BY <1>1, <3>1, NothingUnderway, IdleLeaves, EstablishedIsUp DEF NegotiationInv
      <3>3. RequestIs(r) = 1 /\ Room(state') = 1
        BY DEF RequestIs, Room
      <3>4. ~Bound' /\ ("auth" \in granted' => isAuthenticated')
        BY <1>1, <2>1 DEF Bound, NegotiationInv, TurnInv, Granting
      <3>5. Announced'
        BY <1>4, <1>5 DEF Announced
      <3> QED
        BY <1>1, <1>3, <3>1, <3>2, <3>3, <3>4, <3>5, TurnTaken
    <2>2. CASE Bound
      <3>1. isAuthenticated
        BY <1>1, <2>2 DEF NegotiationInv, TurnInv, BindsAuthenticated
      <3> QED
        BY <1>1, <1>2, <1>3, <1>4, <1>5, <2>2, <3>1, BoundStep DEF NegotiationInv
    <2> QED
      BY <2>1, <2>2
  <1> QED
    BY <1>2, <1>6 DEF NegotiationInv

LEMMA ApplicationNegotiation ==
    ASSUME Inv, InTime, AuthenticatesOnce, Inv', SocketInv, GrantInv, NegotiationInv, Application
    PROVE  NegotiationInv'
  <1>1. /\ Request("auth", "none") \in RequestSet /\ Request("auth", "none").kind = "auth"
        /\ Request("register", "none") \in RequestSet
        /\ Request("register", "none").kind = "register"
        /\ Request("starttls", "none") \in RequestSet
        /\ Request("starttls", "none").kind = "starttls"
    BY DEF Request, RequestSet
  <1>2. CASE Authenticate
    BY <1>1, <1>2, AsksServer DEF Authenticate, AuthenticatesOnce
  <1>3. CASE RegisterWithElements
    BY <1>1, <1>3, AsksServer DEF RegisterWithElements, loginVars
  <1>4. CASE SecureConnection
    BY <1>1, <1>4, AsksServer DEF SecureConnection, loginVars
  <1> QED
    BY <1>2, <1>3, <1>4, ConnectNegotiation, StoppingNegotiation,
       DisconnectAfterSendingNegotiation DEF Application

\* An element that is taken off, and nothing else.
LEMMA TakenShrinks ==
    ASSUME Inv, Inv', TurnInv, TakesParsed,
           UNCHANGED <<state, negVars, loginVars, wire, callbacks, requests, questions, heard>>
    PROVE  TurnInv' /\ Arriving' \subseteq Arriving
  <1>1. UNCHANGED <<parser, isSecure, isAuthenticated, conn, granted>> /\ Asked' = Asked
    BY DEF TakesParsed, negVars, loginVars, serverVars, Asked
  <1>2. /\ Arriving' \subseteq Arriving /\ elem \in ElemSet
        /\ Underway' + RequestWeight(requests) + (IF FromCurrentParser THEN ElemIs(elem) ELSE 0)
             = Underway + RequestWeight(requests')
    BY <1>1, TakenWeight
  <1>3. ElemIs(elem) \in Nat /\ RequestWeight(requests') = RequestWeight(requests)
    BY <1>2, ElemIsValues
  <1>4. Underway \in Nat /\ Underway' \in Nat /\ RequestWeight(requests) \in Nat
    BY Weights, UnderwayNext
  <1>5. Underway' <= Underway
    BY <1>2, <1>3, <1>4
  <1> QED
    BY <1>1, <1>2, <1>4, <1>5, ShrinksTurn

LEMMA IgnoredNegotiation ==
    ASSUME Inv, InTime, Inv', GrantInv, NegotiationInv, IgnoreOldParser \/ IgnoreElement
    PROVE  NegotiationInv'
  <1>1. /\ TakesParsed /\ (~FromCurrentParser \/ elem.kind # "chunkEnd")
        /\ UNCHANGED <<state, negVars, loginVars, socketVars, trafficVars, questions, heard>>
        /\ UNCHANGED <<socket, draining, wire, callbacks, requests, reads, parser, isSecure,
                       isAuthenticated, conn, granted>>
        /\ parsed # <<>> /\ parsed' = Tail(parsed)
    BY DEF IgnoreOldParser, IgnoreElement, TakesElement, TakesParsed, socketVars, trafficVars,
           negVars, loginVars, serverVars
  <1>2. TurnInv' /\ Arriving' \subseteq Arriving
    BY <1>1, TakenShrinks DEF NegotiationInv
  <1>3. CASE Established
    <2>1. Established'
      BY <1>1, <1>3 DEF Established
    <2> QED
      BY <1>1, <1>2, <1>3, <2>1, Stays DEF NegotiationInv
  <1>4. CASE ~Established
    <2>1. ~Established'
      BY <1>1, <1>4 DEF Established
    <2>2. Queues'
      BY <1>1, <1>2, <1>4, <2>1 DEF NegotiationInv, Queues
    <2>3. Numbered'
      <3>1. CASE Down
        BY <1>1, <2>1, <3>1 DEF NegotiationInv, Numbered, Down
      <3>2. CASE ~Down
        BY <1>1, <2>1, <3>2, NumberedKept DEF NegotiationInv
      <3> QED
        BY <3>1, <3>2
    <2> QED
      BY <1>2, <2>1, <2>2, <2>3, DownTurn DEF NegotiationInv
  <1> QED
    BY <1>3, <1>4

LEMMA DidParseDataNegotiation ==
    ASSUME Inv, Inv', GrantInv, NegotiationInv, DidParseData
    PROVE  NegotiationInv'
  <1>1. /\ TakesParsed /\ FromCurrentParser /\ elem.kind = "chunkEnd"
        /\ UNCHANGED <<state, negVars, loginVars, socketVars, requests, questions, heard>>
        /\ UNCHANGED <<socket, draining, wire, callbacks, parser, isSecure, isAuthenticated,
                       conn, granted>>
        /\ parsed \in Seq(Entries) /\ parsed # <<>> /\ parsed' = Tail(parsed)
        /\ IF ReadsOn THEN QueuesRead ELSE UNCHANGED reads
    BY ParsedType DEF DidParseData, TakesParsed, socketVars, negVars, loginVars, serverVars
  <1>2. Established /\ Established' /\ ~Down
    BY <1>1, CurrentIsEstablished, EstablishedIsUp DEF Established
  <1>3. TurnInv' /\ Arriving' \subseteq Arriving
    BY <1>1, TakenShrinks DEF NegotiationInv
  <1>4. Queues'
    BY <1>1, <1>2, <1>3, ConnectedQueues DEF NegotiationInv, QueuesRead, trafficVars
  <1>5. Numbered'
    <2>1. parser # NoParser \/ (isSecure /\ state = "STARTTLS_2")
      BY <1>2 DEF NegotiationInv, Numbered
    <2> QED
      BY <1>1, <1>2, <2>1, NumberedKept DEF NegotiationInv
  <1>6. ReadsInv'
    <2>1. /\ Own(parsed, parser) # {}
          /\ OneEnd(parsed, parser) => Own(parsed', parser) = {}
      <3>1. 1 \in Own(parsed, parser)
        BY <1>1 DEF Own, FromCurrentParser
      <3> QED
        BY <1>1, <3>1, EndTail DEF FromCurrentParser, elem
    <2>2. CASE isSecure
      <3>1. UNCHANGED reads
        BY <1>1, <2>2 DEF ReadsOn
      <3> QED
        BY <1>1, <1>2, <2>2, <3>1 DEF NegotiationInv, ReadsInv, Usable, Bound
    <2>3. CASE ~isSecure
      <3>1. reads = 0 /\ ~Reading(callbacks) /\ Own(parsed', parser) = {}
        BY <1>2, <2>1, <2>3 DEF NegotiationInv, ReadsInv
      <3>2. reads' = IF Usable /\ state # "STARTTLS_2" THEN 1 ELSE 0
        BY <1>1, <2>3, <3>1 DEF ReadsOn, QueuesRead
      <3> QED
        BY <1>1, <1>2, <2>3, <3>1, <3>2 DEF ReadsInv, Usable
    <2> QED
      BY <2>2, <2>3
  <1> QED
    BY <1>3, <1>4, <1>5, <1>6 DEF NegotiationInv

LEMMA ParserDidEndNegotiation ==
    ASSUME Inv, InTime, Inv', GrantInv, NegotiationInv, ParserDidEnd
    PROVE  NegotiationInv'
  <1>1. /\ TakesParsed /\ elem.kind # "chunkEnd" /\ ClosesSocket /\ heard' = heard
        /\ UNCHANGED <<state, isSecure, isAuthenticated, conn, granted, parser>>
        /\ Asked' = Asked
    BY DEF ParserDidEnd, TakesParsed, negVars, loginVars, serverVars, Asked
  <1>2. ~Down
    BY CurrentIsEstablished, EstablishedIsUp DEF ParserDidEnd, TakesParsed
  <1> QED
    BY <1>1, <1>2, ClosesNegotiation

LEMMA DidReadRootNegotiation ==
    ASSUME Inv, Inv', GrantInv, NegotiationInv, DidReadRoot
    PROVE  NegotiationInv'
  <1> DEFINE r == Request("query", "none")
             old == elem.value = "old"
  <1>1. /\ TakesParsed /\ FromCurrentParser /\ elem.kind = "root" /\ state' = "NEGOTIATING"
        /\ UNCHANGED <<negVars, isAuthenticated, socketVars, reads, questions, heard>>
        /\ UNCHANGED <<socket, draining, wire, callbacks, parser, isSecure, conn, granted>>
        /\ IF old THEN Writes(r) ELSE UNCHANGED requests
    BY DEF DidReadRoot, TakesParsed, socketVars, negVars, serverVars
  <1>2. r \in RequestSet /\ r.kind = "query"
    BY DEF Request, RequestSet
  <1>3. Established /\ Established' /\ Asked' = Asked /\ (Answered' <=> Answered)
    BY <1>1, CurrentIsEstablished DEF TakesParsed, Established, Asked, Answered
  <1>4. /\ requests' \in {requests, Append(requests, r)} /\ (requests' = requests \/ old)
        /\ On(requests') \subseteq On(requests) \cup {r}
    BY <1>1, <1>2, WritesAdds
  <1>5. state # "STARTTLS_2" => Queues' /\ Numbered' /\ ReadsInv'
    BY <1>1, <1>3, Stays DEF NegotiationInv, Writes
  <1>6. /\ Arriving' \subseteq Arriving /\ elem \in ElemSet /\ elem \in Arriving
        /\ Underway' + RequestWeight(requests) + ElemIs(elem)
             = Underway + RequestWeight(requests')
    BY <1>1, TakenWeight
  <1>7. ElemIs(elem) \in Nat /\ ElemIs(elem) >= 2 /\ (old => ElemIs(elem) = 3)
    BY <1>1, <1>6, ElemIsValues
  <1>8. /\ RequestWeight(requests) \in Nat /\ RequestWeight(requests') \in Nat
        /\ RequestWeight(requests') <= RequestWeight(requests) + (IF old THEN 1 ELSE 0)
    <2>1. requests \in Seq(RequestSet) /\ RequestWeight(requests) \in Nat
      BY Weights
    <2>2. RequestWeight(Append(requests, r)) = RequestWeight(requests) + RequestIs(r)
      BY <1>2, <2>1, RequestWeightAppend
    <2>3. RequestIs(r) = 1
      BY <1>2 DEF RequestIs
    <2> HIDE DEF r, old
    <2>4. CASE requests' = requests
      BY <2>1, <2>4
    <2>5. CASE old /\ requests' = Append(requests, r)
      BY <2>1, <2>2, <2>3, <2>5
    <2> QED
      BY <1>4, <2>4, <2>5
  <1>9. /\ Underway \in Nat /\ Underway' \in Nat /\ ElemIs(elem) <= Underway
        /\ Underway' + 2 <= Underway
    <2>1. Underway \in Nat /\ Underway' \in Nat
      BY Weights, UnderwayNext
    <2>2. ElemIs(elem) <= Underway
      <3>1. /\ ParsedWeight(parsed, parser) = ParsedWeight(parsed', parser) + ElemIs(elem)
        BY <1>1, TakenWeight
      <3>2. ParsedWeight(parsed', parser) \in Nat
        BY <1>1, ParsedTaken, ParsedWeightNat
      <3> QED
        BY <1>7, <3>1, <3>2, Weights
    <2> HIDE DEF r, old
    <2> DEFINE m == RequestWeight(requests)
               n == RequestWeight(requests')
               e == ElemIs(elem)
    <2>3. m \in Nat /\ n \in Nat /\ e \in Nat /\ e >= 2 /\ (old => e = 3)
      BY <1>7, <1>8
    <2>4. old => n <= m + 1
      BY <1>8
    <2>5. ~old => n <= m + 0
      BY <1>8
    <2>6. Underway' + m + e = Underway + n
      BY <1>6
    <2> HIDE DEF m, n, e
    <2>7. n + 2 <= m + e
      BY <2>3, <2>4, <2>5
    <2>8. Underway' + 2 <= Underway
      <3>1. \A u, v \in Nat : v + m + e = u + n => v + 2 <= u
        BY <2>3, <2>7
      <3> QED
        BY <2>1, <2>6, <3>1
    <2> QED
      BY <2>1, <2>2, <2>8
  <1>10. CASE ~Bound
    <2>1. state = "OPENING" /\ Underway <= 3
      <3>1. Underway <= Room(state)
        BY <1>3, <1>10 DEF NegotiationInv, TurnInv, Turns
      <3> QED
        BY <1>7, <1>9, <3>1 DEF Room
    <2>2. Asked' = {}
      BY <1>3, <1>10, <2>1 DEF NegotiationInv, TurnInv, Turns
    <2>3. \A q \in On(requests') : q.kind \notin {"auth", "bind", "custom"}
      BY <1>2, <1>3, <1>4, <1>10, <2>1 DEF NegotiationInv, TurnInv, Turns
    <2>4. Turns'
      <3>1. Underway' <= 1
        <4>1. \A u, v \in Nat : u <= 3 /\ v + 2 <= u => v <= 1
          OBVIOUS
        <4> QED
          BY <1>9, <2>1, <4>1
      <3>2. Room(state') = 1
        BY <1>1 DEF Room
      <3> QED
        BY <2>2, <2>3, <3>1, <3>2 DEF Turns
    <2>5. NoTLSTwice' /\ BoundStays' /\ BindsAuthenticated' /\ Announced'
      BY <1>1, <1>3, <1>6, <1>10, <2>2
         DEF NegotiationInv, TurnInv, NoTLSTwice, BoundStays, BindsAuthenticated, Announced, Bound
    <2>6. Granting'
      BY <1>1, <1>3, <1>6, <2>1 DEF NegotiationInv, TurnInv, Granting
    <2>7. Restarting'
      <3>1. isAuthenticated => ~old
        BY <1>1, <1>3, <1>6, <1>10, <2>1 DEF NegotiationInv, TurnInv, Restarting
      <3> QED
        BY <1>1, <1>3, <1>4, <1>6, <1>10, <2>1, <3>1 DEF NegotiationInv, TurnInv, Restarting
    <2> QED
      BY <1>5, <2>1, <2>4, <2>5, <2>6, <2>7 DEF NegotiationInv, TurnInv
  <1>11. CASE Bound
    <2>1. isSecure /\ Answered
      BY <1>1, <1>3, <1>6, <1>11 DEF NegotiationInv, TurnInv, BoundStays
    <2>2. state # "STARTTLS_2"
      BY <1>3, <1>11, <2>1 DEF NegotiationInv, ReadsInv
    <2>3. TurnInv'
      BY <1>1, <1>2, <1>3, <1>4, <1>6, <1>11, <2>1, BoundStep DEF NegotiationInv
    <2> QED
      BY <1>5, <2>2, <2>3 DEF NegotiationInv
  <1> QED
    BY <1>10, <1>11

\* What an element handled by the stream is, and where it comes from.
LEMMA ElementFacts ==
    ASSUME Inv, GrantInv, NegotiationInv, NEW s, TakesElement(s)
    PROVE  /\ TakesParsed /\ FromCurrentParser /\ elem.kind \notin {"root", "chunkEnd", "eof"}
           /\ state = s /\ Established /\ elem \in ElemSet /\ elem \in Arriving
           /\ Own(parsed, parser) # {} /\ parser # NoParser /\ UNCHANGED <<conn, granted>>
           /\ elem.kind # "features" => elem.offers = NoFeatures
           /\ parsed' = Tail(parsed) /\ parsed # <<>>
  <1>1. /\ TakesParsed /\ FromCurrentParser /\ elem.kind \notin {"root", "chunkEnd", "eof"}
        /\ state = s /\ parsed # <<>> /\ parsed' = Tail(parsed) /\ UNCHANGED <<conn, granted>>
    BY DEF TakesElement, TakesParsed, serverVars
  <1>2. Established /\ elem \in ElemSet
    BY <1>1, CurrentIsEstablished, ParsedTaken
  <1>3. elem \in Owned(parsed, parser)
    BY <1>1, OwnedTail, ParsedType DEF FromCurrentParser, elem
  <1>4. elem \in Arriving
    BY <1>3 DEF Arriving, Pending
  <1>5. 1 \in DOMAIN parsed /\ parsed[1].parser = parser
    BY <1>1, ParsedType DEF FromCurrentParser
  <1>6. Own(parsed, parser) # {} /\ parser # NoParser
    BY <1>5 DEF Own, Inv, Control, NoStrayElements
  <1>7. elem.kind # "features" => elem.offers = NoFeatures
    BY <1>4 DEF NegotiationInv, Queues, Served
  <1> QED
    BY <1>1, <1>2, <1>4, <1>6, <1>7

\* Before a resource is bound its handler finds nothing else under way.
LEMMA UnboundElement ==
    ASSUME Inv, Inv', GrantInv, NegotiationInv, NEW s, TakesElement(s), s # "OPENING", ~Bound,
           UNCHANGED <<wire, callbacks>>, parser' \in {parser, NewParser},
           NEW r \in RequestSet, Writes(r) \/ UNCHANGED requests
    PROVE  /\ ~Bound' /\ Arriving' = {} /\ Underway' = RequestWeight(requests')
           /\ requests = <<>> /\ requests' \in {<<>>, <<r>>} /\ Asked = {}
  <1>1. /\ TakesParsed /\ FromCurrentParser /\ elem.kind # "chunkEnd" /\ state # "OPENING"
        /\ UNCHANGED granted
    BY ElementFacts
  <1>2. requests = <<>> /\ Asked = {}
    BY <1>1, Alone DEF NegotiationInv, TurnInv
  <1>3. requests' \in {<<>>, <<r>>}
    BY <1>2, WritesAdds
  <1>4. Arriving' = {} /\ Underway' = RequestWeight(requests')
    BY <1>1, AloneLeaves DEF NegotiationInv, TurnInv
  <1> QED
    BY <1>1, <1>2, <1>3, <1>4 DEF Bound

\* What the server offers a stream without a bound resource that is authenticated: binding.
LEMMA OffersBinding ==
    ASSUME Inv, GrantInv, NegotiationInv, TakesElement("NEGOTIATING"), ~Bound
    PROVE  elem.offers.bind <=> isAuthenticated
  <1>1. /\ Established /\ elem \in ElemSet /\ elem \in Arriving
        /\ elem.kind \notin {"root", "eof"} /\ state = "NEGOTIATING"
    BY ElementFacts
  <1>2. CASE isAuthenticated
    BY <1>1, <1>2 DEF NegotiationInv, TurnInv, Restarting
  <1>3. CASE ~isAuthenticated
    BY <1>1, <1>3 DEF NegotiationInv, TurnInv, Granting
  <1> QED
    BY <1>2, <1>3

LEMMA FeaturesFacts ==
    ASSUME Inv, GrantInv, NegotiationInv, TakesElement("NEGOTIATING"), NEW policy \in Policies,
           NeedsTLS(elem.offers, policy)
    PROVE  ~isSecure /\ ~Bound
  <1>1. elem.offers.starttls # "no"
    BY DEF NeedsTLS
  <1>2. /\ Established /\ elem \in ElemSet /\ elem \in Arriving
    BY ElementFacts
  <1>3. ~isSecure
    BY <1>1, <1>2 DEF NegotiationInv, TurnInv, NoTLSTwice
  <1>4. ~Bound
    BY <1>1, <1>2, <1>3, BoundOffersNoTLS DEF NegotiationInv
  <1> QED
    BY <1>3, <1>4

LEMMA StreamFeaturesNegotiation ==
    ASSUME Inv, InTime, Inv', GrantInv, NegotiationInv, HandleStreamFeatures
    PROVE  NegotiationInv'
  <1> DEFINE tls == Request("starttls", "none")
             bind == Request("bind", "bind")
  <1>1. /\ tls \in RequestSet /\ tls.kind = "starttls" /\ RequestIs(tls) = 1
        /\ bind \in RequestSet /\ bind.kind = "bind" /\ RequestIs(bind) = 1
    BY DEF Request, RequestSet, RequestIs
  <1>2. TakesElement("NEGOTIATING") /\ UNCHANGED <<negVars, isAuthenticated>>
    BY DEF HandleStreamFeatures
  <1>3. /\ TakesParsed /\ FromCurrentParser /\ elem.kind # "chunkEnd"
        /\ state = "NEGOTIATING" /\ Established /\ elem \in ElemSet /\ elem \in Arriving
        /\ UNCHANGED <<conn, granted, parser, isSecure, isAuthenticated>>
        /\ elem.kind # "root" /\ parser # NoParser
        /\ elem.kind # "features" => elem.offers = NoFeatures
    BY <1>2, ElementFacts DEF negVars
  <1>4. ~Down
    BY <1>3, EstablishedIsUp
  <1>5. PICK policy \in Policies :
         \/ /\ NeedsTLS(elem.offers, policy)
            /\ state' = "STARTTLS_1" /\ Writes(tls)
            /\ UNCHANGED <<socketVars, reads, tracked, questions, heard>>
         \/ /\ Refuses(elem.offers, policy)
            /\ ClosesSocket
            /\ UNCHANGED <<state, tracked, questions, heard>>
         \/ /\ elem.offers.bind
            /\ StartBinding
            /\ UNCHANGED <<socketVars, reads, heard>>
         \/ /\ ~elem.offers.bind
            /\ state' = "CONNECTED"
            /\ heard' = IF isAuthenticated THEN heard ELSE heard \cup {"didConnect"}
            /\ UNCHANGED <<socketVars, trafficVars, tracked, questions>>
    BY DEF HandleStreamFeatures
  <1>6. Bound => Answered
    BY <1>3 DEF NegotiationInv, TurnInv, BoundStays
  <1>7. "auth" \in granted /\ ~Bound => isAuthenticated
    BY <1>3 DEF NegotiationInv, TurnInv, Granting
  <1>8. CASE /\ NeedsTLS(elem.offers, policy)
             /\ state' = "STARTTLS_1" /\ Writes(tls)
             /\ UNCHANGED <<socketVars, reads, tracked, questions, heard>>
    <2>1. ~isSecure /\ ~Bound
      BY <1>2, <1>8, FeaturesFacts
    <2>2. Queues' /\ Numbered' /\ ReadsInv'
      BY <1>3, <1>8, Stays DEF NegotiationInv, Writes, Established
    <2>3. /\ ~Bound' /\ Arriving' = {} /\ Underway' = RequestWeight(requests')
          /\ requests' \in {<<>>, <<tls>>} /\ Asked = {}
      BY <1>1, <1>2, <1>3, <1>8, <2>1, UnboundElement DEF socketVars
    <2>4. Asked' = {}
      BY <1>8, <2>3 DEF Asked
    <2>5. TurnInv'
      BY <1>1, <1>3, <1>7, <1>8, <2>1, <2>3, <2>4, TurnTaken DEF Room, Announced
    <2> QED
      BY <2>2, <2>5 DEF NegotiationInv
  <1>9. CASE /\ ClosesSocket
             /\ UNCHANGED <<state, tracked, questions, heard>>
    <2>1. Asked' = Asked
      BY <1>9 DEF Asked
    <2> QED
      BY <1>3, <1>4, <1>9, <2>1, ClosesNegotiation
  <1>10. CASE /\ elem.offers.bind
              /\ StartBinding
              /\ UNCHANGED <<socketVars, reads, heard>>
    <2>1. /\ state' = "BINDING"
          /\ \/ Writes(bind) /\ UNCHANGED questions
             \/ /\ questions' = questions \cup {[kind |-> "willBind", conn |-> conn]}
                /\ UNCHANGED requests
      BY <1>10 DEF StartBinding, SendsIQ
    <2>2. Queues' /\ Numbered' /\ ReadsInv' /\ Arriving' \subseteq Arriving
      BY <1>3, <1>10, <2>1, Stays DEF NegotiationInv, Writes, Established
    <2>3. \A q \in Asked' : q \in Asked \/ q.kind = "willBind"
      BY <2>1 DEF Asked
    <2>4. CASE ~Bound
      <3>1. /\ ~Bound' /\ Arriving' = {} /\ Underway' = RequestWeight(requests')
            /\ requests' \in {<<>>, <<bind>>} /\ Asked = {} /\ requests = <<>>
        BY <1>1, <1>2, <1>3, <1>10, <2>1, <2>4, UnboundElement DEF socketVars
      <3>2. isAuthenticated
        BY <1>2, <1>10, <2>4, OffersBinding
      <3>3. /\ Asked' = {} \/ requests' = <<>>
            /\ \A p, q \in Asked' : p = q
        <4>1. CASE UNCHANGED questions
          BY <3>1, <4>1 DEF Asked
        <4>2. CASE /\ questions' = questions \cup {[kind |-> "willBind", conn |-> conn]}
                   /\ UNCHANGED requests
          <5>1. Asked' \subseteq Asked \cup {[kind |-> "willBind", conn |-> conn]}
            BY <4>2 DEF Asked
          <5> QED
            BY <3>1, <4>2, <5>1
        <4> QED
          BY <2>1, <4>1, <4>2
      <3>4. TurnInv'
        BY <1>1, <1>3, <1>7, <2>1, <3>1, <3>2, <3>3, TurnTaken DEF Room, Announced
      <3> QED
        BY <2>2, <3>4 DEF NegotiationInv
    <2>5. CASE Bound
      <3>1. elem.kind = "features"
        BY <1>3, <1>10 DEF NoFeatures
      <3>2. isSecure /\ Answered
        BY <1>3, <2>5, <3>1 DEF NegotiationInv, TurnInv, BoundStays
      <3>3. On(requests') \subseteq On(requests) \cup {bind}
        BY <1>1, <2>1, WritesAdds
      <3>4. TurnInv'
        BY <1>1, <1>3, <1>10, <2>1, <2>2, <2>3, <2>5, <3>2, <3>3, BoundStep DEF NegotiationInv
      <3> QED
        BY <2>2, <3>4 DEF NegotiationInv
    <2> QED
      BY <2>4, <2>5
  <1>11. CASE /\ ~elem.offers.bind
              /\ state' = "CONNECTED"
              /\ heard' = IF isAuthenticated THEN heard ELSE heard \cup {"didConnect"}
              /\ UNCHANGED <<socketVars, trafficVars, tracked, questions>>
    <2>1. Queues' /\ Numbered' /\ ReadsInv' /\ Arriving' \subseteq Arriving
      BY <1>3, <1>11, Stays DEF NegotiationInv, Established, trafficVars
    <2>2. Asked' = Asked /\ heard \subseteq heard' /\ UNCHANGED requests
      BY <1>11 DEF Asked, trafficVars
    <2>3. CASE ~Bound
      <3>1. /\ ~Bound' /\ Arriving' = {} /\ Underway' = RequestWeight(requests')
            /\ Asked = {} /\ requests = <<>>
        BY <1>1, <1>2, <1>3, <1>11, <2>2, <2>3, UnboundElement DEF socketVars
      <3>2. ~isAuthenticated
        BY <1>2, <1>11, <2>3, OffersBinding
      <3>3. Announced'
        BY <1>3, <1>11, <3>2 DEF Announced
      <3>4. TurnInv'
        BY <1>1, <1>3, <1>7, <1>11, <2>2, <2>3, <3>1, <3>2, <3>3, TurnTaken
      <3> QED
        BY <2>1, <3>4 DEF NegotiationInv
    <2>4. CASE Bound
      <3>1. Answered /\ Answered'
        BY <1>6, <2>2, <2>4 DEF Answered
      <3>2. On(requests') \subseteq On(requests) \cup {bind}
        BY <2>2
      <3>3. TurnInv'
        BY <1>1, <1>3, <1>11, <2>1, <2>2, <2>4, <3>1, <3>2, BoundStep DEF NegotiationInv
      <3> QED
        BY <2>1, <3>3 DEF NegotiationInv
    <2> QED
      BY <2>3, <2>4
  <1> QED
    BY <1>5, <1>8, <1>9, <1>10, <1>11

\* The stream is opened anew under TLS.
LEMMA HeaderFacts ==
    LET r == Request("header", "none") IN
    r \in RequestSet /\ r.kind = "header" /\ RequestIs(r) = 3 /\ Room("OPENING") = 3
  BY DEF Request, RequestSet, RequestIs, Room

LEMMA SecuredNegotiation ==
    ASSUME Inv, Inv', GrantInv, NegotiationInv, ContinueStartTLS, Established,
           \/ TakesElement("STARTTLS_1") /\ UNCHANGED questions
           \/ state = "STARTTLS_2" /\ UNCHANGED <<parsed, conn, granted>> /\ Asked' = Asked,
           UNCHANGED <<socketVars, isAuthenticated, heard>>
    PROVE  NegotiationInv'
  <1> DEFINE r == Request("header", "none")
  <1>1. /\ r \in RequestSet /\ r.kind = "header" /\ RequestIs(r) = 3 /\ Room("OPENING") = 3
    BY HeaderFacts
  <1>2. /\ state' = "OPENING" /\ parser' = NewParser /\ isSecure' = TRUE /\ Writes(r)
        /\ QueuesRead /\ Established'
    BY DEF ContinueStartTLS, SendOpeningNegotiation, Established
  <1>3. TakesElement("STARTTLS_1") =>
          /\ TakesParsed /\ FromCurrentParser /\ elem.kind \notin {"root", "chunkEnd", "eof"}
          /\ state = "STARTTLS_1" /\ Own(parsed, parser) # {} /\ parser # NoParser
          /\ UNCHANGED <<conn, granted>>
    BY ElementFacts
  <1>4. /\ UNCHANGED <<conn, granted, wire, callbacks>> /\ Asked' = Asked
        /\ state \in {"STARTTLS_1", "STARTTLS_2"}
        /\ (Answered' <=> Answered) /\ (Bound' <=> Bound)
    BY <1>3 DEF socketVars, Asked, Answered, Bound
  <1>5. reads = 0 /\ ~Reading(callbacks)
    <2>1. CASE TakesElement("STARTTLS_1")
      <3>1. ~isSecure
        BY <1>3, <2>1 DEF NegotiationInv, TurnInv, NoTLSTwice
      <3> QED
        BY <1>3, <2>1, <3>1 DEF NegotiationInv, ReadsInv
    <2>2. CASE state = "STARTTLS_2"
      BY <2>2 DEF NegotiationInv, ReadsInv
    <2> QED
      BY <2>1, <2>2
  <1>6. /\ Queues' /\ Numbered' /\ ReadsInv' /\ Arriving' \subseteq Arriving
        /\ parser # NoParser => parser'[2] >= 2
    BY <1>2, <1>3, <1>4, <1>5, Restarts DEF NegotiationInv, Writes
  <1>7. CASE ~Bound
    <2>1. /\ Arriving' = {} /\ Underway' = RequestWeight(requests') /\ Asked = {}
          /\ requests' \in {<<>>, <<r>>}
      <3>1. CASE TakesElement("STARTTLS_1")
        BY <1>1, <1>2, <1>4, <1>7, <3>1, UnboundElement
      <3>2. CASE state = "STARTTLS_2" /\ UNCHANGED parsed
        <4>1. Underway = 0
          <5>1. Underway <= Room(state)
            BY <1>7 DEF NegotiationInv, TurnInv, Turns
          <5>2. Room(state) = 0
            BY <3>2 DEF Room
          <5> QED
            BY <5>1, <5>2, Weights
        <4>2. Asked = {}
          BY <1>7, <3>2 DEF NegotiationInv, TurnInv, Turns
        <4>3. requests = <<>>
          BY <4>1, NothingUnderway DEF NegotiationInv
        <4>4. requests' \in {<<>>, <<r>>}
          BY <1>1, <1>2, <4>3, WritesAdds
        <4>5. Arriving' = {} /\ Underway' = RequestWeight(requests')
          BY <1>2, <1>4, <3>2, <4>1, EstablishedIsUp, IdleLeaves DEF NegotiationInv
        <4> QED
          BY <4>2, <4>4, <4>5
      <3> QED
        BY <3>1, <3>2
    <2>2. "auth" \in granted => isAuthenticated
      BY <1>4 DEF NegotiationInv, TurnInv, Granting
    <2>3. isAuthenticated => parser'[2] >= 2
      BY <1>6 DEF NegotiationInv, Numbered
    <2>4. TurnInv'
      <3>1. ~Bound' /\ Announced'
        BY <1>2, <1>4, <1>7 DEF Announced
      <3>2. RequestIs(r) <= Room(state')
        BY <1>1, <1>2
      <3> HIDE DEF r
      <3> QED
        BY <1>1, <1>2, <1>4, <2>1, <2>2, <2>3, <3>1, <3>2, TurnTaken
    <2> QED
      BY <1>6, <2>4 DEF NegotiationInv
  <1>8. CASE Bound
    <2>1. ~isSecure
      <3>1. CASE state = "STARTTLS_1"
        BY <3>1 DEF NegotiationInv, TurnInv, NoTLSTwice
      <3>2. CASE state = "STARTTLS_2"
        BY <1>8, <3>2 DEF NegotiationInv, ReadsInv
      <3> QED
        BY <1>4, <3>1, <3>2
    <2>2. \A e \in Arriving : e.offers.starttls = "no"
      BY <1>8, <2>1, BoundOffersNoTLS DEF NegotiationInv
    <2>3. Answered /\ Answered'
      BY <1>4, <1>8 DEF NegotiationInv, TurnInv, BoundStays
    <2>4. On(requests') \subseteq On(requests) \cup {r}
      BY <1>1, <1>2, WritesAdds
    <2>5. TurnInv'
      BY <1>2, <1>4, <1>6, <1>8, <2>2, <2>3, <2>4, BoundStep DEF NegotiationInv
    <2> QED
      BY <1>6, <2>5 DEF NegotiationInv
  <1> QED
    BY <1>7, <1>8

LEMMA StartTLSNegotiation ==
    ASSUME Inv, InTime, Inv', GrantInv, NegotiationInv, HandleStartTLSResponse
    PROVE  NegotiationInv'
  <1> DEFINE r == Request("starttls", "none")
  <1>1. r \in RequestSet /\ r.kind = "starttls" /\ RequestIs(r) = 1
    BY DEF Request, RequestSet, RequestIs
  <1>2. TakesElement("STARTTLS_1") /\ UNCHANGED <<isAuthenticated, heard>>
    BY DEF HandleStartTLSResponse, loginVars
  <1>3. /\ TakesParsed /\ FromCurrentParser /\ elem.kind # "chunkEnd"
        /\ state = "STARTTLS_1" /\ Established /\ Own(parsed, parser) # {} /\ parser # NoParser
        /\ UNCHANGED <<conn, granted>>
    BY <1>2, ElementFacts
  <1>4. CASE ContinueStartTLS /\ UNCHANGED <<questions, socketVars>>
    BY <1>2, <1>3, <1>4, SecuredNegotiation
  <1>5. CASE /\ state' = "STARTTLS_2"
             /\ questions' = questions \cup {[kind |-> "settings", conn |-> conn]}
             /\ UNCHANGED <<negVars, trafficVars, socketVars>>
    <2>1. /\ UNCHANGED <<parser, isSecure, requests, reads, wire, callbacks>> /\ Established'
          /\ Asked' = Asked /\ (Answered' <=> Answered)
      BY <1>2, <1>5 DEF negVars, trafficVars, socketVars, Established, Asked, Answered
    <2>2. ~isSecure
      BY <1>3 DEF NegotiationInv, TurnInv, NoTLSTwice
    <2>3. Queues' /\ Numbered' /\ ReadsInv' /\ Arriving' \subseteq Arriving
      BY <1>2, <1>3, <1>5, <2>1, <2>2, Stays DEF NegotiationInv
    <2>4. CASE ~Bound
      <3>1. /\ ~Bound' /\ Arriving' = {} /\ Underway' = RequestWeight(requests')
            /\ Asked = {} /\ requests = <<>>
        BY <1>1, <1>2, <2>1, <2>4, UnboundElement
      <3>2. "auth" \in granted => isAuthenticated
        BY <1>3 DEF NegotiationInv, TurnInv, Granting
      <3>3. TurnInv'
        BY <1>1, <1>2, <1>3, <1>5, <2>1, <2>2, <3>1, <3>2, TurnTaken DEF Announced
      <3> QED
        BY <2>3, <3>3 DEF NegotiationInv
    <2>5. CASE Bound
      <3>1. Answered
        BY <1>3, <2>5 DEF NegotiationInv, TurnInv, BoundStays
      <3>2. TurnInv'
        BY <1>1, <1>2, <1>3, <1>5, <2>1, <2>2, <2>3, <2>5, <3>1, BoundStep DEF NegotiationInv
      <3> QED
        BY <2>3, <3>2 DEF NegotiationInv
    <2> QED
      BY <2>4, <2>5
  <1>6. CASE ClosesSocket /\ UNCHANGED <<state, negVars, questions>>
    <2>1. Asked' = Asked
      BY <1>6 DEF Asked
    <2> QED
      BY <1>2, <1>3, <1>6, <2>1, EstablishedIsUp, ClosesNegotiation DEF negVars
  <1> QED
    BY <1>4, <1>5, <1>6 DEF HandleStartTLSResponse, StartTLS

LEMMA SettingsNegotiation ==
    ASSUME Inv, Inv', GrantInv, NegotiationInv, AnswerSettings
    PROVE  NegotiationInv'
  <1>1. /\ UNCHANGED <<conn, granted, parsed, socketVars, isAuthenticated, heard>>
        /\ UNCHANGED <<wire, callbacks, socket, draining>>
    BY DEF AnswerSettings, Answers, serverVars, loginVars, socketVars
  <1>2. Asked' = Asked
    <2>1. PICK q \in questions : q.kind = "settings" /\ questions' = questions \ {q}
      BY DEF AnswerSettings, Answers
    <2> QED
      BY <2>1 DEF Asked
  <1>3. CASE WantsSettings /\ ContinueStartTLS
    <2>1. state = "STARTTLS_2" /\ Established
      BY <1>3 DEF WantsSettings, Established
    <2> QED
      BY <1>1, <1>2, <1>3, <2>1, SecuredNegotiation
  <1>4. CASE UNCHANGED <<state, negVars, trafficVars>>
    <2>1. UNCHANGED <<state, parser, isSecure, requests, reads>>
      BY <1>4 DEF negVars, trafficVars
    <2>2. Arriving' = Arriving /\ Underway' = Underway
      BY <1>1, <2>1 DEF Arriving, Underway
    <2>3. (Established' <=> Established) /\ (Bound' <=> Bound)
      BY <1>1, <2>1 DEF Established, Bound
    <2>4. Queues'
      BY <1>1, <2>1, <2>2, <2>3 DEF NegotiationInv, Queues
    <2>5. Numbered'
      BY <1>1, <2>1, <2>3 DEF NegotiationInv, Numbered, Down
    <2>6. ReadsInv'
      BY <1>1, <2>1, <2>3 DEF NegotiationInv, ReadsInv, Usable
    <2>7. TurnInv'
      BY <1>1, <1>2, <2>1, <2>2, Weights, ShrinksTurn DEF NegotiationInv
    <2> QED
      BY <2>4, <2>5, <2>6, <2>7 DEF NegotiationInv
  <1> QED
    BY <1>3, <1>4 DEF AnswerSettings

LEMMA RegistrationNegotiation ==
    ASSUME Inv, Inv', GrantInv, NegotiationInv, HandleRegistration
    PROVE  NegotiationInv'
  <1> DEFINE r == Request("starttls", "none")
  <1>1. r \in RequestSet /\ r.kind = "starttls"
    BY DEF Request, RequestSet
  <1>2. /\ TakesElement("REGISTERING") /\ state' = "CONNECTED"
        /\ UNCHANGED <<parser, isSecure, isAuthenticated, socketVars, wire, callbacks, requests,
                       reads, questions, heard>>
    BY DEF HandleRegistration, negVars, loginVars, socketVars, trafficVars
  <1>3. /\ TakesParsed /\ elem.kind # "chunkEnd" /\ state = "REGISTERING" /\ Established
        /\ parser # NoParser /\ UNCHANGED <<conn, granted>>
    BY <1>2, ElementFacts
  <1>4. Established' /\ Asked' = Asked /\ (Answered' <=> Answered)
    BY <1>2 DEF Established, Asked, Answered
  <1>5. Queues' /\ Numbered' /\ ReadsInv' /\ Arriving' \subseteq Arriving
    BY <1>2, <1>3, <1>4, Stays DEF NegotiationInv
  <1>6. Announced'
    BY <1>2, <1>3, <1>4 DEF NegotiationInv, TurnInv, Announced
  <1>7. CASE ~Bound
    <2>1. /\ ~Bound' /\ Arriving' = {} /\ Underway' = RequestWeight(requests')
          /\ Asked = {} /\ requests = <<>>
      BY <1>1, <1>2, <1>7, UnboundElement
    <2>2. "auth" \in granted => isAuthenticated
      BY <1>3 DEF NegotiationInv, TurnInv, Granting
    <2>3. TurnInv'
      BY <1>1, <1>2, <1>3, <1>4, <1>6, <2>1, <2>2, TurnTaken
    <2> QED
      BY <1>5, <2>3 DEF NegotiationInv
  <1>8. CASE Bound
    <2>1. isAuthenticated
      BY <1>3, <1>8 DEF NegotiationInv, TurnInv, BindsAuthenticated
    <2>2. Answered
      BY <1>3, <2>1 DEF NegotiationInv, TurnInv, Announced
    <2>3. TurnInv'
      BY <1>1, <1>2, <1>3, <1>4, <1>5, <1>8, <2>2, BoundStep DEF NegotiationInv
    <2> QED
      BY <1>5, <2>3 DEF NegotiationInv
  <1> QED
    BY <1>7, <1>8

\* What the handlers of the binding have in common: the session, the end, another request, or
\* another question.
LEMMA BindingNegotiation ==
    ASSUME Inv, Inv', GrantInv, NegotiationInv, Established, isAuthenticated,
           UNCHANGED <<negVars, isAuthenticated, socketVars, reads, conn, granted>>,
           parsed' = parsed \/ (TakesParsed /\ (~FromCurrentParser \/ elem.kind # "chunkEnd")),
           NEW r \in RequestSet,
           \/ r.kind = "session" /\ state' = "START_SESSION" /\ Writes(r) /\ UNCHANGED heard
           \/ /\ state' = "CONNECTED" /\ UNCHANGED requests
              /\ heard \subseteq heard' /\ Answered'
           \/ r.kind \in {"bind", "custom"} /\ Writes(r) /\ UNCHANGED <<state, heard>>
           \/ UNCHANGED <<requests, state, heard>>,
           state' = state \/ state # "STARTTLS_2",
           \A q \in Asked' : q.kind = "willBind" => q \in Asked,
           ~Bound => /\ state' = state => state = "BINDING"
                     /\ requests = <<>> /\ Arriving' = {} /\ Underway' = RequestWeight(requests')
                     /\ Asked' = {} \/ (UNCHANGED requests /\ state' = "BINDING")
                     /\ \A p, q \in Asked' : p = q
    PROVE  NegotiationInv'
  <1>1. /\ UNCHANGED <<parser, isSecure, wire, callbacks>> /\ (Bound' <=> Bound) /\ Established'
        /\ heard \subseteq heard'
    BY DEF negVars, socketVars, Bound, Established
  <1>2. /\ On(requests') \subseteq On(requests) \cup {r}
        /\ requests = <<>> => requests' \in {<<>>, <<r>>}
    BY WritesAdds
  <1>3. Queues' /\ Numbered' /\ ReadsInv' /\ Arriving' \subseteq Arriving
    BY <1>1, Stays DEF NegotiationInv, Writes
  <1>4. Answered => Answered'
    BY <1>1 DEF Answered
  <1>5. Announced'
    BY <1>4 DEF NegotiationInv, TurnInv, Announced
  <1>6. isSecure' => state' # "STARTTLS_1"
    BY <1>1 DEF NegotiationInv, TurnInv, NoTLSTwice
  <1>7. state # "AUTH"
    BY DEF NegotiationInv, TurnInv, BindsAuthenticated
  <1>8. CASE ~Bound
    <2>1. CASE requests' = <<>>
      <3>1. Request("header", "none") \in RequestSet /\ Request("header", "none").kind = "header"
        BY DEF Request, RequestSet
      <3>2. state' \notin {"AUTH", "OPENING", "NEGOTIATING"}
        BY <1>8
      <3>3. TurnInv'
        BY <1>1, <1>5, <1>6, <1>8, <2>1, <3>1, <3>2, TurnTaken
      <3> QED
        BY <1>3, <3>3 DEF NegotiationInv
    <2>2. CASE requests' # <<>>
      <3>1. /\ r.kind \in {"session", "bind", "custom"} /\ requests' = <<r>>
            /\ state' = IF r.kind = "session" THEN "START_SESSION" ELSE "BINDING"
        BY <1>2, <1>8, <2>2
      <3>2. RequestIs(r) = 1 /\ Room(state') = 1
        BY <3>1 DEF RequestIs, Room
      <3>3. RequestIs(r) <= Room(state')
        BY <3>2
      <3>4. Asked' = {}
        BY <1>8, <2>2
      <3>5. TurnInv'
        BY <1>1, <1>5, <1>6, <1>8, <3>1, <3>3, <3>4, TurnTaken
      <3> QED
        BY <1>3, <3>5 DEF NegotiationInv
    <2> QED
      BY <2>1, <2>2
  <1>9. CASE Bound
    <2>1. state' = state /\ state \in {"OPENING", "NEGOTIATING", "STARTTLS_1", "STARTTLS_2"}
            => Answered
      BY <1>9 DEF NegotiationInv, TurnInv, BoundStays
    <2>2. state' = state /\ state \in {"CONNECTED", "REGISTERING"} => Answered
      BY DEF NegotiationInv, TurnInv, Announced
    <2>3. state' \in {"OPENING", "NEGOTIATING", "STARTTLS_1", "STARTTLS_2", "CONNECTED",
                      "REGISTERING"} => Answered'
      BY <1>4, <2>1, <2>2
    <2>4. state' # "AUTH"
      BY <1>7
    <2>5. \E q \in RequestSet : q.kind # "header" /\ On(requests') \subseteq On(requests) \cup {q}
      <3>1. CASE r.kind # "header"
        BY <1>2, <3>1
      <3>2. CASE r.kind = "header"
        <4>1. On(requests') \subseteq On(requests)
          BY <3>2
        <4>2. Request("query", "none") \in RequestSet /\ Request("query", "none").kind = "query"
          BY DEF Request, RequestSet
        <4> QED
          BY <4>1, <4>2
      <3> QED
        BY <3>1, <3>2
    <2>6. TurnInv'
      BY <1>1, <1>3, <1>6, <1>9, <2>3, <2>4, <2>5, BoundStep DEF NegotiationInv
    <2> QED
      BY <1>3, <2>6 DEF NegotiationInv
  <1> QED
    BY <1>8, <1>9

\* What continuePostBinding, startStandardBinding and the like ask for.
LEMMA BindingRequests ==
    \A kind \in {"bind", "custom", "session"} : \A id \in {"none", "bind", "session"} :
        Request(kind, id) \in RequestSet /\ Request(kind, id).kind = kind
  BY DEF Request, RequestSet

\* A state in which elements are handled by the binding.
LEMMA BindingElement ==
    ASSUME Inv, Inv', GrantInv, NegotiationInv, NEW s \in {"BINDING", "START_SESSION"},
           TakesElement(s), UNCHANGED <<negVars, socketVars>>,
           NEW r \in RequestSet, Writes(r) \/ UNCHANGED requests
    PROVE  /\ Established /\ isAuthenticated /\ state = s /\ TakesParsed /\ elem.kind # "chunkEnd"
           /\ FromCurrentParser /\ UNCHANGED <<conn, granted>>
           /\ ~Bound => /\ requests = <<>> /\ Arriving' = {}
                        /\ Underway' = RequestWeight(requests') /\ Asked = {}
  <1>1. /\ Established /\ state = s /\ TakesParsed /\ elem.kind # "chunkEnd"
        /\ FromCurrentParser /\ UNCHANGED <<conn, granted>>
    BY ElementFacts
  <1>2. isAuthenticated
    BY <1>1 DEF NegotiationInv, TurnInv, BindsAuthenticated
  <1>3. ~Bound => /\ requests = <<>> /\ Arriving' = {}
                  /\ Underway' = RequestWeight(requests') /\ Asked = {}
    BY UnboundElement DEF negVars, socketVars
  <1> QED
    BY <1>1, <1>2, <1>3

LEMMA StartSessionNegotiation ==
    ASSUME Inv, Inv', GrantInv, NegotiationInv, HandleStartSessionResponse
    PROVE  NegotiationInv'
  <1> DEFINE r == Request("session", "session")
  <1>1. r \in RequestSet
    BY BindingRequests
  <1>2. /\ TakesElement("START_SESSION") /\ state' = "CONNECTED" /\ heard \subseteq heard' /\ Answered'
        /\ UNCHANGED <<negVars, isAuthenticated, socketVars, requests, reads, questions>>
        /\ Asked' = Asked
    BY DEF HandleStartSessionResponse, trafficVars, Answered, Asked
  <1> HIDE DEF r
  <1>3. /\ Established /\ isAuthenticated /\ state = "START_SESSION" /\ TakesParsed
        /\ elem.kind # "chunkEnd" /\ UNCHANGED <<conn, granted>>
        /\ ~Bound => /\ requests = <<>> /\ Arriving' = {}
                     /\ Underway' = RequestWeight(requests') /\ Asked = {}
    BY <1>1, <1>2, BindingElement
  <1> QED
    BY <1>1, <1>2, <1>3, BindingNegotiation

\* continuePostBinding:, with the session or without.
LEMMA PostBinding ==
    ASSUME NEW known, ContinuePostBinding(known)
    PROVE  LET r == Request("session", "session") IN
           \/ r.kind = "session" /\ state' = "START_SESSION" /\ Writes(r) /\ UNCHANGED heard
           \/ /\ state' = "CONNECTED" /\ UNCHANGED requests
              /\ heard \subseteq heard' /\ Answered'
  BY DEF ContinuePostBinding, SendsIQ, Answered, Request

LEMMA StandardBindingNegotiation ==
    ASSUME Inv, Inv', GrantInv, NegotiationInv, HandleStandardBinding
    PROVE  NegotiationInv'
  <1>1. /\ TakesElement("BINDING")
        /\ UNCHANGED <<negVars, isAuthenticated, socketVars, reads>>
    BY DEF HandleStandardBinding
  <1>2. CASE ContinuePostBinding(StillTracked) /\ UNCHANGED questions
    <2> DEFINE r == Request("session", "session")
    <2>1. /\ r \in RequestSet /\ Asked' = Asked
          /\ \/ r.kind = "session" /\ state' = "START_SESSION" /\ Writes(r) /\ UNCHANGED heard
             \/ /\ state' = "CONNECTED" /\ UNCHANGED requests
                /\ heard \subseteq heard' /\ Answered'
      BY <1>2, BindingRequests, PostBinding DEF Asked
    <2> HIDE DEF r
    <2>2. /\ Established /\ isAuthenticated /\ state = "BINDING" /\ TakesParsed
          /\ elem.kind # "chunkEnd" /\ UNCHANGED <<conn, granted>>
          /\ ~Bound => /\ requests = <<>> /\ Arriving' = {}
                       /\ Underway' = RequestWeight(requests') /\ Asked = {}
      BY <1>1, <2>1, BindingElement
    <2> QED
      BY <1>1, <2>1, <2>2, BindingNegotiation
  <1>3. CASE /\ ContinueHandleStandardBinding(StillTracked)
             /\ UNCHANGED <<state, heard, questions>>
    <2> DEFINE r == Request("bind", "bind")
    <2>1. r \in RequestSet /\ r.kind = "bind" /\ Asked' = Asked /\ Writes(r)
      BY <1>3, BindingRequests DEF Asked, ContinueHandleStandardBinding, SendsIQ
    <2> HIDE DEF r
    <2>2. /\ Established /\ isAuthenticated /\ state = "BINDING" /\ TakesParsed
          /\ elem.kind # "chunkEnd" /\ UNCHANGED <<conn, granted>>
          /\ ~Bound => /\ requests = <<>> /\ Arriving' = {}
                       /\ Underway' = RequestWeight(requests') /\ Asked = {}
      BY <1>1, <2>1, BindingElement
    <2> QED
      BY <1>1, <1>3, <2>1, <2>2, BindingNegotiation
  <1>4. CASE /\ questions' = questions \cup {[kind |-> "resource", conn |-> conn]}
             /\ UNCHANGED <<state, heard, requests>>
    <2> DEFINE r == Request("bind", "bind")
               q == [kind |-> "resource", conn |-> conn]
    <2>1. r \in RequestSet /\ Asked' \subseteq Asked \cup {q} /\ q.kind # "willBind"
      BY <1>4, BindingRequests DEF Asked
    <2> HIDE DEF r, q
    <2>2. /\ Established /\ isAuthenticated /\ state = "BINDING" /\ TakesParsed
          /\ elem.kind # "chunkEnd" /\ UNCHANGED <<conn, granted>>
          /\ ~Bound => /\ requests = <<>> /\ Arriving' = {}
                       /\ Underway' = RequestWeight(requests') /\ Asked = {}
      BY <1>1, <1>4, <2>1, BindingElement
    <2> QED
      BY <1>1, <1>4, <2>1, <2>2, BindingNegotiation
  <1> QED
    BY <1>2, <1>3, <1>4 DEF HandleStandardBinding

\* The result of a custom binding, from an element or from the delegate.
EndsOpen ==
    \/ ContinuePostBinding(tracked) /\ UNCHANGED <<socketVars, reads>>
    \/ StartStandardBinding /\ UNCHANGED <<socketVars, reads>>

LEMMA OpenEnd ==
    ASSUME EndsOpen
    PROVE  /\ UNCHANGED <<socketVars, reads>>
           /\ \E r \in RequestSet :
                /\ Writes(r) \/ UNCHANGED requests
                /\ \/ r.kind = "session" /\ state' = "START_SESSION" /\ Writes(r) /\ UNCHANGED heard
                   \/ /\ state' = "CONNECTED" /\ UNCHANGED requests
                      /\ heard \subseteq heard' /\ Answered'
                   \/ r.kind \in {"bind", "custom"} /\ Writes(r) /\ UNCHANGED <<state, heard>>
  <1>1. CASE ContinuePostBinding(tracked)
    BY <1>1, PostBinding, BindingRequests DEF EndsOpen
  <1>2. CASE StartStandardBinding
    BY <1>2, BindingRequests DEF EndsOpen, StartStandardBinding, SendsIQ
  <1> QED
    BY <1>1, <1>2 DEF EndsOpen

LEMMA CustomBindingNegotiation ==
    ASSUME Inv, InTime, Inv', GrantInv, NegotiationInv, HandleCustomBinding
    PROVE  NegotiationInv'
  <1>1. /\ TakesElement("BINDING") /\ Asked' = Asked
        /\ UNCHANGED <<negVars, isAuthenticated>>
    BY DEF HandleCustomBinding, Asked
  <1>2. CASE /\ Writes(Request("custom", "none"))
             /\ UNCHANGED <<state, heard, socketVars, reads>>
    <2> DEFINE r == Request("custom", "none")
    <2>1. r \in RequestSet /\ r.kind = "custom" /\ Writes(r)
      BY <1>2, BindingRequests
    <2> HIDE DEF r
    <2>2. /\ Established /\ isAuthenticated /\ state = "BINDING" /\ TakesParsed
          /\ elem.kind # "chunkEnd" /\ UNCHANGED <<conn, granted>>
          /\ ~Bound => /\ requests = <<>> /\ Arriving' = {}
                       /\ Underway' = RequestWeight(requests') /\ Asked = {}
      BY <1>1, <1>2, <2>1, BindingElement
    <2> QED
      BY <1>1, <1>2, <2>1, <2>2, BindingNegotiation
  <1>3. CASE EndsOpen
    <2>1. UNCHANGED <<socketVars, reads>>
      BY <1>3, OpenEnd
    <2>2. PICK r \in RequestSet :
            /\ Writes(r) \/ UNCHANGED requests
            /\ \/ r.kind = "session" /\ state' = "START_SESSION" /\ Writes(r) /\ UNCHANGED heard
               \/ /\ state' = "CONNECTED" /\ UNCHANGED requests
                  /\ heard \subseteq heard' /\ Answered'
               \/ r.kind \in {"bind", "custom"} /\ Writes(r) /\ UNCHANGED <<state, heard>>
      BY <1>3, OpenEnd
    <2>3. /\ Established /\ isAuthenticated /\ state = "BINDING" /\ TakesParsed
          /\ elem.kind # "chunkEnd" /\ UNCHANGED <<conn, granted>>
          /\ ~Bound => /\ requests = <<>> /\ Arriving' = {}
                       /\ Underway' = RequestWeight(requests') /\ Asked = {}
      BY <1>1, <2>1, <2>2, BindingElement
    <2> QED
      BY <1>1, <2>1, <2>2, <2>3, BindingNegotiation
  <1>4. CASE ClosesSocket /\ UNCHANGED <<state, heard>>
    <2>1. /\ TakesParsed /\ elem.kind # "chunkEnd" /\ Established /\ UNCHANGED <<conn, granted>>
      BY <1>1, ElementFacts
    <2> QED
      BY <1>1, <1>4, <2>1, EstablishedIsUp, ClosesNegotiation DEF negVars
  <1> QED
    BY <1>2, <1>3, <1>4 DEF HandleCustomBinding, FallsBack, EndsCustomBinding, EndsOpen

\* The delegates have answered: before a resource is bound nothing else is under way, and the
\* stream waits for nothing but them.
LEMMA QuestionAnswered ==
    ASSUME Inv, InTime, Inv', GrantInv, NegotiationInv, NEW kind \in {"willBind", "resource"},
           Answers(kind), UNCHANGED <<negVars, socketVars>>
    PROVE  /\ Established /\ isAuthenticated /\ UNCHANGED <<conn, granted, parsed>>
           /\ Asked' \subseteq Asked
           /\ ~Bound => /\ state = "BINDING" /\ requests = <<>> /\ Arriving' = {}
                        /\ Underway' = RequestWeight(requests') /\ Asked' = {}
           /\ Bound /\ kind = "willBind" => isSecure /\ state # "STARTTLS_2"
  <1>1. PICK q \in questions : q.kind = kind /\ questions' = questions \ {q}
    BY DEF Answers
  <1>2. q \in Asked /\ Asked' = Asked \ {q}
    BY <1>1 DEF Asked
  <1>3. UNCHANGED <<conn, granted, parsed, parser, wire, callbacks>>
    BY DEF Answers, serverVars, negVars, socketVars
  <1>4. Established
    BY AnswersTypes
  <1>5. isAuthenticated
    BY <1>2 DEF NegotiationInv, TurnInv, BindsAuthenticated
  <1>6. CASE ~Bound
    <2>1. Underway = 0 /\ state = "BINDING" /\ Asked' = {}
      BY <1>2, <1>4, <1>6 DEF NegotiationInv, TurnInv, Turns
    <2>2. requests = <<>>
      BY <2>1, NothingUnderway DEF NegotiationInv
    <2>3. Arriving' = {} /\ Underway' = RequestWeight(requests')
      BY <1>3, <1>4, <2>1, EstablishedIsUp, IdleLeaves DEF NegotiationInv
    <2> QED
      BY <1>2, <1>3, <1>4, <1>5, <1>6, <2>1, <2>2, <2>3
  <1>7. CASE Bound
    <2>1. kind = "willBind" => isSecure
      BY <1>1, <1>2, <1>4, <1>7 DEF NegotiationInv, TurnInv, BoundStays
    <2>2. isSecure => state # "STARTTLS_2"
      BY <1>4, <1>7 DEF NegotiationInv, ReadsInv
    <2> QED
      BY <1>2, <1>3, <1>4, <1>5, <1>7, <2>1, <2>2
  <1> QED
    BY <1>6, <1>7

LEMMA ResourceNegotiation ==
    ASSUME Inv, InTime, Inv', GrantInv, NegotiationInv, AnswerResource
    PROVE  NegotiationInv'
  <1> DEFINE r == Request("bind", "bind")
  <1>1. r \in RequestSet /\ r.kind = "bind"
    BY BindingRequests
  <1>2. /\ Answers("resource") /\ Writes(r)
        /\ UNCHANGED <<state, negVars, isAuthenticated, socketVars, reads, heard>>
    BY DEF AnswerResource, ContinueHandleStandardBinding, SendsIQ
  <1> HIDE DEF r
  <1>3. /\ Established /\ isAuthenticated /\ UNCHANGED <<conn, granted, parsed>>
        /\ Asked' \subseteq Asked
        /\ ~Bound => /\ state = "BINDING" /\ requests = <<>> /\ Arriving' = {}
                     /\ Underway' = RequestWeight(requests') /\ Asked' = {}
    BY <1>2, QuestionAnswered
  <1> QED
    BY <1>1, <1>2, <1>3, BindingNegotiation

LEMMA WillBindNegotiation ==
    ASSUME Inv, InTime, Inv', GrantInv, NegotiationInv, AnswerWillBind
    PROVE  NegotiationInv'
  <1>1. Answers("willBind") /\ UNCHANGED <<negVars, isAuthenticated>>
    BY DEF AnswerWillBind
  <1>2. CASE ClosesSocket /\ UNCHANGED <<state, heard>>
    <2>1. PICK q \in questions : q.kind = "willBind" /\ questions' = questions \ {q}
      BY <1>1 DEF Answers
    <2>2. Asked' \subseteq Asked /\ Established /\ UNCHANGED <<conn, granted, parsed>>
      BY <1>1, <2>1, AnswersTypes DEF Asked, Answers, serverVars
    <2> QED
      BY <1>1, <1>2, <2>2, EstablishedIsUp, ClosesNegotiation DEF negVars
  <1>3. CASE EndsOpen
    <2>1. UNCHANGED <<socketVars, reads>>
      BY <1>3, OpenEnd
    <2>2. PICK r \in RequestSet :
            /\ Writes(r) \/ UNCHANGED requests
            /\ \/ r.kind = "session" /\ state' = "START_SESSION" /\ Writes(r) /\ UNCHANGED heard
               \/ /\ state' = "CONNECTED" /\ UNCHANGED requests
                  /\ heard \subseteq heard' /\ Answered'
               \/ r.kind \in {"bind", "custom"} /\ Writes(r) /\ UNCHANGED <<state, heard>>
      BY <1>3, OpenEnd
    <2>3. /\ Established /\ isAuthenticated /\ UNCHANGED <<conn, granted, parsed>>
          /\ Asked' \subseteq Asked /\ (~Bound => state = "BINDING")
          /\ ~Bound => /\ requests = <<>> /\ Arriving' = {}
                       /\ Underway' = RequestWeight(requests') /\ Asked' = {}
          /\ state # "STARTTLS_2"
      BY <1>1, <2>1, QuestionAnswered
    <2> QED
      BY <1>1, <2>1, <2>2, <2>3, BindingNegotiation
  <1>4. CASE /\ IF state = "BINDING" THEN Writes(Request("custom", "none")) ELSE UNCHANGED requests
             /\ UNCHANGED <<state, tracked, heard, socketVars, reads>>
    <2> DEFINE r == Request("custom", "none")
    <2>1. r \in RequestSet /\ r.kind = "custom" /\ (Writes(r) \/ UNCHANGED requests)
      BY <1>4, BindingRequests
    <2> HIDE DEF r
    <2>2. /\ Established /\ isAuthenticated /\ UNCHANGED <<conn, granted, parsed>>
          /\ Asked' \subseteq Asked /\ (~Bound => state = "BINDING")
          /\ ~Bound => /\ requests = <<>> /\ Arriving' = {}
                       /\ Underway' = RequestWeight(requests') /\ Asked' = {}
      BY <1>1, <1>4, QuestionAnswered
    <2> QED
      BY <1>1, <1>4, <2>1, <2>2, BindingNegotiation
  <1>5. CASE StartStandardBinding /\ UNCHANGED <<socketVars, reads>>
    BY <1>3, <1>5 DEF EndsOpen
  <1> QED
    BY <1>2, <1>3, <1>4, <1>5
       DEF AnswerWillBind, StartCustomBinding, FallsBack, EndsCustomBinding, EndsOpen

LEMMA AuthNegotiation ==
    ASSUME Inv, Inv', GrantInv, NegotiationInv, HandleAuth
    PROVE  NegotiationInv'
  <1> DEFINE header == Request("header", "none")
             again == Request("auth", "none")
  <1>1. /\ header \in RequestSet /\ header.kind = "header" /\ RequestIs(header) = 3
        /\ again \in RequestSet /\ again.kind = "auth" /\ RequestIs(again) = 1
        /\ Room("OPENING") = 3 /\ Room("AUTH") = 1
    BY DEF Request, RequestSet, RequestIs, Room
  <1>2. /\ TakesElement("AUTH") /\ Asked' = Asked
        /\ UNCHANGED <<isSecure, socketVars, wire, callbacks>>
    BY DEF HandleAuth, socketVars, Asked
  <1>3. /\ TakesParsed /\ FromCurrentParser /\ elem.kind # "chunkEnd" /\ state = "AUTH"
        /\ Established /\ elem \in Arriving /\ Own(parsed, parser) # {} /\ parser # NoParser
        /\ UNCHANGED <<conn, granted>>
    BY <1>2, ElementFacts
  <1>4. ~isAuthenticated /\ ~Bound /\ ~Bound'
    BY <1>3 DEF NegotiationInv, TurnInv, BindsAuthenticated, Bound
  <1>5. elem.value # "success" => "auth" \notin granted
    BY <1>3, <1>4 DEF NegotiationInv, TurnInv, Granting
  <1>6. "didConnect" \in heard
    BY <1>3, <1>4 DEF NegotiationInv, TurnInv, Announced
  <1> HIDE DEF header, again
  <1>7. CASE /\ isAuthenticated' = TRUE /\ SendOpeningNegotiation
             /\ IF ReadsAfterAuth THEN QueuesRead ELSE UNCHANGED reads
    <2>1. state' = "OPENING" /\ parser' = NewParser /\ Writes(header)
      BY <1>7 DEF SendOpeningNegotiation, header
    <2>2. \/ reads = 0 /\ ~Reading(callbacks) /\ QueuesRead
          \/ isSecure /\ isSecure' /\ UNCHANGED reads /\ state # "STARTTLS_2"
      <3>1. CASE isSecure
        BY <1>2, <1>3, <1>7, <3>1 DEF ReadsAfterAuth
      <3>2. CASE ~isSecure
        BY <1>3, <1>7, <3>2 DEF ReadsAfterAuth, NegotiationInv, ReadsInv
      <3> QED
        BY <3>1, <3>2
    <2>3. Queues' /\ Numbered' /\ ReadsInv' /\ parser'[2] >= 2
      BY <1>2, <1>3, <2>1, <2>2, Restarts DEF NegotiationInv, Writes
    <2>4. /\ Arriving' = {} /\ Underway' = RequestWeight(requests') /\ Asked = {}
          /\ requests' \in {<<>>, <<header>>}
      BY <1>1, <1>2, <1>4, <2>1, UnboundElement
    <2>5. RequestIs(header) <= Room(state')
      BY <1>1, <2>1
    <2>6. TurnInv'
      BY <1>1, <1>2, <1>4, <1>7, <2>1, <2>3, <2>4, <2>5, TurnTaken DEF Announced
    <2> QED
      BY <2>3, <2>6 DEF NegotiationInv
  <1>8. CASE /\ state' = "CONNECTED" /\ UNCHANGED <<parser, trafficVars>>
             /\ \/ /\ elem.value = "success" /\ isAuthenticated' = TRUE
                   /\ heard' = heard \cup {"didAuthenticate"}
                \/ /\ elem.value # "success" /\ UNCHANGED isAuthenticated
                   /\ heard' = heard \cup {"didNotAuthenticate"}
    <2>1. Established' /\ UNCHANGED <<requests, reads>>
      BY <1>8 DEF Established, trafficVars
    <2>2. Queues' /\ Numbered' /\ ReadsInv'
      BY <1>2, <1>3, <1>8, <2>1, Stays DEF NegotiationInv
    <2>3. /\ Arriving' = {} /\ Underway' = RequestWeight(requests') /\ Asked = {}
          /\ requests' = <<>>
      BY <1>1, <1>2, <1>4, <1>8, <2>1, UnboundElement
    <2>4. Announced'
      BY <1>4, <1>6, <1>8 DEF Announced, Answered
    <2>5. "auth" \in granted' => isAuthenticated'
      BY <1>3, <1>5, <1>8
    <2>6. TurnInv'
      BY <1>1, <1>2, <1>4, <1>8, <2>3, <2>4, <2>5, TurnTaken
    <2> QED
      BY <2>2, <2>6 DEF NegotiationInv
  <1>9. CASE /\ elem.value = "challenge" /\ Writes(again)
             /\ UNCHANGED <<state, parser, isAuthenticated, auth, reads, heard>>
    <2>1. Established'
      BY <1>3, <1>9 DEF Established
    <2>2. Queues' /\ Numbered' /\ ReadsInv'
      BY <1>2, <1>3, <1>9, <2>1, Stays DEF NegotiationInv, Writes
    <2>3. /\ Arriving' = {} /\ Underway' = RequestWeight(requests') /\ Asked = {}
          /\ requests' \in {<<>>, <<again>>}
      BY <1>1, <1>2, <1>4, <1>9, UnboundElement
    <2>4. Announced'
      BY <1>4, <1>6, <1>9 DEF Announced
    <2>5. RequestIs(again) <= Room(state')
      BY <1>1, <1>3, <1>9
    <2>6. TurnInv'
      BY <1>1, <1>2, <1>3, <1>4, <1>5, <1>9, <2>3, <2>4, <2>5, TurnTaken
    <2> QED
      BY <2>2, <2>6 DEF NegotiationInv
  <1> QED
    BY <1>7, <1>8, <1>9 DEF HandleAuth, again

LEMMA ParsedNegotiation ==
    ASSUME Inv, InTime, Inv', GrantInv, NegotiationInv, HandleParsed
    PROVE  NegotiationInv'
  BY IgnoredNegotiation, DidReadRootNegotiation, DidParseDataNegotiation, ParserDidEndNegotiation,
     StreamFeaturesNegotiation, StartTLSNegotiation, RegistrationNegotiation, AuthNegotiation,
     CustomBindingNegotiation, StandardBindingNegotiation, StartSessionNegotiation
     DEF HandleParsed

LEMMA DelegatesNegotiation ==
    ASSUME Inv, InTime, Inv', GrantInv, NegotiationInv, Delegates
    PROVE  NegotiationInv'
  BY SettingsNegotiation, WillBindNegotiation, ResourceNegotiation DEF Delegates

\* Behind the first callback of the socket there is none but that of its end.
LEMMA CallbacksLeft ==
    ASSUME Inv, Queues, callbacks # <<>>, callbacks' = Tail(callbacks)
    PROVE  /\ ~Reading(callbacks') /\ Data(callbacks') = <<>>
           /\ callbacks' # <<>> => callbacks'[1].kind = "closed"
           /\ \A i \in DOMAIN callbacks' : callbacks'[i].kind = "closed"
  <1>1. callbacks \in Seq(CallbackSet)
    BY CallbacksType
  <1>2. \A i \in DOMAIN callbacks' : i + 1 \in DOMAIN callbacks /\ callbacks'[i] = callbacks[i + 1]
                                     /\ i + 1 # 1
    BY <1>1
  <1>3. \A i \in DOMAIN callbacks' : callbacks'[i].kind = "closed"
    BY <1>2 DEF Queues
  <1>4. callbacks' # <<>> => 1 \in DOMAIN callbacks'
    BY <1>1
  <1> QED
    BY <1>3, <1>4 DEF Reading, Data

LEMMA ConnectedNegotiation ==
    ASSUME Inv, InTime, Inv', SocketInv, GrantInv, NegotiationInv, DidConnectToHost
    PROVE  NegotiationInv'
  <1> DEFINE r == Request("header", "none")
  <1>1. /\ r \in RequestSet /\ r.kind = "header" /\ RequestIs(r) = 3 /\ Room("OPENING") = 3
    BY HeaderFacts
  <1>2. /\ callbacks # <<>> /\ callbacks[1].kind = "connected" /\ callbacks' = Tail(callbacks)
        /\ UNCHANGED <<isAuthenticated, socket, draining, wire, conn, granted, parsed, heard>>
    BY CallbacksType DEF DidConnectToHost, loginVars, serverVars
  <1>3. ~Established /\ ~Down
    BY <1>2 DEF NegotiationInv, Queues, SocketInv
  <1>4. /\ state = "CONNECTING" /\ socket # "connecting"
        /\ reads = 0 /\ wire = <<>> /\ requests = <<>> /\ granted = {}
        /\ parser = NoParser /\ ~isAuthenticated /\ Asked = {}
    <2>1. state = "CONNECTING"
      BY <1>3 DEF Established, Down
    <2>2. parser = NoParser /\ ~isAuthenticated
      BY <1>3 DEF Inv, TypeOK, NothingKept
    <2>3. Asked = {}
      BY <1>3 DEF Inv, Control, QuestionsInTime, Asked
    <2> QED
      BY <1>2, <2>1, <2>2, <2>3 DEF NegotiationInv, Queues
  <1>5. /\ ~Reading(callbacks') /\ Data(callbacks') = <<>>
        /\ callbacks' # <<>> => callbacks'[1].kind = "closed"
        /\ \A i \in DOMAIN callbacks' : callbacks'[i].kind = "closed"
    BY <1>2, CallbacksLeft DEF NegotiationInv
  <1>6. \/ isSecure' /\ state' = "OPENING" /\ parser' = NewParser /\ Writes(r) /\ QueuesRead
             /\ UNCHANGED questions
        \/ isSecure' /\ isSecure /\ state' = "STARTTLS_2" /\ UNCHANGED <<parser, requests, reads>>
             /\ questions' = questions \cup {[kind |-> "settings", conn |-> conn]}
        \/ state' = "OPENING" /\ parser' = NewParser /\ Writes(r) /\ QueuesRead /\ UNCHANGED questions
    BY DEF DidConnectToHost, StartTLS, ContinueStartTLS, SendOpeningNegotiation, negVars, trafficVars
  <1> HIDE DEF r
  <1>7. Asked' = {}
    BY <1>4, <1>6 DEF Asked
  <1>8. Own(parsed', parser') = {}
    <2>1. CASE parser' = NewParser
      BY <1>2, <1>3, <2>1, FreshParser DEF NegotiationInv
    <2>2. CASE parser' = NoParser
      BY <1>2, <2>2 DEF Inv, Control, NoStrayElements, Own
    <2> QED
      BY <1>4, <1>6, <2>1, <2>2
  <1>9. Arriving' = {} /\ Underway' = RequestWeight(requests')
    <2>1. Owned(parsed', parser') = {} /\ ParsedWeight(parsed', parser') = 0
      BY <1>2, <1>8, NotOwn, ParsedType
    <2>2. wire' = <<>> /\ ElemWeight(<<>>) = 0
      BY <1>2, <1>4, ElemWeightEmpty
    <2> QED
      BY <1>5, <2>1, <2>2, OnEmpty, Leaves DEF Arriving, Pending
  <1>10. requests' \in {<<>>, <<r>>} /\ (requests' = <<>> \/ state' = "OPENING")
    BY <1>1, <1>4, <1>6, WritesAdds
  <1>11. Queues'
    <2>1. socket' # "open" => reads' = 0 /\ wire' = <<>> /\ requests' = <<>>
      BY <1>2, <1>4, <1>6 DEF Usable, Writes, QueuesRead
    <2>2. state' # "CONNECTING"
      BY <1>6
    <2> QED
      BY <1>2, <1>4, <1>5, <1>9, <2>1, <2>2 DEF Queues
  <1>12. Numbered'
    <2>1. parser' \in {parser, NewParser}
      BY <1>6
    <2>2. parser' # NoParser \/ (isSecure' /\ state' = "STARTTLS_2")
      <3>1. parser' = NewParser => parser' # NoParser
        BY <1>2, <1>3, FreshParser DEF NegotiationInv
      <3> QED
        BY <1>6, <3>1
    <2> QED
      BY <1>2, <1>3, <1>4, <2>1, <2>2, NumberedKept DEF NegotiationInv
  <1>13. ReadsInv'
    <2>1. CASE state' = "OPENING"
      <3>1. reads' = IF Usable THEN 1 ELSE 0
        BY <1>4, <1>6, <2>1 DEF QueuesRead
      <3> QED
        BY <1>2, <1>5, <1>8, <2>1, <3>1 DEF ReadsInv, Usable
    <2>2. CASE state' = "STARTTLS_2"
      <3>1. reads' = 0 /\ parser' = NoParser /\ ~Bound'
        BY <1>2, <1>4, <1>6, <2>2 DEF Bound
      <3> QED
        BY <1>5, <1>8, <2>2, <3>1 DEF ReadsInv
    <2> QED
      BY <1>6, <2>1, <2>2
  <1>14. TurnInv'
    <2>1. ~Bound' /\ ~isAuthenticated' /\ "auth" \notin granted'
      BY <1>2, <1>4 DEF Bound
    <2>2. requests' = <<>> \/ RequestIs(r) <= Room(state')
      BY <1>1, <1>10
    <2>3. state' \in {"OPENING", "STARTTLS_2"}
      BY <1>6
    <2> QED
      BY <1>1, <1>7, <1>9, <1>10, <2>1, <2>2, <2>3, TurnTaken DEF Announced
  <1> QED
    BY <1>11, <1>12, <1>13, <1>14 DEF NegotiationInv

LEMMA DidReadNegotiation ==
    ASSUME Inv, Inv', SocketInv, GrantInv, NegotiationInv, DidReadData
    PROVE  NegotiationInv'
  <1>1. /\ callbacks # <<>> /\ Reading(callbacks) /\ callbacks' = Tail(callbacks)
        /\ UNCHANGED <<state, isSecure, isAuthenticated, parser, socket, draining, wire, requests,
                       conn, granted, questions, heard>>
    BY CallbacksType DEF DidReadData, Reading, negVars, loginVars, serverVars
  <1>2. Established /\ Established'
    <2>1. ~Down /\ state # "CONNECTING"
      BY <1>1 DEF NegotiationInv, Queues, SocketInv
    <2> QED
      BY <1>1, <2>1 DEF Established, Down
  <1>3. reads = 0 /\ state # "STARTTLS_2" /\ (~isSecure => Own(parsed, parser) = {})
    BY <1>1, <1>2 DEF NegotiationInv, ReadsInv
  <1>4. parser # NoParser /\ parser \in Nat \X Nat
    BY <1>2, <1>3 DEF NegotiationInv, Numbered, Inv, TypeOK, NegTypes
  <1> DEFINE data == Data(callbacks)
             read == Read(parser, data)
             end == Ended(parser)
  <1>5. parsed' = parsed \o read \o <<end>>
    <2>1. data = Head(callbacks).data
      BY <1>1, CallbacksType DEF Data, Reading
    <2> QED
      BY <1>4, <2>1 DEF DidReadData, Read, Ended
  <1>6. data \in Seq(ElemSet) /\ parsed \in Seq(Entries)
    BY DataType, ParsedType
  <1>7. On(data) \subseteq Arriving /\ On(data) \subseteq Exchanged
    BY ServedIsExchanged DEF Arriving, Pending, NegotiationInv, Queues
  <1>8. /\ ~Reading(callbacks') /\ Data(callbacks') = <<>>
        /\ callbacks' # <<>> => callbacks'[1].kind = "closed"
        /\ \A i \in DOMAIN callbacks' : callbacks'[i].kind = "closed"
    BY <1>1, CallbacksLeft DEF NegotiationInv
  <1>9. /\ On(parsed') \subseteq On(parsed) \cup On(read) \cup {end}
        /\ \A x \in On(read) : x.parser = parser
        /\ Owned(parsed', parser) \subseteq Owned(parsed, parser) \cup On(data)
    BY <1>4, <1>5, <1>6, OwnedRead
  <1>10. Arriving' \subseteq Arriving
    BY <1>1, <1>7, <1>8, <1>9, OnEmpty DEF Arriving, Pending
  <1>11. Underway' = Underway
    <2>1. ParsedWeight(parsed', parser) = ParsedWeight(parsed, parser) + ElemWeight(data)
      BY <1>4, <1>5, <1>6, ParsedWeightRead
    <2>2. Underway' = RequestWeight(requests) + ElemWeight(wire) + 0 + ParsedWeight(parsed', parser)
      BY <1>1, <1>8, ElemWeightEmpty DEF Underway, Weight
    <2>3. /\ RequestWeight(requests) \in Nat /\ ElemWeight(wire) \in Nat
          /\ ElemWeight(data) \in Nat /\ ParsedWeight(parsed, parser) \in Nat
          /\ Underway = RequestWeight(requests) + ElemWeight(wire) + ElemWeight(data)
                          + ParsedWeight(parsed, parser)
      BY Weights
    <2> HIDE DEF data
    <2> QED
      BY <2>1, <2>2, <2>3
  <1>12. /\ IF isSecure THEN QueuesRead ELSE UNCHANGED reads
         /\ reads' = IF isSecure /\ Usable THEN 1 ELSE 0
    BY <1>3 DEF DidReadData, QueuesRead
  <1>13. Queues'
    <2>1. socket' # "open" => reads' = 0 /\ wire' = <<>> /\ requests' = <<>>
      BY <1>1, <1>12 DEF NegotiationInv, Queues, Usable
    <2>2. state' # "CONNECTING" /\ socket' # "connecting"
      BY <1>1, <1>2 DEF NegotiationInv, Queues, Established
    <2> QED
      BY <1>8, <1>10, <2>1, <2>2 DEF NegotiationInv, Queues
  <1>14. Numbered'
    <2>1. ~Down
      BY <1>2, EstablishedIsUp
    <2>2. end.parser = parser
      BY DEF Ended
    <2>3. parser[1] = conn /\ parser[2] <= parser[2]
      BY <1>4 DEF GrantInv, ParserIsOfConn
    <2>4. \A x \in On(parsed') : x.parser[1] = conn =>
            parser[1] = conn /\ x.parser[2] <= parser[2]
      BY <1>9, <2>1, <2>2, <2>3 DEF NegotiationInv, Numbered
    <2> QED
      BY <1>1, <1>4, <2>4 DEF NegotiationInv, Numbered
  <1>15. ReadsInv'
    <2>1. CASE isSecure
      BY <1>1, <1>3, <1>8, <1>12, <2>1 DEF ReadsInv, Usable
    <2>2. CASE ~isSecure
      <3>1. Own(parsed', parser) # {} /\ OneEnd(parsed', parser)
        BY <1>3, <1>4, <1>5, <1>6, <1>7, <2>2, EndRead
      <3> QED
        BY <1>1, <1>3, <1>8, <1>12, <2>2, <3>1 DEF ReadsInv
    <2> QED
      BY <2>1, <2>2
  <1>16. TurnInv'
    <2>1. Asked' = Asked /\ Underway \in Nat /\ Underway' \in Nat
      BY <1>1, Weights, UnderwayNext DEF Asked
    <2> QED
      BY <1>1, <1>10, <1>11, <2>1, ShrinksTurn DEF NegotiationInv
  <1> QED
    BY <1>13, <1>14, <1>15, <1>16 DEF NegotiationInv

LEMMA DidDisconnectNegotiation ==
    ASSUME Inv, InTime, Inv', SocketInv, GrantInv, NegotiationInv, SocketDidDisconnect
    PROVE  NegotiationInv'
  <1>1. /\ socket = "idle" /\ callbacks' = <<>>
        /\ UNCHANGED <<wire, requests, reads, parsed>>
    BY EndTaken DEF SocketDidDisconnect, trafficVars
  <1>2. CASE /\ srvResultsIndex + 1 < srvResults
             /\ TryNextSrvResult(srvResultsIndex + 1, srvResults)
             /\ UNCHANGED <<srvResolver, srvResults, negVars, loginVars>>
    <2>1. ~Established
      BY <1>2 DEF Inv, TypeOK, SrvTypes, Control, EstablishedForgets
    <2>2. /\ UNCHANGED <<parser, isAuthenticated>>
          /\ \/ BeginsConnection /\ state' = "CONNECTING"
             \/ state' = "DISCONNECTED" /\ UNCHANGED socket
      BY <1>2 DEF TryNextSrvResult, negVars, loginVars
    <2>3. ~Established'
      BY <2>2 DEF Established
    <2> QED
      BY <1>1, <2>1, <2>2, <2>3, ConnectingStep
  <1>3. CASE /\ state' = "DISCONNECTED" /\ Releases /\ UNCHANGED socket
    <2>1. parser' = NoParser /\ isAuthenticated' = FALSE /\ ~Established' /\ Down'
      BY <1>3 DEF Releases, Established, Down
    <2>2. reads = 0 /\ wire = <<>> /\ requests = <<>>
      BY <1>1 DEF NegotiationInv, Queues
    <2>3. Arriving' = {}
      <3>1. Own(parsed', NoParser) = {}
        BY <1>1 DEF Inv, Control, NoStrayElements, Own
      <3>2. Owned(parsed', NoParser) = {}
        BY <1>1, <3>1, NotOwn, ParsedType
      <3>3. Data(callbacks') = <<>>
        BY <1>1 DEF Data, Reading
      <3> QED
        BY <1>1, <2>1, <2>2, <3>2, <3>3, OnEmpty DEF Arriving, Pending
    <2>4. Queues'
      BY <1>1, <1>3, <2>2, <2>3 DEF Queues, Established
    <2>5. Numbered'
      BY <2>1 DEF Numbered
    <2> QED
      BY <2>1, <2>4, <2>5, DownTurn DEF NegotiationInv
  <1> QED
    BY <1>2, <1>3 DEF SocketDidDisconnect

LEMMA CallbackNegotiation ==
    ASSUME Inv, InTime, Inv', SocketInv, GrantInv, NegotiationInv, HandleCallback
    PROVE  NegotiationInv'
  BY ConnectedNegotiation, DidReadNegotiation, DidDisconnectNegotiation DEF HandleCallback

LEMMA ResolvedNegotiation ==
    ASSUME Inv, InTime, Inv', SocketInv, GrantInv, NegotiationInv, DidResolve
    PROVE  NegotiationInv'
  <1>1. UNCHANGED <<parser, isSecure, isAuthenticated, parsed, callbacks, wire, requests, reads,
                    draining, questions>>
    BY DEF DidResolve, negVars, loginVars, trafficVars
  <1>2. CASE UNCHANGED <<state, serverVars, socket, heard>>
    BY <1>1, <1>2, NegotiationStutter DEF serverVars
  <1>3. CASE srvResolver \in resolvers /\ \E count \in SrvCounts : TryNextSrvResult(0, count)
    <2>1. Down
      BY <1>3 DEF Inv, Control, ResolverInUse, Down
    <2>2. ~Established /\ socket = "idle" /\ callbacks = <<>>
      BY <2>1, DownKeepsNothing
    <2>3. \/ BeginsConnection /\ state' = "CONNECTING"
          \/ state' = "DISCONNECTED" /\ UNCHANGED socket
      BY <1>3 DEF TryNextSrvResult
    <2>4. ~Established'
      BY <2>3 DEF Established
    <2> QED
      BY <1>1, <2>2, <2>3, <2>4, ConnectingStep
  <1> QED
    BY <1>2, <1>3 DEF DidResolve

LEMMA SocketConnectsNegotiation ==
    ASSUME Inv, InTime, Inv', NegotiationInv, SocketConnects
    PROVE  NegotiationInv'
  <1> DEFINE c == Callback("connected", <<>>)
  <1>1. /\ socket = "connecting" /\ socket' = "open" /\ callbacks' = Append(callbacks, c)
        /\ UNCHANGED <<state, isSecure, isAuthenticated, parser, parsed, wire, requests, reads,
                       conn, granted>>
    BY DEF SocketConnects, NetworkStep, negVars, loginVars, trafficVars, serverVars
  <1>2. state = "CONNECTING" /\ callbacks = <<>>
    BY <1>1 DEF NegotiationInv, Queues
  <1>3. callbacks' = <<c>> /\ c.kind = "connected"
    BY <1>1, <1>2 DEF Callback
  <1>4. ~Reading(callbacks') /\ Data(callbacks') = <<>>
    BY <1>3 DEF Reading, Data
  <1>5. ~Established /\ ~Established'
    BY <1>1, <1>2 DEF Established
  <1>6. Arriving' \subseteq Arriving
    BY <1>1, <1>4, OnEmpty DEF Arriving, Pending
  <1>7. \A i \in DOMAIN callbacks' : i = 1
    BY <1>3
  <1>8. Queues'
    BY <1>1, <1>2, <1>3, <1>4, <1>5, <1>6, <1>7 DEF NegotiationInv, Queues
  <1>9. Numbered'
    BY <1>1, <1>5 DEF NegotiationInv, Numbered, Down
  <1> QED
    BY <1>5, <1>8, <1>9, DownTurn DEF NegotiationInv

LEMMA SocketReadsNegotiation ==
    ASSUME Inv, Inv', SocketInv, NegotiationInv, SocketReads
    PROVE  NegotiationInv'
  <1>1. /\ socket = "open" /\ reads > 0 /\ reads' = reads - 1
        /\ UNCHANGED <<state, isSecure, isAuthenticated, parser, parsed, socket, draining, requests,
                       conn, granted, questions, heard>>
    BY DEF SocketReads, NetworkStep, negVars, loginVars, serverVars
  <1>2. PICK n \in 1..Len(wire) :
          /\ callbacks' = Append(callbacks, Callback("read", SubSeq(wire, 1, n)))
          /\ wire' = SubSeq(wire, n + 1, Len(wire))
    BY DEF SocketReads
  <1>3. wire \in Seq(ElemSet) /\ callbacks \in Seq(CallbackSet) /\ reads \in Nat
    BY WireType, CallbacksType DEF Inv, TypeOK, TrafficTypes
  <1>4. Established /\ Established'
    <2>1. state # "CONNECTING" /\ ~Down
      BY <1>1, <1>3 DEF NegotiationInv, Queues, SocketInv
    <2> QED
      BY <1>1, <2>1 DEF Established, Down
  <1>5. /\ reads = 1 /\ reads' = 0 /\ ~Reading(callbacks) /\ state # "STARTTLS_2"
        /\ ~isSecure => Own(parsed, parser) = {}
    BY <1>1, <1>3, <1>4 DEF NegotiationInv, ReadsInv
  <1>6. callbacks = <<>>
    <2> SUFFICES ASSUME callbacks # <<>> PROVE FALSE
      OBVIOUS
    <2>1. 1 \in DOMAIN callbacks /\ callbacks[1] \in CallbackSet
      BY <1>3
    <2>2. callbacks[1].kind = "closed"
      BY <1>4, <1>5, <2>1 DEF CallbackSet, Reading, NegotiationInv, Queues
    <2> QED
      BY <1>1, <2>1, <2>2 DEF SocketInv
  <1> DEFINE data == SubSeq(wire, 1, n)
             left == SubSeq(wire, n + 1, Len(wire))
  <1>7. /\ data \in Seq(ElemSet) /\ left \in Seq(ElemSet)
        /\ ElemWeight(wire) = ElemWeight(data) + ElemWeight(left)
        /\ ElemWeight(data) \in Nat /\ ElemWeight(left) \in Nat
    BY <1>3, ElemWeightSplit, ElemWeightNat
  <1>8. On(data) \subseteq On(wire) /\ On(left) \subseteq On(wire)
    <2>1. n \in 0..Len(wire) /\ n + 1 \in Nat \ {0} /\ Len(wire) \in 0..Len(wire)
      BY <1>3
    <2> QED
      BY <1>3, <2>1, OnPart
  <1>9. wire' = left /\ callbacks' = <<Callback("read", data)>>
    BY <1>2, <1>6
  <1> HIDE DEF data, left
  <1>10. Reading(callbacks') /\ Data(callbacks') = data /\ callbacks'[1].kind = "read"
    BY <1>9 DEF Reading, Data, Callback
  <1>11. Data(callbacks) = <<>> /\ ElemWeight(Data(callbacks)) = 0
    BY <1>5, ElemWeightEmpty DEF Data
  <1>12. Arriving' \subseteq Arriving
    BY <1>1, <1>8, <1>9, <1>10 DEF Arriving, Pending
  <1>13. Underway' = Underway
    <2>1. Underway' = RequestWeight(requests) + ElemWeight(left) + ElemWeight(data)
                        + ParsedWeight(parsed, parser)
      BY <1>1, <1>9, <1>10 DEF Underway, Weight
    <2>2. /\ RequestWeight(requests) \in Nat /\ ElemWeight(wire) \in Nat
          /\ ParsedWeight(parsed, parser) \in Nat
          /\ Underway = RequestWeight(requests) + ElemWeight(wire) + ElemWeight(Data(callbacks))
                          + ParsedWeight(parsed, parser)
      BY Weights
    <2>3. Underway = RequestWeight(requests) + ElemWeight(wire) + 0 + ParsedWeight(parsed, parser)
      BY <1>11, <2>2
    <2> QED
      BY <1>7, <2>1, <2>2, <2>3
  <1>14. Queues'
    <2>1. \A i \in DOMAIN callbacks' : i = 1
      BY <1>9
    <2> QED
      BY <1>1, <1>4, <1>10, <1>12, <2>1 DEF NegotiationInv, Queues, Established
  <1>15. Numbered'
    BY <1>1, <1>4 DEF NegotiationInv, Numbered, Down
  <1>16. ReadsInv'
    BY <1>1, <1>5, <1>10 DEF ReadsInv
  <1>17. TurnInv'
    <2>1. Asked' = Asked /\ Underway \in Nat /\ Underway' \in Nat
      BY <1>1, Weights, UnderwayNext DEF Asked
    <2> QED
      BY <1>1, <1>12, <1>13, <2>1, ShrinksTurn DEF NegotiationInv
  <1> QED
    BY <1>14, <1>15, <1>16, <1>17 DEF NegotiationInv

\* The server puts elements on the wire, in answer to a request or of its own accord.
LEMMA ServedKept ==
    ASSUME Inv, NegotiationInv, socket = "open", Established,
           NEW answer \in Seq(ElemSet), wire' = wire \o answer, On(answer) \subseteq Served,
           requests' = requests \/ (requests # <<>> /\ requests' = Tail(requests)),
           UNCHANGED <<state, isSecure, isAuthenticated, parser, parsed, callbacks, reads, socket,
                       draining, conn, questions, heard>>,
           granted \subseteq granted', Bound' => Bound \/ state = "BINDING"
    PROVE  /\ Queues' /\ Numbered' /\ ReadsInv'
           /\ Arriving' \subseteq Arriving \cup On(answer)
           /\ On(requests') \subseteq On(requests)
           /\ Asked' = Asked /\ Announced' /\ (Answered' <=> Answered) /\ (Bound => Bound')
  <1>1. Arriving' \subseteq Arriving \cup On(answer)
    BY WireType, OnConcat DEF Arriving, Pending
  <1>2. On(requests') \subseteq On(requests)
    BY OnTail, Weights
  <1>3. Asked' = Asked /\ (Answered' <=> Answered) /\ (Bound => Bound')
        /\ (Established' <=> Established)
    BY DEF Asked, Answered, Bound, Established
  <1>4. Queues'
    BY <1>1, <1>3 DEF NegotiationInv, Queues, Established
  <1>5. Numbered'
    BY <1>3 DEF NegotiationInv, Numbered, Down
  <1>6. ReadsInv'
    <2>1. state = "STARTTLS_2" /\ Bound' => Bound
      BY DEF Bound
    <2> QED
      BY <1>3, <2>1 DEF NegotiationInv, ReadsInv, Usable
  <1>7. Announced'
    BY <1>3 DEF NegotiationInv, TurnInv, Announced
  <1> QED
    BY <1>1, <1>2, <1>3, <1>4, <1>5, <1>6, <1>7

LEMMA OneAnswer ==
    ASSUME NEW e \in ElemSet
    PROVE  /\ <<e>> \in Seq(ElemSet) /\ On(<<e>>) = {e} /\ <<e>>[1] = e
           /\ ElemWeight(<<e>>) = ElemIs(e)
  BY ElemWeightOne DEF On

LEMMA TwoAnswers ==
    ASSUME NEW d \in ElemSet, NEW e \in ElemSet
    PROVE  /\ <<d, e>> \in Seq(ElemSet) /\ On(<<d, e>>) = {d, e} /\ <<d, e>>[1] = d
           /\ ElemWeight(<<d, e>>) = ElemIs(d) + ElemIs(e)
  <1>1. <<d, e>> = <<d>> \o <<e>> /\ <<d>> \in Seq(ElemSet) /\ <<e>> \in Seq(ElemSet)
    <2>1. <<d>> \in Seq(ElemSet) /\ <<e>> \in Seq(ElemSet) /\ <<d, e>> \in Seq(ElemSet)
      BY OneElement, TwoElements
    <2>2. <<d, e>> = Append(<<d>>, e)
      OBVIOUS
    <2>3. \A q \in Seq(ElemSet) : Append(q, e) = q \o <<e>>
      OBVIOUS
    <2> QED
      BY <2>1, <2>2, <2>3
  <1>2. ElemWeight(<<d, e>>) = ElemIs(d) + ElemIs(e)
    BY <1>1, ElemWeightConcat, ElemWeightOne
  <1>3. <<d, e>> \in Seq(ElemSet) /\ <<d, e>>[1] = d
    OBVIOUS
  <1>4. On(<<d, e>>) = {d, e}
    <2>1. DOMAIN <<d, e>> = {1, 2} /\ <<d, e>>[2] = e
      OBVIOUS
    <2> QED
      BY <1>3, <2>1 DEF On
  <1> QED
    BY <1>2, <1>3, <1>4

\* What the server may answer: an element of the request's kind, the opening of a stream, or
\* the end of the stream.
LEMMA AnswerKinds ==
    ASSUME NEW r \in RequestSet, NEW again \in BOOLEAN,
           NEW answer \in AnswersTo(r, again) \cup {<<Elem("eof", "none", "none")>>}
    PROVE  \/ answer = <<Elem("eof", "none", "none")>>
           \/ /\ r.kind = "header"
              /\ \/ \E f \in Offers : answer = <<Elem("root", "rfc", "none"), Features(f)>>
                 \/ answer = <<Elem("root", "old", "none")>> /\ parser[2] = 1
           \/ /\ r.kind # "header"
              /\ \E v \in {"proceed", "failure", "success", "challenge", "jid", "conflict", "error",
                           "done", "again", "result", "refused"} :
                   /\ answer = <<Elem(r.kind, v, r.id)>>
                   /\ v = "success" => r.kind = "auth"
                   /\ v \in {"jid", "done"} => r.kind \in {"bind", "custom"}
  <1>1. CASE answer = <<Elem("eof", "none", "none")>>
    BY <1>1
  <1>2. CASE r.kind = "header" /\ answer \in AnswersTo(r, again)
    BY <1>2 DEF AnswersTo
  <1>3. CASE r.kind = "starttls" /\ answer \in AnswersTo(r, again)
    <2>1. \E v \in {"proceed", "failure"} : answer = <<Elem(r.kind, v, r.id)>>
      BY <1>3 DEF AnswersTo
    <2> QED
      BY <1>3, <2>1
  <1>4. CASE r.kind = "auth" /\ answer \in AnswersTo(r, again)
    <2>1. \E v \in {"success", "failure", "challenge"} : answer = <<Elem(r.kind, v, r.id)>>
      BY <1>4 DEF AnswersTo
    <2> QED
      BY <1>4, <2>1
  <1>5. CASE r.kind = "bind" /\ answer \in AnswersTo(r, again)
    <2>1. \E v \in {"jid", "conflict", "error"} : answer = <<Elem(r.kind, v, r.id)>>
      BY <1>5 DEF AnswersTo
    <2> QED
      BY <1>5, <2>1
  <1>6. CASE r.kind = "custom" /\ answer \in AnswersTo(r, again)
    <2>1. \E v \in {"done", "again"} : answer = <<Elem(r.kind, v, r.id)>>
      BY <1>6 DEF AnswersTo
    <2> QED
      BY <1>6, <2>1
  <1>7. CASE /\ r.kind \notin {"header", "starttls", "auth", "bind", "custom"}
             /\ answer \in AnswersTo(r, again)
    <2>1. \E v \in {"result", "refused"} : answer = <<Elem(r.kind, v, r.id)>>
      BY <1>7 DEF AnswersTo
    <2> QED
      BY <1>7, <2>1
  <1> QED
    BY <1>1, <1>2, <1>3, <1>4, <1>5, <1>6, <1>7

LEMMA OffersFacts ==
    ASSUME NEW f \in Offers
    PROVE  /\ f \in FeatureSet /\ (f.bind <=> "auth" \in granted)
           /\ isSecure => f.starttls = "no"
  <1>1. ASSUME NEW done \in BOOLEAN,
               f \in [starttls : {"no", "offered", "required"}, bind : {done},
                     session : BOOLEAN, login : {~done}]
        PROVE  f \in FeatureSet /\ (f.bind <=> done)
    <2>1. f.bind = done /\ f.login = ~done
      BY <1>1
    <2> QED
      BY <1>1, <2>1 DEF FeatureSet
  <1>2. /\ f \in [starttls : {"no", "offered", "required"}, bind : {"auth" \in granted},
                 session : BOOLEAN, login : {~("auth" \in granted)}]
        /\ isSecure => f.starttls = "no"
    <2>1. f \in [starttls : IF isSecure THEN {"no"} ELSE {"no", "offered", "required"},
                bind : {"auth" \in granted}, login : {~("auth" \in granted)},
                session : IF "auth" \in granted THEN BOOLEAN ELSE {FALSE}]
      BY DEF Offers
    <2> DEFINE done == "auth" \in granted
    <2> HIDE DEF done
    <2>2. f \in [starttls : IF isSecure THEN {"no"} ELSE {"no", "offered", "required"},
                bind : {done}, login : {~done}, session : IF done THEN BOOLEAN ELSE {FALSE}]
      BY <2>1 DEF done
    <2>3. f \in [starttls : {"no", "offered", "required"}, bind : {done}, session : BOOLEAN,
                login : {~done}] /\ (isSecure => f.starttls = "no")
      BY <2>2
    <2> QED
      BY <2>3 DEF done
  <1>3. ("auth" \in granted) \in BOOLEAN
    OBVIOUS
  <1> QED
    BY <1>1, <1>2, <1>3

LEMMA AnswerShape ==
    ASSUME NEW r \in RequestSet, NEW again \in BOOLEAN,
           NEW answer \in AnswersTo(r, again) \cup {<<Elem("eof", "none", "none")>>}
    PROVE  /\ answer \in Seq(ElemSet) /\ On(answer) \subseteq Served
           /\ ElemWeight(answer) \in Nat /\ ElemWeight(answer) <= RequestIs(r)
           /\ answer[1].value = "success" =>
                r.kind = "auth" /\ \A e \in On(answer) : e.value = "success"
           /\ answer[1].value \in {"jid", "done"} => r.kind \in {"bind", "custom"}
           /\ \A e \in On(answer) :
                /\ e.offers.bind => "auth" \in granted
                /\ isSecure => e.offers.starttls = "no"
                /\ r.kind # "header" => e.kind \notin {"root", "features"}
                /\ r.kind = "header" =>
                     \/ e.kind = "root" /\ (e.value = "old" => parser[2] = 1)
                     \/ e.kind = "features" /\ (e.offers.bind <=> "auth" \in granted)
                     \/ e.kind = "eof"
  <1>1. CASE answer = <<Elem("eof", "none", "none")>>
    <2> DEFINE e == Elem("eof", "none", "none")
    <2>1. /\ e \in ElemSet /\ e \in Served /\ e.kind = "eof" /\ e.value = "none"
          /\ ~e.offers.bind /\ e.offers.starttls = "no"
      BY ElementTypes DEF Elem, Served, Exchanged, NoFeatures
    <2> HIDE DEF e
    <2>2. ElemIs(e) = 1 /\ RequestIs(r) \in {1, 3}
      BY <2>1, ElemIsValues, RequestIsValues
    <2>3. /\ answer \in Seq(ElemSet) /\ On(answer) = {e} /\ answer[1] = e
          /\ ElemWeight(answer) = 1
      BY <1>1, <2>1, <2>2, OneAnswer DEF e
    <2>4. ElemWeight(answer) <= RequestIs(r)
      BY <2>2, <2>3
    <2> QED
      BY <2>1, <2>3, <2>4
  <1>2. CASE /\ r.kind = "header"
             /\ \E f \in Offers : answer = <<Elem("root", "rfc", "none"), Features(f)>>
    <2>1. PICK f \in Offers : answer = <<Elem("root", "rfc", "none"), Features(f)>>
      BY <1>2
    <2>2. f \in FeatureSet /\ (f.bind <=> "auth" \in granted) /\ (isSecure => f.starttls = "no")
      BY OffersFacts
    <2> DEFINE d == Elem("root", "rfc", "none")
               e == Features(f)
    <2>3. /\ d \in ElemSet /\ d \in Served /\ d.kind = "root" /\ d.value = "rfc"
          /\ ~d.offers.bind /\ d.offers.starttls = "no"
      BY ElementTypes DEF Elem, Served, Exchanged, NoFeatures
    <2>4. /\ e \in ElemSet /\ e \in Served /\ e.kind = "features" /\ e.value = "none"
          /\ e.offers = f
      BY <2>2, ElementTypes DEF Features, Elem, Served, Exchanged
    <2> HIDE DEF d, e
    <2>5. ElemIs(d) = 2 /\ ElemIs(e) = 1 /\ RequestIs(r) = 3
      BY <1>2, <2>3, <2>4, ElemIsValues DEF RequestIs
    <2>6. /\ answer \in Seq(ElemSet) /\ On(answer) = {d, e} /\ answer[1] = d
          /\ ElemWeight(answer) = ElemIs(d) + ElemIs(e)
      BY <2>1, <2>3, <2>4, TwoAnswers DEF d, e
    <2>7. ElemWeight(answer) = 3
      BY <2>5, <2>6
    <2> QED
      BY <1>2, <2>2, <2>3, <2>4, <2>5, <2>6, <2>7
  <1>3. CASE r.kind = "header" /\ answer = <<Elem("root", "old", "none")>> /\ parser[2] = 1
    <2> DEFINE e == Elem("root", "old", "none")
    <2>1. /\ e \in ElemSet /\ e \in Served /\ e.kind = "root" /\ e.value = "old"
          /\ ~e.offers.bind /\ e.offers.starttls = "no"
      BY ElementTypes DEF Elem, Served, Exchanged, NoFeatures
    <2> HIDE DEF e
    <2>2. ElemIs(e) = 3 /\ RequestIs(r) = 3
      BY <1>3, <2>1, ElemIsValues DEF RequestIs
    <2>3. /\ answer \in Seq(ElemSet) /\ On(answer) = {e} /\ answer[1] = e
          /\ ElemWeight(answer) = 3
      BY <1>3, <2>1, <2>2, OneAnswer DEF e
    <2> QED
      BY <1>3, <2>1, <2>2, <2>3
  <1>4. CASE /\ r.kind # "header"
             /\ \E v \in {"proceed", "failure", "success", "challenge", "jid", "conflict", "error",
                          "done", "again", "result", "refused"} :
                  /\ answer = <<Elem(r.kind, v, r.id)>>
                  /\ v = "success" => r.kind = "auth"
                  /\ v \in {"jid", "done"} => r.kind \in {"bind", "custom"}
    <2>1. PICK v \in {"proceed", "failure", "success", "challenge", "jid", "conflict", "error",
                      "done", "again", "result", "refused"} :
             /\ answer = <<Elem(r.kind, v, r.id)>>
             /\ v = "success" => r.kind = "auth"
             /\ v \in {"jid", "done"} => r.kind \in {"bind", "custom"}
      BY <1>4
    <2> DEFINE e == Elem(r.kind, v, r.id)
    <2>2. r.kind \in {"query", "starttls", "auth", "register", "bind", "custom", "session"}
          /\ r.id \in {"none", "bind", "session"}
      BY <1>4 DEF RequestSet
    <2>3. /\ e.kind = r.kind /\ e.value = v /\ e.id = r.id /\ e.offers = NoFeatures
          /\ e = [kind |-> r.kind, value |-> v, id |-> r.id, offers |-> NoFeatures]
      BY DEF Elem
    <2>4. e \in ElemSet
      BY <2>2, <2>3, ElementTypes DEF ElemSet
    <2>5. /\ e \in Served /\ e.kind \notin {"root", "features", "chunkEnd"}
          /\ ~e.offers.bind /\ e.offers.starttls = "no"
      <3>1. e.kind \notin {"root", "features", "chunkEnd"}
        BY <2>2, <2>3
      <3>2. e \in Served
        BY <2>3, <2>4, <3>1 DEF Served, Exchanged
      <3>3. ~NoFeatures.bind /\ NoFeatures.starttls = "no"
        BY DEF NoFeatures
      <3> QED
        BY <2>3, <3>1, <3>2, <3>3
    <2> HIDE DEF e
    <2>6. ElemIs(e) = 1 /\ RequestIs(r) = 1
      BY <1>4, <2>4, <2>5, ElemIsValues DEF RequestIs
    <2>7. /\ answer \in Seq(ElemSet) /\ On(answer) = {e} /\ answer[1] = e
          /\ ElemWeight(answer) = 1
      BY <2>1, <2>4, <2>6, OneAnswer DEF e
    <2> QED
      BY <1>4, <2>1, <2>3, <2>5, <2>6, <2>7
  <1> QED
    BY <1>1, <1>2, <1>3, <1>4, AnswerKinds

\* What the server answers weighs no more than the request, and it grants only what it says.
LEMMA AnswerArrives ==
    ASSUME Inv, Inv', SocketInv, NegotiationInv, ServerAnswers
    PROVE  \E answer \in Seq(ElemSet) :
             LET r == Head(requests) IN
             /\ socket = "open" /\ Established /\ requests # <<>> /\ requests' = Tail(requests)
             /\ wire' = wire \o answer /\ On(answer) \subseteq Served
             /\ UNCHANGED <<state, isSecure, isAuthenticated, parser, parsed, callbacks, reads, socket,
                            draining, conn, questions, heard>>
             /\ r \in RequestSet /\ r \in On(requests) /\ RequestIs(r) <= Underway
             /\ Underway' <= Underway /\ granted \subseteq granted'
             /\ "auth" \in granted' =>
                  "auth" \in granted \/ (r.kind = "auth" /\ \A e \in On(answer) : e.value = "success")
             /\ Bound' => Bound \/ r.kind \in {"bind", "custom"}
             /\ \A e \in On(answer) :
                  /\ e.offers.bind => "auth" \in granted
                  /\ isSecure => e.offers.starttls = "no"
                  /\ r.kind # "header" => e.kind \notin {"root", "features"}
                  /\ r.kind = "header" =>
                       \/ e.kind = "root" /\ (e.value = "old" => parser[2] = 1)
                       \/ e.kind = "features" /\ (e.offers.bind <=> "auth" \in granted)
                       \/ e.kind = "eof"
  <1> DEFINE r == Head(requests)
  <1>1. PICK answer \in AnswersTo(r, rounds < MaxRounds) \cup {<<Elem("eof", "none", "none")>>} :
          /\ wire' = wire \o answer
          /\ granted' = granted \cup CASE answer[1].value = "success" -> {"auth"}
                                       [] answer[1].value \in {"jid", "done"} -> {"bind"}
                                       [] OTHER -> {}
    BY DEF ServerAnswers
  <1>2. /\ socket = "open" /\ requests # <<>> /\ requests' = Tail(requests)
        /\ UNCHANGED <<state, isSecure, isAuthenticated, parser, parsed, callbacks, reads, socket,
                       draining, conn, questions, heard>>
    BY DEF ServerAnswers, NetworkStep, negVars, loginVars
  <1>3. Established
    <2>1. state # "CONNECTING" /\ ~Down
      BY <1>2 DEF NegotiationInv, Queues, SocketInv
    <2> QED
      BY <2>1 DEF Established, Down
  <1>4. /\ requests \in Seq(RequestSet) /\ RequestWeight(requests) \in Nat
        /\ ElemWeight(wire) \in Nat /\ ElemWeight(Data(callbacks)) \in Nat
        /\ ParsedWeight(parsed, parser) \in Nat
        /\ Underway = RequestWeight(requests) + ElemWeight(wire) + ElemWeight(Data(callbacks))
                        + ParsedWeight(parsed, parser)
    BY Weights
  <1>5. /\ r \in RequestSet /\ r \in On(requests) /\ Tail(requests) \in Seq(RequestSet)
        /\ RequestWeight(requests) = RequestIs(r) + RequestWeight(Tail(requests))
        /\ RequestIs(r) \in Nat /\ RequestWeight(Tail(requests)) \in Nat
    <2>1. r \in RequestSet /\ r \in On(requests)
      BY <1>2, <1>4, RequestWeightTail, OnHead
    <2>2. /\ Tail(requests) \in Seq(RequestSet)
          /\ RequestWeight(requests) = RequestIs(r) + RequestWeight(Tail(requests))
      BY <1>2, <1>4, RequestWeightTail
    <2>3. RequestIs(r) \in Nat
      BY <2>1, RequestIsValues
    <2>4. RequestWeight(Tail(requests)) \in Nat
      BY <2>2, RequestWeightNat
    <2> QED
      BY <2>1, <2>2, <2>3, <2>4
  <1> HIDE DEF r
  <1>6. (rounds < MaxRounds) \in BOOLEAN
    OBVIOUS
  <1>7. /\ answer \in Seq(ElemSet) /\ On(answer) \subseteq Served
        /\ ElemWeight(answer) \in Nat /\ ElemWeight(answer) <= RequestIs(r)
        /\ answer[1].value = "success" =>
             r.kind = "auth" /\ \A e \in On(answer) : e.value = "success"
        /\ answer[1].value \in {"jid", "done"} => r.kind \in {"bind", "custom"}
        /\ \A e \in On(answer) :
             /\ e.offers.bind => "auth" \in granted
             /\ isSecure => e.offers.starttls = "no"
             /\ r.kind # "header" => e.kind \notin {"root", "features"}
             /\ r.kind = "header" =>
                  \/ e.kind = "root" /\ (e.value = "old" => parser[2] = 1)
                  \/ e.kind = "features" /\ (e.offers.bind <=> "auth" \in granted)
                  \/ e.kind = "eof"
    BY <1>1, <1>5, <1>6, AnswerShape
  <1>8. /\ granted \subseteq granted'
        /\ "auth" \in granted' => "auth" \in granted \/ answer[1].value = "success"
        /\ "bind" \in granted' => "bind" \in granted \/ answer[1].value \in {"jid", "done"}
    BY <1>1
  <1>9. RequestIs(r) <= Underway
    BY <1>4, <1>5
  <1>10. Underway' <= Underway
    <2>1. ElemWeight(wire') = ElemWeight(wire) + ElemWeight(answer)
      BY <1>1, <1>7, WireType, ElemWeightConcat
    <2> DEFINE a == RequestWeight(Tail(requests))
               b == ElemWeight(wire)
               c == ElemWeight(Data(callbacks))
               d == ParsedWeight(parsed, parser)
               m == RequestIs(r)
               w == ElemWeight(answer)
    <2>2. Underway' = a + (b + w) + c + d
      BY <1>2, <2>1 DEF Underway, Weight
    <2>3. Underway = (m + a) + b + c + d
      BY <1>4, <1>5
    <2>4. a \in Nat /\ b \in Nat /\ c \in Nat /\ d \in Nat /\ m \in Nat /\ w \in Nat /\ w <= m
      BY <1>4, <1>5, <1>7
    <2> HIDE DEF a, b, c, d, m, w
    <2>5. a + (b + w) + c + d <= (m + a) + b + c + d
      BY <2>4
    <2> QED
      BY <2>2, <2>3, <2>5
  <1>11. Bound' => Bound \/ r.kind \in {"bind", "custom"}
    BY <1>7, <1>8 DEF Bound
  <1>12. "auth" \in granted' =>
           "auth" \in granted \/ (r.kind = "auth" /\ \A e \in On(answer) : e.value = "success")
    BY <1>7, <1>8
  <1> QED
    BY <1>1, <1>2, <1>3, <1>5, <1>7, <1>8, <1>9, <1>10, <1>11, <1>12 DEF r

LEMMA ServerAnswersNegotiation ==
    ASSUME Inv, Inv', SocketInv, GrantInv, NegotiationInv, ServerAnswers
    PROVE  NegotiationInv'
  <1> DEFINE r == Head(requests)
  <1>1. PICK answer \in Seq(ElemSet) :
          /\ socket = "open" /\ Established /\ requests # <<>> /\ requests' = Tail(requests)
          /\ wire' = wire \o answer /\ On(answer) \subseteq Served
          /\ UNCHANGED <<state, isSecure, isAuthenticated, parser, parsed, callbacks, reads, socket,
                         draining, conn, questions, heard>>
          /\ r \in RequestSet /\ r \in On(requests) /\ RequestIs(r) <= Underway
          /\ Underway' <= Underway /\ granted \subseteq granted'
          /\ "auth" \in granted' =>
               "auth" \in granted \/ (r.kind = "auth" /\ \A e \in On(answer) : e.value = "success")
          /\ Bound' => Bound \/ r.kind \in {"bind", "custom"}
          /\ \A e \in On(answer) :
               /\ e.offers.bind => "auth" \in granted
               /\ isSecure => e.offers.starttls = "no"
               /\ r.kind # "header" => e.kind \notin {"root", "features"}
               /\ r.kind = "header" =>
                    \/ e.kind = "root" /\ (e.value = "old" => parser[2] = 1)
                    \/ e.kind = "features" /\ (e.offers.bind <=> "auth" \in granted)
                    \/ e.kind = "eof"
    BY AnswerArrives
  <1>2. Underway \in Nat /\ Underway' \in Nat /\ RequestIs(r) \in {1, 3}
    BY <1>1, Weights, UnderwayNext, RequestIsValues
  <1>3. ~Bound => /\ Underway <= Room(state) /\ Underway # 0
                  /\ r.kind = "auth" => state = "AUTH"
                  /\ r.kind \in {"bind", "custom"} => state = "BINDING"
                  /\ Asked = {}
    <2>1. Underway # 0
      BY <1>1, <1>2
    <2> QED
      BY <1>1, <2>1 DEF NegotiationInv, TurnInv, Turns
  <1>4. Bound' => Bound \/ state = "BINDING"
    BY <1>1, <1>3
  <1> HIDE DEF r
  <1>5. /\ Queues' /\ Numbered' /\ ReadsInv'
        /\ Arriving' \subseteq Arriving \cup On(answer)
        /\ On(requests') \subseteq On(requests)
        /\ Asked' = Asked /\ Announced' /\ (Answered' <=> Answered) /\ (Bound => Bound')
    BY <1>1, <1>4, ServedKept
  <1>6. ~Bound /\ r.kind \in {"auth", "bind", "custom"} =>
          requests' = <<>> /\ Arriving' \subseteq On(answer)
    <2> SUFFICES ASSUME ~Bound, r.kind \in {"auth", "bind", "custom"}
                 PROVE  requests' = <<>> /\ Arriving' \subseteq On(answer)
      OBVIOUS
    <2>1. Underway <= 1 /\ RequestIs(r) = 1
      BY <1>2, <1>3 DEF Room, RequestIs
    <2>2. Underway <= RequestIs(Head(requests))
      BY <2>1 DEF r
    <2>3. Tail(requests) = <<>> /\ Arriving = {}
      BY <1>1, <2>2, OnlyRequest DEF NegotiationInv
    <2> QED
      BY <1>1, <1>5, <2>3
  <1>7. Turns'
    <2>1. Established' /\ ~Bound' => Established /\ ~Bound
      BY <1>1, <1>5
    <2>2. ~Bound => Underway' <= Room(state)
      <3>1. \A m, n, k \in Nat : m <= n /\ n <= k => m <= k
        OBVIOUS
      <3>2. Room(state) \in Nat
        BY DEF Room
      <3> QED
        BY <1>1, <1>2, <1>3, <3>1, <3>2
    <2>3. ~Bound => \A q \in On(requests') : /\ q.kind = "auth" => state = "AUTH"
                                             /\ q.kind \in {"bind", "custom"} => state = "BINDING"
      BY <1>1, <1>5 DEF NegotiationInv, TurnInv, Turns
    <2> QED
      BY <1>1, <1>3, <1>5, <2>1, <2>2, <2>3 DEF Turns
  <1>8. NoTLSTwice'
    BY <1>1, <1>5 DEF NegotiationInv, TurnInv, NoTLSTwice
  <1>9. BoundStays'
    <2>1. CASE Bound
      <3>1. ~isSecure \/ ~Answered =>
              /\ \A q \in On(requests) : q.kind # "header"
              /\ \A e \in Arriving : e.kind \notin {"root", "features"}
        BY <1>1, <2>1 DEF NegotiationInv, TurnInv, BoundStays
      <3>2. ~isSecure \/ ~Answered => \A e \in Arriving' : e.kind \notin {"root", "features"}
        BY <1>1, <1>5, <3>1
      <3>3. /\ state \in {"OPENING", "NEGOTIATING", "STARTTLS_1", "STARTTLS_2"} => Answered
            /\ (\E q \in Asked : q.kind = "willBind") => isSecure
        BY <1>1, <2>1 DEF NegotiationInv, TurnInv, BoundStays
      <3> QED
        BY <1>1, <1>5, <3>1, <3>2, <3>3 DEF BoundStays
    <2>2. CASE ~Bound
      <3> SUFFICES ASSUME Bound' PROVE BoundStays'
        BY DEF BoundStays
      <3>1. r.kind \in {"bind", "custom"} /\ state = "BINDING" /\ Asked' = {}
        BY <1>1, <1>3, <1>5, <2>2
      <3>2. requests' = <<>> /\ \A e \in Arriving' : e.kind \notin {"root", "features"}
        BY <1>1, <1>6, <2>2, <3>1
      <3> QED
        BY <1>1, <3>1, <3>2, OnEmpty DEF BoundStays
    <2> QED
      BY <2>1, <2>2
  <1>10. BindsAuthenticated'
    <2>1. Bound' => isAuthenticated
      BY <1>1, <1>4 DEF NegotiationInv, TurnInv, BindsAuthenticated
    <2> QED
      BY <1>1, <1>5, <2>1 DEF NegotiationInv, TurnInv, BindsAuthenticated, Established
  <1>11. Granting'
    <2> SUFFICES ASSUME ~isAuthenticated PROVE Granting'
      BY <1>1 DEF Granting
    <2>1. "auth" \notin granted /\ \A e \in Arriving : ~e.offers.bind
      BY <1>1 DEF NegotiationInv, TurnInv, Granting
    <2>2. ~Bound
      BY <1>1 DEF NegotiationInv, TurnInv, BindsAuthenticated
    <2>3. "auth" \in granted' => /\ state = "AUTH" /\ requests' = <<>>
                                 /\ \A e \in Arriving' : e.value = "success"
      BY <1>1, <1>3, <1>6, <2>1, <2>2
    <2>4. \A e \in Arriving' : ~e.offers.bind
      BY <1>1, <1>5, <2>1
    <2> QED
      BY <1>1, <2>3, <2>4 DEF Granting
  <1>12. Restarting'
    <2> SUFFICES ASSUME isAuthenticated, ~Bound', state \in {"OPENING", "NEGOTIATING"}
                 PROVE  Restarting'
      BY <1>1 DEF Restarting
    <2>1. /\ parser[2] >= 2
          /\ \A q \in On(requests) : q.kind = "header"
          /\ \A e \in Arriving : \/ e.kind = "root" /\ e.value # "old"
                                 \/ e.kind = "features" /\ e.offers.bind
                                 \/ e.kind = "eof"
      BY <1>1, <1>5 DEF NegotiationInv, TurnInv, Restarting
    <2>2. "auth" \in granted /\ parser[2] # 1
      BY <2>1 DEF GrantInv, AuthenticatedByServer
    <2>3. \A e \in On(answer) : \/ e.kind = "root" /\ e.value # "old"
                                \/ e.kind = "features" /\ e.offers.bind
                                \/ e.kind = "eof"
      BY <1>1, <2>1, <2>2
    <2> QED
      BY <1>1, <1>5, <2>1, <2>3 DEF Restarting
  <1> QED
    BY <1>5, <1>7, <1>8, <1>9, <1>10, <1>11, <1>12 DEF NegotiationInv, TurnInv

\* Stanzas come to a stream that has bound a resource, and open no stream.
LEMMA ServerPushesNegotiation ==
    ASSUME Inv, Inv', SocketInv, NegotiationInv, ServerPushes
    PROVE  NegotiationInv'
  <1> DEFINE e == Elem("stanza", "none", "none")
  <1>1. /\ socket = "open" /\ Bound /\ wire' = Append(wire, e)
        /\ UNCHANGED <<state, isSecure, isAuthenticated, parser, parsed, callbacks, reads, socket,
                       requests, draining, conn, granted, questions, heard>>
    BY DEF ServerPushes, NetworkStep, negVars, loginVars, trafficVars, Bound
  <1>2. Established
    <2>1. state # "CONNECTING" /\ ~Down
      BY <1>1 DEF NegotiationInv, Queues, SocketInv, Bound
    <2> QED
      BY <2>1 DEF Established, Down
  <1>3. /\ e \in ElemSet /\ e \in Served /\ e.kind = "stanza" /\ e.offers.starttls = "no"
    BY ElementTypes DEF Elem, Served, Exchanged, NoFeatures
  <1> HIDE DEF e
  <1>4. <<e>> \in Seq(ElemSet) /\ On(<<e>>) = {e}
    BY <1>3, OneAnswer
  <1>5. wire' = wire \o <<e>>
    <2>1. \A q \in Seq(ElemSet) : Append(q, e) = q \o <<e>>
      OBVIOUS
    <2> QED
      BY <1>1, <2>1, WireType
  <1>6. Bound' /\ Established'
    BY <1>1, <1>2 DEF Bound, Established
  <1>7. /\ Queues' /\ Numbered' /\ ReadsInv'
        /\ Arriving' \subseteq Arriving \cup {e}
        /\ Asked' = Asked /\ Announced' /\ (Answered' <=> Answered)
    BY <1>1, <1>2, <1>3, <1>4, <1>5, ServedKept
  <1>8. isAuthenticated
    BY <1>1, <1>2 DEF NegotiationInv, TurnInv, BindsAuthenticated
  <1>9. Turns' /\ Restarting' /\ Granting'
    BY <1>1, <1>6, <1>8 DEF Turns, Restarting, Granting
  <1>10. NoTLSTwice'
    BY <1>1, <1>2, <1>3, <1>7 DEF NegotiationInv, TurnInv, NoTLSTwice
  <1>11. BoundStays'
    <2>1. /\ ~isSecure \/ ~Answered =>
               /\ \A q \in On(requests) : q.kind # "header"
               /\ \A d \in Arriving : d.kind \notin {"root", "features"}
          /\ state \in {"OPENING", "NEGOTIATING", "STARTTLS_1", "STARTTLS_2"} => Answered
          /\ (\E q \in Asked : q.kind = "willBind") => isSecure
      BY <1>1, <1>2 DEF NegotiationInv, TurnInv, BoundStays
    <2>2. ~isSecure \/ ~Answered => \A d \in Arriving' : d.kind \notin {"root", "features"}
      BY <1>3, <1>7, <2>1
    <2> QED
      BY <1>1, <1>7, <2>1, <2>2 DEF BoundStays
  <1>12. BindsAuthenticated'
    BY <1>1, <1>7, <1>8 DEF NegotiationInv, TurnInv, BindsAuthenticated, Established
  <1> QED
    BY <1>7, <1>9, <1>10, <1>11, <1>12 DEF NegotiationInv, TurnInv

LEMMA SocketClosesNegotiation ==
    ASSUME Inv, InTime, Inv', SocketInv, GrantInv, NegotiationInv, SocketCloses
    PROVE  NegotiationInv'
  <1>1. /\ socket # "idle" /\ ClosesSocket
        /\ UNCHANGED <<state, isSecure, isAuthenticated, conn, granted, parser, parsed, questions,
                       heard>>
    BY DEF SocketCloses, NetworkStep, negVars, loginVars, serverVars
  <1>2. ~Down
    BY <1>1 DEF SocketInv
  <1>3. Asked' = Asked
    BY <1>1 DEF Asked
  <1> QED
    BY <1>1, <1>2, <1>3, ClosesNegotiation

LEMMA NegotiationInit == Init => NegotiationInv
  <1> SUFFICES ASSUME Init PROVE NegotiationInv
    OBVIOUS
  <1>1. ~Established /\ ~Reading(callbacks) /\ Data(callbacks) = <<>> /\ Down
    BY DEF Init, Established, Reading, Data, Down
  <1>2. Arriving = {}
    BY <1>1, OnEmpty DEF Init, Arriving, Pending, Owned
  <1>3. Queues
    BY <1>1, <1>2 DEF Init, Queues
  <1>4. Numbered
    BY <1>1 DEF Init, Numbered
  <1>5. ReadsInv
    BY <1>1 DEF ReadsInv
  <1>6. Asked = {}
    BY DEF Init, Asked
  <1>7. TurnInv
    BY <1>1, <1>6 DEF Init, TurnInv, Turns, NoTLSTwice, BoundStays, BindsAuthenticated, Granting,
                     Restarting, Announced
  <1> QED
    BY <1>3, <1>4, <1>5, <1>7 DEF NegotiationInv

LEMMA NegotiationStep ==
    ASSUME Inv, AuthenticatesOnce, Inv', SocketInv, GrantInv, NegotiationInv, InTime, [Next]_vars
    PROVE  NegotiationInv'
  <1>1. CASE UNCHANGED vars
    <2>1. UNCHANGED <<state, isSecure, isAuthenticated, parser, parsed, callbacks, wire, requests,
                      reads, socket, draining, conn, granted, questions, heard>>
      BY <1>1 DEF vars, negVars, loginVars, socketVars, trafficVars, serverVars
    <2> QED
      BY <2>1, NegotiationStutter
  <1>2. CASE Application
    BY <1>2, ApplicationNegotiation
  <1>3. CASE HandleCallback
    BY <1>3, CallbackNegotiation
  <1>4. CASE HandleParsed
    BY <1>4, ParsedNegotiation
  <1>5. CASE Delegates
    BY <1>5, DelegatesNegotiation
  <1>6. CASE Network
    BY <1>6, SocketConnectsNegotiation, SocketReadsNegotiation, ServerAnswersNegotiation DEF Network
  <1>7. CASE DidResolve
    BY <1>7, ResolvedNegotiation
  <1>8. CASE DoConnectTimeout
    BY <1>8, StoppingNegotiation
  <1>9. CASE SocketCloses
    BY <1>9, SocketClosesNegotiation
  <1>10. CASE ServerPushes
    BY <1>10, ServerPushesNegotiation
  <1> QED
    BY <1>1, <1>2, <1>3, <1>4, <1>5, <1>6, <1>7, <1>8, <1>9, <1>10 DEF Next

LEMMA AnnouncedImplies == ASSUME Inv, Announced PROVE ConnectedIsAnnounced
  BY DEF Announced, Answered, ConnectedIsAnnounced

\* A completed read is the first callback of the socket, or there is none.
LEMMA ReadCount ==
    ASSUME Inv, Queues
    PROVE  CountIn(callbacks, LAMBDA c : c.kind = "read") = IF Reading(callbacks) THEN 1 ELSE 0
  <1> DEFINE R == {i \in DOMAIN callbacks : callbacks[i].kind = "read"}
  <1>1. CountIn(callbacks, LAMBDA c : c.kind = "read") = Cardinality(R)
    BY DEF CountIn
  <1>2. callbacks \in Seq(CallbackSet)
    BY CallbacksType
  <1>3. \A i \in R : i = 1
    BY DEF Queues
  <1>4. CASE Reading(callbacks)
    <2>1. 1 \in DOMAIN callbacks
      BY <1>2, <1>4 DEF Reading
    <2>2. R = {1}
      BY <1>3, <1>4, <2>1 DEF Reading
    <2> QED
      BY <1>1, <1>4, <2>2, FS_Singleton
  <1>5. CASE ~Reading(callbacks)
    <2>1. 1 \in DOMAIN callbacks => callbacks # <<>>
      BY <1>2
    <2>2. R = {}
      BY <1>3, <1>5, <2>1 DEF Reading
    <2> QED
      BY <1>1, <1>5, <2>2, FS_EmptySet
  <1> QED
    BY <1>4, <1>5

\* So is the end of a chunk that the parser in use has read, if it has read anything.
LEMMA EndCount ==
    ASSUME Inv, Own(parsed, parser) = {} \/ OneEnd(parsed, parser)
    PROVE  CountIn(parsed, LAMBDA p : p.parser = parser /\ p.elem = ChunkEnd)
             = IF Own(parsed, parser) = {} THEN 0 ELSE 1
  <1> DEFINE E == {i \in DOMAIN parsed : parsed[i].parser = parser /\ parsed[i].elem = ChunkEnd}
  <1>1. CountIn(parsed, LAMBDA p : p.parser = parser /\ p.elem = ChunkEnd) = Cardinality(E)
    BY DEF CountIn
  <1>2. E \subseteq Own(parsed, parser)
    BY DEF Own
  <1>3. CASE Own(parsed, parser) = {}
    <2>1. E = {}
      BY <1>2, <1>3
    <2> QED
      BY <1>1, <1>3, <2>1, FS_EmptySet
  <1>4. CASE Own(parsed, parser) # {}
    <2>1. OneEnd(parsed, parser) /\ ChunkEnd.kind = "chunkEnd"
      BY <1>4 DEF ChunkEnd, Elem
    <2>2. Len(parsed) \in E
      BY <2>1 DEF OneEnd, Own
    <2>3. \A i \in E : i = Len(parsed)
      BY <1>2, <2>1 DEF OneEnd
    <2>4. E = {Len(parsed)}
      BY <2>2, <2>3
    <2> QED
      BY <1>1, <1>4, <2>4, FS_Singleton
  <1> QED
    BY <1>3, <1>4

LEMMA OneReaderImplies == ASSUME Inv, NegotiationInv PROVE OneReader
  <1> SUFFICES ASSUME Usable, Established
               PROVE  IF state = "STARTTLS_2"
                      THEN reads = 0 /\ CountIn(callbacks, LAMBDA c : c.kind = "read") = 0
                      ELSE Readers = 1
    BY DEF OneReader
  <1> DEFINE callbackReads == CountIn(callbacks, LAMBDA c : c.kind = "read")
             parserReads == CountIn(parsed, LAMBDA p : p.parser = parser /\ p.elem = ChunkEnd)
  <1>1. callbackReads = IF Reading(callbacks) THEN 1 ELSE 0
    BY ReadCount DEF NegotiationInv
  <1>2. /\ reads \in Nat /\ reads <= 1 /\ (Reading(callbacks) => reads = 0)
        /\ ~isSecure /\ Own(parsed, parser) # {} =>
             reads = 0 /\ ~Reading(callbacks) /\ OneEnd(parsed, parser)
        /\ state = "STARTTLS_2" => reads = 0 /\ ~Reading(callbacks)
        /\ state # "STARTTLS_2" =>
             reads = 1 \/ Reading(callbacks) \/ (~isSecure /\ Own(parsed, parser) # {})
    BY DEF NegotiationInv, ReadsInv, Inv, TypeOK, TrafficTypes
  <1>3. ~isSecure => parserReads = IF Own(parsed, parser) = {} THEN 0 ELSE 1
    BY <1>2, EndCount
  <1>4. Readers = reads + callbackReads + IF isSecure THEN 0 ELSE parserReads
    BY DEF Readers
  <1> HIDE DEF callbackReads, parserReads
  <1>5. CASE state = "STARTTLS_2"
    BY <1>1, <1>2, <1>5 DEF callbackReads
  <1>6. CASE state # "STARTTLS_2"
    <2>1. CASE isSecure
      <3>1. Readers = reads + callbackReads + 0
        BY <1>4, <2>1
      <3> QED
        BY <1>1, <1>2, <1>6, <2>1, <3>1
    <2>2. CASE ~isSecure
      <3>1. Readers = reads + callbackReads + parserReads
        BY <1>4, <2>2
      <3> QED
        BY <1>1, <1>2, <1>3, <1>6, <2>2, <3>1
    <2> QED
      BY <2>1, <2>2
  <1> QED
    BY <1>5, <1>6

\* What is under way between stream and server keeps to NegotiationInv.
THEOREM NegotiationInvariance ==
    ASSUME InTime, AuthenticatesOnce
    PROVE  Spec => [](Inv /\ NegotiationInv)
  <1> NoLateEnd
    BY DEF NoLateEnd, InTime
  <1>1. Init => SocketInv /\ GrantInv /\ NegotiationInv
    BY SocketGrantInit, NegotiationInit
  <1>2. Inv /\ SocketInv /\ GrantInv /\ NegotiationInv /\ [Next]_vars
          => SocketInv' /\ GrantInv' /\ NegotiationInv'
    <2> SUFFICES ASSUME Inv, SocketInv, GrantInv, NegotiationInv, [Next]_vars
                 PROVE  SocketInv' /\ GrantInv' /\ NegotiationInv'
      OBVIOUS
    <2>1. Inv'
      BY NextInv, StutterInv
    <2>2. SocketInv' /\ GrantInv'
      BY SocketGrantStep
    <2>3. NegotiationInv'
      BY <2>1, NegotiationStep
    <2> QED
      BY <2>2, <2>3
  <1> QED
    BY <1>1, <1>2, Invariance, PTL DEF Spec

\* On a stream that is negotiating or connected exactly one read is queued, completed, or with
\* the parser whose end of chunk queues the next; none while delegates choose the TLS settings.
THEOREM OneReaderCorrect == ASSUME InTime, AuthenticatesOnce PROVE Spec => []OneReader
  <1>1. Inv /\ NegotiationInv => OneReader
    BY OneReaderImplies
  <1> QED
    BY <1>1, NegotiationInvariance, PTL

\* A stream that is ready for use has told its delegates so: that it is connected, or how its
\* authentication ended.
THEOREM AnnouncedCorrect == ASSUME InTime, AuthenticatesOnce PROVE Spec => []ConnectedIsAnnounced
  <1>1. Inv /\ NegotiationInv => ConnectedIsAnnounced
    BY AnnouncedImplies DEF NegotiationInv, TurnInv
  <1> QED
    BY <1>1, NegotiationInvariance, PTL

=============================================================================
