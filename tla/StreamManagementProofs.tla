------------------------ MODULE StreamManagementProofs ------------------------
(* What holds of StreamManagement for every value of its constants: the types, *)
(* the offsets and timers of both halves, that what the client acknowledges    *)
(* the application has handled, and that there is one session at a time.       *)
EXTENDS StreamManagement, SequenceTheorems, FiniteSetTheorems, TLAPS

\* Types alone are not inductive: the server counts what the session of a <resume/> has
\* handled, so that session must exist.
Inv == TypeOK /\ SessionsKnown

-----------------------------------------------------------------------------
(* Sequences.                                                                 *)

\* A function on 1..n, n an integer, is a sequence.
LEMMA SeqOfFunction ==
    ASSUME NEW S, NEW n \in Int, NEW f \in [1..n -> S]
    PROVE  f \in Seq(S)
<1>1. CASE n \in Nat
  BY <1>1, SeqDef
<1>2. CASE n < 0
  <2>1. 1..n = 1..0
    BY <1>2
  <2>2. f \in [1..0 -> S] /\ 0 \in Nat
    BY <2>1
  <2> QED  BY <2>2, SeqDef
<1> QED  BY <1>1, <1>2

\* Replacing items of a sequence by others of the same type.
LEMMA SeqReplaced ==
    ASSUME NEW S, NEW s \in Seq(S), NEW t, DOMAIN t = DOMAIN s,
           t = [i \in DOMAIN t |-> t[i]], \A i \in DOMAIN s : t[i] \in S
    PROVE  t \in Seq(S) /\ Len(t) = Len(s)
<1>1. Len(s) \in Nat /\ DOMAIN s = 1..Len(s)
  BY LenProperties
<1>2. t \in [1..Len(s) -> S]
  BY <1>1
<1>3. t \in Seq(S)
  BY <1>1, <1>2, SeqOfFunction
<1> QED  BY <1>1, <1>3, LenProperties

LEMMA PrefixCounts ==
    ASSUME NEW n \in Nat, NEW P \in SUBSET (1..n)
    PROVE  Cardinality(P) \in 0..n
<1>1. IsFiniteSet(1..n) /\ Cardinality(1..n) = n
  BY FS_Interval
<1>2. IsFiniteSet(P) /\ Cardinality(P) <= n
  BY <1>1, FS_Subset
<1> QED  BY <1>2, FS_CardinalityType

\* What can be acknowledged of the first n stanzas is a part of them.
LEMMA KnownPrefixType ==
    ASSUME NEW s, NEW n \in Int, NEW m \in Nat, n <= m
    PROVE  KnownPrefix(s, n) \in 0..m
<1>1. {k \in 1..n : \A j \in 1..k : ~s[j].awaiting} \in SUBSET (1..m)
  OBVIOUS
<1> QED  BY <1>1, PrefixCounts DEF KnownPrefix

LEMMA HandledPrefixType ==
    ASSUME NEW S, NEW s \in Seq(S)
    PROVE  HandledPrefix(s) \in 0..Len(s)
<1>1. Len(s) \in Nat
  OBVIOUS
<1> QED  BY <1>1, PrefixCounts DEF HandledPrefix

LEMMA DropType ==
    ASSUME NEW S, NEW s \in Seq(S), NEW k \in 0..Len(s)
    PROVE  /\ Drop(s, k) \in Seq(S)
           /\ Len(Drop(s, k)) = Len(s) - k
<1>1. Len(s) \in Nat /\ \A i \in (k + 1)..Len(s) : s[i] \in S
  OBVIOUS
<1>2. k + 1 \in Int /\ Len(s) \in Int
  BY <1>1
<1>3. /\ SubSeq(s, k + 1, Len(s)) \in Seq(S)
      /\ Len(SubSeq(s, k + 1, Len(s))) = IF k + 1 <= Len(s) THEN Len(s) - (k + 1) + 1 ELSE 0
  BY <1>1, <1>2, SubSeqProperties
<1> QED  BY <1>1, <1>3 DEF Drop

LEMMA WithoutType ==
    ASSUME NEW S, NEW s \in Seq(S), NEW i \in DOMAIN s
    PROVE  Without(s, i) \in Seq(S)
<1>1. Len(s) \in Nat /\ i \in 1..Len(s) /\ \A j \in 1..Len(s) : s[j] \in S
  BY LenProperties, ElementOfSeq
<1>2. SubSeq(s, 1, i - 1) \in Seq(S)
  BY <1>1, SubSeqProperties
<1>3. SubSeq(s, i + 1, Len(s)) \in Seq(S)
  BY <1>1, SubSeqProperties
<1> QED  BY <1>2, <1>3, ConcatProperties DEF Without

-----------------------------------------------------------------------------
(* Queues of elements.                                                        *)

LEMMA ElementType ==
    ASSUME NEW name \in ElementName, NEW arg \in Nat, NEW sid \in Nat
    PROVE  Element(name, arg, sid) \in ElementSet
BY DEF Element, ElementSet

\* Queues that grow at the end keep naming sessions that exist ...
LEMMA KnownConcat ==
    ASSUME NEW q \in Seq(ElementSet), NEW e \in Seq(ElementSet), NEW n,
           AllKnown(q, n), AllKnown(e, n)
    PROVE  q \o e \in Seq(ElementSet) /\ AllKnown(q \o e, n)
<1>1. /\ q \o e \in Seq(ElementSet)
      /\ Len(q \o e) = Len(q) + Len(e)
      /\ \A i \in 1..Len(q) + Len(e) :
            (q \o e)[i] = IF i <= Len(q) THEN q[i] ELSE e[i - Len(q)]
  BY ConcatProperties
<1>2. /\ Len(q) \in Nat /\ DOMAIN q = 1..Len(q)
      /\ Len(e) \in Nat /\ DOMAIN e = 1..Len(e)
      /\ DOMAIN (q \o e) = 1..Len(q \o e)
  BY <1>1, LenProperties
<1>3. SUFFICES ASSUME NEW i \in DOMAIN (q \o e) PROVE NamesSession((q \o e)[i], n)
  BY <1>1 DEF AllKnown
<1>4. CASE i <= Len(q)
  <2>1. i \in DOMAIN q /\ (q \o e)[i] = q[i]
    BY <1>1, <1>2, <1>4
  <2> QED  BY <2>1 DEF AllKnown
<1>5. CASE i > Len(q)
  <2>1. i - Len(q) \in DOMAIN e /\ (q \o e)[i] = e[i - Len(q)]
    BY <1>1, <1>2, <1>5
  <2> QED  BY <2>1 DEF AllKnown
<1> QED  BY <1>2, <1>4, <1>5

LEMMA KnownAppend ==
    ASSUME NEW q \in Seq(ElementSet), NEW e \in ElementSet, NEW n,
           AllKnown(q, n), NamesSession(e, n)
    PROVE  Append(q, e) \in Seq(ElementSet) /\ AllKnown(Append(q, e), n)
<1>1. /\ Append(q, e) \in Seq(ElementSet) /\ Len(q) \in Nat /\ DOMAIN q = 1..Len(q)
      /\ DOMAIN Append(q, e) = 1..(Len(q) + 1)
      /\ \A i \in 1..Len(q) : Append(q, e)[i] = q[i]
      /\ Append(q, e)[Len(q) + 1] = e
  OBVIOUS
<1> QED  BY <1>1 DEF AllKnown

\* ... and so do queues that are consumed from the front.
LEMMA KnownTail ==
    ASSUME NEW q \in Seq(ElementSet), q # <<>>, NEW n, AllKnown(q, n)
    PROVE  /\ Tail(q) \in Seq(ElementSet) /\ AllKnown(Tail(q), n)
           /\ Head(q) \in ElementSet /\ NamesSession(Head(q), n)
<1>1. /\ Head(q) \in ElementSet /\ Tail(q) \in Seq(ElementSet)
      /\ Len(Tail(q)) = Len(q) - 1
      /\ \A i \in 1..Len(Tail(q)) : Tail(q)[i] = q[i + 1]
  BY HeadTailProperties
<1>2. Len(q) \in Nat \ {0} /\ DOMAIN q = 1..Len(q) /\ DOMAIN Tail(q) = 1..Len(Tail(q))
  BY <1>1, LenProperties, EmptySeq
<1>3. Head(q) = q[1]
  OBVIOUS
<1> QED  BY <1>1, <1>2, <1>3 DEF AllKnown

\* More sessions: what was known stays known.
LEMMA KnownGrows ==
    ASSUME NEW q, NEW n \in Nat, NEW m \in Nat, n <= m, AllKnown(q, n)
    PROVE  AllKnown(q, m)
<1>1. \A e : NamesSession(e, n) => NamesSession(e, m)
  BY DEF NamesSession
<1> QED  BY <1>1 DEF AllKnown

LEMMA KnownEmpty == \A n : <<>> \in Seq(ElementSet) /\ AllKnown(<<>>, n)
BY DEF AllKnown

\* An element that names no session, at the end of a queue.
LEMMA PlainElement ==
    ASSUME NEW name \in ElementName \ {"enabled", "sendResume", "resume"},
           NEW arg \in Nat, NEW sid \in Nat, NEW n
    PROVE  Element(name, arg, sid) \in ElementSet /\ NamesSession(Element(name, arg, sid), n)
<1>1. Element(name, arg, sid).name \notin {"enabled", "sendResume", "resume"}
  BY DEF Element
<1> QED  BY <1>1, ElementType DEF NamesSession

\* The callback that runs, and the queue without it.
LEMMA NextIsType ==
    ASSUME Inv, NEW name, Next_is(name)
    PROVE  /\ Tail(moduleQ) \in Seq(ElementSet) /\ AllKnown(Tail(moduleQ), Len(sessions))
           /\ Head(moduleQ).arg \in Nat /\ Head(moduleQ).sid \in Nat
           /\ NamesSession(Head(moduleQ), Len(sessions))
           /\ Head(moduleQ).name = name
<1>1. moduleQ \in Seq(ElementSet) /\ moduleQ # <<>> /\ AllKnown(moduleQ, Len(sessions))
  BY DEF Inv, TypeOK, StreamTypeOK, SessionsKnown, Next_is
<1> QED  BY <1>1, KnownTail DEF Next_is, ElementSet

\* The element the server reads, and the wire without it.
LEMMA TakeType ==
    ASSUME Inv, NEW name, Take(name)
    PROVE  /\ c2s' \in Seq(ElementSet) /\ AllKnown(c2s', Len(sessions))
           /\ Head(c2s).arg \in Nat /\ Head(c2s).sid \in Nat
           /\ NamesSession(Head(c2s), Len(sessions))
           /\ Head(c2s).name = name
<1>1. c2s \in Seq(ElementSet) /\ c2s # <<>> /\ AllKnown(c2s, Len(sessions))
  BY DEF Inv, TypeOK, StreamTypeOK, SessionsKnown, Take
<1> QED  BY <1>1, KnownTail DEF Take, ElementSet

LEMMA WrittenType ==
    ASSUME Inv, NEW name \in {"r", "enable"}
    PROVE  Written(name, 0) \in Seq(ElementSet) /\ AllKnown(Written(name, 0), Len(sessions))
<1>1. c2s \in Seq(ElementSet) /\ AllKnown(c2s, Len(sessions))
  BY DEF Inv, TypeOK, StreamTypeOK, SessionsKnown
<1>2. name \in ElementName \ {"enabled", "sendResume", "resume"}
  BY DEF ElementName
<1>3. /\ Element(name, 0, 0) \in ElementSet
      /\ NamesSession(Element(name, 0, 0), Len(sessions))
  BY <1>2, PlainElement
<1> QED  BY <1>1, <1>3, KnownAppend DEF Written

LEMMA ArrivesType ==
    ASSUME Inv, NEW n \in Nat, Len(sessions) <= n,
           NEW e \in Seq(ElementSet), AllKnown(e, n),
           NEW t \in Seq(ElementSet), AllKnown(t, n), Arrives(e, t)
    PROVE  /\ moduleQ' \in Seq(ElementSet) /\ AllKnown(moduleQ', n)
           /\ willQ' \in Seq(ElementSet)
<1>1. moduleQ \in Seq(ElementSet) /\ willQ \in Seq(ElementSet) /\ Len(sessions) \in Nat
  BY LenProperties DEF Inv, TypeOK, StreamTypeOK, ServerTypeOK
<1>2. AllKnown(moduleQ, n)
  BY <1>1, KnownGrows DEF Inv, SessionsKnown
<1>3. moduleQ \o e \in Seq(ElementSet) /\ AllKnown(moduleQ \o e, n)
  BY <1>1, <1>2, KnownConcat
<1>4. moduleQ \o e \o t \in Seq(ElementSet) /\ AllKnown(moduleQ \o e \o t, n)
  BY <1>3, KnownConcat
<1>5. willQ \o t \in Seq(ElementSet)
  BY <1>1, ConcatProperties
<1> QED  BY <1>1, <1>2, <1>3, <1>4, <1>5 DEF Arrives

\* One callback, or one stanza.
LEMMA ArrivesOne ==
    ASSUME Inv, NEW n \in Nat, Len(sessions) <= n,
           NEW e \in ElementSet, NamesSession(e, n),
           Arrives(<<e>>, <<>>) \/ Arrives(<<>>, <<e>>)
    PROVE  /\ moduleQ' \in Seq(ElementSet) /\ AllKnown(moduleQ', n)
           /\ willQ' \in Seq(ElementSet)
<1> DEFINE q == <<e>>
           none == <<>>
<1>1. q \in Seq(ElementSet) /\ AllKnown(q, n)
  BY DEF AllKnown
<1>2. none \in Seq(ElementSet) /\ AllKnown(none, n)
  BY KnownEmpty
<1>3. Arrives(q, none) \/ Arrives(none, q)
  OBVIOUS
<1> HIDE DEF q, none
<1>4. CASE Arrives(q, none)
  BY <1>1, <1>2, <1>4, ArrivesType
<1>5. CASE Arrives(none, q)
  BY <1>1, <1>2, <1>5, ArrivesType
<1> QED  BY <1>3, <1>4, <1>5

-----------------------------------------------------------------------------
(* The operators the handlers share.                                          *)

LEMMA StoreOutgoingType ==
    ASSUME Inv, NEW hs \in Nat, NEW pending \in Seq(OutgoingItem)
    PROVE  /\ StoreOutgoing(hs, pending) \in Storage
           /\ StoreOutgoing(hs, pending).id = store.id
BY DEF StoreOutgoing, Inv, TypeOK, FlagTypeOK, InTypeOK, Storage

LEMMA StoreHandledType ==
    ASSUME Inv, NEW hc \in Nat
    PROVE  StoreHandled(hc) \in Storage /\ StoreHandled(hc).id = store.id
BY DEF StoreHandled, Inv, TypeOK, FlagTypeOK, OutTypeOK, Storage

LEMMA RequestAckType ==
    ASSUME Inv, NEW u \in Seq(OutgoingItem), RequestAck(u)
    PROVE  /\ c2s' \in Seq(ElementSet) /\ AllKnown(c2s', Len(sessions))
           /\ lastRequestOffset' \in {Len(u), lastRequestOffset}
           /\ lastRequestOffset' \in Nat /\ autoRequestTimer' \in BOOLEAN
<1>1. Written("r", 0) \in Seq(ElementSet) /\ AllKnown(Written("r", 0), Len(sessions))
  BY WrittenType
<1>2. /\ c2s \in Seq(ElementSet) /\ AllKnown(c2s, Len(sessions)) /\ Len(u) \in Nat
      /\ lastRequestOffset \in Nat
  BY DEF Inv, TypeOK, StreamTypeOK, OutTypeOK, SessionsKnown
<1> QED  BY <1>1, <1>2 DEF RequestAck

LEMMA MaybeRequestAckType ==
    ASSUME Inv, NEW u \in Seq(OutgoingItem), MaybeRequestAck(u)
    PROVE  /\ c2s' \in Seq(ElementSet) /\ AllKnown(c2s', Len(sessions))
           /\ lastRequestOffset' \in {Len(u), lastRequestOffset}
           /\ lastRequestOffset' \in Nat /\ autoRequestTimer' \in BOOLEAN
<1>1. CASE RequestAck(u)
  BY <1>1, RequestAckType
<1>2. CASE /\ autoRequestTimer' \in BOOLEAN
           /\ UNCHANGED <<c2s, lastRequestOffset>>
  BY <1>2 DEF Inv, TypeOK, StreamTypeOK, OutTypeOK, SessionsKnown
<1> QED  BY <1>1, <1>2, Zenon DEF MaybeRequestAck

LEMMA ReportType ==
    ASSUME Inv, NEW s \in Seq(OutgoingItem), NEW k \in Int, k <= Len(s), Report(s, k)
    PROVE  reported' \subseteq Nat /\ reports' \in Nat
<1>1. Len(s) \in Nat /\ \A i \in 1..Len(s) : s[i].id \in Nat
  <2>1. \A i \in 1..Len(s) : s[i] \in OutgoingItem
    BY ElementOfSeq
  <2> QED  BY <2>1 DEF OutgoingItem
<1>2. IdsOf(s, k) \subseteq Nat
  BY <1>1 DEF IdsOf
<1>3. {i \in 1..k : s[i].id # 0} \in SUBSET (1..Len(s))
  BY <1>1
<1>4. Cardinality({i \in 1..k : s[i].id # 0}) \in Nat
  BY <1>1, <1>3, PrefixCounts
<1>5. reported \subseteq Nat /\ reports \in Nat
  BY DEF Inv, TypeOK, HistTypeOK
<1>6. reported' = reported \cup IdsOf(s, k)
  BY DEF Report
<1>7. reports' = reports + Cardinality({i \in 1..k : s[i].id # 0})
  BY DEF Report
<1>8. reported' \subseteq Nat
  BY <1>2, <1>5, <1>6
<1>9. reports' \in Nat
  BY <1>4, <1>5, <1>7
<1> QED  BY <1>8, <1>9

\* Processing an ack: types are kept, and lastRequestOffset stays among the stanzas left.
LEMMA ProcessAckType ==
    ASSUME Inv, NEW h \in Nat, ProcessAck(h)
    PROVE  /\ unackedByServer' \in Seq(OutgoingItem)
           /\ lastRequestOffset' \in Nat /\ lastHandledByServer' \in Nat
           /\ store' \in Storage /\ store'.id = store.id
           /\ reported' \subseteq Nat /\ reports' \in Nat
           /\ OffsetInRange => OffsetInRange'
<1>1. /\ unackedByServer \in Seq(OutgoingItem) /\ Len(unackedByServer) \in Nat
      /\ lastRequestOffset \in Nat /\ lastHandledByServer \in Nat /\ store \in Storage
      /\ reported \subseteq Nat /\ reports \in Nat
      /\ Modulus \in Nat \ {0}
  BY LenProperties, BoundsAssumption DEF Inv, TypeOK, OutTypeOK, HistTypeOK
<1> DEFINE diff      == Smaller(AckDiff(h), Len(unackedByServer))
           processed == KnownPrefix(unackedByServer, diff)
           newest    == IF processed = diff THEN h
                        ELSE (lastHandledByServer + processed) % Modulus
           rest      == Drop(unackedByServer, processed)
<1>2. diff \in Int /\ diff <= Len(unackedByServer)
  BY <1>1 DEF AckDiff, Smaller
<1>3. processed \in 0..Len(unackedByServer)
  BY <1>1, <1>2, KnownPrefixType
<1> HIDE DEF diff, processed
<1>4. newest \in Nat
  BY <1>1, <1>3
<1>5. rest \in Seq(OutgoingItem) /\ Len(rest) = Len(unackedByServer) - processed
  BY <1>1, <1>3, DropType
<1>6. OffsetAfter(processed) \in Nat
  BY <1>1, <1>3 DEF OffsetAfter
<1>7. OffsetInRange => OffsetAfter(processed) <= Len(rest)
  BY <1>1, <1>3, <1>5 DEF OffsetAfter, OffsetInRange
<1> HIDE DEF newest, rest
<1>8. CASE /\ unackedByServer' = rest /\ lastRequestOffset' = OffsetAfter(processed)
           /\ lastHandledByServer' = newest /\ store' = StoreOutgoing(newest, rest)
           /\ Report(unackedByServer, processed)
  <2>1. StoreOutgoing(newest, rest) \in Storage /\ StoreOutgoing(newest, rest).id = store.id
    BY <1>4, <1>5, StoreOutgoingType
  <2>2. reported' \subseteq Nat /\ reports' \in Nat
    BY <1>1, <1>3, <1>8, ReportType
  <2> QED  BY <1>4, <1>5, <1>6, <1>7, <1>8, <2>1, <2>2 DEF OffsetInRange
<1>9. CASE UNCHANGED <<unackedByServer, lastRequestOffset, lastHandledByServer, store,
                       reported, reports>>
  BY <1>1, <1>9 DEF OffsetInRange
<1> QED  BY <1>8, <1>9 DEF ProcessAck, diff, processed, newest, rest

LEMMA CountHandledType ==
    ASSUME Inv, NEW u \in Seq(IncomingItem), NEW offset, CountHandled(u, offset)
    PROVE  /\ unackedByClient' \in Seq(IncomingItem)
           /\ lastHandledByClient' \in Nat /\ lastAckOffset' \in Nat
           /\ store' \in Storage /\ store'.id = store.id
<1> DEFINE k  == HandledPrefix(u)
           hc == (lastHandledByClient + k) % Modulus
<1>1. /\ lastHandledByClient \in Nat /\ lastAckOffset \in Nat /\ store \in Storage
      /\ Modulus \in Nat \ {0}
  BY BoundsAssumption DEF Inv, TypeOK, InTypeOK
<1>2. k \in 0..Len(u) /\ Len(u) \in Nat
  BY HandledPrefixType, LenProperties
<1> HIDE DEF k
<1>3. hc \in Nat
  BY <1>1, <1>2
<1> HIDE DEF hc
<1>4. Drop(u, k) \in Seq(IncomingItem)
  BY <1>2, DropType
<1>5. StoreHandled(hc) \in Storage /\ StoreHandled(hc).id = store.id
  BY <1>3, StoreHandledType
<1> QED  BY <1>1, <1>2, <1>3, <1>4, <1>5 DEF CountHandled, k, hc

LEMMA SendAckType ==
    ASSUME Inv, NEW u \in Seq(IncomingItem), SendAck(u)
    PROVE  /\ unackedByClient' \in Seq(IncomingItem)
           /\ lastHandledByClient' \in Nat /\ lastAckOffset' \in Nat
           /\ store' \in Storage /\ store'.id = store.id
           /\ autoAckTimer' \in BOOLEAN /\ ackResponseTimer' \in BOOLEAN
<1>1. \E offset \in {"reset", "keep"} : CountHandled(u, offset)
  BY DEF SendAck
<1>2. autoAckTimer' \in BOOLEAN /\ ackResponseTimer' \in BOOLEAN
  BY DEF SendAck
<1> QED  BY <1>1, <1>2, CountHandledType

LEMMA MaybeSendAckType ==
    ASSUME Inv, NEW u \in Seq(IncomingItem), MaybeSendAck(u)
    PROVE  /\ unackedByClient' \in Seq(IncomingItem)
           /\ lastHandledByClient' \in Nat /\ lastAckOffset' \in Nat
           /\ store' \in Storage /\ store'.id = store.id
           /\ autoAckTimer' \in BOOLEAN /\ ackResponseTimer' \in BOOLEAN
<1>1. CASE SendAck(u)
  BY <1>1, SendAckType
<1>2. CASE /\ CountHandled(u, "keep")
           /\ autoAckTimer' \in BOOLEAN /\ UNCHANGED ackResponseTimer
  BY <1>2, CountHandledType DEF Inv, TypeOK, InTypeOK
<1> QED  BY <1>1, <1>2, Zenon DEF MaybeSendAck

-----------------------------------------------------------------------------
(* Type correctness, one part of the state at a time.                         *)

\* The flags.
LEMMA FlagFrame ==
    ASSUME \/ HandleDidSend \/ HandleAck \/ HandleStanza \/ HandleFiltered \/ HandleRequest
           \/ HandleSendResume \/ Drain \/ Delegates \/ Timers \/ Server \/ Connect
           \/ StartCustomBinding \/ StartStandardBinding \/ ContinueReceive \/ Disconnect
           \/ SendStanza \/ CallRequestAck
    PROVE  UNCHANGED flagVars
BY Zenon DEF HandleDidSend, HandleAck, HandleStanza, HandleFiltered, HandleRequest, HandleSendResume,
    Drain, DrainAck, DrainBlocked, DrainDone, Delegates, AnswerStanzaId, DelegateDecides,
    AnswerHandled, MarkHandledStanzaId, Timers, AutoRequestTimerFires, CallSendAck, Server,
    ServerHandlesStanza, ServerHandlesEnable, ServerHandlesRequest, ServerHandlesResume,
    ServerHandlesClose, ServerSendsAck, ServerSendsRequest, ServerSendsStanza, ServerExpires,
    Connect, StartCustomBinding, StartStandardBinding, ContinueReceive, Disconnect, SendStanza,
    CallRequestAck, moduleVars

LEMMA FlagType == Inv /\ Next => FlagTypeOK'
<1> SUFFICES ASSUME Inv, Next PROVE FlagTypeOK'
  OBVIOUS
<1>1. FlagTypeOK
  BY DEF Inv, TypeOK
<1>2. CASE UNCHANGED flagVars
  BY <1>1, <1>2 DEF FlagTypeOK, flagVars
<1>3. CASE HandleDidSendEnable
  BY <1>1, <1>3 DEF FlagTypeOK, HandleDidSendEnable
<1>4. CASE HandleEnabled
  BY <1>1, <1>4 DEF FlagTypeOK, HandleEnabled
<1>5. CASE HandleFailed
  BY <1>1, <1>5 DEF FlagTypeOK, HandleFailed
<1>6. CASE HandleResumed \/ HandleResumeFailed \/ HandleClosing \/ HandleDidDisconnect
  BY <1>1, <1>6 DEF FlagTypeOK, HandleResumed, HandleResumeFailed, HandleClosing,
     HandleDidDisconnect
<1>7. CASE Enable \/ Crash
  BY <1>1, <1>7 DEF FlagTypeOK, Enable, Crash
<1> QED  BY <1>2, <1>3, <1>4, <1>5, <1>6, <1>7, FlagFrame
     DEF Next, HandleCallback, Stream, Application

\* The outgoing half, with the offset that must stay in range.
LEMMA OutFrame ==
    ASSUME \/ HandleStanza \/ HandleFiltered \/ HandleRequest \/ HandleDidSendEnable
           \/ HandleClosing \/ DelegateDecides \/ AnswerHandled \/ MarkHandledStanzaId
           \/ CallSendAck \/ Server \/ Connect \/ StartCustomBinding \/ StartStandardBinding
           \/ ContinueReceive \/ Disconnect \/ SendStanza
    PROVE  UNCHANGED outVars
BY Zenon DEF HandleStanza, HandleFiltered, HandleRequest, HandleDidSendEnable, HandleClosing,
    DelegateDecides, AnswerHandled, MarkHandledStanzaId, CallSendAck, Server,
    ServerHandlesStanza, ServerHandlesEnable, ServerHandlesRequest, ServerHandlesResume,
    ServerHandlesClose, ServerSendsAck, ServerSendsRequest, ServerSendsStanza, ServerExpires,
    Connect, StartCustomBinding, StartStandardBinding, ContinueReceive, Disconnect, SendStanza,
    moduleVars

LEMMA OutType == Inv /\ Next => OutTypeOK' /\ (OffsetInRange => OffsetInRange')
<1> DEFINE Goal == OutTypeOK' /\ (OffsetInRange => OffsetInRange')
<1> SUFFICES ASSUME Inv, Next PROVE Goal
  OBVIOUS
<1>1. /\ OutTypeOK /\ store \in Storage
      /\ unackedByServer \in Seq(OutgoingItem) /\ Len(unackedByServer) \in Nat
      /\ <<>> \in Seq(OutgoingItem) /\ <<>> \in Seq(Nat) /\ Len(<<>>) = 0
  BY LenProperties, EmptySeq DEF Inv, TypeOK, OutTypeOK
<1>2. CASE UNCHANGED outVars
  BY <1>1, <1>2 DEF OutTypeOK, OffsetInRange, outVars
<1>3. CASE HandleDidSend
  <2> DEFINE n == Head(moduleQ).arg
             x == IF AsyncIds THEN Outgoing(n, 0, TRUE) ELSE Outgoing(n, StanzaId(n), FALSE)
  <2>1. n \in Nat
    BY <1>3, NextIsType DEF HandleDidSend
  <2>2. x \in OutgoingItem
    BY <2>1 DEF Outgoing, OutgoingItem, StanzaId
  <2> HIDE DEF x
  <2>3. /\ AddPending(x) \in Seq(OutgoingItem)
        /\ Len(AddPending(x)) = Len(unackedByServer) + 1
    BY <1>1, <2>2 DEF AddPending
  <2>4. CASE /\ unackedByServer' = AddPending(x)
             /\ idQueries' = IF AsyncIds THEN idQueries \cup {n} ELSE idQueries
             /\ MaybeRequestAck(AddPending(x))
    <3>1. /\ lastRequestOffset' \in Nat /\ autoRequestTimer' \in BOOLEAN
          /\ lastRequestOffset' \in {Len(AddPending(x)), lastRequestOffset}
      BY <2>3, <2>4, MaybeRequestAckType
    <3>2. UNCHANGED <<lastHandledByServer, prevUnacked, unprocessedAcks, draining>>
      BY <1>3 DEF HandleDidSend
    <3>3. idQueries' \subseteq Nat
      BY <1>1, <2>1, <2>4 DEF OutTypeOK
    <3>4. OutTypeOK'
      BY <1>1, <2>3, <2>4, <3>1, <3>2, <3>3 DEF OutTypeOK
    <3>5. OffsetInRange => OffsetInRange'
      BY <1>1, <2>3, <2>4, <3>1 DEF OffsetInRange, OutTypeOK
    <3> QED  BY <3>4, <3>5
  <2>5. CASE UNCHANGED <<unackedByServer, idQueries, lastRequestOffset, autoRequestTimer>>
    BY <1>1, <1>3, <2>5 DEF HandleDidSend, OutTypeOK, OffsetInRange
  <2> QED  BY <1>3, <2>4, <2>5 DEF HandleDidSend, x
<1>4. CASE HandleAck
  <2>1. Head(moduleQ).arg \in Nat
    BY <1>4, NextIsType DEF HandleAck
  <2>2. unprocessedAcks' \in Seq(Nat)
    BY <1>1, <1>4, <2>1 DEF HandleAck, OutTypeOK
  <2> QED  BY <1>1, <1>4, <2>1, <2>2, ProcessAckType DEF HandleAck, OutTypeOK
<1>5. CASE DrainAck
  <2>1. Head(unprocessedAcks) \in Nat /\ unprocessedAcks' \in Seq(Nat)
    BY <1>1, <1>5, HeadTailProperties DEF DrainAck, OutTypeOK
  <2> QED  BY <1>1, <1>5, <2>1, ProcessAckType DEF DrainAck, OutTypeOK
<1>6. CASE DrainBlocked
  <2>1. Head(unprocessedAcks) \in Nat
    BY <1>1, <1>6, HeadTailProperties DEF DrainBlocked, OutTypeOK
  <2>2. CASE ProcessAck(Head(unprocessedAcks))
    BY <1>1, <1>6, <2>1, <2>2, ProcessAckType DEF DrainBlocked, OutTypeOK
  <2>3. CASE UNCHANGED <<unackedByServer, lastRequestOffset, lastHandledByServer>>
    BY <1>1, <1>6, <2>3 DEF DrainBlocked, OutTypeOK, OffsetInRange
  <2> QED  BY <1>6, <2>2, <2>3 DEF DrainBlocked
<1>7. CASE DrainDone
  BY <1>1, <1>7 DEF DrainDone, OutTypeOK, OffsetInRange
<1>8. CASE AnswerStanzaId
  <2>1. PICK n \in idQueries :
           /\ idQueries' = idQueries \ {n}
           /\ unackedByServer' =
                 [i \in DOMAIN unackedByServer |->
                     IF unackedByServer[i].n = n THEN Outgoing(n, StanzaId(n), FALSE)
                     ELSE unackedByServer[i]]
    BY <1>8 DEF AnswerStanzaId
  <2>2. Outgoing(n, StanzaId(n), FALSE) \in OutgoingItem
    BY <1>1 DEF Outgoing, OutgoingItem, StanzaId, OutTypeOK
  <2>3. \A i \in DOMAIN unackedByServer : unackedByServer[i] \in OutgoingItem
    BY <1>1
  <2> DEFINE t == unackedByServer'
  <2>4. DOMAIN t = DOMAIN unackedByServer /\ t = [i \in DOMAIN t |-> t[i]]
    BY <2>1
  <2>5. \A i \in DOMAIN unackedByServer : t[i] \in OutgoingItem
    BY <2>1, <2>2, <2>3
  <2>6. t \in Seq(OutgoingItem) /\ Len(t) = Len(unackedByServer)
    BY <1>1, <2>4, <2>5, SeqReplaced
  <2> QED  BY <1>1, <1>8, <2>1, <2>6 DEF AnswerStanzaId, OutTypeOK, OffsetInRange
<1>9. CASE AutoRequestTimerFires \/ CallRequestAck
  <2>1. RequestAck(unackedByServer)
    BY <1>9 DEF AutoRequestTimerFires, CallRequestAck
  <2>2. /\ lastRequestOffset' \in Nat /\ autoRequestTimer' \in BOOLEAN
        /\ lastRequestOffset' \in {Len(unackedByServer), lastRequestOffset}
    BY <1>1, <2>1, RequestAckType
  <2>3. UNCHANGED <<lastHandledByServer, unackedByServer, prevUnacked, unprocessedAcks,
                    draining, idQueries>>
    BY <1>9 DEF AutoRequestTimerFires, CallRequestAck
  <2> QED  BY <1>1, <2>2, <2>3 DEF OutTypeOK, OffsetInRange
<1>10. CASE HandleEnabled \/ HandleFailed \/ HandleResumeFailed \/ HandleDidDisconnect
  <2>1. UNCHANGED <<unackedByServer, lastRequestOffset, draining, idQueries>>
    BY <1>10 DEF HandleEnabled, HandleFailed, HandleResumeFailed, HandleDidDisconnect
  <2>2. lastHandledByServer' \in {lastHandledByServer, 0}
    BY <1>10 DEF HandleEnabled, HandleFailed, HandleResumeFailed, HandleDidDisconnect
  <2>3. /\ unprocessedAcks' \in {unprocessedAcks, <<>>}
        /\ prevUnacked' \in {prevUnacked, <<>>}
        /\ autoRequestTimer' \in {autoRequestTimer, FALSE}
    BY <1>10 DEF HandleEnabled, HandleFailed, HandleResumeFailed, HandleDidDisconnect
  <2>4. OutTypeOK'
    <3>1. /\ unackedByServer' \in Seq(OutgoingItem) /\ lastRequestOffset' \in Nat
          /\ draining' \in {"idle", "first", "again"} /\ idQueries' \subseteq Nat
      BY <1>1, <2>1 DEF OutTypeOK
    <3>2. lastHandledByServer' \in Nat
      BY <1>1, <2>2 DEF OutTypeOK
    <3>3. unprocessedAcks' \in Seq(Nat) /\ prevUnacked' \in Seq(OutgoingItem)
      BY <1>1, <2>3 DEF OutTypeOK
    <3>4. autoRequestTimer' \in BOOLEAN
      BY <1>1, <2>3 DEF OutTypeOK
    <3> QED  BY <3>1, <3>2, <3>3, <3>4 DEF OutTypeOK
  <2>5. OffsetInRange => OffsetInRange'
    BY <2>1 DEF OffsetInRange
  <2> QED  BY <2>4, <2>5
<1>11. CASE HandleSendResume
  <2>1. store.hs \in Nat /\ store.pending \in Seq(OutgoingItem)
    BY <1>1 DEF Storage
  <2> QED  BY <1>1, <1>11, <2>1 DEF HandleSendResume, RestoredCounts, Cleanup, OutTypeOK,
              OffsetInRange
<1>12. CASE HandleResumed
  <2>1. Head(moduleQ).arg \in Nat
    BY <1>12, NextIsType DEF HandleResumed
  <2> QED  BY <1>1, <1>12, <2>1 DEF HandleResumed, OutTypeOK, OffsetInRange
<1>13. CASE Enable
  BY <1>1, <1>13 DEF Enable, Cleanup, OutTypeOK, OffsetInRange
<1>14. CASE Crash
  <2>1. /\ unackedByServer' = <<>> /\ lastRequestOffset' = 0 /\ lastHandledByServer' = 0
        /\ prevUnacked' = <<>> /\ unprocessedAcks' = <<>> /\ draining' = "idle"
        /\ autoRequestTimer' = FALSE /\ idQueries' = {}
    BY <1>14 DEF Crash, Cleanup
  <2>2. OutTypeOK'
    BY <1>1, <2>1 DEF OutTypeOK
  <2>3. OffsetInRange'
    BY <1>1, <2>1 DEF OffsetInRange
  <2> QED  BY <2>2, <2>3
<1> QED
  BY <1>2, <1>3, <1>4, <1>5, <1>6, <1>7, <1>8, <1>9, <1>10, <1>11, <1>12, <1>13, <1>14, OutFrame
     DEF Next, HandleCallback, Drain, Delegates, Timers, Stream, Application

\* The incoming half.
LEMMA InFrame ==
    ASSUME \/ HandleDidSend \/ HandleAck \/ HandleDidSendEnable \/ HandleFailed \/ HandleResumed
           \/ HandleResumeFailed \/ HandleClosing \/ Drain \/ AnswerStanzaId
           \/ AutoRequestTimerFires \/ Server \/ Connect \/ StartCustomBinding
           \/ StartStandardBinding \/ ContinueReceive \/ Disconnect \/ SendStanza
           \/ CallRequestAck
    PROVE  UNCHANGED inVars
BY DEF HandleDidSend, HandleAck, HandleDidSendEnable, HandleFailed, HandleResumed,
    HandleResumeFailed, HandleClosing, Drain, DrainAck, DrainBlocked, DrainDone,
    AnswerStanzaId, AutoRequestTimerFires, Server, ServerHandlesStanza, ServerHandlesEnable,
    ServerHandlesRequest, ServerHandlesResume, ServerHandlesClose, ServerSendsAck,
    ServerSendsRequest, ServerSendsStanza, ServerExpires, Connect, StartCustomBinding,
    StartStandardBinding, ContinueReceive, Disconnect, SendStanza, CallRequestAck, moduleVars

\* What an ack, sent or not, leaves of the incoming half.
Acked ==
    /\ unackedByClient' \in Seq(IncomingItem)
    /\ lastHandledByClient' \in Nat /\ lastAckOffset' \in Nat
    /\ autoAckTimer' \in BOOLEAN /\ ackResponseTimer' \in BOOLEAN

LEMMA IncomingType ==
    ASSUME Inv, NEW known \in BOOLEAN, NEW handled \in BOOLEAN,
           moduleQ # <<>>
    PROVE  /\ Incoming(objects + 1, Head(moduleQ).sid, Head(moduleQ).arg, known, handled)
                \in IncomingItem
           /\ Append(unackedByClient, Incoming(objects + 1, Head(moduleQ).sid,
                                               Head(moduleQ).arg, known, handled))
                \in Seq(IncomingItem)
<1>1. moduleQ \in Seq(ElementSet) /\ objects \in Nat /\ unackedByClient \in Seq(IncomingItem)
  BY DEF Inv, TypeOK, StreamTypeOK, InTypeOK
<1>2. Head(moduleQ) \in ElementSet
  BY <1>1, HeadTailProperties
<1>A. Head(moduleQ).sid \in Nat /\ Head(moduleQ).arg \in Nat
  BY <1>2 DEF ElementSet
<1>3. Incoming(objects + 1, Head(moduleQ).sid, Head(moduleQ).arg, known, handled)
        \in IncomingItem
  BY <1>1, <1>A DEF Incoming, IncomingItem
<1> QED  BY <1>1, <1>3

LEMMA AnswerHandledType == Inv /\ AnswerHandled => InTypeOK' /\ store' \in Storage
                                                   /\ store'.id = store.id
<1> SUFFICES ASSUME Inv, AnswerHandled
             PROVE  InTypeOK' /\ store' \in Storage /\ store'.id = store.id
  OBVIOUS
<1>1. InTypeOK /\ store \in Storage
  BY DEF Inv, TypeOK
<1>2. PICK x \in handledAnswers :
         LET handled == x.handled \/ MarkedEarly(x)
             u == [i \in DOMAIN unackedByClient |->
                     IF unackedByClient[i].obj = x.obj
                     THEN Incoming(x.obj, x.sid, x.n, ~x.handled, handled)
                     ELSE unackedByClient[i]]
         IN /\ handledAnswers' = handledAnswers \ {x}
            /\ outstandingIds' = outstandingIds - 1
            /\ pendingHandled' = MarksAfter(x)
            /\ IF handled
               THEN MaybeSendAck(u)
               ELSE /\ unackedByClient' = u
                    /\ UNCHANGED <<lastHandledByClient, lastAckOffset, store, autoAckTimer,
                                   ackResponseTimer>>
  BY DEF AnswerHandled
<1> DEFINE handled == x.handled \/ MarkedEarly(x)
           item    == Incoming(x.obj, x.sid, x.n, ~x.handled, handled)
           u == [i \in DOMAIN unackedByClient |->
                   IF unackedByClient[i].obj = x.obj THEN item ELSE unackedByClient[i]]
<1>3. x \in IncomingItem /\ unackedByClient \in Seq(IncomingItem)
  BY <1>1 DEF InTypeOK
<1>4. item \in IncomingItem
  BY <1>3 DEF Incoming, IncomingItem, MarkedEarly
<1>5. u \in Seq(IncomingItem)
  <2>1. DOMAIN u = DOMAIN unackedByClient /\ u = [i \in DOMAIN u |-> u[i]]
    OBVIOUS
  <2>2. \A i \in DOMAIN unackedByClient : u[i] \in IncomingItem
    BY <1>3, <1>4
  <2> QED  BY <1>3, <2>1, <2>2, SeqReplaced
<1>6. MarksAfter(x) \in Seq(Nat \X Nat)
  <2>1. pendingHandled \in Seq(Nat \X Nat) /\ <<>> \in Seq(Nat \X Nat)
    BY <1>1 DEF InTypeOK
  <2>2. CASE MarkedEarly(x)
    <3>1. IndexOf(pendingHandled, <<x.sid, x.n>>) \in DOMAIN pendingHandled
      BY <2>2 DEF MarkedEarly, IndexOf
    <3> QED  BY <2>1, <3>1, WithoutType DEF MarksAfter
  <2>3. CASE ~MarkedEarly(x)
    BY <2>1, <2>3 DEF MarksAfter
  <2> QED  BY <2>2, <2>3
<1>7. Acked /\ store' \in Storage /\ store'.id = store.id
  <2>1. CASE handled
    BY <1>2, <1>5, <2>1, MaybeSendAckType DEF Acked
  <2>2. CASE ~handled
    BY <1>1, <1>2, <1>5, <2>2 DEF Acked, InTypeOK
  <2> QED  BY <2>1, <2>2
<1>8. outstandingIds' \in Int /\ handledAnswers' \subseteq IncomingItem
  BY <1>1, <1>2 DEF InTypeOK
<1>9. UNCHANGED <<objects, handledQueries>>
  BY DEF AnswerHandled
<1> QED  BY <1>1, <1>2, <1>6, <1>7, <1>8, <1>9 DEF InTypeOK, Acked

LEMMA MarkHandledType == Inv /\ MarkHandledStanzaId => InTypeOK' /\ store' \in Storage
                                                       /\ store'.id = store.id
<1> SUFFICES ASSUME Inv, MarkHandledStanzaId
             PROVE  InTypeOK' /\ store' \in Storage /\ store'.id = store.id
  OBVIOUS
<1>1. /\ InTypeOK /\ store \in Storage /\ marksDue \subseteq Nat \X Nat
      /\ unackedByClient \in Seq(IncomingItem)
  BY DEF Inv, TypeOK, InTypeOK, HistTypeOK
<1>2. UNCHANGED <<outstandingIds, objects, handledQueries, handledAnswers>>
  BY DEF MarkHandledStanzaId
<1>3. CASE \E id \in marksDue : \E first :
              /\ MaybeSendAck([unackedByClient EXCEPT ![first].handled = TRUE])
              /\ UNCHANGED pendingHandled
  <2>1. PICK first : /\ MaybeSendAck([unackedByClient EXCEPT ![first].handled = TRUE])
                     /\ UNCHANGED pendingHandled
    BY <1>3
  <2> DEFINE u == [unackedByClient EXCEPT ![first].handled = TRUE]
  <2>2. DOMAIN u = DOMAIN unackedByClient /\ u = [i \in DOMAIN u |-> u[i]]
    OBVIOUS
  <2>3. \A i \in DOMAIN unackedByClient : unackedByClient[i] \in IncomingItem
    BY <1>1
  <2>4. \A i \in DOMAIN unackedByClient : u[i] \in IncomingItem
    BY <2>3 DEF IncomingItem
  <2>5. u \in Seq(IncomingItem)
    BY <1>1, <2>2, <2>4, SeqReplaced
  <2>6. Acked /\ store' \in Storage /\ store'.id = store.id
    BY <2>1, <2>5, MaybeSendAckType DEF Acked
  <2> QED  BY <1>1, <1>2, <2>1, <2>6 DEF InTypeOK, Acked
<1>4. CASE \E id \in marksDue :
              /\ pendingHandled' \in {Append(pendingHandled, id), pendingHandled}
              /\ UNCHANGED <<lastHandledByClient, unackedByClient, lastAckOffset, store,
                             autoAckTimer, ackResponseTimer>>
  <2>1. PICK id \in Nat \X Nat : pendingHandled' \in {Append(pendingHandled, id), pendingHandled}
    BY <1>1, <1>4
  <2>2. pendingHandled \in Seq(Nat \X Nat)
    BY <1>1 DEF InTypeOK
  <2>3. Append(pendingHandled, id) \in Seq(Nat \X Nat)
    BY <2>2, AppendProperties
  <2>4. pendingHandled' \in Seq(Nat \X Nat)
    BY <2>1, <2>2, <2>3
  <2>5. UNCHANGED <<lastHandledByClient, unackedByClient, lastAckOffset, store, autoAckTimer,
                    ackResponseTimer>>
    BY <1>4
  <2> QED  BY <1>1, <1>2, <2>4, <2>5 DEF InTypeOK
<1> QED  BY <1>3, <1>4 DEF MarkHandledStanzaId

\* Actions that do not touch the storage ...
LEMMA StoreFrame ==
    ASSUME \/ HandleDidSendEnable \/ HandleResumeFailed \/ HandleClosing \/ HandleSendResume
           \/ AnswerStanzaId \/ DelegateDecides \/ AutoRequestTimerFires \/ Server \/ Connect
           \/ StartCustomBinding \/ StartStandardBinding \/ ContinueReceive \/ Disconnect
           \/ Crash \/ SendStanza \/ Enable \/ CallRequestAck
    PROVE  UNCHANGED store
BY DEF HandleDidSendEnable, HandleResumeFailed, HandleClosing, HandleSendResume,
    AnswerStanzaId, DelegateDecides, AutoRequestTimerFires, Server, ServerHandlesStanza,
    ServerHandlesEnable, ServerHandlesRequest, ServerHandlesResume, ServerHandlesClose,
    ServerSendsAck, ServerSendsRequest, ServerSendsStanza, ServerExpires, Connect,
    StartCustomBinding, StartStandardBinding, ContinueReceive, Disconnect, Crash, SendStanza,
    Enable, CallRequestAck, moduleVars

LEMMA InType == Inv /\ Next => InTypeOK'
<1> SUFFICES ASSUME Inv, Next PROVE InTypeOK'
  OBVIOUS
<1>1. InTypeOK /\ store \in Storage /\ moduleQ \in Seq(ElementSet)
  BY DEF Inv, TypeOK, StreamTypeOK
<1>2. CASE UNCHANGED inVars
  BY <1>1, <1>2 DEF InTypeOK, inVars
<1>3. CASE HandleStanza
  <2> DEFINE x == Incoming(objects + 1, Head(moduleQ).sid, Head(moduleQ).arg, FALSE,
                           ~AsyncHandled)
             u == Append(unackedByClient, x)
  <2>1. x \in IncomingItem /\ u \in Seq(IncomingItem)
    BY <1>3, IncomingType DEF HandleStanza, Next_is, ConfigAssumption
  <2>2. CASE MaybeSendAck(u) /\ objects' = objects + 1
             /\ UNCHANGED <<outstandingIds, handledQueries>>
    <3>1. Acked
      BY <2>1, <2>2, MaybeSendAckType DEF Acked
    <3>2. UNCHANGED <<pendingHandled, handledAnswers>>
      BY <1>3 DEF HandleStanza
    <3> QED  BY <1>1, <2>2, <3>1, <3>2 DEF InTypeOK, Acked
  <2>3. CASE /\ unackedByClient' = u
             /\ objects' = objects + 1
             /\ outstandingIds' = outstandingIds + 1
             /\ handledQueries' = handledQueries \cup {x}
             /\ UNCHANGED <<lastHandledByClient, lastAckOffset, autoAckTimer,
                            ackResponseTimer>>
    <3>1. UNCHANGED <<pendingHandled, handledAnswers>>
      BY <1>3 DEF HandleStanza
    <3>2. unackedByClient' \in Seq(IncomingItem) /\ handledQueries' \subseteq IncomingItem
      BY <1>1, <2>1, <2>3 DEF InTypeOK
    <3>3. objects' \in Nat /\ outstandingIds' \in Int
      BY <1>1, <2>3 DEF InTypeOK
    <3> HIDE DEF u, x
    <3> QED  BY <1>1, <2>3, <3>1, <3>2, <3>3 DEF InTypeOK
  <2> HIDE DEF u
  <2> QED  BY <1>2, <1>3, <2>2, <2>3 DEF HandleStanza, u
<1>4. CASE HandleFiltered
  <2> DEFINE x == Incoming(objects + 1, Head(moduleQ).sid, Head(moduleQ).arg, FALSE, TRUE)
             u == Append(unackedByClient, x)
  <2>1. u \in Seq(IncomingItem)
    BY <1>4, IncomingType DEF HandleFiltered, Next_is
  <2>2. UNCHANGED <<pendingHandled, outstandingIds, handledQueries, handledAnswers>>
    BY <1>4 DEF HandleFiltered
  <2>3. CASE MaybeSendAck(u) /\ objects' = objects + 1
    <3>1. Acked
      BY <2>1, <2>3, MaybeSendAckType DEF Acked
    <3> QED  BY <1>1, <2>2, <2>3, <3>1 DEF InTypeOK, Acked
  <2>4. CASE UNCHANGED <<objects, unackedByClient, lastHandledByClient, lastAckOffset,
                         autoAckTimer, ackResponseTimer>>
    BY <1>1, <2>2, <2>4 DEF InTypeOK
  <2> HIDE DEF u
  <2> QED  BY <1>4, <2>3, <2>4 DEF HandleFiltered, u
<1>5. CASE DelegateDecides
  <2>1. PICK x \in handledQueries, handled \in BOOLEAN :
           /\ handledQueries' = handledQueries \ {x}
           /\ handledAnswers' = handledAnswers \cup {[x EXCEPT !.handled = handled]}
    BY <1>5 DEF DelegateDecides
  <2>2. x \in IncomingItem
    BY <1>1 DEF InTypeOK
  <2>3. [x EXCEPT !.handled = handled] \in IncomingItem
    BY <2>2 DEF IncomingItem
  <2>4. handledQueries' \subseteq IncomingItem /\ handledAnswers' \subseteq IncomingItem
    BY <1>1, <2>1, <2>3 DEF InTypeOK
  <2>5. UNCHANGED <<lastHandledByClient, unackedByClient, lastAckOffset, pendingHandled,
                    outstandingIds, objects, autoAckTimer, ackResponseTimer>>
    BY <1>5 DEF DelegateDecides
  <2> QED  BY <1>1, <2>4, <2>5 DEF InTypeOK
<1>6. CASE AnswerHandled \/ MarkHandledStanzaId
  BY <1>6, AnswerHandledType, MarkHandledType
<1>7. CASE HandleRequest
  <2>1. Acked
    <3>1. CASE SendAck(unackedByClient)
      BY <1>1, <3>1, SendAckType DEF Acked, InTypeOK
    <3>2. CASE ackResponseTimer' = TRUE
               /\ UNCHANGED <<lastHandledByClient, unackedByClient, lastAckOffset,
                              autoAckTimer>>
      BY <1>1, <3>2 DEF Acked, InTypeOK
    <3> QED  BY <1>7, <3>1, <3>2 DEF HandleRequest
  <2> QED  BY <1>1, <1>7, <2>1 DEF HandleRequest, Acked, InTypeOK
<1>8. CASE CallSendAck
  <2>1. Acked
    BY <1>1, <1>8, SendAckType DEF CallSendAck, Acked, InTypeOK
  <2> QED  BY <1>1, <1>8, <2>1 DEF CallSendAck, Acked, InTypeOK
<1>9. CASE Enable \/ HandleSendResume \/ Crash
  <2>1. /\ unackedByClient' = <<>> /\ lastAckOffset' = 0
        /\ pendingHandled' = <<>> /\ outstandingIds' = 0
    BY <1>9 DEF Enable, HandleSendResume, Crash, Cleanup
  <2>2. lastHandledByClient' \in {lastHandledByClient, store.hc, 0}
    BY <1>9 DEF Enable, HandleSendResume, Crash, RestoredCounts
  <2>3. store.hc \in Nat
    BY <1>1 DEF Storage
  <2>4. /\ autoAckTimer' \in {autoAckTimer, FALSE}
        /\ ackResponseTimer' \in {ackResponseTimer, FALSE}
    BY <1>9 DEF Enable, HandleSendResume, Crash
  <2>5. /\ handledQueries' \in {handledQueries, {}}
        /\ handledAnswers' \in {handledAnswers, {}} /\ UNCHANGED objects
    BY <1>9 DEF Enable, HandleSendResume, Crash
  <2>6. unackedByClient' \in Seq(IncomingItem) /\ pendingHandled' \in Seq(Nat \X Nat)
    BY <2>1
  <2>7. lastHandledByClient' \in Nat
    BY <1>1, <2>2, <2>3 DEF InTypeOK
  <2>8. autoAckTimer' \in BOOLEAN /\ ackResponseTimer' \in BOOLEAN
    BY <1>1, <2>4 DEF InTypeOK
  <2>9. handledQueries' \subseteq IncomingItem /\ handledAnswers' \subseteq IncomingItem
    BY <1>1, <2>5 DEF InTypeOK
  <2> QED  BY <1>1, <2>1, <2>5, <2>6, <2>7, <2>8, <2>9 DEF InTypeOK
<1>10. CASE HandleEnabled
  BY <1>1, <1>10 DEF HandleEnabled, InTypeOK
<1>11. CASE HandleDidDisconnect
  BY <1>1, <1>11 DEF HandleDidDisconnect, InTypeOK
<1> QED
  BY <1>2, <1>3, <1>4, <1>5, <1>6, <1>7, <1>8, <1>9, <1>10, <1>11, InFrame
     DEF Next, HandleCallback, Delegates, Timers, Stream, Application

\* The storage, and that only <enabled/> names another session in it.
LEMMA StoreType ==
    Inv /\ Next => /\ store' \in Storage
                   /\ \/ store'.id \in {store.id, 0}
                      \/ HandleEnabled /\ store'.id = Head(moduleQ).arg
<1> DEFINE Goal == /\ store' \in Storage
                   /\ \/ store'.id \in {store.id, 0}
                      \/ HandleEnabled /\ store'.id = Head(moduleQ).arg
<1> SUFFICES ASSUME Inv, Next PROVE Goal
  OBVIOUS
<1>1. /\ store \in Storage /\ lastHandledByServer \in Nat /\ lastHandledByClient \in Nat
      /\ unackedByServer \in Seq(OutgoingItem)
  BY DEF Inv, TypeOK, OutTypeOK, InTypeOK
<1>2. EmptyStore \in Storage /\ EmptyStore.id = 0
  <2>1. <<>> \in Seq(OutgoingItem)
    BY EmptySeq
  <2> QED  BY <2>1 DEF EmptyStore, Storage
<1>3. CASE UNCHANGED store
  BY <1>1, <1>3
<1>4. CASE HandleDidSend
  <2> DEFINE n == Head(moduleQ).arg
             x == IF AsyncIds THEN Outgoing(n, 0, TRUE) ELSE Outgoing(n, StanzaId(n), FALSE)
  <2>1. n \in Nat
    BY <1>4, NextIsType DEF HandleDidSend
  <2>2. x \in OutgoingItem
    BY <2>1 DEF Outgoing, OutgoingItem, StanzaId
  <2> HIDE DEF x
  <2>3. AddPending(x) \in Seq(OutgoingItem)
    BY <1>1, <2>2 DEF AddPending
  <2>4. \/ store' = store
        \/ store' = StoreOutgoing(lastHandledByServer, AddPending(x))
    BY <1>4 DEF HandleDidSend, x
  <2> QED  BY <1>1, <2>3, <2>4, StoreOutgoingType
<1>5. CASE HandleAck
  <2>1. Head(moduleQ).arg \in Nat
    BY <1>5, NextIsType DEF HandleAck
  <2> QED  BY <1>5, <2>1, ProcessAckType DEF HandleAck
<1>6. CASE DrainAck \/ DrainBlocked
  <2>1. Head(unprocessedAcks) \in Nat
    BY <1>6, HeadTailProperties DEF DrainAck, DrainBlocked, Inv, TypeOK, OutTypeOK
  <2>2. \/ ProcessAck(Head(unprocessedAcks))
        \/ store' = StoreOutgoing(lastHandledByServer, unackedByServer)
    BY <1>6 DEF DrainAck, DrainBlocked
  <2> QED  BY <1>1, <2>1, <2>2, ProcessAckType, StoreOutgoingType
<1>7. CASE DrainDone
  BY <1>1, <1>7, StoreOutgoingType DEF DrainDone
<1>8. CASE HandleStanza
  <2> DEFINE x == Incoming(objects + 1, Head(moduleQ).sid, Head(moduleQ).arg, FALSE,
                           ~AsyncHandled)
  <2>1. Append(unackedByClient, x) \in Seq(IncomingItem)
    BY <1>8, IncomingType DEF HandleStanza, Next_is
  <2>2. MaybeSendAck(Append(unackedByClient, x)) \/ UNCHANGED store
    BY <1>8 DEF HandleStanza
  <2> QED  BY <1>3, <2>1, <2>2, MaybeSendAckType
<1>9. CASE HandleFiltered
  <2> DEFINE x == Incoming(objects + 1, Head(moduleQ).sid, Head(moduleQ).arg, FALSE, TRUE)
  <2>1. Append(unackedByClient, x) \in Seq(IncomingItem)
    BY <1>9, IncomingType DEF HandleFiltered, Next_is
  <2>2. MaybeSendAck(Append(unackedByClient, x)) \/ UNCHANGED store
    BY <1>9 DEF HandleFiltered
  <2> QED  BY <1>3, <2>1, <2>2, MaybeSendAckType
<1>10. CASE AnswerHandled \/ MarkHandledStanzaId
  BY <1>10, AnswerHandledType, MarkHandledType
<1>11. CASE HandleRequest \/ CallSendAck
  <2>1. unackedByClient \in Seq(IncomingItem)
    BY DEF Inv, TypeOK, InTypeOK
  <2>2. SendAck(unackedByClient) \/ UNCHANGED store
    BY <1>11 DEF HandleRequest, CallSendAck
  <2> QED  BY <1>3, <2>1, <2>2, SendAckType
<1>12. CASE HandleEnabled
  <2>1. Head(moduleQ).arg \in Nat
    BY <1>12, NextIsType DEF HandleEnabled
  <2>2. [EmptyStore EXCEPT !.id = Head(moduleQ).arg, !.date = TRUE] \in Storage
    BY <1>2, <2>1 DEF Storage
  <2>3. [EmptyStore EXCEPT !.id = Head(moduleQ).arg, !.date = TRUE].id = Head(moduleQ).arg
    BY <1>2 DEF EmptyStore
  <2> QED  BY <1>1, <1>12, <2>2, <2>3 DEF HandleEnabled
<1>13. CASE HandleFailed
  BY <1>1, <1>2, <1>13 DEF HandleFailed
<1>14. CASE HandleResumed
  <2>1. Head(moduleQ).arg \in Nat /\ <<>> \in Seq(OutgoingItem)
    BY <1>14, NextIsType, EmptySeq DEF HandleResumed
  <2> QED  BY <1>1, <1>14, <2>1 DEF HandleResumed, Storage
<1>15. CASE HandleDidDisconnect
  BY <1>1, <1>2, <1>15 DEF HandleDidDisconnect, Storage
<1> QED
  BY <1>3, <1>4, <1>5, <1>6, <1>7, <1>8, <1>9, <1>10, <1>11, <1>12, <1>13, <1>14, <1>15,
     StoreFrame
     DEF Next, HandleCallback, Drain, Delegates, Timers, Stream, Application

\* The history.
LEMMA HistFrame ==
    ASSUME \/ HandleDidSend \/ HandleRequest \/ HandleDidSendEnable \/ HandleFailed
           \/ HandleResumeFailed \/ HandleClosing \/ HandleDidDisconnect \/ DrainDone
           \/ AnswerStanzaId \/ AnswerHandled \/ Timers \/ Server \/ Connect
           \/ StartCustomBinding \/ StartStandardBinding \/ ContinueReceive \/ Disconnect
           \/ Application
    PROVE  UNCHANGED histVars
BY DEF HandleDidSend, HandleRequest, HandleDidSendEnable, HandleFailed, HandleResumeFailed,
    HandleClosing, HandleDidDisconnect, DrainDone, AnswerStanzaId, AnswerHandled, Timers,
    AutoRequestTimerFires, CallSendAck, Server, ServerHandlesStanza, ServerHandlesEnable,
    ServerHandlesRequest, ServerHandlesResume, ServerHandlesClose, ServerSendsAck,
    ServerSendsRequest, ServerSendsStanza, ServerExpires, Connect, StartCustomBinding,
    StartStandardBinding, ContinueReceive, Disconnect, Application, SendStanza, Enable,
    CallRequestAck, moduleVars

LEMMA HistType == Inv /\ Next => HistTypeOK'
<1> SUFFICES ASSUME Inv, Next PROVE HistTypeOK'
  OBVIOUS
<1>1. HistTypeOK
  BY DEF Inv, TypeOK
<1>2. CASE UNCHANGED histVars
  BY <1>1, <1>2 DEF HistTypeOK, histVars
<1>3. CASE HandleAck \/ DrainAck \/ DrainBlocked
  <2>1. UNCHANGED <<session, appHandled, marksDue, lost, crashes>>
    BY <1>3 DEF HandleAck, DrainAck, DrainBlocked
  <2>2. PICK h : /\ \/ HandleAck /\ h = Head(moduleQ).arg
                    \/ unprocessedAcks # <<>> /\ h = Head(unprocessedAcks)
                 /\ ProcessAck(h) \/ UNCHANGED <<reported, reports>>
    BY <1>3 DEF HandleAck, DrainAck, DrainBlocked
  <2>3. h \in Nat
    <3>1. CASE HandleAck /\ h = Head(moduleQ).arg
      BY <3>1, NextIsType DEF HandleAck
    <3>2. CASE unprocessedAcks # <<>> /\ h = Head(unprocessedAcks)
      BY <3>2, HeadTailProperties DEF Inv, TypeOK, OutTypeOK
    <3> QED  BY <2>2, <3>1, <3>2
  <2>4. reported' \subseteq Nat /\ reports' \in Nat
    BY <1>1, <2>2, <2>3, ProcessAckType DEF HistTypeOK
  <2> QED  BY <1>1, <2>1, <2>4 DEF HistTypeOK
<1>4. CASE HandleStanza \/ HandleFiltered
  <2>1. Head(moduleQ).sid \in Nat /\ Head(moduleQ).arg \in Nat
    BY <1>4, NextIsType DEF HandleStanza, HandleFiltered
  <2>2. appHandled' \in {appHandled, appHandled \cup {<<Head(moduleQ).sid, Head(moduleQ).arg>>}}
    BY <1>4 DEF HandleStanza, HandleFiltered
  <2>3. UNCHANGED <<session, reported, reports, marksDue, lost, crashes>>
    BY <1>4 DEF HandleStanza, HandleFiltered
  <2> QED  BY <1>1, <2>1, <2>2, <2>3 DEF HistTypeOK
<1>5. CASE DelegateDecides
  <2>1. PICK x \in handledQueries :
           /\ appHandled' \in {appHandled, appHandled \cup {<<x.sid, x.n>>}}
           /\ marksDue' \in {marksDue, marksDue \cup {<<x.sid, x.n>>}}
    BY <1>5 DEF DelegateDecides
  <2>2. x \in IncomingItem
    BY DEF Inv, TypeOK, InTypeOK
  <2>3. <<x.sid, x.n>> \in Nat \X Nat
    BY <2>2 DEF IncomingItem
  <2>4. UNCHANGED <<session, reported, reports, lost, crashes>>
    BY <1>5 DEF DelegateDecides
  <2> QED  BY <1>1, <2>1, <2>3, <2>4 DEF HistTypeOK
<1>6. CASE MarkHandledStanzaId
  <2>1. PICK id \in marksDue : marksDue' = marksDue \ {id} /\ appHandled' = appHandled \cup {id}
    BY <1>6 DEF MarkHandledStanzaId
  <2>2. UNCHANGED <<session, reported, reports, lost, crashes>>
    BY <1>6 DEF MarkHandledStanzaId
  <2> QED  BY <1>1, <2>1, <2>2 DEF HistTypeOK
<1>7. CASE HandleEnabled
  <2>1. Head(moduleQ).sid \in Nat
    BY <1>7, NextIsType DEF HandleEnabled
  <2> QED  BY <1>1, <1>7, <2>1 DEF HandleEnabled, HistTypeOK
<1>8. CASE HandleSendResume
  <2>1. Head(moduleQ).sid \in Nat
    BY <1>8, NextIsType DEF HandleSendResume
  <2> QED  BY <1>1, <1>8, <2>1 DEF HandleSendResume, HistTypeOK
<1>9. CASE HandleResumed
  <2> DEFINE k == Smaller(AckDiff(Head(moduleQ).arg), Len(prevUnacked))
  <2>1. Head(moduleQ).arg \in Nat
    BY <1>9, NextIsType DEF HandleResumed
  <2>2. prevUnacked \in Seq(OutgoingItem) /\ lastHandledByServer \in Nat /\ Modulus \in Nat
    BY BoundsAssumption DEF Inv, TypeOK, OutTypeOK
  <2>3. k \in Int /\ k <= Len(prevUnacked)
    BY <2>1, <2>2, LenProperties DEF AckDiff, Smaller
  <2>4. Report(prevUnacked, k)
    BY <1>9 DEF HandleResumed
  <2> HIDE DEF k
  <2>5. reported' \subseteq Nat /\ reports' \in Nat
    BY <2>2, <2>3, <2>4, ReportType
  <2>6. UNCHANGED <<session, appHandled, marksDue, crashes>>
    BY <1>9 DEF HandleResumed
  <2>7. lost' \subseteq Nat
    BY <1>1, <1>9 DEF HandleResumed, Unreported, HistTypeOK, Inv, TypeOK, ServerTypeOK
  <2> QED  BY <1>1, <2>5, <2>6, <2>7 DEF HistTypeOK
<1>10. CASE Crash
  BY <1>1, <1>10 DEF Crash, HistTypeOK
<1> QED
  BY <1>2, <1>3, <1>4, <1>5, <1>6, <1>7, <1>8, <1>9, <1>10, HistFrame
     DEF Next, HandleCallback, Drain, Delegates, Stream

\* The wire, the queues and the server's sessions, and that they name only those sessions.
Wired(n) ==
    /\ c2s' \in Seq(ElementSet) /\ AllKnown(c2s', n)
    /\ moduleQ' \in Seq(ElementSet) /\ AllKnown(moduleQ', n)
    /\ willQ' \in Seq(ElementSet)

\* A callback only takes itself off the queue; two of them write to the wire.
LEMMA CallbackWired == Inv /\ HandleCallback => Wired(Len(sessions))
                                              /\ UNCHANGED <<streamVars, serverVars>>
<1> SUFFICES ASSUME Inv, HandleCallback
             PROVE  Wired(Len(sessions)) /\ UNCHANGED <<streamVars, serverVars>>
  OBVIOUS
<1>1. /\ c2s \in Seq(ElementSet) /\ AllKnown(c2s, Len(sessions)) /\ willQ \in Seq(ElementSet)
      /\ unackedByServer \in Seq(OutgoingItem)
  BY DEF Inv, TypeOK, StreamTypeOK, OutTypeOK, SessionsKnown
<1>2. UNCHANGED <<streamVars, serverVars, willQ>>
  BY DEF HandleCallback, HandleDidSend, HandleAck, HandleStanza, HandleFiltered, HandleRequest,
     HandleDidSendEnable, HandleEnabled, HandleFailed, HandleSendResume, HandleResumed,
     HandleResumeFailed, HandleClosing, HandleDidDisconnect
<1>3. PICK name : Next_is(name) /\ moduleQ' = Tail(moduleQ)
  BY DEF HandleCallback, HandleDidSend, HandleAck, HandleStanza, HandleFiltered, HandleRequest,
     HandleDidSendEnable, HandleEnabled, HandleFailed, HandleSendResume, HandleResumed,
     HandleResumeFailed, HandleClosing, HandleDidDisconnect
<1>4. moduleQ' \in Seq(ElementSet) /\ AllKnown(moduleQ', Len(sessions))
  BY <1>3, NextIsType
<1>5. c2s' \in Seq(ElementSet) /\ AllKnown(c2s', Len(sessions))
  <2>1. CASE UNCHANGED c2s
    BY <1>1, <2>1
  <2>2. CASE HandleDidSend
    <3> DEFINE n == Head(moduleQ).arg
               x == IF AsyncIds THEN Outgoing(n, 0, TRUE) ELSE Outgoing(n, StanzaId(n), FALSE)
    <3>1. n \in Nat
      BY <2>2, NextIsType DEF HandleDidSend
    <3>2. x \in OutgoingItem
      BY <3>1 DEF Outgoing, OutgoingItem, StanzaId
    <3> HIDE DEF x
    <3>3. AddPending(x) \in Seq(OutgoingItem)
      BY <1>1, <3>2 DEF AddPending
    <3>4. MaybeRequestAck(AddPending(x)) \/ UNCHANGED c2s
      BY <2>2 DEF HandleDidSend, x
    <3> QED  BY <2>1, <3>3, <3>4, MaybeRequestAckType
  <2>3. CASE HandleSendResume
    <3> DEFINE e == Element("resume", store.hc, Head(moduleQ).sid)
    <3>1. /\ store.hc \in Nat /\ Head(moduleQ).sid \in Nat
          /\ NamesSession(Head(moduleQ), Len(sessions)) /\ Head(moduleQ).name = "sendResume"
      BY <2>3, NextIsType DEF HandleSendResume, Inv, TypeOK, Storage
    <3>2. e \in ElementSet
      BY <3>1, ElementType DEF ElementName
    <3>3. NamesSession(e, Len(sessions))
      BY <3>1 DEF NamesSession, Element
    <3>4. c2s' \in {c2s, Append(c2s, e)}
      BY <2>3 DEF HandleSendResume
    <3> HIDE DEF e
    <3> QED  BY <1>1, <3>2, <3>3, <3>4, KnownAppend
  <2> QED
    BY <2>1, <2>2, <2>3
       DEF HandleCallback, HandleAck, HandleStanza, HandleFiltered, HandleRequest,
       HandleDidSendEnable, HandleEnabled, HandleFailed, HandleResumed, HandleResumeFailed,
       HandleClosing, HandleDidDisconnect
<1> QED  BY <1>1, <1>2, <1>4, <1>5 DEF Wired

\* What the client does, besides its callbacks.
Conn == {"closed", "binding", "resuming", "bound"}

LEMMA ClientWired ==
    Inv /\ (Drain \/ Delegates \/ Timers \/ Stream \/ Application)
      => /\ Wired(Len(sessions))
         /\ conn' \in Conn /\ conns' \in Nat /\ sent' \in Nat
         /\ UNCHANGED <<sessions, received, delivered>> /\ attached' \in {attached, 0}
<1> DEFINE Goal == /\ Wired(Len(sessions))
                   /\ conn' \in Conn /\ conns' \in Nat /\ sent' \in Nat
                   /\ UNCHANGED <<sessions, received, delivered>> /\ attached' \in {attached, 0}
<1> SUFFICES ASSUME Inv, Drain \/ Delegates \/ Timers \/ Stream \/ Application PROVE Goal
  OBVIOUS
<1>1. /\ c2s \in Seq(ElementSet) /\ AllKnown(c2s, Len(sessions))
      /\ moduleQ \in Seq(ElementSet) /\ AllKnown(moduleQ, Len(sessions))
      /\ willQ \in Seq(ElementSet)
      /\ conn \in Conn /\ conns \in Nat /\ sent \in Nat
      /\ unackedByServer \in Seq(OutgoingItem)
  BY DEF Inv, TypeOK, StreamTypeOK, OutTypeOK, SessionsKnown, Conn
<1>2. CASE Drain \/ Delegates \/ CallSendAck
  BY <1>1, <1>2, Zenon DEF Drain, DrainAck, DrainBlocked, DrainDone, Delegates, AnswerStanzaId,
     DelegateDecides, AnswerHandled, MarkHandledStanzaId, CallSendAck, Wired, streamVars,
     serverVars
<1>3. CASE AutoRequestTimerFires \/ CallRequestAck
  <2>1. RequestAck(unackedByServer)
    BY <1>3 DEF AutoRequestTimerFires, CallRequestAck
  <2>2. c2s' \in Seq(ElementSet) /\ AllKnown(c2s', Len(sessions))
    BY <1>1, <2>1, RequestAckType
  <2>3. UNCHANGED <<streamVars, moduleQ, willQ, serverVars>>
    BY <1>3 DEF AutoRequestTimerFires, CallRequestAck
  <2> QED  BY <1>1, <2>2, <2>3 DEF Wired, streamVars, serverVars
<1>4. CASE SendStanza
  <2>1. sent + 1 \in Nat
    BY <1>1
  <2>2. /\ Element("stanza", sent + 1, 0) \in ElementSet
        /\ NamesSession(Element("stanza", sent + 1, 0), Len(sessions))
    BY <2>1, PlainElement DEF ElementName
  <2>3. /\ Element("didSend", sent + 1, 0) \in ElementSet
        /\ NamesSession(Element("didSend", sent + 1, 0), Len(sessions))
    BY <2>1, PlainElement DEF ElementName
  <2>4. c2s' \in Seq(ElementSet) /\ AllKnown(c2s', Len(sessions))
    BY <1>1, <1>4, <2>2, KnownAppend DEF SendStanza
  <2>5. moduleQ' \in Seq(ElementSet) /\ AllKnown(moduleQ', Len(sessions))
    BY <1>1, <1>4, <2>3, KnownAppend DEF SendStanza
  <2> QED  BY <1>1, <1>4, <2>1, <2>4, <2>5 DEF SendStanza, Wired, serverVars
<1>5. CASE Enable
  <2>1. c2s' \in Seq(ElementSet) /\ AllKnown(c2s', Len(sessions))
    BY <1>5, WrittenType DEF Enable
  <2>2. /\ Element("didSendEnable", 0, 0) \in ElementSet
        /\ NamesSession(Element("didSendEnable", 0, 0), Len(sessions))
    BY PlainElement DEF ElementName
  <2>3. moduleQ' \in Seq(ElementSet) /\ AllKnown(moduleQ', Len(sessions))
    BY <1>1, <1>5, <2>2, KnownAppend DEF Enable
  <2> QED  BY <1>1, <1>5, <2>1, <2>3 DEF Enable, Wired, streamVars, serverVars
<1>6. CASE Connect
  <2>1. c2s' \in Seq(ElementSet) /\ AllKnown(c2s', Len(sessions))
    BY <1>6, KnownEmpty DEF Connect
  <2> QED  BY <1>1, <1>6, <2>1 DEF Connect, Wired, Conn
<1>7. CASE StartCustomBinding
  <2>1. store.id \in Nat /\ store.id \in 1..Len(sessions)
    BY <1>7 DEF Inv, TypeOK, Storage, SessionsKnown, StartCustomBinding, CanResume
  <2>2. Element("sendResume", 0, store.id) \in ElementSet
    BY <2>1, ElementType DEF ElementName
  <2>3. NamesSession(Element("sendResume", 0, store.id), Len(sessions))
    BY <2>1 DEF NamesSession, Element
  <2>4. moduleQ' \in Seq(ElementSet) /\ AllKnown(moduleQ', Len(sessions))
    BY <1>1, <1>7, <2>2, <2>3, KnownAppend DEF StartCustomBinding
  <2> QED  BY <1>1, <1>7, <2>4 DEF StartCustomBinding, Wired, Conn, serverVars
<1>8. CASE StartStandardBinding
  BY <1>1, <1>8 DEF StartStandardBinding, Wired, Conn, serverVars
<1>9. CASE ContinueReceive
  <2>1. Head(willQ) \in ElementSet /\ willQ' \in Seq(ElementSet)
    BY <1>1, <1>9, HeadTailProperties DEF ContinueReceive
  <2>2. \A name \in {"stanza", "filtered"} :
           /\ [Head(willQ) EXCEPT !.name = name] \in ElementSet
           /\ NamesSession([Head(willQ) EXCEPT !.name = name], Len(sessions))
    BY <2>1 DEF ElementSet, ElementName, NamesSession
  <2>3. moduleQ' \in Seq(ElementSet) /\ AllKnown(moduleQ', Len(sessions))
    BY <1>1, <1>9, <2>2, KnownAppend DEF ContinueReceive
  <2> QED  BY <1>1, <1>9, <2>1, <2>3 DEF ContinueReceive, Wired, streamVars, serverVars
<1>10. CASE Disconnect
  <2> DEFINE close == Element("close", 0, 0)
             closing == Element("closing", 0, 0)
             end == Element("didDisconnect", 0, 0)
  <2>1. /\ close \in ElementSet /\ NamesSession(close, Len(sessions))
        /\ closing \in ElementSet /\ NamesSession(closing, Len(sessions))
        /\ end \in ElementSet /\ NamesSession(end, Len(sessions))
    BY PlainElement DEF ElementName
  <2> HIDE DEF close, closing, end
  <2>2. c2s' \in {c2s, Append(c2s, close)}
    BY <1>10 DEF Disconnect, close
  <2>3. moduleQ' \in {Append(moduleQ, end), moduleQ \o <<closing, end>>}
    BY <1>10 DEF Disconnect, closing, end
  <2>4. moduleQ \o <<closing, end>> = Append(Append(moduleQ, closing), end)
    BY <1>1, <2>1
  <2>5. c2s' \in Seq(ElementSet) /\ AllKnown(c2s', Len(sessions))
    BY <1>1, <2>1, <2>2, KnownAppend
  <2>6. moduleQ' \in Seq(ElementSet) /\ AllKnown(moduleQ', Len(sessions))
    BY <1>1, <2>1, <2>3, <2>4, KnownAppend
  <2> QED  BY <1>1, <1>10, <2>5, <2>6 DEF Disconnect, Wired, Conn, serverVars
<1>11. CASE Crash
  <2>1. /\ moduleQ' \in Seq(ElementSet) /\ AllKnown(moduleQ', Len(sessions))
        /\ willQ' \in Seq(ElementSet)
    BY <1>11, KnownEmpty DEF Crash
  <2> QED  BY <1>1, <1>11, <2>1 DEF Crash, Wired, Conn, serverVars
<1> QED
  BY <1>2, <1>3, <1>4, <1>5, <1>6, <1>7, <1>8, <1>9, <1>10, <1>11
     DEF Timers, Stream, Application

LEMMA SessionUpdates ==
    ASSUME NEW x \in Session
    PROVE  /\ \A n \in Nat : [x EXCEPT !.log = Append(@, n)] \in Session
           /\ [x EXCEPT !.out = @ + 1] \in Session
           /\ [x EXCEPT !.alive = FALSE] \in Session
           /\ x.out \in Nat
<1>1. /\ x.log \in Seq(Nat) /\ x.out \in Nat /\ x.alive \in BOOLEAN
      /\ x = [log |-> x.log, out |-> x.out, alive |-> x.alive]
  BY DEF Session
<1>2. \A n \in Nat : Append(x.log, n) \in Seq(Nat)
  BY <1>1, AppendProperties
<1>3. \A n \in Nat : [x EXCEPT !.log = Append(@, n)] \in Session
  <2> TAKE n \in Nat
  <2> DEFINE l == Append(x.log, n)
  <2>1. l \in Seq(Nat)
    BY <1>2
  <2>2. [x EXCEPT !.log = Append(@, n)] = [x EXCEPT !.log = l]
    OBVIOUS
  <2> HIDE DEF l
  <2>3. [x EXCEPT !.log = l] \in Session
    BY <2>1 DEF Session
  <2> QED  BY <2>2, <2>3
<1>4. [x EXCEPT !.out = @ + 1] \in Session
  <2> DEFINE k == x.out + 1
  <2>1. k \in Nat
    BY <1>1
  <2>2. [x EXCEPT !.out = @ + 1] = [log |-> x.log, out |-> k, alive |-> x.alive]
    BY <1>1
  <2> HIDE DEF k
  <2> QED  BY <1>1, <2>1, <2>2 DEF Session
<1>5. [x EXCEPT !.alive = FALSE] \in Session
  BY DEF Session
<1> QED  BY <1>1, <1>3, <1>4, <1>5

\* What the server does: sessions are only added, and those there are only change.
LEMMA SessionChanged ==
    ASSUME Inv, NEW s \in 1..Len(sessions), NEW t \in Session,
           sessions' = [sessions EXCEPT ![s] = t]
    PROVE  sessions' \in Seq(Session) /\ Len(sessions') = Len(sessions)
<1>1. sessions \in Seq(Session) /\ DOMAIN sessions = 1..Len(sessions)
  BY LenProperties DEF Inv, TypeOK, ServerTypeOK
<1>2. DOMAIN sessions' = DOMAIN sessions /\ sessions' = [i \in DOMAIN sessions' |-> sessions'[i]]
  OBVIOUS
<1>3. \A i \in DOMAIN sessions : sessions'[i] \in Session
  BY <1>1
<1> QED  BY <1>1, <1>2, <1>3, SeqReplaced

LEMMA ServerWired ==
    Inv /\ Server
      => /\ sessions' \in Seq(Session) /\ Len(sessions) <= Len(sessions')
         /\ Wired(Len(sessions'))
         /\ conn' \in Conn /\ conns' \in Nat /\ sent' \in Nat
         /\ received' \subseteq Nat /\ delivered' \in Nat
         /\ attached' \in 0..Len(sessions')
<1> DEFINE Goal == /\ sessions' \in Seq(Session) /\ Len(sessions) <= Len(sessions')
                   /\ Wired(Len(sessions'))
                   /\ conn' \in Conn /\ conns' \in Nat /\ sent' \in Nat
                   /\ received' \subseteq Nat /\ delivered' \in Nat
                   /\ attached' \in 0..Len(sessions')
<1> SUFFICES ASSUME Inv, Server PROVE Goal
  OBVIOUS
<1>1. /\ c2s \in Seq(ElementSet) /\ AllKnown(c2s, Len(sessions))
      /\ moduleQ \in Seq(ElementSet) /\ AllKnown(moduleQ, Len(sessions))
      /\ willQ \in Seq(ElementSet)
      /\ conn \in Conn /\ conns \in Nat /\ sent \in Nat
      /\ received \subseteq Nat /\ delivered \in Nat
      /\ attached \in 0..Len(sessions)
  BY DEF Inv, TypeOK, StreamTypeOK, ServerTypeOK, SessionsKnown, Conn
<1>2. /\ sessions \in Seq(Session) /\ Len(sessions) \in Nat
      /\ \A s \in 1..Len(sessions) : sessions[s] \in Session
      /\ DOMAIN sessions = 1..Len(sessions)
  BY LenProperties, ElementOfSeq DEF Inv, TypeOK, ServerTypeOK
<1>3. /\ \A s \in 1..Len(sessions) : Len(sessions[s].log) \in Nat
      /\ Modulus \in Nat \ {0}
  BY <1>2, LenProperties, BoundsAssumption DEF Session
<1>4. \A s \in 1..Len(sessions) : HandledCount(s) \in Nat
  <2> TAKE s \in 1..Len(sessions)
  <2> DEFINE k == Len(sessions[s].log)
  <2>1. k \in Nat
    BY <1>3
  <2> HIDE DEF k
  <2>2. k % Modulus \in Nat
    BY <1>3, <2>1
  <2> QED  BY <2>2 DEF HandledCount, k
<1>5. \A name \in ElementName \ {"enabled", "sendResume", "resume"}, arg \in Nat, sid \in Nat :
         /\ Element(name, arg, sid) \in ElementSet
         /\ NamesSession(Element(name, arg, sid), Len(sessions))
  BY PlainElement
<1>6. \A e \in ElementSet :
         NamesSession(e, Len(sessions)) /\ (Arrives(<<e>>, <<>>) \/ Arrives(<<>>, <<e>>))
           => /\ moduleQ' \in Seq(ElementSet) /\ AllKnown(moduleQ', Len(sessions))
              /\ willQ' \in Seq(ElementSet)
  BY <1>2, ArrivesOne
<1>7. CASE ServerHandlesStanza
  <2>1. Head(c2s).arg \in Nat /\ c2s' \in Seq(ElementSet) /\ AllKnown(c2s', Len(sessions))
    BY <1>7, TakeType DEF ServerHandlesStanza
  <2>2. sessions' \in Seq(Session) /\ Len(sessions') = Len(sessions)
    <3>1. CASE attached = 0
      BY <1>2, <1>7, <3>1 DEF ServerHandlesStanza
    <3>2. CASE attached # 0
      <4> DEFINE t == [sessions[attached] EXCEPT !.log = Append(@, Head(c2s).arg)]
      <4>1. attached \in 1..Len(sessions) /\ sessions[attached] \in Session
        BY <1>1, <1>2, <3>2
      <4>2. t \in Session
        BY <2>1, <4>1, SessionUpdates
      <4>3. sessions' = [sessions EXCEPT ![attached] = t]
        BY <1>7, <3>2 DEF ServerHandlesStanza
      <4> HIDE DEF t
      <4> QED  BY <4>1, <4>2, <4>3, SessionChanged
    <3> QED  BY <3>1, <3>2
  <2>3. UNCHANGED <<streamVars, moduleQ, willQ, attached, delivered>>
        /\ received' = received \cup {Head(c2s).arg}
    BY <1>7 DEF ServerHandlesStanza
  <2>4. received' \subseteq Nat
    BY <1>1, <2>1, <2>3
  <2>5. Wired(Len(sessions'))
    BY <1>1, <2>1, <2>2, <2>3 DEF Wired
  <2>6. conn' \in Conn /\ conns' \in Nat /\ sent' \in Nat /\ delivered' \in Nat
    BY <1>1, <2>3 DEF streamVars
  <2>7. attached' \in 0..Len(sessions')
    BY <1>1, <2>2, <2>3
  <2> QED  BY <1>2, <2>2, <2>4, <2>5, <2>6, <2>7
<1>8. CASE ServerHandlesEnable
  <2>1. c2s' \in Seq(ElementSet) /\ AllKnown(c2s', Len(sessions))
    BY <1>8, TakeType DEF ServerHandlesEnable
  <2>2. UNCHANGED <<streamVars, received, delivered>>
    BY <1>8 DEF ServerHandlesEnable
  <2> DEFINE s == Len(sessions) + 1
  <2>3. ASSUME NEW resume \in BOOLEAN,
               sessions' = Append(sessions, [log |-> <<>>, out |-> 0, alive |-> resume]),
               attached' = s,
               Arrives(<<Element("enabled", IF resume THEN s ELSE 0, s)>>, <<>>)
        PROVE  Goal
    <3> DEFINE e == Element("enabled", IF resume THEN s ELSE 0, s)
               new == [log |-> <<>>, out |-> 0, alive |-> resume]
    <3>1. e \in ElementSet /\ NamesSession(e, s)
      BY <1>2, ElementType DEF ElementName, NamesSession, Element
    <3>2. <<>> \in Seq(Nat)
      BY EmptySeq
    <3>3. new \in Session
      BY <3>2 DEF Session
    <3> HIDE DEF e, new
    <3>5. sessions' \in Seq(Session) /\ Len(sessions') = s
      BY <1>2, <2>3, <3>3, AppendProperties DEF new
    <3>6. Arrives(<<e>>, <<>>)
      BY <2>3 DEF e
    <3>7. /\ moduleQ' \in Seq(ElementSet) /\ AllKnown(moduleQ', s)
          /\ willQ' \in Seq(ElementSet)
      BY <1>2, <3>1, <3>6, ArrivesOne
    <3>8. AllKnown(c2s', s)
      BY <1>2, <2>1, KnownGrows
    <3> QED  BY <1>1, <1>2, <2>1, <2>2, <2>3, <3>5, <3>7, <3>8 DEF Wired, streamVars
  <2>4. CASE Arrives(<<Element("failed", 0, 0)>>, <<>>) /\ UNCHANGED <<sessions, attached>>
    <3> DEFINE e == Element("failed", 0, 0)
    <3>1. e \in ElementSet /\ NamesSession(e, Len(sessions))
      BY <1>2, <1>5 DEF ElementName
    <3>2. Arrives(<<e>>, <<>>) \/ Arrives(<<>>, <<e>>)
      BY <2>4
    <3> HIDE DEF e
    <3>3. /\ moduleQ' \in Seq(ElementSet) /\ AllKnown(moduleQ', Len(sessions))
          /\ willQ' \in Seq(ElementSet)
      BY <1>6, <3>1, <3>2
    <3> QED  BY <1>1, <1>2, <2>1, <2>2, <2>4, <3>3 DEF Wired, streamVars
  <2> HIDE DEF Goal
  <2> QED  BY <1>8, <2>3, <2>4 DEF ServerHandlesEnable
<1>9. CASE ServerHandlesClose
  <2>1. c2s' \in Seq(ElementSet) /\ AllKnown(c2s', Len(sessions))
    BY <1>9, TakeType DEF ServerHandlesClose
  <2>2. sessions' \in Seq(Session) /\ Len(sessions') = Len(sessions)
    <3>1. CASE attached = 0
      BY <1>2, <1>9, <3>1 DEF ServerHandlesClose
    <3>2. CASE attached # 0
      <4> DEFINE t == [sessions[attached] EXCEPT !.alive = FALSE]
      <4>1. attached \in 1..Len(sessions) /\ sessions[attached] \in Session
        BY <1>1, <1>2, <3>2
      <4>2. t \in Session
        BY <4>1, SessionUpdates
      <4>3. sessions' = [sessions EXCEPT ![attached] = t]
        BY <1>9, <3>2 DEF ServerHandlesClose
      <4> HIDE DEF t
      <4> QED  BY <4>1, <4>2, <4>3, SessionChanged
    <3> QED  BY <3>1, <3>2
  <2>3. UNCHANGED <<streamVars, moduleQ, willQ, attached, received, delivered>>
    BY <1>9 DEF ServerHandlesClose
  <2> QED  BY <1>1, <1>2, <2>1, <2>2, <2>3 DEF Wired, streamVars
<1>10. CASE ServerHandlesRequest
  <2>1. c2s' \in Seq(ElementSet) /\ AllKnown(c2s', Len(sessions))
    BY <1>10, TakeType DEF ServerHandlesRequest
  <2>2. UNCHANGED <<streamVars, serverVars>>
    BY <1>10 DEF ServerHandlesRequest
  <2>3. CASE attached # 0 /\ Arrives(<<Element("a", HandledCount(attached), 0)>>, <<>>)
    <3> DEFINE e == Element("a", HandledCount(attached), 0)
    <3>1. e \in ElementSet /\ NamesSession(e, Len(sessions))
      BY <1>1, <1>2, <1>4, <1>5, <2>3 DEF ElementName
    <3>2. Arrives(<<e>>, <<>>) \/ Arrives(<<>>, <<e>>)
      BY <2>3
    <3> HIDE DEF e
    <3>3. /\ moduleQ' \in Seq(ElementSet) /\ AllKnown(moduleQ', Len(sessions))
          /\ willQ' \in Seq(ElementSet)
      BY <1>6, <3>1, <3>2
    <3> QED  BY <1>1, <1>2, <2>1, <2>2, <3>3 DEF Wired, streamVars, serverVars
  <2>4. CASE UNCHANGED <<moduleQ, willQ>>
    BY <1>1, <1>2, <2>1, <2>2, <2>4 DEF Wired, streamVars, serverVars
  <2> HIDE DEF Goal
  <2> QED  BY <1>10, <2>3, <2>4 DEF ServerHandlesRequest
<1>11. CASE ServerHandlesResume
  <2> DEFINE s == Head(c2s).sid
             h == Head(c2s).arg
             again == [i \in 1..(sessions[s].out - h) |-> Element("stanza", h + i, s)]
  <2>1. /\ c2s' \in Seq(ElementSet) /\ AllKnown(c2s', Len(sessions))
        /\ h \in Nat /\ s \in 1..Len(sessions) /\ s \in Nat
    BY <1>11, TakeType DEF ServerHandlesResume, NamesSession
  <2>2. UNCHANGED <<conns, sent, sessions, received, delivered>>
    BY <1>11 DEF ServerHandlesResume
  <2>3. sessions[s].out \in Nat
    BY <1>2, <2>1 DEF Session
  <2> DEFINE k == sessions[s].out - h
  <2>4. k \in Int
    BY <2>1, <2>3
  <2>5. \A i \in 1..k : Element("stanza", h + i, s) \in ElementSet
    BY <2>1, <2>4, ElementType DEF ElementName
  <2>6. again \in Seq(ElementSet)
    <3>1. again \in [1..k -> ElementSet]
      BY <2>5
    <3> HIDE DEF k, again
    <3> QED  BY <2>4, <3>1, SeqOfFunction
  <2>7. AllKnown(again, Len(sessions))
    BY DEF AllKnown, NamesSession, Element
  <2>8. HandledCount(s) \in Nat
    BY <1>4, <2>1
  <2> HIDE DEF again
  <2>9. CASE /\ attached' = s /\ conn' = "bound"
             /\ Arrives(<<Element("resumed", HandledCount(s), s)>>, again)
    <3> DEFINE e == Element("resumed", HandledCount(s), s)
               q == <<e>>
    <3>1. e \in ElementSet /\ NamesSession(e, Len(sessions))
      BY <1>5, <2>1, <2>8 DEF ElementName
    <3> HIDE DEF e
    <3>3. q \in Seq(ElementSet) /\ AllKnown(q, Len(sessions))
      BY <3>1 DEF AllKnown
    <3>4. Arrives(q, again)
      BY <2>9 DEF e
    <3> HIDE DEF q
    <3>2. /\ moduleQ' \in Seq(ElementSet) /\ AllKnown(moduleQ', Len(sessions))
          /\ willQ' \in Seq(ElementSet)
      BY <1>2, <2>6, <2>7, <3>3, <3>4, ArrivesType
    <3> HIDE DEF s
    <3> QED  BY <1>1, <1>2, <2>1, <2>2, <2>9, <3>2 DEF Wired, Conn
  <2>10. CASE /\ conn' = "bound" /\ UNCHANGED attached
              /\ Arrives(<<Element("resumeFailed", 0, s)>>, <<>>)
    <3> DEFINE e == Element("resumeFailed", 0, s)
    <3>1. e \in ElementSet /\ NamesSession(e, Len(sessions))
      BY <1>2, <1>5, <2>1 DEF ElementName
    <3>2. Arrives(<<e>>, <<>>) \/ Arrives(<<>>, <<e>>)
      BY <2>10
    <3> HIDE DEF e
    <3>3. /\ moduleQ' \in Seq(ElementSet) /\ AllKnown(moduleQ', Len(sessions))
          /\ willQ' \in Seq(ElementSet)
      BY <1>6, <3>1, <3>2
    <3> QED  BY <1>1, <1>2, <2>1, <2>2, <2>10, <3>3 DEF Wired, Conn
  <2>11. CASE UNCHANGED <<conn, attached, moduleQ, willQ>>
    BY <1>1, <1>2, <2>1, <2>2, <2>11 DEF Wired
  <2> HIDE DEF Goal, s
  <2> QED  BY <1>11, <2>9, <2>10, <2>11 DEF ServerHandlesResume, again, s, h
<1>12. CASE ServerSendsAck \/ ServerSendsRequest
  <2>1. UNCHANGED <<streamVars, c2s, serverVars>> /\ attached \in 1..Len(sessions)
    BY <1>1, <1>2, <1>12 DEF ServerSendsAck, ServerSendsRequest
  <2>2. PICK e \in {Element("a", HandledCount(attached), 0), Element("r", 0, 0)} :
           Arrives(<<e>>, <<>>)
    BY <1>12 DEF ServerSendsAck, ServerSendsRequest
  <2>3. e \in ElementSet /\ NamesSession(e, Len(sessions))
    BY <1>2, <1>4, <1>5, <2>1 DEF ElementName
  <2>4. /\ moduleQ' \in Seq(ElementSet) /\ AllKnown(moduleQ', Len(sessions))
        /\ willQ' \in Seq(ElementSet)
    BY <1>6, <2>2, <2>3
  <2> QED  BY <1>1, <1>2, <2>1, <2>4 DEF Wired, streamVars, serverVars
<1>13. CASE ServerSendsStanza
  <2>1. UNCHANGED <<streamVars, c2s, attached, received>> /\ delivered' \in Nat
    BY <1>1, <1>13 DEF ServerSendsStanza
  <2>2. ASSUME attached # 0,
               sessions' = [sessions EXCEPT ![attached].out = @ + 1],
               Arrives(<<>>, <<Element("stanza", sessions[attached].out + 1, attached)>>)
        PROVE  Goal
    <3> DEFINE t == [sessions[attached] EXCEPT !.out = @ + 1]
               e == Element("stanza", sessions[attached].out + 1, attached)
    <3>1. attached \in 1..Len(sessions) /\ sessions[attached] \in Session
      BY <1>1, <1>2, <2>2
    <3>8. t \in Session
      BY <3>1, SessionUpdates
    <3>9. sessions[attached].out \in Nat
      BY <3>1, SessionUpdates
    <3>2. t \in Session /\ sessions[attached].out + 1 \in Nat
      BY <3>8, <3>9
    <3>3. sessions' = [sessions EXCEPT ![attached] = t]
      BY <2>2
    <3>4. e \in ElementSet /\ NamesSession(e, Len(sessions))
      BY <1>2, <1>5, <3>1, <3>2 DEF ElementName
    <3>5. Arrives(<<>>, <<e>>)
      BY <2>2
    <3> HIDE DEF t, e
    <3>6. sessions' \in Seq(Session) /\ Len(sessions') = Len(sessions)
      BY <3>1, <3>2, <3>3, SessionChanged
    <3>7. /\ moduleQ' \in Seq(ElementSet) /\ AllKnown(moduleQ', Len(sessions))
          /\ willQ' \in Seq(ElementSet)
      BY <1>6, <3>4, <3>5
    <3> QED  BY <1>1, <1>2, <2>1, <3>6, <3>7 DEF Wired, streamVars
  <2>3. CASE Arrives(<<>>, <<Element("stanza", 0, 0)>>) /\ UNCHANGED sessions
    <3> DEFINE e == Element("stanza", 0, 0)
    <3>1. e \in ElementSet /\ NamesSession(e, Len(sessions))
      BY <1>2, <1>5 DEF ElementName
    <3>2. Arrives(<<e>>, <<>>) \/ Arrives(<<>>, <<e>>)
      BY <2>3
    <3> HIDE DEF e
    <3>3. /\ moduleQ' \in Seq(ElementSet) /\ AllKnown(moduleQ', Len(sessions))
          /\ willQ' \in Seq(ElementSet)
      BY <1>6, <3>1, <3>2
    <3> QED  BY <1>1, <1>2, <2>1, <2>3, <3>3 DEF Wired, streamVars
  <2>4. ASSUME NEW s \in DOMAIN sessions,
               sessions' = [sessions EXCEPT ![s].out = @ + 1], UNCHANGED <<moduleQ, willQ>>
        PROVE  Goal
    <3> DEFINE t == [sessions[s] EXCEPT !.out = @ + 1]
    <3>1. s \in 1..Len(sessions) /\ sessions[s] \in Session
      BY <1>2
    <3>2. t \in Session
      BY <3>1, SessionUpdates
    <3>3. sessions' = [sessions EXCEPT ![s] = t]
      BY <2>4
    <3> HIDE DEF t
    <3>4. sessions' \in Seq(Session) /\ Len(sessions') = Len(sessions)
      BY <3>1, <3>2, <3>3, SessionChanged
    <3> QED  BY <1>1, <1>2, <2>1, <2>4, <3>4 DEF Wired, streamVars
  <2> HIDE DEF Goal
  <2> QED  BY <1>13, <2>2, <2>3, <2>4 DEF ServerSendsStanza
<1>14. CASE ServerExpires
  <2>1. PICK s \in DOMAIN sessions : sessions' = [sessions EXCEPT ![s].alive = FALSE]
    BY <1>14 DEF ServerExpires
  <2> DEFINE t == [sessions[s] EXCEPT !.alive = FALSE]
  <2>2. s \in 1..Len(sessions) /\ sessions[s] \in Session
    BY <1>2
  <2>3. t \in Session
    BY <2>2, SessionUpdates
  <2>4. sessions' = [sessions EXCEPT ![s] = t]
    BY <2>1
  <2> HIDE DEF t
  <2>5. sessions' \in Seq(Session) /\ Len(sessions') = Len(sessions)
    BY <2>2, <2>3, <2>4, SessionChanged
  <2>6. UNCHANGED <<streamVars, c2s, moduleQ, willQ, attached, received, delivered>>
    BY <1>14 DEF ServerExpires
  <2> QED  BY <1>1, <1>2, <2>5, <2>6 DEF Wired, streamVars
<1> HIDE DEF Goal
<1> QED
  BY <1>7, <1>8, <1>9, <1>10, <1>11, <1>12, <1>13, <1>14 DEF Server

-----------------------------------------------------------------------------
(* The theorems.                                                              *)

LEMMA WorldType == Inv /\ Next => StreamTypeOK' /\ ServerTypeOK' /\ SessionsKnown'
<1> SUFFICES ASSUME Inv, Next PROVE StreamTypeOK' /\ ServerTypeOK' /\ SessionsKnown'
  OBVIOUS
<1>1. /\ sessions \in Seq(Session) /\ Len(sessions) \in Nat
      /\ conn \in Conn /\ conns \in Nat /\ sent \in Nat
      /\ received \subseteq Nat /\ delivered \in Nat
      /\ attached \in 0..Len(sessions) /\ store.id \in 0..Len(sessions)
  BY LenProperties DEF Inv, TypeOK, StreamTypeOK, ServerTypeOK, SessionsKnown, Conn
<1>2. /\ sessions' \in Seq(Session) /\ Len(sessions) <= Len(sessions')
      /\ Wired(Len(sessions'))
      /\ conn' \in Conn /\ conns' \in Nat /\ sent' \in Nat
      /\ received' \subseteq Nat /\ delivered' \in Nat
      /\ attached' \in 0..Len(sessions')
  <2>1. CASE HandleCallback
    <3>1. Wired(Len(sessions)) /\ UNCHANGED <<streamVars, serverVars>>
      BY <2>1, CallbackWired
    <3>2. UNCHANGED <<conn, conns, sent, sessions, received, delivered, attached>>
      BY <3>1 DEF streamVars, serverVars
    <3>3. Wired(Len(sessions'))
      BY <3>1, <3>2 DEF Wired
    <3> QED  BY <1>1, <3>2, <3>3
  <2>2. CASE Drain \/ Delegates \/ Timers \/ Stream \/ Application
    <3>1. /\ Wired(Len(sessions))
          /\ conn' \in Conn /\ conns' \in Nat /\ sent' \in Nat
          /\ UNCHANGED <<sessions, received, delivered>> /\ attached' \in {attached, 0}
      BY <2>2, ClientWired
    <3>2. Wired(Len(sessions'))
      BY <3>1 DEF Wired
    <3> QED  BY <1>1, <3>1, <3>2
  <2>3. CASE Server
    BY <2>3, ServerWired
  <2> QED  BY <2>1, <2>2, <2>3 DEF Next
<1>3. Len(sessions') \in Nat
  BY <1>2, LenProperties
<1>4. store'.id \in 0..Len(sessions')
  <2>1. CASE store'.id \in {store.id, 0}
    BY <1>1, <1>2, <1>3, <2>1
  <2>2. CASE HandleEnabled /\ store'.id = Head(moduleQ).arg
    <3>1. /\ NamesSession(Head(moduleQ), Len(sessions))
          /\ Head(moduleQ).name = "enabled"
      BY <2>2, NextIsType DEF HandleEnabled
    <3>2. Head(moduleQ).arg \in 0..Len(sessions)
      BY <3>1 DEF NamesSession
    <3> QED  BY <1>1, <1>2, <1>3, <2>2, <3>2
  <2> QED  BY <2>1, <2>2, StoreType
<1>5. StreamTypeOK'
  BY <1>2 DEF StreamTypeOK, Wired, Conn
<1>6. ServerTypeOK'
  BY <1>2, <1>3 DEF ServerTypeOK
<1>7. SessionsKnown'
  BY <1>2, <1>4 DEF SessionsKnown, Wired
<1> QED  BY <1>5, <1>6, <1>7

LEMMA InvInitially == Init => Inv /\ OffsetInRange
<1> SUFFICES ASSUME Init PROVE Inv /\ OffsetInRange
  OBVIOUS
<1>1. \A S : <<>> \in Seq(S)
  BY EmptySeq
<1>2. StreamTypeOK /\ ServerTypeOK
  BY <1>1 DEF Init, StreamTypeOK, ServerTypeOK
<1>3. FlagTypeOK /\ OutTypeOK
  BY <1>1 DEF Init, FlagTypeOK, OutTypeOK
<1>4. InTypeOK /\ HistTypeOK
  <2>1. <<>> \in Seq(IncomingItem) /\ <<>> \in Seq(Nat \X Nat)
    BY <1>1
  <2>2. unackedByClient \in Seq(IncomingItem) /\ pendingHandled \in Seq(Nat \X Nat)
    BY <2>1, Zenon DEF Init
  <2>3. /\ lastHandledByClient \in Nat /\ lastAckOffset \in Nat /\ outstandingIds \in Int
        /\ objects \in Nat
        /\ handledQueries \subseteq IncomingItem /\ handledAnswers \subseteq IncomingItem
    BY SMT DEF Init
  <2>4. autoAckTimer \in BOOLEAN /\ ackResponseTimer \in BOOLEAN
    BY Zenon DEF Init
  <2>5. InTypeOK
    BY <2>2, <2>3, <2>4 DEF InTypeOK
  <2> QED  BY <2>5 DEF Init, HistTypeOK
<1>5. store \in Storage
  BY <1>1 DEF Init, EmptyStore, Storage
<1>6. SessionsKnown
  BY KnownEmpty DEF Init, SessionsKnown, EmptyStore, AllKnown
<1>7. OffsetInRange
  BY DEF Init, OffsetInRange
<1> QED  BY <1>2, <1>3, <1>4, <1>5, <1>6, <1>7 DEF Inv, TypeOK

LEMMA InvPreserved == Inv /\ [Next]_vars => Inv' /\ (OffsetInRange => OffsetInRange')
<1> SUFFICES ASSUME Inv, [Next]_vars PROVE Inv' /\ (OffsetInRange => OffsetInRange')
  OBVIOUS
<1>1. CASE Next
  <2>1. StreamTypeOK' /\ ServerTypeOK' /\ SessionsKnown'
    BY <1>1, WorldType
  <2>2. FlagTypeOK' /\ InTypeOK' /\ HistTypeOK'
    BY <1>1, FlagType, InType, HistType
  <2>3. OutTypeOK' /\ (OffsetInRange => OffsetInRange')
    BY <1>1, OutType
  <2>4. store' \in Storage
    BY <1>1, StoreType
  <2>5. Inv'
    BY <2>1, <2>2, <2>3, <2>4 DEF Inv, TypeOK
  <2> QED  BY <2>3, <2>5
<1>2. CASE UNCHANGED vars
  <2>1. /\ StreamTypeOK' /\ ServerTypeOK' /\ FlagTypeOK' /\ SessionsKnown'
    BY <1>2 DEF vars, streamVars, serverVars, flagVars, Inv, TypeOK, StreamTypeOK, ServerTypeOK,
       FlagTypeOK, SessionsKnown, AllKnown
  <2>2. OutTypeOK' /\ InTypeOK'
    BY <1>2 DEF vars, outVars, inVars, Inv, TypeOK, OutTypeOK, InTypeOK
  <2>3. HistTypeOK' /\ store' \in Storage
    BY <1>2 DEF vars, histVars, Inv, TypeOK, HistTypeOK
  <2>4. OffsetInRange => OffsetInRange'
    BY <1>2 DEF vars, outVars, OffsetInRange
  <2>5. Inv'
    BY <2>1, <2>2, <2>3 DEF Inv, TypeOK
  <2> QED  BY <2>4, <2>5
<1> QED  BY <1>1, <1>2

\* Every variable keeps its type, whatever the application, the delegates, the server and
\* the network do: an h, an id and a session named anywhere belong to what they count.
THEOREM TypeCorrect == Spec => []TypeOK
<1>1. Init => Inv
  BY InvInitially
<1>2. Inv /\ [Next]_vars => Inv'
  BY InvPreserved
<1>3. Inv => TypeOK
  BY DEF Inv
<1> QED  BY <1>1, <1>2, <1>3, PTL DEF Spec

\* The unsigned subtraction in maybeRequestAck never wraps: lastRequestOffset stays within
\* the stanzas that wait for an ack, with any number of stanzas, connections and crashes and
\* for every width of h.
THEOREM OffsetCorrect == Spec => []OffsetInRange
<1>1. Init => Inv /\ OffsetInRange
  BY InvInitially
<1>2. Inv /\ OffsetInRange /\ [Next]_vars => (Inv /\ OffsetInRange)'
  BY InvPreserved
<1> QED  BY <1>1, <1>2, PTL DEF Spec

-----------------------------------------------------------------------------
(* The timers are armed.                                                       *)
(*                                                                             *)
(* That a stanza which nothing asks about has a timer is easy to see while a   *)
(* session goes on.  What needs an invariant is how a session begins: when     *)
(* <enabled/> or <resumed/> makes the module started, the counters that were   *)
(* cleared before must still be clear.  For <resumed/> that depends on what    *)
(* stands on the moduleQueue: the invariant QueueInv says that nothing of the  *)
(* last connection is left on it when the next one binds.                      *)

Idle     == ~isStarted /\ ~enableSent
OutClean == unackedByServer = <<>> /\ lastRequestOffset = 0
InClean  == unackedByClient = <<>> /\ lastAckOffset = 0
Restored == Idle /\ OutClean /\ InClean

EndIsLast == \A i \in DOMAIN moduleQ :
                moduleQ[i].name = "didDisconnect" => i = Len(moduleQ) /\ conn = "closed"

ClosedEnds ==
    conn = "closed" /\ moduleQ # <<>> => moduleQ[Len(moduleQ)].name = "didDisconnect"

BindingIsQuiet == conn = "binding" => moduleQ = <<>> /\ c2s = <<>> /\ attached = 0

ResumingIsQuiet ==
    conn = "resuming" =>
        /\ attached = 0
        /\ \A i \in DOMAIN c2s : c2s[i].name = "resume"
        /\ moduleQ # <<>> => Len(moduleQ) = 1 /\ moduleQ[1].name = "sendResume" /\ c2s = <<>>

ResumedIsFirst == \A i \in DOMAIN moduleQ : moduleQ[i].name = "resumed" => i = 1

QueueInv == EndIsLast /\ ClosedEnds /\ BindingIsQuiet /\ ResumingIsQuiet /\ ResumedIsFirst

\* No connection that the module has heard of is in use yet, and the answer to a <resume/>
\* that was written is on its way.
Quiet   == (conn = "closed" /\ moduleQ = <<>>) \/ conn \in {"binding", "resuming"}
Resumes == (conn = "resuming" /\ moduleQ = <<>>) \/ Holds(moduleQ, {"resumed"})

ArmedInv ==
    /\ ~(enableQueued /\ enableSent)
    /\ Quiet => Idle
    /\ Resumes => Restored
    /\ (enableQueued \/ enableSent) /\ ~isStarted => InClean
    /\ enableQueued /\ Idle => OutClean
    /\ AutoRequestArmed /\ AutoAckArmed

-----------------------------------------------------------------------------
(* The moduleQueue.                                                           *)

LEMMA QueueTypes == ASSUME Inv PROVE moduleQ \in Seq(ElementSet) /\ c2s \in Seq(ElementSet)
BY DEF Inv, TypeOK, StreamTypeOK

\* The callback at the head runs.
LEMMA TakenQueue ==
    ASSUME Inv, QueueInv, moduleQ # <<>>, moduleQ' = Tail(moduleQ), UNCHANGED <<conn, attached>>,
           conn = "resuming" => \A i \in DOMAIN c2s' : c2s'[i].name = "resume"
    PROVE  QueueInv'
<1>1. /\ Len(moduleQ) \in Nat \ {0} /\ DOMAIN moduleQ = 1..Len(moduleQ)
      /\ Len(moduleQ') = Len(moduleQ) - 1 /\ DOMAIN moduleQ' = 1..(Len(moduleQ) - 1)
      /\ \A i \in DOMAIN moduleQ' : moduleQ'[i] = moduleQ[i + 1]
      /\ moduleQ' # <<>> => Len(moduleQ) > 1
  BY QueueTypes
<1>2. EndIsLast'
  BY <1>1 DEF QueueInv, EndIsLast
<1>3. ClosedEnds'
  BY <1>1 DEF QueueInv, ClosedEnds
<1>4. BindingIsQuiet'
  BY DEF QueueInv, BindingIsQuiet
<1>5. ResumingIsQuiet'
  BY <1>1 DEF QueueInv, ResumingIsQuiet
<1>6. ResumedIsFirst'
  BY <1>1 DEF QueueInv, ResumedIsFirst
<1> QED  BY <1>2, <1>3, <1>4, <1>5, <1>6 DEF QueueInv

\* A step that leaves the queue alone.
LEMMA KeptQueue ==
    ASSUME QueueInv, UNCHANGED <<conn, moduleQ>>,
           conn \in {"binding", "resuming"} => UNCHANGED <<c2s, attached>>
    PROVE  QueueInv' /\ (Quiet' <=> Quiet) /\ (Resumes' <=> Resumes)
<1>1. QueueInv'
  BY DEF QueueInv, EndIsLast, ClosedEnds, BindingIsQuiet, ResumingIsQuiet, ResumedIsFirst
<1>2. (Quiet' <=> Quiet) /\ (Resumes' <=> Resumes)
  BY DEF Quiet, Resumes, Holds
<1> QED  BY <1>1, <1>2

\* A bound stream posts callbacks.
LEMMA PostedQueue ==
    ASSUME QueueInv, conn = "bound", conn' = "bound",
           NEW T, moduleQ \in Seq(T), NEW e \in Seq(T), moduleQ' = moduleQ \o e,
           \A i \in DOMAIN e : e[i].name \notin {"didDisconnect", "resumed"}
    PROVE  QueueInv' /\ (Holds(moduleQ', {"resumed"}) => Holds(moduleQ, {"resumed"}))
<1>1. /\ DOMAIN moduleQ' = 1..(Len(moduleQ) + Len(e)) /\ DOMAIN moduleQ = 1..Len(moduleQ)
      /\ Len(moduleQ) \in Nat /\ Len(e) \in Nat /\ DOMAIN e = 1..Len(e)
      /\ \A i \in DOMAIN moduleQ' : moduleQ'[i] = IF i <= Len(moduleQ) THEN moduleQ[i]
                                                  ELSE e[i - Len(moduleQ)]
  OBVIOUS
<1>2. \A i \in DOMAIN moduleQ' :
         moduleQ'[i].name \in {"didDisconnect", "resumed"} =>
            i \in DOMAIN moduleQ /\ moduleQ'[i] = moduleQ[i]
  BY <1>1
<1>3. EndIsLast' /\ ResumedIsFirst'
  BY <1>2 DEF QueueInv, EndIsLast, ResumedIsFirst
<1>4. ClosedEnds' /\ BindingIsQuiet' /\ ResumingIsQuiet'
  BY DEF ClosedEnds, BindingIsQuiet, ResumingIsQuiet
<1>5. Holds(moduleQ', {"resumed"}) => Holds(moduleQ, {"resumed"})
  BY <1>2 DEF Holds
<1> QED  BY <1>3, <1>4, <1>5 DEF QueueInv

\* The types of what is posted do not matter here.
LEMMA WiderSeq == ASSUME NEW S, NEW T, S \subseteq T, NEW q \in Seq(S) PROVE q \in Seq(T)
OBVIOUS

LEMMA PostedOne ==
    ASSUME Inv, QueueInv, conn = "bound", conn' = "bound", NEW e,
           moduleQ' = Append(moduleQ, e), e.name \notin {"didDisconnect", "resumed"}
    PROVE  QueueInv' /\ (Holds(moduleQ', {"resumed"}) => Holds(moduleQ, {"resumed"}))
<1> DEFINE q == <<e>>
           T == ElementSet \cup {e}
<1>1. q \in Seq(T) /\ \A i \in DOMAIN q : q[i] = e
  OBVIOUS
<1>2. moduleQ \in Seq(T)
  <2> HIDE DEF T
  <2> QED  BY QueueTypes, WiderSeq DEF T
<1>3. moduleQ' = moduleQ \o q
  BY QueueTypes
<1> HIDE DEF q, T
<1> QED  BY <1>1, <1>2, <1>3, PostedQueue

\* What the server sends on a connection that is bound, or has been lost.
LEMMA ArrivedOne ==
    ASSUME Inv, QueueInv, conn \in {"bound", "closed"}, UNCHANGED conn,
           NEW e, e.name \notin {"didDisconnect", "resumed"},
           Arrives(<<e>>, <<>>) \/ Arrives(<<>>, <<e>>)
    PROVE  QueueInv' /\ (Quiet' => Quiet) /\ (Resumes' => Resumes)
<1>1. CASE UNCHANGED moduleQ
  BY <1>1, KeptQueue
<1>2. CASE moduleQ' # moduleQ
  <2>1. conn = "bound"
    BY <1>2 DEF Arrives
  <2>2. moduleQ' = Append(moduleQ, e)
    BY <1>2, QueueTypes DEF Arrives
  <2> QED  BY <2>1, <2>2, PostedOne DEF Quiet, Resumes
<1> QED  BY <1>1, <1>2

\* Before a stream is bound the server has nothing to read but a <resume/>.
LEMMA TakesWhenBound ==
    ASSUME Inv, QueueInv, NEW name, Take(name), name # "resume"
    PROVE  conn \in {"bound", "closed"}
<1>1. c2s # <<>> /\ c2s[1].name # "resume" /\ 1 \in DOMAIN c2s
  BY QueueTypes DEF Take
<1>2. conn \in {"closed", "binding", "resuming", "bound"}
  BY DEF Inv, TypeOK, StreamTypeOK
<1> QED  BY <1>1, <1>2 DEF QueueInv, BindingIsQuiet, ResumingIsQuiet

LEMMA AttachedIsBound == ASSUME Inv, QueueInv, attached # 0 PROVE conn \in {"bound", "closed"}
BY DEF QueueInv, BindingIsQuiet, ResumingIsQuiet, Inv, TypeOK, StreamTypeOK

\* The answer to a <resume/> is the first callback of the bound stream.
LEMMA ResumeAnswered ==
    ASSUME QueueInv, conn = "resuming", moduleQ = <<>>, conn' = "bound",
           NEW T, NEW e \in T, NEW s \in Seq(T), Arrives(<<e>>, s),
           e.name # "didDisconnect", \A i \in DOMAIN s : s[i].name = "stanza"
    PROVE  QueueInv' /\ ~Quiet' /\ Resumes
<1> DEFINE q == <<e>>
<1>1. q \in Seq(T) /\ Len(q) = 1 /\ q[1] = e /\ moduleQ \o q = q
  OBVIOUS
<1>2. moduleQ' = q \/ moduleQ' = q \o s
  BY <1>1 DEF Arrives
<1> HIDE DEF q
<1>3. \A i \in DOMAIN moduleQ' : (i = 1 /\ moduleQ'[i] = e) \/ moduleQ'[i].name = "stanza"
  <2>1. CASE moduleQ' = q
    BY <1>1, <2>1
  <2>2. CASE moduleQ' = q \o s
    <3>1. \A i \in DOMAIN (q \o s) : \/ i = 1 /\ (q \o s)[i] = e
                                     \/ i - 1 \in DOMAIN s /\ (q \o s)[i] = s[i - 1]
      <4>1. /\ q \o s \in Seq(T) /\ Len(q \o s) = Len(q) + Len(s)
            /\ \A i \in 1..Len(q) + Len(s) :
                  (q \o s)[i] = IF i <= Len(q) THEN q[i] ELSE s[i - Len(q)]
        BY <1>1, ConcatProperties
      <4>2. Len(s) \in Nat /\ DOMAIN s = 1..Len(s) /\ DOMAIN (q \o s) = 1..(1 + Len(s))
        BY <1>1, <4>1, LenProperties
      <4> QED  BY <1>1, <4>1, <4>2
    <3> QED  BY <2>2, <3>1
  <2> QED  BY <1>2, <2>1, <2>2
<1>4. EndIsLast' /\ ResumedIsFirst'
  BY <1>3 DEF EndIsLast, ResumedIsFirst
<1>5. ClosedEnds' /\ BindingIsQuiet' /\ ResumingIsQuiet'
  BY DEF ClosedEnds, BindingIsQuiet, ResumingIsQuiet
<1> QED  BY <1>4, <1>5 DEF QueueInv, Quiet, Resumes

LEMMA ServerResumeQueue ==
    ASSUME Inv, QueueInv, ServerHandlesResume
    PROVE  QueueInv' /\ (Quiet' => Quiet) /\ (Resumes' => Resumes)
<1> DEFINE s == Head(c2s).sid
           h == Head(c2s).arg
           k == sessions[s].out - h
           again == [i \in 1..k |-> Element("stanza", h + i, s)]
           resumed == Element("resumed", HandledCount(s), s)
           failed == Element("resumeFailed", 0, s)
           T == {resumed, failed} \cup {Element("stanza", h + i, s) : i \in 1..k}
<1>1. Take("resume") /\ c2s # <<>>
  BY DEF ServerHandlesResume, Take
<1>2. k \in Int
  <2>1. s \in 1..Len(sessions) /\ h \in Nat
    BY <1>1, TakeType DEF NamesSession
  <2>2. sessions[s] \in Session
    BY <2>1 DEF Inv, TypeOK, ServerTypeOK
  <2> QED  BY <2>1, <2>2 DEF Session
<1>3. again \in Seq(T) /\ \A i \in DOMAIN again : again[i].name = "stanza"
  <2>1. again \in [1..k -> T]
    OBVIOUS
  <2>2. again \in Seq(T)
    <3> HIDE DEF k, again, T
    <3> QED  BY <1>2, <2>1, SeqOfFunction
  <2> QED  BY <2>2 DEF Element
<1>4. /\ <<>> \in Seq(T) /\ \A i \in DOMAIN <<>> : <<>>[i].name = "stanza"
      /\ resumed \in T /\ failed \in T
      /\ resumed.name # "didDisconnect" /\ failed.name # "didDisconnect"
  BY DEF Element
<1>5. CASE conn = "resuming"
  <2>1. moduleQ = <<>>
    BY <1>1, <1>5 DEF QueueInv, ResumingIsQuiet
  <2>2. conn' = "bound" /\ (Arrives(<<resumed>>, again) \/ Arrives(<<failed>>, <<>>))
    BY <1>5 DEF ServerHandlesResume
  <2> HIDE DEF resumed, failed, again, T
  <2> QED  BY <1>3, <1>4, <1>5, <2>1, <2>2, ResumeAnswered
<1>6. CASE conn # "resuming"
  <2>1. UNCHANGED <<conn, attached, moduleQ>>
    BY <1>6 DEF ServerHandlesResume
  <2>2. conn # "binding"
    BY <1>1 DEF QueueInv, BindingIsQuiet
  <2> QED  BY <1>6, <2>1, <2>2, KeptQueue
<1> QED  BY <1>5, <1>6

LEMMA ServerQueue ==
    ASSUME Inv, QueueInv, Server
    PROVE  QueueInv' /\ (Quiet' => Quiet) /\ (Resumes' => Resumes)
<1>1. \A name, arg, sid : Element(name, arg, sid).name = name
  BY DEF Element
<1>2. CASE ServerHandlesStanza \/ ServerHandlesClose \/ ServerExpires
  <2>1. UNCHANGED <<conn, attached, moduleQ>>
    BY <1>2 DEF ServerHandlesStanza, ServerHandlesClose, ServerExpires, streamVars
  <2>2. CASE UNCHANGED c2s
    BY <2>1, <2>2, KeptQueue
  <2>3. CASE Take("stanza") \/ Take("close")
    <3>1. conn \in {"bound", "closed"}
      BY <2>3, TakesWhenBound
    <3> QED  BY <2>1, <3>1, KeptQueue
  <2> QED  BY <1>2, <2>2, <2>3 DEF ServerHandlesStanza, ServerHandlesClose, ServerExpires
<1>3. CASE ServerHandlesEnable
  <2>1. conn \in {"bound", "closed"} /\ UNCHANGED conn
    BY <1>3, TakesWhenBound DEF ServerHandlesEnable, streamVars
  <2>2. CASE Arrives(<<Element("failed", 0, 0)>>, <<>>)
    BY <1>1, <2>1, <2>2, ArrivedOne
  <2>3. CASE \E arg, sid : Arrives(<<Element("enabled", arg, sid)>>, <<>>)
    <3>1. PICK arg, sid : Arrives(<<Element("enabled", arg, sid)>>, <<>>)
      BY <2>3
    <3> QED  BY <1>1, <2>1, <3>1, ArrivedOne
  <2> QED  BY <1>3, <2>2, <2>3, Zenon DEF ServerHandlesEnable
<1>4. CASE ServerHandlesRequest
  <2>1. conn \in {"bound", "closed"} /\ UNCHANGED conn
    BY <1>4, TakesWhenBound DEF ServerHandlesRequest, streamVars
  <2>2. CASE Arrives(<<Element("a", HandledCount(attached), 0)>>, <<>>)
    BY <1>1, <2>1, <2>2, ArrivedOne
  <2>3. CASE UNCHANGED moduleQ
    BY <2>1, <2>3, KeptQueue
  <2> QED  BY <1>4, <2>2, <2>3 DEF ServerHandlesRequest
<1>5. CASE ServerHandlesResume
  BY <1>5, ServerResumeQueue
<1>6. CASE ServerSendsAck \/ ServerSendsRequest
  <2>1. conn \in {"bound", "closed"} /\ UNCHANGED conn
    BY <1>6 DEF ServerSendsAck, ServerSendsRequest, streamVars
  <2>2. PICK e : e.name \in {"a", "r"} /\ Arrives(<<e>>, <<>>)
    BY <1>1, <1>6 DEF ServerSendsAck, ServerSendsRequest
  <2> QED  BY <2>1, <2>2, ArrivedOne
<1>7. CASE ServerSendsStanza
  <2>1. UNCHANGED <<conn, c2s, attached>>
    BY <1>7 DEF ServerSendsStanza, streamVars
  <2>2. CASE UNCHANGED moduleQ
    BY <2>1, <2>2, KeptQueue
  <2>3. CASE moduleQ' # moduleQ
    <3>1. conn \in {"bound", "closed"}
      BY <1>7, <2>3, AttachedIsBound DEF ServerSendsStanza
    <3>2. PICK e : e.name = "stanza" /\ Arrives(<<>>, <<e>>)
      BY <1>1, <1>7, <2>3 DEF ServerSendsStanza
    <3> QED  BY <2>1, <3>1, <3>2, ArrivedOne
  <2> QED  BY <2>2, <2>3
<1> QED  BY <1>2, <1>3, <1>4, <1>5, <1>6, <1>7 DEF Server

\* Between two connections the queue runs empty.
LEMMA StreamQueue ==
    ASSUME Inv, QueueInv,
           Connect \/ StartCustomBinding \/ StartStandardBinding \/ ContinueReceive
             \/ Disconnect \/ SendStanza
    PROVE  QueueInv' /\ (Quiet' => Quiet) /\ (Resumes' => Resumes)
<1>1. \A name, arg, sid : Element(name, arg, sid).name = name
  BY DEF Element
<1>2. moduleQ \in Seq(ElementSet)
  BY QueueTypes
<1>3. CASE Connect
  <2>1. moduleQ = <<>>
    <3> SUFFICES ASSUME moduleQ # <<>> PROVE FALSE
      OBVIOUS
    <3>1. Len(moduleQ) \in DOMAIN moduleQ
      BY <1>2
    <3> QED  BY <1>3, <3>1 DEF Connect, Holds, QueueInv, ClosedEnds
  <2>2. conn = "closed" /\ conn' = "binding" /\ moduleQ' = <<>> /\ c2s' = <<>> /\ attached' = 0
    BY <1>3, <2>1 DEF Connect
  <2>3. DOMAIN moduleQ' = {}
    BY <2>2
  <2> QED  BY <2>1, <2>2, <2>3 DEF QueueInv, EndIsLast, ClosedEnds, BindingIsQuiet,
              ResumingIsQuiet, ResumedIsFirst, Quiet, Resumes, Holds
<1>4. CASE StartCustomBinding
  <2>1. /\ moduleQ = <<>> /\ c2s' = <<>> /\ attached' = 0
        /\ conn = "binding" /\ conn' = "resuming"
    BY <1>4 DEF StartCustomBinding, QueueInv, BindingIsQuiet, serverVars
  <2> DEFINE e == Element("sendResume", 0, store.id)
  <2>2. moduleQ' = Append(moduleQ, e)
    BY <1>4 DEF StartCustomBinding
  <2> HIDE DEF e
  <2>3. Len(moduleQ') = 1 /\ DOMAIN moduleQ' = {1} /\ moduleQ'[1] = e
    BY <2>1, <2>2
  <2>4. e.name = "sendResume"
    BY <1>1 DEF e
  <2>5. moduleQ' # <<>> /\ DOMAIN c2s' = {}
    BY <2>1, <2>3
  <2> QED  BY <2>1, <2>3, <2>4, <2>5 DEF QueueInv, EndIsLast, ClosedEnds, BindingIsQuiet,
              ResumingIsQuiet, ResumedIsFirst, Quiet, Resumes, Holds
<1>5. CASE StartStandardBinding
  <2>1. moduleQ' = <<>> /\ conn' = "bound"
    BY <1>5 DEF StartStandardBinding, QueueInv, BindingIsQuiet
  <2>2. DOMAIN moduleQ' = {}
    BY <2>1
  <2> QED  BY <2>1, <2>2 DEF QueueInv, EndIsLast, ClosedEnds, BindingIsQuiet,
              ResumingIsQuiet, ResumedIsFirst, Quiet, Resumes, Holds
<1>6. CASE ContinueReceive
  <2>1. UNCHANGED <<conn, attached, c2s>>
    BY <1>6 DEF ContinueReceive, streamVars, serverVars
  <2>2. CASE UNCHANGED moduleQ
    BY <2>1, <2>2, KeptQueue
  <2>3. CASE conn = "bound" /\ ~UNCHANGED moduleQ
    <3>1. PICK name \in {"stanza", "filtered"} :
            moduleQ' = Append(moduleQ, [Head(willQ) EXCEPT !.name = name])
      BY <1>6, <2>3 DEF ContinueReceive
    <3>2. Head(willQ) \in ElementSet
      BY <1>6, HeadTailProperties DEF ContinueReceive, Inv, TypeOK, StreamTypeOK
    <3>3. [Head(willQ) EXCEPT !.name = name].name = name
      BY <3>2 DEF ElementSet
    <3> QED  BY <2>1, <2>3, <3>1, <3>3, PostedOne DEF Quiet, Resumes
  <2> QED  BY <1>6, <2>2, <2>3 DEF ContinueReceive
<1>7. CASE SendStanza
  <2>1. /\ conn = "bound" /\ UNCHANGED conn
        /\ moduleQ' = Append(moduleQ, Element("didSend", sent + 1, 0))
    BY <1>7 DEF SendStanza
  <2> QED  BY <1>1, <2>1, PostedOne DEF Quiet, Resumes
<1>8. CASE Disconnect
  <2> DEFINE a == Element("closing", 0, 0)
             b == Element("didDisconnect", 0, 0)
  <2>1. a.name = "closing" /\ b.name = "didDisconnect" /\ a \in ElementSet /\ b \in ElementSet
    BY <1>1, ElementType DEF ElementName
  <2>2. conn # "closed" /\ conn' = "closed"
    BY <1>8 DEF Disconnect
  <2>3. moduleQ' = Append(moduleQ, b) \/ moduleQ' = moduleQ \o <<a, b>>
    BY <1>8 DEF Disconnect
  <2> HIDE DEF a, b
  <2>4. moduleQ' = Append(moduleQ, b) \/ moduleQ' = Append(Append(moduleQ, a), b)
    BY <1>2, <2>1, <2>3
  <2>5. /\ Len(moduleQ') \in DOMAIN moduleQ' /\ moduleQ'[Len(moduleQ')] = b /\ moduleQ' # <<>>
        /\ \A i \in DOMAIN moduleQ' :
              \/ i = Len(moduleQ') \/ moduleQ'[i] = a
              \/ i \in DOMAIN moduleQ /\ moduleQ'[i] = moduleQ[i]
    <3>1. CASE moduleQ' = Append(moduleQ, b)
      BY <1>2, <2>1, <3>1
    <3>2. CASE moduleQ' = Append(Append(moduleQ, a), b)
      BY <1>2, <2>1, <3>2
    <3> QED  BY <2>4, <3>1, <3>2
  <2>6. \A i \in DOMAIN moduleQ : moduleQ[i].name # "didDisconnect"
    BY <2>2 DEF QueueInv, EndIsLast
  <2>7. EndIsLast' /\ ResumedIsFirst'
    BY <2>1, <2>2, <2>5, <2>6 DEF QueueInv, EndIsLast, ResumedIsFirst
  <2>8. ClosedEnds' /\ BindingIsQuiet' /\ ResumingIsQuiet'
    BY <2>1, <2>2, <2>5 DEF ClosedEnds, BindingIsQuiet, ResumingIsQuiet
  <2>9. Holds(moduleQ', {"resumed"}) => Holds(moduleQ, {"resumed"})
    BY <2>1, <2>5 DEF Holds
  <2> QED  BY <2>2, <2>5, <2>7, <2>8, <2>9 DEF QueueInv, Quiet, Resumes
<1> QED  BY <1>3, <1>4, <1>5, <1>6, <1>7, <1>8

\* A step of the module that is no callback.
LEMMA ModuleStepQueue ==
    ASSUME Inv, QueueInv, Drain \/ Delegates \/ Timers \/ CallRequestAck
    PROVE  QueueInv' /\ (Quiet' => Quiet) /\ (Resumes' => Resumes)
<1>1. UNCHANGED <<conn, attached, moduleQ>>
  BY DEF Drain, DrainAck, DrainBlocked, DrainDone, Delegates, AnswerStanzaId, DelegateDecides,
     AnswerHandled, MarkHandledStanzaId, Timers, AutoRequestTimerFires, CallSendAck,
     CallRequestAck, streamVars, serverVars
<1>2. conn # "bound" => UNCHANGED c2s
  BY DEF Drain, DrainAck, DrainBlocked, DrainDone, Delegates, AnswerStanzaId, DelegateDecides,
     AnswerHandled, MarkHandledStanzaId, Timers, AutoRequestTimerFires, CallSendAck,
     CallRequestAck, RequestAck, Written
<1> QED  BY <1>1, <1>2, KeptQueue

LEMMA EnableQueue ==
    ASSUME Inv, QueueInv, Enable
    PROVE  QueueInv' /\ (Quiet' => Quiet) /\ ~Resumes'
<1>1. /\ UNCHANGED <<conn, attached>> /\ conn \in {"bound", "closed"}
      /\ ~Holds(moduleQ, {"resumed", "resumeFailed"})
  BY DEF Enable, streamVars, serverVars
<1>2. ~Resumes
  BY <1>1 DEF Resumes, Holds
<1>3. CASE conn = "bound"
  <2>1. Element("didSendEnable", 0, 0).name = "didSendEnable"
    BY DEF Element
  <2>2. moduleQ' = Append(moduleQ, Element("didSendEnable", 0, 0))
    BY <1>3 DEF Enable
  <2> QED  BY <1>1, <1>2, <1>3, <2>1, <2>2, PostedOne DEF Quiet, Resumes
<1>4. CASE conn = "closed"
  <2>1. UNCHANGED moduleQ
    BY <1>4 DEF Enable
  <2> QED  BY <1>1, <1>2, <1>4, <2>1, KeptQueue
<1> QED  BY <1>1, <1>3, <1>4

LEMMA CrashQueue == ASSUME Crash PROVE QueueInv' /\ ~Resumes'
<1>1. conn' = "closed" /\ moduleQ' = <<>> /\ DOMAIN moduleQ' = {}
  BY DEF Crash
<1> QED  BY <1>1 DEF QueueInv, EndIsLast, ClosedEnds, BindingIsQuiet, ResumingIsQuiet,
            ResumedIsFirst, Resumes, Holds

\* A callback runs.  When it is done nothing is quiet, unless it was the last of a connection
\* that is closed or the first of one that resumes.
LEMMA CallbackQueue ==
    ASSUME Inv, QueueInv, HandleCallback
    PROVE  /\ QueueInv'
           /\ Quiet' => HandleDidDisconnect \/ (HandleSendResume /\ Quiet)
           /\ Resumes' => HandleSendResume /\ Quiet
<1>1. /\ QueueFree /\ moduleQ # <<>> /\ moduleQ' = Tail(moduleQ) /\ UNCHANGED <<conn, attached>>
  BY DEF HandleCallback, HandleDidSend, HandleAck, HandleStanza, HandleFiltered, HandleRequest,
     HandleDidSendEnable, HandleEnabled, HandleFailed, HandleSendResume, HandleResumed,
     HandleResumeFailed, HandleClosing, HandleDidDisconnect, Next_is, streamVars, serverVars
<1>2. /\ Head(moduleQ) = moduleQ[1] /\ 1 \in DOMAIN moduleQ /\ Len(moduleQ) \in Nat
      /\ Len(moduleQ) = 1 => Tail(moduleQ) = <<>>
      /\ Tail(moduleQ) = <<>> => Len(moduleQ) = 1
      /\ \A i \in DOMAIN Tail(moduleQ) : i + 1 \in DOMAIN moduleQ /\ i + 1 # 1
                                         /\ Tail(moduleQ)[i] = moduleQ[i + 1]
  <2>1. /\ Len(moduleQ) \in Nat \ {0} /\ DOMAIN moduleQ = 1..Len(moduleQ)
        /\ Head(moduleQ) = moduleQ[1] /\ Len(Tail(moduleQ)) = Len(moduleQ) - 1
        /\ DOMAIN Tail(moduleQ) = 1..(Len(moduleQ) - 1)
    BY <1>1, QueueTypes
  <2>2. \A i \in 1..(Len(moduleQ) - 1) : Tail(moduleQ)[i] = moduleQ[i + 1]
    BY <1>1, QueueTypes
  <2>3. Len(moduleQ) = 1 => Tail(moduleQ) = <<>>
    BY <1>1, <2>1, QueueTypes
  <2>4. Tail(moduleQ) = <<>> => Len(moduleQ) = 1
    <3>1. Len(<<>>) = 0
      OBVIOUS
    <3>2. Tail(moduleQ) = <<>> => Len(moduleQ) - 1 = 0
      BY <2>1, <3>1
    <3> QED  BY <2>1, <3>2
  <2> QED  BY <2>1, <2>2, <2>3, <2>4
<1>3. moduleQ[1].name = "didDisconnect" => HandleDidDisconnect
  BY <1>2 DEF HandleCallback, HandleDidSend, HandleAck, HandleStanza, HandleFiltered,
     HandleRequest, HandleDidSendEnable, HandleEnabled, HandleFailed, HandleSendResume,
     HandleResumed, HandleResumeFailed, HandleClosing, Next_is
<1>4. moduleQ[1].name = "sendResume" => HandleSendResume
  BY <1>2 DEF HandleCallback, HandleDidSend, HandleAck, HandleStanza, HandleFiltered,
     HandleRequest, HandleDidSendEnable, HandleEnabled, HandleFailed, HandleDidDisconnect,
     HandleResumed, HandleResumeFailed, HandleClosing, Next_is
<1>5. conn # "binding"
  BY <1>1 DEF QueueInv, BindingIsQuiet
<1>6. conn = "resuming" => /\ moduleQ[1].name = "sendResume" /\ Len(moduleQ) = 1 /\ c2s = <<>>
                           /\ HandleSendResume
  BY <1>1, <1>4 DEF QueueInv, ResumingIsQuiet
<1>7. conn = "resuming" => \A i \in DOMAIN c2s' : c2s'[i].name = "resume"
  <2> SUFFICES ASSUME conn = "resuming" PROVE \A i \in DOMAIN c2s' : c2s'[i].name = "resume"
    OBVIOUS
  <2> DEFINE e == Element("resume", store.hc, Head(moduleQ).sid)
  <2>1. e.name = "resume"
    BY DEF Element
  <2>2. c2s' = Append(<<>>, e)
    BY <1>6 DEF HandleSendResume
  <2> HIDE DEF e
  <2>3. DOMAIN c2s' = {1} /\ c2s'[1] = e
    BY <2>2
  <2> QED  BY <2>1, <2>3
<1>8. QueueInv'
  BY <1>1, <1>7, TakenQueue
<1>9. ~Holds(moduleQ', {"resumed"})
  BY <1>1, <1>2 DEF QueueInv, ResumedIsFirst, Holds
<1>10. conn = "closed" /\ moduleQ' = <<>> => HandleDidDisconnect
  BY <1>1, <1>2, <1>3 DEF QueueInv, ClosedEnds
<1> QED  BY <1>1, <1>5, <1>6, <1>8, <1>9, <1>10 DEF Quiet, Resumes

-----------------------------------------------------------------------------
(* The prefix of handled stanzas.                                             *)

Handled(s) == {k \in 1..Len(s) : \A j \in 1..k : s[j].handled}

LEMMA FewerHandled ==
    ASSUME NEW S, NEW s \in Seq(S), NEW t, Handled(t) \subseteq Handled(s)
    PROVE  HandledPrefix(t) <= HandledPrefix(s)
<1>1. Len(s) \in Nat /\ IsFiniteSet(1..Len(s)) /\ Handled(s) \in SUBSET (1..Len(s))
  BY FS_Interval, LenProperties DEF Handled
<1>2. IsFiniteSet(Handled(s)) /\ Cardinality(Handled(t)) <= Cardinality(Handled(s))
  BY <1>1, FS_Subset
<1> QED  BY <1>2 DEF HandledPrefix, Handled

LEMMA NoneHandled ==
    ASSUME NEW s, Len(s) \in Nat, Len(s) > 0 => ~s[1].handled
    PROVE  HandledPrefix(s) = 0
<1>1. Handled(s) = {}
  BY DEF Handled
<1> QED  BY <1>1, FS_EmptySet DEF HandledPrefix, Handled

LEMMA EmptyPrefix == HandledPrefix(<<>>) = 0 /\ Drop(<<>>, 0) = <<>>
<1>1. Len(<<>>) = 0
  OBVIOUS
<1> QED  BY <1>1, NoneHandled DEF Drop

\* The stanza after the prefix is not handled.
LEMMA PrefixEnds ==
    ASSUME NEW S, NEW s \in Seq(S), HandledPrefix(s) < Len(s)
    PROVE  ~s[HandledPrefix(s) + 1].handled
<1> DEFINE c == HandledPrefix(s)
<1>A. c = Cardinality(Handled(s))
  BY Zenon DEF HandledPrefix, Handled
<1>B. c \in 0..Len(s) /\ Len(s) \in Nat /\ c < Len(s)
  BY HandledPrefixType, LenProperties
<1> HIDE DEF c
<1>1. c \in Nat /\ Len(s) \in Nat /\ c + 1 \in 1..Len(s) /\ c = Cardinality(Handled(s))
  BY <1>A, <1>B
<1>2. IsFiniteSet(Handled(s))
  <2>1. IsFiniteSet(1..Len(s)) /\ Handled(s) \in SUBSET (1..Len(s))
    BY <1>1, FS_Interval DEF Handled
  <2> QED  BY <2>1, FS_Subset
<1>3. SUFFICES ASSUME s[c + 1].handled PROVE FALSE
  BY DEF c
<1>4. CASE c + 1 \in Handled(s)
  <2>1. 1..(c + 1) \in SUBSET Handled(s)
    <3> SUFFICES ASSUME NEW k \in 1..(c + 1) PROVE k \in Handled(s)
      OBVIOUS
    <3>1. \A j \in 1..(c + 1) : s[j].handled
      BY <1>4 DEF Handled
    <3>2. k \in 1..Len(s) /\ \A j \in 1..k : j \in 1..(c + 1)
      BY <1>1
    <3> QED  BY <3>1, <3>2 DEF Handled
  <2>2. Cardinality(1..(c + 1)) = c + 1
    BY <1>1, FS_Interval
  <2>3. c + 1 <= c
    BY <1>1, <1>2, <2>1, <2>2, FS_Subset
  <2> QED  BY <1>1, <2>3
<1>5. CASE c + 1 \notin Handled(s)
  <2>1. PICK j \in 1..c : ~s[j].handled
    <3>1. PICK i \in 1..(c + 1) : ~s[i].handled
      BY <1>1, <1>5 DEF Handled
    <3>2. i # c + 1
      BY <1>3, <3>1
    <3> QED  BY <1>1, <3>1, <3>2
  <2>A. j \in Nat \ {0} /\ j - 1 \in Int /\ j <= c
    BY <1>1
  <2>2. Handled(s) \in SUBSET (1..(j - 1))
    <3> SUFFICES ASSUME NEW k \in Handled(s) PROVE k \in 1..(j - 1)
      OBVIOUS
    <3>1. k \in 1..Len(s) /\ ~(j \in 1..k)
      BY <2>1 DEF Handled
    <3> QED  BY <1>1, <2>A, <3>1
  <2>3. IsFiniteSet(1..(j - 1)) /\ Cardinality(1..(j - 1)) = j - 1
    <3>1. /\ IsFiniteSet(1..(j - 1))
          /\ Cardinality(1..(j - 1)) = IF 1 > j - 1 THEN 0 ELSE (j - 1) - 1 + 1
      BY <2>A, FS_Interval
    <3> QED  BY <2>A, <3>1
  <2>4. c <= j - 1
    BY <1>1, <2>2, <2>3, FS_Subset
  <2> QED  BY <1>1, <2>1, <2>4
<1> QED  BY <1>4, <1>5

LEMMA DropHandled ==
    ASSUME NEW S, NEW s \in Seq(S)
    PROVE  HandledPrefix(Drop(s, HandledPrefix(s))) = 0
<1> DEFINE c == HandledPrefix(s)
           d == Drop(s, c)
<1>1. c \in 0..Len(s) /\ Len(s) \in Nat
  BY HandledPrefixType, LenProperties
<1> HIDE DEF c
<1>2. Len(d) = Len(s) - c
  BY <1>1, DropType
<1>3. Len(d) > 0 => d[1] = s[c + 1]
  BY <1>1, <1>2 DEF Drop
<1> HIDE DEF d
<1>4. Len(d) > 0 => ~d[1].handled
  BY <1>1, <1>2, <1>3, PrefixEnds DEF c
<1>5. HandledPrefix(d) = 0
  BY <1>1, <1>2, <1>4, NoneHandled
<1> QED  BY <1>5 DEF d, c

-----------------------------------------------------------------------------
(* The outgoing half, while the flags stay as they are.                       *)

OutStep == (AutoRequestArmed => AutoRequestArmed') /\ (Idle /\ OutClean => OutClean')

LEMMA OutKept ==
    ASSUME UNCHANGED <<isStarted, enableSent, unackedByServer, lastRequestOffset,
                       autoRequestTimer>>
    PROVE  OutStep
BY DEF OutStep, AutoRequestArmed, OutClean

LEMMA RequestArmed ==
    ASSUME Inv, NEW u \in Seq(OutgoingItem), unackedByServer' = u,
           UNCHANGED <<isStarted, enableSent>>, RequestAck(u) \/ MaybeRequestAck(u)
    PROVE  AutoRequestArmed'
<1>1. Len(u) \in Nat /\ lastRequestOffset \in Nat /\ autoRequestTimer \in BOOLEAN
  BY LenProperties DEF Inv, TypeOK, OutTypeOK
<1>2. CASE RequestAck(u)
  <2>1. isStarted \/ enableSent => lastRequestOffset' = Len(u)
    BY <1>2 DEF RequestAck
  <2> QED  BY <1>1, <2>1 DEF AutoRequestArmed
<1>3. CASE ~RequestAck(u)
  <2>1. /\ lastRequestOffset' = lastRequestOffset
        /\ autoRequestTimer' = (autoRequestTimer
                                  \/ (RequestTimeout /\ Len(u) - lastRequestOffset > 0))
    BY <1>3 DEF MaybeRequestAck
  <2>2. RequestTimeout /\ Len(u) > lastRequestOffset => autoRequestTimer'
    <3> SUFFICES ASSUME RequestTimeout, Len(u) > lastRequestOffset PROVE autoRequestTimer'
      OBVIOUS
    <3>1. Len(u) - lastRequestOffset > 0
      BY <1>1
    <3> QED  BY <2>1, <3>1, Zenon
  <2> QED  BY <2>1, <2>2 DEF AutoRequestArmed
<1> QED  BY <1>2, <1>3

LEMMA AckKeepsArmed ==
    ASSUME Inv, NEW h \in Nat, ProcessAck(h), UNCHANGED <<isStarted, enableSent, autoRequestTimer>>
    PROVE  OutStep
<1> DEFINE diff      == Smaller(AckDiff(h), Len(unackedByServer))
           processed == KnownPrefix(unackedByServer, diff)
<1>1. /\ unackedByServer \in Seq(OutgoingItem) /\ Len(unackedByServer) \in Nat
      /\ lastRequestOffset \in Nat /\ lastHandledByServer \in Nat /\ Modulus \in Nat \ {0}
  BY LenProperties, BoundsAssumption DEF Inv, TypeOK, OutTypeOK
<1>2. diff \in Int /\ diff <= Len(unackedByServer)
  BY <1>1 DEF AckDiff, Smaller
<1>3. processed \in 0..Len(unackedByServer)
  BY <1>1, <1>2, KnownPrefixType
<1> HIDE DEF diff, processed
<1>4. Len(Drop(unackedByServer, processed)) = Len(unackedByServer) - processed
  BY <1>1, <1>3, DropType
<1>5. CASE /\ unackedByServer' = Drop(unackedByServer, processed)
           /\ lastRequestOffset' = OffsetAfter(processed)
  <2>1. Len(unackedByServer') > lastRequestOffset' => Len(unackedByServer) > lastRequestOffset
    BY <1>1, <1>3, <1>4, <1>5 DEF OffsetAfter
  <2>2. OutClean => OutClean'
    <3> SUFFICES ASSUME OutClean PROVE OutClean'
      OBVIOUS
    <3>1. processed = 0 /\ lastRequestOffset = 0
      BY <1>3 DEF OutClean
    <3> QED  BY <1>5, <3>1, EmptyPrefix DEF OutClean, OffsetAfter
  <2> QED  BY <2>1, <2>2 DEF OutStep, AutoRequestArmed
<1>6. CASE UNCHANGED <<unackedByServer, lastRequestOffset>>
  BY <1>6, OutKept
<1> QED  BY <1>5, <1>6 DEF ProcessAck, diff, processed

LEMMA OutSteps ==
    ASSUME Inv, UNCHANGED flagVars,
           HandleDidSend \/ HandleAck \/ Drain \/ AnswerStanzaId \/ AutoRequestTimerFires
             \/ CallRequestAck
    PROVE  OutStep
<1>1. UNCHANGED <<isStarted, enableSent>>
  BY DEF flagVars
<1>2. unackedByServer \in Seq(OutgoingItem) /\ Len(unackedByServer) \in Nat
  BY LenProperties DEF Inv, TypeOK, OutTypeOK
<1>3. CASE HandleDidSend
  <2> DEFINE n == Head(moduleQ).arg
             x == IF AsyncIds THEN Outgoing(n, 0, TRUE) ELSE Outgoing(n, StanzaId(n), FALSE)
  <2>1. x \in OutgoingItem
    <3>1. n \in Nat
      BY <1>3, NextIsType DEF HandleDidSend
    <3> QED  BY <3>1 DEF Outgoing, OutgoingItem, StanzaId
  <2>2. CASE isStarted \/ enableSent
    <3>1. unackedByServer' = AddPending(x) /\ MaybeRequestAck(AddPending(x))
      BY <1>3, <2>2 DEF HandleDidSend
    <3>2. AddPending(x) \in Seq(OutgoingItem)
      <4> HIDE DEF x
      <4> QED  BY <1>2, <2>1 DEF AddPending
    <3> HIDE DEF x
    <3>3. AutoRequestArmed'
      BY <1>1, <3>1, <3>2, RequestArmed
    <3> QED  BY <2>2, <3>3 DEF OutStep, Idle
  <2>3. CASE ~(isStarted \/ enableSent)
    BY <1>1, <1>3, <2>3, OutKept DEF HandleDidSend
  <2> QED  BY <2>2, <2>3
<1>4. CASE HandleAck
  <2>1. Head(moduleQ).arg \in Nat
    BY <1>4, NextIsType DEF HandleAck
  <2> QED  BY <1>1, <1>4, <2>1, AckKeepsArmed DEF HandleAck
<1>5. CASE DrainAck \/ DrainBlocked
  <2>1. Head(unprocessedAcks) \in Nat
    BY <1>5, HeadTailProperties DEF DrainAck, DrainBlocked, Inv, TypeOK, OutTypeOK
  <2>2. CASE ProcessAck(Head(unprocessedAcks))
    BY <1>1, <1>5, <2>1, <2>2, AckKeepsArmed DEF DrainAck, DrainBlocked
  <2>3. CASE UNCHANGED <<unackedByServer, lastRequestOffset>>
    BY <1>1, <1>5, <2>3, OutKept DEF DrainAck, DrainBlocked
  <2> QED  BY <1>5, <2>2, <2>3 DEF DrainAck, DrainBlocked
<1>6. CASE DrainDone
  BY <1>1, <1>6, OutKept DEF DrainDone
<1>7. CASE AnswerStanzaId
  <2>1. PICK n : unackedByServer' =
                    [i \in DOMAIN unackedByServer |->
                        IF unackedByServer[i].n = n THEN Outgoing(n, StanzaId(n), FALSE)
                        ELSE unackedByServer[i]]
    BY <1>7 DEF AnswerStanzaId
  <2> DEFINE T == OutgoingItem \cup {Outgoing(n, StanzaId(n), FALSE)}
             t == unackedByServer'
  <2>2. DOMAIN t = DOMAIN unackedByServer /\ t = [i \in DOMAIN t |-> t[i]]
    BY <2>1
  <2>3. unackedByServer \in Seq(T) /\ \A i \in DOMAIN unackedByServer : t[i] \in T
    <3>1. \A i \in DOMAIN unackedByServer : unackedByServer[i] \in OutgoingItem
      BY <1>2
    <3>2. \A i \in DOMAIN unackedByServer : t[i] \in T
      BY <2>1, <3>1, Zenon
    <3>3. unackedByServer \in Seq(T)
      BY <1>2, WiderSeq
    <3> QED  BY <3>2, <3>3
  <2> HIDE DEF T
  <2>4. t \in Seq(T) /\ Len(t) = Len(unackedByServer)
    BY <2>2, <2>3, SeqReplaced
  <2>5. unackedByServer = <<>> => t = <<>>
    BY <2>4
  <2>6. UNCHANGED <<lastRequestOffset, autoRequestTimer>>
    BY <1>7 DEF AnswerStanzaId
  <2> QED  BY <1>1, <2>4, <2>5, <2>6 DEF OutStep, AutoRequestArmed, OutClean
<1>8. CASE AutoRequestTimerFires \/ CallRequestAck
  <2>1. RequestAck(unackedByServer) /\ UNCHANGED unackedByServer
    BY <1>8 DEF AutoRequestTimerFires, CallRequestAck
  <2>2. AutoRequestArmed'
    BY <1>1, <1>2, <2>1, RequestArmed
  <2>3. OutClean => OutClean'
    <3>1. Len(<<>>) = 0
      OBVIOUS
    <3> QED  BY <2>1, <3>1 DEF OutClean, RequestAck
  <2> QED  BY <2>2, <2>3 DEF OutStep
<1> QED  BY <1>3, <1>4, <1>5, <1>6, <1>7, <1>8 DEF Drain

-----------------------------------------------------------------------------
(* The incoming half, likewise.                                               *)

InStep == (AutoAckArmed => AutoAckArmed') /\ (~isStarted /\ InClean => InClean')

LEMMA InKept ==
    ASSUME UNCHANGED <<isStarted, unackedByClient, lastAckOffset, autoAckTimer>>
    PROVE  InStep
BY DEF InStep, AutoAckArmed, InClean

LEMMA AckArmed ==
    ASSUME Inv, NEW u \in Seq(IncomingItem), SendAck(u) \/ MaybeSendAck(u), UNCHANGED isStarted
    PROVE  AutoAckArmed' /\ (~isStarted /\ InClean /\ u = <<>> => InClean')
<1> DEFINE k == HandledPrefix(u)
<1>1. k \in Nat /\ lastAckOffset \in Nat /\ AckCount \in Nat
  BY HandledPrefixType, LenProperties, ConfigAssumption DEF ConfigAssumption, Inv, TypeOK, InTypeOK
<1>2. unackedByClient' = Drop(u, k)
  BY DEF SendAck, MaybeSendAck, CountHandled
<1>3. HandledPrefix(unackedByClient') = 0
  BY <1>2, DropHandled
<1>4. CASE SendAck(u)
  <2>1. lastAckOffset' = IF isStarted THEN 0 ELSE lastAckOffset + k
    BY <1>4 DEF SendAck, CountHandled
  <2>2. AutoAckArmed'
    BY <1>3, <2>1 DEF AutoAckArmed
  <2>3. InClean /\ u = <<>> => InClean'
    BY <1>2, <2>1, EmptyPrefix DEF InClean
  <2> QED  BY <2>2, <2>3
<1>5. CASE ~SendAck(u)
  <2> HIDE DEF k
  <2> DEFINE pending == lastAckOffset + k
  <2>1. /\ ~(isStarted /\ AckCount > 0 /\ pending >= AckCount) \/ pending = 0
        /\ lastAckOffset' = pending
        /\ autoAckTimer' = (autoAckTimer \/ (isStarted /\ AckTimeout /\ pending > 0))
    BY <1>5 DEF MaybeSendAck, CountHandled, k
  <2>2. pending \in Nat
    BY <1>1
  <2> HIDE DEF pending
  <2>3. isStarted /\ pending > 0 /\ AckCount > 0 => pending < AckCount
    BY <1>1, <2>1, <2>2
  <2>4. isStarted /\ pending > 0 /\ AckTimeout => autoAckTimer'
    BY <2>1, Zenon
  <2>5. lastAckOffset' + HandledPrefix(unackedByClient') = pending
    BY <1>3, <2>1, <2>2
  <2>6. AutoAckArmed'
    BY <2>3, <2>4, <2>5 DEF AutoAckArmed
  <2>7. InClean /\ u = <<>> => InClean'
    BY <1>2, <2>1, EmptyPrefix DEF InClean, pending, k
  <2> QED  BY <2>6, <2>7
<1> QED  BY <1>4, <1>5

\* Stanzas that wait longer to be handled leave the timers as they must be.
LEMMA FewerArmed ==
    ASSUME Inv, Handled(unackedByClient') \subseteq Handled(unackedByClient),
           unackedByClient' \in Seq(IncomingItem),
           UNCHANGED <<isStarted, lastAckOffset, autoAckTimer>>
    PROVE  AutoAckArmed => AutoAckArmed'
<1>1. /\ unackedByClient \in Seq(IncomingItem) /\ lastAckOffset \in Nat /\ AckCount \in Nat
  BY ConfigAssumption DEF ConfigAssumption, Inv, TypeOK, InTypeOK
<1>2. HandledPrefix(unackedByClient') <= HandledPrefix(unackedByClient)
  BY <1>1, FewerHandled
<1>3. HandledPrefix(unackedByClient') \in Nat /\ HandledPrefix(unackedByClient) \in Nat
  BY <1>1, HandledPrefixType, LenProperties
<1> QED  BY <1>1, <1>2, <1>3 DEF AutoAckArmed

LEMMA InSteps ==
    ASSUME Inv, UNCHANGED flagVars,
           HandleStanza \/ HandleFiltered \/ HandleRequest \/ DelegateDecides \/ AnswerHandled
             \/ MarkHandledStanzaId \/ CallSendAck
    PROVE  InStep
<1>1. UNCHANGED isStarted
  BY DEF flagVars
<1>2. unackedByClient \in Seq(IncomingItem) /\ Len(unackedByClient) \in Nat
  BY LenProperties DEF Inv, TypeOK, InTypeOK
<1>3. CASE HandleStanza \/ HandleFiltered
  <2>1. CASE ~isStarted
    BY <1>1, <1>3, <2>1, InKept DEF HandleStanza, HandleFiltered, inVars
  <2>2. CASE isStarted
    <3> DEFINE With(handled) == Append(unackedByClient,
                                       Incoming(objects + 1, Head(moduleQ).sid,
                                                Head(moduleQ).arg, FALSE, handled))
    <3>A. PICK handled \in BOOLEAN :
            \/ MaybeSendAck(With(handled))
            \/ /\ ~handled /\ unackedByClient' = With(handled)
               /\ UNCHANGED <<lastAckOffset, autoAckTimer>>
      BY <1>3, <2>2, ConfigAssumption DEF HandleStanza, HandleFiltered, ConfigAssumption
    <3>1. PICK u :
            /\ u = Append(unackedByClient, Incoming(objects + 1, Head(moduleQ).sid,
                                                    Head(moduleQ).arg, FALSE, handled))
            /\ \/ MaybeSendAck(u)
               \/ /\ ~handled /\ unackedByClient' = u
                  /\ UNCHANGED <<lastAckOffset, autoAckTimer>>
      BY <3>A
    <3>2. u \in Seq(IncomingItem)
      BY <1>3, <3>1, IncomingType DEF HandleStanza, HandleFiltered, Next_is
    <3>3. CASE MaybeSendAck(u)
      BY <1>1, <2>2, <3>2, <3>3, AckArmed DEF InStep
    <3>4. CASE /\ ~handled /\ unackedByClient' = u
               /\ UNCHANGED <<lastAckOffset, autoAckTimer>>
      <4> DEFINE x == Incoming(objects + 1, Head(moduleQ).sid, Head(moduleQ).arg, FALSE, handled)
      <4>1. ~x.handled
        BY <3>4 DEF Incoming
      <4>2. u = Append(unackedByClient, x)
        BY <3>1
      <4> HIDE DEF x
      <4>3. /\ Len(u) = Len(unackedByClient) + 1 /\ u[Len(unackedByClient) + 1] = x
            /\ \A i \in 1..Len(unackedByClient) : u[i] = unackedByClient[i]
        BY <1>2, <4>2, AppendProperties
      <4>4. Handled(u) \subseteq Handled(unackedByClient)
        <5> SUFFICES ASSUME NEW i \in Handled(u) PROVE i \in Handled(unackedByClient)
          OBVIOUS
        <5>1. i \in 1..(Len(unackedByClient) + 1) /\ \A j \in 1..i : u[j].handled
          BY <4>3 DEF Handled
        <5>2. i # Len(unackedByClient) + 1
          BY <1>2, <4>1, <4>3, <5>1
        <5>3. i \in 1..Len(unackedByClient) /\ 1..i \subseteq 1..Len(unackedByClient)
          BY <1>2, <5>1, <5>2
        <5> QED  BY <4>3, <5>1, <5>3 DEF Handled
      <4> QED  BY <1>1, <2>2, <3>2, <3>4, <4>4, FewerArmed DEF InStep
    <3> QED  BY <3>1, <3>3, <3>4
  <2> QED  BY <2>1, <2>2
<1>4. CASE HandleRequest \/ CallSendAck
  <2>1. CASE SendAck(unackedByClient)
    BY <1>1, <1>2, <2>1, AckArmed DEF InStep, InClean
  <2>2. CASE UNCHANGED <<unackedByClient, lastAckOffset, autoAckTimer>>
    BY <1>1, <2>2, InKept
  <2> QED  BY <1>4, <2>1, <2>2 DEF HandleRequest, CallSendAck
<1>5. CASE DelegateDecides
  BY <1>1, <1>5, InKept DEF DelegateDecides
<1>6. CASE AnswerHandled
  <2>1. PICK x \in handledAnswers :
           LET handled == x.handled \/ MarkedEarly(x)
               u == [i \in DOMAIN unackedByClient |->
                       IF unackedByClient[i].obj = x.obj
                       THEN Incoming(x.obj, x.sid, x.n, ~x.handled, handled)
                       ELSE unackedByClient[i]]
           IN IF handled
              THEN MaybeSendAck(u)
              ELSE /\ unackedByClient' = u
                   /\ UNCHANGED <<lastAckOffset, autoAckTimer>>
    BY <1>6 DEF AnswerHandled
  <2> DEFINE handled == x.handled \/ MarkedEarly(x)
             item    == Incoming(x.obj, x.sid, x.n, ~x.handled, handled)
             u == [i \in DOMAIN unackedByClient |->
                     IF unackedByClient[i].obj = x.obj THEN item ELSE unackedByClient[i]]
  <2>2. item \in IncomingItem
    <3>1. x \in IncomingItem
      BY DEF Inv, TypeOK, InTypeOK
    <3> QED  BY <3>1 DEF Incoming, IncomingItem, MarkedEarly
  <2>3. u \in Seq(IncomingItem) /\ Len(u) = Len(unackedByClient)
    <3>1. DOMAIN u = DOMAIN unackedByClient /\ u = [i \in DOMAIN u |-> u[i]]
      OBVIOUS
    <3>2. \A i \in DOMAIN unackedByClient : u[i] \in IncomingItem
      BY <1>2, <2>2
    <3> QED  BY <1>2, <3>1, <3>2, SeqReplaced
  <2>4. unackedByClient = <<>> => u = <<>>
    <3> HIDE DEF u
    <3> QED  BY <2>3
  <2>5. CASE handled
    <3>1. MaybeSendAck(u)
      BY <2>1, <2>5
    <3> HIDE DEF u, handled
    <3> QED  BY <1>1, <2>3, <2>4, <3>1, AckArmed DEF InStep, InClean
  <2>6. CASE ~handled
    <3>1. unackedByClient' = u /\ UNCHANGED <<lastAckOffset, autoAckTimer>>
      BY <2>1, <2>6
    <3>2. Handled(u) \subseteq Handled(unackedByClient)
      <4>1. ~item.handled
        BY <2>6 DEF Incoming
      <4> HIDE DEF item, handled
      <4>2. \A j \in 1..Len(unackedByClient) : u[j] = unackedByClient[j] \/ u[j] = item
        BY <1>2
      <4> HIDE DEF u
      <4> SUFFICES ASSUME NEW i \in Handled(u) PROVE i \in Handled(unackedByClient)
        OBVIOUS
      <4>3. i \in 1..Len(unackedByClient) /\ \A j \in 1..i : u[j].handled
        BY <2>3 DEF Handled
      <4>4. 1..i \subseteq 1..Len(unackedByClient)
        BY <1>2, <4>3
      <4>5. \A j \in 1..i : unackedByClient[j].handled
        BY <4>1, <4>2, <4>3, <4>4
      <4> QED  BY <4>3, <4>5 DEF Handled
    <3> HIDE DEF u, handled
    <3> QED  BY <1>1, <2>3, <2>4, <3>1, <3>2, FewerArmed DEF InStep, InClean
  <2> QED  BY <2>5, <2>6
<1>7. CASE MarkHandledStanzaId
  <2>1. CASE UNCHANGED <<unackedByClient, lastAckOffset, autoAckTimer>>
    BY <1>1, <2>1, InKept
  <2>2. CASE \E first : MaybeSendAck([unackedByClient EXCEPT ![first].handled = TRUE])
    <3>1. PICK first : MaybeSendAck([unackedByClient EXCEPT ![first].handled = TRUE])
      BY <2>2
    <3> DEFINE u == [unackedByClient EXCEPT ![first].handled = TRUE]
    <3>2. DOMAIN u = DOMAIN unackedByClient /\ u = [i \in DOMAIN u |-> u[i]]
      OBVIOUS
    <3>3. \A i \in DOMAIN unackedByClient : unackedByClient[i] \in IncomingItem
      BY <1>2
    <3>4. \A i \in DOMAIN unackedByClient : u[i] \in IncomingItem
      BY <3>3 DEF IncomingItem
    <3> HIDE DEF u
    <3>5. u \in Seq(IncomingItem) /\ Len(u) = Len(unackedByClient)
      BY <1>2, <3>2, <3>4, SeqReplaced
    <3>6. unackedByClient = <<>> => u = <<>>
      BY <3>5
    <3>7. MaybeSendAck(u)
      BY <3>1 DEF u
    <3> QED  BY <1>1, <3>5, <3>6, <3>7, AckArmed DEF InStep, InClean
  <2> QED  BY <1>7, <2>1, <2>2 DEF MarkHandledStanzaId
<1> QED  BY <1>3, <1>4, <1>5, <1>6, <1>7

-----------------------------------------------------------------------------
(* The session as a whole.                                                    *)

\* A step that leaves the flags alone.
LEMMA FlagsKept ==
    ASSUME ArmedInv, UNCHANGED <<isStarted, enableQueued, enableSent>>, OutStep, InStep,
           Quiet' => Quiet, Resumes' => Resumes
    PROVE  ArmedInv'
BY DEF ArmedInv, OutStep, InStep, Idle, Restored

LEMMA WorldArmed ==
    ASSUME ArmedInv, UNCHANGED moduleVars, Quiet' => Quiet, Resumes' => Resumes
    PROVE  ArmedInv'
<1>1. OutStep /\ InStep
  BY OutKept, InKept DEF moduleVars, flagVars, outVars, inVars
<1> QED  BY <1>1, FlagsKept DEF moduleVars, flagVars

\* The callbacks and steps that count stanzas and acks.
LEMMA TrafficArmed ==
    ASSUME Inv, QueueInv, ArmedInv,
           HandleDidSend \/ HandleAck \/ HandleStanza \/ HandleFiltered \/ HandleRequest
             \/ Drain \/ Delegates \/ Timers \/ CallRequestAck
    PROVE  QueueInv' /\ ArmedInv'
<1>1. QueueInv' /\ (Quiet' => Quiet) /\ (Resumes' => Resumes)
  <2>1. CASE HandleDidSend \/ HandleAck \/ HandleStanza \/ HandleFiltered \/ HandleRequest
    <3>1. ~HandleDidDisconnect /\ ~HandleSendResume
      BY <2>1 DEF HandleDidSend, HandleAck, HandleStanza, HandleFiltered, HandleRequest,
         HandleDidDisconnect, HandleSendResume, Next_is
    <3> QED  BY <2>1, <3>1, CallbackQueue DEF HandleCallback
  <2>2. CASE Drain \/ Delegates \/ Timers \/ CallRequestAck
    BY <2>2, ModuleStepQueue
  <2> QED  BY <2>1, <2>2
<1>2. UNCHANGED flagVars
  BY FlagFrame
<1>3. OutStep
  <2>1. CASE UNCHANGED outVars
    BY <1>2, <2>1, OutKept DEF outVars, flagVars
  <2> QED  BY <1>2, <2>1, OutSteps, OutFrame DEF Delegates, Timers
<1>4. InStep
  <2>1. CASE UNCHANGED inVars
    BY <1>2, <2>1, InKept DEF inVars, flagVars
  <2> QED  BY <1>2, <2>1, InSteps, InFrame DEF Delegates, Timers
<1> QED  BY <1>1, <1>2, <1>3, <1>4, FlagsKept DEF flagVars

\* The callbacks that begin and end a session.
LEMMA SessionArmed ==
    ASSUME Inv, QueueInv, ArmedInv,
           HandleDidSendEnable \/ HandleEnabled \/ HandleFailed \/ HandleResumed
             \/ HandleResumeFailed \/ HandleClosing
    PROVE  QueueInv' /\ ArmedInv'
<1>1. ~HandleDidDisconnect /\ ~HandleSendResume
  BY DEF HandleDidSendEnable, HandleEnabled, HandleFailed, HandleResumed, HandleResumeFailed,
     HandleClosing, HandleDidDisconnect, HandleSendResume, Next_is
<1>2. QueueInv' /\ ~Quiet' /\ ~Resumes'
  BY <1>1, CallbackQueue DEF HandleCallback
<1>3. CASE HandleDidSendEnable
  <2>1. /\ UNCHANGED <<isStarted, unackedByServer, lastRequestOffset, autoRequestTimer,
                       unackedByClient, lastAckOffset, autoAckTimer>>
        /\ ~enableQueued' /\ enableSent' = (enableSent \/ enableQueued)
    BY <1>3 DEF HandleDidSendEnable, outVars, inVars
  <2>2. AutoRequestArmed'
    <3>1. CASE enableQueued /\ ~isStarted /\ ~enableSent
      <4>1. OutClean'
        BY <2>1, <3>1 DEF ArmedInv, Idle, OutClean
      <4>2. Len(<<>>) = 0
        OBVIOUS
      <4> QED  BY <4>1, <4>2 DEF OutClean, AutoRequestArmed
    <3>2. CASE ~enableQueued \/ isStarted \/ enableSent
      BY <2>1, <3>2 DEF ArmedInv, AutoRequestArmed
    <3> QED  BY <3>1, <3>2
  <2>3. AutoAckArmed'
    BY <2>1 DEF ArmedInv, AutoAckArmed
  <2>4. enableSent' /\ ~isStarted' => InClean'
    BY <2>1 DEF ArmedInv, InClean
  <2> QED  BY <1>2, <2>1, <2>2, <2>3, <2>4 DEF ArmedInv
<1>4. CASE HandleEnabled /\ enableSent
  <2>1. /\ UNCHANGED <<enableQueued, unackedByServer, lastRequestOffset, autoRequestTimer,
                       unackedByClient, lastAckOffset, autoAckTimer>>
        /\ isStarted' /\ ~enableSent' /\ ~enableQueued
    BY <1>4 DEF HandleEnabled, ArmedInv
  <2>2. AutoRequestArmed'
    BY <1>4, <2>1 DEF ArmedInv, AutoRequestArmed
  <2>3. AutoAckArmed'
    <3>1. CASE isStarted
      BY <2>1, <3>1 DEF ArmedInv, AutoAckArmed
    <3>2. CASE ~isStarted
      <4>1. InClean'
        BY <1>4, <2>1, <3>2 DEF ArmedInv, InClean
      <4>2. HandledPrefix(unackedByClient') = 0 /\ lastAckOffset' = 0
        BY <4>1, EmptyPrefix DEF InClean
      <4> QED  BY <4>2 DEF AutoAckArmed
    <3> QED  BY <3>1, <3>2
  <2> QED  BY <1>2, <2>1, <2>2, <2>3 DEF ArmedInv
<1>5. CASE HandleFailed /\ enableSent
  <2>1. ~isStarted' /\ ~enableSent' /\ ~enableQueued'
    BY <1>5 DEF HandleFailed, ArmedInv
  <2> QED  BY <1>2, <2>1 DEF ArmedInv, AutoRequestArmed, AutoAckArmed
<1>6. CASE HandleResumed
  <2>1. Resumes
    <3>1. moduleQ # <<>> /\ Head(moduleQ).name = "resumed"
      BY <1>6 DEF HandleResumed, Next_is
    <3>2. 1 \in DOMAIN moduleQ /\ Head(moduleQ) = moduleQ[1]
      BY <3>1, QueueTypes
    <3> QED  BY <3>1, <3>2 DEF Resumes, Holds
  <2>2. Restored
    BY <2>1 DEF ArmedInv
  <2>3. /\ UNCHANGED <<enableQueued, enableSent, unackedByServer, lastRequestOffset,
                       unackedByClient, lastAckOffset>>
        /\ isStarted'
    BY <1>6 DEF HandleResumed, inVars
  <2>4. Len(unackedByServer') = 0 /\ lastRequestOffset' = 0
    BY <2>2, <2>3 DEF Restored, OutClean
  <2>5. HandledPrefix(unackedByClient') = 0 /\ lastAckOffset' = 0
    BY <2>2, <2>3, EmptyPrefix DEF Restored, InClean
  <2>6. AutoRequestArmed' /\ AutoAckArmed'
    BY <2>4, <2>5 DEF AutoRequestArmed, AutoAckArmed
  <2> QED  BY <1>2, <2>3, <2>6 DEF ArmedInv, Idle
<1>7. CASE HandleResumeFailed \/ HandleClosing
           \/ (HandleEnabled /\ ~enableSent) \/ (HandleFailed /\ ~enableSent)
  <2>1. UNCHANGED <<isStarted, enableQueued, enableSent, unackedByServer, lastRequestOffset,
                    autoRequestTimer, unackedByClient, lastAckOffset, autoAckTimer>>
    BY <1>7 DEF HandleResumeFailed, HandleClosing, HandleEnabled, HandleFailed, outVars, inVars
  <2> QED  BY <1>2, <2>1, OutKept, InKept, FlagsKept
<1> QED  BY <1>2, <1>3, <1>4, <1>5, <1>6, <1>7

LEMMA ArmedInvPreserved ==
    ASSUME Inv, QueueInv, ArmedInv, [Next]_vars
    PROVE  QueueInv' /\ ArmedInv'
<1>1. CASE UNCHANGED vars
  <2>1. UNCHANGED <<conn, moduleQ, c2s, attached, moduleVars>>
    BY <1>1 DEF vars, streamVars, serverVars, moduleVars
  <2> QED  BY <2>1, KeptQueue, WorldArmed
<1>2. CASE HandleDidSend \/ HandleAck \/ HandleStanza \/ HandleFiltered \/ HandleRequest
           \/ Drain \/ Delegates \/ Timers \/ CallRequestAck
  BY <1>2, TrafficArmed
<1>3. CASE HandleDidSendEnable \/ HandleEnabled \/ HandleFailed \/ HandleResumed
           \/ HandleResumeFailed \/ HandleClosing
  BY <1>3, SessionArmed
<1>4. CASE Server
  <2>1. UNCHANGED moduleVars
    BY <1>4 DEF Server, ServerHandlesStanza, ServerHandlesEnable, ServerHandlesRequest,
       ServerHandlesResume, ServerHandlesClose, ServerSendsAck, ServerSendsRequest,
       ServerSendsStanza, ServerExpires
  <2> QED  BY <1>4, <2>1, ServerQueue, WorldArmed
<1>5. CASE Connect \/ StartCustomBinding \/ StartStandardBinding \/ ContinueReceive
           \/ Disconnect \/ SendStanza
  <2>1. UNCHANGED moduleVars
    BY <1>5 DEF Connect, StartCustomBinding, StartStandardBinding, ContinueReceive, Disconnect,
       SendStanza
  <2> QED  BY <1>5, <2>1, StreamQueue, WorldArmed
<1>6. CASE HandleSendResume
  <2>1. /\ QueueInv' /\ (Quiet' => Quiet) /\ (Resumes' => Quiet)
    <3>1. ~HandleDidDisconnect
      BY <1>6 DEF HandleSendResume, HandleDidDisconnect, Next_is
    <3> QED  BY <1>6, <3>1, CallbackQueue DEF HandleCallback
  <2>2. OutClean' /\ InClean' /\ UNCHANGED <<isStarted, enableQueued, enableSent>>
    BY <1>6 DEF HandleSendResume, Cleanup, OutClean, InClean, flagVars
  <2>3. Len(unackedByServer') = 0 /\ lastRequestOffset' = 0
    BY <2>2 DEF OutClean
  <2>4. HandledPrefix(unackedByClient') = 0 /\ lastAckOffset' = 0
    BY <2>2, EmptyPrefix DEF InClean
  <2>5. AutoRequestArmed' /\ AutoAckArmed'
    BY <2>3, <2>4 DEF AutoRequestArmed, AutoAckArmed
  <2> QED  BY <2>1, <2>2, <2>5 DEF ArmedInv, Restored, Idle
<1>7. CASE HandleDidDisconnect
  <2>1. QueueInv' /\ ~Resumes'
    <3>1. ~HandleSendResume
      BY <1>7 DEF HandleSendResume, HandleDidDisconnect, Next_is
    <3> QED  BY <1>7, <3>1, CallbackQueue DEF HandleCallback
  <2>2. ~isStarted' /\ ~enableQueued' /\ ~enableSent'
    BY <1>7 DEF HandleDidDisconnect
  <2> QED  BY <2>1, <2>2 DEF ArmedInv, Idle, AutoRequestArmed, AutoAckArmed
<1>8. CASE Enable
  <2>1. QueueInv' /\ (Quiet' => Quiet) /\ ~Resumes'
    BY <1>8, EnableQueue
  <2>2. /\ OutClean' /\ InClean' /\ UNCHANGED <<isStarted, enableSent>>
        /\ ~isStarted /\ ~enableSent
    BY <1>8 DEF Enable, Cleanup, OutClean, InClean
  <2>3. AutoRequestArmed' /\ AutoAckArmed'
    BY <2>2 DEF AutoRequestArmed, AutoAckArmed
  <2> QED  BY <2>1, <2>2, <2>3 DEF ArmedInv, Idle
<1>9. CASE Crash
  <2>1. QueueInv' /\ ~Resumes'
    BY <1>9, CrashQueue
  <2>2. ~isStarted' /\ ~enableQueued' /\ ~enableSent'
    BY <1>9 DEF Crash
  <2> QED  BY <2>1, <2>2 DEF ArmedInv, Idle, AutoRequestArmed, AutoAckArmed
<1> QED
  BY <1>1, <1>2, <1>3, <1>4, <1>5, <1>6, <1>7, <1>8, <1>9
     DEF Next, HandleCallback, Stream, Application

LEMMA ArmedInvInitially == Init => QueueInv /\ ArmedInv
<1> SUFFICES ASSUME Init PROVE QueueInv /\ ArmedInv
  OBVIOUS
<1>1. /\ conn = "closed" /\ moduleQ = <<>> /\ DOMAIN moduleQ = {}
      /\ ~isStarted /\ ~enableQueued /\ ~enableSent
  BY DEF Init
<1>2. QueueInv /\ ~Resumes
  BY <1>1 DEF QueueInv, EndIsLast, ClosedEnds, BindingIsQuiet, ResumingIsQuiet, ResumedIsFirst,
     Resumes, Holds
<1> QED  BY <1>1, <1>2 DEF ArmedInv, Idle, AutoRequestArmed, AutoAckArmed

LEMMA ArmedInvariant == Spec => [](QueueInv /\ ArmedInv)
<1>1. Init => Inv /\ QueueInv /\ ArmedInv
  BY InvInitially, ArmedInvInitially
<1>2. (Inv /\ QueueInv /\ ArmedInv) /\ [Next]_vars => (Inv /\ QueueInv /\ ArmedInv)'
  BY InvPreserved, ArmedInvPreserved
<1> QED  BY <1>1, <1>2, PTL DEF Spec

\* While a stanza that was sent is neither acknowledged nor asked about, the timer that will
\* ask runs: whatever maybeRequestAck, the acks, the ids of the delegates, enable and resume
\* have done to unackedByServer and lastRequestOffset.
THEOREM RequestTimerCorrect == Spec => []AutoRequestArmed
<1>1. ArmedInv => AutoRequestArmed
  BY DEF ArmedInv
<1> QED  BY <1>1, ArmedInvariant, PTL

\* While a stanza that was handled is not acknowledged, the timer of maybeSendAck runs, and
\* there are fewer of them than autoAck_stanzaCount.
THEOREM AckTimerCorrect == Spec => []AutoAckArmed
<1>1. ArmedInv => AutoAckArmed
  BY DEF ArmedInv
<1> QED  BY <1>1, ArmedInvariant, PTL

-----------------------------------------------------------------------------
(* HandledSafe: what the client acknowledges the application has handled.      *)
(*                                                                             *)
(* The module keeps no numbers of the stanzas it receives: it counts them, and *)
(* whatever it counts it takes for the next stanza of its session.  So the     *)
(* invariant SafeInv has to follow every stanza that is under way.  CallInv    *)
(* says that those on the moduleQueue come in the order of their session and   *)
(* without a gap, and that a callback which begins a session stands before the *)
(* first stanza of it; Counts, that what has been counted, what waits in       *)
(* unackedByClient and what is under way are the session from its beginning.   *)

-----------------------------------------------------------------------------
(* The stanzas on the moduleQueue.                                            *)

IsStanza(q, i) == q[i].name = "stanza"

\* After position `from' the stanzas of q are those of session sid from `first' to `last',
\* in order and without a gap.
Run(q, from, sid, first, last) ==
    /\ first <= last + 1
    /\ \A i \in (from + 1)..Len(q) : IsStanza(q, i) => q[i].sid = sid /\ q[i].arg \in first..last
    /\ \A i, j \in (from + 1)..Len(q) :
          IsStanza(q, i) /\ IsStanza(q, j) /\ i < j => q[i].arg < q[j].arg
    /\ \A n \in first..last : \E i \in (from + 1)..Len(q) : IsStanza(q, i) /\ q[i].arg = n

\* t is q with the callbacks of `more' after it; t is q without its head.
Longer(q, t, more) ==
    /\ Len(q) \in Nat /\ Len(t) \in Nat /\ Len(q) <= Len(t)
    /\ \A i \in 1..Len(q) : i \in 1..Len(t) /\ t[i] = q[i]
    /\ \A i \in 1..Len(t) : i \in 1..Len(q) \/ (i > Len(q) /\ t[i] \in more)

Shorter(q, t) ==
    /\ Len(q) \in Nat /\ Len(t) \in Nat /\ Len(q) = Len(t) + 1
    /\ \A i \in 1..Len(t) : i + 1 \in 1..Len(q) /\ t[i] = q[i + 1]
    /\ \A i \in 1..Len(q) : i = 1 \/ (i - 1 \in 1..Len(t) /\ q[i] = t[i - 1])

LEMMA RunLonger ==
    ASSUME NEW q, NEW t, NEW more, Longer(q, t, more), \A e \in more : e.name # "stanza",
           NEW from \in 0..Len(q), NEW sid, NEW first, NEW last, Run(q, from, sid, first, last)
    PROVE  Run(t, from, sid, first, last)
<1>1. \A i \in (from + 1)..Len(t) : IsStanza(t, i) => i \in (from + 1)..Len(q) /\ t[i] = q[i]
  BY DEF Longer, IsStanza
<1>2. \A i \in (from + 1)..Len(q) : i \in (from + 1)..Len(t) /\ t[i] = q[i]
  BY DEF Longer
<1>3. first <= last + 1
  BY DEF Run
<1>4. \A i \in (from + 1)..Len(t) : IsStanza(t, i) => t[i].sid = sid /\ t[i].arg \in first..last
  BY <1>1 DEF Run, IsStanza
<1>5. \A i, j \in (from + 1)..Len(t) :
         IsStanza(t, i) /\ IsStanza(t, j) /\ i < j => t[i].arg < t[j].arg
  BY <1>1 DEF Run, IsStanza
<1>6. \A n \in first..last : \E i \in (from + 1)..Len(t) : IsStanza(t, i) /\ t[i].arg = n
  BY <1>2 DEF Run, IsStanza
<1> QED  BY <1>3, <1>4, <1>5, <1>6 DEF Run

LEMMA RunStanza ==
    ASSUME NEW q, NEW t, NEW e, Longer(q, t, {e}), Len(t) = Len(q) + 1,
           NEW from \in 0..Len(q), NEW sid, NEW first \in Nat, NEW last \in Int,
           Run(q, from, sid, first, last),
           e.name = "stanza", e.sid = sid, e.arg = last + 1
    PROVE  Run(t, from, sid, first, last + 1)
<1> DEFINE l == Len(q) + 1
<1>1. \A i \in (from + 1)..Len(t) : \/ i \in (from + 1)..Len(q) /\ t[i] = q[i]
                                    \/ i = l /\ t[i] = e
  BY DEF Longer
<1>2. \A i \in (from + 1)..Len(q) : i \in (from + 1)..Len(t) /\ t[i] = q[i] /\ i < l
  BY DEF Longer
<1>3. l \in (from + 1)..Len(t) /\ t[l] = e /\ l \in Nat
  BY DEF Longer
<1> HIDE DEF l
<1>4. first <= last + 1 + 1
  BY DEF Run
<1>5. \A i \in (from + 1)..Len(t) :
         IsStanza(t, i) => t[i].sid = sid /\ t[i].arg \in first..(last + 1)
  <2> SUFFICES ASSUME NEW i \in (from + 1)..Len(t), IsStanza(t, i)
               PROVE  t[i].sid = sid /\ t[i].arg \in first..(last + 1)
    OBVIOUS
  <2>1. CASE i \in (from + 1)..Len(q) /\ t[i] = q[i]
    <3>1. q[i].sid = sid /\ q[i].arg \in first..last
      BY <2>1 DEF Run, IsStanza
    <3> QED  BY <2>1, <3>1
  <2>2. CASE t[i] = e
    BY <2>2 DEF Run
  <2> QED  BY <1>1, <2>1, <2>2
<1>6. \A i, j \in (from + 1)..Len(t) :
         IsStanza(t, i) /\ IsStanza(t, j) /\ i < j => t[i].arg < t[j].arg
  <2> SUFFICES ASSUME NEW i \in (from + 1)..Len(t), NEW j \in (from + 1)..Len(t),
                      IsStanza(t, i), IsStanza(t, j), i < j
               PROVE  t[i].arg < t[j].arg
    OBVIOUS
  <2>1. i # l /\ i \in (from + 1)..Len(q) /\ t[i] = q[i]
    BY <1>1, <1>2, <1>3 DEF Longer
  <2>2. q[i].arg \in first..last
    BY <2>1 DEF Run, IsStanza
  <2>3. CASE j \in (from + 1)..Len(q) /\ t[j] = q[j]
    BY <2>1, <2>3 DEF Run, IsStanza
  <2>4. CASE t[j] = e
    BY <2>1, <2>2, <2>4
  <2> QED  BY <1>1, <2>3, <2>4
<1>7. \A n \in first..(last + 1) : \E i \in (from + 1)..Len(t) : IsStanza(t, i) /\ t[i].arg = n
  <2> SUFFICES ASSUME NEW n \in first..(last + 1)
               PROVE  \E i \in (from + 1)..Len(t) : IsStanza(t, i) /\ t[i].arg = n
    OBVIOUS
  <2>1. CASE n = last + 1
    BY <1>3, <2>1 DEF IsStanza
  <2>2. CASE n # last + 1
    <3>1. n \in first..last
      BY <2>2
    <3> QED  BY <1>2, <3>1 DEF Run, IsStanza
  <2> QED  BY <2>1, <2>2
<1> QED  BY <1>4, <1>5, <1>6, <1>7 DEF Run

\* The head runs: it is no stanza of the run ...
LEMMA RunTaken ==
    ASSUME NEW q, NEW t, Shorter(q, t), NEW from \in Nat, NEW sid, NEW first, NEW last,
           Run(q, from, sid, first, last),
           from = 0 => ~IsStanza(q, 1), NEW to \in Nat, from = 0 => to = 0,
           from # 0 => to = from - 1
    PROVE  Run(t, to, sid, first, last)
<1>1. \A i \in (to + 1)..Len(t) : i + 1 \in (from + 1)..Len(q) /\ t[i] = q[i + 1]
  BY DEF Shorter
<1>2. \A i \in (from + 1)..Len(q) :
         IsStanza(q, i) => i - 1 \in (to + 1)..Len(t) /\ q[i] = t[i - 1]
  BY DEF Shorter
<1>4. first <= last + 1
  BY DEF Run
<1>5. \A i \in (to + 1)..Len(t) : IsStanza(t, i) => t[i].sid = sid /\ t[i].arg \in first..last
  <2> SUFFICES ASSUME NEW i \in (to + 1)..Len(t), IsStanza(t, i)
               PROVE  t[i].sid = sid /\ t[i].arg \in first..last
    OBVIOUS
  <2>1. PICK k \in (from + 1)..Len(q) : k = i + 1 /\ t[i] = q[k]
    BY <1>1
  <2> QED  BY <2>1 DEF Run, IsStanza
<1>6. \A i, j \in (to + 1)..Len(t) :
         IsStanza(t, i) /\ IsStanza(t, j) /\ i < j => t[i].arg < t[j].arg
  <2> SUFFICES ASSUME NEW i \in (to + 1)..Len(t), NEW j \in (to + 1)..Len(t),
                      IsStanza(t, i), IsStanza(t, j), i < j
               PROVE  t[i].arg < t[j].arg
    OBVIOUS
  <2>1. PICK k \in (from + 1)..Len(q) : k = i + 1 /\ t[i] = q[k]
    BY <1>1
  <2>2. PICK m \in (from + 1)..Len(q) : m = j + 1 /\ t[j] = q[m]
    BY <1>1
  <2>3. k < m
    BY <2>1, <2>2
  <2> QED  BY <2>1, <2>2, <2>3 DEF Run, IsStanza
<1>7. \A n \in first..last : \E i \in (to + 1)..Len(t) : IsStanza(t, i) /\ t[i].arg = n
  BY <1>2 DEF Run, IsStanza
<1> QED  BY <1>4, <1>5, <1>6, <1>7 DEF Run

\* ... or the first.
LEMMA RunFirst ==
    ASSUME NEW q, NEW t, Shorter(q, t), NEW sid, NEW first \in Nat, NEW last \in Int,
           Run(q, 0, sid, first, last), IsStanza(q, 1)
    PROVE  /\ q[1].sid = sid /\ q[1].arg = first /\ first <= last
           /\ Run(t, 0, sid, first + 1, last)
<1>1. 1 \in 1..Len(q) /\ \A i \in 1..Len(q) : i \in (0 + 1)..Len(q) /\ i \in Nat
  BY DEF Shorter
<1>2. /\ \A i \in 1..Len(q) : IsStanza(q, i) => q[i].sid = sid /\ q[i].arg \in first..last
      /\ \A i \in 1..Len(q) : IsStanza(q, i) /\ 1 < i => q[1].arg < q[i].arg
      /\ \A i, j \in 1..Len(q) : IsStanza(q, i) /\ IsStanza(q, j) /\ i < j => q[i].arg < q[j].arg
      /\ \A n \in first..last : \E i \in 1..Len(q) : IsStanza(q, i) /\ q[i].arg = n
  <2>1. (0 + 1)..Len(q) = 1..Len(q)
    OBVIOUS
  <2>2. \A i \in 1..Len(q) : IsStanza(q, i) => q[i].sid = sid /\ q[i].arg \in first..last
    BY <2>1 DEF Run
  <2>3. \A i, j \in 1..Len(q) : IsStanza(q, i) /\ IsStanza(q, j) /\ i < j => q[i].arg < q[j].arg
    BY <2>1 DEF Run
  <2>4. \A i \in 1..Len(q) : IsStanza(q, i) /\ 1 < i => q[1].arg < q[i].arg
    BY <1>1, <2>3
  <2>5. \A n \in first..last : \E i \in 1..Len(q) : IsStanza(q, i) /\ q[i].arg = n
    BY <2>1 DEF Run
  <2> QED  BY <2>2, <2>3, <2>4, <2>5
<1>3. q[1].sid = sid /\ q[1].arg \in first..last
  BY <1>1, <1>2
<1>4. q[1].arg = first
  <2>1. first \in first..last
    BY <1>3
  <2>2. PICK i \in 1..Len(q) : IsStanza(q, i) /\ q[i].arg = first
    BY <1>2, <2>1
  <2>3. CASE i = 1
    BY <2>2, <2>3
  <2>4. CASE i # 1
    <3>1. q[1].arg < first
      BY <1>1, <1>2, <2>2, <2>4
    <3> QED  BY <1>3, <3>1
  <2> QED  BY <2>3, <2>4
<1>5. \A i \in (0 + 1)..Len(t) : i + 1 \in 1..Len(q) /\ t[i] = q[i + 1] /\ 1 < i + 1
  BY DEF Shorter
<1>6. \A i \in 1..Len(q) : i # 1 => i - 1 \in (0 + 1)..Len(t) /\ q[i] = t[i - 1]
  BY DEF Shorter
<1>7. first + 1 <= last + 1
  BY <1>3
<1>8. \A i \in (0 + 1)..Len(t) :
         IsStanza(t, i) => t[i].sid = sid /\ t[i].arg \in (first + 1)..last
  <2> SUFFICES ASSUME NEW i \in (0 + 1)..Len(t), IsStanza(t, i)
               PROVE  t[i].sid = sid /\ t[i].arg \in (first + 1)..last
    OBVIOUS
  <2>1. /\ q[i + 1].sid = sid /\ q[i + 1].arg \in first..last /\ first < q[i + 1].arg
        /\ t[i] = q[i + 1]
    BY <1>2, <1>4, <1>5 DEF IsStanza
  <2> QED  BY <2>1
<1>9. \A i, j \in (0 + 1)..Len(t) :
         IsStanza(t, i) /\ IsStanza(t, j) /\ i < j => t[i].arg < t[j].arg
  <2> SUFFICES ASSUME NEW i \in (0 + 1)..Len(t), NEW j \in (0 + 1)..Len(t),
                      IsStanza(t, i), IsStanza(t, j), i < j
               PROVE  t[i].arg < t[j].arg
    OBVIOUS
  <2> DEFINE k == i + 1
             m == j + 1
  <2>1. /\ k \in 1..Len(q) /\ m \in 1..Len(q) /\ k < m
        /\ t[i] = q[k] /\ t[j] = q[m]
    BY <1>5
  <2> HIDE DEF k, m
  <2> QED  BY <1>2, <2>1 DEF IsStanza
<1>10. \A n \in (first + 1)..last : \E i \in (0 + 1)..Len(t) : IsStanza(t, i) /\ t[i].arg = n
  <2> SUFFICES ASSUME NEW n \in (first + 1)..last
               PROVE  \E i \in (0 + 1)..Len(t) : IsStanza(t, i) /\ t[i].arg = n
    OBVIOUS
  <2>1. n \in first..last /\ n # first
    OBVIOUS
  <2>2. PICK i \in 1..Len(q) : IsStanza(q, i) /\ q[i].arg = n
    BY <1>2, <2>1
  <2>3. i # 1
    BY <1>4, <2>1, <2>2
  <2> QED  BY <1>6, <2>2, <2>3 DEF IsStanza
<1> QED  BY <1>3, <1>4, <1>7, <1>8, <1>9, <1>10 DEF Run

LEMMA RunNone ==
    ASSUME NEW q, NEW from, NEW sid, NEW first \in Nat,
           \A i \in (from + 1)..Len(q) : ~IsStanza(q, i)
    PROVE  Run(q, from, sid, first, first - 1)
BY DEF Run

LEMMA LongerAppend ==
    ASSUME NEW S, NEW q \in Seq(S), NEW e \in S, NEW t, t = Append(q, e)
    PROVE  Longer(q, t, {e}) /\ Len(t) = Len(q) + 1
<1>1. /\ Len(q) \in Nat /\ Len(t) = Len(q) + 1 /\ t[Len(q) + 1] = e
      /\ \A i \in 1..Len(q) : t[i] = q[i]
  BY AppendProperties, LenProperties
<1>2. \A i \in 1..Len(q) : i \in 1..Len(t)
  BY <1>1
<1>3. \A i \in 1..Len(t) : i \in 1..Len(q) \/ (i > Len(q) /\ t[i] \in {e})
  BY <1>1
<1> QED  BY <1>1, <1>2, <1>3 DEF Longer

LEMMA LongerSame == ASSUME NEW q, Len(q) \in Nat, NEW more PROVE Longer(q, q, more)
BY DEF Longer

LEMMA LongerMore ==
    ASSUME NEW q, NEW t, NEW a, NEW b, Longer(q, t, a), a \subseteq b
    PROVE  Longer(q, t, b)
BY DEF Longer

LEMMA LongerTwice ==
    ASSUME NEW q, NEW s, NEW t, NEW a, NEW b, Longer(q, s, a), Longer(s, t, b)
    PROVE  Longer(q, t, a \cup b)
<1>1. /\ Len(q) \in Nat /\ Len(t) \in Nat /\ Len(q) <= Len(t)
      /\ \A i \in 1..Len(q) : i \in 1..Len(t) /\ t[i] = q[i]
  BY DEF Longer
<1>2. \A i \in 1..Len(t) : i \in 1..Len(q) \/ (i > Len(q) /\ t[i] \in a \cup b)
  BY DEF Longer
<1> QED  BY <1>1, <1>2 DEF Longer

LEMMA ShorterTail ==
    ASSUME NEW S, NEW q \in Seq(S), q # <<>>, NEW t, t = Tail(q)
    PROVE  Shorter(q, t) /\ Head(q) = q[1] /\ Len(q) > 0
<1>1. /\ Len(q) \in Nat /\ Len(q) > 0 /\ Len(t) = Len(q) - 1 /\ Head(q) = q[1]
  BY HeadTailProperties, LenProperties, EmptySeq
<1>2. \A i \in 1..Len(t) : t[i] = q[i + 1]
  BY <1>1, HeadTailProperties
<1>3. \A i \in 1..Len(t) : i + 1 \in 1..Len(q)
  BY <1>1
<1>4. \A i \in 1..Len(q) : i = 1 \/ (i - 1 \in 1..Len(t) /\ q[i] = t[i - 1])
  <2> SUFFICES ASSUME NEW i \in 1..Len(q), i # 1 PROVE i - 1 \in 1..Len(t) /\ q[i] = t[i - 1]
    OBVIOUS
  <2> DEFINE j == i - 1
  <2>1. j \in 1..Len(t) /\ j + 1 = i
    BY <1>1
  <2> HIDE DEF j
  <2>2. q[i] = t[j]
    BY <1>2, <2>1
  <2> QED  BY <2>1, <2>2 DEF j
<1> QED  BY <1>1, <1>2, <1>3, <1>4 DEF Shorter

-----------------------------------------------------------------------------
(* The sessions on the wire and on the moduleQueue.                           *)

Answers == {"enabled", "failed", "resumed"}
Special == Answers \cup {"stanza", "filtered", "sendResume"}

\* No delegate filters what is received.
NoFilter == WillReceive = FALSE
Plain    == willQ = <<>> /\ \A i \in 1..Len(moduleQ) : moduleQ[i].name # "filtered"

\* The stanzas of session sid after position `from' of the moduleQueue begin with number
\* `first', and on a bound stream they are all that the server has sent.
Arriving(from, sid, first) ==
    \E last \in Int :
        /\ Run(moduleQ, from, sid, first, last)
        /\ last <= sessions[sid].out
        /\ conn = "bound" => attached = sid /\ last = sessions[sid].out

\* What follows an <enabled/> is the new session from its beginning.
EnabledRuns ==
    \A p \in 1..Len(moduleQ) :
        moduleQ[p].name = "enabled" =>
            /\ moduleQ[p].sid \in 1..Len(sessions) /\ moduleQ[p].arg \in {0, moduleQ[p].sid}
            /\ Arriving(p, moduleQ[p].sid, 1)

\* At most one answer to <enable/> or <resume/> is under way, and none while an <enable/> is.
OneAnswer ==
    \A i, j \in 1..Len(moduleQ) :
        moduleQ[i].name \in Answers /\ moduleQ[j].name \in Answers => i = j

OneEnable ==
    \A i, j \in 1..Len(c2s) : c2s[i].name = "enable" /\ c2s[j].name = "enable" => i = j

Asking    == Holds(c2s, {"enable"})
Asked     == Asking \/ Holds(moduleQ, {"enabled", "failed"})

\* The counters of the module go on, now or with the callbacks already posted.
Reading == isStarted \/ Holds(moduleQ, {"resumed"})
AskedOnce == OneAnswer /\ OneEnable /\ (Asking => ~Holds(moduleQ, Answers))

\* The module has not started while it is asked for, and knows that it asked.
AskedInTime == Asked => ~isStarted /\ (conn = "bound" => enableQueued \/ enableSent)

\* The <resume/> is decided on with the stored id and before anything else.
ResumeAlone ==
    \A i \in 1..Len(moduleQ) :
        moduleQ[i].name = "sendResume" =>
            /\ i = 1 /\ moduleQ[i].sid = store.id /\ ~isStarted /\ conn \in {"resuming", "closed"}
            /\ \A j \in 1..Len(moduleQ) : moduleQ[j].name \in {"sendResume", "didDisconnect"}

CallInv == Plain /\ EnabledRuns /\ AskedOnce /\ AskedInTime /\ ResumeAlone

\* A step that posts nothing the counters depend on.
Posted == {e \in ElementSet : e.name \notin Special /\ (conn = "bound" \/ e.name = "didDisconnect")}

Grow == \A s \in 1..Len(sessions) : s \in 1..Len(sessions') /\ sessions[s].out <= sessions'[s].out

Still ==
    /\ Longer(moduleQ, moduleQ', Posted)
    /\ conn' = conn \/ conn' = "closed" \/ (conn' = "binding" /\ moduleQ' = <<>>)
    /\ conn' = "bound" => /\ attached' = attached
                          /\ attached # 0 => sessions'[attached].out = sessions[attached].out
    /\ Grow

\* A step that writes no <enable/>.
Fewer ==
    /\ OneEnable => OneEnable'
    /\ Asking' => Asking
    /\ conn = "resuming" /\ conn' = "resuming" =>
          \A i \in 1..Len(c2s') : \E j \in 1..Len(c2s) : c2s'[i] = c2s[j]

LEMMA ArrivingStill ==
    ASSUME Inv, Inv', Still, NEW from \in 0..Len(moduleQ), NEW sid \in 1..Len(sessions),
           NEW first, Arriving(from, sid, first)
    PROVE  Arriving(from, sid, first)'
<1>1. PICK last \in Int :
        /\ Run(moduleQ, from, sid, first, last) /\ last <= sessions[sid].out
        /\ conn = "bound" => attached = sid /\ last = sessions[sid].out
  BY DEF Arriving
<1>2. \A e \in Posted : e.name # "stanza"
  BY DEF Posted, Special
<1>3. Longer(moduleQ, moduleQ', Posted)
  BY DEF Still
<1>4. Run(moduleQ', from, sid, first, last)
  <2> HIDE DEF Posted
  <2> QED  BY <1>1, <1>2, <1>3, RunLonger
<1>5. /\ sid \in 1..Len(sessions') /\ sessions[sid].out <= sessions'[sid].out
      /\ sessions[sid].out \in Int /\ sessions'[sid].out \in Int
  <2>1. sid \in 1..Len(sessions') /\ sessions[sid].out <= sessions'[sid].out
    BY DEF Still, Grow
  <2>2. sessions[sid] \in Session
    BY ElementOfSeq DEF Inv, TypeOK, ServerTypeOK
  <2>3. sessions'[sid] \in Session
    BY <2>1, ElementOfSeq DEF Inv, TypeOK, ServerTypeOK
  <2> QED  BY <2>1, <2>2, <2>3 DEF Session
<1>6. conn' = "bound" => attached' = sid /\ last = sessions'[sid].out
  <2> SUFFICES ASSUME conn' = "bound" PROVE attached' = sid /\ last = sessions'[sid].out
    OBVIOUS
  <2>1. conn = "bound" /\ attached' = attached
    BY DEF Still
  <2>2. sid # 0
    OBVIOUS
  <2> QED  BY <1>1, <2>1, <2>2 DEF Still
<1>7. last <= sessions'[sid].out
  BY <1>1, <1>5
<1> QED  BY <1>4, <1>6, <1>7 DEF Arriving

LEMMA HoldsAt == ASSUME NEW q, NEW S, q \in Seq(S), NEW names
                 PROVE  Holds(q, names) <=> \E i \in 1..Len(q) : q[i].name \in names
<1>1. DOMAIN q = 1..Len(q)
  BY LenProperties
<1> QED  BY <1>1 DEF Holds

LEMMA HoldsLonger ==
    ASSUME Inv, Inv', NEW more, Longer(moduleQ, moduleQ', more), NEW names,
           \A e \in more : e.name \notin names, Holds(moduleQ', names)
    PROVE  Holds(moduleQ, names)
<1>1. /\ Holds(moduleQ, names) <=> \E i \in 1..Len(moduleQ) : moduleQ[i].name \in names
      /\ Holds(moduleQ', names) <=> \E i \in 1..Len(moduleQ') : moduleQ'[i].name \in names
  BY HoldsAt DEF Inv, TypeOK, StreamTypeOK
<1>2. PICK i \in 1..Len(moduleQ') : moduleQ'[i].name \in names
  BY <1>1
<1>3. i \in 1..Len(moduleQ) /\ moduleQ'[i] = moduleQ[i]
  BY <1>2 DEF Longer
<1> QED  BY <1>1, <1>2, <1>3

LEMMA StillCalls ==
    ASSUME Inv, Inv', CallInv, Still, Fewer, willQ' = <<>>, store'.id = store.id,
           UNCHANGED <<isStarted, enableQueued, enableSent>>
    PROVE  CallInv'
<1>1. /\ Longer(moduleQ, moduleQ', Posted)
      /\ \A e \in Posted : e.name \notin Special
  BY DEF Still, Posted
<1>2. /\ \A i \in 1..Len(moduleQ') : moduleQ'[i].name \in Special =>
            i \in 1..Len(moduleQ) /\ moduleQ'[i] = moduleQ[i]
      /\ \A i \in 1..Len(moduleQ) : moduleQ'[i] = moduleQ[i]
  BY <1>1 DEF Longer
<1>3. Answers \subseteq Special /\ {"enabled", "failed"} \subseteq Special
      /\ "enabled" \in Special /\ "sendResume" \in Special /\ "filtered" \in Special
  BY DEF Special, Answers
<1>4. /\ Holds(moduleQ', Answers) => Holds(moduleQ, Answers)
      /\ Holds(moduleQ', {"enabled", "failed"}) => Holds(moduleQ, {"enabled", "failed"})
  BY <1>1, <1>3, HoldsLonger
<1>5. Plain'
  BY <1>2, <1>3 DEF CallInv, Plain
<1>6. EnabledRuns'
  <2> SUFFICES ASSUME NEW p \in 1..Len(moduleQ'), moduleQ'[p].name = "enabled"
               PROVE  /\ moduleQ'[p].sid \in 1..Len(sessions')
                      /\ moduleQ'[p].arg \in {0, moduleQ'[p].sid}
                      /\ Arriving(p, moduleQ[p].sid, 1)'
    BY Zenon DEF EnabledRuns
  <2>1. p \in 1..Len(moduleQ) /\ moduleQ'[p] = moduleQ[p]
    BY <1>2, <1>3
  <2>2. /\ moduleQ[p].sid \in 1..Len(sessions) /\ moduleQ[p].arg \in {0, moduleQ[p].sid}
        /\ Arriving(p, moduleQ[p].sid, 1)
    BY <2>1 DEF CallInv, EnabledRuns
  <2>3. p \in 0..Len(moduleQ) /\ moduleQ[p].sid \in 1..Len(sessions')
    BY <2>1, <2>2 DEF Still, Grow
  <2>4. Arriving(p, moduleQ[p].sid, 1)'
    <3>1. PICK sid : sid = moduleQ[p].sid
      OBVIOUS
    <3>2. Arriving(p, sid, 1)'
      BY <2>2, <2>3, <3>1, ArrivingStill
    <3>3. PICK last \in Int :
            /\ Run(moduleQ', p, sid, 1, last) /\ last <= sessions'[sid].out
            /\ conn' = "bound" => attached' = sid /\ last = sessions'[sid].out
      BY <3>2 DEF Arriving
    <3>4. sid = moduleQ'[p].sid
      BY <2>1, <3>1
    <3> QED  BY <3>3, <3>4 DEF Arriving
  <2> QED  BY <2>1, <2>2, <2>3, <2>4
<1>7. AskedOnce'
  <2>1. OneAnswer'
    BY <1>2, <1>3 DEF CallInv, AskedOnce, OneAnswer
  <2> QED  BY <1>4, <2>1 DEF CallInv, AskedOnce, Fewer
<1>8. AskedInTime'
  <2>1. Asked' => Asked
    BY <1>4 DEF Asked, Fewer
  <2>2. conn' = "bound" => conn = "bound"
    BY DEF Still
  <2> QED  BY <2>1, <2>2 DEF CallInv, AskedInTime
<1>9. ResumeAlone'
  <2> SUFFICES ASSUME NEW i \in 1..Len(moduleQ'), moduleQ'[i].name = "sendResume"
               PROVE  /\ i = 1 /\ moduleQ'[i].sid = store.id /\ ~isStarted
                      /\ conn' \in {"resuming", "closed"}
                      /\ \A j \in 1..Len(moduleQ') :
                            moduleQ'[j].name \in {"sendResume", "didDisconnect"}
    BY DEF ResumeAlone
  <2>1. i \in 1..Len(moduleQ) /\ moduleQ'[i] = moduleQ[i]
    BY <1>2, <1>3
  <2>2. /\ i = 1 /\ moduleQ[i].sid = store.id /\ ~isStarted /\ conn \in {"resuming", "closed"}
        /\ \A j \in 1..Len(moduleQ) : moduleQ[j].name \in {"sendResume", "didDisconnect"}
    BY <2>1 DEF CallInv, ResumeAlone
  <2>3. \A j \in 1..Len(moduleQ') : moduleQ'[j].name \in {"sendResume", "didDisconnect"}
    BY <1>1, <2>2 DEF Longer, Posted
  <2>4. moduleQ' # <<>>
    BY <2>1 DEF Longer
  <2> QED  BY <2>1, <2>2, <2>3, <2>4 DEF Still
<1> QED  BY <1>5, <1>6, <1>7, <1>8, <1>9 DEF CallInv

LEMMA StillPosted ==
    ASSUME Inv, Inv', NEW e, moduleQ' = Append(moduleQ, e), e.name \notin Special,
           conn = "bound" \/ e.name = "didDisconnect"
    PROVE  Longer(moduleQ, moduleQ', Posted)
<1> DEFINE S == ElementSet \cup {e}
<1>1. moduleQ \in Seq(S) /\ e \in S
  <2>1. ElementSet \subseteq S /\ e \in S
    OBVIOUS
  <2> HIDE DEF S
  <2> QED  BY <2>1, WiderSeq, QueueTypes
<1> HIDE DEF S
<1>2. Longer(moduleQ, moduleQ', {e}) /\ Len(moduleQ') = Len(moduleQ) + 1
  BY <1>1, LongerAppend
<1>3. e \in ElementSet
  <2>1. moduleQ' \in Seq(ElementSet)
    BY DEF Inv, TypeOK, StreamTypeOK
  <2>2. Len(moduleQ) + 1 \in 1..Len(moduleQ') /\ moduleQ'[Len(moduleQ) + 1] = e
    BY <1>2 DEF Longer
  <2> QED  BY <2>1, <2>2, ElementOfSeq
<1>4. {e} \subseteq Posted
  BY <1>3 DEF Posted
<1> QED  BY <1>2, <1>4, LongerMore

LEMMA StillKept == ASSUME Inv, UNCHANGED moduleQ PROVE Longer(moduleQ, moduleQ', Posted)
<1>1. Len(moduleQ) \in Nat
  BY QueueTypes, LenProperties
<1> QED  BY <1>1, LongerSame

LEMMA OutIsNat ==
    ASSUME Inv
    PROVE  \A s \in 1..Len(sessions) : sessions[s] \in Session /\ sessions[s].out \in Nat
<1>1. \A s \in 1..Len(sessions) : sessions[s] \in Session
  BY ElementOfSeq DEF Inv, TypeOK, ServerTypeOK
<1> QED  BY <1>1 DEF Session

LEMMA GrowKept == ASSUME Inv, UNCHANGED sessions PROVE Grow
BY OutIsNat DEF Grow

LEMMA FewerKept == ASSUME Inv, UNCHANGED c2s PROVE Fewer
BY DEF Fewer, OneEnable, Asking, Holds

LEMMA FewerNone == ASSUME c2s' = <<>> PROVE Fewer
<1>1. Len(c2s') = 0 /\ DOMAIN c2s' = {}
  OBVIOUS
<1> QED  BY <1>1 DEF Fewer, OneEnable, Asking, Holds

LEMMA FewerTaken == ASSUME Inv, Inv', c2s # <<>>, c2s' = Tail(c2s) PROVE Fewer
<1>1. Shorter(c2s, c2s')
  BY ShorterTail, QueueTypes
<1>2. /\ Asking <=> \E i \in 1..Len(c2s) : c2s[i].name \in {"enable"}
      /\ Asking' <=> \E i \in 1..Len(c2s') : c2s'[i].name \in {"enable"}
  BY HoldsAt DEF Inv, TypeOK, StreamTypeOK, Asking
<1>3. \A i \in 1..Len(c2s') : i \in Nat /\ i + 1 \in 1..Len(c2s) /\ c2s'[i] = c2s[i + 1]
  BY <1>1 DEF Shorter
<1>4. OneEnable => OneEnable'
  <2> SUFFICES ASSUME OneEnable, NEW i \in 1..Len(c2s'), NEW j \in 1..Len(c2s'),
                      c2s'[i].name = "enable", c2s'[j].name = "enable"
               PROVE  i = j
    BY DEF OneEnable
  <2>1. i + 1 = j + 1
    BY <1>3 DEF OneEnable
  <2> QED  BY <1>3, <2>1
<1> QED  BY <1>2, <1>3, <1>4 DEF Fewer

LEMMA OtherWritten ==
    ASSUME Inv, Inv', NEW e, c2s' = Append(c2s, e), e.name # "enable"
    PROVE  (OneEnable => OneEnable') /\ (Asking' => Asking)
<1> DEFINE S == ElementSet \cup {e}
<1>1. c2s \in Seq(S) /\ e \in S
  <2>1. ElementSet \subseteq S /\ e \in S
    OBVIOUS
  <2> HIDE DEF S
  <2> QED  BY <2>1, WiderSeq, QueueTypes
<1> HIDE DEF S
<1>2. Longer(c2s, c2s', {e})
  BY <1>1, LongerAppend
<1>3. \A i \in 1..Len(c2s') : c2s'[i].name = "enable" => i \in 1..Len(c2s) /\ c2s'[i] = c2s[i]
  BY <1>2 DEF Longer
<1>4. /\ Asking <=> \E i \in 1..Len(c2s) : c2s[i].name \in {"enable"}
      /\ Asking' <=> \E i \in 1..Len(c2s') : c2s'[i].name \in {"enable"}
  BY HoldsAt DEF Inv, TypeOK, StreamTypeOK, Asking
<1>5. OneEnable => OneEnable'
  BY <1>3 DEF OneEnable
<1> QED  BY <1>3, <1>4, <1>5

LEMMA FewerWritten ==
    ASSUME Inv, Inv', NEW e, c2s' = Append(c2s, e), e.name # "enable",
           conn # "resuming" \/ conn' # "resuming"
    PROVE  Fewer
BY OtherWritten DEF Fewer

\* What arrives when nothing is filtered.
LEMMA ArrivesPlain ==
    ASSUME Inv, Plain, NoFilter, NEW e, Arrives(<<e>>, <<>>) \/ Arrives(<<>>, <<e>>)
    PROVE  /\ willQ' = <<>>
           /\ conn # "closed" => moduleQ' = Append(moduleQ, e)
           /\ conn = "closed" => UNCHANGED moduleQ
<1>1. WillReceive = FALSE /\ willQ = <<>> /\ moduleQ \in Seq(ElementSet)
  BY QueueTypes DEF Plain, NoFilter
<1>2. moduleQ \o <<e>> \o <<>> = Append(moduleQ, e) /\ moduleQ \o <<>> \o <<e>> = Append(moduleQ, e)
  BY <1>1
<1> DEFINE a == moduleQ \o <<e>> \o <<>>
           b == moduleQ \o <<>> \o <<e>>
<1>3. \/ conn # "closed" /\ (moduleQ' = a \/ moduleQ' = b) /\ UNCHANGED willQ
      \/ conn = "closed" /\ UNCHANGED <<moduleQ, willQ>>
  BY <1>1, Zenon DEF Arrives
<1>4. a = Append(moduleQ, e) /\ b = Append(moduleQ, e)
  BY <1>2
<1> HIDE DEF a, b
<1> QED  BY <1>1, <1>3, <1>4

LEMMA ServerStill ==
    ASSUME Inv, Inv', QueueInv, Plain, NoFilter,
           ServerHandlesStanza \/ ServerHandlesClose \/ ServerHandlesRequest \/ ServerSendsAck
             \/ ServerSendsRequest \/ ServerExpires
             \/ (ServerHandlesResume /\ conn # "resuming")
             \/ (ServerSendsStanza /\ (conn \in {"closed", "binding"}))
    PROVE  Still /\ Fewer /\ willQ' = <<>>
<1>1. \A name, arg, sid : Element(name, arg, sid).name = name
  BY DEF Element
<1>2. willQ = <<>> /\ Len(sessions) \in Nat /\ sessions \in Seq(Session)
  BY LenProperties DEF Plain, Inv, TypeOK, ServerTypeOK
<1>3. \A s \in 1..Len(sessions) : sessions[s] \in Session /\ sessions[s].out \in Nat
  BY OutIsNat
<1>4. CASE ServerHandlesStanza \/ ServerHandlesClose
  <2>1. /\ UNCHANGED <<conn, moduleQ, willQ, attached>> /\ c2s # <<>> /\ c2s' = Tail(c2s)
        /\ \/ UNCHANGED sessions
           \/ attached # 0 /\ \E l : sessions' = [sessions EXCEPT ![attached].log = l]
           \/ attached # 0 /\ sessions' = [sessions EXCEPT ![attached].alive = FALSE]
    BY <1>4 DEF ServerHandlesStanza, ServerHandlesClose, streamVars, Take
  <2>2. /\ Len(sessions') = Len(sessions)
        /\ \A s \in 1..Len(sessions) : sessions'[s].out = sessions[s].out
    <3>1. CASE UNCHANGED sessions
      BY <3>1
    <3>2. CASE attached # 0 /\ \E l : sessions' = [sessions EXCEPT ![attached].log = l]
      <4>1. PICK l : sessions' = [sessions EXCEPT ![attached].log = l]
        BY <3>2
      <4> QED  BY <1>2, <1>3, <4>1 DEF Session
    <3>3. CASE attached # 0 /\ sessions' = [sessions EXCEPT ![attached].alive = FALSE]
      BY <1>2, <1>3, <3>3 DEF Session
    <3> QED  BY <2>1, <3>1, <3>2, <3>3
  <2>3. Grow
    BY <1>3, <2>2 DEF Grow
  <2>4. attached # 0 => sessions'[attached].out = sessions[attached].out
    BY <2>2 DEF Inv, SessionsKnown
  <2> QED  BY <1>2, <2>1, <2>3, <2>4, StillKept, FewerTaken DEF Still
<1>5. CASE ServerHandlesRequest
  <2>1. /\ UNCHANGED <<conn, sessions, attached>> /\ c2s # <<>> /\ c2s' = Tail(c2s)
        /\ \/ UNCHANGED <<moduleQ, willQ>>
           \/ Arrives(<<Element("a", HandledCount(attached), 0)>>, <<>>)
    BY <1>5 DEF ServerHandlesRequest, streamVars, serverVars, Take
  <2>2. willQ' = <<>> /\ Longer(moduleQ, moduleQ', Posted)
    <3>1. CASE UNCHANGED <<moduleQ, willQ>>
      BY <1>2, <3>1, StillKept
    <3>2. CASE Arrives(<<Element("a", HandledCount(attached), 0)>>, <<>>)
      <4>1. PICK e : e.name = "a" /\ Arrives(<<e>>, <<>>)
        BY <1>1, <3>2
      <4>2. conn \in {"bound", "closed"}
        BY <1>5, TakesWhenBound DEF ServerHandlesRequest
      <4>3. e.name \notin Special
        BY <4>1 DEF Special, Answers
      <4>4. CASE moduleQ' = Append(moduleQ, e) /\ conn # "closed"
        BY <4>2, <4>3, <4>4, <4>1, ArrivesPlain, StillPosted
      <4>5. CASE UNCHANGED moduleQ
        BY <4>1, <4>5, ArrivesPlain, StillKept
      <4> QED  BY <4>1, <4>4, <4>5, ArrivesPlain
    <3> QED  BY <2>1, <3>1, <3>2
  <2>3. Fewer /\ Grow
    BY <2>1, FewerTaken, GrowKept
  <2> QED  BY <2>1, <2>2, <2>3 DEF Still
<1>6. CASE ServerSendsAck \/ ServerSendsRequest
  <2>1. UNCHANGED <<conn, sessions, attached, c2s>> /\ conn = "bound"
    BY <1>6 DEF ServerSendsAck, ServerSendsRequest, streamVars, serverVars
  <2>2. PICK e : e.name \in {"a", "r"} /\ Arrives(<<e>>, <<>>)
    BY <1>1, <1>6 DEF ServerSendsAck, ServerSendsRequest
  <2>3. e.name \notin Special
    BY <2>2 DEF Special, Answers
  <2>4. willQ' = <<>> /\ moduleQ' = Append(moduleQ, e)
    BY <2>1, <2>2, ArrivesPlain
  <2>5. Longer(moduleQ, moduleQ', Posted)
    BY <2>1, <2>3, <2>4, StillPosted
  <2>6. Fewer /\ Grow
    BY <2>1, FewerKept, GrowKept
  <2> QED  BY <2>1, <2>4, <2>5, <2>6 DEF Still
<1>7. CASE ServerExpires
  <2>1. /\ UNCHANGED <<conn, moduleQ, willQ, attached, c2s>>
        /\ \E s \in DOMAIN sessions : sessions' = [sessions EXCEPT ![s].alive = FALSE]
    BY <1>7 DEF ServerExpires, streamVars
  <2>2. /\ Len(sessions') = Len(sessions)
        /\ \A s \in 1..Len(sessions) : sessions'[s].out = sessions[s].out
    BY <1>2, <1>3, <2>1 DEF Session
  <2>3. Grow
    BY <1>3, <2>2 DEF Grow
  <2>4. attached # 0 => sessions'[attached].out = sessions[attached].out
    BY <2>2 DEF Inv, SessionsKnown
  <2> QED  BY <1>2, <2>1, <2>3, <2>4, StillKept, FewerKept DEF Still
<1>8. CASE ServerHandlesResume /\ conn # "resuming"
  <2>1. /\ UNCHANGED <<conn, moduleQ, willQ, attached, sessions>>
        /\ c2s # <<>> /\ c2s' = Tail(c2s)
    BY <1>8 DEF ServerHandlesResume, Take
  <2> QED  BY <1>2, <2>1, StillKept, FewerTaken, GrowKept DEF Still
<1>9. CASE ServerSendsStanza /\ (conn \in {"closed", "binding"})
  <2>1. UNCHANGED <<conn, c2s, attached>> /\ conn # "bound"
    BY <1>9 DEF ServerSendsStanza, streamVars
  <2>2. CASE attached # 0
    <3>1. /\ sessions' = [sessions EXCEPT ![attached].out = @ + 1]
          /\ Arrives(<<>>, <<Element("stanza", sessions[attached].out + 1, attached)>>)
      BY <1>9, <2>2 DEF ServerSendsStanza
    <3>2. conn = "closed"
      BY <1>9, <2>2, AttachedIsBound
    <3>3. UNCHANGED moduleQ /\ willQ' = <<>>
      BY <3>1, <3>2, ArrivesPlain
    <3>4. Grow
      BY <1>2, <1>3, <3>1 DEF Grow, Session
    <3> QED  BY <2>1, <3>3, <3>4, StillKept, FewerKept DEF Still
  <2>3. CASE attached = 0
    <3>1. /\ UNCHANGED <<moduleQ, willQ>>
          /\ \E s \in DOMAIN sessions : sessions' = [sessions EXCEPT ![s].out = @ + 1]
      BY <1>9, <2>1, <2>3 DEF ServerSendsStanza
    <3>2. Grow
      BY <1>2, <1>3, <3>1 DEF Grow, Session
    <3> QED  BY <1>2, <2>1, <3>1, <3>2, StillKept, FewerKept DEF Still
  <2> QED  BY <2>2, <2>3
<1> QED  BY <1>4, <1>5, <1>6, <1>7, <1>8, <1>9


LEMMA StreamStill ==
    ASSUME Inv, Inv', QueueInv, Plain, NoFilter,
           Connect \/ Disconnect \/ SendStanza \/ ContinueReceive
    PROVE  /\ Still /\ Fewer /\ willQ' = <<>>
           /\ UNCHANGED <<sessions, session, isStarted, enableQueued, enableSent>>
<1>1. \A name, arg, sid : Element(name, arg, sid).name = name
  BY DEF Element
<1>2. willQ = <<>>
  BY DEF Plain
<1>3. CASE Connect
  <2>1. /\ conn = "closed" /\ ~Holds(moduleQ, {"didDisconnect"}) /\ UNCHANGED moduleQ
        /\ conn' = "binding" /\ c2s' = <<>> /\ UNCHANGED willQ
        /\ UNCHANGED <<sessions, session, isStarted, enableQueued, enableSent>>
    BY <1>3 DEF Connect, moduleVars, flagVars, histVars
  <2>2. moduleQ = <<>>
    <3> SUFFICES ASSUME moduleQ # <<>> PROVE FALSE
      OBVIOUS
    <3>1. Len(moduleQ) \in 1..Len(moduleQ)
      BY QueueTypes, LenProperties, EmptySeq
    <3>2. moduleQ[Len(moduleQ)].name = "didDisconnect"
      BY <2>1 DEF QueueInv, ClosedEnds
    <3> QED  BY <2>1, <3>1, <3>2, HoldsAt, QueueTypes
  <2> QED  BY <1>2, <2>1, <2>2, StillKept, FewerNone, GrowKept DEF Still
<1>4. CASE Disconnect
  <2>1. /\ conn' = "closed" /\ UNCHANGED willQ /\ conn # "closed"
        /\ UNCHANGED <<sessions, session, isStarted, enableQueued, enableSent>>
    BY <1>4 DEF Disconnect, serverVars, moduleVars, flagVars, histVars
  <2>2. Grow
    BY <2>1, GrowKept
  <2>3. PICK d : d.name = "didDisconnect" /\ d = Element("didDisconnect", 0, 0)
    BY <1>1
  <2>4. CASE UNCHANGED c2s /\ moduleQ' = Append(moduleQ, Element("didDisconnect", 0, 0))
    <3>1. d.name \notin Special
      BY <2>3 DEF Special, Answers
    <3>2. Longer(moduleQ, moduleQ', Posted)
      BY <2>3, <2>4, <3>1, StillPosted
    <3> QED  BY <1>2, <2>1, <2>2, <2>4, <3>2, FewerKept DEF Still
  <2>5. CASE /\ conn = "bound" /\ c2s' = Append(c2s, Element("close", 0, 0))
             /\ moduleQ' = moduleQ \o <<Element("closing", 0, 0), Element("didDisconnect", 0, 0)>>
    <3>1. PICK c : c.name = "closing" /\ c = Element("closing", 0, 0)
      BY <1>1
    <3>2. c \in ElementSet /\ d \in ElementSet
      BY <2>3, <3>1 DEF Element, ElementSet, ElementName
    <3> DEFINE q == Append(moduleQ, c)
    <3>3. moduleQ' = Append(q, d) /\ q \in Seq(ElementSet)
      BY <2>3, <2>5, <3>1, <3>2, QueueTypes
    <3>4. Longer(moduleQ, q, {c}) /\ Longer(q, moduleQ', {d})
      <4>1. Longer(moduleQ, q, {c})
        BY <3>2, QueueTypes, LongerAppend
      <4>2. Longer(q, moduleQ', {d})
        <5> HIDE DEF q
        <5> QED  BY <3>2, <3>3, LongerAppend
      <4> QED  BY <4>1, <4>2
    <3>5. Longer(moduleQ, moduleQ', {c} \cup {d})
      <4> HIDE DEF q
      <4> QED  BY <3>4, LongerTwice
    <3>6. {c} \cup {d} \subseteq Posted
      BY <2>3, <2>5, <3>1, <3>2 DEF Posted, Special, Answers
    <3>7. Longer(moduleQ, moduleQ', Posted)
      BY <3>5, <3>6, LongerMore
    <3>8. PICK e : e.name = "close" /\ c2s' = Append(c2s, e)
      BY <1>1, <2>5
    <3>9. Fewer
      BY <2>1, <3>8, FewerWritten
    <3> QED  BY <1>2, <2>1, <2>2, <3>7, <3>9 DEF Still
  <2> QED  BY <1>4, <2>4, <2>5 DEF Disconnect
<1>5. CASE SendStanza
  <2>1. /\ conn = "bound" /\ UNCHANGED <<conn, willQ, attached>>
        /\ UNCHANGED <<sessions, session, isStarted, enableQueued, enableSent>>
    BY <1>5 DEF SendStanza, serverVars, moduleVars, flagVars, histVars
  <2>2. PICK e : e.name = "didSend" /\ moduleQ' = Append(moduleQ, e)
    BY <1>1, <1>5 DEF SendStanza
  <2>3. PICK f : f.name = "stanza" /\ c2s' = Append(c2s, f)
    BY <1>1, <1>5 DEF SendStanza
  <2>4. e.name \notin Special
    BY <2>2 DEF Special, Answers
  <2>5. Longer(moduleQ, moduleQ', Posted)
    BY <2>1, <2>2, <2>4, StillPosted
  <2>6. Fewer
    BY <2>1, <2>3, FewerWritten
  <2> QED  BY <1>2, <2>1, <2>5, <2>6, GrowKept DEF Still
<1>6. CASE ContinueReceive
  BY <1>2, <1>6 DEF ContinueReceive
<1> QED  BY <1>3, <1>4, <1>5, <1>6

\* Steps of the module that run no callback.
LEMMA ModuleStill ==
    ASSUME Inv, Inv', Plain, Drain \/ Delegates \/ Timers \/ CallRequestAck
    PROVE  /\ Still /\ Fewer /\ willQ' = <<>>
           /\ UNCHANGED <<conn, moduleQ, sessions, attached, session, isStarted, enableQueued,
                          enableSent>>
<1>1. UNCHANGED <<conn, moduleQ, willQ, sessions, attached, session, isStarted, enableQueued,
                  enableSent>>
  BY DEF Drain, DrainAck, DrainBlocked, DrainDone, Delegates, AnswerStanzaId, DelegateDecides,
     AnswerHandled, MarkHandledStanzaId, Timers, AutoRequestTimerFires, CallSendAck,
     CallRequestAck, streamVars, serverVars, flagVars, histVars
<1>2. c2s' = c2s \/ (conn = "bound" /\ c2s' = Append(c2s, Element("r", 0, 0)))
  BY DEF Drain, DrainAck, DrainBlocked, DrainDone, Delegates, AnswerStanzaId, DelegateDecides,
     AnswerHandled, MarkHandledStanzaId, Timers, AutoRequestTimerFires, CallSendAck,
     CallRequestAck, RequestAck, Written
<1>3. Fewer
  <2>1. PICK e : e.name = "r" /\ e = Element("r", 0, 0)
    BY DEF Element
  <2>2. CASE c2s' = c2s
    BY <2>2, FewerKept
  <2>3. CASE conn = "bound" /\ c2s' = Append(c2s, e)
    BY <2>1, <2>3, FewerWritten
  <2> QED  BY <1>2, <2>1, <2>2, <2>3
<1>4. willQ' = <<>>
  BY <1>1 DEF Plain
<1> QED  BY <1>1, <1>3, <1>4, StillKept, GrowKept DEF Still

\* The storage keeps the id of its session, whatever counts are written.
LEMMA ModuleStoreId ==
    ASSUME Inv, Drain \/ Delegates \/ Timers \/ CallRequestAck
    PROVE  store'.id = store.id
<1> USE DEF Inv, TypeOK, Storage, EmptyStore
<1>1. CASE Drain
  <2>1. \A hs, pending : StoreOutgoing(hs, pending).id = store.id
    BY DEF StoreOutgoing
  <2>2. store' = store \/ (\E hs, pending : store' = StoreOutgoing(hs, pending))
        \/ (\E h : ProcessAck(h))
    BY <1>1, Zenon DEF Drain, DrainAck, DrainBlocked, DrainDone
  <2>3. CASE \E h : ProcessAck(h)
    BY <2>1, <2>3 DEF ProcessAck
  <2> QED  BY <2>1, <2>2, <2>3
<1>2. CASE AnswerStanzaId \/ DelegateDecides \/ AutoRequestTimerFires \/ CallRequestAck
  BY <1>2 DEF AnswerStanzaId, DelegateDecides, AutoRequestTimerFires, CallRequestAck
<1>3. \A u, offset : CountHandled(u, offset) => store'.id = store.id
  BY DEF CountHandled, StoreHandled
<1>4. \A u : SendAck(u) \/ MaybeSendAck(u) => store'.id = store.id
  BY <1>3 DEF SendAck, MaybeSendAck
<1>5. CASE AnswerHandled
  BY <1>4, <1>5 DEF AnswerHandled
<1>6. CASE MarkHandledStanzaId
  BY <1>4, <1>6 DEF MarkHandledStanzaId
<1>7. CASE CallSendAck
  BY <1>4, <1>7 DEF CallSendAck
<1> QED  BY <1>1, <1>2, <1>5, <1>6, <1>7 DEF Delegates, Timers

\* No callback on an empty queue.
LEMMA NothingHeld ==
    ASSUME moduleQ = <<>>
    PROVE  Len(moduleQ) = 0 /\ \A names : ~Holds(moduleQ, names)
<1>1. Len(<<>>) = 0 /\ DOMAIN <<>> = {}
  OBVIOUS
<1> QED  BY <1>1 DEF Holds

\* Before a stream is bound there is nothing for the module to hear, so nothing was asked.
LEMMA QuietCalls ==
    ASSUME Inv, QueueInv, ArmedInv, conn \in {"binding", "resuming"}
    PROVE  ~isStarted /\ ~Asking /\ ~Reading
<1>1. ~isStarted
  BY DEF ArmedInv, Quiet, Idle
<1>2. ~Asking
  <2>1. \A i \in DOMAIN c2s : c2s[i].name = "resume"
    <3>1. c2s = <<>> => DOMAIN c2s = {}
      OBVIOUS
    <3> QED  BY <3>1 DEF QueueInv, BindingIsQuiet, ResumingIsQuiet
  <2> QED  BY <2>1 DEF Asking, Holds
<1>3. ~Holds(moduleQ, {"resumed"})
  <2>1. CASE moduleQ = <<>>
    BY <2>1, NothingHeld
  <2>2. CASE moduleQ # <<>>
    <3>1. Len(moduleQ) = 1 /\ moduleQ[1].name = "sendResume"
      BY <2>2 DEF QueueInv, BindingIsQuiet, ResumingIsQuiet
    <3> QED  BY <3>1, HoldsAt, QueueTypes
  <2> QED  BY <2>1, <2>2
<1> QED  BY <1>1, <1>2, <1>3 DEF Reading

LEMMA StartCustomCalls ==
    ASSUME Inv, Inv', QueueInv, ArmedInv, CallInv, StartCustomBinding
    PROVE  CallInv' /\ ~Reading'
<1>1. /\ conn = "binding" /\ conn' = "resuming" /\ UNCHANGED <<c2s, willQ, store, isStarted>>
      /\ moduleQ' = Append(moduleQ, Element("sendResume", 0, store.id)) /\ moduleQ = <<>>
  BY DEF StartCustomBinding, moduleVars, flagVars, QueueInv, BindingIsQuiet
<1>2. PICK e : e.name = "sendResume" /\ e.sid = store.id /\ e = Element("sendResume", 0, store.id)
  BY DEF Element
<1>3. Len(moduleQ') = 1 /\ moduleQ'[1] = e
  BY <1>1, <1>2
<1>4. \A i \in 1..Len(moduleQ') : i = 1 /\ moduleQ'[i] = e
  BY <1>3
<1>5. \A names : "sendResume" \notin names => ~Holds(moduleQ', names)
  <2>1. moduleQ' \in Seq(ElementSet)
    BY DEF Inv, TypeOK, StreamTypeOK
  <2> QED  BY <1>2, <1>4, <2>1, HoldsAt
<1>6. ~isStarted /\ ~Asking'
  BY <1>1, QuietCalls DEF Asking
<1>7. /\ ~Holds(moduleQ', {"enabled", "failed"}) /\ ~Holds(moduleQ', Answers)
      /\ ~Holds(moduleQ', {"resumed"})
  BY <1>5 DEF Answers
<1>8. Plain' /\ EnabledRuns' /\ ResumeAlone'
  BY <1>1, <1>2, <1>4, <1>6 DEF CallInv, Plain, EnabledRuns, ResumeAlone
<1>9. AskedOnce' /\ AskedInTime'
  <2>1. OneAnswer'
    BY <1>4 DEF OneAnswer
  <2>2. OneEnable'
    BY <1>1 DEF CallInv, AskedOnce, OneEnable
  <2> QED  BY <1>6, <1>7, <2>1, <2>2 DEF AskedOnce, AskedInTime, Asked
<1> QED  BY <1>1, <1>6, <1>7, <1>8, <1>9 DEF CallInv, Reading

LEMMA StartStandardCalls ==
    ASSUME Inv, Inv', QueueInv, ArmedInv, CallInv, StartStandardBinding
    PROVE  CallInv' /\ ~Reading'
<1>1. /\ conn = "binding" /\ conn' = "bound" /\ moduleQ = <<>> /\ c2s = <<>>
      /\ UNCHANGED <<c2s, willQ, moduleQ, isStarted>>
  BY DEF StartStandardBinding, moduleVars, flagVars, QueueInv, BindingIsQuiet
<1>2. Len(moduleQ') = 0 /\ moduleQ' = moduleQ /\ \A names : ~Holds(moduleQ, names)
  BY <1>1, NothingHeld
<1>3. ~isStarted /\ ~Asking
  BY <1>1, QuietCalls
<1>4. Plain' /\ EnabledRuns' /\ ResumeAlone' /\ OneAnswer'
  BY <1>1, <1>2 DEF CallInv, Plain, EnabledRuns, ResumeAlone, OneAnswer
<1>5. OneEnable' /\ ~Asking'
  BY <1>1, <1>3 DEF CallInv, AskedOnce, OneEnable, Asking
<1>6. \A names : ~Holds(moduleQ', names)
  BY <1>2
<1> QED  BY <1>1, <1>3, <1>4, <1>5, <1>6 DEF CallInv, AskedOnce, AskedInTime, Asked, Reading

LEMMA CrashCalls ==
    ASSUME Inv, Inv', CallInv, Crash
    PROVE  CallInv' /\ ~Reading'
<1>1. /\ conn' = "closed" /\ moduleQ' = <<>> /\ willQ' = <<>> /\ ~isStarted' /\ UNCHANGED c2s
  BY DEF Crash
<1>2. Len(moduleQ') = 0 /\ \A names : ~Holds(moduleQ', names)
  <2>1. Len(<<>>) = 0 /\ DOMAIN <<>> = {}
    OBVIOUS
  <2> QED  BY <1>1, <2>1 DEF Holds
<1>3. Plain' /\ EnabledRuns' /\ ResumeAlone' /\ OneAnswer'
  BY <1>1, <1>2 DEF Plain, EnabledRuns, ResumeAlone, OneAnswer
<1>4. OneEnable'
  BY <1>1 DEF CallInv, AskedOnce, OneEnable
<1> QED  BY <1>1, <1>2, <1>3, <1>4 DEF CallInv, AskedOnce, AskedInTime, Asked, Reading

LEMMA EnableCalls ==
    ASSUME Inv, Inv', QueueInv, CallInv, Enable
    PROVE  CallInv' /\ ~Reading /\ ~Reading'
<1>1. /\ UNCHANGED <<conn, willQ, isStarted, sessions, attached, store>>
      /\ ~isStarted /\ ~enableQueued /\ ~enableSent /\ enableQueued' = TRUE
      /\ ~Holds(moduleQ, {"resumed", "resumeFailed"}) /\ conn \in {"bound", "closed"}
  BY DEF Enable, streamVars, serverVars
<1>2. ~Holds(moduleQ, {"resumed"})
  BY <1>1 DEF Holds
<1>3. CASE conn = "closed"
  <2>1. UNCHANGED <<moduleQ, c2s>>
    BY <1>3 DEF Enable, Written
  <2>2. /\ Plain' /\ OneEnable' /\ OneAnswer' /\ (Asking' => Asking)
        /\ (Holds(moduleQ', Answers) <=> Holds(moduleQ, Answers))
    BY <1>1, <2>1 DEF CallInv, Plain, AskedOnce, OneEnable, OneAnswer, Asking, Holds
  <2>3. EnabledRuns'
    <3>1. Len(moduleQ') = Len(moduleQ) /\ UNCHANGED <<moduleQ, conn, sessions, attached>>
      BY <1>1, <2>1
    <3>2. EnabledRuns
      BY DEF CallInv
    <3> QED  BY <3>1, <3>2 DEF EnabledRuns, Arriving
  <2>4. ResumeAlone'
    BY <1>1, <2>1 DEF CallInv, ResumeAlone
  <2>5. AskedOnce' /\ AskedInTime'
    BY <1>1, <1>3, <2>2 DEF CallInv, AskedOnce, AskedInTime
  <2>6. ~Holds(moduleQ', {"resumed"})
    BY <1>2, <2>1
  <2> QED  BY <1>1, <1>2, <2>2, <2>3, <2>4, <2>5, <2>6 DEF CallInv, Reading
<1>4. CASE conn = "bound"
  <2>1. ~Asked
    BY <1>1, <1>4 DEF CallInv, AskedInTime
  <2>2. PICK e : e.name = "didSendEnable" /\ moduleQ' = Append(moduleQ, e)
    BY <1>4 DEF Enable, Element
  <2>3. PICK f : f.name = "enable" /\ c2s' = Append(c2s, f)
    BY <1>4 DEF Enable, Element, Written
  <2>4. Longer(moduleQ, moduleQ', {e}) /\ Longer(c2s, c2s', {f}) /\ Len(c2s') = Len(c2s) + 1
    <3> DEFINE S == ElementSet \cup {e}
               R == ElementSet \cup {f}
    <3>1. ElementSet \subseteq S /\ e \in S /\ ElementSet \subseteq R /\ f \in R
      OBVIOUS
    <3> HIDE DEF S, R
    <3>2. moduleQ \in Seq(S) /\ c2s \in Seq(R)
      BY <3>1, WiderSeq, QueueTypes
    <3> QED  BY <2>2, <2>3, <3>1, <3>2, LongerAppend
  <2>5. e.name \notin Special
    BY <2>2 DEF Special, Answers
  <2>6. Longer(moduleQ, moduleQ', Posted)
    BY <1>4, <2>2, <2>5, StillPosted
  <2>7. Still
    BY <1>1, <2>6, GrowKept DEF Still
  <2>8. \A i \in 1..Len(moduleQ') : moduleQ'[i].name \in Special =>
            i \in 1..Len(moduleQ) /\ moduleQ'[i] = moduleQ[i]
    BY <2>4, <2>5 DEF Longer
  <2>9. Answers \subseteq Special /\ "enabled" \in Special /\ "sendResume" \in Special
        /\ "filtered" \in Special /\ "resumed" \in Special
    BY DEF Special, Answers
  <2>10. moduleQ' \in Seq(ElementSet) /\ c2s' \in Seq(ElementSet)
    BY DEF Inv, TypeOK, StreamTypeOK
  <2>11. \A i \in 1..Len(moduleQ') : moduleQ'[i].name \notin Answers
    <3>1. \A i \in 1..Len(moduleQ) : moduleQ[i].name \notin Answers
      <4>1. \A i \in 1..Len(moduleQ) : moduleQ[i].name \notin {"enabled", "failed"}
        BY <2>1, HoldsAt, QueueTypes DEF Asked
      <4>2. \A i \in 1..Len(moduleQ) : moduleQ[i].name \notin {"resumed"}
        BY <1>2, HoldsAt, QueueTypes
      <4> QED  BY <4>1, <4>2 DEF Answers
    <3> QED  BY <2>8, <2>9, <3>1
  <2>12. \A i \in 1..Len(c2s') : c2s'[i].name = "enable" => i = Len(c2s) + 1
    <3>1. \A i \in 1..Len(c2s) : c2s[i].name \notin {"enable"}
      BY <2>1, HoldsAt, QueueTypes DEF Asked, Asking
    <3>2. \A i \in 1..Len(c2s') : i \in 1..Len(c2s) => c2s'[i] = c2s[i]
      BY <2>4 DEF Longer
    <3>3. \A i \in 1..Len(c2s') : i \in 1..Len(c2s) \/ i = Len(c2s) + 1
      BY <2>4 DEF Longer
    <3> QED  BY <3>1, <3>2, <3>3
  <2>13. OneEnable' /\ OneAnswer'
    BY <2>11, <2>12 DEF OneEnable, OneAnswer
  <2>14. ~Holds(moduleQ', Answers)
    BY <2>10, <2>11, HoldsAt
  <2>15. ~Holds(moduleQ', {"resumed"})
    BY <2>10, <2>11, HoldsAt DEF Answers
  <2>16. Plain'
    BY <1>1, <2>8, <2>9 DEF CallInv, Plain
  <2>17. EnabledRuns'
    BY <2>11 DEF EnabledRuns, Answers
  <2>18. ResumeAlone'
    <3>1. \A i \in 1..Len(moduleQ) : moduleQ[i].name # "sendResume"
      BY <1>4 DEF CallInv, ResumeAlone
    <3> QED  BY <2>8, <2>9, <3>1 DEF ResumeAlone
  <2> QED  BY <1>1, <1>2, <2>13, <2>14, <2>15, <2>16, <2>17, <2>18
           DEF CallInv, AskedOnce, AskedInTime, Reading
<1> QED  BY <1>1, <1>3, <1>4

\* One callback or stanza is posted by the server.
LEMMA ArrivedLonger ==
    ASSUME Inv, NEW e, moduleQ' = Append(moduleQ, e)
    PROVE  Longer(moduleQ, moduleQ', {e}) /\ Len(moduleQ') = Len(moduleQ) + 1
<1> DEFINE S == ElementSet \cup {e}
<1>1. ElementSet \subseteq S /\ e \in S
  OBVIOUS
<1> HIDE DEF S
<1>2. moduleQ \in Seq(S)
  BY <1>1, WiderSeq, QueueTypes
<1> QED  BY <1>1, <1>2, LongerAppend

LEMMA AskingIsTaken ==
    ASSUME Inv, Inv', CallInv, Take("enable")
    PROVE  /\ Asking /\ ~Asking' /\ OneEnable' /\ ~Holds(moduleQ, Answers) /\ ~isStarted
           /\ conn = "bound" => enableQueued \/ enableSent
<1>1. c2s # <<>> /\ c2s' = Tail(c2s) /\ Head(c2s).name = "enable"
  BY DEF Take
<1>2. Shorter(c2s, c2s') /\ Head(c2s) = c2s[1] /\ Len(c2s) > 0
  BY <1>1, QueueTypes, ShorterTail
<1>3. Len(c2s) \in Nat /\ 1 \in 1..Len(c2s) /\ c2s[1].name = "enable"
  BY <1>1, <1>2 DEF Shorter
<1>4. Asking
  BY <1>3, HoldsAt, QueueTypes DEF Asking
<1>5. \A i \in 1..Len(c2s') : c2s'[i].name # "enable"
  <2> SUFFICES ASSUME NEW i \in 1..Len(c2s'), c2s'[i].name = "enable" PROVE FALSE
    OBVIOUS
  <2>1. i + 1 \in 1..Len(c2s) /\ c2s'[i] = c2s[i + 1]
    BY <1>2 DEF Shorter
  <2>2. i + 1 = 1
    BY <1>3, <2>1 DEF CallInv, AskedOnce, OneEnable
  <2> QED  BY <2>2
<1>6. ~Asking' /\ OneEnable'
  <2>1. c2s' \in Seq(ElementSet)
    BY DEF Inv, TypeOK, StreamTypeOK
  <2>2. Asking' <=> \E i \in 1..Len(c2s') : c2s'[i].name \in {"enable"}
    BY <2>1, HoldsAt DEF Asking
  <2> QED  BY <1>5, <2>2 DEF OneEnable
<1>7. ~Holds(moduleQ, Answers) /\ ~isStarted /\ (conn = "bound" => enableQueued \/ enableSent)
  BY <1>4 DEF CallInv, AskedOnce, AskedInTime, Asked
<1> QED  BY <1>4, <1>6, <1>7

LEMMA ServerEnableCalls ==
    ASSUME Inv, Inv', QueueInv, CallInv, NoFilter, ServerHandlesEnable
    PROVE  /\ CallInv' /\ Grow /\ ~Reading /\ ~Reading'
           /\ UNCHANGED conn /\ conn \in {"bound", "closed"}
<1>1. /\ UNCHANGED <<conn, isStarted, enableQueued, enableSent, store>> /\ Take("enable")
      /\ conn \in {"bound", "closed"}
  <2>1. UNCHANGED <<conn, isStarted, enableQueued, enableSent, store>> /\ Take("enable")
    BY DEF ServerHandlesEnable, streamVars, moduleVars, flagVars
  <2>2. "enable" # "resume"
    OBVIOUS
  <2> QED  BY <2>1, <2>2, TakesWhenBound
<1>2. /\ Asking /\ ~Asking' /\ OneEnable' /\ ~Holds(moduleQ, Answers) /\ ~isStarted
      /\ (conn = "bound" => enableQueued \/ enableSent)
  BY <1>1, AskingIsTaken
<1>3. PICK e : /\ \/ /\ e.name = "enabled" /\ e.sid = Len(sessions) + 1 /\ e.arg \in {0, e.sid}
                     /\ attached' = e.sid
                     /\ \E r \in BOOLEAN :
                           sessions' = Append(sessions, [log |-> <<>>, out |-> 0, alive |-> r])
                  \/ e.name = "failed" /\ UNCHANGED <<sessions, attached>>
               /\ Arrives(<<e>>, <<>>)
  BY <1>1 DEF ServerHandlesEnable, Element
<1>4. willQ' = <<>> /\ (conn # "closed" => moduleQ' = Append(moduleQ, e))
      /\ (conn = "closed" => UNCHANGED moduleQ)
  BY <1>3, ArrivesPlain DEF CallInv
<1>5. /\ Len(sessions) \in Nat /\ sessions \in Seq(Session)
      /\ \A s \in 1..Len(sessions) : sessions[s].out \in Nat
  BY OutIsNat, LenProperties DEF Inv, TypeOK, ServerTypeOK
<1>6. \A r \in BOOLEAN : sessions' = Append(sessions, [log |-> <<>>, out |-> 0, alive |-> r]) =>
         /\ Len(sessions') = Len(sessions) + 1
         /\ sessions'[Len(sessions) + 1].out = 0
         /\ \A s \in 1..Len(sessions) : sessions'[s] = sessions[s]
  <2> SUFFICES ASSUME NEW r \in BOOLEAN,
                      sessions' = Append(sessions, [log |-> <<>>, out |-> 0, alive |-> r])
               PROVE  /\ Len(sessions') = Len(sessions) + 1
                      /\ sessions'[Len(sessions) + 1].out = 0
                      /\ \A s \in 1..Len(sessions) : sessions'[s] = sessions[s]
    OBVIOUS
  <2>1. PICK x : x = [log |-> <<>>, out |-> 0, alive |-> r]
    OBVIOUS
  <2>2. x \in Session /\ x.out = 0
    BY <2>1 DEF Session
  <2>3. /\ Len(sessions') = Len(sessions) + 1 /\ sessions'[Len(sessions) + 1] = x
        /\ \A s \in 1..Len(sessions) : sessions'[s] = sessions[s]
    BY <1>5, <2>1, <2>2, AppendProperties
  <2> QED  BY <2>2, <2>3
<1>7. Grow
  <2>1. CASE UNCHANGED sessions
    BY <2>1, GrowKept
  <2>2. CASE \E r \in BOOLEAN : sessions' = Append(sessions, [log |-> <<>>, out |-> 0, alive |-> r])
    <3>1. /\ Len(sessions') = Len(sessions) + 1
          /\ \A s \in 1..Len(sessions) : sessions'[s] = sessions[s]
      BY <1>6, <2>2
    <3> QED  BY <1>5, <3>1 DEF Grow
  <2> QED  BY <1>3, <2>1, <2>2
<1>8. \A i \in 1..Len(moduleQ) : moduleQ[i].name \notin Answers
  BY <1>2, HoldsAt, QueueTypes
<1>9. \A i \in 1..Len(moduleQ') : \/ i \in 1..Len(moduleQ) /\ moduleQ'[i] = moduleQ[i]
                                  \/ conn = "bound" /\ i = Len(moduleQ) + 1 /\ i = Len(moduleQ')
                                     /\ moduleQ'[i] = e
  <2>1. CASE conn = "closed"
    BY <1>4, <2>1
  <2>2. CASE conn = "bound"
    <3>1. Longer(moduleQ, moduleQ', {e}) /\ Len(moduleQ') = Len(moduleQ) + 1
      BY <1>4, <2>2, ArrivedLonger
    <3>2. \A i \in 1..Len(moduleQ) : moduleQ'[i] = moduleQ[i]
      BY <3>1 DEF Longer
    <3>3. \A i \in 1..Len(moduleQ') : i \in 1..Len(moduleQ) \/ (i > Len(moduleQ) /\ moduleQ'[i] = e)
      BY <3>1 DEF Longer
    <3>4. Len(moduleQ) \in Nat
      BY QueueTypes, LenProperties
    <3> QED  BY <2>2, <3>1, <3>2, <3>3, <3>4
  <2> QED  BY <1>1, <2>1, <2>2
<1>10. e.name \in {"enabled", "failed"}
  BY <1>3
<1>11. Plain'
  BY <1>4, <1>9, <1>10 DEF CallInv, Plain
<1>12. EnabledRuns'
  <2> SUFFICES ASSUME NEW p \in 1..Len(moduleQ'), moduleQ'[p].name = "enabled"
               PROVE  /\ moduleQ'[p].sid \in 1..Len(sessions')
                      /\ moduleQ'[p].arg \in {0, moduleQ'[p].sid}
                      /\ Arriving(p, moduleQ[p].sid, 1)'
    BY Zenon DEF EnabledRuns
  <2>1. p = Len(moduleQ') /\ moduleQ'[p] = e /\ e.name = "enabled" /\ conn = "bound"
    BY <1>8, <1>9 DEF Answers
  <2>2. PICK r \in BOOLEAN : sessions' = Append(sessions, [log |-> <<>>, out |-> 0, alive |-> r])
    BY <1>3, <2>1
  <2>3. /\ e.sid = Len(sessions) + 1 /\ e.arg \in {0, e.sid} /\ attached' = e.sid
    BY <1>3, <2>1
  <2>4. PICK sid : sid = e.sid
    OBVIOUS
  <2>5. sid \in 1..Len(sessions') /\ sessions'[sid].out = 0
    BY <1>5, <1>6, <2>2, <2>3, <2>4
  <2>6. Run(moduleQ', p, sid, 1, 0)
    <3>1. \A i \in (p + 1)..Len(moduleQ') : ~IsStanza(moduleQ', i)
      BY <2>1
    <3>2. Run(moduleQ', p, sid, 1, 1 - 1)
      BY <3>1, RunNone
    <3> QED  BY <3>2
  <2>7. Arriving(p, sid, 1)'
    BY <2>3, <2>4, <2>5, <2>6 DEF Arriving
  <2>8. PICK last \in Int :
            /\ Run(moduleQ', p, sid, 1, last) /\ last <= sessions'[sid].out
            /\ conn' = "bound" => attached' = sid /\ last = sessions'[sid].out
    BY <2>7 DEF Arriving
  <2>9. sid = moduleQ'[p].sid
    BY <2>1, <2>4
  <2>10. Arriving(p, moduleQ[p].sid, 1)'
    BY <2>8, <2>9 DEF Arriving
  <2> QED  BY <2>1, <2>3, <2>4, <2>5, <2>10
<1>13. OneAnswer'
  BY <1>8, <1>9 DEF OneAnswer
<1>14. ~Holds(moduleQ', {"resumed"})
  <2>1. \A i \in 1..Len(moduleQ') : moduleQ'[i].name # "resumed"
    BY <1>8, <1>9, <1>10 DEF Answers
  <2> QED  BY <2>1, HoldsAt DEF Inv, TypeOK, StreamTypeOK
<1>15. ~Holds(moduleQ, {"resumed"})
  BY <1>8, HoldsAt, QueueTypes DEF Answers
<1>16. ResumeAlone'
  <2> SUFFICES ASSUME NEW i \in 1..Len(moduleQ'), moduleQ'[i].name = "sendResume"
               PROVE  /\ i = 1 /\ moduleQ'[i].sid = store.id /\ ~isStarted
                      /\ conn \in {"resuming", "closed"}
                      /\ \A j \in 1..Len(moduleQ') :
                            moduleQ'[j].name \in {"sendResume", "didDisconnect"}
    BY <1>1 DEF ResumeAlone
  <2>1. i \in 1..Len(moduleQ) /\ moduleQ'[i] = moduleQ[i]
    BY <1>9, <1>10
  <2>2. /\ i = 1 /\ moduleQ[i].sid = store.id /\ ~isStarted /\ conn \in {"resuming", "closed"}
        /\ \A j \in 1..Len(moduleQ) : moduleQ[j].name \in {"sendResume", "didDisconnect"}
    BY <2>1 DEF CallInv, ResumeAlone
  <2> QED  BY <1>9, <2>1, <2>2
<1> QED  BY <1>1, <1>2, <1>7, <1>11, <1>12, <1>13, <1>14, <1>15, <1>16
         DEF CallInv, AskedOnce, AskedInTime, Asked, Reading

\* A stanza that the server sends on a bound stream follows those that are under way.
LEMMA ServerStanzaArrives ==
    ASSUME Inv, Inv', Plain, NoFilter, ServerSendsStanza, conn = "bound",
           NEW from \in 0..Len(moduleQ), NEW sid \in 1..Len(sessions), NEW first \in Nat,
           Arriving(from, sid, first)
    PROVE  Arriving(from, sid, first)'
<1>1. PICK last \in Int :
        /\ Run(moduleQ, from, sid, first, last) /\ last <= sessions[sid].out
        /\ attached = sid /\ last = sessions[sid].out
  BY DEF Arriving
<1>2. sid # 0 /\ UNCHANGED <<conn, attached>>
  BY DEF ServerSendsStanza, streamVars
<1>3. PICK e : /\ e.name = "stanza" /\ e.sid = sid /\ e.arg = last + 1
               /\ Arrives(<<>>, <<e>>)
  BY <1>1, <1>2 DEF ServerSendsStanza, Element
<1>4. sessions' = [sessions EXCEPT ![sid].out = @ + 1]
  BY <1>1, <1>2 DEF ServerSendsStanza
<1>5. moduleQ' = Append(moduleQ, e)
  BY <1>3, ArrivesPlain
<1>6. Longer(moduleQ, moduleQ', {e}) /\ Len(moduleQ') = Len(moduleQ) + 1
  BY <1>5, ArrivedLonger
<1>7. Run(moduleQ', from, sid, first, last + 1)
  BY <1>1, <1>3, <1>6, RunStanza
<1>8. sessions'[sid].out = last + 1
  <2>1. sessions[sid] \in Session /\ sessions \in Seq(Session) /\ sid \in DOMAIN sessions
    BY OutIsNat, LenProperties DEF Inv, TypeOK, ServerTypeOK
  <2> QED  BY <1>1, <1>4, <2>1 DEF Session
<1>9. last + 1 \in Int /\ last + 1 <= sessions'[sid].out
  BY <1>8
<1> QED  BY <1>1, <1>2, <1>7, <1>8, <1>9 DEF Arriving

LEMMA ServerStanzaCalls ==
    ASSUME Inv, Inv', CallInv, NoFilter, ServerSendsStanza, conn = "bound"
    PROVE  CallInv' /\ Grow /\ (Reading' => Reading)
<1>1. UNCHANGED <<conn, attached, c2s, isStarted, enableQueued, enableSent, store>>
  BY DEF ServerSendsStanza, streamVars, moduleVars, flagVars
<1>2. PICK e : e.name = "stanza" /\ Arrives(<<>>, <<e>>)
  BY DEF ServerSendsStanza, Element
<1>3. moduleQ' = Append(moduleQ, e) /\ willQ' = <<>>
  BY <1>2, ArrivesPlain DEF CallInv
<1>4. Longer(moduleQ, moduleQ', {e}) /\ Len(moduleQ') = Len(moduleQ) + 1
  BY <1>3, ArrivedLonger
<1>5. \A i \in 1..Len(moduleQ') : \/ i \in 1..Len(moduleQ) /\ moduleQ'[i] = moduleQ[i]
                                  \/ moduleQ'[i].name = "stanza"
  BY <1>2, <1>4 DEF Longer
<1>6. Grow
  <2>1. \/ UNCHANGED sessions
        \/ \E s \in DOMAIN sessions : sessions' = [sessions EXCEPT ![s].out = @ + 1]
    <3>1. attached # 0 => attached \in DOMAIN sessions
      BY LenProperties DEF Inv, TypeOK, ServerTypeOK, SessionsKnown
    <3> QED  BY <3>1 DEF ServerSendsStanza
  <2>2. sessions \in Seq(Session) /\ \A s \in 1..Len(sessions) : sessions[s] \in Session
    BY OutIsNat DEF Inv, TypeOK, ServerTypeOK
  <2>3. CASE \E s \in DOMAIN sessions : sessions' = [sessions EXCEPT ![s].out = @ + 1]
    BY <2>2, <2>3, OutIsNat DEF Grow, Session
  <2> QED  BY <2>1, <2>3, GrowKept
<1>7. \A names : "stanza" \notin names => (Holds(moduleQ', names) => Holds(moduleQ, names))
  <2>1. \A x \in {e} : x.name = "stanza"
    BY <1>2
  <2> SUFFICES ASSUME NEW names, "stanza" \notin names, Holds(moduleQ', names)
               PROVE  Holds(moduleQ, names)
    OBVIOUS
  <2>2. \A x \in {e} : x.name \notin names
    BY <2>1
  <2> QED  BY <1>4, <2>2, HoldsLonger
<1>8. /\ Holds(moduleQ', Answers) => Holds(moduleQ, Answers)
      /\ Holds(moduleQ', {"enabled", "failed"}) => Holds(moduleQ, {"enabled", "failed"})
      /\ Holds(moduleQ', {"resumed"}) => Holds(moduleQ, {"resumed"})
  <2>1. /\ "stanza" \notin Answers /\ "stanza" \notin {"enabled", "failed"}
        /\ "stanza" \notin {"resumed"}
    BY DEF Answers
  <2> QED  BY <1>7, <2>1
<1>9. Plain'
  BY <1>3, <1>5 DEF CallInv, Plain
<1>10. EnabledRuns'
  <2> SUFFICES ASSUME NEW p \in 1..Len(moduleQ'), moduleQ'[p].name = "enabled"
               PROVE  /\ moduleQ'[p].sid \in 1..Len(sessions')
                      /\ moduleQ'[p].arg \in {0, moduleQ'[p].sid}
                      /\ Arriving(p, moduleQ[p].sid, 1)'
    BY Zenon DEF EnabledRuns
  <2>1. p \in 1..Len(moduleQ) /\ moduleQ'[p] = moduleQ[p]
    BY <1>5
  <2>2. PICK sid : sid = moduleQ[p].sid /\ sid = moduleQ'[p].sid
    BY <2>1
  <2>3. sid \in 1..Len(sessions) /\ moduleQ[p].arg \in {0, sid} /\ Arriving(p, sid, 1)
    BY <2>1, <2>2 DEF CallInv, EnabledRuns
  <2>4. sid \in 1..Len(sessions')
    BY <1>6, <2>3 DEF Grow
  <2>5. p \in 0..Len(moduleQ)
    BY <2>1
  <2>6. Arriving(p, sid, 1)'
    BY <2>3, <2>5, ServerStanzaArrives DEF CallInv
  <2>7. PICK last \in Int :
            /\ Run(moduleQ', p, sid, 1, last) /\ last <= sessions'[sid].out
            /\ conn' = "bound" => attached' = sid /\ last = sessions'[sid].out
    BY <2>6 DEF Arriving
  <2>8. Arriving(p, moduleQ[p].sid, 1)'
    BY <2>2, <2>7 DEF Arriving
  <2> QED  BY <2>1, <2>2, <2>3, <2>4, <2>8
<1>11. OneAnswer'
  BY <1>5 DEF CallInv, AskedOnce, OneAnswer, Answers
<1>12. OneEnable' /\ (Asking' <=> Asking)
  BY <1>1 DEF CallInv, AskedOnce, OneEnable, Asking
<1>13. ResumeAlone'
  <2>1. \A i \in 1..Len(moduleQ) : moduleQ[i].name # "sendResume"
    BY DEF CallInv, ResumeAlone
  <2> QED  BY <1>5, <2>1 DEF ResumeAlone
<1> QED  BY <1>1, <1>6, <1>8, <1>9, <1>10, <1>11, <1>12, <1>13
         DEF CallInv, AskedOnce, AskedInTime, Asked, Reading

\* The server answers a <resume/>: the answer is the first callback, and after a <resumed/>
\* come the stanzas that the client has not handled, to the last.
LEMMA ServerResumeCalls ==
    ASSUME Inv, Inv', QueueInv, ArmedInv, CallInv, NoFilter, ServerHandlesResume, conn = "resuming",
           NEW base \in Nat,
           \A i \in 1..Len(c2s) : c2s[i].sid = session /\ c2s[i].arg = base,
           session \in 1..Len(sessions) => base <= sessions[session].out
    PROVE  /\ CallInv' /\ Grow /\ conn' = "bound" /\ moduleQ = <<>>
           /\ UNCHANGED <<isStarted, session>>
           /\ Reading' => session # 0 /\ Arriving(0, session, base + 1)'
<1> DEFINE s == Head(c2s).sid
           h == Head(c2s).arg
           k == sessions[s].out - h
           again == [i \in 1..k |-> Element("stanza", h + i, s)]
           resumed == Element("resumed", HandledCount(s), s)
           failed == Element("resumeFailed", 0, s)
<1>1. /\ Take("resume") /\ c2s # <<>> /\ c2s' = Tail(c2s) /\ conn' = "bound"
      /\ UNCHANGED <<sessions, isStarted, enableQueued, enableSent, store, session>>
  BY DEF ServerHandlesResume, Take, moduleVars, flagVars, histVars
<1>2. moduleQ = <<>> /\ \A i \in DOMAIN c2s : c2s[i].name = "resume"
  BY <1>1 DEF QueueInv, ResumingIsQuiet
<1>3. s = session /\ h = base /\ s \in 1..Len(sessions)
  <2>1. Shorter(c2s, c2s') /\ Head(c2s) = c2s[1] /\ 1 \in 1..Len(c2s)
    BY <1>1, QueueTypes, ShorterTail DEF Shorter
  <2>2. NamesSession(Head(c2s), Len(sessions)) /\ Head(c2s).name = "resume"
    BY <1>1, TakeType
  <2> QED  BY <2>1, <2>2 DEF NamesSession
<1>4. sessions[s].out \in Nat /\ base <= sessions[s].out /\ k \in Nat
  BY <1>3, OutIsNat
<1>5. \/ /\ attached' = s /\ Arrives(<<resumed>>, again)
      \/ Arrives(<<failed>>, <<>>)
  BY DEF ServerHandlesResume
<1>6. WillReceive = FALSE /\ willQ = <<>>
  BY DEF CallInv, Plain, NoFilter
<1>7. resumed.name = "resumed" /\ failed.name = "resumeFailed"
  BY DEF Element
<1>8. ~isStarted /\ ~Asking
  BY QuietCalls
<1>9. OneEnable' /\ ~Asking'
  <2>1. Fewer
    BY <1>1, FewerTaken
  <2> QED  BY <1>8, <2>1 DEF CallInv, AskedOnce, Fewer
<1>10. Grow
  BY <1>1, GrowKept
<1>11. CASE attached' = s /\ Arrives(<<resumed>>, again)
  <2>1. moduleQ' = <<>> \o <<resumed>> \o again /\ willQ' = <<>>
    BY <1>2, <1>6, <1>11, Zenon DEF Arrives
  <2>2. /\ Len(moduleQ') = k + 1 /\ moduleQ'[1] = resumed
        /\ \A i \in 2..(k + 1) : moduleQ'[i] = Element("stanza", h + (i - 1), s)
    <3> DEFINE T == {resumed} \cup {Element("stanza", h + i, s) : i \in 1..k}
    <3>1. again \in [1..k -> T] /\ resumed \in T
      OBVIOUS
    <3>2. again \in Seq(T) /\ Len(again) = k
      <4> HIDE DEF again, T, k
      <4>1. again \in Seq(T)
        BY <1>4, <3>1, SeqOfFunction
      <4>2. DOMAIN again = 1..k
        BY <3>1
      <4> QED  BY <1>4, <4>1, <4>2, LenProperties
    <3>3. \A i \in 1..k : again[i] = Element("stanza", h + i, s)
      OBVIOUS
    <3>4. <<>> \o <<resumed>> = <<resumed>>
      OBVIOUS
    <3>5. moduleQ' = <<resumed>> \o again
      <4> HIDE DEF again, resumed
      <4> QED  BY <2>1, <3>4
    <3>6. \A j \in 1..k : moduleQ'[j + 1] = again[j]
      <4> HIDE DEF again, resumed, T, k
      <4>1. <<resumed>> \in Seq(T) /\ Len(<<resumed>>) = 1
        BY <3>1
      <4>2. \A i \in 1..(1 + k) : moduleQ'[i] = IF i <= 1 THEN <<resumed>>[i] ELSE again[i - 1]
        BY <3>2, <3>5, <4>1, ConcatProperties
      <4> QED  BY <1>4, <4>2
    <3>7. Len(moduleQ') = k + 1 /\ moduleQ'[1] = resumed
      <4> HIDE DEF again, resumed, T, k
      <4>1. <<resumed>> \in Seq(T) /\ Len(<<resumed>>) = 1
        BY <3>1
      <4>2. Len(moduleQ') = 1 + k
        BY <3>2, <3>5, <4>1, ConcatProperties
      <4>3. \A i \in 1..(1 + k) : moduleQ'[i] = IF i <= 1 THEN <<resumed>>[i] ELSE again[i - 1]
        BY <3>2, <3>5, <4>1, ConcatProperties
      <4>4. moduleQ'[1] = <<resumed>>[1]
        BY <1>4, <4>3
      <4> QED  BY <1>4, <4>2, <4>4
    <3>8. \A i \in 2..(k + 1) : moduleQ'[i] = Element("stanza", h + (i - 1), s)
      <4> SUFFICES ASSUME NEW i \in 2..(k + 1)
                   PROVE  moduleQ'[i] = Element("stanza", h + (i - 1), s)
        OBVIOUS
      <4>1. PICK j : j = i - 1 /\ j \in 1..k /\ j + 1 = i
        <5> HIDE DEF k
        <5> QED  BY <1>4
      <4>2. moduleQ'[j + 1] = again[j] /\ again[j] = Element("stanza", h + j, s)
        <5> HIDE DEF again, k
        <5> QED  BY <3>3, <3>6, <4>1
      <4> HIDE DEF k, again
      <4> QED  BY <4>1, <4>2
    <3> QED  BY <3>7, <3>8
  <2> HIDE DEF k, again, resumed, failed
  <2>3. \A i \in 2..(k + 1) : /\ moduleQ'[i].name = "stanza" /\ moduleQ'[i].sid = s
                              /\ moduleQ'[i].arg = h + (i - 1)
    <3>1. \A name, arg, sid : /\ Element(name, arg, sid).name = name
                              /\ Element(name, arg, sid).arg = arg
                              /\ Element(name, arg, sid).sid = sid
      BY DEF Element
    <3> SUFFICES ASSUME NEW i \in 2..(k + 1)
                 PROVE  /\ moduleQ'[i].name = "stanza" /\ moduleQ'[i].sid = s
                        /\ moduleQ'[i].arg = h + (i - 1)
      OBVIOUS
    <3>2. moduleQ'[i] = Element("stanza", h + (i - 1), s)
      BY <2>2
    <3> HIDE DEF s, h
    <3> QED  BY <3>1, <3>2
  <2>4. \A i \in 1..Len(moduleQ') : \/ i = 1 /\ moduleQ'[i].name = "resumed"
                                    \/ i \in 2..(k + 1) /\ moduleQ'[i].name = "stanza"
    BY <1>4, <1>7, <2>2, <2>3
  <2>5. PICK n : n = k /\ n \in Nat /\ base + n = sessions[s].out
    <3>1. base + k = sessions[s].out
      BY <1>3, <1>4 DEF k
    <3> QED  BY <1>4, <3>1
  <2>6. Run(moduleQ', 0, session, base + 1, base + n)
    <3>A. /\ \A i \in 2..(n + 1) : /\ moduleQ'[i].name = "stanza" /\ moduleQ'[i].sid = session
                                  /\ moduleQ'[i].arg = base + (i - 1)
          /\ \A i \in 1..Len(moduleQ') : \/ i = 1 /\ moduleQ'[i].name = "resumed"
                                         \/ i \in 2..(n + 1) /\ moduleQ'[i].name = "stanza"
          /\ Len(moduleQ') = n + 1
      <4> HIDE DEF s, h
      <4> QED  BY <1>3, <2>2, <2>3, <2>4, <2>5
    <3> HIDE DEF s, h
    <3>1. base + 1 <= base + n + 1 /\ base \in Nat
      BY <2>5
    <3>2. \A i \in (0 + 1)..Len(moduleQ') : IsStanza(moduleQ', i) =>
              i \in 2..(n + 1) /\ moduleQ'[i].sid = session /\ moduleQ'[i].arg = base + (i - 1)
      BY <3>A, <2>5 DEF IsStanza
    <3>3. \A i \in 2..(n + 1) : i \in (0 + 1)..Len(moduleQ') /\ IsStanza(moduleQ', i)
                                /\ moduleQ'[i].arg = base + (i - 1)
      BY <3>A, <2>5 DEF IsStanza
    <3>4. \A i \in (0 + 1)..Len(moduleQ') : IsStanza(moduleQ', i) =>
              moduleQ'[i].sid = session /\ moduleQ'[i].arg \in (base + 1)..(base + n)
      BY <2>5, <3>2
    <3>5. \A i, j \in (0 + 1)..Len(moduleQ') :
              IsStanza(moduleQ', i) /\ IsStanza(moduleQ', j) /\ i < j
                 => moduleQ'[i].arg < moduleQ'[j].arg
      BY <2>5, <3>2
    <3>6. \A m \in (base + 1)..(base + n) :
              \E i \in (0 + 1)..Len(moduleQ') : IsStanza(moduleQ', i) /\ moduleQ'[i].arg = m
      <4> SUFFICES ASSUME NEW m \in (base + 1)..(base + n)
                   PROVE  \E i \in (0 + 1)..Len(moduleQ') :
                             IsStanza(moduleQ', i) /\ moduleQ'[i].arg = m
        OBVIOUS
      <4>1. PICK i : i = m - base + 1
        OBVIOUS
      <4>2. i \in 2..(n + 1) /\ base + (i - 1) = m
        <5>1. m \in Int /\ base + 1 <= m /\ m <= base + n /\ base \in Nat /\ n \in Nat
          BY <2>5
        <5> HIDE DEF s, h, k
        <5> QED  BY <4>1, <5>1
      <4> QED  BY <3>3, <4>2
    <3> QED  BY <3>1, <3>4, <3>5, <3>6 DEF Run
  <2>7. Arriving(0, session, base + 1)'
    <3>1. /\ base + n \in Int /\ base + n <= sessions'[session].out
          /\ base + n = sessions'[session].out
      BY <1>1, <1>3, <1>4, <2>5
    <3>2. attached' = session
      BY <1>3, <1>11
    <3> QED  BY <1>1, <2>6, <3>1, <3>2 DEF Arriving
  <2>8. Plain' /\ EnabledRuns' /\ OneAnswer' /\ ResumeAlone'
    BY <2>1, <2>4 DEF Plain, EnabledRuns, OneAnswer, ResumeAlone, Answers
  <2>9. ~Holds(moduleQ', {"enabled", "failed"})
    <3>1. \A i \in 1..Len(moduleQ') : moduleQ'[i].name \notin {"enabled", "failed"}
      BY <2>4
    <3> QED  BY <3>1, HoldsAt DEF Inv, TypeOK, StreamTypeOK
  <2> QED  BY <1>1, <1>2, <1>3, <1>8, <1>9, <1>10, <2>7, <2>8, <2>9
           DEF CallInv, AskedOnce, AskedInTime, Asked
<1>12. CASE Arrives(<<failed>>, <<>>)
  <2>1. moduleQ' = <<failed>> /\ willQ' = <<>>
    <3>1. moduleQ' = <<>> \o <<failed>> \o <<>> /\ willQ' = <<>>
      <4>1. moduleQ' = moduleQ \o <<failed>> \o <<>> /\ willQ' = willQ
        BY <1>6, <1>12 DEF Arrives
      <4> QED  BY <1>2, <1>6, <4>1
    <3>2. <<>> \o <<failed>> \o <<>> = <<failed>>
      OBVIOUS
    <3> QED  BY <3>1, <3>2
  <2> HIDE DEF k, again, resumed, failed
  <2>2. Len(moduleQ') = 1 /\ moduleQ'[1].name = "resumeFailed"
    BY <1>7, <2>1
  <2>3. \A i \in 1..Len(moduleQ') : i = 1 /\ moduleQ'[i].name = "resumeFailed"
    BY <2>2
  <2>4. Plain' /\ EnabledRuns' /\ OneAnswer' /\ ResumeAlone'
    BY <2>1, <2>3 DEF Plain, EnabledRuns, OneAnswer, ResumeAlone, Answers
  <2>5. ~Holds(moduleQ', {"enabled", "failed"}) /\ ~Holds(moduleQ', {"resumed"})
    <3>1. \A i \in 1..Len(moduleQ') : moduleQ'[i].name \notin {"enabled", "failed"}
                                      /\ moduleQ'[i].name \notin {"resumed"}
      BY <2>3
    <3> QED  BY <3>1, HoldsAt DEF Inv, TypeOK, StreamTypeOK
  <2> QED  BY <1>1, <1>2, <1>8, <1>9, <1>10, <2>4, <2>5
           DEF CallInv, AskedOnce, AskedInTime, Asked, Reading
<1> QED  BY <1>5, <1>11, <1>12

-----------------------------------------------------------------------------
(* A callback runs.                                                           *)

LEMMA CallbackTakes ==
    ASSUME Inv, HandleCallback
    PROVE  /\ Shorter(moduleQ, moduleQ') /\ Head(moduleQ) = moduleQ[1] /\ 1 \in 1..Len(moduleQ)
           /\ UNCHANGED <<conn, willQ, attached, sessions>>
<1>1. /\ moduleQ # <<>> /\ moduleQ' = Tail(moduleQ) /\ UNCHANGED <<conn, willQ, attached, sessions>>
  BY DEF HandleCallback, HandleDidSend, HandleAck, HandleStanza, HandleFiltered, HandleRequest,
     HandleDidSendEnable, HandleEnabled, HandleFailed, HandleSendResume, HandleResumed,
     HandleResumeFailed, HandleClosing, HandleDidDisconnect, Next_is, streamVars, serverVars
<1>2. Shorter(moduleQ, moduleQ') /\ Head(moduleQ) = moduleQ[1] /\ Len(moduleQ) > 0
  BY <1>1, QueueTypes, ShorterTail
<1> QED  BY <1>1, <1>2 DEF Shorter

\* What is behind the callback moves up by one.
LEMMA ArrivingTaken ==
    ASSUME Inv, HandleCallback, NEW from \in 0..Len(moduleQ), NEW sid, NEW first,
           Arriving(from, sid, first), from = 0 => ~IsStanza(moduleQ, 1),
           NEW to \in Nat, from = 0 => to = 0, from # 0 => to = from - 1
    PROVE  Arriving(to, sid, first)'
<1>1. Shorter(moduleQ, moduleQ') /\ UNCHANGED <<conn, attached, sessions>>
  BY CallbackTakes
<1>2. PICK last \in Int :
        /\ Run(moduleQ, from, sid, first, last) /\ last <= sessions[sid].out
        /\ conn = "bound" => attached = sid /\ last = sessions[sid].out
  BY DEF Arriving
<1>3. from \in Nat
  OBVIOUS
<1>4. Run(moduleQ', to, sid, first, last)
  BY <1>1, <1>2, <1>3, RunTaken
<1> QED  BY <1>1, <1>2, <1>4 DEF Arriving

\* A stanza at the head is the first of those that are under way.
LEMMA FirstArrives ==
    ASSUME Inv, HandleCallback, IsStanza(moduleQ, 1), NEW sid \in 1..Len(sessions),
           NEW first \in Nat, Arriving(0, sid, first)
    PROVE  /\ moduleQ[1].sid = sid /\ moduleQ[1].arg = first /\ first <= sessions[sid].out
           /\ Arriving(0, sid, first + 1)'
<1>1. Shorter(moduleQ, moduleQ') /\ UNCHANGED <<conn, attached, sessions>>
  BY CallbackTakes
<1>2. PICK last \in Int :
        /\ Run(moduleQ, 0, sid, first, last) /\ last <= sessions[sid].out
        /\ conn = "bound" => attached = sid /\ last = sessions[sid].out
  BY DEF Arriving
<1>3. /\ moduleQ[1].sid = sid /\ moduleQ[1].arg = first /\ first <= last
      /\ Run(moduleQ', 0, sid, first + 1, last)
  BY <1>1, <1>2, RunFirst
<1>4. sessions[sid].out \in Nat
  BY OutIsNat
<1>5. first <= sessions[sid].out
  BY <1>2, <1>3, <1>4
<1>6. Arriving(0, sid, first + 1)'
  BY <1>1, <1>2, <1>3 DEF Arriving
<1> QED  BY <1>3, <1>5, <1>6

\* Which callback it is, by its name.
LEMMA CallbackName ==
    ASSUME Inv, HandleCallback
    PROVE  /\ HandleEnabled => moduleQ[1].name = "enabled"
           /\ HandleFailed => moduleQ[1].name = "failed"
           /\ HandleResumed => moduleQ[1].name = "resumed"
           /\ HandleSendResume => moduleQ[1].name = "sendResume"
           /\ HandleDidDisconnect => moduleQ[1].name = "didDisconnect"
           /\ HandleFiltered => moduleQ[1].name = "filtered"
           /\ HandleStanza => moduleQ[1].name = "stanza"
           /\ moduleQ[1].name = "stanza" => HandleStanza
<1>1. Head(moduleQ) = moduleQ[1]
  BY CallbackTakes
<1> QED  BY <1>1 DEF HandleCallback, HandleDidSend, HandleAck, HandleStanza, HandleFiltered,
            HandleRequest, HandleDidSendEnable, HandleEnabled, HandleFailed, HandleSendResume,
            HandleResumed, HandleResumeFailed, HandleClosing, HandleDidDisconnect, Next_is

LEMMA CallbackWrites ==
    ASSUME Inv, Inv', CallInv, HandleCallback
    PROVE  OneEnable' /\ (Asking' => Asking)
<1>1. \/ UNCHANGED c2s \/ c2s' = Append(c2s, Element("r", 0, 0))
      \/ c2s' = Append(c2s, Element("resume", store.hc, Head(moduleQ).sid))
  BY DEF HandleCallback, HandleDidSend, HandleAck, HandleStanza, HandleFiltered, HandleRequest,
     HandleDidSendEnable, HandleEnabled, HandleFailed, HandleSendResume, HandleResumed,
     HandleResumeFailed, HandleClosing, HandleDidDisconnect, MaybeRequestAck, RequestAck, Written
<1>2. CASE UNCHANGED c2s
  BY <1>2, FewerKept DEF Fewer, CallInv, AskedOnce
<1>3. CASE c2s' # c2s
  <2>1. PICK e : e.name # "enable" /\ c2s' = Append(c2s, e)
    BY <1>1, <1>3 DEF Element
  <2> QED  BY <2>1, OtherWritten DEF CallInv, AskedOnce
<1> QED  BY <1>2, <1>3

LEMMA CallbackCalls ==
    ASSUME Inv, Inv', QueueInv, CallInv, HandleCallback
    PROVE  CallInv'
<1>1. /\ Shorter(moduleQ, moduleQ') /\ Head(moduleQ) = moduleQ[1] /\ 1 \in 1..Len(moduleQ)
      /\ UNCHANGED <<conn, willQ, attached, sessions>>
  BY CallbackTakes
<1>2. \A i \in 1..Len(moduleQ') : i + 1 \in 1..Len(moduleQ) /\ moduleQ'[i] = moduleQ[i + 1]
  BY <1>1 DEF Shorter
<1>3. \A i \in 1..Len(moduleQ') : i \in Nat
  OBVIOUS
<1>4. moduleQ \in Seq(ElementSet) /\ moduleQ' \in Seq(ElementSet)
  BY DEF Inv, TypeOK, StreamTypeOK
<1>5. \A names : Holds(moduleQ', names) => Holds(moduleQ, names)
  <2> SUFFICES ASSUME NEW names, Holds(moduleQ', names) PROVE Holds(moduleQ, names)
    OBVIOUS
  <2>1. PICK i \in 1..Len(moduleQ') : moduleQ'[i].name \in names
    BY <1>4, HoldsAt
  <2>2. i + 1 \in 1..Len(moduleQ) /\ moduleQ[i + 1].name \in names
    BY <1>2, <2>1
  <2> QED  BY <1>4, <2>2, HoldsAt
<1>6. Plain'
  BY <1>1, <1>2 DEF CallInv, Plain
<1>7. EnabledRuns'
  <2> SUFFICES ASSUME NEW p \in 1..Len(moduleQ'), moduleQ'[p].name = "enabled"
               PROVE  /\ moduleQ'[p].sid \in 1..Len(sessions')
                      /\ moduleQ'[p].arg \in {0, moduleQ'[p].sid}
                      /\ Arriving(p, moduleQ[p].sid, 1)'
    BY Zenon DEF EnabledRuns
  <2>1. /\ p + 1 \in 1..Len(moduleQ) /\ moduleQ'[p] = moduleQ[p + 1] /\ p \in Nat
        /\ p + 1 \in 0..Len(moduleQ) /\ p + 1 # 0 /\ p = (p + 1) - 1
    BY <1>2, <1>3
  <2>2. PICK sid : sid = moduleQ[p + 1].sid
    OBVIOUS
  <2>3. /\ moduleQ[p + 1].sid \in 1..Len(sessions) /\ moduleQ[p + 1].arg \in {0, moduleQ[p + 1].sid}
        /\ Arriving(p + 1, sid, 1)
    BY <2>1, <2>2 DEF CallInv, EnabledRuns
  <2>4. Arriving(p, sid, 1)'
    BY <2>1, <2>3, ArrivingTaken
  <2>5. Arriving(p, moduleQ[p].sid, 1)'
    <3>1. PICK last \in Int :
            /\ Run(moduleQ', p, sid, 1, last) /\ last <= sessions'[sid].out
            /\ conn' = "bound" => attached' = sid /\ last = sessions'[sid].out
      BY <2>4 DEF Arriving
    <3>2. sid = moduleQ'[p].sid
      BY <2>1, <2>2
    <3> QED  BY <3>1, <3>2 DEF Arriving
  <2> QED  BY <1>1, <2>1, <2>3, <2>5
<1>8. OneAnswer'
  <2> SUFFICES ASSUME NEW i \in 1..Len(moduleQ'), NEW j \in 1..Len(moduleQ'),
                      moduleQ'[i].name \in Answers, moduleQ'[j].name \in Answers
               PROVE  i = j
    BY DEF OneAnswer
  <2>1. i + 1 = j + 1
    BY <1>2 DEF CallInv, AskedOnce, OneAnswer
  <2> QED  BY <1>3, <2>1
<1>9. AskedOnce'
  BY <1>5, <1>8, CallbackWrites DEF CallInv, AskedOnce
<1>10. ResumeAlone'
  <2> SUFFICES ASSUME NEW i \in 1..Len(moduleQ'), moduleQ'[i].name = "sendResume" PROVE FALSE
    BY DEF ResumeAlone
  <2>1. i + 1 = 1
    BY <1>2 DEF CallInv, ResumeAlone
  <2> QED  BY <1>3, <2>1
<1>11. Asked' => Asked
  BY <1>5, CallbackWrites DEF Asked
<1>12. HandleEnabled \/ HandleFailed \/ HandleResumed => ~Asked'
  <2> SUFFICES ASSUME HandleEnabled \/ HandleFailed \/ HandleResumed, Asked' PROVE FALSE
    OBVIOUS
  <2>1. moduleQ[1].name \in Answers
    BY CallbackName DEF Answers
  <2>2. CASE Asking'
    <3>1. Holds(moduleQ, Answers)
      BY <1>1, <1>4, <2>1, HoldsAt
    <3> QED  BY <2>2, <3>1, CallbackWrites DEF CallInv, AskedOnce
  <2>3. CASE Holds(moduleQ', {"enabled", "failed"})
    <3>1. PICK i \in 1..Len(moduleQ') : moduleQ'[i].name \in {"enabled", "failed"}
      BY <1>4, <2>3, HoldsAt
    <3>2. i + 1 \in 1..Len(moduleQ) /\ moduleQ[i + 1].name \in Answers
      BY <1>2, <3>1 DEF Answers
    <3>3. i + 1 = 1
      BY <1>1, <2>1, <3>2 DEF CallInv, AskedOnce, OneAnswer
    <3> QED  BY <1>3, <3>3
  <2> QED  BY <2>2, <2>3 DEF Asked
<1>13. AskedInTime'
  <2>1. CASE HandleDidSend \/ HandleAck \/ HandleStanza \/ HandleFiltered \/ HandleRequest
               \/ HandleSendResume \/ HandleResumeFailed \/ HandleClosing
    <3>1. UNCHANGED <<isStarted, enableQueued, enableSent, conn>>
      BY <1>1, <2>1 DEF HandleDidSend, HandleAck, HandleStanza, HandleFiltered, HandleRequest,
         HandleSendResume, HandleResumeFailed, HandleClosing, flagVars
    <3> QED  BY <1>11, <3>1 DEF CallInv, AskedInTime
  <2>2. CASE HandleDidSendEnable
    <3>1. UNCHANGED <<isStarted, conn>> /\ enableSent' = (enableSent \/ enableQueued)
      BY <1>1, <2>2 DEF HandleDidSendEnable
    <3> QED  BY <1>11, <3>1 DEF CallInv, AskedInTime
  <2>3. CASE HandleEnabled \/ HandleFailed \/ HandleResumed
    BY <1>12, <2>3 DEF AskedInTime
  <2>4. CASE HandleDidDisconnect
    <3>1. moduleQ[1].name = "didDisconnect" /\ 1 \in DOMAIN moduleQ
      BY <1>1, <1>4, <2>4, CallbackName, LenProperties
    <3>2. conn = "closed"
      BY <3>1 DEF QueueInv, EndIsLast
    <3>3. ~isStarted' /\ conn' # "bound"
      BY <1>1, <2>4, <3>2 DEF HandleDidDisconnect
    <3> QED  BY <3>3 DEF AskedInTime
  <2> QED  BY <2>1, <2>2, <2>3, <2>4 DEF HandleCallback
<1> QED  BY <1>6, <1>7, <1>9, <1>10, <1>13 DEF CallInv

-----------------------------------------------------------------------------
(* The counters.                                                              *)

\* The application has handled the first n stanzas of session sid.
Covered(sid, n, app) == \A k \in 1..n : <<sid, k>> \in app

\* u holds the stanzas of session sid that follow the first n.
Tracked(sid, n, u, app) ==
    \A i \in 1..Len(u) : /\ u[i].sid = sid /\ u[i].n = n + i
                         /\ u[i].handled => <<sid, n + i>> \in app

\* `base' stanzas have left unackedByClient, the rest of what was received is on it.
\* lastHandledByClient is `base', or less when h has wrapped or the process was restarted.
Counted(base) ==
    /\ lastHandledByClient <= base
    /\ Covered(session, base, appHandled)
    /\ Tracked(session, base, unackedByClient, appHandled)
    /\ session = 0 => base + Len(unackedByClient) = 0
    /\ session # 0 => base + Len(unackedByClient) <= sessions[session].out

\* The stanza that comes next is the next of the session, also after a <resume/>.
Expected(base) ==
    /\ Reading => session # 0 /\ Arriving(0, session, base + Len(unackedByClient) + 1)
    /\ conn = "resuming" /\ moduleQ = <<>> =>
          \A i \in 1..Len(c2s) : c2s[i].sid = session /\ c2s[i].arg = base

Counts == session \in 0..Len(sessions) /\ \E base \in Nat : Counted(base) /\ Expected(base)

Stored ==
    /\ store.id \in {0, session}
    /\ store.id # 0 => store.hc <= sessions[store.id].out /\ Covered(store.id, store.hc, appHandled)

\* The objects that the delegates are asked about, and the marks of the application.
Objects ==
    /\ \A i \in 1..Len(unackedByClient) : unackedByClient[i].obj <= objects
    /\ \A x \in handledQueries \cup handledAnswers : x.obj <= objects
    /\ \A i \in 1..Len(unackedByClient) : \A x \in handledQueries \cup handledAnswers :
          unackedByClient[i].obj = x.obj =>
             unackedByClient[i].sid = x.sid /\ unackedByClient[i].n = x.n
    /\ \A x \in handledAnswers : x.handled => <<x.sid, x.n>> \in appHandled
    /\ \A i \in 1..Len(pendingHandled) : pendingHandled[i] \in appHandled

SafeInv == CallInv /\ Counts /\ Stored /\ Objects

\* u becomes unackedByClient without its first stanzas, which are handled and counted.
Settled(u) ==
    \E k \in 0..Len(u) :
        /\ Len(unackedByClient') = Len(u) - k
        /\ \A i \in 1..(Len(u) - k) : i + k \in 1..Len(u) /\ unackedByClient'[i] = u[i + k]
        /\ \A j \in 1..k : u[j].handled
        /\ lastHandledByClient' \in 0..(lastHandledByClient + k)

Recounted ==
    \/ store'.id = 0
    \/ store'.id = store.id /\ store'.hc \in {store.hc, lastHandledByClient, lastHandledByClient'}

\* The stanzas of the prefix are handled.
LEMMA PrefixHandled ==
    ASSUME NEW S, NEW s \in Seq(S), NEW j \in 1..HandledPrefix(s)
    PROVE  s[j].handled
<1> DEFINE c == HandledPrefix(s)
<1>1. c = Cardinality(Handled(s)) /\ c \in 0..Len(s) /\ Len(s) \in Nat /\ j \in 1..c
  BY HandledPrefixType, LenProperties, Zenon DEF HandledPrefix, Handled
<1> HIDE DEF c
<1>2. SUFFICES ASSUME ~s[j].handled PROVE FALSE
  OBVIOUS
<1>3. Handled(s) \in SUBSET (1..(j - 1))
  <2> SUFFICES ASSUME NEW k \in Handled(s) PROVE k \in 1..(j - 1)
    OBVIOUS
  <2>1. k \in 1..Len(s) /\ ~(j \in 1..k)
    BY <1>2 DEF Handled
  <2> QED  BY <1>1, <2>1
<1>4. j - 1 \in Nat /\ c \in Nat
  BY <1>1
<1>5. c \in 0..(j - 1)
  BY <1>1, <1>3, <1>4, PrefixCounts
<1> QED  BY <1>1, <1>5

LEMMA RemainderLess == ASSUME NEW x \in Nat PROVE x % Modulus \in 0..x
<1>1. Modulus \in Nat \ {0}
  BY BoundsAssumption
<1> QED  BY <1>1

LEMMA DropItems ==
    ASSUME NEW S, NEW s \in Seq(S), NEW k \in 0..Len(s)
    PROVE  \A i \in 1..(Len(s) - k) : i + k \in 1..Len(s) /\ Drop(s, k)[i] = s[i + k]
<1>1. Len(s) \in Nat /\ \A i \in (k + 1)..Len(s) : s[i] \in S
  BY LenProperties, ElementOfSeq
<1> SUFFICES ASSUME NEW i \in 1..(Len(s) - k)
             PROVE  i + k \in 1..Len(s) /\ Drop(s, k)[i] = s[i + k]
  OBVIOUS
<1>2. i + k \in 1..Len(s) /\ k + 1 \in Int /\ Len(s) \in Int /\ k + 1 <= Len(s)
  BY <1>1
<1>3. Drop(s, k)[i] = s[(k + 1) + i - 1]
  BY <1>1, <1>2, SubSeqProperties DEF Drop
<1>4. (k + 1) + i - 1 = i + k
  BY <1>1
<1> QED  BY <1>2, <1>3, <1>4

LEMMA CountSettles ==
    ASSUME Inv, NEW u \in Seq(IncomingItem), NEW offset, CountHandled(u, offset)
    PROVE  Settled(u) /\ Recounted
<1> DEFINE k == HandledPrefix(u)
           hc == (lastHandledByClient + k) % Modulus
<1>1. k \in 0..Len(u) /\ Len(u) \in Nat /\ lastHandledByClient \in Nat /\ store \in Storage
  BY HandledPrefixType, LenProperties DEF Inv, TypeOK, InTypeOK
<1>2. \A j \in 1..k : u[j].handled
  BY PrefixHandled
<1>3. /\ unackedByClient' = Drop(u, k) /\ lastHandledByClient' = hc
      /\ store' = IF k > 0 THEN StoreHandled(hc) ELSE store
  BY DEF CountHandled
<1> HIDE DEF k
<1>4. hc \in 0..(lastHandledByClient + k)
  BY <1>1, RemainderLess
<1> HIDE DEF hc
<1>5. /\ Len(unackedByClient') = Len(u) - k
      /\ \A i \in 1..(Len(u) - k) : i + k \in 1..Len(u) /\ unackedByClient'[i] = u[i + k]
  BY <1>1, <1>3, DropType, DropItems
<1>6. Recounted
  <2>1. StoreHandled(hc).id = store.id /\ StoreHandled(hc).hc = hc
    BY <1>1 DEF StoreHandled, Storage
  <2> QED  BY <1>3, <2>1 DEF Recounted
<1> QED  BY <1>1, <1>2, <1>3, <1>4, <1>5, <1>6 DEF Settled

LEMMA AckSettles ==
    ASSUME Inv, NEW u \in Seq(IncomingItem), MaybeSendAck(u) \/ SendAck(u)
    PROVE  Settled(u) /\ Recounted
<1>1. \E offset \in {"reset", "keep"} : CountHandled(u, offset)
  BY Zenon DEF MaybeSendAck, SendAck
<1> QED  BY <1>1, CountSettles

LEMMA KeptSettles ==
    ASSUME Inv, NEW u \in Seq(IncomingItem), unackedByClient' = u,
           UNCHANGED <<lastHandledByClient, store>>
    PROVE  Settled(u) /\ Recounted
<1>1. Len(u) \in Nat /\ lastHandledByClient \in Nat
  BY LenProperties DEF Inv, TypeOK, InTypeOK
<1>2. \A i \in 1..(Len(u) - 0) : i + 0 \in 1..Len(u) /\ unackedByClient'[i] = u[i + 0]
  BY <1>1
<1> QED  BY <1>1, <1>2 DEF Settled, Recounted

LEMMA SettledTracked ==
    ASSUME NEW u, Len(u) \in Nat, NEW base \in Nat, NEW sid, NEW app,
           lastHandledByClient \in Nat, lastHandledByClient <= base,
           Covered(sid, base, app), Tracked(sid, base, u, app), Settled(u)
    PROVE  \E b \in Nat :
              /\ Covered(sid, b, app) /\ Tracked(sid, b, unackedByClient', app)
              /\ lastHandledByClient' <= b /\ b + Len(unackedByClient') = base + Len(u)
              /\ Len(u) = 0 => b = base
<1>1. PICK k \in 0..Len(u) :
        /\ Len(unackedByClient') = Len(u) - k
        /\ \A i \in 1..(Len(u) - k) : i + k \in 1..Len(u) /\ unackedByClient'[i] = u[i + k]
        /\ \A j \in 1..k : u[j].handled
        /\ lastHandledByClient' \in 0..(lastHandledByClient + k)
  BY DEF Settled
<1> DEFINE b == base + k
<1>2. Covered(sid, b, app)
  <2> SUFFICES ASSUME NEW j \in 1..b PROVE <<sid, j>> \in app
    BY DEF Covered
  <2>1. CASE j <= base
    <3>1. j \in 1..base
      BY <2>1
    <3> QED  BY <3>1 DEF Covered
  <2>2. CASE j > base
    <3>1. PICK i : i = j - base /\ i \in 1..k /\ i \in 1..Len(u) /\ base + i = j
      BY <2>2
    <3>2. u[i].handled
      BY <1>1, <3>1
    <3> HIDE DEF b
    <3> QED  BY <3>1, <3>2 DEF Tracked
  <2> QED  BY <2>1, <2>2
<1>3. Tracked(sid, b, unackedByClient', app)
  <2> SUFFICES ASSUME NEW i \in 1..Len(unackedByClient')
               PROVE  /\ unackedByClient'[i].sid = sid /\ unackedByClient'[i].n = b + i
                      /\ unackedByClient'[i].handled => <<sid, b + i>> \in app
    BY Zenon DEF Tracked
  <2>1. PICK j : j = i + k /\ j \in 1..Len(u) /\ unackedByClient'[i] = u[j]
    BY <1>1
  <2>2. base + j = b + i
    BY <1>1, <2>1
  <2>3. u[j].sid = sid /\ u[j].n = base + j /\ (u[j].handled => <<sid, base + j>> \in app)
    BY <2>1 DEF Tracked
  <2> HIDE DEF b
  <2> QED  BY <2>1, <2>2, <2>3
<1>4. lastHandledByClient' <= b /\ b + Len(unackedByClient') = base + Len(u) /\ b \in Nat
      /\ (Len(u) = 0 => b = base)
  BY <1>1
<1> HIDE DEF b
<1> QED  BY <1>2, <1>3, <1>4

LEMMA CoveredMore ==
    ASSUME NEW sid, NEW n, NEW a, NEW b, a \subseteq b, Covered(sid, n, a)
    PROVE  Covered(sid, n, b)
BY DEF Covered

LEMMA TrackedMore ==
    ASSUME NEW sid, NEW n, NEW u, NEW a, NEW b, a \subseteq b, Tracked(sid, n, u, a)
    PROVE  Tracked(sid, n, u, b)
BY DEF Tracked

LEMMA CountedSettled ==
    ASSUME Inv, Inv', Grow, UNCHANGED session, appHandled \subseteq appHandled',
           session \in 0..Len(sessions),
           Stored, Recounted, NEW base \in Nat, Counted(base), NEW u, Len(u) \in Nat, Settled(u),
           Tracked(session, base, u, appHandled'),
           session = 0 => base + Len(u) = 0,
           session # 0 => base + Len(u) <= sessions[session].out
    PROVE  /\ \E b \in Nat : /\ Counted(b)' /\ b + Len(unackedByClient') = base + Len(u)
                             /\ Len(u) = 0 => b = base
           /\ Stored'
<1>1. lastHandledByClient \in Nat /\ lastHandledByClient <= base /\ lastHandledByClient' \in Nat
  BY DEF Inv, TypeOK, InTypeOK, Counted
<1>2. Covered(session, base, appHandled')
  BY CoveredMore DEF Counted
<1>3. PICK b \in Nat :
        /\ Covered(session, b, appHandled') /\ Tracked(session, b, unackedByClient', appHandled')
        /\ lastHandledByClient' <= b /\ b + Len(unackedByClient') = base + Len(u)
        /\ Len(u) = 0 => b = base
  BY <1>1, <1>2, SettledTracked
<1>4. session # 0 => /\ sessions[session].out \in Nat /\ sessions'[session].out \in Nat
                     /\ sessions[session].out <= sessions'[session].out
  <2> SUFFICES ASSUME session # 0
               PROVE  /\ sessions[session].out \in Nat /\ sessions'[session].out \in Nat
                      /\ sessions[session].out <= sessions'[session].out
    OBVIOUS
  <2>1. session \in 1..Len(sessions)
    OBVIOUS
  <2>2. session \in 1..Len(sessions') /\ sessions[session].out <= sessions'[session].out
    BY <2>1 DEF Grow
  <2>3. sessions'[session] \in Session
    BY <2>2, ElementOfSeq DEF Inv, TypeOK, ServerTypeOK
  <2> QED  BY <2>1, <2>2, <2>3, OutIsNat DEF Session
<1>5. Len(unackedByClient') \in Nat
  BY LenProperties DEF Inv, TypeOK, InTypeOK
<1>6. Counted(b)'
  <2>1. session' # 0 => b + Len(unackedByClient') <= sessions'[session'].out
    BY <1>3, <1>4, <1>5
  <2>2. session' = 0 => b + Len(unackedByClient') = 0
    BY <1>3
  <2> QED  BY <1>3, <2>1, <2>2 DEF Counted
<1>7. Stored'
  <2>1. CASE store'.id = 0
    BY <2>1 DEF Stored
  <2>2. CASE store'.id # 0
    <3>1. store'.id = store.id /\ store.id = session /\ session # 0
      BY <2>2 DEF Recounted, Stored
    <3>2. store'.hc \in {store.hc, lastHandledByClient, lastHandledByClient'}
      BY <2>2 DEF Recounted
    <3>3. CASE store'.hc = store.hc
      <4>1. store.hc <= sessions[session].out /\ Covered(session, store.hc, appHandled')
        BY <3>1, CoveredMore DEF Stored
      <4>2. store.hc \in Nat
        BY DEF Inv, TypeOK, Storage
      <4> QED  BY <1>4, <3>1, <3>3, <4>1, <4>2 DEF Stored
    <3>4. CASE store'.hc = lastHandledByClient
      <4>1. Covered(session, lastHandledByClient, appHandled')
        BY <1>1, <1>2 DEF Covered
      <4>2. lastHandledByClient <= sessions'[session].out
        BY <1>1, <1>4, <3>1
      <4> QED  BY <3>1, <3>4, <4>1, <4>2 DEF Stored
    <3>5. CASE store'.hc = lastHandledByClient'
      <4>1. Covered(session, lastHandledByClient', appHandled')
        BY <1>1, <1>3 DEF Covered
      <4>2. lastHandledByClient' <= sessions'[session].out
        BY <1>1, <1>3, <1>4, <1>5, <3>1
      <4> QED  BY <3>1, <3>5, <4>1, <4>2 DEF Stored
    <3> QED  BY <3>2, <3>3, <3>4, <3>5
  <2> QED  BY <2>1, <2>2
<1> QED  BY <1>3, <1>6, <1>7

\* A step that neither takes a callback nor posts one that matters.
LEMMA ExpectedStill ==
    ASSUME Inv, Inv', ArmedInv, Still, Fewer, UNCHANGED <<isStarted, session>>,
           session \in 0..Len(sessions), NEW base \in Nat, Expected(base), NEW b \in Nat,
           b + Len(unackedByClient') = base + Len(unackedByClient),
           Len(unackedByClient) = 0 => b = base
    PROVE  Expected(b)'
<1>1. Len(unackedByClient) \in Nat /\ Len(unackedByClient') \in Nat /\ Len(moduleQ) \in Nat
  BY LenProperties DEF Inv, TypeOK, InTypeOK, StreamTypeOK
<1>2. Longer(moduleQ, moduleQ', Posted)
  BY DEF Still
<1>3. Reading' => session' # 0 /\ Arriving(0, session, b + Len(unackedByClient) + 1)'
  <2> SUFFICES ASSUME Reading'
               PROVE  session # 0 /\ Arriving(0, session, b + Len(unackedByClient) + 1)'
    OBVIOUS
  <2>1. Reading
    <3>1. \A e \in Posted : e.name \notin {"resumed"}
      BY DEF Posted, Special, Answers
    <3>2. Holds(moduleQ', {"resumed"}) => Holds(moduleQ, {"resumed"})
      BY <1>2, <3>1, HoldsLonger
    <3> QED  BY <3>2 DEF Reading
  <2>2. PICK n : n = base + Len(unackedByClient) + 1
    OBVIOUS
  <2>3. session # 0 /\ Arriving(0, session, n)
    BY <2>1, <2>2 DEF Expected
  <2>4. session \in 1..Len(sessions) /\ 0 \in 0..Len(moduleQ)
    BY <1>1, <2>3
  <2>5. Arriving(0, session, n)'
    <3>1. PICK s \in 1..Len(sessions) : s = session
      BY <2>4
    <3>2. Arriving(0, s, n)
      BY <2>3, <3>1
    <3>3. Arriving(0, s, n)'
      BY <2>4, <3>2, ArrivingStill
    <3>4. s = session'
      BY <3>1
    <3> QED  BY <3>3, <3>4 DEF Arriving
  <2>6. n = b + Len(unackedByClient') + 1
    BY <2>2
  <2>7. Arriving(0, session, b + Len(unackedByClient) + 1)'
    BY <2>5, <2>6 DEF Arriving
  <2> QED  BY <2>3, <2>7
<1>4. conn' = "resuming" /\ moduleQ' = <<>> =>
         \A i \in 1..Len(c2s') : c2s'[i].sid = session' /\ c2s'[i].arg = b
  <2> SUFFICES ASSUME conn' = "resuming", moduleQ' = <<>>, NEW i \in 1..Len(c2s')
               PROVE  c2s'[i].sid = session /\ c2s'[i].arg = b
    OBVIOUS
  <2>1. conn = "resuming"
    BY DEF Still
  <2>2. moduleQ = <<>>
    <3>1. Len(moduleQ') = 0
      OBVIOUS
    <3>2. Len(moduleQ) = 0
      BY <1>1, <1>2, <3>1 DEF Longer
    <3> QED  BY <3>2, QueueTypes, EmptySeq
  <2>3. Len(unackedByClient) = 0
    BY <2>1, <2>2 DEF ArmedInv, Resumes, Restored, InClean
  <2>4. PICK j \in 1..Len(c2s) : c2s'[i] = c2s[j]
    BY <2>1 DEF Fewer
  <2> QED  BY <2>1, <2>2, <2>3, <2>4 DEF Expected
<1> QED  BY <1>3, <1>4 DEF Expected

LEMMA ObjectsSettled ==
    ASSUME NEW u, Len(u) \in Nat, Settled(u),
           \A i \in 1..Len(u) : u[i].obj <= objects',
           \A i \in 1..Len(u) : \A x \in (handledQueries \cup handledAnswers)' :
              u[i].obj = x.obj => u[i].sid = x.sid /\ u[i].n = x.n,
           \A x \in (handledQueries \cup handledAnswers)' : x.obj <= objects',
           \A x \in handledAnswers' : x.handled => <<x.sid, x.n>> \in appHandled',
           \A i \in 1..Len(pendingHandled') : pendingHandled'[i] \in appHandled'
    PROVE  Objects'
<1>1. \A i \in 1..Len(unackedByClient') : \E j \in 1..Len(u) : unackedByClient'[i] = u[j]
  BY DEF Settled
<1> QED  BY <1>1 DEF Objects

LEMMA ObjectsKept ==
    ASSUME Objects, UNCHANGED <<inVars, appHandled>> PROVE Objects'
BY DEF Objects, inVars

\* Cleared for <enable/>, <resume/> or by a restart of the process.
LEMMA ObjectsCleared ==
    ASSUME Objects, unackedByClient' = <<>>, pendingHandled' = <<>>,
           UNCHANGED <<objects, appHandled>>,
           handledQueries' \subseteq handledQueries, handledAnswers' \subseteq handledAnswers
    PROVE  Objects'
<1>1. Len(unackedByClient') = 0 /\ Len(pendingHandled') = 0
  OBVIOUS
<1> QED  BY <1>1 DEF Objects

-----------------------------------------------------------------------------
(* Steps that run no callback.                                                *)

LEMMA StillSafe ==
    ASSUME Inv, Inv', ArmedInv, SafeInv, Still, Fewer, willQ' = <<>>,
           UNCHANGED <<isStarted, enableQueued, enableSent, session>>, store'.id = store.id,
           Recounted, appHandled \subseteq appHandled', Objects',
           NEW u, Len(u) = Len(unackedByClient), Settled(u),
           \A base \in Nat : Tracked(session, base, unackedByClient, appHandled) =>
                                Tracked(session, base, u, appHandled')
    PROVE  SafeInv'
<1>1. CallInv'
  BY StillCalls DEF SafeInv
<1>2. PICK base \in Nat : Counted(base) /\ Expected(base)
  BY DEF SafeInv, Counts
<1>3. session \in 0..Len(sessions) /\ Stored /\ Grow /\ Len(u) \in Nat
  BY LenProperties DEF SafeInv, Counts, Still, Inv, TypeOK, InTypeOK
<1>4. /\ Tracked(session, base, u, appHandled')
      /\ session = 0 => base + Len(u) = 0
      /\ session # 0 => base + Len(u) <= sessions[session].out
  BY <1>2 DEF Counted
<1>5. /\ \E b \in Nat : /\ Counted(b)' /\ b + Len(unackedByClient') = base + Len(u)
                        /\ Len(u) = 0 => b = base
      /\ Stored'
  BY <1>2, <1>3, <1>4, CountedSettled
<1>6. PICK b \in Nat : /\ Counted(b)' /\ b + Len(unackedByClient') = base + Len(u)
                       /\ Len(u) = 0 => b = base
  BY <1>5
<1>7. Expected(b)'
  BY <1>2, <1>3, <1>6, ExpectedStill
<1>8. session' \in 0..Len(sessions')
  <2>1. Len(sessions) \in Nat /\ Len(sessions') \in Nat
    BY LenProperties DEF Inv, TypeOK, ServerTypeOK
  <2>2. CASE session = 0
    BY <2>1, <2>2
  <2>3. CASE session # 0
    <3>1. session \in 1..Len(sessions)
      BY <1>3, <2>1, <2>3
    <3> QED  BY <1>3, <2>1, <3>1 DEF Grow
  <2> QED  BY <2>2, <2>3
<1>9. Counts'
  BY <1>6, <1>7, <1>8 DEF Counts
<1> QED  BY <1>1, <1>5, <1>9 DEF SafeInv

\* A step of the stream or the server, or of the outgoing half.
LEMMA OutsideSafe ==
    ASSUME Inv, Inv', ArmedInv, SafeInv, Still, Fewer, willQ' = <<>>,
           UNCHANGED <<isStarted, enableQueued, enableSent, session, inVars, appHandled>>,
           store'.id = store.id, Recounted
    PROVE  SafeInv'
<1>1. unackedByClient \in Seq(IncomingItem) /\ Len(unackedByClient) \in Nat
  BY LenProperties DEF Inv, TypeOK, InTypeOK
<1>2. Settled(unackedByClient)
  <2>1. lastHandledByClient \in Nat /\ UNCHANGED <<unackedByClient, lastHandledByClient>>
    BY DEF Inv, TypeOK, InTypeOK, inVars
  <2>2. \A i \in 1..(Len(unackedByClient) - 0) :
           i + 0 \in 1..Len(unackedByClient) /\ unackedByClient'[i] = unackedByClient[i + 0]
    BY <1>1, <2>1
  <2> QED  BY <1>1, <2>1, <2>2 DEF Settled
<1>3. \A base \in Nat : Tracked(session, base, unackedByClient, appHandled) =>
                           Tracked(session, base, unackedByClient, appHandled')
  OBVIOUS
<1>4. Objects'
  BY ObjectsKept DEF SafeInv
<1> QED  BY <1>2, <1>3, <1>4, StillSafe

LEMMA WorldSafe ==
    ASSUME Inv, Inv', QueueInv, ArmedInv, SafeInv, NoFilter,
           ServerHandlesStanza \/ ServerHandlesClose \/ ServerHandlesRequest \/ ServerSendsAck
             \/ ServerSendsRequest \/ ServerExpires
             \/ (ServerHandlesResume /\ conn # "resuming")
             \/ (ServerSendsStanza /\ (conn \in {"closed", "binding"}))
             \/ Connect \/ Disconnect \/ SendStanza \/ ContinueReceive
    PROVE  SafeInv'
<1>1. Plain
  BY DEF SafeInv, CallInv
<1>2. Still /\ Fewer /\ willQ' = <<>>
  <2>1. CASE Connect \/ Disconnect \/ SendStanza \/ ContinueReceive
    BY <1>1, <2>1, StreamStill
  <2>2. CASE ~(Connect \/ Disconnect \/ SendStanza \/ ContinueReceive)
    BY <1>1, <2>2, ServerStill
  <2> QED  BY <2>1, <2>2
<1>3. UNCHANGED <<moduleVars, histVars>>
  BY DEF ServerHandlesStanza, ServerHandlesClose, ServerHandlesRequest, ServerSendsAck,
     ServerSendsRequest, ServerExpires, ServerHandlesResume, ServerSendsStanza, Connect,
     Disconnect, SendStanza, ContinueReceive
<1>4. UNCHANGED <<isStarted, enableQueued, enableSent, session, inVars, appHandled, store>>
  BY <1>3 DEF moduleVars, flagVars, histVars
<1> QED  BY <1>2, <1>4, OutsideSafe DEF Recounted

LEMMA ProcessRecounts ==
    ASSUME Inv, NEW h, ProcessAck(h), UNCHANGED lastHandledByClient
    PROVE  Recounted /\ store'.id = store.id
<1>1. store \in Storage
  BY DEF Inv, TypeOK
<1>2. \A hs, pending : LET s == StoreOutgoing(hs, pending)
                       IN s.id = store.id /\ s.hc \in {store.hc, lastHandledByClient}
  BY <1>1 DEF StoreOutgoing, Storage
<1>3. store' = store \/ \E hs, pending : store' = StoreOutgoing(hs, pending)
  BY Zenon DEF ProcessAck
<1> QED  BY <1>2, <1>3 DEF Recounted

LEMMA OutgoingSafe ==
    ASSUME Inv, Inv', ArmedInv, SafeInv,
           Drain \/ AnswerStanzaId \/ AutoRequestTimerFires \/ CallRequestAck
    PROVE  SafeInv'
<1>1. Plain
  BY DEF SafeInv, CallInv
<1>2. /\ Still /\ Fewer /\ willQ' = <<>> /\ store'.id = store.id
      /\ UNCHANGED <<session, isStarted, enableQueued, enableSent>>
  BY <1>1, ModuleStill, ModuleStoreId DEF Delegates, Timers
<1>3. UNCHANGED <<inVars, appHandled>>
  BY DEF Drain, DrainAck, DrainBlocked, DrainDone, AnswerStanzaId, AutoRequestTimerFires,
     CallRequestAck, histVars
<1>4. Recounted
  <2>1. \A hs, pending : LET s == StoreOutgoing(hs, pending)
                         IN s.id = store.id /\ s.hc \in {store.hc, lastHandledByClient}
    BY DEF StoreOutgoing, Storage, Inv, TypeOK
  <2>2. UNCHANGED lastHandledByClient
    BY <1>3 DEF inVars
  <2>3. \/ store' = store \/ \E hs, pending : store' = StoreOutgoing(hs, pending)
        \/ \E h : ProcessAck(h)
    BY DEF Drain, DrainAck, DrainBlocked, DrainDone, AnswerStanzaId, AutoRequestTimerFires,
       CallRequestAck
  <2>4. CASE \E h : ProcessAck(h)
    BY <2>2, <2>4, ProcessRecounts
  <2> QED  BY <2>1, <2>3, <2>4 DEF Recounted
<1> QED  BY <1>2, <1>3, <1>4, OutsideSafe

-----------------------------------------------------------------------------
(* What the delegates and the application say about the stanzas received.     *)

LEMMA IncomingTypes ==
    ASSUME Inv
    PROVE  /\ unackedByClient \in Seq(IncomingItem) /\ Len(unackedByClient) \in Nat
           /\ DOMAIN unackedByClient = 1..Len(unackedByClient)
           /\ \A i \in 1..Len(unackedByClient) : unackedByClient[i] \in IncomingItem
           /\ pendingHandled \in Seq(Nat \X Nat) /\ Len(pendingHandled) \in Nat
           /\ DOMAIN pendingHandled = 1..Len(pendingHandled) /\ objects \in Nat
<1>1. /\ unackedByClient \in Seq(IncomingItem) /\ pendingHandled \in Seq(Nat \X Nat)
      /\ objects \in Nat
  BY DEF Inv, TypeOK, InTypeOK
<1>2. \A i \in 1..Len(unackedByClient) : unackedByClient[i] \in IncomingItem
  BY <1>1, ElementOfSeq
<1> QED  BY <1>1, <1>2, LenProperties

LEMMA KeptIncoming ==
    ASSUME Inv, UNCHANGED <<unackedByClient, lastHandledByClient, store>>
    PROVE  Settled(unackedByClient) /\ Recounted
<1>1. unackedByClient \in Seq(IncomingItem) /\ unackedByClient' = unackedByClient
  BY IncomingTypes
<1> QED  BY <1>1, KeptSettles

LEMMA DecidesSafe ==
    ASSUME Inv, Inv', ArmedInv, SafeInv, DelegateDecides
    PROVE  SafeInv'
<1>1. /\ Still /\ Fewer /\ willQ' = <<>> /\ store'.id = store.id
      /\ UNCHANGED <<session, isStarted, enableQueued, enableSent>>
  BY ModuleStill, ModuleStoreId DEF Delegates, SafeInv, CallInv
<1>2. PICK x \in handledQueries, handled \in BOOLEAN :
        /\ handledQueries' = handledQueries \ {x}
        /\ handledAnswers' = handledAnswers \cup {[x EXCEPT !.handled = handled]}
        /\ appHandled' = IF handled THEN appHandled \cup {<<x.sid, x.n>>} ELSE appHandled
  BY DEF DelegateDecides
<1>3. UNCHANGED <<unackedByClient, lastHandledByClient, store, pendingHandled, objects>>
  BY DEF DelegateDecides
<1>4. appHandled \subseteq appHandled'
  BY <1>2
<1>5. Settled(unackedByClient) /\ Recounted
  BY <1>3, KeptIncoming
<1>6. \A base \in Nat : Tracked(session, base, unackedByClient, appHandled) =>
                           Tracked(session, base, unackedByClient, appHandled')
  BY <1>4, TrackedMore
<1>7. Objects'
  <2> DEFINE y == [x EXCEPT !.handled = handled]
  <2>1. x \in IncomingItem
    BY DEF Inv, TypeOK, InTypeOK
  <2>2. y.obj = x.obj /\ y.sid = x.sid /\ y.n = x.n /\ y.handled = handled
    BY <2>1 DEF IncomingItem
  <2>3. handledAnswers' = handledAnswers \cup {y}
    BY <1>2
  <2> HIDE DEF y
  <2>4. \A z \in (handledQueries \cup handledAnswers)' :
           z \in handledQueries \cup handledAnswers \/ z = y
    BY <1>2, <2>3
  <2>5. \A z \in handledAnswers' : z.handled => <<z.sid, z.n>> \in appHandled'
    <3> SUFFICES ASSUME NEW z \in handledAnswers', z.handled PROVE <<z.sid, z.n>> \in appHandled'
      OBVIOUS
    <3>1. CASE z \in handledAnswers
      <4>1. <<z.sid, z.n>> \in appHandled
        BY <3>1 DEF SafeInv, Objects
      <4> QED  BY <1>4, <4>1
    <3>2. CASE z = y
      <4>1. handled
        BY <2>2, <3>2
      <4>2. <<x.sid, x.n>> \in appHandled'
        BY <1>2, <4>1
      <4> QED  BY <2>2, <3>2, <4>2
    <3> QED  BY <2>3, <3>1, <3>2
  <2>6. \A z \in (handledQueries \cup handledAnswers)' : z.obj <= objects
    BY <2>2, <2>4 DEF SafeInv, Objects
  <2>7. \A i \in 1..Len(unackedByClient) : \A z \in (handledQueries \cup handledAnswers)' :
           unackedByClient[i].obj = z.obj =>
              unackedByClient[i].sid = z.sid /\ unackedByClient[i].n = z.n
    BY <2>2, <2>4 DEF SafeInv, Objects
  <2>8. \A i \in 1..Len(pendingHandled) : pendingHandled[i] \in appHandled'
    BY <1>4 DEF SafeInv, Objects
  <2>9. \A i \in 1..Len(unackedByClient) : unackedByClient[i].obj <= objects
    BY DEF SafeInv, Objects
  <2> QED  BY <1>3, <2>5, <2>6, <2>7, <2>8, <2>9 DEF Objects
<1> QED  BY <1>1, <1>4, <1>5, <1>6, <1>7, StillSafe

\* An ack of u takes items of u only.
LEMMA ObjectsAcked ==
    ASSUME Inv, Objects, UNCHANGED objects, appHandled \subseteq appHandled',
           handledQueries' \subseteq handledQueries, handledAnswers' \subseteq handledAnswers,
           \A i \in 1..Len(pendingHandled') : pendingHandled'[i] \in appHandled',
           NEW u, Len(u) = Len(unackedByClient), Settled(u),
           \A i \in 1..Len(unackedByClient) :
              /\ u[i].obj = unackedByClient[i].obj /\ u[i].sid = unackedByClient[i].sid
              /\ u[i].n = unackedByClient[i].n
    PROVE  Objects'
<1>1. Len(u) \in Nat
  BY IncomingTypes
<1>2. \A i \in 1..Len(u) : u[i].obj <= objects'
  BY DEF Objects
<1>3. \A x \in (handledQueries \cup handledAnswers)' : x \in handledQueries \cup handledAnswers
  OBVIOUS
<1>4. \A i \in 1..Len(u) : \A x \in (handledQueries \cup handledAnswers)' :
         u[i].obj = x.obj => u[i].sid = x.sid /\ u[i].n = x.n
  BY <1>3 DEF Objects
<1>5. \A x \in (handledQueries \cup handledAnswers)' : x.obj <= objects'
  BY <1>3 DEF Objects
<1>6. \A x \in handledAnswers' : x.handled => <<x.sid, x.n>> \in appHandled'
  BY DEF Objects
<1> QED  BY <1>1, <1>2, <1>4, <1>5, <1>6, ObjectsSettled

LEMMA SendAckSafe ==
    ASSUME Inv, Inv', ArmedInv, SafeInv, CallSendAck
    PROVE  SafeInv'
<1>1. /\ Still /\ Fewer /\ willQ' = <<>> /\ store'.id = store.id
      /\ UNCHANGED <<session, isStarted, enableQueued, enableSent>>
  BY ModuleStill, ModuleStoreId DEF Timers, SafeInv, CallInv
<1>2. UNCHANGED <<objects, handledQueries, handledAnswers, pendingHandled, appHandled>>
  BY DEF CallSendAck, histVars
<1>3. Settled(unackedByClient) /\ Recounted
  BY IncomingTypes, AckSettles DEF CallSendAck
<1>4. Objects'
  <2>1. \A i \in 1..Len(pendingHandled') : pendingHandled'[i] \in appHandled'
    BY <1>2 DEF SafeInv, Objects
  <2> QED  BY <1>2, <1>3, <2>1, ObjectsAcked DEF SafeInv
<1> QED  BY <1>1, <1>2, <1>3, <1>4, StillSafe

LEMMA WithoutItems ==
    ASSUME NEW S, NEW s \in Seq(S), NEW i \in 1..Len(s)
    PROVE  \A j \in 1..Len(Without(s, i)) : \E m \in 1..Len(s) : Without(s, i)[j] = s[m]
<1> DEFINE T == {s[m] : m \in 1..Len(s)}
<1>1. s \in Seq(T)
  <2>1. Len(s) \in Nat /\ s = [m \in 1..Len(s) |-> s[m]]
    BY LenProperties
  <2>2. s \in [1..Len(s) -> T]
    BY <2>1
  <2> HIDE DEF T
  <2> QED  BY <2>1, <2>2, SeqOfFunction
<1>2. Without(s, i) \in Seq(T)
  <2>1. i \in DOMAIN s
    BY LenProperties
  <2> HIDE DEF T
  <2> QED  BY <1>1, <2>1, WithoutType
<1>3. \A j \in 1..Len(Without(s, i)) : Without(s, i)[j] \in T
  <2> HIDE DEF T
  <2> QED  BY <1>2, ElementOfSeq
<1> QED  BY <1>3

LEMMA MarksKept ==
    ASSUME Inv, NEW x, \A i \in 1..Len(pendingHandled) : pendingHandled[i] \in appHandled
    PROVE  \A i \in 1..Len(MarksAfter(x)) : MarksAfter(x)[i] \in appHandled
<1> DEFINE p == IndexOf(pendingHandled, <<x.sid, x.n>>)
<1>1. pendingHandled \in Seq(Nat \X Nat) /\ DOMAIN pendingHandled = 1..Len(pendingHandled)
  BY IncomingTypes
<1>2. CASE MarksAfter(x) = <<>>
  <2>1. Len(<<>>) = 0
    OBVIOUS
  <2> QED  BY <1>2, <2>1
<1>3. CASE MarksAfter(x) = pendingHandled
  BY <1>3
<1>4. CASE MarkedEarly(x) /\ MarksAfter(x) = Without(pendingHandled, p)
  <2>1. p \in 1..Len(pendingHandled)
    BY <1>1, <1>4 DEF MarkedEarly, IndexOf
  <2> HIDE DEF p
  <2>2. \A j \in 1..Len(Without(pendingHandled, p)) :
           \E m \in 1..Len(pendingHandled) : Without(pendingHandled, p)[j] = pendingHandled[m]
    BY <1>1, <2>1, WithoutItems
  <2> QED  BY <1>4, <2>2
<1> QED  BY <1>2, <1>3, <1>4 DEF MarksAfter

LEMMA AnswerSafe ==
    ASSUME Inv, Inv', ArmedInv, SafeInv, AnswerHandled
    PROVE  SafeInv'
<1>1. /\ Still /\ Fewer /\ willQ' = <<>> /\ store'.id = store.id
      /\ UNCHANGED <<session, isStarted, enableQueued, enableSent>>
  BY ModuleStill, ModuleStoreId DEF Delegates, SafeInv, CallInv
<1>2. PICK x \in handledAnswers :
         LET handled == x.handled \/ MarkedEarly(x)
             u == [i \in DOMAIN unackedByClient |->
                     IF unackedByClient[i].obj = x.obj
                     THEN Incoming(x.obj, x.sid, x.n, ~x.handled, handled)
                     ELSE unackedByClient[i]]
         IN /\ handledAnswers' = handledAnswers \ {x}
            /\ pendingHandled' = MarksAfter(x)
            /\ IF handled
               THEN MaybeSendAck(u)
               ELSE /\ unackedByClient' = u
                    /\ UNCHANGED <<lastHandledByClient, lastAckOffset, store, autoAckTimer,
                                   ackResponseTimer>>
  BY DEF AnswerHandled
<1>3. UNCHANGED <<objects, handledQueries, appHandled>>
  BY DEF AnswerHandled, histVars
<1> DEFINE handled == x.handled \/ MarkedEarly(x)
           item == Incoming(x.obj, x.sid, x.n, ~x.handled, handled)
           u == [i \in DOMAIN unackedByClient |->
                   IF unackedByClient[i].obj = x.obj THEN item ELSE unackedByClient[i]]
<1>4. x \in IncomingItem
  BY DEF Inv, TypeOK, InTypeOK
<1>5. /\ item \in IncomingItem /\ item.obj = x.obj /\ item.sid = x.sid /\ item.n = x.n
      /\ item.handled = handled
  BY <1>4 DEF Incoming, IncomingItem, MarkedEarly
<1>6. handled => <<x.sid, x.n>> \in appHandled
  <2>1. CASE x.handled
    BY <2>1 DEF SafeInv, Objects
  <2>2. CASE MarkedEarly(x)
    <3>1. PICK i \in 1..Len(pendingHandled) : pendingHandled[i] = <<x.sid, x.n>>
      BY <2>2, IncomingTypes DEF MarkedEarly
    <3>2. \A j \in 1..Len(pendingHandled) : pendingHandled[j] \in appHandled
      BY DEF SafeInv, Objects
    <3> QED  BY <3>1, <3>2
  <2> QED  BY <2>1, <2>2
<1>7. IF handled THEN MaybeSendAck(u)
      ELSE unackedByClient' = u /\ UNCHANGED <<lastHandledByClient, store>>
  BY <1>2
<1>8. handledAnswers' \subseteq handledAnswers /\ pendingHandled' = MarksAfter(x)
  BY <1>2
<1> HIDE DEF handled, item
<1>9. DOMAIN u = 1..Len(unackedByClient) /\ \A i \in 1..Len(unackedByClient) :
         u[i] = IF unackedByClient[i].obj = x.obj THEN item ELSE unackedByClient[i]
  BY IncomingTypes
<1>10. u \in Seq(IncomingItem) /\ Len(u) = Len(unackedByClient)
  <2>1. DOMAIN u = DOMAIN unackedByClient /\ u = [i \in DOMAIN u |-> u[i]]
    OBVIOUS
  <2> HIDE DEF u
  <2>2. \A i \in DOMAIN unackedByClient : u[i] \in IncomingItem
    BY <1>5, <1>9, IncomingTypes
  <2>3. u \in Seq(IncomingItem)
    BY <2>1, <2>2, IncomingTypes, SeqReplaced
  <2> QED  BY <1>9, <2>3, IncomingTypes, LenProperties
<1> HIDE DEF u
<1>11. Settled(u) /\ Recounted
  BY <1>7, <1>10, AckSettles, KeptSettles
<1>12. \A i \in 1..Len(unackedByClient) :
          unackedByClient[i].obj = x.obj =>
             unackedByClient[i].sid = x.sid /\ unackedByClient[i].n = x.n
  BY DEF SafeInv, Objects
<1>13. \A i \in 1..Len(unackedByClient) :
          /\ u[i].obj = unackedByClient[i].obj /\ u[i].sid = unackedByClient[i].sid
          /\ u[i].n = unackedByClient[i].n
          /\ u[i].handled => \/ unackedByClient[i].handled
                             \/ <<unackedByClient[i].sid, unackedByClient[i].n>> \in appHandled
  BY <1>5, <1>6, <1>9, <1>12
<1>14. Objects'
  <2>1. \A i \in 1..Len(pendingHandled') : pendingHandled'[i] \in appHandled'
    BY <1>3, <1>8, MarksKept DEF SafeInv, Objects
  <2> QED  BY <1>3, <1>8, <1>10, <1>11, <1>13, <2>1, ObjectsAcked DEF SafeInv
<1>15. \A base \in Nat : Tracked(session, base, unackedByClient, appHandled) =>
                            Tracked(session, base, u, appHandled')
  <2> SUFFICES ASSUME NEW base \in Nat, Tracked(session, base, unackedByClient, appHandled),
                      NEW i \in 1..Len(u)
               PROVE  /\ u[i].sid = session /\ u[i].n = base + i
                      /\ u[i].handled => <<session, base + i>> \in appHandled'
    BY Zenon DEF Tracked
  <2>1. /\ unackedByClient[i].sid = session /\ unackedByClient[i].n = base + i
        /\ unackedByClient[i].handled => <<session, base + i>> \in appHandled
    BY <1>10 DEF Tracked
  <2> QED  BY <1>3, <1>10, <1>13, <2>1
<1> QED  BY <1>1, <1>3, <1>10, <1>11, <1>14, <1>15, StillSafe

LEMMA MarkSafe ==
    ASSUME Inv, Inv', ArmedInv, SafeInv, MarkHandledStanzaId
    PROVE  SafeInv'
<1>1. /\ Still /\ Fewer /\ willQ' = <<>> /\ store'.id = store.id
      /\ UNCHANGED <<session, isStarted, enableQueued, enableSent>>
  BY ModuleStill, ModuleStoreId DEF Delegates, SafeInv, CallInv
<1>2. UNCHANGED <<objects, handledQueries, handledAnswers>>
  BY DEF MarkHandledStanzaId
<1>3. PICK id \in marksDue :
          LET matches == {i \in DOMAIN unackedByClient :
                            /\ ~unackedByClient[i].handled /\ unackedByClient[i].known
                            /\ <<unackedByClient[i].sid, unackedByClient[i].n>> = id}
              first   == CHOOSE i \in matches : \A j \in matches : i <= j
          IN /\ appHandled' = appHandled \cup {id}
             /\ IF matches # {}
                THEN /\ MaybeSendAck([unackedByClient EXCEPT ![first].handled = TRUE])
                     /\ UNCHANGED pendingHandled
                ELSE /\ pendingHandled' = IF outstandingIds # 0
                                          THEN Append(pendingHandled, id) ELSE pendingHandled
                     /\ UNCHANGED <<lastHandledByClient, unackedByClient, lastAckOffset,
                                    store, autoAckTimer, ackResponseTimer>>
  BY DEF MarkHandledStanzaId
<1> DEFINE matches == {i \in DOMAIN unackedByClient :
                         /\ ~unackedByClient[i].handled /\ unackedByClient[i].known
                         /\ <<unackedByClient[i].sid, unackedByClient[i].n>> = id}
           first == CHOOSE i \in matches : \A j \in matches : i <= j
           u == [unackedByClient EXCEPT ![first].handled = TRUE]
<1>4. appHandled' = appHandled \cup {id} /\ appHandled \subseteq appHandled'
  BY <1>3
<1>5. CASE matches # {}
  <2>1. first \in matches
    <3>1. PICK base \in Nat : Tracked(session, base, unackedByClient, appHandled)
      BY DEF SafeInv, Counts, Counted
    <3>2. \A i, j \in matches : i = j
      <4> SUFFICES ASSUME NEW i \in matches, NEW j \in matches PROVE i = j
        OBVIOUS
      <4>1. /\ i \in 1..Len(unackedByClient) /\ j \in 1..Len(unackedByClient)
            /\ unackedByClient[i].n = unackedByClient[j].n
        BY IncomingTypes
      <4>2. unackedByClient[i].n = base + i /\ unackedByClient[j].n = base + j
        BY <3>1, <4>1 DEF Tracked
      <4> QED  BY <4>1, <4>2
    <3>3. \A i \in matches : i \in Nat
      BY IncomingTypes
    <3> HIDE DEF matches
    <3>4. \E i \in matches : \A j \in matches : i <= j
      BY <1>5, <3>2, <3>3
    <3> QED  BY <3>4
  <2>2. MaybeSendAck(u) /\ UNCHANGED pendingHandled
    BY <1>3, <1>5
  <2>3. PICK f : f = first
    OBVIOUS
  <2>4. /\ f \in 1..Len(unackedByClient)
        /\ <<unackedByClient[f].sid, unackedByClient[f].n>> = id
    BY <2>1, <2>3, IncomingTypes
  <2>5. u = [unackedByClient EXCEPT ![f].handled = TRUE]
    BY <2>3
  <2> HIDE DEF u, first, matches
  <2>6. DOMAIN u = 1..Len(unackedByClient) /\ \A i \in 1..Len(unackedByClient) :
          /\ u[i] \in IncomingItem
          /\ u[i].obj = unackedByClient[i].obj /\ u[i].sid = unackedByClient[i].sid
          /\ u[i].n = unackedByClient[i].n
          /\ u[i].handled => unackedByClient[i].handled \/ i = f
    <3>1. /\ DOMAIN u = 1..Len(unackedByClient)
          /\ u[f] = [unackedByClient[f] EXCEPT !.handled = TRUE]
          /\ \A i \in 1..Len(unackedByClient) : i # f => u[i] = unackedByClient[i]
      BY <2>4, <2>5, IncomingTypes
    <3>2. \A i \in 1..Len(unackedByClient) : unackedByClient[i] \in IncomingItem
      BY IncomingTypes
    <3>3. /\ u[f] \in IncomingItem /\ u[f].obj = unackedByClient[f].obj
          /\ u[f].sid = unackedByClient[f].sid /\ u[f].n = unackedByClient[f].n
      BY <2>4, <3>1, <3>2 DEF IncomingItem
    <3> QED  BY <3>1, <3>2, <3>3
  <2>7. u \in Seq(IncomingItem) /\ Len(u) = Len(unackedByClient)
    <3>1. u = [i \in DOMAIN u |-> u[i]] /\ DOMAIN u = DOMAIN unackedByClient
      BY <2>5
    <3>2. \A i \in DOMAIN unackedByClient : u[i] \in IncomingItem
      BY <2>6, IncomingTypes
    <3> HIDE DEF u
    <3>3. u \in Seq(IncomingItem)
      BY <3>1, <3>2, IncomingTypes, SeqReplaced
    <3> QED  BY <3>1, <3>3, IncomingTypes, LenProperties
  <2>8. Settled(u) /\ Recounted
    BY <2>2, <2>7, AckSettles
  <2>9. Objects'
    <3>1. \A i \in 1..Len(pendingHandled') : pendingHandled'[i] \in appHandled'
      BY <1>4, <2>2 DEF SafeInv, Objects
    <3> QED  BY <1>2, <1>4, <2>6, <2>7, <2>8, <3>1, ObjectsAcked DEF SafeInv
  <2>10. \A base \in Nat : Tracked(session, base, unackedByClient, appHandled) =>
                              Tracked(session, base, u, appHandled')
    <3> SUFFICES ASSUME NEW base \in Nat, Tracked(session, base, unackedByClient, appHandled),
                        NEW i \in 1..Len(u)
                 PROVE  /\ u[i].sid = session /\ u[i].n = base + i
                        /\ u[i].handled => <<session, base + i>> \in appHandled'
      BY Zenon DEF Tracked
    <3>1. /\ unackedByClient[i].sid = session /\ unackedByClient[i].n = base + i
          /\ unackedByClient[i].handled => <<session, base + i>> \in appHandled
      BY <2>7 DEF Tracked
    <3> QED  BY <1>4, <2>4, <2>6, <2>7, <3>1
  <2> QED  BY <1>1, <1>4, <2>7, <2>8, <2>9, <2>10, StillSafe
<1>6. CASE matches = {}
  <2>1. /\ pendingHandled' \in {Append(pendingHandled, id), pendingHandled}
        /\ UNCHANGED <<lastHandledByClient, unackedByClient, store>>
    BY <1>3, <1>6
  <2> HIDE DEF u, first, matches
  <2>2. Settled(unackedByClient) /\ Recounted
    BY <2>1, KeptIncoming
  <2>3. \A i \in 1..Len(pendingHandled') : pendingHandled'[i] \in appHandled'
    <3>1. \A i \in 1..Len(pendingHandled) : pendingHandled[i] \in appHandled'
      BY <1>4 DEF SafeInv, Objects
    <3>2. id \in Nat \X Nat /\ id \in appHandled'
      BY <1>4 DEF Inv, TypeOK, HistTypeOK
    <3>3. CASE pendingHandled' = Append(pendingHandled, id)
      <4>1. Len(pendingHandled') = Len(pendingHandled) + 1
            /\ pendingHandled'[Len(pendingHandled) + 1] = id
            /\ \A i \in 1..Len(pendingHandled) : pendingHandled'[i] = pendingHandled[i]
        BY <3>2, <3>3, IncomingTypes, AppendProperties
      <4>2. \A i \in 1..Len(pendingHandled') :
               i \in 1..Len(pendingHandled) \/ i = Len(pendingHandled) + 1
        BY <4>1, IncomingTypes
      <4> QED  BY <3>1, <3>2, <4>1, <4>2
    <3> QED  BY <2>1, <3>1, <3>3
  <2>4. Objects'
    BY <1>2, <1>4, <2>2, <2>3, ObjectsAcked DEF SafeInv
  <2>5. \A base \in Nat : Tracked(session, base, unackedByClient, appHandled) =>
                             Tracked(session, base, unackedByClient, appHandled')
    BY <1>4, TrackedMore
  <2> QED  BY <1>1, <1>4, <2>2, <2>4, <2>5, StillSafe
<1> QED  BY <1>5, <1>6

-----------------------------------------------------------------------------
(* The life of a session.                                                     *)

LEMMA SessionGrows ==
    ASSUME Inv, Inv', Grow, NEW s \in 0..Len(sessions)
    PROVE  s \in 0..Len(sessions')
<1>1. Len(sessions) \in Nat /\ Len(sessions') \in Nat
  BY LenProperties DEF Inv, TypeOK, ServerTypeOK
<1>2. CASE s = 0
  BY <1>1, <1>2
<1>3. CASE s # 0
  <2>1. s \in 1..Len(sessions)
    BY <1>1, <1>3
  <2> QED  BY <1>1, <2>1 DEF Grow
<1> QED  BY <1>2, <1>3

\* The module's own state stays as it is.
LEMMA SameSafe ==
    ASSUME Inv, Inv', SafeInv, CallInv', Grow, UNCHANGED <<moduleVars, histVars>>,
           \A base \in Nat : Counted(base) /\ Expected(base) => Expected(base)'
    PROVE  SafeInv'
<1>1. UNCHANGED <<inVars, store, unackedByClient, lastHandledByClient, session, appHandled>>
  BY DEF moduleVars, histVars, inVars
<1>2. PICK base \in Nat : Counted(base) /\ Expected(base)
  BY DEF SafeInv, Counts
<1>3. session \in 0..Len(sessions) /\ Stored /\ Len(unackedByClient) \in Nat
  BY IncomingTypes DEF SafeInv, Counts
<1>4. Settled(unackedByClient) /\ Recounted
  BY <1>1, KeptIncoming
<1>5. /\ Tracked(session, base, unackedByClient, appHandled')
      /\ session = 0 => base + Len(unackedByClient) = 0
      /\ session # 0 => base + Len(unackedByClient) <= sessions[session].out
  BY <1>1, <1>2 DEF Counted
<1>6. /\ \E b \in Nat : /\ Counted(b)' /\ b + Len(unackedByClient') = base + Len(unackedByClient)
                        /\ Len(unackedByClient) = 0 => b = base
      /\ Stored'
  BY <1>1, <1>2, <1>3, <1>4, <1>5, CountedSettled
<1>7. PICK b \in Nat : Counted(b)' /\ b + Len(unackedByClient') = base + Len(unackedByClient)
  BY <1>6
<1>8. b = base
  BY <1>1, <1>3, <1>7
<1>9. Expected(b)'
  BY <1>2, <1>8
<1>10. session' \in 0..Len(sessions')
  BY <1>1, <1>3, SessionGrows
<1>11. Objects'
  BY <1>1, ObjectsKept DEF SafeInv
<1> QED  BY <1>6, <1>7, <1>9, <1>10, <1>11 DEF SafeInv, Counts

LEMMA BindingSafe ==
    ASSUME Inv, Inv', QueueInv, ArmedInv, SafeInv, StartCustomBinding \/ StartStandardBinding
    PROVE  SafeInv'
<1>1. CallInv' /\ ~Reading'
  BY StartCustomCalls, StartStandardCalls DEF SafeInv
<1>2. UNCHANGED <<moduleVars, histVars>> /\ Grow
  BY GrowKept DEF StartCustomBinding, StartStandardBinding, serverVars
<1>3. ~(conn' = "resuming" /\ moduleQ' = <<>>)
  <2>1. CASE StartStandardBinding
    BY <2>1 DEF StartStandardBinding
  <2>2. CASE StartCustomBinding
    <3>1. PICK e : moduleQ' = Append(moduleQ, e)
      BY <2>2 DEF StartCustomBinding
    <3>2. Len(moduleQ') = Len(moduleQ) + 1 /\ Len(moduleQ) \in Nat
      BY <3>1, ArrivedLonger, QueueTypes, LenProperties
    <3>3. Len(<<>>) = 0
      OBVIOUS
    <3> QED  BY <3>2, <3>3
  <2> QED  BY <2>1, <2>2
<1>4. \A base \in Nat : Counted(base) /\ Expected(base) => Expected(base)'
  BY <1>1, <1>3 DEF Expected
<1> QED  BY <1>1, <1>2, <1>4, SameSafe

LEMMA ServerEnableSafe ==
    ASSUME Inv, Inv', QueueInv, SafeInv, NoFilter, ServerHandlesEnable
    PROVE  SafeInv'
<1>1. /\ CallInv' /\ Grow /\ ~Reading' /\ conn' # "resuming"
  BY ServerEnableCalls DEF SafeInv
<1>2. UNCHANGED <<moduleVars, histVars>>
  BY DEF ServerHandlesEnable
<1>3. \A base \in Nat : Counted(base) /\ Expected(base) => Expected(base)'
  BY <1>1 DEF Expected
<1> QED  BY <1>1, <1>2, <1>3, SameSafe

LEMMA ServerStanzaSafe ==
    ASSUME Inv, Inv', SafeInv, NoFilter, ServerSendsStanza, conn = "bound"
    PROVE  SafeInv'
<1>1. /\ CallInv' /\ Grow /\ (Reading' => Reading) /\ conn' = "bound"
      /\ UNCHANGED <<moduleVars, histVars>>
  BY ServerStanzaCalls DEF SafeInv, ServerSendsStanza, streamVars
<1>2. UNCHANGED <<session, unackedByClient>>
  BY <1>1 DEF moduleVars, histVars, inVars
<1>3. \A base \in Nat : Counted(base) /\ Expected(base) => Expected(base)'
  <2> SUFFICES ASSUME NEW base \in Nat, Expected(base), Reading'
               PROVE  session # 0 /\ Arriving(0, session, base + Len(unackedByClient) + 1)'
    BY <1>1, <1>2 DEF Expected
  <2>1. PICK n : n = base + Len(unackedByClient) + 1
    OBVIOUS
  <2>2. session # 0 /\ Arriving(0, session, n) /\ n \in Nat
    BY <1>1, <2>1, IncomingTypes DEF Expected
  <2>3. PICK s : s = session /\ s \in 1..Len(sessions) /\ 0 \in 0..Len(moduleQ)
    <3>1. Len(sessions) \in Nat /\ Len(moduleQ) \in Nat
      BY LenProperties DEF Inv, TypeOK, ServerTypeOK, StreamTypeOK
    <3> QED  BY <2>2, <3>1 DEF SafeInv, Counts
  <2>4. Arriving(0, s, n)'
    BY <2>2, <2>3, ServerStanzaArrives DEF SafeInv, CallInv
  <2>5. s = session' /\ n = base + Len(unackedByClient') + 1
    BY <1>2, <2>1, <2>3
  <2> QED  BY <2>2, <2>4, <2>5 DEF Arriving
<1> QED  BY <1>1, <1>3, SameSafe

LEMMA ServerResumeSafe ==
    ASSUME Inv, Inv', QueueInv, ArmedInv, SafeInv, NoFilter, ServerHandlesResume, conn = "resuming"
    PROVE  SafeInv'
<1>1. moduleQ = <<>>
  <2>1. c2s # <<>>
    BY DEF ServerHandlesResume, Take
  <2> QED  BY <2>1 DEF QueueInv, ResumingIsQuiet
<1>2. Len(unackedByClient) = 0 /\ UNCHANGED <<moduleVars, histVars, unackedByClient, session>>
  BY <1>1 DEF ArmedInv, Resumes, Restored, InClean, ServerHandlesResume, moduleVars, histVars,
     inVars
<1>3. \A base \in Nat : Counted(base) /\ Expected(base) =>
         /\ CallInv' /\ Grow /\ Expected(base)'
  <2> SUFFICES ASSUME NEW base \in Nat, Counted(base), Expected(base)
               PROVE  CallInv' /\ Grow /\ Expected(base)'
    OBVIOUS
  <2>1. \A i \in 1..Len(c2s) : c2s[i].sid = session /\ c2s[i].arg = base
    BY <1>1 DEF Expected
  <2>2. session \in 1..Len(sessions) => base <= sessions[session].out
    BY <1>2 DEF Counted
  <2>3. /\ CallInv' /\ Grow /\ conn' = "bound"
        /\ Reading' => session # 0 /\ Arriving(0, session, base + 1)'
    BY <2>1, <2>2, ServerResumeCalls DEF SafeInv
  <2>4. base + 1 = base + Len(unackedByClient') + 1
    BY <1>2
  <2>5. Expected(base)'
    BY <1>2, <2>3, <2>4 DEF Expected
  <2> QED  BY <2>3, <2>5
<1>4. CallInv' /\ Grow
  BY <1>3 DEF SafeInv, Counts
<1> QED  BY <1>2, <1>3, <1>4, SameSafe

\* Both queues of the module start again from nothing.
LEMMA ClearedSafe ==
    ASSUME Inv, Inv', SafeInv, CallInv', ~Reading', conn' # "resuming", Grow,
           UNCHANGED <<session, appHandled, store, objects>>,
           unackedByClient' = <<>>, pendingHandled' = <<>>,
           lastHandledByClient' \in {0, lastHandledByClient},
           handledQueries' \subseteq handledQueries, handledAnswers' \subseteq handledAnswers
    PROVE  SafeInv'
<1>1. PICK base \in Nat : Counted(base)
  BY DEF SafeInv, Counts
<1>2. session \in 0..Len(sessions) /\ Stored /\ Len(unackedByClient) \in Nat
  BY IncomingTypes DEF SafeInv, Counts
<1>3. PICK u : u = <<>> /\ Len(u) = 0
  OBVIOUS
<1>4. Settled(u) /\ Recounted
  <2>1. lastHandledByClient \in Nat
    BY DEF Inv, TypeOK, InTypeOK
  <2>2. lastHandledByClient' \in 0..(lastHandledByClient + 0) /\ Len(unackedByClient') = 0
    BY <1>3, <2>1
  <2> QED  BY <1>3, <2>2 DEF Settled, Recounted
<1>5. /\ Tracked(session, base, u, appHandled')
      /\ session = 0 => base + Len(u) = 0
      /\ session # 0 => base + Len(u) <= sessions[session].out
  <2>1. Tracked(session, base, u, appHandled')
    BY <1>3 DEF Tracked
  <2>2. session # 0 => sessions[session].out \in Nat
    BY <1>2, OutIsNat
  <2> QED  BY <1>1, <1>2, <1>3, <2>1, <2>2 DEF Counted
<1>6. (\E b \in Nat : Counted(b)') /\ Stored'
  BY <1>1, <1>2, <1>3, <1>4, <1>5, CountedSettled
<1>7. session' \in 0..Len(sessions')
  BY <1>2, SessionGrows
<1>8. Counts'
  BY <1>6, <1>7 DEF Counts, Expected
<1>9. Objects'
  BY ObjectsCleared DEF SafeInv
<1> QED  BY <1>6, <1>8, <1>9 DEF SafeInv

LEMMA EnableSafe ==
    ASSUME Inv, Inv', QueueInv, SafeInv, Enable
    PROVE  SafeInv'
<1>1. CallInv' /\ ~Reading'
  BY EnableCalls DEF SafeInv
<1>2. /\ UNCHANGED <<session, appHandled, store, objects, lastHandledByClient, handledQueries,
                     handledAnswers, sessions, conn>>
      /\ unackedByClient' = <<>> /\ pendingHandled' = <<>> /\ conn # "resuming"
  BY DEF Enable, Cleanup, streamVars, serverVars, histVars
<1>3. Grow
  BY <1>2, GrowKept
<1> QED  BY <1>1, <1>2, <1>3, ClearedSafe

LEMMA CrashSafe ==
    ASSUME Inv, Inv', SafeInv, Crash
    PROVE  SafeInv'
<1>1. CallInv' /\ ~Reading'
  BY CrashCalls DEF SafeInv
<1>2. /\ UNCHANGED <<session, appHandled, store, objects, sessions>>
      /\ unackedByClient' = <<>> /\ pendingHandled' = <<>> /\ conn' = "closed"
      /\ lastHandledByClient' = 0 /\ handledQueries' = {} /\ handledAnswers' = {}
  BY DEF Crash, Cleanup, serverVars
<1>3. Grow
  BY <1>2, GrowKept
<1> QED  BY <1>1, <1>2, <1>3, ClearedSafe

-----------------------------------------------------------------------------
(* The callbacks.                                                             *)

\* What a callback finds at the head of the moduleQueue.
LEMMA HeadRuns ==
    ASSUME Inv, Inv', QueueInv, HandleCallback
    PROVE  /\ 0 \in 0..Len(moduleQ) /\ 1 \in 0..Len(moduleQ) /\ 1 \in DOMAIN moduleQ
           /\ ~Holds(moduleQ', {"resumed"})
           /\ conn = "resuming" => HandleSendResume
           /\ Grow /\ UNCHANGED <<conn, sessions>>
<1>1. /\ Shorter(moduleQ, moduleQ') /\ 1 \in 1..Len(moduleQ)
      /\ UNCHANGED <<conn, sessions>>
  BY CallbackTakes
<1>2. /\ moduleQ \in Seq(ElementSet) /\ moduleQ' \in Seq(ElementSet)
      /\ Len(moduleQ) \in Nat /\ DOMAIN moduleQ = 1..Len(moduleQ)
  BY LenProperties DEF Inv, TypeOK, StreamTypeOK
<1>3. 0 \in 0..Len(moduleQ) /\ 1 \in 0..Len(moduleQ) /\ 1 \in DOMAIN moduleQ
  BY <1>1, <1>2
<1>4. ~Holds(moduleQ', {"resumed"})
  <2> SUFFICES ASSUME Holds(moduleQ', {"resumed"}) PROVE FALSE
    OBVIOUS
  <2>1. PICK i \in 1..Len(moduleQ') : moduleQ'[i].name = "resumed"
    BY <1>2, HoldsAt
  <2>2. i + 1 \in DOMAIN moduleQ /\ moduleQ[i + 1].name = "resumed" /\ i \in Nat /\ i # 0
    BY <1>1, <1>2, <2>1 DEF Shorter
  <2>3. i + 1 = 1
    BY <2>2 DEF QueueInv, ResumedIsFirst
  <2> QED  BY <2>2, <2>3
<1>5. conn = "resuming" => HandleSendResume
  <2> SUFFICES ASSUME conn = "resuming" PROVE HandleSendResume
    OBVIOUS
  <2>1. moduleQ # <<>>
    BY <1>1
  <2>2. moduleQ[1].name = "sendResume"
    BY <2>1 DEF QueueInv, ResumingIsQuiet
  <2>3. Head(moduleQ).name = "sendResume"
    BY <2>2, CallbackTakes
  <2> QED
    BY <2>3 DEF HandleCallback, HandleDidSend, HandleAck, HandleStanza, HandleFiltered,
       HandleRequest, HandleDidSendEnable, HandleEnabled, HandleFailed, HandleResumed,
       HandleResumeFailed, HandleClosing, HandleDidDisconnect, Next_is
<1>6. Grow
  BY <1>1, GrowKept
<1> QED  BY <1>1, <1>3, <1>4, <1>5, <1>6

\* A callback that neither begins a session nor reads a stanza of it.
LEMMA TakenSafe ==
    ASSUME Inv, Inv', QueueInv, SafeInv, HandleCallback, ~HandleSendResume,
           IsStanza(moduleQ, 1) => ~isStarted', isStarted' => Reading,
           UNCHANGED <<session, appHandled>>, Recounted, Settled(unackedByClient), Objects'
    PROVE  SafeInv'
<1>1. /\ 0 \in 0..Len(moduleQ) /\ ~Holds(moduleQ', {"resumed"}) /\ conn' # "resuming"
      /\ Grow /\ UNCHANGED sessions
  BY HeadRuns
<1>2. CallInv'
  BY CallbackCalls DEF SafeInv
<1>3. session \in 0..Len(sessions) /\ Stored /\ Len(unackedByClient) \in Nat
  BY IncomingTypes DEF SafeInv, Counts
<1>4. PICK base \in Nat : Counted(base) /\ Expected(base)
  BY DEF SafeInv, Counts
<1>5. /\ Tracked(session, base, unackedByClient, appHandled')
      /\ session = 0 => base + Len(unackedByClient) = 0
      /\ session # 0 => base + Len(unackedByClient) <= sessions[session].out
  BY <1>4 DEF Counted
<1>6. /\ \E b \in Nat : /\ Counted(b)' /\ b + Len(unackedByClient') = base + Len(unackedByClient)
                        /\ Len(unackedByClient) = 0 => b = base
      /\ Stored'
  BY <1>1, <1>3, <1>4, <1>5, CountedSettled
<1>7. PICK b \in Nat : Counted(b)' /\ b + Len(unackedByClient') = base + Len(unackedByClient)
  BY <1>6
<1>8. Expected(b)'
  <2> SUFFICES ASSUME Reading'
               PROVE  session # 0 /\ Arriving(0, session, b + Len(unackedByClient) + 1)'
    BY <1>1 DEF Expected
  <2>1. isStarted' /\ Reading /\ ~IsStanza(moduleQ, 1)
    BY <1>1 DEF Reading
  <2>2. PICK n : n = base + Len(unackedByClient) + 1
    OBVIOUS
  <2>3. PICK s : s = session
    OBVIOUS
  <2>4. s # 0 /\ Arriving(0, s, n)
    BY <1>4, <2>1, <2>2, <2>3 DEF Expected
  <2>5. Arriving(0, s, n)'
    BY <1>1, <2>1, <2>4, ArrivingTaken
  <2>6. s = session' /\ n = b + Len(unackedByClient') + 1
    BY <1>7, <2>2, <2>3
  <2> QED  BY <2>3, <2>4, <2>5, <2>6 DEF Arriving
<1>9. session' \in 0..Len(sessions')
  BY <1>1, <1>3
<1> QED  BY <1>2, <1>6, <1>7, <1>8, <1>9 DEF SafeInv, Counts

LEMMA QuietCallbackSafe ==
    ASSUME Inv, Inv', QueueInv, SafeInv,
           \/ HandleDidSend \/ HandleAck \/ HandleDidSendEnable \/ HandleFailed
           \/ HandleResumed \/ HandleResumeFailed \/ HandleClosing \/ HandleDidDisconnect
           \/ (HandleEnabled /\ ~enableSent) \/ (HandleStanza /\ ~isStarted)
    PROVE  SafeInv'
<1>1. HandleCallback /\ ~HandleSendResume
  BY DEF HandleCallback, HandleDidSend, HandleAck, HandleDidSendEnable, HandleFailed,
     HandleResumed, HandleResumeFailed, HandleClosing, HandleDidDisconnect, HandleEnabled,
     HandleStanza, HandleSendResume, Next_is
<1>2. UNCHANGED <<session, appHandled, inVars>> \/ HandleDidDisconnect
      \/ (HandleEnabled /\ ~enableSent) \/ (HandleStanza /\ ~isStarted)
  BY DEF HandleDidSend, HandleAck, HandleDidSendEnable, HandleFailed, HandleResumed,
     HandleResumeFailed, HandleClosing, histVars
<1>3. UNCHANGED <<session, appHandled, lastHandledByClient, unackedByClient, pendingHandled,
                  objects, handledQueries, handledAnswers>>
  BY <1>2 DEF HandleDidDisconnect, HandleEnabled, HandleStanza, histVars, inVars
<1>4. Objects'
  BY <1>3 DEF SafeInv, Objects
<1>5. Recounted
  <2>1. store \in Storage /\ \A hs, pending :
            LET s == StoreOutgoing(hs, pending)
            IN s.id = store.id /\ s.hc \in {store.hc, lastHandledByClient}
    BY DEF StoreOutgoing, Storage, Inv, TypeOK
  <2>2. \/ store' = store \/ \E hs, pending : store' = StoreOutgoing(hs, pending)
        \/ (\E h : ProcessAck(h)) \/ store' = EmptyStore
        \/ \E h : store' = [store EXCEPT !.date = TRUE, !.hs = h, !.pending = <<>>]
        \/ store' = [store EXCEPT !.date = TRUE, !.hc = lastHandledByClient,
                                  !.hs = lastHandledByServer, !.pending = unackedByServer]
    BY Zenon DEF HandleDidSend, HandleAck, HandleDidSendEnable, HandleFailed, HandleResumed,
       HandleResumeFailed, HandleClosing, HandleDidDisconnect, HandleEnabled, HandleStanza
  <2>3. CASE \E h : ProcessAck(h)
    BY <1>3, <2>3, ProcessRecounts
  <2>4. CASE store' = EmptyStore
    BY <2>4 DEF EmptyStore, Recounted
  <2>5. CASE \E h : store' = [store EXCEPT !.date = TRUE, !.hs = h, !.pending = <<>>]
    BY <2>1, <2>5 DEF Recounted, Storage
  <2>6. CASE store' = [store EXCEPT !.date = TRUE, !.hc = lastHandledByClient,
                                    !.hs = lastHandledByServer, !.pending = unackedByServer]
    BY <2>1, <2>6 DEF Recounted, Storage
  <2>7. CASE \E hs, pending : store' = StoreOutgoing(hs, pending)
    BY <2>1, <2>7 DEF Recounted
  <2> QED  BY <2>2, <2>3, <2>4, <2>5, <2>6, <2>7 DEF Recounted
<1>6. Settled(unackedByClient)
  <2>1. Len(unackedByClient) \in Nat /\ lastHandledByClient \in Nat
    BY IncomingTypes DEF Inv, TypeOK, InTypeOK
  <2>2. \A i \in 1..(Len(unackedByClient) - 0) :
           i + 0 \in 1..Len(unackedByClient) /\ unackedByClient'[i] = unackedByClient[i + 0]
    BY <1>3, <2>1
  <2> QED  BY <1>3, <2>1, <2>2 DEF Settled
<1>7. isStarted' => Reading
  <2>1. CASE HandleResumed
    <3>1. moduleQ[1].name = "resumed" /\ 1 \in DOMAIN moduleQ
      BY <1>1, <2>1, CallbackName, HeadRuns
    <3> QED  BY <3>1 DEF Reading, Holds
  <2>2. CASE ~HandleResumed
    <3>1. isStarted' \in {FALSE, isStarted}
      BY <2>2 DEF HandleDidSend, HandleAck, HandleDidSendEnable, HandleFailed,
         HandleResumeFailed, HandleClosing, HandleDidDisconnect, HandleEnabled, HandleStanza,
         flagVars, Inv, TypeOK, FlagTypeOK
    <3> QED  BY <3>1 DEF Reading
  <2> QED  BY <2>1, <2>2
<1>8. IsStanza(moduleQ, 1) => ~isStarted'
  <2> SUFFICES ASSUME IsStanza(moduleQ, 1) PROVE ~isStarted'
    OBVIOUS
  <2>1. Head(moduleQ).name = "stanza"
    BY <1>1, CallbackTakes DEF IsStanza
  <2>2. HandleStanza /\ ~isStarted
    BY <2>1 DEF HandleDidSend, HandleAck, HandleDidSendEnable, HandleFailed, HandleResumed,
       HandleResumeFailed, HandleClosing, HandleDidDisconnect, HandleEnabled, Next_is
  <2> QED  BY <2>2 DEF HandleStanza, flagVars
<1> QED  BY <1>1, <1>3, <1>4, <1>5, <1>6, <1>7, <1>8, TakenSafe

\* An <r/> is answered with what has been counted.
LEMMA RequestSafe ==
    ASSUME Inv, Inv', QueueInv, SafeInv, HandleRequest
    PROVE  SafeInv'
<1>1. HandleCallback /\ ~HandleSendResume /\ Head(moduleQ).name = "r"
  BY DEF HandleCallback, HandleRequest, HandleSendResume, Next_is
<1>2. UNCHANGED <<objects, handledQueries, handledAnswers, pendingHandled, appHandled, session,
                  isStarted>>
  BY DEF HandleRequest, histVars, flagVars
<1>3. Settled(unackedByClient) /\ Recounted
  <2>1. unackedByClient \in Seq(IncomingItem)
    BY IncomingTypes
  <2>2. \/ SendAck(unackedByClient)
        \/ UNCHANGED <<unackedByClient, lastHandledByClient, store>>
    BY DEF HandleRequest
  <2> QED  BY <2>1, <2>2, AckSettles, KeptIncoming
<1>4. Objects'
  <2>1. \A i \in 1..Len(pendingHandled') : pendingHandled'[i] \in appHandled'
    BY <1>2 DEF SafeInv, Objects
  <2> QED  BY <1>2, <1>3, <2>1, ObjectsAcked DEF SafeInv
<1>5. ~IsStanza(moduleQ, 1)
  BY <1>1, CallbackTakes DEF IsStanza
<1> QED  BY <1>1, <1>2, <1>3, <1>4, <1>5, TakenSafe DEF Reading

\* A stanza of the session is received.
LEMMA StanzaSafe ==
    ASSUME Inv, Inv', QueueInv, SafeInv, HandleStanza, isStarted
    PROVE  SafeInv'
<1>1. /\ HandleCallback /\ Head(moduleQ) = moduleQ[1] /\ IsStanza(moduleQ, 1) /\ moduleQ # <<>>
      /\ ~HandleSendResume
  <2>1. HandleCallback /\ moduleQ # <<>> /\ ~HandleSendResume
    BY DEF HandleCallback, HandleStanza, HandleSendResume, Next_is
  <2> QED  BY <2>1, CallbackTakes, CallbackName DEF IsStanza
<1>2. /\ 0 \in 0..Len(moduleQ) /\ ~Holds(moduleQ', {"resumed"}) /\ conn' # "resuming"
      /\ Grow /\ UNCHANGED sessions
  BY <1>1, HeadRuns
<1>3. CallInv'
  BY <1>1, CallbackCalls DEF SafeInv
<1>4. PICK base \in Nat : Counted(base) /\ Expected(base)
  BY DEF SafeInv, Counts
<1>5. PICK n : n = base + Len(unackedByClient) + 1
  OBVIOUS
<1>6. session # 0 /\ Arriving(0, session, n)
  BY <1>4, <1>5 DEF Expected, Reading
<1>7. session \in 1..Len(sessions) /\ n \in Nat /\ Len(unackedByClient) \in Nat
  <2>1. Len(sessions) \in Nat /\ session \in 0..Len(sessions)
    BY LenProperties DEF Inv, TypeOK, ServerTypeOK, SafeInv, Counts
  <2> QED  BY <1>5, <1>6, <2>1, IncomingTypes
<1>8. PICK s \in 1..Len(sessions) : s = session
  BY <1>7
<1>9. /\ moduleQ[1].sid = s /\ moduleQ[1].arg = n /\ n <= sessions[s].out
      /\ Arriving(0, s, n + 1)'
  BY <1>1, <1>6, <1>7, <1>8, FirstArrives
<1>10. PICK x : x = Incoming(objects + 1, moduleQ[1].sid, moduleQ[1].arg, FALSE, ~AsyncHandled)
  OBVIOUS
<1>11. /\ x \in IncomingItem /\ x.obj = objects + 1 /\ x.sid = s /\ x.n = n
       /\ x.handled = ~AsyncHandled
  <2>1. x \in IncomingItem
    <3>1. PICK h \in BOOLEAN : h = ~AsyncHandled
      BY ConfigAssumption
    <3>2. Incoming(objects + 1, Head(moduleQ).sid, Head(moduleQ).arg, FALSE, h) \in IncomingItem
      BY <1>1, IncomingType
    <3>3. x = Incoming(objects + 1, Head(moduleQ).sid, Head(moduleQ).arg, FALSE, h)
      BY <1>1, <1>10, <3>1, Zenon
    <3> QED  BY <3>2, <3>3
  <2> QED  BY <1>9, <1>10, <2>1 DEF Incoming
<1>12. PICK u : u = Append(unackedByClient, x)
  OBVIOUS
<1>13. /\ u \in Seq(IncomingItem) /\ Len(u) = Len(unackedByClient) + 1
       /\ u[Len(unackedByClient) + 1] = x
       /\ \A i \in 1..Len(unackedByClient) : u[i] = unackedByClient[i]
  BY <1>11, <1>12, IncomingTypes, AppendProperties
<1>14. \A i \in 1..Len(u) : i \in 1..Len(unackedByClient)
                            \/ (i = Len(unackedByClient) + 1 /\ u[i] = x)
  BY <1>7, <1>13
<1>15. /\ objects' = objects + 1
       /\ UNCHANGED <<session, handledAnswers, pendingHandled, isStarted>>
       /\ \/ /\ ~AsyncHandled /\ MaybeSendAck(u) /\ UNCHANGED handledQueries
             /\ appHandled' = appHandled \cup {<<s, n>>}
          \/ /\ AsyncHandled /\ unackedByClient' = u
             /\ handledQueries' = handledQueries \cup {x}
             /\ UNCHANGED <<lastHandledByClient, store, appHandled>>
  BY <1>1, <1>9, <1>10, <1>12 DEF HandleStanza, inVars, flagVars
<1>16. Settled(u) /\ Recounted
  BY <1>13, <1>15, AckSettles, KeptSettles
<1>17. appHandled \subseteq appHandled'
  BY <1>15
<1>18. Objects'
  <2>1. objects \in Nat /\ x.obj = objects + 1
    BY <1>11, IncomingTypes
  <2>2. \A y \in (handledQueries \cup handledAnswers)' :
           y \in handledQueries \cup handledAnswers \/ y = x
    BY <1>15
  <2>3. \A y \in handledQueries \cup handledAnswers : y \in IncomingItem /\ y.obj \in Nat
    BY DEF Inv, TypeOK, InTypeOK, IncomingItem
  <2>4. \A i \in 1..Len(unackedByClient) : unackedByClient[i].obj \in Nat
    BY IncomingTypes DEF IncomingItem
  <2>5. \A y \in (handledQueries \cup handledAnswers)' : y.obj <= objects'
    BY <1>15, <2>1, <2>2, <2>3 DEF SafeInv, Objects
  <2>6. \A i \in 1..Len(u) : u[i].obj <= objects'
    BY <1>13, <1>14, <1>15, <2>1, <2>4 DEF SafeInv, Objects
  <2>7. \A i \in 1..Len(u) : \A y \in (handledQueries \cup handledAnswers)' :
           u[i].obj = y.obj => u[i].sid = y.sid /\ u[i].n = y.n
    <3> SUFFICES ASSUME NEW i \in 1..Len(u), NEW y \in (handledQueries \cup handledAnswers)',
                        u[i].obj = y.obj
                 PROVE  u[i].sid = y.sid /\ u[i].n = y.n
      OBVIOUS
    <3>1. CASE u[i] = x /\ y = x
      BY <3>1
    <3>2. CASE i \in 1..Len(unackedByClient) /\ y = x
      <4>1. u[i].obj <= objects /\ u[i].obj \in Nat
        BY <1>13, <2>4, <3>2 DEF SafeInv, Objects
      <4> QED  BY <2>1, <3>2, <4>1
    <3>3. CASE u[i] = x /\ y \in handledQueries \cup handledAnswers
      <4>1. y.obj <= objects /\ y.obj \in Nat
        BY <2>3, <3>3 DEF SafeInv, Objects
      <4> QED  BY <2>1, <3>3, <4>1
    <3>4. CASE i \in 1..Len(unackedByClient) /\ y \in handledQueries \cup handledAnswers
      BY <1>13, <3>4 DEF SafeInv, Objects
    <3> QED  BY <1>14, <2>2, <3>1, <3>2, <3>3, <3>4
  <2>8. \A y \in handledAnswers' : y.handled => <<y.sid, y.n>> \in appHandled'
    BY <1>15, <1>17 DEF SafeInv, Objects
  <2>9. \A i \in 1..Len(pendingHandled') : pendingHandled'[i] \in appHandled'
    BY <1>15, <1>17 DEF SafeInv, Objects
  <2>10. Len(u) \in Nat
    BY <1>7, <1>13
  <2> QED  BY <1>16, <2>5, <2>6, <2>7, <2>8, <2>9, <2>10, ObjectsSettled
<1>19. Tracked(session, base, u, appHandled')
  <2> SUFFICES ASSUME NEW i \in 1..Len(u)
               PROVE  /\ u[i].sid = session /\ u[i].n = base + i
                      /\ u[i].handled => <<session, base + i>> \in appHandled'
    BY Zenon DEF Tracked
  <2>1. CASE i \in 1..Len(unackedByClient)
    <3>1. /\ u[i].sid = session /\ u[i].n = base + i
          /\ u[i].handled => <<session, base + i>> \in appHandled
      BY <1>4, <1>13, <2>1 DEF Counted, Tracked
    <3> QED  BY <1>17, <3>1
  <2>2. CASE i = Len(unackedByClient) + 1 /\ u[i] = x
    <3>1. base + i = n
      BY <1>5, <1>7, <2>2
    <3>2. x.handled => <<s, n>> \in appHandled'
      BY <1>11, <1>15
    <3> QED  BY <1>8, <1>11, <2>2, <3>1, <3>2
  <2> QED  BY <1>14, <2>1, <2>2
<1>20. base + Len(u) = n
  BY <1>5, <1>7, <1>13
<1>21. (\E b \in Nat : Counted(b)' /\ b + Len(unackedByClient') = base + Len(u)) /\ Stored'
  <2>1. session # 0 => base + Len(u) <= sessions[session].out
    BY <1>8, <1>9, <1>20
  <2>2. Stored /\ session \in 0..Len(sessions) /\ Len(u) \in Nat
    BY <1>7, <1>13 DEF SafeInv, Counts
  <2> QED  BY <1>2, <1>4, <1>6, <1>15, <1>16, <1>17, <1>19, <2>1, <2>2, CountedSettled
<1>22. PICK b \in Nat : Counted(b)' /\ b + Len(unackedByClient') = n
  BY <1>20, <1>21
<1>23. Expected(b)'
  <2>1. PICK m : m = n + 1
    OBVIOUS
  <2>2. Arriving(0, s, m)'
    BY <1>9, <2>1
  <2>3. s = session' /\ s # 0 /\ m = b + Len(unackedByClient') + 1
    BY <1>6, <1>8, <1>15, <1>22, <2>1
  <2>4. session' # 0 /\ Arriving(0, session, b + Len(unackedByClient) + 1)'
    BY <2>2, <2>3 DEF Arriving
  <2> QED  BY <1>2, <2>4 DEF Expected
<1>24. session' \in 0..Len(sessions')
  BY <1>2, <1>15 DEF SafeInv, Counts
<1> QED  BY <1>3, <1>18, <1>21, <1>22, <1>23, <1>24 DEF SafeInv, Counts

\* A session begins with the <enabled/>: nothing of it has been received yet.
LEMMA EnabledSafe ==
    ASSUME Inv, Inv', QueueInv, ArmedInv, SafeInv, HandleEnabled, enableSent
    PROVE  SafeInv'
<1>1. /\ HandleCallback /\ Head(moduleQ) = moduleQ[1] /\ moduleQ[1].name = "enabled"
      /\ ~HandleSendResume
  <2>1. HandleCallback /\ ~HandleSendResume
    BY DEF HandleCallback, HandleEnabled, HandleSendResume, Next_is
  <2> QED  BY <2>1, CallbackTakes, CallbackName
<1>2. /\ 1 \in 0..Len(moduleQ) /\ 1 \in DOMAIN moduleQ /\ 1 \in 1..Len(moduleQ)
      /\ ~Holds(moduleQ', {"resumed"}) /\ conn' # "resuming"
      /\ Grow /\ UNCHANGED sessions
  BY <1>1, HeadRuns, CallbackTakes
<1>3. CallInv'
  BY <1>1, CallbackCalls DEF SafeInv
<1>4. PICK s : s = moduleQ[1].sid
  OBVIOUS
<1>5. s \in 1..Len(sessions) /\ moduleQ[1].arg \in {0, s} /\ Arriving(1, s, 1)
  BY <1>1, <1>2, <1>4 DEF SafeInv, CallInv, EnabledRuns
<1>6. Arriving(0, s, 1)'
  BY <1>1, <1>2, <1>5, ArrivingTaken
<1>7. unackedByClient = <<>>
  <2>1. Asked
    BY <1>1, <1>2 DEF Asked, Holds
  <2>2. ~isStarted
    BY <2>1 DEF SafeInv, CallInv, AskedInTime
  <2> QED  BY <2>2 DEF ArmedInv, InClean
<1>8. /\ store' = [EmptyStore EXCEPT !.id = moduleQ[1].arg, !.date = TRUE]
      /\ lastHandledByClient' = 0 /\ session' = s
      /\ UNCHANGED <<unackedByClient, objects, pendingHandled, handledQueries, handledAnswers,
                     appHandled>>
  BY <1>1, <1>4 DEF HandleEnabled
<1>9. store'.id \in {0, s} /\ store'.hc = 0
  BY <1>5, <1>8 DEF EmptyStore
<1>10. s # 0 /\ sessions'[s].out \in Nat /\ Len(unackedByClient') = 0 /\ s \in 0..Len(sessions')
  <2>1. Len(sessions) \in Nat
    BY LenProperties DEF Inv, TypeOK, ServerTypeOK
  <2>2. s # 0 /\ s \in 0..Len(sessions)
    BY <1>5, <2>1
  <2> QED  BY <1>2, <1>5, <1>7, <1>8, <2>2, OutIsNat
<1>11. Stored'
  BY <1>8, <1>9, <1>10 DEF Stored, Covered
<1>12. Counted(0)'
  BY <1>8, <1>10 DEF Counted, Covered, Tracked
<1>13. Expected(0)'
  <2>1. PICK m : m = 1
    OBVIOUS
  <2>2. Arriving(0, s, m)' /\ s = session' /\ m = 0 + Len(unackedByClient') + 1
    BY <1>6, <1>8, <1>10, <2>1
  <2>3. session' # 0 /\ Arriving(0, session, 0 + Len(unackedByClient) + 1)'
    BY <1>10, <2>2 DEF Arriving
  <2> QED  BY <1>2, <2>3 DEF Expected
<1>14. Objects'
  BY <1>8 DEF SafeInv, Objects
<1> QED  BY <1>3, <1>8, <1>10, <1>11, <1>12, <1>13, <1>14 DEF SafeInv, Counts

\* A <resume/> goes on from the stored count, which covers what the application has handled.
LEMMA SendResumeSafe ==
    ASSUME Inv, Inv', QueueInv, SafeInv, HandleSendResume
    PROVE  SafeInv'
<1>1. /\ HandleCallback /\ Head(moduleQ) = moduleQ[1] /\ moduleQ[1].name = "sendResume"
      /\ 1 \in 1..Len(moduleQ) /\ moduleQ # <<>>
  <2>1. HandleCallback /\ moduleQ # <<>>
    BY DEF HandleCallback, HandleSendResume, Next_is
  <2> QED  BY <2>1, CallbackTakes, CallbackName
<1>2. ~Holds(moduleQ', {"resumed"}) /\ UNCHANGED <<sessions, conn>>
  BY <1>1, HeadRuns
<1>3. CallInv'
  BY <1>1, CallbackCalls DEF SafeInv
<1>4. moduleQ[1].sid = store.id /\ ~isStarted
  BY <1>1 DEF SafeInv, CallInv, ResumeAlone
<1>5. store.id \in 1..Len(sessions)
  <2>1. NamesSession(moduleQ[1], Len(sessions))
    BY <1>1, HeadRuns DEF Inv, SessionsKnown, AllKnown
  <2> QED  BY <1>1, <1>4, <2>1 DEF NamesSession
<1>6. PICK s, hc : s = store.id /\ hc = store.hc
  OBVIOUS
<1>7. /\ session' = s /\ lastHandledByClient' = hc /\ unackedByClient' = <<>>
      /\ pendingHandled' = <<>> /\ Len(unackedByClient') = 0
      /\ UNCHANGED <<objects, appHandled, handledQueries, handledAnswers, store, isStarted>>
      /\ c2s' = IF conn = "resuming" THEN Append(c2s, Element("resume", hc, s)) ELSE c2s
  BY <1>1, <1>4, <1>6 DEF HandleSendResume, Cleanup, RestoredCounts, flagVars
<1>8. hc \in Nat /\ s # 0 /\ s \in 0..Len(sessions') /\ sessions'[s].out \in Nat
  <2>1. Len(sessions) \in Nat /\ hc \in Nat
    BY <1>6, LenProperties DEF Inv, TypeOK, ServerTypeOK, Storage
  <2>2. s # 0 /\ s \in 0..Len(sessions)
    BY <1>5, <1>6, <2>1
  <2> QED  BY <1>2, <1>5, <1>6, <2>1, <2>2, OutIsNat
<1>9. hc <= sessions'[s].out /\ Covered(s, hc, appHandled')
  BY <1>2, <1>6, <1>7, <1>8 DEF SafeInv, Stored
<1>10. Stored'
  BY <1>2, <1>6, <1>7, <1>9 DEF Stored
<1>11. Counted(hc)'
  BY <1>7, <1>8, <1>9 DEF Counted, Tracked
<1>12. Expected(hc)'
  <2>1. ~Reading'
    BY <1>2, <1>4, <1>7 DEF Reading
  <2>2. conn' = "resuming" => \A i \in 1..Len(c2s') : c2s'[i].sid = s /\ c2s'[i].arg = hc
    <3> SUFFICES ASSUME conn = "resuming", NEW i \in 1..Len(c2s')
                 PROVE  c2s'[i].sid = s /\ c2s'[i].arg = hc
      BY <1>2
    <3>1. c2s = <<>>
      BY <1>1 DEF QueueInv, ResumingIsQuiet
    <3>2. PICK e : e = Element("resume", hc, s)
      OBVIOUS
    <3>3. c2s' = <<e>>
      <4>1. c2s' = Append(c2s, e)
        BY <1>7, <3>2
      <4> QED  BY <3>1, <4>1
    <3>4. i = 1 /\ c2s'[1] = e
      BY <3>3
    <3>5. e.sid = s /\ e.arg = hc
      BY <3>2 DEF Element
    <3> QED  BY <3>4, <3>5
  <2> QED  BY <1>7, <2>1, <2>2 DEF Expected
<1>13. Objects'
  BY <1>7, ObjectsCleared DEF SafeInv
<1> QED  BY <1>3, <1>7, <1>8, <1>10, <1>11, <1>12, <1>13 DEF SafeInv, Counts

LEMMA CallbackSafe ==
    ASSUME Inv, Inv', QueueInv, ArmedInv, SafeInv, HandleCallback
    PROVE  SafeInv'
<1>1. ~HandleFiltered
  BY CallbackTakes, CallbackName DEF SafeInv, CallInv, Plain
<1> QED
  BY <1>1, QuietCallbackSafe, RequestSafe, StanzaSafe, EnabledSafe, SendResumeSafe
     DEF HandleCallback

-----------------------------------------------------------------------------
LEMMA SafeInvPreserved ==
    ASSUME NoFilter, Inv, Inv', QueueInv, ArmedInv, SafeInv, [Next]_vars
    PROVE  SafeInv'
<1>1. CASE UNCHANGED vars
  <2>1. Still /\ Fewer /\ willQ' = <<>>
    <3>1. /\ UNCHANGED <<conn, attached, moduleQ, c2s, sessions, willQ>> /\ willQ = <<>>
      BY <1>1 DEF vars, streamVars, serverVars, SafeInv, CallInv, Plain
    <3> QED  BY <3>1, StillKept, GrowKept, FewerKept DEF Still
  <2>2. UNCHANGED <<isStarted, enableQueued, enableSent, session, inVars, appHandled, store>>
    BY <1>1 DEF vars, flagVars, histVars
  <2> QED  BY <2>1, <2>2, OutsideSafe DEF Recounted
<1>2. CASE HandleCallback
  BY <1>2, CallbackSafe
<1>3. CASE Drain \/ Delegates \/ Timers \/ CallRequestAck
  BY <1>3, OutgoingSafe, DecidesSafe, AnswerSafe, MarkSafe, SendAckSafe DEF Delegates, Timers
<1>4. CASE Server
  <2>1. CASE ServerSendsStanza
    <3>1. conn \in {"closed", "binding", "resuming", "bound"}
      BY DEF Inv, TypeOK, StreamTypeOK
    <3>2. conn # "resuming"
      <4>1. conn = "resuming" => attached = 0
        BY DEF QueueInv, ResumingIsQuiet
      <4> QED  BY <2>1, <4>1 DEF ServerSendsStanza
    <3> QED  BY <2>1, <3>1, <3>2, WorldSafe, ServerStanzaSafe
  <2>2. CASE ServerHandlesResume
    BY <2>2, WorldSafe, ServerResumeSafe
  <2>3. CASE ServerHandlesEnable
    BY <2>3, ServerEnableSafe
  <2> QED  BY <1>4, <2>1, <2>2, <2>3, WorldSafe DEF Server
<1>5. CASE Stream \/ SendStanza \/ Enable
  BY <1>5, WorldSafe, BindingSafe, CrashSafe, EnableSafe DEF Stream
<1> QED  BY <1>1, <1>2, <1>3, <1>4, <1>5 DEF Next, Application

LEMMA SafeInvInitially == Init => SafeInv
<1> SUFFICES ASSUME Init PROVE SafeInv
  OBVIOUS
<1>1. /\ moduleQ = <<>> /\ c2s = <<>> /\ willQ = <<>> /\ sessions = <<>> /\ conn = "closed"
      /\ unackedByClient = <<>> /\ pendingHandled = <<>> /\ ~isStarted
      /\ handledQueries = {} /\ handledAnswers = {} /\ store = EmptyStore
      /\ session = 0 /\ lastHandledByClient = 0
  BY DEF Init
<1>2. /\ Len(moduleQ) = 0 /\ Len(c2s) = 0 /\ Len(sessions) = 0 /\ Len(unackedByClient) = 0
      /\ Len(pendingHandled) = 0
  BY <1>1
<1>3. \A names : ~Holds(moduleQ, names) /\ ~Holds(c2s, names)
  BY <1>1 DEF Holds
<1>4. CallInv /\ ~Reading
  BY <1>1, <1>2, <1>3 DEF CallInv, Plain, EnabledRuns, AskedOnce, OneAnswer, OneEnable, Asking,
     AskedInTime, Asked, ResumeAlone, Reading
<1>5. Counted(0) /\ Expected(0)
  BY <1>1, <1>2, <1>4 DEF Counted, Covered, Tracked, Expected
<1>6. Counts
  BY <1>1, <1>2, <1>5 DEF Counts
<1>7. Stored /\ Objects
  BY <1>1, <1>2 DEF Stored, EmptyStore, Objects
<1> QED  BY <1>4, <1>6, <1>7 DEF SafeInv

LEMMA SafeImplied == ASSUME Inv, SafeInv PROVE HandledSafe
<1>1. PICK base \in Nat : lastHandledByClient <= base /\ Covered(session, base, appHandled)
  BY DEF SafeInv, Counts, Counted
<1>2. \A k \in 1..lastHandledByClient : <<session, k>> \in appHandled
  <2>1. lastHandledByClient \in Nat
    BY DEF Inv, TypeOK, InTypeOK
  <2> QED  BY <1>1, <2>1 DEF Covered
<1>3. store.id # 0 => \A k \in 1..store.hc : <<store.id, k>> \in appHandled
  BY DEF SafeInv, Stored, Covered
<1> QED  BY <1>2, <1>3 DEF HandledSafe

\* When no delegate filters what is received, the h of every <a/> and every <resume/>, in
\* memory and in the storage, counts only stanzas of its session that the application has
\* handled: whatever connections were lost, sessions resumed, processes restarted and answers
\* of the delegates late, and also when h has wrapped.
THEOREM HandledCorrect == ASSUME NoFilter PROVE Spec => []HandledSafe
<1>1. Init => Inv /\ QueueInv /\ ArmedInv /\ SafeInv
  BY InvInitially, ArmedInvInitially, SafeInvInitially
<1>2. (Inv /\ QueueInv /\ ArmedInv /\ SafeInv) /\ [Next]_vars
         => (Inv /\ QueueInv /\ ArmedInv /\ SafeInv)'
  BY InvPreserved, ArmedInvPreserved, SafeInvPreserved
<1>3. Inv /\ SafeInv => HandledSafe
  BY SafeImplied
<1> QED  BY <1>1, <1>2, <1>3, PTL DEF Spec

-----------------------------------------------------------------------------
(* One session.                                                               *)
(*                                                                            *)
(* What the outgoing half counts is the session in use, or the one to be      *)
(* resumed.  ControlInv says which session is asked for, answered, in use, or *)
(* could be resumed, never two of these, and what of it the storage holds.    *)

\* The application resumes what it can, as with autoResume.
AlwaysResumes == MayDecline = FALSE

\* t is q without its first d elements, and with elements of `more' after it.
Shifted(q, t, d, more) ==
    /\ Len(q) \in Nat /\ Len(t) \in Nat /\ d \in {0, 1}
    /\ \A i \in 1..Len(q) : i > d => i - d \in 1..Len(t) /\ t[i - d] = q[i]
    /\ \A i \in 1..Len(t) : \/ i + d \in 1..Len(q) /\ t[i] = q[i + d]
                            \/ i + d > Len(q) /\ t[i] \in more

LEMMA ShiftedLonger ==
    ASSUME NEW q, NEW t, NEW more, Longer(q, t, more)
    PROVE  Shifted(q, t, 0, more)
BY DEF Longer, Shifted

LEMMA ShiftedShorter ==
    ASSUME NEW q, NEW t, Shorter(q, t)
    PROVE  Shifted(q, t, 1, {})
BY DEF Shorter, Shifted

LEMMA ShiftedMore ==
    ASSUME NEW q, NEW t, NEW d, NEW a, NEW b, Shifted(q, t, d, a), a \subseteq b
    PROVE  Shifted(q, t, d, b)
BY DEF Shifted

LEMMA ShiftedHolds ==
    ASSUME NEW q \in Seq(ElementSet), NEW t \in Seq(ElementSet), NEW d, NEW more,
           Shifted(q, t, d, more), NEW names, \A e \in more : e.name \notin names
    PROVE  /\ Holds(t, names) => Holds(q, names)
           /\ (d = 1 => q[1].name \notin names) => (Holds(t, names) <=> Holds(q, names))
<1>1. /\ Holds(q, names) <=> \E i \in 1..Len(q) : q[i].name \in names
      /\ Holds(t, names) <=> \E i \in 1..Len(t) : t[i].name \in names
  BY HoldsAt
<1>2. Holds(t, names) => Holds(q, names)
  <2> SUFFICES ASSUME NEW i \in 1..Len(t), t[i].name \in names
               PROVE  \E j \in 1..Len(q) : q[j].name \in names
    BY <1>1
  <2>1. i + d \in 1..Len(q) /\ t[i] = q[i + d]
    BY DEF Shifted
  <2> QED  BY <2>1
<1>3. (d = 1 => q[1].name \notin names) => (Holds(q, names) => Holds(t, names))
  <2> SUFFICES ASSUME d = 1 => q[1].name \notin names,
                      NEW i \in 1..Len(q), q[i].name \in names
               PROVE  \E j \in 1..Len(t) : t[j].name \in names
    BY <1>1
  <2>1. d \in {0, 1} /\ i \in Nat /\ i >= 1
    BY DEF Shifted
  <2>2. i > d
    BY <2>1
  <2>3. i - d \in 1..Len(t) /\ t[i - d] = q[i]
    BY <2>2 DEF Shifted
  <2> QED  BY <2>3
<1> QED  BY <1>2, <1>3

\* At most one element of q has one of the names.
OneOf(q, names) ==
    \A i, j \in 1..Len(q) : q[i].name \in names /\ q[j].name \in names => i = j

LEMMA ShiftedOne ==
    ASSUME NEW q, NEW t, NEW d, NEW more, Shifted(q, t, d, more), NEW names,
           \A e \in more : e.name \notin names, OneOf(q, names)
    PROVE  OneOf(t, names)
<1> SUFFICES ASSUME NEW i \in 1..Len(t), NEW j \in 1..Len(t),
                    t[i].name \in names, t[j].name \in names
             PROVE  i = j
  BY DEF OneOf
<1>1. /\ i + d \in 1..Len(q) /\ t[i] = q[i + d]
      /\ j + d \in 1..Len(q) /\ t[j] = q[j + d]
  BY DEF Shifted
<1>2. i + d = j + d
  BY <1>1 DEF OneOf
<1> QED  BY <1>2 DEF Shifted

-----------------------------------------------------------------------------
Control == {"didSendEnable", "enabled", "failed", "resumed", "sendResume", "resumeFailed",
            "didDisconnect"}

Dead(s)  == s = 0 \/ ~sessions[s].alive
Posting  == Holds(moduleQ, {"didSendEnable"})
Told     == enableSent \/ Posting
Resumed  == Holds(moduleQ, {"resumed"})
Joined   == isStarted \/ Holds(moduleQ, {"enabled", "resumed"})
Awaiting == conn = "resuming" /\ moduleQ = <<>>

\* The module asks for one session at a time, and while it has none.
AskingOnce ==
    /\ OneOf(moduleQ, {"didSendEnable"}) /\ OneOf(c2s, {"enable"}) /\ OneOf(moduleQ, Answers)
    /\ Posting => enableQueued /\ ~enableSent
    /\ Told => ~isStarted /\ ~Resumed
    /\ Asking => /\ attached = 0 /\ ~isStarted /\ ~Holds(moduleQ, Answers)
                 /\ conn = "bound" => Told

\* Before callback p stands one of the names.
After(p, names) == \E i \in 1..Len(moduleQ) : i < p /\ moduleQ[i].name \in names

\* An answer comes after the question, and acks after the answer.
Answering ==
    /\ \A p \in 1..Len(moduleQ) :
          moduleQ[p].name \in {"enabled", "failed"} =>
             /\ ~isStarted /\ (enableSent \/ After(p, {"didSendEnable"}))
             /\ moduleQ[p].name = "enabled" =>
                   attached # 0 /\ moduleQ[p].sid = attached /\ moduleQ[p].arg \in {0, attached}
    /\ \A p \in 1..Len(moduleQ) :
          moduleQ[p].name = "a" => isStarted \/ After(p, {"enabled", "resumed"})
    /\ conn = "bound" /\ attached # 0 => Joined

\* What is resumed is the session in the storage.
Resuming ==
    /\ \A i \in 1..Len(moduleQ) :
          moduleQ[i].name = "sendResume" =>
             /\ i = 1 /\ store.id # 0 /\ moduleQ[i].sid = store.id
             /\ ~isStarted /\ ~enableSent /\ conn \in {"resuming", "closed"}
             /\ \A j \in 1..Len(moduleQ) : moduleQ[j].name \in {"sendResume", "didDisconnect"}
    /\ Awaiting =>
          /\ store.id # 0 /\ session = store.id /\ store.hs = lastHandledByServer
          /\ \A i \in 1..Len(c2s) : c2s[i].sid = session
    /\ Resumed =>
          store.id # 0 /\ session = store.id /\ attached = session /\ store.hs = lastHandledByServer
    /\ prevUnacked # <<>> =>
          \/ Awaiting
          \/ moduleQ # <<>> /\ moduleQ[1].name \in {"resumed", "resumeFailed", "didDisconnect"}
    /\ prevUnacked # <<>> \/ Awaiting \/ Resumed => ~isStarted /\ unprocessedAcks = <<>>

\* What may be written to the storage.
Nothing == unackedByClient = <<>> /\ idQueries = {} /\ draining = "idle"

Storing ==
    /\ isStarted => /\ attached # 0 /\ attached = session /\ store.id \in {0, session}
                    /\ store.hs = lastHandledByServer
    /\ (conn = "bound" /\ ~isStarted /\ ~Resumed) \/ Told => Dead(store.id)
    /\ ~Dead(store.id) => store.date
    /\ ~Dead(store.id) /\ ~isStarted => disconnectDate \/ Nothing
    /\ ~isStarted /\ (enableSent \/ enableQueued) => unprocessedAcks = <<>>

ControlInv == AskingOnce /\ Answering /\ Resuming /\ Storing

-----------------------------------------------------------------------------
(* Steps that neither begin nor end a session.                                *)

\* What such a step may post and write.
Posts  == {e \in ElementSet : e.name \notin Control /\ conn = "bound" /\ (e.name = "a" => attached # 0)}
Writes == {e \in ElementSet : e.name \notin {"enable", "resume"} /\ conn = "bound"}

\* Sessions stay; one that has ended does not come back.
Lasting == \A s \in 1..Len(sessions) :
              s \in 1..Len(sessions') /\ (sessions'[s].alive => sessions[s].alive)

Ordinary ==
    /\ UNCHANGED <<conn, attached, session, isStarted, enableQueued, enableSent, disconnectDate,
                   prevUnacked>>
    /\ Lasting
    /\ store'.id = store.id
    /\ store'.date \in {store.date, disconnectDate \/ isStarted}
    /\ isStarted => \/ store'.hs = lastHandledByServer'
                    \/ store'.hs = store.hs /\ lastHandledByServer' = lastHandledByServer
    /\ ~isStarted =>
          /\ store'.hs \in {store.hs, lastHandledByServer'}
          /\ unprocessedAcks = <<>> =>
                unprocessedAcks' = <<>> /\ lastHandledByServer' = lastHandledByServer
          /\ Nothing /\ ~Told => Nothing' /\ store'.date = store.date

LEMMA DeadStays == ASSUME Inv, Lasting, NEW s \in 0..Len(sessions), Dead(s) PROVE Dead(s)'
BY DEF Dead, Lasting

\* A callback keeps its place among those that were there.
LEMMA ShiftedAfter ==
    ASSUME NEW d, NEW more, Shifted(moduleQ, moduleQ', d, more), NEW names,
           d = 1 => moduleQ[1].name \notin names,
           NEW p \in 1..Len(moduleQ'), After(p + d, names)
    PROVE  After(p, names)'
<1>1. PICK i \in 1..Len(moduleQ) : i < p + d /\ moduleQ[i].name \in names
  BY DEF After
<1>2. d \in {0, 1} /\ i > d
  BY <1>1 DEF Shifted
<1>3. i - d \in 1..Len(moduleQ') /\ moduleQ'[i - d] = moduleQ[i]
  BY <1>2 DEF Shifted
<1>4. i - d < p
  BY <1>1, <1>2
<1> QED  BY <1>1, <1>3, <1>4 DEF After

LEMMA OrdinaryHolds ==
    ASSUME Inv, Inv', NEW d, Shifted(moduleQ, moduleQ', d, Posts),
           d = 1 => moduleQ[1].name \notin Control, NEW names, names \subseteq Control
    PROVE  Holds(moduleQ, names)' <=> Holds(moduleQ, names)
<1>1. moduleQ \in Seq(ElementSet) /\ moduleQ' \in Seq(ElementSet)
  BY DEF Inv, TypeOK, StreamTypeOK
<1>2. \A e \in Posts : e.name \notin names
  BY DEF Posts
<1>3. d = 1 => moduleQ[1].name \notin names
  OBVIOUS
<1> HIDE DEF Posts
<1>4. Holds(moduleQ', names) <=> Holds(moduleQ, names)
  BY <1>1, <1>2, <1>3, ShiftedHolds
<1> QED  BY <1>4 DEF Holds

LEMMA OrdinaryControl ==
    ASSUME Inv, Inv', QueueInv, ArmedInv, ControlInv, Ordinary,
           NEW d, Shifted(moduleQ, moduleQ', d, Posts), d = 1 => moduleQ[1].name \notin Control,
           NEW k, Shifted(c2s, c2s', k, Writes), k = 1 => c2s[1].name # "enable"
    PROVE  ControlInv'
<1>1. /\ UNCHANGED <<conn, attached, session, isStarted, enableQueued, enableSent,
                     disconnectDate, prevUnacked>>
      /\ store'.id = store.id
  BY DEF Ordinary
<1>2. /\ Answers \subseteq Control /\ {"didSendEnable"} \subseteq Control
      /\ {"resumed"} \subseteq Control /\ {"enabled", "resumed"} \subseteq Control
  BY DEF Answers, Control
<1>3. /\ Holds(moduleQ, Answers)' <=> Holds(moduleQ, Answers)
      /\ Posting' <=> Posting
      /\ Resumed' <=> Resumed
      /\ Joined' <=> Joined
      /\ Told' <=> Told
  <2>1. /\ Holds(moduleQ, Answers)' <=> Holds(moduleQ, Answers)
        /\ Holds(moduleQ, {"didSendEnable"})' <=> Holds(moduleQ, {"didSendEnable"})
        /\ Holds(moduleQ, {"resumed"})' <=> Holds(moduleQ, {"resumed"})
        /\ Holds(moduleQ, {"enabled", "resumed"})' <=> Holds(moduleQ, {"enabled", "resumed"})
    BY <1>2, OrdinaryHolds
  <2> QED  BY <1>1, <2>1 DEF Posting, Resumed, Joined, Told
<1>4. Asking' => Asking
  <2>1. c2s \in Seq(ElementSet) /\ c2s' \in Seq(ElementSet)
    BY DEF Inv, TypeOK, StreamTypeOK
  <2>2. \A e \in Writes : e.name \notin {"enable"}
    BY DEF Writes
  <2> HIDE DEF Writes
  <2> QED  BY <2>1, <2>2, ShiftedHolds DEF Asking
<1>5. AskingOnce'
  <2>1. /\ \A e \in Posts : e.name \notin {"didSendEnable"} /\ e.name \notin Answers
        /\ \A e \in Writes : e.name \notin {"enable"}
    BY DEF Posts, Writes, Control, Answers
  <2>2. OneOf(moduleQ', {"didSendEnable"}) /\ OneOf(c2s', {"enable"}) /\ OneOf(moduleQ', Answers)
    <3> HIDE DEF Posts, Writes
    <3> QED  BY <2>1, ShiftedOne DEF ControlInv, AskingOnce
  <2>3. ~Holds(moduleQ, Answers) => ~Holds(moduleQ, Answers)'
    BY <1>3 DEF Holds
  <2> QED  BY <1>1, <1>3, <1>4, <2>2, <2>3 DEF ControlInv, AskingOnce, OneOf
<1>6. \A p \in 1..Len(moduleQ') : \/ p + d \in 1..Len(moduleQ) /\ moduleQ'[p] = moduleQ[p + d]
                                  \/ moduleQ'[p] \in Posts /\ p + d > Len(moduleQ)
  BY DEF Shifted
<1>7. \A p \in 1..Len(moduleQ'), names \in SUBSET Control : After(p + d, names) => After(p, names)'
  <2> SUFFICES ASSUME NEW p \in 1..Len(moduleQ'), NEW names \in SUBSET Control, After(p + d, names)
               PROVE  After(p, names)'
    OBVIOUS
  <2> HIDE DEF Posts
  <2>1. d = 1 => moduleQ[1].name \notin names
    OBVIOUS
  <2> QED  BY <2>1, ShiftedAfter
<1>8. Answering'
  <2>1. ASSUME NEW p \in 1..Len(moduleQ'), moduleQ'[p].name \in {"enabled", "failed"}
        PROVE  /\ ~isStarted' /\ (enableSent' \/ After(p, {"didSendEnable"})')
               /\ moduleQ'[p].name = "enabled" =>
                     attached' # 0 /\ moduleQ'[p].sid = attached' /\ moduleQ'[p].arg \in {0, attached'}
    <3>1. p + d \in 1..Len(moduleQ) /\ moduleQ'[p] = moduleQ[p + d]
      BY <1>6, <2>1 DEF Posts, Control
    <3>2. /\ ~isStarted /\ (enableSent \/ After(p + d, {"didSendEnable"}))
          /\ moduleQ[p + d].name = "enabled" =>
                attached # 0 /\ moduleQ[p + d].sid = attached /\ moduleQ[p + d].arg \in {0, attached}
      BY <2>1, <3>1 DEF ControlInv, Answering
    <3> QED  BY <1>1, <1>2, <1>7, <3>1, <3>2
  <2>2. ASSUME NEW p \in 1..Len(moduleQ'), moduleQ'[p].name = "a"
        PROVE  isStarted' \/ After(p, {"enabled", "resumed"})'
    <3>1. CASE p + d \in 1..Len(moduleQ) /\ moduleQ'[p] = moduleQ[p + d]
      <4>1. isStarted \/ After(p + d, {"enabled", "resumed"})
        BY <2>2, <3>1 DEF ControlInv, Answering
      <4> QED  BY <1>1, <1>2, <1>7, <4>1
    <3>2. CASE moduleQ'[p] \in Posts /\ p + d > Len(moduleQ)
      <4>1. Joined
        BY <2>2, <3>2 DEF Posts, ControlInv, Answering
      <4>2. CASE isStarted
        BY <1>1, <4>2
      <4>3. CASE Holds(moduleQ, {"enabled", "resumed"})
        <5>1. PICK i \in 1..Len(moduleQ) : moduleQ[i].name \in {"enabled", "resumed"}
          BY <4>3, HoldsAt, QueueTypes
        <5>2. i < p + d
          BY <3>2 DEF Shifted
        <5>3. After(p + d, {"enabled", "resumed"})
          BY <5>1, <5>2 DEF After
        <5> QED  BY <1>2, <1>7, <5>3
      <4> QED  BY <4>1, <4>2, <4>3 DEF Joined
    <3> QED  BY <1>6, <3>1, <3>2
  <2>3. conn' = "bound" /\ attached' # 0 => Joined'
    BY <1>1, <1>3 DEF ControlInv, Answering
  <2> QED  BY <2>1, <2>2, <2>3, Zenon DEF Answering
<1>9. Awaiting' => Awaiting
  <2> SUFFICES ASSUME Awaiting' PROVE Awaiting
    OBVIOUS
  <2>1. conn = "resuming" /\ Len(moduleQ') = 0
    BY <1>1 DEF Awaiting
  <2>2. moduleQ = <<>>
    <3> SUFFICES ASSUME moduleQ # <<>> PROVE FALSE
      OBVIOUS
    <3>1. Len(moduleQ) = 1 /\ moduleQ[1].name = "sendResume"
      BY <2>1 DEF QueueInv, ResumingIsQuiet
    <3>2. d = 1
      BY <2>1, <3>1 DEF Shifted
    <3> QED  BY <3>1, <3>2 DEF Control
  <2> QED  BY <2>1, <2>2 DEF Awaiting
\* The head is a callback of Control: it stays, and what is posted follows it.
<1>10. Len(moduleQ) # 0 /\ moduleQ[1].name \in Control =>
          d = 0 /\ Len(moduleQ') # 0 /\ moduleQ'[1] = moduleQ[1]
  BY DEF Shifted
<1>11. ~isStarted /\ unprocessedAcks = <<>> =>
          unprocessedAcks' = <<>> /\ lastHandledByServer' = lastHandledByServer
  BY DEF Ordinary
<1>12. Awaiting \/ Resumed => ~isStarted /\ unprocessedAcks = <<>> /\ store.hs = lastHandledByServer
  <2>1. Awaiting => ~isStarted
    BY QuietCalls DEF Awaiting
  <2>2. Resumed => ~isStarted
    BY DEF ControlInv, Resuming
  <2> QED  BY <2>1, <2>2 DEF ControlInv, Resuming
<1>13. Resuming'
  <2>1. ASSUME NEW i \in 1..Len(moduleQ'), moduleQ'[i].name = "sendResume"
        PROVE  /\ i = 1 /\ store'.id # 0 /\ moduleQ'[i].sid = store'.id
               /\ ~isStarted' /\ ~enableSent' /\ conn' \in {"resuming", "closed"}
               /\ \A j \in 1..Len(moduleQ') : moduleQ'[j].name \in {"sendResume", "didDisconnect"}
    <3>1. i + d \in 1..Len(moduleQ) /\ moduleQ'[i] = moduleQ[i + d]
      BY <1>6, <2>1 DEF Posts, Control
    <3>2. /\ i + d = 1 /\ store.id # 0 /\ moduleQ[i + d].sid = store.id
          /\ ~isStarted /\ ~enableSent /\ conn \in {"resuming", "closed"}
          /\ \A j \in 1..Len(moduleQ) : moduleQ[j].name \in {"sendResume", "didDisconnect"}
      BY <2>1, <3>1 DEF ControlInv, Resuming
    <3>3. i = 1
      BY <3>2 DEF Shifted
    <3>4. \A j \in 1..Len(moduleQ') : moduleQ'[j].name \in {"sendResume", "didDisconnect"}
      BY <1>6, <3>2 DEF Posts
    <3> QED  BY <1>1, <3>1, <3>2, <3>3, <3>4
  <2>2. ASSUME Awaiting'
        PROVE  /\ store'.id # 0 /\ session' = store'.id /\ store'.hs = lastHandledByServer'
               /\ \A i \in 1..Len(c2s') : c2s'[i].sid = session'
    <3>1. /\ store.id # 0 /\ session = store.id /\ store.hs = lastHandledByServer
          /\ \A i \in 1..Len(c2s) : c2s[i].sid = session
      BY <1>9, <2>2 DEF ControlInv, Resuming
    <3>2. \A i \in 1..Len(c2s') : c2s'[i].sid = session
      BY <1>1, <2>2, <3>1 DEF Shifted, Writes, Awaiting
    <3>3. store'.hs = lastHandledByServer'
      BY <1>9, <1>11, <1>12, <2>2 DEF Ordinary
    <3> QED  BY <1>1, <3>1, <3>2, <3>3
  <2>3. ASSUME Resumed'
        PROVE  store'.id # 0 /\ session' = store'.id /\ attached' = session'
               /\ store'.hs = lastHandledByServer'
    <3>1. store.id # 0 /\ session = store.id /\ attached = session
      BY <1>3, <2>3 DEF ControlInv, Resuming
    <3>2. store'.hs = lastHandledByServer'
      BY <1>3, <1>11, <1>12, <2>3 DEF Ordinary
    <3> QED  BY <1>1, <3>1, <3>2
  <2>4. ASSUME prevUnacked' # <<>>
        PROVE  \/ Awaiting'
               \/ moduleQ' # <<>> /\ moduleQ'[1].name \in {"resumed", "resumeFailed", "didDisconnect"}
    <3>1. \/ Awaiting
          \/ moduleQ # <<>> /\ moduleQ[1].name \in {"resumed", "resumeFailed", "didDisconnect"}
      BY <1>1, <2>4 DEF ControlInv, Resuming
    <3>2. CASE Awaiting
      <4>1. Len(moduleQ) = 0 /\ conn = "resuming"
        BY <3>2 DEF Awaiting
      <4>2. Len(moduleQ') = 0
        <5> SUFFICES ASSUME Len(moduleQ') # 0 PROVE FALSE
          OBVIOUS
        <5>1. 1 \in 1..Len(moduleQ')
          BY DEF Shifted
        <5>2. moduleQ'[1] \in Posts
          BY <1>6, <4>1, <5>1 DEF Shifted
        <5> QED  BY <4>1, <5>2 DEF Posts
      <4>3. moduleQ' = <<>>
        BY <4>2, EmptySeq DEF Inv, TypeOK, StreamTypeOK
      <4> QED  BY <1>1, <4>1, <4>3 DEF Awaiting
    <3>3. CASE moduleQ # <<>> /\ moduleQ[1].name \in {"resumed", "resumeFailed", "didDisconnect"}
      <4>1. Len(moduleQ) # 0
        BY <3>3, EmptySeq, QueueTypes
      <4>2. Len(moduleQ') # 0 /\ moduleQ'[1] = moduleQ[1]
        BY <1>10, <3>3, <4>1 DEF Control
      <4>3. moduleQ' # <<>>
        BY <4>2
      <4> QED  BY <3>3, <4>2, <4>3
    <3> QED  BY <3>1, <3>2, <3>3
  <2>5. prevUnacked' # <<>> \/ Awaiting' \/ Resumed' => ~isStarted' /\ unprocessedAcks' = <<>>
    BY <1>1, <1>3, <1>9, <1>11, <1>12 DEF ControlInv, Resuming
  <2> QED  BY <2>1, <2>2, <2>3, <2>4, <2>5 DEF Resuming
<1>14. Storing'
  <2>1. Dead(store.id) => Dead(store.id)'
    <3>1. store.id \in 0..Len(sessions)
      BY DEF Inv, SessionsKnown
    <3>2. Dead(store.id) => (store.id = 0 \/ ~sessions'[store.id].alive)
      BY <3>1 DEF Ordinary, Lasting, Dead
    <3> QED  BY <1>1, <3>2 DEF Dead
  <2>2. isStarted' => /\ attached' # 0 /\ attached' = session' /\ store'.id \in {0, session'}
                      /\ store'.hs = lastHandledByServer'
    BY <1>1 DEF ControlInv, Storing, Ordinary
  <2>3. (conn' = "bound" /\ ~isStarted' /\ ~Resumed') \/ Told' => Dead(store.id)'
    BY <1>1, <1>3, <2>1 DEF ControlInv, Storing
  <2>4. ~Dead(store.id)' /\ ~isStarted' =>
           store'.date /\ (disconnectDate' \/ Nothing')
    <3> SUFFICES ASSUME ~Dead(store.id), ~isStarted
                 PROVE  store'.date /\ (disconnectDate' \/ Nothing')
      BY <1>1, <2>1
    <3>1. store.date /\ (disconnectDate \/ Nothing) /\ ~Told
      BY DEF ControlInv, Storing
    <3>2. CASE disconnectDate
      <4>1. store'.date \in {store.date, disconnectDate \/ isStarted}
        BY DEF Ordinary
      <4>2. disconnectDate \/ isStarted <=> TRUE
        BY <3>2
      <4> QED  BY <1>1, <3>1, <3>2, <4>1
    <3>3. CASE Nothing
      <4>1. Nothing' /\ store'.date = store.date
        BY <3>1, <3>3 DEF Ordinary
      <4> QED  BY <3>1, <4>1
    <3> QED  BY <3>1, <3>2, <3>3
  <2>5. ~Dead(store.id)' /\ isStarted' => store'.date
    <3> SUFFICES ASSUME ~Dead(store.id), isStarted PROVE store'.date
      BY <1>1, <2>1
    <3>1. store.date
      BY DEF ControlInv, Storing
    <3> QED  BY <3>1 DEF Ordinary
  <2>6. ~isStarted' /\ (enableSent' \/ enableQueued') => unprocessedAcks' = <<>>
    BY <1>1, <1>11 DEF ControlInv, Storing
  <2> QED  BY <2>2, <2>3, <2>4, <2>5, <2>6 DEF Storing
<1> QED  BY <1>5, <1>8, <1>13, <1>14 DEF ControlInv

-----------------------------------------------------------------------------
(* The callbacks that begin or end a session.                                 *)

LEMMA HoldsNothing == \A names : ~Holds(<<>>, names)
<1>1. DOMAIN <<>> = {}
  OBVIOUS
<1> QED  BY <1>1 DEF Holds

LEMMA ControlTaken ==
    ASSUME Inv, Inv', QueueInv, ControlInv, moduleQ # <<>>, moduleQ' = Tail(moduleQ),
           UNCHANGED conn
    PROVE  /\ Shifted(moduleQ, moduleQ', 1, {})
           /\ Head(moduleQ) = moduleQ[1] /\ 1 \in 1..Len(moduleQ)
           /\ \A p \in 1..Len(moduleQ') : p + 1 \in 1..Len(moduleQ) /\ moduleQ'[p] = moduleQ[p + 1]
           /\ OneOf(moduleQ', {"didSendEnable"}) /\ OneOf(moduleQ', Answers)
           /\ \A names : moduleQ[1].name \notin names =>
                            (Holds(moduleQ', names) <=> Holds(moduleQ, names))
           /\ moduleQ[1].name = "didSendEnable" => ~Holds(moduleQ', {"didSendEnable"})
           /\ moduleQ[1].name \in Answers => ~Holds(moduleQ', Answers)
           /\ moduleQ[1].name # "sendResume" => ~Awaiting'
           /\ \A p \in 1..Len(moduleQ') : moduleQ'[p].name # "sendResume"
<1>1. /\ Shifted(moduleQ, moduleQ', 1, {}) /\ Head(moduleQ) = moduleQ[1] /\ 1 \in 1..Len(moduleQ)
  <2>1. Shorter(moduleQ, moduleQ') /\ Head(moduleQ) = moduleQ[1] /\ Len(moduleQ) > 0
    BY ShorterTail, QueueTypes
  <2>2. Shifted(moduleQ, moduleQ', 1, {})
    BY <2>1, ShiftedShorter
  <2> QED  BY <2>1, <2>2 DEF Shorter
<1>2. \A p \in 1..Len(moduleQ') : p + 1 \in 1..Len(moduleQ) /\ moduleQ'[p] = moduleQ[p + 1]
  BY <1>1 DEF Shifted
<1>3. OneOf(moduleQ', {"didSendEnable"}) /\ OneOf(moduleQ', Answers)
  <2>1. OneOf(moduleQ, {"didSendEnable"}) /\ OneOf(moduleQ, Answers)
    BY DEF ControlInv, AskingOnce
  <2> QED  BY <1>1, <2>1, ShiftedOne
<1>4. moduleQ \in Seq(ElementSet) /\ moduleQ' \in Seq(ElementSet)
  BY DEF Inv, TypeOK, StreamTypeOK
<1>5. \A names : moduleQ[1].name \notin names => (Holds(moduleQ', names) <=> Holds(moduleQ, names))
  <2> SUFFICES ASSUME NEW names, moduleQ[1].name \notin names
               PROVE  Holds(moduleQ', names) <=> Holds(moduleQ, names)
    OBVIOUS
  <2>1. PICK d, more : d = 1 /\ more = {}
    OBVIOUS
  <2>2. PICK q, w \in Seq(ElementSet) : q = moduleQ /\ w = moduleQ'
    BY <1>4
  <2>3. /\ Shifted(q, w, d, more) /\ \A e \in more : e.name \notin names
        /\ q[1].name \notin names
    BY <1>1, <2>1, <2>2
  <2>4. Holds(w, names) <=> Holds(q, names)
    BY <2>3, ShiftedHolds
  <2> QED  BY <2>2, <2>4
<1>6. \A names : OneOf(moduleQ, names) /\ moduleQ[1].name \in names => ~Holds(moduleQ', names)
  <2> SUFFICES ASSUME NEW names, OneOf(moduleQ, names), moduleQ[1].name \in names,
                      Holds(moduleQ', names)
               PROVE  FALSE
    OBVIOUS
  <2>1. PICK i \in 1..Len(moduleQ') : moduleQ'[i].name \in names
    BY <1>4, HoldsAt
  <2>2. i + 1 \in 1..Len(moduleQ) /\ moduleQ[i + 1].name \in names /\ i \in Nat /\ i >= 1
    BY <1>2, <2>1
  <2>3. i + 1 = 1
    BY <1>1, <2>2 DEF OneOf
  <2> QED  BY <2>2, <2>3
<1>7. /\ moduleQ[1].name = "didSendEnable" => ~Holds(moduleQ', {"didSendEnable"})
      /\ moduleQ[1].name \in Answers => ~Holds(moduleQ', Answers)
  BY <1>6 DEF ControlInv, AskingOnce
<1>8. moduleQ[1].name # "sendResume" => ~Awaiting'
  BY DEF Awaiting, QueueInv, ResumingIsQuiet
<1>9. \A p \in 1..Len(moduleQ') : moduleQ'[p].name # "sendResume"
  <2> SUFFICES ASSUME NEW p \in 1..Len(moduleQ'), moduleQ'[p].name = "sendResume" PROVE FALSE
    OBVIOUS
  <2>1. p + 1 = 1 /\ p \in Nat /\ p >= 1
    BY <1>2 DEF ControlInv, Resuming
  <2> QED  BY <2>1
<1> QED  BY <1>1, <1>2, <1>3, <1>5, <1>7, <1>8, <1>9

\* An answer keeps the question before it, and an ack its answer, unless that is what runs.
LEMMA ControlAfter ==
    ASSUME Shifted(moduleQ, moduleQ', 1, {}), NEW names, moduleQ[1].name \notin names,
           NEW p \in 1..Len(moduleQ'), After(p + 1, names)
    PROVE  After(p, names)'
BY ShiftedAfter

LEMMA FirstIsFirst == ASSUME NEW names PROVE ~After(1, names)
BY DEF After

LEMMA DidSendEnableControl ==
    ASSUME Inv, Inv', QueueInv, ArmedInv, ControlInv, HandleDidSendEnable
    PROVE  ControlInv'
<1>1. /\ moduleQ # <<>> /\ moduleQ' = Tail(moduleQ) /\ Head(moduleQ).name = "didSendEnable"
      /\ UNCHANGED <<conn, attached, c2s, sessions, isStarted, disconnectDate, prevUnacked, store, session,
                     lastHandledByServer, unprocessedAcks, unackedByClient, idQueries, draining>>
      /\ enableQueued' = FALSE /\ enableSent' = (enableSent \/ enableQueued)
  BY DEF HandleDidSendEnable, Next_is, streamVars, serverVars, outVars, inVars, histVars
<1>2. /\ moduleQ[1].name = "didSendEnable" /\ 1 \in 1..Len(moduleQ)
  BY <1>1, ControlTaken
<1>3. Posting /\ ~Posting'
  <2>1. Holds(moduleQ, {"didSendEnable"})
    BY <1>2, HoldsAt, QueueTypes
  <2> QED  BY <1>1, <1>2, <2>1, ControlTaken DEF Posting, Holds
<1>4. enableQueued /\ ~enableSent /\ ~isStarted /\ ~Resumed /\ enableSent' = TRUE
  BY <1>1, <1>3 DEF ControlInv, AskingOnce, Told
<1>5. (Resumed' <=> Resumed) /\ (Joined' <=> Joined) /\ (Asking' <=> Asking)
      /\ (Holds(moduleQ, Answers)' <=> Holds(moduleQ, Answers)) /\ Told /\ Told'
  <2>1. \A names : "didSendEnable" \notin names => (Holds(moduleQ', names) <=> Holds(moduleQ, names))
    BY <1>1, <1>2, ControlTaken
  <2>2. /\ Holds(moduleQ', {"resumed"}) <=> Holds(moduleQ, {"resumed"})
        /\ Holds(moduleQ', {"enabled", "resumed"}) <=> Holds(moduleQ, {"enabled", "resumed"})
        /\ Holds(moduleQ', Answers) <=> Holds(moduleQ, Answers)
    BY <2>1 DEF Answers
  <2> QED  BY <1>1, <1>3, <1>4, <2>2 DEF Resumed, Joined, Asking, Holds, Told
<1>6. AskingOnce'
  <2>1. OneOf(moduleQ', {"didSendEnable"}) /\ OneOf(moduleQ', Answers)
    BY <1>1, ControlTaken
  <2> QED  BY <1>1, <1>3, <1>4, <1>5, <2>1 DEF ControlInv, AskingOnce, OneOf
<1>7. \A p \in 1..Len(moduleQ') : p + 1 \in 1..Len(moduleQ) /\ moduleQ'[p] = moduleQ[p + 1]
  BY <1>1, ControlTaken
<1>8. Answering'
  <2>1. \A p \in 1..Len(moduleQ') :
          After(p + 1, {"enabled", "resumed"}) => After(p, {"enabled", "resumed"})'
    BY <1>1, <1>2, ControlTaken, ControlAfter
  <2> QED  BY <1>1, <1>4, <1>5, <1>7, <2>1 DEF ControlInv, Answering
<1>9. prevUnacked = <<>> /\ ~Awaiting' /\ ~Awaiting
  BY <1>1, <1>2, ControlTaken DEF ControlInv, Resuming, Awaiting
<1>10. Resuming'
  BY <1>1, <1>4, <1>5, <1>9, ControlTaken DEF Resuming
<1>11. Storing'
  <2>1. Dead(store.id)' <=> Dead(store.id)
    BY <1>1 DEF Dead
  <2>2. Nothing' <=> Nothing
    BY <1>1 DEF Nothing
  <2> QED  BY <1>1, <1>4, <1>5, <2>1, <2>2 DEF ControlInv, Storing
<1> QED  BY <1>6, <1>8, <1>10, <1>11 DEF ControlInv

LEMMA EnabledControl ==
    ASSUME Inv, Inv', QueueInv, ArmedInv, ControlInv, HandleEnabled
    PROVE  ControlInv'
<1>1. /\ moduleQ # <<>> /\ moduleQ' = Tail(moduleQ) /\ Head(moduleQ).name = "enabled"
      /\ UNCHANGED <<conn, attached, c2s, sessions, enableQueued, disconnectDate, prevUnacked>>
  BY DEF HandleEnabled, Next_is, streamVars, serverVars
<1>2. moduleQ[1].name = "enabled" /\ Head(moduleQ) = moduleQ[1] /\ 1 \in 1..Len(moduleQ)
  BY <1>1, ControlTaken
<1>3. /\ ~isStarted /\ enableSent /\ ~Posting /\ ~Resumed /\ attached # 0
      /\ moduleQ[1].sid = attached /\ moduleQ[1].arg \in {0, attached}
  BY <1>2, FirstIsFirst DEF ControlInv, Answering, AskingOnce, Told
<1>4. /\ store' = [EmptyStore EXCEPT !.id = moduleQ[1].arg, !.date = TRUE]
      /\ isStarted' = TRUE /\ enableSent' = FALSE /\ session' = moduleQ[1].sid
      /\ lastHandledByServer' = 0 /\ unprocessedAcks' = <<>>
  BY <1>2, <1>3 DEF HandleEnabled
<1>5. store'.id \in {0, session'} /\ store'.hs = lastHandledByServer' /\ store'.date = TRUE
  BY <1>3, <1>4 DEF EmptyStore
<1>6. ~Asking /\ ~Holds(moduleQ', Answers)
  <2>1. Holds(moduleQ, Answers)
    BY <1>2, HoldsAt, QueueTypes DEF Answers
  <2> QED  BY <1>1, <1>2, <2>1, ControlTaken DEF ControlInv, AskingOnce, Answers
<1>7. ~Posting' /\ ~Resumed' /\ ~Asking' /\ ~Told'
  <2>1. /\ Holds(moduleQ', {"didSendEnable"}) <=> Holds(moduleQ, {"didSendEnable"})
        /\ Holds(moduleQ', {"resumed"}) <=> Holds(moduleQ, {"resumed"})
    BY <1>1, <1>2, ControlTaken
  <2> QED  BY <1>1, <1>3, <1>4, <1>6, <2>1 DEF Posting, Resumed, Asking, Told, Holds
<1>8. AskingOnce'
  BY <1>1, <1>7, ControlTaken DEF ControlInv, AskingOnce, OneOf
<1>9. Answering'
  <2>1. \A p \in 1..Len(moduleQ') : moduleQ'[p].name \notin Answers
    BY <1>6, HoldsAt DEF Inv, TypeOK, StreamTypeOK
  <2> QED  BY <1>4, <2>1 DEF Answering, Answers, Joined
<1>10. prevUnacked = <<>> /\ ~Awaiting'
  BY <1>1, <1>2, ControlTaken DEF ControlInv, Resuming, Awaiting
<1>11. Resuming'
  BY <1>1, <1>7, <1>10, ControlTaken DEF Resuming
<1>12. Storing'
  BY <1>1, <1>3, <1>4, <1>5, <1>7 DEF Storing
<1> QED  BY <1>8, <1>9, <1>11, <1>12 DEF ControlInv

LEMMA FailedControl ==
    ASSUME Inv, Inv', QueueInv, ArmedInv, ControlInv, HandleFailed
    PROVE  ControlInv'
<1>1. /\ moduleQ # <<>> /\ moduleQ' = Tail(moduleQ) /\ Head(moduleQ).name = "failed"
      /\ UNCHANGED <<conn, attached, c2s, sessions, enableQueued, disconnectDate, prevUnacked,
                     unprocessedAcks>>
  BY DEF HandleFailed, Next_is, streamVars, serverVars
<1>2. moduleQ[1].name = "failed" /\ Head(moduleQ) = moduleQ[1] /\ 1 \in 1..Len(moduleQ)
  BY <1>1, ControlTaken
<1>3. ~isStarted /\ enableSent /\ ~Posting /\ ~Resumed /\ unprocessedAcks = <<>>
  BY <1>2, FirstIsFirst DEF ControlInv, Answering, AskingOnce, Told, Storing
<1>4. store' = EmptyStore /\ isStarted' = FALSE /\ enableSent' = FALSE
  BY <1>3 DEF HandleFailed
<1>5. store'.id = 0
  BY <1>4 DEF EmptyStore
<1>6. ~Asking /\ ~Holds(moduleQ', Answers)
  <2>1. Holds(moduleQ, Answers)
    BY <1>2, HoldsAt, QueueTypes DEF Answers
  <2> QED  BY <1>1, <1>2, <2>1, ControlTaken DEF ControlInv, AskingOnce, Answers
<1>7. \A names : "failed" \notin names => (Holds(moduleQ', names) <=> Holds(moduleQ, names))
  BY <1>1, <1>2, ControlTaken
<1>8. ~Posting' /\ ~Resumed' /\ ~Asking' /\ ~Told' /\ (Joined' <=> Joined)
  <2>1. /\ Holds(moduleQ', {"didSendEnable"}) <=> Holds(moduleQ, {"didSendEnable"})
        /\ Holds(moduleQ', {"resumed"}) <=> Holds(moduleQ, {"resumed"})
        /\ Holds(moduleQ', {"enabled", "resumed"}) <=> Holds(moduleQ, {"enabled", "resumed"})
    BY <1>7
  <2> QED  BY <1>1, <1>3, <1>4, <1>6, <2>1 DEF Posting, Resumed, Asking, Told, Holds, Joined
<1>9. AskingOnce'
  BY <1>1, <1>8, ControlTaken DEF ControlInv, AskingOnce, OneOf
<1>10. Answering'
  <2>1. \A p \in 1..Len(moduleQ') : moduleQ'[p].name \notin Answers
    BY <1>6, HoldsAt DEF Inv, TypeOK, StreamTypeOK
  <2>2. \A p \in 1..Len(moduleQ') :
          After(p + 1, {"enabled", "resumed"}) => After(p, {"enabled", "resumed"})'
    BY <1>1, <1>2, ControlTaken, ControlAfter
  <2>3. \A p \in 1..Len(moduleQ') : p + 1 \in 1..Len(moduleQ) /\ moduleQ'[p] = moduleQ[p + 1]
    BY <1>1, ControlTaken
  <2> QED  BY <1>1, <1>3, <1>4, <1>8, <2>1, <2>2, <2>3 DEF ControlInv, Answering, Answers
<1>11. prevUnacked = <<>> /\ ~Awaiting'
  BY <1>1, <1>2, ControlTaken DEF ControlInv, Resuming, Awaiting
<1>12. Resuming'
  BY <1>1, <1>8, <1>11, ControlTaken DEF Resuming
<1>13. Storing'
  BY <1>1, <1>3, <1>4, <1>5, <1>8 DEF Storing, Dead
<1> QED  BY <1>9, <1>10, <1>12, <1>13 DEF ControlInv

LEMMA ResumedControl ==
    ASSUME Inv, Inv', QueueInv, ArmedInv, ControlInv, HandleResumed
    PROVE  ControlInv'
<1>1. /\ moduleQ # <<>> /\ moduleQ' = Tail(moduleQ) /\ Head(moduleQ).name = "resumed"
      /\ UNCHANGED <<conn, attached, c2s, sessions, enableQueued, enableSent, disconnectDate,
                     session, unprocessedAcks>>
      /\ isStarted' = TRUE /\ prevUnacked' = <<>>
      /\ lastHandledByServer' = Head(moduleQ).arg
      /\ store' = [store EXCEPT !.date = TRUE, !.hs = Head(moduleQ).arg, !.pending = <<>>]
  BY DEF HandleResumed, Next_is, streamVars, serverVars
<1>2. moduleQ[1].name = "resumed" /\ Head(moduleQ) = moduleQ[1] /\ 1 \in 1..Len(moduleQ)
  BY <1>1, ControlTaken
<1>3. Resumed /\ Holds(moduleQ, Answers)
  BY <1>2, HoldsAt, QueueTypes DEF Answers, Resumed
<1>4. ~isStarted /\ ~Told /\ ~Asking /\ store.id # 0 /\ session = store.id /\ attached = session
  BY <1>3 DEF ControlInv, AskingOnce, Resuming
<1>5. store'.id = session' /\ store'.hs = lastHandledByServer' /\ store'.date = TRUE
  <2>1. store \in Storage
    BY DEF Inv, TypeOK
  <2> QED  BY <1>1, <1>4, <2>1 DEF Storage
<1>6. ~Holds(moduleQ', Answers)
  BY <1>1, <1>2, ControlTaken DEF Answers
<1>7. ~Posting' /\ ~Resumed' /\ ~Asking' /\ ~Told'
  <2>1. Holds(moduleQ', {"didSendEnable"}) <=> Holds(moduleQ, {"didSendEnable"})
    BY <1>1, <1>2, ControlTaken
  <2>2. ~Holds(moduleQ', {"resumed"})
    BY <1>6 DEF Answers, Holds
  <2> QED  BY <1>1, <1>4, <2>1, <2>2 DEF Posting, Resumed, Asking, Told, Holds
<1>8. AskingOnce'
  BY <1>1, <1>7, ControlTaken DEF ControlInv, AskingOnce, OneOf
<1>9. Answering'
  <2>1. \A p \in 1..Len(moduleQ') : moduleQ'[p].name \notin Answers
    BY <1>6, HoldsAt DEF Inv, TypeOK, StreamTypeOK
  <2> QED  BY <1>1, <2>1 DEF Answering, Answers, Joined
<1>10. ~Awaiting'
  BY <1>1, <1>2, ControlTaken
<1>11. Resuming'
  BY <1>1, <1>7, <1>10, ControlTaken DEF Resuming
<1>12. Storing'
  BY <1>1, <1>4, <1>5, <1>7 DEF Storing
<1> QED  BY <1>8, <1>9, <1>11, <1>12 DEF ControlInv

LEMMA ResumeFailedControl ==
    ASSUME Inv, Inv', QueueInv, ArmedInv, ControlInv, HandleResumeFailed
    PROVE  ControlInv'
<1>1. /\ moduleQ # <<>> /\ moduleQ' = Tail(moduleQ) /\ Head(moduleQ).name = "resumeFailed"
      /\ UNCHANGED <<conn, attached, c2s, sessions, isStarted, enableQueued, enableSent,
                     disconnectDate, store, session, lastHandledByServer, unprocessedAcks,
                     unackedByClient, idQueries, draining>>
      /\ prevUnacked' = <<>>
  BY DEF HandleResumeFailed, Next_is, streamVars, serverVars, inVars, histVars
<1>2. moduleQ[1].name = "resumeFailed" /\ 1 \in 1..Len(moduleQ)
  BY <1>1, ControlTaken
<1>3. \A names : "resumeFailed" \notin names => (Holds(moduleQ', names) <=> Holds(moduleQ, names))
  BY <1>1, <1>2, ControlTaken
<1>4. /\ Posting' <=> Posting
      /\ Resumed' <=> Resumed
      /\ Joined' <=> Joined
      /\ Asking' <=> Asking
      /\ Told' <=> Told
      /\ Holds(moduleQ, Answers)' <=> Holds(moduleQ, Answers)
  <2>1. /\ Holds(moduleQ', {"didSendEnable"}) <=> Holds(moduleQ, {"didSendEnable"})
        /\ Holds(moduleQ', {"resumed"}) <=> Holds(moduleQ, {"resumed"})
        /\ Holds(moduleQ', {"enabled", "resumed"}) <=> Holds(moduleQ, {"enabled", "resumed"})
        /\ Holds(moduleQ', Answers) <=> Holds(moduleQ, Answers)
    BY <1>3 DEF Answers
  <2> QED  BY <1>1, <2>1 DEF Posting, Resumed, Joined, Asking, Told, Holds
<1>5. AskingOnce'
  BY <1>1, <1>4, ControlTaken DEF ControlInv, AskingOnce, OneOf
<1>6. \A p \in 1..Len(moduleQ') : p + 1 \in 1..Len(moduleQ) /\ moduleQ'[p] = moduleQ[p + 1]
  BY <1>1, ControlTaken
<1>7. Answering'
  <2>1. \A p \in 1..Len(moduleQ') :
          /\ After(p + 1, {"enabled", "resumed"}) => After(p, {"enabled", "resumed"})'
          /\ After(p + 1, {"didSendEnable"}) => After(p, {"didSendEnable"})'
    BY <1>1, <1>2, ControlTaken, ControlAfter
  <2> QED  BY <1>1, <1>4, <1>6, <2>1 DEF ControlInv, Answering
<1>8. ~Awaiting'
  BY <1>1, <1>2, ControlTaken
<1>9. Resuming'
  BY <1>1, <1>4, <1>8, ControlTaken DEF ControlInv, Resuming
<1>10. Storing'
  <2>1. Dead(store.id)' <=> Dead(store.id)
    BY <1>1 DEF Dead
  <2>2. Nothing' <=> Nothing
    BY <1>1 DEF Nothing
  <2> QED  BY <1>1, <1>4, <2>1, <2>2 DEF ControlInv, Storing
<1> QED  BY <1>5, <1>7, <1>9, <1>10 DEF ControlInv

LEMMA DidDisconnectControl ==
    ASSUME Inv, Inv', QueueInv, ArmedInv, ControlInv, HandleDidDisconnect
    PROVE  ControlInv' /\ moduleQ' = <<>>
<1>1. /\ moduleQ # <<>> /\ moduleQ' = Tail(moduleQ) /\ Head(moduleQ).name = "didDisconnect"
      /\ UNCHANGED <<conn, attached, c2s, sessions, session>>
      /\ isStarted' = FALSE /\ enableQueued' = FALSE /\ enableSent' = FALSE /\ prevUnacked' = <<>>
      /\ disconnectDate' = ~wasCleanDisconnect
      /\ store' = IF wasCleanDisconnect THEN EmptyStore
                  ELSE [store EXCEPT !.date = TRUE, !.hc = lastHandledByClient,
                                     !.hs = lastHandledByServer, !.pending = unackedByServer]
  BY DEF HandleDidDisconnect, Next_is, streamVars, serverVars, histVars
<1>2. moduleQ[1].name = "didDisconnect" /\ 1 \in 1..Len(moduleQ) /\ DOMAIN moduleQ = 1..Len(moduleQ)
  BY <1>1, ControlTaken, QueueTypes, LenProperties
<1>3. Len(moduleQ) = 1 /\ conn = "closed"
  BY <1>2 DEF QueueInv, EndIsLast
<1>4. moduleQ' = <<>> /\ Len(moduleQ') = 0
  BY <1>1, <1>3, QueueTypes
<1>5. \A names : ~Holds(moduleQ', names)
  BY <1>4, HoldsNothing
<1>6. ~Posting' /\ ~Resumed' /\ ~Told' /\ ~Awaiting' /\ (Asking' <=> Asking) /\ ~Holds(moduleQ, Answers)'
  BY <1>1, <1>3, <1>5 DEF Posting, Resumed, Told, Awaiting, Asking, Holds
<1>7. AskingOnce'
  BY <1>1, <1>3, <1>4, <1>6 DEF ControlInv, AskingOnce, OneOf
<1>8. Answering' /\ Resuming'
  BY <1>1, <1>3, <1>4, <1>6 DEF Answering, Resuming
<1>9. Storing'
  <2>1. ~Dead(store.id)' => ~wasCleanDisconnect
    BY <1>1 DEF Dead, EmptyStore
  <2>2. ~wasCleanDisconnect => store'.date = TRUE
    <3>1. store \in Storage
      BY DEF Inv, TypeOK
    <3> QED  BY <1>1, <3>1 DEF Storage
  <2> QED  BY <1>1, <1>3, <1>6, <2>1, <2>2 DEF Storing
<1> QED  BY <1>4, <1>7, <1>8, <1>9 DEF ControlInv

LEMMA SendResumeControl ==
    ASSUME Inv, Inv', QueueInv, ArmedInv, ControlInv, HandleSendResume
    PROVE  ControlInv'
<1>1. /\ moduleQ # <<>> /\ moduleQ' = Tail(moduleQ) /\ Head(moduleQ).name = "sendResume"
      /\ UNCHANGED <<conn, attached, sessions, isStarted, enableQueued, enableSent,
                     disconnectDate, store, draining, idQueries>>
      /\ session' = Head(moduleQ).sid /\ lastHandledByServer' = store.hs
      /\ unprocessedAcks' = <<>> /\ unackedByClient' = <<>>
      /\ prevUnacked' = IF store.pending = <<>> THEN prevUnacked ELSE store.pending
      /\ c2s' = IF conn = "resuming"
                THEN Append(c2s, Element("resume", store.hc, Head(moduleQ).sid)) ELSE c2s
  BY DEF HandleSendResume, Next_is, streamVars, serverVars, flagVars, Cleanup, RestoredCounts
<1>2. moduleQ[1].name = "sendResume" /\ Head(moduleQ) = moduleQ[1] /\ 1 \in 1..Len(moduleQ)
  BY <1>1, ControlTaken
<1>3. /\ store.id # 0 /\ moduleQ[1].sid = store.id /\ ~isStarted /\ conn \in {"resuming", "closed"}
      /\ \A j \in 1..Len(moduleQ) : moduleQ[j].name \in {"sendResume", "didDisconnect"}
  BY <1>2 DEF ControlInv, Resuming
<1>4. \A j \in 1..Len(moduleQ') : moduleQ'[j].name = "didDisconnect"
  BY <1>1, <1>3, ControlTaken
<1>5. moduleQ \in Seq(ElementSet) /\ moduleQ' \in Seq(ElementSet)
  BY DEF Inv, TypeOK, StreamTypeOK
<1>6. \A names : "didDisconnect" \notin names => ~Holds(moduleQ', names)
  BY <1>4, <1>5, HoldsAt
<1>7. \A names : "sendResume" \notin names /\ "didDisconnect" \notin names => ~Holds(moduleQ, names)
  BY <1>3, <1>5, HoldsAt
<1>8. ~Posting /\ ~Posting' /\ ~Resumed /\ ~Resumed' /\ ~Holds(moduleQ, Answers)' /\ (Told' <=> Told)
  <2>1. ~Holds(moduleQ', {"didSendEnable"}) /\ ~Holds(moduleQ', {"resumed"}) /\ ~Holds(moduleQ', Answers)
    BY <1>6 DEF Answers
  <2>2. ~Holds(moduleQ, {"didSendEnable"}) /\ ~Holds(moduleQ, {"resumed"})
    BY <1>7
  <2> QED  BY <1>1, <2>1, <2>2 DEF Posting, Resumed, Told, Holds
<1>9. conn = "resuming" => c2s = <<>> /\ Len(moduleQ) = 1
  BY <1>1 DEF QueueInv, ResumingIsQuiet
<1>10. CASE conn = "resuming"
  <2>1. /\ Len(c2s') = 1 /\ c2s'[1].sid = session' /\ c2s'[1].name = "resume"
    BY <1>1, <1>9, <1>10 DEF Element
  <2>2. moduleQ' = <<>>
    BY <1>1, <1>9, <1>10, QueueTypes
  <2>3. ~Asking'
    <3>1. Asking' <=> \E i \in 1..Len(c2s') : c2s'[i].name \in {"enable"}
      BY HoldsAt DEF Inv, TypeOK, StreamTypeOK, Asking
    <3> QED  BY <2>1, <3>1
  <2>4. OneOf(c2s', {"enable"})
    BY <2>1 DEF OneOf
  <2>5. AskingOnce'
    <3>1. OneOf(moduleQ', {"didSendEnable"}) /\ OneOf(moduleQ', Answers)
      BY <1>1, ControlTaken
    <3> QED  BY <1>1, <1>3, <1>8, <2>3, <2>4, <3>1 DEF ControlInv, AskingOnce, OneOf
  <2>6. Answering'
    BY <1>1, <1>4, <1>10 DEF Answering
  <2>7. Resuming'
    BY <1>1, <1>2, <1>3, <1>4, <1>8, <1>10, <2>1, <2>2 DEF Resuming, Awaiting
  <2>8. Storing'
    BY <1>1, <1>3, <1>8 DEF ControlInv, Storing, Dead, Nothing
  <2> QED  BY <2>5, <2>6, <2>7, <2>8 DEF ControlInv
<1>11. CASE conn = "closed"
  <2>1. UNCHANGED c2s
    BY <1>1, <1>11
  <2>2. Asking' <=> Asking
    BY <2>1 DEF Asking, Holds
  <2>3. AskingOnce'
    <3>1. OneOf(moduleQ', {"didSendEnable"}) /\ OneOf(moduleQ', Answers)
      BY <1>1, ControlTaken
    <3> QED  BY <1>1, <1>3, <1>8, <2>1, <2>2, <3>1 DEF ControlInv, AskingOnce, OneOf
  <2>4. Answering'
    BY <1>1, <1>4, <1>11 DEF Answering
  <2>5. moduleQ' # <<>> /\ moduleQ'[1].name = "didDisconnect"
    <3>1. moduleQ[Len(moduleQ)].name = "didDisconnect"
      BY <1>1, <1>11 DEF QueueInv, ClosedEnds
    <3>2. Len(moduleQ) # 1 /\ Len(moduleQ) \in Nat
      BY <1>2, <3>1, LenProperties, <1>5
    <3>3. Len(moduleQ') = Len(moduleQ) - 1
      BY <1>1, <1>5
    <3>4. moduleQ' # <<>> /\ 1 \in 1..Len(moduleQ')
      BY <1>2, <3>2, <3>3
    <3> QED  BY <1>4, <3>4
  <2>6. Resuming'
    BY <1>1, <1>3, <1>4, <1>8, <1>11, <2>5 DEF Resuming, Awaiting
  <2>7. Storing'
    BY <1>1, <1>3, <1>8 DEF ControlInv, Storing, Dead, Nothing
  <2> QED  BY <2>3, <2>4, <2>6, <2>7 DEF ControlInv
<1> QED  BY <1>3, <1>10, <1>11

-----------------------------------------------------------------------------
(* The stream, the application and the server begin or end a session.          *)

LEMMA ConnectControl ==
    ASSUME Inv, Inv', QueueInv, ArmedInv, ControlInv, Connect
    PROVE  ControlInv' /\ moduleQ = <<>> /\ moduleQ' = <<>> /\ ~isStarted /\ ~enableSent
<1>1. /\ conn = "closed" /\ ~Holds(moduleQ, {"didDisconnect"}) /\ conn' = "binding" /\ c2s' = <<>>
      /\ attached' = 0
      /\ UNCHANGED <<moduleQ, sessions, isStarted, enableQueued, enableSent, disconnectDate,
                     store, draining, idQueries, unackedByClient, lastHandledByServer,
                     prevUnacked, unprocessedAcks>>
  BY DEF Connect, moduleVars, flagVars, outVars, inVars
<1>2. moduleQ = <<>>
  <2> SUFFICES ASSUME moduleQ # <<>> PROVE FALSE
    OBVIOUS
  <2>1. moduleQ[Len(moduleQ)].name = "didDisconnect"
    BY <1>1 DEF QueueInv, ClosedEnds
  <2>2. Len(moduleQ) \in 1..Len(moduleQ)
    BY EmptySeq, QueueTypes, LenProperties
  <2> QED  BY <1>1, <2>1, <2>2, HoldsAt, QueueTypes
<1>3. ~isStarted /\ ~enableSent
  BY <1>1, <1>2 DEF ArmedInv, Quiet, Idle
<1>4. Len(moduleQ') = 0 /\ Len(c2s') = 0
  BY <1>1, <1>2
<1>5. /\ \A names : ~Holds(moduleQ', names) /\ ~Holds(c2s', names)
      /\ \A names : ~Holds(moduleQ, names)
  BY <1>1, <1>2, HoldsNothing
<1>6. ~Posting' /\ ~Posting /\ ~Resumed' /\ ~Told' /\ ~Awaiting' /\ ~Asking' /\ ~Holds(moduleQ, Answers)'
  BY <1>1, <1>3, <1>5 DEF Posting, Resumed, Told, Awaiting, Asking, Holds
<1>7. prevUnacked = <<>>
  BY <1>1, <1>2 DEF ControlInv, Resuming, Awaiting
<1>8. AskingOnce'
  BY <1>4, <1>6 DEF AskingOnce, OneOf
<1>9. Answering' /\ Resuming'
  BY <1>1, <1>4, <1>6, <1>7 DEF Answering, Resuming
<1>10. Storing'
  BY <1>1, <1>3, <1>6 DEF ControlInv, Storing, Dead, Nothing
<1> QED  BY <1>1, <1>2, <1>3, <1>8, <1>9, <1>10 DEF ControlInv

LEMMA StartCustomControl ==
    ASSUME Inv, Inv', QueueInv, ArmedInv, ControlInv, StartCustomBinding
    PROVE  ControlInv'
<1>1. /\ conn = "binding" /\ conn' = "resuming" /\ store.id # 0
      /\ moduleQ' = Append(moduleQ, Element("sendResume", 0, store.id))
      /\ UNCHANGED <<c2s, attached, sessions, isStarted, enableQueued, enableSent, disconnectDate,
                     store, draining, idQueries, unackedByClient, lastHandledByServer,
                     prevUnacked, unprocessedAcks, session>>
  BY DEF StartCustomBinding, CanResume, moduleVars, flagVars, outVars, inVars, serverVars, histVars
<1>2. moduleQ = <<>> /\ c2s = <<>> /\ attached = 0
  BY <1>1 DEF QueueInv, BindingIsQuiet
<1>3. Len(moduleQ') = 1 /\ moduleQ'[1].name = "sendResume" /\ moduleQ'[1].sid = store.id
  BY <1>1, <1>2 DEF Element
<1>4. ~isStarted /\ ~enableSent
  BY <1>1 DEF ArmedInv, Quiet, Idle
<1>5. \A names : ~Holds(moduleQ, names) /\ ~Holds(c2s, names)
  BY <1>2, HoldsNothing
<1>6. \A names : "sendResume" \notin names => ~Holds(moduleQ', names)
  <2>1. moduleQ' \in Seq(ElementSet)
    BY DEF Inv, TypeOK, StreamTypeOK
  <2> QED  BY <1>3, <2>1, HoldsAt
<1>7. ~Posting' /\ ~Resumed' /\ ~Told' /\ ~Asking' /\ ~Holds(moduleQ, Answers)'
  <2>1. ~Holds(moduleQ', {"didSendEnable"}) /\ ~Holds(moduleQ', {"resumed"}) /\ ~Holds(moduleQ', Answers)
    BY <1>6 DEF Answers
  <2> QED  BY <1>1, <1>4, <1>5, <2>1 DEF Posting, Resumed, Told, Asking, Holds
<1>8. ~Awaiting' /\ prevUnacked = <<>>
  BY <1>1, <1>2, <1>3 DEF Awaiting, ControlInv, Resuming
<1>9. AskingOnce'
  BY <1>1, <1>2, <1>3, <1>7 DEF AskingOnce, OneOf
<1>10. Answering' /\ Resuming'
  BY <1>1, <1>3, <1>4, <1>7, <1>8 DEF Answering, Resuming
<1>11. Storing'
  BY <1>1, <1>4, <1>7 DEF ControlInv, Storing, Dead, Nothing
<1> QED  BY <1>9, <1>10, <1>11 DEF ControlInv

LEMMA StartStandardControl ==
    ASSUME Inv, Inv', QueueInv, ArmedInv, ControlInv, AlwaysResumes, StartStandardBinding
    PROVE  ControlInv'
<1>1. /\ conn = "binding" /\ conn' = "bound" /\ ~(store.id # 0 /\ store.date)
      /\ UNCHANGED <<moduleQ, c2s, attached, sessions, isStarted, enableQueued, enableSent,
                     disconnectDate, store, draining, idQueries, unackedByClient,
                     lastHandledByServer, prevUnacked, unprocessedAcks, session>>
  BY DEF StartStandardBinding, CanResume, moduleVars, flagVars, outVars, inVars, serverVars,
     histVars, AlwaysResumes
<1>2. moduleQ = <<>> /\ c2s = <<>> /\ attached = 0
  BY <1>1 DEF QueueInv, BindingIsQuiet
<1>3. Len(moduleQ') = 0 /\ Len(c2s') = 0
  BY <1>1, <1>2
<1>4. ~isStarted /\ ~enableSent
  BY <1>1 DEF ArmedInv, Quiet, Idle
<1>5. \A names : ~Holds(moduleQ', names) /\ ~Holds(c2s', names)
  BY <1>1, <1>2, HoldsNothing
<1>6. ~Posting' /\ ~Resumed' /\ ~Told' /\ ~Asking' /\ ~Holds(moduleQ, Answers)' /\ ~Awaiting'
  BY <1>1, <1>4, <1>5 DEF Posting, Resumed, Told, Asking, Holds, Awaiting
<1>7. prevUnacked = <<>>
  BY <1>1, <1>2 DEF Awaiting, ControlInv, Resuming
<1>8. Dead(store.id)
  BY <1>1 DEF Dead, ControlInv, Storing
<1>9. AskingOnce'
  BY <1>1, <1>2, <1>3, <1>6 DEF AskingOnce, OneOf
<1>10. Answering' /\ Resuming'
  BY <1>1, <1>2, <1>3, <1>6, <1>7 DEF Answering, Resuming
<1>11. Storing'
  BY <1>1, <1>4, <1>6, <1>8 DEF ControlInv, Storing, Dead, Nothing
<1> QED  BY <1>9, <1>10, <1>11 DEF ControlInv

\* What a lost connection posts.
Ends   == {e \in ElementSet : e.name \in {"closing", "didDisconnect"}}
Closes == {e \in ElementSet : e.name = "close"}

LEMMA DisconnectPosts ==
    ASSUME Inv, Disconnect
    PROVE  /\ Shifted(moduleQ, moduleQ', 0, Ends) /\ Len(moduleQ') > Len(moduleQ)
           /\ conn # "bound" => moduleQ' = Append(moduleQ, Element("didDisconnect", 0, 0))
           /\ Shifted(c2s, c2s', 0, Closes)
           /\ conn # "bound" => UNCHANGED c2s
<1> DEFINE d == Element("didDisconnect", 0, 0)
           c == Element("closing", 0, 0)
           w == Element("close", 0, 0)
<1>1. d \in Ends /\ c \in Ends /\ d \in ElementSet /\ c \in ElementSet
  BY DEF Element, Ends, ElementSet, ElementName
<1>2. w \in Closes /\ w \in ElementSet
  BY DEF Element, Closes, ElementSet, ElementName
<1>3. \/ UNCHANGED c2s /\ moduleQ' = Append(moduleQ, d)
      \/ conn = "bound" /\ c2s' = Append(c2s, w) /\ moduleQ' = moduleQ \o <<c, d>>
  BY DEF Disconnect
<1> HIDE DEF d, c, w
<1>4. Longer(moduleQ, moduleQ', Ends) /\ Len(moduleQ') > Len(moduleQ)
  <2>1. CASE moduleQ' = Append(moduleQ, d)
    <3>1. Longer(moduleQ, moduleQ', {d}) /\ Len(moduleQ') = Len(moduleQ) + 1
      BY <1>1, <2>1, LongerAppend, QueueTypes
    <3> QED  BY <1>1, <3>1, LongerMore DEF Longer
  <2>2. CASE moduleQ' = moduleQ \o <<c, d>>
    <3>1. PICK m : m = Append(moduleQ, c)
      OBVIOUS
    <3>2. m \in Seq(ElementSet) /\ moduleQ' = Append(m, d)
      BY <1>1, <2>2, <3>1, QueueTypes
    <3>3. Longer(moduleQ, m, {c}) /\ Len(m) = Len(moduleQ) + 1
      BY <1>1, <3>1, LongerAppend, QueueTypes
    <3>4. Longer(m, moduleQ', {d}) /\ Len(moduleQ') = Len(m) + 1
      BY <1>1, <3>2, LongerAppend
    <3>5. Longer(moduleQ, moduleQ', {c} \cup {d})
      BY <3>3, <3>4, LongerTwice
    <3> QED  BY <1>1, <3>3, <3>4, <3>5, LongerMore DEF Longer
  <2> QED  BY <1>3, <2>1, <2>2
<1>5. Longer(c2s, c2s', Closes)
  <2>1. CASE UNCHANGED c2s
    BY <2>1, LongerSame, QueueTypes, LenProperties
  <2>2. CASE c2s' = Append(c2s, w)
    <3>1. Longer(c2s, c2s', {w})
      BY <1>2, <2>2, LongerAppend, QueueTypes
    <3> QED  BY <1>2, <3>1, LongerMore
  <2> QED  BY <1>3, <2>1, <2>2
<1> QED  BY <1>3, <1>4, <1>5, ShiftedLonger DEF d

LEMMA DisconnectControl ==
    ASSUME Inv, Inv', QueueInv, ArmedInv, ControlInv, Disconnect
    PROVE  ControlInv'
<1>1. /\ conn # "closed" /\ conn' = "closed"
      /\ UNCHANGED <<attached, sessions, isStarted, enableQueued, enableSent, disconnectDate,
                     store, draining, idQueries, unackedByClient, lastHandledByServer,
                     prevUnacked, unprocessedAcks, session>>
  BY DEF Disconnect, moduleVars, flagVars, outVars, inVars, serverVars, histVars
<1>2. /\ Shifted(moduleQ, moduleQ', 0, Ends) /\ Len(moduleQ') > Len(moduleQ)
      /\ conn # "bound" => moduleQ' = Append(moduleQ, Element("didDisconnect", 0, 0))
      /\ Shifted(c2s, c2s', 0, Closes)
      /\ conn # "bound" => UNCHANGED c2s
  BY DisconnectPosts
<1>3. /\ moduleQ \in Seq(ElementSet) /\ moduleQ' \in Seq(ElementSet)
      /\ c2s \in Seq(ElementSet) /\ c2s' \in Seq(ElementSet)
  BY DEF Inv, TypeOK, StreamTypeOK
<1>4. /\ \A e \in Ends : e.name \in {"closing", "didDisconnect"}
      /\ \A e \in Closes : e.name \notin {"enable"}
  BY DEF Ends, Closes
<1>5. \A names : "closing" \notin names /\ "didDisconnect" \notin names =>
         (Holds(moduleQ', names) <=> Holds(moduleQ, names))
  <2> SUFFICES ASSUME NEW names, "closing" \notin names, "didDisconnect" \notin names
               PROVE  Holds(moduleQ', names) <=> Holds(moduleQ, names)
    OBVIOUS
  <2>1. PICK d, more : d = 0 /\ more = Ends
    OBVIOUS
  <2>2. Shifted(moduleQ, moduleQ', d, more) /\ \A e \in more : e.name \notin names
    BY <1>2, <1>4, <2>1
  <2> QED  BY <1>3, <2>1, <2>2, ShiftedHolds
<1>6. Asking' => Asking
  <2>1. PICK d, more : d = 0 /\ more = Closes
    OBVIOUS
  <2>2. Shifted(c2s, c2s', d, more) /\ \A e \in more : e.name \notin {"enable"}
    BY <1>2, <1>4, <2>1
  <2> QED  BY <1>3, <2>1, <2>2, ShiftedHolds DEF Asking
<1>7. /\ Posting' <=> Posting
      /\ Resumed' <=> Resumed
      /\ Told' <=> Told
      /\ Holds(moduleQ, Answers)' <=> Holds(moduleQ, Answers)
      /\ ~Awaiting'
  <2>1. /\ Holds(moduleQ', {"didSendEnable"}) <=> Holds(moduleQ, {"didSendEnable"})
        /\ Holds(moduleQ', {"resumed"}) <=> Holds(moduleQ, {"resumed"})
        /\ Holds(moduleQ', Answers) <=> Holds(moduleQ, Answers)
    BY <1>5 DEF Answers
  <2> QED  BY <1>1, <2>1 DEF Posting, Resumed, Told, Holds, Awaiting
<1>8. AskingOnce'
  <2>1. \A e \in Ends : e.name \notin {"didSendEnable"} /\ e.name \notin Answers
    BY <1>4 DEF Answers
  <2>2. OneOf(moduleQ', {"didSendEnable"}) /\ OneOf(c2s', {"enable"}) /\ OneOf(moduleQ', Answers)
    BY <1>2, <1>4, <2>1, ShiftedOne DEF ControlInv, AskingOnce
  <2> QED  BY <1>1, <1>6, <1>7, <2>2 DEF ControlInv, AskingOnce, OneOf
<1>9. \A p \in 1..Len(moduleQ') : \/ p \in 1..Len(moduleQ) /\ moduleQ'[p] = moduleQ[p]
                                  \/ moduleQ'[p].name \in {"closing", "didDisconnect"}
  BY <1>2, <1>4 DEF Shifted
<1>10. \A p \in 1..Len(moduleQ) : \A names : After(p, names) => After(p, names)'
  BY <1>2 DEF After, Shifted
<1>11. Answering'
  <2>1. ASSUME NEW p \in 1..Len(moduleQ'), moduleQ'[p].name \in {"enabled", "failed"}
        PROVE  /\ ~isStarted' /\ (enableSent' \/ After(p, {"didSendEnable"})')
               /\ moduleQ'[p].name = "enabled" =>
                     attached' # 0 /\ moduleQ'[p].sid = attached' /\ moduleQ'[p].arg \in {0, attached'}
    <3>1. p \in 1..Len(moduleQ) /\ moduleQ'[p] = moduleQ[p]
      BY <1>9, <2>1
    <3> QED  BY <1>1, <1>10, <2>1, <3>1 DEF ControlInv, Answering
  <2>2. ASSUME NEW p \in 1..Len(moduleQ'), moduleQ'[p].name = "a"
        PROVE  isStarted' \/ After(p, {"enabled", "resumed"})'
    <3>1. p \in 1..Len(moduleQ) /\ moduleQ'[p] = moduleQ[p]
      BY <1>9, <2>2
    <3> QED  BY <1>1, <1>10, <2>2, <3>1 DEF ControlInv, Answering
  <2> QED  BY <1>1, <2>1, <2>2, Zenon DEF Answering
<1>12. Resuming'
  <2>1. ASSUME NEW i \in 1..Len(moduleQ'), moduleQ'[i].name = "sendResume"
        PROVE  /\ i = 1 /\ store'.id # 0 /\ moduleQ'[i].sid = store'.id /\ ~isStarted' /\ ~enableSent'
               /\ \A j \in 1..Len(moduleQ') : moduleQ'[j].name \in {"sendResume", "didDisconnect"}
    <3>1. i \in 1..Len(moduleQ) /\ moduleQ'[i] = moduleQ[i]
      BY <1>9, <2>1
    <3>2. /\ i = 1 /\ store.id # 0 /\ moduleQ[i].sid = store.id /\ ~isStarted /\ ~enableSent
          /\ conn # "bound"
          /\ \A j \in 1..Len(moduleQ) : moduleQ[j].name \in {"sendResume", "didDisconnect"}
      BY <2>1, <3>1 DEF ControlInv, Resuming
    <3>3. \A j \in 1..Len(moduleQ') : \/ j \in 1..Len(moduleQ) /\ moduleQ'[j] = moduleQ[j]
                                      \/ moduleQ'[j].name = "didDisconnect"
      <4>1. moduleQ' = Append(moduleQ, Element("didDisconnect", 0, 0))
        BY <1>2, <3>2
      <4> QED  BY <4>1, <1>3 DEF Element
    <3> QED  BY <1>1, <3>1, <3>2, <3>3
  <2>2. prevUnacked' # <<>> =>
           moduleQ' # <<>> /\ moduleQ'[1].name \in {"resumed", "resumeFailed", "didDisconnect"}
    <3> SUFFICES ASSUME prevUnacked # <<>>
                 PROVE  moduleQ' # <<>> /\ moduleQ'[1].name \in {"resumed", "resumeFailed", "didDisconnect"}
      BY <1>1
    <3>1. CASE Awaiting
      <4>1. moduleQ = <<>> /\ moduleQ' = Append(moduleQ, Element("didDisconnect", 0, 0))
        BY <1>2, <3>1 DEF Awaiting
      <4> QED  BY <4>1 DEF Element
    <3>2. CASE moduleQ # <<>> /\ moduleQ[1].name \in {"resumed", "resumeFailed", "didDisconnect"}
      <4>1. 1 \in 1..Len(moduleQ)
        BY <3>2, EmptySeq, LenProperties, <1>3
      <4>2. moduleQ'[1] = moduleQ[1] /\ moduleQ' # <<>>
        BY <1>2, <1>3, <4>1 DEF Shifted
      <4> QED  BY <3>2, <4>2
    <3> QED  BY <3>1, <3>2 DEF ControlInv, Resuming
  <2>3. prevUnacked' # <<>> \/ Resumed' => ~isStarted' /\ unprocessedAcks' = <<>>
    BY <1>1, <1>7 DEF ControlInv, Resuming
  <2>4. Resumed' => /\ store'.id # 0 /\ session' = store'.id /\ attached' = session'
                    /\ store'.hs = lastHandledByServer'
    BY <1>1, <1>7 DEF ControlInv, Resuming
  <2> QED  BY <1>1, <1>7, <2>1, <2>2, <2>3, <2>4 DEF Resuming
<1>13. Storing'
  <2>1. Dead(store.id)' <=> Dead(store.id)
    BY <1>1 DEF Dead
  <2>2. Nothing' <=> Nothing
    BY <1>1 DEF Nothing
  <2> QED  BY <1>1, <1>7, <2>1, <2>2 DEF ControlInv, Storing
<1> QED  BY <1>8, <1>11, <1>12, <1>13 DEF ControlInv

LEMMA CrashControl == ASSUME Inv, Inv', ControlInv, Crash PROVE ControlInv' /\ moduleQ' = <<>>
<1>1. /\ conn' = "closed" /\ moduleQ' = <<>>
      /\ isStarted' = FALSE /\ enableQueued' = FALSE /\ enableSent' = FALSE
      /\ unackedByClient' = <<>> /\ idQueries' = {} /\ draining' = "idle" /\ prevUnacked' = <<>>
      /\ unprocessedAcks' = <<>>
      /\ UNCHANGED <<c2s, attached, sessions, store, session>>
  BY DEF Crash, Cleanup, serverVars
<1>2. Len(moduleQ') = 0 /\ \A names : ~Holds(moduleQ', names)
  BY <1>1, HoldsNothing
<1>3. ~Posting' /\ ~Resumed' /\ ~Told' /\ ~Awaiting' /\ (Asking' <=> Asking) /\ ~Holds(moduleQ, Answers)'
  BY <1>1, <1>2 DEF Posting, Resumed, Told, Awaiting, Asking, Holds
<1>4. AskingOnce'
  BY <1>1, <1>2, <1>3 DEF ControlInv, AskingOnce, OneOf
<1>5. Answering' /\ Resuming'
  BY <1>1, <1>2, <1>3 DEF Answering, Resuming
<1>6. Storing'
  BY <1>1, <1>3 DEF ControlInv, Storing, Dead, Nothing
<1> QED  BY <1>1, <1>4, <1>5, <1>6 DEF ControlInv

LEMMA EnableControl ==
    ASSUME Inv, Inv', QueueInv, ArmedInv, ControlInv, Enable
    PROVE  /\ ControlInv' /\ ~Resumed /\ ~Joined /\ ~Posting
           /\ conn = "bound" => attached = 0 /\ Dead(store.id) /\ ~Asking
<1>1. /\ conn = "bound" \/ conn = "closed"
      /\ ~isStarted /\ ~enableQueued /\ ~enableSent
      /\ ~Holds(moduleQ, {"resumed", "resumeFailed"})
      /\ enableQueued' = TRUE /\ unprocessedAcks' = <<>> /\ unackedByClient' = <<>>
      /\ UNCHANGED <<conn, attached, sessions, isStarted, enableSent, disconnectDate,
                     store, draining, idQueries, lastHandledByServer, prevUnacked, session>>
  BY DEF Enable, Cleanup, streamVars, serverVars, histVars
<1>2. ~Posting /\ ~Told
  BY <1>1 DEF ControlInv, AskingOnce, Told
<1>3. moduleQ \in Seq(ElementSet) /\ moduleQ' \in Seq(ElementSet)
      /\ c2s \in Seq(ElementSet) /\ c2s' \in Seq(ElementSet)
  BY DEF Inv, TypeOK, StreamTypeOK
<1>4. \A p \in 1..Len(moduleQ) : moduleQ[p].name \notin Answers
  <2>1. \A p \in 1..Len(moduleQ) : moduleQ[p].name # "resumed"
    BY <1>1, <1>3, HoldsAt
  <2>2. \A p \in 1..Len(moduleQ) : ~After(p, {"didSendEnable"})
    <3>1. \A p \in 1..Len(moduleQ) : moduleQ[p].name # "didSendEnable"
      BY <1>2, <1>3, HoldsAt DEF Posting
    <3> QED  BY <3>1 DEF After
  <2> QED  BY <1>1, <2>1, <2>2 DEF ControlInv, Answering, Answers
<1>5. ~Holds(moduleQ, Answers) /\ ~Resumed /\ ~Joined
  <2>1. ~Holds(moduleQ, Answers)
    BY <1>3, <1>4, HoldsAt
  <2>2. ~Holds(moduleQ, {"resumed"}) /\ ~Holds(moduleQ, {"enabled", "resumed"})
    BY <2>1 DEF Holds, Answers
  <2> QED  BY <1>1, <2>1, <2>2 DEF Resumed, Joined
<1>6. Dead(store.id)' <=> Dead(store.id)
  BY <1>1 DEF Dead
<1>7. CASE conn = "closed"
  <2>1. UNCHANGED <<c2s, moduleQ>>
    BY <1>7 DEF Enable, Written
  <2>2. ~Posting' /\ ~Told' /\ ~Resumed' /\ ~Holds(moduleQ, Answers)' /\ (Asking' <=> Asking)
        /\ ~Awaiting' /\ ~Awaiting
    BY <1>1, <1>2, <1>5, <1>7, <2>1 DEF Posting, Told, Resumed, Asking, Holds, Awaiting
  <2>3. AskingOnce'
    BY <1>1, <1>7, <2>1, <2>2 DEF ControlInv, AskingOnce, OneOf
  <2>4. Answering'
    BY <1>1, <1>7, <2>1 DEF ControlInv, Answering, After
  <2>5. Resuming'
    BY <1>1, <2>1, <2>2 DEF ControlInv, Resuming
  <2>6. Storing'
    BY <1>1, <1>6, <1>7, <2>2 DEF ControlInv, Storing, Nothing
  <2> QED  BY <1>2, <1>5, <1>7, <2>2, <2>3, <2>4, <2>5, <2>6 DEF ControlInv
<1>8. CASE conn = "bound"
  <2>1. c2s' = Append(c2s, Element("enable", 0, 0)) /\ moduleQ' = Append(moduleQ, Element("didSendEnable", 0, 0))
    BY <1>8 DEF Enable, Written
  <2>2. attached = 0 /\ ~Asking /\ Dead(store.id)
    BY <1>1, <1>2, <1>5, <1>8 DEF ControlInv, AskingOnce, Answering, Storing
  <2>3. \A i \in 1..Len(c2s) : c2s[i].name # "enable"
    BY <1>3, <2>2, HoldsAt DEF Asking
  <2>4. OneOf(c2s', {"enable"})
    BY <1>3, <2>1, <2>3 DEF OneOf
  <2>5. /\ Len(moduleQ) \in Nat /\ Len(moduleQ') = Len(moduleQ) + 1
        /\ \A p \in 1..Len(moduleQ) : moduleQ'[p] = moduleQ[p]
        /\ moduleQ'[Len(moduleQ) + 1].name = "didSendEnable"
    BY <1>3, <2>1 DEF Element
  <2>6. \A p \in 1..Len(moduleQ') : \/ p \in 1..Len(moduleQ) /\ moduleQ'[p] = moduleQ[p]
                                    \/ p = Len(moduleQ) + 1
    BY <2>5
  <2>7. \A p \in 1..Len(moduleQ) : moduleQ[p].name # "didSendEnable" /\ moduleQ[p].name \notin Answers
    BY <1>2, <1>3, <1>4, HoldsAt DEF Posting
  <2>8. OneOf(moduleQ', {"didSendEnable"}) /\ OneOf(moduleQ', Answers)
    BY <2>5, <2>6, <2>7 DEF OneOf, Answers
  <2>9. ~Holds(moduleQ', Answers) /\ ~Holds(moduleQ', {"resumed"})
    <3>1. \A p \in 1..Len(moduleQ') : moduleQ'[p].name \notin Answers
      BY <2>5, <2>6, <2>7 DEF Answers
    <3> QED  BY <1>3, <3>1, HoldsAt DEF Answers
  <2>10. ~Holds(moduleQ, Answers)' /\ ~Resumed'
    BY <2>9 DEF Resumed, Holds
  <2>11. AskingOnce'
    BY <1>1, <1>8, <2>2, <2>4, <2>8, <2>10, <2>5 DEF AskingOnce, OneOf, Told, Posting, Holds
  <2>12. Answering'
    <3>1. \A p \in 1..Len(moduleQ') : \A names : p \in 1..Len(moduleQ) /\ After(p, names) => After(p, names)'
      BY <2>5 DEF After
    <3> QED  BY <1>1, <2>2, <2>5, <2>6, <2>7, <3>1 DEF ControlInv, Answering, Answers
  <2>13. ~Awaiting' /\ ~Awaiting
    BY <1>1, <1>8 DEF Awaiting
  <2>14. Resuming'
    <3>1. \A i \in 1..Len(moduleQ') : moduleQ'[i].name # "sendResume"
      BY <1>8, <2>5, <2>6 DEF ControlInv, Resuming
    <3>2. prevUnacked # <<>> => /\ ~isStarted /\ moduleQ' # <<>>
                                /\ moduleQ'[1].name \in {"resumed", "resumeFailed", "didDisconnect"}
      <4> SUFFICES ASSUME prevUnacked # <<>>
                   PROVE  moduleQ' # <<>> /\ moduleQ'[1].name \in {"resumed", "resumeFailed", "didDisconnect"}
        BY <1>1
      <4>1. moduleQ # <<>> /\ moduleQ[1].name \in {"resumed", "resumeFailed", "didDisconnect"}
        BY <2>13 DEF ControlInv, Resuming
      <4>2. 1 \in 1..Len(moduleQ)
        BY <1>3, <4>1, EmptySeq, LenProperties
      <4> QED  BY <1>3, <2>1, <2>5, <4>1, <4>2
    <3> QED  BY <1>1, <2>10, <2>13, <3>1, <3>2 DEF Resuming
  <2>15. Storing'
    BY <1>1, <1>6, <2>2 DEF ControlInv, Storing, Nothing
  <2> QED  BY <1>2, <1>5, <1>8, <2>2, <2>11, <2>12, <2>14, <2>15 DEF ControlInv
<1> QED  BY <1>1, <1>7, <1>8

-----------------------------------------------------------------------------
\* One element arrives, if the connection still stands.
LEMMA ArrivedOrLost ==
    ASSUME Inv, NEW e, Arrives(<<e>>, <<>>) \/ Arrives(<<>>, <<e>>)
    PROVE  /\ UNCHANGED moduleQ \/ (conn # "closed" /\ moduleQ' = Append(moduleQ, e))
           /\ Arrives(<<e>>, <<>>) /\ conn # "closed" => moduleQ' = Append(moduleQ, e)
           /\ conn = "closed" => UNCHANGED moduleQ
<1> DEFINE S == ElementSet \cup {e}
<1>1. ElementSet \subseteq S /\ e \in S
  OBVIOUS
<1> HIDE DEF S
<1>2. moduleQ \in Seq(S)
  BY <1>1, WiderSeq, QueueTypes
<1>3. /\ moduleQ \o <<e>> \o <<>> = Append(moduleQ, e) /\ moduleQ \o <<e>> = Append(moduleQ, e)
      /\ moduleQ \o <<>> \o <<e>> = Append(moduleQ, e) /\ moduleQ \o <<>> = moduleQ
  BY <1>1, <1>2
<1> QED  BY <1>3 DEF Arrives

LEMMA AskedIsTaken ==
    ASSUME Inv, Inv', QueueInv, ControlInv, Take("enable")
    PROVE  /\ Asking /\ ~Asking' /\ OneOf(c2s', {"enable"}) /\ conn \in {"bound", "closed"}
           /\ attached = 0 /\ ~isStarted /\ ~Holds(moduleQ, Answers) /\ ~Resumed
           /\ conn = "bound" => Told
<1>1. c2s # <<>> /\ c2s' = Tail(c2s) /\ Head(c2s).name = "enable"
  BY DEF Take
<1>2. Shorter(c2s, c2s') /\ Head(c2s) = c2s[1] /\ Len(c2s) > 0
  BY <1>1, QueueTypes, ShorterTail
<1>3. Len(c2s) \in Nat /\ 1 \in 1..Len(c2s) /\ c2s[1].name = "enable"
  BY <1>1, <1>2 DEF Shorter
<1>4. Asking
  BY <1>3, HoldsAt, QueueTypes DEF Asking
<1>5. \A i \in 1..Len(c2s') : c2s'[i].name # "enable"
  <2> SUFFICES ASSUME NEW i \in 1..Len(c2s'), c2s'[i].name = "enable" PROVE FALSE
    OBVIOUS
  <2>1. i + 1 \in 1..Len(c2s) /\ c2s'[i] = c2s[i + 1] /\ i >= 1
    BY <1>2 DEF Shorter
  <2>2. i + 1 = 1
    BY <1>3, <2>1 DEF ControlInv, AskingOnce, OneOf
  <2> QED  BY <2>1, <2>2
<1>6. ~Asking' /\ OneOf(c2s', {"enable"})
  <2>1. c2s' \in Seq(ElementSet)
    BY DEF Inv, TypeOK, StreamTypeOK
  <2>2. ~Holds(c2s', {"enable"})
    BY <1>5, <2>1, HoldsAt
  <2> QED  BY <1>5, <2>2 DEF Asking, Holds, OneOf
<1>7. ~Holds(moduleQ, Answers) /\ ~Resumed
  BY <1>4 DEF ControlInv, AskingOnce, Resumed, Answers, Holds
<1> QED  BY <1>4, <1>6, <1>7, TakesWhenBound DEF ControlInv, AskingOnce

LEMMA ServerEnableControl ==
    ASSUME Inv, Inv', QueueInv, ArmedInv, ControlInv, ServerHandlesEnable
    PROVE  ControlInv'
<1>1. /\ Take("enable")
      /\ UNCHANGED <<conn, isStarted, enableQueued, enableSent, disconnectDate, prevUnacked,
                     store, draining, idQueries, unackedByClient, lastHandledByServer,
                     unprocessedAcks, session>>
  BY DEF ServerHandlesEnable, streamVars, moduleVars, flagVars, outVars, inVars, histVars
<1>2. /\ ~Asking' /\ OneOf(c2s', {"enable"}) /\ conn \in {"bound", "closed"}
      /\ attached = 0 /\ ~isStarted /\ ~Holds(moduleQ, Answers) /\ ~Resumed
      /\ conn = "bound" => Told
  BY <1>1, AskedIsTaken
<1>3. PICK e :
        /\ \/ e.name = "enabled" /\ attached' # 0 /\ e.sid = attached' /\ e.arg \in {0, attached'}
           \/ e.name = "failed" /\ attached' = 0
        /\ Arrives(<<e>>, <<>>)
        /\ \A s \in 1..Len(sessions) : s \in 1..Len(sessions') /\ sessions'[s] = sessions[s]
  <2> DEFINE s == Len(sessions) + 1
  <2>1. Len(sessions) \in Nat /\ sessions \in Seq(Session)
    BY LenProperties DEF Inv, TypeOK, ServerTypeOK
  <2>2. ASSUME NEW resume \in BOOLEAN,
               sessions' = Append(sessions, [log |-> <<>>, out |-> 0, alive |-> resume]),
               attached' = s,
               Arrives(<<Element("enabled", IF resume THEN s ELSE 0, s)>>, <<>>)
        PROVE  \E e : /\ e.name = "enabled" /\ attached' # 0 /\ e.sid = attached' /\ e.arg \in {0, attached'}
                      /\ Arrives(<<e>>, <<>>)
    <3> DEFINE f == Element("enabled", IF resume THEN s ELSE 0, s)
    <3>1. f.name = "enabled" /\ f.sid = s /\ f.arg \in {0, s} /\ s # 0
      BY <2>1 DEF Element
    <3>2. Arrives(<<f>>, <<>>)
      BY <2>2
    <3> HIDE DEF f
    <3> QED  BY <2>2, <3>1, <3>2
  <2>3. ASSUME NEW x, sessions' = Append(sessions, x)
        PROVE  \A i \in 1..Len(sessions) : i \in 1..Len(sessions') /\ sessions'[i] = sessions[i]
    <3>1. sessions' \in Seq(Session)
      BY DEF Inv, TypeOK, ServerTypeOK
    <3> QED  BY <2>1, <2>3, <3>1
  <2>4. \/ \E resume \in BOOLEAN :
              /\ sessions' = Append(sessions, [log |-> <<>>, out |-> 0, alive |-> resume])
              /\ attached' = s
              /\ Arrives(<<Element("enabled", IF resume THEN s ELSE 0, s)>>, <<>>)
        \/ /\ Arrives(<<Element("failed", 0, 0)>>, <<>>)
           /\ UNCHANGED <<sessions, attached>>
    BY DEF ServerHandlesEnable
  <2>5. CASE \E resume \in BOOLEAN :
              /\ sessions' = Append(sessions, [log |-> <<>>, out |-> 0, alive |-> resume])
              /\ attached' = s
              /\ Arrives(<<Element("enabled", IF resume THEN s ELSE 0, s)>>, <<>>)
    <3> HIDE DEF s
    <3> QED  BY <2>2, <2>3, <2>5
  <2>6. CASE Arrives(<<Element("failed", 0, 0)>>, <<>>) /\ UNCHANGED <<sessions, attached>>
    <3> DEFINE f == Element("failed", 0, 0)
    <3>1. f.name = "failed" /\ Arrives(<<f>>, <<>>)
      BY <2>6 DEF Element
    <3> HIDE DEF f
    <3> QED  BY <1>2, <2>6, <3>1
  <2> QED  BY <2>4, <2>5, <2>6
<1>4. /\ \/ UNCHANGED moduleQ /\ conn = "closed"
         \/ moduleQ' = Append(moduleQ, e) /\ conn = "bound"
  BY <1>2, <1>3, ArrivedOrLost
<1>5. /\ moduleQ \in Seq(ElementSet) /\ moduleQ' \in Seq(ElementSet)
  BY DEF Inv, TypeOK, StreamTypeOK
<1>6. /\ Longer(moduleQ, moduleQ', {e})
      /\ Len(moduleQ') = Len(moduleQ) + (IF conn = "bound" THEN 1 ELSE 0)
  <2>1. CASE UNCHANGED moduleQ /\ conn = "closed"
    BY <1>5, <2>1, LongerSame, LenProperties
  <2>2. CASE moduleQ' = Append(moduleQ, e) /\ conn = "bound"
    BY <2>2, ArrivedLonger
  <2> QED  BY <1>4, <2>1, <2>2
<1>7. /\ Len(moduleQ) \in Nat
      /\ \A p \in 1..Len(moduleQ) : p \in 1..Len(moduleQ') /\ moduleQ'[p] = moduleQ[p]
      /\ \A p \in 1..Len(moduleQ') : \/ p \in 1..Len(moduleQ) /\ moduleQ'[p] = moduleQ[p]
                                     \/ conn = "bound" /\ p = Len(moduleQ) + 1 /\ moduleQ'[p] = e
  BY <1>6 DEF Longer
<1>8. \A p \in 1..Len(moduleQ) : moduleQ[p].name \notin Answers
  BY <1>2, <1>5, HoldsAt
<1>9. /\ Posting' <=> Posting
      /\ ~Resumed'
      /\ Told' <=> Told
  <2>1. Holds(moduleQ', {"didSendEnable"}) <=> Holds(moduleQ, {"didSendEnable"})
    <3>1. \A p \in 1..Len(moduleQ') : moduleQ'[p].name = "didSendEnable" => p \in 1..Len(moduleQ)
      BY <1>3, <1>7
    <3> QED  BY <1>5, <1>7, <3>1, HoldsAt
  <2>2. ~Holds(moduleQ', {"resumed"})
    BY <1>3, <1>5, <1>7, <1>8, HoldsAt DEF Answers
  <2> QED  BY <1>1, <2>1, <2>2 DEF Posting, Resumed, Told, Holds
<1>10. ~Awaiting /\ ~Awaiting'
  BY <1>1, <1>2 DEF Awaiting
<1>11. AskingOnce'
  <2>1. OneOf(moduleQ', {"didSendEnable"})
    BY <1>3, <1>7 DEF ControlInv, AskingOnce, OneOf
  <2>2. OneOf(moduleQ', Answers)
    BY <1>3, <1>7, <1>8 DEF OneOf
  <2> QED  BY <1>1, <1>2, <1>9, <2>1, <2>2 DEF ControlInv, AskingOnce, OneOf
<1>12. \A p \in 1..Len(moduleQ) : \A names : After(p, names) => After(p, names)'
  BY <1>7 DEF After
<1>13. Answering'
  <2>1. ASSUME NEW p \in 1..Len(moduleQ'), moduleQ'[p].name \in {"enabled", "failed"}
        PROVE  /\ ~isStarted' /\ (enableSent' \/ After(p, {"didSendEnable"})')
               /\ moduleQ'[p].name = "enabled" =>
                     attached' # 0 /\ moduleQ'[p].sid = attached' /\ moduleQ'[p].arg \in {0, attached'}
    <3>1. conn = "bound" /\ p = Len(moduleQ) + 1 /\ moduleQ'[p] = e
      BY <1>7, <1>8, <2>1 DEF Answers
    <3>2. enableSent \/ Holds(moduleQ, {"didSendEnable"})
      BY <1>2, <3>1 DEF Told, Posting
    <3>3. Holds(moduleQ, {"didSendEnable"}) => After(p, {"didSendEnable"})'
      <4> SUFFICES ASSUME Holds(moduleQ, {"didSendEnable"}) PROVE After(p, {"didSendEnable"})'
        OBVIOUS
      <4>1. PICK i \in 1..Len(moduleQ) : moduleQ[i].name = "didSendEnable"
        BY <1>5, HoldsAt
      <4>2. i \in 1..Len(moduleQ') /\ moduleQ'[i].name \in {"didSendEnable"} /\ i < p
        BY <1>7, <3>1, <4>1
      <4> QED  BY <4>2 DEF After
    <3> QED  BY <1>1, <1>2, <1>3, <2>1, <3>1, <3>2, <3>3
  <2>2. ASSUME NEW p \in 1..Len(moduleQ'), moduleQ'[p].name = "a"
        PROVE  isStarted' \/ After(p, {"enabled", "resumed"})'
    <3>1. p \in 1..Len(moduleQ) /\ moduleQ'[p] = moduleQ[p]
      BY <1>3, <1>7, <2>2
    <3> QED  BY <1>1, <1>12, <2>2, <3>1 DEF ControlInv, Answering
  <2>3. conn' = "bound" /\ attached' # 0 => Joined'
    <3> SUFFICES ASSUME conn = "bound", attached' # 0 PROVE Joined'
      BY <1>1
    <3>1. e.name = "enabled" /\ Len(moduleQ) + 1 \in 1..Len(moduleQ') /\ moduleQ'[Len(moduleQ) + 1] = e
      BY <1>3, <1>6, <1>7
    <3>2. Holds(moduleQ', {"enabled", "resumed"})
      BY <1>5, <3>1, HoldsAt
    <3> QED  BY <3>2 DEF Joined, Holds
  <2> QED  BY <2>1, <2>2, <2>3, Zenon DEF Answering
<1>14. Resuming'
  <2>1. ASSUME NEW i \in 1..Len(moduleQ'), moduleQ'[i].name = "sendResume"
        PROVE  /\ i = 1 /\ store'.id # 0 /\ moduleQ'[i].sid = store'.id /\ ~isStarted' /\ ~enableSent'
               /\ conn' \in {"resuming", "closed"}
               /\ \A j \in 1..Len(moduleQ') : moduleQ'[j].name \in {"sendResume", "didDisconnect"}
    <3>1. i \in 1..Len(moduleQ) /\ moduleQ'[i] = moduleQ[i]
      BY <1>3, <1>7, <2>1
    <3>2. conn = "closed"
      BY <1>2, <2>1, <3>1 DEF ControlInv, Resuming
    <3> QED  BY <1>1, <1>7, <2>1, <3>1, <3>2 DEF ControlInv, Resuming
  <2>2. prevUnacked' # <<>> => /\ ~isStarted' /\ unprocessedAcks' = <<>> /\ moduleQ' # <<>>
                               /\ moduleQ'[1].name \in {"resumed", "resumeFailed", "didDisconnect"}
    <3> SUFFICES ASSUME prevUnacked # <<>>
                 PROVE  moduleQ' # <<>> /\ moduleQ'[1].name \in {"resumed", "resumeFailed", "didDisconnect"}
      BY <1>1 DEF ControlInv, Resuming
    <3>1. moduleQ # <<>> /\ moduleQ[1].name \in {"resumed", "resumeFailed", "didDisconnect"}
      BY <1>10 DEF ControlInv, Resuming
    <3>2. 1 \in 1..Len(moduleQ)
      BY <1>5, <3>1, EmptySeq, LenProperties
    <3>3. 1 \in 1..Len(moduleQ') /\ moduleQ'[1] = moduleQ[1]
      BY <1>7, <3>2
    <3> QED  BY <1>5, <3>1, <3>3
  <2> QED  BY <1>9, <1>10, <2>1, <2>2 DEF Resuming
<1>15. Storing'
  <2>1. Dead(store.id) => Dead(store.id)'
    <3>1. store.id \in 0..Len(sessions) /\ Len(sessions) \in Nat
      BY LenProperties DEF Inv, SessionsKnown, TypeOK, ServerTypeOK
    <3> QED  BY <1>1, <1>3, <3>1 DEF Dead
  <2>2. Nothing' <=> Nothing
    BY <1>1 DEF Nothing
  <2>3. ~Dead(store.id)' => ~Dead(store.id)
    BY <2>1
  <2> QED  BY <1>1, <1>2, <1>9, <2>1, <2>2, <2>3 DEF ControlInv, Storing
<1> QED  BY <1>11, <1>13, <1>14, <1>15 DEF ControlInv

\* The answer to a <resume/> finds an empty moduleQueue; the stanzas sent again follow it.
LEMMA ServerAnswersResume ==
    ASSUME Inv, Inv', QueueInv, ControlInv, ServerHandlesResume, conn = "resuming"
    PROVE  /\ moduleQ = <<>> /\ Awaiting /\ conn' = "bound" /\ 1 \in 1..Len(moduleQ')
           /\ \A i \in 1..Len(moduleQ') : i = 1 \/ moduleQ'[i].name = "stanza"
           /\ session \in 1..Len(sessions) /\ session = store.id
           /\ \/ /\ sessions[session].alive /\ attached' = session
                 /\ moduleQ'[1] = Element("resumed", HandledCount(session), session)
              \/ /\ ~sessions[session].alive /\ attached' = 0
                 /\ moduleQ'[1] = Element("resumeFailed", 0, session)
           /\ \A i \in 1..Len(c2s) : c2s[i].name = "resume"
           /\ \A i \in 1..Len(c2s') : c2s'[i].name = "resume"
<1>1. Take("resume") /\ c2s # <<>> /\ c2s' = Tail(c2s)
  BY DEF ServerHandlesResume, Take
<1>2. moduleQ = <<>> /\ Awaiting
  BY <1>1 DEF QueueInv, ResumingIsQuiet, Awaiting
<1>3. /\ Shorter(c2s, c2s') /\ Head(c2s) = c2s[1] /\ Len(c2s) > 0
      /\ DOMAIN c2s = 1..Len(c2s) /\ Len(c2s) \in Nat
  BY <1>1, ShorterTail, QueueTypes, LenProperties
<1>4. Head(c2s).sid = session /\ session = store.id
  BY <1>2, <1>3 DEF ControlInv, Resuming
<1>5. session \in 1..Len(sessions) /\ Head(c2s).arg \in Nat
  BY <1>1, <1>4, TakeType DEF NamesSession
<1>6. /\ \A i \in 1..Len(c2s) : c2s[i].name = "resume"
      /\ \A i \in 1..Len(c2s') : c2s'[i].name = "resume"
  BY <1>3 DEF QueueInv, ResumingIsQuiet, Shorter
<1> DEFINE h == Head(c2s).arg
           k == sessions[session].out - h
           again == [i \in 1..k |-> Element("stanza", h + i, session)]
<1>7. k \in Int
  <2>1. sessions[session] \in Session
    BY <1>5 DEF Inv, TypeOK, ServerTypeOK
  <2> QED  BY <1>5, <2>1 DEF Session
<1>8. PICK e : /\ \/ /\ sessions[session].alive /\ attached' = session
                     /\ e = Element("resumed", HandledCount(session), session)
                     /\ Arrives(<<e>>, again)
                  \/ /\ ~sessions[session].alive /\ attached' = 0
                     /\ e = Element("resumeFailed", 0, session)
                     /\ Arrives(<<e>>, <<>>)
               /\ conn' = "bound"
  <2>1. attached = 0
    BY DEF QueueInv, ResumingIsQuiet
  <2> QED  BY <1>4, <2>1 DEF ServerHandlesResume
<1> DEFINE T == {e} \cup {Element("stanza", h + i, session) : i \in 1..k}
<1>9. again \in Seq(T) /\ <<>> \in Seq(T) /\ (\A i \in DOMAIN again : again[i].name = "stanza")
  <2>1. again \in [1..k -> T]
    OBVIOUS
  <2>2. again \in Seq(T)
    <3> HIDE DEF k, again, T
    <3> QED  BY <1>7, <2>1, SeqOfFunction
  <2> QED  BY <2>2 DEF Element
<1>10. e \in T
  OBVIOUS
<1> HIDE DEF again, T, k
<1>11. PICK t \in Seq(T) : /\ Arrives(<<e>>, t) /\ \A i \in DOMAIN t : t[i].name = "stanza"
  <2>1. \A i \in DOMAIN <<>> : <<>>[i].name = "stanza"
    OBVIOUS
  <2> QED  BY <1>8, <1>9, <2>1
<1>12. moduleQ' = <<e>> \/ moduleQ' = <<e>> \o t
  <2> DEFINE q == <<e>>
  <2>1. q \in Seq(T) /\ moduleQ \o q = q
    BY <1>2, <1>10
  <2> HIDE DEF q
  <2>2. moduleQ' = q \/ moduleQ' = q \o t
    BY <1>11, <2>1 DEF Arrives, q
  <2> QED  BY <2>2 DEF q
<1>13. /\ 1 \in 1..Len(moduleQ') /\ moduleQ'[1] = e
       /\ \A i \in 1..Len(moduleQ') : i = 1 \/ moduleQ'[i].name = "stanza"
  <2>1. CASE moduleQ' = <<e>>
    BY <2>1
  <2>2. CASE moduleQ' = <<e>> \o t
    <3>1. /\ Len(<<e>> \o t) = 1 + Len(t) /\ Len(t) \in Nat
          /\ \A i \in 1..(1 + Len(t)) : (<<e>> \o t)[i] = IF i <= 1 THEN e ELSE t[i - 1]
      BY <1>10
    <3>2. \A i \in 1..(1 + Len(t)) : i = 1 \/ i - 1 \in DOMAIN t
      BY <3>1, LenProperties
    <3> QED  BY <1>11, <2>2, <3>1, <3>2
  <2> QED  BY <1>12, <2>1, <2>2
<1> QED  BY <1>2, <1>4, <1>5, <1>6, <1>8, <1>13

LEMMA ServerResumeControl ==
    ASSUME Inv, Inv', QueueInv, ArmedInv, ControlInv, ServerHandlesResume, conn = "resuming"
    PROVE  ControlInv'
<1>1. /\ UNCHANGED <<sessions, isStarted, enableQueued, enableSent, disconnectDate, prevUnacked,
                     store, draining, idQueries, unackedByClient, lastHandledByServer,
                     unprocessedAcks, session>>
  BY DEF ServerHandlesResume, moduleVars, flagVars, outVars, inVars, histVars
<1>2. /\ moduleQ = <<>> /\ Awaiting /\ conn' = "bound" /\ 1 \in 1..Len(moduleQ')
      /\ \A i \in 1..Len(moduleQ') : i = 1 \/ moduleQ'[i].name = "stanza"
      /\ session \in 1..Len(sessions) /\ session = store.id
      /\ \/ /\ sessions[session].alive /\ attached' = session
            /\ moduleQ'[1] = Element("resumed", HandledCount(session), session)
         \/ /\ ~sessions[session].alive /\ attached' = 0
            /\ moduleQ'[1] = Element("resumeFailed", 0, session)
      /\ \A i \in 1..Len(c2s') : c2s'[i].name = "resume"
  BY ServerAnswersResume
<1>3. \/ sessions[session].alive /\ attached' = session /\ moduleQ'[1].name = "resumed"
      \/ ~sessions[session].alive /\ attached' = 0 /\ moduleQ'[1].name = "resumeFailed"
  BY <1>2 DEF Element
<1>4. moduleQ' \in Seq(ElementSet) /\ c2s' \in Seq(ElementSet) /\ moduleQ' # <<>>
  BY <1>2, EmptySeq DEF Inv, TypeOK, StreamTypeOK
<1>5. /\ ~isStarted /\ ~enableSent /\ store.id # 0 /\ store.hs = lastHandledByServer
      /\ unprocessedAcks = <<>>
  BY <1>2 DEF ArmedInv, Quiet, Idle, Awaiting, ControlInv, Resuming
<1>6. ~Asking' /\ ~Posting' /\ ~Told' /\ ~Awaiting' /\ (Resumed' <=> moduleQ'[1].name = "resumed")
  <2>1. ~Holds(c2s', {"enable"})
    BY <1>2, <1>4, HoldsAt
  <2>2. ~Holds(moduleQ', {"didSendEnable"})
    BY <1>2, <1>3, <1>4, HoldsAt
  <2>3. Holds(moduleQ', {"resumed"}) <=> moduleQ'[1].name = "resumed"
    BY <1>2, <1>4, HoldsAt
  <2> QED  BY <1>1, <1>2, <1>5, <2>1, <2>2, <2>3 DEF Asking, Posting, Told, Resumed, Awaiting, Holds
<1>7. AskingOnce'
  BY <1>2, <1>3, <1>6 DEF AskingOnce, OneOf, Answers
<1>8. Answering'
  <2>1. Resumed' => Joined'
    <3> SUFFICES ASSUME Resumed' PROVE Holds(moduleQ', {"enabled", "resumed"})
      BY DEF Joined, Holds
    <3> QED  BY <1>2, <1>4, <1>6, HoldsAt
  <2> QED  BY <1>2, <1>3, <1>6, <2>1 DEF Answering
<1>9. Resuming'
  BY <1>1, <1>2, <1>3, <1>4, <1>5, <1>6 DEF Resuming
<1>10. Storing'
  BY <1>1, <1>2, <1>3, <1>5, <1>6 DEF ControlInv, Storing, Dead, Nothing
<1> QED  BY <1>7, <1>8, <1>9, <1>10 DEF ControlInv

-----------------------------------------------------------------------------
(* The steps that leave the outgoing half alone.                              *)

\* What the storage holds of it is as before, or what the module would write once the
\* connection is lost: the stanzas that arrived are still answered for then.
Keeping ==
    /\ store'.id = store.id
    /\ \/ /\ store'.hs = store.hs /\ store'.pending = store.pending
          /\ store'.date = store.date \/ (isStarted /\ store'.date = TRUE)
       \/ /\ ~isStarted /\ unackedByClient # <<>>
          /\ store'.hs = lastHandledByServer /\ store'.pending = unackedByServer
          /\ store'.date = disconnectDate
    /\ ~isStarted /\ unackedByClient = <<>> => unackedByClient' = <<>>

\* The sessions are the same and the server has handled no more in them.
SameLogs == /\ Len(sessions') = Len(sessions)
            /\ \A s \in 1..Len(sessions) : /\ sessions'[s].log = sessions[s].log
                                           /\ sessions'[s].alive => sessions[s].alive

Neutral ==
    /\ UNCHANGED <<conn, sent, attached, received, isStarted, enableQueued, enableSent,
                   disconnectDate, lastHandledByServer, unackedByServer, prevUnacked,
                   unprocessedAcks, draining, idQueries, session, reported, reports,
                   lost>>
    /\ SameLogs /\ Keeping

\* What it posts and writes, what it runs and the server reads.
Chat     == {e \in ElementSet : e.name \in {"stanza", "filtered", "r"} /\ conn = "bound"}
Requests == {e \in ElementSet : e.name = "r" /\ conn = "bound"}

Chatting ==
    /\ \E d : /\ Shifted(moduleQ, moduleQ', d, Chat)
              /\ d = 1 => moduleQ[1].name \in {"stanza", "filtered", "r", "closing"}
    /\ \E k : /\ Shifted(c2s, c2s', k, Requests)
              /\ k = 1 => c2s[1].name \in {"r", "close", "resume"}

LEMMA NeutralControl ==
    ASSUME Inv, Inv', QueueInv, ArmedInv, ControlInv, Neutral, Chatting
    PROVE  ControlInv'
<1>1. PICK d : /\ Shifted(moduleQ, moduleQ', d, Chat)
               /\ d = 1 => moduleQ[1].name \in {"stanza", "filtered", "r", "closing"}
  BY DEF Chatting
<1>2. PICK k : /\ Shifted(c2s, c2s', k, Requests)
               /\ k = 1 => c2s[1].name \in {"r", "close", "resume"}
  BY DEF Chatting
<1>3. Chat \subseteq Posts /\ Requests \subseteq Writes
  BY DEF Chat, Posts, Requests, Writes, Control
<1>4. Shifted(moduleQ, moduleQ', d, Posts) /\ Shifted(c2s, c2s', k, Writes)
  <2> HIDE DEF Chat, Posts, Requests, Writes
  <2> QED  BY <1>1, <1>2, <1>3, ShiftedMore
<1>5. Ordinary
  <2>1. UNCHANGED <<conn, attached, session, isStarted, enableQueued, enableSent, disconnectDate,
                    prevUnacked, lastHandledByServer, unprocessedAcks>>
    BY DEF Neutral
  <2>2. Lasting
    BY DEF Neutral, SameLogs, Lasting
  <2>3. /\ store'.id = store.id
        /\ store'.date \in {store.date, disconnectDate \/ isStarted}
        /\ isStarted => store'.hs = store.hs
        /\ store'.hs \in {store.hs, lastHandledByServer}
    <3>1. isStarted \in BOOLEAN /\ disconnectDate \in BOOLEAN
      BY DEF Inv, TypeOK, FlagTypeOK
    <3> QED  BY <3>1, Zenon DEF Neutral, Keeping
  <2>4. ~isStarted /\ Nothing => Nothing' /\ store'.date = store.date
    BY DEF Neutral, Keeping, Nothing
  <2> QED  BY <2>1, <2>2, <2>3, <2>4 DEF Ordinary
<1>6. /\ d = 1 => moduleQ[1].name \notin Control
      /\ k = 1 => c2s[1].name # "enable"
  BY <1>1, <1>2 DEF Control
<1> QED  BY <1>4, <1>5, <1>6, OrdinaryControl

-----------------------------------------------------------------------------
(* Queues.                                                                    *)

LEMMA ShiftedSame ==
    ASSUME NEW S, NEW q \in Seq(S), NEW more
    PROVE  Shifted(q, q, 0, more)
BY DEF Shifted

LEMMA ShiftedTail ==
    ASSUME NEW S, NEW q \in Seq(S), q # <<>>, NEW more
    PROVE  Shifted(q, Tail(q), 1, more) /\ Head(q) = q[1] /\ 1 \in 1..Len(q)
<1>1. Shorter(q, Tail(q)) /\ Head(q) = q[1] /\ Len(q) > 0
  BY ShorterTail
<1>2. Shifted(q, Tail(q), 1, {})
  BY <1>1, ShiftedShorter
<1>3. Shifted(q, Tail(q), 1, more)
  <2>1. PICK d, t, none : d = 1 /\ t = Tail(q) /\ none = {}
    OBVIOUS
  <2>2. Shifted(q, t, d, none) /\ none \subseteq more
    BY <1>2, <2>1
  <2> QED  BY <2>1, <2>2, ShiftedMore
<1> QED  BY <1>1, <1>3 DEF Shorter

LEMMA ShiftedAppend ==
    ASSUME NEW S, NEW q \in Seq(S), NEW e \in S, NEW more, e \in more
    PROVE  Shifted(q, Append(q, e), 0, more)
<1>1. PICK t : t = Append(q, e)
  OBVIOUS
<1>2. Longer(q, t, {e})
  BY <1>1, LongerAppend
<1>3. Shifted(q, t, 0, {e})
  BY <1>2, ShiftedLonger
<1>4. PICK d, one : d = 0 /\ one = {e}
  OBVIOUS
<1>5. Shifted(q, t, d, one) /\ one \subseteq more
  BY <1>3, <1>4
<1>6. Shifted(q, t, d, more)
  BY <1>5, ShiftedMore
<1> QED  BY <1>1, <1>4, <1>6

\* An <r/> is written only while the stream is connected.
LEMMA RequestWritten ==
    ASSUME Inv, c2s' = Written("r", 0)
    PROVE  Shifted(c2s, c2s', 0, Requests)
<1>1. Element("r", 0, 0) \in ElementSet /\ Element("r", 0, 0).name = "r"
  BY DEF Element, ElementSet, ElementName
<1>2. CASE conn = "bound"
  <2>1. c2s' = Append(c2s, Element("r", 0, 0)) /\ Element("r", 0, 0) \in Requests
    BY <1>1, <1>2 DEF Written, Requests
  <2> HIDE DEF Requests
  <2> QED  BY <1>1, <2>1, ShiftedAppend, QueueTypes
<1>3. CASE conn # "bound"
  <2>1. c2s' = c2s
    BY <1>3 DEF Written
  <2> HIDE DEF Requests
  <2> QED  BY <2>1, ShiftedSame, QueueTypes
<1> QED  BY <1>2, <1>3

LEMMA ChattingKept == ASSUME Inv, UNCHANGED <<moduleQ, c2s>> PROVE Chatting
<1> HIDE DEF Chat, Requests
<1>1. Shifted(moduleQ, moduleQ', 0, Chat) /\ Shifted(c2s, c2s', 0, Requests)
  BY QueueTypes, ShiftedSame
<1>2. PICK d : d = 0
  OBVIOUS
<1> QED  BY <1>1, <1>2 DEF Chatting

LEMMA ChattingTaken ==
    ASSUME Inv, UNCHANGED c2s, moduleQ # <<>>, moduleQ' = Tail(moduleQ),
           Head(moduleQ).name \in {"stanza", "filtered", "r", "closing"}
    PROVE  Chatting
<1> HIDE DEF Chat, Requests
<1>1. /\ Shifted(moduleQ, moduleQ', 1, Chat) /\ Shifted(c2s, c2s', 0, Requests)
      /\ moduleQ[1].name \in {"stanza", "filtered", "r", "closing"}
  BY QueueTypes, ShiftedSame, ShiftedTail
<1>2. PICK d, k : d = 1 /\ k = 0
  OBVIOUS
<1> QED  BY <1>1, <1>2 DEF Chatting

LEMMA ChattingRead ==
    ASSUME Inv, c2s # <<>>, c2s' = Tail(c2s), Head(c2s).name \in {"r", "close", "resume"},
           UNCHANGED moduleQ
    PROVE  Chatting
<1> HIDE DEF Chat, Requests
<1>1. /\ Shifted(moduleQ, moduleQ', 0, Chat) /\ Shifted(c2s, c2s', 1, Requests)
      /\ c2s[1].name \in {"r", "close", "resume"}
  BY QueueTypes, ShiftedSame, ShiftedTail
<1>2. PICK d, k : d = 1 /\ k = 0
  OBVIOUS
<1> QED  BY <1>1, <1>2 DEF Chatting

LEMMA ChattingPosted ==
    ASSUME Inv, UNCHANGED c2s, conn = "bound", NEW e \in ElementSet,
           e.name \in {"stanza", "filtered", "r"}, moduleQ' = Append(moduleQ, e)
    PROVE  Chatting
<1>1. e \in Chat
  BY DEF Chat
<1> HIDE DEF Chat, Requests
<1>2. Shifted(moduleQ, moduleQ', 0, Chat) /\ Shifted(c2s, c2s', 0, Requests)
  BY <1>1, QueueTypes, ShiftedSame, ShiftedAppend
<1>3. PICK d : d = 0
  OBVIOUS
<1> QED  BY <1>2, <1>3 DEF Chatting

\* An ack of the incoming half writes what the outgoing half stands at.
LEMMA AckKeeps ==
    ASSUME Inv, NEW u \in Seq(IncomingItem), SendAck(u) \/ MaybeSendAck(u),
           ~isStarted /\ unackedByClient = <<>> => u = <<>>
    PROVE  Keeping
<1>1. PICK offset : CountHandled(u, offset)
  BY Zenon DEF SendAck, MaybeSendAck
<1>2. /\ unackedByClient' = Drop(u, HandledPrefix(u))
      /\ \/ store' = store
         \/ HandledPrefix(u) > 0 /\ \E hc : store' = StoreHandled(hc)
  BY <1>1 DEF CountHandled
<1>3. u = <<>> => unackedByClient' = <<>> /\ store' = store
  BY <1>2, EmptyPrefix
<1>4. CASE store' = store
  BY <1>3, <1>4 DEF Keeping
<1>5. CASE u # <<>> /\ \E hc : store' = StoreHandled(hc)
  <2>1. PICK hc : store' = StoreHandled(hc)
    BY <1>5
  <2>2. store \in Storage
    BY DEF Inv, TypeOK
  <2>3. CASE isStarted
    <3>1. store'.id = store.id /\ store'.hs = store.hs /\ store'.pending = store.pending
          /\ store'.date = TRUE
      BY <2>1, <2>2, <2>3 DEF StoreHandled, Storage
    <3> QED  BY <2>3, <3>1 DEF Keeping
  <2>4. CASE ~isStarted
    <3>1. /\ store'.id = store.id /\ store'.hs = lastHandledByServer
          /\ store'.pending = unackedByServer /\ store'.date = disconnectDate
      BY <2>1, <2>2, <2>4 DEF StoreHandled, Storage
    <3> QED  BY <1>5, <2>4, <3>1 DEF Keeping
  <2> QED  BY <2>3, <2>4
<1> QED  BY <1>2, <1>3, <1>4, <1>5

LEMMA SameKeeps == ASSUME UNCHANGED <<store, unackedByClient>> PROVE Keeping
BY DEF Keeping

LEMMA SameSessions == ASSUME UNCHANGED sessions PROVE SameLogs
BY DEF SameLogs

\* Stanzas and requests that arrive.
LEMMA IncomingNeutral ==
    ASSUME Inv, HandleStanza \/ HandleFiltered \/ HandleRequest
    PROVE  Neutral /\ Chatting
<1>1. /\ moduleQ # <<>> /\ moduleQ' = Tail(moduleQ)
      /\ Head(moduleQ).name \in {"stanza", "filtered", "r"}
      /\ UNCHANGED <<streamVars, c2s, serverVars, flagVars, outVars, session, reported, reports,
                     lost>>
  BY DEF HandleStanza, HandleFiltered, HandleRequest, Next_is, histVars
<1>2. unackedByClient \in Seq(IncomingItem)
  BY DEF Inv, TypeOK, InTypeOK
<1>3. Keeping
  <2>1. CASE HandleStanza
    <3>1. CASE ~isStarted
      BY <2>1, <3>1, SameKeeps DEF HandleStanza, inVars
    <3>2. CASE isStarted /\ AsyncHandled
      <4>1. UNCHANGED store
        BY <2>1, <3>2 DEF HandleStanza
      <4> QED  BY <3>2, <4>1 DEF Keeping
    <3>3. CASE isStarted /\ ~AsyncHandled
      <4>1. PICK known \in BOOLEAN, handled \in BOOLEAN :
              MaybeSendAck(Append(unackedByClient, Incoming(objects + 1, Head(moduleQ).sid,
                                                    Head(moduleQ).arg, known, handled)))
        BY <2>1, <3>3 DEF HandleStanza
      <4> QED  BY <1>1, <3>3, <4>1, IncomingType, AckKeeps
    <3> QED  BY <3>1, <3>2, <3>3
  <2>2. CASE HandleFiltered
    <3>1. CASE ~isStarted
      BY <2>2, <3>1, SameKeeps DEF HandleFiltered
    <3>2. CASE isStarted
      <4>1. PICK known \in BOOLEAN, handled \in BOOLEAN :
              MaybeSendAck(Append(unackedByClient, Incoming(objects + 1, Head(moduleQ).sid,
                                                    Head(moduleQ).arg, known, handled)))
        BY <2>2, <3>2 DEF HandleFiltered
      <4> QED  BY <1>1, <3>2, <4>1, IncomingType, AckKeeps
    <3> QED  BY <3>1, <3>2
  <2>3. CASE HandleRequest
    <3>1. CASE AckDelay
      BY <2>3, <3>1, SameKeeps DEF HandleRequest
    <3>2. CASE ~AckDelay
      BY <1>2, <2>3, <3>2, AckKeeps DEF HandleRequest
    <3> QED  BY <3>1, <3>2
  <2> QED  BY <2>1, <2>2, <2>3
<1>4. Neutral
  BY <1>1, <1>3, SameSessions DEF Neutral, streamVars, serverVars, flagVars, outVars
<1> QED  BY <1>1, <1>4, ChattingTaken

\* The delegates' answers about them, and the acks that the module sends.
LEMMA HandledNeutral ==
    ASSUME Inv, DelegateDecides \/ AnswerHandled \/ MarkHandledStanzaId \/ CallSendAck
    PROVE  Neutral /\ Chatting
<1>1. UNCHANGED <<streamVars, c2s, moduleQ, serverVars, flagVars, outVars, session, reported,
                  reports, lost>>
  BY DEF DelegateDecides, AnswerHandled, MarkHandledStanzaId, CallSendAck, histVars
<1>2. unackedByClient \in Seq(IncomingItem)
  BY DEF Inv, TypeOK, InTypeOK
<1>3. Keeping
  <2>1. CASE DelegateDecides
    BY <2>1, SameKeeps DEF DelegateDecides
  <2>2. CASE CallSendAck
    BY <1>2, <2>2, AckKeeps DEF CallSendAck
  <2>3. CASE AnswerHandled
    <3>1. PICK x \in handledAnswers :
             LET handled == x.handled \/ MarkedEarly(x)
                 u == [i \in DOMAIN unackedByClient |->
                         IF unackedByClient[i].obj = x.obj
                         THEN Incoming(x.obj, x.sid, x.n, ~x.handled, handled)
                         ELSE unackedByClient[i]]
             IN IF handled THEN MaybeSendAck(u)
                ELSE unackedByClient' = u /\ UNCHANGED store
      BY <2>3 DEF AnswerHandled
    <3> DEFINE handled == x.handled \/ MarkedEarly(x)
               item    == Incoming(x.obj, x.sid, x.n, ~x.handled, handled)
               u == [i \in DOMAIN unackedByClient |->
                       IF unackedByClient[i].obj = x.obj THEN item ELSE unackedByClient[i]]
    <3>2. x \in IncomingItem
      BY DEF Inv, TypeOK, InTypeOK
    <3>3. item \in IncomingItem
      BY <3>2 DEF Incoming, IncomingItem, MarkedEarly
    <3>4. u \in Seq(IncomingItem) /\ Len(u) = Len(unackedByClient)
      <4>1. DOMAIN u = DOMAIN unackedByClient /\ u = [i \in DOMAIN u |-> u[i]]
        OBVIOUS
      <4>2. \A i \in DOMAIN unackedByClient : u[i] \in IncomingItem
        BY <1>2, <3>3
      <4> HIDE DEF u
      <4> QED  BY <1>2, <4>1, <4>2, SeqReplaced
    <3>5. unackedByClient = <<>> => u = <<>>
      BY <1>2, <3>4, EmptySeq
    <3>6. CASE handled
      BY <3>1, <3>4, <3>5, <3>6, AckKeeps
    <3>7. CASE ~handled
      BY <3>1, <3>5, <3>7 DEF Keeping
    <3> QED  BY <3>6, <3>7
  <2>4. CASE MarkHandledStanzaId
    <3>1. \/ UNCHANGED <<unackedByClient, store>>
          \/ \E first : MaybeSendAck([unackedByClient EXCEPT ![first].handled = TRUE])
      BY <2>4 DEF MarkHandledStanzaId
    <3>2. ASSUME NEW first, MaybeSendAck([unackedByClient EXCEPT ![first].handled = TRUE])
          PROVE  Keeping
      <4> DEFINE u == [unackedByClient EXCEPT ![first].handled = TRUE]
      <4>1. DOMAIN u = DOMAIN unackedByClient /\ u = [i \in DOMAIN u |-> u[i]]
        OBVIOUS
      <4>2. \A i \in DOMAIN unackedByClient : unackedByClient[i] \in IncomingItem
        BY <1>2
      <4>3. \A i \in DOMAIN unackedByClient : u[i] \in IncomingItem
        BY <4>2 DEF IncomingItem
      <4> HIDE DEF u
      <4>4. u \in Seq(IncomingItem) /\ Len(u) = Len(unackedByClient)
        BY <1>2, <4>1, <4>3, SeqReplaced
      <4>5. unackedByClient = <<>> => u = <<>>
        BY <1>2, <4>4, EmptySeq
      <4>6. MaybeSendAck(u)
        BY <3>2 DEF u
      <4> QED  BY <4>4, <4>5, <4>6, AckKeeps
    <3> QED  BY <3>1, <3>2, SameKeeps
  <2> QED  BY <2>1, <2>2, <2>3, <2>4
<1>4. Neutral
  BY <1>1, <1>3, SameSessions DEF Neutral, streamVars, serverVars, flagVars, outVars
<1> QED  BY <1>1, <1>4, ChattingKept

\* Requests for acks, the closing of the stream, the willReceiveStanzaQueue, and nothing.
LEMMA OtherNeutral ==
    ASSUME Inv, \/ AutoRequestTimerFires \/ CallRequestAck \/ HandleClosing \/ ContinueReceive
                \/ UNCHANGED vars
    PROVE  Neutral /\ Chatting
<1>1. UNCHANGED <<conn, sent, attached, received, isStarted, enableQueued, enableSent,
                  disconnectDate, lastHandledByServer, unackedByServer, prevUnacked,
                  unprocessedAcks, draining, idQueries, session, reported, reports, lost, sessions,
                  store, unackedByClient>>
  BY DEF AutoRequestTimerFires, CallRequestAck, HandleClosing, ContinueReceive, vars, streamVars,
         serverVars, flagVars, outVars, inVars, histVars, moduleVars
<1>2. Neutral
  BY <1>1, SameSessions, SameKeeps DEF Neutral
<1>3. Chatting
  <2>1. CASE AutoRequestTimerFires \/ CallRequestAck
    <3>1. UNCHANGED moduleQ /\ (c2s' = c2s \/ c2s' = Written("r", 0))
      BY <2>1 DEF AutoRequestTimerFires, CallRequestAck, RequestAck
    <3>2. CASE c2s' = c2s
      BY <3>1, <3>2, ChattingKept
    <3>3. CASE c2s' = Written("r", 0)
      <4> HIDE DEF Chat, Requests
      <4>1. Shifted(moduleQ, moduleQ', 0, Chat) /\ Shifted(c2s, c2s', 0, Requests)
        BY <3>1, <3>3, RequestWritten, ShiftedSame, QueueTypes
      <4>2. PICK d : d = 0
        OBVIOUS
      <4> QED  BY <4>1, <4>2 DEF Chatting
    <3> QED  BY <3>1, <3>2, <3>3
  <2>2. CASE HandleClosing
    BY <2>2, ChattingTaken DEF HandleClosing, Next_is
  <2>3. CASE ContinueReceive
    <3>1. willQ \in Seq(ElementSet) /\ willQ # <<>> /\ UNCHANGED c2s
      BY <2>3 DEF ContinueReceive, Inv, TypeOK, StreamTypeOK
    <3>2. CASE conn = "bound"
      <4>1. PICK name \in {"stanza", "filtered"} :
              moduleQ' = Append(moduleQ, [Head(willQ) EXCEPT !.name = name])
        BY <2>3, <3>2 DEF ContinueReceive
      <4>2. Head(willQ) \in ElementSet
        BY <3>1, HeadTailProperties
      <4>3. /\ [Head(willQ) EXCEPT !.name = name] \in ElementSet
            /\ [Head(willQ) EXCEPT !.name = name].name = name
        BY <4>2 DEF ElementSet, ElementName
      <4>4. name \in {"stanza", "filtered", "r"}
        OBVIOUS
      <4> QED  BY <3>1, <3>2, <4>1, <4>3, <4>4, ChattingPosted
    <3>3. CASE conn # "bound"
      BY <2>3, <3>3, ChattingKept DEF ContinueReceive
    <3> QED  BY <3>2, <3>3
  <2>4. CASE UNCHANGED vars
    BY <2>4, ChattingKept DEF vars
  <2> QED  BY <2>1, <2>2, <2>3, <2>4
<1> QED  BY <1>2, <1>3

LEMMA ArrivesChatting ==
    ASSUME Inv, conn \in {"bound", "closed"}, UNCHANGED c2s,
           NEW e \in ElementSet, e.name \in {"stanza", "filtered", "r"},
           Arrives(<<e>>, <<>>) \/ Arrives(<<>>, <<e>>)
    PROVE  Chatting
<1>1. UNCHANGED moduleQ \/ (conn = "bound" /\ moduleQ' = Append(moduleQ, e))
  BY ArrivedOrLost
<1> QED  BY <1>1, ChattingKept, ChattingPosted

LEMMA SessionTypes ==
    ASSUME Inv
    PROVE  /\ sessions \in Seq(Session) /\ Len(sessions) \in Nat
           /\ DOMAIN sessions = 1..Len(sessions)
           /\ \A s \in 1..Len(sessions) : sessions[s] \in Session /\ sessions[s].out \in Nat
BY OutIsNat, LenProperties DEF Inv, TypeOK, ServerTypeOK

\* The server: all but its answers, what it handles and its acks.
LEMMA ServerNeutral ==
    ASSUME Inv, QueueInv,
           \/ ServerHandlesClose \/ ServerSendsRequest \/ ServerSendsStanza \/ ServerExpires
           \/ (ServerHandlesResume /\ conn # "resuming")
           \/ (ServerHandlesRequest /\ (attached = 0 \/ conn = "closed"))
    PROVE  Neutral /\ Chatting
<1>1. UNCHANGED <<conn, sent, attached, received, isStarted, enableQueued, enableSent,
                  disconnectDate, lastHandledByServer, unackedByServer, prevUnacked,
                  unprocessedAcks, draining, idQueries, session, reported, reports, lost, store,
                  unackedByClient>>
  BY DEF ServerHandlesClose, ServerSendsRequest, ServerSendsStanza, ServerExpires,
         ServerHandlesResume, ServerHandlesRequest, streamVars, serverVars, flagVars, outVars,
         inVars, histVars, moduleVars
<1>2. SameLogs
  <2>1. \/ UNCHANGED sessions
        \/ \E s \in 1..Len(sessions) : \/ sessions' = [sessions EXCEPT ![s].alive = FALSE]
                                       \/ sessions' = [sessions EXCEPT ![s].out = @ + 1]
    <3>1. attached # 0 => attached \in 1..Len(sessions)
      BY SessionTypes DEF Inv, SessionsKnown
    <3>2. CASE ServerHandlesClose
      BY <3>1, <3>2 DEF ServerHandlesClose
    <3>3. CASE ServerSendsStanza
      BY <3>1, <3>3, SessionTypes DEF ServerSendsStanza
    <3>4. CASE ServerExpires
      BY <3>4, SessionTypes DEF ServerExpires
    <3>5. CASE ServerSendsRequest \/ ServerHandlesResume \/ ServerHandlesRequest
      BY <3>5 DEF ServerSendsRequest, ServerHandlesResume, ServerHandlesRequest, serverVars
    <3> QED  BY <3>2, <3>3, <3>4, <3>5
  <2>2. CASE UNCHANGED sessions
    BY <2>2, SameSessions
  <2>3. ASSUME NEW s \in 1..Len(sessions), sessions' = [sessions EXCEPT ![s].alive = FALSE]
        PROVE  SameLogs
    <3>1. sessions[s] \in Session
      BY SessionTypes
    <3>2. /\ Len(sessions') = Len(sessions)
          /\ \A u \in 1..Len(sessions) : u # s => sessions'[u] = sessions[u]
          /\ sessions'[s] = [sessions[s] EXCEPT !.alive = FALSE]
      BY <2>3, SessionTypes
    <3> QED  BY <3>1, <3>2 DEF SameLogs, Session
  <2>4. ASSUME NEW s \in 1..Len(sessions), sessions' = [sessions EXCEPT ![s].out = @ + 1]
        PROVE  SameLogs
    <3>1. sessions[s] \in Session
      BY SessionTypes
    <3>2. /\ Len(sessions') = Len(sessions)
          /\ \A u \in 1..Len(sessions) : u # s => sessions'[u] = sessions[u]
          /\ sessions'[s] = [sessions[s] EXCEPT !.out = @ + 1]
      BY <2>4, SessionTypes
    <3> QED  BY <3>1, <3>2 DEF SameLogs, Session
  <2> QED  BY <2>1, <2>2, <2>3, <2>4
<1>3. Neutral
  BY <1>1, <1>2, SameKeeps DEF Neutral
<1>4. Chatting
  <2>1. CASE ServerHandlesClose
    BY <2>1, ChattingRead DEF ServerHandlesClose, Take
  <2>2. CASE ServerHandlesResume /\ conn # "resuming"
    BY <2>2, ChattingRead DEF ServerHandlesResume, Take
  <2>3. CASE ServerHandlesRequest /\ (attached = 0 \/ conn = "closed")
    <3>1. UNCHANGED moduleQ
      BY <2>3 DEF ServerHandlesRequest, Arrives
    <3> QED  BY <2>3, <3>1, ChattingRead DEF ServerHandlesRequest, Take
  <2>4. CASE ServerSendsRequest
    <3>1. PICK e : e = Element("r", 0, 0)
      OBVIOUS
    <3>2. e \in ElementSet /\ e.name = "r"
      BY <3>1 DEF Element, ElementSet, ElementName
    <3>3. conn = "bound" /\ Arrives(<<e>>, <<>>) /\ UNCHANGED c2s
      BY <2>4, <3>1 DEF ServerSendsRequest
    <3> QED  BY <3>2, <3>3, ArrivesChatting
  <2>5. CASE ServerSendsStanza
    <3>1. CASE attached # 0 \/ conn = "bound"
      <4>1. conn \in {"bound", "closed"}
        BY <3>1, AttachedIsBound
      <4>2. PICK arg \in Nat, sid \in Nat : Arrives(<<>>, <<Element("stanza", arg, sid)>>)
        <5>1. attached # 0 => sessions[attached].out + 1 \in Nat /\ attached \in Nat
          BY SessionTypes DEF Inv, SessionsKnown
        <5> QED  BY <2>5, <3>1, <5>1 DEF ServerSendsStanza
      <4>3. PICK e : e = Element("stanza", arg, sid)
        OBVIOUS
      <4>4. e \in ElementSet /\ e.name = "stanza"
        BY <4>3 DEF Element, ElementSet, ElementName
      <4> QED  BY <2>5, <4>1, <4>2, <4>3, <4>4, ArrivesChatting DEF ServerSendsStanza
    <3>2. CASE attached = 0 /\ conn # "bound"
      BY <2>5, <3>2, ChattingKept DEF ServerSendsStanza
    <3> QED  BY <3>1, <3>2
  <2>6. CASE ServerExpires
    BY <2>6, ChattingKept DEF ServerExpires
  <2> QED  BY <2>1, <2>2, <2>3, <2>4, <2>5, <2>6
<1> QED  BY <1>3, <1>4

-----------------------------------------------------------------------------
(* The other steps of a session keep its control.                             *)

LEMMA StandingOrdinary ==
    ASSUME Lasting,
           UNCHANGED <<conn, attached, session, isStarted, enableQueued, enableSent,
                       disconnectDate, prevUnacked, store, lastHandledByServer,
                       unprocessedAcks, unackedByClient, idQueries, draining>>
    PROVE  Ordinary
BY DEF Ordinary, Nothing

LEMMA SendControl ==
    ASSUME Inv, Inv', QueueInv, ArmedInv, ControlInv, SendStanza
    PROVE  ControlInv'
<1>1. /\ conn = "bound" /\ c2s' = Append(c2s, Element("stanza", sent + 1, 0))
      /\ moduleQ' = Append(moduleQ, Element("didSend", sent + 1, 0))
      /\ UNCHANGED <<conn, sessions, attached, session, isStarted, enableQueued, enableSent,
                     disconnectDate, prevUnacked, store, lastHandledByServer,
                     unprocessedAcks, unackedByClient, idQueries, draining>>
  BY DEF SendStanza, serverVars, moduleVars, flagVars, outVars, inVars, histVars
<1>2. Ordinary
  BY <1>1, StandingOrdinary DEF Lasting
<1>3. sent + 1 \in Nat
  BY DEF Inv, TypeOK, StreamTypeOK
<1>4. /\ Element("stanza", sent + 1, 0) \in ElementSet /\ Element("didSend", sent + 1, 0) \in ElementSet
      /\ Element("stanza", sent + 1, 0) \in Writes /\ Element("didSend", sent + 1, 0) \in Posts
  BY <1>1, <1>3 DEF Element, ElementSet, ElementName, Writes, Posts, Control
<1> HIDE DEF Writes, Posts
<1>5. Shifted(moduleQ, moduleQ', 0, Posts) /\ Shifted(c2s, c2s', 0, Writes)
  BY <1>1, <1>4, QueueTypes, ShiftedAppend
<1>6. PICK d, k : d = 0 /\ k = 0
  OBVIOUS
<1> QED  BY <1>2, <1>5, <1>6, OrdinaryControl

LEMMA ServerStanzaControl ==
    ASSUME Inv, Inv', QueueInv, ArmedInv, ControlInv, ServerHandlesStanza
    PROVE  ControlInv'
<1>1. /\ c2s # <<>> /\ c2s' = Tail(c2s) /\ Head(c2s).name = "stanza"
      /\ UNCHANGED <<conn, moduleQ, attached, session, isStarted, enableQueued, enableSent,
                     disconnectDate, prevUnacked, store, lastHandledByServer,
                     unprocessedAcks, unackedByClient, idQueries, draining>>
      /\ UNCHANGED sessions \/ (attached # 0 /\ \E l : sessions' = [sessions EXCEPT ![attached].log = l])
  BY DEF ServerHandlesStanza, Take, streamVars, moduleVars, flagVars, outVars, inVars, histVars
<1>2. Lasting
  <2>1. CASE UNCHANGED sessions
    BY <2>1 DEF Lasting
  <2>2. CASE attached # 0 /\ \E l : sessions' = [sessions EXCEPT ![attached].log = l]
    BY <2>2, SessionTypes DEF Lasting, Session
  <2> QED  BY <1>1, <2>1, <2>2
<1>3. Ordinary
  BY <1>1, <1>2, StandingOrdinary
<1> HIDE DEF Writes, Posts
<1>4. /\ Shifted(moduleQ, moduleQ', 0, Posts) /\ Shifted(c2s, c2s', 1, Writes)
      /\ c2s[1].name = "stanza"
  BY <1>1, QueueTypes, ShiftedSame, ShiftedTail
<1>5. PICK d, k : d = 0 /\ k = 1
  OBVIOUS
<1> QED  BY <1>3, <1>4, <1>5, OrdinaryControl

\* The server's <a/>, asked for or not.
LEMMA ServerAckArrives ==
    ASSUME Inv, QueueInv, attached # 0, conn # "closed", ServerHandlesRequest \/ ServerSendsAck
    PROVE  /\ conn = "bound" /\ attached \in 1..Len(sessions)
           /\ moduleQ' = Append(moduleQ, Element("a", HandledCount(attached), 0))
           /\ Element("a", HandledCount(attached), 0) \in ElementSet
           /\ c2s' = c2s \/ (c2s # <<>> /\ c2s' = Tail(c2s) /\ c2s[1].name = "r")
           /\ UNCHANGED <<conn, sent, serverVars, moduleVars, histVars>>
<1>1. /\ Arrives(<<Element("a", HandledCount(attached), 0)>>, <<>>)
      /\ UNCHANGED <<conn, sent, serverVars, moduleVars, histVars>>
      /\ c2s' = c2s \/ (c2s # <<>> /\ c2s' = Tail(c2s) /\ Head(c2s).name = "r")
  BY DEF ServerHandlesRequest, ServerSendsAck, Take, streamVars
<1>2. conn = "bound"
  BY AttachedIsBound
<1>3. attached \in 1..Len(sessions) /\ sessions[attached].log \in Seq(Nat)
  BY SessionTypes DEF Inv, SessionsKnown, Session
<1>4. HandledCount(attached) \in Nat
  <2>1. Len(sessions[attached].log) \in Nat
    BY <1>3
  <2> QED  BY <2>1, RemainderLess DEF HandledCount
<1>5. Element("a", HandledCount(attached), 0) \in ElementSet
  BY <1>4 DEF Element, ElementSet, ElementName
<1>6. PICK e : e = Element("a", HandledCount(attached), 0)
  OBVIOUS
<1>7. moduleQ' = Append(moduleQ, e)
  BY <1>1, <1>2, <1>6, ArrivedOrLost
<1>8. c2s # <<>> => Head(c2s) = c2s[1]
  BY QueueTypes, ShiftedTail
<1> QED  BY <1>1, <1>2, <1>3, <1>5, <1>6, <1>7, <1>8

LEMMA ServerAckControl ==
    ASSUME Inv, Inv', QueueInv, ArmedInv, ControlInv, attached # 0, conn # "closed",
           ServerHandlesRequest \/ ServerSendsAck
    PROVE  ControlInv'
<1>1. PICK e \in ElementSet :
         /\ e.name = "a" /\ moduleQ' = Append(moduleQ, e) /\ conn = "bound"
         /\ c2s' = c2s \/ (c2s # <<>> /\ c2s' = Tail(c2s) /\ c2s[1].name = "r")
         /\ UNCHANGED <<conn, sent, serverVars, moduleVars, histVars>>
  BY ServerAckArrives DEF Element
<1>2. Ordinary
  BY <1>1, StandingOrdinary DEF Lasting, serverVars, moduleVars, flagVars, outVars, inVars, histVars
<1>3. e \in Posts
  BY <1>1 DEF Posts, Control
<1> HIDE DEF Writes, Posts
<1>4. PICK k : Shifted(c2s, c2s', k, Writes) /\ (k = 1 => c2s[1].name # "enable")
  <2>1. CASE c2s' = c2s
    <3>1. Shifted(c2s, c2s', 0, Writes)
      BY <2>1, ShiftedSame, QueueTypes
    <3>2. PICK k : k = 0
      OBVIOUS
    <3> QED  BY <3>1, <3>2
  <2>2. CASE c2s # <<>> /\ c2s' = Tail(c2s) /\ c2s[1].name = "r"
    <3>1. Shifted(c2s, c2s', 1, Writes)
      BY <2>2, ShiftedTail, QueueTypes
    <3>2. PICK k : k = 1
      OBVIOUS
    <3> QED  BY <2>2, <3>1, <3>2
  <2> QED  BY <1>1, <2>1, <2>2
<1>5. PICK d : d = 0 /\ Shifted(moduleQ, moduleQ', d, Posts)
  <2>1. Shifted(moduleQ, moduleQ', 0, Posts)
    BY <1>1, <1>3, QueueTypes, ShiftedAppend
  <2>2. PICK d : d = 0
    OBVIOUS
  <2> QED  BY <2>1, <2>2
<1> QED  BY <1>2, <1>4, <1>5, OrdinaryControl

LEMMA StoreOutgoingParts ==
    ASSUME Inv, NEW hs, NEW pending, store' = StoreOutgoing(hs, pending)
    PROVE  /\ store'.id = store.id /\ store'.hs = hs /\ store'.pending = pending
           /\ store'.date = (disconnectDate \/ isStarted)
<1>1. store \in Storage /\ isStarted \in BOOLEAN /\ disconnectDate \in BOOLEAN
  BY DEF Inv, TypeOK, FlagTypeOK
<1>2. CASE isStarted
  BY <1>1, <1>2 DEF StoreOutgoing, Storage
<1>3. CASE ~isStarted
  BY <1>1, <1>3 DEF StoreOutgoing, Storage
<1> QED  BY <1>2, <1>3

LEMMA DidSendControl ==
    ASSUME Inv, Inv', QueueInv, ArmedInv, ControlInv, HandleDidSend
    PROVE  ControlInv'
<1>1. /\ moduleQ # <<>> /\ moduleQ' = Tail(moduleQ) /\ Head(moduleQ).name = "didSend"
      /\ UNCHANGED <<conn, sessions, attached, session, isStarted, enableQueued, enableSent,
                     disconnectDate, prevUnacked, lastHandledByServer, unprocessedAcks,
                     unackedByClient, draining>>
      /\ UNCHANGED <<store, idQueries>>
         \/ ((isStarted \/ enableSent)
             /\ (store' = store \/ \E p : store' = StoreOutgoing(lastHandledByServer, p)))
      /\ c2s' = c2s \/ c2s' = Written("r", 0)
  BY Zenon DEF HandleDidSend, MaybeRequestAck, RequestAck, Next_is, streamVars, serverVars, flagVars, inVars, histVars
<1>2. Ordinary
  <2>1. Lasting
    BY <1>1 DEF Lasting
  <2>2. CASE UNCHANGED <<store, idQueries>>
    BY <1>1, <2>1, <2>2, StandingOrdinary
  <2>3. CASE (isStarted \/ enableSent) /\ store' = store
    BY <1>1, <2>1, <2>3 DEF Ordinary, Told
  <2>4. CASE (isStarted \/ enableSent) /\ \E p : store' = StoreOutgoing(lastHandledByServer, p)
    <3>1. /\ store'.id = store.id /\ store'.hs = lastHandledByServer
          /\ store'.date = (disconnectDate \/ isStarted)
      BY <2>4, StoreOutgoingParts
    <3> QED  BY <1>1, <2>1, <2>4, <3>1 DEF Ordinary, Told
  <2> QED  BY <1>1, <2>2, <2>3, <2>4
<1>3. PICK d, k : /\ d = 1 /\ Shifted(moduleQ, moduleQ', d, Posts) /\ moduleQ[1].name \notin Control
                  /\ k = 0 /\ Shifted(c2s, c2s', k, Writes)
  <2>1. Requests \subseteq Writes /\ "didSend" \notin Control
    BY DEF Requests, Writes, Control
  <2> HIDE DEF Posts, Writes, Requests, Control
  <2>2. Shifted(moduleQ, moduleQ', 1, Posts) /\ Head(moduleQ) = moduleQ[1]
    BY <1>1, QueueTypes, ShiftedTail
  <2>3. Shifted(c2s, c2s', 0, Requests)
    BY <1>1, QueueTypes, ShiftedSame, RequestWritten
  <2>4. PICK d, k : d = 1 /\ k = 0
    OBVIOUS
  <2>5. Shifted(c2s, c2s', k, Writes)
    BY <2>1, <2>3, <2>4, ShiftedMore
  <2> QED  BY <1>1, <2>1, <2>2, <2>4, <2>5
<1> HIDE DEF Posts, Writes
<1> QED  BY <1>2, <1>3, OrdinaryControl

\* What processing an ack writes.
LEMMA ProcessAckStores ==
    ASSUME Inv, NEW h, ProcessAck(h)
    PROVE  \/ UNCHANGED <<store, lastHandledByServer, unackedByServer>>
           \/ /\ store'.id = store.id /\ store'.hs = lastHandledByServer'
              /\ store'.pending = unackedByServer'
              /\ store'.date = (disconnectDate \/ isStarted)
<1>1. \/ UNCHANGED <<store, lastHandledByServer, unackedByServer>>
      \/ store' = StoreOutgoing(lastHandledByServer', unackedByServer')
  BY DEF ProcessAck
<1> QED  BY <1>1, StoreOutgoingParts

LEMMA AckControl ==
    ASSUME Inv, Inv', QueueInv, ArmedInv, ControlInv, HandleAck
    PROVE  ControlInv' /\ isStarted /\ moduleQ[1].name = "a" /\ 1 \in 1..Len(moduleQ)
<1>1. /\ moduleQ # <<>> /\ moduleQ' = Tail(moduleQ) /\ Head(moduleQ).name = "a"
      /\ UNCHANGED <<conn, c2s, sessions, attached, session, isStarted, enableQueued, enableSent,
                     disconnectDate, prevUnacked, unackedByClient, draining, idQueries>>
      /\ \E h : ProcessAck(h)
  BY DEF HandleAck, Next_is, streamVars, serverVars, flagVars, inVars
<1>2. /\ Shifted(moduleQ, moduleQ', 1, Posts) /\ moduleQ[1].name = "a" /\ 1 \in 1..Len(moduleQ)
      /\ Shifted(c2s, c2s', 0, Writes)
  <2> HIDE DEF Posts, Writes
  <2> QED  BY <1>1, QueueTypes, ShiftedTail, ShiftedSame
<1>3. isStarted
  BY <1>2, FirstIsFirst DEF ControlInv, Answering
<1>4. Ordinary
  <2>1. Lasting
    BY <1>1 DEF Lasting
  <2> QED  BY <1>1, <1>3, <2>1, ProcessAckStores DEF Ordinary
<1>5. PICK d, k : d = 1 /\ k = 0
  OBVIOUS
<1>6. moduleQ[1].name \notin Control
  BY <1>2 DEF Control
<1> HIDE DEF Posts, Writes, Control
<1>7. ControlInv'
  BY <1>2, <1>4, <1>5, <1>6, OrdinaryControl
<1> QED  BY <1>2, <1>3, <1>7

LEMMA DrainControl ==
    ASSUME Inv, Inv', QueueInv, ArmedInv, ControlInv, Drain \/ AnswerStanzaId
    PROVE  ControlInv'
<1>1. UNCHANGED <<conn, c2s, moduleQ, sessions, attached, session, isStarted, enableQueued,
                  enableSent, disconnectDate, prevUnacked, unackedByClient>>
  BY DEF Drain, DrainAck, DrainBlocked, DrainDone, AnswerStanzaId, streamVars, serverVars,
         flagVars, inVars, histVars
<1>2. Lasting
  BY <1>1 DEF Lasting
<1>3. Ordinary
  <2>1. CASE AnswerStanzaId
    <3>1. /\ UNCHANGED <<store, lastHandledByServer, unprocessedAcks>> /\ idQueries # {}
      BY <2>1 DEF AnswerStanzaId
    <3> QED  BY <1>1, <1>2, <3>1 DEF Ordinary, Nothing
  <2>2. CASE DrainAck
    <3>1. /\ draining # "idle" /\ unprocessedAcks # <<>> /\ \E h : ProcessAck(h)
      BY <2>2 DEF DrainAck
    <3> QED  BY <1>1, <1>2, <3>1, ProcessAckStores DEF Ordinary, Nothing
  <2>3. CASE DrainBlocked
    <3>1. /\ draining # "idle" /\ unprocessedAcks # <<>>
          /\ \/ \E h : ProcessAck(h)
             \/ /\ store' = StoreOutgoing(lastHandledByServer, unackedByServer)
                /\ UNCHANGED lastHandledByServer
      BY <2>3, Zenon DEF DrainBlocked
    <3> QED  BY <1>1, <1>2, <3>1, ProcessAckStores, StoreOutgoingParts DEF Ordinary, Nothing
  <2>4. CASE DrainDone
    <3>1. /\ draining # "idle" /\ UNCHANGED <<unprocessedAcks, lastHandledByServer>>
          /\ \/ store' = store
             \/ store' = StoreOutgoing(lastHandledByServer, unackedByServer)
      BY <2>4 DEF DrainDone
    <3> QED  BY <1>1, <1>2, <3>1, StoreOutgoingParts DEF Ordinary, Nothing
  <2> QED  BY <2>1, <2>2, <2>3, <2>4 DEF Drain
<1>4. Shifted(moduleQ, moduleQ', 0, Posts) /\ Shifted(c2s, c2s', 0, Writes)
  <2> HIDE DEF Posts, Writes
  <2> QED  BY <1>1, QueueTypes, ShiftedSame
<1>5. PICK d, k : d = 0 /\ k = 0
  OBVIOUS
<1> HIDE DEF Posts, Writes, Control
<1> QED  BY <1>3, <1>4, <1>5, OrdinaryControl

\* The steps between which the control of a session moves; the others are the neutral ones.
LEMMA ControlPreserved ==
    ASSUME Inv, Inv', QueueInv, ArmedInv, ControlInv, AlwaysResumes, [Next]_vars
    PROVE  ControlInv'
<1>1. CASE UNCHANGED vars
  BY <1>1, OtherNeutral, NeutralControl
<1>2. CASE HandleCallback
  <2>1. CASE HandleStanza \/ HandleFiltered \/ HandleRequest
    BY <2>1, IncomingNeutral, NeutralControl
  <2>2. CASE HandleClosing
    BY <2>2, OtherNeutral, NeutralControl
  <2>3. CASE HandleDidSend \/ HandleAck
    BY <2>3, DidSendControl, AckControl
  <2>4. CASE HandleDidSendEnable \/ HandleEnabled \/ HandleFailed
    BY <2>4, DidSendEnableControl, EnabledControl, FailedControl
  <2>5. CASE HandleSendResume \/ HandleResumed \/ HandleResumeFailed \/ HandleDidDisconnect
    BY <2>5, SendResumeControl, ResumedControl, ResumeFailedControl, DidDisconnectControl
  <2> QED  BY <1>2, <2>1, <2>2, <2>3, <2>4, <2>5 DEF HandleCallback
<1>3. CASE Drain \/ Delegates \/ Timers
  <2>1. CASE Drain \/ AnswerStanzaId
    BY <2>1, DrainControl
  <2>2. CASE DelegateDecides \/ AnswerHandled \/ MarkHandledStanzaId \/ CallSendAck
    BY <2>2, HandledNeutral, NeutralControl
  <2>3. CASE AutoRequestTimerFires
    BY <2>3, OtherNeutral, NeutralControl
  <2> QED  BY <1>3, <2>1, <2>2, <2>3 DEF Delegates, Timers
<1>4. CASE Server
  <2>1. CASE \/ ServerHandlesClose \/ ServerSendsRequest \/ ServerSendsStanza \/ ServerExpires
             \/ (ServerHandlesResume /\ conn # "resuming")
             \/ (ServerHandlesRequest /\ (attached = 0 \/ conn = "closed"))
    BY <2>1, ServerNeutral, NeutralControl
  <2>2. CASE ServerHandlesRequest /\ attached # 0 /\ conn # "closed"
    BY <2>2, ServerAckControl
  <2>3. CASE ServerSendsAck
    <3>1. attached # 0 /\ conn # "closed"
      BY <2>3 DEF ServerSendsAck
    <3> QED  BY <2>3, <3>1, ServerAckControl
  <2>4. CASE ServerHandlesStanza \/ ServerHandlesEnable
    BY <2>4, ServerStanzaControl, ServerEnableControl
  <2>5. CASE ServerHandlesResume /\ conn = "resuming"
    BY <2>5, ServerResumeControl
  <2> QED  BY <1>4, <2>1, <2>2, <2>3, <2>4, <2>5 DEF Server
<1>5. CASE Stream
  <2>1. CASE ContinueReceive
    BY <2>1, OtherNeutral, NeutralControl
  <2>2. CASE Connect \/ StartCustomBinding \/ StartStandardBinding \/ Disconnect \/ Crash
    BY <2>2, ConnectControl, StartCustomControl, StartStandardControl, DisconnectControl,
       CrashControl
  <2> QED  BY <1>5, <2>1, <2>2 DEF Stream
<1>6. CASE Application
  <2>1. CASE CallRequestAck
    BY <2>1, OtherNeutral, NeutralControl
  <2>2. CASE SendStanza \/ Enable
    BY <2>2, SendControl, EnableControl
  <2> QED  BY <1>6, <2>1, <2>2 DEF Application
<1> QED  BY <1>1, <1>2, <1>3, <1>4, <1>5, <1>6 DEF Next

LEMMA ControlInitially == Init => ControlInv
<1> SUFFICES ASSUME Init PROVE ControlInv
  OBVIOUS
<1>1. /\ moduleQ = <<>> /\ c2s = <<>> /\ Len(moduleQ) = 0 /\ Len(c2s) = 0
      /\ conn = "closed" /\ store.id = 0 /\ prevUnacked = <<>> /\ unprocessedAcks = <<>>
      /\ ~isStarted /\ ~enableSent /\ ~enableQueued
  BY DEF Init, EmptyStore
<1>2. \A names : ~Holds(moduleQ, names) /\ ~Holds(c2s, names)
  BY <1>1, HoldsNothing
<1>3. ~Posting /\ ~Told /\ ~Resumed /\ ~Joined /\ ~Awaiting /\ ~Asking
  BY <1>1, <1>2 DEF Posting, Told, Resumed, Joined, Awaiting, Asking
<1>4. AskingOnce /\ Answering /\ Resuming
  BY <1>1, <1>3 DEF AskingOnce, Answering, Resuming, OneOf
<1>5. Storing
  BY <1>1, <1>3 DEF Storing, Dead
<1> QED  BY <1>4, <1>5 DEF ControlInv

=============================================================================
