---------------------------- MODULE StreamTraffic ----------------------------
(* What a connected XMPPStream does with elements (Core/XMPPStream.m): those   *)
(* the application sends, with or without a receipt, and those the server      *)
(* sends, on their way past the delegates that may change or filter them.      *)
(*                                                                             *)
(* Handlers are blocks of the serial xmppQueue.  Calls of the application and  *)
(* callbacks of the socket run between any two of them, so their actions are   *)
(* the runs of their blocks.  Delegates are asked on other queues, one for     *)
(* each kind of element sent and one for all that is received; what they       *)
(* return is posted to the xmppQueue (`xmppQueue').  Connecting is             *)
(* StreamConnection's matter: here a stream is connected or not.               *)
EXTENDS Naturals, Sequences, FiniteSets, SequencesExt

CONSTANTS
    MaxConn,      \* bound: connections
    MaxElements,  \* bound: elements sent by the application, resends included, and received
    OutForms,     \* forms of element the application sends
    InForms,      \* forms of element the server sends
    WillSend,     \* kinds for which a delegate may implement willSend...:
    WillReceive,  \* kinds for which a delegate may implement willReceive...:
    Responders    \* delegates that implement didReceiveIQ:

Kinds == {"iq", "message", "presence"}

\* The forms of element the code tells apart.  A "request" is an IQ that requires a response.
Forms == {"request", "result", "message", "available", "unavailable", "directed", "custom"}

Kind(form) ==
    CASE form \in {"request", "result"} -> "iq"
      [] form = "message" -> "message"
      [] form \in {"available", "unavailable", "directed"} -> "presence"
      [] OTHER -> "custom"

ASSUME BoundsAssumption == MaxConn \in Nat /\ MaxElements \in Nat

ASSUME FormsAssumption ==
    /\ OutForms \subseteq Forms /\ InForms \subseteq Forms \ {"custom"}
    /\ WillSend \subseteq Kinds /\ WillReceive \subseteq Kinds

\* "error" stands for the stream's own answer.
ASSUME RespondersAssumption == "error" \notin Responders

VARIABLES
    connected, conn,   \* STATE_XMPP_CONNECTED, and the number of the connection
    delegates,         \* what some delegate implements now: <<"send", kind>>, <<"receive", kind>>
    \* sending
    sent,              \* the calls of sendElement:, in order; a call is its place here
    willSendQueue,     \* [kind -> calls waiting for the delegates]
    writing,           \* calls whose bytes are with the socket
    receipts,          \* calls whose receipts are pending
    signalled,         \* [call -> signals its receipt has got]
    myPresence,        \* the presence kept, 0 if nil
    \* receiving
    received,          \* the forms of the elements received; a stanza is its place here
    stanzaQueue,       \* willReceiveStanzaQueue has been created
    willReceiveQueue,  \* its blocks
    didReceiveIqQueue, \* requests whose delegates are waited for
    iqCalls,           \* [delegate -> requests it is given with didReceiveIQ:]
    \* posted to the xmppQueue
    xmppQueue,
    \* history, for the properties
    questioned,        \* calls that were put to delegates
    wire,              \* calls written, over all connections
    fate,              \* [call -> "filtered" or "failed" if it was, else "none"]
    returned,          \* [stanza -> what the delegates returned]
    delivered,         \* what the delegates were given: [stanza, version]
    answers            \* [request -> who promised an answer, or gave the error]

connVars    == <<connected, conn>>
receiptVars == <<receipts, signalled>>
sendVars    == <<sent, willSendQueue, writing, receiptVars, myPresence, questioned,
                 wire, fate>>
iqVars      == <<didReceiveIqQueue, iqCalls>>
receiveVars == <<received, stanzaQueue, willReceiveQueue, iqVars, returned, delivered, answers>>
vars == <<connVars, delegates, sendVars, receiveVars, xmppQueue>>

-----------------------------------------------------------------------------
(* Elements.  `content' names the presence a resent element repeats.           *)

Element(form, receipt, content) == [form |-> form, receipt |-> receipt, content |-> content]

Stanza(s, version) == [stanza |-> s, version |-> version]

\* The blocks of the xmppQueue: a sent element after its delegates, a received one after
\* its delegates, and the error for a request that nobody answers.
Block(op, of, version) == [op |-> op, of |-> of, version |-> version]

Init ==
    /\ connected = FALSE /\ conn = 0
    /\ delegates = {}
    /\ sent = <<>> /\ willSendQueue = [k \in Kinds |-> <<>>] /\ writing = <<>>
    /\ receipts = <<>> /\ signalled = <<>> /\ myPresence = 0
    /\ received = <<>> /\ stanzaQueue = FALSE
    /\ willReceiveQueue = <<>>
    /\ didReceiveIqQueue = <<>> /\ iqCalls = [d \in Responders |-> <<>>]
    /\ xmppQueue = <<>>
    /\ questioned = {} /\ wire = <<>> /\ fate = <<>>
    /\ returned = <<>> /\ delivered = <<>> /\ answers = <<>>

MayAdd == Len(sent) + Len(received) < MaxElements

-----------------------------------------------------------------------------
(* Sending.                                                                    *)

\* The presence the stream keeps after writing element e.
KeepsPresence(e) == IF e.form \in {"available", "unavailable"} THEN e.content ELSE myPresence

\* continueSendIQ: and its like: call n goes to the socket.
ContinueSend(n, e) ==
    /\ wire' = Append(wire, n) /\ writing' = Append(writing, n)
    /\ myPresence' = KeepsPresence(e)

\* sendElement:withTag: for the new call n: at once, or after the delegates.
SendWithTag(n, e) ==
    IF <<"send", Kind(e.form)>> \in delegates
    THEN /\ willSendQueue' = [willSendQueue EXCEPT ![Kind(e.form)] = Append(@, n)]
         /\ questioned' = questioned \cup {n}
         /\ UNCHANGED <<wire, writing, myPresence>>
    ELSE ContinueSend(n, e) /\ UNCHANGED <<willSendQueue, questioned>>

\* failToSendElement:, which has nothing to say of elements that are not stanzas.
FateOf(e) == IF ~connected /\ Kind(e.form) # "custom" THEN "failed" ELSE "none"

\* sendElement: and sendElement:andGetReceipt:.  Only a connected stream makes a receipt.
SendElement(e) ==
    LET n == Len(sent) + 1
        made == connected /\ e.receipt
    IN  /\ sent' = Append(sent, [e EXCEPT !.receipt = made])
        /\ fate' = Append(fate, FateOf(e))
        /\ signalled' = Append(signalled, {})
        /\ receipts' = IF made THEN Append(receipts, n) ELSE receipts
        /\ IF connected THEN SendWithTag(n, e)
           ELSE UNCHANGED <<wire, writing, willSendQueue, questioned, myPresence>>

Send(form, receipt) ==
    /\ MayAdd
    /\ SendElement(Element(form, receipt, Len(sent) + 1))
    /\ UNCHANGED <<connVars, delegates, receiveVars, xmppQueue>>

ResendMyPresence ==
    /\ MayAdd
    /\ myPresence # 0 /\ sent[myPresence].form = "available"
    /\ SendElement(Element("available", FALSE, myPresence))
    /\ UNCHANGED <<connVars, delegates, receiveVars, xmppQueue>>

\* The delegates return an element, or nil.
Returned(n) ==
    \/ xmppQueue' = Append(xmppQueue, Block("send", n, "same")) /\ UNCHANGED fate
    \/ fate' = [fate EXCEPT ![n] = "filtered"] /\ UNCHANGED xmppQueue

AnswerWillSend_Any(k) ==
    /\ \E i \in DOMAIN willSendQueue[k] :
          /\ Returned(willSendQueue[k][i])
          /\ willSendQueue' = [willSendQueue EXCEPT ![k] = RemoveAt(@, i)]
    /\ UNCHANGED <<connVars, delegates, receiveVars, sent, writing, receiptVars, myPresence,
                   questioned, wire>>

AnswerWillSend(k) ==
    /\ willSendQueue[k] # <<>>
    /\ Returned(Head(willSendQueue[k]))
    /\ willSendQueue' = [willSendQueue EXCEPT ![k] = Tail(@)]
    /\ UNCHANGED <<connVars, delegates, receiveVars, sent, writing, receiptVars, myPresence,
                   questioned, wire>>

\* The block posted by sendIQ: and its like.
RunsSend_Silent(n) ==
    /\ IF connected THEN ContinueSend(n, sent[n]) ELSE UNCHANGED <<wire, writing, myPresence>>
    /\ UNCHANGED <<sent, fate, willSendQueue, questioned, receiptVars, receiveVars>>

RunsSend(n) ==
    /\ IF connected THEN ContinueSend(n, sent[n]) /\ UNCHANGED fate
       ELSE /\ fate' = [fate EXCEPT ![n] = "failed"]
            /\ UNCHANGED <<wire, writing, myPresence>>
    /\ UNCHANGED <<sent, willSendQueue, questioned, receiptVars, receiveVars>>

\* A write with the tag of receipts is done: the first of them is signalled.
SignalsReceipt_AnyTag(n) == receipts # <<>>
SignalsReceipt(n) == sent[n].receipt /\ receipts # <<>>

DidWriteData ==
    /\ writing # <<>>
    /\ writing' = Tail(writing)
    /\ IF SignalsReceipt(Head(writing))
       THEN /\ signalled' = [signalled EXCEPT ![Head(receipts)] = @ \cup {"success"}]
            /\ receipts' = Tail(receipts)
       ELSE UNCHANGED receiptVars
    /\ UNCHANGED <<connVars, delegates, receiveVars, xmppQueue, sent, willSendQueue, myPresence,
                   questioned, wire, fate>>

-----------------------------------------------------------------------------
(* Receiving.                                                                  *)

\* continueReceiveIQ: and its like.  The delegates of a request are waited for.
ContinueReceive(s, version, form) ==
    /\ delivered' = Append(delivered, Stanza(s, version))
    /\ IF form = "request"
       THEN /\ didReceiveIqQueue' = Append(didReceiveIqQueue, s)
            /\ iqCalls' = [d \in Responders |-> Append(iqCalls[d], s)]
       ELSE UNCHANGED iqVars

\* How receiveIQ: and its like take stanza s: without delegates at once, unless a queue
\* was created for earlier stanzas.
TakesStanza_AtOnce(s, form) ==
    IF <<"receive", Kind(form)>> \in delegates
    THEN /\ stanzaQueue' = TRUE
         /\ willReceiveQueue' = Append(willReceiveQueue, [of |-> s, asks |-> TRUE])
         /\ UNCHANGED <<delivered, iqVars>>
    ELSE ContinueReceive(s, "same", form) /\ UNCHANGED <<stanzaQueue, willReceiveQueue>>

TakesStanza(s, form) ==
    LET asks == <<"receive", Kind(form)>> \in delegates
    IN  IF asks \/ stanzaQueue
        THEN /\ stanzaQueue' = TRUE
             /\ willReceiveQueue' = Append(willReceiveQueue, [of |-> s, asks |-> asks])
             /\ UNCHANGED <<delivered, iqVars>>
        ELSE ContinueReceive(s, "same", form) /\ UNCHANGED <<stanzaQueue, willReceiveQueue>>

\* A stanza is read from the socket, or injected.
Receive(form) ==
    /\ connected /\ MayAdd
    /\ received' = Append(received, form)
    /\ returned' = Append(returned, "same")
    /\ answers' = Append(answers, {})
    /\ TakesStanza(Len(received) + 1, form)
    /\ UNCHANGED <<connVars, delegates, sendVars, xmppQueue>>

\* A block of willReceiveStanzaQueue: the delegates return the element, another one, or nil.
AnswerWillReceive ==
    /\ willReceiveQueue # <<>>
    /\ LET b == Head(willReceiveQueue)
       IN  \E version \in IF b.asks THEN {"same", "other", "nil"} ELSE {"same"} :
              /\ returned' = [returned EXCEPT ![b.of] = version]
              /\ xmppQueue' = Append(xmppQueue, Block("receive", b.of, version))
    /\ willReceiveQueue' = Tail(willReceiveQueue)
    /\ UNCHANGED <<connVars, delegates, sendVars, received, stanzaQueue, iqVars, delivered,
                   answers>>

\* What is passed on of an element its delegates returned: receivePresence: passes on the
\* element it was given.
PassesOn(form, version) == IF Kind(form) = "presence" THEN "same" ELSE version

\* The block posted by receiveIQ: and its like.
RunsReceive(s, version) ==
    /\ IF connected /\ version # "nil"
       THEN ContinueReceive(s, PassesOn(received[s], version), received[s])
       ELSE UNCHANGED <<delivered, iqVars>>
    /\ UNCHANGED <<received, stanzaQueue, willReceiveQueue, returned, answers, sendVars>>

-----------------------------------------------------------------------------
(* Requests.                                                                   *)

\* Delegate d returns from didReceiveIQ:, YES if it has answered or will.
DidReceiveIQ(d, yes) ==
    /\ iqCalls[d] # <<>>
    /\ answers' = IF yes THEN [answers EXCEPT ![Head(iqCalls[d])] = @ \cup {d}] ELSE answers
    /\ iqCalls' = [iqCalls EXCEPT ![d] = Tail(@)]
    /\ UNCHANGED <<connVars, delegates, sendVars, xmppQueue, received, stanzaQueue,
                   willReceiveQueue, didReceiveIqQueue, returned, delivered>>

\* The wait for the delegates that were given request s is over.
GroupDone_One(s) == Responders = {} \/ \E d \in Responders : s \notin ToSet(iqCalls[d])
GroupDone(s) == \A d \in Responders : s \notin ToSet(iqCalls[d])

\* A request that no delegate has handled is answered with an error, through sendElement:.
RunDidReceiveIqQueue ==
    /\ didReceiveIqQueue # <<>>
    /\ LET s == Head(didReceiveIqQueue)
       IN  /\ GroupDone(s)
           /\ IF answers[s] = {}
              THEN /\ xmppQueue' = Append(xmppQueue, Block("error", s, "same"))
                   /\ answers' = [answers EXCEPT ![s] = {"error"}]
              ELSE UNCHANGED <<xmppQueue, answers>>
    /\ didReceiveIqQueue' = Tail(didReceiveIqQueue)
    /\ UNCHANGED <<connVars, delegates, sendVars, received, stanzaQueue, willReceiveQueue,
                   iqCalls, returned, delivered>>

RunsError(s) == SendElement(Element("result", FALSE, Len(sent) + 1)) /\ UNCHANGED receiveVars

RunXmppQueue ==
    /\ xmppQueue # <<>>
    /\ LET b == Head(xmppQueue)
       IN  CASE b.op = "send" -> RunsSend(b.of)
             [] b.op = "receive" -> RunsReceive(b.of, b.version)
             [] OTHER -> RunsError(b.of)
    /\ xmppQueue' = Tail(xmppQueue)
    /\ UNCHANGED <<connVars, delegates>>

-----------------------------------------------------------------------------
(* The connection, and the delegates that come and go.                         *)

Connect ==
    /\ ~connected /\ conn < MaxConn
    /\ connected' = TRUE /\ conn' = conn + 1
    /\ UNCHANGED <<delegates, sendVars, receiveVars, xmppQueue>>

\* The receipts pending when the connection ends have failed.
FailsReceipts_AllButFirst ==
    [n \in DOMAIN signalled |->
        IF \E i \in 2..Len(receipts) : receipts[i] = n THEN signalled[n] \cup {"failure"}
        ELSE signalled[n]]

FailsReceipts ==
    [n \in DOMAIN signalled |->
        IF \E i \in DOMAIN receipts : receipts[i] = n THEN signalled[n] \cup {"failure"}
        ELSE signalled[n]]

\* socketDidDisconnect:.  Blocks on the queues are not cancelled.
Disconnect ==
    /\ connected
    /\ connected' = FALSE
    /\ signalled' = FailsReceipts
    /\ receipts' = <<>> /\ myPresence' = 0 /\ writing' = <<>>
    /\ UNCHANGED <<conn, delegates, sent, willSendQueue, questioned, wire, fate, receiveVars,
                   xmppQueue>>

AddDelegate(what) ==
    /\ delegates' = delegates \cup {what}
    /\ UNCHANGED <<connVars, sendVars, receiveVars, xmppQueue>>

RemoveDelegate(what) ==
    /\ delegates' = delegates \ {what}
    /\ UNCHANGED <<connVars, sendVars, receiveVars, xmppQueue>>

Application ==
    \/ \E form \in OutForms, receipt \in BOOLEAN : Send(form, receipt)
    \/ ResendMyPresence
    \/ \E what \in ({"send"} \X WillSend) \cup ({"receive"} \X WillReceive) :
          AddDelegate(what) \/ RemoveDelegate(what)

Network == Connect \/ Disconnect \/ DidWriteData \/ \E form \in InForms : Receive(form)

Answers ==
    \/ \E k \in Kinds : AnswerWillSend(k)
    \/ AnswerWillReceive
    \/ \E d \in Responders, yes \in BOOLEAN : DidReceiveIQ(d, yes)

Next == Application \/ Network \/ Answers \/ RunDidReceiveIqQueue \/ RunXmppQueue

Spec == Init /\ [][Next]_vars

-----------------------------------------------------------------------------
(* Properties.                                                                 *)

Calls   == DOMAIN sent
Stanzas == DOMAIN received

CallTypes ==
    /\ sent \in Seq([form : Forms, receipt : BOOLEAN, content : Nat \ {0}])
    /\ fate \in Seq({"none", "filtered", "failed"}) /\ Len(fate) = Len(sent)
    /\ signalled \in Seq(SUBSET {"success", "failure"}) /\ Len(signalled) = Len(sent)
    /\ \A n \in Calls : sent[n].content \in 1..n
    /\ myPresence \in Calls \cup {0}

SendTypes ==
    /\ willSendQueue \in [Kinds -> Seq(Calls)]
    /\ writing \in Seq(Calls) /\ receipts \in Seq(Calls) /\ wire \in Seq(Calls)
    /\ questioned \subseteq Calls

ReceiveTypes ==
    /\ received \in Seq(InForms) /\ stanzaQueue \in BOOLEAN
    /\ willReceiveQueue \in Seq([of : Stanzas, asks : BOOLEAN])
    /\ didReceiveIqQueue \in Seq(Stanzas) /\ iqCalls \in [Responders -> Seq(Stanzas)]
    /\ returned \in Seq({"same", "other", "nil"}) /\ Len(returned) = Len(received)
    /\ delivered \in Seq([stanza : Stanzas, version : {"same", "other"}])
    /\ answers \in Seq(SUBSET (Responders \cup {"error"})) /\ Len(answers) = Len(received)

BlockTypes ==
    xmppQueue \in Seq([op : {"send"}, of : Calls, version : {"same"}]
                      \cup [op : {"receive"}, of : Stanzas, version : {"same", "other", "nil"}]
                      \cup [op : {"error"}, of : Stanzas, version : {"same"}])

\* The types of the state: calls and stanzas named on a queue exist.
TypeOK ==
    /\ connected \in BOOLEAN /\ conn \in Nat
    /\ delegates \subseteq {"send", "receive"} \X Kinds
    /\ CallTypes /\ SendTypes /\ ReceiveTypes /\ BlockTypes

Places(q, P(_)) == Cardinality({i \in DOMAIN q : P(q[i])})

\* Every stanza given to sendElement: has one fate: it waits for its delegates or for the
\* xmppQueue, or it was written, filtered, or reported as failed; never two of these and
\* never none, whatever ends or begins while it is on its way.
OneFate ==
    \A n \in Calls :
        Kind(sent[n].form) # "custom" =>
            Places(willSendQueue[Kind(sent[n].form)], LAMBDA m : m = n)
              + Places(xmppQueue, LAMBDA b : b.op = "send" /\ b.of = n)
              + Places(wire, LAMBDA m : m = n)
              + (IF fate[n] = "none" THEN 0 ELSE 1) = 1

\* A receipt is signalled once, and pending only until then and only while connected: no
\* thread waits for the fate of an element that has been decided.
ReceiptConserved ==
    \A n \in Calls :
        sent[n].receipt =>
            /\ Cardinality(signalled[n]) + Places(receipts, LAMBDA m : m = n) = 1
            /\ connected \/ signalled[n] # {}

\* "Element has been sent": a receipt that says so belongs to an element whose bytes were
\* taken by the socket.
ReceiptTrue ==
    \A n \in Calls : "success" \in signalled[n] => n \in ToSet(wire) \ ToSet(writing)

\* Receipts are matched with elements by position.  It is right as long as no delegate was
\* asked about an element that is sent.
ReceiptTrueUnasked == questioned = {} => ReceiptTrue

\* Elements of one kind that go the same way, past the delegates or directly, leave in the
\* order in which they were sent.
SentInOrder ==
    \A i, j \in DOMAIN wire :
        /\ i < j
        /\ Kind(sent[wire[i]].form) = Kind(sent[wire[j]].form)
        /\ (wire[i] \in questioned <=> wire[j] \in questioned)
        => wire[i] < wire[j]

IsBroadcast(n) == sent[n].form \in {"available", "unavailable"}

\* The presence the stream keeps for resending is the one the server knows: the last one
\* written, of those that were not directed to somebody.
MyPresenceIsLast ==
    /\ ~connected => myPresence = 0
    /\ myPresence # 0 =>
          \E i \in DOMAIN wire :
              /\ IsBroadcast(wire[i]) /\ sent[wire[i]].content = myPresence
              /\ \A j \in DOMAIN wire : j > i => ~IsBroadcast(wire[j])

\* Resending the presence "guarantees everything is done as an atomic operation": it never
\* brings back a presence older than one the server has got by then.
ResendIsLatest ==
    \A i, j \in DOMAIN wire :
        /\ i < j /\ IsBroadcast(wire[i]) /\ IsBroadcast(wire[j])
        /\ sent[wire[j]].content # wire[j]
        => sent[wire[i]].content <= sent[wire[j]].content

ResendIsLatestUnasked == questioned = {} => ResendIsLatest

\* "These methods can be used to modify elements": the delegates that receive an element get
\* what the delegates asked before have returned.
DeliveredAsReturned ==
    \A i \in DOMAIN delivered : delivered[i].version = returned[delivered[i].stanza]

IsDelivered(s) == \E i \in DOMAIN delivered : delivered[i].stanza = s

\* A request that was delivered is waited for, or it has an answer: from delegates that
\* promised one, or else one error.  It never has both: the error is sent only when no
\* delegate can promise any more.
OneAnswer ==
    \A s \in Stanzas :
        /\ received[s] = "request" /\ IsDelivered(s) =>
              s \in ToSet(didReceiveIqQueue) \/ answers[s] # {}
        /\ "error" \in answers[s] => answers[s] = {"error"}

=============================================================================
