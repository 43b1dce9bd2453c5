-------------------------- MODULE StreamTrafficProofs --------------------------
(* What is proved about StreamTraffic: its types, that it delivers what it     *)
(* receives in order (an implementation of OrderedDelivery), that elements     *)
(* leave in order and have one fate, that receipts are signalled once, that    *)
(* the presence kept is the last one written, and that a request is answered   *)
(* once; for any number of connections, elements and responders.  Order is a   *)
(* matter of three places in a row: the delegates' queue, the xmppQueue, and   *)
(* the wire or the delegates that are given the stanza.  What is ahead was     *)
(* sent or received earlier.                                                   *)
EXTENDS MCStreamTraffic, FiniteSetTheorems, TLAPS

----------------------------------------------------------------------------
(* Queues.                                                                     *)

\* What Append returns.
LEMMA AppendFacts ==
    ASSUME NEW S, NEW q \in Seq(S), NEW e \in S
    PROVE  /\ Append(q, e) \in Seq(S)
           /\ Append(q, e) # <<>>
           /\ Len(Append(q, e)) = Len(q) + 1 /\ Len(q) \in Nat
           /\ DOMAIN Append(q, e) = 1..(Len(q) + 1) /\ DOMAIN q = 1..Len(q)
           /\ \A i \in 1..Len(q) : Append(q, e)[i] = q[i]
           /\ Append(q, e)[Len(q) + 1] = e
           /\ Last(Append(q, e)) = e
  BY DEF Last

\* What Head and Tail return.
LEMMA TailFacts ==
    ASSUME NEW S, NEW q \in Seq(S), q # <<>>
    PROVE  /\ Tail(q) \in Seq(S) /\ Head(q) = q[1] /\ Head(q) \in S
           /\ Len(q) \in Nat \ {0} /\ Len(Tail(q)) = Len(q) - 1
           /\ DOMAIN Tail(q) = 1..(Len(q) - 1) /\ DOMAIN q = 1..Len(q)
           /\ \A i \in 1..(Len(q) - 1) : Tail(q)[i] = q[i + 1]
OBVIOUS

\* A queue of some things is a queue of more things.
LEMMA SeqMonotone ==
    ASSUME NEW S, NEW T, S \subseteq T, NEW q \in Seq(S)
    PROVE  q \in Seq(T)
OBVIOUS

\* The members of a queue.
LEMMA MemberFacts ==
    ASSUME NEW S, NEW q \in Seq(S), NEW e
    PROVE  e \in ToSet(q) <=> \E i \in 1..Len(q) : q[i] = e
  BY DEF ToSet

----------------------------------------------------------------------------
(* Received stanzas: t was taken last, q is the xmppQueue, w the delegates'    *)
(* queue.                                                                      *)

IsReceive(b) == b.op = "receive"

Behind(t, q, w) ==
    /\ \A i \in 1..Len(q) : IsReceive(q[i]) => t < q[i].of
    /\ \A i, j \in 1..Len(q) : i < j /\ IsReceive(q[i]) /\ IsReceive(q[j]) => q[i].of < q[j].of
    /\ \A j \in 1..Len(w) : t < w[j].of
    /\ \A i \in 1..Len(q), j \in 1..Len(w) : IsReceive(q[i]) => q[i].of < w[j].of
    /\ \A i, j \in 1..Len(w) : i < j => w[i].of < w[j].of

\* Another block is appended.
LEMMA BehindOther ==
    ASSUME NEW S, NEW q \in Seq(S), NEW b \in S, NEW t \in Nat, NEW w, Behind(t, q, w),
           ~IsReceive(b)
    PROVE  Behind(t, Append(q, b), w)
  <1> DEFINE r == Append(q, b)
  <1>1. /\ Len(r) = Len(q) + 1 /\ Len(q) \in Nat
        /\ \A i \in 1..Len(q) : r[i] = q[i]
        /\ r[Len(q) + 1] = b
    BY AppendFacts
  <1> HIDE DEF r
  <1>2. \A i \in 1..Len(r) : IsReceive(r[i]) => i \in 1..Len(q) /\ r[i] = q[i]
    BY <1>1
  <1> QED BY <1>1, <1>2 DEF Behind, r

\* The first block is taken.
LEMMA BehindTail ==
    ASSUME NEW S, NEW q \in Seq(S), q # <<>>, NEW t \in Nat, NEW w, Behind(t, q, w)
    PROVE  /\ Behind(t, Tail(q), w)
           /\ IsReceive(Head(q)) => t < Head(q).of /\ Behind(Head(q).of, Tail(q), w)
  <1> DEFINE r == Tail(q)
  <1>1. /\ Len(r) = Len(q) - 1 /\ Len(q) \in Nat \ {0} /\ Head(q) = q[1]
        /\ \A i \in 1..(Len(q) - 1) : r[i] = q[i + 1]
    BY TailFacts
  <1> HIDE DEF r
  <1>2. \A i \in 1..Len(r) : i + 1 \in 1..Len(q) /\ r[i] = q[i + 1] /\ 1 < i + 1
    BY <1>1
  <1>3. 1 \in 1..Len(q)
    BY <1>1
  <1>4. \A i, j \in 1..Len(r) : i < j => i + 1 < j + 1
    BY <1>1
  <1>5. \A i, j \in 1..Len(r) : i < j /\ IsReceive(r[i]) /\ IsReceive(r[j]) => r[i].of < r[j].of
    <2> SUFFICES ASSUME NEW i \in 1..Len(r), NEW j \in 1..Len(r), i < j,
                        IsReceive(r[i]), IsReceive(r[j])
                 PROVE  r[i].of < r[j].of
      OBVIOUS
    <2>1. i + 1 < j + 1 /\ i + 1 \in 1..Len(q) /\ j + 1 \in 1..Len(q)
      BY <1>2, <1>4
    <2> QED BY <2>1, <1>2 DEF Behind
  <1>6. \A i \in 1..Len(r), j \in 1..Len(w) : IsReceive(r[i]) => r[i].of < w[j].of
    BY <1>2 DEF Behind
  <1>7. \A i \in 1..Len(r) : IsReceive(r[i]) => t < r[i].of
    BY <1>2 DEF Behind
  <1>8. Behind(t, r, w)
    BY <1>5, <1>6, <1>7 DEF Behind
  <1>9. ASSUME IsReceive(Head(q)) PROVE t < Head(q).of /\ Behind(Head(q).of, r, w)
    <2>1. t < Head(q).of
      BY <1>1, <1>3, <1>9 DEF Behind
    <2>2. \A i \in 1..Len(r) : IsReceive(r[i]) => Head(q).of < r[i].of
      BY <1>1, <1>2, <1>3, <1>9 DEF Behind
    <2>3. \A j \in 1..Len(w) : Head(q).of < w[j].of
      BY <1>1, <1>3, <1>9 DEF Behind
    <2>4. \A i, j \in 1..Len(w) : i < j => w[i].of < w[j].of
      BY DEF Behind
    <2> QED BY <1>5, <1>6, <2>1, <2>2, <2>3, <2>4 DEF Behind
  <1> QED BY <1>8, <1>9 DEF r

\* The delegates return the first element.
LEMMA BehindMoves ==
    ASSUME NEW S, NEW q \in Seq(S), NEW b \in S, NEW U, NEW w \in Seq(U), w # <<>>,
           NEW t \in Nat, Behind(t, q, w), IsReceive(b), b.of = Head(w).of
    PROVE  Behind(t, Append(q, b), Tail(w))
  <1> DEFINE r == Append(q, b)
             v == Tail(w)
  <1>1. /\ Len(r) = Len(q) + 1 /\ Len(q) \in Nat
        /\ \A i \in 1..Len(q) : r[i] = q[i]
        /\ r[Len(q) + 1] = b
    BY AppendFacts
  <1>2. /\ Len(v) = Len(w) - 1 /\ Len(w) \in Nat \ {0} /\ Head(w) = w[1]
        /\ \A i \in 1..(Len(w) - 1) : v[i] = w[i + 1]
    BY TailFacts
  <1> HIDE DEF r, v
  <1>3. \A i \in 1..Len(v) : i + 1 \in 1..Len(w) /\ v[i] = w[i + 1] /\ 1 < i + 1
    BY <1>2
  <1>4. 1 \in 1..Len(w) /\ b.of = w[1].of
    BY <1>2
  <1>5. \A i \in 1..Len(r) : (i \in 1..Len(q) /\ r[i] = q[i]) \/ (i = Len(q) + 1 /\ r[i] = b)
    BY <1>1
  <1>6. \A i \in 1..Len(r) : IsReceive(r[i]) => t < r[i].of
    BY <1>4, <1>5 DEF Behind
  <1>7. \A i, j \in 1..Len(r) : i < j /\ IsReceive(r[i]) /\ IsReceive(r[j]) => r[i].of < r[j].of
    <2> SUFFICES ASSUME NEW i \in 1..Len(r), NEW j \in 1..Len(r), i < j,
                        IsReceive(r[i]), IsReceive(r[j])
                 PROVE  r[i].of < r[j].of
      OBVIOUS
    <2>1. i \in 1..Len(q) /\ r[i] = q[i]
      BY <1>1
    <2>2. CASE j \in 1..Len(q) /\ r[j] = q[j]
      BY <2>1, <2>2 DEF Behind
    <2>3. CASE r[j] = b
      BY <2>1, <2>3, <1>4 DEF Behind
    <2> QED BY <1>5, <2>2, <2>3
  <1>8. \A j \in 1..Len(v) : t < v[j].of
    BY <1>3 DEF Behind
  <1>9. \A i \in 1..Len(r), j \in 1..Len(v) : IsReceive(r[i]) => r[i].of < v[j].of
    BY <1>3, <1>4, <1>5 DEF Behind
  <1>10. \A i, j \in 1..Len(v) : i < j => v[i].of < v[j].of
    <2> SUFFICES ASSUME NEW i \in 1..Len(v), NEW j \in 1..Len(v), i < j
                 PROVE  v[i].of < v[j].of
      OBVIOUS
    <2>1. i + 1 < j + 1 /\ i + 1 \in 1..Len(w) /\ j + 1 \in 1..Len(w)
      BY <1>3, <1>2
    <2> QED BY <2>1, <1>3 DEF Behind
  <1> QED BY <1>6, <1>7, <1>8, <1>9, <1>10 DEF Behind, r, v

\* A stanza arrives behind all others.
LEMMA BehindArrives ==
    ASSUME NEW U, NEW w \in Seq(U), NEW e \in U, NEW q, NEW t \in Nat, Behind(t, q, w),
           t < e.of,
           \A i \in 1..Len(q) : IsReceive(q[i]) => q[i].of < e.of,
           \A i \in 1..Len(w) : w[i].of < e.of
    PROVE  Behind(t, q, Append(w, e))
  <1> DEFINE v == Append(w, e)
  <1>1. /\ Len(v) = Len(w) + 1 /\ Len(w) \in Nat
        /\ \A i \in 1..Len(w) : v[i] = w[i]
        /\ v[Len(w) + 1] = e
    BY AppendFacts
  <1> HIDE DEF v
  <1>2. \A i \in 1..Len(v) : (i \in 1..Len(w) /\ v[i] = w[i]) \/ (i = Len(w) + 1 /\ v[i] = e)
    BY <1>1
  <1>3. \A i, j \in 1..Len(v) : i < j => v[i].of < v[j].of
    <2> SUFFICES ASSUME NEW i \in 1..Len(v), NEW j \in 1..Len(v), i < j
                 PROVE  v[i].of < v[j].of
      OBVIOUS
    <2>1. i \in 1..Len(w) /\ v[i] = w[i]
      BY <1>1
    <2>2. CASE j \in 1..Len(w) /\ v[j] = w[j]
      BY <2>1, <2>2 DEF Behind
    <2>3. CASE v[j] = e
      BY <2>1, <2>3
    <2> QED BY <1>2, <2>2, <2>3
  <1>4. \A j \in 1..Len(v) : t < v[j].of
    BY <1>2 DEF Behind
  <1>5. \A i \in 1..Len(q), j \in 1..Len(v) : IsReceive(q[i]) => q[i].of < v[j].of
    BY <1>2 DEF Behind
  <1> QED BY <1>3, <1>4, <1>5 DEF Behind, v

----------------------------------------------------------------------------
(* The types.                                                                  *)

\* The blocks that may be posted when calls C were made and stanzas S received.
Blocks(C, S) ==
    [op : {"send"}, of : C, version : {"same"}]
    \cup [op : {"receive"}, of : S, version : {"same", "other", "nil"}]
    \cup [op : {"error"}, of : S, version : {"same"}]

LEMMA BlocksMonotone ==
    ASSUME NEW C, NEW D, C \subseteq D, NEW S, NEW T, S \subseteq T
    PROVE  Blocks(C, S) \subseteq Blocks(D, T)
  BY DEF Blocks

\* The kind of a stanza, and of an element.
LEMMA KindFacts ==
    /\ \A form \in Forms : Kind(form) \in Kinds \cup {"custom"}
    /\ \A form \in Forms \ {"custom"} : Kind(form) \in Kinds
    /\ \A form \in InForms : form \in Forms \ {"custom"}
  <1>1. \A form \in {"request", "result"} : Kind(form) = "iq"
    BY DEF Kind
  <1>2. Kind("message") = "message" /\ Kind("custom") = "custom"
    BY DEF Kind
  <1>3. \A form \in {"available", "unavailable", "directed"} : Kind(form) = "presence"
    BY DEF Kind
  <1>4. \A form \in InForms : form \in Forms \ {"custom"}
    BY FormsAssumption
  <1> QED BY <1>1, <1>2, <1>3, <1>4 DEF Forms, Kinds

\* An element that may be given to sendElement: after n calls.
Elements(n) == [form : Forms, receipt : BOOLEAN, content : 1..(n + 1)]

\* What the types say of the calls.
LEMMA CallFacts ==
    ASSUME CallTypes
    PROVE  /\ Len(sent) \in Nat /\ Calls = 1..Len(sent) /\ Len(fate) = Len(sent)
           /\ Len(signalled) = Len(sent)
           /\ \A n \in Calls : /\ sent[n] \in [form : Forms, receipt : BOOLEAN, content : Nat \ {0}]
                               /\ sent[n].form \in Forms /\ sent[n].receipt \in BOOLEAN
                               /\ sent[n].content \in 1..n /\ n \in Nat \ {0}
  <1> DEFINE R == [form : Forms, receipt : BOOLEAN, content : Nat \ {0}]
  <1>1. sent \in Seq(R)
    BY DEF CallTypes
  <1>2. \A r \in R : r.form \in Forms /\ r.receipt \in BOOLEAN
    OBVIOUS
  <1> HIDE DEF R
  <1>3. Len(sent) \in Nat /\ DOMAIN sent = 1..Len(sent) /\ \A n \in 1..Len(sent) : sent[n] \in R
    BY <1>1
  <1>4. \A n \in Calls : sent[n].content \in 1..n
    BY DEF CallTypes
  <1>5. Len(fate) = Len(sent) /\ Len(signalled) = Len(sent)
    BY DEF CallTypes
  <1>6. \A n \in Calls : n \in Nat \ {0}
    BY <1>3 DEF Calls
  <1>7. \A n \in Calls : sent[n] \in R /\ sent[n].form \in Forms /\ sent[n].receipt \in BOOLEAN
    BY <1>2, <1>3 DEF Calls
  <1> QED BY <1>3, <1>4, <1>5, <1>6, <1>7 DEF Calls, R

\* A call made, seen from the calls before it.
LEMMA NewCall ==
    ASSUME TypeOK, NEW e \in Elements(Len(sent)), SendElement(e)
    PROVE  /\ Len(sent') = Len(sent) + 1 /\ Len(sent) \in Nat
           /\ Calls = 1..Len(sent) /\ Calls' = 1..(Len(sent) + 1) /\ Calls \subseteq Calls'
           /\ Len(sent) + 1 \in Calls' /\ Len(sent) + 1 \notin Calls
           /\ \A n \in Calls : sent'[n] = sent[n]
           /\ sent'[Len(sent) + 1].form = e.form /\ sent'[Len(sent) + 1].content = e.content
           /\ CallTypes'
  <1> DEFINE R == [form : Forms, receipt : BOOLEAN, content : Nat \ {0}]
             N == Len(sent)
             made == connected /\ e.receipt
             c == [e EXCEPT !.receipt = made]
  <1>1. sent \in Seq(R) /\ N \in Nat
    BY DEF TypeOK, CallTypes
  <1>2. made \in BOOLEAN
    BY DEF TypeOK, Elements
  <1>3. /\ e.form \in Forms /\ e.content \in 1..(N + 1)
        /\ e = [form |-> e.form, receipt |-> e.receipt, content |-> e.content]
    BY DEF Elements
  <1> HIDE DEF made
  <1>4. c = [form |-> e.form, receipt |-> made, content |-> e.content]
    BY <1>3
  <1>5. c \in R /\ c.form = e.form /\ c.content = e.content
    BY <1>1, <1>2, <1>3, <1>4
  <1>6. sent' = Append(sent, c)
    BY DEF SendElement, made
  <1> HIDE DEF c, R
  <1>7. /\ sent' \in Seq(R) /\ Len(sent') = N + 1
        /\ DOMAIN sent' = 1..(N + 1) /\ DOMAIN sent = 1..N
        /\ \A i \in 1..N : sent'[i] = sent[i]
        /\ sent'[N + 1] = c
    BY <1>1, <1>5, <1>6, AppendFacts
  <1>8. Calls = 1..N /\ Calls' = 1..(N + 1)
    BY <1>7 DEF Calls
  <1>9. fate' \in Seq({"none", "filtered", "failed"}) /\ Len(fate') = Len(sent')
    <2>1. fate' = Append(fate, FateOf(e)) /\ FateOf(e) \in {"none", "filtered", "failed"}
      BY DEF SendElement, FateOf
    <2> QED BY <2>1, <1>7 DEF TypeOK, CallTypes
  <1>10. signalled' \in Seq(SUBSET {"success", "failure"}) /\ Len(signalled') = Len(sent')
    <2>1. signalled' = Append(signalled, {}) /\ {} \in SUBSET {"success", "failure"}
      BY DEF SendElement
    <2> QED BY <2>1, <1>7 DEF TypeOK, CallTypes
  <1>11. \A n \in Calls' : sent'[n].content \in 1..n
    <2>1. \A n \in 1..N : sent[n].content \in 1..n
      BY <1>8 DEF TypeOK, CallTypes
    <2> QED BY <2>1, <1>1, <1>3, <1>5, <1>7, <1>8
  <1>12. myPresence' \in Calls' \cup {0}
    <2>1. myPresence \in 1..N \cup {0}
      BY <1>8 DEF TypeOK, CallTypes
    <2>2. myPresence' \in {e.content, myPresence}
      BY DEF SendElement, SendWithTag, ContinueSend, KeepsPresence
    <2> QED BY <2>1, <2>2, <1>1, <1>3, <1>8
  <1>13. CallTypes'
    BY <1>7, <1>9, <1>10, <1>11, <1>12 DEF CallTypes, R
  <1> QED BY <1>1, <1>5, <1>7, <1>8, <1>13

\* Where the new call goes.
LEMMA SendElementTypes ==
    ASSUME TypeOK, NEW e \in Elements(Len(sent)), SendElement(e)
    PROVE  SendTypes'
  <1> DEFINE n == Len(sent) + 1
  <1>1. Calls \subseteq Calls' /\ n \in Calls'
    BY NewCall
  <1> HIDE DEF n
  <1>2. wire \in Seq(Calls') /\ writing \in Seq(Calls') /\ receipts \in Seq(Calls')
    BY <1>1, SeqMonotone DEF TypeOK, SendTypes
  <1>3. \A k \in Kinds : willSendQueue[k] \in Seq(Calls')
    BY <1>1, SeqMonotone DEF TypeOK, SendTypes
  <1>4. willSendQueue = [k \in Kinds |-> willSendQueue[k]] /\ questioned \subseteq Calls'
    BY <1>1 DEF TypeOK, SendTypes
  <1>5. /\ Append(wire, n) \in Seq(Calls') /\ Append(writing, n) \in Seq(Calls')
        /\ Append(receipts, n) \in Seq(Calls')
        /\ \A k \in Kinds : Append(willSendQueue[k], n) \in Seq(Calls')
    BY <1>1, <1>2, <1>3, AppendFacts
  <1>6. receipts' \in Seq(Calls')
    BY <1>2, <1>5 DEF SendElement, n
  <1>7. wire' \in {wire, Append(wire, n)} /\ writing' \in {writing, Append(writing, n)}
    BY DEF SendElement, SendWithTag, ContinueSend, n
  <1>8. questioned' \subseteq Calls'
    BY <1>1, <1>4 DEF SendElement, SendWithTag, n
  <1>9. willSendQueue' \in [Kinds -> Seq(Calls')]
    <2>1. CASE willSendQueue' = willSendQueue
      BY <2>1, <1>3, <1>4
    <2>2. CASE willSendQueue' = [willSendQueue EXCEPT ![Kind(e.form)] = Append(@, n)]
      BY <2>2, <1>3, <1>4, <1>5
    <2> QED BY <2>1, <2>2 DEF SendElement, SendWithTag, ContinueSend, n
  <1> QED BY <1>2, <1>5, <1>6, <1>7, <1>8, <1>9 DEF SendTypes

\* The delegates' answers and the xmppQueue, when nothing but calls is added to.
LEMMA ReceiveFrame ==
    ASSUME ReceiveTypes, UNCHANGED receiveVars
    PROVE  ReceiveTypes' /\ Stanzas' = Stanzas
  BY DEF ReceiveTypes, receiveVars, iqVars, Stanzas

LEMMA SendFrame ==
    ASSUME CallTypes, SendTypes, UNCHANGED sendVars
    PROVE  CallTypes' /\ SendTypes' /\ Calls' = Calls
  BY DEF CallTypes, SendTypes, sendVars, receiptVars, Calls

LEMMA BlocksAre ==
    BlockTypes <=> xmppQueue \in Seq(Blocks(Calls, Stanzas))
  BY DEF BlockTypes, Blocks

LEMMA BlocksAreNow ==
    BlockTypes' <=> xmppQueue' \in Seq(Blocks(Calls', Stanzas'))
  BY DEF BlockTypes, Blocks

\* One place of a list is overwritten.
LEMMA ExceptFacts ==
    ASSUME NEW S, NEW q \in Seq(S), NEW i \in 1..Len(q), NEW e \in S
    PROVE  /\ [q EXCEPT ![i] = e] \in Seq(S)
           /\ Len([q EXCEPT ![i] = e]) = Len(q)
           /\ DOMAIN [q EXCEPT ![i] = e] = 1..Len(q)
           /\ [q EXCEPT ![i] = e][i] = e
           /\ \A j \in 1..Len(q) : j # i => [q EXCEPT ![i] = e][j] = q[j]
OBVIOUS

\* What the types say of the stanzas.
LEMMA StanzaFacts ==
    ASSUME ReceiveTypes
    PROVE  /\ Len(received) \in Nat /\ Stanzas = 1..Len(received)
           /\ Len(answers) = Len(received) /\ Len(returned) = Len(received)
           /\ \A s \in Stanzas : /\ answers[s] \in SUBSET (Responders \cup {"error"})
                                 /\ received[s] \in InForms
  <1> DEFINE A == SUBSET (Responders \cup {"error"})
  <1>1. answers \in Seq(A) /\ received \in Seq(InForms) /\ Len(answers) = Len(received)
        /\ Len(returned) = Len(received)
    BY DEF ReceiveTypes
  <1> HIDE DEF A
  <1> QED BY <1>1 DEF Stanzas, A

\* What the types say of the blocks.
LEMMA BlockFacts ==
    ASSUME BlockTypes
    PROVE  /\ Len(xmppQueue) \in Nat /\ DOMAIN xmppQueue = 1..Len(xmppQueue)
           /\ \A i \in 1..Len(xmppQueue) :
                 /\ xmppQueue[i] \in Blocks(Calls, Stanzas)
                 /\ xmppQueue[i].op = "send" => xmppQueue[i].of \in Calls
                 /\ xmppQueue[i].op \in {"receive", "error"} => xmppQueue[i].of \in Stanzas
                 /\ xmppQueue[i].op \in {"send", "receive", "error"}
                 /\ xmppQueue[i].version \in {"same", "other", "nil"}
  <1>1. xmppQueue \in Seq(Blocks(Calls, Stanzas))
    BY BlocksAre
  <1>2. \A b \in Blocks(Calls, Stanzas) :
            /\ b.op = "send" => b.of \in Calls
            /\ b.op \in {"receive", "error"} => b.of \in Stanzas
            /\ b.op \in {"send", "receive", "error"}
            /\ b.version \in {"same", "other", "nil"}
    BY DEF Blocks
  <1>3. /\ Len(xmppQueue) \in Nat /\ DOMAIN xmppQueue = 1..Len(xmppQueue)
        /\ \A i \in 1..Len(xmppQueue) : xmppQueue[i] \in Blocks(Calls, Stanzas)
    BY <1>1
  <1> QED BY <1>2, <1>3

\* The first block of the xmppQueue, and the others.
LEMMA HeadBlock ==
    ASSUME BlockTypes, xmppQueue # <<>>, xmppQueue' = Tail(xmppQueue)
    PROVE  /\ Head(xmppQueue) \in Blocks(Calls, Stanzas)
           /\ Head(xmppQueue).op = "send" => Head(xmppQueue).of \in Calls
           /\ Head(xmppQueue).op \in {"receive", "error"} => Head(xmppQueue).of \in Stanzas
           /\ Head(xmppQueue).op \in {"send", "receive", "error"}
           /\ Head(xmppQueue).version \in {"same", "other", "nil"}
           /\ xmppQueue' \in Seq(Blocks(Calls, Stanzas))
  <1>1. xmppQueue \in Seq(Blocks(Calls, Stanzas))
    BY BlocksAre
  <1>2. xmppQueue' \in Seq(Blocks(Calls, Stanzas)) /\ Head(xmppQueue) = xmppQueue[1]
        /\ 1 \in 1..Len(xmppQueue)
    BY <1>1, TailFacts
  <1>3. Head(xmppQueue) \in Blocks(Calls, Stanzas)
    BY <1>1, TailFacts
  <1> QED BY <1>2, <1>3, BlockFacts

LEMMA ContinueSendTypes ==
    ASSUME CallTypes, SendTypes, NEW n \in Calls, ContinueSend(n, sent[n])
    PROVE  /\ wire' \in Seq(Calls) /\ writing' \in Seq(Calls)
           /\ myPresence' \in Calls \cup {0}
  <1>1. wire' \in Seq(Calls) /\ writing' \in Seq(Calls)
    BY AppendFacts DEF SendTypes, ContinueSend
  <1>2. myPresence' \in {sent[n].content, myPresence}
    BY DEF ContinueSend, KeepsPresence
  <1>3. sent[n].content \in Calls
    BY CallFacts
  <1> QED BY <1>1, <1>2, <1>3 DEF CallTypes

LEMMA ContinueReceiveTypes ==
    ASSUME NEW S, NEW s \in S, NEW version \in {"same", "other"}, NEW form,
           delivered \in Seq([stanza : S, version : {"same", "other"}]),
           didReceiveIqQueue \in Seq(S), iqCalls \in [Responders -> Seq(S)],
           ContinueReceive(s, version, form)
    PROVE  /\ delivered' \in Seq([stanza : S, version : {"same", "other"}])
           /\ didReceiveIqQueue' \in Seq(S) /\ iqCalls' \in [Responders -> Seq(S)]
  <1>1. delivered' \in Seq([stanza : S, version : {"same", "other"}])
    <2>1. Stanza(s, version) \in [stanza : S, version : {"same", "other"}]
      BY DEF Stanza
    <2> QED BY <2>1, AppendFacts DEF ContinueReceive
  <1>2. Append(didReceiveIqQueue, s) \in Seq(S)
    BY AppendFacts
  <1>3. \A d \in Responders : Append(iqCalls[d], s) \in Seq(S)
    BY AppendFacts
  <1>4. [d \in Responders |-> Append(iqCalls[d], s)] \in [Responders -> Seq(S)]
    BY <1>3
  <1> QED BY <1>1, <1>2, <1>4 DEF ContinueReceive, iqVars

----------------------------------------------------------------------------
(* Every step keeps the types.                                                 *)

LEMMA CallStepTypes ==
    ASSUME TypeOK, NEW e \in Elements(Len(sent)), SendElement(e), UNCHANGED receiveVars,
           xmppQueue' = xmppQueue
    PROVE  CallTypes' /\ SendTypes' /\ ReceiveTypes' /\ BlockTypes'
  <1>1. CallTypes' /\ SendTypes' /\ Calls \subseteq Calls'
    BY NewCall, SendElementTypes
  <1>2. ReceiveTypes' /\ Stanzas' = Stanzas
    BY ReceiveFrame DEF TypeOK
  <1>3. xmppQueue' \in Seq(Blocks(Calls', Stanzas'))
    BY <1>1, <1>2, BlocksAre, BlocksMonotone, SeqMonotone DEF TypeOK
  <1> QED BY <1>1, <1>2, <1>3, BlocksAreNow

\* The element that resendMyPresence and the application give to sendElement:.
LEMMA SentElements ==
    ASSUME TypeOK
    PROVE  /\ \A form \in Forms, receipt \in BOOLEAN :
                 Element(form, receipt, Len(sent) + 1) \in Elements(Len(sent))
           /\ myPresence # 0 => Element("available", FALSE, myPresence) \in Elements(Len(sent))
  <1>1. Len(sent) \in Nat /\ Calls = 1..Len(sent)
    BY CallFacts DEF TypeOK
  <1>2. myPresence # 0 => myPresence \in 1..(Len(sent) + 1)
    BY <1>1 DEF TypeOK, CallTypes
  <1> QED BY <1>1, <1>2 DEF Element, Elements, Forms

LEMMA AnswerWillSendTypes ==
    ASSUME TypeOK, NEW k \in Kinds, AnswerWillSend(k)
    PROVE  CallTypes' /\ SendTypes' /\ ReceiveTypes' /\ BlockTypes'
  <1> DEFINE n == Head(willSendQueue[k])
  <1>1. willSendQueue[k] \in Seq(Calls) /\ willSendQueue[k] # <<>> /\ Returned(n)
    BY DEF AnswerWillSend, TypeOK, SendTypes
  <1>2. n \in Calls /\ Tail(willSendQueue[k]) \in Seq(Calls)
    BY <1>1, TailFacts
  <1> HIDE DEF n
  <1>3. sent' = sent /\ signalled' = signalled /\ myPresence' = myPresence /\ Calls' = Calls
    BY DEF AnswerWillSend, receiptVars, Calls
  <1>4. fate' \in Seq({"none", "filtered", "failed"}) /\ Len(fate') = Len(fate)
    <2>1. fate \in Seq({"none", "filtered", "failed"}) /\ n \in 1..Len(fate)
      BY <1>2, CallFacts DEF TypeOK, CallTypes
    <2> QED BY <1>1, <2>1, ExceptFacts DEF Returned
  <1>5. CallTypes'
    BY <1>3, <1>4 DEF TypeOK, CallTypes
  <1>6. SendTypes'
    <2>1. willSendQueue' = [willSendQueue EXCEPT ![k] = Tail(willSendQueue[k])]
      BY DEF AnswerWillSend
    <2>2. willSendQueue' \in [Kinds -> Seq(Calls)]
      BY <2>1, <1>2 DEF TypeOK, SendTypes
    <2> QED BY <2>2, <1>3 DEF TypeOK, SendTypes, AnswerWillSend, receiptVars
  <1>7. ReceiveTypes' /\ Stanzas' = Stanzas
    BY ReceiveFrame DEF TypeOK, AnswerWillSend
  <1>8. xmppQueue' \in Seq(Blocks(Calls, Stanzas))
    <2>1. Block("send", n, "same") \in Blocks(Calls, Stanzas)
      BY <1>2 DEF Block, Blocks
    <2>2. xmppQueue \in Seq(Blocks(Calls, Stanzas))
      BY BlocksAre DEF TypeOK
    <2>3. Append(xmppQueue, Block("send", n, "same")) \in Seq(Blocks(Calls, Stanzas))
      BY <2>1, <2>2, AppendFacts
    <2>4. xmppQueue' \in {xmppQueue, Append(xmppQueue, Block("send", n, "same"))}
      BY <1>1 DEF Returned
    <2> QED BY <2>2, <2>3, <2>4
  <1> QED BY <1>3, <1>5, <1>6, <1>7, <1>8, BlocksAreNow

LEMMA DidWriteDataTypes ==
    ASSUME TypeOK, DidWriteData
    PROVE  CallTypes' /\ SendTypes' /\ ReceiveTypes' /\ BlockTypes'
  <1>1. sent' = sent /\ fate' = fate /\ myPresence' = myPresence /\ Calls' = Calls
    BY DEF DidWriteData, Calls
  <1>2. writing' \in Seq(Calls)
    BY TailFacts DEF DidWriteData, TypeOK, SendTypes
  <1>3. receipts' \in Seq(Calls)
    <2>1. receipts \in Seq(Calls) /\ (receipts # <<>> => Tail(receipts) \in Seq(Calls))
      BY TailFacts DEF TypeOK, SendTypes
    <2>2. receipts' \in {receipts, Tail(receipts)}
          /\ (receipts' = Tail(receipts) => receipts # <<>> \/ receipts' = receipts)
      BY DEF DidWriteData, SignalsReceipt, receiptVars
    <2> QED BY <2>1, <2>2
  <1>4. signalled' \in Seq(SUBSET {"success", "failure"}) /\ Len(signalled') = Len(signalled)
    <2>1. signalled \in Seq(SUBSET {"success", "failure"})
      BY DEF TypeOK, CallTypes
    <2>2. CASE SignalsReceipt(Head(writing))
      <3> DEFINE n == Head(receipts)
      <3>1. n \in 1..Len(signalled)
        BY <2>2, TailFacts, CallFacts DEF TypeOK, SendTypes, SignalsReceipt
      <3>2. signalled' = [signalled EXCEPT ![n] = signalled[n] \cup {"success"}]
        BY <2>2 DEF DidWriteData
      <3> HIDE DEF n
      <3>3. signalled[n] \in SUBSET {"success", "failure"}
        BY <2>1, <3>1
      <3>4. signalled[n] \cup {"success"} \in SUBSET {"success", "failure"}
        BY <3>3
      <3> QED BY <2>1, <3>1, <3>2, <3>4, ExceptFacts
    <2>3. CASE ~SignalsReceipt(Head(writing))
      BY <2>1, <2>3 DEF DidWriteData, receiptVars
    <2> QED BY <2>2, <2>3
  <1>5. CallTypes'
    BY <1>1, <1>4 DEF TypeOK, CallTypes
  <1>6. SendTypes'
    BY <1>1, <1>2, <1>3 DEF TypeOK, SendTypes, DidWriteData
  <1>7. ReceiveTypes' /\ Stanzas' = Stanzas
    BY ReceiveFrame DEF TypeOK, DidWriteData
  <1> QED BY <1>1, <1>5, <1>6, <1>7 DEF TypeOK, BlockTypes, DidWriteData

\* A stanza that arrives is the last one, whatever becomes of it.
LEMMA NewStanza ==
    ASSUME TypeOK, NEW form \in InForms, Receive(form)
    PROVE  /\ Len(received') = Len(received) + 1 /\ Len(received) \in Nat
           /\ Stanzas = 1..Len(received) /\ Stanzas' = 1..(Len(received) + 1)
           /\ Stanzas \subseteq Stanzas'
           /\ Len(received) + 1 \in Stanzas' /\ Len(received) + 1 \notin Stanzas
           /\ \A s \in Stanzas : received'[s] = received[s] /\ answers'[s] = answers[s]
           /\ received'[Len(received) + 1] = form /\ answers'[Len(received) + 1] = {}
           /\ received' \in Seq(InForms)
           /\ returned' \in Seq({"same", "other", "nil"}) /\ Len(returned') = Len(received')
           /\ answers' \in Seq(SUBSET (Responders \cup {"error"}))
           /\ Len(answers') = Len(received')
  <1> DEFINE A == SUBSET (Responders \cup {"error"})
  <1>1. /\ received \in Seq(InForms) /\ returned \in Seq({"same", "other", "nil"})
        /\ answers \in Seq(A) /\ Len(returned) = Len(received) /\ Len(answers) = Len(received)
    BY DEF TypeOK, ReceiveTypes
  <1>2. {} \in A
    OBVIOUS
  <1> HIDE DEF A
  <1>3. /\ received' = Append(received, form) /\ returned' = Append(returned, "same")
        /\ answers' = Append(answers, {})
    BY DEF Receive
  <1>4. /\ received' \in Seq(InForms) /\ Len(received') = Len(received) + 1
        /\ Len(received) \in Nat /\ Stanzas = 1..Len(received)
        /\ Stanzas' = 1..(Len(received) + 1)
        /\ \A s \in 1..Len(received) : received'[s] = received[s]
        /\ received'[Len(received) + 1] = form
    BY <1>1, <1>3, AppendFacts DEF Stanzas
  <1>5. returned' \in Seq({"same", "other", "nil"}) /\ Len(returned') = Len(received')
    BY <1>1, <1>3, <1>4, AppendFacts
  <1>6. /\ answers' \in Seq(A) /\ Len(answers') = Len(received')
        /\ \A s \in 1..Len(received) : answers'[s] = answers[s]
        /\ answers'[Len(received) + 1] = {}
    BY <1>1, <1>2, <1>3, <1>4, AppendFacts
  <1> QED BY <1>4, <1>5, <1>6 DEF A

LEMMA ReceiveStepTypes ==
    ASSUME TypeOK, NEW form \in InForms, Receive(form)
    PROVE  CallTypes' /\ SendTypes' /\ ReceiveTypes' /\ BlockTypes'
  <1> DEFINE s == Len(received) + 1
             asks == <<"receive", Kind(form)>> \in delegates
             W == [of : Stanzas', asks : BOOLEAN]
             D(S) == [stanza : S, version : {"same", "other"}]
  <1>1. Stanzas \subseteq Stanzas' /\ s \in Stanzas'
    BY NewStanza
  <1>2. delivered \in Seq(D(Stanzas'))
    <2>1. D(Stanzas) \subseteq D(Stanzas')
      BY <1>1
    <2>2. delivered \in Seq(D(Stanzas))
      BY DEF TypeOK, ReceiveTypes
    <2> HIDE DEF D
    <2> QED BY <2>1, <2>2, SeqMonotone
  <1>3. didReceiveIqQueue \in Seq(Stanzas')
    BY <1>1, SeqMonotone DEF TypeOK, ReceiveTypes
  <1>4. iqCalls \in [Responders -> Seq(Stanzas')]
    <2>1. \A d \in Responders : iqCalls[d] \in Seq(Stanzas')
      BY <1>1, SeqMonotone DEF TypeOK, ReceiveTypes
    <2> QED BY <2>1 DEF TypeOK, ReceiveTypes
  <1>5. willReceiveQueue \in Seq(W)
    <2>1. [of : Stanzas, asks : BOOLEAN] \subseteq W
      BY <1>1
    <2>2. willReceiveQueue \in Seq([of : Stanzas, asks : BOOLEAN])
      BY DEF TypeOK, ReceiveTypes
    <2> HIDE DEF W
    <2> QED BY <2>1, <2>2, SeqMonotone
  <1>0. /\ received' \in Seq(InForms) /\ Len(returned') = Len(received')
        /\ returned' \in Seq({"same", "other", "nil"})
        /\ answers' \in Seq(SUBSET (Responders \cup {"error"}))
        /\ Len(answers') = Len(received')
    BY NewStanza
  <1>6. ASSUME ContinueReceive(s, "same", form), UNCHANGED <<stanzaQueue, willReceiveQueue>>
        PROVE  ReceiveTypes'
    <2> HIDE DEF W, s
    <2>1. /\ delivered' \in Seq(D(Stanzas')) /\ didReceiveIqQueue' \in Seq(Stanzas')
          /\ iqCalls' \in [Responders -> Seq(Stanzas')]
      BY <1>1, <1>2, <1>3, <1>4, <1>6, ContinueReceiveTypes
    <2>2. willReceiveQueue' \in Seq(W) /\ stanzaQueue' \in BOOLEAN
      BY <1>5, <1>6 DEF TypeOK, ReceiveTypes
    <2> QED BY <1>0, <2>1, <2>2 DEF ReceiveTypes, W
  <1>7. ASSUME stanzaQueue' = TRUE,
               willReceiveQueue' = Append(willReceiveQueue, [of |-> s, asks |-> asks]),
               UNCHANGED <<delivered, iqVars>>
        PROVE  ReceiveTypes'
    <2>1. asks \in BOOLEAN
      OBVIOUS
    <2>2. [of |-> s, asks |-> asks] \in W
      BY <1>1, <2>1
    <2> HIDE DEF W, s, asks
    <2>3. willReceiveQueue' \in Seq(W)
      BY <1>5, <1>7, <2>2, AppendFacts
    <2>4. /\ delivered' \in Seq(D(Stanzas')) /\ didReceiveIqQueue' \in Seq(Stanzas')
          /\ iqCalls' \in [Responders -> Seq(Stanzas')] /\ stanzaQueue' \in BOOLEAN
      BY <1>2, <1>3, <1>4, <1>7 DEF iqVars
    <2> QED BY <1>0, <2>3, <2>4 DEF ReceiveTypes, W
  <1>8. ReceiveTypes'
    BY <1>6, <1>7 DEF Receive, TakesStanza
  <1>9. CallTypes' /\ SendTypes' /\ Calls' = Calls
    BY SendFrame DEF TypeOK, Receive
  <1>10. xmppQueue' \in Seq(Blocks(Calls', Stanzas'))
    BY <1>1, <1>9, BlocksAre, BlocksMonotone, SeqMonotone DEF TypeOK, Receive
  <1> QED BY <1>8, <1>9, <1>10, BlocksAreNow

LEMMA AnswerWillReceiveTypes ==
    ASSUME TypeOK, AnswerWillReceive
    PROVE  CallTypes' /\ SendTypes' /\ ReceiveTypes' /\ BlockTypes'
  <1> DEFINE b == Head(willReceiveQueue)
             W == [of : Stanzas, asks : BOOLEAN]
             V == {"same", "other", "nil"}
  <1>1. willReceiveQueue \in Seq(W) /\ willReceiveQueue # <<>>
        /\ willReceiveQueue' = Tail(willReceiveQueue)
    BY DEF TypeOK, ReceiveTypes, AnswerWillReceive
  <1>2. PICK version \in V : /\ returned' = [returned EXCEPT ![b.of] = version]
                             /\ xmppQueue' = Append(xmppQueue, Block("receive", b.of, version))
    BY DEF AnswerWillReceive
  <1>3. \A x \in W : x.of \in Stanzas
    OBVIOUS
  <1>4. willReceiveQueue' \in Seq(W) /\ b \in W
    <2> HIDE DEF W
    <2> QED BY <1>1, TailFacts
  <1>5. b.of \in Stanzas /\ b.of \in 1..Len(returned)
    BY <1>3, <1>4, StanzaFacts DEF TypeOK
  <1> HIDE DEF b, W
  <1>6. returned' \in Seq(V) /\ Len(returned') = Len(returned)
    BY <1>2, <1>5, ExceptFacts DEF TypeOK, ReceiveTypes
  <1>7. /\ UNCHANGED <<received, stanzaQueue, iqVars, delivered, answers>>
        /\ Stanzas' = Stanzas
    BY DEF AnswerWillReceive, Stanzas
  <1>8. ReceiveTypes'
    BY <1>4, <1>6, <1>7 DEF TypeOK, ReceiveTypes, iqVars, W
  <1>9. CallTypes' /\ SendTypes' /\ Calls' = Calls
    BY SendFrame DEF TypeOK, AnswerWillReceive
  <1>10. xmppQueue' \in Seq(Blocks(Calls, Stanzas))
    <2>1. Block("receive", b.of, version) \in Blocks(Calls, Stanzas)
      BY <1>5 DEF Block, Blocks
    <2>2. xmppQueue \in Seq(Blocks(Calls, Stanzas))
      BY BlocksAre DEF TypeOK
    <2> QED BY <1>2, <2>1, <2>2, AppendFacts
  <1> QED BY <1>7, <1>8, <1>9, <1>10, BlocksAreNow

\* The answers are the ones before, or those of one request are others.
LEMMA AnswersTypes ==
    ASSUME ReceiveTypes, NEW s \in Stanzas, NEW given \in SUBSET (Responders \cup {"error"})
    PROVE  /\ [answers EXCEPT ![s] = given] \in Seq(SUBSET (Responders \cup {"error"}))
           /\ Len([answers EXCEPT ![s] = given]) = Len(received)
           /\ [answers EXCEPT ![s] = given][s] = given
           /\ \A r \in Stanzas : r # s => [answers EXCEPT ![s] = given][r] = answers[r]
  <1> DEFINE A == SUBSET (Responders \cup {"error"})
  <1>1. answers \in Seq(A) /\ s \in 1..Len(answers) /\ Stanzas = 1..Len(answers)
        /\ Len(answers) = Len(received)
    BY StanzaFacts DEF ReceiveTypes
  <1>2. given \in A
    OBVIOUS
  <1> HIDE DEF A
  <1> QED BY <1>1, <1>2, ExceptFacts DEF A

LEMMA DidReceiveIQTypes ==
    ASSUME TypeOK, NEW d \in Responders, NEW yes \in BOOLEAN, DidReceiveIQ(d, yes)
    PROVE  /\ CallTypes' /\ SendTypes' /\ ReceiveTypes' /\ BlockTypes'
           /\ Stanzas' = Stanzas /\ Head(iqCalls[d]) \in Stanzas
  <1> DEFINE s == Head(iqCalls[d])
  <1>1. /\ iqCalls[d] \in Seq(Stanzas) /\ iqCalls[d] # <<>>
        /\ iqCalls' = [iqCalls EXCEPT ![d] = Tail(iqCalls[d])]
        /\ answers' = IF yes THEN [answers EXCEPT ![s] = answers[s] \cup {d}] ELSE answers
    BY DEF TypeOK, ReceiveTypes, DidReceiveIQ
  <1>2. s \in Stanzas /\ Tail(iqCalls[d]) \in Seq(Stanzas)
    BY <1>1, TailFacts
  <1> HIDE DEF s
  <1>3. answers' \in Seq(SUBSET (Responders \cup {"error"})) /\ Len(answers') = Len(received)
    <2>1. answers[s] \cup {d} \in SUBSET (Responders \cup {"error"})
      BY <1>2, StanzaFacts DEF TypeOK
    <2>2. /\ [answers EXCEPT ![s] = answers[s] \cup {d}]
                \in Seq(SUBSET (Responders \cup {"error"}))
          /\ Len([answers EXCEPT ![s] = answers[s] \cup {d}]) = Len(received)
      BY <1>2, <2>1, AnswersTypes DEF TypeOK
    <2> QED BY <1>1, <2>2 DEF TypeOK, ReceiveTypes
  <1>4. iqCalls' \in [Responders -> Seq(Stanzas)]
    BY <1>1, <1>2 DEF TypeOK, ReceiveTypes
  <1>5. /\ UNCHANGED <<received, stanzaQueue, willReceiveQueue, didReceiveIqQueue, returned,
                       delivered>>
        /\ Stanzas' = Stanzas
    BY DEF DidReceiveIQ, Stanzas
  <1>6. ReceiveTypes'
    BY <1>3, <1>4, <1>5 DEF TypeOK, ReceiveTypes
  <1>7. CallTypes' /\ SendTypes' /\ Calls' = Calls
    BY SendFrame DEF TypeOK, DidReceiveIQ
  <1> QED BY <1>2, <1>5, <1>6, <1>7 DEF TypeOK, BlockTypes, DidReceiveIQ, s

LEMMA RunDidReceiveIqQueueTypes ==
    ASSUME TypeOK, RunDidReceiveIqQueue
    PROVE  /\ CallTypes' /\ SendTypes' /\ ReceiveTypes' /\ BlockTypes'
           /\ Stanzas' = Stanzas /\ Head(didReceiveIqQueue) \in Stanzas
  <1> DEFINE s == Head(didReceiveIqQueue)
  <1>1. /\ didReceiveIqQueue \in Seq(Stanzas) /\ didReceiveIqQueue # <<>>
        /\ didReceiveIqQueue' = Tail(didReceiveIqQueue)
        /\ \/ /\ answers' = [answers EXCEPT ![s] = {"error"}]
              /\ xmppQueue' = Append(xmppQueue, Block("error", s, "same"))
           \/ UNCHANGED <<xmppQueue, answers>>
    BY DEF TypeOK, ReceiveTypes, RunDidReceiveIqQueue
  <1>2. s \in Stanzas /\ didReceiveIqQueue' \in Seq(Stanzas)
    BY <1>1, TailFacts
  <1> HIDE DEF s
  <1>3. answers' \in Seq(SUBSET (Responders \cup {"error"})) /\ Len(answers') = Len(received)
    <2>1. /\ [answers EXCEPT ![s] = {"error"}] \in Seq(SUBSET (Responders \cup {"error"}))
          /\ Len([answers EXCEPT ![s] = {"error"}]) = Len(received)
      BY <1>2, AnswersTypes DEF TypeOK
    <2>2. answers \in Seq(SUBSET (Responders \cup {"error"})) /\ Len(answers) = Len(received)
      BY DEF TypeOK, ReceiveTypes
    <2> QED BY <1>1, <2>1, <2>2
  <1>4. /\ UNCHANGED <<received, stanzaQueue, willReceiveQueue, iqCalls, returned, delivered>>
        /\ Stanzas' = Stanzas
    BY DEF RunDidReceiveIqQueue, Stanzas
  <1>5. ReceiveTypes'
    BY <1>2, <1>3, <1>4 DEF TypeOK, ReceiveTypes
  <1>6. CallTypes' /\ SendTypes' /\ Calls' = Calls
    BY SendFrame DEF TypeOK, RunDidReceiveIqQueue
  <1>7. xmppQueue' \in Seq(Blocks(Calls, Stanzas))
    <2>1. Block("error", s, "same") \in Blocks(Calls, Stanzas)
      BY <1>2 DEF Block, Blocks
    <2>2. xmppQueue \in Seq(Blocks(Calls, Stanzas))
      BY BlocksAre DEF TypeOK
    <2>3. Append(xmppQueue, Block("error", s, "same")) \in Seq(Blocks(Calls, Stanzas))
      BY <2>1, <2>2, AppendFacts
    <2> QED BY <1>1, <2>2, <2>3
  <1> QED BY <1>2, <1>4, <1>5, <1>6, <1>7, BlocksAreNow DEF s

\* The blocks of the xmppQueue.
LEMMA RunsSendTypes ==
    ASSUME TypeOK, NEW n \in Calls, RunsSend(n)
    PROVE  CallTypes' /\ SendTypes' /\ ReceiveTypes' /\ Stanzas' = Stanzas /\ Calls' = Calls
  <1>1. /\ UNCHANGED <<sent, willSendQueue, questioned, receiptVars, receiveVars>>
        /\ Calls' = Calls
    BY DEF RunsSend, Calls
  <1>2. /\ wire' \in Seq(Calls) /\ writing' \in Seq(Calls) /\ myPresence' \in Calls \cup {0}
    <2>1. CASE ContinueSend(n, sent[n])
      BY <2>1, ContinueSendTypes DEF TypeOK
    <2>2. CASE UNCHANGED <<wire, writing, myPresence>>
      BY <2>2 DEF TypeOK, CallTypes, SendTypes
    <2> QED BY <2>1, <2>2 DEF RunsSend
  <1>3. fate' \in Seq({"none", "filtered", "failed"}) /\ Len(fate') = Len(fate)
    <2>1. fate \in Seq({"none", "filtered", "failed"}) /\ n \in 1..Len(fate)
      BY CallFacts DEF TypeOK, CallTypes
    <2>2. fate' \in {fate, [fate EXCEPT ![n] = "failed"]}
      BY DEF RunsSend
    <2> QED BY <2>1, <2>2, ExceptFacts
  <1>4. CallTypes'
    BY <1>1, <1>2, <1>3 DEF TypeOK, CallTypes, receiptVars
  <1>5. SendTypes'
    BY <1>1, <1>2 DEF TypeOK, SendTypes, receiptVars
  <1> QED BY <1>1, <1>4, <1>5, ReceiveFrame DEF TypeOK

LEMMA RunsReceiveTypes ==
    ASSUME TypeOK, NEW s \in Stanzas, NEW version \in {"same", "other", "nil"},
           RunsReceive(s, version)
    PROVE  CallTypes' /\ SendTypes' /\ ReceiveTypes' /\ Stanzas' = Stanzas /\ Calls' = Calls
  <1> DEFINE D == [stanza : Stanzas, version : {"same", "other"}]
  <1>1. /\ UNCHANGED <<received, stanzaQueue, willReceiveQueue, returned, answers, sendVars>>
        /\ Stanzas' = Stanzas
    BY DEF RunsReceive, Stanzas
  <1>2. /\ delivered \in Seq(D) /\ didReceiveIqQueue \in Seq(Stanzas)
        /\ iqCalls \in [Responders -> Seq(Stanzas)]
    BY DEF TypeOK, ReceiveTypes
  <1>3. /\ delivered' \in Seq(D) /\ didReceiveIqQueue' \in Seq(Stanzas)
        /\ iqCalls' \in [Responders -> Seq(Stanzas)]
    <2>1. CASE connected /\ version # "nil"
      <3>1. PassesOn(received[s], version) \in {"same", "other"}
        BY <2>1 DEF PassesOn
      <3>2. ContinueReceive(s, PassesOn(received[s], version), received[s])
        BY <2>1 DEF RunsReceive
      <3> QED BY <1>2, <3>1, <3>2, ContinueReceiveTypes
    <2>2. CASE UNCHANGED <<delivered, iqVars>>
      BY <1>2, <2>2 DEF iqVars
    <2> QED BY <2>1, <2>2 DEF RunsReceive
  <1>4. ReceiveTypes'
    BY <1>1, <1>3 DEF TypeOK, ReceiveTypes
  <1> QED BY <1>1, <1>4, SendFrame DEF TypeOK

LEMMA RunXmppQueueCases ==
    ASSUME TypeOK, RunXmppQueue
    PROVE  /\ xmppQueue # <<>> /\ xmppQueue' = Tail(xmppQueue)
           /\ UNCHANGED <<connVars, delegates>>
           /\ \/ /\ Head(xmppQueue).op = "send" /\ Head(xmppQueue).of \in Calls
                 /\ RunsSend(Head(xmppQueue).of)
              \/ /\ Head(xmppQueue).op = "receive" /\ Head(xmppQueue).of \in Stanzas
                 /\ Head(xmppQueue).version \in {"same", "other", "nil"}
                 /\ RunsReceive(Head(xmppQueue).of, Head(xmppQueue).version)
              \/ /\ Head(xmppQueue).op = "error" /\ Head(xmppQueue).of \in Stanzas
                 /\ RunsError(Head(xmppQueue).of)
  <1>1. /\ xmppQueue # <<>> /\ xmppQueue' = Tail(xmppQueue)
        /\ UNCHANGED <<connVars, delegates>>
    BY DEF RunXmppQueue
  <1>2. /\ Head(xmppQueue).op = "send" => Head(xmppQueue).of \in Calls
        /\ Head(xmppQueue).op \in {"receive", "error"} => Head(xmppQueue).of \in Stanzas
        /\ Head(xmppQueue).op \in {"send", "receive", "error"}
        /\ Head(xmppQueue).version \in {"same", "other", "nil"}
    BY <1>1, HeadBlock DEF TypeOK
  <1>3. CASE Head(xmppQueue).op = "send"
    BY <1>1, <1>2, <1>3 DEF RunXmppQueue
  <1>4. CASE Head(xmppQueue).op = "receive"
    BY <1>1, <1>2, <1>4 DEF RunXmppQueue
  <1>5. CASE Head(xmppQueue).op = "error"
    BY <1>1, <1>2, <1>5 DEF RunXmppQueue
  <1> QED BY <1>2, <1>3, <1>4, <1>5

LEMMA RunXmppQueueTypes ==
    ASSUME TypeOK, RunXmppQueue
    PROVE  /\ CallTypes' /\ SendTypes' /\ ReceiveTypes' /\ BlockTypes'
  <1> DEFINE b == Head(xmppQueue)
  <1>1. xmppQueue' \in Seq(Blocks(Calls, Stanzas))
    BY HeadBlock, RunXmppQueueCases DEF TypeOK
  <1>2. CASE b.op = "send" /\ b.of \in Calls /\ RunsSend(b.of)
    BY <1>1, <1>2, RunsSendTypes, BlocksAreNow
  <1>3. CASE b.op = "receive" /\ b.of \in Stanzas /\ b.version \in {"same", "other", "nil"}
             /\ RunsReceive(b.of, b.version)
    BY <1>1, <1>3, RunsReceiveTypes, BlocksAreNow
  <1>4. CASE RunsError(b.of)
    <2> DEFINE e == Element("result", FALSE, Len(sent) + 1)
    <2>1. e \in Elements(Len(sent))
      BY SentElements DEF Forms
    <2>2. SendElement(e) /\ UNCHANGED receiveVars
      BY <1>4 DEF RunsError
    <2> HIDE DEF e
    <2>3. CallTypes' /\ SendTypes' /\ Calls \subseteq Calls'
      BY <2>1, <2>2, NewCall, SendElementTypes
    <2>4. ReceiveTypes' /\ Stanzas' = Stanzas
      BY <2>2, ReceiveFrame DEF TypeOK
    <2>5. xmppQueue' \in Seq(Blocks(Calls', Stanzas'))
      BY <1>1, <2>3, <2>4, BlocksMonotone, SeqMonotone
    <2> QED BY <2>3, <2>4, <2>5, BlocksAreNow
  <1> QED BY <1>2, <1>3, <1>4, RunXmppQueueCases

LEMMA DisconnectTypes ==
    ASSUME TypeOK, Disconnect
    PROVE  CallTypes' /\ SendTypes' /\ ReceiveTypes' /\ BlockTypes'
  <1>1. /\ UNCHANGED <<sent, willSendQueue, questioned, wire, fate, receiveVars, xmppQueue>>
        /\ receipts' = <<>> /\ myPresence' = 0 /\ writing' = <<>> /\ Calls' = Calls
        /\ signalled' = FailsReceipts
    BY DEF Disconnect, Calls
  <1>2. /\ signalled' \in Seq(SUBSET {"success", "failure"}) /\ Len(signalled') = Len(signalled)
    <2> DEFINE R == SUBSET {"success", "failure"}
    <2>1. signalled \in Seq(R) /\ \A r \in R : r \cup {"failure"} \in R
      BY DEF TypeOK, CallTypes
    <2> HIDE DEF R
    <2>2. Len(signalled) \in Nat /\ DOMAIN signalled = 1..Len(signalled)
          /\ \A n \in 1..Len(signalled) : signalled[n] \in R
      BY <2>1
    <2>3. \A n \in 1..Len(signalled) : FailsReceipts[n] \in R
      BY <2>1, <2>2 DEF FailsReceipts
    <2>4. DOMAIN FailsReceipts = 1..Len(signalled)
          /\ FailsReceipts = [n \in 1..Len(signalled) |-> FailsReceipts[n]]
      BY <2>2 DEF FailsReceipts
    <2> DEFINE f == FailsReceipts
    <2> HIDE DEF f
    <2>5. f \in [1..Len(signalled) -> R]
      BY <2>3, <2>4 DEF f
    <2>6. f \in Seq(R) /\ Len(f) = Len(signalled)
      BY <2>2, <2>5
    <2> QED BY <1>1, <2>6 DEF R, f
  <1>3. CallTypes'
    BY <1>1, <1>2 DEF TypeOK, CallTypes
  <1>4. <<>> \in Seq(Calls)
    OBVIOUS
  <1>5. SendTypes'
    BY <1>1, <1>4 DEF TypeOK, SendTypes
  <1>6. ReceiveTypes' /\ Stanzas' = Stanzas
    BY <1>1, ReceiveFrame DEF TypeOK
  <1> QED BY <1>1, <1>3, <1>5, <1>6 DEF TypeOK, BlockTypes

LEMMA TypesInit == Init => TypeOK
  <1> SUFFICES ASSUME Init PROVE TypeOK
    OBVIOUS
  <1>1. CallTypes
    BY DEF Init, CallTypes, Calls
  <1>2. SendTypes
    <2>1. <<>> \in Seq(Calls)
      OBVIOUS
    <2>2. willSendQueue \in [Kinds -> Seq(Calls)]
      BY <2>1 DEF Init
    <2> QED BY <2>1, <2>2 DEF Init, SendTypes
  <1>3. ReceiveTypes
    <2>1. <<>> \in Seq(Stanzas)
      OBVIOUS
    <2>2. iqCalls \in [Responders -> Seq(Stanzas)]
      BY <2>1 DEF Init
    <2>3. /\ received = <<>> /\ returned = <<>> /\ delivered = <<>> /\ answers = <<>>
          /\ willReceiveQueue = <<>> /\ didReceiveIqQueue = <<>> /\ stanzaQueue = FALSE
      BY DEF Init
    <2>4. /\ received \in Seq(InForms) /\ returned \in Seq({"same", "other", "nil"})
          /\ willReceiveQueue \in Seq([of : Stanzas, asks : BOOLEAN])
          /\ Len(returned) = Len(received) /\ Len(answers) = Len(received)
      BY <2>3
    <2>5. /\ delivered \in Seq([stanza : Stanzas, version : {"same", "other"}])
          /\ didReceiveIqQueue \in Seq(Stanzas)
      BY <2>3
    <2>6. stanzaQueue \in BOOLEAN
      BY <2>3, Zenon
    <2>7. answers \in Seq(SUBSET (Responders \cup {"error"}))
      <3> DEFINE A == SUBSET (Responders \cup {"error"})
      <3> HIDE DEF A
      <3>1. answers \in Seq(A)
        BY <2>3
      <3> QED BY <3>1 DEF A
    <2> QED BY <2>2, <2>4, <2>5, <2>6, <2>7 DEF ReceiveTypes
  <1>4. BlockTypes
    BY DEF Init, BlockTypes
  <1> QED BY <1>1, <1>2, <1>3, <1>4 DEF Init, TypeOK

\* What a step does to the connection and the delegates.
LEMMA ConnStepTypes ==
    ASSUME TypeOK, [Next]_vars
    PROVE  /\ connected' \in BOOLEAN /\ conn' \in Nat
           /\ delegates' \subseteq {"send", "receive"} \X Kinds
  <1>1. /\ connected \in BOOLEAN /\ conn \in Nat
        /\ delegates \subseteq {"send", "receive"} \X Kinds
    BY DEF TypeOK
  <1>2. CASE Connect \/ Disconnect
    <2>1. connected' \in BOOLEAN /\ conn' \in {conn, conn + 1} /\ delegates' = delegates
      BY <1>2, Zenon DEF Connect, Disconnect
    <2> QED BY <1>1, <2>1
  <1>3. ASSUME NEW what \in ({"send"} \X WillSend) \cup ({"receive"} \X WillReceive),
               AddDelegate(what) \/ RemoveDelegate(what)
        PROVE  /\ connected' = connected /\ conn' = conn
               /\ delegates' \subseteq {"send", "receive"} \X Kinds
    <2>1. what \in {"send", "receive"} \X Kinds
      BY FormsAssumption
    <2> QED BY <1>1, <1>3, <2>1 DEF AddDelegate, RemoveDelegate, connVars
  <1>4. CASE UNCHANGED <<connVars, delegates>>
    BY <1>1, <1>4 DEF connVars
  <1>5. \/ Connect \/ Disconnect \/ UNCHANGED <<connVars, delegates>>
        \/ \E what \in ({"send"} \X WillSend) \cup ({"receive"} \X WillReceive) :
              AddDelegate(what) \/ RemoveDelegate(what)
    BY DEF Next, Application, Network, Answers, Send, ResendMyPresence, DidWriteData, Receive,
           AnswerWillSend, AnswerWillReceive, DidReceiveIQ, RunDidReceiveIqQueue, RunXmppQueue,
           vars
  <1> QED BY <1>1, <1>2, <1>3, <1>4, <1>5

\* What a step is, as far as elements are concerned.
Calling == \E e \in Elements(Len(sent)) :
              SendElement(e) /\ UNCHANGED <<connVars, delegates, receiveVars, xmppQueue>>

Idle == UNCHANGED <<sendVars, receiveVars, xmppQueue>> /\ (connected => connected')

LEMMA Steps ==
    ASSUME TypeOK, [Next]_vars
    PROVE  \/ Calling
           \/ \E k \in Kinds : AnswerWillSend(k)
           \/ DidWriteData
           \/ \E form \in InForms : Receive(form)
           \/ AnswerWillReceive
           \/ \E d \in Responders, yes \in BOOLEAN : DidReceiveIQ(d, yes)
           \/ RunDidReceiveIqQueue
           \/ RunXmppQueue
           \/ Disconnect
           \/ Idle
  <1>1. ASSUME NEW form \in OutForms, NEW receipt \in BOOLEAN, Send(form, receipt)
        PROVE  Calling
    <2>1. Element(form, receipt, Len(sent) + 1) \in Elements(Len(sent))
      BY SentElements, FormsAssumption
    <2> QED BY <1>1, <2>1 DEF Send, Calling
  <1>2. ASSUME ResendMyPresence PROVE Calling
    <2>1. Element("available", FALSE, myPresence) \in Elements(Len(sent))
      BY <1>2, SentElements DEF ResendMyPresence
    <2> QED BY <1>2, <2>1 DEF ResendMyPresence, Calling
  <1>3. ASSUME NEW what, AddDelegate(what) \/ RemoveDelegate(what) PROVE Idle
    BY <1>3 DEF AddDelegate, RemoveDelegate, connVars, Idle
  <1>4. ASSUME Connect PROVE Idle
    BY <1>4 DEF Connect, Idle
  <1>5. ASSUME UNCHANGED vars PROVE Idle
    BY <1>5 DEF vars, connVars, Idle
  <1> QED BY <1>1, <1>2, <1>3, <1>4, <1>5 DEF Next, Application, Network, Answers

LEMMA TypesStep ==
    ASSUME TypeOK, [Next]_vars
    PROVE  TypeOK'
  <1>1. CASE Calling
    BY <1>1, CallStepTypes, ConnStepTypes DEF TypeOK, Calling
  <1>2. CASE Idle
    <2>1. CallTypes' /\ SendTypes' /\ Calls' = Calls /\ ReceiveTypes' /\ Stanzas' = Stanzas
      BY <1>2, SendFrame, ReceiveFrame DEF TypeOK, Idle
    <2>2. BlockTypes'
      BY <1>2, <2>1 DEF TypeOK, BlockTypes, Idle
    <2> QED BY <2>1, <2>2, ConnStepTypes DEF TypeOK
  <1>3. CASE \/ \E k \in Kinds : AnswerWillSend(k)
             \/ \E form \in InForms : Receive(form)
             \/ \E d \in Responders, yes \in BOOLEAN : DidReceiveIQ(d, yes)
    BY <1>3, AnswerWillSendTypes, ReceiveStepTypes, DidReceiveIQTypes, ConnStepTypes DEF TypeOK
  <1>4. CASE DidWriteData \/ AnswerWillReceive \/ RunDidReceiveIqQueue \/ RunXmppQueue
             \/ Disconnect
    BY <1>4, DidWriteDataTypes, AnswerWillReceiveTypes, RunDidReceiveIqQueueTypes,
       RunXmppQueueTypes, DisconnectTypes, ConnStepTypes DEF TypeOK
  <1> QED BY <1>1, <1>2, <1>3, <1>4, Steps

\* Every call and stanza named on a queue exists, and a queue holds what it should.
THEOREM TypeCorrect == Spec => []TypeOK
  <1>1. TypeOK /\ [Next]_vars => TypeOK'
    BY TypesStep
  <1> QED BY <1>1, TypesInit, PTL DEF Spec

----------------------------------------------------------------------------
(* What is received is delivered in order.                                     *)

\* The stanza delivered last.
Taken == IF delivered = <<>> THEN 0 ELSE Last(delivered).stanza

\* What was received later is behind; and until the delegates' queue is created nothing is on
\* its way past delegates.
InOrder ==
    /\ Behind(Taken, xmppQueue, willReceiveQueue)
    /\ ~stanzaQueue => /\ willReceiveQueue = <<>>
                       /\ \A i \in 1..Len(xmppQueue) : ~IsReceive(xmppQueue[i])

LEMMA TakenFacts ==
    ASSUME ReceiveTypes
    PROVE  Taken \in 0..Len(received)
  <1> DEFINE D == [stanza : Stanzas, version : {"same", "other"}]
  <1>1. delivered \in Seq(D) /\ \A x \in D : x.stanza \in Stanzas
    BY DEF ReceiveTypes
  <1> HIDE DEF D
  <1>2. Len(received) \in Nat /\ Stanzas = 1..Len(received)
    BY StanzaFacts
  <1>3. CASE delivered = <<>>
    BY <1>2, <1>3 DEF Taken
  <1>4. CASE delivered # <<>>
    <2>1. Last(delivered) \in D
      BY <1>1, <1>4 DEF Last
    <2> QED BY <1>1, <1>2, <1>4, <2>1 DEF Taken
  <1> QED BY <1>3, <1>4

\* A delivered stanza is the last one.
LEMMA TakesIt ==
    ASSUME ReceiveTypes, NEW s, NEW version, NEW form, ContinueReceive(s, version, form)
    PROVE  Taken' = s
  <1> DEFINE D == [stanza : Stanzas, version : {"same", "other"}]
  <1>1. delivered \in Seq(D) /\ delivered' = Append(delivered, Stanza(s, version))
    BY DEF ReceiveTypes, ContinueReceive
  <1> HIDE DEF D
  <1>2. delivered' # <<>> /\ Last(delivered') = Stanza(s, version)
    BY <1>1 DEF Last
  <1>3. Stanza(s, version).stanza = s
    BY DEF Stanza
  <1> QED BY <1>2, <1>3 DEF Taken

LEMMA TakenFrame ==
    ASSUME delivered' = delivered
    PROVE  Taken' = Taken
  BY DEF Taken

\* The stanzas on their way, compared with those received.
LEMMA OnTheWay ==
    ASSUME TypeOK
    PROVE  /\ xmppQueue \in Seq(Blocks(Calls, Stanzas))
           /\ willReceiveQueue \in Seq([of : Stanzas, asks : BOOLEAN])
           /\ \A i \in 1..Len(xmppQueue) :
                 IsReceive(xmppQueue[i]) => xmppQueue[i].of \in 1..Len(received)
           /\ \A i \in 1..Len(willReceiveQueue) : willReceiveQueue[i].of \in 1..Len(received)
           /\ Taken \in 0..Len(received) /\ Taken \in Nat /\ Len(received) \in Nat
  <1> DEFINE W == [of : Stanzas, asks : BOOLEAN]
  <1>1. xmppQueue \in Seq(Blocks(Calls, Stanzas))
    BY BlocksAre DEF TypeOK
  <1>2. willReceiveQueue \in Seq(W) /\ \A x \in W : x.of \in Stanzas
    BY DEF TypeOK, ReceiveTypes
  <1> HIDE DEF W
  <1>3. \A i \in 1..Len(willReceiveQueue) : willReceiveQueue[i] \in W
    BY <1>2
  <1>4. Stanzas = 1..Len(received) /\ Len(received) \in Nat
    BY StanzaFacts DEF TypeOK
  <1>5. \A i \in 1..Len(xmppQueue) : IsReceive(xmppQueue[i]) => xmppQueue[i].of \in Stanzas
    BY BlockFacts DEF TypeOK, IsReceive
  <1>6. Taken \in 0..Len(received) /\ Taken \in Nat
    BY <1>4, TakenFacts DEF TypeOK
  <1> QED BY <1>1, <1>2, <1>3, <1>4, <1>5, <1>6 DEF W

\* A block that has nothing to do with received stanzas is posted.
LEMMA InOrderOther ==
    ASSUME TypeOK, InOrder, NEW b \in Blocks(Calls, Stanzas), ~IsReceive(b),
           xmppQueue' = Append(xmppQueue, b),
           UNCHANGED <<delivered, stanzaQueue, willReceiveQueue>>
    PROVE  InOrder'
  <1>1. xmppQueue \in Seq(Blocks(Calls, Stanzas)) /\ Taken \in Nat /\ Taken' = Taken
    BY OnTheWay, TakenFrame
  <1>2. Behind(Taken, xmppQueue', willReceiveQueue)
    BY <1>1, BehindOther DEF InOrder
  <1>3. \A i \in 1..Len(xmppQueue') : xmppQueue'[i] = b
            \/ (i \in 1..Len(xmppQueue) /\ xmppQueue'[i] = xmppQueue[i])
    BY <1>1, AppendFacts
  <1>4. Behind(Taken', xmppQueue', willReceiveQueue')
    BY <1>1, <1>2
  <1> QED BY <1>3, <1>4 DEF InOrder

LEMMA InOrderFrame ==
    ASSUME InOrder, UNCHANGED <<delivered, stanzaQueue, willReceiveQueue, xmppQueue>>
    PROVE  InOrder' /\ Taken' = Taken
  <1>1. Taken' = Taken
    BY TakenFrame
  <1>2. Behind(Taken', xmppQueue', willReceiveQueue')
    BY <1>1 DEF InOrder
  <1> QED BY <1>1, <1>2 DEF InOrder

LEMMA InOrderReceive ==
    ASSUME TypeOK, InOrder, NEW form \in InForms, Receive(form)
    PROVE  InOrder' /\ Taken' \in {Taken, Len(received')}
  <1> DEFINE s == Len(received) + 1
             asks == <<"receive", Kind(form)>> \in delegates
  <1>1. Len(received') = s /\ xmppQueue' = xmppQueue
    BY NewStanza DEF Receive
  <1>2. ASSUME ContinueReceive(s, "same", form), UNCHANGED <<stanzaQueue, willReceiveQueue>>,
               ~stanzaQueue
        PROVE  InOrder' /\ Taken' = s
    <2>1. Taken' = s
      BY <1>2, TakesIt DEF TypeOK
    <2>2. willReceiveQueue = <<>> /\ \A i \in 1..Len(xmppQueue) : ~IsReceive(xmppQueue[i])
      BY <1>2 DEF InOrder
    <2>3. Behind(Taken', xmppQueue', willReceiveQueue')
      BY <1>1, <1>2, <2>2 DEF Behind
    <2> QED BY <1>1, <1>2, <2>1, <2>2, <2>3 DEF InOrder
  <1>3. ASSUME NEW a \in BOOLEAN, stanzaQueue' = TRUE, delivered' = delivered,
               willReceiveQueue' = Append(willReceiveQueue, [of |-> s, asks |-> a])
        PROVE  InOrder' /\ Taken' = Taken
    <2> DEFINE e == [of |-> s, asks |-> a]
               W == [of : Stanzas', asks : BOOLEAN]
    <2>1. e \in W /\ e.of = s
      BY NewStanza
    <2>2. willReceiveQueue \in Seq(W)
      <3>1. [of : Stanzas, asks : BOOLEAN] \subseteq W
        BY NewStanza
      <3> HIDE DEF W
      <3> QED BY <3>1, OnTheWay, SeqMonotone
    <2>3. /\ \A i \in 1..Len(xmppQueue) : IsReceive(xmppQueue[i]) => xmppQueue[i].of < s
          /\ \A i \in 1..Len(willReceiveQueue) : willReceiveQueue[i].of < s
          /\ Taken < s /\ Taken \in Nat
      BY OnTheWay
    <2>4. Taken' = Taken
      BY <1>3, TakenFrame
    <2> HIDE DEF e, W, s
    <2>5. Behind(Taken, xmppQueue, Append(willReceiveQueue, e))
      BY <2>1, <2>2, <2>3, BehindArrives DEF InOrder
    <2>6. Behind(Taken', xmppQueue', willReceiveQueue')
      BY <1>1, <1>3, <2>4, <2>5 DEF e
    <2> QED BY <1>3, <2>4, <2>6 DEF InOrder
  <1>4. \/ /\ ContinueReceive(s, "same", form) /\ UNCHANGED <<stanzaQueue, willReceiveQueue>>
           /\ ~stanzaQueue
        \/ /\ stanzaQueue' = TRUE /\ delivered' = delivered
           /\ willReceiveQueue' = Append(willReceiveQueue, [of |-> s, asks |-> asks])
    BY DEF Receive, TakesStanza
  <1>5. asks \in BOOLEAN
    OBVIOUS
  <1> HIDE DEF s, asks
  <1> QED BY <1>1, <1>2, <1>3, <1>4, <1>5

LEMMA InOrderAnswer ==
    ASSUME TypeOK, InOrder, AnswerWillReceive
    PROVE  InOrder'
  <1> DEFINE x == Head(willReceiveQueue)
             W == [of : Stanzas, asks : BOOLEAN]
  <1>1. PICK version \in {"same", "other", "nil"} :
            xmppQueue' = Append(xmppQueue, Block("receive", x.of, version))
    BY DEF AnswerWillReceive
  <1>2. /\ willReceiveQueue # <<>> /\ willReceiveQueue' = Tail(willReceiveQueue)
        /\ UNCHANGED <<delivered, stanzaQueue>>
    BY DEF AnswerWillReceive
  <1>3. willReceiveQueue \in Seq(W) /\ \A y \in W : y.of \in Stanzas
    BY OnTheWay
  <1> HIDE DEF W
  <1>4. x \in W /\ x.of \in Stanzas
    BY <1>2, <1>3, TailFacts
  <1> HIDE DEF x
  <1> DEFINE b == Block("receive", x.of, version)
  <1>5. b \in Blocks(Calls, Stanzas) /\ IsReceive(b) /\ b.of = x.of
    BY <1>4 DEF Block, Blocks, IsReceive
  <1> HIDE DEF b
  <1>6. xmppQueue \in Seq(Blocks(Calls, Stanzas)) /\ Taken \in Nat /\ Taken' = Taken
    BY <1>2, OnTheWay, TakenFrame
  <1>7. Behind(Taken, Append(xmppQueue, b), Tail(willReceiveQueue))
    BY <1>2, <1>3, <1>5, <1>6, BehindMoves DEF InOrder, x
  <1>8. Behind(Taken', xmppQueue', willReceiveQueue')
    BY <1>1, <1>2, <1>6, <1>7 DEF b
  <1> QED BY <1>2, <1>8 DEF InOrder

LEMMA InOrderRun ==
    ASSUME TypeOK, InOrder, RunXmppQueue
    PROVE  InOrder' /\ Taken' \in {Taken} \cup (Taken + 1)..Len(received)
  <1> DEFINE b == Head(xmppQueue)
  <1>1. /\ xmppQueue # <<>> /\ xmppQueue' = Tail(xmppQueue)
        /\ xmppQueue \in Seq(Blocks(Calls, Stanzas)) /\ Taken \in Nat /\ Len(received) \in Nat
    BY OnTheWay, RunXmppQueueCases
  <1>2. /\ Behind(Taken, xmppQueue', willReceiveQueue)
        /\ IsReceive(b) => Taken < b.of /\ Behind(b.of, xmppQueue', willReceiveQueue)
    BY <1>1, BehindTail DEF InOrder
  <1>3. \A i \in 1..Len(xmppQueue') : i + 1 \in 1..Len(xmppQueue)
            /\ xmppQueue'[i] = xmppQueue[i + 1]
    BY <1>1, TailFacts
  <1>4. b = xmppQueue[1] /\ 1 \in 1..Len(xmppQueue)
    BY <1>1, TailFacts
  <1>5. stanzaQueue' = stanzaQueue /\ willReceiveQueue' = willReceiveQueue
    BY RunXmppQueueCases DEF RunsSend, RunsReceive, RunsError, receiveVars
  <1>6. ~stanzaQueue' => /\ willReceiveQueue' = <<>>
                         /\ \A i \in 1..Len(xmppQueue') : ~IsReceive(xmppQueue'[i])
    BY <1>3, <1>5 DEF InOrder
  <1>7. CASE delivered' = delivered
    <2>1. Taken' = Taken
      BY <1>7, TakenFrame
    <2>2. Behind(Taken', xmppQueue', willReceiveQueue')
      BY <1>2, <1>5, <2>1
    <2> QED BY <1>6, <2>1, <2>2 DEF InOrder
  <1>8. ASSUME b.op = "receive", b.of \in Stanzas, NEW version, NEW form,
               ContinueReceive(b.of, version, form)
        PROVE  InOrder' /\ Taken' \in (Taken + 1)..Len(received)
    <2>1. Taken' = b.of
      BY <1>8, TakesIt DEF TypeOK
    <2>2. Taken < b.of /\ Behind(b.of, xmppQueue', willReceiveQueue)
      BY <1>2, <1>8 DEF IsReceive
    <2>3. b.of \in 1..Len(received)
      BY <1>8, StanzaFacts DEF TypeOK
    <2> HIDE DEF b
    <2>4. Behind(Taken', xmppQueue', willReceiveQueue')
      BY <1>5, <2>1, <2>2
    <2>5. Taken' \in (Taken + 1)..Len(received)
      BY <1>1, <2>1, <2>2, <2>3
    <2> QED BY <1>6, <2>4, <2>5 DEF InOrder
  <1>9. \/ delivered' = delivered
        \/ /\ b.op = "receive" /\ b.of \in Stanzas
           /\ ContinueReceive(b.of, PassesOn(received[b.of], b.version), received[b.of])
    BY RunXmppQueueCases DEF RunsSend, RunsReceive, RunsError, receiveVars
  <1> QED BY <1>7, <1>8, <1>9

LEMMA InOrderStep ==
    ASSUME TypeOK, InOrder, [Next]_vars
    PROVE  /\ InOrder'
           /\ \/ Len(received') = Len(received) + 1 /\ Taken' \in {Taken, Len(received')}
              \/ Len(received') = Len(received)
                 /\ Taken' \in {Taken} \cup (Taken + 1)..Len(received)
  <1>1. CASE Calling \/ Idle \/ DidWriteData \/ Disconnect
             \/ \E d \in Responders, yes \in BOOLEAN : DidReceiveIQ(d, yes)
    <2>1. UNCHANGED <<delivered, stanzaQueue, willReceiveQueue, xmppQueue, received>>
      BY <1>1 DEF Calling, Idle, DidWriteData, Disconnect, DidReceiveIQ, receiveVars
    <2> QED BY <2>1, InOrderFrame
  <1>2. ASSUME NEW k \in Kinds, AnswerWillSend(k)
        PROVE  InOrder' /\ Taken' = Taken /\ received' = received
    <2> DEFINE n == Head(willSendQueue[k])
    <2>1. /\ UNCHANGED <<delivered, stanzaQueue, willReceiveQueue, received>>
          /\ Returned(n) /\ willSendQueue[k] # <<>>
      BY <1>2 DEF AnswerWillSend, receiveVars
    <2>2. n \in Calls
      BY <2>1, TailFacts DEF TypeOK, SendTypes
    <2> HIDE DEF n
    <2>3. Block("send", n, "same") \in Blocks(Calls, Stanzas)
          /\ ~IsReceive(Block("send", n, "same"))
      BY <2>2 DEF Block, Blocks, IsReceive
    <2>4. CASE xmppQueue' = Append(xmppQueue, Block("send", n, "same"))
      BY <2>1, <2>3, <2>4, InOrderOther, TakenFrame
    <2>5. CASE xmppQueue' = xmppQueue
      BY <2>1, <2>5, InOrderFrame
    <2> QED BY <2>1, <2>4, <2>5 DEF Returned
  <1>3. ASSUME RunDidReceiveIqQueue
        PROVE  InOrder' /\ Taken' = Taken /\ received' = received
    <2> DEFINE s == Head(didReceiveIqQueue)
    <2>1. /\ UNCHANGED <<delivered, stanzaQueue, willReceiveQueue, received>>
          /\ xmppQueue' \in {xmppQueue, Append(xmppQueue, Block("error", s, "same"))}
      BY <1>3 DEF RunDidReceiveIqQueue
    <2>2. s \in Stanzas
      BY <1>3, RunDidReceiveIqQueueTypes
    <2> HIDE DEF s
    <2>3. Block("error", s, "same") \in Blocks(Calls, Stanzas)
          /\ ~IsReceive(Block("error", s, "same"))
      BY <2>2 DEF Block, Blocks, IsReceive
    <2>4. CASE xmppQueue' = Append(xmppQueue, Block("error", s, "same"))
      BY <2>1, <2>3, <2>4, InOrderOther, TakenFrame
    <2>5. CASE xmppQueue' = xmppQueue
      BY <2>1, <2>5, InOrderFrame
    <2> QED BY <2>1, <2>4, <2>5
  <1>4. ASSUME AnswerWillReceive
        PROVE  InOrder' /\ Taken' = Taken /\ received' = received
    BY <1>4, InOrderAnswer, TakenFrame DEF AnswerWillReceive
  <1>5. ASSUME RunXmppQueue PROVE received' = received
    BY <1>5, RunXmppQueueCases DEF RunsSend, RunsReceive, RunsError, receiveVars
  <1> QED BY <1>1, <1>2, <1>3, <1>4, <1>5, InOrderReceive, InOrderRun, NewStanza, Steps,
             InOrderFrame

\* The stream is an inbox: what it delivers is what it received, in that order, each stanza
\* at most once.
THEOREM DeliveryCorrect == Spec => DeliversInOrder
  <1>1. Init => InOrder /\ Inbox!Init
    BY DEF Init, InOrder, Behind, Taken, Inbox!Init
  <1>2. TypeOK /\ InOrder /\ [Next]_vars => InOrder' /\ [Inbox!Next]_(Inbox!deliveryVars)
    <2> SUFFICES ASSUME TypeOK, InOrder, [Next]_vars
                 PROVE  InOrder' /\ [Inbox!Next]_(Inbox!deliveryVars)
      OBVIOUS
    <2> QED BY InOrderStep DEF Taken, Inbox!Next, Inbox!Offer, Inbox!Take, Inbox!deliveryVars
  <1> QED BY <1>1, <1>2, TypeCorrect, PTL DEF Spec, DeliversInOrder, Inbox!Spec

----------------------------------------------------------------------------
(* A request is answered once.                                                 *)

LEMMA MemberAppend ==
    ASSUME NEW S, NEW q \in Seq(S), NEW x \in S, NEW e
    PROVE  e \in ToSet(Append(q, x)) <=> e \in ToSet(q) \/ e = x
  <1> DEFINE r == Append(q, x)
  <1>1. /\ r \in Seq(S) /\ Len(r) = Len(q) + 1 /\ Len(q) \in Nat
        /\ \A i \in 1..Len(q) : r[i] = q[i]
        /\ r[Len(q) + 1] = x
    BY AppendFacts
  <1> HIDE DEF r
  <1>2. e \in ToSet(r) <=> \E i \in 1..Len(r) : r[i] = e
    BY <1>1, MemberFacts
  <1>3. e \in ToSet(q) <=> \E i \in 1..Len(q) : q[i] = e
    BY MemberFacts
  <1>4. \A i \in 1..Len(r) : (i \in 1..Len(q) /\ r[i] = q[i]) \/ r[i] = x
    BY <1>1
  <1>5. \A i \in 1..Len(q) : i \in 1..Len(r) /\ r[i] = q[i]
    BY <1>1
  <1>6. Len(q) + 1 \in 1..Len(r)
    BY <1>1
  <1> QED BY <1>1, <1>2, <1>3, <1>4, <1>5, <1>6 DEF r

LEMMA MemberTail ==
    ASSUME NEW S, NEW q \in Seq(S), q # <<>>, NEW e
    PROVE  /\ Head(q) \in ToSet(q)
           /\ e \in ToSet(Tail(q)) => e \in ToSet(q)
           /\ e \in ToSet(q) => e = Head(q) \/ e \in ToSet(Tail(q))
  <1> DEFINE r == Tail(q)
  <1>1. /\ r \in Seq(S) /\ Len(r) = Len(q) - 1 /\ Len(q) \in Nat \ {0} /\ Head(q) = q[1]
        /\ \A i \in 1..(Len(q) - 1) : r[i] = q[i + 1]
    BY TailFacts
  <1> HIDE DEF r
  <1>2. e \in ToSet(r) <=> \E i \in 1..Len(r) : r[i] = e
    BY <1>1, MemberFacts
  <1>3. \A x : x \in ToSet(q) <=> \E i \in 1..Len(q) : q[i] = x
    BY DEF ToSet
  <1>4. \A i \in 1..Len(r) : i + 1 \in 1..Len(q) /\ r[i] = q[i + 1]
    BY <1>1
  <1>5. \A i \in 1..Len(q) : q[i] = Head(q) \/ (i - 1 \in 1..Len(r) /\ r[i - 1] = q[i])
    BY <1>1
  <1>6. 1 \in 1..Len(q)
    BY <1>1
  <1>7. Head(q) \in ToSet(q)
    BY <1>1, <1>3, <1>6
  <1>8. e \in ToSet(r) => e \in ToSet(q)
    BY <1>2, <1>3, <1>4
  <1>9. e \in ToSet(q) => e = Head(q) \/ e \in ToSet(r)
    BY <1>2, <1>3, <1>5
  <1> QED BY <1>7, <1>8, <1>9 DEF r

\* A request that delegates still hold was not answered with the error; what waits for its
\* delegates, or was answered with the error, has been delivered.
AnswersOnce ==
    /\ \A d \in Responders : \A s \in ToSet(iqCalls[d]) : "error" \notin answers[s]
    /\ \A s \in ToSet(didReceiveIqQueue) : s <= Taken
    /\ \A s \in Stanzas : "error" \in answers[s] => s <= Taken

LEMMA AnswersFrame ==
    ASSUME AnswersOnce, OneAnswer, UNCHANGED <<received, delivered, iqVars, answers>>
    PROVE  AnswersOnce' /\ OneAnswer'
  <1>1. Taken' = Taken
    BY TakenFrame
  <1> QED BY <1>1 DEF AnswersOnce, OneAnswer, IsDelivered, Stanzas, iqVars

\* What is delivered.
LEMMA DeliveredThen ==
    ASSUME ReceiveTypes, NEW s, NEW version, NEW form, ContinueReceive(s, version, form)
    PROVE  \A r : IsDelivered(r)' => IsDelivered(r) \/ r = s
  <1> DEFINE D == [stanza : Stanzas, version : {"same", "other"}]
  <1>1. delivered \in Seq(D) /\ delivered' = Append(delivered, Stanza(s, version))
    BY DEF ReceiveTypes, ContinueReceive
  <1> HIDE DEF D
  <1>2. /\ DOMAIN delivered' = 1..(Len(delivered) + 1) /\ DOMAIN delivered = 1..Len(delivered)
        /\ Len(delivered) \in Nat
        /\ \A i \in 1..Len(delivered) : delivered'[i] = delivered[i]
        /\ delivered'[Len(delivered) + 1] = Stanza(s, version)
    BY <1>1
  <1>3. Stanza(s, version).stanza = s
    BY DEF Stanza
  <1>4. \A i \in DOMAIN delivered' : \/ i \in DOMAIN delivered /\ delivered'[i] = delivered[i]
                                     \/ delivered'[i].stanza = s
    BY <1>2, <1>3
  <1> QED BY <1>4 DEF IsDelivered

\* A stanza that was not delivered before goes to the delegates.
LEMMA AnswersOnDelivery ==
    ASSUME TypeOK, AnswersOnce, OneAnswer, NEW s \in Stanzas', NEW version, Taken < s,
           ContinueReceive(s, version, received'[s]),
           Stanzas \subseteq Stanzas', Stanzas' \subseteq Nat,
           \A r \in Stanzas : received'[r] = received[r] /\ answers'[r] = answers[r],
           \A r \in Stanzas' : r \notin Stanzas => answers'[r] = {}
    PROVE  AnswersOnce' /\ OneAnswer'
  <1>1. Taken' = s /\ Taken \in Nat /\ s \in Nat
    BY TakesIt, OnTheWay DEF TypeOK
  <1>2. \A r : IsDelivered(r)' => IsDelivered(r) \/ r = s
    BY DeliveredThen DEF TypeOK
  <1>3. "error" \notin answers'[s]
    BY <1>1 DEF AnswersOnce
  <1>4. /\ didReceiveIqQueue \in Seq(Stanzas) /\ \A d \in Responders : iqCalls[d] \in Seq(Stanzas)
    BY DEF TypeOK, ReceiveTypes
  <1>5. /\ didReceiveIqQueue \in Seq(Stanzas')
        /\ \A d \in Responders : iqCalls[d] \in Seq(Stanzas')
    BY <1>4, SeqMonotone
  <1>6. \A r : r \in ToSet(didReceiveIqQueue') <=>
            r \in ToSet(didReceiveIqQueue) \/ (received'[s] = "request" /\ r = s)
    BY <1>5, MemberAppend DEF ContinueReceive, iqVars
  <1>7. \A d \in Responders : \A r \in ToSet(iqCalls'[d]) : r \in ToSet(iqCalls[d]) \/ r = s
    <2> SUFFICES ASSUME NEW d \in Responders, NEW r \in ToSet(iqCalls'[d])
                 PROVE  r \in ToSet(iqCalls[d]) \/ r = s
      OBVIOUS
    <2>1. iqCalls'[d] \in {iqCalls[d], Append(iqCalls[d], s)}
      BY DEF ContinueReceive, iqVars
    <2>2. r \in ToSet(Append(iqCalls[d], s)) => r \in ToSet(iqCalls[d]) \/ r = s
      BY <1>5, MemberAppend
    <2> QED BY <2>1, <2>2
  <1>8. \A d \in Responders : \A r \in ToSet(iqCalls[d]) : r \in Stanzas
    BY <1>4 DEF ToSet
  <1>9. \A r \in ToSet(didReceiveIqQueue) : r \in Stanzas
    BY <1>4 DEF ToSet
  <1>10. AnswersOnce'
    <2>1. \A d \in Responders : \A r \in ToSet(iqCalls'[d]) : "error" \notin answers'[r]
      BY <1>3, <1>7, <1>8 DEF AnswersOnce
    <2>2. \A r \in Nat : r <= Taken => r <= s
      BY <1>1
    <2>3. \A r \in ToSet(didReceiveIqQueue) : r <= Taken /\ r \in Nat
      BY <1>9 DEF AnswersOnce
    <2>4. \A r \in ToSet(didReceiveIqQueue') : r <= Taken'
      BY <1>1, <1>6, <2>2, <2>3
    <2>5. \A r \in Stanzas' : "error" \in answers'[r] => r \in Stanzas /\ "error" \in answers[r]
      OBVIOUS
    <2>6. \A r \in Stanzas' : "error" \in answers'[r] => r <= Taken'
      BY <1>1, <2>2, <2>5 DEF AnswersOnce
    <2> QED BY <2>1, <2>4, <2>6 DEF AnswersOnce
  <1>11. ASSUME NEW r \in Stanzas'
         PROVE  /\ received'[r] = "request" /\ IsDelivered(r)' =>
                      r \in ToSet(didReceiveIqQueue') \/ answers'[r] # {}
                /\ "error" \in answers'[r] => answers'[r] = {"error"}
    <2>1. CASE r \in Stanzas
      BY <1>2, <1>6, <2>1 DEF OneAnswer
    <2>2. CASE r \notin Stanzas
      <3>1. ~IsDelivered(r)
        <4> DEFINE D == [stanza : Stanzas, version : {"same", "other"}]
        <4>1. delivered \in Seq(D) /\ \A x \in D : x.stanza \in Stanzas
          BY DEF TypeOK, ReceiveTypes
        <4> HIDE DEF D
        <4> QED BY <4>1, <2>2 DEF IsDelivered
      <3> QED BY <1>2, <1>6, <2>2, <3>1
    <2> QED BY <2>1, <2>2
  <1>12. OneAnswer'
    BY <1>11 DEF OneAnswer
  <1> QED BY <1>10, <1>12

LEMMA AnswersReceive ==
    ASSUME TypeOK, AnswersOnce, OneAnswer, NEW form \in InForms, Receive(form)
    PROVE  AnswersOnce' /\ OneAnswer'
  <1> DEFINE s == Len(received) + 1
  <1>1. /\ Stanzas \subseteq Stanzas' /\ s \in Stanzas' /\ Stanzas' \subseteq Nat
        /\ \A r \in Stanzas : received'[r] = received[r] /\ answers'[r] = answers[r]
        /\ \A r \in Stanzas' : r \notin Stanzas => r = s
        /\ answers'[s] = {} /\ received'[s] = form
    BY NewStanza
  <1>2. Taken < s
    BY OnTheWay
  <1> HIDE DEF s
  <1>3. CASE ContinueReceive(s, "same", form)
    BY <1>1, <1>2, <1>3, AnswersOnDelivery
  <1>4. CASE UNCHANGED <<delivered, iqVars>>
    <2>1. Taken' = Taken
      BY <1>4, TakenFrame
    <2>2. \A d \in Responders : \A r \in ToSet(iqCalls[d]) : r \in Stanzas
      BY DEF ToSet, TypeOK, ReceiveTypes
    <2>3. \A r : IsDelivered(r)' = IsDelivered(r)
      BY <1>4 DEF IsDelivered
    <2>4. \A r : IsDelivered(r) => r \in Stanzas
      <3> DEFINE D == [stanza : Stanzas, version : {"same", "other"}]
      <3>1. delivered \in Seq(D) /\ \A x \in D : x.stanza \in Stanzas
        BY DEF TypeOK, ReceiveTypes
      <3> HIDE DEF D
      <3> QED BY <3>1 DEF IsDelivered
    <2>5. AnswersOnce'
      BY <1>1, <1>4, <2>1, <2>2 DEF AnswersOnce, iqVars
    <2>6. \A r \in Stanzas' :
              /\ received'[r] = "request" /\ IsDelivered(r)' =>
                    r \in ToSet(didReceiveIqQueue') \/ answers'[r] # {}
              /\ "error" \in answers'[r] => answers'[r] = {"error"}
      BY <1>1, <1>4, <2>3, <2>4 DEF OneAnswer, iqVars
    <2> QED BY <2>5, <2>6 DEF OneAnswer
  <1> QED BY <1>3, <1>4 DEF Receive, TakesStanza, s

LEMMA AnswersDidReceive ==
    ASSUME TypeOK, AnswersOnce, OneAnswer, NEW d \in Responders, NEW yes \in BOOLEAN,
           DidReceiveIQ(d, yes)
    PROVE  AnswersOnce' /\ OneAnswer'
  <1> DEFINE s == Head(iqCalls[d])
  <1>1. /\ iqCalls[d] \in Seq(Stanzas) /\ iqCalls[d] # <<>> /\ iqCalls \in [Responders -> Seq(Stanzas)]
        /\ iqCalls' = [iqCalls EXCEPT ![d] = Tail(iqCalls[d])]
        /\ answers' = IF yes THEN [answers EXCEPT ![s] = answers[s] \cup {d}] ELSE answers
    BY DEF TypeOK, ReceiveTypes, DidReceiveIQ
  <1>2. s \in Stanzas /\ Stanzas' = Stanzas
    BY DidReceiveIQTypes
  <1>3. "error" \notin answers[s]
    BY <1>1, MemberTail DEF AnswersOnce
  <1> HIDE DEF s
  <1>4. d # "error"
    BY RespondersAssumption
  <1>5. answers[s] \cup {d} \in SUBSET (Responders \cup {"error"})
    BY <1>2, StanzaFacts DEF TypeOK
  <1>6. /\ [answers EXCEPT ![s] = answers[s] \cup {d}][s] = answers[s] \cup {d}
        /\ \A r \in Stanzas : r # s =>
              [answers EXCEPT ![s] = answers[s] \cup {d}][r] = answers[r]
    BY <1>2, <1>5, AnswersTypes DEF TypeOK
  <1>7. \A r \in Stanzas : answers'[r] = answers[r] \/ (r = s /\ answers'[r] = answers[r] \cup {d})
    BY <1>1, <1>6
  <1>8. \A r \in Stanzas : /\ "error" \in answers'[r] <=> "error" \in answers[r]
                           /\ answers[r] # {} => answers'[r] # {}
                           /\ "error" \in answers'[r] => answers'[r] = answers[r]
    BY <1>3, <1>4, <1>7
  <1>9. UNCHANGED <<received, didReceiveIqQueue, delivered>> /\ Taken' = Taken
    BY TakenFrame DEF DidReceiveIQ
  <1>10. \A c \in Responders : \A r \in ToSet(iqCalls'[c]) : r \in ToSet(iqCalls[c]) /\ r \in Stanzas
    <2> SUFFICES ASSUME NEW c \in Responders, NEW r \in ToSet(iqCalls'[c])
                 PROVE  r \in ToSet(iqCalls[c]) /\ r \in Stanzas
      OBVIOUS
    <2>1. iqCalls'[c] = iqCalls[c] \/ (c = d /\ iqCalls'[c] = Tail(iqCalls[d]))
      BY <1>1
    <2>2. r \in ToSet(iqCalls[c])
      BY <1>1, <2>1, MemberTail
    <2>3. iqCalls[c] \in Seq(Stanzas)
      BY <1>1
    <2> QED BY <2>2, <2>3 DEF ToSet
  <1>11. AnswersOnce'
    BY <1>2, <1>8, <1>9, <1>10 DEF AnswersOnce
  <1>12. OneAnswer'
    BY <1>2, <1>8, <1>9 DEF OneAnswer, IsDelivered
  <1> QED BY <1>11, <1>12

LEMMA AnswersRunDid ==
    ASSUME TypeOK, AnswersOnce, OneAnswer, RunDidReceiveIqQueue
    PROVE  AnswersOnce' /\ OneAnswer'
  <1> DEFINE s == Head(didReceiveIqQueue)
  <1>1. /\ didReceiveIqQueue \in Seq(Stanzas) /\ didReceiveIqQueue # <<>>
        /\ didReceiveIqQueue' = Tail(didReceiveIqQueue)
        /\ \A d \in Responders : s \notin ToSet(iqCalls[d])
        /\ answers' = IF answers[s] = {} THEN [answers EXCEPT ![s] = {"error"}] ELSE answers
    BY DEF TypeOK, ReceiveTypes, RunDidReceiveIqQueue, GroupDone
  <1>2. s \in Stanzas /\ Stanzas' = Stanzas
    BY RunDidReceiveIqQueueTypes
  <1>3. s <= Taken
    BY <1>1, MemberTail DEF AnswersOnce
  <1>4. /\ \A r : r \in ToSet(didReceiveIqQueue') => r \in ToSet(didReceiveIqQueue)
        /\ \A r : r \in ToSet(didReceiveIqQueue) => r = s \/ r \in ToSet(didReceiveIqQueue')
    BY <1>1, MemberTail
  <1> HIDE DEF s
  <1>5. /\ [answers EXCEPT ![s] = {"error"}][s] = {"error"}
        /\ \A r \in Stanzas : r # s => [answers EXCEPT ![s] = {"error"}][r] = answers[r]
    BY <1>2, AnswersTypes DEF TypeOK
  <1>6. /\ \A r \in Stanzas : r # s => answers'[r] = answers[r]
        /\ answers'[s] # {} /\ (answers'[s] = answers[s] \/ answers'[s] = {"error"})
    BY <1>1, <1>5
  <1>7. UNCHANGED <<received, iqCalls, delivered>> /\ Taken' = Taken
    BY TakenFrame DEF RunDidReceiveIqQueue
  <1>8. \A d \in Responders : \A r \in ToSet(iqCalls[d]) : r \in Stanzas /\ r # s
    BY <1>1 DEF ToSet, TypeOK, ReceiveTypes
  <1>9. AnswersOnce'
    <2>1. \A d \in Responders : \A r \in ToSet(iqCalls'[d]) : "error" \notin answers'[r]
      BY <1>6, <1>7, <1>8 DEF AnswersOnce
    <2>2. \A r \in ToSet(didReceiveIqQueue') : r <= Taken'
      BY <1>4, <1>7 DEF AnswersOnce
    <2>3. \A r \in Stanzas' : "error" \in answers'[r] => r <= Taken'
      BY <1>2, <1>3, <1>6, <1>7 DEF AnswersOnce
    <2> QED BY <2>1, <2>2, <2>3 DEF AnswersOnce
  <1>10. ASSUME NEW r \in Stanzas
         PROVE  /\ received'[r] = "request" /\ IsDelivered(r)' =>
                      r \in ToSet(didReceiveIqQueue') \/ answers'[r] # {}
                /\ "error" \in answers'[r] => answers'[r] = {"error"}
    <2>1. IsDelivered(r)' = IsDelivered(r) /\ received' = received
      BY <1>7 DEF IsDelivered
    <2>2. CASE r = s
      BY <1>2, <1>6, <2>2 DEF OneAnswer
    <2>3. CASE r # s
      BY <1>4, <1>6, <2>1, <2>3 DEF OneAnswer
    <2> QED BY <2>2, <2>3
  <1>11. OneAnswer'
    BY <1>2, <1>10 DEF OneAnswer
  <1> QED BY <1>9, <1>11

LEMMA AnswersRun ==
    ASSUME TypeOK, InOrder, AnswersOnce, OneAnswer, RunXmppQueue
    PROVE  AnswersOnce' /\ OneAnswer'
  <1> DEFINE b == Head(xmppQueue)
  <1>1. UNCHANGED <<received, answers>> /\ Stanzas' = Stanzas
    BY RunXmppQueueCases DEF RunsSend, RunsReceive, RunsError, receiveVars, Stanzas
  <1>2. \/ UNCHANGED <<delivered, iqVars>>
        \/ /\ IsReceive(b) /\ b.of \in Stanzas
           /\ ContinueReceive(b.of, PassesOn(received[b.of], b.version), received[b.of])
    BY RunXmppQueueCases DEF RunsSend, RunsReceive, RunsError, receiveVars, IsReceive
  <1>3. CASE UNCHANGED <<delivered, iqVars>>
    BY <1>1, <1>3, AnswersFrame
  <1>4. ASSUME IsReceive(b), b.of \in Stanzas, NEW version,
               ContinueReceive(b.of, version, received[b.of])
        PROVE  AnswersOnce' /\ OneAnswer'
    <2>1. Taken < b.of
      BY <1>4, OnTheWay, RunXmppQueueCases, BehindTail DEF InOrder
    <2>2. Stanzas \subseteq Nat
      BY StanzaFacts DEF TypeOK
    <2> HIDE DEF b
    <2> QED BY <1>1, <1>4, <2>1, <2>2, AnswersOnDelivery
  <1> QED BY <1>2, <1>3, <1>4

LEMMA AnswersStep ==
    ASSUME TypeOK, InOrder, AnswersOnce, OneAnswer, [Next]_vars
    PROVE  AnswersOnce' /\ OneAnswer'
  <1>1. CASE Calling \/ Idle \/ DidWriteData \/ Disconnect \/ AnswerWillReceive
             \/ \E k \in Kinds : AnswerWillSend(k)
    <2>1. UNCHANGED <<received, delivered, iqVars, answers>>
      BY <1>1 DEF Calling, Idle, DidWriteData, Disconnect, AnswerWillReceive, AnswerWillSend,
                  receiveVars
    <2> QED BY <2>1, AnswersFrame
  <1> QED BY <1>1, AnswersReceive, AnswersDidReceive, AnswersRunDid, AnswersRun, Steps

\* Every request that was delivered is waited for or answered, and none is answered with the
\* error as well as by a delegate.
THEOREM OneAnswerCorrect == Spec => []OneAnswer
  <1>1. Init => InOrder /\ AnswersOnce /\ OneAnswer
    BY DEF Init, InOrder, Behind, Taken, AnswersOnce, OneAnswer, ToSet, Stanzas
  <1>2. TypeOK /\ InOrder /\ AnswersOnce /\ OneAnswer /\ [Next]_vars
            => InOrder' /\ AnswersOnce' /\ OneAnswer'
    BY InOrderStep, AnswersStep
  <1> QED BY <1>1, <1>2, TypeCorrect, PTL DEF Spec

----------------------------------------------------------------------------
(* The presence that is kept for resending.                                    *)

\* The wire, and what is known of the calls on it.
LEMMA WireFacts ==
    ASSUME TypeOK
    PROVE  /\ wire \in Seq(Calls) /\ DOMAIN wire = 1..Len(wire) /\ Len(wire) \in Nat
           /\ \A i \in DOMAIN wire : wire[i] \in Calls
           /\ \A n \in Calls : sent[n].content \in Nat \ {0} /\ sent[n].form \in Forms
  <1>1. wire \in Seq(Calls)
    BY DEF TypeOK, SendTypes
  <1>2. \A n \in Calls : sent[n].content \in 1..n /\ n \in Nat \ {0} /\ sent[n].form \in Forms
    BY CallFacts DEF TypeOK
  <1> QED BY <1>1, <1>2

\* Calls already made keep their elements.
SameCalls == \A m \in Calls : sent'[m] = sent[m]

LEMMA PresenceFrame ==
    ASSUME TypeOK, MyPresenceIsLast, SameCalls, UNCHANGED <<wire, myPresence>>,
           connected => connected'
    PROVE  MyPresenceIsLast'
  <1>1. \A i \in DOMAIN wire : IsBroadcast(wire[i])' = IsBroadcast(wire[i])
    BY WireFacts DEF SameCalls, IsBroadcast
  <1> QED BY <1>1, WireFacts DEF MyPresenceIsLast, SameCalls

\* A call goes to the wire: it is the last one, or its element is not presence for all.
LEMMA PresenceContinues ==
    ASSUME TypeOK, MyPresenceIsLast, SameCalls, Calls \subseteq Calls', NEW n \in Calls',
           NEW e, ContinueSend(n, e), sent'[n].form = e.form, sent'[n].content = e.content,
           connected, connected'
    PROVE  MyPresenceIsLast'
  <1>1. wire' = Append(wire, n) /\ myPresence' = KeepsPresence(e)
    BY DEF ContinueSend
  <1>2. wire \in Seq(Calls')
    BY WireFacts, SeqMonotone
  <1>3. /\ DOMAIN wire' = 1..(Len(wire) + 1) /\ DOMAIN wire = 1..Len(wire) /\ Len(wire) \in Nat
        /\ \A i \in 1..Len(wire) : wire'[i] = wire[i]
        /\ wire'[Len(wire) + 1] = n
    BY <1>1, <1>2, AppendFacts
  <1>4. \A i \in 1..Len(wire) : wire[i] \in Calls
    BY <1>3, WireFacts
  <1>5. \A i \in 1..Len(wire) : /\ sent'[wire'[i]].form = sent[wire[i]].form
                                /\ sent'[wire'[i]].content = sent[wire[i]].content
    BY <1>3, <1>4 DEF SameCalls
  <1>6. sent'[wire'[Len(wire) + 1]].form = e.form
    BY <1>3
  <1>7. CASE e.form \in {"available", "unavailable"}
    <2>1. myPresence' = e.content
      BY <1>1, <1>7 DEF KeepsPresence
    <2>2. \A j \in DOMAIN wire' : ~(j > Len(wire) + 1)
      BY <1>3
    <2>3. Len(wire) + 1 \in DOMAIN wire' /\ sent'[wire'[Len(wire) + 1]].content = myPresence'
      BY <1>3, <2>1
    <2> QED BY <1>6, <1>7, <2>2, <2>3 DEF MyPresenceIsLast, IsBroadcast
  <1>8. CASE e.form \notin {"available", "unavailable"}
    <2>1. myPresence' = myPresence
      BY <1>1, <1>8 DEF KeepsPresence
    <2>2. CASE myPresence = 0
      BY <2>1, <2>2 DEF MyPresenceIsLast
    <2>3. CASE myPresence # 0
      <3>1. PICK i \in DOMAIN wire :
                /\ IsBroadcast(wire[i]) /\ sent[wire[i]].content = myPresence
                /\ \A j \in DOMAIN wire : j > i => ~IsBroadcast(wire[j])
        BY <2>3 DEF MyPresenceIsLast
      <3>2. /\ i \in DOMAIN wire' /\ sent'[wire'[i]].form \in {"available", "unavailable"}
            /\ sent'[wire'[i]].content = myPresence'
        BY <1>3, <1>5, <2>1, <3>1 DEF IsBroadcast
      <3>3. ASSUME NEW j \in DOMAIN wire', j > i
            PROVE  sent'[wire'[j]].form \notin {"available", "unavailable"}
        <4>1. CASE j \in 1..Len(wire)
          BY <1>3, <1>5, <3>1, <3>3, <4>1 DEF IsBroadcast
        <4>2. CASE j = Len(wire) + 1
          BY <1>6, <1>8, <4>2
        <4> QED BY <1>3, <4>1, <4>2
      <3> QED BY <3>2, <3>3 DEF MyPresenceIsLast, IsBroadcast
    <2> QED BY <2>2, <2>3
  <1> QED BY <1>7, <1>8

\* An element is given to sendElement:.
LEMMA PresenceCall ==
    ASSUME TypeOK, MyPresenceIsLast, NEW e \in Elements(Len(sent)), SendElement(e),
           connected' = connected
    PROVE  MyPresenceIsLast'
  <1>1. SameCalls /\ Calls \subseteq Calls' /\ Len(sent) + 1 \in Calls'
        /\ sent'[Len(sent) + 1].form = e.form /\ sent'[Len(sent) + 1].content = e.content
    BY NewCall DEF SameCalls
  <1> DEFINE n == Len(sent) + 1
  <1>2. \/ connected /\ ContinueSend(n, e)
        \/ UNCHANGED <<wire, myPresence>>
    BY DEF SendElement, SendWithTag
  <1>3. n \in Calls' /\ sent'[n].form = e.form /\ sent'[n].content = e.content
    BY <1>1
  <1>4. connected => connected'
    BY Zenon
  <1> HIDE DEF n
  <1>5. CASE connected /\ ContinueSend(n, e)
    BY <1>1, <1>3, <1>4, <1>5, PresenceContinues
  <1>6. CASE UNCHANGED <<wire, myPresence>>
    BY <1>1, <1>4, <1>6, PresenceFrame
  <1> QED BY <1>2, <1>5, <1>6

LEMMA PresenceRun ==
    ASSUME TypeOK, MyPresenceIsLast, RunXmppQueue
    PROVE  MyPresenceIsLast'
  <1> DEFINE n == Head(xmppQueue).of
  <1>1. connected => connected'
    BY DEF RunXmppQueue, connVars
  <1>2. CASE n \in Calls /\ RunsSend(n)
    <2>1. SameCalls /\ Calls \subseteq Calls' /\ sent' = sent
      BY <1>2 DEF RunsSend, SameCalls, Calls
    <2> HIDE DEF n
    <2>2. CASE connected /\ ContinueSend(n, sent[n])
      <3>1. n \in Calls' /\ sent'[n].form = sent[n].form /\ sent'[n].content = sent[n].content
        BY <1>2, <2>1
      <3> QED BY <1>1, <2>1, <2>2, <3>1, PresenceContinues
    <2>3. CASE UNCHANGED <<wire, myPresence>>
      BY <1>1, <2>1, <2>3, PresenceFrame
    <2> QED BY <1>2, <2>2, <2>3 DEF RunsSend
  <1>3. CASE \E version : RunsReceive(n, version)
    <2>1. UNCHANGED sendVars
      BY <1>3 DEF RunsReceive
    <2>2. SameCalls /\ UNCHANGED <<wire, myPresence>>
      BY <2>1 DEF sendVars, SameCalls
    <2> QED BY <1>1, <2>2, PresenceFrame
  <1>4. CASE RunsError(n)
    <2>1. Element("result", FALSE, Len(sent) + 1) \in Elements(Len(sent))
      BY SentElements DEF Forms
    <2>2. connected' = connected
      BY DEF RunXmppQueue, connVars
    <2> QED BY <1>4, <2>1, <2>2, PresenceCall DEF RunsError
  <1> QED BY <1>2, <1>3, <1>4, RunXmppQueueCases

LEMMA PresenceStep ==
    ASSUME TypeOK, MyPresenceIsLast, [Next]_vars
    PROVE  MyPresenceIsLast'
  <1>1. CASE Calling
    BY <1>1, PresenceCall DEF Calling, connVars
  <1>2. CASE \/ Idle \/ DidWriteData \/ AnswerWillReceive \/ RunDidReceiveIqQueue
             \/ \E k \in Kinds : AnswerWillSend(k)
             \/ \E form \in InForms : Receive(form)
             \/ \E d \in Responders, yes \in BOOLEAN : DidReceiveIQ(d, yes)
    <2>1. UNCHANGED <<sent, wire, myPresence>> /\ (connected => connected')
      BY <1>2 DEF Idle, DidWriteData, AnswerWillReceive, RunDidReceiveIqQueue, AnswerWillSend,
                  Receive, DidReceiveIQ, sendVars, connVars
    <2> QED BY <2>1, PresenceFrame DEF SameCalls
  <1>3. CASE Disconnect
    BY <1>3 DEF Disconnect, MyPresenceIsLast
  <1> QED BY <1>1, <1>2, <1>3, PresenceRun, Steps

\* The presence kept for resending is the last one that was written.
THEOREM MyPresenceCorrect == Spec => []MyPresenceIsLast
  <1>1. Init => MyPresenceIsLast
    BY DEF Init, MyPresenceIsLast
  <1>2. TypeOK /\ MyPresenceIsLast /\ [Next]_vars => MyPresenceIsLast'
    BY PresenceStep
  <1> QED BY <1>1, <1>2, TypeCorrect, PTL DEF Spec

----------------------------------------------------------------------------
(* Elements leave in order.  Numbers pass from a list w to a list q and from   *)
(* there to a list r; what is said of them is said of the members of a set A.  *)

Rising(A, s) == \A i, j \in 1..Len(s) : i < j /\ s[i] \in A /\ s[j] \in A => s[i] < s[j]

Before(A, s, t) == \A i \in 1..Len(s), j \in 1..Len(t) : s[i] \in A /\ t[j] \in A => s[i] < t[j]

Above(A, s, x) == \A i \in 1..Len(s) : s[i] \in A /\ x \in A => s[i] < x

Below(A, x, s) == \A i \in 1..Len(s) : s[i] \in A /\ x \in A => x < s[i]

Lined(A, r, q, w) ==
    /\ Rising(A, r) /\ Rising(A, q) /\ Rising(A, w)
    /\ Before(A, r, q) /\ Before(A, r, w) /\ Before(A, q, w)

\* t is s with x at its end.
Grown(s, t, x) ==
    /\ Len(s) \in Nat /\ Len(t) = Len(s) + 1
    /\ t[Len(s) + 1] = x
    /\ \A i \in 1..Len(s) : t[i] = s[i]

\* t is s without its head x.
Shrunk(s, t, x) ==
    /\ Len(s) \in Nat \ {0} /\ Len(t) = Len(s) - 1
    /\ x = s[1]
    /\ \A i \in 1..Len(t) : t[i] = s[i + 1]

LEMMA GrownFacts ==
    ASSUME NEW A, NEW s, NEW t, NEW x, Grown(s, t, x)
    PROVE  /\ Rising(A, s) /\ Above(A, s, x) => Rising(A, t)
           /\ \A y : Before(A, s, y) /\ Below(A, x, y) => Before(A, t, y)
           /\ \A y : Before(A, y, s) /\ Above(A, y, x) => Before(A, y, t)
  <1>1. \A i \in 1..Len(t) : (i \in 1..Len(s) /\ t[i] = s[i]) \/ (i = Len(s) + 1 /\ t[i] = x)
    BY DEF Grown
  <1>2. ASSUME Rising(A, s), Above(A, s, x) PROVE Rising(A, t)
    <2> SUFFICES ASSUME NEW i \in 1..Len(t), NEW j \in 1..Len(t), i < j, t[i] \in A, t[j] \in A
                 PROVE  t[i] < t[j]
      BY DEF Rising
    <2>1. i \in 1..Len(s) /\ t[i] = s[i]
      BY <1>1 DEF Grown
    <2>2. CASE j \in 1..Len(s) /\ t[j] = s[j]
      BY <1>2, <2>1, <2>2 DEF Rising
    <2>3. CASE t[j] = x
      BY <1>2, <2>1, <2>3 DEF Above
    <2> QED BY <1>1, <2>2, <2>3
  <1>3. ASSUME NEW y, Before(A, s, y), Below(A, x, y) PROVE Before(A, t, y)
    BY <1>1, <1>3 DEF Before, Below
  <1>4. ASSUME NEW y, Before(A, y, s), Above(A, y, x) PROVE Before(A, y, t)
    BY <1>1, <1>4 DEF Before, Above
  <1> QED BY <1>2, <1>3, <1>4

LEMMA ShrunkFacts ==
    ASSUME NEW A, NEW s, NEW t, NEW x, Shrunk(s, t, x)
    PROVE  /\ Rising(A, s) => Rising(A, t) /\ Below(A, x, t)
           /\ \A y : Before(A, s, y) => Before(A, t, y) /\ Below(A, x, y)
           /\ \A y : Before(A, y, s) => Before(A, y, t) /\ Above(A, y, x)
  <1>1. \A i \in 1..Len(t) : i + 1 \in 1..Len(s) /\ t[i] = s[i + 1] /\ 1 < i + 1
    BY DEF Shrunk
  <1>2. 1 \in 1..Len(s) /\ x = s[1]
    BY DEF Shrunk
  <1>3. ASSUME Rising(A, s) PROVE Rising(A, t) /\ Below(A, x, t)
    <2>1. Below(A, x, t)
      BY <1>1, <1>2, <1>3 DEF Rising, Below
    <2>2. ASSUME NEW i \in 1..Len(t), NEW j \in 1..Len(t), i < j, t[i] \in A, t[j] \in A
          PROVE  t[i] < t[j]
      <3>1. i + 1 < j + 1
        BY <2>2 DEF Shrunk
      <3> QED BY <1>1, <1>3, <2>2, <3>1 DEF Rising
    <2> QED BY <2>1, <2>2 DEF Rising
  <1>4. ASSUME NEW y, Before(A, s, y) PROVE Before(A, t, y) /\ Below(A, x, y)
    BY <1>1, <1>2, <1>4 DEF Before, Below
  <1>5. ASSUME NEW y, Before(A, y, s) PROVE Before(A, y, t) /\ Above(A, y, x)
    BY <1>1, <1>2, <1>5 DEF Before, Above
  <1> QED BY <1>3, <1>4, <1>5

\* What is not in A may come anywhere.
LEMMA OutsideFacts ==
    ASSUME NEW A, NEW x, x \notin A
    PROVE  \A s : Above(A, s, x) /\ Below(A, x, s)
  BY DEF Above, Below

\* The lists are not changed by the arrival of a number that none of them holds.
LEMMA WiderSet ==
    ASSUME NEW A, NEW B, NEW s, NEW t, \A i \in 1..Len(s) : s[i] \in B => s[i] \in A,
           \A i \in 1..Len(t) : t[i] \in B => t[i] \in A
    PROVE  /\ Rising(A, s) => Rising(B, s)
           /\ Before(A, s, t) => Before(B, s, t)
  BY DEF Rising, Before

LEMMA AppendGrows ==
    ASSUME NEW S, NEW s \in Seq(S), NEW x \in S
    PROVE  Grown(s, Append(s, x), x)
  BY AppendFacts DEF Grown

LEMMA TailShrinks ==
    ASSUME NEW S, NEW s \in Seq(S), s # <<>>
    PROVE  Shrunk(s, Tail(s), Head(s))
  BY TailFacts DEF Shrunk

\* The xmppQueue as a list of the calls to be sent.
Sending(q) == [i \in 1..Len(q) |-> IF q[i].op = "send" THEN q[i].of ELSE 0]

LEMMA SendingFacts ==
    ASSUME NEW q, Len(q) \in Nat
    PROVE  /\ Len(Sending(q)) = Len(q)
           /\ \A i \in 1..Len(q) : Sending(q)[i] = IF q[i].op = "send" THEN q[i].of ELSE 0
  <1> DEFINE f == Sending(q)
             V == {f[i] : i \in 1..Len(q)}
  <1>1. \A i \in 1..Len(q) : f[i] = IF q[i].op = "send" THEN q[i].of ELSE 0
    BY DEF Sending
  <1>2. DOMAIN f = 1..Len(q) /\ f = [i \in 1..Len(q) |-> f[i]]
    BY DEF Sending
  <1> HIDE DEF f
  <1>3. f \in [1..Len(q) -> V]
    BY <1>2
  <1> HIDE DEF V
  <1>4. Len(f) = Len(q)
    BY <1>3
  <1> QED BY <1>1, <1>4 DEF f

LEMMA SendingGrows ==
    ASSUME NEW S, NEW q \in Seq(S), NEW b \in S
    PROVE  Grown(Sending(q), Sending(Append(q, b)), IF b.op = "send" THEN b.of ELSE 0)
  <1> DEFINE r == Append(q, b)
  <1>1. /\ Len(r) = Len(q) + 1 /\ Len(q) \in Nat
        /\ \A i \in 1..Len(q) : r[i] = q[i]
        /\ r[Len(q) + 1] = b
    BY AppendFacts
  <1> HIDE DEF r
  <1>2. /\ Len(Sending(q)) = Len(q)
        /\ \A i \in 1..Len(q) : Sending(q)[i] = IF q[i].op = "send" THEN q[i].of ELSE 0
    BY <1>1, SendingFacts
  <1>3. /\ Len(Sending(r)) = Len(r)
        /\ \A i \in 1..Len(r) : Sending(r)[i] = IF r[i].op = "send" THEN r[i].of ELSE 0
    BY <1>1, SendingFacts
  <1> QED BY <1>1, <1>2, <1>3 DEF Grown, r

LEMMA SendingShrinks ==
    ASSUME NEW S, NEW q \in Seq(S), q # <<>>
    PROVE  Shrunk(Sending(q), Sending(Tail(q)), IF Head(q).op = "send" THEN Head(q).of ELSE 0)
  <1> DEFINE r == Tail(q)
  <1>1. /\ Len(r) = Len(q) - 1 /\ Len(q) \in Nat \ {0} /\ Head(q) = q[1]
        /\ \A i \in 1..Len(r) : r[i] = q[i + 1]
    BY TailFacts
  <1> HIDE DEF r
  <1>2. /\ Len(Sending(q)) = Len(q)
        /\ \A i \in 1..Len(q) : Sending(q)[i] = IF q[i].op = "send" THEN q[i].of ELSE 0
    BY <1>1, SendingFacts
  <1>3. /\ Len(Sending(r)) = Len(r)
        /\ \A i \in 1..Len(r) : Sending(r)[i] = IF r[i].op = "send" THEN r[i].of ELSE 0
    BY <1>1, SendingFacts
  <1>4. \A i \in 1..Len(r) : i + 1 \in 1..Len(q)
    BY <1>1
  <1>5. 1 \in 1..Len(q)
    BY <1>1
  <1>6. \A i \in 1..Len(Sending(r)) : Sending(r)[i] = Sending(q)[i + 1]
    BY <1>1, <1>2, <1>3, <1>4
  <1>7. Sending(q)[1] = IF Head(q).op = "send" THEN Head(q).of ELSE 0
    BY <1>1, <1>2, <1>5
  <1>8. Len(Sending(q)) \in Nat \ {0} /\ Len(Sending(r)) = Len(Sending(q)) - 1
    BY <1>1, <1>2, <1>3
  <1> QED BY <1>6, <1>7, <1>8 DEF Shrunk, r

\* The calls of kind k that were put to delegates.
Asked(k) == {n \in questioned : Kind(sent[n].form) = k}

\* The calls of a kind that go past delegates form a line: the delegates' queue, the
\* xmppQueue, the wire.  The others go to the wire as they are made.
SendOrder ==
    /\ \A n \in questioned : Kind(sent[n].form) \in Kinds
    /\ Rising(Nat \ questioned, wire)
    /\ \A k \in Kinds : \A i \in 1..Len(willSendQueue[k]) : willSendQueue[k][i] \in Asked(k)
    /\ \A i \in 1..Len(xmppQueue) : xmppQueue[i].op = "send" => xmppQueue[i].of \in questioned
    /\ \A k \in Kinds : Lined(Asked(k), wire, Sending(xmppQueue), willSendQueue[k])

LEMMA OutgoingFacts ==
    ASSUME TypeOK
    PROVE  /\ Len(sent) \in Nat /\ Calls = 1..Len(sent) /\ questioned \subseteq Calls
           /\ \A i \in 1..Len(wire) : wire[i] \in Calls
           /\ \A k \in Kinds : /\ willSendQueue[k] \in Seq(Calls)
                               /\ \A i \in 1..Len(willSendQueue[k]) : willSendQueue[k][i] \in Calls
           /\ \A k : Asked(k) \subseteq Calls /\ 0 \notin Asked(k)
  <1>1. Len(sent) \in Nat /\ Calls = 1..Len(sent)
    BY CallFacts DEF TypeOK
  <1>2. questioned \subseteq Calls /\ wire \in Seq(Calls)
        /\ \A k \in Kinds : willSendQueue[k] \in Seq(Calls)
    BY DEF TypeOK, SendTypes
  <1>3. \A k : Asked(k) \subseteq Calls /\ 0 \notin Asked(k)
    <2>1. \A n \in questioned : n \in Calls /\ n # 0
      BY <1>1, <1>2
    <2>2. \A k : \A n \in Asked(k) : n \in questioned
      BY DEF Asked
    <2> QED BY <2>1, <2>2, Zenon
  <1>4. \A i \in 1..Len(wire) : wire[i] \in Calls
    BY <1>2
  <1>5. \A k \in Kinds : \A i \in 1..Len(willSendQueue[k]) : willSendQueue[k][i] \in Calls
    BY <1>2
  <1> QED BY <1>1, <1>2, <1>3, <1>4, <1>5

LEMMA AskedSame ==
    ASSUME TypeOK, SameCalls, questioned' = questioned
    PROVE  /\ \A n \in questioned : sent'[n] = sent[n]
           /\ \A k : Asked(k)' = Asked(k)
  <1>1. \A n \in questioned : sent'[n] = sent[n]
    BY OutgoingFacts DEF SameCalls
  <1> QED BY <1>1 DEF Asked

\* The xmppQueue stays as it is, or its first block is taken.
LEMMA QueueTaken ==
    ASSUME TypeOK, SendOrder,
           xmppQueue' = xmppQueue \/ (xmppQueue # <<>> /\ xmppQueue' = Tail(xmppQueue))
    PROVE  /\ \A k \in Kinds : Lined(Asked(k), wire, Sending(xmppQueue'), willSendQueue[k])
           /\ \A i \in 1..Len(xmppQueue') :
                 xmppQueue'[i].op = "send" => xmppQueue'[i].of \in questioned
  <1>1. CASE xmppQueue' = xmppQueue
    BY <1>1 DEF SendOrder
  <1>2. CASE xmppQueue # <<>> /\ xmppQueue' = Tail(xmppQueue)
    <2> DEFINE x == IF Head(xmppQueue).op = "send" THEN Head(xmppQueue).of ELSE 0
    <2>1. xmppQueue \in Seq(Blocks(Calls, Stanzas))
      BY OnTheWay
    <2>2. Shrunk(Sending(xmppQueue), Sending(xmppQueue'), x)
      BY <1>2, <2>1, SendingShrinks
    <2>3. \A i \in 1..Len(xmppQueue') : i + 1 \in 1..Len(xmppQueue)
              /\ xmppQueue'[i] = xmppQueue[i + 1]
      BY <1>2, <2>1, TailFacts
    <2> HIDE DEF x
    <2>4. \A k \in Kinds : Lined(Asked(k), wire, Sending(xmppQueue'), willSendQueue[k])
      BY <2>2, ShrunkFacts DEF SendOrder, Lined
    <2> QED BY <2>3, <2>4 DEF SendOrder
  <1> QED BY <1>1, <1>2

\* Nothing is added to the lists.
LEMMA SendOrderFrame ==
    ASSUME TypeOK, SendOrder, SameCalls, UNCHANGED <<questioned, wire, willSendQueue>>,
           xmppQueue' = xmppQueue \/ (xmppQueue # <<>> /\ xmppQueue' = Tail(xmppQueue))
    PROVE  SendOrder'
  <1>1. /\ \A n \in questioned : sent'[n] = sent[n]
        /\ \A k : Asked(k)' = Asked(k)
    BY AskedSame
  <1>2. \A n \in questioned' : Kind(sent'[n].form) \in Kinds
    BY <1>1 DEF SendOrder
  <1>3. \A k \in Kinds : Lined(Asked(k)', wire', Sending(xmppQueue'), willSendQueue'[k])
    BY <1>1, QueueTaken
  <1>4. \A k \in Kinds : \A i \in 1..Len(willSendQueue'[k]) : willSendQueue'[k][i] \in Asked(k)'
    BY <1>1 DEF SendOrder
  <1>5. Rising(Nat \ questioned', wire')
    BY DEF SendOrder
  <1>6. \A i \in 1..Len(xmppQueue') :
            xmppQueue'[i].op = "send" => xmppQueue'[i].of \in questioned'
    BY QueueTaken
  <1> QED BY <1>2, <1>3, <1>4, <1>5, <1>6 DEF SendOrder

\* A block is posted that sends nothing.
LEMMA SendOrderPosts ==
    ASSUME TypeOK, SendOrder, UNCHANGED <<sent, questioned, wire, willSendQueue>>,
           NEW b \in Blocks(Calls, Stanzas), b.op # "send", xmppQueue' = Append(xmppQueue, b)
    PROVE  SendOrder'
  <1>1. xmppQueue \in Seq(Blocks(Calls, Stanzas))
    BY OnTheWay
  <1>2. Grown(Sending(xmppQueue), Sending(xmppQueue'), 0)
    BY <1>1, SendingGrows
  <1>3. \A k \in Kinds : Lined(Asked(k), wire, Sending(xmppQueue'), willSendQueue[k])
    BY <1>2, GrownFacts, OutsideFacts, OutgoingFacts DEF SendOrder, Lined
  <1>4. \A i \in 1..Len(xmppQueue') : xmppQueue'[i] = b
            \/ (i \in 1..Len(xmppQueue) /\ xmppQueue'[i] = xmppQueue[i])
    BY <1>1, AppendFacts
  <1>5. \A k : Asked(k)' = Asked(k)
    BY DEF Asked
  <1>6. \A i \in 1..Len(xmppQueue') :
            xmppQueue'[i].op = "send" => xmppQueue'[i].of \in questioned
    BY <1>4 DEF SendOrder
  <1> QED BY <1>3, <1>5, <1>6 DEF SendOrder

\* The delegates return an element, or nil.
LEMMA SendOrderAnswer ==
    ASSUME TypeOK, SendOrder, NEW k \in Kinds, AnswerWillSend(k)
    PROVE  SendOrder'
  <1> DEFINE x == Head(willSendQueue[k])
             b == Block("send", x, "same")
  <1>1. /\ willSendQueue[k] # <<>> /\ Returned(x) /\ UNCHANGED <<sent, questioned, wire>>
        /\ willSendQueue' = [willSendQueue EXCEPT ![k] = Tail(willSendQueue[k])]
        /\ willSendQueue \in [Kinds -> Seq(Calls)] /\ willSendQueue[k] \in Seq(Calls)
    BY DEF AnswerWillSend, TypeOK, SendTypes
  <1>2. /\ Shrunk(willSendQueue[k], willSendQueue'[k], x) /\ x \in Calls
        /\ \A l \in Kinds : l # k => willSendQueue'[l] = willSendQueue[l]
    BY <1>1, TailShrinks, TailFacts
  <1>3. x \in Asked(k) /\ x \in questioned /\ \A l \in Kinds : l # k => x \notin Asked(l)
    BY <1>2 DEF SendOrder, Shrunk, Asked
  <1> HIDE DEF x
  <1>4. \A l : Asked(l)' = Asked(l)
    BY <1>1 DEF Asked
  <1>5. xmppQueue' = xmppQueue \/ Grown(Sending(xmppQueue), Sending(xmppQueue'), x)
    <2>1. b \in Blocks(Calls, Stanzas) /\ b.op = "send" /\ b.of = x
      BY <1>2 DEF Block, Blocks
    <2> HIDE DEF b
    <2>2. xmppQueue \in Seq(Blocks(Calls, Stanzas))
      BY OnTheWay
    <2>3. Grown(Sending(xmppQueue), Sending(Append(xmppQueue, b)), x)
      BY <2>1, <2>2, SendingGrows
    <2>4. xmppQueue' \in {xmppQueue, Append(xmppQueue, b)}
      BY <1>1 DEF Returned, b
    <2> QED BY <2>3, <2>4
  <1>6. Lined(Asked(k), wire, Sending(xmppQueue'), willSendQueue'[k])
    <2> DEFINE A == Asked(k)
               q == Sending(xmppQueue)
               p == Sending(xmppQueue')
               w == willSendQueue[k]
               v == willSendQueue'[k]
    <2>1. Lined(A, wire, q, w) /\ Shrunk(w, v, x) /\ (p = q \/ Grown(q, p, x))
      BY <1>2, <1>5 DEF SendOrder
    <2> HIDE DEF A, q, p, w, v
    <2>2. /\ Rising(A, v) /\ Below(A, x, v) /\ Before(A, wire, v) /\ Above(A, wire, x)
          /\ Before(A, q, v) /\ Above(A, q, x)
      BY <2>1, ShrunkFacts DEF Lined
    <2>3. ASSUME p = q PROVE Lined(A, wire, p, v)
      BY <2>1, <2>2, <2>3 DEF Lined
    <2>4. ASSUME Grown(q, p, x) PROVE Lined(A, wire, p, v)
      <3>1. Rising(A, p) /\ Before(A, p, v) /\ Before(A, wire, p)
        BY <2>1, <2>2, <2>4, GrownFacts DEF Lined
      <3> QED BY <2>1, <2>2, <3>1 DEF Lined
    <2>5. Lined(A, wire, p, v)
      BY <2>1, <2>3, <2>4
    <2> QED BY <2>5 DEF A, p, v
  <1>7. ASSUME NEW l \in Kinds, l # k
        PROVE  Lined(Asked(l), wire, Sending(xmppQueue'), willSendQueue[l])
    BY <1>3, <1>5, <1>7, GrownFacts, OutsideFacts DEF SendOrder, Lined
  <1>8. \A l \in Kinds : Lined(Asked(l)', wire', Sending(xmppQueue'), willSendQueue'[l])
    BY <1>1, <1>2, <1>4, <1>6, <1>7
  <1>9. \A l \in Kinds : \A i \in 1..Len(willSendQueue'[l]) : willSendQueue'[l][i] \in Asked(l)'
    <2>1. \A i \in 1..Len(willSendQueue'[k]) : i + 1 \in 1..Len(willSendQueue[k])
              /\ willSendQueue'[k][i] = willSendQueue[k][i + 1]
      BY <1>2 DEF Shrunk
    <2> QED BY <1>2, <1>4, <2>1 DEF SendOrder
  <1>10. \A i \in 1..Len(xmppQueue') :
            xmppQueue'[i].op = "send" => xmppQueue'[i].of \in questioned
    <2>1. CASE xmppQueue' = xmppQueue
      BY <2>1 DEF SendOrder
    <2>2. CASE xmppQueue' = Append(xmppQueue, b)
      <3>1. b \in Blocks(Calls, Stanzas) /\ b.of = x
        BY <1>2 DEF Block, Blocks
      <3> HIDE DEF b
      <3>2. xmppQueue \in Seq(Blocks(Calls, Stanzas))
        BY OnTheWay
      <3>3. \A i \in 1..Len(xmppQueue') : xmppQueue'[i] = b
                \/ (i \in 1..Len(xmppQueue) /\ xmppQueue'[i] = xmppQueue[i])
        BY <2>2, <3>1, <3>2, AppendFacts
      <3> QED BY <1>3, <3>1, <3>3 DEF SendOrder
    <2> QED BY <1>1, <2>1, <2>2 DEF Returned
  <1> QED BY <1>1, <1>8, <1>9, <1>10 DEF SendOrder

\* A call comes back from the delegates and is written, or fails.
LEMMA SendOrderRuns ==
    ASSUME TypeOK, SendOrder, NEW n \in Calls, RunsSend(n),
           xmppQueue # <<>>, xmppQueue' = Tail(xmppQueue),
           Head(xmppQueue).op = "send", Head(xmppQueue).of = n
    PROVE  SendOrder'
  <1>1. /\ UNCHANGED <<sent, willSendQueue, questioned>> /\ SameCalls
        /\ \/ wire' = wire
           \/ wire' = Append(wire, n)
    BY DEF RunsSend, ContinueSend, SameCalls
  <1>2. CASE wire' = wire
    BY <1>1, <1>2, SendOrderFrame
  <1>3. CASE wire' = Append(wire, n)
    <2>1. xmppQueue \in Seq(Blocks(Calls, Stanzas))
      BY OnTheWay
    <2>2. Shrunk(Sending(xmppQueue), Sending(xmppQueue'), n)
      BY <2>1, SendingShrinks
    <2>3. Grown(wire, wire', n)
      BY <1>3, AppendGrows DEF TypeOK, SendTypes
    <2>4. n \in questioned
      <3>1. Head(xmppQueue) = xmppQueue[1] /\ 1 \in 1..Len(xmppQueue)
        BY <2>1, TailFacts
      <3> QED BY <3>1 DEF SendOrder
    <2>5. Rising(Nat \ questioned, wire')
      BY <2>3, <2>4, GrownFacts, OutsideFacts DEF SendOrder
    <2>6. ASSUME NEW k \in Kinds
          PROVE  Lined(Asked(k), wire', Sending(xmppQueue'), willSendQueue[k])
      <3> DEFINE A == Asked(k)
                 q == Sending(xmppQueue)
                 p == Sending(xmppQueue')
                 w == willSendQueue[k]
      <3>1. Lined(A, wire, q, w) /\ Shrunk(q, p, n) /\ Grown(wire, wire', n)
        BY <2>2, <2>3 DEF SendOrder
      <3> HIDE DEF A, q, p, w
      <3>2. /\ Rising(A, p) /\ Below(A, n, p) /\ Before(A, p, w) /\ Below(A, n, w)
            /\ Before(A, wire, p) /\ Above(A, wire, n)
        BY <3>1, ShrunkFacts DEF Lined
      <3>3. Rising(A, wire') /\ Before(A, wire', p) /\ Before(A, wire', w)
        BY <3>1, <3>2, GrownFacts DEF Lined
      <3>4. Lined(A, wire', p, w)
        BY <3>1, <3>2, <3>3 DEF Lined
      <3> QED BY <3>4 DEF A, p, w
    <2>7. \A k : Asked(k)' = Asked(k)
      BY <1>1 DEF Asked
    <2>8. \A i \in 1..Len(xmppQueue') :
              xmppQueue'[i].op = "send" => xmppQueue'[i].of \in questioned
      BY QueueTaken
    <2> QED BY <1>1, <2>5, <2>6, <2>7, <2>8 DEF SendOrder
  <1> QED BY <1>1, <1>2, <1>3

\* A new call.
LEMMA SendOrderCall ==
    ASSUME TypeOK, SendOrder, NEW e \in Elements(Len(sent)), SendElement(e),
           xmppQueue' = xmppQueue \/ (xmppQueue # <<>> /\ xmppQueue' = Tail(xmppQueue))
    PROVE  SendOrder'
  <1> DEFINE n == Len(sent) + 1
             c == Kind(e.form)
             q == Sending(xmppQueue')
  <1>1. /\ SameCalls /\ n \notin Calls /\ sent'[n].form = e.form /\ Calls \subseteq Nat
        /\ \A m \in Calls : m < n
    BY NewCall DEF SameCalls
  <1>2. /\ \A i \in 1..Len(wire) : wire[i] \in Calls
        /\ \A k \in Kinds : /\ willSendQueue[k] \in Seq(Calls)
                            /\ \A i \in 1..Len(willSendQueue[k]) : willSendQueue[k][i] \in Calls
        /\ questioned \subseteq Calls
        /\ \A k : Asked(k) \subseteq Calls
    BY OutgoingFacts
  <1>3. /\ \A k \in Kinds : Lined(Asked(k), wire, q, willSendQueue[k])
        /\ \A i \in 1..Len(xmppQueue') :
              xmppQueue'[i].op = "send" => xmppQueue'[i].of \in questioned
    BY QueueTaken
  <1> HIDE DEF n, q
  <1>4. CASE UNCHANGED <<wire, willSendQueue, questioned>>
    BY <1>1, <1>4, SendOrderFrame
  <1>5. ASSUME wire' = Append(wire, n), UNCHANGED <<willSendQueue, questioned>>
        PROVE  SendOrder'
    <2>1. Grown(wire, wire', n)
      <3>1. wire \in Seq(Calls') /\ n \in Calls'
        BY NewCall, WireFacts, SeqMonotone DEF n
      <3> QED BY <1>5, <3>1, AppendGrows
    <2>2. \A k : Asked(k)' = Asked(k) /\ n \notin Asked(k)
      BY <1>1, <1>2, <1>5, AskedSame
    <2>3. Above(Nat \ questioned, wire, n)
      BY <1>1, <1>2 DEF Above
    <2>4. Rising(Nat \ questioned, wire')
      BY <2>1, <2>3, GrownFacts DEF SendOrder
    <2>5. \A k \in Kinds : Lined(Asked(k), wire', q, willSendQueue[k])
      BY <1>3, <2>1, <2>2, GrownFacts, OutsideFacts DEF Lined
    <2>6. \A m \in questioned' : Kind(sent'[m].form) \in Kinds
      BY <1>1, <1>5, AskedSame DEF SendOrder
    <2> QED BY <1>3, <1>5, <2>2, <2>4, <2>5, <2>6 DEF SendOrder, q
  <1>6. ASSUME c \in Kinds, willSendQueue' = [willSendQueue EXCEPT ![c] = Append(willSendQueue[c], n)],
               questioned' = questioned \cup {n}, wire' = wire
        PROVE  SendOrder'
    <2>1. \A m \in questioned : sent'[m] = sent[m]
      BY <1>1, <1>2 DEF SameCalls
    <2>2. /\ \A k : Asked(k)' = IF k = c THEN Asked(k) \cup {n} ELSE Asked(k)
      BY <1>1, <1>6, <2>1 DEF Asked
    <2>3. /\ Grown(willSendQueue[c], willSendQueue'[c], n)
          /\ \A k \in Kinds : k # c => willSendQueue'[k] = willSendQueue[k]
      <3>1. willSendQueue[c] \in Seq(Calls') /\ n \in Calls'
        BY <1>2, <1>6, NewCall, SeqMonotone DEF n
      <3>2. willSendQueue'[c] = Append(willSendQueue[c], n)
        BY <1>6 DEF TypeOK, SendTypes
      <3>3. \A k \in Kinds : k # c => willSendQueue'[k] = willSendQueue[k]
        BY <1>6 DEF TypeOK, SendTypes
      <3> QED BY <3>1, <3>2, <3>3, AppendGrows
    <2>4. Rising(Nat \ questioned', wire')
      BY <1>6 DEF SendOrder, Rising
    <2>5. Lined(Asked(c)', wire, q, willSendQueue'[c])
      <3> DEFINE A == Asked(c)
                 B == Asked(c)'
                 w == willSendQueue[c]
                 v == willSendQueue'[c]
      <3>1. /\ Lined(A, wire, q, w) /\ B = A \cup {n} /\ Grown(w, v, n)
            /\ \A i \in 1..Len(w) : w[i] \in Calls
        BY <1>2, <1>3, <1>6, <2>2, <2>3
      <3>2. \A i \in 1..Len(q) : q[i] \in Calls \cup {0}
        <4>1. xmppQueue' \in Seq(Blocks(Calls, Stanzas))
          <5>1. xmppQueue \in Seq(Blocks(Calls, Stanzas))
            BY OnTheWay
          <5>2. xmppQueue # <<>> => Tail(xmppQueue) \in Seq(Blocks(Calls, Stanzas))
            BY <5>1, TailFacts
          <5> QED BY <5>1, <5>2
        <4>2. Len(q) = Len(xmppQueue') /\ \A i \in 1..Len(xmppQueue') :
                  q[i] = IF xmppQueue'[i].op = "send" THEN xmppQueue'[i].of ELSE 0
          BY <4>1, SendingFacts DEF q
        <4> QED BY <1>2, <1>3, <4>2
      <3> HIDE DEF A, B, w, v
      <3>3. n # 0
        BY NewCall DEF n
      <3>4. /\ \A i \in 1..Len(wire) : wire[i] \in B => wire[i] \in A
            /\ \A i \in 1..Len(q) : q[i] \in B => q[i] \in A
            /\ \A i \in 1..Len(w) : w[i] \in B => w[i] \in A
        BY <1>1, <1>2, <3>1, <3>2, <3>3
      <3>5. Lined(B, wire, q, w)
        BY <3>1, <3>4, WiderSet DEF Lined
      <3>6. A \subseteq Calls
        BY <1>2 DEF A
      <3>7. Above(B, wire, n) /\ Above(B, q, n) /\ Above(B, w, n)
        BY <1>1, <3>4, <3>6 DEF Above
      <3>8. Lined(B, wire, q, v)
        BY <3>1, <3>5, <3>7, GrownFacts DEF Lined
      <3> QED BY <3>8 DEF B, v
    <2>6. \A k \in Kinds : Lined(Asked(k)', wire', q, willSendQueue'[k])
      BY <1>3, <1>6, <2>2, <2>3, <2>5
    <2>7. \A m \in questioned' : Kind(sent'[m].form) \in Kinds
      BY <1>1, <1>6, <2>1 DEF SendOrder
    <2>8. \A k \in Kinds : \A i \in 1..Len(willSendQueue'[k]) : willSendQueue'[k][i] \in Asked(k)'
      <3>1. \A i \in 1..Len(willSendQueue'[c]) : willSendQueue'[c][i] = n
                \/ (i \in 1..Len(willSendQueue[c]) /\ willSendQueue'[c][i] = willSendQueue[c][i])
        BY <2>3 DEF Grown
      <3>2. \A i \in 1..Len(willSendQueue'[c]) : willSendQueue'[c][i] \in Asked(c)'
        BY <1>6, <2>2, <3>1 DEF SendOrder
      <3> QED BY <2>2, <2>3, <3>2 DEF SendOrder
    <2>9. \A i \in 1..Len(xmppQueue') :
              xmppQueue'[i].op = "send" => xmppQueue'[i].of \in questioned'
      BY <1>3, <1>6
    <2> QED BY <2>4, <2>6, <2>7, <2>8, <2>9 DEF SendOrder, q
  <1>7. <<"send", c>> \in delegates => c \in Kinds
    BY DEF TypeOK
  <1> QED BY <1>4, <1>5, <1>6, <1>7 DEF SendElement, SendWithTag, ContinueSend, n

LEMMA SendOrderStep ==
    ASSUME TypeOK, SendOrder, [Next]_vars
    PROVE  SendOrder'
  <1>1. CASE Calling
    BY <1>1, SendOrderCall DEF Calling
  <1>2. CASE \/ Idle \/ DidWriteData \/ Disconnect
             \/ \E form \in InForms : Receive(form)
             \/ \E d \in Responders, yes \in BOOLEAN : DidReceiveIQ(d, yes)
    <2>1. UNCHANGED <<sent, questioned, wire, willSendQueue, xmppQueue>>
      BY <1>2 DEF Idle, DidWriteData, Disconnect, Receive, DidReceiveIQ, sendVars
    <2> QED BY <2>1, SendOrderFrame DEF SameCalls
  <1>3. ASSUME RunDidReceiveIqQueue PROVE SendOrder'
    <2> DEFINE b == Block("error", Head(didReceiveIqQueue), "same")
    <2>1. /\ UNCHANGED <<sent, questioned, wire, willSendQueue>>
          /\ xmppQueue' \in {xmppQueue, Append(xmppQueue, b)}
      BY <1>3 DEF RunDidReceiveIqQueue, sendVars
    <2>2. b \in Blocks(Calls, Stanzas) /\ b.op # "send"
      BY <1>3, RunDidReceiveIqQueueTypes DEF Block, Blocks
    <2> HIDE DEF b
    <2>3. CASE xmppQueue' = xmppQueue
      BY <2>1, <2>3, SendOrderFrame DEF SameCalls
    <2>4. CASE xmppQueue' = Append(xmppQueue, b)
      BY <2>1, <2>2, <2>4, SendOrderPosts
    <2> QED BY <2>1, <2>3, <2>4
  <1>4. ASSUME AnswerWillReceive PROVE SendOrder'
    <2> DEFINE x == Head(willReceiveQueue)
    <2>1. UNCHANGED <<sent, questioned, wire, willSendQueue>>
      BY <1>4 DEF AnswerWillReceive, sendVars
    <2>2. PICK version \in {"same", "other", "nil"} :
              xmppQueue' = Append(xmppQueue, Block("receive", x.of, version))
      BY <1>4 DEF AnswerWillReceive
    <2>3. x.of \in Stanzas
      <3> DEFINE W == [of : Stanzas, asks : BOOLEAN]
      <3>1. willReceiveQueue \in Seq(W) /\ willReceiveQueue # <<>> /\ \A y \in W : y.of \in Stanzas
        BY <1>4, OnTheWay DEF AnswerWillReceive
      <3> HIDE DEF W
      <3> QED BY <3>1, TailFacts
    <2> HIDE DEF x
    <2> DEFINE b == Block("receive", x.of, version)
    <2>4. b \in Blocks(Calls, Stanzas) /\ b.op # "send"
      BY <2>3 DEF Block, Blocks
    <2>5. xmppQueue' = Append(xmppQueue, b)
      BY <2>2
    <2> HIDE DEF b
    <2> QED BY <2>1, <2>4, <2>5, SendOrderPosts
  <1>5. ASSUME RunXmppQueue PROVE SendOrder'
    <2> DEFINE b == Head(xmppQueue)
    <2>1. xmppQueue # <<>> /\ xmppQueue' = Tail(xmppQueue)
      BY <1>5, RunXmppQueueCases
    <2>2. CASE b.op = "send" /\ b.of \in Calls /\ RunsSend(b.of)
      BY <2>1, <2>2, SendOrderRuns
    <2>3. CASE \E version : RunsReceive(b.of, version)
      <3>1. UNCHANGED sendVars
        BY <2>3 DEF RunsReceive
      <3>2. UNCHANGED <<sent, questioned, wire, willSendQueue>>
        BY <3>1 DEF sendVars
      <3> QED BY <2>1, <3>2, SendOrderFrame DEF SameCalls
    <2>4. CASE RunsError(b.of)
      <3>1. Element("result", FALSE, Len(sent) + 1) \in Elements(Len(sent))
        BY SentElements DEF Forms
      <3> QED BY <2>1, <2>4, <3>1, SendOrderCall DEF RunsError
    <2> QED BY <1>5, <2>2, <2>3, <2>4, RunXmppQueueCases
  <1> QED BY <1>1, <1>2, <1>3, <1>4, <1>5, SendOrderAnswer, Steps

LEMMA SendOrderInit == Init => SendOrder
  <1> SUFFICES ASSUME Init PROVE SendOrder
    OBVIOUS
  <1>1. Len(Sending(xmppQueue)) = 0 /\ Len(wire) = 0 /\ questioned = {}
        /\ \A k \in Kinds : Len(willSendQueue[k]) = 0
    BY SendingFacts DEF Init
  <1>2. \A k \in Kinds : Lined(Asked(k), wire, Sending(xmppQueue), willSendQueue[k])
    BY <1>1 DEF Lined, Rising, Before
  <1> QED BY <1>1, <1>2 DEF Init, SendOrder, Rising

LEMMA SendOrderIsEnough ==
    ASSUME TypeOK, SendOrder
    PROVE  SentInOrder
  <1> SUFFICES ASSUME NEW i \in DOMAIN wire, NEW j \in DOMAIN wire, i < j,
                      Kind(sent[wire[i]].form) = Kind(sent[wire[j]].form),
                      wire[i] \in questioned <=> wire[j] \in questioned
               PROVE  wire[i] < wire[j]
    BY DEF SentInOrder
  <1>1. i \in 1..Len(wire) /\ j \in 1..Len(wire)
    BY WireFacts
  <1>2. CASE wire[i] \in questioned /\ wire[j] \in questioned
    <2> DEFINE k == Kind(sent[wire[i]].form)
    <2>1. k \in Kinds /\ wire[i] \in Asked(k) /\ wire[j] \in Asked(k)
      BY <1>2 DEF SendOrder, Asked
    <2> HIDE DEF k
    <2> QED BY <1>1, <2>1 DEF SendOrder, Lined, Rising
  <1>3. CASE wire[i] \notin questioned /\ wire[j] \notin questioned
    <2>1. wire[i] \in Nat \ questioned /\ wire[j] \in Nat \ questioned
      BY <1>1, <1>3, OutgoingFacts
    <2> QED BY <1>1, <2>1 DEF SendOrder, Rising
  <1> QED BY <1>2, <1>3

\* Elements of one kind that go the same way are written in the order in which they were sent.
THEOREM SentInOrderCorrect == Spec => []SentInOrder
  <1>1. TypeOK /\ SendOrder /\ [Next]_vars => SendOrder'
    BY SendOrderStep
  <1>2. TypeOK /\ SendOrder => SentInOrder
    BY SendOrderIsEnough
  <1> QED BY <1>1, <1>2, SendOrderInit, TypeCorrect, PTL DEF Spec

----------------------------------------------------------------------------
(* Every stanza sent has one fate.  The places where a call may be are counted *)
(* in the lists above; a step takes it from one of them and puts it in the     *)
(* next, or gives it another fate.                                             *)

Count(s, n) == Cardinality({i \in 1..Len(s) : s[i] = n})

Same(x, n) == IF x = n THEN 1 ELSE 0

End(f) == IF f = "none" THEN 0 ELSE 1

LEMMA CountFacts ==
    ASSUME NEW s, Len(s) \in Nat, NEW n
    PROVE  /\ IsFiniteSet({i \in 1..Len(s) : s[i] = n}) /\ Count(s, n) \in Nat
           /\ Count(s, n) = 0 <=> \A i \in 1..Len(s) : s[i] # n
  <1> DEFINE P == {i \in 1..Len(s) : s[i] = n}
  <1>1. IsFiniteSet(P)
    <2>1. IsFiniteSet(1..Len(s))
      BY FS_Interval
    <2>2. P \in SUBSET (1..Len(s))
      OBVIOUS
    <2> QED BY <2>1, <2>2, FS_Subset
  <1>2. Cardinality(P) \in Nat /\ (Cardinality(P) = 0 <=> P = {})
    BY <1>1, FS_CardinalityType, FS_EmptySet
  <1>3. P = {} <=> \A i \in 1..Len(s) : s[i] # n
    OBVIOUS
  <1> QED BY <1>1, <1>2, <1>3 DEF Count

LEMMA CountGrown ==
    ASSUME NEW s, NEW t, NEW x, NEW n, Grown(s, t, x)
    PROVE  /\ Count(s, n) \in Nat /\ Count(t, n) \in Nat
           /\ Count(t, n) = Count(s, n) + Same(x, n)
  <1> DEFINE P == {i \in 1..Len(s) : s[i] = n}
             Q == {i \in 1..Len(t) : t[i] = n}
             l == Len(s) + 1
  <1>1. /\ Len(s) \in Nat /\ Len(t) \in Nat
        /\ \A i \in 1..Len(t) : i = l \/ (i \in 1..Len(s) /\ t[i] = s[i])
        /\ \A i \in 1..Len(s) : i \in 1..Len(t) /\ t[i] = s[i] /\ i # l
        /\ l \in 1..Len(t) /\ t[l] = x
    BY DEF Grown
  <1>2. /\ IsFiniteSet(P) /\ Count(s, n) \in Nat /\ Count(t, n) \in Nat
        /\ Count(s, n) = Cardinality(P) /\ Count(t, n) = Cardinality(Q)
    BY ZenonT(30), <1>1, CountFacts DEF Count
  <1> HIDE DEF l
  <1>3. CASE x = n
    <2>1. Q = P \cup {l} /\ l \notin P
      BY <1>1, <1>3
    <2> HIDE DEF P, Q
    <2>2. Cardinality(Q) = Cardinality(P) + 1
      BY <1>2, <2>1, FS_AddElement
    <2> QED BY <1>2, <1>3, <2>2 DEF Same, End
  <1>4. CASE x # n
    <2>1. Q = P
      BY <1>1, <1>4
    <2> QED BY SMTT(20), <1>2, <1>4, <2>1 DEF Same, End
  <1> QED BY <1>3, <1>4

LEMMA CountShrunk ==
    ASSUME NEW s, NEW t, NEW x, NEW n, Shrunk(s, t, x)
    PROVE  /\ Count(s, n) \in Nat /\ Count(t, n) \in Nat
           /\ Count(s, n) = Count(t, n) + Same(x, n)
  <1> DEFINE P == {i \in 1..Len(s) : s[i] = n}
             Q == {i \in 1..Len(t) : t[i] = n}
             R == {i \in P : i # 1}
             f == [i \in Q |-> i + 1]
  <1>1. /\ Len(s) \in Nat \ {0} /\ Len(t) \in Nat /\ x = s[1] /\ 1 \in 1..Len(s)
        /\ \A i \in 1..Len(t) : i + 1 \in 1..Len(s) /\ t[i] = s[i + 1] /\ i + 1 # 1
        /\ \A i \in 1..Len(s) : i # 1 => i - 1 \in 1..Len(t) /\ (i - 1) + 1 = i
    BY DEF Shrunk
  <1>2. /\ IsFiniteSet(P) /\ IsFiniteSet(Q) /\ Count(s, n) \in Nat /\ Count(t, n) \in Nat
        /\ Count(s, n) = Cardinality(P) /\ Count(t, n) = Cardinality(Q)
    <2>1. IsFiniteSet(P) /\ Count(s, n) \in Nat
      BY <1>1, CountFacts
    <2>2. IsFiniteSet(Q) /\ Count(t, n) \in Nat
      BY <1>1, CountFacts
    <2> QED BY <2>1, <2>2 DEF Count
  <1>3. Cardinality(R) = Cardinality(Q) /\ IsFiniteSet(R)
    <2>1. \A i \in Q : f[i] = i + 1 /\ f[i] \in R
      BY <1>1
    <2>2. \A i, j \in Q : f[i] = f[j] => i = j
      BY <1>1, <2>1
    <2>3. \A i \in R : i - 1 \in Q /\ f[i - 1] = i
      <3>1. \A i \in R : i \in 1..Len(s) /\ i # 1 /\ s[i] = n
        OBVIOUS
      <3>2. \A i \in R : i - 1 \in 1..Len(t) /\ (i - 1) + 1 = i
        BY <1>1, <3>1
      <3>3. \A i \in R : i - 1 \in Q
        BY <1>1, <3>1, <3>2
      <3> QED BY <2>1, <3>2, <3>3
    <2>4. f \in [Q -> R]
      BY <2>1
    <2> HIDE DEF f, P, Q, R
    <2>5. f \in Bijection(Q, R)
      <3>1. f \in Injection(Q, R)
        BY <2>2, <2>4 DEF Injection, IsInjective
      <3>2. f \in Surjection(Q, R)
        BY <2>3, <2>4 DEF Surjection
      <3> QED BY <3>1, <3>2 DEF Bijection
    <2> QED BY <1>2, <2>5, FS_Bijection DEF ExistsBijection
  <1>4. CASE x = n
    <2>1. P = R \cup {1} /\ 1 \notin R
      BY <1>1, <1>4
    <2> HIDE DEF P, Q, R
    <2>2. Cardinality(P) = Cardinality(R) + 1
      BY <1>3, <2>1, FS_AddElement
    <2> QED BY <1>2, <1>3, <1>4, <2>2 DEF Same, End
  <1>5. CASE x # n
    <2>1. P = R
      BY <1>1, <1>5
    <2> HIDE DEF P, Q, R
    <2> QED BY <1>2, <1>3, <1>5, <2>1 DEF Same, End
  <1> QED BY <1>4, <1>5

\* In how many places call n is, with end f: the lists w, q and r, and the end.
Fates(n, w, q, r, f) == Count(w, n) + Count(q, n) + Count(r, n) + End(f)

Decided ==
    \A n \in Calls :
        Kind(sent[n].form) \in Kinds =>
            Fates(n, willSendQueue[Kind(sent[n].form)], Sending(xmppQueue), wire, fate[n]) = 1

\* The places are numbers.
LEMMA FatesFacts ==
    ASSUME TypeOK, NEW n
    PROVE  /\ Count(wire, n) \in Nat /\ Count(Sending(xmppQueue), n) \in Nat
           /\ \A k \in Kinds : Count(willSendQueue[k], n) \in Nat
           /\ End(fate[n]) \in {0, 1}
  <1>1. Len(wire) \in Nat /\ \A k \in Kinds : Len(willSendQueue[k]) \in Nat
    <2>1. wire \in Seq(Calls) /\ \A k \in Kinds : willSendQueue[k] \in Seq(Calls)
      BY DEF TypeOK, SendTypes
    <2> QED BY <2>1
  <1>2. Len(Sending(xmppQueue)) \in Nat
    <2>1. Len(xmppQueue) \in Nat
      BY BlockFacts DEF TypeOK
    <2> QED BY <2>1, SendingFacts
  <1> QED BY <1>1, <1>2, CountFacts DEF Same, End

\* It is what the property counts.
LEMMA DecidedIsOneFate ==
    ASSUME TypeOK, Decided
    PROVE  OneFate
  <1> SUFFICES ASSUME NEW n \in Calls, Kind(sent[n].form) # "custom"
               PROVE  Places(willSendQueue[Kind(sent[n].form)], LAMBDA m : m = n)
                        + Places(xmppQueue, LAMBDA b : b.op = "send" /\ b.of = n)
                        + Places(wire, LAMBDA m : m = n)
                        + (IF fate[n] = "none" THEN 0 ELSE 1) = 1
    BY DEF OneFate
  <1> DEFINE k == Kind(sent[n].form)
  <1>1. n # 0 /\ k \in Kinds /\ Fates(n, willSendQueue[k], Sending(xmppQueue), wire, fate[n]) = 1
    <2>1. sent[n].form \in Forms /\ n # 0
      BY CallFacts DEF TypeOK
    <2> QED BY <2>1, KindFacts DEF Decided
  <1>2. Places(wire, LAMBDA m : m = n) = Count(wire, n)
    <2>1. DOMAIN wire = 1..Len(wire)
      BY WireFacts
    <2> QED BY <2>1 DEF Places, Count
  <1>3. Places(willSendQueue[k], LAMBDA m : m = n) = Count(willSendQueue[k], n)
    <2>1. willSendQueue[k] \in Seq(Calls)
      BY <1>1 DEF TypeOK, SendTypes
    <2>2. DOMAIN willSendQueue[k] = 1..Len(willSendQueue[k])
      BY <2>1
    <2> QED BY <2>2 DEF Places, Count
  <1>4. Places(xmppQueue, LAMBDA b : b.op = "send" /\ b.of = n) = Count(Sending(xmppQueue), n)
    <2>1. DOMAIN xmppQueue = 1..Len(xmppQueue) /\ Len(xmppQueue) \in Nat
      BY BlockFacts DEF TypeOK
    <2>2. /\ Len(Sending(xmppQueue)) = Len(xmppQueue)
          /\ \A i \in 1..Len(xmppQueue) :
                Sending(xmppQueue)[i] = IF xmppQueue[i].op = "send" THEN xmppQueue[i].of ELSE 0
      BY <2>1, SendingFacts
    <2>3. {i \in DOMAIN xmppQueue : xmppQueue[i].op = "send" /\ xmppQueue[i].of = n}
          = {i \in 1..Len(Sending(xmppQueue)) : Sending(xmppQueue)[i] = n}
      BY <1>1, <2>1, <2>2
    <2> QED BY <2>3 DEF Places, Count
  <1>5. (IF fate[n] = "none" THEN 0 ELSE 1) = End(fate[n])
    BY DEF Same, End
  <1> QED BY <1>1, <1>2, <1>3, <1>4, <1>5 DEF Fates

\* A step that leaves the places of a call alone.
LEMMA DecidedFrame ==
    ASSUME TypeOK, Decided, Calls' = Calls, UNCHANGED <<sent, wire, willSendQueue, fate>>,
           \A n \in Calls : Count(Sending(xmppQueue'), n) = Count(Sending(xmppQueue), n)
    PROVE  Decided'
  <1> QED BY DEF Decided, Fates

\* What another block, posted or taken, does to the places on the xmppQueue.
LEMMA OtherBlockPosted ==
    ASSUME TypeOK, NEW b \in Blocks(Calls, Stanzas), b.op # "send",
           xmppQueue' = Append(xmppQueue, b)
    PROVE  \A n \in Calls : Count(Sending(xmppQueue'), n) = Count(Sending(xmppQueue), n)
  <1>1. Grown(Sending(xmppQueue), Sending(xmppQueue'), 0)
    BY OnTheWay, SendingGrows
  <1>2. \A n \in Calls : n # 0
    BY OutgoingFacts
  <1> QED BY <1>1, <1>2, CountGrown DEF Same, End

LEMMA OtherBlockTaken ==
    ASSUME TypeOK, xmppQueue # <<>>, xmppQueue' = Tail(xmppQueue), Head(xmppQueue).op # "send"
    PROVE  \A n \in Calls : Count(Sending(xmppQueue'), n) = Count(Sending(xmppQueue), n)
  <1>1. Shrunk(Sending(xmppQueue), Sending(xmppQueue'), 0)
    BY OnTheWay, SendingShrinks
  <1>2. \A n \in Calls : n # 0
    BY OutgoingFacts
  <1> QED BY <1>1, <1>2, CountShrunk DEF Same, End

\* A new call is in one place, and in none of those where the others are.
LEMMA DecidedCall ==
    ASSUME TypeOK, Decided, NEW e \in Elements(Len(sent)), SendElement(e),
           \A n \in Calls : Count(Sending(xmppQueue'), n) = Count(Sending(xmppQueue), n),
           Len(xmppQueue') \in Nat,
           \A i \in 1..Len(xmppQueue') : xmppQueue'[i].op = "send" => xmppQueue'[i].of \in Calls
    PROVE  Decided'
  <1> DEFINE n == Len(sent) + 1
             c == Kind(e.form)
  <1>1. /\ Len(sent) \in Nat /\ Calls = 1..Len(sent) /\ Calls' = Calls \cup {n} /\ n \notin Calls
        /\ \A m \in Calls : sent'[m] = sent[m]
        /\ sent'[n].form = e.form /\ n # 0
    BY NewCall
  <1>2. /\ fate' = Append(fate, FateOf(e))
        /\ IF connected THEN SendWithTag(n, e)
           ELSE UNCHANGED <<wire, writing, willSendQueue, questioned, myPresence>>
    BY DEF SendElement
  <1>3. /\ \A m \in Calls : fate'[m] = fate[m]
        /\ fate'[n] = FateOf(e)
    <2>1. fate \in Seq({"none", "filtered", "failed"}) /\ Len(fate) = Len(sent)
      BY DEF TypeOK, CallTypes
    <2>2. FateOf(e) \in {"none", "filtered", "failed"}
      BY DEF FateOf
    <2> QED BY <1>1, <1>2, <2>1, <2>2, AppendFacts
  <1>4. Grown(wire, Append(wire, n), n)
        /\ \A k \in Kinds : Grown(willSendQueue[k], Append(willSendQueue[k], n), n)
    <2>1. n \in Calls' /\ Calls \subseteq Calls' /\ wire \in Seq(Calls)
          /\ \A k \in Kinds : willSendQueue[k] \in Seq(Calls)
      BY <1>1, OutgoingFacts, WireFacts
    <2>2. wire \in Seq(Calls') /\ \A k \in Kinds : willSendQueue[k] \in Seq(Calls')
      BY <2>1, SeqMonotone
    <2> HIDE DEF n
    <2> QED BY <2>1, <2>2, AppendGrows
  <1> HIDE DEF n
  <1>5. /\ Count(wire, n) = 0
        /\ \A k \in Kinds : Count(willSendQueue[k], n) = 0
        /\ Count(Sending(xmppQueue'), n) = 0
    <2>1. Count(wire, n) = 0
      <3>1. Len(wire) \in Nat /\ \A i \in 1..Len(wire) : wire[i] # n
        BY <1>1, OutgoingFacts, WireFacts
      <3> QED BY <3>1, CountFacts
    <2>2. ASSUME NEW k \in Kinds PROVE Count(willSendQueue[k], n) = 0
      <3>1. Len(willSendQueue[k]) \in Nat /\ \A i \in 1..Len(willSendQueue[k]) : willSendQueue[k][i] # n
        BY <1>1, OutgoingFacts
      <3> QED BY <3>1, CountFacts
    <2>3. Count(Sending(xmppQueue'), n) = 0
      <3>1. /\ Len(Sending(xmppQueue')) = Len(xmppQueue')
            /\ \A i \in 1..Len(xmppQueue') : Sending(xmppQueue')[i] =
                  IF xmppQueue'[i].op = "send" THEN xmppQueue'[i].of ELSE 0
        BY SendingFacts
      <3>2. \A i \in 1..Len(Sending(xmppQueue')) : Sending(xmppQueue')[i] # n
        BY <1>1, <3>1
      <3> QED BY <3>1, <3>2, CountFacts
    <2> QED BY <2>1, <2>2, <2>3
  <1>6. \/ /\ connected /\ <<"send", c>> \in delegates /\ c \in Kinds /\ wire' = wire
           /\ willSendQueue'[c] = Append(willSendQueue[c], n)
           /\ \A k \in Kinds : k # c => willSendQueue'[k] = willSendQueue[k]
        \/ connected /\ wire' = Append(wire, n) /\ willSendQueue' = willSendQueue
        \/ ~connected /\ wire' = wire /\ willSendQueue' = willSendQueue
    <2>1. <<"send", c>> \in delegates => c \in Kinds
      BY DEF TypeOK
    <2>2. willSendQueue \in [Kinds -> Seq(Calls)]
      BY DEF TypeOK, SendTypes
    <2>3. CASE ~connected
      BY <1>2, <2>3
    <2>4. CASE connected /\ <<"send", c>> \in delegates
      <3>1. wire' = wire /\ willSendQueue' = [willSendQueue EXCEPT ![c] = Append(willSendQueue[c], n)]
        BY <1>2, <2>4 DEF SendWithTag
      <3> QED BY <2>1, <2>2, <2>4, <3>1
    <2>5. CASE connected /\ <<"send", c>> \notin delegates
      BY <1>2, <2>5 DEF SendWithTag, ContinueSend
    <2> QED BY <2>3, <2>4, <2>5
  <1>7. ASSUME NEW m \in Calls, Kind(sent'[m].form) \in Kinds
        PROVE  Fates(m, willSendQueue'[Kind(sent'[m].form)], Sending(xmppQueue'), wire', fate'[m]) = 1
    <2> DEFINE k == Kind(sent[m].form)
    <2>1. /\ k \in Kinds /\ m # n /\ Kind(sent'[m].form) = k
          /\ Fates(m, willSendQueue[k], Sending(xmppQueue), wire, fate[m]) = 1
      BY <1>1, <1>7 DEF Decided
    <2> HIDE DEF k
    <2>2. Count(wire', m) = Count(wire, m)
      <3>1. Count(Append(wire, n), m) = Count(wire, m) + Same(n, m) /\ Count(wire, m) \in Nat
        BY <1>4, CountGrown
      <3>2. Same(n, m) = 0
        BY <2>1 DEF Same, End
      <3>3. Count(Append(wire, n), m) = Count(wire, m)
        BY <3>1, <3>2
      <3>4. wire' = wire \/ wire' = Append(wire, n)
        BY <1>6
      <3> QED BY <3>3, <3>4
    <2>3. Count(willSendQueue'[k], m) = Count(willSendQueue[k], m)
      <3>1. /\ Count(Append(willSendQueue[k], n), m) = Count(willSendQueue[k], m) + Same(n, m)
            /\ Count(willSendQueue[k], m) \in Nat
        BY <1>4, <2>1, CountGrown
      <3>2. Same(n, m) = 0
        BY <2>1 DEF Same, End
      <3>3. Count(Append(willSendQueue[k], n), m) = Count(willSendQueue[k], m)
        BY <3>1, <3>2
      <3>4. willSendQueue'[k] = willSendQueue[k] \/ willSendQueue'[k] = Append(willSendQueue[k], n)
        BY <1>6, <2>1
      <3> QED BY <3>3, <3>4
    <2>4. Count(Sending(xmppQueue'), m) = Count(Sending(xmppQueue), m) /\ fate'[m] = fate[m]
      BY <1>3
    <2> QED BY <2>1, <2>2, <2>3, <2>4 DEF Fates
  <1>8. ASSUME c \in Kinds
        PROVE  Fates(n, willSendQueue'[c], Sending(xmppQueue'), wire', fate'[n]) = 1
    <2>1. Count(Append(wire, n), n) = 1 /\ Count(Append(willSendQueue[c], n), n) = 1
      BY <1>4, <1>5, <1>8, CountGrown DEF Same, End
    <2>2. c # "custom"
      BY <1>8 DEF Kinds
    <2>3. connected => End(fate'[n]) = 0
      BY <1>3 DEF FateOf, Same, End
    <2>4. ~connected => End(fate'[n]) = 1
      BY <1>3, <2>2 DEF FateOf, Same, End
    <2>5. Count(willSendQueue[c], n) = 0
      BY <1>5, <1>8
    <2>6. \/ Count(willSendQueue'[c], n) = 1 /\ Count(wire', n) = 0 /\ End(fate'[n]) = 0
          \/ Count(willSendQueue'[c], n) = 0 /\ Count(wire', n) = 1 /\ End(fate'[n]) = 0
          \/ Count(willSendQueue'[c], n) = 0 /\ Count(wire', n) = 0 /\ End(fate'[n]) = 1
      BY <1>5, <1>6, <2>1, <2>3, <2>4, <2>5
    <2>7. Count(Sending(xmppQueue'), n) = 0
      BY <1>5
    <2> QED BY <2>6, <2>7 DEF Fates
  <1>9. ASSUME NEW m \in Calls', Kind(sent'[m].form) \in Kinds
        PROVE  Fates(m, willSendQueue'[Kind(sent'[m].form)], Sending(xmppQueue'), wire', fate'[m]) = 1
    <2>1. CASE m \in Calls
      BY <1>7, <1>9, <2>1
    <2>2. CASE m = n
      BY <1>1, <1>8, <1>9, <2>2
    <2> QED BY <1>1, <2>1, <2>2
  <1> QED BY <1>9 DEF Decided

\* The delegates return a call, or nil.
LEMMA DecidedAnswer ==
    ASSUME TypeOK, SendOrder, Decided, NEW k \in Kinds, AnswerWillSend(k)
    PROVE  Decided'
  <1> DEFINE x == Head(willSendQueue[k])
             b == Block("send", x, "same")
  <1>1. /\ willSendQueue[k] # <<>> /\ Returned(x) /\ UNCHANGED <<sent, questioned, wire>>
        /\ willSendQueue' = [willSendQueue EXCEPT ![k] = Tail(willSendQueue[k])]
        /\ willSendQueue \in [Kinds -> Seq(Calls)] /\ willSendQueue[k] \in Seq(Calls)
    BY DEF AnswerWillSend, TypeOK, SendTypes
  <1>2. /\ Shrunk(willSendQueue[k], willSendQueue'[k], x) /\ x \in Calls
        /\ \A l \in Kinds : l # k => willSendQueue'[l] = willSendQueue[l]
    BY <1>1, TailShrinks, TailFacts
  <1>3. Kind(sent[x].form) = k
    BY <1>2 DEF SendOrder, Shrunk, Asked
  <1> HIDE DEF x
  <1>4. Grown(Sending(xmppQueue), Sending(Append(xmppQueue, b)), x)
    <2>1. b \in Blocks(Calls, Stanzas) /\ b.op = "send" /\ b.of = x
      BY <1>2 DEF Block, Blocks
    <2> HIDE DEF b
    <2> QED BY <2>1, OnTheWay, SendingGrows
  <1>5. \A n \in Calls : Count(willSendQueue[k], n) = Count(willSendQueue'[k], n) + Same(x, n)
        /\ Count(willSendQueue'[k], n) \in Nat
    BY <1>2, CountShrunk
  <1>6. fate[x] = "none"
    <2>1. /\ Fates(x, willSendQueue[k], Sending(xmppQueue), wire, fate[x]) = 1
          /\ Count(willSendQueue[k], x) = Count(willSendQueue'[k], x) + 1
      BY <1>2, <1>3, <1>5 DEF Decided, Same, End
    <2>2. End(fate[x]) = 0
      BY <1>5, <1>2, <2>1, FatesFacts DEF Fates
    <2> QED BY <2>2 DEF Same, End
  <1>7. ASSUME NEW n \in Calls, Kind(sent[n].form) \in Kinds
        PROVE  Fates(n, willSendQueue'[Kind(sent'[n].form)], Sending(xmppQueue'), wire', fate'[n]) = 1
    <2> DEFINE l == Kind(sent[n].form)
               q == Sending(xmppQueue)
    <2>1. /\ Fates(n, willSendQueue[l], q, wire, fate[n]) = 1
          /\ l \in Kinds /\ Kind(sent'[n].form) = l
      BY <1>1, <1>7 DEF Decided
    <2>2. x = n => l = k
      BY <1>3
    <2> HIDE DEF l
    <2>3. Count(willSendQueue[l], n) = Count(willSendQueue'[l], n) + Same(x, n)
          /\ Count(willSendQueue'[l], n) \in Nat
      <3>1. CASE l = k
        BY <1>5, <3>1
      <3>2. CASE l # k
        BY <1>2, <2>1, <2>2, <3>2, FatesFacts DEF Same, End
      <3> QED BY <3>1, <3>2
    <2>4. CASE xmppQueue' = Append(xmppQueue, b) /\ fate' = fate
      <3>1. Count(Sending(xmppQueue'), n) = Count(q, n) + Same(x, n) /\ Count(q, n) \in Nat
        BY <1>4, <2>4, CountGrown
      <3>2. Same(x, n) \in {0, 1}
        BY DEF Same, End
      <3> QED BY <1>1, <2>1, <2>3, <2>4, <3>1, <3>2, FatesFacts DEF Fates
    <2>5. CASE xmppQueue' = xmppQueue /\ fate' = [fate EXCEPT ![x] = "filtered"]
      <3>1. End(fate'[n]) = End(fate[n]) + Same(x, n)
        <4>1. x \in DOMAIN fate
          <5>1. fate \in Seq({"none", "filtered", "failed"}) /\ Len(fate) = Len(sent)
                /\ Calls = 1..Len(sent)
            BY OutgoingFacts DEF TypeOK, CallTypes
          <5> QED BY <1>2, <5>1
        <4>2. fate'[n] = IF n = x THEN "filtered" ELSE fate[n]
          <5>1. n \in DOMAIN fate
            <6>1. fate \in Seq({"none", "filtered", "failed"}) /\ Len(fate) = Len(sent)
                  /\ Calls = 1..Len(sent)
              BY OutgoingFacts DEF TypeOK, CallTypes
            <6> QED BY <6>1
          <5> QED BY <2>5, <5>1
        <4> QED BY <1>6, <4>2 DEF Same, End
      <3>2. Same(x, n) \in {0, 1} /\ Count(q, n) \in Nat /\ Count(wire, n) \in Nat
            /\ End(fate[n]) \in {0, 1}
        BY FatesFacts DEF Same, End
      <3>3. Fates(n, willSendQueue'[l], q, wire, fate'[n]) = 1
        BY <2>1, <2>3, <3>1, <3>2 DEF Fates
      <3> QED BY <1>1, <2>1, <2>5, <3>3
    <2> QED BY <1>1, <2>4, <2>5 DEF Returned
  <1>8. Calls' = Calls
    BY <1>1 DEF Calls
  <1> QED BY <1>1, <1>7, <1>8 DEF Decided

\* A call comes back from the delegates and is written, or fails.
LEMMA DecidedRuns ==
    ASSUME TypeOK, SendOrder, Decided, NEW x \in Calls, RunsSend(x),
           xmppQueue # <<>>, xmppQueue' = Tail(xmppQueue),
           Head(xmppQueue).op = "send", Head(xmppQueue).of = x
    PROVE  Decided'
  <1> DEFINE q == Sending(xmppQueue)
             p == Sending(xmppQueue')
  <1>1. UNCHANGED <<sent, willSendQueue>> /\ Calls' = Calls
    BY DEF RunsSend, Calls
  <1>2. Shrunk(q, p, x)
    BY OnTheWay, SendingShrinks
  <1>3. x \in questioned /\ Kind(sent[x].form) \in Kinds
    <2>1. Head(xmppQueue) = xmppQueue[1] /\ 1 \in 1..Len(xmppQueue)
      BY OnTheWay, TailFacts
    <2> QED BY <2>1 DEF SendOrder
  <1> HIDE DEF q, p
  <1>4. \A n \in Calls : Count(q, n) = Count(p, n) + Same(x, n) /\ Count(p, n) \in Nat
    BY <1>2, CountShrunk
  <1>5. Same(x, x) = 1 /\ \A n \in Calls : Same(x, n) \in {0, 1}
    BY DEF Same
  <1>6. fate[x] = "none"
    <2> DEFINE k == Kind(sent[x].form)
    <2>1. /\ Fates(x, willSendQueue[k], q, wire, fate[x]) = 1 /\ Count(q, x) = Count(p, x) + 1
          /\ k \in Kinds
      BY <1>3, <1>4, <1>5 DEF Decided, q
    <2> HIDE DEF k
    <2>2. /\ Count(willSendQueue[k], x) \in Nat /\ Count(p, x) \in Nat /\ Count(wire, x) \in Nat
          /\ End(fate[x]) \in {0, 1}
      BY <1>4, <2>1, FatesFacts
    <2>3. End(fate[x]) = 0
      BY <2>1, <2>2 DEF Fates
    <2> QED BY <2>3 DEF End
  <1>7. \A n \in Calls : \/ /\ Count(wire', n) = Count(wire, n) + Same(x, n)
                            /\ End(fate'[n]) = End(fate[n])
                         \/ /\ Count(wire', n) = Count(wire, n)
                            /\ End(fate'[n]) = End(fate[n]) + Same(x, n)
    <2> SUFFICES ASSUME NEW n \in Calls
                 PROVE  \/ /\ Count(wire', n) = Count(wire, n) + Same(x, n)
                           /\ End(fate'[n]) = End(fate[n])
                        \/ /\ Count(wire', n) = Count(wire, n)
                           /\ End(fate'[n]) = End(fate[n]) + Same(x, n)
      OBVIOUS
    <2>1. CASE wire' = Append(wire, x) /\ fate' = fate
      <3>1. Grown(wire, wire', x)
        BY <2>1, WireFacts, AppendGrows
      <3> QED BY <2>1, <3>1, CountGrown
    <2>2. CASE wire' = wire /\ fate' = [fate EXCEPT ![x] = "failed"]
      <3>1. n \in DOMAIN fate
        <4>1. fate \in Seq({"none", "filtered", "failed"}) /\ Len(fate) = Len(sent)
              /\ Calls = 1..Len(sent)
          BY OutgoingFacts DEF TypeOK, CallTypes
        <4> QED BY <4>1
      <3>2. fate'[n] = IF n = x THEN "failed" ELSE fate[n]
        BY <2>2, <3>1
      <3>3. End(fate'[n]) = End(fate[n]) + Same(x, n)
        BY <1>6, <3>2 DEF End, Same
      <3> QED BY <2>2, <3>3
    <2> QED BY <2>1, <2>2 DEF RunsSend, ContinueSend
  <1>8. ASSUME NEW n \in Calls, Kind(sent[n].form) \in Kinds
        PROVE  Fates(n, willSendQueue[Kind(sent[n].form)], p, wire', fate'[n]) = 1
    <2> DEFINE k == Kind(sent[n].form)
    <2>1. Fates(n, willSendQueue[k], q, wire, fate[n]) = 1 /\ k \in Kinds
      BY <1>8 DEF Decided, q
    <2> HIDE DEF k
    <2>2. /\ Count(willSendQueue[k], n) \in Nat /\ Count(wire, n) \in Nat
          /\ End(fate[n]) \in {0, 1}
      BY <2>1, FatesFacts
    <2>3. Count(q, n) = Count(p, n) + Same(x, n) /\ Count(p, n) \in Nat /\ Same(x, n) \in {0, 1}
      BY <1>4, <1>5
    <2>4. Fates(n, willSendQueue[k], p, wire', fate'[n]) = 1
      BY <1>7, <2>1, <2>2, <2>3 DEF Fates
    <2> QED BY <2>4 DEF k
  <1> QED BY <1>1, <1>8 DEF Decided, p

LEMMA DecidedStep ==
    ASSUME TypeOK, SendOrder, Decided, [Next]_vars
    PROVE  Decided'
  <1>1. Len(xmppQueue) \in Nat
        /\ \A i \in 1..Len(xmppQueue) : xmppQueue[i].op = "send" => xmppQueue[i].of \in Calls
    BY BlockFacts DEF TypeOK
  <1>2. CASE Calling
    <2>1. xmppQueue' = xmppQueue
      BY <1>2 DEF Calling
    <2> QED BY <1>1, <1>2, <2>1, DecidedCall DEF Calling
  <1>3. CASE \/ Idle \/ DidWriteData \/ Disconnect
             \/ \E form \in InForms : Receive(form)
             \/ \E d \in Responders, yes \in BOOLEAN : DidReceiveIQ(d, yes)
    <2>1. UNCHANGED <<sent, wire, willSendQueue, fate, xmppQueue>> /\ Calls' = Calls
      BY <1>3 DEF Idle, DidWriteData, Disconnect, Receive, DidReceiveIQ, sendVars, Calls
    <2> QED BY <2>1, DecidedFrame
  <1>4. ASSUME RunDidReceiveIqQueue PROVE Decided'
    <2> DEFINE b == Block("error", Head(didReceiveIqQueue), "same")
    <2>1. /\ UNCHANGED <<sent, wire, willSendQueue, fate>> /\ Calls' = Calls
          /\ xmppQueue' \in {xmppQueue, Append(xmppQueue, b)}
      BY <1>4 DEF RunDidReceiveIqQueue, sendVars, Calls
    <2>2. b \in Blocks(Calls, Stanzas) /\ b.op # "send"
      BY <1>4, RunDidReceiveIqQueueTypes DEF Block, Blocks
    <2> HIDE DEF b
    <2>3. CASE xmppQueue' = xmppQueue
      BY <2>1, <2>3, DecidedFrame
    <2>4. CASE xmppQueue' = Append(xmppQueue, b)
      BY <2>1, <2>2, <2>4, OtherBlockPosted, DecidedFrame
    <2> QED BY <2>1, <2>3, <2>4
  <1>5. ASSUME AnswerWillReceive PROVE Decided'
    <2> DEFINE x == Head(willReceiveQueue)
    <2>1. UNCHANGED <<sent, wire, willSendQueue, fate>> /\ Calls' = Calls
      BY <1>5 DEF AnswerWillReceive, sendVars, Calls
    <2>2. PICK version \in {"same", "other", "nil"} :
              xmppQueue' = Append(xmppQueue, Block("receive", x.of, version))
      BY <1>5 DEF AnswerWillReceive
    <2>3. x.of \in Stanzas
      <3> DEFINE W == [of : Stanzas, asks : BOOLEAN]
      <3>1. willReceiveQueue \in Seq(W) /\ willReceiveQueue # <<>> /\ \A y \in W : y.of \in Stanzas
        BY <1>5, OnTheWay DEF AnswerWillReceive
      <3> HIDE DEF W
      <3> QED BY <3>1, TailFacts
    <2> HIDE DEF x
    <2> DEFINE b == Block("receive", x.of, version)
    <2>4. b \in Blocks(Calls, Stanzas) /\ b.op # "send"
      BY <2>3 DEF Block, Blocks
    <2>5. xmppQueue' = Append(xmppQueue, b)
      BY <2>2
    <2> HIDE DEF b
    <2> QED BY <2>1, <2>4, <2>5, OtherBlockPosted, DecidedFrame
  <1>6. ASSUME RunXmppQueue PROVE Decided'
    <2> DEFINE b == Head(xmppQueue)
    <2>1. xmppQueue # <<>> /\ xmppQueue' = Tail(xmppQueue)
      BY <1>6, RunXmppQueueCases
    <2>2. CASE b.op = "send" /\ b.of \in Calls /\ RunsSend(b.of)
      BY <2>1, <2>2, DecidedRuns
    <2>3. CASE b.op = "receive" /\ \E version : RunsReceive(b.of, version)
      <3>1. UNCHANGED sendVars
        BY <2>3 DEF RunsReceive
      <3>2. UNCHANGED <<sent, wire, willSendQueue, fate>> /\ Calls' = Calls
        BY <3>1 DEF sendVars, Calls
      <3> QED BY <2>1, <2>3, <3>2, OtherBlockTaken, DecidedFrame
    <2>4. CASE b.op = "error" /\ RunsError(b.of)
      <3>1. Element("result", FALSE, Len(sent) + 1) \in Elements(Len(sent))
        BY SentElements DEF Forms
      <3>2. Len(xmppQueue') \in Nat /\ \A i \in 1..Len(xmppQueue') :
                i + 1 \in 1..Len(xmppQueue) /\ xmppQueue'[i] = xmppQueue[i + 1]
        BY <2>1, OnTheWay, TailFacts
      <3>3. \A i \in 1..Len(xmppQueue') : xmppQueue'[i].op = "send" => xmppQueue'[i].of \in Calls
        BY <1>1, <3>2
      <3> QED BY <2>1, <2>4, <3>1, <3>2, <3>3, OtherBlockTaken, DecidedCall DEF RunsError
    <2> QED BY <1>6, <2>2, <2>3, <2>4, RunXmppQueueCases
  <1> QED BY <1>2, <1>3, <1>4, <1>5, <1>6, DecidedAnswer, Steps

\* Whatever begins or ends while an element is on its way, a stanza given to sendElement:
\* waits in one place, or was written, filtered or reported as failed once.
THEOREM OneFateCorrect == Spec => []OneFate
  <1>1. Init => Decided
    BY DEF Init, Decided, Calls
  <1>2. TypeOK /\ SendOrder /\ [Next]_vars => SendOrder'
    BY SendOrderStep
  <1>3. TypeOK /\ SendOrder /\ Decided /\ [Next]_vars => Decided'
    BY DecidedStep
  <1>4. TypeOK /\ Decided => OneFate
    BY DecidedIsOneFate
  <1> QED BY <1>1, <1>2, <1>3, <1>4, SendOrderInit, TypeCorrect, PTL DEF Spec

----------------------------------------------------------------------------
(* Receipts.                                                                   *)

\* The receipt of call n, with signals g, is in list r once and not signalled, or signalled
\* once and not there.
Settled(n, g, r) ==
    \/ g = {} /\ Count(r, n) = 1
    \/ (\E x : g = {x}) /\ Count(r, n) = 0

Pending ==
    /\ \A i \in 1..Len(receipts) : sent[receipts[i]].receipt
    /\ \A n \in Calls : sent[n].receipt =>
          Settled(n, signalled[n], receipts) /\ (connected \/ signalled[n] # {})

LEMMA ReceiptFacts ==
    ASSUME TypeOK
    PROVE  /\ receipts \in Seq(Calls) /\ DOMAIN receipts = 1..Len(receipts) /\ Len(receipts) \in Nat
           /\ \A i \in 1..Len(receipts) : receipts[i] \in Calls
           /\ signalled \in Seq(SUBSET {"success", "failure"}) /\ DOMAIN signalled = Calls
           /\ \A n \in Calls : signalled[n] \subseteq {"success", "failure"}
  <1>1. receipts \in Seq(Calls)
    BY DEF TypeOK, SendTypes
  <1>2. /\ signalled \in Seq(SUBSET {"success", "failure"}) /\ Len(signalled) = Len(sent)
        /\ Calls = 1..Len(sent) /\ Len(sent) \in Nat
    BY CallFacts DEF TypeOK, CallTypes
  <1>3. DOMAIN signalled = Calls
    BY <1>2
  <1> QED BY <1>1, <1>2, <1>3

\* It is what the property counts.
LEMMA PendingIsConserved ==
    ASSUME TypeOK, Pending
    PROVE  ReceiptConserved
  <1> SUFFICES ASSUME NEW n \in Calls, sent[n].receipt
               PROVE  /\ Cardinality(signalled[n]) + Places(receipts, LAMBDA m : m = n) = 1
                      /\ connected \/ signalled[n] # {}
    BY DEF ReceiptConserved
  <1>1. Places(receipts, LAMBDA m : m = n) = Count(receipts, n)
    BY ReceiptFacts DEF Places, Count
  <1>2. Cardinality({}) = 0 /\ \A x : Cardinality({x}) = 1
    BY FS_EmptySet, FS_Singleton
  <1>3. Settled(n, signalled[n], receipts) /\ (connected \/ signalled[n] # {})
    BY DEF Pending
  <1>4. \/ Cardinality(signalled[n]) = 0 /\ Count(receipts, n) = 1
        \/ Cardinality(signalled[n]) = 1 /\ Count(receipts, n) = 0
    BY <1>2, <1>3, Zenon DEF Settled
  <1>5. Cardinality(signalled[n]) + Count(receipts, n) = 1
    BY <1>4
  <1> QED BY <1>1, <1>3, <1>5

\* A step that leaves the receipts alone.
LEMMA PendingFrame ==
    ASSUME TypeOK, Pending, UNCHANGED <<receipts, signalled>>, SameCalls, Calls' = Calls,
           connected => connected'
    PROVE  Pending'
  <1>1. \A i \in 1..Len(receipts) : sent'[receipts[i]].receipt
    BY ReceiptFacts DEF Pending, SameCalls
  <1>2. ASSUME NEW n \in Calls, sent'[n].receipt
        PROVE  Settled(n, signalled'[n], receipts') /\ (connected' \/ signalled'[n] # {})
    <2>1. sent[n].receipt
      BY <1>2 DEF SameCalls
    <2>2. Settled(n, signalled[n], receipts) /\ (connected \/ signalled[n] # {})
      BY <2>1 DEF Pending
    <2> QED BY <2>2
  <1> QED BY <1>1, <1>2 DEF Pending

\* The receipt of a new call, if it has one, comes last.
LEMMA PendingCall ==
    ASSUME TypeOK, Pending, NEW e \in Elements(Len(sent)), SendElement(e), connected' = connected
    PROVE  Pending'
  <1> DEFINE made == connected /\ e.receipt
             c == [e EXCEPT !.receipt = made]
             N == Len(sent)
  <1>1. /\ N \in Nat /\ Calls = 1..N /\ Calls' = Calls \cup {N + 1} /\ N + 1 \notin Calls
        /\ \A m \in Calls : sent'[m] = sent[m]
    BY NewCall
  <1>2. /\ sent' = Append(sent, c) /\ signalled' = Append(signalled, {})
        /\ receipts' = IF made THEN Append(receipts, N + 1) ELSE receipts
    BY DEF SendElement
  <1>3. sent'[N + 1] = c
    <2>1. sent \in Seq([form : Forms, receipt : BOOLEAN, content : Nat \ {0}])
      BY DEF TypeOK, CallTypes
    <2> HIDE DEF c
    <2> DEFINE T == [form : Forms, receipt : BOOLEAN, content : Nat \ {0}] \cup {c}
    <2>2. sent \in Seq(T) /\ c \in T
      BY <2>1, SeqMonotone
    <2> HIDE DEF T
    <2>3. Append(sent, c)[N + 1] = c
      BY <2>2, AppendFacts
    <2>4. sent' = Append(sent, c)
      BY <1>2
    <2> HIDE DEF N
    <2> QED BY <2>3, <2>4
  <1>4. c.receipt = made
    BY DEF Elements
  <1>5. signalled'[N + 1] = {} /\ \A m \in Calls : signalled'[m] = signalled[m]
    <2>1. /\ signalled \in Seq(SUBSET {"success", "failure"}) /\ Len(signalled) = N
          /\ {} \in SUBSET {"success", "failure"}
      BY DEF TypeOK, CallTypes
    <2> QED BY <1>1, <1>2, <2>1, AppendFacts
  <1>6. Count(receipts, N + 1) = 0
    <2>1. \A i \in 1..Len(receipts) : receipts[i] # N + 1
      BY <1>1, ReceiptFacts
    <2> QED BY <2>1, ReceiptFacts, CountFacts
  <1>7. Grown(receipts, Append(receipts, N + 1), N + 1)
    <2>1. receipts \in Seq(Calls') /\ N + 1 \in Calls'
      BY <1>1, ReceiptFacts, SeqMonotone
    <2> QED BY <2>1, AppendGrows
  <1> HIDE DEF c, N
  <1>8. CASE ~made
    <2>1. receipts' = receipts /\ ~sent'[N + 1].receipt
      BY <1>2, <1>3, <1>4, <1>8
    <2>2. \A i \in 1..Len(receipts') : sent'[receipts'[i]].receipt
      BY <1>1, <2>1, ReceiptFacts DEF Pending
    <2>3. ASSUME NEW n \in Calls', sent'[n].receipt
          PROVE  Settled(n, signalled'[n], receipts') /\ (connected' \/ signalled'[n] # {})
      <3>1. n \in Calls /\ sent[n].receipt
        BY <1>1, <2>1, <2>3
      <3> QED BY <1>5, <2>1, <3>1 DEF Pending
    <2> QED BY <2>2, <2>3 DEF Pending
  <1>9. CASE made
    <2>1. receipts' = Append(receipts, N + 1) /\ sent'[N + 1].receipt /\ connected
      BY <1>2, <1>3, <1>4, <1>9
    <2>2. \A i \in 1..Len(receipts') : receipts'[i] = N + 1
              \/ (i \in 1..Len(receipts) /\ receipts'[i] = receipts[i])
      BY <1>7, <2>1 DEF Grown
    <2>3. ASSUME NEW i \in 1..Len(receipts') PROVE sent'[receipts'[i]].receipt
      <3>1. CASE receipts'[i] = N + 1
        BY <2>1, <3>1
      <3>2. CASE i \in 1..Len(receipts) /\ receipts'[i] = receipts[i]
        <4>1. receipts[i] \in Calls /\ sent[receipts[i]].receipt
          BY <3>2, ReceiptFacts DEF Pending
        <4>2. sent'[receipts[i]] = sent[receipts[i]]
          BY <1>1, <4>1
        <4> QED BY <3>2, <4>1, <4>2
      <3> QED BY <2>2, <3>1, <3>2
    <2>4. ASSUME NEW n \in Calls, sent'[n].receipt
          PROVE  Settled(n, signalled'[n], receipts')
      <3>1. Count(receipts', n) = Count(receipts, n) + Same(N + 1, n) /\ Count(receipts, n) \in Nat
        BY <1>7, <2>1, CountGrown
      <3>2. Same(N + 1, n) = 0
        BY <1>1 DEF Same
      <3>3. Count(receipts', n) = Count(receipts, n)
        BY <3>1, <3>2
      <3>4. Settled(n, signalled[n], receipts) /\ signalled'[n] = signalled[n]
        BY <1>1, <1>5, <2>4 DEF Pending
      <3> QED BY <3>3, <3>4 DEF Settled
    <2>5. Settled(N + 1, signalled'[N + 1], receipts')
      <3>1. Count(receipts', N + 1) = Count(receipts, N + 1) + Same(N + 1, N + 1)
        BY <1>7, <2>1, CountGrown
      <3>2. Count(receipts', N + 1) = 1
        BY <1>6, <3>1 DEF Same
      <3> QED BY <1>5, <3>2 DEF Settled
    <2> QED BY <1>1, <2>1, <2>3, <2>4, <2>5 DEF Pending
  <1> QED BY <1>8, <1>9

\* A write is done, and the first of the receipts may be signalled.
LEMMA PendingWrite ==
    ASSUME TypeOK, Pending, DidWriteData
    PROVE  Pending'
  <1>1. sent' = sent /\ connected' = connected /\ Calls' = Calls
    BY DEF DidWriteData, connVars, Calls
  <1>2. CASE ~SignalsReceipt(Head(writing))
    <2>1. UNCHANGED <<receipts, signalled>>
      BY <1>2 DEF DidWriteData, receiptVars
    <2> QED BY <1>1, <2>1, PendingFrame DEF SameCalls
  <1>3. CASE SignalsReceipt(Head(writing))
    <2> DEFINE x == Head(receipts)
    <2>1. /\ receipts # <<>> /\ receipts' = Tail(receipts)
          /\ signalled' = [signalled EXCEPT ![x] = signalled[x] \cup {"success"}]
      BY <1>3 DEF DidWriteData, SignalsReceipt
    <2>2. x = receipts[1] /\ 1 \in 1..Len(receipts) /\ x \in Calls
      BY <2>1, ReceiptFacts, TailFacts
    <2>3. Shrunk(receipts, receipts', x)
      BY <2>1, ReceiptFacts, TailShrinks
    <2>4. sent[x].receipt
      BY <2>2 DEF Pending
    <2> HIDE DEF x
    <2>5. \A n \in Calls : Count(receipts, n) = Count(receipts', n) + Same(x, n)
                           /\ Count(receipts', n) \in Nat
      BY <2>3, CountShrunk
    <2>6. \A n \in Calls : signalled'[n] = IF n = x THEN signalled[x] \cup {"success"}
                                           ELSE signalled[n]
      BY <2>1, ReceiptFacts
    <2>7. \A i \in 1..Len(receipts') : sent'[receipts'[i]].receipt
      BY <1>1, <2>3 DEF Shrunk, Pending
    <2>8. Settled(x, signalled'[x], receipts') /\ signalled'[x] # {}
      <3>1. Count(receipts, x) = Count(receipts', x) + 1 /\ Count(receipts', x) \in Nat
        BY <2>2, <2>5 DEF Same
      <3>2. Count(receipts, x) # 0
        BY <3>1
      <3>3. signalled[x] = {} /\ Count(receipts, x) = 1
        BY <2>2, <2>4, <3>2 DEF Pending, Settled
      <3>4. Count(receipts', x) = 0
        BY <3>1, <3>3
      <3>5. signalled'[x] = {"success"}
        BY <2>2, <2>6, <3>3
      <3> QED BY <3>4, <3>5 DEF Settled
    <2>9. ASSUME NEW n \in Calls, n # x, sent[n].receipt
          PROVE  Settled(n, signalled'[n], receipts') /\ (connected \/ signalled'[n] # {})
      <3>1. Count(receipts, n) = Count(receipts', n) + Same(x, n) /\ Count(receipts', n) \in Nat
        BY <2>5
      <3>2. Same(x, n) = 0
        BY <2>9 DEF Same
      <3>3. Count(receipts', n) = Count(receipts, n)
        BY <3>1, <3>2
      <3>4. signalled'[n] = signalled[n]
        BY <2>6, <2>9
      <3>5. Settled(n, signalled[n], receipts) /\ (connected \/ signalled[n] # {})
        BY <2>9 DEF Pending
      <3> QED BY <3>3, <3>4, <3>5 DEF Settled
    <2> QED BY <1>1, <2>7, <2>8, <2>9 DEF Pending
  <1> QED BY <1>2, <1>3

\* The receipts that are pending when the connection ends have failed, and no others.
LEMMA PendingDisconnect ==
    ASSUME TypeOK, Pending, Disconnect
    PROVE  Pending'
  <1>1. /\ sent' = sent /\ Calls' = Calls /\ receipts' = <<>> /\ Len(receipts') = 0
        /\ signalled' = FailsReceipts
    BY DEF Disconnect, Calls
  <1>2. ASSUME NEW n PROVE Count(receipts', n) = 0
    <2> DEFINE r == receipts'
    <2>1. Len(r) \in Nat /\ \A i \in 1..Len(r) : r[i] # n
      BY <1>1
    <2> HIDE DEF r
    <2>2. Count(r, n) = 0
      BY <2>1, CountFacts
    <2> QED BY <2>2 DEF r
  <1>3. ASSUME NEW n \in Calls, sent[n].receipt
        PROVE  \E x : signalled'[n] = {x}
    <2>1. signalled'[n] = IF \E i \in 1..Len(receipts) : receipts[i] = n
                          THEN signalled[n] \cup {"failure"} ELSE signalled[n]
      BY <1>1, ReceiptFacts DEF FailsReceipts
    <2>2. Settled(n, signalled[n], receipts)
      BY <1>3 DEF Pending
    <2>3. Count(receipts, n) = 0 <=> \A i \in 1..Len(receipts) : receipts[i] # n
      BY ReceiptFacts, CountFacts
    <2>4. CASE signalled[n] = {} /\ Count(receipts, n) = 1
      <3>1. \E i \in 1..Len(receipts) : receipts[i] = n
        BY <2>3, <2>4
      <3>2. signalled'[n] = {"failure"}
        BY <2>1, <2>4, <3>1
      <3> QED BY <3>2
    <2>5. CASE (\E x : signalled[n] = {x}) /\ Count(receipts, n) = 0
      BY <2>1, <2>3, <2>5
    <2> QED BY <2>2, <2>4, <2>5 DEF Settled
  <1>4. ASSUME NEW n \in Calls, sent[n].receipt
        PROVE  Settled(n, signalled'[n], receipts') /\ signalled'[n] # {}
    BY <1>2, <1>3, <1>4 DEF Settled
  <1> QED BY <1>1, <1>4 DEF Pending

LEMMA PendingStep ==
    ASSUME TypeOK, Pending, [Next]_vars
    PROVE  Pending'
  <1>1. CASE Calling
    BY <1>1, PendingCall DEF Calling, connVars
  <1>2. CASE \/ Idle
             \/ \E form \in InForms : Receive(form)
             \/ \E d \in Responders, yes \in BOOLEAN : DidReceiveIQ(d, yes)
             \/ \E k \in Kinds : AnswerWillSend(k)
             \/ AnswerWillReceive \/ RunDidReceiveIqQueue
    <2>1. UNCHANGED <<receipts, signalled, sent>> /\ Calls' = Calls /\ (connected => connected')
      BY <1>2 DEF Idle, Receive, DidReceiveIQ, AnswerWillSend, AnswerWillReceive,
         RunDidReceiveIqQueue, sendVars, receiptVars, connVars, Calls
    <2> QED BY <2>1, PendingFrame DEF SameCalls
  <1>3. CASE RunXmppQueue
    <2>1. connected' = connected
      BY <1>3, RunXmppQueueCases DEF connVars
    <2>2. CASE \/ \E n : RunsSend(n)
               \/ \E s, version : RunsReceive(s, version)
      <3>1. UNCHANGED <<receipts, signalled, sent>> /\ Calls' = Calls
        BY <2>2 DEF RunsSend, RunsReceive, sendVars, receiptVars, Calls
      <3> QED BY <2>1, <3>1, PendingFrame DEF SameCalls
    <2>3. CASE \E s : RunsError(s)
      <3>1. Element("result", FALSE, Len(sent) + 1) \in Elements(Len(sent))
        BY SentElements DEF Forms
      <3> QED BY <2>1, <2>3, <3>1, PendingCall DEF RunsError
    <2> QED BY <1>3, <2>2, <2>3, RunXmppQueueCases
  <1> QED BY <1>1, <1>2, <1>3, PendingWrite, PendingDisconnect, Steps

\* A receipt is pending in one place while the stream is connected, and signalled once after:
\* no thread waits for the fate of an element that was decided.
THEOREM ReceiptsCorrect == Spec => []ReceiptConserved
  <1>1. Init => Pending
    BY DEF Init, Pending, Calls
  <1>2. TypeOK /\ Pending /\ [Next]_vars => Pending'
    BY PendingStep
  <1>3. TypeOK /\ Pending => ReceiptConserved
    BY PendingIsConserved
  <1> QED BY <1>1, <1>2, <1>3, TypeCorrect, PTL DEF Spec

\* In a list that rises the first member is the least, and is there once.
LEMMA RisingHead ==
    ASSUME NEW S, S \subseteq Nat, NEW q \in Seq(S), q # <<>>, Rising(Nat, q)
    PROVE  /\ Head(q) \in ToSet(q) /\ Rising(Nat, Tail(q)) /\ Tail(q) \in Seq(S)
           /\ ToSet(Tail(q)) = ToSet(q) \ {Head(q)}
           /\ \A n \in ToSet(q) : Head(q) <= n
  <1> DEFINE r == Tail(q)
             x == Head(q)
  <1>1. Shrunk(q, r, x) /\ r \in Seq(S) /\ x \in S
    BY TailShrinks, TailFacts
  <1>2. Rising(Nat, r) /\ Below(Nat, x, r)
    BY <1>1, ShrunkFacts
  <1>3. \A n : n \in ToSet(r) => n \in ToSet(q)
    BY MemberTail
  <1>4. \A n : n \in ToSet(q) => n = x \/ n \in ToSet(r)
    BY MemberTail
  <1>5. x \in ToSet(q)
    BY MemberTail
  <1> HIDE DEF r, x
  <1>6. \A n \in ToSet(r) : x < n
    <2> SUFFICES ASSUME NEW n \in ToSet(r) PROVE x < n
      OBVIOUS
    <2>1. PICK i \in 1..Len(r) : r[i] = n
      BY <1>1, MemberFacts
    <2>2. r[i] \in S
      BY <1>1
    <2> QED BY <1>1, <1>2, <2>1, <2>2 DEF Below
  <1>7. \A n \in ToSet(q) : n \in Nat
    <2> SUFFICES ASSUME NEW n \in ToSet(q) PROVE n \in Nat
      OBVIOUS
    <2>1. PICK i \in 1..Len(q) : q[i] = n
      BY MemberFacts
    <2>2. q[i] \in S
      OBVIOUS
    <2> QED BY <2>1, <2>2
  <1>8. \A n \in ToSet(q) : x <= n
    BY <1>4, <1>5, <1>6, <1>7
  <1>9. x \notin ToSet(r)
    BY <1>5, <1>6, <1>7
  <1> QED BY <1>1, <1>2, <1>3, <1>4, <1>5, <1>8, <1>9 DEF r, x

\* As long as no delegate is asked, the receipts pending are those of the elements that are
\* with the socket, in the same order.
InStep ==
    /\ Rising(Nat, writing) /\ Rising(Nat, receipts)
    /\ ToSet(receipts) = {n \in ToSet(writing) : sent[n].receipt}
    /\ ToSet(writing) \subseteq ToSet(wire)
    /\ ReceiptTrue

StepsMatch == questioned = {} => InStep

LEMMA WritingFacts ==
    ASSUME TypeOK
    PROVE  /\ writing \in Seq(Calls) /\ receipts \in Seq(Calls) /\ wire \in Seq(Calls)
           /\ ToSet(writing) \subseteq Calls /\ ToSet(receipts) \subseteq Calls
           /\ ToSet(wire) \subseteq Calls /\ Calls \subseteq Nat
  <1>1. writing \in Seq(Calls) /\ receipts \in Seq(Calls) /\ wire \in Seq(Calls)
    BY DEF TypeOK, SendTypes
  <1>2. Calls \subseteq Nat
    BY CallFacts DEF TypeOK
  <1>3. ASSUME NEW q \in Seq(Calls) PROVE ToSet(q) \subseteq Calls
    <2> SUFFICES ASSUME NEW n \in ToSet(q) PROVE n \in Calls
      OBVIOUS
    <2>1. PICK i \in 1..Len(q) : q[i] = n
      BY MemberFacts
    <2> QED BY <2>1
  <1> QED BY <1>1, <1>2, <1>3

\* A step that leaves the receipts alone.
LEMMA InStepFrame ==
    ASSUME TypeOK, StepsMatch, UNCHANGED <<receipts, signalled, writing, wire, questioned>>,
           SameCalls, Calls' = Calls
    PROVE  StepsMatch'
  <1> SUFFICES ASSUME questioned = {}, InStep PROVE InStep'
    BY DEF StepsMatch
  <1>1. ToSet(receipts') = {n \in ToSet(writing') : sent'[n].receipt}
    <2>1. \A n \in ToSet(writing) : sent'[n] = sent[n]
      BY WritingFacts DEF SameCalls
    <2> QED BY <2>1 DEF InStep
  <1>2. ReceiptTrue'
    BY DEF InStep, ReceiptTrue
  <1> QED BY <1>1, <1>2 DEF InStep

\* A new call goes to the socket with its receipt, or nowhere.
LEMMA InStepCall ==
    ASSUME TypeOK, StepsMatch, NEW e \in Elements(Len(sent)), SendElement(e)
    PROVE  StepsMatch'
  <1> SUFFICES ASSUME questioned' = {} PROVE InStep'
    BY DEF StepsMatch
  <1> DEFINE made == connected /\ e.receipt
             c == [e EXCEPT !.receipt = made]
             N == Len(sent)
             x == N + 1
  <1>1. /\ N \in Nat /\ Calls = 1..N /\ Calls' = Calls \cup {x} /\ x \notin Calls
        /\ \A m \in Calls : sent'[m] = sent[m]
    BY NewCall
  <1>2. sent' = Append(sent, c)
    BY DEF SendElement
  <1>3. receipts' = IF made THEN Append(receipts, x) ELSE receipts
    BY DEF SendElement
  <1>4. sent'[x] = c
    <2>1. sent \in Seq([form : Forms, receipt : BOOLEAN, content : Nat \ {0}])
      BY DEF TypeOK, CallTypes
    <2> HIDE DEF c
    <2> DEFINE T == [form : Forms, receipt : BOOLEAN, content : Nat \ {0}] \cup {c}
    <2>2. sent \in Seq(T) /\ c \in T
      BY <2>1, SeqMonotone
    <2> HIDE DEF T
    <2>3. Append(sent, c)[N + 1] = c
      BY <2>2, AppendFacts
    <2> HIDE DEF N
    <2> QED BY <1>2, <2>3
  <1>5. c.receipt = made
    BY DEF Elements
  <1>6. signalled'[x] = {} /\ \A m \in Calls : signalled'[m] = signalled[m]
    <2>1. signalled' = Append(signalled, {})
      BY DEF SendElement
    <2>2. /\ signalled \in Seq(SUBSET {"success", "failure"}) /\ Len(signalled) = N
          /\ {} \in SUBSET {"success", "failure"}
      BY DEF TypeOK, CallTypes
    <2> QED BY <1>1, <2>1, <2>2, AppendFacts
  <1>7. questioned = {} /\ InStep
    <2>1. questioned \subseteq questioned'
      BY DEF SendElement, SendWithTag, ContinueSend
    <2> QED BY <2>1 DEF StepsMatch
  <1>8. IF connected THEN wire' = Append(wire, x) /\ writing' = Append(writing, x)
        ELSE wire' = wire /\ writing' = writing
    BY <1>1 DEF SendElement, SendWithTag, ContinueSend
  <1>9. /\ ToSet(writing) \subseteq Calls /\ ToSet(receipts) \subseteq Calls
        /\ ToSet(wire) \subseteq Calls
        /\ writing \in Seq(Calls') /\ receipts \in Seq(Calls') /\ wire \in Seq(Calls')
        /\ \A q \in Seq(Calls) : q \in Seq(Calls')
    <2>1. Calls \subseteq Calls'
      BY <1>1
    <2>2. \A q \in Seq(Calls) : q \in Seq(Calls')
      BY <2>1, SeqMonotone
    <2> QED BY <2>2, WritingFacts
  <1>10. /\ ToSet(Append(writing, x)) = ToSet(writing) \cup {x}
         /\ ToSet(Append(wire, x)) = ToSet(wire) \cup {x}
         /\ ToSet(Append(receipts, x)) = ToSet(receipts) \cup {x}
    BY <1>1, <1>9, MemberAppend
  <1>11. Rising(Nat, Append(writing, x)) /\ Rising(Nat, Append(receipts, x))
    <2>1. ASSUME NEW q \in Seq(Calls), Rising(Nat, q) PROVE Rising(Nat, Append(q, x))
      <3>1. Grown(q, Append(q, x), x)
        <4>1. q \in Seq(Calls') /\ x \in Calls'
          BY <1>1, <1>9
        <4> QED BY <4>1, AppendGrows
      <3>2. Above(Nat, q, x)
        <4>1. \A i \in 1..Len(q) : q[i] \in Calls
          OBVIOUS
        <4> QED BY <1>1, <4>1 DEF Above
      <3> QED BY <2>1, <3>1, <3>2, GrownFacts
    <2> QED BY <1>7, <2>1, WritingFacts DEF InStep
  <1> HIDE DEF c, x, N
  <1>12. sent'[x].receipt <=> made
    BY <1>4, <1>5
  <1>13. ASSUME NEW n \in Calls', "success" \in signalled'[n]
         PROVE  n \in Calls /\ n \in ToSet(wire) \ ToSet(writing) /\ n # x
    <2>1. n # x /\ n \in Calls
      BY <1>1, <1>6, <1>13
    <2> QED BY <1>6, <1>7, <1>13, <2>1 DEF InStep, ReceiptTrue
  <1>14. CASE ~connected
    <2>1. UNCHANGED <<wire, writing, receipts>>
      BY <1>3, <1>8, <1>14
    <2>2. ReceiptTrue'
      BY <1>13, <2>1 DEF ReceiptTrue
    <2>3. ToSet(receipts') = {n \in ToSet(writing') : sent'[n].receipt}
      BY <1>1, <1>7, <1>9, <2>1 DEF InStep
    <2> QED BY <1>7, <2>1, <2>2, <2>3 DEF InStep
  <1>15. CASE connected
    <2>1. wire' = Append(wire, x) /\ writing' = Append(writing, x)
      BY <1>8, <1>15
    <2>2. ReceiptTrue'
      BY <1>10, <1>13, <2>1 DEF ReceiptTrue
    <2>3. ToSet(receipts') = {n \in ToSet(writing') : sent'[n].receipt}
      <3>1. {n \in ToSet(writing) : sent'[n].receipt} = ToSet(receipts)
        BY <1>1, <1>7, <1>9 DEF InStep
      <3>2. CASE made
        <4>1. ToSet(receipts') = ToSet(receipts) \cup {x} /\ sent'[x].receipt
          BY <1>3, <1>10, <1>12, <3>2
        <4> QED BY <1>10, <2>1, <3>1, <4>1
      <3>3. CASE ~made
        <4>1. ToSet(receipts') = ToSet(receipts) /\ ~sent'[x].receipt
          BY <1>3, <1>12, <3>3
        <4> QED BY <1>10, <2>1, <3>1, <4>1
      <3> QED BY <3>2, <3>3
    <2>4. Rising(Nat, writing') /\ Rising(Nat, receipts')
      BY <1>3, <1>7, <1>11, <2>1 DEF InStep
    <2>5. ToSet(writing') \subseteq ToSet(wire')
      BY <1>7, <1>10, <2>1 DEF InStep
    <2> QED BY <2>2, <2>3, <2>4, <2>5 DEF InStep
  <1> QED BY <1>14, <1>15

\* A write is done: the receipt signalled is that of the element written.
LEMMA InStepWrite ==
    ASSUME TypeOK, Pending, StepsMatch, DidWriteData
    PROVE  StepsMatch'
  <1> SUFFICES ASSUME questioned = {}, InStep PROVE InStep'
    BY DEF StepsMatch, DidWriteData
  <1> DEFINE h == Head(writing)
             x == Head(receipts)
  <1>1. /\ writing # <<>> /\ writing' = Tail(writing) /\ UNCHANGED <<sent, wire>> /\ Calls' = Calls
        /\ IF SignalsReceipt(h)
           THEN /\ signalled' = [signalled EXCEPT ![x] = signalled[x] \cup {"success"}]
                /\ receipts' = Tail(receipts)
           ELSE UNCHANGED receiptVars
    BY DEF DidWriteData, Calls
  <1>2. /\ h \in ToSet(writing) /\ Rising(Nat, writing')
        /\ ToSet(writing') = ToSet(writing) \ {h}
        /\ \A n \in ToSet(writing) : h <= n
    BY <1>1, WritingFacts, RisingHead DEF InStep
  <1>3. receipts # <<>> =>
            /\ x \in ToSet(receipts) /\ Rising(Nat, Tail(receipts))
            /\ ToSet(Tail(receipts)) = ToSet(receipts) \ {x}
            /\ \A n \in ToSet(receipts) : x <= n
    BY WritingFacts, RisingHead DEF InStep
  <1>4. ToSet(receipts) = {n \in ToSet(writing) : sent[n].receipt}
        /\ ToSet(writing) \subseteq Nat /\ ToSet(writing) \subseteq Calls
        /\ ToSet(writing) \subseteq ToSet(wire)
    BY WritingFacts DEF InStep
  <1> HIDE DEF h, x
  <1>5. ToSet(writing') \subseteq ToSet(wire')
    BY <1>1, <1>2, <1>4
  <1>6. CASE SignalsReceipt(h)
    <2>1. receipts # <<>> /\ h \in ToSet(receipts)
      BY <1>2, <1>4, <1>6 DEF SignalsReceipt
    <2>2. x = h
      <3>1. x \in ToSet(writing) /\ x \in Nat /\ h \in Nat
        BY <1>2, <1>3, <1>4, <2>1
      <3>2. x <= h /\ h <= x
        BY <1>2, <1>3, <2>1, <3>1
      <3> QED BY <3>1, <3>2
    <2>3. receipts' = Tail(receipts) /\ Rising(Nat, receipts')
          /\ ToSet(receipts') = ToSet(receipts) \ {h}
      BY <1>1, <1>3, <1>6, <2>1, <2>2
    <2>4. ToSet(receipts') = {n \in ToSet(writing') : sent'[n].receipt}
      BY <1>1, <1>2, <1>4, <2>3
    <2>5. ReceiptTrue'
      <3> SUFFICES ASSUME NEW n \in Calls, "success" \in signalled'[n]
                   PROVE  n \in ToSet(wire) \ ToSet(writing')
        BY <1>1 DEF ReceiptTrue
      <3>1. CASE n = h
        BY <1>2, <1>4, <3>1
      <3>2. CASE n # h
        <4>1. signalled'[n] = signalled[n]
          BY <1>1, <1>6, <2>2, <3>2, ReceiptFacts
        <4>2. n \in ToSet(wire) \ ToSet(writing)
          BY <4>1 DEF InStep, ReceiptTrue
        <4> QED BY <1>2, <4>2
      <3> QED BY <3>1, <3>2
    <2> QED BY <1>2, <1>5, <2>3, <2>4, <2>5 DEF InStep
  <1>7. CASE ~SignalsReceipt(h)
    <2>1. UNCHANGED <<receipts, signalled>>
      BY <1>1, <1>7 DEF receiptVars
    <2>2. ~sent[h].receipt
      <3>1. ASSUME receipts = <<>> PROVE ToSet(receipts) = {}
        BY <3>1 DEF ToSet
      <3>2. sent[h].receipt => h \in ToSet(receipts)
        BY <1>2, <1>4
      <3> QED BY <1>7, <3>1, <3>2 DEF SignalsReceipt
    <2>3. ToSet(receipts') = {n \in ToSet(writing') : sent'[n].receipt}
      BY <1>1, <1>2, <1>4, <2>1, <2>2
    <2>4. ReceiptTrue'
      BY <1>1, <1>2, <2>1 DEF InStep, ReceiptTrue
    <2>5. Rising(Nat, receipts')
      BY <2>1 DEF InStep
    <2> QED BY <1>2, <1>5, <2>3, <2>4, <2>5 DEF InStep
  <1> QED BY <1>6, <1>7

\* The connection ends, and what is with the socket with it.
LEMMA InStepDisconnect ==
    ASSUME TypeOK, StepsMatch, Disconnect
    PROVE  StepsMatch'
  <1> SUFFICES ASSUME questioned = {}, InStep PROVE InStep'
    BY DEF StepsMatch, Disconnect
  <1>1. /\ receipts' = <<>> /\ writing' = <<>> /\ UNCHANGED <<sent, wire>> /\ Calls' = Calls
        /\ signalled' = FailsReceipts
    BY DEF Disconnect, Calls
  <1>2. ToSet(receipts') = {} /\ ToSet(writing') = {}
    BY <1>1 DEF ToSet
  <1>3. Rising(Nat, receipts') /\ Rising(Nat, writing')
    <2>1. Len(<<>>) = 0
      OBVIOUS
    <2> QED BY <1>1, <2>1 DEF Rising
  <1>4. ReceiptTrue'
    <2> SUFFICES ASSUME NEW n \in Calls, "success" \in signalled'[n]
                 PROVE  n \in ToSet(wire)
      BY <1>1, <1>2 DEF ReceiptTrue
    <2>1. signalled'[n] \in {signalled[n], signalled[n] \cup {"failure"}}
      BY <1>1, ReceiptFacts DEF FailsReceipts
    <2>2. "success" \in signalled[n]
      BY <2>1
    <2> QED BY <2>2 DEF InStep, ReceiptTrue
  <1>5. ToSet(receipts') = {n \in ToSet(writing') : sent'[n].receipt}
    BY <1>2
  <1>6. ToSet(writing') \subseteq ToSet(wire')
    BY <1>2
  <1> QED BY <1>3, <1>4, <1>5, <1>6 DEF InStep

LEMMA InStepStep ==
    ASSUME TypeOK, SendOrder, Pending, StepsMatch, [Next]_vars
    PROVE  StepsMatch'
  <1>1. CASE Calling
    BY <1>1, InStepCall DEF Calling
  <1>2. CASE \/ Idle
             \/ \E form \in InForms : Receive(form)
             \/ \E d \in Responders, yes \in BOOLEAN : DidReceiveIQ(d, yes)
             \/ \E k \in Kinds : AnswerWillSend(k)
             \/ AnswerWillReceive \/ RunDidReceiveIqQueue
    <2>1. UNCHANGED <<receipts, signalled, sent, writing, wire, questioned>> /\ Calls' = Calls
      BY <1>2 DEF Idle, Receive, DidReceiveIQ, AnswerWillSend, AnswerWillReceive,
         RunDidReceiveIqQueue, sendVars, receiptVars, Calls
    <2> QED BY <2>1, InStepFrame DEF SameCalls
  <1>3. CASE RunXmppQueue
    <2>1. CASE Head(xmppQueue).op = "send" /\ \E n : RunsSend(n)
      <3>1. questioned' = questioned
        BY <2>1 DEF RunsSend
      <3>2. questioned # {}
        <4>1. xmppQueue # <<>>
          BY <1>3, RunXmppQueueCases
        <4>2. Head(xmppQueue) = xmppQueue[1] /\ 1 \in 1..Len(xmppQueue)
          BY <4>1, OnTheWay, TailFacts
        <4> QED BY <2>1, <4>2 DEF SendOrder
      <3> QED BY <3>1, <3>2 DEF StepsMatch
    <2>2. CASE \E s, version : RunsReceive(s, version)
      <3>1. UNCHANGED <<receipts, signalled, sent, writing, wire, questioned>> /\ Calls' = Calls
        BY <2>2 DEF RunsReceive, sendVars, receiptVars, Calls
      <3> QED BY <3>1, InStepFrame DEF SameCalls
    <2>3. CASE \E s : RunsError(s)
      <3>1. Element("result", FALSE, Len(sent) + 1) \in Elements(Len(sent))
        BY SentElements DEF Forms
      <3> QED BY <2>3, <3>1, InStepCall DEF RunsError
    <2> QED BY <1>3, <2>1, <2>2, <2>3, RunXmppQueueCases
  <1> QED BY <1>1, <1>2, <1>3, InStepWrite, InStepDisconnect, Steps

LEMMA InStepInit == Init => StepsMatch
  <1> SUFFICES ASSUME Init PROVE InStep
    BY DEF StepsMatch
  <1>1. Len(writing) = 0 /\ Len(receipts) = 0 /\ Calls = {}
    BY DEF Init, Calls
  <1>2. ToSet(receipts) = {} /\ ToSet(writing) = {}
    BY DEF Init, ToSet
  <1>3. Rising(Nat, writing) /\ Rising(Nat, receipts)
    BY <1>1 DEF Rising
  <1> QED BY <1>1, <1>2, <1>3 DEF InStep, ReceiptTrue

\* Receipts are matched with elements by their place in a list.  As long as no delegate was
\* asked about an element, a receipt that says the element was sent is right.
THEOREM ReceiptTrueCorrect == Spec => []ReceiptTrueUnasked
  <1>1. TypeOK /\ SendOrder /\ [Next]_vars => SendOrder'
    BY SendOrderStep
  <1>2. Init => Pending
    BY DEF Init, Pending, Calls
  <1>3. TypeOK /\ Pending /\ [Next]_vars => Pending'
    BY PendingStep
  <1>4. TypeOK /\ SendOrder /\ Pending /\ StepsMatch /\ [Next]_vars => StepsMatch'
    BY InStepStep
  <1>5. StepsMatch => ReceiptTrueUnasked
    BY DEF StepsMatch, InStep, ReceiptTrueUnasked
  <1> QED BY <1>1, <1>2, <1>3, <1>4, <1>5, SendOrderInit, InStepInit, TypeCorrect, PTL DEF Spec

=============================================================================
